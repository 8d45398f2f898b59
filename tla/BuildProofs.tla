------------------------------ MODULE BuildProofs ------------------------------
(***************************************************************************)
(* Theorems about Build, for any components and assets and any number of   *)
(* edits and faults.                                                       *)
(***************************************************************************)
EXTENDS Build, SequenceTheorems, FiniteSetTheorems, TLAPS

(***************************************************************************)
(* The inductive invariant.  Its first part says what kind of thing the    *)
(* variables hold; todo has another kind in every stage.                   *)
(***************************************************************************)
AssetOK(p) ==
  /\ assets[p].public \in BOOLEAN
  /\ assets[p].content \in Contents
  /\ assets[p].name = <<assets[p].name[1], assets[p].name[2]>>
  /\ assets[p].public => assets[p].name = Assets[p].name
  /\ ~assets[p].public => assets[p].name[2] = assets[p].content

\* What CacheFiles has, in no order.
FixedFile(name) ==
  CacheFile(<<name, 0, FALSE>>, IF name = "manifest.json" THEN Manifest ELSE <<parsed>>)
CacheFileSet ==
  {FixedFile(name) : name \in {"code", "style.css", "manifest.json", "go.mod"}}
    \cup {AssetCacheFile(p) : p \in DOMAIN assets}

TypeInv ==
  /\ source \in DOMAIN Sources
  /\ parsed \in DOMAIN Sources
  /\ disk \in [DOMAIN Assets -> Contents \cup {Absent}]
  /\ rejects \in BOOLEAN
  /\ DOMAIN assets \subseteq DOMAIN Assets
  /\ \A p \in DOMAIN assets : AssetOK(p)
  /\ stage \in {"template", "style"} => todo \in Seq(URLs)
  /\ stage = "public" => todo \in Seq({p \in DOMAIN Assets : Assets[p].public})
  /\ stage = "generate" => todo \in Seq(CacheFileSet)
  /\ stage = "assets" => todo \in Seq(DOMAIN assets)

(***************************************************************************)
(* Until all of the cache is written dist is as the build found it.  From  *)
(* then on Ready holds, and an interrupted build leaves it so.             *)
(***************************************************************************)
Writing == {"cache", "generate", "static", "assets"}

Kept ==
  (stage \in {"template", "style", "public", "cache"} \/ (stage = "generate" /\ todo # <<>>))
    => dist = before

Passed ==
  /\ stage = "template" => Sources[parsed].verdict # "rejected"
  /\ stage \in {"style", "public"} \cup Writing =>
       Sources[parsed].verdict \in {"good", "unbuildable"} /\ ~rejects
  /\ stage \in Writing => ~Conflict

\* The cache has the files of this build only, and all of them but those in
\* rest.
FilledBut(rest) ==
  /\ DOMAIN cache \subseteq {f.name : f \in CacheFileSet}
  /\ \A f \in CacheFileSet \ rest : f.name \in DOMAIN cache /\ cache[f.name] = f.content

Ready ==
  /\ Sources[parsed].verdict \in {"good", "unbuildable"}
  /\ ~rejects
  /\ ~Conflict
  /\ FilledBut({})

Committed ==
  /\ stage = "generate" => FilledBut(Range(todo))
  /\ dist # before \/ stage \in {"static", "assets"} => Ready

BuildInv == TypeInv /\ Kept /\ Passed /\ Committed

(***************************************************************************)
(* For DistIsTheBuild: what every URL stands for, and what dist has while  *)
(* it is written.                                                          *)
(***************************************************************************)
URLsKept ==
  /\ stage \in {"template", "style"} =>
       Range(todo) \subseteq Range(Sources[parsed].template \o Sources[parsed].style)
  /\ ~RelativeToPublic =>
       /\ \A p \in DOMAIN assets : assets[p].public = Assets[p].public
       /\ \A url \in urls :
            /\ url.dir = ""
            /\ \E p \in DOMAIN assets :
                 url.name = assets[p].name /\ url.content = assets[p].content

AssetFiles == {assets[p].name : p \in DOMAIN assets}

StaticWritten ==
  reservedFiles \subseteq DOMAIN dist /\ \A n \in reservedFiles : dist[n] = StaticContent(n)

\* All assets but those in rest are in dist.
WrittenBut(rest) ==
  /\ DOMAIN dist \subseteq reservedFiles \cup AssetFiles
  /\ \A p \in DOMAIN assets \ rest :
       assets[p].name \in DOMAIN dist /\ dist[assets[p].name] = Written(p)

DistGrows ==
  /\ stage = "static" =>
       DOMAIN dist \subseteq reservedFiles /\ \A n \in DOMAIN dist : dist[n] = StaticContent(n)
  /\ stage = "assets" => StaticWritten /\ WrittenBut(Range(todo))
  /\ stage = "done" => StaticWritten /\ WrittenBut({})

DistInv == BuildInv /\ URLsKept /\ DistGrows

-----------------------------------------------------------------------------
(* Sequences and directories.                                              *)

LEMMA SetToSeqProperties ==
  ASSUME NEW S, IsFiniteSet(S)
  PROVE  /\ SetToSeq(S) \in Seq(S)
         /\ Range(SetToSeq(S)) = S
<1> DEFINE n == Cardinality(S)
           f == SetToSeq(S)
<1>1. n \in Nat /\ ExistsBijection(1 .. n, S)
  BY FS_CardinalityType
<1>2. f \in [1 .. n -> S] /\ IsInjective(f)
  BY <1>1 DEF SetToSeq, ExistsBijection, Bijection, Injection
<1>3. f \in Injection(1 .. n, S)
  BY <1>2 DEF Injection
<1>4. IsFiniteSet(1 .. n) /\ Cardinality(1 .. n) = n
  BY <1>1, FS_Interval
<1>5. f \in Surjection(1 .. n, S)
  BY <1>3, <1>4, <1>1, FS_CardinalityType, FS_Injection
<1>6. f \in Seq(S)
  BY <1>1, <1>2
<1> QED BY <1>2, <1>5, <1>6 DEF Surjection, Range

LEMMA HeadAndTail ==
  ASSUME NEW S, NEW s \in Seq(S), s # <<>>
  PROVE  /\ Head(s) \in S
         /\ Head(s) \in Range(s)
         /\ Tail(s) \in Seq(S)
         /\ Range(s) = {Head(s)} \cup Range(Tail(s))
<1>1. /\ Tail(s) \in Seq(S) /\ Len(s) \in Nat \ {0} /\ Len(Tail(s)) = Len(s) - 1
      /\ DOMAIN s = 1 .. Len(s) /\ DOMAIN Tail(s) = 1 .. Len(Tail(s))
      /\ \A i \in 1 .. Len(Tail(s)) : Tail(s)[i] = s[i + 1]
  BY HeadTailProperties, LenProperties, EmptySeq
<1>2. Head(s) = s[1] /\ Head(s) \in S
  BY HeadTailProperties
<1>3. ASSUME NEW i \in 1 .. Len(s)
      PROVE  s[i] = Head(s) \/ s[i] \in Range(Tail(s))
  <2>1. CASE i = 1
    BY <1>2, <2>1
  <2>2. CASE i # 1
    <3>1. i - 1 \in 1 .. Len(Tail(s)) /\ Tail(s)[i - 1] = s[i]
      BY <1>1, <2>2
    <3> QED BY <1>1, <3>1 DEF Range
  <2> QED BY <2>1, <2>2
<1>4. ASSUME NEW i \in 1 .. Len(Tail(s))
      PROVE  Tail(s)[i] \in Range(s)
  <2>1. i + 1 \in 1 .. Len(s)
    BY <1>1
  <2> QED BY <1>1, <2>1 DEF Range
<1>5. Head(s) \in Range(s)
  BY <1>1, <1>2 DEF Range
<1> QED BY <1>1, <1>2, <1>3, <1>4, <1>5 DEF Range

LEMMA RangeOfEmpty == Range(<<>>) = {}
BY DEF Range

LEMMA TemplateAndStyle ==
  ASSUME NEW s \in DOMAIN Sources
  PROVE  /\ Sources[s].template \in Seq(URLs) /\ Sources[s].style \in Seq(URLs)
         /\ Range(Sources[s].template \o Sources[s].style)
              = Range(Sources[s].template) \cup Range(Sources[s].style)
BY SourcesType, RangeConcatenation

-----------------------------------------------------------------------------
(* The files of the cache.                                                 *)

LEMMA CacheFilesProperties ==
  ASSUME TypeInv
  PROVE  /\ CacheFiles \in Seq(CacheFileSet)
         /\ Range(CacheFiles) = CacheFileSet
<1> DEFINE paths == SetToSeq(DOMAIN assets)
           first == <<CacheFile(<<"code", 0, FALSE>>, <<parsed>>),
                      CacheFile(<<"style.css", 0, FALSE>>, <<parsed>>)>>
           middle == [i \in DOMAIN paths |-> AssetCacheFile(paths[i])]
           last == <<CacheFile(<<"manifest.json", 0, FALSE>>, Manifest),
                     CacheFile(<<"go.mod", 0, FALSE>>, <<parsed>>)>>
<1>1. IsFiniteSet(DOMAIN assets)
  BY AssetsType, FS_Subset DEF TypeInv
<1>2. paths \in Seq(DOMAIN assets) /\ Range(paths) = DOMAIN assets
  BY <1>1, SetToSeqProperties
<1>3. DOMAIN paths = 1 .. Len(paths) /\ Len(paths) \in Nat
  BY <1>2, LenProperties
<1>4. /\ first[1] = FixedFile("code") /\ first[2] = FixedFile("style.css")
       /\ last[1] = FixedFile("manifest.json") /\ last[2] = FixedFile("go.mod")
  BY DEF FixedFile
<1>5. first \in Seq(CacheFileSet)
  BY <1>4 DEF CacheFileSet
<1>6. last \in Seq(CacheFileSet)
  BY <1>4 DEF CacheFileSet
<1>7. \A i \in DOMAIN paths : paths[i] \in DOMAIN assets
  BY <1>2 DEF Range
<1>8. middle \in Seq(CacheFileSet)
  BY <1>3, <1>7 DEF CacheFileSet
<1>9. Range(middle) = {AssetCacheFile(p) : p \in DOMAIN assets}
  <2>1. \A i \in DOMAIN paths : AssetCacheFile(paths[i]) \in {AssetCacheFile(p) : p \in DOMAIN assets}
    BY <1>7
  <2>2. ASSUME NEW p \in DOMAIN assets
        PROVE  \E i \in DOMAIN paths : AssetCacheFile(p) = middle[i]
    <3>1. PICK i \in DOMAIN paths : paths[i] = p
      BY <1>2 DEF Range
    <3> QED BY <3>1
  <2> QED BY <2>1, <2>2 DEF Range
<1>10. Range(first) = {first[1], first[2]} /\ Range(last) = {last[1], last[2]}
  <2>1. DOMAIN first = {1, 2} /\ DOMAIN last = {1, 2}
    OBVIOUS
  <2> HIDE DEF first, last
  <2> QED BY <2>1 DEF Range
<1>11. CacheFiles = (first \o middle) \o last
  BY DEF CacheFiles
<1>12. first \o middle \in Seq(CacheFileSet) /\ (first \o middle) \o last \in Seq(CacheFileSet)
  BY <1>5, <1>6, <1>8, ConcatProperties
<1>13. Range((first \o middle) \o last) = Range(first) \cup Range(middle) \cup Range(last)
  <2> HIDE DEF first, middle, last
  <2>1. Range(first \o middle) = Range(first) \cup Range(middle)
    BY <1>5, <1>8, RangeConcatenation
  <2>2. Range((first \o middle) \o last) = Range(first \o middle) \cup Range(last)
    BY <1>6, <1>12, RangeConcatenation
  <2> QED BY <2>1, <2>2
<1> HIDE DEF first, middle, last
<1> QED BY <1>9, <1>10, <1>11, <1>12, <1>13, <1>4 DEF CacheFileSet

\* Without a conflict in dist no two files of the cache have one name: the
\* hash of an asset is never 0, and public files are told by their directory.
LEMMA OneContentPerName ==
  ASSUME TypeInv, ~Conflict, NEW f \in CacheFileSet, NEW g \in CacheFileSet, f.name = g.name
  PROVE  f.content = g.content
<1> DEFINE names == {"code", "style.css", "manifest.json", "go.mod"}
<1>1. ASSUME NEW p \in DOMAIN assets, NEW n \in names
      PROVE  AssetCacheFile(p).name # FixedFile(n).name
  <2>1. FixedFile(n).name[2] = 0 /\ FixedFile(n).name[3] = FALSE
    BY DEF FixedFile, CacheFile
  <2>2. AssetCacheFile(p).name[3] = assets[p].public /\ AssetCacheFile(p).name[2] = assets[p].name[2]
    BY DEF AssetCacheFile, CacheFile
  <2>3. ~assets[p].public => assets[p].name[2] # 0
    BY ContentsType DEF TypeInv, AssetOK, Absent
  <2>4. assets[p].public \in BOOLEAN
    BY DEF TypeInv, AssetOK
  <2> QED BY <2>1, <2>2, <2>3, <2>4
<1>2. ASSUME NEW p \in DOMAIN assets, NEW q \in DOMAIN assets,
             AssetCacheFile(p).name = AssetCacheFile(q).name
      PROVE  p = q
  <2>1. assets[p].name[1] = assets[q].name[1] /\ assets[p].name[2] = assets[q].name[2]
    BY <1>2 DEF AssetCacheFile, CacheFile
  <2>2. assets[p].name = assets[q].name
    BY <2>1 DEF TypeInv, AssetOK
  <2> QED BY <2>2 DEF Conflict
<1>3. ASSUME NEW m \in names, NEW n \in names, FixedFile(m).name = FixedFile(n).name
      PROVE  m = n
  <2>1. FixedFile(m).name[1] = m /\ FixedFile(n).name[1] = n
    BY DEF FixedFile, CacheFile
  <2> QED BY <1>3, <2>1
<1>4. ASSUME NEW h \in CacheFileSet
      PROVE  (\E n \in names : h = FixedFile(n)) \/ (\E p \in DOMAIN assets : h = AssetCacheFile(p))
  BY DEF CacheFileSet
<1> HIDE DEF names
<1> QED BY <1>1, <1>2, <1>3, <1>4

-----------------------------------------------------------------------------
(* Types.                                                                  *)

LEMMA TypeInit == Init => TypeInv
<1> SUFFICES ASSUME Init PROVE TypeInv
  OBVIOUS
<1>1. DOMAIN assets = {}
  BY DEF Init
<1> QED BY <1>1 DEF Init, TypeInv

\* The asset of an URL or of a file in public/ that can be read.
LEMMA AddedAssetType ==
  ASSUME TypeInv, NEW p \in DOMAIN Assets, NEW public \in BOOLEAN, ~AddFails(p, public),
         public => Assets[p].public
  PROVE  LET a == AddedAsset(p, public)
         IN /\ a.public \in BOOLEAN
            /\ a.content \in Contents
            /\ a.name = <<a.name[1], a.name[2]>>
            /\ a.public => a.name = Assets[p].name
            /\ ~a.public => a.name[2] = a.content
<1>1. CASE p \in DOMAIN assets
  BY <1>1 DEF AddedAsset, TypeInv, AssetOK
<1>2. CASE p \notin DOMAIN assets
  <2>1. disk[p] \in Contents
    BY <1>2 DEF AddFails, TypeInv
  <2>2. Assets[p].name = <<Assets[p].name[1], Assets[p].name[2]>>
    BY AssetsType
  <2> QED BY <1>2, <2>1, <2>2 DEF AddedAsset, NewAsset
<1> QED BY <1>1, <1>2

LEMMA addAssetType ==
  ASSUME TypeInv, NEW p \in DOMAIN Assets, NEW public \in BOOLEAN, public => Assets[p].public,
         addAsset(p, public)
  PROVE  /\ rejects' \in BOOLEAN
         /\ DOMAIN assets' \subseteq DOMAIN Assets
         /\ \A q \in DOMAIN assets' : AssetOK(q)'
<1>1. CASE AddFails(p, public)
  BY <1>1 DEF addAsset, TypeInv, AssetOK
<1>2. CASE ~AddFails(p, public)
  <2>1. assets' = With(assets, p, AddedAsset(p, public)) /\ rejects' = rejects
    BY <1>2 DEF addAsset
  <2>2. /\ DOMAIN assets' = DOMAIN assets \cup {p}
        /\ assets'[p] = AddedAsset(p, public)
        /\ \A q \in DOMAIN assets \ {p} : assets'[q] = assets[q]
    BY <2>1 DEF With
  <2>3. AssetOK(p)'
    BY <1>2, <2>2, AddedAssetType DEF AssetOK
  <2>4. \A q \in DOMAIN assets \ {p} : AssetOK(q)'
    BY <2>2 DEF TypeInv, AssetOK
  <2> QED BY <2>1, <2>2, <2>3, <2>4 DEF TypeInv
<1> QED BY <1>1, <1>2

\* What only depends on what the build has found so far.
LEMMA FoundUnchanged ==
  ASSUME UNCHANGED found
  PROVE  /\ CacheFileSet' = CacheFileSet
         /\ CacheFiles' = CacheFiles
         /\ Conflict' = Conflict
         /\ Manifest' = Manifest
         /\ AssetFiles' = AssetFiles
         /\ RelativeToPublic' = RelativeToPublic
         /\ \A p : AssetOK(p)' = AssetOK(p)
BY DEF found, CacheFileSet, CacheFiles, FixedFile, AssetCacheFile, CacheFile, Written, Manifest,
       Conflict, AssetFiles, RelativeToPublic, AssetOK

LEMMA TypeNext == TypeInv /\ [Next]_vars => TypeInv'
<1> SUFFICES ASSUME TypeInv, [Next]_vars PROVE TypeInv'
  OBVIOUS
<1>1. CASE Edit
  BY <1>1, FoundUnchanged DEF Edit, TypeInv, found
<1>2. CASE StartBuild
  <2>1. Sources[source].template \in Seq(URLs)
    BY TemplateAndStyle DEF TypeInv
  <2>2. DOMAIN assets' = {}
    BY <1>2 DEF StartBuild
  <2>3. stage' \in {"rejected", "template"} /\ (stage' = "template" => todo' \in Seq(URLs))
    BY <1>2, <2>1 DEF StartBuild
  <2> QED BY <1>2, <2>2, <2>3 DEF StartBuild, TypeInv, project
<1>3. CASE RewriteURL
  <2> DEFINE url == Head(todo)
  <2>1. url \in URLs /\ Tail(todo) \in Seq(URLs)
    BY <1>3, HeadAndTail DEF RewriteURL, TypeInv
  <2>2. url.path \in DOMAIN Assets /\ url.rooted \in BOOLEAN
        /\ (url.rooted => Assets[url.path].public)
    BY <2>1 DEF URLs
  <2>3. addAsset(url.path, url.rooted)
    BY <1>3 DEF RewriteURL
  <2>4. /\ rejects' \in BOOLEAN /\ DOMAIN assets' \subseteq DOMAIN Assets
        /\ \A q \in DOMAIN assets' : AssetOK(q)'
    BY <2>2, <2>3, addAssetType
  <2>5. \/ stage' = "rejected"
        \/ stage' = stage /\ stage \in {"template", "style"} /\ todo' = Tail(todo)
    BY <1>3 DEF RewriteURL
  <2> QED BY <1>3, <2>1, <2>4, <2>5 DEF RewriteURL, TypeInv, project
<1>4. CASE FinishTemplates
  <2>1. Sources[parsed].style \in Seq(URLs)
    BY TemplateAndStyle DEF TypeInv
  <2>2. rejects' \in BOOLEAN
    <3>1. rejects' = (rejects \/ Sources[parsed].verdict = "ungenerable")
      BY <1>4 DEF FinishTemplates
    <3> QED BY <3>1, Zenon
  <2>3. stage' = "rejected" \/ (stage' = "style" /\ todo' = Sources[parsed].style)
    BY <1>4 DEF FinishTemplates
  <2>4. \A p \in DOMAIN assets' : AssetOK(p)'
    BY <1>4 DEF FinishTemplates, TypeInv, AssetOK
  <2> QED BY <1>4, <2>1, <2>2, <2>3, <2>4 DEF FinishTemplates, TypeInv, project
<1>5. CASE StartPublic
  <2> DEFINE there == {p \in DOMAIN Assets : Assets[p].public /\ disk[p] # Absent}
             public == {p \in DOMAIN Assets : Assets[p].public}
  <2>1. IsFiniteSet(there)
    BY AssetsType, FS_Subset
  <2>2. SetToSeq(there) \in Seq(there)
    BY <2>1, SetToSeqProperties
  <2>3. SetToSeq(there) \in Seq(public)
    <3>1. there \subseteq public
      OBVIOUS
    <3> HIDE DEF there, public
    <3> QED BY <2>2, <3>1, SeqMonotonic
  <2>4. todo' = SetToSeq(there) /\ stage' = "public" /\ UNCHANGED <<project, found>>
    BY <1>5 DEF StartPublic
  <2> HIDE DEF there
  <2> QED BY <2>3, <2>4, FoundUnchanged DEF TypeInv, project, found
<1>6. CASE AddPublic
  <2> DEFINE public == {p \in DOMAIN Assets : Assets[p].public}
  <2>1. Head(todo) \in public /\ Tail(todo) \in Seq(public)
    BY <1>6, HeadAndTail DEF AddPublic, TypeInv
  <2>2. addAsset(Head(todo), TRUE)
    BY <1>6 DEF AddPublic
  <2>3. /\ rejects' \in BOOLEAN /\ DOMAIN assets' \subseteq DOMAIN Assets
        /\ \A q \in DOMAIN assets' : AssetOK(q)'
    BY <2>1, <2>2, addAssetType
  <2>4. stage' = "rejected" \/ (stage' = "public" /\ todo' = Tail(todo))
    BY <1>6 DEF AddPublic
  <2> QED BY <1>6, <2>1, <2>3, <2>4 DEF AddPublic, TypeInv, project
<1>7. CASE CheckOutputs
  BY <1>7, FoundUnchanged DEF CheckOutputs, TypeInv, project, found
<1>8. CASE RemoveCache
  <2>1. todo' \in Seq(CacheFileSet)'
    BY <1>8, CacheFilesProperties, FoundUnchanged DEF RemoveCache
  <2> QED BY <1>8, <2>1, FoundUnchanged DEF RemoveCache, TypeInv, project, found
<1>9. CASE WriteCacheFile
  <2>1. Tail(todo) \in Seq(CacheFileSet)
    BY <1>9, HeadAndTail DEF WriteCacheFile, TypeInv
  <2> QED BY <1>9, <2>1, FoundUnchanged DEF WriteCacheFile, TypeInv, project, found
<1>10. CASE RemoveDistFile
  BY <1>10, FoundUnchanged DEF RemoveDistFile, TypeInv, project, found
<1>11. CASE BuildWASM
  <2>1. stage' \in {"error", "static"} /\ UNCHANGED <<project, todo, found>>
    BY <1>11 DEF BuildWASM
  <2> QED BY <2>1, FoundUnchanged DEF TypeInv, project, found
<1>12. CASE WriteStaticFile
  BY <1>12, FoundUnchanged DEF WriteStaticFile, TypeInv, project, found
<1>13. CASE StartAssets
  <2>1. IsFiniteSet(DOMAIN assets)
    BY AssetsType, FS_Subset DEF TypeInv
  <2>2. SetToSeq(DOMAIN assets) \in Seq(DOMAIN assets)
    BY <2>1, SetToSeqProperties
  <2>3. todo' = SetToSeq(DOMAIN assets) /\ stage' = "assets" /\ UNCHANGED <<project, found>>
    BY <1>13 DEF StartAssets
  <2> QED BY <2>2, <2>3, FoundUnchanged DEF TypeInv, project, found
<1>14. CASE WriteAsset
  <2>1. Tail(todo) \in Seq(DOMAIN assets)
    BY <1>14, HeadAndTail DEF WriteAsset, TypeInv
  <2> QED BY <1>14, <2>1, FoundUnchanged DEF WriteAsset, TypeInv, project, found
<1>15. CASE FinishBuild
  BY <1>15, FoundUnchanged DEF FinishBuild, TypeInv, project, found
<1>16. CASE Interrupt
  <2>1. stage' = "error" /\ UNCHANGED <<project, found>>
    BY <1>16 DEF Interrupt
  <2> QED BY <2>1, FoundUnchanged DEF TypeInv, project, found
<1>17. CASE UNCHANGED vars
  <2>1. UNCHANGED <<project, found, stage, todo>>
    BY <1>17 DEF vars
  <2> QED BY <2>1, FoundUnchanged DEF TypeInv, project, found
<1> QED BY <1>1, <1>2, <1>3, <1>4, <1>5, <1>6, <1>7, <1>8, <1>9, <1>10, <1>11, <1>12, <1>13, <1>14,
           <1>15, <1>16, <1>17 DEF Next
-----------------------------------------------------------------------------
(* What is in dist when it is removed.                                     *)

LEMMA InvInit == Init => BuildInv
<1> SUFFICES ASSUME Init PROVE BuildInv
  OBVIOUS
<1>1. stage = "idle" /\ dist = before
  BY DEF Init
<1> QED BY <1>1, TypeInit DEF BuildInv, Kept, Passed, Committed, Writing

\* The steps that stay before the cache, and those that end the build while
\* dist is as it was found.
LEMMA Before ==
  ASSUME UNCHANGED <<dist, before>>, dist = before,
         stage' \in {"template", "style", "public", "cache"} \cup Ended
  PROVE  Kept' /\ Committed'
BY DEF Kept, Committed, Ended

\* A file of the cache is written.
LEMMA Filling ==
  ASSUME TypeInv, Passed, Committed, WriteCacheFile
  PROVE  FilledBut(Range(todo))'
<1> DEFINE h == Head(todo)
<1>1. stage = "generate" /\ todo # <<>> /\ todo \in Seq(CacheFileSet)
  BY DEF WriteCacheFile, TypeInv
<1>2. h \in CacheFileSet /\ Range(todo) = {h} \cup Range(Tail(todo))
  BY <1>1, HeadAndTail
<1>3. cache' = With(cache, h.name, h.content) /\ todo' = Tail(todo)
  BY DEF WriteCacheFile
<1>4. /\ DOMAIN cache' = DOMAIN cache \cup {h.name}
      /\ cache'[h.name] = h.content
      /\ \A n \in DOMAIN cache \ {h.name} : cache'[n] = cache[n]
  BY <1>3 DEF With
<1>5. CacheFileSet' = CacheFileSet
  BY FoundUnchanged DEF WriteCacheFile
<1>6. ~Conflict /\ FilledBut(Range(todo))
  BY <1>1 DEF Passed, Committed, Writing
<1>7. DOMAIN cache' \subseteq {f.name : f \in CacheFileSet}
  BY <1>2, <1>4, <1>6 DEF FilledBut
<1>8. ASSUME NEW f \in CacheFileSet \ Range(Tail(todo))
      PROVE  f.name \in DOMAIN cache' /\ cache'[f.name] = f.content
  <2>1. CASE f.name = h.name
    <3>1. f.content = h.content
      BY <1>2, <1>6, <2>1, OneContentPerName
    <3> QED BY <1>4, <2>1, <3>1
  <2>2. CASE f.name # h.name
    <3>1. f \in CacheFileSet \ Range(todo)
      BY <1>2, <2>2
    <3> QED BY <1>4, <1>6, <2>2, <3>1 DEF FilledBut
  <2> QED BY <2>1, <2>2
<1> QED BY <1>3, <1>5, <1>7, <1>8 DEF FilledBut

LEMMA InvNext == BuildInv /\ [Next]_vars => BuildInv'
<1> SUFFICES ASSUME BuildInv, [Next]_vars PROVE BuildInv'
  OBVIOUS
<1>t. TypeInv /\ TypeInv'
  BY TypeNext DEF BuildInv
<1>r. ASSUME stage = "generate", todo = <<>>
      PROVE  Ready
  BY <1>r, RangeOfEmpty DEF BuildInv, Committed, Passed, Writing, Ready
<1>s. ASSUME UNCHANGED <<found, cache>>
      PROVE  Ready' = Ready /\ Conflict' = Conflict /\ FilledBut({})' = FilledBut({})
  <2>1. CacheFileSet' = CacheFileSet /\ Conflict' = Conflict
    BY <1>s, FoundUnchanged
  <2> QED BY <1>s, <2>1 DEF Ready, FilledBut, found
<1>1. CASE Edit
  <2>1. UNCHANGED <<stage, todo, found, cache, dist, before>>
    BY <1>1 DEF Edit
  <2> QED BY <2>1, <1>t, <1>s, FoundUnchanged DEF BuildInv, Kept, Passed, Committed, FilledBut, found
<1>2. CASE StartBuild
  <2>1. stage' = "rejected" \/ (stage' = "template" /\ Sources[parsed'].verdict # "rejected")
    BY <1>2 DEF StartBuild
  <2>2. dist' = before'
    BY <1>2 DEF StartBuild
  <2> QED BY <1>t, <2>1, <2>2 DEF BuildInv, Kept, Passed, Committed, Writing
<1>3. CASE RewriteURL
  <2>1. stage \in {"template", "style"} /\ UNCHANGED <<parsed, dist, before>>
    BY <1>3 DEF RewriteURL
  <2>2. stage' = "rejected" \/ stage' = stage
    BY <1>3 DEF RewriteURL
  <2>3. Kept' /\ Committed'
    BY <2>1, <2>2, Before DEF BuildInv, Kept, Ended
  <2>4. stage' = "style" => ~AddFails(Head(todo).path, Head(todo).rooted)
    BY <1>3, <2>1 DEF RewriteURL
  <2>5. stage' = "style" => rejects' = rejects
    BY <1>3, <2>4 DEF RewriteURL, addAsset
  <2>6. Passed'
    BY <2>1, <2>2, <2>5 DEF BuildInv, Passed, Writing
  <2> QED BY <1>t, <2>3, <2>6 DEF BuildInv
<1>4. CASE FinishTemplates
  <2>1. stage = "template" /\ UNCHANGED <<parsed, dist, before>>
    BY <1>4 DEF FinishTemplates
  <2>2. rejects' = (rejects \/ Sources[parsed].verdict = "ungenerable")
    BY <1>4 DEF FinishTemplates
  <2>3. stage' = "rejected" \/ (stage' = "style" /\ ~rejects')
    BY <1>4 DEF FinishTemplates
  <2>4. Kept' /\ Committed'
    BY <2>1, <2>3, Before DEF BuildInv, Kept, Ended
  <2>5. Sources[parsed].verdict \in Verdicts \ {"rejected"}
    BY <1>t, <2>1, SourcesType DEF BuildInv, Passed, TypeInv
  <2>6. stage' = "style" => Sources[parsed].verdict # "ungenerable"
    BY <2>2, <2>3
  <2>7. Passed'
    BY <2>1, <2>3, <2>5, <2>6 DEF Passed, Writing, Verdicts
  <2> QED BY <1>t, <2>4, <2>7 DEF BuildInv
<1>5. CASE StartPublic
  <2>1. stage = "style" /\ stage' = "public" /\ UNCHANGED <<found, dist, before>>
    BY <1>5 DEF StartPublic
  <2>2. Kept' /\ Committed'
    BY <2>1, Before DEF BuildInv, Kept
  <2> QED BY <1>t, <2>1, <2>2 DEF BuildInv, Passed, Writing, found
<1>6. CASE AddPublic
  <2>1. stage = "public" /\ UNCHANGED <<parsed, dist, before>>
    BY <1>6 DEF AddPublic
  <2>2. stage' = "rejected" \/ (stage' = "public" /\ ~AddFails(Head(todo), TRUE))
    BY <1>6 DEF AddPublic
  <2>3. stage' = "public" => rejects' = rejects
    BY <1>6, <2>2 DEF AddPublic, addAsset
  <2>4. Kept' /\ Committed'
    BY <2>1, <2>2, Before DEF BuildInv, Kept, Ended
  <2>5. Passed'
    <3>1. CASE stage' = "rejected"
      BY <3>1 DEF Passed, Writing
    <3>2. CASE stage' = "public"
      <4>1. Sources[parsed].verdict \in {"good", "unbuildable"} /\ ~rejects
        BY <2>1 DEF BuildInv, Passed
      <4>2. ~rejects'
        BY <2>3, <3>2, <4>1
      <4> QED BY <2>1, <3>2, <4>1, <4>2 DEF Passed, Writing
    <3> QED BY <2>2, <3>1, <3>2
  <2> QED BY <1>t, <2>4, <2>5 DEF BuildInv
<1>7. CASE CheckOutputs
  <2>1. stage = "public" /\ UNCHANGED <<found, dist, before>>
    BY <1>7 DEF CheckOutputs
  <2>2. stage' = "error" \/ (stage' = "cache" /\ ~Conflict)
    BY <1>7 DEF CheckOutputs
  <2>3. Kept' /\ Committed'
    BY <2>1, <2>2, Before DEF BuildInv, Kept, Ended
  <2>4. Conflict' = Conflict
    BY <2>1, FoundUnchanged
  <2>5. Passed'
    BY <2>1, <2>2, <2>4 DEF BuildInv, Passed, Writing, found
  <2> QED BY <1>t, <2>3, <2>5 DEF BuildInv
<1>8. CASE RemoveCache
  <2>1. stage = "cache" /\ stage' = "generate" /\ UNCHANGED <<found, dist, before>>
        /\ cache' = <<>> /\ todo' = CacheFiles
    BY <1>8 DEF RemoveCache
  <2>2. dist' = before'
    BY <2>1 DEF BuildInv, Kept
  <2>3. Range(todo') = CacheFileSet'
    BY <1>t, <2>1, CacheFilesProperties, FoundUnchanged
  <2>4. FilledBut(Range(todo))'
    BY <2>1, <2>3 DEF FilledBut
  <2> QED BY <1>t, <2>1, <2>2, <2>4, FoundUnchanged DEF BuildInv, Kept, Passed, Committed, Writing, found
<1>9. CASE WriteCacheFile
  <2>1. stage = "generate" /\ stage' = "generate" /\ UNCHANGED <<found, dist, before>>
        /\ todo # <<>>
    BY <1>9 DEF WriteCacheFile
  <2>2. FilledBut(Range(todo))'
    BY <1>9, Filling DEF BuildInv
  <2>3. dist' = before'
    BY <2>1 DEF BuildInv, Kept
  <2> QED BY <1>t, <2>1, <2>2, <2>3, FoundUnchanged DEF BuildInv, Kept, Passed, Committed, Writing, found
<1>10. CASE RemoveDistFile
  <2>1. stage = "generate" /\ todo = <<>> /\ UNCHANGED <<stage, todo, found, cache, before>>
    BY <1>10 DEF RemoveDistFile
  <2>2. Ready' /\ ~Conflict' /\ FilledBut({})'
    BY <1>r, <1>s, <2>1 DEF Ready
  <2> QED BY <1>t, <2>1, <2>2, RangeOfEmpty DEF BuildInv, Kept, Passed, Committed, Writing, found
<1>11. CASE BuildWASM
  <2>1. stage = "generate" /\ todo = <<>> /\ UNCHANGED <<todo, found, cache, before>>
        /\ stage' \in {"error", "static"}
    BY <1>11 DEF BuildWASM
  <2>2. Ready' /\ ~Conflict'
    BY <1>r, <1>s, <2>1 DEF Ready
  <2> QED BY <1>t, <2>1, <2>2 DEF BuildInv, Kept, Passed, Committed, Writing, found
<1>12. CASE WriteStaticFile \/ StartAssets \/ WriteAsset \/ FinishBuild
  <2>1. stage \in {"static", "assets"} /\ stage' \in {"static", "assets", "done"}
        /\ UNCHANGED <<found, cache, before>>
    BY <1>12 DEF WriteStaticFile, StartAssets, WriteAsset, FinishBuild
  <2>2. Ready' /\ ~Conflict'
    BY <1>s, <2>1 DEF BuildInv, Committed, Ready
  <2> QED BY <1>t, <2>1, <2>2 DEF BuildInv, Kept, Passed, Committed, Writing, Ready, found
<1>13. CASE Interrupt
  <2>1. stage' = "error" /\ UNCHANGED <<found, before>>
    BY <1>13 DEF Interrupt
  <2>2. CASE dist = before /\ dist' = dist
    BY <1>t, <2>1, <2>2 DEF BuildInv, Kept, Passed, Committed, Writing
  <2>3. CASE (dist # before \/ stage \in {"static", "assets"}) /\ cache' = cache
    <3>1. Ready'
      BY <1>s, <2>1, <2>3 DEF BuildInv, Committed
    <3> QED BY <1>t, <2>1, <3>1 DEF BuildInv, Kept, Passed, Committed, Writing
  <2>4. \/ dist = before /\ dist' = dist
        \/ (dist # before \/ stage \in {"static", "assets"}) /\ cache' = cache
    BY <1>13 DEF BuildInv, Kept, Interrupt
  <2> QED BY <2>2, <2>3, <2>4
<1>14. CASE UNCHANGED vars
  <2>1. UNCHANGED <<stage, todo, found, cache, dist, before>>
    BY <1>14 DEF vars
  <2> QED BY <2>1, <1>t, <1>s, FoundUnchanged DEF BuildInv, Kept, Passed, Committed, FilledBut, found
<1> QED BY <1>1, <1>2, <1>3, <1>4, <1>5, <1>6, <1>7, <1>8, <1>9, <1>10, <1>11, <1>12, <1>13, <1>14
        DEF Next

\* What is written to .tue-cache and dist, and when, in every state.
THEOREM InvCorrect == Spec => []BuildInv
<1> QED BY InvInit, InvNext, PTL DEF Spec

\* dist is not touched before everything that the project can be rejected for
\* has been looked at and the whole cache is written, by this build alone,
\* whatever edits, failures and kills came before.
THEOREM DistKeptCorrect == Spec => []DistKeptUntilGenerated
<1>1. BuildInv => DistKeptUntilGenerated
  <2> SUFFICES ASSUME BuildInv, dist # before PROVE DistKeptUntilGenerated
    BY DEF DistKeptUntilGenerated
  <2>1. Ready /\ Range(CacheFiles) = CacheFileSet
    BY CacheFilesProperties DEF BuildInv, Committed
  <2> QED BY <2>1 DEF Ready, FilledBut, DistKeptUntilGenerated
<1> QED BY <1>1, InvCorrect, PTL
-----------------------------------------------------------------------------
(* What the URLs of the generated code stand for.                          *)

\* An asset that was read stays as it was read.
LEMMA addAssetKeeps ==
  ASSUME NEW p, NEW public, addAsset(p, public)
  PROVE  /\ \A q \in DOMAIN assets : q \in DOMAIN assets' /\ assets'[q] = assets[q]
         /\ AddFails(p, public) => assets' = assets
         /\ ~AddFails(p, public) =>
              /\ DOMAIN assets' = DOMAIN assets \cup {p}
              /\ assets'[p] = AddedAsset(p, public)
<1>1. CASE AddFails(p, public)
  BY <1>1 DEF addAsset
<1>2. CASE ~AddFails(p, public)
  <2>1. assets' = With(assets, p, AddedAsset(p, public))
    BY <1>2 DEF addAsset
  <2>2. p \in DOMAIN assets => AddedAsset(p, public) = assets[p]
    BY DEF AddedAsset
  <2> QED BY <1>2, <2>1, <2>2 DEF With
<1> QED BY <1>1, <1>2

\* Every reference to a file has it in the same directory, unless a file of
\* public/ has a relative URL.
LEMMA AddedAssetPublic ==
  ASSUME TypeInv, URLsKept, ~RelativeToPublic, NEW p \in DOMAIN Assets
  PROVE  AddedAsset(p, Assets[p].public).public = Assets[p].public
BY DEF AddedAsset, NewAsset, URLsKept

LEMMA URLsNext ==
  ASSUME TypeInv, URLsKept, [Next]_vars
  PROVE  URLsKept'
<1>1. CASE StartBuild
  <2>1. stage' = "rejected" \/ (stage' = "template" /\ todo' = Sources[source].template)
    BY <1>1 DEF StartBuild
  <2>2. parsed' = source /\ DOMAIN assets' = {} /\ urls' = {}
    BY <1>1 DEF StartBuild
  <2>3. Range(Sources[source].template)
          \subseteq Range(Sources[source].template \o Sources[source].style)
    BY TemplateAndStyle DEF TypeInv
  <2> QED BY <2>1, <2>2, <2>3 DEF URLsKept
<1>2. CASE RewriteURL
  <2> DEFINE url == Head(todo)
  <2>1. /\ stage \in {"template", "style"} /\ todo # <<>> /\ todo \in Seq(URLs)
        /\ addAsset(url.path, url.rooted) /\ parsed' = parsed
    BY <1>2 DEF RewriteURL, TypeInv
  <2>2. url \in URLs /\ url \in Range(todo) /\ Range(Tail(todo)) \subseteq Range(todo)
    BY <2>1, HeadAndTail
  <2>3. stage' = "rejected" \/ (stage' = stage /\ todo' = Tail(todo))
    BY <1>2 DEF RewriteURL
  <2>4. stage' \in {"template", "style"} =>
          Range(todo') \subseteq Range(Sources[parsed'].template \o Sources[parsed'].style)
    BY <2>1, <2>2, <2>3 DEF URLsKept
  <2>5. RelativeToPublic' = RelativeToPublic
    BY <2>1 DEF RelativeToPublic
  <2>6. ASSUME ~RelativeToPublic
        PROVE  /\ \A p \in DOMAIN assets' : assets'[p].public = Assets[p].public
               /\ \A u \in urls' :
                    /\ u.dir = ""
                    /\ \E p \in DOMAIN assets' :
                         u.name = assets'[p].name /\ u.content = assets'[p].content
    <3>1. /\ url.path \in DOMAIN Assets /\ Assets[url.path].public \in BOOLEAN
          /\ url.rooted \in BOOLEAN /\ (url.rooted => Assets[url.path].public)
      BY <2>2, AssetsType DEF URLs
    <3>2. url.rooted = Assets[url.path].public
      BY <2>1, <2>2, <2>6, <3>1 DEF URLsKept, RelativeToPublic
    <3>3. \A q \in DOMAIN assets : q \in DOMAIN assets' /\ assets'[q] = assets[q]
      BY <2>1, addAssetKeeps
    <3>4. CASE AddFails(url.path, url.rooted)
      <4>1. assets' = assets /\ urls' = urls
        BY <1>2, <2>1, <3>4, addAssetKeeps DEF RewriteURL
      <4> QED BY <2>6, <4>1 DEF URLsKept
    <3>5. CASE ~AddFails(url.path, url.rooted)
      <4> DEFINE a == AddedAsset(url.path, url.rooted)
      <4>1. /\ DOMAIN assets' = DOMAIN assets \cup {url.path} /\ assets'[url.path] = a
            /\ urls' = urls \cup {RewrittenURL(url, a)}
        BY <1>2, <2>1, <3>5, addAssetKeeps DEF RewriteURL
      <4>2. a.public = url.rooted /\ (a.public => a.name = Assets[url.path].name)
        BY <2>6, <3>1, <3>2, <3>5, AddedAssetPublic, AddedAssetType
      <4>3. LET u == RewrittenURL(url, a)
            IN u.dir = "" /\ u.name = a.name /\ u.content = a.content
        BY <3>1, <4>2 DEF RewrittenURL
      <4> HIDE DEF a, url
      <4>4. \A p \in DOMAIN assets' : assets'[p].public = Assets[p].public
        BY <2>6, <3>2, <3>3, <4>1, <4>2 DEF URLsKept
      <4>5. ASSUME NEW u \in urls
            PROVE  /\ u.dir = ""
                   /\ \E p \in DOMAIN assets' :
                        u.name = assets'[p].name /\ u.content = assets'[p].content
        BY <2>6, <3>3 DEF URLsKept
      <4> QED BY <4>1, <4>3, <4>4, <4>5
    <3> QED BY <3>4, <3>5
  <2> QED BY <2>4, <2>5, <2>6 DEF URLsKept
<1>3. CASE FinishTemplates
  <2>1. stage' = "rejected" \/ (stage' = "style" /\ todo' = Sources[parsed].style)
    BY <1>3 DEF FinishTemplates
  <2>2. UNCHANGED <<parsed, assets, urls>>
    BY <1>3 DEF FinishTemplates
  <2>3. Range(Sources[parsed].style)
          \subseteq Range(Sources[parsed].template \o Sources[parsed].style)
    BY TemplateAndStyle DEF TypeInv
  <2> QED BY <2>1, <2>2, <2>3 DEF URLsKept, RelativeToPublic
<1>4. CASE AddPublic
  <2>1. Head(todo) \in DOMAIN Assets /\ Assets[Head(todo)].public
    BY <1>4, HeadAndTail DEF AddPublic, TypeInv
  <2>2. /\ stage' \in {"rejected", "public"} /\ UNCHANGED <<parsed, urls>>
        /\ addAsset(Head(todo), TRUE)
    BY <1>4 DEF AddPublic
  <2>3. RelativeToPublic' = RelativeToPublic
    BY <2>2 DEF RelativeToPublic
  <2>4. \A q \in DOMAIN assets : q \in DOMAIN assets' /\ assets'[q] = assets[q]
    BY <2>2, addAssetKeeps
  <2>5. ASSUME ~RelativeToPublic
        PROVE  \A p \in DOMAIN assets' : assets'[p].public = Assets[p].public
    <3>1. CASE AddFails(Head(todo), TRUE)
      BY <2>2, <2>5, <3>1, addAssetKeeps DEF URLsKept
    <3>2. CASE ~AddFails(Head(todo), TRUE)
      <4>1. AddedAsset(Head(todo), TRUE).public = TRUE
        BY <2>1, <2>5, AssetsType, AddedAssetPublic
      <4>2. /\ DOMAIN assets' = DOMAIN assets \cup {Head(todo)}
            /\ assets'[Head(todo)].public = TRUE
        BY <2>2, <3>2, <4>1, addAssetKeeps
      <4> QED BY <2>1, <2>4, <2>5, <4>2, AssetsType DEF URLsKept
    <3> QED BY <3>1, <3>2
  <2> QED BY <2>2, <2>3, <2>4, <2>5 DEF URLsKept
<1>5. CASE \/ Edit \/ StartPublic \/ CheckOutputs \/ RemoveCache \/ WriteCacheFile \/ RemoveDistFile
           \/ BuildWASM \/ WriteStaticFile \/ StartAssets \/ WriteAsset \/ FinishBuild \/ Interrupt
           \/ UNCHANGED vars
  <2>1. /\ UNCHANGED found
        /\ (stage' \in {"template", "style"} => UNCHANGED <<stage, todo>>)
    BY <1>5 DEF Edit, StartPublic, CheckOutputs, RemoveCache, WriteCacheFile, RemoveDistFile,
                BuildWASM, WriteStaticFile, StartAssets, WriteAsset, FinishBuild, Interrupt, vars
  <2> QED BY <2>1, FoundUnchanged DEF URLsKept, found
<1> QED BY <1>1, <1>2, <1>3, <1>4, <1>5 DEF Next
-----------------------------------------------------------------------------
(* What dist has while it is written.                                      *)

LEMMA StaticContentUnchanged ==
  ASSUME UNCHANGED found
  PROVE  /\ \A n : StaticContent(n)' = StaticContent(n)
         /\ \A p : Written(p)' = Written(p)
BY DEF found, StaticContent, Manifest, Written

\* go build writes the code of this build.
LEMMA WASMWritten ==
  ASSUME Ready, BuildWASM
  PROVE  DistGrows'
<1> DEFINE code == FixedFile("code")
           wasm == Static("app.wasm")
<1>1. cache[<<"code", 0, FALSE>>] = <<parsed>>
  <2>1. code \in CacheFileSet
    BY DEF CacheFileSet
  <2>2. code.name = <<"code", 0, FALSE>> /\ code.content = <<parsed>>
    BY DEF FixedFile, CacheFile
  <2> HIDE DEF code
  <2> QED BY <2>1, <2>2 DEF Ready, FilledBut
<1>2. wasm \in reservedFiles /\ StaticContent(wasm) = <<parsed>>
  BY DEF reservedFiles, StaticContent, Static
<1>3. UNCHANGED found /\ dist = <<>>
  BY DEF BuildWASM
<1>4. stage' = "error" \/ (stage' = "static" /\ dist' = With(dist, wasm, <<parsed>>))
  BY <1>1 DEF BuildWASM
<1>5. CASE stage' = "error"
  BY <1>5 DEF DistGrows
<1>6. CASE stage' = "static" /\ dist' = With(dist, wasm, <<parsed>>)
  <2>1. DOMAIN dist' = {wasm} /\ dist'[wasm] = <<parsed>>
    <3>1. DOMAIN dist = {}
      BY <1>3
    <3> HIDE DEF wasm
    <3> QED BY <1>6, <3>1 DEF With
  <2> HIDE DEF wasm
  <2> QED BY <1>2, <1>3, <1>6, <2>1, StaticContentUnchanged DEF DistGrows, reservedFiles
<1> QED BY <1>4, <1>5, <1>6

\* No asset is written over a static file or over another asset.
LEMMA AssetWritten ==
  ASSUME TypeInv, ~Conflict, DistGrows, WriteAsset
  PROVE  DistGrows'
<1> DEFINE h == Head(todo)
<1>1. stage = "assets" /\ stage' = "assets" /\ todo # <<>> /\ todo \in Seq(DOMAIN assets)
      /\ UNCHANGED found /\ todo' = Tail(todo)
      /\ dist' = With(dist, assets[h].name, Written(h))
  BY DEF WriteAsset, TypeInv
<1>2. h \in DOMAIN assets /\ Range(todo) = {h} \cup Range(Tail(todo))
  BY <1>1, HeadAndTail
<1>3. StaticWritten /\ WrittenBut(Range(todo))
  BY <1>1 DEF DistGrows
<1>4. /\ DOMAIN dist' = DOMAIN dist \cup {assets[h].name}
      /\ dist'[assets[h].name] = Written(h)
      /\ \A n \in DOMAIN dist \ {assets[h].name} : dist'[n] = dist[n]
  BY <1>1 DEF With
<1> HIDE DEF h
<1>5. assets[h].name \notin reservedFiles
      /\ \A p \in DOMAIN assets \ {h} : assets[p].name # assets[h].name
  BY <1>2 DEF Conflict
<1>6. /\ AssetFiles' = AssetFiles /\ assets' = assets
      /\ \A n : StaticContent(n)' = StaticContent(n)
      /\ \A p : Written(p)' = Written(p)
      /\ reservedFiles' = reservedFiles
  BY <1>1, FoundUnchanged, StaticContentUnchanged DEF found, reservedFiles, Static
<1>7. StaticWritten'
  BY <1>3, <1>4, <1>5, <1>6 DEF StaticWritten
<1>8. DOMAIN dist' \subseteq reservedFiles \cup AssetFiles
  BY <1>2, <1>3, <1>4 DEF WrittenBut, AssetFiles
<1>9. ASSUME NEW p \in DOMAIN assets \ Range(Tail(todo))
      PROVE  assets[p].name \in DOMAIN dist' /\ dist'[assets[p].name] = Written(p)
  <2>1. CASE p = h
    BY <1>4, <2>1
  <2>2. CASE p # h
    BY <1>2, <1>3, <1>4, <1>5, <2>2 DEF WrittenBut
  <2> QED BY <2>1, <2>2
<1>10. WrittenBut(Range(todo))'
  BY <1>1, <1>6, <1>8, <1>9 DEF WrittenBut
<1> QED BY <1>1, <1>7, <1>10 DEF DistGrows

LEMMA DistGrowsNext ==
  ASSUME BuildInv, DistGrows, [Next]_vars
  PROVE  DistGrows'
<1>1. CASE stage' \notin {"static", "assets", "done"}
  BY <1>1 DEF DistGrows
<1>2. CASE BuildWASM
  <2>1. Ready
    BY <1>2, RangeOfEmpty DEF BuildWASM, BuildInv, Committed, Passed, Writing, Ready
  <2> QED BY <1>2, <2>1, WASMWritten
<1>3. CASE WriteStaticFile
  <2>1. PICK n \in reservedFiles \ DOMAIN dist : dist' = With(dist, n, StaticContent(n))
    BY <1>3 DEF WriteStaticFile
  <2>2. stage = "static" /\ stage' = "static" /\ UNCHANGED found
    BY <1>3 DEF WriteStaticFile
  <2>3. /\ DOMAIN dist' = DOMAIN dist \cup {n} /\ dist'[n] = StaticContent(n)
        /\ \A m \in DOMAIN dist \ {n} : dist'[m] = dist[m]
    BY <2>1 DEF With
  <2> QED BY <2>1, <2>2, <2>3, StaticContentUnchanged DEF DistGrows, reservedFiles, Static
<1>4. CASE StartAssets
  <2>1. IsFiniteSet(DOMAIN assets)
    BY AssetsType, FS_Subset DEF BuildInv, TypeInv
  <2>2. Range(SetToSeq(DOMAIN assets)) = DOMAIN assets
    BY <2>1, SetToSeqProperties
  <2>3. /\ stage = "static" /\ stage' = "assets" /\ UNCHANGED <<found, dist>>
        /\ reservedFiles \subseteq DOMAIN dist /\ todo' = SetToSeq(DOMAIN assets)
    BY <1>4 DEF StartAssets
  <2>4. assets' = assets
    BY <2>3 DEF found
  <2>5. StaticWritten'
    BY <2>3, StaticContentUnchanged DEF DistGrows, StaticWritten, reservedFiles, Static
  <2>6. WrittenBut(Range(todo))'
    BY <2>2, <2>3, <2>4 DEF DistGrows, WrittenBut, reservedFiles, Static
  <2> QED BY <2>3, <2>5, <2>6 DEF DistGrows
<1>5. CASE WriteAsset
  <2>1. TypeInv /\ ~Conflict
    BY <1>5 DEF WriteAsset, BuildInv, Passed, Writing
  <2> QED BY <1>5, <2>1, AssetWritten
<1>6. CASE FinishBuild
  <2>1. stage = "assets" /\ stage' = "done" /\ todo = <<>> /\ UNCHANGED <<found, dist>>
    BY <1>6 DEF FinishBuild
  <2>2. StaticWritten /\ WrittenBut({})
    BY <2>1, RangeOfEmpty DEF DistGrows
  <2>3. StaticWritten' /\ WrittenBut({})'
    BY <2>1, <2>2, FoundUnchanged, StaticContentUnchanged
       DEF StaticWritten, WrittenBut, reservedFiles, Static, found
  <2> QED BY <2>1, <2>3 DEF DistGrows
<1>7. CASE Edit \/ UNCHANGED vars
  <2>1. UNCHANGED <<stage, todo, found, dist>>
    BY <1>7 DEF Edit, vars
  <2> QED BY <2>1, FoundUnchanged, StaticContentUnchanged
          DEF DistGrows, StaticWritten, WrittenBut, reservedFiles, Static, found
<1>8. CASE \/ StartBuild \/ RewriteURL \/ FinishTemplates \/ StartPublic \/ AddPublic \/ CheckOutputs
           \/ RemoveCache \/ WriteCacheFile \/ RemoveDistFile \/ Interrupt
  <2>1. stage' \notin {"static", "assets", "done"}
    BY <1>8 DEF StartBuild, RewriteURL, FinishTemplates, StartPublic, AddPublic, CheckOutputs,
                RemoveCache, WriteCacheFile, RemoveDistFile, Interrupt
  <2> QED BY <1>1, <2>1
<1> QED BY <1>2, <1>3, <1>4, <1>5, <1>6, <1>7, <1>8 DEF Next

\* With that, what the URLs stand for and what dist has while it is written.
THEOREM DistInvCorrect == Spec => []DistInv
<1>1. Init => DistInv
  <2> SUFFICES ASSUME Init PROVE DistInv
    OBVIOUS
  <2>1. stage = "idle" /\ DOMAIN assets = {} /\ urls = {}
    BY DEF Init
  <2> QED BY <2>1, InvInit DEF DistInv, URLsKept, DistGrows
<1>2. DistInv /\ [Next]_vars => DistInv'
  BY InvNext, URLsNext, DistGrowsNext DEF DistInv, BuildInv
<1> QED BY <1>1, <1>2, PTL DEF Spec

\* When a build succeeds, dist has exactly its files, each with the content it
\* should have, and every URL in the code is that of a file with the content
\* that was read for it, whatever was edited or interrupted before.
THEOREM DistIsTheBuildCorrect == Spec => []DistIsTheBuild
<1>1. DistInv => DistIsTheBuild
  <2> SUFFICES ASSUME DistInv, stage = "done" PROVE DistIsTheBuild
    BY DEF DistIsTheBuild
  <2>1. StaticWritten /\ WrittenBut({})
    BY DEF DistInv, DistGrows
  <2>2. /\ DOMAIN dist = reservedFiles \cup AssetFiles
        /\ \A n \in reservedFiles : dist[n] = StaticContent(n)
        /\ \A p \in DOMAIN assets : dist[assets[p].name] = Written(p)
    BY <2>1 DEF StaticWritten, WrittenBut, AssetFiles
  <2>3. ASSUME ~RelativeToPublic, NEW url \in urls
        PROVE  url.dir = "" /\ url.name \in DOMAIN dist /\ dist[url.name] = <<url.content>>
    <3>1. PICK p \in DOMAIN assets : url.name = assets[p].name /\ url.content = assets[p].content
      BY <2>3 DEF DistInv, URLsKept
    <3>2. url.dir = ""
      BY <2>3 DEF DistInv, URLsKept
    <3>3. url.name \in DOMAIN dist /\ dist[url.name] = Written(p)
      BY <2>2, <3>1 DEF AssetFiles
    <3> QED BY <3>1, <3>2, <3>3 DEF Written
  <2> QED BY <2>2, <2>3 DEF DistIsTheBuild, AssetFiles
<1> QED BY <1>1, DistInvCorrect, PTL
=============================================================================
