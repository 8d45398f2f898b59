--------------------------------- MODULE Build ---------------------------------
(***************************************************************************)
(* tue build as a sequence of file operations: the .tue files are found,   *)
(* read and checked, the assets that they refer to are read and named, and *)
(* then .tue-cache and dist are removed and written anew, file by file.    *)
(* The project may be edited between any two steps, any step may fail, and *)
(* the process may be killed; the next build starts from what is left.     *)
(*                                                                         *)
(* What the checker, the generator and Go say of a template is the subject *)
(* of Compile; here the .tue files are one source with a verdict.          *)
(***************************************************************************)
EXTENDS Integers, FiniteSets, SequencesExt

CONSTANTS
  Sources,    \* versions of the .tue files: [verdict, template, style]
  Assets,     \* the other files: path -> [name, public, tue]
  Contents,   \* what is in a file
  MaxEdits,   \* bound: edits of the project
  MaxFaults   \* bound: failed operations and kills

Verdicts ==
  {"rejected",     \* by a parser or the checker
   "ungenerable",  \* by the generator
   "unbuildable",  \* by go build
   "good"}

\* A rooted URL is that of a file of public/.
URLs == {url \in [path : DOMAIN Assets, rooted : BOOLEAN] : url.rooted => Assets[url.path].public}

ASSUME SourcesType ==
  \A s \in DOMAIN Sources :
    /\ Sources[s].verdict \in Verdicts
    /\ Sources[s].template \in Seq(URLs) /\ Sources[s].style \in Seq(URLs)
ASSUME AssetsType ==
  /\ IsFiniteSet(DOMAIN Assets)
  /\ \A p \in DOMAIN Assets :
       Assets[p].public \in BOOLEAN /\ Assets[p].name = <<Assets[p].name[1], Assets[p].name[2]>>
ASSUME BoundsType == MaxEdits \in Nat /\ MaxFaults \in Nat

Absent == 0
ASSUME ContentsType == Contents \subseteq Nat \ {Absent}

\* A file of dist is named by its path without the hash, and the hash.  What
\* is in a file is a sequence of one; a write that fails leaves it empty.
Static(name) == <<name, 0>>
reservedFiles ==
  {Static(n) : n \in {"index.html", "app.wasm", "tue_loader.js", "style.css", "manifest.json"}}
Truncated == <<>>

\* A directory, a function from names to contents, with one more file and
\* with one less.
With(files, name, content) ==
  [n \in DOMAIN files \cup {name} |-> IF n = name THEN content ELSE files[n]]
Without(files, name) == [n \in DOMAIN files \ {name} |-> files[n]]

VARIABLES
  source,   \* the .tue files as they are
  disk,     \* the other files as they are: path -> content or Absent
  stage,    \* of the build, or how the last one ended
  todo,     \* what is left to do in this stage
  parsed,   \* the .tue files as the build has read them
  assets,   \* bySource: path -> [public, name, content]
  urls,     \* the URLs in the generated code: [dir, name, content]
  rejects,  \* whether the generator has a diagnostic
  cache,    \* .tue-cache: name -> content
  dist,     \* dist: name -> content
  edits, faults

\* History: dist as the build found it.
VARIABLE before

project == <<source, disk, edits>>
found == <<parsed, assets, urls, rejects>>
vars == <<project, stage, todo, found, cache, dist, faults, before>>

Ended == {"idle", "done", "rejected", "error"}

Init ==
  /\ source \in DOMAIN Sources
  /\ disk \in [DOMAIN Assets -> Contents \cup {Absent}]
  /\ stage = "idle"
  /\ todo = <<>>
  /\ parsed = source
  /\ assets = <<>>
  /\ urls = {}
  /\ rejects = FALSE
  /\ cache = <<>>
  /\ dist = <<>>
  /\ edits = 0
  /\ faults = 0
  /\ before = <<>>

-----------------------------------------------------------------------------
(* The project is edited.                                                  *)

Edit ==
  /\ edits < MaxEdits
  /\ edits' = edits + 1
  /\ \/ \E s \in DOMAIN Sources \ {source} : source' = s /\ UNCHANGED disk
     \/ \E p \in DOMAIN Assets : \E c \in (Contents \cup {Absent}) \ {disk[p]} :
          disk' = [disk EXCEPT ![p] = c] /\ UNCHANGED source
  /\ UNCHANGED <<stage, todo, found, cache, dist, faults, before>>

-----------------------------------------------------------------------------
(* Reading the project.                                                    *)

\* A .tue file in public/ is a component like any other, and so is the copy
\* of it that a build has left in dist: only .git, .tue-cache and
\* node_modules are skipped.
DuplicateComponent ==
  \E p \in DOMAIN Assets :
    Assets[p].tue /\ disk[p] # Absent /\ Assets[p].name \in DOMAIN dist

\* Discover, parse and check; nothing is written before that.
StartBuild ==
  /\ stage \in Ended
  /\ parsed' = source
  /\ IF Sources[source].verdict = "rejected" \/ DuplicateComponent
     THEN stage' = "rejected" /\ todo' = <<>>
     ELSE stage' = "template" /\ todo' = Sources[source].template
  /\ before' = dist
  /\ assets' = <<>>
  /\ urls' = {}
  /\ rejects' = FALSE
  /\ UNCHANGED <<project, cache, dist, faults>>

\* The asset that addAsset returns for a path: read once, under the name that
\* its first reference gave it.
NewAsset(p, public) ==
  [public |-> public, content |-> disk[p],
   name |-> IF public THEN Assets[p].name ELSE <<Assets[p].name[1], disk[p]>>]
\* Mutant: every reference reads the file again.
MutantReadAgain(p, public) == NewAsset(p, public)

AddedAsset(p, public) == IF p \in DOMAIN assets THEN assets[p] ELSE NewAsset(p, public)

\* It cannot be read, or another asset has its name.
AddFails(p, public) ==
  /\ p \notin DOMAIN assets
  /\ \/ disk[p] = Absent
     \/ \E q \in DOMAIN assets :
          /\ assets[q].public = public
          /\ assets[q].name = NewAsset(p, public).name

addAsset(p, public) ==
  IF AddFails(p, public)
  THEN rejects' = TRUE /\ UNCHANGED assets
  ELSE assets' = With(assets, p, AddedAsset(p, public)) /\ UNCHANGED rejects

\* A rooted URL stays, a relative one becomes the name in the cache; in the
\* cache public files are in a directory of their own.
RewrittenURL(url, asset) ==
  IF url.rooted THEN [dir |-> "", name |-> Assets[url.path].name, content |-> asset.content]
  ELSE [dir |-> IF asset.public THEN "public" ELSE "", name |-> asset.name,
        content |-> asset.content]

\* A URL in a template or in a stylesheet; the stylesheets stop at the first
\* one that fails.
RewriteURL ==
  /\ stage \in {"template", "style"}
  /\ todo # <<>>
  /\ LET url == Head(todo)
         fails == AddFails(url.path, url.rooted)
     IN /\ addAsset(url.path, url.rooted)
        /\ urls' = IF fails THEN urls
                   ELSE urls \cup {RewrittenURL(url, AddedAsset(url.path, url.rooted))}
        /\ IF fails /\ stage = "style" THEN stage' = "rejected" /\ todo' = <<>>
           ELSE UNCHANGED stage /\ todo' = Tail(todo)
  /\ UNCHANGED <<project, parsed, cache, dist, faults, before>>

\* The templates are generated; diagnostics stop the build here.
FinishTemplates ==
  /\ stage = "template"
  /\ todo = <<>>
  /\ rejects' = (rejects \/ Sources[parsed].verdict = "ungenerable")
  /\ IF rejects' THEN stage' = "rejected" /\ UNCHANGED todo
     ELSE stage' = "style" /\ todo' = Sources[parsed].style
  /\ UNCHANGED <<project, parsed, assets, urls, cache, dist, faults, before>>

\* collectPublicAssets walks public/, the files that are there now.
StartPublic ==
  /\ stage = "style"
  /\ todo = <<>>
  /\ stage' = "public"
  /\ todo' = SetToSeq({p \in DOMAIN Assets : Assets[p].public /\ disk[p] # Absent})
  /\ UNCHANGED <<project, found, cache, dist, faults, before>>

AddPublic ==
  /\ stage = "public"
  /\ todo # <<>>
  /\ addAsset(Head(todo), TRUE)
  /\ IF AddFails(Head(todo), TRUE) THEN stage' = "rejected" /\ todo' = <<>>
     ELSE UNCHANGED stage /\ todo' = Tail(todo)
  /\ UNCHANGED <<project, parsed, urls, cache, dist, faults, before>>

-----------------------------------------------------------------------------
(* The names in dist, and the cache.                                       *)

\* productionManifest: in dist, public files are beside everything else.
Conflict ==
  \/ \E p \in DOMAIN assets : assets[p].name \in reservedFiles
  \/ \E p, q \in DOMAIN assets : p # q /\ assets[p].name = assets[q].name

CheckOutputs ==
  /\ stage = "public"
  /\ todo = <<>>
  /\ stage' = IF Conflict THEN "error" ELSE "cache"
  /\ UNCHANGED <<project, todo, found, cache, dist, faults, before>>

Written(p) == <<assets[p].content>>
Manifest == <<{assets[p].name : p \in DOMAIN assets}>>

\* The files of a cache in the order of writeCacheResult, then those of
\* writeProductionModule.  The generated code stands for all Go files.
CacheFile(name, content) == [name |-> name, content |-> content]
AssetCacheFile(p) ==
  CacheFile(<<assets[p].name[1], assets[p].name[2], assets[p].public>>, Written(p))
CacheFiles ==
  <<CacheFile(<<"code", 0, FALSE>>, <<parsed>>), CacheFile(<<"style.css", 0, FALSE>>, <<parsed>>)>>
    \o LET paths == SetToSeq(DOMAIN assets)
       IN [i \in DOMAIN paths |-> AssetCacheFile(paths[i])]
    \o <<CacheFile(<<"manifest.json", 0, FALSE>>, Manifest),
         CacheFile(<<"go.mod", 0, FALSE>>, <<parsed>>)>>

\* Mutant: what is in the cache stays.
MutantKeepCache ==
  /\ stage = "cache"
  /\ stage' = "generate"
  /\ todo' = CacheFiles
  /\ UNCHANGED <<project, found, cache, dist, faults, before>>

RemoveCache ==
  /\ stage = "cache"
  /\ cache' = <<>>
  /\ stage' = "generate"
  /\ todo' = CacheFiles
  /\ UNCHANGED <<project, found, dist, faults, before>>

WriteCacheFile ==
  /\ stage = "generate"
  /\ todo # <<>>
  /\ cache' = With(cache, Head(todo).name, Head(todo).content)
  /\ todo' = Tail(todo)
  /\ UNCHANGED <<project, stage, found, dist, faults, before>>

-----------------------------------------------------------------------------
(* dist.                                                                   *)

\* RemoveAll, entry by entry.
RemoveDistFile ==
  /\ stage = "generate"
  /\ todo = <<>>
  /\ \E n \in DOMAIN dist : dist' = Without(dist, n)
  /\ UNCHANGED <<project, stage, todo, found, cache, faults, before>>

\* go build runs in the cache and writes dist/app.wasm.
BuildWASM ==
  /\ stage = "generate"
  /\ todo = <<>>
  /\ dist = <<>>
  /\ IF Sources[cache[<<"code", 0, FALSE>>][1]].verdict = "unbuildable"
     THEN stage' = "error" /\ UNCHANGED dist
     ELSE stage' = "static" /\ dist' = With(dist, Static("app.wasm"), cache[<<"code", 0, FALSE>>])
  /\ UNCHANGED <<project, todo, found, cache, faults, before>>

StaticContent(name) == IF name = Static("manifest.json") THEN Manifest ELSE <<parsed>>

\* The static files are in a Go map: they are written in any order.
WriteStaticFile ==
  /\ stage = "static"
  /\ \E n \in reservedFiles \ DOMAIN dist :
       dist' = With(dist, n, StaticContent(n))
  /\ UNCHANGED <<project, stage, todo, found, cache, faults, before>>

StartAssets ==
  /\ stage = "static"
  /\ reservedFiles \subseteq DOMAIN dist
  /\ stage' = "assets"
  /\ todo' = SetToSeq(DOMAIN assets)
  /\ UNCHANGED <<project, found, cache, dist, faults, before>>

WriteAsset ==
  /\ stage = "assets"
  /\ todo # <<>>
  /\ dist' = With(dist, assets[Head(todo)].name, Written(Head(todo)))
  /\ todo' = Tail(todo)
  /\ UNCHANGED <<project, stage, found, cache, faults, before>>

FinishBuild ==
  /\ stage = "assets"
  /\ todo = <<>>
  /\ stage' = "done"
  /\ UNCHANGED <<project, todo, found, cache, dist, faults, before>>

-----------------------------------------------------------------------------
(* A file operation fails, or the process is killed: the build ends, and   *)
(* the file being written may be left empty.                               *)

Interrupt ==
  /\ stage \notin Ended
  /\ faults < MaxFaults
  /\ faults' = faults + 1
  /\ stage' = "error"
  /\ todo' = <<>>
  /\ \/ UNCHANGED <<cache, dist>>
     \/ /\ stage = "cache"
        /\ \E rest \in SUBSET DOMAIN cache : cache' = [n \in rest |-> cache[n]]
        /\ UNCHANGED dist
     \/ /\ stage = "generate" /\ todo # <<>>
        /\ cache' = With(cache, Head(todo).name, Truncated)
        /\ UNCHANGED dist
     \/ /\ stage = "static"
        /\ \E n \in reservedFiles \ DOMAIN dist : dist' = With(dist, n, Truncated)
        /\ UNCHANGED cache
     \/ /\ stage = "assets" /\ todo # <<>>
        /\ dist' = With(dist, assets[Head(todo)].name, Truncated)
        /\ UNCHANGED cache
  /\ UNCHANGED <<project, found, before>>

Next ==
  \/ Edit
  \/ StartBuild
  \/ RewriteURL
  \/ FinishTemplates
  \/ StartPublic
  \/ AddPublic
  \/ CheckOutputs
  \/ RemoveCache
  \/ WriteCacheFile
  \/ RemoveDistFile
  \/ BuildWASM
  \/ WriteStaticFile
  \/ StartAssets
  \/ WriteAsset
  \/ FinishBuild
  \/ Interrupt

Spec == Init /\ [][Next]_vars

-----------------------------------------------------------------------------
(* Properties.                                                             *)

\* A file of public/ that has a relative URL is in dist under another name.
RelativeToPublic ==
  \E url \in Range(Sources[parsed].template \o Sources[parsed].style) :
    ~url.rooted /\ Assets[url.path].public

\* The last build in dist is not touched before everything that the sources
\* and the assets can be rejected for has been looked at, and before all of
\* this build's code is in the cache for Go to compile, whatever earlier
\* builds left there.
DistKeptUntilGenerated ==
  dist # before =>
    /\ Sources[parsed].verdict \in {"good", "unbuildable"}
    /\ ~rejects
    /\ ~Conflict
    /\ DOMAIN cache = {f.name : f \in Range(CacheFiles)}
    /\ \A f \in Range(CacheFiles) : cache[f.name] = f.content

\* When a build succeeds, dist has exactly the files of that build, nothing of
\* an earlier or an interrupted one and none in the place of another, and
\* every URL in the generated code is that of a file with the content that
\* its hash was made of, also when the file was edited meanwhile.
DistIsTheBuild ==
  stage = "done" =>
    /\ DOMAIN dist = reservedFiles \cup {assets[p].name : p \in DOMAIN assets}
    /\ \A n \in reservedFiles : dist[n] = StaticContent(n)
    /\ \A p \in DOMAIN assets : dist[assets[p].name] = Written(p)
    /\ ~RelativeToPublic => \A url \in urls :
         url.dir = "" /\ url.name \in DOMAIN dist /\ dist[url.name] = <<url.content>>
=============================================================================
