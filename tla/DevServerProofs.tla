---------------------------- MODULE DevServerProofs ----------------------------
(***************************************************************************)
(* Theorems about DevServer, for any files, tabs and bounds.  What they    *)
(* need of the broadcaster is taken from BroadcasterProofs: every step of  *)
(* the dev server is a step of its broadcaster or leaves it alone.         *)
(***************************************************************************)
EXTENDS DevServer, TLAPS

bp == INSTANCE BroadcasterProofs WITH Connections <- Tabs

\* TypeOK without the broadcaster.
OwnType ==
  /\ files \in Projects
  /\ edits \in 0 .. MaxEdits
  /\ failures \in 0 .. MaxFailures
  /\ step \in {"build", "gobuild", "publish", "sending", "report",
              "start", "capture", "idle", "stopped"}
  /\ watching \in BOOLEAN
  /\ unread \in SUBSET Files
  /\ next \in Projects
  /\ snapshot \in Projects
  /\ success \in {"ready", "reload", "style"}
  /\ outcome \in EventTypes
  /\ dist \in Builds
  /\ page \in [Tabs -> Pages]
  /\ overlay \in [Tabs -> BOOLEAN]

LEMMA MissingTypes ==
  /\ Missing \in Versions /\ NoFiles \in Projects
  /\ \A p \in Projects : TextsOf(p) \in [Files -> Texts \cup {Absent}]
  /\ \A kind \in {"app", "error", "none"}, p \in Projects : [kind |-> kind, of |-> p] \in Builds
  /\ \A kind \in {"closed", "loading", "app", "error", "none"}, p \in Projects :
       [kind |-> kind, of |-> p, code |-> TextsOf(p)] \in Pages
<1>1. Missing \in Versions /\ NoFiles \in Projects
  BY DevBounds DEF Missing, Versions, NoFiles, Projects
<1>2. \A p \in Projects : TextsOf(p) \in [Files -> Texts \cup {Absent}]
  BY DEF Projects, Versions, TextsOf
<1> QED BY <1>1, <1>2 DEF Builds, Pages

LEMMA TypeInit == Init => OwnType
<1> SUFFICES ASSUME Init
             PROVE  OwnType
  OBVIOUS
<1>1. files \in Projects
  BY DevBounds DEF Init, Projects, Versions
<1>2. dist \in Builds /\ page \in [Tabs -> Pages] /\ overlay \in [Tabs -> BOOLEAN]
  BY MissingTypes DEF Init
<1>3. /\ edits \in 0 .. MaxEdits /\ failures \in 0 .. MaxFailures
      /\ unread \in SUBSET Files /\ next \in Projects /\ snapshot \in Projects
  BY DevBounds, MissingTypes DEF Init
<1>4. /\ step = "build" /\ watching = FALSE /\ success = "ready" /\ outcome = "ready"
  BY DEF Init
<1> QED BY <1>1, <1>2, <1>3, <1>4 DEF OwnType, EventTypes

\* What handleEvent makes of the page of c.
LEMMA Handled ==
  ASSUME OwnType, NEW c \in Tabs, NEW type, handleEvent(c, type)
  PROVE  /\ page' \in [Tabs -> Pages] /\ overlay' \in [Tabs -> BOOLEAN]
         /\ \A d \in Tabs : d # c => page'[d] = page[d] /\ overlay'[d] = overlay[d]
         /\ overlay'[c] = (type = "error")
         /\ type = "style" /\ page[c].kind = "app" =>
              /\ page'[c].kind = "app"
              /\ page'[c].code = page[c].code
              /\ dist.kind = "app" =>
                   \A f \in StyleFiles : Links(page[c], f) => page'[c].of[f] = dist.of[f]
         /\ type = "reload" => page'[c].kind = "loading"
         /\ type # "reload" /\ ~(type = "style" /\ page[c].kind = "app") =>
              page'[c] = page[c]
<1> DEFINE new == CASE type = "style" /\ page[c].kind = "app" -> Restyled(page[c])
                    [] type = "reload" -> [page[c] EXCEPT !.kind = "loading"]
                    [] OTHER -> page[c]
<1>1. page' = [page EXCEPT ![c] = new] /\ overlay' = [overlay EXCEPT ![c] = (type = "error")]
  BY DEF handleEvent
<1>2. /\ page \in [Tabs -> Pages] /\ page[c] \in Pages /\ dist \in Builds
      /\ overlay \in [Tabs -> BOOLEAN]
  BY DEF OwnType
<1>3. /\ Restyled(page[c]) \in Pages
      /\ Restyled(page[c]).kind = page[c].kind
      /\ Restyled(page[c]).code = page[c].code
      /\ dist.kind = "app" =>
           \A f \in StyleFiles : Links(page[c], f) => Restyled(page[c]).of[f] = dist.of[f]
  <2> DEFINE of == [f \in Files |->
                      IF f \notin StyleFiles THEN page[c].of[f]
                      ELSE IF dist.kind = "app" /\ Links(page[c], f) THEN dist.of[f]
                      ELSE Missing]
  <2>1. Restyled(page[c]) = [page[c] EXCEPT !.of = of]
    BY DEF Restyled
  <2>2. of \in Projects
    BY <1>2, MissingTypes DEF Pages, Builds, Projects
  <2>3. Restyled(page[c]) = [kind |-> page[c].kind, of |-> of, code |-> page[c].code]
    <3> HIDE DEF of
    <3> QED BY <1>2, <2>1 DEF Pages
  <2>4. dist.kind = "app" => \A f \in StyleFiles : Links(page[c], f) => of[f] = dist.of[f]
    BY StylesAreFiles
  <2> HIDE DEF of
  <2> QED BY <1>2, <2>2, <2>3, <2>4 DEF Pages
<1>4. /\ [page[c] EXCEPT !.kind = "loading"] \in Pages
      /\ [page[c] EXCEPT !.kind = "loading"].kind = "loading"
  BY <1>2 DEF Pages
<1>5. type = "style" /\ page[c].kind = "app" => new = Restyled(page[c])
  OBVIOUS
<1>6. type = "reload" => new = [page[c] EXCEPT !.kind = "loading"]
  OBVIOUS
<1>7. type # "reload" /\ ~(type = "style" /\ page[c].kind = "app") => new = page[c]
  OBVIOUS
<1>8. new \in Pages
  BY <1>2, <1>3, <1>4, <1>5, <1>6, <1>7
<1> HIDE DEF new
<1>9. /\ page' \in [Tabs -> Pages] /\ overlay' \in [Tabs -> BOOLEAN]
      /\ \A d \in Tabs : d # c => page'[d] = page[d] /\ overlay'[d] = overlay[d]
      /\ page'[c] = new
  BY <1>1, <1>2, <1>8
<1>10. overlay'[c] = (type = "error")
  BY <1>1, <1>2
<1> QED BY <1>3, <1>4, <1>5, <1>6, <1>7, <1>9, <1>10

\* Broken pages, closed sockets: the overlay stays a Boolean.
LEMMA DisconnectedType ==
  ASSUME OwnType, NEW c \in Tabs, Disconnected(c)
  PROVE  /\ overlay' \in [Tabs -> BOOLEAN]
         /\ \A d \in Tabs : overlay[d] => overlay'[d]
<1>1. overlay \in [Tabs -> BOOLEAN] /\ HasClient(c) \in BOOLEAN
  BY DEF OwnType, HasClient
<1>2. overlay' = [overlay EXCEPT ![c] = overlay[c] \/ HasClient(c)]
  BY DEF Disconnected
<1>3. (overlay[c] \/ HasClient(c)) \in BOOLEAN
  BY <1>1
<1>4. overlay' \in [Tabs -> BOOLEAN]
  BY <1>1, <1>2, <1>3
<1>5. \A d \in Tabs : overlay[d] => overlay'[d]
  BY <1>1, <1>2
<1> QED BY <1>4, <1>5

LEMMA TypeNext ==
  ASSUME OwnType, [Next]_vars
  PROVE  OwnType'
<1> USE DEF OwnType
<1>0. ASSUME Fail
      PROVE  failures' \in 0 .. MaxFailures
  BY <1>0, DevBounds DEF Fail
<1>1. ASSUME NEW f \in Files, NEW text \in Texts \cup {Absent}, Edit(f, text)
      PROVE  OwnType'
  <2>1. edits' \in 0 .. MaxEdits /\ edits' = edits + 1
    BY <1>1, DevBounds DEF Edit
  <2>2. [text |-> text, at |-> edits + 1] \in Versions
    BY <2>1 DEF Versions
  <2>3. files' \in Projects
    BY <1>1, <2>2 DEF Edit, Projects
  <2> QED BY <1>1, <2>1, <2>3 DEF Edit, watcher, browser
<1>2. ASSUME NEW f \in Files, ReadFile(f)
      PROVE  OwnType'
  <2>1. next' \in Projects
    BY <1>2 DEF ReadFile, Projects
  <2> QED BY <1>2, <2>1 DEF ReadFile, disk, browser
<1>3. CASE CleanDist \/ FinishBuild
  <2>1. dist' \in Builds
    BY <1>3, MissingTypes DEF CleanDist, FinishBuild
  <2>2. outcome' \in EventTypes
    BY <1>3 DEF CleanDist, FinishBuild, EventTypes
  <2>3. UNCHANGED <<disk, failures, watching, unread, next, snapshot, success, browser>>
        /\ step' \in {"gobuild", "publish"}
    BY <1>3 DEF CleanDist, FinishBuild, Goto
  <2> QED BY <2>1, <2>2, <2>3 DEF disk, browser
<1>4. ASSUME NEW kind \in {"error", "none"}, FailBuild(kind)
      PROVE  OwnType'
  <2>1. dist' \in Builds
    BY <1>4, MissingTypes DEF FailBuild
  <2>2. failures' \in 0 .. MaxFailures
    BY <1>0, <1>4 DEF FailBuild
  <2>3. /\ UNCHANGED <<disk, watching, unread, next, snapshot, success, browser>>
        /\ step' = "publish" /\ outcome' = "error"
    BY <1>4 DEF FailBuild, Goto
  <2> QED BY <2>1, <2>2, <2>3 DEF disk, browser, EventTypes
<1>5. CASE Publish \/ StopWatching \/ StartWithout \/ NoChanges
  <2>1. /\ UNCHANGED <<disk, failures, unread, next, snapshot, success, outcome, dist,
                       browser>>
        /\ step' \in {"sending", "start", "stopped", "idle"} /\ watching' \in BOOLEAN
    BY <1>5 DEF Publish, StopWatching, StartWithout, NoChanges, Goto
  <2> QED BY <2>1 DEF disk, browser
<1>6. CASE Published \/ Tick \/ FirstSnapshot \/ Changed
  <2>1. /\ UNCHANGED <<disk, failures, outcome, dist, browser>>
        /\ step' \in {"idle", "capture", "build"} /\ watching' \in BOOLEAN
    BY <1>6 DEF Published, Tick, FirstSnapshot, Changed, Goto
  <2>2. /\ unread' \in SUBSET Files /\ next' \in Projects /\ snapshot' \in Projects
    BY <1>6, MissingTypes DEF Published, Tick, FirstSnapshot, Changed, StartReading
  <2>3. success' \in {"ready", "reload", "style"}
    BY <1>6 DEF Published, Tick, FirstSnapshot, Changed, classifyDevEventType
  <2> QED BY <2>1, <2>2, <2>3 DEF disk, browser
<1>7. CASE CaptureFails
  <2>1. failures' \in 0 .. MaxFailures
    BY <1>0, <1>7 DEF CaptureFails
  <2>2. /\ UNCHANGED <<disk, watching, unread, next, snapshot, success, dist, browser>>
        /\ step' \in {"publish", "report"} /\ outcome' = "error"
    BY <1>7 DEF CaptureFails, Goto
  <2> QED BY <2>1, <2>2 DEF disk, browser, EventTypes
<1>8. ASSUME NEW c \in Tabs, Navigate(c)
      PROVE  OwnType'
  <2>1. page' \in [Tabs -> Pages] /\ overlay' \in [Tabs -> BOOLEAN]
    BY <1>8 DEF Navigate, Pages
  <2> QED BY <1>8, <2>1 DEF Navigate, disk, watcher
<1>9. ASSUME NEW c \in Tabs, Unload(c) \/ Connect(c)
      PROVE  OwnType'
  BY <1>9 DEF Unload, Connect, disk, watcher, browser
<1>10. ASSUME NEW c \in Tabs, LoadPage(c)
       PROVE  OwnType'
  <2>1. [kind |-> dist.kind, of |-> dist.of, code |-> TextsOf(dist.of)] \in Pages
    BY MissingTypes DEF Builds
  <2> QED BY <1>10, <2>1 DEF LoadPage, disk, watcher
<1>11. ASSUME NEW c \in Tabs, Deliver(c)
       PROVE  OwnType'
  <2>1. page' \in [Tabs -> Pages] /\ overlay' \in [Tabs -> BOOLEAN]
    <3>1. CASE HasClient(c)
      BY <1>11, <3>1, Handled DEF Deliver
    <3>2. CASE ~HasClient(c)
      BY <1>11, <3>2 DEF Deliver, browser
    <3> QED BY <3>1, <3>2
  <2> QED BY <1>11, <2>1 DEF Deliver, disk, watcher
<1>12. ASSUME NEW c \in Tabs, LoseConnection(c) \/ Serve(c)
       PROVE  OwnType'
  <2>1. overlay' \in [Tabs -> BOOLEAN]
    BY <1>12, DisconnectedType DEF LoseConnection, Serve
  <2>2. UNCHANGED <<disk, watcher, page>>
    BY <1>12 DEF LoseConnection, Serve
  <2> QED BY <2>1, <2>2 DEF disk, watcher
<1>13. CASE SendEvent \/ Interrupt \/ UNCHANGED vars
  <2>1. UNCHANGED <<disk, watcher, browser>>
    BY <1>13 DEF SendEvent, Interrupt, vars
  <2> QED BY <2>1 DEF disk, watcher, browser
<1> QED
  BY <1>1, <1>2, <1>3, <1>4, <1>5, <1>6, <1>7, <1>8, <1>9, <1>10, <1>11, <1>12, <1>13
  DEF Next, WatchStep

-----------------------------------------------------------------------------
(* The dev server is a user of the broadcaster. *)

LEMMA BroadcasterStep ==
  ASSUME OwnType, [Next]_vars
  PROVE  [bp!Next]_(bp!broadcasterVars)
<1>1. ASSUME UNCHANGED events
      PROVE  UNCHANGED bp!broadcasterVars
  BY <1>1 DEF events, bp!broadcasterVars, bp!publisher, bp!sockets
<1>2. CASE \/ \E f \in Files, text \in Texts \cup {Absent} : Edit(f, text)
           \/ \E f \in Files : ReadFile(f)
           \/ \E kind \in {"error", "none"} : FailBuild(kind)
           \/ \E c \in Tabs : Navigate(c) \/ LoadPage(c)
  BY <1>1, <1>2 DEF Edit, ReadFile, FailBuild, Navigate, LoadPage
<1>3. CASE \/ CleanDist \/ FinishBuild \/ Published \/ Tick \/ StopWatching
           \/ CaptureFails \/ StartWithout \/ FirstSnapshot \/ NoChanges \/ Changed
           \/ UNCHANGED vars
  BY <1>1, <1>3
  DEF CleanDist, FinishBuild, Published, Tick, StopWatching, CaptureFails, StartWithout,
      FirstSnapshot, NoChanges, Changed, vars
<1>4. CASE Publish
  <2>1. outcome \in EventTypes /\ bp!Publish(outcome)
    BY <1>4 DEF OwnType, Publish, broadcaster!Publish, bp!Publish, broadcaster!sockets,
                bp!sockets
  <2> QED BY <2>1 DEF bp!Next
<1>5. ASSUME NEW c \in Tabs, Unload(c) \/ LoseConnection(c)
      PROVE  bp!Next
  <2>1. bp!Close(c)
    BY <1>5 DEF Unload, LoseConnection, broadcaster!Close, bp!Close,
                broadcaster!publisher, bp!publisher
  <2> QED BY <2>1 DEF bp!Next
<1>6. ASSUME NEW c \in Tabs, Connect(c)
      PROVE  bp!Next
  <2>1. bp!Subscribe(c)
    BY <1>6 DEF Connect, broadcaster!Subscribe, bp!Subscribe, broadcaster!Goto, bp!Goto,
                broadcaster!publisher, bp!publisher
  <2> QED BY <2>1 DEF bp!Next
<1>7. ASSUME NEW c \in Tabs, Deliver(c)
      PROVE  bp!Next
  <2>1. bp!Write(c)
    BY <1>7 DEF Deliver, broadcaster!Write, bp!Write, broadcaster!Goto, bp!Goto,
                broadcaster!publisher, bp!publisher
  <2> QED BY <2>1 DEF bp!Next
<1>8. ASSUME NEW c \in Tabs, Serve(c)
      PROVE  bp!Next
  <2>1. bp!Serve(c)
    BY <1>8 DEF Serve, broadcaster!Serve, bp!Serve, broadcaster!WriteFails, bp!WriteFails,
                broadcaster!Take, bp!Take, broadcaster!SocketDone, bp!SocketDone,
                broadcaster!ServerDone, bp!ServerDone, broadcaster!Unsubscribe,
                bp!Unsubscribe, broadcaster!Goto, bp!Goto, broadcaster!publisher,
                bp!publisher
  <2> QED BY <2>1 DEF bp!Next
<1>9. CASE SendEvent
  <2>1. \E c \in Tabs : bp!Send(c)
    BY <1>9 DEF SendEvent, broadcaster!Send, bp!Send
  <2> QED BY <2>1 DEF bp!Next
<1>10. CASE Interrupt
  <2>1. bp!Interrupt
    BY <1>10 DEF Interrupt, broadcaster!Interrupt, bp!Interrupt, broadcaster!publisher,
                 bp!publisher, broadcaster!sockets, bp!sockets
  <2> QED BY <2>1 DEF bp!Next
<1> QED
  BY <1>2, <1>3, <1>4, <1>5, <1>6, <1>7, <1>8, <1>9, <1>10 DEF Next, WatchStep

LEMMA BroadcasterInit == Init => bp!Init
BY DEF Init, broadcaster!Init, bp!Init, broadcaster!NoEvents, bp!NoEvents

LEMMA OwnTypeCorrect == Spec => []OwnType
<1>1. OwnType /\ [Next]_vars => OwnType'
  BY TypeNext
<1> QED BY <1>1, TypeInit, PTL DEF Spec

LEMMA BroadcasterSpec == Spec => bp!Spec
<1>1. OwnType /\ [Next]_vars => [bp!Next]_(bp!broadcasterVars)
  BY BroadcasterStep
<1> QED BY <1>1, BroadcasterInit, OwnTypeCorrect, PTL DEF Spec, bp!Spec

\* What the broadcaster promises by itself holds in the dev server.
LEMMA BroadcasterKept == Spec => []bp!IInv
<1>1. bp!Spec => []bp!IInv
  BY bp!Inductive, SomeCapacity, EnoughEvents DEF EventTypes
<1> QED BY <1>1, BroadcasterSpec, PTL

\* The dev server uses the broadcaster as Broadcaster says: one publisher at a
\* time, a connection per tab, and nothing else touches its state.
THEOREM BroadcasterUsed == Spec => broadcaster!Spec
<1>1. bp!Init => broadcaster!Init
  BY DEF broadcaster!Init, bp!Init, broadcaster!NoEvents, bp!NoEvents
<1>2. UNCHANGED bp!broadcasterVars => UNCHANGED broadcaster!broadcasterVars
  BY DEF broadcaster!broadcasterVars, bp!broadcasterVars, broadcaster!publisher,
         bp!publisher, broadcaster!sockets, bp!sockets
<1>3. \A c : bp!Serve(c) => broadcaster!Serve(c)
  BY DEF broadcaster!Serve, bp!Serve, broadcaster!WriteFails, bp!WriteFails,
         broadcaster!Take, bp!Take, broadcaster!SocketDone, bp!SocketDone,
         broadcaster!ServerDone, bp!ServerDone, broadcaster!Unsubscribe,
         bp!Unsubscribe, broadcaster!Goto, bp!Goto, broadcaster!publisher, bp!publisher
<1>4. \A c : /\ bp!Subscribe(c) => broadcaster!Subscribe(c)
             /\ bp!Write(c) => broadcaster!Write(c)
             /\ bp!Close(c) => broadcaster!Close(c)
             /\ bp!Send(c) => broadcaster!Send(c)
  BY DEF broadcaster!Subscribe, bp!Subscribe, broadcaster!Write, bp!Write,
         broadcaster!Close, bp!Close, broadcaster!Send, bp!Send, broadcaster!Goto,
         bp!Goto, broadcaster!publisher, bp!publisher
<1>5. /\ \A type : bp!Publish(type) => broadcaster!Publish(type)
      /\ bp!Interrupt => broadcaster!Interrupt
  BY DEF broadcaster!Publish, bp!Publish, broadcaster!Interrupt, bp!Interrupt,
         broadcaster!publisher, bp!publisher, broadcaster!sockets, bp!sockets
<1>6. bp!Next => broadcaster!Next
  BY <1>3, <1>4, <1>5 DEF broadcaster!Next, bp!Next
<1>7. [bp!Next]_(bp!broadcasterVars)
        => [broadcaster!Next]_(broadcaster!broadcasterVars)
  BY <1>2, <1>6
<1>8. bp!Spec => broadcaster!Spec
  BY <1>1, <1>7, PTL DEF bp!Spec, broadcaster!Spec
<1> QED BY <1>8, BroadcasterSpec

\* Every variable of the dev server keeps its type.
THEOREM TypeCorrect == Spec => []TypeOK
<1>1. OwnType /\ bp!IInv => TypeOK
  BY DEF OwnType, TypeOK, bp!IInv, bp!TypeOK, broadcaster!TypeOK, bp!Events,
         broadcaster!Events
<1> QED BY <1>1, OwnTypeCorrect, BroadcasterKept, PTL

-----------------------------------------------------------------------------
(* Every change that was seen is built. *)

(***************************************************************************)
(* Nothing that was read is newer than the file.  While a build that was   *)
(* started for a snapshot reads the files, what it has read is no older    *)
(* than the snapshot, since the capture was over before; and dist/ keeps   *)
(* what the last build has read.                                           *)
(***************************************************************************)
Covers(p) == \A f \in Files : snapshot[f].at <= p[f].at

CoverInv ==
  /\ \A f \in Files : /\ files[f].at <= edits
                      /\ next[f].at <= files[f].at
                      /\ snapshot[f].at <= files[f].at
  /\ success # "ready" =>
       /\ watching
       /\ step = "build" => \A f \in Files \ unread : snapshot[f].at <= next[f].at
       /\ step = "gobuild" => Covers(next)
       /\ step \notin {"build", "gobuild"} => Covers(dist.of)

LEMMA CoverInit == Init => CoverInv
<1> SUFFICES ASSUME Init
             PROVE  CoverInv
  OBVIOUS
<1>1. ASSUME NEW f \in Files
      PROVE  files[f].at = 0 /\ next[f].at = -1 /\ snapshot[f].at = -1
  <2>1. PICK t \in Texts : files = [g \in Files |-> [text |-> t, at |-> 0]]
    BY DEF Init
  <2>2. files[f] = [text |-> t, at |-> 0]
    BY <2>1
  <2>3. next[f] = Missing /\ snapshot[f] = Missing
    BY DEF Init, NoFiles
  <2> QED BY <2>2, <2>3 DEF Missing
<1>2. edits = 0 /\ success = "ready"
  BY DEF Init
<1> QED BY <1>1, <1>2 DEF CoverInv

LEMMA CoverNext ==
  ASSUME OwnType, CoverInv, [Next]_vars
  PROVE  CoverInv'
<1>0. /\ edits \in Nat
      /\ \A f \in Files : files[f].at \in Int /\ next[f].at \in Int /\ snapshot[f].at \in Int
      /\ \A f \in Files : -1 <= files[f].at
      /\ \A f \in Files : NoFiles[f].at = -1
  BY DevBounds DEF OwnType, Projects, Versions, NoFiles, Missing
<1>1. ASSUME UNCHANGED <<disk, step, watching, unread, next, snapshot, success, dist>>
      PROVE  CoverInv'
  BY <1>1 DEF CoverInv, Covers, disk
<1>2. ASSUME NEW f \in Files, NEW text \in Texts \cup {Absent}, Edit(f, text)
      PROVE  CoverInv'
  <2>1. /\ files' = [files EXCEPT ![f] = [text |-> text, at |-> edits + 1]]
        /\ edits' = edits + 1
        /\ UNCHANGED <<step, watching, unread, next, snapshot, success, dist>>
    BY <1>2 DEF Edit, watcher
  <2>2. \A g \in Files : files[g].at <= files'[g].at /\ files'[g].at <= edits'
                         /\ files'[g].at \in Int
    BY <1>0, <2>1 DEF OwnType, Projects, CoverInv
  <2>3. \A g \in Files : next[g].at <= files'[g].at /\ snapshot[g].at <= files'[g].at
    BY <1>0, <2>2 DEF CoverInv
  <2> QED BY <2>1, <2>2, <2>3 DEF CoverInv, Covers
<1>3. ASSUME NEW f \in Files, ReadFile(f)
      PROVE  CoverInv'
  <2>1. /\ next' = [next EXCEPT ![f] = files[f]] /\ unread' = unread \ {f}
        /\ step \in {"build", "capture"}
        /\ UNCHANGED <<files, edits, step, watching, snapshot, success, dist>>
    BY <1>3 DEF ReadFile, disk
  <2>2. \A g \in Files : next'[g] = IF g = f THEN files[g] ELSE next[g]
    BY <2>1 DEF OwnType, Projects
  <2>3. \A g \in Files : next'[g].at <= files[g].at
    BY <1>0, <2>2 DEF CoverInv
  <2>4. success # "ready" /\ step = "build" =>
          \A g \in Files \ unread' : snapshot[g].at <= next'[g].at
    BY <2>1, <2>2 DEF CoverInv
  <2> QED BY <2>1, <2>3, <2>4 DEF CoverInv, Covers
<1>4. CASE CleanDist
  <2>1. /\ dist' = [kind |-> "none", of |-> next] /\ step = "build" /\ unread = {}
        /\ step' = "gobuild"
        /\ UNCHANGED <<files, edits, watching, next, snapshot, success>>
    BY <1>4 DEF CleanDist, Goto, disk
  <2> QED BY <2>1 DEF CoverInv, Covers
<1>5. ASSUME FinishBuild \/ \E kind \in {"error", "none"} : FailBuild(kind)
      PROVE  CoverInv'
  <2>1. /\ dist'.of = next /\ step' = "publish"
        /\ step = "gobuild" \/ (step = "build" /\ unread = {})
        /\ UNCHANGED <<files, edits, watching, next, snapshot, success>>
    BY <1>5 DEF FinishBuild, FailBuild, Goto, disk
  <2> QED BY <2>1 DEF CoverInv, Covers
<1>6. CASE Publish \/ StopWatching \/ NoChanges \/ CaptureFails \/ StartWithout
  <2>1. /\ UNCHANGED <<files, edits, next, snapshot, success, dist>>
        /\ step \notin {"build", "gobuild"} /\ step' \notin {"build", "gobuild"}
        /\ watching => watching'
    BY <1>6 DEF Publish, StopWatching, NoChanges, CaptureFails, StartWithout, Goto, disk
  <2> QED BY <2>1 DEF CoverInv, Covers
<1>7. CASE Published \/ Tick
  <2>1. /\ UNCHANGED <<files, edits, watching, snapshot, success, dist>>
        /\ step \notin {"build", "gobuild"} /\ step' \notin {"build", "gobuild"}
        /\ next' = next \/ next' = NoFiles
    BY <1>7 DEF Published, Tick, StartReading, Goto, disk
  <2>2. \A f \in Files : next'[f].at <= files[f].at
    BY <1>0, <2>1 DEF CoverInv
  <2> QED BY <2>1, <2>2 DEF CoverInv, Covers
<1>8. CASE FirstSnapshot
  <2>1. /\ UNCHANGED <<files, edits, next, success>> /\ snapshot' = next /\ ~watching
    BY <1>8 DEF FirstSnapshot, disk
  <2> QED BY <2>1 DEF CoverInv
<1>9. CASE Changed
  <2>1. /\ UNCHANGED <<files, edits>> /\ snapshot' = next /\ watching /\ watching'
        /\ step' = "build" /\ unread' = Files /\ next' = NoFiles
    BY <1>9 DEF Changed, StartReading, Goto, disk
  <2>2. \A f \in Files : next'[f].at <= files[f].at /\ snapshot'[f].at <= files[f].at
    BY <1>0, <2>1 DEF CoverInv
  <2> QED BY <2>1, <2>2 DEF CoverInv
<1>10. ASSUME NEW c \in Tabs,
              \/ Navigate(c) \/ Unload(c) \/ LoadPage(c) \/ Connect(c)
              \/ Deliver(c) \/ LoseConnection(c) \/ Serve(c)
       PROVE  CoverInv'
  BY <1>1, <1>10
  DEF Navigate, Unload, LoadPage, Connect, Deliver, LoseConnection, Serve, watcher
<1>11. CASE SendEvent \/ Interrupt \/ UNCHANGED vars
  BY <1>1, <1>11 DEF SendEvent, Interrupt, vars, watcher
<1> QED
  BY <1>2, <1>3, <1>4, <1>5, <1>6, <1>7, <1>8, <1>9, <1>10, <1>11 DEF Next, WatchStep

\* A build that was started for a snapshot is not older than the snapshot,
\* however the developer edits while files are read.
THEOREM BuildCoversSnapshotCorrect == Spec => []BuildCoversSnapshot
<1> DEFINE Newer(f) == dist.of[f].at >= snapshot[f].at
<1>1. OwnType /\ CoverInv /\ [Next]_vars => CoverInv'
  BY CoverNext
<1>2. ASSUME OwnType, CoverInv, step = "idle", success # "ready", NEW f \in Files
      PROVE  Newer(f)
  <2>1. dist.of[f].at \in Int /\ snapshot[f].at \in Int
    BY <1>2 DEF OwnType, Builds, Projects, Versions
  <2>2. snapshot[f].at <= dist.of[f].at
    BY <1>2 DEF CoverInv, Covers
  <2> QED BY <2>1, <2>2
<1>3. OwnType /\ CoverInv => BuildCoversSnapshot
  <2>1. (step = "idle" /\ success # "ready" => \A f \in Files : Newer(f))
          => BuildCoversSnapshot
    BY Zenon DEF BuildCoversSnapshot
  <2> HIDE DEF Newer
  <2> QED BY <1>2, <2>1
<1> QED BY <1>1, <1>3, CoverInit, OwnTypeCorrect, PTL DEF Spec

-----------------------------------------------------------------------------
(* What the pages show. *)

LEMMA EventsGenuine == Spec => []bp!Genuine
<1>1. bp!Spec => []bp!Genuine
  BY bp!GenuineCorrect, SomeCapacity, EnoughEvents DEF EventTypes
<1> QED BY <1>1, BroadcasterSpec, PTL

(***************************************************************************)
(* The event of a build is published after dist/ was written, and dist/    *)
(* stays as it is until the next build has read all files.  Steady says    *)
(* that the current event speaks of dist/ as it is.                        *)
(***************************************************************************)
Steady == step \in {"sending", "start", "idle", "capture"}

EventInv ==
  /\ sending # {} => step \in {"sending", "start"}
  /\ step = "report" => outcome = "error"
  /\ step = "publish" /\ dist.kind # "app" => outcome = "error"
  /\ Steady /\ dist.kind # "app" => current.type = "error"
  /\ watching /\ step \in {"build", "gobuild"} => success # "ready"
  /\ watching /\ step = "publish" => outcome # "ready"

Styled(c) ==
  \A f \in StyleFiles : Links(page[c], f) => page[c].of[f] = dist.of[f]

(***************************************************************************)
(* Of a page whose client waits: the overlay shows if the last event was   *)
(* an error, and it was no reload, since that makes the page load again.   *)
(* Of a page with the app: it has the styles of dist/ if it has got the    *)
(* style event of dist/, or if there was no event since the first build.   *)
(***************************************************************************)
PageInv ==
  /\ ~watching => \A c \in Tabs : page[c].kind = "closed"
  /\ \A c \in Tabs : HasClient(c) /\ serving[c] = "waiting" =>
       /\ writing[c].type = "error" => overlay[c]
       /\ writing[c].type # "reload"
  /\ Steady /\ dist.kind = "app" /\ current.type = "style" =>
       \A c \in Tabs :
         page[c].kind = "app" /\ serving[c] = "waiting" /\ writing[c].id = current.id
           => Styled(c)
  /\ Steady /\ watching /\ dist.kind = "app" /\ current.type = "ready" =>
       \A c \in Tabs : page[c].kind = "app" => Styled(c)

LEMMA EventInit == Init => EventInv
BY DEF Init, broadcaster!Init, EventInv, Steady

LEMMA EventNext ==
  ASSUME OwnType, EventInv, [Next]_vars
  PROVE  EventInv'
<1>0. ASSUME UNCHANGED <<watcher, current>>, sending' \subseteq sending
      PROVE  EventInv'
  BY <1>0 DEF EventInv, Steady, watcher
<1>1. ASSUME \/ \E f \in Files, text \in Texts \cup {Absent} : Edit(f, text)
             \/ \E f \in Files : ReadFile(f)
      PROVE  EventInv'
  BY <1>1 DEF Edit, ReadFile, EventInv, Steady, watcher, events
<1>2. CASE CleanDist
  BY <1>2 DEF CleanDist, Goto, EventInv, Steady, events
<1>3. CASE FinishBuild
  BY <1>3 DEF FinishBuild, Goto, EventInv, Steady, events
<1>4. ASSUME NEW kind \in {"error", "none"}, FailBuild(kind)
      PROVE  EventInv'
  BY <1>4 DEF FailBuild, Goto, EventInv, Steady, events
<1>5. CASE Publish
  <2>1. /\ step \in {"publish", "report"} /\ current'.type = outcome
        /\ step' = IF step = "publish" THEN "sending" ELSE "start"
        /\ UNCHANGED <<success, outcome, dist, watching>>
    BY <1>5 DEF Publish, Goto, broadcaster!Publish
  <2> QED BY <2>1 DEF EventInv, Steady
<1>6. CASE Published \/ Tick \/ StopWatching \/ StartWithout \/ FirstSnapshot \/ NoChanges
  <2>1. /\ Steady /\ sending = {}
        /\ step' \in {"idle", "capture", "stopped"}
        /\ UNCHANGED <<success, outcome, dist, current, sending>>
    BY <1>6 DEF Published, Tick, StopWatching, StartWithout, FirstSnapshot, NoChanges,
                Goto, Steady, events, EventInv
  <2> QED BY <2>1 DEF EventInv, Steady
<1>7. CASE CaptureFails
  BY <1>7 DEF CaptureFails, Goto, EventInv, Steady, events
<1>8. CASE Changed
  BY <1>8 DEF Changed, Goto, EventInv, Steady, events, classifyDevEventType
<1>9. ASSUME NEW c \in Tabs, Navigate(c) \/ LoadPage(c)
      PROVE  EventInv'
  BY <1>0, <1>9 DEF Navigate, LoadPage, events
<1>10. ASSUME NEW c \in Tabs,
              Unload(c) \/ Connect(c) \/ Deliver(c) \/ LoseConnection(c)
       PROVE  EventInv'
  <2>1. UNCHANGED <<watcher, current, sending>>
    BY <1>10
    DEF Unload, Connect, Deliver, LoseConnection, broadcaster!Close,
        broadcaster!Subscribe, broadcaster!Write, broadcaster!publisher
  <2> QED BY <1>0, <2>1
<1>11. ASSUME NEW c \in Tabs, Serve(c)
       PROVE  EventInv'
  <2>1. UNCHANGED <<watcher, current>> /\ sending' \subseteq sending
    BY <1>11
    DEF Serve, broadcaster!Serve, broadcaster!WriteFails, broadcaster!Take,
        broadcaster!SocketDone, broadcaster!ServerDone, broadcaster!Unsubscribe,
        broadcaster!publisher
  <2> QED BY <1>0, <2>1
<1>12. CASE SendEvent \/ Interrupt \/ UNCHANGED vars
  <2>1. UNCHANGED <<watcher, current>> /\ sending' \subseteq sending
    BY <1>12
    DEF SendEvent, Interrupt, vars, events, broadcaster!Send, broadcaster!Interrupt,
        broadcaster!publisher
  <2> QED BY <1>0, <2>1
<1> QED
  BY <1>1, <1>2, <1>3, <1>4, <1>5, <1>6, <1>7, <1>8, <1>9, <1>10, <1>11, <1>12
  DEF Next, WatchStep

LEMMA PageInit == Init => PageInv
<1>1. ASSUME Init, NEW c \in Tabs
      PROVE  page[c].kind = "closed" /\ serving[c] = "closed"
  BY <1>1 DEF Init, broadcaster!Init
<1>2. Init => ~watching
  BY DEF Init
<1> QED BY <1>1, <1>2 DEF PageInv, HasClient

(***************************************************************************)
(* PageInv, tab by tab.                                                    *)
(***************************************************************************)
PageAt(c) ==
  /\ ~watching => page[c].kind = "closed"
  /\ HasClient(c) /\ serving[c] = "waiting" =>
       /\ writing[c].type = "error" => overlay[c]
       /\ writing[c].type # "reload"
  /\ /\ Steady /\ dist.kind = "app" /\ page[c].kind = "app"
     /\ \/ /\ current.type = "style"
           /\ serving[c] = "waiting" /\ writing[c].id = current.id
        \/ current.type = "ready" /\ watching
     => Styled(c)

LEMMA PageByTab == PageInv <=> \A c \in Tabs : PageAt(c)
BY DEF PageInv, PageAt

\* A step of the watcher that neither writes dist/ nor publishes.
LEMMA PageKept ==
  ASSUME NEW c \in Tabs, PageAt(c), UNCHANGED <<dist, current>>,
         page'[c] = page[c], overlay[c] => overlay'[c],
         watching' = watching, Steady' => Steady,
         serving'[c] = "waiting" => serving[c] = "waiting" /\ writing'[c] = writing[c]
  PROVE  PageAt(c)'
BY DEF PageAt, HasClient, Styled, Links

\* Pages change only when their client handles an event or they are loaded, and
\* an event finds dist/ as its build has left it.
LEMMA DeliverKeepsPages ==
  ASSUME OwnType, PageInv, bp!IInv, bp!Genuine, EventInv,
         NEW c \in Tabs, Deliver(c), NEW d \in Tabs
  PROVE  PageAt(d)'
<1>1. PageAt(d)
  BY PageByTab
<1>2. /\ UNCHANGED <<disk, watcher, current>>
      /\ serving[c] = "writing"
      /\ serving' = [serving EXCEPT ![c] = "waiting"]
      /\ writing' = writing
  BY DEF Deliver, broadcaster!Write, broadcaster!Goto, broadcaster!publisher
<1>3. serving \in [Tabs -> {"closed", "writing", "waiting", "leaving"}]
  BY DEF bp!IInv, bp!TypeOK
<1>4. UNCHANGED <<dist, watching, Steady>>
  BY <1>2 DEF watcher, Steady
<1>5. CASE d # c
  <2>1. page'[d] = page[d] /\ overlay'[d] = overlay[d]
    <3>1. CASE HasClient(c)
      BY <1>5, <3>1, Handled DEF Deliver
    <3>2. CASE ~HasClient(c)
      BY <1>5, <3>2 DEF Deliver, browser
    <3> QED BY <3>1, <3>2
  <2> QED BY <1>1, <1>2, <1>3, <1>4, <1>5, <2>1, PageKept
<1>6. CASE d = c /\ ~HasClient(c)
  <2>1. page'[c] = page[c]
    BY <1>6 DEF Deliver, browser
  <2> QED BY <1>1, <1>4, <1>6, <2>1 DEF PageAt, HasClient
<1>7. CASE d = c /\ HasClient(c)
  <2>1. /\ overlay'[c] = (writing[c].type = "error")
        /\ writing[c].type = "style" /\ page[c].kind = "app" =>
             /\ page'[c].kind = "app"
             /\ page'[c].code = page[c].code
             /\ dist.kind = "app" =>
                  \A f \in StyleFiles : Links(page[c], f) => page'[c].of[f] = dist.of[f]
        /\ writing[c].type = "reload" => page'[c].kind = "loading"
        /\ writing[c].type # "reload" /\ ~(writing[c].type = "style" /\ page[c].kind = "app")
             => page'[c] = page[c]
    BY <1>7, Handled DEF Deliver
  <2>2. ~watching' => page'[c].kind = "closed"
    BY <1>1, <1>4, <1>7 DEF PageAt, HasClient
  <2>3. HasClient(c)' => (writing'[c].type = "error" => overlay'[c])
                         /\ writing'[c].type # "reload"
    BY <1>2, <2>1 DEF HasClient
  <2>4. ASSUME dist.kind = "app", page'[c].kind = "app", writing[c].type = "style",
               page[c].kind = "app"
        PROVE  Styled(c)'
    BY <1>4, <2>1, <2>4 DEF Styled, Links
  <2>5. writing[c].id = current.id => writing[c] = current
    BY <1>2 DEF bp!Genuine, bp!GenuineAt, bp!Served
  <2>6. ASSUME Steady, dist.kind = "app", page'[c].kind = "app",
               current.type = "style", writing[c].id = current.id
        PROVE  Styled(c)'
    BY <2>1, <2>4, <2>5, <2>6
  <2>7. ASSUME Steady, dist.kind = "app", page'[c].kind = "app",
               current.type = "ready", watching
        PROVE  Styled(c)'
    <3>1. CASE writing[c].type = "style" /\ page[c].kind = "app"
      BY <2>4, <2>7, <3>1
    <3>2. CASE ~(writing[c].type = "style" /\ page[c].kind = "app")
      <4>1. page'[c] = page[c]
        BY <2>1, <2>7, <3>2
      <4> QED BY <1>1, <1>4, <1>7, <2>7, <4>1 DEF PageAt, Styled, Links
    <3> QED BY <3>1, <3>2
  <2> QED BY <1>2, <1>4, <1>7, <2>2, <2>3, <2>6, <2>7 DEF PageAt
<1> QED BY <1>5, <1>6, <1>7

LEMMA PageNext ==
  ASSUME OwnType, PageInv, bp!IInv, bp!Genuine, EventInv, [Next]_vars
  PROVE  PageInv'
<1> SUFFICES ASSUME NEW d \in Tabs
             PROVE  PageAt(d)'
  BY DEF PageInv, PageAt
<1>0. /\ PageAt(d)
      /\ serving \in [Tabs -> {"closed", "writing", "waiting", "leaving"}]
      /\ page \in [Tabs -> Pages] /\ overlay \in [Tabs -> BOOLEAN]
  BY PageByTab DEF OwnType, bp!IInv, bp!TypeOK
<1>1. ASSUME \/ \E f \in Files, text \in Texts \cup {Absent} : Edit(f, text)
             \/ \E f \in Files : ReadFile(f)
      PROVE  PageAt(d)'
  BY <1>0, <1>1, PageKept DEF Edit, ReadFile, watcher, browser, events, Steady
<1>2. ASSUME UNCHANGED <<browser, events, watching>>, ~Steady'
      PROVE  PageAt(d)'
  BY <1>0, <1>2 DEF PageAt, HasClient, browser, events
<1>3. CASE CleanDist \/ FinishBuild \/ \E kind \in {"error", "none"} : FailBuild(kind)
  BY <1>2, <1>3 DEF CleanDist, FinishBuild, FailBuild, Goto, Steady
<1>4. CASE Publish
  <2>1. /\ UNCHANGED <<dist, watching, browser, serving, writing, received>>
        /\ current' = [type |-> outcome, id |-> current.id + 1]
        /\ step \in {"publish", "report"} /\ outcome = outcome'
    BY <1>4 DEF Publish, broadcaster!Publish, broadcaster!sockets
  <2>2. serving[d] = "waiting" => writing[d].id # current'.id
    <3>1. current.id \in Nat /\ current'.id = current.id + 1
      BY <2>1 DEF bp!IInv, bp!TypeOK, bp!Events
    <3>2. serving[d] = "waiting" => received[d] = writing[d].id /\ received[d] <= current.id
      BY DEF bp!Genuine, bp!GenuineAt, bp!IInv, bp!Tidy, bp!OpenOrdered
    <3> QED BY <3>1, <3>2
  <2>3. watching => current'.type # "ready"
    BY <2>1 DEF EventInv
  <2> QED BY <1>0, <2>1, <2>2, <2>3 DEF PageAt, HasClient, browser
<1>5. CASE CaptureFails \/ Changed \/ StopWatching
  BY <1>2, <1>5 DEF CaptureFails, Changed, StopWatching, Goto, Steady
<1>6. CASE Published \/ Tick \/ NoChanges
  <2>1. UNCHANGED <<dist, watching, browser, events>> /\ Steady
    BY <1>6 DEF Published, Tick, NoChanges, Steady
  <2> QED BY <1>0, <2>1, PageKept DEF browser, events
<1>7. CASE StartWithout \/ FirstSnapshot
  <2>1. UNCHANGED <<dist, browser, events>> /\ (watching \/ page[d].kind = "closed")
    BY <1>0, <1>7 DEF StartWithout, FirstSnapshot, PageAt
  <2>2. Steady /\ (~watching' => ~watching)
    BY <1>7 DEF StartWithout, FirstSnapshot, Steady
  <2> QED BY <1>0, <2>1, <2>2 DEF PageAt, HasClient, Styled, Links, browser, events
<1>8. ASSUME NEW c \in Tabs, Navigate(c) \/ LoadPage(c)
      PROVE  PageAt(d)'
  <2>1. UNCHANGED <<watcher, events>>
    BY <1>8 DEF Navigate, LoadPage
  <2>2. CASE d # c
    <3>1. page'[d] = page[d] /\ overlay'[d] = overlay[d]
      BY <1>0, <1>8, <2>2 DEF Navigate, LoadPage
    <3> QED BY <1>0, <2>1, <3>1, PageKept DEF watcher, events, Steady
  <2>3. CASE d = c /\ Navigate(c)
    <3>1. page'[d].kind = "loading" /\ watching
      BY <1>0, <2>3 DEF Navigate, Pages
    <3> QED BY <2>1, <3>1 DEF PageAt, HasClient, watcher
  <2>4. CASE d = c /\ LoadPage(c)
    <3>1. page'[d].kind = dist.kind /\ page'[d].of = dist.of /\ serving[d] = "closed" /\ page[d].kind = "loading"
      BY <1>0, <2>4 DEF LoadPage
    <3>2. watching
      BY <1>0, <3>1 DEF PageAt
    <3> QED BY <2>1, <3>1, <3>2 DEF PageAt, Styled, Links, watcher, events
  <2> QED BY <1>8, <2>2, <2>3, <2>4
<1>9. ASSUME NEW c \in Tabs, Unload(c) \/ Connect(c)
      PROVE  PageAt(d)'
  <2>1. UNCHANGED <<watcher, browser, current>>
    BY <1>9 DEF Unload, Connect, broadcaster!Close, broadcaster!Subscribe,
                broadcaster!publisher
  <2>2. serving'[d] = "waiting" => serving[d] = "waiting" /\ writing'[d] = writing[d]
    BY <1>0, <1>9 DEF Unload, Connect, broadcaster!Close, broadcaster!Subscribe,
                      broadcaster!Goto, bp!IInv, bp!TypeOK
  <2> QED BY <1>0, <2>1, <2>2, PageKept DEF watcher, browser, Steady
<1>10. ASSUME NEW c \in Tabs, Deliver(c)
       PROVE  PageAt(d)'
  BY <1>10, DeliverKeepsPages
<1>11. ASSUME NEW c \in Tabs, LoseConnection(c) \/ Serve(c)
       PROVE  PageAt(d)'
  <2>1. UNCHANGED <<watcher, page, current>>
    BY <1>11
    DEF LoseConnection, Serve, broadcaster!Close, broadcaster!Serve,
        broadcaster!WriteFails, broadcaster!Take, broadcaster!SocketDone,
        broadcaster!ServerDone, broadcaster!Unsubscribe, broadcaster!publisher
  <2>2. overlay[d] => overlay'[d]
    BY <1>11, DisconnectedType DEF LoseConnection, Serve
  <2>3. serving'[d] = "waiting" => serving[d] = "waiting" /\ writing'[d] = writing[d]
    BY <1>0, <1>11
    DEF LoseConnection, Serve, broadcaster!Close, broadcaster!Serve,
        broadcaster!WriteFails, broadcaster!Take, broadcaster!SocketDone,
        broadcaster!ServerDone, broadcaster!Unsubscribe, broadcaster!Goto,
        bp!IInv, bp!TypeOK
  <2> QED BY <1>0, <2>1, <2>2, <2>3, PageKept DEF watcher, Steady
<1>12. CASE SendEvent \/ Interrupt \/ UNCHANGED vars
  <2>1. UNCHANGED <<watcher, browser, current, serving, writing>>
    BY <1>12 DEF SendEvent, Interrupt, vars, events, broadcaster!Send,
                 broadcaster!Interrupt, broadcaster!publisher, broadcaster!sockets
  <2> QED BY <1>0, <2>1, PageKept DEF watcher, browser, Steady
<1> QED
  BY <1>1, <1>3, <1>4, <1>5, <1>6, <1>7, <1>8, <1>9, <1>10, <1>11, <1>12
  DEF Next, WatchStep

\* Events and pages agree with dist/ in the sense of EventInv and PageInv.
LEMMA PagesAgree == Spec => [](EventInv /\ PageInv)
<1>1. OwnType /\ EventInv /\ [Next]_vars => EventInv'
  BY EventNext
<1>2. OwnType /\ PageInv /\ bp!IInv /\ bp!Genuine /\ EventInv /\ [Next]_vars => PageInv'
  BY PageNext
<1> QED BY <1>1, <1>2, EventInit, PageInit, OwnTypeCorrect, BroadcasterKept,
           EventsGenuine, PTL DEF Spec

\* The last event has reached an up-to-date browser.
LEMMA UpToDateHasCurrent ==
  ASSUME bp!IInv, bp!Genuine, EventInv, step = "idle", NEW c \in Tabs, UpToDate(c)
  PROVE  serving[c] = "waiting" /\ HasClient(c) /\ writing[c] = current
<1>1. sending = {} /\ serving[c] = "waiting" /\ channel[c] = <<>> /\ c \notin missed
  BY DEF EventInv, UpToDate
<1>2. bp!NewestID(c) = received[c]
  BY <1>1 DEF bp!NewestID
<1>3. bp!NewestID(c) = current.id
  BY <1>1 DEF bp!IInv, bp!Tidy, bp!LatestComing
<1>4. received[c] = writing[c].id /\ (writing[c].id = current.id => writing[c] = current)
  BY <1>1 DEF bp!Genuine, bp!GenuineAt, bp!Served
<1> QED BY <1>1, <1>2, <1>3, <1>4 DEF UpToDate

\* A failed build is not passed over in silence: the page of every browser that
\* has handled its events shows the overlay.
THEOREM BrokenBuildShownCorrect == Spec => []BrokenBuildShown
<1>1. ASSUME bp!IInv, bp!Genuine, EventInv, PageInv, step = "idle", dist.kind # "app",
             NEW c \in Tabs, UpToDate(c)
      PROVE  overlay[c]
  <2>1. serving[c] = "waiting" /\ HasClient(c) /\ writing[c] = current
    BY <1>1, UpToDateHasCurrent
  <2>2. current.type = "error"
    BY <1>1 DEF EventInv, Steady
  <2> QED BY <1>1, <2>1, <2>2 DEF PageInv
<1>2. bp!IInv /\ bp!Genuine /\ EventInv /\ PageInv => BrokenBuildShown
  BY <1>1 DEF BrokenBuildShown
<1> QED BY <1>2, PagesAgree, BroadcasterKept, EventsGenuine, PTL

\* However a page came to its events, it has the styles of the latest build, of
\* every stylesheet that its program still links.
THEOREM StylesArriveCorrect == Spec => []StylesArrive
<1>1. ASSUME OwnType, bp!IInv, bp!Genuine, EventInv, PageInv, step = "idle",
             dist.kind = "app", current.type # "error", NEW c \in Tabs, UpToDate(c),
             page[c].kind = "app", NEW f \in StyleFiles,
             Links(page[c], f)
      PROVE  page[c].of[f] = dist.of[f]
  <2>1. serving[c] = "waiting" /\ HasClient(c) /\ writing[c] = current
    BY <1>1, UpToDateHasCurrent
  <2>2. current.type \in {"ready", "reload", "style"}
    BY <1>1 DEF bp!IInv, bp!TypeOK, bp!Events, EventTypes
  <2>3. current.type # "reload" /\ watching
    BY <1>1, <2>1 DEF PageInv
  <2>4. Styled(c)
    BY <1>1, <2>1, <2>2, <2>3 DEF PageInv, Steady
  <2> QED BY <1>1, <2>4 DEF Styled
<1>2. OwnType /\ bp!IInv /\ bp!Genuine /\ EventInv /\ PageInv => StylesArrive
  BY <1>1 DEF StylesArrive
<1> QED BY <1>2, PagesAgree, OwnTypeCorrect, BroadcasterKept, EventsGenuine, PTL
=============================================================================
