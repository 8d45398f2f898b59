------------------------------- MODULE DevServer -------------------------------
(***************************************************************************)
(* The dev server of internal/cli/dev.go: serveDev builds the project once *)
(* and takes a snapshot of its files; watchDevProject polls the files and, *)
(* when they differ from the last snapshot, builds again into dist/ and    *)
(* publishes an event; the script tue_dev.js in every open page acts on    *)
(* the events.  Events travel through Broadcaster.  The developer edits    *)
(* the files, and the browsers load pages from dist/, at any time.         *)
(*                                                                         *)
(* A file is its text.  StyleFiles are those whose change is style-only    *)
(* (isStyleOnlyDevChange: .css files, and .tue files of which only style   *)
(* blocks change, parsed without diagnostics).                             *)
(*                                                                         *)
(* After a style event a page still runs the program it was loaded with,   *)
(* and that program fixes two things that an edit of a style may change:   *)
(* the name of a stylesheet that a template links by a relative URL, which *)
(* holds a hash of its text (Hashed), and whether the elements of a        *)
(* component have the attribute that the rules of a scoped style block     *)
(* select (Scoped).                                                        *)
(***************************************************************************)
EXTENDS Integers, Sequences

CONSTANTS
  Files,        \* paths of the watched files
  StyleFiles,   \* those of them whose edits are style-only
  Hashed,       \* those that dist/ holds under a name with a hash
  Texts,        \* what a file may contain
  Scoped,       \* the texts whose style block is scoped
  Broken,       \* the texts for which the build reports diagnostics
  Absent,       \* the file does not exist
  MaxEdits,     \* bound: edits of the developer
  MaxFailures,  \* bound: I/O errors of captures and builds
  Tabs,         \* browser tabs
  Capacity,     \* buffer of a client's channel
  MaxEvents     \* bound: events published

ASSUME StylesAreFiles == StyleFiles \subseteq Files /\ Hashed \subseteq StyleFiles
ASSUME ScopedAreTexts == Scoped \subseteq Texts
ASSUME BrokenAreTexts == Broken \subseteq Texts
ASSUME AbsentIsNoText == Absent \notin Texts
ASSUME DevBounds == MaxEdits \in Nat /\ MaxFailures \in Nat
ASSUME SomeCapacity == Capacity \in Nat \ {0}
\* every event but the first is due to an edit, a failure or the first capture
ASSUME EnoughEvents == MaxEvents \in Nat /\ MaxEvents >= 2 + MaxEdits + MaxFailures

\* A file as it was at some moment, stamped with the edit that made it so.
Versions == [text : Texts \cup {Absent}, at : -1 .. MaxEdits]
Missing == [text |-> Absent, at |-> -1]
Projects == [Files -> Versions]
NoFiles == [f \in Files |-> Missing]
TextsOf(project) == [f \in Files |-> project[f].text]

VARIABLES
  files,     \* the files on disk
  edits,     \* how often they were edited
  failures,  \* I/O errors so far
  step,      \* where serveDev, and then watchDevProject, has got to
  watching,  \* serveDev has started the watcher and serves requests
  unread,    \* the files the capture or build that runs has not read yet
  next,      \* what it has read
  snapshot,  \* the local snapshot of watchDevProject
  success,   \* the type of the event if the build succeeds
  outcome,   \* the type of the event to be published
  dist,      \* what dist/ holds: kind of page, and the files it was built from
  page,      \* what every tab shows: the same, and the texts that the program
             \* of the page was compiled from
  overlay    \* the tab shows the error overlay

VARIABLES current, clients, channel, sending, serving, writing, received,
          missed, gone, stopping

EventTypes == {"ready", "reload", "style", "error"}

broadcaster == INSTANCE Broadcaster WITH Connections <- Tabs

disk == <<files, edits>>
watcher == <<failures, step, watching, unread, next, snapshot, success,
             outcome, dist>>
browser == <<page, overlay>>
events == <<current, clients, channel, sending, serving, writing, received,
            missed, gone, stopping>>
vars == <<disk, watcher, browser, events>>

Init ==
  /\ \E t \in Texts : files = [f \in Files |-> [text |-> t, at |-> 0]]
  /\ edits = 0
  /\ failures = 0
  /\ step = "build"
  /\ watching = FALSE
  /\ unread = Files
  /\ next = NoFiles
  /\ snapshot = NoFiles
  /\ success = "ready"
  /\ outcome = "ready"
  /\ dist = [kind |-> "none", of |-> NoFiles]
  /\ page = [c \in Tabs |-> [kind |-> "closed", of |-> NoFiles,
                           code |-> TextsOf(NoFiles)]]
  /\ overlay = [c \in Tabs |-> FALSE]
  /\ broadcaster!Init

\* The developer edits, creates or removes a file.
Edit(f, text) ==
  /\ edits < MaxEdits
  /\ text # files[f].text
  /\ edits' = edits + 1
  /\ files' = [files EXCEPT ![f] = [text |-> text, at |-> edits + 1]]
  /\ UNCHANGED <<watcher, browser, events>>

-----------------------------------------------------------------------------
(* serveDev and watchDevProject *)

Goto(to) == step' = to
Fail == failures < MaxFailures /\ failures' = failures + 1
StartReading == unread' = Files /\ next' = NoFiles

\* The walk of captureDevSnapshot, and the build, read one file at a time.
ReadFile(f) ==
  /\ step \in {"build", "capture"}
  /\ f \in unread
  /\ unread' = unread \ {f}
  /\ next' = [next EXCEPT ![f] = files[f]]
  /\ UNCHANGED <<disk, failures, step, watching, snapshot, success, outcome, dist,
                 browser, events>>

\* compileDevProject finds nothing wrong in the sources; WriteProductionProject
\* removes dist/ and runs go build.
CleanDist ==
  /\ step = "build" /\ unread = {}
  /\ \A f \in Files : next[f].text \notin Broken
  /\ dist' = [kind |-> "none", of |-> next]
  /\ Goto("gobuild")
  /\ UNCHANGED <<disk, failures, watching, unread, next, snapshot, success,
                 outcome, browser, events>>

\* the snapshot is taken when the build is over
MutantSnapshotAfterBuild ==
  /\ step = "gobuild"
  /\ dist' = [kind |-> "app", of |-> next]
  /\ snapshot' = files
  /\ outcome' = success
  /\ Goto("publish")
  /\ UNCHANGED <<disk, failures, watching, unread, next, success, browser, events>>

\* The build succeeds: dist/ is written, the client script is injected.
FinishBuild ==
  /\ step = "gobuild"
  /\ dist' = [kind |-> "app", of |-> next]
  /\ outcome' = success
  /\ Goto("publish")
  /\ UNCHANGED <<disk, failures, watching, unread, next, snapshot, success,
                 browser, events>>

\* a failed build is announced like a successful one
MutantAnnounceAnyway(kind) ==
  /\ \/ step = "build" /\ unread = {}
        /\ \E f \in Files : next[f].text \in Broken
        /\ kind = "error" /\ UNCHANGED failures
     \/ step \in {"build", "gobuild"} /\ unread = {} /\ Fail
  /\ dist' = [kind |-> kind, of |-> next]
  /\ outcome' = success
  /\ Goto("publish")
  /\ UNCHANGED <<disk, watching, unread, next, snapshot, success, browser, events>>

\* Diagnostics, or an I/O error: writeDevErrorPage replaces dist/ by the error
\* page, or fails as well and leaves nothing there.
FailBuild(kind) ==
  /\ \/ step = "build" /\ unread = {}
        /\ \E f \in Files : next[f].text \in Broken
        /\ kind = "error" /\ UNCHANGED failures
     \/ step \in {"build", "gobuild"} /\ unread = {} /\ Fail
  /\ dist' = [kind |-> kind, of |-> next]
  /\ outcome' = "error"
  /\ Goto("publish")
  /\ UNCHANGED <<disk, watching, unread, next, snapshot, success, browser, events>>

Publish ==
  /\ step \in {"publish", "report"}
  /\ broadcaster!Publish(outcome)
  /\ Goto(IF step = "publish" THEN "sending" ELSE "start")
  /\ UNCHANGED <<disk, failures, watching, unread, next, snapshot, success,
                 outcome, dist, browser>>

\* publish returns: serveDev goes on to its snapshot, the watcher to its ticker
Published ==
  /\ step = "sending" /\ sending = {}
  /\ IF watching THEN Goto("idle") /\ UNCHANGED <<unread, next>>
     ELSE Goto("capture") /\ StartReading
  /\ UNCHANGED <<disk, failures, watching, snapshot, success, outcome, dist,
                 browser, events>>

\* case <-ticker.C
Tick ==
  /\ step = "idle"
  /\ Goto("capture")
  /\ StartReading
  /\ UNCHANGED <<disk, failures, watching, snapshot, success, outcome, dist,
                 browser, events>>

\* case <-ctx.Done()
StopWatching ==
  /\ step = "idle" /\ stopping
  /\ Goto("stopped")
  /\ UNCHANGED <<disk, failures, watching, unread, next, snapshot, success,
                 outcome, dist, browser, events>>

\* captureDevSnapshot fails: that is published, and the snapshot stays
CaptureFails ==
  /\ step = "capture"
  /\ Fail
  /\ outcome' = "error"
  /\ Goto(IF watching THEN "publish" ELSE "report")
  /\ UNCHANGED <<disk, watching, unread, next, snapshot, success, dist, browser,
                 events>>

\* serveDev starts the watcher without a snapshot: its capture has failed.
StartWithout ==
  /\ step = "start" /\ sending = {}
  /\ watching' = TRUE
  /\ Goto("idle")
  /\ UNCHANGED <<disk, failures, unread, next, snapshot, success, outcome, dist,
                 browser, events>>

\* serveDev has its snapshot and starts the watcher.
FirstSnapshot ==
  /\ step = "capture" /\ unread = {} /\ ~watching
  /\ watching' = TRUE
  /\ snapshot' = next
  /\ Goto("idle")
  /\ UNCHANGED <<disk, failures, unread, next, success, outcome, dist, browser,
                 events>>

\* diffDevSnapshots: snapshots are compared by the hashes of the texts.
changes == {f \in Files : snapshot[f].text # next[f].text}

classifyDevEventType ==
  IF /\ changes \subseteq StyleFiles
     /\ \A f \in changes : snapshot[f].text # Absent /\ next[f].text # Absent
  THEN "style"
  ELSE "reload"

NoChanges ==
  /\ step = "capture" /\ unread = {} /\ watching
  /\ changes = {}
  /\ Goto("idle")
  /\ UNCHANGED <<disk, failures, watching, unread, next, snapshot, success,
                 outcome, dist, browser, events>>

\* The files have changed: remember them and build.
Changed ==
  /\ step = "capture" /\ unread = {} /\ watching
  /\ changes # {}
  /\ snapshot' = next
  /\ success' = classifyDevEventType
  /\ Goto("build")
  /\ StartReading
  /\ UNCHANGED <<disk, failures, watching, outcome, dist, browser, events>>

WatchStep ==
  \/ \E f \in Files : ReadFile(f)
  \/ CleanDist \/ FinishBuild \/ (\E kind \in {"error", "none"} : FailBuild(kind))
  \/ Publish \/ Published
  \/ Tick \/ StopWatching
  \/ CaptureFails \/ StartWithout \/ FirstSnapshot \/ NoChanges \/ Changed

-----------------------------------------------------------------------------
(* The browser.  A page has the client script if it was loaded while dist/ *)
(* held an app or the error page.                                          *)

HasClient(c) == page[c].kind \in {"app", "error"}

\* The user opens the page, or reloads it.
Navigate(c) ==
  /\ watching
  /\ page[c].kind # "loading"
  /\ page' = [page EXCEPT ![c].kind = "loading"]
  /\ overlay' = [overlay EXCEPT ![c] = FALSE]
  /\ UNCHANGED <<disk, watcher, events>>

\* A navigation first closes the socket of the old page ...
Unload(c) ==
  /\ page[c].kind = "loading"
  /\ broadcaster!Close(c)
  /\ UNCHANGED <<disk, watcher, browser>>

\* ... and then loads what is there: without index.html, a directory listing.
LoadPage(c) ==
  /\ page[c].kind = "loading"
  /\ serving[c] = "closed"
  /\ page' = [page EXCEPT ![c] = [kind |-> dist.kind, of |-> dist.of,
                                  code |-> TextsOf(dist.of)]]
  /\ UNCHANGED <<disk, watcher, overlay, events>>

\* connect() of the client script, first or after scheduleReconnect
Connect(c) ==
  /\ HasClient(c)
  /\ broadcaster!Subscribe(c)
  /\ UNCHANGED <<disk, watcher, browser>>

\* The program of page p has the name that the stylesheet f has in dist/ now,
\* and the scope attributes that its rules select.
Links(p, f) ==
  /\ f \in Hashed => p.code[f] = dist.of[f].text
  /\ dist.of[f].text \in Scoped => p.code[f] \in Scoped

\* reloadStyles: the stylesheets of a page, loaded again from dist/ by the names
\* that they had when the page was loaded. What is not there under that name, or
\* selects nothing on this page, is lost, and the page has no styles for it.
Restyled(p) ==
  [p EXCEPT !.of = [f \in Files |->
    IF f \notin StyleFiles THEN p.of[f]
    ELSE IF dist.kind = "app" /\ Links(p, f) THEN dist.of[f] ELSE Missing]]

\* a style event only hides the overlay
MutantKeepStyles(c, type) ==
  /\ overlay' = [overlay EXCEPT ![c] = (type = "error")]
  /\ page' = [page EXCEPT ![c] =
                CASE type = "reload" -> [@ EXCEPT !.kind = "loading"]
                  [] OTHER -> @]

\* handleEvent
handleEvent(c, type) ==
  /\ overlay' = [overlay EXCEPT ![c] = (type = "error")]
  /\ page' = [page EXCEPT ![c] =
                CASE type = "style" /\ @.kind = "app" -> Restyled(@)
                  [] type = "reload" -> [@ EXCEPT !.kind = "loading"]
                  [] OTHER -> @]

Deliver(c) ==
  /\ broadcaster!Write(c)
  /\ IF HasClient(c) THEN handleEvent(c, writing[c].type) ELSE UNCHANGED browser
  /\ UNCHANGED <<disk, watcher>>

\* onclose: scheduleReconnect shows that the connection is lost
Disconnected(c) == overlay' = [overlay EXCEPT ![c] = @ \/ HasClient(c)]

\* The network drops the connection.
LoseConnection(c) ==
  /\ HasClient(c)
  /\ broadcaster!Close(c)
  /\ Disconnected(c)
  /\ UNCHANGED <<disk, watcher, page>>

\* The goroutine of the connection goes on; when it leaves, it closes it.
Serve(c) ==
  /\ broadcaster!Serve(c)
  /\ IF serving'[c] = "closed" \/ c \in gone' THEN Disconnected(c)
     ELSE UNCHANGED overlay
  /\ UNCHANGED <<disk, watcher, page>>

\* The loop of publish, on the goroutine of the watcher.
SendEvent ==
  /\ \E c \in Tabs : broadcaster!Send(c)
  /\ UNCHANGED <<disk, watcher, browser>>

Interrupt ==
  /\ broadcaster!Interrupt
  /\ UNCHANGED <<disk, watcher, browser>>

-----------------------------------------------------------------------------
Next ==
  \/ \E f \in Files, text \in Texts \cup {Absent} : Edit(f, text)
  \/ WatchStep
  \/ SendEvent
  \/ \E c \in Tabs :
       \/ Navigate(c) \/ Unload(c) \/ LoadPage(c) \/ Connect(c)
       \/ Deliver(c) \/ LoseConnection(c) \/ Serve(c)
  \/ Interrupt

Spec == Init /\ [][Next]_vars

\* The goroutine of the watcher runs on, its ticker ticks and go build ends.
\* Neither the browsers nor the goroutines that serve them have to do anything.
FairSpec == Spec /\ WF_vars(WatchStep) /\ WF_vars(SendEvent)

-----------------------------------------------------------------------------
(* Properties. *)

Builds == [kind : {"app", "error", "none"}, of : Projects]
Pages == [kind : {"closed", "loading", "app", "error", "none"}, of : Projects,
          code : [Files -> Texts \cup {Absent}]]

\* The type invariant of the watcher, of dist/ and of the pages.
TypeOK ==
  /\ files \in Projects
  /\ edits \in 0 .. MaxEdits
  /\ failures \in 0 .. MaxFailures
  /\ step \in {"build", "gobuild", "publish", "sending", "report",
              "start", "capture", "idle", "stopped"}
  /\ watching \in BOOLEAN
  /\ unread \in SUBSET Files
  /\ next \in Projects
  /\ snapshot \in Projects
  /\ success \in {"ready", "reload", "style"}
  /\ outcome \in EventTypes
  /\ dist \in Builds
  /\ page \in [Tabs -> Pages]
  /\ overlay \in [Tabs -> BOOLEAN]
  /\ broadcaster!TypeOK

\* The browser of c is connected and has handled every event.
UpToDate(c) ==
  /\ HasClient(c)
  /\ serving[c] = "waiting" /\ channel[c] = <<>>
  /\ c \notin gone /\ c \notin missed

\* A build is never older than the snapshot it is to bring about, however the
\* developer edits between the capture and the build: what a later diff with
\* that snapshot does not report is in dist/ or was overwritten since.
BuildCoversSnapshot ==
  step = "idle" /\ success # "ready" =>
    \A f \in Files : dist.of[f].at >= snapshot[f].at

\* A build that failed is never passed over in silence: while dist/ has no app,
\* every connected page that has handled its events shows the error overlay.
BrokenBuildShown ==
  step = "idle" /\ dist.kind # "app" =>
    \A c \in Tabs : UpToDate(c) => overlay[c]

\* Whatever events a page has got, and whenever it was loaded or reconnected,
\* in the end it has the styles of the latest build (style and reload), unless
\* its program knows the stylesheet by another name or lacks the attribute that
\* the rules select: a style event does not load the program again.
StylesArrive ==
  step = "idle" /\ dist.kind = "app" /\ current.type # "error" =>
    \A c \in Tabs : UpToDate(c) /\ page[c].kind = "app" =>
      \A f \in StyleFiles : Links(page[c], f) => page[c].of[f] = dist.of[f]

\* A change that is still there when the watcher gets to look at it is built,
\* whatever the browsers do: dist/ was made from that version of the file or a
\* later one, unless the file is back to what the snapshot has.
ChangesAreBuilt ==
  \A f \in Files, n \in 1 .. MaxEdits :
    watching /\ files[f].at = n /\ files[f].text # snapshot[f].text
      ~> stopping \/ (step = "idle" /\ (\/ dist.of[f].at >= n
                                        \/ files[f].text = snapshot[f].text))
===============================================================================
