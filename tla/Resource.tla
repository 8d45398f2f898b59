------------------------------- MODULE Resource -------------------------------
(***************************************************************************)
(* ResourceValue of resource.go: asynchronous state filled in by loader    *)
(* goroutines, of which only the one started last may publish its result.  *)
(*                                                                         *)
(* A run is one accepted Reload.  Its pc goes through the code of Reload   *)
(* (on the caller's goroutine) and then of the loader goroutine; runs, the *)
(* call of stop and the component that shows the resource interleave       *)
(* between the critical sections of mu.  A nested Reload, called by a      *)
(* watcher that notify runs, is the interleaving in which the outer run    *)
(* waits at its notify step.                                               *)
(***************************************************************************)
EXTENDS Integers

CONSTANTS
  MaxRuns,  \* bound: number of accepted Reloads
  Stopper   \* the goroutine that runs stop, the cleanup of the component

Runs == 1 .. MaxRuns
Actors == Runs \cup {Stopper}

ASSUME MaxRunsType == MaxRuns \in Nat
ASSUME StopperIsNoRun == Stopper \notin Int

VARIABLES
  value, hasValue,  \* value: the run that loaded it, 0 the zero value
  err,              \* the run whose loader failed, 0 for nil
  loading,
  stopped,
  runID,
  cancel,      \* the run whose context the stored CancelFunc cancels, 0 for nil
  pc,          \* where each run, and stop, has got to
  held,        \* the CancelFunc a goroutine took out under the lock, 0 for none
  cancelled,   \* the runs whose context has been cancelled
  subscribed,  \* the component's effect is a subscriber of dep
  queued,      \* dep.notify queued the effect
  reading,     \* the getter the effect calls next
  view         \* what the effect has read

fields == <<value, hasValue, err, loading, stopped, runID, cancel>>
goroutines == <<pc, held, cancelled>>
observer == <<subscribed, queued, reading, view>>
vars == <<fields, goroutines, observer>>

State == [value |-> value, hasValue |-> hasValue, err |-> err, loading |-> loading]

Init ==
  /\ value = 0 /\ hasValue = FALSE
  /\ err = 0
  /\ loading = FALSE
  /\ stopped = FALSE
  /\ runID = 0
  /\ cancel = 0
  /\ pc = [a \in Actors |-> "idle"]
  /\ held = [a \in Actors |-> 0]
  /\ cancelled = {}
  /\ subscribed = FALSE
  /\ queued = TRUE
  /\ reading = "none"
  /\ view = State

Goto(a, from, to) ==
  /\ pc[a] = from
  /\ pc' = [pc EXCEPT ![a] = to]

-----------------------------------------------------------------------------
(* Reload *)

\* beginLoad calls r.cancel after the unlock, which is the new one
MutantCancelNew(r) ==
  /\ ~stopped
  /\ r = runID + 1
  /\ Goto(r, "idle", "begun")
  /\ held' = [held EXCEPT ![r] = r]
  /\ runID' = r
  /\ cancel' = r
  /\ value' = 0 /\ hasValue' = FALSE
  /\ err' = 0
  /\ loading' = TRUE
  /\ UNCHANGED <<stopped, cancelled, observer>>

\* the old value stays visible while the new one is loading
MutantKeepValue(r) ==
  /\ ~stopped
  /\ r = runID + 1
  /\ Goto(r, "idle", "begun")
  /\ held' = [held EXCEPT ![r] = cancel]
  /\ runID' = r
  /\ cancel' = r
  /\ err' = 0
  /\ loading' = TRUE
  /\ UNCHANGED <<value, hasValue, stopped, cancelled, observer>>

\* beginLoad under the lock
BeginLoad(r) ==
  /\ ~stopped
  /\ r = runID + 1
  /\ Goto(r, "idle", "begun")
  /\ held' = [held EXCEPT ![r] = cancel]
  /\ runID' = r
  /\ cancel' = r
  /\ value' = 0 /\ hasValue' = FALSE
  /\ err' = 0
  /\ loading' = TRUE
  /\ UNCHANGED <<stopped, cancelled, observer>>

\* a goroutine calls the CancelFunc it took out under the lock, if any
Cancel(a, from, to) ==
  /\ Goto(a, from, to)
  /\ cancelled' = cancelled \cup ({held[a]} \ {0})
  /\ held' = [held EXCEPT ![a] = 0]
  /\ UNCHANGED <<fields, observer>>

\* dep.notify: the effect is queued if it is subscribed
Notify(a, from, to) ==
  /\ Goto(a, from, to)
  /\ queued' = (queued \/ subscribed)
  /\ UNCHANGED <<fields, held, cancelled, subscribed, reading, view>>

CancelOld(r) == Cancel(r, "begun", "notifyBegun")

NotifyBegun(r) == Notify(r, "notifyBegun", "spawn")

\* go func() of Reload
Spawn(r) ==
  /\ Goto(r, "spawn", "load")
  /\ UNCHANGED <<fields, held, cancelled, observer>>

-----------------------------------------------------------------------------
(* The loader goroutine *)

\* the result of any run is published
MutantPublishStale(r, failed) ==
  /\ ~stopped
  /\ Goto(r, "load", "finished")
  /\ held' = [held EXCEPT ![r] = cancel]
  /\ cancel' = 0
  /\ loading' = FALSE
  /\ err' = IF failed THEN r ELSE 0
  /\ value' = IF failed THEN 0 ELSE r
  /\ hasValue' = ~failed
  /\ UNCHANGED <<stopped, runID, cancelled, observer>>

\* load returns in time: finishLoad under the lock publishes the result
FinishLoad(r, failed) ==
  /\ ~stopped /\ runID = r
  /\ Goto(r, "load", "finished")
  /\ held' = [held EXCEPT ![r] = cancel]
  /\ cancel' = 0
  /\ loading' = FALSE
  /\ err' = IF failed THEN r ELSE 0
  /\ value' = IF failed THEN 0 ELSE r
  /\ hasValue' = ~failed
  /\ UNCHANGED <<stopped, runID, cancelled, observer>>

\* load returns after another run or stop: finishLoad ignores the result
FinishStale(r) ==
  /\ stopped \/ runID # r
  /\ Goto(r, "load", "done")
  /\ UNCHANGED <<fields, held, cancelled, observer>>

CancelFinished(r) == Cancel(r, "finished", "notifyFinished")

\* nobody is told of the result
MutantSilentFinish(r) ==
  /\ Goto(r, "notifyFinished", "done")
  /\ UNCHANGED <<fields, held, cancelled, observer>>

NotifyFinished(r) == Notify(r, "notifyFinished", "done")

-----------------------------------------------------------------------------
(* stop *)

\* stop drops the CancelFunc of the load in flight
MutantStopLeaks ==
  /\ ~stopped
  /\ Goto(Stopper, "idle", "begun")
  /\ stopped' = TRUE
  /\ runID' = runID + 1
  /\ cancel' = 0
  /\ loading' = FALSE
  /\ UNCHANGED <<value, hasValue, err, held, cancelled, observer>>

\* stop under the lock; the value stays readable
Stop ==
  /\ ~stopped
  /\ Goto(Stopper, "idle", "begun")
  /\ stopped' = TRUE
  /\ runID' = runID + 1
  /\ held' = [held EXCEPT ![Stopper] = cancel]
  /\ cancel' = 0
  /\ loading' = FALSE
  /\ UNCHANGED <<value, hasValue, err, cancelled, observer>>

CancelStopped == Cancel(Stopper, "begun", "notifyStopped")

NotifyStopped == Notify(Stopper, "notifyStopped", "done")

-----------------------------------------------------------------------------
(* The component's effect: a watcher that calls Value, Error and Loading,  *)
(* each of which tracks dep and takes the lock by itself.                  *)

\* watcher.run: dispose, then the effect
ObserverRun ==
  /\ queued /\ reading = "none"
  /\ queued' = FALSE
  /\ subscribed' = FALSE
  /\ reading' = "value"
  /\ UNCHANGED <<fields, goroutines, view>>

Value ==
  /\ reading = "value"
  /\ subscribed' = TRUE
  /\ view' = [view EXCEPT !.value = value, !.hasValue = hasValue]
  /\ reading' = "error"
  /\ UNCHANGED <<fields, goroutines, queued>>

Error ==
  /\ reading = "error"
  /\ subscribed' = TRUE
  /\ view' = [view EXCEPT !.err = err]
  /\ reading' = "loading"
  /\ UNCHANGED <<fields, goroutines, queued>>

Loading ==
  /\ reading = "loading"
  /\ subscribed' = TRUE
  /\ view' = [view EXCEPT !.loading = loading]
  /\ reading' = "none"
  /\ UNCHANGED <<fields, goroutines, queued>>

Observe == ObserverRun \/ Value \/ Error \/ Loading

-----------------------------------------------------------------------------
\* What a run does by itself once it has begun.
RunStep(r) ==
  \/ CancelOld(r) \/ NotifyBegun(r) \/ Spawn(r)
  \/ (\E failed \in BOOLEAN : FinishLoad(r, failed)) \/ FinishStale(r)
  \/ CancelFinished(r) \/ NotifyFinished(r)

StopStep == CancelStopped \/ NotifyStopped

Next ==
  \/ \E r \in Runs : BeginLoad(r) \/ RunStep(r)
  \/ Stop \/ StopStep
  \/ Observe

Spec == Init /\ [][Next]_vars

\* Every goroutine runs on and every loader returns, cancelled or not; the
\* scheduler runs a queued effect.  Nobody has to call Reload or stop.
FairSpec ==
  /\ Spec
  /\ \A r \in Runs : WF_vars(RunStep(r))
  /\ WF_vars(StopStep)
  /\ WF_vars(Observe)

-----------------------------------------------------------------------------
(* Properties. *)

\* The type invariant of the fields of ResourceValue and of the goroutines.
TypeOK ==
  /\ value \in 0 .. MaxRuns
  /\ hasValue \in BOOLEAN
  /\ err \in 0 .. MaxRuns
  /\ loading \in BOOLEAN
  /\ stopped \in BOOLEAN
  /\ runID \in 0 .. MaxRuns + 1
  /\ cancel \in 0 .. MaxRuns
  /\ pc \in [Actors -> {"idle", "begun", "notifyBegun", "spawn", "load",
                        "finished", "notifyFinished", "notifyStopped", "done"}]
  /\ held \in [Actors -> 0 .. MaxRuns]
  /\ cancelled \in SUBSET Runs
  /\ subscribed \in BOOLEAN
  /\ queued \in BOOLEAN
  /\ reading \in {"none", "value", "error", "loading"}
  /\ view \in [value : 0 .. MaxRuns, hasValue : BOOLEAN,
               err : 0 .. MaxRuns, loading : BOOLEAN]

\* The latest run, which stop supersedes without starting another.
Latest == IF stopped THEN runID - 1 ELSE runID

\* Stale results are ignored: a value or an error on display was loaded by the
\* latest run, at most one of them is there, and none while it is loading.
LatestWins ==
  /\ hasValue => value = Latest /\ err = 0 /\ ~loading
  /\ err # 0 => err = Latest /\ ~hasValue /\ ~loading
  /\ ~hasValue => value = 0

\* No context is leaked and none is cancelled twice over: the context of a run
\* that has begun is cancelled, or its CancelFunc is in exactly one place, the
\* field cancel or the local variable of one goroutine.
CancelOwned ==
  \A r \in Runs :
    LET holders == {a \in Actors : held[a] = r} IN
    /\ pc[r] # "idle" => r \in cancelled \/ cancel = r \/ holders # {}
    /\ \A a, b \in holders : a = b
    /\ cancel = r \/ r \in cancelled => holders = {}
    /\ ~(cancel = r /\ r \in cancelled)

\* Reload and cleanup never cancel the load that is in flight for the user:
\* while it is loading the stored CancelFunc is that of the latest run, and
\* nobody has called it or is about to.
InFlightNotCancelled ==
  loading => /\ cancel = runID
             /\ runID \notin cancelled
             /\ \A a \in Actors : held[a] # runID

\* No notification is lost between the three getters: when every goroutine is
\* past its notify and the effect is idle, it has last read what is there.
SettledView ==
  /\ ~queued /\ reading = "none"
  /\ \A a \in Actors : pc[a] \in {"idle", "spawn", "load", "done"}
  => view = State

\* A superseded or finished load is eventually told so, at the latest when
\* stop runs: its context is cancelled.
SupersededCancelled ==
  \A r \in Runs : pc[r] # "idle" /\ ~(loading /\ runID = r) ~> r \in cancelled

\* Loading ends, and the component gets to see it.
LoadingEnds == loading ~> (~loading /\ ~view.loading) \/ stopped

\* The resource implements AsyncValue: what it shows changes only as requests
\* are made, the latest is answered, or the component closes.
Abstract ==
  INSTANCE AsyncValue WITH
    MaxRequests <- MaxRuns,
    request <- Latest,
    closed <- stopped,
    shown <- IF loading THEN [kind |-> "loading", of |-> Latest]
             ELSE IF hasValue THEN [kind |-> "value", of |-> value]
             ELSE IF err # 0 THEN [kind |-> "error", of |-> err]
             ELSE [kind |-> "empty", of |-> 0]

\* Every behaviour of the resource is one of AsyncValue.
ImplementsAsyncValue == Abstract!Spec
===============================================================================
