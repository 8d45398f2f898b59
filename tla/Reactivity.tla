------------------------------ MODULE Reactivity ------------------------------
(***************************************************************************)
(* The reactive graph and the effect scheduler of reactivity.go.           *)
(*                                                                         *)
(* State values are read and written by user code; computed values cache   *)
(* the result of a function of other sources and are invalidated when one  *)
(* of them changes; watchers re-run an effect when something it read       *)
(* changed.  Tracking is by a stack of running subscribers, and re-runs    *)
(* are collected in a queue that is flushed outside any Batch.             *)
(*                                                                         *)
(* Everything happens on one call stack, so the model is a stack machine:  *)
(* `stack' holds the activations that are suspended in a call to the       *)
(* library or are user callbacks.  User code (an effect, the function of   *)
(* a computed or of a Batch, the program itself) may call any operation    *)
(* when its frame is on top, which is how re-entrancy arises.  The value   *)
(* of a state is the number of times it has been Set, and what a           *)
(* subscriber computed is the set of <<state, version>> readings it is     *)
(* computed from.                                                          *)
(*                                                                         *)
(* The function of a computed may Set what it has read, and effects may    *)
(* run again inside themselves.  The library then loses track of readings; *)
(* overtaken is the history of this, and the properties of freshness say   *)
(* what holds until it has happened.                                       *)
(***************************************************************************)
EXTENDS Integers, Sequences, SequencesExt

CONSTANTS
  States,      \* state values (StateValue)
  Computeds,   \* computed values (ComputedValue)
  Watchers,    \* calls of Watch the program may make
  None,        \* no subscriber is running (the nil of currentSubscriber)
  Reads,       \* Reads[y]: the sources that the function of y may Get
  MaxVersion,  \* bound: how often a state is Set
  MaxBatch     \* bound: nesting depth of Batch

Sources == States \cup Computeds
Subscribers == Computeds \cup Watchers
Readings == States \X (0 .. MaxVersion)

ASSUME KindsDisjoint ==
  /\ States \cap Computeds = {}
  /\ States \cap Watchers = {}
  /\ Computeds \cap Watchers = {}

ASSUME NoneIsNoSubscriber == None \notin Subscribers

ASSUME ReadsType == Reads \in [Subscribers -> SUBSET Sources]

ASSUME BoundsType == MaxVersion \in Nat /\ MaxBatch \in Nat

VARIABLES
  version,          \* StateValue.value, as the number of Sets so far
  dirty,            \* ComputedValue.dirty
  obs,              \* what each subscriber has read since it was last started
  subscribers,      \* dependency.subscribers of every source
  deps,             \* ComputedValue.deps and watcher.deps
  phase,            \* watcher: not created, created, stopped (watcher.stopped)
  queued,           \* watcher.queued
  pending,          \* scheduler.pending
  round,            \* the local slice of flushSubscribers still to be run
  flushing,         \* scheduler.flushing
  batchDepth,       \* scheduler.batchDepth
  stack,            \* the call stack, innermost activation first
  subscriberStack,  \* subscriberStack, innermost subscriber first
  overtaken         \* history: readings were lost, see below

graph == <<subscribers, deps>>
values == <<version, dirty, obs>>
scheduler == <<queued, pending, round, flushing, batchDepth>>
calls == <<stack, subscriberStack>>
vars == <<values, graph, phase, scheduler, calls, overtaken>>

(***************************************************************************)
(* Activations.  batch, run, compute and hook are user callbacks, hook     *)
(* being one that the runtime calls (Lifecycle); notify is the loop of     *)
(* dependency.notify with the subscribers it still has to invalidate;      *)
(* flush is the loop of flushSubscribers.                                  *)
(***************************************************************************)
Kinds == {"batch", "run", "compute", "hook", "notify", "flush"}
Frames == [kind : Kinds, todo : SUBSET Subscribers]

Frame(kind) == [kind |-> kind, todo |-> {}]
NotifyFrame(x) == [kind |-> "notify", todo |-> subscribers[x]]

Running(kind) == stack # <<>> /\ Head(stack).kind = kind

\* Inside the notify loop of a Set made outside every batch and every flush.
Unbatched ==
  \E i \in DOMAIN stack :
    /\ stack[i].kind = "notify"
    /\ \A j \in i .. Len(stack) : stack[j].kind \notin {"batch", "flush"}

\* User code is executing, and may call anything: the program itself, the
\* function of a Batch or of a computed, an effect or a hook.
UserCode ==
  \/ stack = <<>>
  \/ Running("batch") \/ Running("run") \/ Running("compute") \/ Running("hook")

currentSubscriber ==
  IF subscriberStack = <<>> THEN None ELSE Head(subscriberStack)

\* A reading is current when its state has not been Set since.
Current(readings) == \A r \in readings : r[2] = version[r[1]]

(***************************************************************************)
(* overtaken becomes TRUE when a call that is still suspended is overtaken *)
(* by another one, so that what it has read no longer counts:              *)
(*   - a computed is invalidated while it is being computed, because a     *)
(*     state that it has read is Set before its function returns.          *)
(*     invalidate finds it dirty and does nothing, Get then marks it clean *)
(*     and caches the old value;                                           *)
(*   - Get of a computed that is being computed starts its function again, *)
(*     and disposes what the suspended one has read;                       *)
(*   - an effect that waits for Get of a dirty computed is run again, and  *)
(*     dispose drops the edge that the suspended Get has made: what Get    *)
(*     returns to it is no longer tracked.                                 *)
(* It takes a computed with side effects, or a Set by an effect that runs  *)
(* inside one.  A program whose computeds only Get, and do not depend on   *)
(* themselves, never sets it.                                              *)
(***************************************************************************)
Executing(y) == \E i \in DOMAIN subscriberStack : subscriberStack[i] = y

Awaits(y) ==
  \E i \in DOMAIN subscriberStack :
    /\ i + 1 \in DOMAIN subscriberStack
    /\ subscriberStack[i] \in Computeds /\ subscriberStack[i + 1] = y

-----------------------------------------------------------------------------
(* Definitions named Mutant... are wrong variants of the definition that   *)
(* follows them; a property is worth checking only if one breaks it.       *)

(***************************************************************************)
(* The two halves of an edge of the graph: track/addDependency/            *)
(* addSubscriber, and dispose/removeSubscriber.                            *)
(***************************************************************************)
addSubscriber(subs, ds, x, y) ==
  IF y = None THEN subs
  ELSE IF x \in ds[y] THEN subs ELSE [subs EXCEPT ![x] = @ \cup {y}]

addDependency(ds, x, y) ==
  IF y = None THEN ds ELSE [ds EXCEPT ![y] = @ \cup {x}]

\* dispose clears the deps of y and leaves y subscribed
MutantStaySubscribed(subs, ds, y) == subs

removeSubscriber(subs, ds, y) ==
  [x \in Sources |-> IF x \in ds[y] THEN subs[x] \ {y} ELSE subs[x]]

\* dispose unsubscribes y and keeps its deps, so tracking skips them later
MutantKeepDeps(ds, y) == ds

removeDependencies(ds, y) == [ds EXCEPT ![y] = {}]

\* The reading subscriber y has seen `readings' in addition.
observe(os, y, readings) ==
  IF y = None THEN os ELSE [os EXCEPT ![y] = @ \cup readings]

\* pushSubscriber(y) and the call of its function
Start(y, kind) ==
  /\ stack' = <<Frame(kind)>> \o stack
  /\ subscriberStack' = <<y>> \o subscriberStack

\* watcher.run of a watcher that is not stopped: dispose, then the effect
run(w) ==
  /\ subscribers' = removeSubscriber(subscribers, deps, w)
  /\ deps' = removeDependencies(deps, w)
  /\ obs' = [obs EXCEPT ![w] = {}]
  /\ Start(w, "run")
  /\ overtaken' = (overtaken \/ Awaits(w))

Init ==
  /\ version = [s \in States |-> 0]
  /\ dirty = [c \in Computeds |-> TRUE]
  /\ obs = [y \in Subscribers |-> {}]
  /\ subscribers = [x \in Sources |-> {}]
  /\ deps = [y \in Subscribers |-> {}]
  /\ phase = [w \in Watchers |-> "new"]
  /\ queued = [w \in Watchers |-> FALSE]
  /\ pending = <<>>
  /\ round = <<>>
  /\ flushing = FALSE
  /\ batchDepth = 0
  /\ stack = <<>>
  /\ subscriberStack = <<>>
  /\ overtaken = FALSE

-----------------------------------------------------------------------------
(* Operations that user code calls. *)

\* The running subscriber, if there is one, is of a kind that reads x.
MayRead(x) == currentSubscriber # None => x \in Reads[currentSubscriber]

\* StateValue.Get
GetState(s) ==
  LET y == currentSubscriber IN
  /\ UserCode
  /\ MayRead(s)
  /\ subscribers' = addSubscriber(subscribers, deps, s, y)
  /\ deps' = addDependency(deps, s, y)
  /\ obs' = observe(obs, y, {<<s, version[s]>>})
  /\ UNCHANGED <<version, dirty, phase, scheduler, calls, overtaken>>

\* ComputedValue.Get of a clean computed: the cached value
GetCached(c) ==
  LET y == currentSubscriber IN
  /\ UserCode
  /\ MayRead(c)
  /\ ~dirty[c]
  /\ subscribers' = addSubscriber(subscribers, deps, c, y)
  /\ deps' = addDependency(deps, c, y)
  /\ obs' = observe(obs, y, obs[c])
  /\ UNCHANGED <<version, dirty, phase, scheduler, calls, overtaken>>

\* ComputedValue.Get of a dirty computed, also of one that is being computed:
\* track, dispose, and call compute
GetDirty(c) ==
  LET y == currentSubscriber
      tracked == addSubscriber(subscribers, deps, c, y)
      trackedDeps == addDependency(deps, c, y)
  IN
  /\ UserCode
  /\ MayRead(c)
  /\ dirty[c]
  /\ subscribers' = removeSubscriber(tracked, trackedDeps, c)
  /\ deps' = removeDependencies(trackedDeps, c)
  /\ obs' = [obs EXCEPT ![c] = {}]
  /\ Start(c, "compute")
  /\ overtaken' = (overtaken \/ Executing(c))
  /\ UNCHANGED <<version, dirty, phase, scheduler>>

\* compute returns: the value is cached and handed to the caller of Get
ComputeReturns ==
  LET c == Head(subscriberStack)
      caller == Tail(subscriberStack)
  IN
  /\ Running("compute")
  /\ subscriberStack # <<>>
  /\ c \in Computeds
  /\ dirty' = [dirty EXCEPT ![c] = FALSE]
  /\ obs' = observe(obs, IF caller = <<>> THEN None ELSE Head(caller), obs[c])
  /\ stack' = Tail(stack)
  /\ subscriberStack' = caller
  /\ UNCHANGED <<version, graph, phase, scheduler, overtaken>>

\* StateValue.Set: the assignment and the call of dependency.notify
Set(s) ==
  /\ UserCode
  /\ version[s] < MaxVersion
  /\ version' = [version EXCEPT ![s] = @ + 1]
  /\ stack' = <<NotifyFrame(s)>> \o stack
  /\ UNCHANGED <<dirty, obs, graph, phase, scheduler, subscriberStack,
                 overtaken>>

\* Watch: the first run of a new watcher starts at once, batch or not
Watch(w) ==
  /\ UserCode
  /\ phase[w] = "new"
  /\ phase' = [phase EXCEPT ![w] = "live"]
  /\ run(w)
  /\ UNCHANGED <<version, dirty, scheduler>>

\* a stopped watcher keeps its place in the queue
MutantStopKeepsPending(w) == pending

\* removeQueuedSubscriber takes w out of scheduler.pending, not out of the
\* slice a flush is working on
removeQueuedSubscriber(w) ==
  IF queued[w] /\ \E i \in DOMAIN pending : pending[i] = w
  THEN RemoveAt(pending, CHOOSE i \in DOMAIN pending : pending[i] = w)
  ELSE pending

\* watcher.stop, by the stop function or by the cleanup of a component
Stop(w) ==
  /\ UserCode
  /\ phase[w] = "live"
  /\ phase' = [phase EXCEPT ![w] = "stopped"]
  /\ subscribers' = removeSubscriber(subscribers, deps, w)
  /\ deps' = removeDependencies(deps, w)
  /\ pending' = removeQueuedSubscriber(w)
  /\ queued' = [queued EXCEPT ![w] = FALSE]
  /\ UNCHANGED <<values, round, flushing, batchDepth, calls, overtaken>>

\* Batch is called
BatchBegin ==
  /\ UserCode
  /\ batchDepth < MaxBatch
  /\ batchDepth' = batchDepth + 1
  /\ stack' = <<Frame("batch")>> \o stack
  /\ UNCHANGED <<values, graph, phase, queued, pending, round, flushing,
                 subscriberStack, overtaken>>

\* flushSubscribers does not look at the flushing flag
MutantFlushAnyway(below) ==
  stack' = <<Frame("flush")>> \o below /\ flushing' = TRUE

\* flushSubscribers returns at once while a flush is running
flushSubscribers(below) ==
  IF flushing
  THEN stack' = below /\ flushing' = TRUE
  ELSE stack' = <<Frame("flush")>> \o below /\ flushing' = TRUE

\* every Batch flushes, not only the outermost one
MutantInnerBatchFlushes ==
  /\ Running("batch")
  /\ batchDepth' = batchDepth - 1
  /\ flushSubscribers(Tail(stack))
  /\ UNCHANGED <<values, graph, phase, queued, pending, round,
                 subscriberStack, overtaken>>

\* the function of a Batch returns; the outermost one flushes
BatchEnd ==
  /\ Running("batch")
  /\ batchDepth' = batchDepth - 1
  /\ IF batchDepth = 1
     THEN flushSubscribers(Tail(stack))
     ELSE stack' = Tail(stack) /\ UNCHANGED flushing
  /\ UNCHANGED <<values, graph, phase, queued, pending, round,
                 subscriberStack, overtaken>>

\* an effect returns to the run of its watcher
EffectReturns ==
  /\ Running("run")
  /\ subscriberStack # <<>>
  /\ Head(subscriberStack) \in Watchers
  /\ stack' = Tail(stack)
  /\ subscriberStack' = Tail(subscriberStack)
  /\ UNCHANGED <<values, graph, phase, scheduler, overtaken>>

-----------------------------------------------------------------------------
(* Steps of the library itself. *)

\* The notify loop below the one on top once it has taken y.
Rest(y) == <<[Head(stack) EXCEPT !.todo = @ \ {y}]>> \o Tail(stack)

\* a computed is marked dirty but does not pass the invalidation on
MutantInvalidateSilently(c) ==
  /\ Running("notify")
  /\ c \in Head(stack).todo
  /\ dirty' = [dirty EXCEPT ![c] = TRUE]
  /\ stack' = Rest(c)
  /\ overtaken' = (overtaken \/ Executing(c))
  /\ UNCHANGED <<version, obs, graph, phase, scheduler, subscriberStack>>

\* ComputedValue.invalidate, called by the notify loop
InvalidateComputed(c) ==
  /\ Running("notify")
  /\ c \in Head(stack).todo
  /\ dirty' = [dirty EXCEPT ![c] = TRUE]
  /\ stack' = IF dirty[c] THEN Rest(c) ELSE <<NotifyFrame(c)>> \o Rest(c)
  /\ overtaken' = (overtaken \/ Executing(c))
  /\ UNCHANGED <<version, obs, graph, phase, scheduler, subscriberStack>>

\* queueSubscriber does not look at the queued flag
MutantQueueTwice(w) ==
  /\ Running("notify")
  /\ w \in Head(stack).todo
  /\ phase[w] # "stopped"
  /\ queued' = [queued EXCEPT ![w] = TRUE]
  /\ pending' = Append(pending, w)
  /\ IF batchDepth = 0
     THEN flushSubscribers(Rest(w))
     ELSE stack' = Rest(w) /\ UNCHANGED flushing
  /\ UNCHANGED <<values, graph, phase, round, batchDepth, subscriberStack,
                 overtaken>>

\* watcher.invalidate and queueSubscriber when w has to be queued
QueueWatcher(w) ==
  /\ Running("notify")
  /\ w \in Head(stack).todo
  /\ phase[w] # "stopped"
  /\ ~queued[w]
  /\ queued' = [queued EXCEPT ![w] = TRUE]
  /\ pending' = Append(pending, w)
  /\ IF batchDepth = 0
     THEN flushSubscribers(Rest(w))
     ELSE stack' = Rest(w) /\ UNCHANGED flushing
  /\ UNCHANGED <<values, graph, phase, round, batchDepth, subscriberStack,
                 overtaken>>

\* watcher.invalidate of a watcher that is stopped or already queued
SkipWatcher(w) ==
  /\ Running("notify")
  /\ w \in Head(stack).todo
  /\ phase[w] = "stopped" \/ queued[w]
  /\ stack' = Rest(w)
  /\ UNCHANGED <<values, graph, phase, scheduler, subscriberStack, overtaken>>

\* the notify loop is over
NotifyDone ==
  /\ Running("notify")
  /\ Head(stack).todo = {}
  /\ stack' = Tail(stack)
  /\ UNCHANGED <<values, graph, phase, scheduler, subscriberStack, overtaken>>

\* flushSubscribers takes the pending slice for its next round
FlushRound ==
  /\ Running("flush")
  /\ round = <<>> /\ pending # <<>>
  /\ round' = pending
  /\ pending' = <<>>
  /\ UNCHANGED <<values, graph, phase, queued, flushing, batchDepth, calls,
                 overtaken>>

\* run does not look at the stopped flag
MutantRunStopped(w) ==
  /\ Running("flush")
  /\ round # <<>> /\ Head(round) = w
  /\ round' = Tail(round)
  /\ queued' = [queued EXCEPT ![w] = FALSE]
  /\ run(w)
  /\ UNCHANGED <<version, dirty, phase, pending, flushing, batchDepth>>

\* the next watcher of the round is run: run disposes and calls the effect
FlushRun(w) ==
  /\ Running("flush")
  /\ round # <<>> /\ Head(round) = w
  /\ phase[w] # "stopped"
  /\ round' = Tail(round)
  /\ queued' = [queued EXCEPT ![w] = FALSE]
  /\ run(w)
  /\ UNCHANGED <<version, dirty, phase, pending, flushing, batchDepth>>

\* the next watcher of the round was stopped meanwhile: run does nothing
FlushSkip(w) ==
  /\ Running("flush")
  /\ round # <<>> /\ Head(round) = w
  /\ phase[w] = "stopped"
  /\ round' = Tail(round)
  /\ queued' = [queued EXCEPT ![w] = FALSE]
  /\ UNCHANGED <<values, graph, phase, pending, flushing, batchDepth, calls,
                 overtaken>>

\* a flush ends after its first round
MutantOneRound ==
  /\ Running("flush")
  /\ round = <<>>
  /\ flushing' = FALSE
  /\ stack' = Tail(stack)
  /\ UNCHANGED <<values, graph, phase, queued, pending, round, batchDepth,
                 subscriberStack, overtaken>>

\* nothing is pending any more
FlushEnd ==
  /\ Running("flush")
  /\ round = <<>> /\ pending = <<>>
  /\ flushing' = FALSE
  /\ stack' = Tail(stack)
  /\ UNCHANGED <<values, graph, phase, queued, pending, round, batchDepth,
                 subscriberStack, overtaken>>

-----------------------------------------------------------------------------
Library ==
  \/ \E c \in Computeds : InvalidateComputed(c)
  \/ \E w \in Watchers :
       QueueWatcher(w) \/ SkipWatcher(w) \/ FlushRun(w) \/ FlushSkip(w)
  \/ NotifyDone \/ FlushRound \/ FlushEnd

Returns == ComputeReturns \/ BatchEnd \/ EffectReturns

Calls ==
  \/ \E s \in States : GetState(s) \/ Set(s)
  \/ \E c \in Computeds : GetCached(c) \/ GetDirty(c)
  \/ \E w \in Watchers : Watch(w) \/ Stop(w)
  \/ BatchBegin

Next == Library \/ Returns \/ Calls

Spec == Init /\ [][Next]_vars

(***************************************************************************)
(* The loops of the library run on, and every function the program hands   *)
(* to it returns: strong fairness, and of each Batch by itself, because a  *)
(* callback may open any number of inner batches before it returns.        *)
(***************************************************************************)
BatchEndAt(depth) == batchDepth = depth /\ BatchEnd

FairSpec ==
  /\ Spec
  /\ WF_vars(Library)
  /\ SF_vars(ComputeReturns)
  /\ \A depth \in 1 .. MaxBatch : SF_vars(BatchEndAt(depth))
  /\ SF_vars(EffectReturns)

-----------------------------------------------------------------------------
(* Properties. *)

\* The type invariant: every variable keeps the shape of the Go value it
\* stands for (maps, flags, slices and the two stacks of reactivity.go).
TypeOK ==
  /\ version \in [States -> 0 .. MaxVersion]
  /\ dirty \in [Computeds -> BOOLEAN]
  /\ obs \in [Subscribers -> SUBSET Readings]
  /\ subscribers \in [Sources -> SUBSET Subscribers]
  /\ deps \in [Subscribers -> SUBSET Sources]
  /\ phase \in [Watchers -> {"new", "live", "stopped"}]
  /\ queued \in [Watchers -> BOOLEAN]
  /\ pending \in Seq(Watchers)
  /\ round \in Seq(Watchers)
  /\ flushing \in BOOLEAN
  /\ batchDepth \in Int
  /\ stack \in Seq(Frames)
  /\ subscriberStack \in Seq(Subscribers)
  /\ overtaken \in BOOLEAN

\* The two ends of every edge agree: y is in the subscribers of x exactly
\* when x is in the deps of y, so that dispose unsubscribes y everywhere and
\* notify reaches whoever tracked x (addDependency and dispose keep both).
SubscriptionSymmetry ==
  \A x \in Sources, y \in Subscribers : x \in deps[y] <=> y \in subscribers[x]

\* The queue runs every watcher once: a queued watcher waits in exactly one
\* place, pending or the slice being flushed, at one position; what waits
\* there is queued, but for a watcher stopped after the slice was taken.
QueueDiscipline ==
  /\ IsInjective(pending) /\ IsInjective(round)
  /\ \A i \in DOMAIN pending : queued[pending[i]]
  /\ \A i \in DOMAIN round : queued[round[i]] \/ phase[round[i]] = "stopped"
  /\ \A i \in DOMAIN pending, j \in DOMAIN round : pending[i] # round[j]
  /\ \A w \in Watchers : queued[w] =>
       /\ phase[w] # "stopped"
       /\ \/ \E i \in DOMAIN pending : pending[i] = w
          \/ \E i \in DOMAIN round : round[i] = w

\* No live watcher has read a value that was overwritten since.
Fresh == \A w \in Watchers : phase[w] = "live" => Current(obs[w])

\* No update is lost: when control is back in the program, outside any call
\* of the library, the scheduler is idle and, unless a reading was overtaken,
\* no live watcher has read a value that has been Set since without being run
\* again. So a watcher that a notify loop ran before it invalidated a computed,
\* and that was handed the outdated cache of this, has been run once more.
SettledFresh ==
  stack = <<>> =>
    /\ pending = <<>> /\ round = <<>> /\ ~flushing /\ batchDepth = 0
    /\ ~overtaken => Fresh

\* A computed marked clean is up to date whenever user code runs outside an
\* unbatched notify loop: in a Batch, in a flush it started, and between calls,
\* Get never hands out a cached value of overwritten inputs, unless a reading
\* was overtaken.
QuietCachesCurrent ==
  UserCode /\ ~Unbatched /\ ~overtaken =>
    \A c \in Computeds : ~dirty[c] => Current(obs[c])

\* A Batch really defers: while the function of a Batch has not returned no
\* flush is started above it, however it nests with effects and Watch calls.
BatchDefersFlush ==
  \A i, j \in DOMAIN stack :
    stack[i].kind = "flush" /\ stack[j].kind = "batch" => j < i

\* Nothing is redone for nothing: outside an unbatched notify loop, unless a
\* reading was overtaken, a flush re-runs a watcher, and a computed is marked
\* dirty, only if a state it had read was Set since (the queued and dirty flags
\* deduplicate).
OnlyStaleReruns ==
  [][ ~Unbatched /\ ~overtaken =>
        /\ \A w \in Watchers :
             Running("flush") /\ subscriberStack' = <<w>> \o subscriberStack
               => ~Current(obs[w])
        /\ \A c \in Computeds : ~dirty[c] /\ dirty'[c] => ~Current(obs[c]) ]_vars

\* A stopped watcher is never run again, also when it was stopped after a
\* flush had taken it into its slice.
StoppedNeverRuns ==
  [][ \A w \in Watchers :
        phase[w] = "stopped" => subscriberStack' # <<w>> \o subscriberStack ]_vars

\* Every change arrives: when live watchers have read overwritten values, then
\* in the end, however calls and flushes nest, there is no such watcher, each
\* having run again or been stopped, unless a reading was overtaken.
EventuallyFresh == ~Fresh ~> Fresh \/ overtaken
=============================================================================
