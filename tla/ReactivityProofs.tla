--------------------------- MODULE ReactivityProofs ---------------------------
(***************************************************************************)
(* Theorems about Reactivity, for any number of states, computeds and      *)
(* watchers and any bounds.                                                *)
(***************************************************************************)
EXTENDS Reactivity, SequenceTheorems, TLAPS

(***************************************************************************)
(* Taking one element out of a sequence, as removeQueuedSubscriber does.   *)
(***************************************************************************)
LEMMA RemoveAtProperties ==
  ASSUME NEW S, NEW s \in Seq(S), NEW k \in 1 .. Len(s)
  PROVE  /\ RemoveAt(s, k) \in Seq(S)
         /\ Len(RemoveAt(s, k)) = Len(s) - 1
         /\ \A i \in 1 .. Len(s) - 1 :
              RemoveAt(s, k)[i] = IF i < k THEN s[i] ELSE s[i + 1]
<1> DEFINE front == SubSeq(s, 1, k - 1)
           rest == SubSeq(s, k + 1, Len(s))
<1>1. /\ front \in Seq(S) /\ Len(front) = k - 1
      /\ \A i \in 1 .. k - 1 : front[i] = s[i]
  BY SubSeqProperties
<1>2. /\ rest \in Seq(S) /\ Len(rest) = Len(s) - k
      /\ \A i \in 1 .. Len(s) - k : rest[i] = s[k + i]
  BY SubSeqProperties
<1>3. RemoveAt(s, k) = front \o rest
  BY DEF RemoveAt
<1> HIDE DEF front, rest
<1>4. /\ front \o rest \in Seq(S)
      /\ Len(front \o rest) = Len(front) + Len(rest)
      /\ \A i \in 1 .. Len(front) + Len(rest) : (front \o rest)[i] =
           IF i <= Len(front) THEN front[i] ELSE rest[i - Len(front)]
  BY ONLY <1>1, <1>2, ConcatProperties
<1>5. Len(s) \in Nat
  OBVIOUS
<1>6. ASSUME NEW i \in 1 .. Len(s) - 1
      PROVE  (front \o rest)[i] = IF i < k THEN s[i] ELSE s[i + 1]
  <2>1. CASE i < k
    BY <1>1, <1>2, <1>4, <1>5, <2>1
  <2>2. CASE ~(i < k)
    <3>1. i - Len(front) \in 1 .. Len(s) - k
      BY <1>1, <1>5, <2>2
    <3>2. (front \o rest)[i] = rest[i - Len(front)]
      BY <1>1, <1>2, <1>4, <1>5, <2>2
    <3> QED BY <1>1, <1>2, <1>5, <3>1, <3>2
  <2> QED BY <2>1, <2>2
<1> QED BY <1>1, <1>2, <1>3, <1>4, <1>5, <1>6

-----------------------------------------------------------------------------
(* Type correctness. *)

\* Every frame an action pushes or changes is a frame.
LEMMA FrameTypes ==
  ASSUME TypeOK
  PROVE  /\ \A kind \in Kinds : Frame(kind) \in Frames
         /\ \A x \in Sources : NotifyFrame(x) \in Frames
         /\ stack # <<>> =>
              /\ Tail(stack) \in Seq(Frames)
              /\ \A y \in Subscribers : Rest(y) \in Seq(Frames)
         /\ \A f \in Frames : <<f>> \o stack \in Seq(Frames)
<1>1. \A kind \in Kinds : Frame(kind) \in Frames
  BY DEF Frame, Frames
<1>2. \A x \in Sources : NotifyFrame(x) \in Frames
  BY DEF TypeOK, NotifyFrame, Frames, Kinds
<1>3. stack \in Seq(Frames)
  BY DEF TypeOK
<1>4. ASSUME NEW f \in Frames, NEW t \in Seq(Frames)
      PROVE  <<f>> \o t \in Seq(Frames)
  <2>1. <<f>> \in Seq(Frames)
    OBVIOUS
  <2> QED BY <1>4, <2>1, ConcatProperties
<1>5. ASSUME stack # <<>>
      PROVE  /\ Tail(stack) \in Seq(Frames)
             /\ \A y \in Subscribers : Rest(y) \in Seq(Frames)
  <2>1. Head(stack) \in Frames /\ Tail(stack) \in Seq(Frames)
    BY <1>3, <1>5, HeadTailProperties
  <2>2. \A y \in Subscribers : [Head(stack) EXCEPT !.todo = @ \ {y}] \in Frames
    BY <2>1 DEF Frames
  <2> QED BY <1>4, <2>1, <2>2 DEF Rest
<1> QED BY <1>1, <1>2, <1>3, <1>4, <1>5

\* The graph updates keep the types of their arguments.
LEMMA GraphTypes ==
  ASSUME TypeOK,
         NEW subs \in [Sources -> SUBSET Subscribers],
         NEW ds \in [Subscribers -> SUBSET Sources],
         NEW os \in [Subscribers -> SUBSET Readings],
         NEW x \in Sources, NEW y \in Subscribers \cup {None},
         NEW readings \in SUBSET Readings
  PROVE  /\ addSubscriber(subs, ds, x, y) \in [Sources -> SUBSET Subscribers]
         /\ addDependency(ds, x, y) \in [Subscribers -> SUBSET Sources]
         /\ observe(os, y, readings) \in [Subscribers -> SUBSET Readings]
         /\ removeSubscriber(subs, ds, y) \in [Sources -> SUBSET Subscribers]
         /\ removeDependencies(ds, y) \in [Subscribers -> SUBSET Sources]
<1> USE NoneIsNoSubscriber
<1>1. addSubscriber(subs, ds, x, y) \in [Sources -> SUBSET Subscribers]
  BY DEF addSubscriber
<1>2. addDependency(ds, x, y) \in [Subscribers -> SUBSET Sources]
  BY DEF addDependency
<1>3. observe(os, y, readings) \in [Subscribers -> SUBSET Readings]
  BY DEF observe
<1>4. removeSubscriber(subs, ds, y) \in [Sources -> SUBSET Subscribers]
  BY DEF removeSubscriber
<1>5. removeDependencies(ds, y) \in [Subscribers -> SUBSET Sources]
  BY DEF removeDependencies
<1> QED BY <1>1, <1>2, <1>3, <1>4, <1>5

LEMMA CurrentSubscriberType ==
  ASSUME TypeOK
  PROVE  /\ currentSubscriber \in Subscribers \cup {None}
         /\ \A y \in Subscribers : <<y>> \o subscriberStack \in Seq(Subscribers)
         /\ subscriberStack # <<>> =>
              /\ Head(subscriberStack) \in Subscribers
              /\ Tail(subscriberStack) \in Seq(Subscribers)
BY HeadTailProperties, ConcatProperties DEF TypeOK, currentSubscriber

LEMMA RemoveQueuedType ==
  ASSUME TypeOK, NEW w \in Watchers
  PROVE  removeQueuedSubscriber(w) \in Seq(Watchers)
<1>1. pending \in Seq(Watchers)
  BY DEF TypeOK
<1>2. CASE \E i \in DOMAIN pending : pending[i] = w
  <2> DEFINE k == CHOOSE i \in DOMAIN pending : pending[i] = w
  <2>1. k \in 1 .. Len(pending)
    BY <1>1, <1>2
  <2> QED BY <1>1, <2>1, RemoveAtProperties DEF removeQueuedSubscriber
<1>3. CASE ~ \E i \in DOMAIN pending : pending[i] = w
  BY <1>1, <1>3 DEF removeQueuedSubscriber
<1> QED BY <1>2, <1>3

LEMMA RunTypes ==
  ASSUME TypeOK, NEW w \in Watchers, run(w)
  PROVE  /\ subscribers' \in [Sources -> SUBSET Subscribers]
         /\ deps' \in [Subscribers -> SUBSET Sources]
         /\ obs' \in [Subscribers -> SUBSET Readings]
         /\ stack' \in Seq(Frames)
         /\ subscriberStack' \in Seq(Subscribers)
         /\ overtaken' \in BOOLEAN
<1>1. /\ subscribers' \in [Sources -> SUBSET Subscribers]
      /\ deps' \in [Subscribers -> SUBSET Sources]
  BY DEF TypeOK, run, removeSubscriber, removeDependencies
<1>2. obs' \in [Subscribers -> SUBSET Readings]
  BY DEF TypeOK, run
<1>3. stack' \in Seq(Frames) /\ subscriberStack' \in Seq(Subscribers)
  BY FrameTypes, CurrentSubscriberType DEF run, Start, Kinds, Subscribers
<1>4. overtaken' \in BOOLEAN
  BY DEF run
<1> QED BY <1>1, <1>2, <1>3, <1>4

LEMMA TypeInit ==
  ASSUME Init
  PROVE  TypeOK
<1>1. version \in [States -> 0 .. MaxVersion]
  BY BoundsType DEF Init
<1>2. /\ pending \in Seq(Watchers) /\ round \in Seq(Watchers)
      /\ stack \in Seq(Frames) /\ subscriberStack \in Seq(Subscribers)
  BY DEF Init
<1>3. /\ obs \in [Subscribers -> SUBSET Readings]
      /\ deps \in [Subscribers -> SUBSET Sources]
      /\ subscribers \in [Sources -> SUBSET Subscribers]
  BY DEF Init
<1>4. /\ dirty \in [Computeds -> BOOLEAN]
      /\ queued \in [Watchers -> BOOLEAN]
      /\ phase \in [Watchers -> {"new", "live", "stopped"}]
  BY DEF Init
<1>5. flushing \in BOOLEAN /\ overtaken \in BOOLEAN
  BY Zenon DEF Init
<1>6. batchDepth \in Int
  BY DEF Init
<1> QED BY <1>1, <1>2, <1>3, <1>4, <1>5, <1>6 DEF TypeOK

LEMMA TypeNext ==
  ASSUME TypeOK, [Next]_vars
  PROVE  TypeOK'
<1> USE FrameTypes, CurrentSubscriberType
<1>1. ASSUME NEW x \in States, GetState(x)
      PROVE  TypeOK'
  <2> DEFINE readings == {<<x, version[x]>>}
  <2>1. x \in Sources /\ readings \in SUBSET Readings
    BY DEF TypeOK, Sources, Readings
  <2>2. /\ subscribers \in [Sources -> SUBSET Subscribers]
        /\ deps \in [Subscribers -> SUBSET Sources]
        /\ obs \in [Subscribers -> SUBSET Readings]
    BY DEF TypeOK
  <2>3. /\ subscribers' \in [Sources -> SUBSET Subscribers]
        /\ deps' \in [Subscribers -> SUBSET Sources]
        /\ obs' \in [Subscribers -> SUBSET Readings]
    BY <1>1, <2>1, <2>2, GraphTypes DEF GetState
  <2> QED BY <1>1, <2>3 DEF GetState, TypeOK, scheduler, calls
<1>2. ASSUME NEW x \in Computeds, GetCached(x)
      PROVE  TypeOK'
  <2>1. x \in Sources /\ x \in Subscribers
    BY DEF Sources, Subscribers
  <2>2. /\ subscribers \in [Sources -> SUBSET Subscribers]
        /\ deps \in [Subscribers -> SUBSET Sources]
        /\ obs \in [Subscribers -> SUBSET Readings]
        /\ obs[x] \in SUBSET Readings
    BY <2>1 DEF TypeOK
  <2>3. /\ subscribers' \in [Sources -> SUBSET Subscribers]
        /\ deps' \in [Subscribers -> SUBSET Sources]
        /\ obs' \in [Subscribers -> SUBSET Readings]
    BY <1>2, <2>1, <2>2, GraphTypes DEF GetCached
  <2> QED BY <1>2, <2>3 DEF GetCached, TypeOK, scheduler, calls
<1>3. ASSUME NEW x \in Computeds, GetDirty(x)
      PROVE  TypeOK'
  <2>1. x \in Sources /\ x \in Subscribers
    BY DEF Sources, Subscribers
  <2>2. /\ subscribers \in [Sources -> SUBSET Subscribers]
        /\ deps \in [Subscribers -> SUBSET Sources]
        /\ obs \in [Subscribers -> SUBSET Readings]
    BY DEF TypeOK
  <2> DEFINE tracked == addSubscriber(subscribers, deps, x, currentSubscriber)
             trackedDeps == addDependency(deps, x, currentSubscriber)
  <2>3. /\ tracked \in [Sources -> SUBSET Subscribers]
        /\ trackedDeps \in [Subscribers -> SUBSET Sources]
    BY <2>1, <2>2, GraphTypes
  <2>4. /\ subscribers' \in [Sources -> SUBSET Subscribers]
        /\ deps' \in [Subscribers -> SUBSET Sources]
    <3> HIDE DEF tracked, trackedDeps
    <3>1. /\ subscribers' = removeSubscriber(tracked, trackedDeps, x)
          /\ deps' = removeDependencies(trackedDeps, x)
      BY <1>3 DEF GetDirty, tracked, trackedDeps
    <3> QED BY <2>1, <2>3, <3>1 DEF removeSubscriber, removeDependencies
  <2>5. obs' \in [Subscribers -> SUBSET Readings]
    BY <1>3, <2>2 DEF GetDirty
  <2>6. stack' \in Seq(Frames) /\ subscriberStack' \in Seq(Subscribers)
    BY <1>3, <2>1 DEF GetDirty, Start, Kinds
  <2> QED BY <1>3, <2>4, <2>5, <2>6 DEF GetDirty, TypeOK, scheduler
<1>4. ASSUME ComputeReturns
      PROVE  TypeOK'
  <2> DEFINE caller == Tail(subscriberStack)
             reader == IF caller = <<>> THEN None ELSE Head(caller)
             self == Head(subscriberStack)
  <2>1. /\ self \in Computeds /\ self \in Subscribers
        /\ caller \in Seq(Subscribers)
        /\ stack # <<>>
    BY <1>4 DEF ComputeReturns, Running
  <2>2. reader \in Subscribers \cup {None}
    BY <2>1, HeadTailProperties
  <2>3. obs \in [Subscribers -> SUBSET Readings] /\ obs[self] \in SUBSET Readings
    BY <2>1 DEF TypeOK
  <2>4. obs' = observe(obs, reader, obs[self])
    BY <1>4 DEF ComputeReturns
  <2>5. obs' \in [Subscribers -> SUBSET Readings]
    BY <2>2, <2>3, <2>4, NoneIsNoSubscriber DEF observe
  <2>6. dirty' \in [Computeds -> BOOLEAN]
    BY <1>4 DEF ComputeReturns, TypeOK
  <2> QED BY <1>4, <2>1, <2>5, <2>6 DEF ComputeReturns, TypeOK, graph, scheduler
<1>5. ASSUME NEW x \in States, Set(x)
      PROVE  TypeOK'
  <2>1. version' \in [States -> 0 .. MaxVersion]
    BY <1>5, BoundsType DEF Set, TypeOK
  <2>2. stack' \in Seq(Frames)
    BY <1>5 DEF Set, Sources
  <2> QED BY <1>5, <2>1, <2>2 DEF Set, TypeOK, graph, scheduler
<1>6. ASSUME NEW x \in Watchers, Watch(x)
      PROVE  TypeOK'
  <2>1. phase' \in [Watchers -> {"new", "live", "stopped"}]
    BY <1>6 DEF Watch, TypeOK
  <2>2. run(x)
    BY <1>6 DEF Watch
  <2> QED BY <1>6, <2>1, <2>2, RunTypes DEF Watch, TypeOK, scheduler
<1>7. ASSUME NEW x \in Watchers, Stop(x)
      PROVE  TypeOK'
  <2>1. /\ subscribers' = removeSubscriber(subscribers, deps, x)
        /\ deps' = removeDependencies(deps, x)
        /\ pending' \in Seq(Watchers)
    BY <1>7, RemoveQueuedType DEF Stop
  <2>2. /\ subscribers' \in [Sources -> SUBSET Subscribers]
        /\ deps' \in [Subscribers -> SUBSET Sources]
    BY <2>1 DEF TypeOK, removeSubscriber, removeDependencies
  <2>3. /\ phase' \in [Watchers -> {"new", "live", "stopped"}]
        /\ queued' \in [Watchers -> BOOLEAN]
    BY <1>7 DEF Stop, TypeOK
  <2> QED BY <1>7, <2>1, <2>2, <2>3 DEF Stop, TypeOK, values, calls
<1>8. ASSUME BatchBegin
      PROVE  TypeOK'
  <2>1. stack' \in Seq(Frames)
    BY <1>8 DEF BatchBegin, Kinds
  <2> QED BY <1>8, <2>1 DEF BatchBegin, TypeOK, values, graph
<1>9. ASSUME BatchEnd
      PROVE  TypeOK'
  <2>1. stack # <<>> /\ Tail(stack) \in Seq(Frames)
    BY <1>9 DEF BatchEnd, Running
  <2>2. <<Frame("flush")>> \o Tail(stack) \in Seq(Frames)
    BY <2>1, ConcatProperties, FrameTypes DEF Kinds
  <2>3. stack' \in Seq(Frames) /\ flushing' \in BOOLEAN
    BY <1>9, <2>1, <2>2 DEF BatchEnd, flushSubscribers, TypeOK
  <2> QED BY <1>9, <2>3 DEF BatchEnd, TypeOK, values, graph
<1>10. ASSUME EffectReturns
       PROVE  TypeOK'
  BY <1>10 DEF EffectReturns, Running, TypeOK, values, graph, scheduler
<1>11. ASSUME NEW x \in Computeds, InvalidateComputed(x)
       PROVE  TypeOK'
  <2>1. x \in Sources /\ x \in Subscribers /\ stack # <<>>
    BY <1>11 DEF Sources, Subscribers, InvalidateComputed, Running
  <2>2. Rest(x) \in Seq(Frames) /\ NotifyFrame(x) \in Frames
    BY <2>1
  <2>3. <<NotifyFrame(x)>> \o Rest(x) \in Seq(Frames)
    BY <2>2, ConcatProperties
  <2>4. dirty' \in [Computeds -> BOOLEAN]
    BY <1>11 DEF InvalidateComputed, TypeOK
  <2> QED BY <1>11, <2>2, <2>3, <2>4 DEF InvalidateComputed, TypeOK, graph, scheduler
<1>12. ASSUME NEW x \in Watchers, QueueWatcher(x)
       PROVE  TypeOK'
  <2>1. x \in Subscribers /\ stack # <<>>
    BY <1>12 DEF Subscribers, QueueWatcher, Running
  <2>2. Rest(x) \in Seq(Frames)
    BY <2>1
  <2>3. <<Frame("flush")>> \o Rest(x) \in Seq(Frames)
    BY <2>2, ConcatProperties DEF Kinds
  <2>4. stack' \in Seq(Frames) /\ flushing' \in BOOLEAN
    BY <1>12, <2>2, <2>3 DEF QueueWatcher, flushSubscribers, TypeOK
  <2>5. pending' \in Seq(Watchers) /\ queued' \in [Watchers -> BOOLEAN]
    BY <1>12 DEF QueueWatcher, TypeOK
  <2> QED BY <1>12, <2>4, <2>5 DEF QueueWatcher, TypeOK, values, graph
<1>13. ASSUME NEW x \in Watchers, SkipWatcher(x)
       PROVE  TypeOK'
  <2>1. x \in Subscribers /\ stack # <<>>
    BY <1>13 DEF Subscribers, SkipWatcher, Running
  <2> QED BY <1>13, <2>1 DEF SkipWatcher, TypeOK, values, graph, scheduler
<1>14. ASSUME NotifyDone
       PROVE  TypeOK'
  BY <1>14 DEF NotifyDone, Running, TypeOK, values, graph, scheduler
<1>15. ASSUME FlushRound
       PROVE  TypeOK'
  BY <1>15 DEF FlushRound, TypeOK, values, graph, calls
<1>16. ASSUME NEW x \in Watchers, FlushRun(x)
       PROVE  TypeOK'
  <2>1. run(x) /\ round' = Tail(round) /\ round # <<>>
    BY <1>16 DEF FlushRun
  <2>2. queued' \in [Watchers -> BOOLEAN]
    BY <1>16 DEF FlushRun, TypeOK
  <2>3. round' \in Seq(Watchers)
    BY <2>1, HeadTailProperties DEF TypeOK
  <2> QED BY <1>16, <2>1, <2>2, <2>3, RunTypes DEF FlushRun, TypeOK
<1>17. ASSUME NEW x \in Watchers, FlushSkip(x)
       PROVE  TypeOK'
  <2>1. round' \in Seq(Watchers)
    BY <1>17, HeadTailProperties DEF FlushSkip, TypeOK
  <2>2. queued' \in [Watchers -> BOOLEAN]
    BY <1>17 DEF FlushSkip, TypeOK
  <2> QED BY <1>17, <2>1, <2>2 DEF FlushSkip, TypeOK, values, graph, calls
<1>18. ASSUME FlushEnd
       PROVE  TypeOK'
  BY <1>18 DEF FlushEnd, Running, TypeOK, values, graph
<1>19. CASE UNCHANGED vars
  BY <1>19 DEF TypeOK, vars, values, graph, scheduler, calls
<1> QED
  BY <1>1, <1>2, <1>3, <1>4, <1>5, <1>6, <1>7, <1>8, <1>9, <1>10, <1>11,
     <1>12, <1>13, <1>14, <1>15, <1>16, <1>17, <1>18, <1>19
  DEF Next, Library, Returns, Calls

\* Every variable keeps its type in every behaviour of the scheduler.
THEOREM TypeCorrect == Spec => []TypeOK
<1>1. Init => TypeOK
  BY TypeInit
<1>2. TypeOK /\ [Next]_vars => TypeOK'
  BY TypeNext
<1> QED BY <1>1, <1>2, PTL DEF Spec

-----------------------------------------------------------------------------
(* The two ends of every edge of the graph. *)

Symmetric(subs, ds) ==
  \A x \in Sources, y \in Subscribers : x \in ds[y] <=> y \in subs[x]

\* Tracking adds both ends of an edge.
LEMMA TrackSymmetric ==
  ASSUME NEW subs \in [Sources -> SUBSET Subscribers],
         NEW ds \in [Subscribers -> SUBSET Sources],
         Symmetric(subs, ds),
         NEW x \in Sources, NEW y \in Subscribers \cup {None}
  PROVE  Symmetric(addSubscriber(subs, ds, x, y), addDependency(ds, x, y))
BY NoneIsNoSubscriber DEF Symmetric, addSubscriber, addDependency

\* Disposing of a subscriber removes both ends of all its edges.
LEMMA DisposeSymmetric ==
  ASSUME NEW subs \in [Sources -> SUBSET Subscribers],
         NEW ds \in [Subscribers -> SUBSET Sources],
         Symmetric(subs, ds),
         NEW y \in Subscribers
  PROVE  Symmetric(removeSubscriber(subs, ds, y), removeDependencies(ds, y))
BY DEF Symmetric, removeSubscriber, removeDependencies

LEMMA SymmetryNext ==
  ASSUME TypeOK, SubscriptionSymmetry, [Next]_vars
  PROVE  SubscriptionSymmetry'
<1> DEFINE y == currentSubscriber
<1>0. /\ subscribers \in [Sources -> SUBSET Subscribers]
      /\ deps \in [Subscribers -> SUBSET Sources]
      /\ y \in Subscribers \cup {None}
      /\ Symmetric(subscribers, deps)
  BY CurrentSubscriberType DEF TypeOK, SubscriptionSymmetry, Symmetric
<1>1. SUFFICES Symmetric(subscribers', deps')
  BY DEF SubscriptionSymmetry, Symmetric
<1>2. ASSUME NEW x \in States, GetState(x)
      PROVE  Symmetric(subscribers', deps')
  BY <1>0, <1>2, TrackSymmetric DEF GetState, Sources
<1>3. ASSUME NEW x \in Computeds, GetCached(x)
      PROVE  Symmetric(subscribers', deps')
  BY <1>0, <1>3, TrackSymmetric DEF GetCached, Sources
<1>4. ASSUME NEW x \in Computeds, GetDirty(x)
      PROVE  Symmetric(subscribers', deps')
  <2> DEFINE tracked == addSubscriber(subscribers, deps, x, y)
             trackedDeps == addDependency(deps, x, y)
  <2>1. x \in Sources /\ x \in Subscribers
    BY DEF Sources, Subscribers
  <2>2. /\ tracked \in [Sources -> SUBSET Subscribers]
        /\ trackedDeps \in [Subscribers -> SUBSET Sources]
    BY <1>0, <2>1 DEF addSubscriber, addDependency
  <2>3. Symmetric(tracked, trackedDeps)
    BY <1>0, <2>1, TrackSymmetric
  <2>4. /\ subscribers' = removeSubscriber(tracked, trackedDeps, x)
        /\ deps' = removeDependencies(trackedDeps, x)
    BY <1>4 DEF GetDirty
  <2> HIDE DEF tracked, trackedDeps
  <2> QED BY <2>1, <2>2, <2>3, <2>4, DisposeSymmetric
<1>5. ASSUME NEW x \in Watchers, Stop(x) \/ FlushRun(x) \/ Watch(x)
      PROVE  Symmetric(subscribers', deps')
  <2>1. /\ subscribers' = removeSubscriber(subscribers, deps, x)
        /\ deps' = removeDependencies(deps, x)
    BY <1>5 DEF Stop, FlushRun, Watch, run
  <2> QED BY <1>0, <2>1, DisposeSymmetric DEF Subscribers
<1>6. CASE UNCHANGED graph
  BY <1>0, <1>6 DEF graph
<1>7. ASSUME NEW x \in Computeds, InvalidateComputed(x)
      PROVE  UNCHANGED graph
  BY <1>7 DEF InvalidateComputed
<1>8. ASSUME NEW x \in Watchers,
             QueueWatcher(x) \/ SkipWatcher(x) \/ FlushSkip(x)
      PROVE  UNCHANGED graph
  BY <1>8 DEF QueueWatcher, SkipWatcher, FlushSkip
<1>9. ASSUME NEW x \in States, Set(x)
      PROVE  UNCHANGED graph
  BY <1>9 DEF Set
<1>10. ASSUME NotifyDone \/ FlushRound \/ FlushEnd \/ Returns \/ BatchBegin
       PROVE  UNCHANGED graph
  BY <1>10 DEF NotifyDone, FlushRound, FlushEnd, Returns, ComputeReturns,
               BatchEnd, EffectReturns, BatchBegin
<1>11. CASE UNCHANGED vars
  BY <1>6, <1>11 DEF vars
<1> QED
  BY <1>2, <1>3, <1>4, <1>5, <1>6, <1>7, <1>8, <1>9, <1>10, <1>11
  DEF Next, Library, Calls

\* The two ends of every edge of the graph agree in every reachable state.
THEOREM SymmetryCorrect == Spec => []SubscriptionSymmetry
<1>1. Init => SubscriptionSymmetry
  BY DEF Init, SubscriptionSymmetry
<1>2. TypeOK /\ SubscriptionSymmetry /\ [Next]_vars => SubscriptionSymmetry'
  BY SymmetryNext
<1> QED BY <1>1, <1>2, TypeCorrect, PTL DEF Spec

-----------------------------------------------------------------------------
(* The queue. *)

queueVars == <<phase, queued, pending, round>>

\* Dequeuing the watcher at the head of the round, run or skipped.
LEMMA DequeueKeepsQueue ==
  ASSUME TypeOK, QueueDiscipline, NEW w \in Watchers,
         round # <<>>, Head(round) = w,
         round' = Tail(round), queued' = [queued EXCEPT ![w] = FALSE],
         UNCHANGED <<phase, pending>>
  PROVE  QueueDiscipline'
<1>1. /\ round \in Seq(Watchers) /\ pending \in Seq(Watchers)
      /\ queued \in [Watchers -> BOOLEAN]
  BY DEF TypeOK
<1>2. /\ Len(round') = Len(round) - 1 /\ round' \in Seq(Watchers)
      /\ \A i \in 1 .. Len(round') : round'[i] = round[i + 1]
      /\ round[1] = w /\ Len(round) \in Nat \ {0}
  BY <1>1, HeadTailProperties
<1>3. \A i \in DOMAIN round' : i + 1 \in DOMAIN round /\ i + 1 # 1
  BY <1>1, <1>2
<1>4. \A i \in DOMAIN round' : round'[i] # w
  BY <1>1, <1>2, <1>3 DEF QueueDiscipline, IsInjective
<1>5. \A i \in DOMAIN pending : pending[i] # w
  BY <1>1, <1>2 DEF QueueDiscipline
<1>6. IsInjective(pending') /\ IsInjective(round')
  BY <1>1, <1>2, <1>3 DEF QueueDiscipline, IsInjective
<1>7. \A i \in DOMAIN pending' : queued'[pending'[i]]
  BY <1>1, <1>5 DEF QueueDiscipline
<1>8. \A i \in DOMAIN round' : queued'[round'[i]] \/ phase'[round'[i]] = "stopped"
  BY <1>1, <1>2, <1>3, <1>4 DEF QueueDiscipline
<1>9. \A i \in DOMAIN pending', j \in DOMAIN round' : pending'[i] # round'[j]
  BY <1>1, <1>2, <1>3 DEF QueueDiscipline
<1>10. ASSUME NEW x \in Watchers, queued'[x]
       PROVE  /\ phase'[x] # "stopped"
              /\ \/ \E i \in DOMAIN pending' : pending'[i] = x
                 \/ \E i \in DOMAIN round' : round'[i] = x
  <2>1. x # w /\ queued[x]
    BY <1>1, <1>10
  <2>2. CASE \E i \in DOMAIN pending : pending[i] = x
    BY <2>1, <2>2 DEF QueueDiscipline
  <2>3. CASE \E i \in DOMAIN round : round[i] = x
    <3>1. PICK i \in DOMAIN round : round[i] = x
      BY <2>3
    <3>2. i # 1 /\ i - 1 \in DOMAIN round' /\ round'[i - 1] = x
      BY <1>1, <1>2, <2>1, <3>1
    <3> QED BY <2>1, <3>2 DEF QueueDiscipline
  <2> QED BY <2>1, <2>2, <2>3 DEF QueueDiscipline
<1> QED BY <1>6, <1>7, <1>8, <1>9, <1>10 DEF QueueDiscipline

\* Queueing a watcher that is neither stopped nor queued.
LEMMA EnqueueKeepsQueue ==
  ASSUME TypeOK, QueueDiscipline, NEW w \in Watchers, QueueWatcher(w)
  PROVE  QueueDiscipline'
<1>1. /\ round \in Seq(Watchers) /\ pending \in Seq(Watchers)
      /\ queued \in [Watchers -> BOOLEAN]
  BY DEF TypeOK
<1>2. /\ pending' = Append(pending, w) /\ queued' = [queued EXCEPT ![w] = TRUE]
      /\ ~queued[w] /\ phase[w] # "stopped"
      /\ round' = round /\ phase' = phase
  BY DEF QueueWatcher
<1>3. /\ DOMAIN pending' = DOMAIN pending \cup {Len(pending) + 1}
      /\ pending'[Len(pending) + 1] = w
      /\ \A i \in DOMAIN pending : pending'[i] = pending[i] /\ pending[i] # w
  BY <1>1, <1>2 DEF QueueDiscipline
<1>4. \A i \in DOMAIN round : round[i] # w
  BY <1>1, <1>2 DEF QueueDiscipline
<1>5. IsInjective(pending') /\ IsInjective(round')
  BY <1>2, <1>3 DEF QueueDiscipline, IsInjective
<1>6. \A i \in DOMAIN pending' : queued'[pending'[i]]
  BY <1>1, <1>2, <1>3 DEF QueueDiscipline
<1>7. \A i \in DOMAIN round' : queued'[round'[i]] \/ phase'[round'[i]] = "stopped"
  BY <1>1, <1>2, <1>4 DEF QueueDiscipline
<1>8. \A i \in DOMAIN pending', j \in DOMAIN round' : pending'[i] # round'[j]
  BY <1>2, <1>3, <1>4 DEF QueueDiscipline
<1>9. ASSUME NEW x \in Watchers, queued'[x]
      PROVE  /\ phase'[x] # "stopped"
             /\ \/ \E i \in DOMAIN pending' : pending'[i] = x
                \/ \E i \in DOMAIN round' : round'[i] = x
  <2>1. CASE x = w
    BY <1>2, <1>3, <2>1
  <2>2. CASE x # w
    <3>1. queued[x]
      BY <1>1, <1>2, <1>9, <2>2
    <3> QED BY <1>2, <1>3, <3>1 DEF QueueDiscipline
  <2> QED BY <2>1, <2>2
<1> QED BY <1>5, <1>6, <1>7, <1>8, <1>9 DEF QueueDiscipline

\* Stopping a watcher, queued or not.
LEMMA StopKeepsQueue ==
  ASSUME TypeOK, QueueDiscipline, NEW w \in Watchers, Stop(w)
  PROVE  QueueDiscipline'
<1>1. /\ round \in Seq(Watchers) /\ pending \in Seq(Watchers)
      /\ queued \in [Watchers -> BOOLEAN]
      /\ phase \in [Watchers -> {"new", "live", "stopped"}]
  BY DEF TypeOK
<1>2. /\ phase' = [phase EXCEPT ![w] = "stopped"]
      /\ queued' = [queued EXCEPT ![w] = FALSE]
      /\ pending' = removeQueuedSubscriber(w)
      /\ round' = round
  BY DEF Stop
\* What is left in pending: the other watchers, each at one position.
<1>3. /\ pending' \in Seq(Watchers)
      /\ IsInjective(pending')
      /\ \A i \in DOMAIN pending' : pending'[i] # w
      /\ \A i \in DOMAIN pending' : \E j \in DOMAIN pending : pending'[i] = pending[j]
      /\ \A j \in DOMAIN pending : pending[j] # w =>
           \E i \in DOMAIN pending' : pending'[i] = pending[j]
  <2>1. CASE ~ \E i \in DOMAIN pending : pending[i] = w
    BY <1>1, <1>2, <2>1 DEF removeQueuedSubscriber, QueueDiscipline
  <2>2. CASE \E i \in DOMAIN pending : pending[i] = w
    <3> DEFINE k == CHOOSE i \in DOMAIN pending : pending[i] = w
    <3>1. k \in 1 .. Len(pending) /\ pending[k] = w
      BY <1>1, <2>2
    <3>2. pending' = RemoveAt(pending, k)
      BY <1>2, <2>2, <3>1 DEF removeQueuedSubscriber, QueueDiscipline
    <3> HIDE DEF k
    <3>3. /\ pending' \in Seq(Watchers)
          /\ Len(pending') = Len(pending) - 1
          /\ \A i \in 1 .. Len(pending) - 1 :
               pending'[i] = IF i < k THEN pending[i] ELSE pending[i + 1]
      BY <1>1, <3>1, <3>2, RemoveAtProperties
    <3>4. /\ DOMAIN pending' = 1 .. Len(pending) - 1
          /\ DOMAIN pending = 1 .. Len(pending) /\ Len(pending) \in Nat
      BY <1>1, <3>3
    <3>5. \A i, j \in DOMAIN pending : pending[i] = pending[j] => i = j
      BY DEF QueueDiscipline, IsInjective
    <3>6. IsInjective(pending')
      BY <3>1, <3>3, <3>4, <3>5, SMTT(30) DEF IsInjective
    <3>7. \A i \in DOMAIN pending' : pending'[i] # w
      BY <3>1, <3>3, <3>4, <3>5
    <3>8. \A i \in DOMAIN pending' : \E j \in DOMAIN pending : pending'[i] = pending[j]
      BY <3>1, <3>3, <3>4
    <3>9. ASSUME NEW j \in DOMAIN pending, pending[j] # w
          PROVE  \E i \in DOMAIN pending' : pending'[i] = pending[j]
      <4>1. CASE j < k
        <5>1. j \in DOMAIN pending' /\ pending'[j] = pending[j]
          BY <3>1, <3>3, <3>4, <4>1
        <5> QED BY <5>1
      <4>2. CASE ~(j < k)
        <5>1. j - 1 \in DOMAIN pending' /\ pending'[j - 1] = pending[j]
          BY <3>1, <3>3, <3>4, <3>9, <4>2
        <5> QED BY <5>1
      <4> QED BY <4>1, <4>2
    <3> QED BY <3>3, <3>6, <3>7, <3>8, <3>9
  <2> QED BY <2>1, <2>2
<1>4. \A i \in DOMAIN pending' : queued'[pending'[i]]
  BY <1>1, <1>2, <1>3 DEF QueueDiscipline
<1>5. \A i \in DOMAIN round' : queued'[round'[i]] \/ phase'[round'[i]] = "stopped"
  BY <1>1, <1>2 DEF QueueDiscipline
<1>6. \A i \in DOMAIN pending', j \in DOMAIN round' : pending'[i] # round'[j]
  BY <1>2, <1>3 DEF QueueDiscipline
<1>7. ASSUME NEW x \in Watchers, queued'[x]
      PROVE  /\ phase'[x] # "stopped"
             /\ \/ \E i \in DOMAIN pending' : pending'[i] = x
                \/ \E i \in DOMAIN round' : round'[i] = x
  <2>1. x # w /\ queued[x]
    BY <1>1, <1>2, <1>7
  <2>2. /\ phase[x] # "stopped"
        /\ \/ \E i \in DOMAIN pending : pending[i] = x
           \/ \E i \in DOMAIN round : round[i] = x
    BY <2>1 DEF QueueDiscipline
  <2>3. phase'[x] # "stopped"
    BY <1>1, <1>2, <2>1, <2>2
  <2>4. CASE \E i \in DOMAIN round : round[i] = x
    BY <1>2, <2>3, <2>4
  <2>5. CASE \E i \in DOMAIN pending : pending[i] = x
    <3>1. PICK j \in DOMAIN pending : pending[j] = x
      BY <2>5
    <3>2. \E i \in DOMAIN pending' : pending'[i] = pending[j]
      BY <1>3, <2>1, <3>1
    <3> QED BY <2>3, <3>1, <3>2
  <2> QED BY <2>2, <2>4, <2>5
<1> QED BY <1>2, <1>3, <1>4, <1>5, <1>6, <1>7 DEF QueueDiscipline

LEMMA QueueNext ==
  ASSUME TypeOK, QueueDiscipline, [Next]_vars
  PROVE  QueueDiscipline'
<1>1. ASSUME NEW w \in Watchers, QueueWatcher(w)
      PROVE  QueueDiscipline'
  BY <1>1, EnqueueKeepsQueue
<1>2. ASSUME NEW w \in Watchers, Stop(w)
      PROVE  QueueDiscipline'
  BY <1>2, StopKeepsQueue
<1>3. ASSUME NEW w \in Watchers, FlushRun(w) \/ FlushSkip(w)
      PROVE  QueueDiscipline'
  BY <1>3, DequeueKeepsQueue DEF FlushRun, FlushSkip
<1>4. ASSUME FlushRound
      PROVE  QueueDiscipline'
  <2>1. /\ round' = pending /\ pending' = <<>>
        /\ queued' = queued /\ phase' = phase /\ round = <<>>
    BY <1>4 DEF FlushRound
  <2> QED BY <2>1 DEF QueueDiscipline, IsInjective
<1>5. ASSUME NEW w \in Watchers, Watch(w)
      PROVE  QueueDiscipline'
  <2>1. /\ phase' = [phase EXCEPT ![w] = "live"] /\ phase[w] = "new"
        /\ queued' = queued /\ pending' = pending /\ round' = round
    BY <1>5 DEF Watch, scheduler
  <2>2. \A x \in Watchers : phase'[x] = "stopped" <=> phase[x] = "stopped"
    BY <2>1 DEF TypeOK
  <2>3. round \in Seq(Watchers)
    BY DEF TypeOK
  <2>4. \A i \in DOMAIN round : round[i] \in Watchers
    BY <2>3
  <2> QED BY <2>1, <2>2, <2>4 DEF QueueDiscipline, IsInjective
<1>6. CASE UNCHANGED queueVars
  BY <1>6 DEF queueVars, QueueDiscipline, IsInjective
<1>7. ASSUME NEW x \in States, GetState(x) \/ Set(x)
      PROVE  UNCHANGED queueVars
  BY <1>7 DEF GetState, Set, scheduler, queueVars
<1>8. ASSUME NEW x \in Computeds,
             GetCached(x) \/ GetDirty(x) \/ InvalidateComputed(x)
      PROVE  UNCHANGED queueVars
  BY <1>8 DEF GetCached, GetDirty, InvalidateComputed, scheduler, queueVars
<1>9. ASSUME NEW w \in Watchers, SkipWatcher(w)
      PROVE  UNCHANGED queueVars
  BY <1>9 DEF SkipWatcher, scheduler, queueVars
<1>10. ASSUME NotifyDone \/ FlushEnd \/ Returns \/ BatchBegin
       PROVE  UNCHANGED queueVars
  BY <1>10 DEF NotifyDone, FlushEnd, Returns, ComputeReturns, BatchEnd,
               EffectReturns, BatchBegin, scheduler, queueVars
<1>11. CASE UNCHANGED vars
  BY <1>6, <1>11 DEF vars, scheduler, queueVars
<1> QED
  BY <1>1, <1>2, <1>3, <1>4, <1>5, <1>6, <1>7, <1>8, <1>9, <1>10, <1>11
  DEF Next, Library, Calls

\* A watcher is queued exactly once, in every reachable state.
THEOREM QueueCorrect == Spec => []QueueDiscipline
<1>1. Init => QueueDiscipline
  BY DEF Init, QueueDiscipline, IsInjective
<1>2. TypeOK /\ QueueDiscipline /\ [Next]_vars => QueueDiscipline'
  BY QueueNext
<1> QED BY <1>1, <1>2, TypeCorrect, PTL DEF Spec
=============================================================================
