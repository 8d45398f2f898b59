---------------------------- MODULE ResourceProofs ----------------------------
(***************************************************************************)
(* Theorems about Resource, for any number of runs.                        *)
(***************************************************************************)
EXTENDS Resource, TLAPS

(***************************************************************************)
(* The safety properties are not inductive by themselves: they need that a *)
(* CancelFunc is stored exactly while a load is in flight, that the runs   *)
(* that have begun are those up to Latest, that a goroutine holds a        *)
(* CancelFunc only between its critical section and its call, and that     *)
(* only runs that have begun are cancelled.                                *)
(***************************************************************************)
StoredWhileLoading ==
  /\ loading => ~stopped /\ cancel = runID /\ runID \in Runs
  /\ ~loading => cancel = 0
  /\ ~stopped => runID <= MaxRuns
  /\ stopped => runID >= 1

BegunUpToLatest ==
  /\ \A r \in Runs : pc[r] # "idle" <=> r <= Latest
  /\ stopped <=> pc[Stopper] # "idle"

\* The latest run has not finished, so the load is in flight.
UnfinishedLoads ==
  \A r \in Runs :
    ~stopped /\ runID = r /\ pc[r] \in {"begun", "notifyBegun", "spawn", "load"}
      => loading

HeldBriefly ==
  \A a \in Actors : held[a] # 0 =>
    /\ pc[a] \in {"begun", "finished"}
    /\ pc[held[a]] # "idle"

CancelledBegun == \A r \in cancelled : pc[r] # "idle"

IInv ==
  /\ TypeOK /\ CancelledBegun
  /\ StoredWhileLoading /\ BegunUpToLatest /\ UnfinishedLoads /\ HeldBriefly
  /\ LatestWins /\ CancelOwned /\ InFlightNotCancelled

LEMMA InitIInv == Init => IInv
<1> SUFFICES ASSUME Init PROVE IInv
  OBVIOUS
<1> USE MaxRunsType, StopperIsNoRun DEF Init
<1>1. TypeOK
  <2>1. pc \in [Actors -> {"idle", "begun", "notifyBegun", "spawn", "load",
                           "finished", "notifyFinished", "notifyStopped", "done"}]
    OBVIOUS
  <2>2. hasValue \in BOOLEAN /\ loading \in BOOLEAN /\ stopped \in BOOLEAN
        /\ subscribed \in BOOLEAN /\ queued \in BOOLEAN
    BY Zenon
  <2>3. view \in [value : 0 .. MaxRuns, hasValue : BOOLEAN,
                  err : 0 .. MaxRuns, loading : BOOLEAN]
    BY <2>2 DEF State
  <2>4. held \in [Actors -> 0 .. MaxRuns]
    OBVIOUS
  <2>5. value \in 0 .. MaxRuns /\ err \in 0 .. MaxRuns /\ cancel \in 0 .. MaxRuns
        /\ runID \in 0 .. MaxRuns + 1 /\ cancelled \in SUBSET Runs
    OBVIOUS
  <2> QED BY <2>1, <2>2, <2>3, <2>4, <2>5 DEF TypeOK
<1>2. StoredWhileLoading /\ UnfinishedLoads /\ HeldBriefly /\ CancelledBegun
  BY DEF StoredWhileLoading, UnfinishedLoads, HeldBriefly, CancelledBegun,
     Runs, Actors
<1>3. BegunUpToLatest
  BY DEF BegunUpToLatest, Latest, Runs, Actors
<1>4. LatestWins /\ CancelOwned /\ InFlightNotCancelled
  BY DEF LatestWins, CancelOwned, InFlightNotCancelled, Runs, Actors
<1> QED BY <1>1, <1>2, <1>3, <1>4 DEF IInv

\* A step that leaves the fields, the places and the CancelFuncs alone.
LEMMA ObserverIInv ==
  ASSUME IInv, Observe
  PROVE  IInv'
<1>1. UNCHANGED <<fields, goroutines>>
  BY DEF Observe, ObserverRun, Value, Error, Loading
<1>2. TypeOK'
  <2>1. CASE ObserverRun
    BY <1>1, <2>1 DEF IInv, TypeOK, ObserverRun, fields, goroutines
  <2>2. CASE Value
    BY <1>1, <2>2 DEF IInv, TypeOK, Value, fields, goroutines
  <2>3. CASE Error
    BY <1>1, <2>3 DEF IInv, TypeOK, Error, fields, goroutines
  <2>4. CASE Loading
    BY <1>1, <2>4 DEF IInv, TypeOK, Loading, fields, goroutines
  <2> QED BY <2>1, <2>2, <2>3, <2>4 DEF Observe
<1>3. /\ StoredWhileLoading' /\ BegunUpToLatest' /\ UnfinishedLoads'
      /\ HeldBriefly' /\ LatestWins' /\ CancelOwned' /\ InFlightNotCancelled'
      /\ CancelledBegun'
  BY <1>1 DEF IInv, StoredWhileLoading, BegunUpToLatest, UnfinishedLoads, Latest,
              HeldBriefly, LatestWins, CancelOwned, InFlightNotCancelled,
              CancelledBegun, fields, goroutines
<1> QED BY <1>2, <1>3 DEF IInv

\* A step of one goroutine that only moves on, and notifies or starts a load.
LEMMA MoveIInv ==
  ASSUME IInv, NEW a \in Actors, NEW from, NEW to,
         \/ from = "notifyBegun" /\ to = "spawn"
         \/ from = "spawn" /\ to = "load"
         \/ from \in {"notifyFinished", "notifyStopped"} /\ to = "done"
         \/ from = "load" /\ to = "done" /\ (stopped \/ runID # a),
         Goto(a, from, to),
         UNCHANGED <<fields, held, cancelled, subscribed, reading, view>>,
         queued' \in BOOLEAN
  PROVE  IInv'
<1>1. /\ pc[a] = from /\ pc' = [pc EXCEPT ![a] = to]
      /\ UNCHANGED <<fields, held, cancelled>>
  BY DEF Goto
<1>2. TypeOK'
  BY DEF IInv, TypeOK, Goto, fields
<1>3. /\ \A x \in Actors \ {a} : pc'[x] = pc[x]
      /\ pc'[a] = to
      /\ \A x \in Actors : pc'[x] # "idle" <=> pc[x] # "idle"
      /\ Runs \subseteq Actors /\ Stopper \in Actors
  BY <1>1 DEF IInv, TypeOK, Actors
<1>4. StoredWhileLoading' /\ LatestWins'
  BY <1>1 DEF IInv, StoredWhileLoading, LatestWins, Latest, fields
<1>5. BegunUpToLatest'
  BY <1>1, <1>3 DEF IInv, BegunUpToLatest, Latest, fields
<1>6. UnfinishedLoads'
  BY <1>1, <1>3 DEF IInv, UnfinishedLoads, fields
<1>7. HeldBriefly'
  <2>1. held[a] = 0
    BY <1>1 DEF IInv, HeldBriefly
  <2>2. \A x \in Actors : held[x] # 0 => held[x] \in Runs
    BY DEF IInv, TypeOK, Runs
  <2> QED BY <1>1, <1>3, <2>1, <2>2 DEF IInv, HeldBriefly
<1>8. CancelOwned' /\ InFlightNotCancelled'
  BY <1>1, <1>3 DEF IInv, CancelOwned, InFlightNotCancelled, fields
<1>9. CancelledBegun'
  BY <1>1, <1>3 DEF IInv, TypeOK, CancelledBegun
<1> QED BY <1>2, <1>4, <1>5, <1>6, <1>7, <1>8, <1>9 DEF IInv

\* A goroutine calls the CancelFunc it holds.
LEMMA CancelIInv ==
  ASSUME IInv, NEW a \in Actors, NEW from, NEW to,
         \/ from = "begun" /\ to = "notifyBegun"
         \/ from = "begun" /\ to = "notifyStopped" /\ a = Stopper
         \/ from = "finished" /\ to = "notifyFinished",
         Cancel(a, from, to)
  PROVE  IInv'
<1>1. /\ pc[a] = from /\ pc' = [pc EXCEPT ![a] = to]
      /\ UNCHANGED <<fields, observer>>
      /\ held' = [held EXCEPT ![a] = 0]
      /\ cancelled' = cancelled \cup ({held[a]} \ {0})
  BY DEF Cancel, Goto
<1>2. held[a] \in 0 .. MaxRuns
  BY DEF IInv, TypeOK
<1>3. TypeOK'
  <2>1. cancelled' \in SUBSET Runs
    <3>1. {held[a]} \ {0} \subseteq Runs
      BY <1>2, MaxRunsType DEF Runs
    <3>2. cancelled \subseteq Runs
      BY DEF IInv, TypeOK
    <3> QED BY <1>1, <3>1, <3>2
  <2>2. held' \in [Actors -> 0 .. MaxRuns]
    BY <1>1, MaxRunsType DEF IInv, TypeOK
  <2> QED BY <1>1, <2>1, <2>2 DEF IInv, TypeOK, fields, observer
<1>4. /\ \A x \in Actors \ {a} : pc'[x] = pc[x] /\ held'[x] = held[x]
      /\ pc'[a] = to /\ held'[a] = 0
      /\ \A x \in Actors : pc'[x] # "idle" <=> pc[x] # "idle"
      /\ Runs \subseteq Actors /\ Stopper \in Actors /\ Stopper \notin Runs
      /\ \A x \in Actors : held[x] # 0 => held[x] \in Runs
  BY <1>1, StopperIsNoRun DEF IInv, TypeOK, Actors, Runs
<1>5. StoredWhileLoading' /\ LatestWins'
  BY <1>1 DEF IInv, StoredWhileLoading, LatestWins, Latest, fields
<1>6. BegunUpToLatest'
  BY <1>1, <1>4 DEF IInv, BegunUpToLatest, Latest, fields
<1>7. UnfinishedLoads'
  BY <1>1, <1>4 DEF IInv, UnfinishedLoads, fields
<1>8. HeldBriefly'
  BY <1>1, <1>4 DEF IInv, HeldBriefly
<1>9. CancelOwned'
  <2> SUFFICES ASSUME NEW r \in Runs
               PROVE  LET holders == {x \in Actors : held'[x] = r} IN
                      /\ pc'[r] # "idle" =>
                           r \in cancelled' \/ cancel' = r \/ holders # {}
                      /\ \A x, y \in holders : x = y
                      /\ cancel' = r \/ r \in cancelled' => holders = {}
                      /\ ~(cancel' = r /\ r \in cancelled')
    BY DEF CancelOwned
  <2>1. /\ pc[r] # "idle" =>
             r \in cancelled \/ cancel = r \/ \E x \in Actors : held[x] = r
        /\ \A x, y \in Actors : held[x] = r /\ held[y] = r => x = y
        /\ cancel = r \/ r \in cancelled => \A x \in Actors : held[x] # r
        /\ ~(cancel = r /\ r \in cancelled)
    BY DEF IInv, CancelOwned
  <2>2. r # 0 /\ cancel' = cancel
    BY <1>1 DEF Runs, fields
  <2>3. CASE held[a] = r
    BY <1>1, <1>4, <2>1, <2>2, <2>3
  <2>4. CASE held[a] # r
    BY <1>1, <1>4, <2>1, <2>2, <2>4
  <2> QED BY <2>3, <2>4
<1>10. InFlightNotCancelled'
  <2>1. loading => runID \in Runs /\ runID # 0
    BY DEF IInv, StoredWhileLoading, Runs
  <2>2. loading => /\ cancel = runID /\ runID \notin cancelled
                   /\ \A x \in Actors : held[x] # runID
    BY DEF IInv, InFlightNotCancelled
  <2> QED BY <1>1, <1>4, <2>1, <2>2 DEF InFlightNotCancelled, fields
<1>11. CancelledBegun'
  BY <1>1, <1>4 DEF IInv, TypeOK, HeldBriefly, CancelledBegun
<1> QED BY <1>3, <1>5, <1>6, <1>7, <1>8, <1>9, <1>10, <1>11 DEF IInv

\* The conjuncts of CancelOwned about one run, without the set of holders.
Owned(r) ==
  /\ pc[r] # "idle" =>
       r \in cancelled \/ cancel = r \/ \E x \in Actors : held[x] = r
  /\ \A x, y \in Actors : held[x] = r /\ held[y] = r => x = y
  /\ cancel = r \/ r \in cancelled => \A x \in Actors : held[x] # r
  /\ ~(cancel = r /\ r \in cancelled)

LEMMA OwnedDef == CancelOwned <=> \A r \in Runs : Owned(r)
BY DEF CancelOwned, Owned

\* A critical section that takes the stored CancelFunc out into a local
\* variable of goroutine a, and stores 0 or that of a run just begun.
LEMMA TakeOut ==
  ASSUME IInv, NEW a \in Actors, held[a] = 0,
         NEW to, to # "idle",
         pc' = [pc EXCEPT ![a] = to],
         held' = [held EXCEPT ![a] = cancel],
         cancelled' = cancelled,
         \/ cancel' = 0 /\ (a \in Runs => pc[a] # "idle")
         \/ cancel' = a /\ a \in Runs /\ pc[a] = "idle"
  PROVE  CancelOwned'
<1>1. /\ Runs \subseteq Actors /\ Stopper \in Actors /\ Stopper \notin Runs
      /\ 0 \notin Runs
      /\ \A x \in Actors \ {a} : pc'[x] = pc[x] /\ held'[x] = held[x]
      /\ pc'[a] = to /\ held'[a] = cancel
  BY StopperIsNoRun DEF IInv, TypeOK, Actors, Runs
<1>2. \A r \in Runs : Owned(r)
  BY OwnedDef DEF IInv
<1>3. \A x \in Actors : held[x] # 0 => pc[held[x]] # "idle"
  BY DEF IInv, HeldBriefly
\* The run about to begin has no CancelFunc anywhere yet.
<1>4. ASSUME a \in Runs, pc[a] = "idle"
      PROVE  /\ cancel # a /\ a \notin cancelled
             /\ \A x \in Actors : held[x] # a
  <2>1. \A x \in Actors : held[x] # a
    BY <1>1, <1>3, <1>4
  <2>2. cancel # a
    BY <1>4, StopperIsNoRun DEF IInv, StoredWhileLoading, BegunUpToLatest, Latest,
                                TypeOK, Runs
  <2>3. a \notin cancelled
    BY <1>4 DEF IInv, CancelledBegun
  <2> QED BY <2>1, <2>2, <2>3
<1>5. ASSUME NEW r \in Runs
      PROVE  Owned(r)'
  <2>1. Owned(r) /\ r # 0
    BY <1>1, <1>2
  <2>2. CASE r = a /\ pc[a] = "idle"
    <3>1. cancel' = a
      BY <2>2
    <3>2. /\ cancel # a /\ a \notin cancelled
          /\ \A x \in Actors : held[x] # a
      BY <1>4, <2>2
    <3>3. \A x \in Actors : held'[x] # a
      BY <1>1, <3>2
    <3> QED BY <2>2, <3>1, <3>2, <3>3 DEF Owned
  <2>3. CASE ~(r = a /\ pc[a] = "idle")
    <3>1. pc'[r] # "idle" <=> pc[r] # "idle"
      BY <1>1, <2>3
    <3>2. cancel' # r
      BY <2>1, <2>3
    <3>3. CASE cancel = r
      <4>1. \A x \in Actors : held'[x] = r <=> x = a
        BY <1>1, <2>1, <3>3 DEF Owned
      <4> QED BY <2>1, <3>2, <3>3, <4>1 DEF Owned
    <3>4. CASE cancel # r
      <4>1. \A x \in Actors : held'[x] = r <=> held[x] = r
        BY <1>1, <2>1, <3>4
      <4> QED BY <2>1, <3>1, <3>2, <3>4, <4>1 DEF Owned
    <3> QED BY <3>3, <3>4
  <2> QED BY <2>2, <2>3
<1>6. (\A r \in Runs : Owned(r)') => CancelOwned'
  BY DEF CancelOwned, Owned
<1> QED BY <1>5, <1>6

\* A goroutine that does not hold a CancelFunc by its pc does not hold one.
LEMMA NotHolding ==
  ASSUME IInv, NEW a \in Actors, pc[a] \notin {"begun", "finished"}
  PROVE  held[a] = 0
BY DEF IInv, HeldBriefly

LEMMA BeginIInv ==
  ASSUME IInv, NEW r \in Runs, BeginLoad(r)
  PROVE  IInv'
<1>1. /\ ~stopped /\ r = runID + 1 /\ pc[r] = "idle"
      /\ pc' = [pc EXCEPT ![r] = "begun"]
      /\ held' = [held EXCEPT ![r] = cancel]
      /\ runID' = r /\ cancel' = r
      /\ value' = 0 /\ hasValue' = FALSE /\ err' = 0 /\ loading' = TRUE
      /\ UNCHANGED <<stopped, cancelled, observer>>
  BY DEF BeginLoad, Goto
<1>2. /\ r \in Nat \ {0} /\ r \in 1 .. MaxRuns /\ r \in Actors /\ r # Stopper
      /\ Stopper \in Actors /\ Runs \subseteq Actors
      /\ \A x \in Actors \ {r} : pc'[x] = pc[x] /\ held'[x] = held[x]
      /\ pc'[r] = "begun" /\ held'[r] = cancel
  BY <1>1, MaxRunsType, StopperIsNoRun DEF IInv, TypeOK, Runs, Actors
<1>3. TypeOK'
  <2>1. /\ value' \in 0 .. MaxRuns /\ err' \in 0 .. MaxRuns
        /\ runID' \in 0 .. MaxRuns + 1 /\ cancel' \in 0 .. MaxRuns
    BY <1>1, <1>2, MaxRunsType
  <2>2. hasValue' \in BOOLEAN /\ loading' \in BOOLEAN
    BY <1>1, Zenon
  <2>3. /\ held' \in [Actors -> 0 .. MaxRuns]
        /\ pc' \in [Actors -> {"idle", "begun", "notifyBegun", "spawn", "load",
                    "finished", "notifyFinished", "notifyStopped", "done"}]
    BY <1>1, <1>2 DEF IInv, TypeOK
  <2> QED BY <1>1, <2>1, <2>2, <2>3 DEF IInv, TypeOK, observer
<1>4. StoredWhileLoading' /\ LatestWins' /\ UnfinishedLoads'
  BY <1>1, <1>2 DEF StoredWhileLoading, LatestWins, UnfinishedLoads, Latest, Runs
<1>5. BegunUpToLatest'
  <2>1. \A x \in Runs : pc[x] # "idle" <=> x <= runID
    BY <1>1 DEF IInv, BegunUpToLatest, Latest
  <2>2. \A x \in Runs : pc'[x] # "idle" <=> x <= r
    BY <1>1, <1>2, <2>1 DEF IInv, TypeOK, Runs
  <2> QED BY <1>1, <1>2, <2>2 DEF IInv, BegunUpToLatest, Latest
<1>6. HeldBriefly' /\ CancelledBegun'
  <2>1. cancel # 0 => cancel = runID /\ cancel \in Runs /\ pc[cancel] # "idle"
    BY <1>1 DEF IInv, StoredWhileLoading, BegunUpToLatest, Latest, TypeOK, Runs
  <2>2. CancelledBegun'
    BY <1>1, <1>2 DEF IInv, TypeOK, CancelledBegun
  <2>3. ASSUME NEW x \in Actors, held'[x] # 0
        PROVE  pc'[x] \in {"begun", "finished"} /\ pc'[held'[x]] # "idle"
    <3>1. CASE x = r
      BY <1>1, <1>2, <2>1, <2>3, <3>1
    <3>2. CASE x # r
      <4>1. held[x] # 0 /\ held[x] \in Runs
        BY <1>2, <2>3, <3>2 DEF IInv, TypeOK, Runs
      <4> QED BY <1>2, <3>2, <4>1 DEF IInv, HeldBriefly
    <3> QED BY <3>1, <3>2
  <2> QED BY <2>2, <2>3 DEF HeldBriefly
<1>7. CancelOwned'
  <2>1. held[r] = 0
    BY <1>1, <1>2, NotHolding
  <2> QED BY <1>1, <1>2, <2>1, TakeOut
<1>8. InFlightNotCancelled'
  <2>1. r \notin cancelled
    BY <1>1 DEF IInv, CancelledBegun
  <2>2. cancel # r
    BY <1>1 DEF IInv, StoredWhileLoading, TypeOK
  <2>3. \A x \in Actors : held[x] # r
    BY <1>1, <1>2 DEF IInv, HeldBriefly
  <2> QED BY <1>1, <1>2, <2>1, <2>2, <2>3 DEF InFlightNotCancelled
<1> QED BY <1>3, <1>4, <1>5, <1>6, <1>7, <1>8 DEF IInv

\* The critical section of finishLoad or of stop: the load in flight, if any,
\* is over, its CancelFunc is taken out and none is stored.
LEMMA EndIInv ==
  ASSUME IInv, NEW a \in Actors,
         NEW to, to \in {"begun", "finished"},
         pc' = [pc EXCEPT ![a] = to],
         held' = [held EXCEPT ![a] = cancel],
         cancelled' = cancelled, cancel' = 0, loading' = FALSE,
         held[a] = 0, a \in Runs => pc[a] = "load" /\ to = "finished"
  PROVE  HeldBriefly' /\ CancelledBegun' /\ CancelOwned' /\ InFlightNotCancelled'
<1>1. /\ \A x \in Actors \ {a} : pc'[x] = pc[x] /\ held'[x] = held[x]
      /\ pc'[a] = to /\ held'[a] = cancel
      /\ \A x \in Runs : pc'[x] # "idle" <=> pc[x] # "idle"
      /\ Runs \subseteq Actors
  BY DEF IInv, TypeOK, Actors
<1>2. cancel # 0 => cancel \in Runs /\ pc[cancel] # "idle"
  BY DEF IInv, StoredWhileLoading, BegunUpToLatest, Latest, TypeOK, Runs
<1>3. CancelledBegun'
  BY <1>1 DEF IInv, TypeOK, CancelledBegun
<1>4. ASSUME NEW x \in Actors, held'[x] # 0
      PROVE  pc'[x] \in {"begun", "finished"} /\ pc'[held'[x]] # "idle"
  <2>1. CASE x = a
    BY <1>1, <1>2, <1>4, <2>1
  <2>2. CASE x # a
    <3>1. held[x] # 0 /\ held[x] \in Runs
      BY <1>1, <1>4, <2>2 DEF IInv, TypeOK, Runs
    <3> QED BY <1>1, <2>2, <3>1 DEF IInv, HeldBriefly
  <2> QED BY <2>1, <2>2
<1>5. CancelOwned'
  <2>1. to # "idle" /\ (a \in Runs => pc[a] # "idle")
    OBVIOUS
  <2> QED BY <2>1, TakeOut
<1>6. InFlightNotCancelled'
  BY DEF InFlightNotCancelled
<1> QED BY <1>3, <1>4, <1>5, <1>6 DEF HeldBriefly

LEMMA FinishIInv ==
  ASSUME IInv, NEW r \in Runs, NEW failed \in BOOLEAN, FinishLoad(r, failed)
  PROVE  IInv'
<1>1. /\ ~stopped /\ r = runID /\ pc[r] = "load"
      /\ pc' = [pc EXCEPT ![r] = "finished"]
      /\ held' = [held EXCEPT ![r] = cancel]
      /\ cancel' = 0 /\ loading' = FALSE
      /\ err' = (IF failed THEN r ELSE 0)
      /\ value' = (IF failed THEN 0 ELSE r)
      /\ hasValue' = ~failed
      /\ UNCHANGED <<stopped, runID, cancelled, observer>>
  BY DEF FinishLoad, Goto
<1>2. /\ r \in 1 .. MaxRuns /\ r \in Actors /\ r # Stopper
      /\ \A x \in Actors \ {r} : pc'[x] = pc[x]
      /\ pc'[r] = "finished"
  BY <1>1, StopperIsNoRun DEF IInv, TypeOK, Runs, Actors
<1>3. TypeOK'
  <2>1. /\ value' \in 0 .. MaxRuns /\ err' \in 0 .. MaxRuns
        /\ cancel' \in 0 .. MaxRuns
    BY <1>1, <1>2, MaxRunsType
  <2>2. hasValue' \in BOOLEAN /\ loading' \in BOOLEAN
    BY <1>1, Zenon
  <2>3. /\ held' \in [Actors -> 0 .. MaxRuns]
        /\ pc' \in [Actors -> {"idle", "begun", "notifyBegun", "spawn", "load",
                    "finished", "notifyFinished", "notifyStopped", "done"}]
    BY <1>1, <1>2 DEF IInv, TypeOK
  <2> QED BY <1>1, <2>1, <2>2, <2>3 DEF IInv, TypeOK, observer
<1>4. StoredWhileLoading' /\ UnfinishedLoads'
  BY <1>1, <1>2 DEF IInv, StoredWhileLoading, UnfinishedLoads, Runs
<1>5. LatestWins'
  BY <1>1, <1>2 DEF LatestWins, Latest
<1>6. BegunUpToLatest'
  BY <1>1, <1>2 DEF IInv, BegunUpToLatest, Latest, Runs, Actors
<1>7. held[r] = 0
  BY <1>1, <1>2, NotHolding
<1>8. HeldBriefly' /\ CancelledBegun' /\ CancelOwned' /\ InFlightNotCancelled'
  BY <1>1, <1>2, <1>7, EndIInv
<1> QED BY <1>3, <1>4, <1>5, <1>6, <1>8 DEF IInv

LEMMA StopIInv ==
  ASSUME IInv, Stop
  PROVE  IInv'
<1>1. /\ ~stopped /\ pc[Stopper] = "idle"
      /\ pc' = [pc EXCEPT ![Stopper] = "begun"]
      /\ held' = [held EXCEPT ![Stopper] = cancel]
      /\ stopped' = TRUE /\ runID' = runID + 1
      /\ cancel' = 0 /\ loading' = FALSE
      /\ UNCHANGED <<value, hasValue, err, cancelled, observer>>
  BY DEF Stop, Goto
<1>2. /\ Stopper \in Actors /\ Stopper \notin Runs /\ Runs \subseteq Actors
      /\ \A x \in Runs : pc'[x] = pc[x]
      /\ pc'[Stopper] = "begun"
      /\ runID \in 0 .. MaxRuns
  BY <1>1, MaxRunsType, StopperIsNoRun
     DEF IInv, TypeOK, StoredWhileLoading, Runs, Actors
<1>3. TypeOK'
  <2>1. runID' \in 0 .. MaxRuns + 1 /\ cancel' \in 0 .. MaxRuns
    BY <1>1, <1>2, MaxRunsType
  <2>2. stopped' \in BOOLEAN /\ loading' \in BOOLEAN
    BY <1>1, Zenon
  <2>3. /\ held' \in [Actors -> 0 .. MaxRuns]
        /\ pc' \in [Actors -> {"idle", "begun", "notifyBegun", "spawn", "load",
                    "finished", "notifyFinished", "notifyStopped", "done"}]
    BY <1>1, <1>2 DEF IInv, TypeOK
  <2> QED BY <1>1, <2>1, <2>2, <2>3 DEF IInv, TypeOK, observer
<1>4. Latest' = Latest
  BY <1>1, <1>2 DEF Latest
<1>5. StoredWhileLoading' /\ UnfinishedLoads'
  BY <1>1, <1>2 DEF StoredWhileLoading, UnfinishedLoads
<1>6. LatestWins'
  BY <1>1, <1>4 DEF IInv, LatestWins
<1>7. BegunUpToLatest'
  BY <1>1, <1>2, <1>4 DEF IInv, BegunUpToLatest
<1>8. held[Stopper] = 0
  BY <1>1, <1>2, NotHolding
<1>9. HeldBriefly' /\ CancelledBegun' /\ CancelOwned' /\ InFlightNotCancelled'
  BY <1>1, <1>2, <1>8, EndIInv
<1> QED BY <1>3, <1>5, <1>6, <1>7, <1>9 DEF IInv

LEMMA NextIInv ==
  ASSUME IInv, [Next]_vars
  PROVE  IInv'
<1> USE DEF Actors
<1>1. ASSUME NEW r \in Runs, BeginLoad(r)
      PROVE  IInv'
  BY <1>1, BeginIInv
<1>2. ASSUME NEW r \in Runs, CancelOld(r) \/ CancelFinished(r)
      PROVE  IInv'
  BY <1>2, CancelIInv DEF CancelOld, CancelFinished
<1>3. ASSUME NEW r \in Runs, NotifyBegun(r) \/ NotifyFinished(r)
      PROVE  IInv'
  <2>1. queued' \in BOOLEAN
    BY <1>3 DEF NotifyBegun, NotifyFinished, Notify, IInv, TypeOK
  <2> QED BY <1>3, <2>1, MoveIInv DEF NotifyBegun, NotifyFinished, Notify
<1>4. ASSUME NEW r \in Runs, Spawn(r) \/ FinishStale(r)
      PROVE  IInv'
  <2>1. queued' \in BOOLEAN
    BY <1>4 DEF Spawn, FinishStale, observer, IInv, TypeOK
  <2> QED BY <1>4, <2>1, MoveIInv DEF Spawn, FinishStale, observer
<1>5. ASSUME NEW r \in Runs, NEW failed \in BOOLEAN, FinishLoad(r, failed)
      PROVE  IInv'
  BY <1>5, FinishIInv
<1>6. ASSUME Stop
      PROVE  IInv'
  BY <1>6, StopIInv
<1>7. ASSUME CancelStopped
      PROVE  IInv'
  BY <1>7, CancelIInv DEF CancelStopped
<1>8. ASSUME NotifyStopped
      PROVE  IInv'
  <2>1. queued' \in BOOLEAN
    BY <1>8 DEF NotifyStopped, Notify, IInv, TypeOK
  <2> QED BY <1>8, <2>1, MoveIInv DEF NotifyStopped, Notify
<1>9. ASSUME Observe
      PROVE  IInv'
  BY <1>9, ObserverIInv
<1>10. CASE UNCHANGED vars
  <2>1. TypeOK'
    BY <1>10 DEF IInv, TypeOK, vars, fields, goroutines, observer
  <2>2. /\ StoredWhileLoading' /\ BegunUpToLatest' /\ UnfinishedLoads'
        /\ HeldBriefly' /\ LatestWins' /\ CancelOwned' /\ InFlightNotCancelled'
        /\ CancelledBegun'
    BY <1>10 DEF IInv, StoredWhileLoading, BegunUpToLatest, UnfinishedLoads, Latest,
                 HeldBriefly, LatestWins, CancelOwned, InFlightNotCancelled,
                 CancelledBegun, vars, fields, goroutines
  <2> QED BY <2>1, <2>2 DEF IInv
<1> QED
  BY <1>1, <1>2, <1>3, <1>4, <1>5, <1>6, <1>7, <1>8, <1>9, <1>10
  DEF Next, RunStep, StopStep

LEMMA Inductive == Spec => []IInv
<1>1. IInv /\ [Next]_vars => IInv'
  BY NextIInv
<1> QED BY InitIInv, <1>1, PTL DEF Spec

\* Every variable keeps its type.
THEOREM TypeCorrect == Spec => []TypeOK
<1>1. IInv => TypeOK
  BY DEF IInv
<1> QED BY <1>1, Inductive, PTL

\* What is on display is the result of the latest run, or that it is loading.
THEOREM LatestWinsCorrect == Spec => []LatestWins
<1>1. IInv => LatestWins
  BY DEF IInv
<1> QED BY <1>1, Inductive, PTL

\* Every context that is not cancelled has exactly one owner of its CancelFunc.
THEOREM CancelOwnedCorrect == Spec => []CancelOwned
<1>1. IInv => CancelOwned
  BY DEF IInv
<1> QED BY <1>1, Inductive, PTL

\* The load in flight is never cancelled.
THEOREM InFlightCorrect == Spec => []InFlightNotCancelled
<1>1. IInv => InFlightNotCancelled
  BY DEF IInv
<1> QED BY <1>1, Inductive, PTL

-----------------------------------------------------------------------------
(* The refinement of AsyncValue. *)

\* Steps that change nothing of what the abstract state is made from.
LEMMA Stutters ==
  ASSUME UNCHANGED <<value, hasValue, err, loading, stopped, runID>>
  PROVE  UNCHANGED Abstract!vars
BY DEF Abstract!vars, Latest

LEMMA StepRefines ==
  ASSUME IInv, [Next]_vars
  PROVE  [Abstract!Next]_(Abstract!vars)
<1>1. ASSUME NEW r \in Runs, BeginLoad(r)
      PROVE  Abstract!Request
  <2>1. /\ ~stopped /\ stopped' = stopped /\ r = runID + 1
        /\ runID' = r /\ loading' = TRUE
    BY <1>1 DEF BeginLoad
  <2>2. runID < MaxRuns /\ runID \in Int
    BY <2>1, MaxRunsType DEF IInv, TypeOK, Runs
  <2>3. Latest = runID /\ Latest' = runID + 1
    BY <2>1 DEF Latest
  <2> QED BY <2>1, <2>2, <2>3 DEF Abstract!Request
<1>2. ASSUME NEW r \in Runs, NEW failed \in BOOLEAN, FinishLoad(r, failed)
      PROVE  \E kind \in {"value", "error"} : Abstract!Answer(kind)
  <2>1. /\ ~stopped /\ stopped' = stopped /\ runID = r /\ runID' = r
        /\ pc[r] = "load" /\ loading' = FALSE
        /\ err' = (IF failed THEN r ELSE 0)
        /\ value' = (IF failed THEN 0 ELSE r)
        /\ hasValue' = ~failed
    BY <1>2 DEF FinishLoad, Goto
  <2>2. loading /\ r # 0
    BY <2>1 DEF IInv, UnfinishedLoads, Runs
  <2>3. Latest = r /\ Latest' = r
    BY <2>1 DEF Latest
  <2>4. ~loading' /\ hasValue' = ~failed
    BY <2>1
  <2>5. CASE failed
    <3>1. Abstract!Answer("error")
      BY <2>1, <2>2, <2>3, <2>5 DEF Abstract!Answer
    <3> QED BY <3>1
  <2>6. CASE ~failed
    <3>1. Abstract!Answer("value")
      BY <2>1, <2>2, <2>3, <2>6 DEF Abstract!Answer
    <3> QED BY <3>1
  <2> QED BY <2>5, <2>6
<1>3. ASSUME Stop
      PROVE  Abstract!Close
  <2>1. /\ ~stopped /\ stopped' = TRUE /\ runID' = runID + 1 /\ loading' = FALSE
        /\ UNCHANGED <<value, hasValue, err>>
    BY <1>3 DEF Stop
  <2>2. Latest' = Latest
    BY <2>1 DEF IInv, TypeOK, Latest
  <2>3. loading => ~hasValue /\ err = 0
    BY DEF IInv, LatestWins
  <2> QED BY <2>1, <2>2, <2>3 DEF Abstract!Close, Abstract!Nothing
<1>4. ASSUME NEW r \in Runs,
             \/ CancelOld(r) \/ NotifyBegun(r) \/ Spawn(r) \/ FinishStale(r)
             \/ CancelFinished(r) \/ NotifyFinished(r)
      PROVE  UNCHANGED Abstract!vars
  BY <1>4, Stutters
  DEF CancelOld, NotifyBegun, Spawn, FinishStale, CancelFinished, NotifyFinished,
      Cancel, Notify, fields
<1>5. ASSUME StopStep \/ Observe
      PROVE  UNCHANGED Abstract!vars
  BY <1>5, Stutters
  DEF StopStep, CancelStopped, NotifyStopped, Cancel, Notify, Observe, ObserverRun,
      Value, Error, Loading, fields
<1>6. CASE UNCHANGED vars
  BY <1>6, Stutters DEF vars, fields
<1> QED
  BY <1>1, <1>2, <1>3, <1>4, <1>5, <1>6 DEF Next, RunStep, Abstract!Next

\* The resource implements AsyncValue: every step is one of its steps or leaves
\* what is shown alone.
THEOREM Refinement == Spec => ImplementsAsyncValue
<1>1. Init => Abstract!Init
  BY DEF Init, Abstract!Init, Abstract!Nothing, Latest
<1>2. IInv /\ [Next]_vars => [Abstract!Next]_(Abstract!vars)
  BY StepRefines
<1> QED BY <1>1, <1>2, Inductive, PTL DEF Spec, ImplementsAsyncValue, Abstract!Spec
-----------------------------------------------------------------------------
(* What the component has read. *)

(***************************************************************************)
(* SettledView speaks of quiet moments only.  What holds at every moment   *)
(* is that a field the effect has read and that differs from the resource  *)
(* will be read again: the effect is queued, a goroutine that changed the  *)
(* resource has still to notify, or the effect is running and has not got  *)
(* to that getter.  That a notify finds the effect subscribed, unless it   *)
(* has everything still to read, is the other half.                        *)
(***************************************************************************)
Notifying ==
  \E a \in Actors :
    pc[a] \in {"begun", "notifyBegun", "finished", "notifyFinished", "notifyStopped"}

\* The getters before which the effect still is, from the one named on.
RereadsValue == queued \/ Notifying \/ reading = "value"
RereadsError == RereadsValue \/ reading = "error"
RereadsLoading == RereadsError \/ reading = "loading"

ViewInv ==
  /\ (view.value = value /\ view.hasValue = hasValue) \/ RereadsValue
  /\ view.err = err \/ RereadsError
  /\ view.loading = loading \/ RereadsLoading
  /\ subscribed \/ queued \/ reading = "value"

LEMMA ViewInit ==
  ASSUME Init
  PROVE  ViewInv
BY DEF Init, ViewInv, RereadsValue, RereadsError, RereadsLoading

\* A step of goroutine a that leaves it with a notify to do.
LEMMA BeforeNotify ==
  ASSUME IInv, ViewInv, NEW a \in Actors, NEW to,
         to \in {"begun", "notifyBegun", "finished", "notifyFinished", "notifyStopped"},
         pc' = [pc EXCEPT ![a] = to],
         UNCHANGED observer
  PROVE  ViewInv'
<1>1. pc'[a] = to
  BY DEF IInv, TypeOK
<1>2. Notifying'
  BY <1>1 DEF Notifying
<1> QED
  BY <1>2 DEF ViewInv, RereadsValue, RereadsError, RereadsLoading, observer

\* A step of goroutine a after its notify, or before there is one to do.
LEMMA AwayFromNotify ==
  ASSUME IInv, ViewInv, NEW a \in Actors, NEW to,
         pc[a] \in {"spawn", "load"}, pc' = [pc EXCEPT ![a] = to],
         UNCHANGED <<fields, observer>>
  PROVE  ViewInv'
<1>1. Notifying => Notifying'
  <2> SUFFICES ASSUME Notifying PROVE Notifying'
    OBVIOUS
  <2>1. PICK b \in Actors : pc[b] \in {"begun", "notifyBegun", "finished",
                                      "notifyFinished", "notifyStopped"}
    BY DEF Notifying
  <2>2. b # a /\ pc'[b] = pc[b]
    BY <2>1 DEF IInv, TypeOK
  <2> QED BY <2>1, <2>2 DEF Notifying
<1> QED
  BY <1>1 DEF ViewInv, RereadsValue, RereadsError, RereadsLoading, fields, observer

\* dep.notify: a subscribed effect is queued, any other has all to read.
LEMMA NotifyKeepsView ==
  ASSUME IInv, ViewInv, NEW a \in Actors, NEW from, NEW to, Notify(a, from, to)
  PROVE  ViewInv'
<1>1. /\ queued' = (queued \/ subscribed)
      /\ UNCHANGED <<fields, subscribed, reading, view>>
  BY DEF Notify
<1>2. RereadsValue'
  BY <1>1 DEF ViewInv, RereadsValue
<1>3. (subscribed \/ queued \/ reading = "value")'
  BY <1>1 DEF ViewInv
<1> QED BY <1>2, <1>3 DEF ViewInv, RereadsError, RereadsLoading

\* The effect itself: it is started, or calls one of the getters.
LEMMA ObserveKeepsView ==
  ASSUME IInv, ViewInv, Observe
  PROVE  ViewInv'
<1>1. UNCHANGED <<fields, goroutines>>
  BY DEF Observe, ObserverRun, Value, Error, Loading
<1>2. Notifying' <=> Notifying
  BY <1>1 DEF Notifying, goroutines
<1> USE DEF ViewInv, RereadsValue, RereadsError, RereadsLoading
<1>3. CASE ObserverRun
  BY <1>3 DEF ObserverRun
<1>4. CASE Value
  BY <1>1, <1>2, <1>4 DEF Value, IInv, TypeOK, fields
<1>5. CASE Error
  BY <1>1, <1>2, <1>5 DEF Error, IInv, TypeOK, fields
<1>6. CASE Loading
  BY <1>1, <1>2, <1>6 DEF Loading, IInv, TypeOK, fields
<1> QED BY <1>3, <1>4, <1>5, <1>6 DEF Observe

LEMMA ViewNext ==
  ASSUME IInv, ViewInv, [Next]_vars
  PROVE  ViewInv'
<1> USE DEF Actors
<1>1. ASSUME NEW r \in Runs, BeginLoad(r)
      PROVE  ViewInv'
  BY <1>1, BeforeNotify DEF BeginLoad, Goto
<1>2. ASSUME NEW r \in Runs, CancelOld(r) \/ CancelFinished(r)
      PROVE  ViewInv'
  BY <1>2, BeforeNotify DEF CancelOld, CancelFinished, Cancel, Goto
<1>3. ASSUME NEW r \in Runs, NotifyBegun(r) \/ NotifyFinished(r)
      PROVE  ViewInv'
  BY <1>3, NotifyKeepsView DEF NotifyBegun, NotifyFinished
<1>4. ASSUME NEW r \in Runs, Spawn(r) \/ FinishStale(r)
      PROVE  ViewInv'
  BY <1>4, AwayFromNotify DEF Spawn, FinishStale, Goto
<1>5. ASSUME NEW r \in Runs, NEW failed \in BOOLEAN, FinishLoad(r, failed)
      PROVE  ViewInv'
  BY <1>5, BeforeNotify DEF FinishLoad, Goto
<1>6. ASSUME Stop \/ CancelStopped
      PROVE  ViewInv'
  BY <1>6, BeforeNotify DEF Stop, CancelStopped, Cancel, Goto
<1>7. ASSUME NotifyStopped
      PROVE  ViewInv'
  BY <1>7, NotifyKeepsView DEF NotifyStopped
<1>8. ASSUME Observe
      PROVE  ViewInv'
  BY <1>8, ObserveKeepsView
<1>9. CASE UNCHANGED vars
  BY <1>9 DEF ViewInv, RereadsValue, RereadsError, RereadsLoading, Notifying,
              vars, fields, goroutines, observer
<1> QED
  BY <1>1, <1>2, <1>3, <1>4, <1>5, <1>6, <1>7, <1>8, <1>9
  DEF Next, RunStep, StopStep

\* When nothing is under way, the component has last read what is there.
THEOREM SettledViewCorrect == Spec => []SettledView
<1>1. Init => ViewInv
  BY ViewInit
<1>2. IInv /\ ViewInv /\ [Next]_vars => ViewInv'
  BY ViewNext
<1>3. IInv /\ ViewInv => SettledView
  <2> SUFFICES ASSUME IInv, ViewInv, ~queued, reading = "none",
                      \A a \in Actors : pc[a] \in {"idle", "spawn", "load", "done"}
               PROVE  view = State
    BY DEF SettledView
  <2>1. ~Notifying
    BY DEF Notifying
  <2>2. /\ view.value = value /\ view.hasValue = hasValue
        /\ view.err = err /\ view.loading = loading
    BY <2>1 DEF ViewInv, RereadsValue, RereadsError, RereadsLoading
  <2> QED BY <2>2 DEF IInv, TypeOK, State
<1> QED BY <1>1, <1>2, <1>3, Inductive, PTL DEF Spec
===============================================================================
