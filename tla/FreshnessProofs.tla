---------------------------- MODULE FreshnessProofs ----------------------------
(***************************************************************************)
(* Theorems about what Reactivity promises to the program, for any number  *)
(* of states, computeds and watchers and any bounds: a batch defers, no    *)
(* update is lost, no outdated cache is handed out, nothing is redone for  *)
(* nothing and what is stopped stays stopped.                              *)
(***************************************************************************)
EXTENDS ReactivityProofs, FiniteSetTheorems

-----------------------------------------------------------------------------
(* Pushing and popping, by index. *)

LEMMA PushProperties ==
  ASSUME NEW S, NEW s \in Seq(S), NEW x \in S
  PROVE  /\ <<x>> \o s \in Seq(S)
         /\ Len(<<x>> \o s) = Len(s) + 1
         /\ (<<x>> \o s)[1] = x
         /\ \A i \in 1 .. Len(s) : (<<x>> \o s)[i + 1] = s[i]
         /\ \A i \in 2 .. Len(s) + 1 : (<<x>> \o s)[i] = s[i - 1]
<1>1. <<x>> \in Seq(S) /\ Len(<<x>>) = 1 /\ <<x>>[1] = x /\ Len(s) \in Nat
  OBVIOUS
<1>2. /\ <<x>> \o s \in Seq(S)
      /\ Len(<<x>> \o s) = Len(<<x>>) + Len(s)
      /\ \A i \in 1 .. Len(<<x>>) + Len(s) : (<<x>> \o s)[i] =
           IF i <= Len(<<x>>) THEN <<x>>[i] ELSE s[i - Len(<<x>>)]
  BY <1>1, ConcatProperties
<1>3. \A i \in 1 .. 1 + Len(s) : (<<x>> \o s)[i] = IF i <= 1 THEN x ELSE s[i - 1]
  BY <1>1, <1>2
<1>4. \A i \in 2 .. Len(s) + 1 : (<<x>> \o s)[i] = s[i - 1]
  BY <1>1, <1>3
<1>5. ASSUME NEW i \in 1 .. Len(s)
      PROVE  (<<x>> \o s)[i + 1] = s[i]
  <2>1. i + 1 \in 2 .. Len(s) + 1 /\ (i + 1) - 1 = i
    BY <1>1
  <2> QED BY <1>4, <2>1
<1> QED BY <1>1, <1>2, <1>3, <1>4, <1>5

LEMMA PopProperties ==
  ASSUME NEW S, NEW s \in Seq(S), s # <<>>
  PROVE  /\ Tail(s) \in Seq(S)
         /\ Len(Tail(s)) = Len(s) - 1 /\ Len(s) \in Nat \ {0}
         /\ Head(s) = s[1] /\ Head(s) \in S
         /\ \A i \in 1 .. Len(s) - 1 : Tail(s)[i] = s[i + 1]
         /\ \A i \in 2 .. Len(s) : s[i] = Tail(s)[i - 1]
BY HeadTailProperties

-----------------------------------------------------------------------------
(* The flag and the counter of the scheduler tell what is on the stack. *)

\* The levels of a stack, from the outermost in, at which a Batch is open.
BatchLevels(st) == {p \in 1 .. Len(st) : st[Len(st) + 1 - p].kind = "batch"}

(***************************************************************************)
(* On a stack with these values of flushing and batchDepth there is a      *)
(* flush exactly if the flag says so, and one only; the counter counts the *)
(* open batches; every batch is inside the flush; and a notify loop that   *)
(* has been interrupted, by a flush and what this runs, is outside every   *)
(* batch and flush.                                                        *)
(***************************************************************************)
FlagTells(st, isFlushing) ==
  /\ isFlushing <=> \E i \in DOMAIN st : st[i].kind = "flush"
  /\ \A i, j \in DOMAIN st : st[i].kind = "flush" /\ st[j].kind = "flush" => i = j

DepthTells(st, depth) == depth = Cardinality(BatchLevels(st))

BatchesInside(st) ==
  \A i, j \in DOMAIN st : st[i].kind = "flush" /\ st[j].kind = "batch" => j < i

InterruptedUnbatched(st) ==
  \A i, j \in DOMAIN st :
    i < j /\ st[j].kind = "notify" /\ st[i].kind # "notify" =>
      \A m \in j .. Len(st) : st[m].kind \notin {"batch", "flush"}

SchedulerTells(st, isFlushing, depth) ==
  /\ FlagTells(st, isFlushing) /\ DepthTells(st, depth)
  /\ BatchesInside(st) /\ InterruptedUnbatched(st)

LEMMA LevelsFinite ==
  ASSUME NEW S, NEW st \in Seq(S)
  PROVE  /\ IsFiniteSet(BatchLevels(st))
         /\ Cardinality(BatchLevels(st)) \in Nat
<1>1. IsFiniteSet(1 .. Len(st))
  BY FS_Interval
<1>2. BatchLevels(st) \subseteq 1 .. Len(st)
  BY DEF BatchLevels
<1> QED BY <1>1, <1>2, FS_Subset, FS_CardinalityType

LEMMA LevelsPushed ==
  ASSUME NEW S, NEW st \in Seq(S), NEW f \in S
  PROVE  /\ f.kind # "batch" => BatchLevels(<<f>> \o st) = BatchLevels(st)
         /\ f.kind = "batch" =>
              BatchLevels(<<f>> \o st) = BatchLevels(st) \cup {Len(st) + 1}
         /\ Len(st) + 1 \notin BatchLevels(st)
<1> DEFINE up == <<f>> \o st
<1>1. /\ Len(up) = Len(st) + 1 /\ up[1] = f /\ Len(st) \in Nat
      /\ \A i \in 2 .. Len(st) + 1 : up[i] = st[i - 1]
  BY PushProperties
<1> HIDE DEF up
<1>2. ASSUME NEW p \in 1 .. Len(st)
      PROVE  up[Len(up) + 1 - p] = st[Len(st) + 1 - p]
  <2>1. Len(up) + 1 - p \in 2 .. Len(st) + 1
    BY <1>1
  <2>2. (Len(up) + 1 - p) - 1 = Len(st) + 1 - p
    BY <1>1
  <2> QED BY <1>1, <2>1, <2>2
<1>3. up[Len(up) + 1 - (Len(st) + 1)] = f
  <2>1. Len(up) + 1 - (Len(st) + 1) = 1
    BY <1>1
  <2> QED BY <1>1, <2>1
<1>4. 1 .. Len(up) = 1 .. Len(st) \cup {Len(st) + 1}
  BY <1>1
<1>5. /\ f.kind # "batch" => BatchLevels(up) = BatchLevels(st)
      /\ f.kind = "batch" => BatchLevels(up) = BatchLevels(st) \cup {Len(st) + 1}
  BY <1>2, <1>3, <1>4 DEF BatchLevels
<1>6. Len(st) + 1 \notin BatchLevels(st)
  BY <1>1 DEF BatchLevels
<1> QED BY <1>5, <1>6 DEF up

\* A stack is its top on the rest.
LEMMA PushPop ==
  ASSUME NEW S, NEW s \in Seq(S), s # <<>>
  PROVE  s = <<Head(s)>> \o Tail(s)
<1>1. /\ Tail(s) \in Seq(S) /\ Len(Tail(s)) = Len(s) - 1 /\ Len(s) \in Nat \ {0}
      /\ Head(s) = s[1] /\ Head(s) \in S
      /\ \A i \in 2 .. Len(s) : s[i] = Tail(s)[i - 1]
  BY PopProperties
<1> DEFINE t == Tail(s)
           x == Head(s)
           u == <<x>> \o t
<1>2. /\ u \in Seq(S) /\ Len(u) = Len(t) + 1 /\ u[1] = x
      /\ \A i \in 2 .. Len(t) + 1 : u[i] = t[i - 1]
  BY <1>1, PushProperties
<1> HIDE DEF t, x, u
<1>3. \A i \in 1 .. Len(s) : s[i] = u[i]
  <2> TAKE i \in 1 .. Len(s)
  <2>1. CASE i = 1
    BY <1>1, <1>2, <2>1 DEF x
  <2>2. CASE i # 1
    BY <1>1, <1>2, <2>2 DEF t
  <2> QED BY <2>1, <2>2
<1>4. Len(s) = Len(u)
  BY <1>1, <1>2 DEF t
<1>5. s = u
  BY <1>2, <1>3, <1>4, SeqEqual
<1> QED BY <1>5 DEF u, t, x

\* Anything but a flush is pushed where user code runs, or a notify loop inside
\* another.
LEMMA SchedulerPush ==
  ASSUME NEW S, NEW st \in Seq(S), NEW f \in S,
         NEW isFlushing \in BOOLEAN, NEW depth \in Int,
         SchedulerTells(st, isFlushing, depth), f.kind # "flush",
         f.kind = "notify" \/ st = <<>> \/ Head(st).kind # "notify"
  PROVE  SchedulerTells(<<f>> \o st, isFlushing,
                        IF f.kind = "batch" THEN depth + 1 ELSE depth)
<1> DEFINE up == <<f>> \o st
<1>1. /\ Len(up) = Len(st) + 1 /\ up[1] = f /\ Len(st) \in Nat /\ up \in Seq(S)
      /\ \A i \in 2 .. Len(st) + 1 : up[i] = st[i - 1]
      /\ \A i \in 1 .. Len(st) : up[i + 1] = st[i]
  BY PushProperties
<1>2. DOMAIN up = 1 .. Len(up) /\ DOMAIN st = 1 .. Len(st)
  BY <1>1
<1>3. /\ f.kind # "batch" => BatchLevels(up) = BatchLevels(st)
      /\ f.kind = "batch" => BatchLevels(up) = BatchLevels(st) \cup {Len(st) + 1}
      /\ Len(st) + 1 \notin BatchLevels(st)
  BY LevelsPushed
<1> HIDE DEF up
<1>4. DepthTells(up, IF f.kind = "batch" THEN depth + 1 ELSE depth)
  BY <1>3, LevelsFinite, FS_AddElement DEF SchedulerTells, DepthTells
<1>5. FlagTells(up, isFlushing)
  <2>1. ASSUME NEW i \in DOMAIN up, up[i].kind = "flush"
        PROVE  i - 1 \in DOMAIN st /\ st[i - 1].kind = "flush"
    BY <1>1, <1>2, <2>1
  <2>2. ASSUME NEW i \in DOMAIN st, st[i].kind = "flush"
        PROVE  i + 1 \in DOMAIN up /\ up[i + 1].kind = "flush"
    BY <1>1, <1>2, <2>2
  <2>3. \A i, j \in DOMAIN up : up[i].kind = "flush" /\ up[j].kind = "flush" => i = j
    BY <1>1, <1>2, <2>1 DEF SchedulerTells, FlagTells
  <2>4. isFlushing <=> \E i \in DOMAIN up : up[i].kind = "flush"
    BY <2>1, <2>2 DEF SchedulerTells, FlagTells
  <2> QED BY <2>3, <2>4 DEF FlagTells
<1>6. BatchesInside(up)
  <2> SUFFICES ASSUME NEW i \in DOMAIN up, NEW j \in DOMAIN up,
                      up[i].kind = "flush", up[j].kind = "batch"
               PROVE  j < i
    BY DEF BatchesInside
  <2>1. i - 1 \in DOMAIN st /\ st[i - 1].kind = "flush"
    BY <1>1, <1>2
  <2>2. CASE j = 1
    BY <1>2, <2>1, <2>2
  <2>3. CASE j # 1
    <3>1. j - 1 \in DOMAIN st /\ st[j - 1].kind = "batch"
      BY <1>1, <1>2, <2>3
    <3>2. j - 1 < i - 1
      BY <2>1, <3>1 DEF SchedulerTells, BatchesInside
    <3> QED BY <1>2, <3>2
  <2> QED BY <2>2, <2>3
<1>7. InterruptedUnbatched(up)
  <2> SUFFICES ASSUME NEW i \in DOMAIN up, NEW j \in DOMAIN up,
                      i < j, up[j].kind = "notify", up[i].kind # "notify",
                      NEW m \in j .. Len(up)
               PROVE  up[m].kind \notin {"batch", "flush"}
    BY DEF InterruptedUnbatched
  <2>1. /\ j - 1 \in DOMAIN st /\ st[j - 1].kind = "notify"
        /\ m - 1 \in (j - 1) .. Len(st) /\ up[m] = st[m - 1]
    BY <1>1, <1>2
  <2>2. CASE i = 1
    <3>1. st # <<>> /\ 1 \in DOMAIN st /\ st[1].kind # "notify"
      BY <1>1, <1>2, <2>1, <2>2
    <3>2. 1 < j - 1
      BY <1>2, <2>1, <3>1
    <3> QED BY <2>1, <3>1, <3>2 DEF SchedulerTells, InterruptedUnbatched
  <2>3. CASE i # 1
    <3>1. i - 1 \in DOMAIN st /\ st[i - 1].kind # "notify" /\ i - 1 < j - 1
      BY <1>1, <1>2, <2>3
    <3> QED BY <2>1, <3>1 DEF SchedulerTells, InterruptedUnbatched
  <2> QED BY <2>2, <2>3
<1> QED BY <1>4, <1>5, <1>6, <1>7 DEF SchedulerTells, up

\* flushSubscribers starts a flush only outside every batch and flush.
LEMMA SchedulerPushFlush ==
  ASSUME NEW S, NEW st \in Seq(S), NEW f \in S,
         SchedulerTells(st, FALSE, 0), f.kind = "flush"
  PROVE  SchedulerTells(<<f>> \o st, TRUE, 0)
<1> DEFINE up == <<f>> \o st
<1>1. /\ Len(up) = Len(st) + 1 /\ up[1] = f /\ Len(st) \in Nat /\ up \in Seq(S)
      /\ \A i \in 2 .. Len(st) + 1 : up[i] = st[i - 1]
  BY PushProperties
<1>2. DOMAIN up = 1 .. Len(up) /\ DOMAIN st = 1 .. Len(st)
  BY <1>1
<1>3. BatchLevels(up) = BatchLevels(st)
  BY LevelsPushed
<1> HIDE DEF up
<1>4. \A i \in DOMAIN st : st[i].kind # "flush"
  BY DEF SchedulerTells, FlagTells
<1>5. \A i \in DOMAIN st : st[i].kind # "batch"
  <2>1. BatchLevels(st) = {}
    BY LevelsFinite, FS_EmptySet DEF SchedulerTells, DepthTells
  <2>2. ASSUME NEW i \in DOMAIN st, st[i].kind = "batch"
        PROVE  FALSE
    <3>1. /\ Len(st) + 1 - i \in 1 .. Len(st)
          /\ Len(st) + 1 - (Len(st) + 1 - i) = i
      BY <1>1, <1>2
    <3> QED BY <2>1, <2>2, <3>1 DEF BatchLevels
  <2> QED BY <2>2
<1>6. \A i \in DOMAIN up : i # 1 =>
        i - 1 \in DOMAIN st /\ up[i] = st[i - 1] /\ up[i].kind \notin {"batch", "flush"}
  BY <1>1, <1>2, <1>4, <1>5
<1>7. DepthTells(up, 0)
  BY <1>3 DEF SchedulerTells, DepthTells
<1>8. FlagTells(up, TRUE)
  BY <1>1, <1>2, <1>6 DEF FlagTells
<1>9. BatchesInside(up)
  BY <1>1, <1>6 DEF BatchesInside
<1>10. InterruptedUnbatched(up)
  <2> SUFFICES ASSUME NEW i \in DOMAIN up, NEW j \in DOMAIN up, i < j,
                      NEW m \in j .. Len(up)
               PROVE  up[m].kind \notin {"batch", "flush"}
    BY DEF InterruptedUnbatched
  <2>1. m \in DOMAIN up /\ m # 1
    BY <1>2
  <2> QED BY <1>6, <2>1
<1> QED BY <1>7, <1>8, <1>9, <1>10 DEF SchedulerTells, up

LEMMA SchedulerPop ==
  ASSUME NEW S, NEW st \in Seq(S), st # <<>>,
         NEW isFlushing \in BOOLEAN, NEW depth \in Int,
         SchedulerTells(st, isFlushing, depth)
  PROVE  /\ Head(st).kind \notin {"batch", "flush"} =>
              SchedulerTells(Tail(st), isFlushing, depth)
         /\ Head(st).kind = "batch" =>
              SchedulerTells(Tail(st), isFlushing, depth - 1)
         /\ Head(st).kind = "flush" => SchedulerTells(Tail(st), FALSE, depth)
<1> DEFINE t == Tail(st)
           f == Head(st)
<1>1. /\ t \in Seq(S) /\ Len(t) = Len(st) - 1 /\ Len(st) \in Nat \ {0}
      /\ f = st[1] /\ f \in S
      /\ \A i \in 1 .. Len(st) - 1 : t[i] = st[i + 1]
      /\ \A i \in 2 .. Len(st) : st[i] = t[i - 1]
  BY PopProperties
<1>2. DOMAIN t = 1 .. Len(t) /\ DOMAIN st = 1 .. Len(st)
  BY <1>1
<1>3. /\ f.kind # "batch" => BatchLevels(st) = BatchLevels(t)
      /\ f.kind = "batch" => BatchLevels(st) = BatchLevels(t) \cup {Len(t) + 1}
      /\ Len(t) + 1 \notin BatchLevels(t)
  <2>1. st = <<f>> \o t
    BY PushPop
  <2> HIDE DEF f, t
  <2> QED BY <1>1, <2>1, LevelsPushed
<1>4. Cardinality(BatchLevels(t)) \in Nat /\ IsFiniteSet(BatchLevels(t))
  BY <1>1, LevelsFinite
<1> HIDE DEF t, f
<1>5. DepthTells(t, IF f.kind = "batch" THEN depth - 1 ELSE depth)
  <2>1. depth = Cardinality(BatchLevels(st))
    BY DEF SchedulerTells, DepthTells
  <2>2. Cardinality(BatchLevels(t) \cup {Len(t) + 1}) = Cardinality(BatchLevels(t)) + 1
    BY <1>3, <1>4, FS_AddElement
  <2>3. CASE f.kind = "batch"
    <3>1. depth = Cardinality(BatchLevels(t)) + 1
      BY <1>3, <2>1, <2>2, <2>3
    <3>2. Cardinality(BatchLevels(t)) = depth - 1
      BY <1>4, <3>1
    <3> QED BY <2>3, <3>2 DEF DepthTells
  <2>4. CASE f.kind # "batch"
    BY <1>3, <2>1, <2>4 DEF DepthTells
  <2> QED BY <2>3, <2>4
<1>6. ASSUME NEW i \in DOMAIN t
      PROVE  i + 1 \in DOMAIN st /\ t[i] = st[i + 1]
  BY <1>1, <1>2
<1>7. \A i, j \in DOMAIN t : t[i].kind = "flush" /\ t[j].kind = "flush" => i = j
  <2>1. \A i, j \in DOMAIN st : st[i].kind = "flush" /\ st[j].kind = "flush" => i = j
    BY DEF SchedulerTells, FlagTells
  <2>2. \A i, j \in DOMAIN t : i + 1 = j + 1 => i = j
    BY <1>1, <1>2
  <2> QED BY <1>6, <2>1, <2>2
<1>8. ASSUME f.kind = "flush"
      PROVE  FlagTells(t, FALSE)
  <2> SUFFICES ASSUME NEW i \in DOMAIN t, t[i].kind = "flush"
               PROVE  FALSE
    BY <1>7 DEF FlagTells
  <2>1. i + 1 \in DOMAIN st /\ st[i + 1].kind = "flush" /\ 1 \in DOMAIN st
    BY <1>1, <1>2, <1>6
  <2>2. st[1].kind = "flush"
    BY <1>1, <1>8
  <2>3. i + 1 = 1
    BY <2>1, <2>2 DEF SchedulerTells, FlagTells
  <2> QED BY <1>2, <2>3
<1>9. ASSUME f.kind # "flush"
      PROVE  FlagTells(t, isFlushing)
  <2>1. ASSUME NEW i \in DOMAIN st, st[i].kind = "flush"
        PROVE  i - 1 \in DOMAIN t /\ t[i - 1].kind = "flush"
    BY <1>1, <1>2, <1>9, <2>1
  <2>2. isFlushing <=> \E i \in DOMAIN t : t[i].kind = "flush"
    BY <1>6, <2>1 DEF SchedulerTells, FlagTells
  <2> QED BY <1>7, <2>2 DEF FlagTells
<1>10. BatchesInside(t)
  <2> SUFFICES ASSUME NEW i \in DOMAIN t, NEW j \in DOMAIN t,
                      t[i].kind = "flush", t[j].kind = "batch"
               PROVE  j < i
    BY DEF BatchesInside
  <2>1. j + 1 < i + 1
    BY <1>6 DEF SchedulerTells, BatchesInside
  <2> QED BY <1>2, <2>1
<1>11. InterruptedUnbatched(t)
  <2> SUFFICES ASSUME NEW i \in DOMAIN t, NEW j \in DOMAIN t,
                      i < j, t[j].kind = "notify", t[i].kind # "notify",
                      NEW m \in j .. Len(t)
               PROVE  t[m].kind \notin {"batch", "flush"}
    BY DEF InterruptedUnbatched
  <2>1. /\ i + 1 \in DOMAIN st /\ t[i] = st[i + 1]
        /\ j + 1 \in DOMAIN st /\ t[j] = st[j + 1] /\ i + 1 < j + 1
        /\ m + 1 \in (j + 1) .. Len(st) /\ t[m] = st[m + 1]
    BY <1>1, <1>2
  <2> QED BY <2>1 DEF SchedulerTells, InterruptedUnbatched
<1>12. CASE f.kind = "batch"
  BY <1>5, <1>9, <1>10, <1>11, <1>12 DEF SchedulerTells, t, f
<1>13. CASE f.kind = "flush"
  BY <1>5, <1>8, <1>10, <1>11, <1>13 DEF SchedulerTells, t, f
<1>14. CASE f.kind \notin {"batch", "flush"}
  BY <1>5, <1>9, <1>10, <1>11, <1>14 DEF SchedulerTells, t, f
<1> QED BY <1>12, <1>13, <1>14 DEF f

\* Only the kinds of the frames matter.
LEMMA SchedulerSameKinds ==
  ASSUME NEW st \in Seq(Frames), NEW t \in Seq(Frames), Len(t) = Len(st),
         \A i \in 1 .. Len(st) : t[i].kind = st[i].kind,
         NEW isFlushing \in BOOLEAN, NEW depth \in Int,
         SchedulerTells(st, isFlushing, depth)
  PROVE  SchedulerTells(t, isFlushing, depth)
<1>1. DOMAIN t = 1 .. Len(st) /\ DOMAIN st = 1 .. Len(st) /\ Len(st) \in Nat
  OBVIOUS
<1>2. BatchLevels(t) = BatchLevels(st)
  <2>1. \A p \in 1 .. Len(st) : Len(st) + 1 - p \in 1 .. Len(st)
    BY <1>1
  <2> QED BY <2>1 DEF BatchLevels
<1>3. FlagTells(t, isFlushing) /\ BatchesInside(t)
  BY <1>1 DEF SchedulerTells, FlagTells, BatchesInside
<1>4. InterruptedUnbatched(t)
  <2> SUFFICES ASSUME NEW i \in DOMAIN t, NEW j \in DOMAIN t,
                      i < j, t[j].kind = "notify", t[i].kind # "notify",
                      NEW m \in j .. Len(t)
               PROVE  t[m].kind \notin {"batch", "flush"}
    BY DEF InterruptedUnbatched
  <2>1. m \in 1 .. Len(st) /\ m \in j .. Len(st)
    BY <1>1
  <2> QED BY <1>1, <2>1 DEF SchedulerTells, InterruptedUnbatched
<1> QED BY <1>2, <1>3, <1>4 DEF SchedulerTells, DepthTells

\* The notify loop on top gives up one of its subscribers.
LEMMA RestProperties ==
  ASSUME TypeOK, Running("notify"), NEW y \in Subscribers
  PROVE  /\ Rest(y) \in Seq(Frames) /\ Len(Rest(y)) = Len(stack)
         /\ \A i \in 1 .. Len(stack) : Rest(y)[i].kind = stack[i].kind
         /\ Rest(y)[1].todo = stack[1].todo \ {y}
         /\ \A i \in 2 .. Len(stack) : Rest(y)[i] = stack[i]
         /\ Rest(y) # <<>> /\ Head(Rest(y)).kind = "notify"
<1> DEFINE f == [Head(stack) EXCEPT !.todo = @ \ {y}]
           t == Tail(stack)
<1>1. stack \in Seq(Frames) /\ stack # <<>> /\ Head(stack).kind = "notify"
  BY DEF TypeOK, Running
<1>2. /\ t \in Seq(Frames) /\ Len(t) = Len(stack) - 1 /\ Len(stack) \in Nat \ {0}
      /\ Head(stack) = stack[1] /\ Head(stack) \in Frames
      /\ \A i \in 2 .. Len(stack) : stack[i] = t[i - 1]
  BY <1>1, PopProperties
<1>3. /\ f \in Frames /\ f.kind = Head(stack).kind
      /\ f.todo = Head(stack).todo \ {y}
  BY <1>2 DEF Frames
<1>4. Rest(y) = <<f>> \o t
  BY DEF Rest
<1> HIDE DEF f, t
<1>5. /\ <<f>> \o t \in Seq(Frames) /\ Len(<<f>> \o t) = Len(t) + 1
      /\ (<<f>> \o t)[1] = f
      /\ \A i \in 2 .. Len(t) + 1 : (<<f>> \o t)[i] = t[i - 1]
  BY <1>2, <1>3, PushProperties
<1>6. /\ Rest(y) \in Seq(Frames) /\ Len(Rest(y)) = Len(stack)
      /\ Rest(y)[1] = f /\ \A i \in 2 .. Len(stack) : Rest(y)[i] = stack[i]
  BY <1>2, <1>4, <1>5
<1>7. Rest(y) # <<>> /\ Head(Rest(y)) = f
  BY <1>2, <1>6
<1>8. \A i \in 1 .. Len(stack) : Rest(y)[i].kind = stack[i].kind
  <2> TAKE i \in 1 .. Len(stack)
  <2>1. CASE i = 1
    BY <1>2, <1>3, <1>6, <2>1
  <2>2. CASE i # 1
    BY <1>2, <1>6, <2>2
  <2> QED BY <2>1, <2>2
<1> QED BY <1>1, <1>2, <1>3, <1>6, <1>7, <1>8

-----------------------------------------------------------------------------

\* flushSubscribers, called with the frames `below' left on the stack.
LEMMA FlushSubscribersTells ==
  ASSUME NEW below \in Seq(Frames), flushing \in BOOLEAN,
         SchedulerTells(below, flushing, 0), flushSubscribers(below)
  PROVE  SchedulerTells(stack', flushing', 0)
<1>1. Frame("flush") \in Frames /\ Frame("flush").kind = "flush"
  BY DEF Frame, Frames, Kinds
<1>2. CASE flushing
  BY <1>2 DEF flushSubscribers, SchedulerTells, FlagTells
<1>3. CASE ~flushing
  <2>1. SchedulerTells(below, FALSE, 0)
    BY <1>3 DEF SchedulerTells, FlagTells
  <2>2. SchedulerTells(<<Frame("flush")>> \o below, TRUE, 0)
    BY <1>1, <2>1, SchedulerPushFlush
  <2>3. stack' = <<Frame("flush")>> \o below /\ flushing' = TRUE
    BY <1>3 DEF flushSubscribers
  <2> QED BY <2>2, <2>3
<1> QED BY <1>2, <1>3

SchedulerInv == SchedulerTells(stack, flushing, batchDepth)

LEMMA SchedulerNext ==
  ASSUME TypeOK, SchedulerInv, [Next]_vars
  PROVE  SchedulerInv'
<1> USE DEF SchedulerInv
<1>0. /\ stack \in Seq(Frames) /\ flushing \in BOOLEAN /\ batchDepth \in Int
      /\ UserCode => stack = <<>> \/ Head(stack).kind # "notify"
      /\ \A kind \in Kinds : Frame(kind) \in Frames /\ Frame(kind).kind = kind
  BY DEF TypeOK, UserCode, Running, Frame, Frames
<1>1. CASE UNCHANGED <<stack, flushing, batchDepth>>
  BY <1>1
<1>2. ASSUME NEW x \in Computeds, GetDirty(x)
      PROVE  SchedulerInv'
  <2>1. /\ stack' = <<Frame("compute")>> \o stack
        /\ flushing' = flushing /\ batchDepth' = batchDepth
        /\ stack = <<>> \/ Head(stack).kind # "notify"
    BY <1>0, <1>2 DEF GetDirty, Start, scheduler, Running
  <2> QED BY <1>0, <2>1, SchedulerPush DEF Kinds
<1>3. ASSUME NEW x \in States, Set(x)
      PROVE  SchedulerInv'
  <2>1. /\ stack' = <<NotifyFrame(x)>> \o stack
        /\ flushing' = flushing /\ batchDepth' = batchDepth
    BY <1>3 DEF Set, scheduler
  <2>2. NotifyFrame(x) \in Frames /\ NotifyFrame(x).kind = "notify"
    BY FrameTypes DEF NotifyFrame, Sources
  <2> QED BY <1>0, <2>1, <2>2, SchedulerPush
<1>4. ASSUME NEW w \in Watchers, Watch(w) \/ FlushRun(w)
      PROVE  SchedulerInv'
  <2>1. /\ stack' = <<Frame("run")>> \o stack
        /\ flushing' = flushing /\ batchDepth' = batchDepth
        /\ stack = <<>> \/ Head(stack).kind # "notify"
    BY <1>0, <1>4 DEF Watch, FlushRun, run, Start, scheduler, Running
  <2> QED BY <1>0, <2>1, SchedulerPush DEF Kinds
<1>5. ASSUME BatchBegin
      PROVE  SchedulerInv'
  <2>1. /\ stack' = <<Frame("batch")>> \o stack
        /\ flushing' = flushing /\ batchDepth' = batchDepth + 1
        /\ stack = <<>> \/ Head(stack).kind # "notify"
    BY <1>0, <1>5 DEF BatchBegin
  <2> QED BY <1>0, <2>1, SchedulerPush DEF Kinds
<1>6. ASSUME ComputeReturns \/ EffectReturns \/ NotifyDone
      PROVE  SchedulerInv'
  <2>1. /\ stack' = Tail(stack) /\ stack # <<>>
        /\ flushing' = flushing /\ batchDepth' = batchDepth
        /\ Head(stack).kind \notin {"batch", "flush"}
    BY <1>6 DEF ComputeReturns, EffectReturns, NotifyDone, Running, scheduler
  <2> QED BY <1>0, <2>1, SchedulerPop
<1>7. ASSUME FlushEnd
      PROVE  SchedulerInv'
  <2>1. /\ stack' = Tail(stack) /\ stack # <<>>
        /\ flushing' = FALSE /\ batchDepth' = batchDepth
        /\ Head(stack).kind = "flush"
    BY <1>7 DEF FlushEnd, Running
  <2> QED BY <1>0, <2>1, SchedulerPop
<1>8. ASSUME BatchEnd
      PROVE  SchedulerInv'
  <2>1. stack # <<>> /\ Head(stack).kind = "batch" /\ batchDepth' = batchDepth - 1
    BY <1>8 DEF BatchEnd, Running
  <2>2. SchedulerTells(Tail(stack), flushing, batchDepth - 1)
    BY <1>0, <2>1, SchedulerPop
  <2>3. CASE batchDepth = 1
    <3>1. flushSubscribers(Tail(stack)) /\ batchDepth' = 0
      BY <1>8, <2>1, <2>3 DEF BatchEnd
    <3>2. Tail(stack) \in Seq(Frames)
      BY <1>0, <2>1, HeadTailProperties
    <3>3. SchedulerTells(Tail(stack), flushing, 0)
      BY <2>2, <2>3
    <3> QED BY <1>0, <3>1, <3>2, <3>3, FlushSubscribersTells
  <2>4. CASE batchDepth # 1
    BY <1>8, <2>1, <2>2, <2>4 DEF BatchEnd
  <2> QED BY <2>3, <2>4
<1>9. ASSUME NEW y \in Subscribers, Running("notify")
      PROVE  /\ Rest(y) \in Seq(Frames) /\ Head(Rest(y)).kind = "notify"
             /\ SchedulerTells(Rest(y), flushing, batchDepth)
  BY <1>0, <1>9, RestProperties, SchedulerSameKinds
<1>10. ASSUME NEW x \in Computeds, InvalidateComputed(x)
       PROVE  SchedulerInv'
  <2>1. /\ stack' = IF dirty[x] THEN Rest(x) ELSE <<NotifyFrame(x)>> \o Rest(x)
        /\ flushing' = flushing /\ batchDepth' = batchDepth
        /\ Running("notify")
    BY <1>10 DEF InvalidateComputed, scheduler
  <2>2. NotifyFrame(x) \in Frames /\ NotifyFrame(x).kind = "notify"
    BY FrameTypes DEF NotifyFrame, Sources
  <2>3. /\ Rest(x) \in Seq(Frames)
        /\ SchedulerTells(Rest(x), flushing, batchDepth)
    BY <1>9, <2>1 DEF Subscribers
  <2>4. SchedulerTells(<<NotifyFrame(x)>> \o Rest(x), flushing, batchDepth)
    BY <1>0, <2>2, <2>3, SchedulerPush
  <2> QED BY <2>1, <2>3, <2>4
<1>11. ASSUME NEW w \in Watchers, QueueWatcher(w)
       PROVE  SchedulerInv'
  <2>1. /\ Rest(w) \in Seq(Frames)
        /\ SchedulerTells(Rest(w), flushing, batchDepth)
        /\ batchDepth' = batchDepth
    BY <1>9, <1>11 DEF QueueWatcher, Subscribers
  <2>2. CASE batchDepth = 0
    <3>1. flushSubscribers(Rest(w))
      BY <1>11, <2>2 DEF QueueWatcher
    <3>2. SchedulerTells(Rest(w), flushing, 0)
      BY <2>1, <2>2
    <3>3. SchedulerTells(stack', flushing', 0)
      BY <1>0, <2>1, <3>1, <3>2, FlushSubscribersTells
    <3> QED BY <2>1, <2>2, <3>3
  <2>3. CASE batchDepth # 0
    BY <1>11, <2>1, <2>3 DEF QueueWatcher
  <2> QED BY <2>2, <2>3
<1>12. ASSUME NEW w \in Watchers, SkipWatcher(w)
       PROVE  SchedulerInv'
  <2>1. /\ stack' = Rest(w) /\ flushing' = flushing /\ batchDepth' = batchDepth
        /\ Running("notify")
    BY <1>12 DEF SkipWatcher, scheduler
  <2> QED BY <1>9, <2>1 DEF Subscribers
<1>13. ASSUME NEW x \in States, GetState(x)
       PROVE  UNCHANGED <<stack, flushing, batchDepth>>
  BY <1>13 DEF GetState, scheduler, calls
<1>14. ASSUME NEW x \in Computeds, GetCached(x)
       PROVE  UNCHANGED <<stack, flushing, batchDepth>>
  BY <1>14 DEF GetCached, scheduler, calls
<1>15. ASSUME NEW w \in Watchers, Stop(w) \/ FlushSkip(w)
       PROVE  UNCHANGED <<stack, flushing, batchDepth>>
  BY <1>15 DEF Stop, FlushSkip, calls
<1>16. ASSUME FlushRound
       PROVE  UNCHANGED <<stack, flushing, batchDepth>>
  BY <1>16 DEF FlushRound, calls
<1>17. CASE UNCHANGED vars
  BY <1>1, <1>17 DEF vars, scheduler, calls
<1> QED
  BY <1>1, <1>2, <1>3, <1>4, <1>5, <1>6, <1>7, <1>8, <1>10, <1>11, <1>12, <1>13,
     <1>14, <1>15, <1>16, <1>17
  DEF Next, Library, Returns, Calls

LEMMA SchedulerInit ==
  ASSUME Init
  PROVE  SchedulerInv
<1>1. stack = <<>> /\ ~flushing /\ batchDepth = 0
  BY DEF Init
<1>2. BatchLevels(stack) = {}
  BY <1>1 DEF BatchLevels
<1> QED BY <1>1, <1>2, FS_EmptySet
     DEF SchedulerInv, SchedulerTells, FlagTells, DepthTells, BatchesInside,
         InterruptedUnbatched

\* While the function of a Batch has not returned no flush is started above it.
THEOREM BatchDefersFlushCorrect == Spec => []BatchDefersFlush
<1>1. Init => SchedulerInv
  BY SchedulerInit
<1>2. TypeOK /\ SchedulerInv /\ [Next]_vars => SchedulerInv'
  BY SchedulerNext
<1>3. SchedulerInv => BatchDefersFlush
  BY DEF SchedulerInv, SchedulerTells, BatchesInside, BatchDefersFlush
<1> QED BY <1>1, <1>2, <1>3, TypeCorrect, PTL DEF Spec

-----------------------------------------------------------------------------
(* What waits in the queue waits for a flush that is running or that the   *)
(* outermost Batch will start.                                             *)

QueueInCall ==
  /\ round # <<>> => flushing
  /\ pending # <<>> => flushing \/ batchDepth > 0

LEMMA QueueInCallNext ==
  ASSUME TypeOK, SchedulerInv, QueueInCall, [Next]_vars
  PROVE  QueueInCall'
<1>0. /\ stack \in Seq(Frames) /\ flushing \in BOOLEAN /\ batchDepth \in Int
      /\ pending \in Seq(Watchers) /\ round \in Seq(Watchers)
  BY DEF TypeOK
<1>1. CASE UNCHANGED <<pending, round, flushing, batchDepth>>
  BY <1>1 DEF QueueInCall
<1>2. ASSUME NEW w \in Watchers, Stop(w)
      PROVE  QueueInCall'
  <2>1. UNCHANGED <<round, flushing, batchDepth>> /\ pending' = removeQueuedSubscriber(w)
    BY <1>2 DEF Stop
  <2>2. pending = <<>> => pending' = pending
    BY <2>1 DEF removeQueuedSubscriber
  <2> QED BY <2>1, <2>2 DEF QueueInCall
<1>3. ASSUME BatchBegin
      PROVE  QueueInCall'
  BY <1>0, <1>3 DEF BatchBegin, QueueInCall
<1>4. ASSUME BatchEnd
      PROVE  QueueInCall'
  <2>1. /\ stack # <<>> /\ Head(stack).kind = "batch" /\ batchDepth' = batchDepth - 1
        /\ UNCHANGED <<pending, round>>
    BY <1>4 DEF BatchEnd, Running
  <2>2. CASE batchDepth = 1
    <3>1. flushing' = TRUE
      BY <1>4, <2>2 DEF BatchEnd, flushSubscribers
    <3> QED BY <3>1 DEF QueueInCall
  <2>3. CASE batchDepth # 1
    <3>1. flushing' = flushing
      BY <1>4, <2>3 DEF BatchEnd
    <3>2. SchedulerTells(Tail(stack), flushing, batchDepth - 1)
      BY <1>0, <2>1, SchedulerPop DEF SchedulerInv
    <3>3. Tail(stack) \in Seq(Frames)
      BY <1>0, <2>1, HeadTailProperties
    <3>4. batchDepth - 1 \in Nat
      BY <3>2, <3>3, LevelsFinite DEF SchedulerTells, DepthTells
    <3>5. batchDepth' > 0
      BY <1>0, <2>1, <2>3, <3>4
    <3> QED BY <2>1, <3>1, <3>5 DEF QueueInCall
  <2> QED BY <2>2, <2>3
<1>5. ASSUME NEW w \in Watchers, QueueWatcher(w)
      PROVE  QueueInCall'
  <2>1. UNCHANGED <<round, batchDepth>>
    BY <1>5 DEF QueueWatcher
  <2>2. CASE batchDepth = 0
    <3>1. flushing' = TRUE
      BY <1>5, <2>2 DEF QueueWatcher, flushSubscribers
    <3> QED BY <3>1 DEF QueueInCall
  <2>3. CASE batchDepth # 0
    <3>1. flushing' = flushing
      BY <1>5, <2>3 DEF QueueWatcher
    <3>2. batchDepth \in Nat
      BY <1>0, LevelsFinite DEF SchedulerInv, SchedulerTells, DepthTells
    <3> QED BY <2>1, <2>3, <3>1, <3>2 DEF QueueInCall
  <2> QED BY <2>2, <2>3
<1>6. ASSUME FlushRound
      PROVE  QueueInCall'
  <2>1. 1 \in DOMAIN stack /\ stack[1].kind = "flush" /\ flushing' = flushing
    BY <1>0, <1>6 DEF FlushRound, Running
  <2>2. flushing
    BY <2>1 DEF SchedulerInv, SchedulerTells, FlagTells
  <2> QED BY <1>6, <2>1, <2>2 DEF QueueInCall
<1>7. ASSUME NEW w \in Watchers, FlushRun(w) \/ FlushSkip(w)
      PROVE  QueueInCall'
  BY <1>7 DEF FlushRun, FlushSkip, QueueInCall
<1>8. ASSUME FlushEnd
      PROVE  QueueInCall'
  BY <1>8 DEF FlushEnd, QueueInCall
<1>9. ASSUME NEW x \in States, GetState(x) \/ Set(x)
      PROVE  UNCHANGED <<pending, round, flushing, batchDepth>>
  BY <1>9 DEF GetState, Set, scheduler
<1>10. ASSUME NEW x \in Computeds,
              GetCached(x) \/ GetDirty(x) \/ InvalidateComputed(x)
       PROVE  UNCHANGED <<pending, round, flushing, batchDepth>>
  BY <1>10 DEF GetCached, GetDirty, InvalidateComputed, scheduler
<1>11. ASSUME NEW w \in Watchers, Watch(w) \/ SkipWatcher(w)
       PROVE  UNCHANGED <<pending, round, flushing, batchDepth>>
  BY <1>11 DEF Watch, SkipWatcher, scheduler
<1>12. ASSUME ComputeReturns \/ EffectReturns \/ NotifyDone
       PROVE  UNCHANGED <<pending, round, flushing, batchDepth>>
  BY <1>12 DEF ComputeReturns, EffectReturns, NotifyDone, scheduler
<1>13. CASE UNCHANGED vars
  BY <1>1, <1>13 DEF vars, scheduler
<1> QED
  BY <1>1, <1>2, <1>3, <1>4, <1>5, <1>6, <1>7, <1>8, <1>9, <1>10, <1>11, <1>12,
     <1>13
  DEF Next, Library, Returns, Calls

-----------------------------------------------------------------------------
(* Computeds that are being computed. *)

(***************************************************************************)
(* As long as no reading was overtaken, a computed that is being computed  *)
(* is so once, is still dirty, and was tracked by the subscriber that      *)
(* asked for it, unless this has been stopped meanwhile.                   *)
(***************************************************************************)
ComputedOnce ==
  \A i \in DOMAIN subscriberStack : subscriberStack[i] \in Computeds =>
    /\ dirty[subscriberStack[i]]
    /\ \A j \in DOMAIN subscriberStack :
         subscriberStack[j] = subscriberStack[i] => j = i

Stopped(y) == y \in Watchers /\ phase[y] = "stopped"

CallersTrack ==
  \A i \in DOMAIN subscriberStack :
    subscriberStack[i] \in Computeds /\ i + 1 \in DOMAIN subscriberStack =>
      \/ Stopped(subscriberStack[i + 1])
      \/ subscriberStack[i] \in deps[subscriberStack[i + 1]]

ComputeInv == ComputedOnce /\ CallersTrack

\* The stack of subscribers after a push and after a pop.
LEMMA SubscribersPushed ==
  ASSUME TypeOK, NEW x \in Subscribers, NEW ss, ss = <<x>> \o subscriberStack
  PROVE  /\ ss[1] = x /\ 1 \in DOMAIN ss
         /\ \A i \in DOMAIN subscriberStack :
              /\ i \in Nat \ {0} /\ i + 1 \in DOMAIN ss
              /\ ss[i + 1] = subscriberStack[i]
         /\ \A i \in DOMAIN ss :
              /\ i \in Nat \ {0}
              /\ i # 1 => /\ i - 1 \in DOMAIN subscriberStack
                          /\ ss[i] = subscriberStack[i - 1]
<1>1. subscriberStack \in Seq(Subscribers)
  BY DEF TypeOK
<1> QED BY <1>1, PushProperties

LEMMA SubscribersPopped ==
  ASSUME TypeOK, subscriberStack # <<>>, NEW ss, ss = Tail(subscriberStack)
  PROVE  /\ subscriberStack[1] = Head(subscriberStack) /\ 1 \in DOMAIN subscriberStack
         /\ \A i \in DOMAIN ss :
              /\ i \in Nat \ {0} /\ i + 1 \in DOMAIN subscriberStack
              /\ ss[i] = subscriberStack[i + 1]
<1>1. subscriberStack \in Seq(Subscribers)
  BY DEF TypeOK
<1> QED BY <1>1, PopProperties

\* A step that leaves the subscribers on the stack alone.
LEMMA ComputeKept ==
  ASSUME TypeOK, ComputeInv, UNCHANGED subscriberStack,
         \A c \in Computeds : dirty[c] => dirty'[c],
         \A w \in Watchers : phase[w] = "stopped" => phase'[w] = "stopped",
         \A z \in Subscribers : Stopped(z)' \/ deps[z] \subseteq deps'[z]
  PROVE  ComputeInv'
<1>1. \A i \in DOMAIN subscriberStack : subscriberStack[i] \in Subscribers
  BY DEF TypeOK
<1>2. ComputedOnce'
  BY DEF ComputeInv, ComputedOnce
<1>3. CallersTrack'
  <2> SUFFICES ASSUME NEW i \in DOMAIN subscriberStack,
                      subscriberStack[i] \in Computeds,
                      i + 1 \in DOMAIN subscriberStack,
                      ~Stopped(subscriberStack[i + 1])'
               PROVE  subscriberStack[i] \in deps'[subscriberStack[i + 1]]
    BY DEF CallersTrack
  <2>1. ~Stopped(subscriberStack[i + 1])
    BY DEF Stopped
  <2>2. subscriberStack[i] \in deps[subscriberStack[i + 1]]
    BY <2>1 DEF ComputeInv, CallersTrack
  <2> QED BY <1>1, <2>2
<1> QED BY <1>2, <1>3 DEF ComputeInv

\* The innermost subscriber returns.
LEMMA ComputePopped ==
  ASSUME TypeOK, ComputeInv, subscriberStack # <<>>,
         subscriberStack' = Tail(subscriberStack), UNCHANGED <<deps, phase>>,
         \A c \in Computeds : dirty[c] /\ c # Head(subscriberStack) => dirty'[c]
  PROVE  ComputeInv'
<1> DEFINE ss == subscriberStack'
<1>1. /\ subscriberStack[1] = Head(subscriberStack) /\ 1 \in DOMAIN subscriberStack
      /\ \A i \in DOMAIN ss :
           /\ i \in Nat \ {0} /\ i + 1 \in DOMAIN subscriberStack
           /\ ss[i] = subscriberStack[i + 1]
  BY SubscribersPopped
<1> HIDE DEF ss
<1>2. ASSUME NEW i \in DOMAIN ss, ss[i] \in Computeds
      PROVE  dirty'[ss[i]] /\ \A j \in DOMAIN ss : ss[j] = ss[i] => j = i
  <2>1. /\ i + 1 \in DOMAIN subscriberStack /\ ss[i] = subscriberStack[i + 1]
        /\ i \in Nat \ {0}
    BY <1>1
  <2>2. /\ dirty[ss[i]]
        /\ \A j \in DOMAIN subscriberStack : subscriberStack[j] = ss[i] => j = i + 1
    BY <1>2, <2>1 DEF ComputeInv, ComputedOnce
  <2>3. ss[i] # Head(subscriberStack)
    BY <1>1, <2>1, <2>2
  <2>4. ASSUME NEW j \in DOMAIN ss, ss[j] = ss[i]
        PROVE  j = i
    <3>1. j + 1 \in DOMAIN subscriberStack /\ subscriberStack[j + 1] = ss[i] /\ j \in Nat
      BY <1>1, <2>4
    <3>2. j + 1 = i + 1
      BY <2>2, <3>1
    <3> QED BY <2>1, <3>1, <3>2
  <2> QED BY <1>2, <2>2, <2>3, <2>4
<1>3. ComputedOnce'
  BY <1>2 DEF ComputedOnce, ss
<1>4. ASSUME NEW i \in DOMAIN ss, ss[i] \in Computeds, i + 1 \in DOMAIN ss
      PROVE  \/ ss[i + 1] \in Watchers /\ phase'[ss[i + 1]] = "stopped"
             \/ ss[i] \in deps'[ss[i + 1]]
  <2>1. /\ i + 1 \in DOMAIN subscriberStack /\ ss[i] = subscriberStack[i + 1]
        /\ (i + 1) + 1 \in DOMAIN subscriberStack
        /\ ss[i + 1] = subscriberStack[(i + 1) + 1]
    BY <1>1, <1>4
  <2>2. Stopped(ss[i + 1]) \/ ss[i] \in deps[ss[i + 1]]
    BY <1>4, <2>1 DEF ComputeInv, CallersTrack
  <2> QED BY <2>2 DEF Stopped, ss
<1>5. CallersTrack'
  BY <1>4 DEF CallersTrack, Stopped, ss
<1> QED BY <1>3, <1>5 DEF ComputeInv

\* A computed that is not being computed is computed anew.
LEMMA GetDirtyComputes ==
  ASSUME TypeOK, ComputeInv, NEW c \in Computeds, GetDirty(c), ~Executing(c)
  PROVE  ComputeInv'
<1> DEFINE y == currentSubscriber
           ss == subscriberStack'
<1>0. /\ subscriberStack \in Seq(Subscribers)
      /\ deps \in [Subscribers -> SUBSET Sources]
      /\ c \in Subscribers /\ c \in Sources
      /\ subscriberStack # <<>> => y = subscriberStack[1] /\ y \in Subscribers
  BY DEF TypeOK, Sources, Subscribers, currentSubscriber
<1>1. /\ subscriberStack' = <<c>> \o subscriberStack
      /\ dirty' = dirty /\ dirty[c] /\ phase' = phase
      /\ deps' = removeDependencies(addDependency(deps, c, y), c)
      /\ \A i \in DOMAIN subscriberStack : subscriberStack[i] # c
  BY DEF GetDirty, Start, Executing
<1>2. /\ ss[1] = c /\ 1 \in DOMAIN ss
      /\ \A i \in DOMAIN subscriberStack :
           /\ i \in Nat \ {0} /\ i + 1 \in DOMAIN ss
           /\ ss[i + 1] = subscriberStack[i]
      /\ \A i \in DOMAIN ss :
           /\ i \in Nat \ {0}
           /\ i # 1 => /\ i - 1 \in DOMAIN subscriberStack
                       /\ ss[i] = subscriberStack[i - 1]
  BY <1>0, <1>1, SubscribersPushed
<1> HIDE DEF ss
<1>3. ASSUME NEW i \in DOMAIN ss, ss[i] \in Computeds
      PROVE  dirty'[ss[i]] /\ \A j \in DOMAIN ss : ss[j] = ss[i] => j = i
  <2>1. CASE i = 1
    BY <1>1, <1>2, <2>1
  <2>2. CASE i # 1
    <3>1. /\ i - 1 \in DOMAIN subscriberStack /\ ss[i] = subscriberStack[i - 1]
          /\ ss[i] # c
      BY <1>1, <1>2, <2>2
    <3>2. /\ dirty[ss[i]]
          /\ \A j \in DOMAIN subscriberStack : subscriberStack[j] = ss[i] => j = i - 1
      BY <1>3, <3>1 DEF ComputeInv, ComputedOnce
    <3>3. ASSUME NEW j \in DOMAIN ss, ss[j] = ss[i]
          PROVE  j = i
      <4>1. j # 1
        BY <1>2, <3>1, <3>3
      <4>2. j - 1 \in DOMAIN subscriberStack /\ subscriberStack[j - 1] = ss[i]
        BY <1>2, <3>3, <4>1
      <4>3. j - 1 = i - 1
        BY <3>2, <4>2
      <4> QED BY <1>2, <4>3
    <3> QED BY <1>1, <3>2, <3>3
  <2> QED BY <2>1, <2>2
<1>4. ComputedOnce'
  BY <1>3 DEF ComputedOnce, ss
<1>5. /\ \A z \in Subscribers : z # c => deps[z] \subseteq deps'[z]
      /\ subscriberStack # <<>> => c \in deps'[y]
  <2>1. \A z \in Subscribers : z # c => deps[z] \subseteq deps'[z]
    BY <1>0, <1>1 DEF removeDependencies, addDependency
  <2>2. subscriberStack # <<>> => y # c
    <3>1. subscriberStack # <<>> => 1 \in DOMAIN subscriberStack
      BY <1>0
    <3> QED BY <1>0, <1>1, <3>1
  <2>3. subscriberStack # <<>> => c \in deps'[y]
    BY <1>0, <1>1, <2>2, NoneIsNoSubscriber DEF removeDependencies, addDependency
  <2> QED BY <2>1, <2>3
<1>6. ASSUME NEW i \in DOMAIN ss, ss[i] \in Computeds, i + 1 \in DOMAIN ss
      PROVE  \/ ss[i + 1] \in Watchers /\ phase'[ss[i + 1]] = "stopped"
             \/ ss[i] \in deps'[ss[i + 1]]
  <2>1. i \in DOMAIN subscriberStack /\ ss[i + 1] = subscriberStack[i]
    <3>1. i + 1 # 1 /\ (i + 1) - 1 = i
      BY <1>2
    <3> QED BY <1>2, <1>6, <3>1
  <2>2. CASE i = 1
    <3>1. subscriberStack # <<>>
      BY <1>0, <2>1
    <3> QED BY <1>0, <1>2, <1>5, <2>1, <2>2, <3>1
  <2>3. CASE i # 1
    <3>1. /\ i - 1 \in DOMAIN subscriberStack /\ ss[i] = subscriberStack[i - 1]
          /\ (i - 1) + 1 = i
      BY <1>2, <2>3
    <3>2. Stopped(subscriberStack[i]) \/ ss[i] \in deps[subscriberStack[i]]
      BY <1>6, <2>1, <3>1 DEF ComputeInv, CallersTrack
    <3>3. subscriberStack[i] \in Subscribers /\ subscriberStack[i] # c
      BY <1>0, <1>1, <2>1
    <3> QED BY <1>1, <1>5, <2>1, <3>2, <3>3 DEF Stopped, ss
  <2> QED BY <2>2, <2>3
<1>7. CallersTrack'
  BY <1>6 DEF CallersTrack, Stopped, ss
<1> QED BY <1>4, <1>7 DEF ComputeInv

\* A watcher that waits for no computed is run.
LEMMA RunComputes ==
  ASSUME TypeOK, ComputeInv, NEW w \in Watchers, run(w), ~Awaits(w),
         dirty' = dirty, \A v \in Watchers : v # w => phase'[v] = phase[v]
  PROVE  ComputeInv'
<1> DEFINE ss == subscriberStack'
<1>0. /\ subscriberStack \in Seq(Subscribers)
      /\ w \in Subscribers /\ w \notin Computeds
      /\ deps \in [Subscribers -> SUBSET Sources]
  BY KindsDisjoint DEF TypeOK, Subscribers
<1>1. /\ subscriberStack' = <<w>> \o subscriberStack
      /\ deps' = removeDependencies(deps, w)
  BY DEF run, Start
<1>2. /\ ss[1] = w /\ 1 \in DOMAIN ss
      /\ \A i \in DOMAIN subscriberStack :
           /\ i \in Nat \ {0} /\ i + 1 \in DOMAIN ss
           /\ ss[i + 1] = subscriberStack[i]
      /\ \A i \in DOMAIN ss :
           /\ i \in Nat \ {0}
           /\ i # 1 => /\ i - 1 \in DOMAIN subscriberStack
                       /\ ss[i] = subscriberStack[i - 1]
  BY <1>0, <1>1, SubscribersPushed
<1> HIDE DEF ss
<1>3. ASSUME NEW i \in DOMAIN ss, ss[i] \in Computeds
      PROVE  dirty'[ss[i]] /\ \A j \in DOMAIN ss : ss[j] = ss[i] => j = i
  <2>1. /\ i - 1 \in DOMAIN subscriberStack /\ ss[i] = subscriberStack[i - 1]
        /\ ss[i] # w
    BY <1>0, <1>2, <1>3
  <2>2. /\ dirty[ss[i]]
        /\ \A j \in DOMAIN subscriberStack : subscriberStack[j] = ss[i] => j = i - 1
    BY <1>3, <2>1 DEF ComputeInv, ComputedOnce
  <2>3. ASSUME NEW j \in DOMAIN ss, ss[j] = ss[i]
        PROVE  j = i
    <3>1. j # 1
      BY <1>2, <2>1, <2>3
    <3>2. j - 1 \in DOMAIN subscriberStack /\ subscriberStack[j - 1] = ss[i]
      BY <1>2, <2>3, <3>1
    <3>3. j - 1 = i - 1
      BY <2>2, <3>2
    <3> QED BY <1>2, <3>3
  <2> QED BY <2>2, <2>3
<1>4. ComputedOnce'
  BY <1>3 DEF ComputedOnce, ss
<1>5. ASSUME NEW i \in DOMAIN ss, ss[i] \in Computeds, i + 1 \in DOMAIN ss
      PROVE  \/ ss[i + 1] \in Watchers /\ phase'[ss[i + 1]] = "stopped"
             \/ ss[i] \in deps'[ss[i + 1]]
  <2>1. /\ i - 1 \in DOMAIN subscriberStack /\ ss[i] = subscriberStack[i - 1]
        /\ (i - 1) + 1 = i
    BY <1>0, <1>2, <1>5
  <2>2. i \in DOMAIN subscriberStack /\ ss[i + 1] = subscriberStack[i]
    <3>1. i + 1 # 1 /\ (i + 1) - 1 = i
      BY <1>2
    <3> QED BY <1>2, <1>5, <3>1
  <2>3. ss[i + 1] # w
    BY <1>5, <2>1, <2>2 DEF Awaits
  <2>4. Stopped(ss[i + 1]) \/ ss[i] \in deps[ss[i + 1]]
    BY <1>5, <2>1, <2>2 DEF ComputeInv, CallersTrack
  <2>5. ss[i + 1] \in Subscribers
    BY <1>0, <2>2
  <2>6. deps'[ss[i + 1]] = deps[ss[i + 1]]
    BY <1>0, <1>1, <2>3, <2>5 DEF removeDependencies
  <2> QED BY <2>3, <2>4, <2>6 DEF Stopped, ss
<1>6. CallersTrack'
  BY <1>5 DEF CallersTrack, Stopped, ss
<1> QED BY <1>4, <1>6 DEF ComputeInv

LEMMA TrackGrows ==
  ASSUME TypeOK, NEW x \in Sources, NEW z \in Subscribers
  PROVE  deps[z] \subseteq addDependency(deps, x, currentSubscriber)[z]
BY DEF TypeOK, addDependency

LEMMA ComputeNext ==
  ASSUME TypeOK, ComputeInv, [Next]_vars, ~overtaken'
  PROVE  ComputeInv'
<1>1. ASSUME NEW c \in Computeds, GetDirty(c)
      PROVE  ComputeInv'
  <2>1. ~Executing(c)
    BY <1>1 DEF GetDirty
  <2> QED BY <1>1, <2>1, GetDirtyComputes
<1>2. ASSUME ComputeReturns
      PROVE  ComputeInv'
  <2>1. /\ subscriberStack # <<>> /\ subscriberStack' = Tail(subscriberStack)
        /\ UNCHANGED <<deps, phase>>
        /\ dirty' = [dirty EXCEPT ![Head(subscriberStack)] = FALSE]
    BY <1>2 DEF ComputeReturns, graph
  <2>2. \A c \in Computeds : dirty[c] /\ c # Head(subscriberStack) => dirty'[c]
    BY <2>1 DEF TypeOK
  <2> QED BY <2>1, <2>2, ComputePopped
<1>3. ASSUME EffectReturns
      PROVE  ComputeInv'
  BY <1>3, ComputePopped DEF EffectReturns, graph, values
<1>4. ASSUME NEW w \in Watchers, Watch(w) \/ FlushRun(w)
      PROVE  ComputeInv'
  <2>1. run(w) /\ dirty' = dirty /\ \A v \in Watchers : v # w => phase'[v] = phase[v]
    BY <1>4 DEF Watch, FlushRun, TypeOK
  <2>2. ~Awaits(w)
    BY <2>1 DEF run
  <2> QED BY <2>1, <2>2, RunComputes
<1>5. ASSUME NEW x \in Sources, UNCHANGED <<subscriberStack, dirty, phase>>,
             deps' = addDependency(deps, x, currentSubscriber)
      PROVE  ComputeInv'
  BY <1>5, ComputeKept, TrackGrows
<1>6. ASSUME NEW s \in States, GetState(s)
      PROVE  ComputeInv'
  BY <1>5, <1>6 DEF GetState, Sources, calls
<1>7. ASSUME NEW c \in Computeds, GetCached(c)
      PROVE  ComputeInv'
  BY <1>5, <1>7 DEF GetCached, Sources, calls
<1>8. ASSUME NEW w \in Watchers, Stop(w)
      PROVE  ComputeInv'
  <2>1. /\ UNCHANGED <<subscriberStack, dirty>> /\ phase' = [phase EXCEPT ![w] = "stopped"]
        /\ deps' = removeDependencies(deps, w)
    BY <1>8 DEF Stop, values, calls
  <2>2. /\ phase'[w] = "stopped"
        /\ \A v \in Watchers : v # w => phase'[v] = phase[v]
        /\ \A z \in Subscribers : z # w => deps'[z] = deps[z]
    BY <2>1 DEF TypeOK, removeDependencies
  <2> QED BY <2>1, <2>2, ComputeKept DEF Stopped
<1>9. ASSUME UNCHANGED <<subscriberStack, phase, deps>>,
             \A c \in Computeds : dirty[c] => dirty'[c]
      PROVE  ComputeInv'
  BY <1>9, ComputeKept
<1>10. ASSUME NEW c \in Computeds, InvalidateComputed(c)
       PROVE  ComputeInv'
  BY <1>9, <1>10 DEF InvalidateComputed, graph, TypeOK
<1>11. ASSUME NEW s \in States, Set(s)
       PROVE  ComputeInv'
  BY <1>9, <1>11 DEF Set, graph
<1>12. CASE BatchBegin \/ BatchEnd \/ NotifyDone \/ FlushRound \/ FlushEnd
  BY <1>9, <1>12 DEF BatchBegin, BatchEnd, NotifyDone, FlushRound, FlushEnd, values,
     graph, calls
<1>13. ASSUME NEW w \in Watchers, QueueWatcher(w) \/ SkipWatcher(w) \/ FlushSkip(w)
       PROVE  ComputeInv'
  BY <1>9, <1>13 DEF QueueWatcher, SkipWatcher, FlushSkip, values, graph, calls
<1>14. CASE UNCHANGED vars
  BY <1>9, <1>14 DEF vars, values, graph, calls
<1> QED
  BY <1>1, <1>2, <1>3, <1>4, <1>6, <1>7, <1>8, <1>10, <1>11, <1>12, <1>13, <1>14
  DEF Next, Library, Returns, Calls

-----------------------------------------------------------------------------

LEMMA SubscriberPushed ==
  ASSUME TypeOK, NEW y \in Subscribers
  PROVE  /\ Len(<<y>> \o subscriberStack) = Len(subscriberStack) + 1
         /\ (<<y>> \o subscriberStack)[1] = y
         /\ Len(subscriberStack) \in Nat
<1>1. subscriberStack \in Seq(Subscribers)
  BY DEF TypeOK
<1> QED BY <1>1, PushProperties

\* A stopped watcher is never run again, from the guards of Watch and of run.
THEOREM StoppedNeverRunsCorrect == Spec => StoppedNeverRuns
<1> DEFINE Spared(w) == subscriberStack' # <<w>> \o subscriberStack
<1>1. ASSUME TypeOK, [Next]_vars, NEW w \in Watchers, phase[w] = "stopped",
             subscriberStack' = <<w>> \o subscriberStack
      PROVE  FALSE
  <2>0. subscriberStack \in Seq(Subscribers) /\ w \in Subscribers
    BY <1>1 DEF TypeOK, Subscribers
  <2>1. Len(subscriberStack') = Len(subscriberStack) + 1 /\ subscriberStack'[1] = w
        /\ Len(subscriberStack) \in Nat
    BY <1>1, <2>0, SubscriberPushed
  <2>2. CASE UNCHANGED subscriberStack
    BY <2>1, <2>2
  <2>3. CASE subscriberStack # <<>> /\ subscriberStack' = Tail(subscriberStack)
    <3>1. Len(subscriberStack') = Len(subscriberStack) - 1
      BY <2>0, <2>3, PopProperties
    <3> QED BY <2>1, <3>1
  <2>4. ASSUME NEW c \in Computeds, GetDirty(c)
        PROVE  FALSE
    <3>1. subscriberStack' = <<c>> \o subscriberStack
      BY <2>4 DEF GetDirty, Start
    <3>2. c \in Subscribers /\ c # w
      BY KindsDisjoint DEF Subscribers
    <3> QED BY <1>1, <2>1, <3>1, <3>2, SubscriberPushed
  <2>5. ASSUME NEW v \in Watchers, Watch(v) \/ FlushRun(v)
        PROVE  FALSE
    <3>1. subscriberStack' = <<v>> \o subscriberStack /\ phase[v] # "stopped"
      BY <2>5 DEF Watch, FlushRun, run, Start
    <3>2. v \in Subscribers
      BY DEF Subscribers
    <3>3. v = w
      BY <1>1, <2>1, <3>1, <3>2, SubscriberPushed
    <3> QED BY <1>1, <3>1, <3>3
  <2>6. ASSUME NEW c \in Computeds, GetCached(c) \/ InvalidateComputed(c)
        PROVE  FALSE
    BY <2>2, <2>6 DEF GetCached, InvalidateComputed, calls
  <2>7. ASSUME NEW s \in States, GetState(s) \/ Set(s)
        PROVE  FALSE
    BY <2>2, <2>7 DEF GetState, Set, calls
  <2>8. ASSUME NEW v \in Watchers,
               Stop(v) \/ FlushSkip(v) \/ QueueWatcher(v) \/ SkipWatcher(v)
        PROVE  FALSE
    BY <2>2, <2>8 DEF Stop, FlushSkip, QueueWatcher, SkipWatcher, calls
  <2>9. ASSUME BatchBegin \/ BatchEnd \/ NotifyDone \/ FlushRound \/ FlushEnd
        PROVE  FALSE
    BY <2>2, <2>9 DEF BatchBegin, BatchEnd, NotifyDone, FlushRound, FlushEnd, calls
  <2>10. ASSUME ComputeReturns \/ EffectReturns
         PROVE  FALSE
    BY <2>3, <2>10 DEF ComputeReturns, EffectReturns
  <2>11. CASE UNCHANGED vars
    BY <2>2, <2>11 DEF vars, calls
  <2> QED
    BY <1>1, <2>4, <2>5, <2>6, <2>7, <2>8, <2>9, <2>10, <2>11
    DEF Next, Library, Returns, Calls
<1>2. ASSUME TypeOK, [Next]_vars, NEW w \in Watchers, phase[w] = "stopped"
      PROVE  Spared(w)
  BY <1>1, <1>2
<1>3. TypeOK /\ [Next]_vars =>
        \A w \in Watchers : phase[w] = "stopped" => Spared(w)
  <2> HIDE DEF Spared
  <2> QED BY <1>2
<1> QED BY <1>3, TypeCorrect, PTL DEF Spec, StoppedNeverRuns

-----------------------------------------------------------------------------
(* Which subscribers an overwritten reading still has to reach. *)

\* A notify loop on the stack st will invalidate y.
Told(st, y) == \E i \in DOMAIN st : st[i].kind = "notify" /\ y \in st[i].todo

ToInvalidate(y) == Told(stack, y)

\* y needs no news: it will run again before anybody looks at what it has read.
Exempt(y) ==
  IF y \in Watchers THEN phase[y] = "stopped" \/ queued[y]
  ELSE dirty[y] /\ ~Executing(y)

\* Invalidation, once it has gone on to the end, has reached the subscribers in
\* K: those the notify loops name, and those of every clean computed in K.
Closed(K) ==
  /\ \A y \in Subscribers : ToInvalidate(y) => y \in K
  /\ \A c \in Computeds : c \in K /\ ~dirty[c] => subscribers[c] \subseteq K

\* Should the state of a current reading be Set, its subscribers are in K too.
Seeded(r, K) == r[2] = version[r[1]] => subscribers[r[1]] \subseteq K

(***************************************************************************)
(* The inductive invariant of freshness.  Whoever holds a reading hears of *)
(* it when it is overwritten: the least set that is closed and contains    *)
(* the subscribers of a reading that is current contains everybody who     *)
(* holds this reading, and the least closed set alone everybody who holds  *)
(* a reading that has been overwritten.                                    *)
(***************************************************************************)
Covered ==
  \A y \in Subscribers : ~Exempt(y) =>
    \A r \in obs[y], K \in SUBSET Subscribers :
      Closed(K) /\ Seeded(r, K) => y \in K

LEMMA ToldPushed ==
  ASSUME NEW st \in Seq(Frames), NEW f \in Frames, NEW y
  PROVE  Told(<<f>> \o st, y) <=> (f.kind = "notify" /\ y \in f.todo) \/ Told(st, y)
<1> DEFINE up == <<f>> \o st
<1>1. /\ Len(up) = Len(st) + 1 /\ up[1] = f /\ Len(st) \in Nat /\ up \in Seq(Frames)
      /\ \A i \in 2 .. Len(st) + 1 : up[i] = st[i - 1]
      /\ \A i \in 1 .. Len(st) : up[i + 1] = st[i]
  BY PushProperties
<1> HIDE DEF up
<1>2. DOMAIN up = 1 .. Len(up) /\ DOMAIN st = 1 .. Len(st)
  BY <1>1
<1>3. \A i \in DOMAIN up : i = 1 \/ (i - 1 \in DOMAIN st /\ up[i] = st[i - 1])
  BY <1>1, <1>2
<1>4. \A i \in DOMAIN st : i + 1 \in DOMAIN up /\ up[i + 1] = st[i]
  BY <1>1, <1>2
<1>5. 1 \in DOMAIN up
  BY <1>1, <1>2
<1> QED BY <1>1, <1>3, <1>4, <1>5 DEF Told, up

LEMMA ToldPopped ==
  ASSUME NEW st \in Seq(Frames), st # <<>>, NEW y
  PROVE  Told(st, y) <=>
           (Head(st).kind = "notify" /\ y \in Head(st).todo) \/ Told(Tail(st), y)
<1>1. Tail(st) \in Seq(Frames) /\ Head(st) \in Frames /\ st = <<Head(st)>> \o Tail(st)
  BY PopProperties, PushPop
<1> DEFINE t == Tail(st)
           f == Head(st)
<1> HIDE DEF t, f
<1>2. Told(<<f>> \o t, y) <=> (f.kind = "notify" /\ y \in f.todo) \/ Told(t, y)
  BY <1>1, ToldPushed DEF t, f
<1> QED BY <1>1, <1>2 DEF t, f

\* The loop that takes y has still to invalidate everybody else it names.
LEMMA ToldRest ==
  ASSUME TypeOK, Running("notify"), NEW x \in Subscribers, NEW y
  PROVE  /\ Told(Rest(x), y) => Told(stack, y)
         /\ Told(stack, y) => y = x \/ Told(Rest(x), y)
<1>1. /\ stack \in Seq(Frames) /\ stack # <<>> /\ 1 \in DOMAIN stack
  BY DEF TypeOK, Running
<1>2. /\ Rest(x) \in Seq(Frames) /\ Len(Rest(x)) = Len(stack)
      /\ \A i \in 1 .. Len(stack) : Rest(x)[i].kind = stack[i].kind
      /\ Rest(x)[1].todo = stack[1].todo \ {x}
      /\ \A i \in 2 .. Len(stack) : Rest(x)[i] = stack[i]
  BY RestProperties
<1>3. /\ DOMAIN Rest(x) = DOMAIN stack
      /\ \A i \in DOMAIN stack :
           /\ Rest(x)[i].kind = stack[i].kind
           /\ i = 1 \/ Rest(x)[i].todo = stack[i].todo
  BY <1>1, <1>2
<1> QED BY <1>2, <1>3 DEF Told

\* Only a subscriber that is pushed comes to execute.
LEMMA ExecutingPushed ==
  ASSUME TypeOK, NEW x \in Subscribers, NEW y,
         subscriberStack' = <<x>> \o subscriberStack
  PROVE  Executing(y)' <=> y = x \/ Executing(y)
<1> DEFINE up == <<x>> \o subscriberStack
<1>1. subscriberStack \in Seq(Subscribers)
  BY DEF TypeOK
<1>2. /\ DOMAIN up = 1 .. Len(subscriberStack) + 1 /\ up[1] = x
      /\ DOMAIN subscriberStack = 1 .. Len(subscriberStack)
      /\ Len(subscriberStack) \in Nat
      /\ \A i \in DOMAIN subscriberStack : up[i + 1] = subscriberStack[i]
      /\ \A i \in DOMAIN up : i # 1 =>
           i - 1 \in DOMAIN subscriberStack /\ up[i] = subscriberStack[i - 1]
  BY <1>1, PushProperties
<1> HIDE DEF up
<1>3. (\E i \in DOMAIN up : up[i] = y) <=> y = x \/ Executing(y)
  <2>1. 1 \in DOMAIN up /\ \A i \in DOMAIN subscriberStack : i + 1 \in DOMAIN up
    BY <1>2
  <2> QED BY <1>2, <2>1, SMTT(30) DEF Executing
<1> QED BY <1>3 DEF Executing, up

LEMMA ExecutingPopped ==
  ASSUME TypeOK, NEW y, subscriberStack # <<>>,
         subscriberStack' = Tail(subscriberStack)
  PROVE  Executing(y) <=> y = Head(subscriberStack) \/ Executing(y)'
<1>1. subscriberStack \in Seq(Subscribers)
  BY DEF TypeOK
<1> DEFINE ss == Tail(subscriberStack)
<1>2. /\ \A i \in DOMAIN ss : /\ i + 1 \in DOMAIN subscriberStack
                              /\ ss[i] = subscriberStack[i + 1]
      /\ \A i \in DOMAIN subscriberStack : i # 1 =>
           i - 1 \in DOMAIN ss /\ subscriberStack[i] = ss[i - 1]
      /\ 1 \in DOMAIN subscriberStack /\ subscriberStack[1] = Head(subscriberStack)
  BY <1>1, PopProperties
<1> HIDE DEF ss
<1>3. Executing(y) <=>
        y = Head(subscriberStack) \/ \E i \in DOMAIN ss : ss[i] = y
  BY <1>2 DEF Executing
<1> QED BY <1>3 DEF Executing, ss

LEMMA ToldFlushed ==
  ASSUME NEW below \in Seq(Frames), flushSubscribers(below), NEW y
  PROVE  Told(stack', y) <=> Told(below, y)
<1>1. Frame("flush") \in Frames /\ Frame("flush").kind = "flush"
  BY DEF Frame, Frames, Kinds
<1>2. Told(<<Frame("flush")>> \o below, y) <=> Told(below, y)
  BY <1>1, ToldPushed
<1> QED BY <1>2 DEF flushSubscribers

\* A step that loses sight of nobody but x, who either forgets what it has read
\* or needs no news afterwards, and gives no new readings.
LEMMA CoveredForgets ==
  ASSUME Covered, NEW x \in Subscribers,
         obs'[x] = {} \/ Exempt(x)',
         \A y \in Subscribers : y # x => obs'[y] = obs[y],
         \A y \in Subscribers : y # x /\ Exempt(y) => Exempt(y)',
         \A K \in SUBSET Subscribers : Closed(K)' => Closed(K \cup {x}),
         \A y \in Subscribers : \A r \in obs[y], K \in SUBSET Subscribers :
           Seeded(r, K)' => Seeded(r, K \cup {x})
  PROVE  Covered'
<1> SUFFICES ASSUME NEW y \in Subscribers, ~Exempt(y)', NEW r \in obs'[y],
                    NEW K \in SUBSET Subscribers, Closed(K)', Seeded(r, K)'
             PROVE  y \in K
  BY DEF Covered
<1>1. y # x
  OBVIOUS
<1>2. r \in obs[y] /\ ~Exempt(y)
  BY <1>1
<1>3. Closed(K \cup {x}) /\ Seeded(r, K \cup {x}) /\ K \cup {x} \in SUBSET Subscribers
  BY <1>2
<1>4. y \in K \cup {x}
  BY <1>2, <1>3 DEF Covered
<1> QED BY <1>1, <1>4

\* The step of a notify loop that takes x.
LEMMA CoveredInvalidated ==
  ASSUME TypeOK, Covered, NEW x \in Subscribers,
         UNCHANGED <<version, obs, subscribers>>,
         \A c \in Computeds : c # x => dirty'[c] = dirty[c],
         x \in Computeds /\ ~dirty[x] => \A y \in subscribers[x] : Told(stack', y),
         \A y \in Subscribers : Told(stack, y) => y = x \/ Told(stack', y),
         Exempt(x)',
         \A y \in Subscribers : y # x /\ Exempt(y) => Exempt(y)'
  PROVE  Covered'
<1>1. ASSUME NEW K \in SUBSET Subscribers, Closed(K)'
      PROVE  Closed(K \cup {x})
  <2>1. ASSUME NEW y \in Subscribers, ToInvalidate(y)
        PROVE  y \in K \cup {x}
    BY <1>1, <2>1 DEF Closed, ToInvalidate
  <2>2. ASSUME NEW c \in Computeds, c \in K \cup {x}, ~dirty[c]
        PROVE  subscribers[c] \subseteq K \cup {x}
    <3>1. CASE c = x
      <4>1. \A y \in subscribers[c] : y \in Subscribers /\ Told(stack', y)
        BY <2>2, <3>1 DEF TypeOK, Sources
      <4> QED BY <1>1, <4>1 DEF Closed, ToInvalidate
    <3>2. CASE c # x
      <4>1. c \in K /\ ~dirty'[c]
        BY <2>2, <3>2
      <4> QED BY <1>1, <4>1 DEF Closed
    <3> QED BY <3>1, <3>2
  <2> QED BY <2>1, <2>2 DEF Closed
<1>2. \A y \in Subscribers : \A r \in obs[y], K \in SUBSET Subscribers :
        Seeded(r, K)' => Seeded(r, K \cup {x})
  BY DEF Seeded
<1> QED BY <1>1, <1>2, CoveredForgets

\* A step that leaves the graph and the readings alone.
LEMMA CoveredQuiet ==
  ASSUME Covered, UNCHANGED <<version, obs, subscribers, dirty>>,
         \A y \in Subscribers : Told(stack, y) => Told(stack', y),
         \A y \in Subscribers : Exempt(y) => Exempt(y)'
  PROVE  Covered'
<1>1. \A K \in SUBSET Subscribers : Closed(K)' => Closed(K)
  BY DEF Closed, ToInvalidate
<1>2. \A r \in UNION {obs[y] : y \in Subscribers}, K \in SUBSET Subscribers :
        Seeded(r, K)' => Seeded(r, K)
  BY DEF Seeded
<1> QED BY <1>1, <1>2 DEF Covered

-----------------------------------------------------------------------------
(* Covered is inductive. *)

\* Tracking adds to the subscribers of x, and whoever reads x is among them.
LEMMA TrackSubscribes ==
  ASSUME TypeOK, SubscriptionSymmetry, NEW x \in Sources,
         subscribers' = addSubscriber(subscribers, deps, x, currentSubscriber)
  PROVE  /\ \A z \in Sources : subscribers[z] \subseteq subscribers'[z]
         /\ currentSubscriber # None =>
              currentSubscriber \in Subscribers /\ currentSubscriber \in subscribers'[x]
<1> DEFINE y == currentSubscriber
<1>1. /\ subscribers \in [Sources -> SUBSET Subscribers]
      /\ y \in Subscribers \cup {None}
  BY CurrentSubscriberType DEF TypeOK
<1> HIDE DEF y
<1>2. \A z \in Sources : addSubscriber(subscribers, deps, x, y)[z] =
        IF z = x /\ y # None /\ x \notin deps[y] THEN subscribers[z] \cup {y}
        ELSE subscribers[z]
  BY <1>1 DEF addSubscriber
<1>3. y # None => y \in addSubscriber(subscribers, deps, x, y)[x]
  BY <1>1, <1>2 DEF SubscriptionSymmetry
<1> QED BY <1>1, <1>2, <1>3 DEF y

\* A running subscriber gains readings.
LEMMA CoveredReads ==
  ASSUME TypeOK, SubscriptionSymmetry, Covered, NEW x \in Sources,
         NEW readings \in SUBSET Readings,
         subscribers' = addSubscriber(subscribers, deps, x, currentSubscriber),
         obs' = observe(obs, currentSubscriber, readings),
         UNCHANGED <<version, dirty, phase, queued, stack, subscriberStack>>,
         \A r \in readings, K \in SUBSET Subscribers :
           Closed(K) /\ Closed(K)' /\ Seeded(r, K) /\ Seeded(r, K)' =>
             subscribers'[x] \subseteq K
  PROVE  Covered'
<1>1. /\ \A z \in Sources : subscribers[z] \subseteq subscribers'[z]
      /\ currentSubscriber # None =>
           currentSubscriber \in Subscribers /\ currentSubscriber \in subscribers'[x]
  BY TrackSubscribes
<1>2. \A K \in SUBSET Subscribers : Closed(K)' => Closed(K)
  BY <1>1 DEF Closed, ToInvalidate, Sources
<1>3. \A r \in Readings, K \in SUBSET Subscribers : Seeded(r, K)' => Seeded(r, K)
  BY <1>1 DEF Seeded, Readings, Sources
<1>4. \A y \in Subscribers : Exempt(y) <=> Exempt(y)'
  BY DEF Exempt, Executing
<1> SUFFICES ASSUME NEW y \in Subscribers, ~Exempt(y)', NEW r \in obs'[y],
                    NEW K \in SUBSET Subscribers, Closed(K)', Seeded(r, K)'
             PROVE  y \in K
  BY DEF Covered
<1>5. obs \in [Subscribers -> SUBSET Readings]
  BY DEF TypeOK
<1>6. CASE r \in obs[y]
  BY <1>2, <1>3, <1>4, <1>5, <1>6 DEF Covered
<1>7. CASE r \notin obs[y]
  <2>1. y = currentSubscriber /\ y # None /\ r \in readings
    BY <1>5, <1>7 DEF observe
  <2>2. Seeded(r, K)
    BY <1>3, <2>1
  <2> QED BY <1>1, <1>2, <2>1, <2>2
<1> QED BY <1>6, <1>7

LEMMA GetStateCovered ==
  ASSUME TypeOK, SubscriptionSymmetry, Covered, NEW s \in States, GetState(s)
  PROVE  Covered'
<1>1. s \in Sources /\ {<<s, version[s]>>} \in SUBSET Readings
  BY DEF TypeOK, Sources, Readings
<1>2. /\ subscribers' = addSubscriber(subscribers, deps, s, currentSubscriber)
      /\ obs' = observe(obs, currentSubscriber, {<<s, version[s]>>})
      /\ UNCHANGED <<version, dirty, phase, queued, stack, subscriberStack>>
  BY DEF GetState, scheduler, calls
<1>3. ASSUME NEW r \in {<<s, version[s]>>}, NEW K \in SUBSET Subscribers, Seeded(r, K)'
      PROVE  subscribers'[s] \subseteq K
  BY <1>2, <1>3 DEF Seeded
<1> QED BY <1>1, <1>2, <1>3, CoveredReads

LEMMA GetCachedCovered ==
  ASSUME TypeOK, SubscriptionSymmetry, Covered, NEW c \in Computeds, GetCached(c)
  PROVE  Covered'
<1>1. c \in Sources /\ c \in Subscribers /\ c \notin Watchers /\ obs[c] \in SUBSET Readings
  BY KindsDisjoint DEF TypeOK, Sources, Subscribers
<1>2. /\ subscribers' = addSubscriber(subscribers, deps, c, currentSubscriber)
      /\ obs' = observe(obs, currentSubscriber, obs[c])
      /\ UNCHANGED <<version, dirty, phase, queued, stack, subscriberStack>>
      /\ ~dirty[c]
  BY DEF GetCached, scheduler, calls
<1>3. ASSUME NEW r \in obs[c], NEW K \in SUBSET Subscribers,
             Closed(K), Closed(K)', Seeded(r, K)
      PROVE  subscribers'[c] \subseteq K
  <2>1. ~Exempt(c)
    BY <1>1, <1>2 DEF Exempt
  <2>2. c \in K
    BY <1>1, <1>3, <2>1 DEF Covered
  <2> QED BY <1>2, <1>3, <2>2 DEF Closed
<1> QED BY <1>1, <1>2, <1>3, CoveredReads

\* The two activations of functions that forget what was read before.
LEMMA DisposeKeeps ==
  ASSUME NEW subs \in [Sources -> SUBSET Subscribers],
         NEW ds \in [Subscribers -> SUBSET Sources],
         NEW y \in Subscribers, NEW x \in Sources
  PROVE  subs[x] \subseteq removeSubscriber(subs, ds, y)[x] \cup {y}
BY DEF removeSubscriber

LEMMA GetDirtyCovered ==
  ASSUME TypeOK, Covered, NEW c \in Computeds, GetDirty(c)
  PROVE  Covered'
<1> DEFINE tracked == addSubscriber(subscribers, deps, c, currentSubscriber)
           trackedDeps == addDependency(deps, c, currentSubscriber)
<1>1. /\ subscribers' = removeSubscriber(tracked, trackedDeps, c)
      /\ obs' = [obs EXCEPT ![c] = {}]
      /\ stack' = <<Frame("compute")>> \o stack
      /\ subscriberStack' = <<c>> \o subscriberStack
      /\ UNCHANGED <<version, dirty, phase, queued>> /\ dirty[c]
  BY DEF GetDirty, Start, scheduler
<1>2. /\ c \in Sources /\ c \in Subscribers /\ c \notin Watchers
      /\ obs \in [Subscribers -> SUBSET Readings] /\ stack \in Seq(Frames)
      /\ Frame("compute") \in Frames /\ Frame("compute").kind = "compute"
  BY KindsDisjoint DEF TypeOK, Sources, Subscribers, Frame, Frames, Kinds
<1>3. \A x \in Sources : subscribers[x] \subseteq tracked[x]
  BY CurrentSubscriberType DEF TypeOK, addSubscriber
<1>4. /\ tracked \in [Sources -> SUBSET Subscribers]
      /\ trackedDeps \in [Subscribers -> SUBSET Sources]
  BY <1>2, CurrentSubscriberType, GraphTypes DEF TypeOK
<1> HIDE DEF tracked, trackedDeps
<1>5. \A x \in Sources : subscribers[x] \subseteq subscribers'[x] \cup {c}
  BY <1>1, <1>2, <1>3, <1>4, DisposeKeeps
<1>6. \A y : Told(stack', y) <=> Told(stack, y)
  BY <1>1, <1>2, ToldPushed
<1>7. ASSUME NEW K \in SUBSET Subscribers, Closed(K)'
      PROVE  Closed(K \cup {c})
  <2>1. \A y \in Subscribers : ToInvalidate(y) => y \in K
    BY <1>6, <1>7 DEF Closed, ToInvalidate
  <2>2. ASSUME NEW d \in Computeds, d \in K \cup {c}, ~dirty[d]
        PROVE  subscribers[d] \subseteq K \cup {c}
    <3>1. d # c /\ d \in K /\ ~dirty'[d] /\ d \in Sources
      BY <1>1, <2>2 DEF Sources
    <3>2. subscribers'[d] \subseteq K
      BY <1>7, <3>1 DEF Closed
    <3> QED BY <1>5, <3>1, <3>2
  <2> QED BY <2>1, <2>2 DEF Closed
<1>8. ASSUME NEW K \in SUBSET Subscribers, NEW r \in Readings, Seeded(r, K)'
      PROVE  Seeded(r, K \cup {c})
  BY <1>1, <1>5, <1>8 DEF Seeded, Readings, Sources
<1>9. ASSUME NEW y \in Subscribers, y # c, Exempt(y)
      PROVE  Exempt(y)'
  BY <1>1, <1>2, <1>9, ExecutingPushed DEF Exempt
<1>10. \A y \in Subscribers : IF y = c THEN obs'[y] = {} ELSE obs'[y] = obs[y]
  BY <1>1, <1>2
<1>11. \A y \in Subscribers : obs[y] \subseteq Readings
  BY <1>2
<1> QED BY <1>2, <1>7, <1>8, <1>9, <1>10, <1>11, CoveredForgets

LEMMA RunCovered ==
  ASSUME TypeOK, Covered, NEW w \in Watchers, Watch(w) \/ FlushRun(w)
  PROVE  Covered'
<1>1. /\ subscribers' = removeSubscriber(subscribers, deps, w)
      /\ obs' = [obs EXCEPT ![w] = {}]
      /\ stack' = <<Frame("run")>> \o stack
      /\ subscriberStack' = <<w>> \o subscriberStack
      /\ UNCHANGED <<version, dirty>>
      /\ \A v \in Watchers : v # w => phase'[v] = phase[v] /\ queued'[v] = queued[v]
  BY DEF Watch, FlushRun, run, Start, scheduler, TypeOK
<1>2. /\ w \in Subscribers /\ w \notin Computeds
      /\ obs \in [Subscribers -> SUBSET Readings] /\ stack \in Seq(Frames)
      /\ Frame("run") \in Frames /\ Frame("run").kind = "run"
      /\ \A c \in Computeds : c \in Sources
  BY KindsDisjoint DEF TypeOK, Sources, Subscribers, Frame, Frames, Kinds
<1>3. \A x \in Sources : subscribers[x] \subseteq subscribers'[x] \cup {w}
  BY <1>1, <1>2, DisposeKeeps DEF TypeOK
<1>4. \A y : Told(stack', y) <=> Told(stack, y)
  BY <1>1, <1>2, ToldPushed
<1>5. ASSUME NEW K \in SUBSET Subscribers, Closed(K)'
      PROVE  Closed(K \cup {w})
  <2>1. \A y \in Subscribers : ToInvalidate(y) => y \in K
    BY <1>4, <1>5 DEF Closed, ToInvalidate
  <2>2. ASSUME NEW d \in Computeds, d \in K \cup {w}, ~dirty[d]
        PROVE  subscribers[d] \subseteq K \cup {w}
    <3>1. subscribers'[d] \subseteq K
      BY <1>1, <1>2, <1>5, <2>2 DEF Closed
    <3> QED BY <1>2, <1>3, <3>1
  <2> QED BY <2>1, <2>2 DEF Closed
<1>6. ASSUME NEW K \in SUBSET Subscribers, NEW r \in Readings, Seeded(r, K)'
      PROVE  Seeded(r, K \cup {w})
  BY <1>1, <1>3, <1>6 DEF Seeded, Readings, Sources
<1>7. ASSUME NEW y \in Subscribers, y # w, Exempt(y)
      PROVE  Exempt(y)'
  BY <1>1, <1>2, <1>7, ExecutingPushed DEF Exempt
<1>8. \A y \in Subscribers : IF y = w THEN obs'[y] = {} ELSE obs'[y] = obs[y]
  BY <1>1, <1>2
<1>9. \A y \in Subscribers : obs[y] \subseteq Readings
  BY <1>2
<1> QED BY <1>2, <1>5, <1>6, <1>7, <1>8, <1>9, CoveredForgets

LEMMA StopCovered ==
  ASSUME TypeOK, Covered, NEW w \in Watchers, Stop(w)
  PROVE  Covered'
<1>1. /\ subscribers' = removeSubscriber(subscribers, deps, w)
      /\ UNCHANGED <<version, dirty, obs, stack, subscriberStack>>
      /\ phase'[w] = "stopped"
      /\ \A v \in Watchers : v # w => phase'[v] = phase[v] /\ queued'[v] = queued[v]
  BY DEF Stop, values, calls, TypeOK
<1>2. /\ w \in Subscribers /\ w \notin Computeds
      /\ obs \in [Subscribers -> SUBSET Readings]
      /\ \A c \in Computeds : c \in Sources
  BY KindsDisjoint DEF TypeOK, Sources, Subscribers
<1>3. \A x \in Sources : subscribers[x] \subseteq subscribers'[x] \cup {w}
  BY <1>1, <1>2, DisposeKeeps DEF TypeOK
<1>4. ASSUME NEW K \in SUBSET Subscribers, Closed(K)'
      PROVE  Closed(K \cup {w})
  <2>1. \A y \in Subscribers : ToInvalidate(y) => y \in K
    BY <1>1, <1>4 DEF Closed, ToInvalidate
  <2>2. ASSUME NEW d \in Computeds, d \in K \cup {w}, ~dirty[d]
        PROVE  subscribers[d] \subseteq K \cup {w}
    <3>1. subscribers'[d] \subseteq K
      BY <1>1, <1>2, <1>4, <2>2 DEF Closed
    <3> QED BY <1>2, <1>3, <3>1
  <2> QED BY <2>1, <2>2 DEF Closed
<1>5. ASSUME NEW K \in SUBSET Subscribers, NEW r \in Readings, Seeded(r, K)'
      PROVE  Seeded(r, K \cup {w})
  BY <1>1, <1>3, <1>5 DEF Seeded, Readings, Sources
<1>6. ASSUME NEW y \in Subscribers, y # w, Exempt(y)
      PROVE  Exempt(y)'
  BY <1>1, <1>6 DEF Exempt, Executing
<1>7. Exempt(w)'
  BY <1>1 DEF Exempt
<1>8. \A y \in Subscribers : obs[y] \subseteq Readings
  BY <1>2
<1> QED BY <1>1, <1>2, <1>4, <1>5, <1>6, <1>7, <1>8, CoveredForgets

LEMMA SetCovered ==
  ASSUME TypeOK, Covered, NEW s \in States, Set(s)
  PROVE  Covered'
<1>1. /\ version' = [version EXCEPT ![s] = @ + 1]
      /\ stack' = <<NotifyFrame(s)>> \o stack
      /\ UNCHANGED <<dirty, obs, subscribers, phase, queued, subscriberStack>>
  BY DEF Set, graph, scheduler
<1>2. /\ s \in Sources /\ stack \in Seq(Frames) /\ NotifyFrame(s) \in Frames
      /\ NotifyFrame(s).kind = "notify" /\ NotifyFrame(s).todo = subscribers[s]
      /\ version \in [States -> 0 .. MaxVersion] /\ subscribers[s] \subseteq Subscribers
      /\ obs \in [Subscribers -> SUBSET Readings]
  BY FrameTypes DEF TypeOK, Sources, NotifyFrame
<1>3. \A y : Told(stack', y) <=> y \in subscribers[s] \/ Told(stack, y)
  BY <1>1, <1>2, ToldPushed
<1>4. ASSUME NEW K \in SUBSET Subscribers, Closed(K)'
      PROVE  Closed(K) /\ subscribers[s] \subseteq K
  BY <1>1, <1>2, <1>3, <1>4 DEF Closed, ToInvalidate
<1>5. ASSUME NEW K \in SUBSET Subscribers, NEW r \in Readings,
             subscribers[s] \subseteq K, Seeded(r, K)'
      PROVE  Seeded(r, K)
  BY <1>1, <1>2, <1>5 DEF Seeded, Readings
<1>6. \A y \in Subscribers : Exempt(y)' <=> Exempt(y)
  BY <1>1 DEF Exempt, Executing
<1> QED BY <1>1, <1>2, <1>4, <1>5, <1>6 DEF Covered

LEMMA ComputeReturnsCovered ==
  ASSUME TypeOK, SubscriptionSymmetry, ComputeInv, Covered, ComputeReturns
  PROVE  Covered'
<1> DEFINE c == Head(subscriberStack)
           caller == IF Tail(subscriberStack) = <<>> THEN None
                     ELSE Head(Tail(subscriberStack))
<1>1. /\ stack # <<>> /\ Head(stack).kind = "compute" /\ subscriberStack # <<>>
      /\ c \in Computeds
      /\ dirty' = [dirty EXCEPT ![c] = FALSE]
      /\ obs' = observe(obs, caller, obs[c])
      /\ stack' = Tail(stack) /\ subscriberStack' = Tail(subscriberStack)
      /\ UNCHANGED <<version, subscribers, phase, queued>>
  BY DEF ComputeReturns, Running, graph, scheduler
<1>2. /\ stack \in Seq(Frames) /\ subscriberStack \in Seq(Subscribers)
      /\ dirty \in [Computeds -> BOOLEAN] /\ obs \in [Subscribers -> SUBSET Readings]
      /\ c \in Subscribers /\ c \in Sources /\ c \notin Watchers
  BY <1>1, KindsDisjoint DEF TypeOK, Sources, Subscribers
<1>3. /\ 1 \in DOMAIN subscriberStack /\ subscriberStack[1] = c
      /\ caller # None => /\ caller \in Subscribers
                          /\ 1 + 1 \in DOMAIN subscriberStack
                          /\ subscriberStack[1 + 1] = caller
  <2> DEFINE ss == Tail(subscriberStack)
  <2>1. /\ Len(subscriberStack) \in Nat \ {0} /\ ss \in Seq(Subscribers)
        /\ Len(ss) = Len(subscriberStack) - 1
        /\ subscriberStack[1] = c
        /\ \A i \in 1 .. Len(subscriberStack) - 1 : ss[i] = subscriberStack[i + 1]
    BY <1>1, <1>2, PopProperties
  <2> HIDE DEF ss
  <2>2. ASSUME ss # <<>>
        PROVE  /\ Head(ss) \in Subscribers /\ 1 + 1 \in DOMAIN subscriberStack
               /\ subscriberStack[1 + 1] = Head(ss)
    <3>1. Head(ss) = ss[1] /\ Head(ss) \in Subscribers /\ Len(ss) \in Nat \ {0}
      BY <2>1, <2>2, PopProperties
    <3>2. 1 \in 1 .. Len(subscriberStack) - 1 /\ 1 + 1 \in DOMAIN subscriberStack
      BY <1>2, <2>1, <3>1
    <3> QED BY <2>1, <3>1, <3>2
  <2> QED BY <1>2, <2>1, <2>2 DEF ss
<1>4. dirty[c] /\ \A j \in DOMAIN subscriberStack : subscriberStack[j] = c => j = 1
  BY <1>1, <1>3 DEF ComputeInv, ComputedOnce
<1>5. caller # None /\ ~Stopped(caller) => caller \in subscribers[c]
  <2>1. caller # None /\ ~Stopped(caller) => c \in deps[caller]
    BY <1>1, <1>3 DEF ComputeInv, CallersTrack
  <2> HIDE DEF caller, c
  <2> QED BY <1>2, <1>3, <2>1 DEF SubscriptionSymmetry
<1>6. \A y : Executing(y) <=> y = c \/ Executing(y)'
  BY <1>1, ExecutingPopped
<1>7. \A y : Told(stack', y) <=> Told(stack, y)
  BY <1>1, <1>2, ToldPopped
<1> HIDE DEF c, caller
<1>8. ASSUME NEW y \in Subscribers, ~Exempt(y)'
      PROVE  ~Exempt(y)
  BY <1>1, <1>2, <1>6, <1>8 DEF Exempt
<1>9. ~Exempt(c)
  BY <1>2, <1>6 DEF Exempt
<1>10. ASSUME NEW K \in SUBSET Subscribers, Closed(K)'
       PROVE  Closed(K) /\ (c \in K => subscribers[c] \subseteq K)
  <2>1. \A y \in Subscribers : ToInvalidate(y) => y \in K
    BY <1>7, <1>10 DEF Closed, ToInvalidate
  <2>2. \A d \in Computeds : d \in K /\ ~dirty[d] => subscribers[d] \subseteq K
    BY <1>1, <1>2, <1>4, <1>10 DEF Closed
  <2>3. c \in K => subscribers[c] \subseteq K
    BY <1>1, <1>2, <1>10 DEF Closed
  <2> QED BY <2>1, <2>2, <2>3 DEF Closed
<1> SUFFICES ASSUME NEW y \in Subscribers, ~Exempt(y)', NEW r \in obs'[y],
                    NEW K \in SUBSET Subscribers, Closed(K)', Seeded(r, K)'
             PROVE  y \in K
  BY DEF Covered
<1>11. Closed(K) /\ Seeded(r, K) /\ ~Exempt(y)
  BY <1>1, <1>8, <1>10 DEF Seeded
<1>12. CASE r \in obs[y]
  BY <1>11, <1>12 DEF Covered
<1>13. CASE r \notin obs[y]
  <2>1. y = caller /\ caller # None /\ r \in obs[c]
    BY <1>1, <1>2, <1>13 DEF observe
  <2>2. c \in K
    BY <1>2, <1>9, <1>11, <2>1 DEF Covered
  <2>3. ~Stopped(y)
    BY <1>11 DEF Exempt, Stopped
  <2> QED BY <1>5, <1>10, <2>1, <2>2, <2>3
<1> QED BY <1>12, <1>13

LEMMA InvalidateComputedCovered ==
  ASSUME TypeOK, Covered, NEW c \in Computeds, InvalidateComputed(c), ~overtaken'
  PROVE  Covered'
<1>1. /\ Running("notify") /\ stack # <<>> /\ Head(stack).kind = "notify"
      /\ dirty' = [dirty EXCEPT ![c] = TRUE]
      /\ stack' = IF dirty[c] THEN Rest(c) ELSE <<NotifyFrame(c)>> \o Rest(c)
      /\ UNCHANGED <<version, obs, subscribers, phase, queued, subscriberStack>>
  BY DEF InvalidateComputed, Running, graph, scheduler
<1>2. /\ c \in Subscribers /\ c \notin Watchers
      /\ dirty \in [Computeds -> BOOLEAN] /\ NotifyFrame(c) \in Frames
      /\ NotifyFrame(c).kind = "notify" /\ NotifyFrame(c).todo = subscribers[c]
      /\ Rest(c) \in Seq(Frames)
  BY <1>1, FrameTypes, KindsDisjoint DEF TypeOK, Sources, Subscribers, NotifyFrame
<1>3. ~Executing(c)
  BY DEF InvalidateComputed
<1>4. \A y : Told(<<NotifyFrame(c)>> \o Rest(c), y) <=>
               y \in subscribers[c] \/ Told(Rest(c), y)
  BY <1>2, ToldPushed
<1>5. \A y : Told(stack, y) => y = c \/ Told(Rest(c), y)
  BY <1>1, <1>2, ToldRest
<1>6. \A y \in Subscribers : Told(stack, y) => y = c \/ Told(stack', y)
  BY <1>1, <1>4, <1>5
<1>7. ~dirty[c] => \A y \in subscribers[c] : Told(stack', y)
  BY <1>1, <1>4
<1>8. dirty'[c] /\ \A d \in Computeds : d # c => dirty'[d] = dirty[d]
  BY <1>1, <1>2
<1>9. Exempt(c)'
  BY <1>1, <1>2, <1>3, <1>8 DEF Exempt, Executing
<1>10. ASSUME NEW y \in Subscribers, y # c, Exempt(y)
       PROVE  Exempt(y)'
  BY <1>1, <1>8, <1>10 DEF Exempt, Executing, Subscribers
<1> QED BY <1>1, <1>2, <1>6, <1>7, <1>8, <1>9, <1>10, CoveredInvalidated

LEMMA InvalidateWatcherCovered ==
  ASSUME TypeOK, Covered, NEW w \in Watchers, QueueWatcher(w) \/ SkipWatcher(w)
  PROVE  Covered'
<1>1. /\ Running("notify")
      /\ UNCHANGED <<version, obs, dirty, subscribers, phase, subscriberStack>>
  BY DEF QueueWatcher, SkipWatcher, values, graph
<1>2. /\ w \in Subscribers /\ w \notin Computeds
      /\ queued \in [Watchers -> BOOLEAN] /\ Rest(w) \in Seq(Frames)
  BY <1>1, RestProperties, KindsDisjoint DEF TypeOK, Subscribers
<1>3. \A y : Told(stack', y) <=> Told(Rest(w), y)
  BY <1>2, ToldFlushed DEF QueueWatcher, SkipWatcher
<1>4. \A y \in Subscribers : Told(stack, y) => y = w \/ Told(stack', y)
  BY <1>1, <1>2, <1>3, ToldRest
<1>5. /\ phase[w] = "stopped" \/ queued'[w]
      /\ \A v \in Watchers : queued[v] => queued'[v]
  BY <1>2 DEF QueueWatcher, SkipWatcher, scheduler
<1>6. Exempt(w)'
  BY <1>1, <1>5 DEF Exempt
<1>7. ASSUME NEW y \in Subscribers, Exempt(y)
      PROVE  Exempt(y)'
  BY <1>1, <1>5, <1>7 DEF Exempt, Executing
<1> QED BY <1>1, <1>2, <1>4, <1>6, <1>7, CoveredInvalidated

LEMMA CoveredNext ==
  ASSUME TypeOK, SubscriptionSymmetry, ComputeInv, Covered, [Next]_vars, ~overtaken'
  PROVE  Covered'
<1>0. /\ stack \in Seq(Frames)
      /\ \A kind \in Kinds : Frame(kind) \in Frames /\ Frame(kind).kind = kind
  BY DEF TypeOK, Frame, Frames
<1>1. ASSUME UNCHANGED <<version, obs, dirty, subscribers, phase, queued,
                         subscriberStack>>,
             \A y \in Subscribers : Told(stack, y) => Told(stack', y)
      PROVE  Covered'
  <2>1. \A y \in Subscribers : Exempt(y) => Exempt(y)'
    BY <1>1 DEF Exempt, Executing
  <2> QED BY <1>1, <2>1, CoveredQuiet
<1>2. ASSUME NEW x \in States, GetState(x) \/ Set(x)
      PROVE  Covered'
  BY <1>2, GetStateCovered, SetCovered
<1>3. ASSUME NEW x \in Computeds, GetCached(x) \/ GetDirty(x) \/ InvalidateComputed(x)
      PROVE  Covered'
  BY <1>3, GetCachedCovered, GetDirtyCovered, InvalidateComputedCovered
<1>4. ASSUME NEW w \in Watchers,
             Watch(w) \/ FlushRun(w) \/ Stop(w) \/ QueueWatcher(w) \/ SkipWatcher(w)
      PROVE  Covered'
  BY <1>4, RunCovered, StopCovered, InvalidateWatcherCovered
<1>5. CASE ComputeReturns
  BY <1>5, ComputeReturnsCovered
<1>6. CASE BatchBegin
  <2>1. /\ UNCHANGED <<version, obs, dirty, subscribers, phase, queued,
                       subscriberStack>>
        /\ stack' = <<Frame("batch")>> \o stack
    BY <1>6 DEF BatchBegin, values, graph
  <2>2. \A y : Told(stack', y) <=> Told(stack, y)
    BY <1>0, <2>1, ToldPushed DEF Kinds
  <2> QED BY <1>1, <2>1, <2>2
<1>7. CASE BatchEnd
  <2>1. /\ UNCHANGED <<version, obs, dirty, subscribers, phase, queued,
                       subscriberStack>>
        /\ stack # <<>> /\ Head(stack).kind = "batch"
    BY <1>7 DEF BatchEnd, Running, values, graph
  <2>2. Tail(stack) \in Seq(Frames) /\ \A y : Told(Tail(stack), y) <=> Told(stack, y)
    BY <1>0, <2>1, PopProperties, ToldPopped
  <2>3. stack' = Tail(stack) \/ flushSubscribers(Tail(stack))
    BY <1>7 DEF BatchEnd
  <2>4. \A y : Told(stack', y) <=> Told(stack, y)
    BY <2>2, <2>3, ToldFlushed
  <2> QED BY <1>1, <2>1, <2>4
<1>8. CASE EffectReturns
  <2>1. /\ UNCHANGED <<version, obs, dirty, subscribers, phase, queued>>
        /\ stack # <<>> /\ Head(stack).kind = "run" /\ stack' = Tail(stack)
        /\ subscriberStack # <<>> /\ subscriberStack' = Tail(subscriberStack)
    BY <1>8 DEF EffectReturns, Running, values, graph, scheduler
  <2>2. \A y : Told(stack', y) <=> Told(stack, y)
    BY <1>0, <2>1, ToldPopped
  <2>3. \A y : Executing(y)' => Executing(y)
    BY <2>1, ExecutingPopped
  <2>4. \A y \in Subscribers : Exempt(y) => Exempt(y)'
    BY <2>1, <2>3 DEF Exempt
  <2> QED BY <2>1, <2>2, <2>4, CoveredQuiet
<1>9. CASE NotifyDone \/ FlushEnd
  <2>1. /\ UNCHANGED <<version, obs, dirty, subscribers, phase, queued,
                       subscriberStack>>
        /\ stack # <<>> /\ stack' = Tail(stack)
        /\ Head(stack).kind = "flush" \/ Head(stack).todo = {}
    BY <1>9 DEF NotifyDone, FlushEnd, Running, values, graph, scheduler
  <2>2. \A y : Told(stack', y) <=> Told(stack, y)
    BY <1>0, <2>1, ToldPopped
  <2> QED BY <1>1, <2>1, <2>2
<1>10. CASE FlushRound
  BY <1>1, <1>10 DEF FlushRound, values, graph, calls
<1>11. ASSUME NEW w \in Watchers, FlushSkip(w)
       PROVE  Covered'
  <2>1. /\ UNCHANGED <<version, obs, dirty, subscribers, phase, stack, subscriberStack>>
        /\ phase[w] = "stopped"
        /\ \A v \in Watchers : v # w => queued'[v] = queued[v]
    BY <1>11 DEF FlushSkip, values, graph, calls, TypeOK
  <2>2. \A y \in Subscribers : Exempt(y) => Exempt(y)'
    BY <2>1 DEF Exempt, Executing
  <2> QED BY <2>1, <2>2, CoveredQuiet
<1>12. CASE UNCHANGED vars
  BY <1>1, <1>12 DEF vars, values, graph, scheduler, calls
<1> QED
  BY <1>2, <1>3, <1>4, <1>5, <1>6, <1>7, <1>8, <1>9, <1>10, <1>11, <1>12
  DEF Next, Library, Returns, Calls

LEMMA CoveredInit ==
  ASSUME Init
  PROVE  Covered
BY DEF Init, Covered

\* Outside an unbatched notify loop, and when none is on top, no loop is left to
\* go on.
LEMMA QuietNothingToInvalidate ==
  ASSUME TypeOK, SchedulerInv, stack = <<>> \/ Head(stack).kind # "notify", ~Unbatched
  PROVE  \A y : ~ToInvalidate(y)
<1>1. stack \in Seq(Frames)
  BY DEF TypeOK
<1>2. ASSUME NEW j \in DOMAIN stack, stack[j].kind = "notify"
      PROVE  FALSE
  <2>1. /\ stack # <<>> /\ 1 \in DOMAIN stack /\ Head(stack) = stack[1]
        /\ j = 1 \/ 1 < j
    BY <1>1, <1>2
  <2>2. stack[1].kind # "notify"
    BY <2>1
  <2>3. 1 < j
    BY <1>2, <2>1, <2>2
  <2>4. \A m \in j .. Len(stack) : stack[m].kind \notin {"batch", "flush"}
    BY <1>2, <2>1, <2>2, <2>3 DEF SchedulerInv, SchedulerTells, InterruptedUnbatched
  <2> QED BY <1>2, <2>4 DEF Unbatched
<1> QED BY <1>2 DEF ToInvalidate, Told

\* Then nobody who needs news holds a reading that has been overwritten.
LEMMA NobodyMissedIt ==
  ASSUME TypeOK, Covered, \A y : ~ToInvalidate(y), NEW y \in Subscribers, ~Exempt(y)
  PROVE  Current(obs[y])
<1> SUFFICES ASSUME NEW r \in obs[y], r[2] # version[r[1]]
             PROVE  FALSE
  BY DEF Current
<1>1. Closed({}) /\ Seeded(r, {}) /\ {} \in SUBSET Subscribers
  BY DEF Closed, Seeded
<1> QED BY <1>1 DEF Covered

\* A reading that was overtaken stays so.
LEMMA OvertakenStays ==
  ASSUME [Next]_vars, ~overtaken'
  PROVE  ~overtaken
BY DEF Next, Library, Returns, Calls, GetState, GetCached, GetDirty, ComputeReturns,
   Set, Watch, Stop, BatchBegin, BatchEnd, EffectReturns, InvalidateComputed,
   QueueWatcher, SkipWatcher, NotifyDone, FlushRound, FlushRun, FlushSkip, FlushEnd,
   run, vars

FreshInv ==
  /\ SchedulerInv /\ QueueInCall
  /\ ~overtaken => ComputeInv /\ Covered

LEMMA FreshInit ==
  ASSUME Init
  PROVE  FreshInv
<1>1. QueueInCall /\ ComputeInv
  BY DEF Init, QueueInCall, ComputeInv, ComputedOnce, CallersTrack
<1> QED BY <1>1, SchedulerInit, CoveredInit DEF FreshInv

LEMMA FreshNext ==
  ASSUME TypeOK, SubscriptionSymmetry, FreshInv, [Next]_vars
  PROVE  FreshInv'
BY SchedulerNext, QueueInCallNext, ComputeNext, CoveredNext, OvertakenStays
DEF FreshInv

\* The scheduler's flags say what the call stack says, and, unless a reading was
\* overtaken, whoever has read an overwritten value is queued, is running or is
\* about to be told.
THEOREM FreshCorrect == Spec => []FreshInv
<1>1. Init => FreshInv
  BY FreshInit
<1>2. TypeOK /\ SubscriptionSymmetry /\ FreshInv /\ [Next]_vars => FreshInv'
  BY FreshNext
<1> QED BY <1>1, <1>2, TypeCorrect, SymmetryCorrect, PTL DEF Spec

\* A computed marked clean is up to date whenever user code runs outside an
\* unbatched notify loop, in the function of a computed too: unless a reading was
\* overtaken Get hands out no cached value of overwritten inputs.
THEOREM QuietCachesCurrentCorrect == Spec => []QuietCachesCurrent
<1>1. ASSUME TypeOK, FreshInv, UserCode, ~Unbatched, ~overtaken,
             NEW c \in Computeds, ~dirty[c]
      PROVE  Current(obs[c])
  <2>1. c \in Subscribers /\ ~Exempt(c)
    BY <1>1, KindsDisjoint DEF Subscribers, Exempt
  <2>2. \A y : ~ToInvalidate(y)
    BY <1>1, QuietNothingToInvalidate DEF FreshInv, UserCode, Running
  <2> QED BY <1>1, <2>1, <2>2, NobodyMissedIt DEF FreshInv
<1>2. TypeOK /\ FreshInv => QuietCachesCurrent
  BY <1>1 DEF QuietCachesCurrent
<1> QED BY <1>2, TypeCorrect, FreshCorrect, PTL

\* No update is lost: when control is back in the program the scheduler is idle
\* and, unless a reading was overtaken, no live watcher has read a value that has
\* been Set since.
THEOREM SettledFreshCorrect == Spec => []SettledFresh
<1>1. ASSUME TypeOK, FreshInv, QueueDiscipline, stack = <<>>
      PROVE  /\ pending = <<>> /\ round = <<>> /\ ~flushing /\ batchDepth = 0
             /\ ~overtaken => Fresh
  <2>1. ~flushing
    BY <1>1 DEF FreshInv, SchedulerInv, SchedulerTells, FlagTells
  <2>2. batchDepth = 0
    <3>1. BatchLevels(stack) = {}
      BY <1>1 DEF BatchLevels
    <3> QED BY <1>1, <3>1, FS_EmptySet
         DEF FreshInv, SchedulerInv, SchedulerTells, DepthTells
  <2>3. pending = <<>> /\ round = <<>>
    BY <1>1, <2>1, <2>2 DEF FreshInv, QueueInCall
  <2>4. ASSUME ~overtaken, NEW w \in Watchers, phase[w] = "live"
        PROVE  Current(obs[w])
    <3>1. ~queued[w]
      BY <2>3, <1>1 DEF QueueDiscipline
    <3>2. w \in Subscribers /\ ~Exempt(w)
      BY <2>4, <3>1 DEF Subscribers, Exempt
    <3>3. \A y : ~ToInvalidate(y)
      BY <1>1 DEF ToInvalidate, Told
    <3> QED BY <1>1, <2>4, <3>2, <3>3, NobodyMissedIt DEF FreshInv
  <2> QED BY <2>1, <2>2, <2>3, <2>4 DEF Fresh
<1>2. TypeOK /\ FreshInv /\ QueueDiscipline => SettledFresh
  BY <1>1 DEF SettledFresh
<1> QED BY <1>2, TypeCorrect, FreshCorrect, QueueCorrect, PTL

-----------------------------------------------------------------------------
(* Nothing is redone for nothing. *)

\* Unbatched, of any stack.
UnbatchedOn(st) ==
  \E i \in DOMAIN st :
    /\ st[i].kind = "notify"
    /\ \A j \in i .. Len(st) : st[j].kind \notin {"batch", "flush"}

\* A reading is of a version the state has had.
ReadPast == \A y \in Subscribers : \A r \in obs[y] : r[2] <= version[r[1]]

\* Who is subscribed to a state has read it.
StatesRead ==
  \A y \in Subscribers, s \in States : s \in deps[y] => \E r \in obs[y] : r[1] = s

\* y is suspended in a Get of c, which is being computed.
WaitsFor(y, c) ==
  \E i \in DOMAIN subscriberStack :
    /\ subscriberStack[i] = c
    /\ i + 1 \in DOMAIN subscriberStack /\ subscriberStack[i + 1] = y

\* Who is subscribed to a computed has read what this was computed from, waits
\* for it, or hears of its invalidation.
ComputedsRead ==
  \A y \in Subscribers, c \in Computeds : c \in deps[y] /\ ~Exempt(y) =>
    \/ ToInvalidate(y)
    \/ ~dirty[c] /\ obs[c] \subseteq obs[y]
    \/ WaitsFor(y, c)

\* What is not yet watched is nowhere.
NewIdle ==
  \A w \in Watchers : phase[w] = "new" =>
    ~queued[w] /\ deps[w] = {} /\ ~ToInvalidate(w) /\ ~Executing(w)

\* Outside an unbatched notify loop, what is to be invalidated or is queued has
\* read an overwritten value.
StaleOnly ==
  ~Unbatched =>
    /\ \A y \in Subscribers : ToInvalidate(y) => Exempt(y) \/ ~Current(obs[y])
    /\ \A w \in Watchers : queued[w] => ~Current(obs[w])

ReadInv ==
  /\ ReadPast /\ StatesRead /\ NewIdle
  /\ ~overtaken => ComputedsRead /\ StaleOnly

LEMMA UnbatchedPushed ==
  ASSUME NEW st \in Seq(Frames), NEW f \in Frames, UnbatchedOn(st)
  PROVE  UnbatchedOn(<<f>> \o st)
<1> DEFINE up == <<f>> \o st
<1>1. /\ DOMAIN up = 1 .. Len(st) + 1 /\ Len(up) = Len(st) + 1
      /\ DOMAIN st = 1 .. Len(st) /\ Len(st) \in Nat
      /\ \A i \in 1 .. Len(st) : up[i + 1] = st[i]
      /\ \A i \in 2 .. Len(st) + 1 : up[i] = st[i - 1]
  BY PushProperties
<1> HIDE DEF up
<1>2. PICK i \in DOMAIN st : /\ st[i].kind = "notify"
                             /\ \A j \in i .. Len(st) : st[j].kind \notin {"batch", "flush"}
  BY DEF UnbatchedOn
<1>3. i + 1 \in DOMAIN up /\ up[i + 1] = st[i]
  BY <1>1
<1>4. ASSUME NEW j \in (i + 1) .. Len(up)
      PROVE  up[j].kind \notin {"batch", "flush"}
  <2>1. j - 1 \in i .. Len(st) /\ j \in 2 .. Len(st) + 1
    BY <1>1, <1>4
  <2> QED BY <1>1, <1>2, <2>1
<1> QED BY <1>2, <1>3, <1>4 DEF UnbatchedOn, up

LEMMA UnbatchedPopped ==
  ASSUME NEW st \in Seq(Frames), st # <<>>, UnbatchedOn(st), Head(st).kind # "notify"
  PROVE  UnbatchedOn(Tail(st))
<1> DEFINE t == Tail(st)
<1>1. /\ DOMAIN t = 1 .. Len(st) - 1 /\ Len(t) = Len(st) - 1
      /\ DOMAIN st = 1 .. Len(st) /\ Len(st) \in Nat \ {0} /\ Head(st) = st[1]
      /\ \A i \in 1 .. Len(st) - 1 : t[i] = st[i + 1]
      /\ \A i \in 2 .. Len(st) : st[i] = t[i - 1]
  BY PopProperties
<1> HIDE DEF t
<1>2. PICK i \in DOMAIN st : /\ st[i].kind = "notify"
                             /\ \A j \in i .. Len(st) : st[j].kind \notin {"batch", "flush"}
  BY DEF UnbatchedOn
<1>3. i # 1
  BY <1>1, <1>2
<1>4. i - 1 \in DOMAIN t /\ t[i - 1] = st[i]
  BY <1>1, <1>3
<1>5. ASSUME NEW j \in (i - 1) .. Len(t)
      PROVE  t[j].kind \notin {"batch", "flush"}
  <2>1. j + 1 \in i .. Len(st) /\ j \in 1 .. Len(st) - 1
    BY <1>1, <1>3, <1>5
  <2> QED BY <1>1, <1>2, <2>1
<1> QED BY <1>2, <1>4, <1>5 DEF UnbatchedOn, t

LEMMA UnbatchedRest ==
  ASSUME TypeOK, Running("notify"), NEW x \in Subscribers, Unbatched
  PROVE  UnbatchedOn(Rest(x))
<1>1. /\ Rest(x) \in Seq(Frames) /\ Len(Rest(x)) = Len(stack)
      /\ \A i \in 1 .. Len(stack) : Rest(x)[i].kind = stack[i].kind
      /\ stack \in Seq(Frames)
  BY RestProperties DEF TypeOK
<1>2. /\ DOMAIN Rest(x) = 1 .. Len(stack) /\ DOMAIN stack = 1 .. Len(stack)
      /\ Len(stack) \in Nat
  BY <1>1
<1>3. PICK i \in DOMAIN stack :
        /\ stack[i].kind = "notify"
        /\ \A j \in i .. Len(stack) : stack[j].kind \notin {"batch", "flush"}
  BY DEF Unbatched
<1>4. \A j \in i .. Len(stack) : j \in 1 .. Len(stack)
  BY <1>2
<1> QED BY <1>1, <1>2, <1>3, <1>4 DEF UnbatchedOn

LEMMA UnbatchedFlushed ==
  ASSUME NEW below \in Seq(Frames), flushSubscribers(below), UnbatchedOn(below)
  PROVE  UnbatchedOn(stack')
<1>1. Frame("flush") \in Frames
  BY DEF Frame, Frames, Kinds
<1> QED BY <1>1, UnbatchedPushed DEF flushSubscribers

\* The steps that only move the scheduler on.
Quiet ==
  /\ UNCHANGED <<version, dirty, obs, subscribers, deps, phase, queued, subscriberStack>>
  /\ \A y \in Subscribers : ToInvalidate(y)' => ToInvalidate(y)
  /\ \A y \in Subscribers : ToInvalidate(y) => ToInvalidate(y)'
  /\ Unbatched => Unbatched'

LEMMA QuietSteps ==
  ASSUME TypeOK, BatchBegin \/ BatchEnd \/ FlushRound \/ FlushEnd \/ UNCHANGED vars
  PROVE  Quiet
<1>0. /\ stack \in Seq(Frames)
      /\ Frame("batch") \in Frames /\ Frame("batch").kind = "batch"
  BY DEF TypeOK, Frame, Frames, Kinds
<1>1. Unbatched = UnbatchedOn(stack) /\ Unbatched' = UnbatchedOn(stack')
  BY DEF Unbatched, UnbatchedOn
<1>2. CASE BatchBegin
  <2>1. /\ UNCHANGED <<version, dirty, obs, subscribers, deps, phase, queued,
                       subscriberStack>>
        /\ stack' = <<Frame("batch")>> \o stack
    BY <1>2 DEF BatchBegin, values, graph
  <2>2. \A y : Told(stack', y) <=> Told(stack, y)
    BY <1>0, <2>1, ToldPushed
  <2>3. Unbatched => Unbatched'
    BY <1>0, <1>1, <2>1, UnbatchedPushed
  <2> QED BY <2>1, <2>2, <2>3 DEF Quiet, ToInvalidate
<1>3. CASE BatchEnd
  <2>1. /\ UNCHANGED <<version, obs, dirty, subscribers, deps, phase, queued,
                       subscriberStack>>
        /\ stack # <<>> /\ Head(stack).kind = "batch"
        /\ stack' = Tail(stack) \/ flushSubscribers(Tail(stack))
    BY <1>3 DEF BatchEnd, Running, values, graph
  <2>2. Tail(stack) \in Seq(Frames) /\ \A y : Told(Tail(stack), y) <=> Told(stack, y)
    BY <1>0, <2>1, PopProperties, ToldPopped
  <2>3. \A y : Told(stack', y) <=> Told(stack, y)
    BY <2>1, <2>2, ToldFlushed
  <2>4. Unbatched => UnbatchedOn(Tail(stack))
    BY <1>0, <1>1, <2>1, UnbatchedPopped
  <2>5. Unbatched => Unbatched'
    BY <1>1, <2>1, <2>2, <2>4, UnbatchedFlushed
  <2> QED BY <2>1, <2>3, <2>5 DEF Quiet, ToInvalidate
<1>4. CASE FlushRound
  BY <1>4 DEF FlushRound, Quiet, values, graph, calls, ToInvalidate, Unbatched
<1>5. CASE FlushEnd
  <2>1. /\ UNCHANGED <<version, obs, dirty, subscribers, deps, phase, queued,
                       subscriberStack>>
        /\ stack # <<>> /\ Head(stack).kind = "flush" /\ stack' = Tail(stack)
    BY <1>5 DEF FlushEnd, Running, values, graph
  <2>2. \A y : Told(stack', y) <=> Told(stack, y)
    BY <1>0, <2>1, ToldPopped
  <2>3. Unbatched => Unbatched'
    BY <1>0, <1>1, <2>1, UnbatchedPopped
  <2> QED BY <2>1, <2>2, <2>3 DEF Quiet, ToInvalidate
<1>6. CASE UNCHANGED vars
  BY <1>6 DEF vars, Quiet, values, graph, scheduler, calls, ToInvalidate, Unbatched
<1> QED BY <1>2, <1>3, <1>4, <1>5, <1>6

\* Every step, with the quiet ones taken together.
LEMMA Steps ==
  ASSUME TypeOK, [Next]_vars
  PROVE  \/ \E s \in States : GetState(s) \/ Set(s)
         \/ \E c \in Computeds : GetCached(c) \/ GetDirty(c) \/ InvalidateComputed(c)
         \/ \E w \in Watchers : \/ Watch(w) \/ FlushRun(w) \/ Stop(w) \/ FlushSkip(w)
                                \/ QueueWatcher(w) \/ SkipWatcher(w)
         \/ ComputeReturns \/ EffectReturns \/ NotifyDone
         \/ Quiet
BY QuietSteps DEF Next, Library, Returns, Calls

LEMMA Tracked ==
  ASSUME TypeOK, NEW x \in Sources, NEW readings \in SUBSET Readings,
         deps' = addDependency(deps, x, currentSubscriber),
         obs' = observe(obs, currentSubscriber, readings)
  PROVE  \A y \in Subscribers :
           IF y = currentSubscriber
           THEN deps'[y] = deps[y] \cup {x} /\ obs'[y] = obs[y] \cup readings
           ELSE deps'[y] = deps[y] /\ obs'[y] = obs[y]
BY NoneIsNoSubscriber, CurrentSubscriberType DEF TypeOK, addDependency, observe

\* How a step changes what each subscriber has read and is subscribed to.
LEMMA GetStateReads ==
  ASSUME TypeOK, NEW s \in States, GetState(s)
  PROVE  \A y \in Subscribers :
           IF y = currentSubscriber
           THEN /\ deps'[y] = deps[y] \cup {s}
                /\ obs'[y] = obs[y] \cup {<<s, version[s]>>}
           ELSE deps'[y] = deps[y] /\ obs'[y] = obs[y]
<1>1. s \in Sources /\ {<<s, version[s]>>} \in SUBSET Readings
  BY DEF TypeOK, Sources, Readings
<1>2. /\ deps' = addDependency(deps, s, currentSubscriber)
      /\ obs' = observe(obs, currentSubscriber, {<<s, version[s]>>})
  BY DEF GetState
<1> QED BY <1>1, <1>2, Tracked

LEMMA GetCachedReads ==
  ASSUME TypeOK, NEW c \in Computeds, GetCached(c)
  PROVE  \A y \in Subscribers :
           IF y = currentSubscriber
           THEN deps'[y] = deps[y] \cup {c} /\ obs'[y] = obs[y] \cup obs[c]
           ELSE deps'[y] = deps[y] /\ obs'[y] = obs[y]
<1>1. c \in Sources /\ obs[c] \in SUBSET Readings
  BY DEF TypeOK, Sources, Subscribers
<1>2. /\ deps' = addDependency(deps, c, currentSubscriber)
      /\ obs' = observe(obs, currentSubscriber, obs[c])
  BY DEF GetCached
<1> QED BY <1>1, <1>2, Tracked

LEMMA GetDirtyReads ==
  ASSUME TypeOK, NEW c \in Computeds, GetDirty(c)
  PROVE  /\ deps'[c] = {} /\ obs'[c] = {}
         /\ \A y \in Subscribers : y # c =>
              /\ obs'[y] = obs[y]
              /\ deps'[y] = IF y = currentSubscriber THEN deps[y] \cup {c} ELSE deps[y]
<1>1. /\ deps' = removeDependencies(addDependency(deps, c, currentSubscriber), c)
      /\ obs' = [obs EXCEPT ![c] = {}]
  BY DEF GetDirty
<1>2. /\ c \in Subscribers /\ deps \in [Subscribers -> SUBSET Sources]
      /\ obs \in [Subscribers -> SUBSET Readings]
  BY DEF TypeOK, Subscribers
<1> DEFINE ds == addDependency(deps, c, currentSubscriber)
<1>3. /\ DOMAIN ds = Subscribers
      /\ \A y \in Subscribers : y # c =>
           ds[y] = IF y = currentSubscriber THEN deps[y] \cup {c} ELSE deps[y]
  BY <1>2, NoneIsNoSubscriber DEF addDependency
<1> HIDE DEF ds
<1>4. deps' = [ds EXCEPT ![c] = {}]
  BY <1>1 DEF removeDependencies, ds
<1> QED BY <1>1, <1>2, <1>3, <1>4

LEMMA RunReads ==
  ASSUME TypeOK, NEW w \in Watchers, Watch(w) \/ FlushRun(w)
  PROVE  /\ deps'[w] = {} /\ obs'[w] = {}
         /\ \A y \in Subscribers : y # w => obs'[y] = obs[y] /\ deps'[y] = deps[y]
<1>1. deps' = [deps EXCEPT ![w] = {}] /\ obs' = [obs EXCEPT ![w] = {}]
  BY DEF Watch, FlushRun, run, removeDependencies
<1> QED BY <1>1 DEF TypeOK, Subscribers

LEMMA StopReads ==
  ASSUME TypeOK, NEW w \in Watchers, Stop(w)
  PROVE  /\ deps'[w] = {} /\ obs' = obs
         /\ \A y \in Subscribers : y # w => deps'[y] = deps[y]
<1>1. deps' = [deps EXCEPT ![w] = {}] /\ obs' = obs
  BY DEF Stop, removeDependencies, values
<1> QED BY <1>1 DEF TypeOK, Subscribers

LEMMA ComputeReturnsReads ==
  ASSUME TypeOK, ComputeReturns
  PROVE  /\ deps' = deps
         /\ \A y \in Subscribers :
              obs'[y] = obs[y] \/ obs'[y] = obs[y] \cup obs[Head(subscriberStack)]
<1>1. /\ deps' = deps
      /\ obs' = observe(obs, IF Tail(subscriberStack) = <<>> THEN None
                             ELSE Head(Tail(subscriberStack)),
                        obs[Head(subscriberStack)])
  BY DEF ComputeReturns, graph
<1> QED BY <1>1 DEF TypeOK, observe

LEMMA HistoryNext ==
  ASSUME TypeOK, ReadPast, StatesRead, [Next]_vars
  PROVE  ReadPast' /\ StatesRead'
<1> USE DEF ReadPast, StatesRead
<1>0. /\ version \in [States -> 0 .. MaxVersion] /\ MaxVersion \in Nat
      /\ \A y \in Subscribers : \A r \in obs[y] : r[1] \in States /\ r[2] \in Nat
      /\ \A s \in States : version[s] \in Nat
  BY BoundsType DEF TypeOK, Readings
<1>1. CASE UNCHANGED <<version, obs, deps>>
  BY <1>1
<1>2. ASSUME NEW s \in States, GetState(s)
      PROVE  ReadPast' /\ StatesRead'
  <2>1. version' = version
    BY <1>2 DEF GetState
  <2>2. \A y \in Subscribers :
          /\ obs[y] \subseteq obs'[y]
          /\ \A r \in obs'[y] : r \in obs[y] \/ r = <<s, version[s]>>
          /\ \A x \in deps'[y] : x \in deps[y] \/ (x = s /\ <<s, version[s]>> \in obs'[y])
    BY <1>2, GetStateReads
  <2>3. ReadPast'
    BY <1>0, <2>1, <2>2
  <2>4. StatesRead'
    <3> TAKE y \in Subscribers, t \in States
    <3> HAVE t \in deps'[y]
    <3>1. CASE t \in deps[y]
      BY <2>2, <3>1
    <3>2. CASE t = s /\ <<s, version[s]>> \in obs'[y]
      <4>1. <<s, version[s]>>[1] = t
        BY <3>2
      <4> QED BY <3>2, <4>1
    <3> QED BY <2>2, <3>1, <3>2
  <2> QED BY <2>3, <2>4
<1>3. ASSUME NEW s \in States, Set(s)
      PROVE  ReadPast' /\ StatesRead'
  <2>1. version' = [version EXCEPT ![s] = @ + 1] /\ UNCHANGED <<obs, deps>>
    BY <1>3 DEF Set, graph
  <2>2. \A t \in States : version[t] <= version'[t] /\ version'[t] \in Nat
    BY <1>0, <2>1
  <2> QED BY <1>0, <2>1, <2>2
<1>4. ASSUME NEW c \in Computeds, GetCached(c)
      PROVE  ReadPast' /\ StatesRead'
  <2>1. version' = version /\ c \notin States /\ c \in Subscribers
    BY <1>4, KindsDisjoint DEF GetCached, Subscribers
  <2> QED BY <1>0, <1>4, <2>1, GetCachedReads
<1>5. ASSUME NEW c \in Computeds, GetDirty(c)
      PROVE  ReadPast' /\ StatesRead'
  <2>1. version' = version /\ c \notin States
    BY <1>5, KindsDisjoint DEF GetDirty
  <2>2. \A y \in Subscribers :
          \/ obs'[y] = {} /\ deps'[y] = {}
          \/ obs'[y] = obs[y] /\ (deps'[y] = deps[y] \/ deps'[y] = deps[y] \cup {c})
    <3>1. /\ deps'[c] = {} /\ obs'[c] = {}
          /\ \A y \in Subscribers : y # c =>
               /\ obs'[y] = obs[y]
               /\ deps'[y] = IF y = currentSubscriber THEN deps[y] \cup {c} ELSE deps[y]
      BY <1>5, GetDirtyReads
    <3> TAKE y \in Subscribers
    <3>2. CASE y = c
      BY <3>1, <3>2
    <3>3. CASE y # c /\ y = currentSubscriber
      BY <3>1, <3>3
    <3>4. CASE y # c /\ y # currentSubscriber
      BY <3>1, <3>4
    <3> QED BY <3>2, <3>3, <3>4
  <2> QED BY <1>0, <2>1, <2>2
<1>6. ASSUME NEW w \in Watchers, Watch(w) \/ FlushRun(w)
      PROVE  ReadPast' /\ StatesRead'
  <2>1. version' = version
    BY <1>6 DEF Watch, FlushRun
  <2> QED BY <1>0, <1>6, <2>1, RunReads
<1>7. ASSUME NEW w \in Watchers, Stop(w)
      PROVE  ReadPast' /\ StatesRead'
  <2>1. version' = version
    BY <1>7 DEF Stop, values
  <2> QED BY <1>0, <1>7, <2>1, StopReads
<1>8. CASE ComputeReturns
  <2>1. version' = version /\ Head(subscriberStack) \in Subscribers
    BY <1>8 DEF ComputeReturns, Subscribers
  <2> QED BY <1>0, <1>8, <2>1, ComputeReturnsReads
<1>9. ASSUME NEW w \in Watchers, FlushSkip(w) \/ QueueWatcher(w) \/ SkipWatcher(w)
      PROVE  UNCHANGED <<version, obs, deps>>
  BY <1>9 DEF FlushSkip, QueueWatcher, SkipWatcher, values, graph
<1>10. ASSUME NEW c \in Computeds, InvalidateComputed(c)
       PROVE  UNCHANGED <<version, obs, deps>>
  BY <1>10 DEF InvalidateComputed, graph
<1>11. ASSUME EffectReturns \/ NotifyDone \/ Quiet
       PROVE  UNCHANGED <<version, obs, deps>>
  BY <1>11 DEF EffectReturns, NotifyDone, Quiet, values, graph
<1> QED BY <1>1, <1>2, <1>3, <1>4, <1>5, <1>6, <1>7, <1>8, <1>9, <1>10, <1>11, Steps

LEMMA WaitsPushed ==
  ASSUME TypeOK, NEW x \in Subscribers, NEW y, NEW c,
         subscriberStack' = <<x>> \o subscriberStack
  PROVE  /\ WaitsFor(y, c) => WaitsFor(y, c)'
         /\ y \in Subscribers /\ y = currentSubscriber => WaitsFor(y, x)'
<1> DEFINE ss == <<x>> \o subscriberStack
<1>1. subscriberStack \in Seq(Subscribers)
  BY DEF TypeOK
<1>2. /\ DOMAIN ss = 1 .. Len(subscriberStack) + 1 /\ ss[1] = x
      /\ DOMAIN subscriberStack = 1 .. Len(subscriberStack)
      /\ Len(subscriberStack) \in Nat
      /\ \A i \in DOMAIN subscriberStack : ss[i + 1] = subscriberStack[i]
  BY <1>1, PushProperties
<1>3. subscriberStack' = ss
  OBVIOUS
<1> HIDE DEF ss
<1>4. ASSUME WaitsFor(y, c)
      PROVE  WaitsFor(y, c)'
  <2>1. PICK i \in DOMAIN subscriberStack :
          /\ subscriberStack[i] = c
          /\ i + 1 \in DOMAIN subscriberStack /\ subscriberStack[i + 1] = y
    BY <1>4 DEF WaitsFor
  <2>2. /\ i + 1 \in DOMAIN ss /\ ss[i + 1] = c
        /\ (i + 1) + 1 \in DOMAIN ss /\ ss[(i + 1) + 1] = y
    BY <1>2, <2>1
  <2> QED BY <1>3, <2>2 DEF WaitsFor
<1>5. ASSUME y \in Subscribers, y = currentSubscriber
      PROVE  WaitsFor(y, x)'
  <2>1. subscriberStack # <<>> /\ Head(subscriberStack) = y
    BY <1>5, NoneIsNoSubscriber DEF currentSubscriber
  <2>2. 1 \in DOMAIN subscriberStack /\ subscriberStack[1] = y
    BY <1>1, <2>1
  <2>3. 1 \in DOMAIN ss /\ 1 + 1 \in DOMAIN ss /\ ss[1 + 1] = y
    BY <1>2, <2>2
  <2> QED BY <1>2, <1>3, <2>3 DEF WaitsFor
<1> QED BY <1>4, <1>5

LEMMA WaitsPopped ==
  ASSUME TypeOK, NEW y, NEW c, subscriberStack # <<>>,
         subscriberStack' = Tail(subscriberStack), WaitsFor(y, c)
  PROVE  \/ WaitsFor(y, c)'
         \/ /\ c = Head(subscriberStack)
            /\ Tail(subscriberStack) # <<>> /\ y = Head(Tail(subscriberStack))
<1> DEFINE ss == Tail(subscriberStack)
<1>1. subscriberStack \in Seq(Subscribers)
  BY DEF TypeOK
<1>2. /\ ss \in Seq(Subscribers) /\ Len(ss) = Len(subscriberStack) - 1
      /\ DOMAIN subscriberStack = 1 .. Len(subscriberStack)
      /\ Len(subscriberStack) \in Nat \ {0}
      /\ Head(subscriberStack) = subscriberStack[1]
      /\ \A i \in 2 .. Len(subscriberStack) : subscriberStack[i] = ss[i - 1]
  BY <1>1, PopProperties
<1>3. subscriberStack' = ss
  OBVIOUS
<1> HIDE DEF ss
<1>4. DOMAIN ss = 1 .. Len(subscriberStack) - 1
  BY <1>2
<1>5. PICK i \in DOMAIN subscriberStack :
        /\ subscriberStack[i] = c
        /\ i + 1 \in DOMAIN subscriberStack /\ subscriberStack[i + 1] = y
  BY DEF WaitsFor
<1>6. CASE i = 1
  <2>1. 1 \in DOMAIN ss /\ ss[1] = y
    BY <1>2, <1>4, <1>5, <1>6
  <2>2. ss # <<>> /\ Head(ss) = y
    BY <1>2, <2>1
  <2> QED BY <1>2, <1>5, <1>6, <2>2 DEF ss
<1>7. CASE i # 1
  <2>1. /\ i - 1 \in DOMAIN ss /\ ss[i - 1] = c
        /\ (i - 1) + 1 \in DOMAIN ss /\ ss[(i - 1) + 1] = y
    BY <1>2, <1>4, <1>5, <1>7
  <2> QED BY <1>3, <2>1 DEF WaitsFor
<1> QED BY <1>6, <1>7

\* Who reads is executing; a computed that is executing is dirty.
LEMMA ReaderExecutes ==
  ASSUME TypeOK, currentSubscriber \in Subscribers
  PROVE  /\ Executing(currentSubscriber)
         /\ ComputeInv /\ currentSubscriber \in Computeds => dirty[currentSubscriber]
<1>1. subscriberStack \in Seq(Subscribers)
  BY DEF TypeOK
<1>2. subscriberStack # <<>> /\ currentSubscriber = Head(subscriberStack)
  BY NoneIsNoSubscriber DEF currentSubscriber
<1>3. 1 \in DOMAIN subscriberStack /\ subscriberStack[1] = currentSubscriber
  BY <1>1, <1>2
<1> QED BY <1>3 DEF Executing, ComputeInv, ComputedOnce

LEMMA ComputedsReadKept ==
  ASSUME ComputedsRead,
         \A y \in Subscribers :
           \/ deps'[y] = {}
           \/ Exempt(y)'
           \/ /\ ~Exempt(y) /\ obs[y] \subseteq obs'[y]
              /\ ToInvalidate(y) => ToInvalidate(y)'
              /\ \A c \in Computeds : c \in deps'[y] =>
                   \/ ToInvalidate(y)' \/ WaitsFor(y, c)'
                   \/ ~dirty'[c] /\ obs'[c] \subseteq obs'[y]
                   \/ /\ c \in deps[y]
                      /\ WaitsFor(y, c) => WaitsFor(y, c)'
                      /\ ~dirty[c] => ~dirty'[c] /\ obs'[c] = obs[c]
  PROVE  ComputedsRead'
<1> SUFFICES ASSUME NEW y \in Subscribers, NEW c \in Computeds, c \in deps'[y], ~Exempt(y)'
             PROVE  \/ ToInvalidate(y)'
                    \/ ~dirty'[c] /\ obs'[c] \subseteq obs'[y]
                    \/ WaitsFor(y, c)'
  BY DEF ComputedsRead
<1>1. /\ ~Exempt(y) /\ obs[y] \subseteq obs'[y] /\ (ToInvalidate(y) => ToInvalidate(y)')
      /\ \/ ToInvalidate(y)' \/ WaitsFor(y, c)'
         \/ ~dirty'[c] /\ obs'[c] \subseteq obs'[y]
         \/ /\ c \in deps[y]
            /\ WaitsFor(y, c) => WaitsFor(y, c)'
            /\ ~dirty[c] => ~dirty'[c] /\ obs'[c] = obs[c]
  OBVIOUS
<1> QED BY <1>1 DEF ComputedsRead

LEMMA GetComputedsRead ==
  ASSUME TypeOK, ComputeInv, ComputedsRead,
         (\E s \in States : GetState(s)) \/ (\E c \in Computeds : GetCached(c))
  PROVE  ComputedsRead'
<1>1. /\ UNCHANGED <<dirty, phase, queued, stack, subscriberStack>>
      /\ \A y \in Subscribers : y # currentSubscriber =>
           deps'[y] = deps[y] /\ obs'[y] = obs[y]
      /\ \A y \in Subscribers : /\ obs[y] \subseteq obs'[y]
                                /\ \A c \in Computeds : c \in deps'[y] =>
                                     c \in deps[y] \/ (~dirty[c] /\ obs[c] \subseteq obs'[y])
  <2>1. CASE \E s \in States : GetState(s)
    <3>1. PICK s \in States : GetState(s)
      BY <2>1
    <3>2. UNCHANGED <<dirty, phase, queued, stack, subscriberStack>>
      BY <3>1 DEF GetState, scheduler, calls
    <3> QED BY <3>1, <3>2, GetStateReads, KindsDisjoint
  <2>2. CASE \E c \in Computeds : GetCached(c)
    <3>1. PICK c \in Computeds : GetCached(c)
      BY <2>2
    <3>2. UNCHANGED <<dirty, phase, queued, stack, subscriberStack>> /\ ~dirty[c]
      BY <3>1 DEF GetCached, scheduler, calls
    <3> QED BY <3>1, <3>2, GetCachedReads
  <2> QED BY <2>1, <2>2
<1>2. \A y : /\ Exempt(y)' <=> Exempt(y)
             /\ ToInvalidate(y)' <=> ToInvalidate(y)
             /\ \A c : WaitsFor(y, c)' <=> WaitsFor(y, c)
  BY <1>1 DEF Exempt, Executing, ToInvalidate, WaitsFor
<1>3. \A c \in Computeds : ~dirty[c] => obs'[c] = obs[c]
  BY <1>1, ReaderExecutes DEF Subscribers
<1> QED BY <1>1, <1>2, <1>3, ComputedsReadKept

LEMMA GetDirtyComputedsRead ==
  ASSUME TypeOK, ComputedsRead, NEW c \in Computeds, GetDirty(c)
  PROVE  ComputedsRead'
<1>1. /\ UNCHANGED <<dirty, phase, queued>> /\ dirty[c]
      /\ stack' = <<Frame("compute")>> \o stack
      /\ subscriberStack' = <<c>> \o subscriberStack
  BY DEF GetDirty, Start, scheduler
<1>2. /\ c \in Subscribers /\ c \notin Watchers /\ stack \in Seq(Frames)
      /\ Frame("compute") \in Frames /\ Frame("compute").kind = "compute"
  BY KindsDisjoint DEF TypeOK, Subscribers, Frame, Frames, Kinds
<1>3. \A y : ToInvalidate(y)' <=> ToInvalidate(y)
  BY <1>1, <1>2, ToldPushed DEF ToInvalidate
<1>4. \A y \in Subscribers : y # c /\ Exempt(y) => Exempt(y)'
  BY <1>1, <1>2, ExecutingPushed DEF Exempt
<1>5. \A y \in Subscribers : /\ \A d : WaitsFor(y, d) => WaitsFor(y, d)'
                             /\ y = currentSubscriber => WaitsFor(y, c)'
  BY <1>1, <1>2, WaitsPushed
<1>6. /\ deps'[c] = {}
      /\ \A y \in Subscribers : y # c =>
           /\ obs'[y] = obs[y]
           /\ deps'[y] = IF y = currentSubscriber THEN deps[y] \cup {c} ELSE deps[y]
  BY GetDirtyReads
<1>7. \A y \in Subscribers, d \in Computeds : y # c /\ d \in deps'[y] =>
        d \in deps[y] \/ WaitsFor(y, d)'
  BY <1>5, <1>6
<1>8. \A d \in Computeds : ~dirty[d] => ~dirty'[d] /\ obs'[d] = obs[d]
  BY <1>1, <1>6 DEF Subscribers
<1> QED BY <1>3, <1>4, <1>5, <1>6, <1>7, <1>8, ComputedsReadKept

LEMMA RunComputedsRead ==
  ASSUME TypeOK, ComputedsRead, NEW w \in Watchers, Watch(w) \/ FlushRun(w)
  PROVE  ComputedsRead'
<1>1. /\ stack' = <<Frame("run")>> \o stack
      /\ subscriberStack' = <<w>> \o subscriberStack /\ dirty' = dirty
      /\ \A v \in Watchers : v # w => phase'[v] = phase[v] /\ queued'[v] = queued[v]
  BY DEF Watch, FlushRun, run, Start, scheduler, TypeOK
<1>2. /\ w \in Subscribers /\ w \notin Computeds /\ stack \in Seq(Frames)
      /\ Frame("run") \in Frames /\ Frame("run").kind = "run"
  BY KindsDisjoint DEF TypeOK, Subscribers, Frame, Frames, Kinds
<1>3. \A y : ToInvalidate(y)' <=> ToInvalidate(y)
  BY <1>1, <1>2, ToldPushed DEF ToInvalidate
<1>4. \A y \in Subscribers : y # w /\ Exempt(y) => Exempt(y)'
  BY <1>1, <1>2, ExecutingPushed DEF Exempt
<1>5. \A y \in Subscribers : \A d : WaitsFor(y, d) => WaitsFor(y, d)'
  BY <1>1, <1>2, WaitsPushed
<1>6. /\ deps'[w] = {}
      /\ \A y \in Subscribers : y # w => obs'[y] = obs[y] /\ deps'[y] = deps[y]
  BY RunReads
<1>7. \A d \in Computeds : obs'[d] = obs[d]
  BY <1>2, <1>6 DEF Subscribers
<1> QED BY <1>1, <1>3, <1>4, <1>5, <1>6, <1>7, ComputedsReadKept

LEMMA ComputeReturnsComputedsRead ==
  ASSUME TypeOK, ComputeInv, ComputedsRead, ComputeReturns
  PROVE  ComputedsRead'
<1> DEFINE c == Head(subscriberStack)
           caller == IF Tail(subscriberStack) = <<>> THEN None
                     ELSE Head(Tail(subscriberStack))
<1>1. /\ stack # <<>> /\ Head(stack).kind = "compute" /\ subscriberStack # <<>>
      /\ c \in Computeds
      /\ dirty' = [dirty EXCEPT ![c] = FALSE]
      /\ obs' = observe(obs, caller, obs[c])
      /\ stack' = Tail(stack) /\ subscriberStack' = Tail(subscriberStack)
      /\ UNCHANGED <<version, deps, phase, queued>>
  BY DEF ComputeReturns, Running, graph, scheduler
<1>2. /\ stack \in Seq(Frames) /\ subscriberStack \in Seq(Subscribers)
      /\ dirty \in [Computeds -> BOOLEAN] /\ obs \in [Subscribers -> SUBSET Readings]
      /\ c \in Subscribers /\ c \notin Watchers
  BY <1>1, KindsDisjoint DEF TypeOK, Subscribers
<1>3. /\ 1 \in DOMAIN subscriberStack /\ subscriberStack[1] = c
      /\ Tail(subscriberStack) \in Seq(Subscribers)
  BY <1>1, <1>2, PopProperties
<1>4. caller # None =>
        /\ caller \in Subscribers
        /\ \E i \in DOMAIN subscriberStack : i # 1 /\ subscriberStack[i] = caller
  <2> DEFINE ss == Tail(subscriberStack)
  <2>1. \A i \in DOMAIN ss : /\ i + 1 \in DOMAIN subscriberStack /\ i + 1 # 1
                             /\ ss[i] = subscriberStack[i + 1]
    BY <1>1, <1>2, PopProperties
  <2>2. ss \in Seq(Subscribers)
    BY <1>3
  <2> HIDE DEF ss
  <2>3. ss # <<>> => 1 \in DOMAIN ss /\ Head(ss) = ss[1] /\ Head(ss) \in Subscribers
    BY <2>2
  <2>4. ss # <<>> => \E i \in DOMAIN subscriberStack :
                       i # 1 /\ subscriberStack[i] = Head(ss)
    BY <2>1, <2>3
  <2> QED BY <2>3, <2>4 DEF ss
<1>5. dirty[c] /\ \A j \in DOMAIN subscriberStack : subscriberStack[j] = c => j = 1
  BY <1>1, <1>3 DEF ComputeInv, ComputedOnce
<1>6. caller # c /\ (caller \in Computeds => dirty[caller])
  <2>1. caller # None => caller # c
    BY <1>4, <1>5
  <2>2. caller \in Computeds => caller # None
    BY NoneIsNoSubscriber DEF Subscribers
  <2>3. caller \in Computeds => dirty[caller]
    BY <1>4, <2>2 DEF ComputeInv, ComputedOnce
  <2>4. c # None
    BY <1>2, NoneIsNoSubscriber
  <2> QED BY <2>1, <2>3, <2>4
<1>7. \A y : Executing(y) <=> y = c \/ Executing(y)'
  BY <1>1, ExecutingPopped
<1>8. \A y : ToInvalidate(y)' <=> ToInvalidate(y)
  BY <1>1, <1>2, ToldPopped DEF ToInvalidate
<1>9. ASSUME NEW y \in Subscribers, NEW d, WaitsFor(y, d)
      PROVE  WaitsFor(y, d)' \/ (d = c /\ y = caller)
  BY <1>1, <1>9, WaitsPopped
<1> HIDE DEF c, caller
<1>10. \A y \in Subscribers : Exempt(y) => Exempt(y)'
  BY <1>1, <1>2, <1>7 DEF Exempt
<1>11. \A y \in Subscribers : /\ obs[y] \subseteq obs'[y]
                              /\ y # caller => obs'[y] = obs[y]
                              /\ y = caller => obs'[y] = obs[y] \cup obs[c]
  BY <1>1, <1>2, NoneIsNoSubscriber DEF observe
<1>12. \A d \in Computeds : ~dirty[d] => ~dirty'[d] /\ obs'[d] = obs[d]
  BY <1>1, <1>2, <1>6, <1>11 DEF Subscribers
<1>13. ~dirty'[c] /\ obs'[c] = obs[c]
  BY <1>1, <1>2, <1>6, <1>11
<1> SUFFICES ASSUME NEW y \in Subscribers, NEW d \in Computeds, d \in deps'[y], ~Exempt(y)'
             PROVE  \/ ToInvalidate(y)'
                    \/ ~dirty'[d] /\ obs'[d] \subseteq obs'[y]
                    \/ WaitsFor(y, d)'
  BY DEF ComputedsRead
<1>14. \/ ToInvalidate(y)
       \/ ~dirty[d] /\ obs[d] \subseteq obs[y]
       \/ WaitsFor(y, d)
  BY <1>1, <1>10 DEF ComputedsRead
<1>15. CASE ToInvalidate(y)
  BY <1>8, <1>15
<1>16. CASE ~dirty[d] /\ obs[d] \subseteq obs[y]
  BY <1>11, <1>12, <1>16
<1>17. CASE WaitsFor(y, d)
  BY <1>9, <1>11, <1>13, <1>17
<1> QED BY <1>14, <1>15, <1>16, <1>17

\* What a notify loop does to the others it names when it takes c.
LEMMA InvalidateComputedTells ==
  ASSUME TypeOK, NEW c \in Computeds, InvalidateComputed(c)
  PROVE  /\ UNCHANGED <<version, obs, deps, phase, queued, subscriberStack>>
         /\ ToInvalidate(c) /\ dirty'[c]
         /\ \A d \in Computeds : d # c => dirty'[d] = dirty[d]
         /\ \A y : Exempt(y) => Exempt(y)'
         /\ ~Executing(c) => Exempt(c)'
         /\ \A y : ToInvalidate(y) => y = c \/ ToInvalidate(y)'
         /\ \A y : ToInvalidate(y)' =>
              ToInvalidate(y) \/ (~dirty[c] /\ y \in subscribers[c])
         /\ ~dirty[c] => \A y \in subscribers[c] : ToInvalidate(y)'
         /\ Unbatched => Unbatched'
<1>1. /\ Running("notify") /\ stack # <<>> /\ Head(stack).kind = "notify"
      /\ dirty' = [dirty EXCEPT ![c] = TRUE] /\ c \in Head(stack).todo
      /\ stack' = IF dirty[c] THEN Rest(c) ELSE <<NotifyFrame(c)>> \o Rest(c)
      /\ UNCHANGED <<version, obs, deps, phase, queued, subscriberStack>>
  BY DEF InvalidateComputed, Running, graph, scheduler
<1>2. /\ c \in Subscribers /\ c \notin Watchers /\ stack \in Seq(Frames)
      /\ dirty \in [Computeds -> BOOLEAN] /\ NotifyFrame(c) \in Frames
      /\ NotifyFrame(c).kind = "notify" /\ NotifyFrame(c).todo = subscribers[c]
      /\ Rest(c) \in Seq(Frames)
  BY <1>1, FrameTypes, KindsDisjoint DEF TypeOK, Sources, Subscribers, NotifyFrame
<1>3. \A y : Told(<<NotifyFrame(c)>> \o Rest(c), y) <=>
               y \in subscribers[c] \/ Told(Rest(c), y)
  BY <1>2, ToldPushed
<1>4. \A y : /\ Told(stack, y) => y = c \/ Told(Rest(c), y)
             /\ Told(Rest(c), y) => Told(stack, y)
  BY <1>1, <1>2, ToldRest
<1>5. ToInvalidate(c)
  BY <1>1, <1>2, ToldPopped DEF ToInvalidate
<1>6. dirty'[c] /\ \A d \in Computeds : d # c => dirty'[d] = dirty[d]
  BY <1>1, <1>2
<1>7. ~Executing(c) => Exempt(c)'
  BY <1>1, <1>2, <1>6 DEF Exempt, Executing
<1>8. \A y : Exempt(y) => Exempt(y)'
  <2>1. dirty' = [dirty EXCEPT ![c] = TRUE] /\ DOMAIN dirty = Computeds
    BY <1>1, <1>2
  <2>2. ASSUME NEW y
        PROVE  dirty[y] => dirty'[y]
    BY <2>1
  <2> QED BY <1>1, <2>2 DEF Exempt, Executing
<1>9. Unbatched => Unbatched'
  <2>1. Unbatched => UnbatchedOn(Rest(c))
    BY <1>1, <1>2, UnbatchedRest
  <2>2. UnbatchedOn(Rest(c)) => UnbatchedOn(<<NotifyFrame(c)>> \o Rest(c))
    BY <1>2, UnbatchedPushed
  <2>3. Unbatched' = UnbatchedOn(stack')
    BY DEF Unbatched, UnbatchedOn
  <2> QED BY <1>1, <2>1, <2>2, <2>3
<1>10. \A y : ToInvalidate(y) => y = c \/ ToInvalidate(y)'
  BY <1>1, <1>3, <1>4 DEF ToInvalidate
<1>11. \A y : ToInvalidate(y)' =>
         ToInvalidate(y) \/ (~dirty[c] /\ y \in subscribers[c])
  BY <1>1, <1>3, <1>4 DEF ToInvalidate
<1>12. ~dirty[c] => \A y \in subscribers[c] : ToInvalidate(y)'
  BY <1>1, <1>3 DEF ToInvalidate
<1> QED BY <1>1, <1>5, <1>6, <1>7, <1>8, <1>9, <1>10, <1>11, <1>12

\* The same for a watcher.
LEMMA InvalidateWatcherTells ==
  ASSUME TypeOK, NEW w \in Watchers, QueueWatcher(w) \/ SkipWatcher(w)
  PROVE  /\ UNCHANGED <<version, obs, dirty, deps, phase, subscriberStack>>
         /\ ToInvalidate(w)
         /\ \A v \in Watchers : v # w => queued'[v] = queued[v]
         /\ \A y : Exempt(y) => Exempt(y)'
         /\ Exempt(w)'
         /\ \A y : ToInvalidate(y) => y = w \/ ToInvalidate(y)'
         /\ \A y : ToInvalidate(y)' => ToInvalidate(y)
         /\ Unbatched => Unbatched'
<1>1. /\ Running("notify") /\ stack # <<>> /\ Head(stack).kind = "notify"
      /\ w \in Head(stack).todo
      /\ UNCHANGED <<version, obs, dirty, deps, phase, subscriberStack>>
  BY DEF QueueWatcher, SkipWatcher, Running, values, graph
<1>2. /\ w \in Subscribers /\ stack \in Seq(Frames)
      /\ queued \in [Watchers -> BOOLEAN] /\ Rest(w) \in Seq(Frames)
  BY <1>1, RestProperties DEF TypeOK, Subscribers
<1>3. /\ queued'[w] \/ phase[w] = "stopped"
      /\ \A v \in Watchers : /\ v # w => queued'[v] = queued[v]
                             /\ queued[v] => queued'[v]
  BY <1>2 DEF QueueWatcher, SkipWatcher, scheduler
<1>4. stack' = Rest(w) \/ flushSubscribers(Rest(w))
  BY DEF QueueWatcher, SkipWatcher
<1>5. \A y : Told(stack', y) <=> Told(Rest(w), y)
  BY <1>2, <1>4, ToldFlushed
<1>6. \A y : /\ ToInvalidate(y) => y = w \/ ToInvalidate(y)'
             /\ ToInvalidate(y)' => ToInvalidate(y)
  BY <1>1, <1>2, <1>5, ToldRest DEF ToInvalidate
<1>7. ToInvalidate(w)
  BY <1>1, <1>2, ToldPopped DEF ToInvalidate
<1>8. Exempt(w)' /\ \A y : Exempt(y) => Exempt(y)'
  BY <1>1, <1>3 DEF Exempt, Executing
<1>9. Unbatched => Unbatched'
  <2>1. Unbatched => UnbatchedOn(Rest(w))
    BY <1>1, <1>2, UnbatchedRest
  <2>2. UnbatchedOn(Rest(w)) => UnbatchedOn(stack')
    BY <1>2, <1>4, UnbatchedFlushed
  <2>3. Unbatched' = UnbatchedOn(stack')
    BY DEF Unbatched, UnbatchedOn
  <2> QED BY <2>1, <2>2, <2>3
<1> QED BY <1>1, <1>3, <1>6, <1>7, <1>8, <1>9

LEMMA ComputedsReadNext ==
  ASSUME TypeOK, SubscriptionSymmetry, ComputeInv, ComputedsRead, [Next]_vars,
         ~overtaken'
  PROVE  ComputedsRead'
<1>0. stack \in Seq(Frames) /\ \A c \in Computeds : c \in Subscribers /\ c \in Sources
  BY DEF TypeOK, Subscribers, Sources
<1>1. ASSUME UNCHANGED <<dirty, obs, deps>>,
             \A y \in Subscribers :
               /\ Exempt(y) => Exempt(y)'
               /\ Exempt(y)' \/ (ToInvalidate(y) => ToInvalidate(y)')
               /\ \A c \in Computeds : WaitsFor(y, c) => WaitsFor(y, c)'
      PROVE  ComputedsRead'
  BY <1>1, ComputedsReadKept
<1>2. CASE (\E s \in States : GetState(s)) \/ (\E c \in Computeds : GetCached(c))
  BY <1>2, GetComputedsRead
<1>3. ASSUME NEW c \in Computeds, GetDirty(c)
      PROVE  ComputedsRead'
  BY <1>3, GetDirtyComputedsRead
<1>4. ASSUME NEW w \in Watchers, Watch(w) \/ FlushRun(w)
      PROVE  ComputedsRead'
  BY <1>4, RunComputedsRead
<1>5. CASE ComputeReturns
  BY <1>5, ComputeReturnsComputedsRead
<1>6. ASSUME NEW s \in States, Set(s)
      PROVE  ComputedsRead'
  <2>1. /\ stack' = <<NotifyFrame(s)>> \o stack /\ NotifyFrame(s) \in Frames
        /\ UNCHANGED <<dirty, obs, deps, phase, queued, subscriberStack>>
    BY <1>6, FrameTypes DEF Set, graph, scheduler, Sources
  <2>2. \A y : ToInvalidate(y) => ToInvalidate(y)'
    BY <1>0, <2>1, ToldPushed DEF ToInvalidate
  <2>3. \A y : /\ Exempt(y) => Exempt(y)'
               /\ \A c : WaitsFor(y, c) => WaitsFor(y, c)'
    BY <2>1 DEF Exempt, Executing, WaitsFor
  <2> QED BY <1>1, <2>1, <2>2, <2>3
<1>7. ASSUME NEW c \in Computeds, InvalidateComputed(c)
      PROVE  ComputedsRead'
  <2>1. /\ UNCHANGED <<obs, deps, subscriberStack>>
        /\ \A d \in Computeds : d # c => dirty'[d] = dirty[d]
        /\ \A y : Exempt(y) => Exempt(y)'
        /\ Exempt(c)'
        /\ \A y : ToInvalidate(y) => y = c \/ ToInvalidate(y)'
        /\ ~dirty[c] => \A y \in subscribers[c] : ToInvalidate(y)'
    <3>1. ~Executing(c)
      BY <1>7 DEF InvalidateComputed
    <3> QED BY <1>7, <3>1, InvalidateComputedTells
  <2>2. \A y, d : WaitsFor(y, d) => WaitsFor(y, d)'
    BY <2>1 DEF WaitsFor
  <2>3. ASSUME NEW y \in Subscribers, NEW d \in Computeds, d \in deps[y], ~dirty[d]
        PROVE  ToInvalidate(y)' \/ (~dirty'[d] /\ obs'[d] = obs[d])
    <3>1. CASE d = c
      <4>1. y \in subscribers[c]
        BY <1>0, <2>3, <3>1 DEF SubscriptionSymmetry
      <4> QED BY <2>1, <2>3, <3>1, <4>1
    <3>2. CASE d # c
      BY <2>1, <2>3, <3>2
    <3> QED BY <3>1, <3>2
  <2> QED BY <2>1, <2>2, <2>3, ComputedsReadKept
<1>8. ASSUME NEW w \in Watchers, QueueWatcher(w) \/ SkipWatcher(w)
      PROVE  ComputedsRead'
  <2>1. /\ UNCHANGED <<dirty, obs, deps, subscriberStack>>
        /\ \A y : Exempt(y) => Exempt(y)'
        /\ Exempt(w)'
        /\ \A y : ToInvalidate(y) => y = w \/ ToInvalidate(y)'
    BY <1>8, InvalidateWatcherTells
  <2>2. \A y, d : WaitsFor(y, d) => WaitsFor(y, d)'
    BY <2>1 DEF WaitsFor
  <2> QED BY <1>1, <2>1, <2>2
<1>9. ASSUME NEW w \in Watchers, Stop(w)
      PROVE  ComputedsRead'
  <2>1. /\ UNCHANGED <<dirty, obs, stack, subscriberStack>>
        /\ \A v \in Watchers : v # w => phase'[v] = phase[v] /\ queued'[v] = queued[v]
    BY <1>9 DEF Stop, values, calls, TypeOK
  <2>2. deps'[w] = {} /\ \A y \in Subscribers : y # w => deps'[y] = deps[y]
    BY <1>9, StopReads
  <2>3. \A y \in Subscribers : y # w /\ Exempt(y) => Exempt(y)'
    BY <2>1 DEF Exempt, Executing
  <2>4. \A y : /\ ToInvalidate(y) => ToInvalidate(y)'
               /\ \A d : WaitsFor(y, d) => WaitsFor(y, d)'
    BY <2>1 DEF ToInvalidate, WaitsFor
  <2> QED BY <2>1, <2>2, <2>3, <2>4, ComputedsReadKept
<1>10. ASSUME NEW w \in Watchers, FlushSkip(w)
       PROVE  ComputedsRead'
  <2>1. /\ UNCHANGED <<dirty, obs, deps, phase, stack, subscriberStack>>
        /\ phase[w] = "stopped"
        /\ \A v \in Watchers : v # w => queued'[v] = queued[v]
    BY <1>10 DEF FlushSkip, values, graph, calls, TypeOK
  <2>2. \A y : /\ Exempt(y) => Exempt(y)'
               /\ ToInvalidate(y) => ToInvalidate(y)'
               /\ \A d : WaitsFor(y, d) => WaitsFor(y, d)'
    BY <2>1 DEF Exempt, Executing, ToInvalidate, WaitsFor
  <2> QED BY <1>1, <2>1, <2>2
<1>11. CASE EffectReturns
  <2>1. /\ UNCHANGED <<dirty, obs, deps, phase, queued>>
        /\ stack # <<>> /\ Head(stack).kind = "run" /\ stack' = Tail(stack)
        /\ subscriberStack # <<>> /\ subscriberStack' = Tail(subscriberStack)
        /\ Head(subscriberStack) \notin Computeds
    BY <1>11, KindsDisjoint DEF EffectReturns, Running, values, graph, scheduler
  <2>2. \A y : ToInvalidate(y) => ToInvalidate(y)'
    BY <1>0, <2>1, ToldPopped DEF ToInvalidate
  <2>3. \A y \in Subscribers : Exempt(y) => Exempt(y)'
    BY <2>1, ExecutingPopped DEF Exempt
  <2>4. \A y : \A c \in Computeds : WaitsFor(y, c) => WaitsFor(y, c)'
    BY <2>1, WaitsPopped
  <2> QED BY <1>1, <2>1, <2>2, <2>3, <2>4
<1>12. CASE NotifyDone
  <2>1. /\ UNCHANGED <<dirty, obs, deps, phase, queued, subscriberStack>>
        /\ stack # <<>> /\ stack' = Tail(stack) /\ Head(stack).todo = {}
    BY <1>12 DEF NotifyDone, Running, values, graph, scheduler
  <2>2. \A y : ToInvalidate(y) => ToInvalidate(y)'
    BY <1>0, <2>1, ToldPopped DEF ToInvalidate
  <2>3. \A y : /\ Exempt(y) => Exempt(y)'
               /\ \A d : WaitsFor(y, d) => WaitsFor(y, d)'
    BY <2>1 DEF Exempt, Executing, WaitsFor
  <2> QED BY <1>1, <2>1, <2>2, <2>3
<1>13. CASE Quiet
  BY <1>1, <1>13 DEF Quiet, Exempt, Executing, WaitsFor
<1> QED BY <1>2, <1>3, <1>4, <1>5, <1>6, <1>7, <1>8, <1>9, <1>10, <1>11, <1>12,
           <1>13, Steps

\* What is not yet watched stays out of everything until Watch.
LEMMA NewIdleNext ==
  ASSUME TypeOK, SubscriptionSymmetry, QueueDiscipline, NewIdle, [Next]_vars
  PROVE  NewIdle'
<1>0. /\ stack \in Seq(Frames) /\ subscriberStack \in Seq(Subscribers)
      /\ phase \in [Watchers -> {"new", "live", "stopped"}]
      /\ queued \in [Watchers -> BOOLEAN] /\ round \in Seq(Watchers)
      /\ \A w \in Watchers : w \in Subscribers /\ w \notin Computeds
  BY KindsDisjoint DEF TypeOK, Subscribers
<1>1. ASSUME UNCHANGED phase,
             \A w \in Watchers : phase[w] = "new" =>
               /\ queued'[w] => queued[w]
               /\ deps'[w] = deps[w] \/ Executing(w)
               /\ ToInvalidate(w)' => ToInvalidate(w)
               /\ Executing(w)' => Executing(w)
      PROVE  NewIdle'
  BY <1>1 DEF NewIdle
<1>2. currentSubscriber \in Subscribers => Executing(currentSubscriber)
  BY ReaderExecutes
<1>3. ASSUME NEW x \in Sources, NEW w \in Watchers, phase[w] = "new"
      PROVE  w \notin subscribers[x]
  BY <1>0, <1>3 DEF NewIdle, SubscriptionSymmetry
<1>4. ASSUME NEW s \in States, GetState(s)
      PROVE  NewIdle'
  <2>1. UNCHANGED <<phase, queued, stack, subscriberStack>>
    BY <1>4 DEF GetState, scheduler, calls
  <2>2. \A w \in Watchers : deps'[w] = deps[w] \/ Executing(w)
    BY <1>0, <1>2, <1>4, GetStateReads
  <2> QED BY <1>1, <2>1, <2>2 DEF ToInvalidate, Executing
<1>5. ASSUME NEW c \in Computeds, GetCached(c)
      PROVE  NewIdle'
  <2>1. UNCHANGED <<phase, queued, stack, subscriberStack>>
    BY <1>5 DEF GetCached, scheduler, calls
  <2>2. \A w \in Watchers : deps'[w] = deps[w] \/ Executing(w)
    BY <1>0, <1>2, <1>5, GetCachedReads
  <2> QED BY <1>1, <2>1, <2>2 DEF ToInvalidate, Executing
<1>6. ASSUME NEW c \in Computeds, GetDirty(c)
      PROVE  NewIdle'
  <2>1. /\ UNCHANGED <<phase, queued>>
        /\ stack' = <<Frame("compute")>> \o stack
        /\ subscriberStack' = <<c>> \o subscriberStack
        /\ Frame("compute") \in Frames /\ Frame("compute").kind = "compute"
        /\ c \in Subscribers
    BY <1>6 DEF GetDirty, Start, scheduler, Frame, Frames, Kinds, Subscribers
  <2>2. \A w \in Watchers : deps'[w] = deps[w] \/ Executing(w)
    BY <1>0, <1>2, <1>6, GetDirtyReads
  <2>3. \A w \in Watchers : ToInvalidate(w)' <=> ToInvalidate(w)
    BY <1>0, <2>1, ToldPushed DEF ToInvalidate
  <2>4. \A w \in Watchers : Executing(w)' <=> Executing(w)
    BY <1>0, <2>1, ExecutingPushed
  <2> QED BY <1>1, <2>1, <2>2, <2>3, <2>4
<1>7. ASSUME NEW v \in Watchers, Watch(v) \/ FlushRun(v)
      PROVE  NewIdle'
  <2>1. /\ stack' = <<Frame("run")>> \o stack
        /\ subscriberStack' = <<v>> \o subscriberStack
        /\ Frame("run") \in Frames /\ Frame("run").kind = "run"
        /\ \A w \in Watchers : w # v => phase'[w] = phase[w] /\ queued'[w] = queued[w]
    BY <1>7 DEF Watch, FlushRun, run, Start, scheduler, Frame, Frames, Kinds, TypeOK
  <2>2. \A w \in Watchers : w # v => deps'[w] = deps[w]
    BY <1>0, <1>7, RunReads
  <2>3. \A w \in Watchers : ToInvalidate(w)' <=> ToInvalidate(w)
    BY <1>0, <2>1, ToldPushed DEF ToInvalidate
  <2>4. \A w \in Watchers : w # v => (Executing(w)' <=> Executing(w))
    BY <1>0, <2>1, ExecutingPushed
  <2>5. phase'[v] # "new"
    <3>1. CASE Watch(v)
      BY <1>0, <3>1 DEF Watch
    <3>2. CASE FlushRun(v)
      <4>1. 1 \in DOMAIN round /\ round[1] = v /\ phase' = phase
        BY <1>0, <3>2 DEF FlushRun
      <4>2. queued[v] \/ phase[v] = "stopped"
        BY <4>1 DEF QueueDiscipline
      <4> QED BY <4>1, <4>2 DEF NewIdle
    <3> QED BY <1>7, <3>1, <3>2
  <2> QED BY <2>1, <2>2, <2>3, <2>4, <2>5 DEF NewIdle
<1>8. ASSUME NEW v \in Watchers, Stop(v)
      PROVE  NewIdle'
  <2>1. /\ UNCHANGED <<stack, subscriberStack>> /\ phase'[v] = "stopped"
        /\ \A w \in Watchers : w # v => phase'[w] = phase[w] /\ queued'[w] = queued[w]
    BY <1>8 DEF Stop, calls, TypeOK
  <2>2. \A w \in Watchers : w # v => deps'[w] = deps[w]
    BY <1>0, <1>8, StopReads
  <2> QED BY <2>1, <2>2 DEF NewIdle, ToInvalidate, Executing
<1>9. ASSUME NEW v \in Watchers, FlushSkip(v)
      PROVE  NewIdle'
  <2>1. /\ UNCHANGED <<deps, phase, stack, subscriberStack>>
        /\ \A w \in Watchers : queued'[w] => queued[w]
    BY <1>0, <1>9 DEF FlushSkip, graph, calls
  <2> QED BY <1>1, <2>1 DEF ToInvalidate, Executing
<1>10. ASSUME NEW s \in States, Set(s)
       PROVE  NewIdle'
  <2>1. /\ stack' = <<NotifyFrame(s)>> \o stack /\ NotifyFrame(s) \in Frames
        /\ NotifyFrame(s).todo = subscribers[s] /\ s \in Sources
        /\ UNCHANGED <<deps, phase, queued, subscriberStack>>
    BY <1>10, FrameTypes DEF Set, graph, scheduler, Sources, NotifyFrame
  <2>2. \A w \in Watchers : phase[w] = "new" => (ToInvalidate(w)' => ToInvalidate(w))
    BY <1>0, <1>3, <2>1, ToldPushed DEF ToInvalidate
  <2> QED BY <1>1, <2>1, <2>2 DEF Executing
<1>11. ASSUME NEW c \in Computeds, InvalidateComputed(c)
       PROVE  NewIdle'
  <2>1. /\ UNCHANGED <<deps, phase, queued, subscriberStack>>
        /\ \A y : ToInvalidate(y)' =>
             ToInvalidate(y) \/ (~dirty[c] /\ y \in subscribers[c])
    BY <1>11, InvalidateComputedTells
  <2>2. \A w \in Watchers : phase[w] = "new" => (ToInvalidate(w)' => ToInvalidate(w))
    BY <1>3, <2>1 DEF Sources
  <2> QED BY <1>1, <2>1, <2>2 DEF Executing
<1>12. ASSUME NEW v \in Watchers, QueueWatcher(v) \/ SkipWatcher(v)
       PROVE  NewIdle'
  <2>1. /\ UNCHANGED <<deps, phase, subscriberStack>>
        /\ ToInvalidate(v)
        /\ \A w \in Watchers : w # v => queued'[w] = queued[w]
        /\ \A y : ToInvalidate(y)' => ToInvalidate(y)
    BY <1>12, InvalidateWatcherTells
  <2>2. phase[v] # "new"
    BY <2>1 DEF NewIdle
  <2> QED BY <1>1, <2>1, <2>2 DEF Executing
<1>13. CASE ComputeReturns \/ EffectReturns
  <2>1. /\ UNCHANGED <<deps, phase, queued>>
        /\ stack # <<>> /\ Head(stack).kind # "notify" /\ stack' = Tail(stack)
        /\ subscriberStack # <<>> /\ subscriberStack' = Tail(subscriberStack)
    BY <1>13 DEF ComputeReturns, EffectReturns, Running, values, graph, scheduler
  <2>2. \A y : ToInvalidate(y)' => ToInvalidate(y)
    BY <1>0, <2>1, ToldPopped DEF ToInvalidate
  <2>3. \A y : Executing(y)' => Executing(y)
    BY <2>1, ExecutingPopped
  <2> QED BY <1>1, <2>1, <2>2, <2>3
<1>14. CASE NotifyDone
  <2>1. /\ UNCHANGED <<deps, phase, queued, subscriberStack>>
        /\ stack # <<>> /\ stack' = Tail(stack)
    BY <1>14 DEF NotifyDone, Running, graph, scheduler
  <2>2. \A y : ToInvalidate(y)' => ToInvalidate(y)
    BY <1>0, <2>1, ToldPopped DEF ToInvalidate
  <2> QED BY <1>1, <2>1, <2>2 DEF Executing
<1>15. CASE Quiet
  BY <1>0, <1>1, <1>15 DEF Quiet, Executing
<1> QED BY <1>4, <1>5, <1>6, <1>7, <1>8, <1>9, <1>10, <1>11, <1>12, <1>13, <1>14,
           <1>15, Steps

\* What is outdated stays so.
LEMMA StalePersists ==
  ASSUME TypeOK, ReadPast, NEW y \in Subscribers, ~Current(obs[y]),
         obs[y] \subseteq obs'[y],
         \A s \in States : version'[s] \in Int /\ version[s] <= version'[s]
  PROVE  ~Current(obs[y])'
<1>1. PICK r \in obs[y] : r[2] # version[r[1]]
  BY DEF Current
<1>2. r[1] \in States /\ r[2] \in Nat /\ version[r[1]] \in Nat
  BY BoundsType DEF TypeOK, Readings
<1>3. r[2] <= version[r[1]]
  BY DEF ReadPast
<1>4. r[2] # version'[r[1]]
  BY <1>1, <1>2, <1>3
<1>5. r \in obs'[y]
  OBVIOUS
<1> QED BY <1>4, <1>5 DEF Current

\* When the last unbatched loop is over, nothing is queued or to be invalidated.
LEMMA NotifyDoneStaleOnly ==
  ASSUME TypeOK, QueueDiscipline, FreshInv, Unbatched, NotifyDone, ~Unbatched'
  PROVE  /\ \A y : ~ToInvalidate(y)'
         /\ \A w \in Watchers : ~queued'[w]
<1>1. /\ stack \in Seq(Frames) /\ stack # <<>> /\ stack' = Tail(stack)
      /\ UNCHANGED queued
  BY DEF TypeOK, NotifyDone, Running, scheduler
<1> DEFINE t == Tail(stack)
<1>2. /\ t \in Seq(Frames) /\ DOMAIN t = 1 .. Len(stack) - 1 /\ Len(t) = Len(stack) - 1
      /\ DOMAIN stack = 1 .. Len(stack) /\ Len(stack) \in Nat \ {0}
      /\ \A i \in 1 .. Len(stack) - 1 : t[i] = stack[i + 1]
      /\ \A i \in 2 .. Len(stack) : stack[i] = t[i - 1]
  BY <1>1, PopProperties
<1>3. ~UnbatchedOn(t)
  BY <1>1 DEF Unbatched, UnbatchedOn
<1> HIDE DEF t
<1>4. PICK i \in DOMAIN stack :
        /\ stack[i].kind = "notify"
        /\ \A j \in i .. Len(stack) : stack[j].kind \notin {"batch", "flush"}
  BY DEF Unbatched
<1>5. \A j \in DOMAIN t : t[j].kind = "notify" =>
        \E m \in j .. Len(t) : t[m].kind \in {"batch", "flush"}
  BY <1>3 DEF UnbatchedOn
<1>6. i = 1
  <2> SUFFICES ASSUME i # 1
               PROVE  FALSE
    OBVIOUS
  <2>1. i - 1 \in DOMAIN t /\ t[i - 1].kind = "notify"
    BY <1>2, <1>4
  <2>2. PICK m \in (i - 1) .. Len(t) : t[m].kind \in {"batch", "flush"}
    BY <1>5, <2>1
  <2>3. m + 1 \in i .. Len(stack) /\ m \in 1 .. Len(stack) - 1
    BY <1>2, <2>2
  <2> QED BY <1>2, <1>4, <2>2, <2>3
<1>7. \A j \in DOMAIN stack : stack[j].kind \notin {"batch", "flush"}
  BY <1>2, <1>4, <1>6
<1>8. \A j \in DOMAIN t : t[j].kind # "notify"
  <2> SUFFICES ASSUME NEW j \in DOMAIN t, t[j].kind = "notify"
               PROVE  FALSE
    OBVIOUS
  <2>1. PICK m \in j .. Len(t) : t[m].kind \in {"batch", "flush"}
    BY <1>5
  <2>2. m \in 1 .. Len(stack) - 1 /\ m + 1 \in DOMAIN stack
    BY <1>2
  <2> QED BY <1>2, <1>7, <2>1, <2>2
<1>9. \A y : ~ToInvalidate(y)'
  BY <1>1, <1>8 DEF ToInvalidate, Told, t
<1>10. ~flushing
  BY <1>7 DEF FreshInv, SchedulerInv, SchedulerTells, FlagTells
<1>11. batchDepth = 0
  <2>1. BatchLevels(stack) = {}
    <3> SUFFICES ASSUME NEW p \in BatchLevels(stack)
                 PROVE  FALSE
      OBVIOUS
    <3>1. p \in 1 .. Len(stack) /\ stack[Len(stack) + 1 - p].kind = "batch"
      BY DEF BatchLevels
    <3>2. Len(stack) + 1 - p \in DOMAIN stack
      BY <1>2, <3>1
    <3> QED BY <1>7, <3>1, <3>2
  <2> QED BY <2>1, FS_EmptySet DEF FreshInv, SchedulerInv, SchedulerTells, DepthTells
<1>12. pending = <<>> /\ round = <<>>
  BY <1>10, <1>11 DEF FreshInv, QueueInCall
<1>13. \A w \in Watchers : ~queued[w]
  BY <1>12 DEF QueueDiscipline
<1> QED BY <1>1, <1>9, <1>13

LEMMA SetStaleOnly ==
  ASSUME TypeOK, SubscriptionSymmetry, ReadPast, StatesRead, NEW s \in States, Set(s)
  PROVE  /\ \A t \in States : version'[t] \in Int /\ version[t] <= version'[t]
         /\ \A y : ToInvalidate(y)' => ToInvalidate(y) \/ y \in subscribers[s]
         /\ \A y \in subscribers[s] : ~Current(obs[y])'
         /\ Unbatched => Unbatched'
<1>1. /\ version' = [version EXCEPT ![s] = @ + 1]
      /\ stack' = <<NotifyFrame(s)>> \o stack /\ obs' = obs
  BY DEF Set
<1>2. /\ s \in Sources /\ stack \in Seq(Frames) /\ NotifyFrame(s) \in Frames
      /\ NotifyFrame(s).todo = subscribers[s]
      /\ version \in [States -> 0 .. MaxVersion] /\ subscribers[s] \subseteq Subscribers
  BY FrameTypes DEF TypeOK, Sources, NotifyFrame
<1>3. \A t \in States : version[t] \in Nat
  BY <1>2, BoundsType
<1>4. \A t \in States : version'[t] \in Int /\ version[t] <= version'[t]
  BY <1>1, <1>2, <1>3
<1>5. \A y : ToInvalidate(y)' => ToInvalidate(y) \/ y \in subscribers[s]
  BY <1>1, <1>2, ToldPushed DEF ToInvalidate
<1>6. ASSUME NEW y \in subscribers[s]
      PROVE  ~Current(obs[y])'
  <2>1. y \in Subscribers /\ s \in deps[y]
    BY <1>2 DEF SubscriptionSymmetry
  <2>2. PICK r \in obs[y] : r[1] = s
    BY <2>1 DEF StatesRead
  <2>3. r[2] <= version[s] /\ r[2] \in Nat
    BY <2>1, <2>2 DEF ReadPast, TypeOK, Readings
  <2>4. r[2] # version'[r[1]]
    BY <1>1, <1>2, <1>3, <2>2, <2>3
  <2> QED BY <1>1, <2>2, <2>4 DEF Current
<1>7. Unbatched => Unbatched'
  <2>1. Unbatched = UnbatchedOn(stack) /\ Unbatched' = UnbatchedOn(stack')
    BY DEF Unbatched, UnbatchedOn
  <2> QED BY <1>1, <1>2, <2>1, UnbatchedPushed
<1> QED BY <1>4, <1>5, <1>6, <1>7

\* The invalidation of a computed goes on to who has read what it was computed
\* from.
LEMMA InvalidateComputedStaleOnly ==
  ASSUME TypeOK, SubscriptionSymmetry, ComputedsRead, StaleOnly,
         ~Unbatched, NEW c \in Computeds, InvalidateComputed(c), ~Executing(c)
  PROVE  /\ ~dirty[c] => ~Current(obs[c])
         /\ \A y \in Subscribers :
              ToInvalidate(y)' => Exempt(y)' \/ ~Current(obs[y])
<1>1. /\ ToInvalidate(c)
      /\ \A y : Exempt(y) => Exempt(y)'
      /\ \A y : ToInvalidate(y)' =>
           ToInvalidate(y) \/ (~dirty[c] /\ y \in subscribers[c])
  BY InvalidateComputedTells
<1>2. c \in Subscribers /\ c \in Sources /\ c \notin Watchers
  BY KindsDisjoint DEF Subscribers, Sources
<1>3. \A y \in Subscribers : ToInvalidate(y) => Exempt(y) \/ ~Current(obs[y])
  BY DEF StaleOnly
<1>4. ~dirty[c] => ~Current(obs[c])
  BY <1>1, <1>2, <1>3 DEF Exempt
<1>5. ASSUME NEW y \in Subscribers, ~dirty[c], y \in subscribers[c]
      PROVE  Exempt(y) \/ ~Current(obs[y])
  <2>1. c \in deps[y]
    BY <1>2, <1>5 DEF SubscriptionSymmetry
  <2>2. ~WaitsFor(y, c)
    BY DEF WaitsFor, Executing
  <2>3. Exempt(y) \/ ToInvalidate(y) \/ obs[c] \subseteq obs[y]
    BY <2>1, <2>2 DEF ComputedsRead
  <2>4. obs[c] \subseteq obs[y] => ~Current(obs[y])
    BY <1>4, <1>5 DEF Current
  <2> QED BY <1>3, <2>3, <2>4
<1> QED BY <1>1, <1>3, <1>4, <1>5

LEMMA StaleOnlyNext ==
  ASSUME TypeOK, SubscriptionSymmetry, QueueDiscipline, FreshInv, ReadInv, [Next]_vars,
         ~overtaken'
  PROVE  StaleOnly'
<1>a. ~overtaken /\ ComputedsRead /\ StaleOnly
  BY OvertakenStays DEF ReadInv
<1> SUFFICES ASSUME ~Unbatched'
             PROVE  /\ \A y \in Subscribers :
                         ToInvalidate(y)' => Exempt(y)' \/ ~Current(obs[y])'
                    /\ \A w \in Watchers : queued'[w] => ~Current(obs[w])'
  BY DEF StaleOnly
<1> DEFINE Goal == /\ \A y \in Subscribers :
                        ToInvalidate(y)' => Exempt(y)' \/ ~Current(obs[y])'
                   /\ \A w \in Watchers : queued'[w] => ~Current(obs[w])'
<1>0. /\ stack \in Seq(Frames) /\ queued \in [Watchers -> BOOLEAN]
      /\ \A s \in States : version[s] \in Nat
      /\ \A w \in Watchers : w \in Subscribers /\ w \notin Computeds
      /\ \A kind \in Kinds : Frame(kind) \in Frames /\ Frame(kind).kind = kind
      /\ Unbatched = UnbatchedOn(stack) /\ Unbatched' = UnbatchedOn(stack')
  BY BoundsType, KindsDisjoint
     DEF TypeOK, Subscribers, Frame, Frames, Unbatched, UnbatchedOn
<1>1. ASSUME ~Unbatched,
             \A s \in States : version'[s] \in Int /\ version[s] <= version'[s],
             \A y \in Subscribers : ToInvalidate(y)' =>
               \/ ToInvalidate(y) /\ (Exempt(y) => Exempt(y)') /\ obs[y] \subseteq obs'[y]
               \/ Exempt(y)'
               \/ ~Current(obs[y])',
             \A w \in Watchers : queued'[w] =>
               (queued[w] /\ obs[w] \subseteq obs'[w]) \/ ~Current(obs[w])'
      PROVE  Goal
  <2>1. ASSUME NEW y \in Subscribers, ~Current(obs[y]), obs[y] \subseteq obs'[y]
        PROVE  ~Current(obs[y])'
    BY <1>1, <2>1, StalePersists DEF ReadInv
  <2>2. /\ \A y \in Subscribers : ToInvalidate(y) => Exempt(y) \/ ~Current(obs[y])
        /\ \A w \in Watchers : queued[w] => ~Current(obs[w])
    BY <1>1, <1>a DEF StaleOnly
  <2>3. ASSUME NEW y \in Subscribers, ToInvalidate(y)'
        PROVE  Exempt(y)' \/ ~Current(obs[y])'
    BY <1>1, <2>1, <2>2, <2>3
  <2>4. ASSUME NEW w \in Watchers, queued'[w]
        PROVE  ~Current(obs[w])'
    BY <1>0, <1>1, <2>1, <2>2, <2>4
  <2> QED BY <2>3, <2>4
<1>2. ASSUME version' = version
      PROVE  \A s \in States : version'[s] \in Int /\ version[s] <= version'[s]
  BY <1>0, <1>2
<1>3. ASSUME ~Unbatched, stack = <<>> \/ Head(stack).kind # "notify"
      PROVE  \A y : ~ToInvalidate(y)
  BY <1>3, QuietNothingToInvalidate DEF FreshInv
<1> HIDE DEF Goal
<1>4. ASSUME UNCHANGED <<version, queued, stack>>, UserCode,
             \A y \in Subscribers : obs[y] \subseteq obs'[y]
      PROVE  Goal
  <2>1. ~Unbatched /\ (stack = <<>> \/ Head(stack).kind # "notify")
    BY <1>4 DEF Unbatched, UserCode, Running
  <2>2. \A y : ~ToInvalidate(y)'
    BY <1>3, <1>4, <2>1 DEF ToInvalidate
  <2> QED BY <1>0, <1>1, <1>2, <1>4, <2>1, <2>2
<1>5. ASSUME NEW s \in States, GetState(s)
      PROVE  Goal
  <2>1. UNCHANGED <<version, queued, stack>> /\ UserCode
    BY <1>5 DEF GetState, scheduler, calls
  <2>2. \A y \in Subscribers : obs[y] \subseteq obs'[y]
    BY <1>5, GetStateReads
  <2> QED BY <1>4, <2>1, <2>2
<1>6. ASSUME NEW c \in Computeds, GetCached(c)
      PROVE  Goal
  <2>1. UNCHANGED <<version, queued, stack>> /\ UserCode
    BY <1>6 DEF GetCached, scheduler, calls
  <2>2. \A y \in Subscribers : obs[y] \subseteq obs'[y]
    BY <1>6, GetCachedReads
  <2> QED BY <1>4, <2>1, <2>2
<1>7. ASSUME NEW f \in Frames, f.kind # "notify",
             stack' = <<f>> \o stack, stack = <<>> \/ Head(stack).kind # "notify"
      PROVE  ~Unbatched /\ \A y : ~ToInvalidate(y)'
  <2>1. ~Unbatched
    BY <1>0, <1>7, UnbatchedPushed
  <2>2. \A y : ToInvalidate(y)' => ToInvalidate(y)
    BY <1>0, <1>7, ToldPushed DEF ToInvalidate
  <2> QED BY <1>3, <1>7, <2>1, <2>2
<1>8. ASSUME NEW c \in Computeds, GetDirty(c)
      PROVE  Goal
  <2>1. /\ UNCHANGED <<version, queued>>
        /\ stack' = <<Frame("compute")>> \o stack
        /\ stack = <<>> \/ Head(stack).kind # "notify"
    BY <1>8 DEF GetDirty, Start, scheduler, UserCode, Running
  <2>2. ~Unbatched /\ \A y : ~ToInvalidate(y)'
    BY <1>0, <1>7, <2>1 DEF Kinds
  <2>3. \A w \in Watchers : obs'[w] = obs[w]
    BY <1>0, <1>8, GetDirtyReads
  <2>4. \A w \in Watchers :
           queued'[w] => (queued[w] /\ obs[w] \subseteq obs'[w]) \/ ~Current(obs[w])'
    BY <2>1, <2>3
  <2>5. \A y \in Subscribers : ToInvalidate(y)' =>
           \/ ToInvalidate(y) /\ (Exempt(y) => Exempt(y)') /\ obs[y] \subseteq obs'[y]
           \/ Exempt(y)'
           \/ ~Current(obs[y])'
    BY <2>2
  <2>6. \A s \in States : version'[s] \in Int /\ version[s] <= version'[s]
    BY <1>2, <2>1
  <2> QED BY <1>1, <2>2, <2>4, <2>5, <2>6
<1>9. ASSUME NEW v \in Watchers, Watch(v) \/ FlushRun(v)
      PROVE  Goal
  <2>1. /\ version' = version
        /\ stack' = <<Frame("run")>> \o stack
        /\ stack = <<>> \/ Head(stack).kind # "notify"
        /\ \A w \in Watchers : w # v => queued'[w] = queued[w]
    BY <1>9 DEF Watch, FlushRun, run, Start, scheduler, UserCode, Running, TypeOK
  <2>2. ~queued'[v]
    <3>1. CASE Watch(v)
      <4>1. phase[v] = "new" /\ queued' = queued
        BY <3>1 DEF Watch, scheduler
      <4> QED BY <4>1 DEF ReadInv, NewIdle
    <3>2. CASE FlushRun(v)
      BY <1>0, <3>2 DEF FlushRun
    <3> QED BY <1>9, <3>1, <3>2
  <2>3. ~Unbatched /\ \A y : ~ToInvalidate(y)'
    BY <1>0, <1>7, <2>1 DEF Kinds
  <2>4. \A w \in Watchers : w # v => obs'[w] = obs[w]
    BY <1>0, <1>9, RunReads
  <2>5. \A w \in Watchers :
           queued'[w] => (queued[w] /\ obs[w] \subseteq obs'[w]) \/ ~Current(obs[w])'
    BY <2>1, <2>2, <2>4
  <2>6. \A y \in Subscribers : ToInvalidate(y)' =>
           \/ ToInvalidate(y) /\ (Exempt(y) => Exempt(y)') /\ obs[y] \subseteq obs'[y]
           \/ Exempt(y)'
           \/ ~Current(obs[y])'
    BY <2>3
  <2>7. \A s \in States : version'[s] \in Int /\ version[s] <= version'[s]
    BY <1>2, <2>1
  <2> QED BY <1>1, <2>3, <2>5, <2>6, <2>7
<1>10. ASSUME NEW v \in Watchers, Stop(v) \/ FlushSkip(v)
       PROVE  Goal
  <2>1. /\ UNCHANGED <<version, obs, stack>>
        /\ stack = <<>> \/ Head(stack).kind # "notify"
        /\ \A w \in Watchers : queued'[w] => queued[w]
    BY <1>0, <1>10 DEF Stop, FlushSkip, values, calls, UserCode, Running
  <2>2. ~Unbatched
    BY <2>1 DEF Unbatched
  <2>3. \A y : ~ToInvalidate(y)'
    BY <1>3, <2>1, <2>2 DEF ToInvalidate
  <2> QED BY <1>1, <1>2, <2>1, <2>2, <2>3
<1>11. ASSUME NEW s \in States, Set(s)
       PROVE  Goal
  <2>1. /\ UNCHANGED <<obs, queued>> /\ (stack = <<>> \/ Head(stack).kind # "notify")
    BY <1>11 DEF Set, scheduler, UserCode, Running
  <2>2. /\ \A t \in States : version'[t] \in Int /\ version[t] <= version'[t]
        /\ \A y : ToInvalidate(y)' => ToInvalidate(y) \/ y \in subscribers[s]
        /\ \A y \in subscribers[s] : ~Current(obs[y])'
        /\ ~Unbatched
    BY <1>11, SetStaleOnly DEF ReadInv
  <2>3. \A y : ~ToInvalidate(y)
    BY <1>3, <2>1, <2>2
  <2>4. \A y \in Subscribers : ToInvalidate(y)' => ~Current(obs[y])'
    BY <2>2, <2>3
  <2> QED BY <1>1, <2>1, <2>2, <2>4
<1>12. ASSUME NEW c \in Computeds, InvalidateComputed(c)
       PROVE  Goal
  <2>1. UNCHANGED <<version, obs, queued>> /\ ~Unbatched
    BY <1>12, InvalidateComputedTells
  <2>2. \A y \in Subscribers : ToInvalidate(y)' => Exempt(y)' \/ ~Current(obs[y])
    <3>1. ~Executing(c)
      BY <1>12 DEF InvalidateComputed
    <3> QED BY <1>12, <1>a, <2>1, <3>1, InvalidateComputedStaleOnly
  <2>3. \A y : Current(obs[y])' <=> Current(obs[y])
    BY <2>1 DEF Current
  <2> QED BY <1>1, <1>2, <2>1, <2>2, <2>3
<1>13. ASSUME NEW v \in Watchers, QueueWatcher(v) \/ SkipWatcher(v)
       PROVE  Goal
  <2>1. /\ UNCHANGED <<version, obs>> /\ ~Unbatched /\ ToInvalidate(v)
        /\ \A w \in Watchers : w # v => queued'[w] = queued[w]
        /\ \A y : Exempt(y) => Exempt(y)'
        /\ \A y : ToInvalidate(y)' => ToInvalidate(y)
    BY <1>13, InvalidateWatcherTells
  <2>2. queued'[v] => queued[v] \/ ~Current(obs[v])
    <3>1. CASE SkipWatcher(v)
      BY <3>1 DEF SkipWatcher, scheduler
    <3>2. CASE QueueWatcher(v)
      <4>1. ~Exempt(v)
        BY <1>0, <3>2 DEF QueueWatcher, Exempt
      <4> QED BY <1>0, <1>a, <2>1, <4>1 DEF StaleOnly
    <3> QED BY <1>13, <3>1, <3>2
  <2>3. \A y : Current(obs[y])' <=> Current(obs[y])
    BY <2>1 DEF Current
  <2>4. \A w \in Watchers : queued'[w] => queued[w] \/ ~Current(obs[w])'
    BY <2>1, <2>2, <2>3
  <2> QED BY <1>1, <1>2, <2>1, <2>4
<1>14. CASE ComputeReturns \/ EffectReturns
  <2>1. /\ UNCHANGED <<version, queued>>
        /\ stack # <<>> /\ Head(stack).kind # "notify" /\ stack' = Tail(stack)
    BY <1>14 DEF ComputeReturns, EffectReturns, Running, values, scheduler
  <2>2. ~Unbatched
    BY <1>0, <2>1, UnbatchedPopped
  <2>3. \A y : ~ToInvalidate(y)'
    BY <1>0, <1>3, <2>1, <2>2, ToldPopped DEF ToInvalidate
  <2>4. \A y \in Subscribers : obs[y] \subseteq obs'[y]
    BY <1>14, ComputeReturnsReads DEF EffectReturns, values
  <2>5. \A w \in Watchers :
           queued'[w] => (queued[w] /\ obs[w] \subseteq obs'[w]) \/ ~Current(obs[w])'
    BY <1>0, <2>1, <2>4
  <2>6. \A y \in Subscribers : ToInvalidate(y)' =>
           \/ ToInvalidate(y) /\ (Exempt(y) => Exempt(y)') /\ obs[y] \subseteq obs'[y]
           \/ Exempt(y)'
           \/ ~Current(obs[y])'
    BY <2>3
  <2>7. \A s \in States : version'[s] \in Int /\ version[s] <= version'[s]
    BY <1>2, <2>1
  <2> QED BY <1>1, <2>2, <2>5, <2>6, <2>7 DEF Goal
<1>15. CASE NotifyDone
  <2>1. /\ UNCHANGED <<version, dirty, obs, phase, queued, subscriberStack>>
        /\ stack # <<>> /\ stack' = Tail(stack)
    BY <1>15 DEF NotifyDone, Running, values, scheduler
  <2>2. CASE Unbatched
    BY <1>15, <2>2, NotifyDoneStaleOnly DEF Goal
  <2>3. CASE ~Unbatched
    <3>1. \A y : ToInvalidate(y)' => ToInvalidate(y)
      BY <1>0, <2>1, ToldPopped DEF ToInvalidate
    <3>2. \A y : Exempt(y) => Exempt(y)'
      BY <2>1 DEF Exempt, Executing
    <3>3. \A w \in Watchers :
             queued'[w] => (queued[w] /\ obs[w] \subseteq obs'[w]) \/ ~Current(obs[w])'
      BY <2>1
    <3>4. \A y \in Subscribers : ToInvalidate(y)' =>
             \/ ToInvalidate(y) /\ (Exempt(y) => Exempt(y)') /\ obs[y] \subseteq obs'[y]
             \/ Exempt(y)'
             \/ ~Current(obs[y])'
      BY <2>1, <3>1, <3>2
    <3>5. \A s \in States : version'[s] \in Int /\ version[s] <= version'[s]
      BY <1>2, <2>1
    <3> QED BY <1>1, <2>3, <3>3, <3>4, <3>5 DEF Goal
  <2> QED BY <2>2, <2>3
<1>16. CASE Quiet
  <2>1. \A y : Exempt(y) => Exempt(y)'
    BY <1>16 DEF Quiet, Exempt, Executing
  <2>2. /\ UNCHANGED <<version, obs, queued>> /\ ~Unbatched
        /\ \A y \in Subscribers : ToInvalidate(y)' => ToInvalidate(y)
    BY <1>16 DEF Quiet
  <2>3. \A w \in Watchers :
           queued'[w] => (queued[w] /\ obs[w] \subseteq obs'[w]) \/ ~Current(obs[w])'
    BY <2>2
  <2>4. \A y \in Subscribers : ToInvalidate(y)' =>
           \/ ToInvalidate(y) /\ (Exempt(y) => Exempt(y)') /\ obs[y] \subseteq obs'[y]
           \/ Exempt(y)'
           \/ ~Current(obs[y])'
    BY <2>1, <2>2
  <2>5. \A s \in States : version'[s] \in Int /\ version[s] <= version'[s]
    BY <1>2, <2>2
  <2> QED BY <1>1, <2>2, <2>3, <2>4, <2>5 DEF Goal
<1> QED BY <1>5, <1>6, <1>8, <1>9, <1>10, <1>11, <1>12, <1>13, <1>14, <1>15, <1>16,
           Steps DEF Goal

LEMMA ReadInit == Init => ReadInv
<1> SUFFICES ASSUME Init
             PROVE  ReadInv
  OBVIOUS
<1>1. /\ stack = <<>> /\ subscriberStack = <<>>
      /\ \A y \in Subscribers : obs[y] = {} /\ deps[y] = {}
      /\ \A w \in Watchers : ~queued[w] /\ w \in Subscribers
  BY DEF Init, Subscribers
<1>2. \A y : ~ToInvalidate(y) /\ ~Executing(y)
  BY <1>1 DEF ToInvalidate, Told, Executing
<1>3. ReadPast /\ StatesRead /\ ComputedsRead
  BY <1>1 DEF ReadPast, StatesRead, ComputedsRead
<1>4. NewIdle /\ StaleOnly
  BY <1>1, <1>2 DEF NewIdle, StaleOnly
<1> QED BY <1>3, <1>4 DEF ReadInv

\* Readings are of the past, an edge from a state stands for a reading, and,
\* unless a reading was overtaken, so does one from a computed, and what is told
\* to re-run has read a value that has been Set since.
THEOREM ReadCorrect == Spec => []ReadInv
<1>1. Init => ReadInv
  BY ReadInit
<1>2. ASSUME TypeOK, SubscriptionSymmetry, QueueDiscipline, FreshInv, ReadInv, [Next]_vars
      PROVE  ReadInv'
  <2>1. ReadPast' /\ StatesRead'
    BY <1>2, HistoryNext DEF ReadInv
  <2>2. NewIdle'
    BY <1>2, NewIdleNext DEF ReadInv
  <2>3. ~overtaken' => ComputedsRead'
    BY <1>2, OvertakenStays, ComputedsReadNext DEF ReadInv, FreshInv
  <2>4. ~overtaken' => StaleOnly'
    BY <1>2, StaleOnlyNext
  <2> QED BY <2>1, <2>2, <2>3, <2>4 DEF ReadInv
<1>3. TypeOK /\ SubscriptionSymmetry /\ QueueDiscipline /\ FreshInv /\ ReadInv
      /\ [Next]_vars => ReadInv'
  BY <1>2
<1> QED BY <1>1, <1>3, TypeCorrect, SymmetryCorrect, QueueCorrect, FreshCorrect,
           PTL DEF Spec

LEMMA FlushReruns ==
  ASSUME TypeOK, [Next]_vars, NEW w \in Watchers, Running("flush"),
         subscriberStack' = <<w>> \o subscriberStack
  PROVE  FlushRun(w)
<1>0. /\ subscriberStack \in Seq(Subscribers) /\ w \in Subscribers
      /\ Len(subscriberStack') # Len(subscriberStack)
      /\ subscriberStack'[1] = w
  <2>1. w \in Subscribers
    BY DEF Subscribers
  <2>2. /\ Len(subscriberStack') = Len(subscriberStack) + 1 /\ subscriberStack'[1] = w
        /\ Len(subscriberStack) \in Nat
    BY <2>1, SubscriberPushed
  <2> QED BY <2>1, <2>2 DEF TypeOK
<1>1. /\ ~UserCode /\ ~Running("compute") /\ ~Running("run") /\ ~Running("notify")
      /\ ~Running("batch")
  BY DEF UserCode, Running
<1>2. /\ \A s \in States : ~GetState(s) /\ ~Set(s)
      /\ \A c \in Computeds : ~GetCached(c) /\ ~GetDirty(c) /\ ~InvalidateComputed(c)
      /\ \A v \in Watchers : ~Watch(v) /\ ~Stop(v) /\ ~QueueWatcher(v) /\ ~SkipWatcher(v)
      /\ ~ComputeReturns /\ ~EffectReturns /\ ~BatchBegin /\ ~BatchEnd /\ ~NotifyDone
  BY <1>1 DEF GetState, Set, GetCached, GetDirty, InvalidateComputed, Watch, Stop,
              QueueWatcher, SkipWatcher, ComputeReturns, EffectReturns, BatchBegin,
              BatchEnd, NotifyDone
<1>3. ~FlushRound /\ ~FlushEnd /\ (\A v \in Watchers : ~FlushSkip(v)) /\ ~UNCHANGED vars
  BY <1>0 DEF FlushRound, FlushEnd, FlushSkip, vars, calls
<1>4. ASSUME NEW v \in Watchers, FlushRun(v)
      PROVE  v = w
  <2>1. subscriberStack' = <<v>> \o subscriberStack /\ v \in Subscribers
    BY <1>4 DEF FlushRun, run, Start, Subscribers
  <2> QED BY <1>0, <2>1, SubscriberPushed
<1> QED BY <1>2, <1>3, <1>4 DEF Next, Library, Returns, Calls

LEMMA ComputedInvalidated ==
  ASSUME TypeOK, [Next]_vars, NEW c \in Computeds, ~dirty[c], dirty'[c]
  PROVE  InvalidateComputed(c)
<1>0. dirty \in [Computeds -> BOOLEAN] /\ dirty' # dirty
  BY DEF TypeOK
<1>1. ~UNCHANGED vars
  BY <1>0 DEF vars, values
<1>2. /\ \A s \in States : ~GetState(s) /\ ~Set(s)
      /\ \A d \in Computeds : ~GetCached(d) /\ ~GetDirty(d)
      /\ \A v \in Watchers : /\ ~Watch(v) /\ ~Stop(v) /\ ~QueueWatcher(v)
                             /\ ~SkipWatcher(v) /\ ~FlushRun(v) /\ ~FlushSkip(v)
  BY <1>0 DEF GetState, Set, GetCached, GetDirty, Watch, Stop, QueueWatcher,
              SkipWatcher, FlushRun, FlushSkip, values
<1>3. /\ ~EffectReturns /\ ~BatchBegin /\ ~BatchEnd /\ ~NotifyDone
      /\ ~FlushRound /\ ~FlushEnd
  BY <1>0 DEF EffectReturns, BatchBegin, BatchEnd, NotifyDone, FlushRound, FlushEnd,
              values
<1>4. ~ComputeReturns
  BY <1>0 DEF ComputeReturns
<1>5. ASSUME NEW d \in Computeds, InvalidateComputed(d)
      PROVE  d = c
  BY <1>0, <1>5 DEF InvalidateComputed
<1> QED BY <1>1, <1>2, <1>3, <1>4, <1>5 DEF Next, Library, Returns, Calls

\* Outside an unbatched notify loop, and unless a reading was overtaken, a flush
\* runs only watchers that have read an overwritten value, and only such a
\* computed is marked dirty: flushSubscribers and invalidate redo nothing for
\* nothing.
THEOREM OnlyStaleRerunsCorrect == Spec => OnlyStaleReruns
<1> DEFINE Ok == ~Unbatched /\ ~overtaken =>
                   /\ \A w \in Watchers :
                        Running("flush") /\ subscriberStack' = <<w>> \o subscriberStack
                          => ~Current(obs[w])
                   /\ \A c \in Computeds : ~dirty[c] /\ dirty'[c] => ~Current(obs[c])
<1>1. ASSUME TypeOK, QueueDiscipline, ReadInv, [Next]_vars, ~Unbatched,
             ~overtaken, NEW w \in Watchers, Running("flush"),
             subscriberStack' = <<w>> \o subscriberStack
      PROVE  ~Current(obs[w])
  <2>1. FlushRun(w)
    BY <1>1, FlushReruns
  <2>2. 1 \in DOMAIN round /\ round[1] = w /\ phase[w] # "stopped"
    BY <1>1, <2>1 DEF FlushRun, TypeOK
  <2>3. queued[w]
    BY <1>1, <2>2 DEF QueueDiscipline
  <2> QED BY <1>1, <2>3 DEF ReadInv, StaleOnly
<1>2. ASSUME TypeOK, SubscriptionSymmetry, FreshInv, ReadInv, [Next]_vars, ~Unbatched,
             ~overtaken, NEW c \in Computeds, ~dirty[c], dirty'[c]
      PROVE  ~Current(obs[c])
  <2>1. InvalidateComputed(c)
    BY <1>2, ComputedInvalidated
  <2>2. ~Executing(c)
    BY <1>2 DEF FreshInv, ComputeInv, ComputedOnce, Executing
  <2> QED BY <1>2, <2>1, <2>2, InvalidateComputedStaleOnly DEF ReadInv
<1>3. TypeOK /\ SubscriptionSymmetry /\ QueueDiscipline /\ FreshInv /\ ReadInv
      /\ [Next]_vars => Ok
  BY <1>1, <1>2
<1>4. TypeOK /\ SubscriptionSymmetry /\ QueueDiscipline /\ FreshInv /\ ReadInv
      /\ [Next]_vars => [Ok]_vars
  BY <1>3
<1> HIDE DEF Ok
<1>5. Spec => [][Ok]_vars
  BY <1>4, TypeCorrect, SymmetryCorrect, QueueCorrect, FreshCorrect, ReadCorrect,
     PTL DEF Spec
<1> QED BY <1>5 DEF OnlyStaleReruns, Ok
=============================================================================
