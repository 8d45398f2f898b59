---------------------------- MODULE SiblingsProofs -----------------------------
(***************************************************************************)
(* Proofs about Siblings: for any number of children, any keys and kinds   *)
(* and blocks of any size, the nodes of the parent are in the order of the *)
(* children at every step of a patch, if one knows where each child is on  *)
(* its way.                                                                *)
(*                                                                         *)
(* The inductive invariant says so with rows: first the nodes before the   *)
(* children, then one row for each old child, one for each child that is   *)
(* mounted anew, one for each that reorderMountedChildren has moved, and   *)
(* the nodes behind them.  A child that is patched, or replaces another,   *)
(* is in the row of the old one; a row is empty when its nodes are gone.   *)
(***************************************************************************)
EXTENDS Siblings, SequenceTheorems, TLAPS

PlaceOf(j) == CHOOSE k \in DOMAIN from : from[k] = j

\* the nodes of a child that is done, where it was mounted or patched
Left(k) == IF pc # "order" \/ k < at THEN children[k].nodes
           ELSE IF k = at THEN todo ELSE <<>>

\* the nodes of an old child that no new one has been found for
Unmatched(j) == IF pc = "order" \/ (pc = "rest" /\ j < at) THEN <<>>
                ELSE IF pc = "rest" /\ j = at THEN todo ELSE old[j].nodes

OldRow(j) == IF j \in used THEN Left(PlaceOf(j))
             ELSE IF j = cur THEN block \o todo ELSE Unmatched(j)

NewRow(k) == IF k \in DOMAIN from
             THEN IF from[k] = 0 THEN Left(k) ELSE <<>>
             ELSE IF pc = "mount" /\ cur = 0 /\ k = index THEN block ELSE <<>>

MovedRow(k) == IF pc # "order" \/ k < at THEN <<>>
               ELSE IF k = at THEN block ELSE children[k].nodes

Behind == Len(old) + 2 * Len(next) + 1

Row(r) == IF r = 0 THEN Lead
          ELSE IF r <= Len(old) THEN OldRow(r)
          ELSE IF r <= Len(old) + Len(next) THEN NewRow(r - Len(old))
          ELSE IF r < Behind THEN MovedRow(r - Len(old) - Len(next))
          ELSE Trail

Rows == [r \in 0 .. Behind |-> Row(r)]

\* what the variables of a loop are in and out of it
Loops ==
  /\ pc = "idle" => next = <<>>
  /\ pc \in {"idle", "next", "rest"} => block = <<>>
  /\ pc \in {"idle", "next", "rest", "order"} => cur = 0
  /\ pc \in {"idle", "next", "patch", "rerender"} => todo = <<>>
  /\ pc \notin {"rest", "order"} => at = 0
  /\ pc \in {"mount", "patch", "remove"} => index <= Len(next)
  /\ pc \in {"rest", "order"} => Len(children) = Len(next)
  /\ pc = "rerender" => next = <<>>
  /\ pc \in {"patch", "rerender", "remove"} => cur # 0 /\ block # <<>>
  /\ pc = "mount" => todo = IF cur = 0 THEN <<>> ELSE old[cur].nodes
  /\ pc = "rest" => /\ at <= Len(old)
                    /\ at = 0 \/ at \in used => todo = <<>>
  /\ pc = "order" => /\ at <= Len(children)
                     /\ at = 0 => children = <<>> /\ todo = <<>> /\ block = <<>>
                     /\ at # 0 => block \o todo = children[at].nodes

\* what has been found for the new children
Matches ==
  /\ \A k \in DOMAIN children :
       /\ sameVNode(children[k], next[k])
       /\ from[k] # 0 => old[from[k]].key = next[k].key
  /\ pc \in {"mount", "patch", "remove"} /\ cur # 0 =>
       /\ old[cur].key = next[index].key
       /\ pc = "patch" <=> sameVNode(old[cur], next[index])
       /\ pc = "patch" /\ old[cur].kind \in Simple => block = old[cur].nodes
  /\ ~hasKeyedChildren =>
       /\ \A k \in DOMAIN from : from[k] = IF k <= Len(old) THEN k ELSE 0
       /\ pc \in {"mount", "patch", "remove"} =>
            cur = IF index <= Len(old) THEN index ELSE 0

Keeps(j, k) == /\ FirstOf(old, j) /\ FirstOf(next, k)
               /\ sameVNode(old[j], next[k]) /\ old[j].kind \in Simple

\* a keyed element is found for the first child that has its key
Kept ==
  \A j \in DOMAIN old, k \in DOMAIN next :
    Keeps(j, k) /\ k \in DOMAIN children =>
      from[k] = j /\ children[k].nodes = old[j].nodes
KeptNext ==
  pc \in {"mount", "patch", "remove"} =>
    \A j \in DOMAIN old : Keeps(j, index) => cur = j

Shape == TypeOK /\ Loops /\ Matches /\ Kept /\ KeptNext
IInv == Shape /\ ok /\ InDocumentOrder(kids, Rows)

-----------------------------------------------------------------------------
(* Sequences *)

(***************************************************************************)
(* What RemoveAt and InsertAt of SequencesExt return, position by position. *)
(***************************************************************************)
LEMMA RemoveAtFacts ==
  ASSUME NEW S, NEW s \in Seq(S), NEW i \in DOMAIN s
  PROVE  /\ RemoveAt(s, i) \in Seq(S)
         /\ Len(RemoveAt(s, i)) = Len(s) - 1
         /\ \A j \in 1 .. (Len(s) - 1) :
              RemoveAt(s, i)[j] = IF j < i THEN s[j] ELSE s[j + 1]
<1> DEFINE a == SubSeq(s, 1, i - 1)
           b == SubSeq(s, i + 1, Len(s))
<1>1. i \in 1 .. Len(s) /\ Len(s) \in Nat
  BY LenProperties
<1>2. a \in Seq(S) /\ Len(a) = i - 1 /\ \A j \in 1 .. (i - 1) : a[j] = s[j]
  BY <1>1, SubSeqProperties
<1>3. b \in Seq(S) /\ Len(b) = Len(s) - i /\ \A j \in 1 .. (Len(s) - i) : b[j] = s[i + j]
  BY <1>1, SubSeqProperties
<1>4. RemoveAt(s, i) = a \o b
  BY DEF RemoveAt
<1> HIDE DEF a, b
<1>5. /\ a \o b \in Seq(S) /\ Len(a \o b) = Len(s) - 1
      /\ \A j \in 1 .. (Len(s) - 1) : (a \o b)[j] = IF j <= i - 1 THEN a[j] ELSE b[j - (i - 1)]
  <2>1. Len(a) + Len(b) = Len(s) - 1
    BY <1>1, <1>2, <1>3
  <2>2. /\ a \o b \in Seq(S) /\ Len(a \o b) = Len(a) + Len(b)
        /\ \A j \in 1 .. Len(a) + Len(b) :
             (a \o b)[j] = IF j <= Len(a) THEN a[j] ELSE b[j - Len(a)]
    BY <1>2, <1>3, ConcatProperties
  <2> QED BY <1>2, <2>1, <2>2
<1> QED
  <2>1. ASSUME NEW j \in 1 .. (Len(s) - 1)
        PROVE  (a \o b)[j] = IF j < i THEN s[j] ELSE s[j + 1]
    <3>1. CASE j < i
      BY <1>1, <1>2, <1>5, <3>1
    <3>2. CASE ~(j < i)
      <4>1. j - (i - 1) \in 1 .. (Len(s) - i) /\ i + (j - (i - 1)) = j + 1
        BY <1>1, <3>2
      <4> QED BY <1>1, <1>3, <1>5, <3>2, <4>1, SMTT(30)
    <3> QED BY <3>1, <3>2
  <2> QED BY <1>4, <1>5, <2>1

LEMMA InsertAtFacts ==
  ASSUME NEW S, NEW s \in Seq(S), NEW e \in S, NEW i \in 1 .. (Len(s) + 1)
  PROVE  /\ InsertAt(s, i, e) \in Seq(S)
         /\ Len(InsertAt(s, i, e)) = Len(s) + 1
         /\ \A j \in 1 .. (Len(s) + 1) :
              InsertAt(s, i, e)[j] = IF j < i THEN s[j] ELSE IF j = i THEN e ELSE s[j - 1]
<1> DEFINE a == SubSeq(s, 1, i - 1)
           b == SubSeq(s, i, Len(s))
           c == a \o <<e>>
<1>1. Len(s) \in Nat /\ i \in Nat
  BY LenProperties
<1>2. a \in Seq(S) /\ Len(a) = i - 1 /\ \A j \in 1 .. (i - 1) : a[j] = s[j]
  BY <1>1, SubSeqProperties
<1>3. /\ b \in Seq(S) /\ Len(b) = Len(s) - i + 1
      /\ \A j \in 1 .. (Len(s) - i + 1) : b[j] = s[i + j - 1]
  BY <1>1, SubSeqProperties
<1>6. InsertAt(s, i, e) = c \o b
  BY DEF InsertAt
<1> HIDE DEF a, b
<1>4. /\ c \in Seq(S) /\ Len(c) = i
      /\ \A j \in 1 .. i : c[j] = IF j < i THEN a[j] ELSE e
  <2>1. <<e>> \in Seq(S) /\ Len(<<e>>) = 1 /\ <<e>>[1] = e
    OBVIOUS
  <2> DEFINE o == <<e>>
  <2> HIDE DEF o
  <2>2. /\ a \o o \in Seq(S) /\ Len(a \o o) = Len(a) + Len(o)
        /\ \A j \in 1 .. Len(a) + Len(o) :
             (a \o o)[j] = IF j <= Len(a) THEN a[j] ELSE o[j - Len(a)]
    BY <1>2, <2>1, ConcatProperties DEF o
  <2> QED BY <1>1, <1>2, <2>1, <2>2 DEF o
<1> HIDE DEF c
<1>5. /\ c \o b \in Seq(S) /\ Len(c \o b) = Len(s) + 1
      /\ \A j \in 1 .. (Len(s) + 1) : (c \o b)[j] = IF j <= i THEN c[j] ELSE b[j - i]
  <2>1. Len(c) + Len(b) = Len(s) + 1
    BY <1>1, <1>3, <1>4
  <2> QED BY <1>3, <1>4, <2>1, ConcatProperties
<1> QED
  <2>1. ASSUME NEW j \in 1 .. (Len(s) + 1)
        PROVE  (c \o b)[j] = IF j < i THEN s[j] ELSE IF j = i THEN e ELSE s[j - 1]
    <3>1. CASE j <= i
      BY <1>1, <1>2, <1>4, <1>5, <3>1
    <3>2. CASE ~(j <= i)
      <4>1. j - i \in 1 .. (Len(s) - i + 1) /\ i + (j - i) - 1 = j - 1
        BY <1>1, <3>2
      <4> QED BY <1>1, <1>3, <1>5, <3>2, <4>1
    <3> QED BY <3>1, <3>2
  <2> QED BY <1>5, <1>6, <2>1

LEMMA InsertAtSeq ==
  ASSUME NEW S, NEW s \in Seq(S), NEW e \in S, NEW i \in 1 .. (Len(s) + 1)
  PROVE  InsertAt(s, i, e) \in Seq(S) /\ Len(InsertAt(s, i, e)) = Len(s) + 1
BY InsertAtFacts

LEMMA InsertAtElement ==
  ASSUME NEW S, NEW s \in Seq(S), NEW e \in S, NEW i \in 1 .. (Len(s) + 1),
         NEW j \in 1 .. (Len(s) + 1)
  PROVE  InsertAt(s, i, e)[j] = IF j < i THEN s[j] ELSE IF j = i THEN e ELSE s[j - 1]
BY InsertAtFacts

(***************************************************************************)
(* What is left of a sequence without repetition, and in which order, when *)
(* one of its elements is taken out or put in.                             *)
(***************************************************************************)
LEMMA PositionFacts ==
  ASSUME NEW S, NEW s \in Seq(S), NEW n \in ToSet(s)
  PROVE  Position(s, n) \in DOMAIN s /\ s[Position(s, n)] = n
BY DEF Position, ToSet

LEMMA WithoutFacts ==
  ASSUME NEW S, NEW s \in Seq(S), NEW n, IsInjective(s)
  PROVE  /\ Without(s, n) \in Seq(S) /\ IsInjective(Without(s, n))
         /\ ToSet(Without(s, n)) = ToSet(s) \ {n}
         /\ \A a, b : Follows(s, a, b) /\ a # n /\ b # n => Follows(Without(s, n), a, b)
<1>1. CASE n \notin ToSet(s)
  BY <1>1 DEF Without
<1>2. CASE n \in ToSet(s)
  <2> DEFINE i == Position(s, n)
             t == RemoveAt(s, i)
  <2>1. i \in DOMAIN s /\ s[i] = n /\ DOMAIN s = 1 .. Len(s) /\ Len(s) \in Nat
    BY <1>2, PositionFacts, LenProperties, SMTT(30)
  <2>2. /\ t \in Seq(S) /\ Len(t) = Len(s) - 1
        /\ \A j \in 1 .. (Len(s) - 1) : t[j] = IF j < i THEN s[j] ELSE s[j + 1]
    BY <2>1, RemoveAtFacts
  <2>3. DOMAIN t = 1 .. (Len(s) - 1)
    BY <2>2, LenProperties
  <2>4. t = Without(s, n)
    BY <1>2 DEF Without
  <2> DEFINE up(j) == IF j < i THEN j ELSE j + 1
             down(j) == IF j < i THEN j ELSE j - 1
  <2> HIDE DEF i, t
  <2>5. \A j \in DOMAIN t : up(j) \in DOMAIN s /\ up(j) # i /\ t[j] = s[up(j)]
    BY <2>1, <2>2, <2>3
  <2>6. \A j \in DOMAIN s : j # i => down(j) \in DOMAIN t /\ t[down(j)] = s[j]
    BY <2>1, <2>2, <2>3
  <2>7. \A j, k \in DOMAIN s : j # i /\ k # i /\ j < k => down(j) < down(k)
    BY <2>1
  <2>8. \A j, k \in DOMAIN t : j # k => up(j) # up(k)
    BY <2>1, <2>3
  <2>9. IsInjective(t)
    <3> SUFFICES ASSUME NEW j \in DOMAIN t, NEW k \in DOMAIN t, t[j] = t[k]
                 PROVE  j = k
      BY DEF IsInjective
    <3>1. s[up(j)] = s[up(k)] /\ up(j) \in DOMAIN s /\ up(k) \in DOMAIN s
      BY <2>5
    <3> HIDE DEF up
    <3>2. up(j) = up(k)
      BY <3>1 DEF IsInjective
    <3> QED BY <3>2, <2>8
  <2>10. ToSet(t) = ToSet(s) \ {n}
    <3>1. ASSUME NEW j \in DOMAIN t PROVE t[j] \in ToSet(s) \ {n}
      <4> HIDE DEF up
      <4>1. up(j) \in DOMAIN s /\ up(j) # i /\ t[j] = s[up(j)]
        BY <2>5
      <4>2. s[up(j)] # n
        BY <2>1, <4>1 DEF IsInjective
      <4> QED BY <4>1, <4>2 DEF ToSet
    <3>2. ASSUME NEW j \in DOMAIN s, s[j] # n PROVE s[j] \in ToSet(t)
      <4> HIDE DEF down
      <4> QED BY <2>1, <2>6, <3>2 DEF ToSet
    <3> QED BY <3>1, <3>2 DEF ToSet
  <2>11. ASSUME NEW a, NEW b, Follows(s, a, b), a # n, b # n
         PROVE  Follows(t, a, b)
    <3>1. PICK j, k \in DOMAIN s : j < k /\ s[j] = a /\ s[k] = b
      BY <2>11 DEF Follows
    <3>2. j # i /\ k # i
      BY <2>1, <2>11, <3>1
    <3>3. down(j) \in DOMAIN t /\ t[down(j)] = a /\ down(k) \in DOMAIN t /\ t[down(k)] = b
      BY <2>6, <3>1, <3>2
    <3>4. down(j) < down(k)
      BY <2>7, <3>1, <3>2
    <3> HIDE DEF down
    <3> QED BY <3>3, <3>4 DEF Follows
  <2> QED BY <2>2, <2>4, <2>9, <2>10, <2>11
<1> QED BY <1>1, <1>2

\* s with n put before x, at the end if there is no x
Inserted(s, n, x) == IF x = Nil THEN Append(s, n) ELSE InsertAt(s, Position(s, x), n)

LEMMA InsertedFacts ==
  ASSUME NEW s \in Seq(Nodes), NEW n \in Nodes, n \notin ToSet(s), IsInjective(s),
         NEW x, x = Nil \/ x \in ToSet(s)
  PROVE  /\ Inserted(s, n, x) \in Seq(Nodes) /\ IsInjective(Inserted(s, n, x))
         /\ ToSet(Inserted(s, n, x)) = ToSet(s) \cup {n}
         /\ \A a, b : Follows(s, a, b) => Follows(Inserted(s, n, x), a, b)
         /\ \A a : (IF x = Nil THEN a \in ToSet(s) ELSE Follows(s, a, x))
                     => Follows(Inserted(s, n, x), a, n)
         /\ \A b : x # Nil /\ (b = x \/ Follows(s, x, b))
                     => Follows(Inserted(s, n, x), n, b)
<1> DEFINE i == IF x = Nil THEN Len(s) + 1 ELSE Position(s, x)
           t == Inserted(s, n, x)
<1>0. Len(s) \in Nat /\ DOMAIN s = 1 .. Len(s)
  BY LenProperties
<1>1. i \in 1 .. (Len(s) + 1) /\ (x # Nil => i \in DOMAIN s /\ s[i] = x)
  <2>1. x # Nil => Position(s, x) \in DOMAIN s /\ s[Position(s, x)] = x
    BY PositionFacts
  <2> QED BY <1>0, <2>1
<1>2. /\ t \in Seq(Nodes) /\ Len(t) = Len(s) + 1
      /\ \A j \in 1 .. (Len(s) + 1) :
           t[j] = IF j < i THEN s[j] ELSE IF j = i THEN n ELSE s[j - 1]
  <2>1. CASE x = Nil
    BY <1>0, <2>1, AppendProperties DEF Inserted
  <2>2. CASE x # Nil
    <3>1. t = InsertAt(s, i, n)
      BY <2>2 DEF Inserted
    <3> HIDE DEF i, t
    <3> QED BY <1>1, <3>1, InsertAtFacts, SMTT(30)
  <2> QED BY <2>1, <2>2
<1>3. DOMAIN t = 1 .. (Len(s) + 1)
  BY <1>2, LenProperties
<1> DEFINE up(j) == IF j < i THEN j ELSE j + 1
           down(j) == IF j < i THEN j ELSE j - 1
<1> HIDE DEF i, t
<1>4. \A j \in DOMAIN s : up(j) \in DOMAIN t /\ t[up(j)] = s[j]
  BY <1>0, <1>1, <1>2, <1>3
<1>5. \A j \in DOMAIN t : j # i => down(j) \in DOMAIN s /\ t[j] = s[down(j)]
  BY <1>0, <1>1, <1>2, <1>3
<1>6. \A j, k \in DOMAIN s : j < k => up(j) < up(k)
  BY <1>0, <1>1
<1>7. i \in DOMAIN t /\ t[i] = n
  BY <1>1, <1>2, <1>3
<1>8. IsInjective(t)
  <2> SUFFICES ASSUME NEW j \in DOMAIN t, NEW k \in DOMAIN t, t[j] = t[k]
               PROVE  j = k
    BY DEF IsInjective
  <2>1. CASE j = i \/ k = i
    <3> HIDE DEF down
    <3> QED BY <1>5, <1>7, <2>1 DEF ToSet
  <2>2. CASE j # i /\ k # i
    <3>1. down(j) \in DOMAIN s /\ down(k) \in DOMAIN s /\ s[down(j)] = s[down(k)]
      BY <1>5, <2>2
    <3>2. down(j) = down(k)
      <4> HIDE DEF down
      <4> QED BY <3>1 DEF IsInjective
    <3> QED BY <1>1, <1>3, <2>2, <3>2
  <2> QED BY <2>1, <2>2
<1>9. ToSet(t) = ToSet(s) \cup {n}
  <2> HIDE DEF up, down
  <2> QED BY <1>4, <1>5, <1>7 DEF ToSet
<1>10. ASSUME NEW a, NEW b, Follows(s, a, b) PROVE Follows(t, a, b)
  <2>1. PICK j, k \in DOMAIN s : j < k /\ s[j] = a /\ s[k] = b
    BY <1>10 DEF Follows
  <2>2. up(j) < up(k)
    BY <1>6, <2>1
  <2> HIDE DEF up
  <2> QED BY <1>4, <2>1, <2>2 DEF Follows
<1>11. ASSUME NEW a, IF x = Nil THEN a \in ToSet(s) ELSE Follows(s, a, x)
       PROVE  Follows(t, a, n)
  <2>1. PICK j \in DOMAIN s : s[j] = a /\ j < i
    <3>1. CASE x = Nil
      BY <1>0, <1>11, <3>1 DEF ToSet, i
    <3>2. CASE x # Nil
      <4>1. PICK j, k \in DOMAIN s : j < k /\ s[j] = a /\ s[k] = x
        BY <1>11, <3>2 DEF Follows
      <4>2. k = i
        BY <1>1, <3>2, <4>1 DEF IsInjective
      <4> QED BY <4>1, <4>2
    <3> QED BY <3>1, <3>2
  <2>2. j \in DOMAIN t /\ t[j] = a
    BY <1>4, <2>1
  <2> QED BY <1>7, <2>1, <2>2 DEF Follows
<1>12. ASSUME NEW b, x # Nil, b = x \/ Follows(s, x, b) PROVE Follows(t, n, b)
  <2>1. PICK k \in DOMAIN s : s[k] = b /\ k >= i
    <3>1. CASE b = x
      BY <1>0, <1>1, <1>12, <3>1
    <3>2. CASE Follows(s, x, b)
      <4>1. PICK j, k \in DOMAIN s : j < k /\ s[j] = x /\ s[k] = b
        BY <3>2 DEF Follows
      <4>2. j = i
        BY <1>1, <1>12, <4>1 DEF IsInjective
      <4> QED BY <1>0, <4>1, <4>2
    <3> QED BY <1>12, <3>1, <3>2
  <2>2. \E m \in DOMAIN t : t[m] = b /\ i < m
    <3>1. k + 1 \in DOMAIN t /\ t[k + 1] = b /\ i < k + 1
      BY <1>0, <1>1, <1>4, <2>1
    <3> QED BY <3>1
  <2> HIDE DEF up
  <2> QED BY <1>7, <2>2 DEF Follows
<1> HIDE DEF up, down
<1> QED BY <1>2, <1>8, <1>9, <1>10, <1>11, <1>12 DEF t

-----------------------------------------------------------------------------
(* Rows *)

IsRows(B, T) == DOMAIN B = 0 .. T /\ \A r \in 0 .. T : B[r] \in Seq(Nodes)

LEMMA CellsOf ==
  ASSUME NEW T, NEW B, IsRows(B, T)
  PROVE  \A n : n \in NodesOf(B) <=> \E r \in 0 .. T : \E p \in DOMAIN B[r] : B[r][p] = n
<1>1. DOMAIN B = 0 .. T
  BY DEF IsRows
<1>2. \A n : n \in NodesOf(B) <=> \E r \in DOMAIN B : \E p \in DOMAIN B[r] : B[r][p] = n
  BY DEF ToSet, NodesOf
<1> QED BY <1>1, <1>2

LEMMA FollowsFacts ==
  ASSUME NEW S, NEW s \in Seq(S), IsInjective(s), NEW a, NEW b, Follows(s, a, b)
  PROVE  a # b /\ a \in ToSet(s) /\ b \in ToSet(s)
<1>1. PICK i, j \in DOMAIN s : i < j /\ s[i] = a /\ s[j] = b
  BY DEF Follows
<1>2. i \in Int /\ j \in Int
  BY LenProperties
<1> QED BY <1>1, <1>2 DEF IsInjective, ToSet

(***************************************************************************)
(* A node of a sequence that is in the order of rows is in one place of    *)
(* one row.                                                                *)
(***************************************************************************)
LEMMA CellFacts ==
  ASSUME NEW T \in Nat, NEW B, IsRows(B, T), NEW s \in Seq(Nodes), InDocumentOrder(s, B)
  PROVE  /\ \A r \in 0 .. T : \A p \in DOMAIN B[r] : B[r][p] \in ToSet(s)
         /\ \A n \in ToSet(s) : \E r \in 0 .. T : \E p \in DOMAIN B[r] : B[r][p] = n
         /\ \A r, q \in 0 .. T : \A p \in DOMAIN B[r], o \in DOMAIN B[q] :
              B[r][p] = B[q][o] => r = q /\ p = o
<1>1. /\ IsInjective(s)
      /\ ToSet(s) = NodesOf(B)
      /\ \A r, q \in 0 .. T : \A p \in DOMAIN B[r], o \in DOMAIN B[q] :
           Earlier(r, p, q, o) => Follows(s, B[r][p], B[q][o])
  BY DEF InDocumentOrder, IsRows
<1>0. \A n : n \in ToSet(s) <=> \E r \in 0 .. T : \E p \in DOMAIN B[r] : B[r][p] = n
  BY <1>1, CellsOf
<1>2. \A r \in 0 .. T : \A p \in DOMAIN B[r] : B[r][p] \in ToSet(s)
  BY <1>0
<1>3. \A n \in ToSet(s) : \E r \in 0 .. T : \E p \in DOMAIN B[r] : B[r][p] = n
  BY <1>0
<1>4. ASSUME NEW r \in 0 .. T, NEW q \in 0 .. T, NEW p \in DOMAIN B[r], NEW o \in DOMAIN B[q],
             B[r][p] = B[q][o]
      PROVE  r = q /\ p = o
  <2>1. p \in Int /\ o \in Int
    BY LenProperties DEF IsRows
  <2>2. ~Earlier(r, p, q, o) /\ ~Earlier(q, o, r, p)
    BY <1>1, <1>4, FollowsFacts
  <2> QED BY <2>1, <2>2 DEF Earlier
<1> QED BY <1>2, <1>3, <1>4

(***************************************************************************)
(* A node that leaves the parent leaves its row.                           *)
(***************************************************************************)
LEMMA NodeRemoved ==
  ASSUME NEW T \in Nat, NEW B, IsRows(B, T), NEW s \in Seq(Nodes), InDocumentOrder(s, B),
         NEW C, IsRows(C, T), NEW r \in 0 .. T, NEW p \in DOMAIN B[r],
         C[r] = RemoveAt(B[r], p), \A q \in 0 .. T : q # r => C[q] = B[q]
  PROVE  /\ B[r][p] \in ToSet(s)
         /\ Without(s, B[r][p]) \in Seq(Nodes)
         /\ ToSet(Without(s, B[r][p])) = ToSet(s) \ {B[r][p]}
         /\ InDocumentOrder(Without(s, B[r][p]), C)
<1> DEFINE n == B[r][p]
           t == Without(s, n)
           up(q, o) == IF q = r /\ o >= p THEN o + 1 ELSE o
           down(q, o) == IF q = r /\ o > p THEN o - 1 ELSE o
<1>1. /\ IsInjective(s)
      /\ ToSet(s) = NodesOf(B)
      /\ \A q, m \in 0 .. T : \A o \in DOMAIN B[q], l \in DOMAIN B[m] :
           Earlier(q, o, m, l) => Follows(s, B[q][o], B[m][l])
  BY DEF InDocumentOrder, IsRows
<1>2. \A q \in 0 .. T : /\ Len(B[q]) \in Nat /\ DOMAIN B[q] = 1 .. Len(B[q])
                        /\ Len(C[q]) \in Nat /\ DOMAIN C[q] = 1 .. Len(C[q])
  BY LenProperties DEF IsRows
<1>3. /\ Len(C[r]) = Len(B[r]) - 1
      /\ \A o \in 1 .. (Len(B[r]) - 1) : C[r][o] = IF o < p THEN B[r][o] ELSE B[r][o + 1]
  <2>1. B[r] \in Seq(Nodes)
    BY DEF IsRows
  <2> QED BY <2>1, RemoveAtFacts
<1>4. /\ t \in Seq(Nodes) /\ IsInjective(t) /\ ToSet(t) = ToSet(s) \ {n}
      /\ \A a, b : Follows(s, a, b) /\ a # n /\ b # n => Follows(t, a, b)
  BY <1>1, WithoutFacts
<1>5. /\ \A q \in 0 .. T : \A o \in DOMAIN B[q] : B[q][o] \in ToSet(s)
      /\ \A q \in 0 .. T : \A o \in DOMAIN B[q] : B[q][o] = n => q = r /\ o = p
      /\ \A x \in ToSet(s) : \E q \in 0 .. T : \E o \in DOMAIN B[q] : B[q][o] = x
  BY CellFacts
<1> HIDE DEF n, t
<1>6. ASSUME NEW q \in 0 .. T, NEW o \in DOMAIN C[q]
      PROVE  /\ up(q, o) \in DOMAIN B[q] /\ C[q][o] = B[q][up(q, o)]
             /\ C[q][o] # n
  <2>1. /\ up(q, o) \in DOMAIN B[q] /\ C[q][o] = B[q][up(q, o)]
        /\ q # r \/ up(q, o) # p
    <3>1. CASE q = r
      <4>1. o \in 1 .. Len(C[r]) /\ p \in 1 .. Len(B[r]) /\ Len(B[r]) \in Nat
        BY <1>2, <3>1
      <4>2. up(r, o) \in 1 .. Len(B[r]) /\ C[r][o] = B[r][up(r, o)] /\ up(r, o) # p
        BY <1>3, <4>1
      <4> QED BY <1>2, <3>1, <4>2
    <3>2. CASE q # r
      BY <3>2
    <3> QED BY <3>1, <3>2
  <2> HIDE DEF up
  <2> QED BY <1>5, <2>1
<1>7. ASSUME NEW q \in 0 .. T, NEW o \in DOMAIN B[q], q # r \/ o # p
      PROVE  down(q, o) \in DOMAIN C[q] /\ C[q][down(q, o)] = B[q][o]
  <2>1. CASE q = r
    <3>1. o \in 1 .. Len(B[r]) /\ p \in 1 .. Len(B[r]) /\ Len(B[r]) \in Nat /\ o # p
      BY <1>2, <1>7, <2>1
    <3>2. down(r, o) \in 1 .. Len(C[r]) /\ C[r][down(r, o)] = B[r][o]
      BY <1>3, <3>1, SMTT(30)
    <3> QED BY <1>2, <2>1, <3>2
  <2>2. CASE q # r
    BY <2>2
  <2> QED BY <2>1, <2>2
<1>8. ToSet(t) = NodesOf(C)
  <2>1. ASSUME NEW q \in 0 .. T, NEW o \in DOMAIN C[q] PROVE C[q][o] \in ToSet(t)
    <3>1. up(q, o) \in DOMAIN B[q] /\ C[q][o] = B[q][up(q, o)] /\ C[q][o] # n
      BY <1>6
    <3> HIDE DEF up
    <3> QED BY <1>4, <1>5, <3>1
  <2>2. ASSUME NEW x \in ToSet(t)
        PROVE  \E q \in 0 .. T : \E o \in DOMAIN C[q] : C[q][o] = x
    <3>1. x \in ToSet(s) /\ x # n
      BY <1>4
    <3>2. PICK q \in 0 .. T : \E o \in DOMAIN B[q] : B[q][o] = x
      BY <1>5, <3>1
    <3>3. PICK o \in DOMAIN B[q] : B[q][o] = x
      BY <3>2
    <3>4. q # r \/ o # p
      BY <3>1, <3>3 DEF n
    <3> HIDE DEF down
    <3> QED BY <1>7, <3>3, <3>4
  <2> HIDE DEF up, down
  <2>3. \A y : y \in ToSet(t) <=> \E q \in 0 .. T : \E o \in DOMAIN C[q] : C[q][o] = y
    BY <2>1, <2>2
  <2>4. \A y : y \in NodesOf(C) <=> \E q \in 0 .. T : \E o \in DOMAIN C[q] : C[q][o] = y
    BY CellsOf
  <2> QED BY <2>3, <2>4
<1>9. ASSUME NEW q \in 0 .. T, NEW m \in 0 .. T, NEW o \in DOMAIN C[q], NEW l \in DOMAIN C[m],
             Earlier(q, o, m, l)
      PROVE  Follows(t, C[q][o], C[m][l])
  <2>1. o \in Int /\ l \in Int /\ p \in Int
    BY <1>2, SMTT(30)
  <2>2. Earlier(q, up(q, o), m, up(m, l))
    BY <1>9, <2>1 DEF Earlier
  <2>3. /\ up(q, o) \in DOMAIN B[q] /\ C[q][o] = B[q][up(q, o)] /\ C[q][o] # n
        /\ up(m, l) \in DOMAIN B[m] /\ C[m][l] = B[m][up(m, l)] /\ C[m][l] # n
    BY <1>6
  <2> HIDE DEF up
  <2>4. Follows(s, C[q][o], C[m][l])
    BY <1>1, <2>2, <2>3
  <2> QED BY <1>4, <2>3, <2>4
<1>10. n \in ToSet(s)
  BY <1>5 DEF n
<1> HIDE DEF up, down
<1>11. InDocumentOrder(t, C)
  BY <1>4, <1>8, <1>9 DEF InDocumentOrder, IsRows
<1> QED BY <1>4, <1>10, <1>11 DEF n, t

(***************************************************************************)
(* The anchor of place p of row r: the node that is there, or, behind the  *)
(* last one of the row, what begins the next row that has nodes.           *)
(***************************************************************************)
IsAnchor(B, r, p, x) ==
  \/ p \in DOMAIN B[r] /\ x = B[r][p]
  \/ /\ p = Len(B[r]) + 1
     /\ \/ x = Nil /\ \A q \in DOMAIN B : q > r => B[q] = <<>>
        \/ \E q \in DOMAIN B : /\ q > r /\ B[q] # <<>> /\ x = B[q][1]
                               /\ \A m \in DOMAIN B : r < m /\ m < q => B[m] = <<>>

(***************************************************************************)
(* A node that is put before the anchor of a place in the rows is then     *)
(* there.                                                                  *)
(***************************************************************************)
LEMMA NodeInserted ==
  ASSUME NEW T \in Nat, NEW B, IsRows(B, T), NEW s \in Seq(Nodes), InDocumentOrder(s, B),
         NEW C, IsRows(C, T), NEW r \in 0 .. T, NEW p \in 1 .. (Len(B[r]) + 1),
         NEW n \in Nodes, n \notin ToSet(s), NEW x, IsAnchor(B, r, p, x),
         C[r] = InsertAt(B[r], p, n), \A q \in 0 .. T : q # r => C[q] = B[q]
  PROVE  /\ x = Nil \/ x \in ToSet(s)
         /\ Inserted(s, n, x) \in Seq(Nodes)
         /\ InDocumentOrder(Inserted(s, n, x), C)
<1> DEFINE t == Inserted(s, n, x)
           down(q, o) == IF q = r /\ o > p THEN o - 1 ELSE o
           up(q, o) == IF q = r /\ o >= p THEN o + 1 ELSE o
<1>1. /\ IsInjective(s)
      /\ ToSet(s) = NodesOf(B)
      /\ \A q, m \in 0 .. T : \A o \in DOMAIN B[q], l \in DOMAIN B[m] :
           Earlier(q, o, m, l) => Follows(s, B[q][o], B[m][l])
  BY DEF InDocumentOrder, IsRows
<1>2. \A q \in 0 .. T : /\ Len(B[q]) \in Nat /\ DOMAIN B[q] = 1 .. Len(B[q])
                        /\ Len(C[q]) \in Nat /\ DOMAIN C[q] = 1 .. Len(C[q])
  BY LenProperties DEF IsRows
<1>3. /\ Len(C[r]) = Len(B[r]) + 1
      /\ \A o \in 1 .. (Len(B[r]) + 1) :
           C[r][o] = IF o < p THEN B[r][o] ELSE IF o = p THEN n ELSE B[r][o - 1]
  <2> DEFINE b == B[r]
  <2>1. b \in Seq(Nodes) /\ p \in 1 .. (Len(b) + 1)
    BY DEF IsRows
  <2> HIDE DEF b
  <2>2. /\ Len(InsertAt(b, p, n)) = Len(b) + 1
        /\ \A o \in 1 .. (Len(b) + 1) :
             InsertAt(b, p, n)[o] = IF o < p THEN b[o] ELSE IF o = p THEN n ELSE b[o - 1]
    BY <2>1, InsertAtFacts
  <2> QED BY <2>2 DEF b
<1>4. /\ \A q \in 0 .. T : \A o \in DOMAIN B[q] : B[q][o] \in ToSet(s)
      /\ \A y \in ToSet(s) : \E q \in 0 .. T : \E o \in DOMAIN B[q] : B[q][o] = y
  BY CellFacts
<1>5. B[r] \in Seq(Nodes) /\ DOMAIN B = 0 .. T /\ r \in Int
  BY DEF IsRows
\* where the anchor is
<1>6. \/ /\ x = Nil
         /\ \A q \in 0 .. T : \A o \in DOMAIN B[q] : Earlier(q, o, r, p)
      \/ /\ x # Nil
         /\ \E q \in 0 .. T : \E o \in DOMAIN B[q] :
              /\ x = B[q][o]
              /\ \A m \in 0 .. T : \A l \in DOMAIN B[m] :
                   IF Earlier(m, l, r, p) THEN Earlier(m, l, q, o)
                   ELSE <<m, l>> = <<q, o>> \/ Earlier(q, o, m, l)
  <2>0. ASSUME NEW q \in 0 .. T, NEW o \in DOMAIN B[q]
        PROVE  B[q][o] # Nil
    BY <1>2, ElementOfSeq, NilAssumption DEF IsRows
  <2>1. CASE p \in DOMAIN B[r] /\ x = B[r][p]
    <3>1. x # Nil
      BY <2>0, <2>1
    <3>2. ASSUME NEW m \in 0 .. T, NEW l \in DOMAIN B[m]
          PROVE  IF Earlier(m, l, r, p) THEN Earlier(m, l, r, p)
                 ELSE <<m, l>> = <<r, p>> \/ Earlier(r, p, m, l)
      BY <1>2 DEF Earlier
    <3> QED BY <2>1, <3>1, <3>2
  <2>2. CASE /\ p = Len(B[r]) + 1
             /\ x = Nil /\ \A q \in 0 .. T : q > r => B[q] = <<>>
    <3>1. ASSUME NEW q \in 0 .. T, NEW o \in DOMAIN B[q]
          PROVE  Earlier(q, o, r, p)
      <4>1. ~(q > r)
        BY <1>2, <2>2
      <4> QED BY <1>2, <2>2, <4>1 DEF Earlier
    <3> QED BY <2>2, <3>1
  <2>3. CASE /\ p = Len(B[r]) + 1
             /\ \E q \in 0 .. T : /\ q > r /\ B[q] # <<>> /\ x = B[q][1]
                                  /\ \A m \in 0 .. T : r < m /\ m < q => B[m] = <<>>
    <3>1. PICK q \in 0 .. T : /\ q > r /\ B[q] # <<>> /\ x = B[q][1]
                              /\ \A m \in 0 .. T : r < m /\ m < q => B[m] = <<>>
      BY <2>3
    <3>2. 1 \in DOMAIN B[q]
      BY <1>2, <3>1, EmptySeq DEF IsRows
    <3>3. x # Nil
      BY <2>0, <3>1, <3>2
    <3>4. ASSUME NEW m \in 0 .. T, NEW l \in DOMAIN B[m]
          PROVE  IF Earlier(m, l, r, p) THEN Earlier(m, l, q, 1)
                 ELSE <<m, l>> = <<q, 1>> \/ Earlier(q, 1, m, l)
      <4>1. ~(r < m /\ m < q)
        BY <1>2, <3>1
      <4>2. l \in 1 .. Len(B[m]) /\ Len(B[m]) \in Nat /\ Len(B[r]) \in Nat
        BY <1>2
      <4>3. CASE m <= r
        BY <2>3, <3>1, <4>2, <4>3 DEF Earlier
      <4>4. CASE m >= q
        BY <2>3, <3>1, <4>2, <4>4 DEF Earlier
      <4> QED BY <4>1, <4>3, <4>4
    <3> QED BY <3>1, <3>2, <3>3, <3>4
  <2> QED BY <1>5, <2>1, <2>2, <2>3 DEF IsAnchor
<1>7. x = Nil \/ x \in ToSet(s)
  BY <1>4, <1>6
<1>8. /\ t \in Seq(Nodes) /\ IsInjective(t) /\ ToSet(t) = ToSet(s) \cup {n}
      /\ \A a, b : Follows(s, a, b) => Follows(t, a, b)
      /\ \A a : (IF x = Nil THEN a \in ToSet(s) ELSE Follows(s, a, x)) => Follows(t, a, n)
      /\ \A b : x # Nil /\ (b = x \/ Follows(s, x, b)) => Follows(t, n, b)
  BY <1>1, <1>7, InsertedFacts
<1> HIDE DEF t
<1>9. ASSUME NEW q \in 0 .. T, NEW o \in DOMAIN B[q]
      PROVE  IF Earlier(q, o, r, p) THEN Follows(t, B[q][o], n) ELSE Follows(t, n, B[q][o])
  <2>1. CASE x = Nil
    BY <1>4, <1>6, <1>8, <2>1
  <2>2. CASE x # Nil
    <3>1. PICK m \in 0 .. T : \E l \in DOMAIN B[m] :
            /\ x = B[m][l]
            /\ IF Earlier(q, o, r, p) THEN Earlier(q, o, m, l)
               ELSE <<q, o>> = <<m, l>> \/ Earlier(m, l, q, o)
      BY <1>6, <2>2
    <3>2. PICK l \in DOMAIN B[m] :
            /\ x = B[m][l]
            /\ IF Earlier(q, o, r, p) THEN Earlier(q, o, m, l)
               ELSE <<q, o>> = <<m, l>> \/ Earlier(m, l, q, o)
      BY <3>1
    <3> QED BY <1>1, <1>8, <2>2, <3>2
  <2> QED BY <2>1, <2>2
<1>10. ASSUME NEW q \in 0 .. T, NEW o \in DOMAIN C[q], q # r \/ o # p
       PROVE  down(q, o) \in DOMAIN B[q] /\ C[q][o] = B[q][down(q, o)]
  <2>1. CASE q = r
    <3>1. o \in 1 .. Len(C[r]) /\ Len(B[r]) \in Nat /\ o # p
      BY <1>2, <1>10, <2>1
    <3>2. down(r, o) \in 1 .. Len(B[r]) /\ C[r][o] = B[r][down(r, o)]
      BY <1>3, <3>1
    <3> QED BY <1>2, <2>1, <3>2
  <2>2. CASE q # r
    BY <2>2
  <2> QED BY <2>1, <2>2
<1>11. ASSUME NEW q \in 0 .. T, NEW o \in DOMAIN B[q]
       PROVE  up(q, o) \in DOMAIN C[q] /\ C[q][up(q, o)] = B[q][o]
  <2>1. CASE q = r
    <3>1. o \in 1 .. Len(B[r]) /\ Len(B[r]) \in Nat
      BY <1>2, <2>1
    <3>2. up(r, o) \in 1 .. Len(C[r]) /\ C[r][up(r, o)] = B[r][o]
      BY <1>3, <3>1
    <3> QED BY <1>2, <2>1, <3>2
  <2>2. CASE q # r
    BY <2>2
  <2> QED BY <2>1, <2>2
<1>12. p \in DOMAIN C[r] /\ C[r][p] = n
  BY <1>2, <1>3
<1>13. ToSet(t) = NodesOf(C)
  <2>1. ASSUME NEW q \in 0 .. T, NEW o \in DOMAIN C[q] PROVE C[q][o] \in ToSet(t)
    <3>1. CASE q = r /\ o = p
      BY <1>8, <1>12, <3>1
    <3>2. CASE q # r \/ o # p
      <4>1. down(q, o) \in DOMAIN B[q] /\ C[q][o] = B[q][down(q, o)]
        BY <1>10, <3>2
      <4> HIDE DEF down
      <4> QED BY <1>4, <1>8, <4>1
    <3> QED BY <3>1, <3>2
  <2>2. ASSUME NEW y \in ToSet(t)
        PROVE  \E q \in 0 .. T : \E o \in DOMAIN C[q] : C[q][o] = y
    <3>1. CASE y = n
      BY <1>12, <3>1
    <3>2. CASE y # n
      <4>1. PICK q \in 0 .. T : \E o \in DOMAIN B[q] : B[q][o] = y
        BY <1>4, <1>8, <3>2
      <4>2. PICK o \in DOMAIN B[q] : B[q][o] = y
        BY <4>1
      <4>3. up(q, o) \in DOMAIN C[q] /\ C[q][up(q, o)] = y
        BY <1>11, <4>2
      <4> HIDE DEF up
      <4> QED BY <4>3
    <3> QED BY <3>1, <3>2
  <2> HIDE DEF up, down
  <2>3. \A y : y \in ToSet(t) <=> \E q \in 0 .. T : \E o \in DOMAIN C[q] : C[q][o] = y
    BY <2>1, <2>2
  <2>4. \A y : y \in NodesOf(C) <=> \E q \in 0 .. T : \E o \in DOMAIN C[q] : C[q][o] = y
    BY CellsOf
  <2> QED BY <2>3, <2>4
<1>14. ASSUME NEW q \in 0 .. T, NEW m \in 0 .. T, NEW o \in DOMAIN C[q], NEW l \in DOMAIN C[m],
              Earlier(q, o, m, l)
       PROVE  Follows(t, C[q][o], C[m][l])
  <2>1. o \in Int /\ l \in Int /\ p \in Int
    BY <1>2
  <2>2. CASE q = r /\ o = p
    <3>1. m # r \/ l # p
      BY <1>14, <2>1, <2>2 DEF Earlier
    <3>2. down(m, l) \in DOMAIN B[m] /\ C[m][l] = B[m][down(m, l)]
      BY <1>10, <3>1
    <3>3. ~Earlier(m, down(m, l), r, p)
      BY <1>14, <2>1, <2>2 DEF Earlier
    <3> HIDE DEF down
    <3> QED BY <1>9, <1>12, <2>2, <3>2, <3>3
  <2>3. CASE m = r /\ l = p
    <3>1. q # r \/ o # p
      BY <1>14, <2>1, <2>3 DEF Earlier
    <3>2. down(q, o) \in DOMAIN B[q] /\ C[q][o] = B[q][down(q, o)]
      BY <1>10, <3>1
    <3>3. Earlier(q, down(q, o), r, p)
      BY <1>14, <2>1, <2>3 DEF Earlier
    <3> HIDE DEF down
    <3> QED BY <1>9, <1>12, <2>3, <3>2, <3>3
  <2>4. CASE (q # r \/ o # p) /\ (m # r \/ l # p)
    <3>1. /\ down(q, o) \in DOMAIN B[q] /\ C[q][o] = B[q][down(q, o)]
          /\ down(m, l) \in DOMAIN B[m] /\ C[m][l] = B[m][down(m, l)]
      BY <1>10, <2>4
    <3>2. Earlier(q, down(q, o), m, down(m, l))
      BY <1>14, <2>1, <2>4 DEF Earlier
    <3> HIDE DEF down
    <3> QED BY <1>1, <1>8, <3>1, <3>2
  <2> QED BY <2>2, <2>3, <2>4
<1> HIDE DEF up, down
<1>15. InDocumentOrder(t, C)
  BY <1>8, <1>13, <1>14 DEF InDocumentOrder, IsRows
<1> QED BY <1>7, <1>8, <1>15 DEF t

\* C has the rows of B that are not empty, in the same order
Renumbered(B, T, C, V, g) ==
  /\ g \in [0 .. V -> 0 .. T]
  /\ \A q, m \in 0 .. V : q < m /\ C[q] # <<>> /\ C[m] # <<>> => g[q] < g[m]
  /\ \A q \in 0 .. V : C[q] # <<>> => C[q] = B[g[q]]
  /\ \A r \in 0 .. T : B[r] # <<>> => \E q \in 0 .. V : g[q] = r /\ C[q] = B[r]

(***************************************************************************)
(* Rows may be numbered in another way that keeps their order, and empty   *)
(* ones left out or put in.                                                *)
(***************************************************************************)
LEMMA RowsRenumbered ==
  ASSUME NEW T \in Nat, NEW B, IsRows(B, T), NEW s \in Seq(Nodes), InDocumentOrder(s, B),
         NEW V \in Nat, NEW C, IsRows(C, V), NEW g, Renumbered(B, T, C, V, g)
  PROVE  InDocumentOrder(s, C)
<1>0. /\ g \in [0 .. V -> 0 .. T]
      /\ \A q, m \in 0 .. V : q < m /\ C[q] # <<>> /\ C[m] # <<>> => g[q] < g[m]
      /\ \A q \in 0 .. V : C[q] # <<>> => C[q] = B[g[q]]
      /\ \A r \in 0 .. T : B[r] # <<>> => \E q \in 0 .. V : g[q] = r /\ C[q] = B[r]
  BY DEF Renumbered
<1>1. /\ IsInjective(s)
      /\ ToSet(s) = NodesOf(B)
      /\ \A q, m \in 0 .. T : \A o \in DOMAIN B[q], l \in DOMAIN B[m] :
           Earlier(q, o, m, l) => Follows(s, B[q][o], B[m][l])
  BY DEF InDocumentOrder, IsRows
<1>2. NodesOf(B) = NodesOf(C)
  <2>1. ASSUME NEW n, \E q \in 0 .. T : \E p \in DOMAIN B[q] : B[q][p] = n
        PROVE  \E q \in 0 .. V : \E p \in DOMAIN C[q] : C[q][p] = n
    <3>1. PICK r \in 0 .. T : \E p \in DOMAIN B[r] : B[r][p] = n
      BY <2>1
    <3>2. B[r] # <<>>
      BY <3>1
    <3>3. PICK q \in 0 .. V : g[q] = r /\ C[q] = B[r]
      BY <1>0, <3>2
    <3> QED BY <3>1, <3>3
  <2>2. ASSUME NEW n, \E q \in 0 .. V : \E p \in DOMAIN C[q] : C[q][p] = n
        PROVE  \E q \in 0 .. T : \E p \in DOMAIN B[q] : B[q][p] = n
    <3>1. PICK q \in 0 .. V : \E p \in DOMAIN C[q] : C[q][p] = n
      BY <2>2
    <3>2. g[q] \in 0 .. T /\ C[q] = B[g[q]]
      BY <1>0, <3>1
    <3> QED BY <3>1, <3>2
  <2>3. \A n : n \in NodesOf(B) <=> \E q \in 0 .. T : \E p \in DOMAIN B[q] : B[q][p] = n
    BY CellsOf
  <2>4. \A n : n \in NodesOf(C) <=> \E q \in 0 .. V : \E p \in DOMAIN C[q] : C[q][p] = n
    BY ONLY IsRows(C, V), CellsOf
  <2>5. \A n : n \in NodesOf(B) <=> n \in NodesOf(C)
    BY <2>1, <2>2, <2>3, <2>4
  <2> QED BY <2>5
<1>3. ASSUME NEW q \in 0 .. V, NEW m \in 0 .. V, NEW o \in DOMAIN C[q], NEW l \in DOMAIN C[m],
             Earlier(q, o, m, l)
      PROVE  Follows(s, C[q][o], C[m][l])
  <2>1. C[q] # <<>> /\ C[m] # <<>>
    OBVIOUS
  <2>2. Earlier(g[q], o, g[m], l) /\ C[q] = B[g[q]] /\ C[m] = B[g[m]]
    BY <1>0, <1>3, <2>1 DEF Earlier
  <2>3. g[q] \in 0 .. T /\ g[m] \in 0 .. T
    BY <1>0
  <2> QED BY <1>1, <2>2, <2>3
<1> QED BY <1>1, <1>2, <1>3 DEF InDocumentOrder, IsRows

-----------------------------------------------------------------------------
(* The loops *)

LEMMA ListTypes ==
  ASSUME TypeOK
  PROVE  /\ next \in Seq(VNodes) /\ Len(next) \in Nat /\ DOMAIN next = 1 .. Len(next)
         /\ Len(old) \in Nat /\ DOMAIN old = 1 .. Len(old)
         /\ Len(children) \in Nat /\ DOMAIN children = 1 .. Len(children)
         /\ DOMAIN from = DOMAIN children
         /\ index \in Nat /\ index = Len(children) + 1
         /\ \A j \in DOMAIN old : old[j] \in Mounted
         /\ \A k \in DOMAIN children : children[k] \in Mounted
         /\ \A k \in DOMAIN next : next[k] \in VNodes
         /\ \A k \in DOMAIN from : from[k] \in 0 .. Len(old)
<1>1. next \in Seq(VNodes)
  BY ListsAssumption DEF TypeOK
<1> QED BY <1>1, LenProperties, ElementOfSeq DEF TypeOK, index

\* what a child that is patched or mounted leaves alone
LEMMA SameLists ==
  ASSUME UNCHANGED <<old, next, children, from>>
  PROVE  /\ used' = used /\ index' = index /\ hasKeyedChildren' = hasKeyedChildren
         /\ \A j, k : Keeps(j, k)' = Keeps(j, k)
BY DEF used, index, hasKeyedChildren, Keeps, FirstOf

LEMMA DomTypes ==
  ASSUME kids \in Seq(Nodes), ok \in BOOLEAN, NEW n \in Nodes, NEW x
  PROVE  /\ insertNode(n, x) => kids' \in Seq(Nodes) /\ ok' \in BOOLEAN
         /\ removeChild(n) => kids' \in Seq(Nodes) /\ ok' \in BOOLEAN
<1> DEFINE t == Without(kids, n)
<1>1. t \in Seq(Nodes)
  BY PositionFacts, RemoveAtFacts DEF Without
<1> HIDE DEF t
<1>2. Append(t, n) \in Seq(Nodes)
  BY <1>1
<1>3. x \in ToSet(t) => InsertAt(t, Position(t, x), n) \in Seq(Nodes)
  <2>1. DOMAIN t = 1 .. Len(t) /\ Len(t) \in Nat
    BY <1>1, LenProperties
  <2>2. x \in ToSet(t) => Position(t, x) \in 1 .. (Len(t) + 1)
    BY <1>1, <2>1, PositionFacts
  <2> QED BY <1>1, <2>2, InsertAtFacts
<1> QED BY <1>1, <1>2, <1>3 DEF insertNode, removeChild, t

LEMMA NewNodeType ==
  Fresh # {} => NewNode \in Fresh /\ NewNode \in Nodes
BY DEF NewNode, Fresh

\* TypeOK of a step that leaves the lists alone
LEMMA TypeKept ==
  ASSUME TypeOK, UNCHANGED <<old, next, children, from>>,
         kids' \in Seq(Nodes), ok' \in BOOLEAN, failed' \in BOOLEAN,
         pc' \in {"idle", "next", "mount", "patch", "rerender", "remove", "rest", "order"},
         cur' \in 0 .. Len(old), cur' \notin used, block' \in Seq(Nodes), todo' \in Seq(Nodes),
         at' \in 0 .. Len(old) \/ at' \in 0 .. Len(children)
  PROVE  TypeOK'
<1>1. used' = used
  BY SameLists
<1> QED BY <1>1 DEF TypeOK

LEMMA MatchesKept ==
  ASSUME Matches, Kept, KeptNext, UNCHANGED <<old, next, children, from>>,
         pc' \in {"mount", "patch", "remove"} =>
           /\ cur' # 0 =>
                /\ old[cur'].key = next[index].key
                /\ pc' = "patch" <=> sameVNode(old[cur'], next[index])
                /\ pc' = "patch" /\ old[cur'].kind \in Simple => block' = old[cur'].nodes
           /\ ~hasKeyedChildren => cur' = IF index <= Len(old) THEN index ELSE 0
           /\ \A j \in DOMAIN old : Keeps(j, index) => cur' = j
  PROVE  Matches' /\ Kept' /\ KeptNext'
<1>1. /\ index' = index /\ hasKeyedChildren' = hasKeyedChildren
      /\ \A j, k : Keeps(j, k)' = Keeps(j, k)
  BY SameLists
<1>2. Matches'
  BY <1>1 DEF Matches, sameVNode
<1>3. Kept' /\ KeptNext'
  BY <1>1 DEF Kept, KeptNext
<1> QED BY <1>2, <1>3

LEMMA ShapeInit ==
  Init => Shape
<1> SUFFICES ASSUME Init PROVE Shape
  OBVIOUS
<1>1. TypeOK
  <2>1. kids \in Seq(Nodes)
    BY AroundAssumption DEF Init
  <2>2. used = {}
    BY DEF Init, used
  <2>3. old \in Seq(Mounted) /\ children \in Seq(Mounted)
    BY DEF Init
  <2>4. from \in Seq(0 .. Len(old)) /\ Len(from) = Len(children) /\ Len(children) <= Len(next)
    BY DEF Init
  <2>5. block \in Seq(Nodes) /\ todo \in Seq(Nodes)
    BY DEF Init
  <2>6. cur \in 0 .. Len(old) /\ at \in 0 .. Len(old)
    BY DEF Init
  <2>7. \A k, m \in DOMAIN from : from[k] = from[m] /\ from[k] # 0 => k = m
    BY DEF Init
  <2>8. ok \in BOOLEAN /\ failed \in BOOLEAN
    BY DEF Init
  <2>9. /\ pc \in {"idle", "next", "mount", "patch", "rerender", "remove", "rest", "order"}
        /\ next \in Lists \cup {<<>>}
    BY DEF Init
  <2>10. cur \notin used
    BY <2>2
  <2> HIDE DEF Init
  <2> QED BY <2>1, <2>3, <2>4, <2>5, <2>6, <2>7, <2>8, <2>9, <2>10 DEF TypeOK
<1>2. Loops /\ Kept /\ KeptNext
  BY DEF Init, Loops, Kept, KeptNext
<1>3. Matches
  BY DEF Init, Matches
<1> QED BY <1>1, <1>2, <1>3 DEF Shape

LEMMA ShapePatchChildren ==
  ASSUME Shape, NEW list \in Lists, PatchChildren(list)
  PROVE  Shape'
<1>1. /\ children = <<>> /\ from = <<>> /\ pc = "idle" /\ pc' = "next"
      /\ cur = 0 /\ at = 0 /\ block = <<>> /\ todo = <<>> /\ next' \in Seq(VNodes)
  <2>1. Len(children) = 0 /\ Len(from) = 0
    BY ListTypes DEF Shape, TypeOK, Loops, PatchChildren
  <2> QED BY <2>1, EmptySeq, ListsAssumption DEF Shape, TypeOK, Loops, PatchChildren
<1>2. Len(next') \in Nat
  BY <1>1, LenProperties
<1>3. TypeOK'
  BY <1>1, <1>2 DEF Shape, TypeOK, PatchChildren, used, dom
<1>4. Loops'
  BY <1>1, <1>2 DEF Shape, Loops, PatchChildren, dom
<1>5. Matches' /\ Kept' /\ KeptNext'
  BY <1>1 DEF Matches, Kept, KeptNext, PatchChildren, dom
<1> QED BY <1>3, <1>4, <1>5 DEF Shape

(***************************************************************************)
(* The old child that is found for the one at hand: the first of its key,  *)
(* and the kept one if there is one.                                       *)
(***************************************************************************)
LEMMA Found ==
  ASSUME Shape, index <= Len(next), NEW j \in nextOldChild(index)
  PROVE  /\ j \in DOMAIN old /\ j \in 1 .. Len(old) /\ j \notin used
         /\ old[j].key = next[index].key
         /\ ~hasKeyedChildren => j = index
         /\ \A i \in DOMAIN old : Keeps(i, index) => i = j
<1>1. index \in DOMAIN next
  BY ListTypes DEF Shape
<1>2. j \in DOMAIN old /\ j \in 1 .. Len(old) /\ j \notin used /\ old[j].key = next[index].key
  BY ListTypes DEF Shape, nextOldChild, Candidates
<1>3. ~hasKeyedChildren => j = index
  BY <1>1 DEF nextOldChild, Candidates, hasKeyedChildren
<1>4. ASSUME NEW i \in DOMAIN old, Keeps(i, index) PROVE i = j
  <2>1. i \in Int /\ j \in Int
    BY <1>2, ListTypes DEF Shape
  <2>2. next[index].key # NoKey /\ old[i].key = next[index].key
    BY <1>4 DEF Keeps, FirstOf, sameVNode
  <2>3. \A m \in 1 .. (j - 1) : old[m].key # next[index].key
    BY <2>2 DEF nextOldChild, Candidates
  <2>4. \A m \in 1 .. (i - 1) : old[m].key # next[index].key
    BY <1>4, <2>2 DEF Keeps, FirstOf
  <2> QED BY <1>2, <2>1, <2>2, <2>3, <2>4, ListTypes DEF Shape
<1> QED BY <1>2, <1>3, <1>4

LEMMA NotFound ==
  ASSUME Shape, index <= Len(next), nextOldChild(index) = {}
  PROVE  /\ \A i \in DOMAIN old : ~Keeps(i, index)
         /\ ~hasKeyedChildren => index > Len(old)
<1>1. index \in DOMAIN next
  BY ListTypes DEF Shape
<1>2. ASSUME NEW i \in DOMAIN old, Keeps(i, index) PROVE FALSE
  <2>1. /\ next[index].key # NoKey /\ old[i].key = next[index].key
        /\ \A m \in 1 .. (i - 1) : old[m].key # next[index].key
        /\ \A m \in 1 .. (index - 1) : next[m].key # next[index].key
    BY <1>2 DEF Keeps, FirstOf, sameVNode
  <2>2. i \in used
    BY <1>2, <2>1 DEF nextOldChild, Candidates
  <2>3. PICK k \in DOMAIN from : from[k] = i /\ i # 0
    BY <2>2 DEF used
  <2>4. old[i].key = next[k].key /\ k \in 1 .. (index - 1)
    BY <2>3, ListTypes DEF Shape, Matches
  <2> QED BY <2>1, <2>4
<1>3. ASSUME ~hasKeyedChildren, index <= Len(old) PROVE FALSE
  <2>1. index \in DOMAIN old /\ next[index].key = NoKey /\ old[index].key = NoKey
    BY <1>1, <1>3, ListTypes DEF Shape, hasKeyedChildren
  <2>2. index \in used
    BY <2>1 DEF nextOldChild, Candidates
  <2>3. PICK k \in DOMAIN from : from[k] = index
    BY <2>2 DEF used
  <2> QED BY <1>3, <2>3, ListTypes DEF Shape, Matches
<1> QED BY <1>2, <1>3, ListTypes DEF Shape

LEMMA ShapeMountChild ==
  ASSUME Shape, MountChild
  PROVE  Shape'
<1>1. /\ pc = "next" /\ pc' = "mount" /\ index <= Len(next) /\ index' = index
      /\ UNCHANGED <<old, next, children, from, block, at, kids, ok, failed>>
      /\ cur = 0 /\ todo = <<>>
  BY SameLists DEF Shape, Loops, MountChild, dom
<1>2. \/ nextOldChild(index) = {} /\ cur' = 0 /\ todo' = <<>>
      \/ \E j \in nextOldChild(index) :
           cur' = j /\ ~sameVNode(old[j], next[index]) /\ todo' = old[j].nodes
  BY <1>1 DEF MountChild
<1>3. CASE nextOldChild(index) = {} /\ cur' = 0 /\ todo' = <<>>
  <2>1. TypeOK'
    BY <1>1, <1>3, TypeKept DEF Shape, TypeOK
  <2>2. Loops'
    BY <1>1, <1>3 DEF Shape, Loops
  <2>3. Matches' /\ Kept' /\ KeptNext'
    BY <1>1, <1>3, NotFound, MatchesKept, ListTypes DEF Shape
  <2> QED BY <2>1, <2>2, <2>3 DEF Shape
<1>4. ASSUME NEW j \in nextOldChild(index),
             cur' = j, ~sameVNode(old[j], next[index]), todo' = old[j].nodes
      PROVE  Shape'
  <2>1. /\ j \in DOMAIN old /\ j \in 1 .. Len(old) /\ j \notin used
        /\ old[j].key = next[index].key
        /\ ~hasKeyedChildren => j = index
        /\ \A i \in DOMAIN old : Keeps(i, index) => i = j
    BY <1>1, Found
  <2>2. todo' \in Seq(Nodes)
    BY <1>4, <2>1, ListTypes DEF Shape, Mounted, Blocks
  <2>3. TypeOK'
    BY <1>1, <1>4, <2>1, <2>2, TypeKept DEF Shape, TypeOK
  <2>4. Loops'
    BY <1>1, <1>4, <2>1 DEF Shape, Loops
  <2>5. Matches' /\ Kept' /\ KeptNext'
    <3>1. Matches /\ Kept /\ KeptNext /\ UNCHANGED <<old, next, children, from>>
      BY <1>1 DEF Shape
    <3>2. ~hasKeyedChildren => j = IF index <= Len(old) THEN index ELSE 0
      BY <2>1
    <3> QED BY <1>1, <1>4, <2>1, <3>1, <3>2, MatchesKept
  <2> QED BY <2>3, <2>4, <2>5 DEF Shape
<1> QED BY <1>2, <1>3, <1>4

LEMMA ShapePatchChild ==
  ASSUME Shape, PatchChild
  PROVE  Shape'
<1>1. /\ pc = "next" /\ pc' = "patch" /\ index <= Len(next) /\ index' = index
      /\ UNCHANGED <<old, next, children, from, todo, at, kids, ok, failed>>
      /\ cur = 0 /\ todo = <<>>
  BY SameLists DEF Shape, Loops, PatchChild, dom
<1>2. PICK j \in nextOldChild(index) :
        cur' = j /\ sameVNode(old[j], next[index]) /\ block' = old[j].nodes
  BY <1>1 DEF PatchChild
<1>3. /\ j \in DOMAIN old /\ j \in 1 .. Len(old) /\ j \notin used
      /\ old[j].key = next[index].key
      /\ ~hasKeyedChildren => j = index
      /\ \A i \in DOMAIN old : Keeps(i, index) => i = j
  BY <1>1, Found
<1>4. block' \in Seq(Nodes) /\ block' # <<>>
  BY <1>2, <1>3, ListTypes DEF Shape, Mounted, Blocks
<1>5. TypeOK'
  BY <1>1, <1>2, <1>3, <1>4, TypeKept DEF Shape, TypeOK
<1>6. Loops'
  BY <1>1, <1>2, <1>3, <1>4 DEF Shape, Loops
<1>7. Matches' /\ Kept' /\ KeptNext'
  <2>1. Matches /\ Kept /\ KeptNext /\ UNCHANGED <<old, next, children, from>>
    BY <1>1 DEF Shape
  <2>2. ~hasKeyedChildren => j = IF index <= Len(old) THEN index ELSE 0
    BY <1>3
  <2> QED BY <1>1, <1>2, <1>3, <2>1, <2>2, MatchesKept
<1> QED BY <1>5, <1>6, <1>7 DEF Shape

LEMMA ShapeRerender ==
  ASSUME Shape, NEW j \in DOMAIN old, Rerender(j)
  PROVE  Shape'
<1>1. /\ pc = "idle" /\ pc' = "rerender" /\ index' = index
      /\ UNCHANGED <<old, next, children, from, todo, at, kids, ok, failed>>
      /\ cur' = j /\ block' = old[j].nodes /\ next = <<>>
  BY SameLists DEF Shape, Loops, Rerender, dom
<1>2. j \in 1 .. Len(old) /\ block' \in Seq(Nodes) /\ block' # <<>>
  BY <1>1, ListTypes DEF Shape, Mounted, Blocks
<1>3. used = {}
  BY <1>1, ListTypes DEF Shape, used, TypeOK
<1>4. TypeOK'
  BY <1>1, <1>2, <1>3, TypeKept DEF Shape, TypeOK
<1>5. Loops'
  BY <1>1, <1>2 DEF Shape, Loops
<1>6. Matches' /\ Kept' /\ KeptNext'
  BY <1>1, MatchesKept DEF Shape
<1> QED BY <1>4, <1>5, <1>6 DEF Shape

LEMMA ShapeMountNode ==
  ASSUME Shape, NEW p \in 1 .. MaxBlock, MountNode(p)
  PROVE  Shape'
<1>1. /\ pc = "mount" /\ p <= Len(block) + 1 /\ Fresh # {}
      /\ UNCHANGED <<failed, old, next, children, from, pc, cur, todo, at>>
      /\ block' = InsertAt(block, p, NewNode)
      /\ \E x : insertNode(NewNode, x)
  BY DEF MountNode
<1>2. NewNode \in Nodes /\ kids \in Seq(Nodes) /\ ok \in BOOLEAN /\ block \in Seq(Nodes)
  BY <1>1, NewNodeType DEF Shape, TypeOK
<1>3. kids' \in Seq(Nodes) /\ ok' \in BOOLEAN
  BY <1>1, <1>2, DomTypes
<1>4. block' \in Seq(Nodes)
  <2>1. p \in 1 .. (Len(block) + 1)
    BY <1>1, <1>2, LenProperties
  <2> QED BY <1>1, <1>2, <2>1, InsertAtFacts
<1>5. TypeOK'
  BY <1>1, <1>3, <1>4, TypeKept DEF Shape, TypeOK
<1>6. Loops'
  BY <1>1, SameLists DEF Shape, Loops
<1>7. Matches' /\ Kept' /\ KeptNext'
  <2>1. Matches /\ Kept /\ KeptNext /\ UNCHANGED <<old, next, children, from>>
    BY <1>1 DEF Shape
  <2>2. /\ cur # 0 => old[cur].key = next[index].key /\ ~sameVNode(old[cur], next[index])
        /\ ~hasKeyedChildren => cur = IF index <= Len(old) THEN index ELSE 0
        /\ \A j \in DOMAIN old : Keeps(j, index) => cur = j
    BY <1>1, <2>1 DEF Matches, KeptNext
  <2> QED BY <1>1, <2>1, <2>2, MatchesKept
<1> QED BY <1>5, <1>6, <1>7 DEF Shape

(***************************************************************************)
(* A step in the middle of a child's patch, which changes its block only.  *)
(***************************************************************************)
LEMMA ShapeWithin ==
  ASSUME Shape, Patching, UNCHANGED <<failed, old, next, children, from, pc, cur, todo, at>>,
         kids' \in Seq(Nodes), ok' \in BOOLEAN, block' \in Seq(Nodes), block' # <<>>
  PROVE  Shape'
<1>1. pc = "patch" \/ pc = "rerender"
  BY DEF Patching
<1>2. TypeOK'
  BY TypeKept DEF Shape, TypeOK
<1>3. Loops'
  BY <1>1, SameLists DEF Shape, Loops
<1>4. Matches' /\ Kept' /\ KeptNext'
  <2>1. Matches /\ Kept /\ KeptNext
    BY DEF Shape
  <2>2. pc = "patch" => old[cur].kind \notin Simple
    <3>1. pc = "patch" => next[index].kind \notin Simple /\ cur # 0
      BY DEF Patching, Shape, Loops
    <3> QED BY <2>1, <3>1 DEF Matches, sameVNode
  <2>3. pc = "patch" =>
          /\ cur # 0 => /\ old[cur].key = next[index].key
                        /\ sameVNode(old[cur], next[index])
          /\ ~hasKeyedChildren => cur = IF index <= Len(old) THEN index ELSE 0
          /\ \A j \in DOMAIN old : Keeps(j, index) => cur = j
    BY <2>1 DEF Matches, KeptNext
  <2> QED BY <1>1, <2>1, <2>2, <2>3, MatchesKept
<1> QED BY <1>2, <1>3, <1>4 DEF Shape

LEMMA ShapeInsertWithin ==
  ASSUME Shape, NEW n \in Nodes, NEW p \in 1 .. MaxBlock, InsertWithin(n, p)
  PROVE  Shape'
<1> DEFINE others == Without(block, n)
<1>1. block \in Seq(Nodes) /\ kids \in Seq(Nodes) /\ ok \in BOOLEAN
  BY DEF Shape, TypeOK
<1>2. others \in Seq(Nodes)
  BY <1>1, PositionFacts, RemoveAtFacts DEF Without
<1>3. /\ Patching /\ UNCHANGED <<failed, old, next, children, from, pc, cur, todo, at>>
      /\ \E x : insertNode(n, x)
      /\ p <= Len(others) /\ block' = InsertAt(others, p, n)
  BY DEF InsertWithin
<1> HIDE DEF others
<1>4. kids' \in Seq(Nodes) /\ ok' \in BOOLEAN
  BY <1>1, <1>3, DomTypes
<1>5. block' \in Seq(Nodes) /\ Len(block') = Len(others) + 1
  <2>1. p \in 1 .. (Len(others) + 1)
    BY <1>2, <1>3, LenProperties
  <2> QED BY <1>2, <1>3, <2>1, InsertAtFacts
<1>6. block' # <<>>
  BY <1>2, <1>5, LenProperties, EmptySeq
<1> QED BY <1>3, <1>4, <1>5, <1>6, ShapeWithin

LEMMA ShapeRemoveWithin ==
  ASSUME Shape, NEW p \in 1 .. MaxBlock, RemoveNodeWithin(p)
  PROVE  Shape'
<1>1. block \in Seq(Nodes) /\ kids \in Seq(Nodes) /\ ok \in BOOLEAN
  BY DEF Shape, TypeOK
<1>2. /\ Patching /\ UNCHANGED <<failed, old, next, children, from, pc, cur, todo, at>>
      /\ removeChild(block[p]) /\ p \in DOMAIN block /\ Len(block) > 1
      /\ block' = RemoveAt(block, p)
  BY DEF RemoveNodeWithin
<1>3. block[p] \in Nodes
  BY <1>1, <1>2
<1>4. kids' \in Seq(Nodes) /\ ok' \in BOOLEAN
  BY <1>1, <1>2, <1>3, DomTypes
<1>5. block' \in Seq(Nodes) /\ Len(block') = Len(block) - 1
  BY <1>1, <1>2, RemoveAtFacts
<1>6. block' # <<>>
  BY <1>1, <1>2, <1>5, LenProperties, EmptySeq
<1> QED BY <1>2, <1>4, <1>5, <1>6, ShapeWithin

LEMMA ShapeChildFails ==
  ASSUME Shape, ChildFails
  PROVE  Shape'
<1>1. /\ UNCHANGED <<kids, ok, old, next, children, from, pc, cur, block, todo, at>>
      /\ failed' = TRUE
  BY DEF ChildFails, dom
<1>2. TypeOK'
  BY <1>1, TypeKept DEF Shape, TypeOK
<1>3. Loops'
  BY <1>1, SameLists DEF Shape, Loops
<1>4. Matches' /\ Kept' /\ KeptNext'
  BY <1>1, SameLists DEF Shape, Matches, Kept, KeptNext
<1> QED BY <1>2, <1>3, <1>4 DEF Shape

(***************************************************************************)
(* The child at hand joins those that are there.                           *)
(***************************************************************************)
LEMMA Appended ==
  ASSUME Shape, pc \in {"mount", "patch", "remove"}, block # <<>>, AppendChild
  PROVE  /\ Len(children') = Len(children) + 1 /\ DOMAIN children' = 1 .. index
         /\ DOMAIN from' = 1 .. index /\ DOMAIN from = 1 .. Len(children)
         /\ children' \in Seq(Mounted) /\ from' \in Seq(0 .. Len(old)) /\ Len(from') = Len(children')
         /\ \A k \in 1 .. Len(children) : children'[k] = children[k] /\ from'[k] = from[k]
         /\ children'[index] = [key |-> next[index].key, kind |-> next[index].kind,
                                nodes |-> block]
         /\ from'[index] = cur
         /\ used' = used \cup ({cur} \ {0})
         /\ index \in DOMAIN next /\ index \in Nat /\ index = Len(children) + 1
<1> DEFINE m == [key |-> next[index].key, kind |-> next[index].kind, nodes |-> block]
<1>1. /\ index \in DOMAIN next /\ index \in Nat /\ index = Len(children) + 1
      /\ Len(children) \in Nat /\ DOMAIN children = 1 .. Len(children)
      /\ DOMAIN from = DOMAIN children
  <2>1. index <= Len(next)
    BY DEF Shape, Loops
  <2> QED BY <2>1, ListTypes DEF Shape
<1>2. m \in Mounted
  <2>1. next[index] \in VNodes
    BY <1>1, ListTypes DEF Shape
  <2> QED BY <2>1 DEF VNodes, Mounted, Blocks, Shape, TypeOK
<1>3. children' = Append(children, m) /\ from' = Append(from, cur)
  BY DEF AppendChild
<1> HIDE DEF m
<1>4. /\ children \in Seq(Mounted) /\ from \in Seq(0 .. Len(old)) /\ cur \in 0 .. Len(old)
      /\ Len(from) = Len(children)
  BY DEF Shape, TypeOK
<1>5. /\ children' \in Seq(Mounted) /\ Len(children') = index
      /\ \A k \in 1 .. Len(children) : children'[k] = children[k]
      /\ children'[index] = m
  BY <1>1, <1>2, <1>3, <1>4, AppendProperties
<1>6. /\ from' \in Seq(0 .. Len(old)) /\ Len(from') = index
      /\ \A k \in 1 .. Len(children) : from'[k] = from[k]
      /\ from'[index] = cur
  BY <1>1, <1>3, <1>4, AppendProperties
<1>7. DOMAIN children' = 1 .. index /\ DOMAIN from' = 1 .. index
  BY <1>5, <1>6, LenProperties
<1>8. used' = used \cup ({cur} \ {0})
  <2>1. 1 .. index = (1 .. Len(children)) \cup {index}
    BY <1>1
  <2> QED BY <1>1, <1>6, <1>7, <2>1 DEF used
<1> QED BY <1>1, <1>5, <1>6, <1>7, <1>8 DEF m

LEMMA ShapeAppendChild ==
  ASSUME Shape, pc \in {"mount", "patch", "remove"}, block # <<>>, AppendChild, todo = <<>>
  PROVE  Shape'
<1>1. /\ pc' = "next" /\ cur' = 0 /\ block' = <<>>
      /\ UNCHANGED <<kids, ok, failed, old, next, todo, at>>
  BY DEF AppendChild, dom
<1>2. /\ Len(children') = Len(children) + 1 /\ DOMAIN children' = 1 .. index
      /\ DOMAIN from' = 1 .. index /\ DOMAIN from = 1 .. Len(children)
      /\ children' \in Seq(Mounted) /\ from' \in Seq(0 .. Len(old)) /\ Len(from') = Len(children')
      /\ \A k \in 1 .. Len(children) : children'[k] = children[k] /\ from'[k] = from[k]
      /\ children'[index] = [key |-> next[index].key, kind |-> next[index].kind,
                             nodes |-> block]
      /\ from'[index] = cur
      /\ used' = used \cup ({cur} \ {0})
      /\ index \in DOMAIN next /\ index \in Nat /\ index = Len(children) + 1
  BY Appended
<1>3. /\ index <= Len(next) /\ Len(old) \in Nat /\ Len(next) \in Nat
      /\ Len(children) \in Nat /\ DOMAIN children = 1 .. Len(children) /\ at = 0
  <2>1. index <= Len(next) /\ at = 0
    BY DEF Shape, Loops
  <2> QED BY <2>1, ListTypes DEF Shape
<1>4. TypeOK'
  <2>1. ASSUME NEW k \in 1 .. index, NEW l \in 1 .. index, from'[k] = from'[l], from'[k] # 0
        PROVE  k = l
    <3>1. \A i \in 1 .. Len(children) : from[i] # cur \/ cur = 0
      BY <1>2 DEF Shape, TypeOK, used
    <3>2. k \in 1 .. Len(children) \/ k = index
      BY <1>2, <1>3
    <3>3. l \in 1 .. Len(children) \/ l = index
      BY <1>2, <1>3
    <3> QED BY <1>2, <2>1, <3>1, <3>2, <3>3 DEF Shape, TypeOK
  <2>2. 0 \notin used'
    BY DEF used
  <2> QED BY <1>1, <1>2, <1>3, <2>1, <2>2 DEF Shape, TypeOK
<1>5. Loops'
  BY <1>1, <1>3 DEF Shape, Loops
<1>6. Matches'
  <2>1. hasKeyedChildren' = hasKeyedChildren
    BY <1>1 DEF hasKeyedChildren
  <2>2. ASSUME NEW k \in 1 .. index
        PROVE  /\ sameVNode(children'[k], next[k])
               /\ from'[k] # 0 => old[from'[k]].key = next[k].key
               /\ ~hasKeyedChildren => from'[k] = IF k <= Len(old) THEN k ELSE 0
    <3>1. CASE k \in 1 .. Len(children)
      BY <1>2, <1>3, <3>1 DEF Shape, Matches, sameVNode
    <3>2. CASE k = index
      BY <1>2, <3>2 DEF Shape, Matches, sameVNode
    <3> QED BY <1>2, <1>3, <3>1, <3>2
  <2> QED BY <1>1, <1>2, <2>1, <2>2 DEF Matches, sameVNode
<1>7. Kept'
  <2> SUFFICES ASSUME NEW j \in DOMAIN old, NEW k \in DOMAIN next, Keeps(j, k), k \in 1 .. index
               PROVE  from'[k] = j /\ children'[k].nodes = old[j].nodes
    <3>1. \A j, k : Keeps(j, k)' = Keeps(j, k)
      BY <1>1 DEF Keeps, FirstOf
    <3> QED BY <1>1, <1>2, <3>1 DEF Kept
  <2>1. CASE k \in 1 .. Len(children)
    BY <1>2, <1>3, <2>1 DEF Shape, Kept
  <2>2. CASE k = index
    <3>1. cur = j /\ cur # 0
      BY <2>2, ListTypes DEF Shape, KeptNext
    <3>2. pc = "patch" /\ block = old[j].nodes
      BY <2>2, <3>1 DEF Shape, Matches, Keeps, sameVNode
    <3> QED BY <1>2, <2>2, <3>1, <3>2
  <2> QED BY <1>2, <1>3, <2>1, <2>2
<1>8. KeptNext'
  BY <1>1 DEF KeptNext
<1> QED BY <1>4, <1>5, <1>6, <1>7, <1>8 DEF Shape

LEMMA ShapeChildMounted ==
  ASSUME Shape, ChildMounted
  PROVE  Shape'
<1>1. pc = "mount" /\ block # <<>>
  BY DEF ChildMounted
<1>2. CASE cur = 0
  <2>1. AppendChild /\ todo = <<>>
    BY <1>1, <1>2 DEF ChildMounted, Shape, Loops
  <2> QED BY <1>1, <2>1, ShapeAppendChild
<1>3. CASE cur # 0
  <2>1. /\ pc' = "remove"
        /\ UNCHANGED <<kids, ok, failed, old, next, children, from, cur, block, todo, at>>
    BY <1>3 DEF ChildMounted, dom
  <2>2. TypeOK'
    BY <2>1, TypeKept DEF Shape, TypeOK
  <2>3. Loops'
    BY <1>1, <1>3, <2>1, SameLists DEF Shape, Loops
  <2>4. Matches' /\ Kept' /\ KeptNext'
    <3>1. Matches /\ Kept /\ KeptNext /\ UNCHANGED <<old, next, children, from>>
      BY <2>1 DEF Shape
    <3>2. /\ cur # 0 => old[cur].key = next[index].key /\ ~sameVNode(old[cur], next[index])
          /\ ~hasKeyedChildren => cur = IF index <= Len(old) THEN index ELSE 0
          /\ \A j \in DOMAIN old : Keeps(j, index) => cur = j
      BY <1>1, <3>1 DEF Matches, KeptNext
    <3> QED BY <2>1, <3>1, <3>2, MatchesKept
  <2> QED BY <2>2, <2>3, <2>4 DEF Shape
<1> QED BY <1>2, <1>3

LEMMA ShapeChildDone ==
  ASSUME Shape, ChildReplaced \/ ChildPatched
  PROVE  Shape'
<1>1. pc \in {"patch", "remove"} /\ AppendChild /\ todo = <<>> /\ block # <<>>
  BY DEF ChildReplaced, ChildPatched, Shape, Loops
<1> QED BY <1>1, ShapeAppendChild

LEMMA ShapeRerendered ==
  ASSUME Shape, Rerendered
  PROVE  Shape'
<1>1. /\ pc = "rerender" /\ pc' = "idle" /\ cur' = 0 /\ block' = <<>>
      /\ old' = [old EXCEPT ![cur].nodes = block]
      /\ UNCHANGED <<kids, ok, failed, next, children, from, todo, at>>
  BY DEF Rerendered, dom
<1>2. next = <<>> /\ children = <<>> /\ from = <<>> /\ cur \in DOMAIN old /\ block # <<>>
      /\ block \in Seq(Nodes) /\ at = 0 /\ todo = <<>>
  <2>1. next = <<>> /\ cur # 0 /\ cur \in 0 .. Len(old) /\ block # <<>> /\ block \in Seq(Nodes)
        /\ at = 0 /\ todo = <<>>
    BY <1>1 DEF Shape, TypeOK, Loops
  <2>2. Len(children) = 0 /\ Len(from) = 0
    BY <2>1, ListTypes DEF Shape, TypeOK
  <2> QED BY <2>1, <2>2, EmptySeq, ListTypes DEF Shape, TypeOK
<1>3. old' \in Seq(Mounted) /\ Len(old') = Len(old) /\ Len(old) \in Nat
  <2>1. [old[cur] EXCEPT !.nodes = block] \in Mounted
    BY <1>2, ListTypes DEF Shape, Mounted, Blocks
  <2> DEFINE m == [old[cur] EXCEPT !.nodes = block]
  <2>2. old' = [old EXCEPT ![cur] = m]
    BY <1>1
  <2> HIDE DEF m
  <2>3. old \in Seq(Mounted) /\ m \in Mounted
    BY <2>1 DEF Shape, TypeOK, m
  <2> QED BY <1>2, <2>2, <2>3, ExceptSeq, LenProperties
<1>4. TypeOK'
  <2>1. used' = {}
    BY <1>1, <1>2 DEF used
  <2>2. from' \in Seq(0 .. Len(old'))
    BY <1>1, <1>2
  <2> QED BY <1>1, <1>2, <1>3, <2>1, <2>2 DEF Shape, TypeOK
<1>5. Loops'
  BY <1>1, <1>2 DEF Shape, Loops
<1>6. Matches' /\ Kept' /\ KeptNext'
  BY <1>1, <1>2 DEF Matches, Kept, KeptNext
<1> QED BY <1>4, <1>5, <1>6 DEF Shape

LEMMA ShapeRemoveNode ==
  ASSUME Shape, RemoveNode
  PROVE  Shape'
<1>1. /\ pc \in {"remove", "rest"} /\ todo # <<>> /\ todo' = Tail(todo) /\ removeChild(Head(todo))
      /\ UNCHANGED <<failed, old, next, children, from, pc, cur, block, at>>
  BY DEF RemoveNode
<1>2. todo \in Seq(Nodes) /\ kids \in Seq(Nodes) /\ ok \in BOOLEAN
  BY DEF Shape, TypeOK
<1>3. Head(todo) \in Nodes /\ todo' \in Seq(Nodes)
  BY <1>1, <1>2, HeadTailProperties
<1>4. kids' \in Seq(Nodes) /\ ok' \in BOOLEAN
  BY <1>1, <1>2, <1>3, DomTypes
<1>5. TypeOK'
  BY <1>1, <1>3, <1>4, TypeKept DEF Shape, TypeOK
<1>6. Loops'
  BY <1>1, SameLists DEF Shape, Loops
<1>7. Matches' /\ Kept' /\ KeptNext'
  BY <1>1, SameLists DEF Shape, Matches, Kept, KeptNext
<1> QED BY <1>5, <1>6, <1>7 DEF Shape

LEMMA ShapeRemoveRest ==
  ASSUME Shape, RemoveRest
  PROVE  Shape'
<1>1. /\ pc = "next" /\ pc' = "rest" /\ Len(children) = Len(next)
      /\ UNCHANGED <<kids, ok, failed, old, next, children, from, cur, block, todo, at>>
  BY DEF RemoveRest, dom
<1>2. TypeOK'
  BY <1>1, TypeKept DEF Shape, TypeOK
<1>3. Loops'
  BY <1>1, SameLists, ListTypes DEF Shape, Loops
<1>4. Matches' /\ Kept' /\ KeptNext'
  BY <1>1, MatchesKept DEF Shape
<1> QED BY <1>2, <1>3, <1>4 DEF Shape

LEMMA ShapeRestNext ==
  ASSUME Shape, RestNext
  PROVE  Shape'
<1>1. /\ pc = "rest" /\ todo = <<>> /\ at < Len(old) /\ at' = at + 1 /\ todo' = Rest(at + 1)
      /\ UNCHANGED <<kids, ok, failed, old, next, children, from, pc, cur, block>>
  BY DEF RestNext, dom
<1>2. at \in Nat /\ Len(old) \in Nat
  BY ListTypes DEF Shape, TypeOK
<1>3. at' \in DOMAIN old /\ at' # 0 /\ at' \in 0 .. Len(old) /\ at' <= Len(old)
  BY <1>1, <1>2, ListTypes DEF Shape
<1>4. todo' \in Seq(Nodes) /\ (at' \in used => todo' = <<>>)
  BY <1>1, <1>3, ListTypes DEF Shape, Rest, Mounted, Blocks
<1>5. TypeOK'
  BY <1>1, <1>3, <1>4, TypeKept DEF Shape, TypeOK
<1>6. Loops'
  BY <1>1, <1>3, <1>4, SameLists DEF Shape, Loops
<1>7. Matches' /\ Kept' /\ KeptNext'
  BY <1>1, MatchesKept DEF Shape
<1> QED BY <1>5, <1>6, <1>7 DEF Shape

LEMMA ShapePatchReturns ==
  ASSUME Shape, cur = 0, todo = <<>>, PatchReturns
  PROVE  Shape'
<1>1. /\ old' = children /\ next' = <<>> /\ children' = <<>> /\ from' = <<>>
      /\ pc' = "idle" /\ block' = <<>> /\ at' = 0
      /\ UNCHANGED <<kids, ok, failed, cur, todo>>
  BY DEF PatchReturns, dom
<1>2. Len(children) \in Nat
  BY ListTypes DEF Shape
<1>3. TypeOK'
  <2>1. used' = {}
    BY <1>1 DEF used
  <2>2. from' \in Seq(0 .. Len(old')) /\ Len(from') = 0 /\ Len(children') = 0 /\ Len(next') = 0
    BY <1>1
  <2>3. children' \in Seq(Mounted) /\ block' \in Seq(Nodes)
    BY <1>1
  <2> QED BY <1>1, <1>2, <2>1, <2>2, <2>3 DEF Shape, TypeOK
<1>4. Loops'
  BY <1>1 DEF Loops
<1>5. Matches' /\ Kept' /\ KeptNext'
  BY <1>1 DEF Matches, Kept, KeptNext
<1> QED BY <1>3, <1>4, <1>5 DEF Shape

LEMMA ShapeInPlace ==
  ASSUME Shape, InPlace
  PROVE  Shape'
BY ShapePatchReturns DEF InPlace, Shape, Loops

LEMMA ShapeReordered ==
  ASSUME Shape, Reordered
  PROVE  Shape'
BY ShapePatchReturns DEF Reordered, Shape, Loops

(***************************************************************************)
(* reorderMountedChildren comes to child k.                                *)
(***************************************************************************)
LEMMA ShapeMoveTo ==
  ASSUME Shape, pc \in {"rest", "order"}, NEW k \in 0 .. Len(children), MoveTo(k),
         pc' = "order", k = 0 => children = <<>>
  PROVE  Shape'
<1>1. /\ at' = k /\ block' = <<>> /\ todo' = IF k = 0 THEN <<>> ELSE children[k].nodes
      /\ UNCHANGED <<kids, ok, failed, old, next, children, from, cur>>
  BY DEF MoveTo, dom
<1>2. k # 0 => k \in DOMAIN children
  BY ListTypes DEF Shape
<1>3. todo' \in Seq(Nodes) /\ block' \in Seq(Nodes)
  BY <1>1, <1>2, ListTypes DEF Shape, Mounted, Blocks
<1>4. k # 0 => block' \o todo' = children[k].nodes
  BY <1>1, <1>3, ConcatEmptySeq
<1>5. TypeOK'
  BY <1>1, <1>3, TypeKept DEF Shape, TypeOK
<1>6. Loops'
  <2>1. k <= Len(children)
    BY ListTypes DEF Shape
  <2>2. Len(children) = Len(next) /\ cur = 0
    BY DEF Shape, Loops
  <2> QED BY <1>1, <1>4, <2>1, <2>2 DEF Loops
<1>7. Matches' /\ Kept' /\ KeptNext'
  BY <1>1, MatchesKept DEF Shape
<1> QED BY <1>5, <1>6, <1>7 DEF Shape

LEMMA ShapeReorder ==
  ASSUME Shape, Reorder
  PROVE  Shape'
<1>1. Len(children) \in 0 .. Len(children) /\ (Len(children) = 0 => children = <<>>)
  BY ListTypes, EmptySeq DEF Shape, TypeOK
<1> QED BY <1>1, ShapeMoveTo DEF Reorder

LEMMA ShapeMoveNext ==
  ASSUME Shape, MoveNext
  PROVE  Shape'
<1>1. pc = "order" /\ pc' = "order" /\ at > 1 /\ MoveTo(at - 1)
  BY DEF MoveNext
<1>2. at <= Len(children) /\ at \in Nat /\ Len(children) \in Nat
  <2>1. at <= Len(children)
    BY <1>1 DEF Shape, Loops
  <2> QED BY <2>1, ListTypes DEF Shape, TypeOK
<1>3. at - 1 \in 0 .. Len(children) /\ at - 1 # 0
  BY <1>1, <1>2
<1> QED BY <1>1, <1>3, ShapeMoveTo

LEMMA OneMoved ==
  ASSUME NEW S, NEW a \in Seq(S), NEW b \in Seq(S), b # <<>>
  PROVE  Append(a, Head(b)) \o Tail(b) = a \o b
<1>1. /\ Len(a) \in Nat /\ Len(b) \in Nat /\ Len(b) > 0 /\ Head(b) = b[1] /\ Head(b) \in S
      /\ Tail(b) \in Seq(S) /\ Len(Tail(b)) = Len(b) - 1
      /\ \A i \in 1 .. (Len(b) - 1) : Tail(b)[i] = b[i + 1]
  BY EmptySeq, LenProperties, HeadTailProperties
<1> DEFINE c == Append(a, Head(b))
           t == Tail(b)
<1>2. /\ c \in Seq(S) /\ Len(c) = Len(a) + 1 /\ c[Len(a) + 1] = b[1]
      /\ \A i \in 1 .. Len(a) : c[i] = a[i]
  BY <1>1, AppendProperties
<1>6. /\ t \in Seq(S) /\ Len(t) = Len(b) - 1
      /\ \A i \in 1 .. (Len(b) - 1) : t[i] = b[i + 1]
  BY <1>1
<1> HIDE DEF c, t
<1>3. /\ c \o t \in Seq(S) /\ Len(c \o t) = Len(a) + Len(b)
      /\ \A i \in 1 .. (Len(a) + Len(b)) :
           (c \o t)[i] = IF i <= Len(a) + 1 THEN c[i] ELSE t[i - (Len(a) + 1)]
  <2>1. Len(c) + Len(t) = Len(a) + Len(b)
    BY <1>1, <1>2, <1>6
  <2>2. /\ c \o t \in Seq(S) /\ Len(c \o t) = Len(c) + Len(t)
        /\ \A i \in 1 .. Len(c) + Len(t) :
             (c \o t)[i] = IF i <= Len(c) THEN c[i] ELSE t[i - Len(c)]
    BY <1>2, <1>6, ConcatProperties
  <2> QED BY <1>2, <2>1, <2>2
<1>7. /\ a \o b \in Seq(S) /\ Len(a \o b) = Len(a) + Len(b)
      /\ \A i \in 1 .. Len(a) + Len(b) :
           (a \o b)[i] = IF i <= Len(a) THEN a[i] ELSE b[i - Len(a)]
  BY ConcatProperties
<1>4. ASSUME NEW i \in 1 .. (Len(a) + Len(b)) PROVE (c \o t)[i] = (a \o b)[i]
  <2>1. (c \o t)[i] = IF i <= Len(a) + 1 THEN c[i] ELSE t[i - (Len(a) + 1)]
    BY <1>3
  <2>2. (a \o b)[i] = IF i <= Len(a) THEN a[i] ELSE b[i - Len(a)]
    BY <1>7
  <2>3. CASE i <= Len(a)
    BY <1>1, <1>2, <2>1, <2>2, <2>3
  <2>4. CASE i = Len(a) + 1
    BY <1>1, <1>2, <2>1, <2>2, <2>4
  <2>5. CASE i > Len(a) + 1
    <3>1. i - (Len(a) + 1) \in 1 .. (Len(b) - 1) /\ i - (Len(a) + 1) + 1 = i - Len(a)
      BY <1>1, <2>5
    <3> QED BY <1>1, <1>6, <2>1, <2>2, <2>5, <3>1
  <2>6. i <= Len(a) \/ i = Len(a) + 1 \/ i > Len(a) + 1
    BY <1>1
  <2> QED BY <2>3, <2>4, <2>5, <2>6
<1>5. c \o t = a \o b
  <2> DEFINE d == c \o t
             e == a \o b
  <2>1. d \in Seq(S) /\ e \in Seq(S) /\ Len(d) = Len(e) /\ Len(e) = Len(a) + Len(b)
        /\ \A i \in 1 .. Len(d) : d[i] = e[i]
    BY <1>3, <1>4, <1>7
  <2> HIDE DEF d, e
  <2>2. d = e
    BY <2>1, SeqEqual
  <2> QED BY <2>2 DEF d, e
<1> QED BY <1>5 DEF c, t

LEMMA ShapeMoveNode ==
  ASSUME Shape, MoveNode
  PROVE  Shape'
<1>1. /\ pc = "order" /\ todo # <<>> /\ \E x : insertNode(Head(todo), x)
      /\ block' = Append(block, Head(todo)) /\ todo' = Tail(todo)
      /\ UNCHANGED <<failed, old, next, children, from, pc, cur, at>>
  BY DEF MoveNode
<1>2. todo \in Seq(Nodes) /\ block \in Seq(Nodes) /\ kids \in Seq(Nodes) /\ ok \in BOOLEAN
  BY DEF Shape, TypeOK
<1>3. Head(todo) \in Nodes /\ todo' \in Seq(Nodes)
  BY <1>1, <1>2, HeadTailProperties
<1>4. kids' \in Seq(Nodes) /\ ok' \in BOOLEAN
  BY <1>1, <1>2, <1>3, DomTypes
<1>5. block' \in Seq(Nodes)
  BY <1>1, <1>2, <1>3, AppendProperties
<1>6. block' \o todo' = block \o todo
  BY <1>1, <1>2, OneMoved
<1>7. at # 0
  BY <1>1 DEF Shape, Loops
<1>8. TypeOK'
  BY <1>1, <1>3, <1>4, <1>5, TypeKept DEF Shape, TypeOK
<1>9. Loops'
  BY <1>1, <1>6, <1>7, SameLists DEF Shape, Loops
<1>10. Matches' /\ Kept' /\ KeptNext'
  BY <1>1, MatchesKept DEF Shape
<1> QED BY <1>8, <1>9, <1>10 DEF Shape

LEMMA ShapeStep ==
  ASSUME Shape, [Next]_vars
  PROVE  Shape'
<1>1. CASE UNCHANGED vars
  <2>1. UNCHANGED <<kids, ok, failed, old, next, children, from, pc, cur, block, todo, at>>
    BY <1>1 DEF vars
  <2>2. TypeOK'
    BY <2>1, TypeKept DEF Shape, TypeOK
  <2>3. Loops'
    BY <2>1, SameLists DEF Shape, Loops
  <2>4. Matches' /\ Kept' /\ KeptNext'
    BY <2>1, SameLists DEF Shape, Matches, Kept, KeptNext
  <2> QED BY <2>2, <2>3, <2>4 DEF Shape
<1>2. CASE \E list \in Lists : PatchChildren(list)
  BY <1>2, ShapePatchChildren
<1>3. CASE MountChild \/ PatchChild \/ \E j \in DOMAIN old : Rerender(j)
  BY <1>3, ShapeMountChild, ShapePatchChild, ShapeRerender
<1>4. CASE \E p \in 1 .. MaxBlock : MountNode(p) \/ RemoveNodeWithin(p)
  BY <1>4, ShapeMountNode, ShapeRemoveWithin
<1>5. CASE \E p \in 1 .. MaxBlock : InsertNodeWithin(p)
  BY <1>5, ShapeInsertWithin, NewNodeType DEF InsertNodeWithin
<1>6. CASE \E q, p \in 1 .. MaxBlock : MoveNodeWithin(q, p)
  <2>1. PICK q \in 1 .. MaxBlock, p \in 1 .. MaxBlock : MoveNodeWithin(q, p)
    BY <1>6
  <2>2. block[q] \in Nodes /\ InsertWithin(block[q], p)
    BY <2>1 DEF MoveNodeWithin, Shape, TypeOK
  <2> QED BY <2>2, ShapeInsertWithin
<1>7. CASE ChildFails \/ ChildMounted \/ ChildReplaced \/ ChildPatched \/ Rerendered
  BY <1>7, ShapeChildFails, ShapeChildMounted, ShapeChildDone, ShapeRerendered
<1>8. CASE RemoveNode \/ RemoveRest \/ RestNext \/ InPlace
  BY <1>8, ShapeRemoveNode, ShapeRemoveRest, ShapeRestNext, ShapeInPlace
<1>9. CASE Reorder \/ MoveNode \/ MoveNext \/ Reordered
  BY <1>9, ShapeReorder, ShapeMoveNode, ShapeMoveNext, ShapeReordered
<1> QED BY <1>1, <1>2, <1>3, <1>4, <1>5, <1>6, <1>7, <1>8, <1>9 DEF Next

(***************************************************************************)
(* Every mounted child has a first DOM node to be an anchor, and no old    *)
(* child is found for two new ones.                                        *)
(***************************************************************************)
THEOREM TypeCorrect == Spec => []TypeOK
<1>1. Shape /\ [Next]_vars => Shape'
  BY ShapeStep
<1>2. Shape => TypeOK
  BY DEF Shape
<1> QED BY ShapeInit, <1>1, <1>2, PTL DEF Spec

-----------------------------------------------------------------------------
(* The rows of a state *)

RowFacts ==
  /\ Behind \in Nat /\ Behind = Len(old) + 2 * Len(next) + 1 /\ IsRows(Rows, Behind)
  /\ Rows[0] = Lead /\ Rows[Behind] = Trail
  /\ \A j \in 1 .. Len(old) : Rows[j] = OldRow(j)
  /\ \A k \in 1 .. Len(next) : /\ Rows[Len(old) + k] = NewRow(k)
                               /\ Rows[Len(old) + Len(next) + k] = MovedRow(k)

LEMMA PlaceFacts ==
  ASSUME TypeOK
  PROVE  /\ \A j \in used : /\ PlaceOf(j) \in DOMAIN from /\ from[PlaceOf(j)] = j
                            /\ \A k \in DOMAIN from : from[k] = j => k = PlaceOf(j)
         /\ 0 \notin used
<1>1. \A j \in used : PlaceOf(j) \in DOMAIN from /\ from[PlaceOf(j)] = j /\ j # 0
  BY DEF used, PlaceOf
<1> QED BY <1>1 DEF TypeOK

LEMMA RowTypes ==
  ASSUME Shape
  PROVE  /\ \A j \in 1 .. Len(old) : OldRow(j) \in Seq(Nodes)
         /\ \A k \in 1 .. Len(next) : NewRow(k) \in Seq(Nodes) /\ MovedRow(k) \in Seq(Nodes)
<1>1. /\ DOMAIN old = 1 .. Len(old) /\ DOMAIN from = DOMAIN children
      /\ block \in Seq(Nodes) /\ todo \in Seq(Nodes)
      /\ \A j \in DOMAIN old : old[j].nodes \in Seq(Nodes)
      /\ \A k \in DOMAIN children : children[k].nodes \in Seq(Nodes)
  BY ListTypes DEF Shape, TypeOK, Mounted, Blocks
<1>2. \A k \in DOMAIN children : Left(k) \in Seq(Nodes)
  BY <1>1 DEF Left
<1>3. \A j \in used : PlaceOf(j) \in DOMAIN children
  BY <1>1, PlaceFacts DEF Shape
<1>4. block \o todo \in Seq(Nodes)
  BY <1>1, ConcatProperties
<1>5. \A j \in 1 .. Len(old) : OldRow(j) \in Seq(Nodes)
  BY <1>1, <1>2, <1>3, <1>4 DEF OldRow, Unmatched
<1>6. \A k \in 1 .. Len(next) : NewRow(k) \in Seq(Nodes)
  BY <1>1, <1>2 DEF NewRow
<1>7. ASSUME NEW k \in 1 .. Len(next) PROVE MovedRow(k) \in Seq(Nodes)
  <2>1. pc = "order" => k \in DOMAIN children
    BY ListTypes DEF Shape, Loops
  <2> QED BY <1>1, <2>1 DEF MovedRow
<1> QED BY <1>5, <1>6, <1>7

LEMMA RowsOfState ==
  Shape => RowFacts
<1> SUFFICES ASSUME Shape PROVE RowFacts
  OBVIOUS
<1>1. Len(old) \in Nat /\ Len(next) \in Nat
  BY ListTypes DEF Shape
<1>2. Behind \in Nat /\ Behind = Len(old) + 2 * Len(next) + 1
  BY <1>1 DEF Behind
<1>3. DOMAIN Rows = 0 .. Behind /\ \A r \in 0 .. Behind : Rows[r] = Row(r)
  BY DEF Rows
<1>4. Rows[0] = Lead /\ Rows[Behind] = Trail
  BY <1>1, <1>2, <1>3 DEF Row
<1>5. ASSUME NEW j \in 1 .. Len(old) PROVE Rows[j] = OldRow(j)
  BY <1>1, <1>2, <1>3 DEF Row
<1>6. ASSUME NEW k \in 1 .. Len(next)
      PROVE  /\ Rows[Len(old) + k] = NewRow(k)
             /\ Rows[Len(old) + Len(next) + k] = MovedRow(k)
  <2>1. Row(Len(old) + k) = NewRow(k) /\ Len(old) + k \in 0 .. Behind
    <3>1. Len(old) + k - Len(old) = k /\ Len(old) + k # 0 /\ ~(Len(old) + k <= Len(old))
          /\ Len(old) + k <= Len(old) + Len(next)
      BY <1>1
    <3> QED BY <1>1, <1>2, <3>1 DEF Row
  <2>2. Row(Len(old) + Len(next) + k) = MovedRow(k) /\ Len(old) + Len(next) + k \in 0 .. Behind
    <3> DEFINE r == Len(old) + Len(next) + k
    <3>1. r - Len(old) - Len(next) = k /\ r # 0 /\ ~(r <= Len(old))
          /\ ~(r <= Len(old) + Len(next)) /\ r < Behind /\ r \in 0 .. Behind
      BY <1>1, <1>2
    <3> HIDE DEF r
    <3>2. Row(r) = MovedRow(k) /\ r \in 0 .. Behind
      BY <3>1 DEF Row
    <3> QED BY <3>2 DEF r
  <2> QED BY <1>3, <2>1, <2>2
<1>7. ASSUME NEW r \in 0 .. Behind PROVE Rows[r] \in Seq(Nodes)
  <2>1. \/ r = 0 \/ r = Behind \/ r \in 1 .. Len(old)
        \/ \E k \in 1 .. Len(next) : r = Len(old) + k
        \/ \E k \in 1 .. Len(next) : r = Len(old) + Len(next) + k
    <3>1. r - Len(old) \in Int /\ r - Len(old) - Len(next) \in Int
      BY <1>1, <1>2
    <3>2. r = Len(old) + (r - Len(old)) /\ r = Len(old) + Len(next) + (r - Len(old) - Len(next))
      BY <1>1, <1>2
    <3>3. \/ r = 0 \/ r = Behind \/ r \in 1 .. Len(old)
          \/ r - Len(old) \in 1 .. Len(next) \/ r - Len(old) - Len(next) \in 1 .. Len(next)
      BY <1>1, <1>2
    <3> QED BY <3>2, <3>3
  <2> QED BY <1>4, <1>5, <1>6, <2>1, RowTypes, AroundAssumption
<1> QED BY <1>2, <1>3, <1>4, <1>5, <1>6, <1>7 DEF RowFacts, IsRows

LEMMA NextRows ==
  Shape' => RowFacts'
BY RowsOfState, PTL

\* which rows there are
LEMMA RowKinds ==
  ASSUME Shape, NEW r \in 0 .. Behind
  PROVE  \/ r = 0 \/ r = Behind \/ r \in 1 .. Len(old)
         \/ \E k \in 1 .. Len(next) : r = Len(old) + k
         \/ \E k \in 1 .. Len(next) : r = Len(old) + Len(next) + k
<1>1. Len(old) \in Nat /\ Len(next) \in Nat /\ Behind = Len(old) + 2 * Len(next) + 1
  BY ListTypes DEF Shape, Behind
<1>2. r = Len(old) + (r - Len(old)) /\ r = Len(old) + Len(next) + (r - Len(old) - Len(next))
  BY <1>1
<1>3. \/ r = 0 \/ r = Behind \/ r \in 1 .. Len(old)
      \/ r - Len(old) \in 1 .. Len(next) \/ r - Len(old) - Len(next) \in 1 .. Len(next)
  BY <1>1
<1> QED BY <1>2, <1>3

(***************************************************************************)
(* A step that leaves the lists alone, and changes no row but those of D.  *)
(***************************************************************************)
LEMMA OtherRows ==
  ASSUME Shape, Shape', UNCHANGED <<Len(old), next>>, NEW D,
         \A j \in 1 .. Len(old) : j \notin D => OldRow(j)' = OldRow(j),
         \A k \in 1 .. Len(next) : Len(old) + k \notin D => NewRow(k)' = NewRow(k),
         \A k \in 1 .. Len(next) : Len(old) + Len(next) + k \notin D => MovedRow(k)' = MovedRow(k)
  PROVE  /\ Behind' = Behind
         /\ \A r \in 0 .. Behind : r \notin D => Rows'[r] = Rows[r]
<1>1. Len(old)' = Len(old) /\ Len(next)' = Len(next)
  OBVIOUS
<1>2. Behind' = Behind
  BY <1>1 DEF Behind
<1>3. RowFacts /\ RowFacts'
  BY RowsOfState, NextRows
<1>4. ASSUME NEW r \in 0 .. Behind, r \notin D PROVE Rows'[r] = Rows[r]
  <2>1. CASE r = 0 \/ r = Behind
    BY <1>2, <1>3, <2>1 DEF RowFacts
  <2>2. CASE r \in 1 .. Len(old)
    <3>1. Rows[r] = OldRow(r)
      BY <1>3, <2>2 DEF RowFacts
    <3>2. Rows'[r] = OldRow(r)'
      BY <1>1, <1>3, <2>2 DEF RowFacts
    <3> QED BY <1>4, <2>2, <3>1, <3>2
  <2>3. ASSUME NEW k \in 1 .. Len(next), r = Len(old) + k PROVE Rows'[r] = Rows[r]
    <3>1. Rows[r] = NewRow(k)
      BY <1>3, <2>3 DEF RowFacts
    <3>2. Rows'[r] = NewRow(k)'
      BY <1>1, <1>3, <2>3 DEF RowFacts
    <3> QED BY <1>4, <2>3, <3>1, <3>2
  <2>4. ASSUME NEW k \in 1 .. Len(next), r = Len(old) + Len(next) + k PROVE Rows'[r] = Rows[r]
    <3>1. Rows[r] = MovedRow(k)
      BY <1>3, <2>4 DEF RowFacts
    <3>2. Rows'[r] = MovedRow(k)'
      BY <1>1, <1>3, <2>4 DEF RowFacts
    <3> QED BY <1>4, <2>4, <3>1, <3>2
  <2> QED BY <2>1, <2>2, <2>3, <2>4, RowKinds
<1> QED BY <1>2, <1>4

(***************************************************************************)
(* A step of the loops alone.                                              *)
(***************************************************************************)
LEMMA RowsStay ==
  ASSUME IInv, Shape', UNCHANGED <<kids, ok, Len(old), next>>,
         \A j \in 1 .. Len(old) : OldRow(j)' = OldRow(j),
         \A k \in 1 .. Len(next) : NewRow(k)' = NewRow(k) /\ MovedRow(k)' = MovedRow(k)
  PROVE  IInv'
<1>1. Behind' = Behind /\ \A r \in 0 .. Behind : Rows'[r] = Rows[r]
  <2>1. PICK D : D = {}
    OBVIOUS
  <2>2. Behind' = Behind /\ \A r \in 0 .. Behind : r \notin D => Rows'[r] = Rows[r]
    BY <2>1, OtherRows DEF IInv
  <2> QED BY <2>1, <2>2
<1>2. Rows' = Rows
  BY <1>1 DEF Rows
<1>3. ok' /\ InDocumentOrder(kids, Rows)
  BY DEF IInv
<1>4. InDocumentOrder(kids, Rows)'
  BY <1>2, <1>3 DEF InDocumentOrder
<1> QED BY <1>3, <1>4 DEF IInv

(***************************************************************************)
(* A node is removed, and leaves its row.                                  *)
(***************************************************************************)
LEMMA RowLoses ==
  ASSUME IInv, Shape', UNCHANGED <<old, next>>, NEW r \in 0 .. Behind, NEW p \in DOMAIN Rows[r],
         removeChild(Rows[r][p]), Behind' = Behind,
         Rows'[r] = RemoveAt(Rows[r], p),
         \A q \in 0 .. Behind : q # r => Rows'[q] = Rows[q]
  PROVE  IInv'
<1> DEFINE n == Rows[r][p]
           B == Rows
           C == Rows'
           T == Behind
<1>1. Shape /\ kids \in Seq(Nodes) /\ ok /\ InDocumentOrder(kids, B)
  BY DEF IInv, Shape, TypeOK
<1>2. T \in Nat /\ IsRows(B, T) /\ IsRows(C, T)
  <2>1. RowFacts /\ RowFacts'
    BY <1>1, RowsOfState, NextRows
  <2> QED BY <2>1 DEF RowFacts
<1>3. /\ r \in 0 .. T /\ p \in DOMAIN B[r] /\ C[r] = RemoveAt(B[r], p)
      /\ \A q \in 0 .. T : q # r => C[q] = B[q]
  OBVIOUS
<1>4. removeChild(n)
  OBVIOUS
<1>5. n = B[r][p]
  OBVIOUS
<1> HIDE DEF n, B, C, T
<1>6. n \in ToSet(kids) /\ InDocumentOrder(Without(kids, n), C)
  BY <1>1, <1>2, <1>3, <1>5, NodeRemoved
<1>7. kids' = Without(kids, n) /\ ok'
  BY <1>1, <1>4, <1>6 DEF removeChild
<1>8. InDocumentOrder(kids', C)
  BY <1>6, <1>7
<1> QED BY <1>7, <1>8 DEF IInv, C, InDocumentOrder

(***************************************************************************)
(* A node is inserted before the anchor of a place in a row, where it was  *)
(* not in any row of C.                                                    *)
(***************************************************************************)
LEMMA RowGains ==
  ASSUME Shape, Shape', Behind' = Behind, ok, NEW n \in Nodes, NEW x, insertNode(n, x),
         NEW C, IsRows(C, Behind), InDocumentOrder(Without(kids, n), C),
         n \notin ToSet(Without(kids, n)), Without(kids, n) \in Seq(Nodes),
         NEW r \in 0 .. Behind, NEW p \in 1 .. (Len(C[r]) + 1), IsAnchor(C, r, p, x),
         Rows'[r] = InsertAt(C[r], p, n),
         \A q \in 0 .. Behind : q # r => Rows'[q] = C[q]
  PROVE  IInv'
<1> DEFINE D == Rows'
           T == Behind
           s == Without(kids, n)
<1>1. T \in Nat /\ IsRows(D, T)
  <2>1. RowFacts /\ RowFacts'
    BY RowsOfState, NextRows
  <2> QED BY <2>1 DEF RowFacts
<1>2. /\ IsRows(C, T) /\ r \in 0 .. T /\ D[r] = InsertAt(C[r], p, n)
      /\ \A q \in 0 .. T : q # r => D[q] = C[q]
      /\ InDocumentOrder(s, C) /\ n \notin ToSet(s) /\ s \in Seq(Nodes)
  OBVIOUS
<1>3. \/ x = Nil /\ kids' = Append(s, n) /\ ok' = ok
      \/ x # Nil /\ x \in ToSet(s) /\ kids' = InsertAt(s, Position(s, x), n) /\ ok' = ok
      \/ x # Nil /\ x \notin ToSet(s)
  BY DEF insertNode
<1> HIDE DEF D, T, s
<1>4. (x = Nil \/ x \in ToSet(s)) /\ InDocumentOrder(Inserted(s, n, x), D)
  BY <1>1, <1>2, NodeInserted
<1>5. kids' = Inserted(s, n, x) /\ ok'
  BY <1>3, <1>4 DEF Inserted
<1>6. InDocumentOrder(kids', D)
  BY <1>4, <1>5
<1> QED BY <1>5, <1>6 DEF IInv, D, InDocumentOrder

-----------------------------------------------------------------------------
(* The order of the nodes: steps of the loops alone *)

\* the rows before the loop of the rest begins, and of a step until then
SimpleOldRow(j) == IF j \in used THEN children[PlaceOf(j)].nodes
                   ELSE IF j = cur THEN block \o todo ELSE old[j].nodes
LEMMA SimpleRows ==
  pc \notin {"rest", "order"} =>
    /\ \A j : OldRow(j) = SimpleOldRow(j)
    /\ \A k : MovedRow(k) = <<>>
    /\ \A k : NewRow(k) = IF k \in DOMAIN from
                          THEN IF from[k] = 0 THEN children[k].nodes ELSE <<>>
                          ELSE IF pc = "mount" /\ cur = 0 /\ k = index THEN block ELSE <<>>
BY DEF OldRow, SimpleOldRow, Unmatched, MovedRow, NewRow, Left

LEMMA SimpleRowsNext ==
  pc' \notin {"rest", "order"} =>
    /\ \A j : OldRow(j)' = SimpleOldRow(j)'
    /\ \A k : MovedRow(k)' = <<>>
    /\ \A k : NewRow(k)' = IF k \in DOMAIN from'
                           THEN IF from'[k] = 0 THEN children'[k].nodes ELSE <<>>
                           ELSE IF pc' = "mount" /\ cur' = 0 /\ k = index' THEN block' ELSE <<>>
BY DEF OldRow, SimpleOldRow, Unmatched, MovedRow, NewRow, Left

LEMMA OrderMountChild ==
  ASSUME IInv, Shape', MountChild
  PROVE  IInv'
<1>1. /\ Shape /\ pc = "next" /\ pc' = "mount" /\ index <= Len(next)
      /\ UNCHANGED <<old, next, children, from, block, at, kids, ok, failed>>
      /\ cur = 0 /\ todo = <<>> /\ block = <<>>
  BY DEF IInv, Shape, Loops, MountChild, dom
<1>2. used' = used /\ index' = index /\ \A j : PlaceOf(j)' = PlaceOf(j)
  BY <1>1, SameLists DEF PlaceOf
<1>3. \/ cur' = 0 /\ todo' = <<>>
      \/ \E j \in nextOldChild(index) : cur' = j /\ todo' = old[j].nodes
  BY <1>1 DEF MountChild
<1>4. cur' # 0 => /\ cur' \in DOMAIN old /\ todo' = old[cur'].nodes
                  /\ block' \o todo' = old[cur'].nodes
  <2> SUFFICES ASSUME NEW j \in nextOldChild(index), cur' = j, todo' = old[j].nodes
               PROVE  j \in DOMAIN old /\ block' \o todo' = old[j].nodes
    BY <1>3
  <2>1. j \in DOMAIN old
    BY <1>1, Found
  <2>2. old[j].nodes \in Seq(Nodes)
    BY <1>1, <2>1, ListTypes DEF Shape, Mounted, Blocks
  <2> QED BY <1>1, <2>1, <2>2, ConcatEmptySeq
<1>5. \A j \in 1 .. Len(old) : OldRow(j)' = OldRow(j)
  BY <1>1, <1>2, <1>4, SimpleRows, SimpleRowsNext DEF SimpleOldRow
<1>6. \A k \in 1 .. Len(next) : NewRow(k)' = NewRow(k) /\ MovedRow(k)' = MovedRow(k)
  BY <1>1, <1>2, SimpleRows, SimpleRowsNext
<1> QED BY <1>1, <1>5, <1>6, RowsStay

LEMMA OrderPatchChild ==
  ASSUME IInv, Shape', PatchChild
  PROVE  IInv'
<1>1. /\ Shape /\ pc = "next" /\ pc' = "patch" /\ index <= Len(next)
      /\ UNCHANGED <<old, next, children, from, todo, at, kids, ok, failed>>
      /\ cur = 0 /\ todo = <<>>
  BY DEF IInv, Shape, Loops, PatchChild, dom
<1>2. used' = used /\ index' = index /\ \A j : PlaceOf(j)' = PlaceOf(j)
  BY <1>1, SameLists DEF PlaceOf
<1>3. PICK j \in nextOldChild(index) : cur' = j /\ block' = old[j].nodes
  BY <1>1 DEF PatchChild
<1>4. block' \o todo' = old[j].nodes
  <2>1. j \in DOMAIN old
    BY <1>1, Found
  <2>2. old[j].nodes \in Seq(Nodes)
    BY <1>1, <2>1, ListTypes DEF Shape, Mounted, Blocks
  <2> QED BY <1>1, <1>3, <2>2, ConcatEmptySeq
<1>5. \A i \in 1 .. Len(old) : OldRow(i)' = OldRow(i)
  BY <1>1, <1>2, <1>3, <1>4, SimpleRows, SimpleRowsNext DEF SimpleOldRow
<1>6. \A k \in 1 .. Len(next) : NewRow(k)' = NewRow(k) /\ MovedRow(k)' = MovedRow(k)
  BY <1>1, <1>2, SimpleRows, SimpleRowsNext
<1> QED BY <1>1, <1>5, <1>6, RowsStay

LEMMA OrderRerender ==
  ASSUME IInv, Shape', NEW j \in DOMAIN old, Rerender(j)
  PROVE  IInv'
<1>1. /\ Shape /\ pc = "idle" /\ pc' = "rerender" /\ cur' = j /\ block' = old[j].nodes
      /\ UNCHANGED <<old, next, children, from, todo, at, kids, ok, failed>>
      /\ cur = 0 /\ todo = <<>> /\ next = <<>>
  BY DEF IInv, Shape, Loops, Rerender, dom
<1>2. used' = used /\ index' = index /\ \A i : PlaceOf(i)' = PlaceOf(i)
  BY <1>1, SameLists DEF PlaceOf
<1>3. block' \o todo' = old[j].nodes
  <2>1. old[j].nodes \in Seq(Nodes)
    BY <1>1, ListTypes DEF Shape, Mounted, Blocks
  <2> QED BY <1>1, <2>1, ConcatEmptySeq
<1>4. \A i \in 1 .. Len(old) : OldRow(i)' = OldRow(i)
  BY <1>1, <1>2, <1>3, SimpleRows, SimpleRowsNext DEF SimpleOldRow
<1>5. \A k \in 1 .. Len(next) : NewRow(k)' = NewRow(k) /\ MovedRow(k)' = MovedRow(k)
  BY <1>1, <1>2, SimpleRows, SimpleRowsNext
<1> QED BY <1>1, <1>4, <1>5, RowsStay

LEMMA OrderRerendered ==
  ASSUME IInv, Shape', Rerendered
  PROVE  IInv'
<1>1. /\ Shape /\ pc = "rerender" /\ pc' = "idle" /\ cur' = 0 /\ block' = <<>>
      /\ old' = [old EXCEPT ![cur].nodes = block]
      /\ UNCHANGED <<kids, ok, failed, next, children, from, todo, at>>
      /\ todo = <<>> /\ next = <<>> /\ cur # 0
  BY DEF IInv, Shape, Loops, Rerendered, dom
<1>2. used' = used /\ \A i : PlaceOf(i)' = PlaceOf(i)
  BY <1>1 DEF PlaceOf, used
<1>3. block \o todo = block /\ cur \notin used /\ cur \in DOMAIN old
      /\ DOMAIN old = 1 .. Len(old)
  <2>1. block \in Seq(Nodes) /\ cur \notin used /\ cur \in 0 .. Len(old)
    BY <1>1 DEF Shape, TypeOK
  <2> QED BY <1>1, <2>1, ConcatEmptySeq, ListTypes DEF Shape
<1>4. Len(old)' = Len(old) /\ \A i \in DOMAIN old :
        old'[i].nodes = IF i = cur THEN block ELSE old[i].nodes
  BY <1>1, <1>3, ListTypes DEF Shape, Mounted
<1>5. \A i \in 1 .. Len(old) : OldRow(i)' = OldRow(i)
  BY <1>1, <1>2, <1>3, <1>4, SimpleRows, SimpleRowsNext DEF SimpleOldRow
<1>6. \A k \in 1 .. Len(next) : NewRow(k)' = NewRow(k) /\ MovedRow(k)' = MovedRow(k)
  BY <1>1, ListTypes DEF Shape
<1> QED BY <1>1, <1>4, <1>5, <1>6, RowsStay

LEMMA OrderChildFails ==
  ASSUME IInv, Shape', ChildFails
  PROVE  IInv'
<1>1. UNCHANGED <<kids, ok, old, next, children, from, pc, cur, block, todo, at>>
  BY DEF ChildFails, dom
<1>2. \A j : OldRow(j)' = OldRow(j)
  BY <1>1 DEF OldRow, used, PlaceOf, Left, Unmatched
<1>3. \A k : NewRow(k)' = NewRow(k) /\ MovedRow(k)' = MovedRow(k)
  BY <1>1 DEF NewRow, MovedRow, Left, index
<1> QED BY <1>1, <1>2, <1>3, RowsStay

\* the child at hand is now the one that has been found its place
LEMMA OrderAppendChild ==
  ASSUME IInv, Shape', pc \in {"mount", "patch", "remove"}, block # <<>>, AppendChild, todo = <<>>
  PROVE  IInv'
<1>1. /\ Shape /\ pc' = "next" /\ cur' = 0 /\ block' = <<>>
      /\ UNCHANGED <<kids, ok, failed, old, next, todo, at>>
      /\ (cur = 0 => pc = "mount")
  BY DEF IInv, Shape, Loops, AppendChild, dom
<1>2. /\ DOMAIN from' = 1 .. index /\ DOMAIN from = 1 .. Len(children)
      /\ \A k \in 1 .. Len(children) : children'[k] = children[k] /\ from'[k] = from[k]
      /\ children'[index].nodes = block
      /\ from'[index] = cur
      /\ used' = used \cup ({cur} \ {0})
      /\ index \in Nat /\ index = Len(children) + 1 /\ Len(children) \in Nat
  BY <1>1, Appended, ListTypes DEF Shape
<1>3. block \o todo = block /\ cur \notin used
  <2>1. block \in Seq(Nodes) /\ cur \notin used
    BY <1>1 DEF Shape, TypeOK
  <2> QED BY <2>1, ConcatEmptySeq
<1>4. ASSUME NEW j \in used PROVE PlaceOf(j)' = PlaceOf(j) /\ PlaceOf(j) \in 1 .. Len(children)
  <2>1. /\ PlaceOf(j) \in DOMAIN from /\ from[PlaceOf(j)] = j
        /\ \A k \in DOMAIN from : from[k] = j => k = PlaceOf(j)
    BY <1>1, PlaceFacts DEF Shape
  <2>2. /\ PlaceOf(j)' \in DOMAIN from' /\ from'[PlaceOf(j)'] = j
    <3>1. PlaceOf(j) \in DOMAIN from' /\ from'[PlaceOf(j)] = j
      BY <1>2, <2>1
    <3> QED BY <3>1 DEF PlaceOf
  <2>3. PlaceOf(j)' # index
    BY <1>2, <1>3, <2>2
  <2>4. PlaceOf(j)' \in DOMAIN from /\ from[PlaceOf(j)'] = j
    BY <1>2, <2>2, <2>3
  <2> QED BY <1>2, <2>1, <2>4
<1>5. ASSUME NEW j, j = cur, j # 0 PROVE PlaceOf(j)' = index
  <2>1. index \in DOMAIN from' /\ from'[index] = j
    BY <1>2, <1>5
  <2>2. PlaceOf(j)' \in DOMAIN from' /\ from'[PlaceOf(j)'] = j
    BY <2>1 DEF PlaceOf
  <2>3. \A k \in 1 .. Len(children) : from[k] # j
    BY <1>2, <1>3, <1>5 DEF used
  <2> QED BY <1>2, <2>2, <2>3
<1>6. ASSUME NEW j \in 1 .. Len(old) PROVE OldRow(j)' = OldRow(j)
  <2>1. CASE j \in used
    BY <1>1, <1>2, <1>4, <2>1, SimpleRows, SimpleRowsNext DEF SimpleOldRow
  <2>2. CASE j \notin used /\ j = cur
    <3>1. OldRow(j) = block
      BY <1>1, <1>3, <2>2, SimpleRows DEF SimpleOldRow
    <3>2. j \in used' /\ PlaceOf(j)' = index
      BY <1>2, <1>5, <2>2
    <3>3. OldRow(j)' = children'[index].nodes
      BY <1>1, <3>2, SimpleRowsNext DEF SimpleOldRow
    <3> QED BY <1>2, <3>1, <3>3
  <2>3. CASE j \notin used /\ j # cur
    BY <1>1, <1>2, <2>3, SimpleRows, SimpleRowsNext DEF SimpleOldRow
  <2> QED BY <2>1, <2>2, <2>3
<1>7. ASSUME NEW k \in 1 .. Len(next)
      PROVE  NewRow(k)' = NewRow(k) /\ MovedRow(k)' = MovedRow(k)
  <2>1. k \in DOMAIN from' => k \in DOMAIN from \/ k = index
    BY <1>2
  <2>2. k \in DOMAIN from => k \in DOMAIN from' /\ k # index
    BY <1>2
  <2>3. index \notin DOMAIN from /\ index \in DOMAIN from'
    BY <1>2
  <2> QED BY <1>1, <1>2, <2>1, <2>2, <2>3, SimpleRows, SimpleRowsNext
<1> QED BY <1>1, <1>6, <1>7, RowsStay

LEMMA OrderChildMounted ==
  ASSUME IInv, Shape', ChildMounted
  PROVE  IInv'
<1>1. pc = "mount" /\ block # <<>> /\ Shape
  BY DEF ChildMounted, IInv
<1>2. CASE cur = 0
  <2>1. AppendChild /\ todo = <<>>
    BY <1>1, <1>2 DEF ChildMounted, Shape, Loops
  <2> QED BY <1>1, <2>1, OrderAppendChild
<1>3. CASE cur # 0
  <2>1. /\ pc' = "remove"
        /\ UNCHANGED <<kids, ok, failed, old, next, children, from, cur, block, todo, at>>
    BY <1>3 DEF ChildMounted, dom
  <2>2. used' = used /\ \A j : PlaceOf(j)' = PlaceOf(j)
    BY <2>1, SameLists DEF PlaceOf
  <2>3. \A j : OldRow(j)' = OldRow(j)
    BY <1>1, <2>1, <2>2, SimpleRows, SimpleRowsNext DEF SimpleOldRow
  <2>4. \A k : NewRow(k)' = NewRow(k) /\ MovedRow(k)' = MovedRow(k)
    BY <1>1, <1>3, <2>1, SimpleRows, SimpleRowsNext
  <2> QED BY <2>1, <2>3, <2>4, RowsStay
<1> QED BY <1>2, <1>3

LEMMA OrderChildDone ==
  ASSUME IInv, Shape', ChildReplaced \/ ChildPatched
  PROVE  IInv'
<1>1. pc \in {"patch", "remove"} /\ AppendChild /\ todo = <<>> /\ block # <<>>
  BY DEF ChildReplaced, ChildPatched, IInv, Shape, Loops
<1> QED BY <1>1, OrderAppendChild

LEMMA OrderRemoveRest ==
  ASSUME IInv, Shape', RemoveRest
  PROVE  IInv'
<1>1. /\ Shape /\ pc = "next" /\ pc' = "rest" /\ Len(children) = Len(next)
      /\ UNCHANGED <<kids, ok, failed, old, next, children, from, cur, block, todo, at>>
      /\ at = 0 /\ cur = 0
  BY DEF IInv, Shape, Loops, RemoveRest, dom
<1>2. used' = used /\ \A j : PlaceOf(j)' = PlaceOf(j)
  BY <1>1, SameLists DEF PlaceOf
<1>3. \A j \in 1 .. Len(old) : OldRow(j)' = OldRow(j)
  BY <1>1, <1>2 DEF OldRow, Left, Unmatched
<1>4. \A k \in 1 .. Len(next) : NewRow(k)' = NewRow(k) /\ MovedRow(k)' = MovedRow(k)
  BY <1>1 DEF NewRow, MovedRow, Left
<1> QED BY <1>1, <1>3, <1>4, RowsStay

LEMMA OrderRestNext ==
  ASSUME IInv, Shape', RestNext
  PROVE  IInv'
<1>1. /\ Shape /\ pc = "rest" /\ todo = <<>> /\ at < Len(old) /\ at' = at + 1
      /\ todo' = Rest(at + 1) /\ cur = 0
      /\ UNCHANGED <<kids, ok, failed, old, next, children, from, pc, cur, block>>
  BY DEF IInv, Shape, Loops, RestNext, dom
<1>2. used' = used /\ \A j : PlaceOf(j)' = PlaceOf(j)
  BY <1>1, SameLists DEF PlaceOf
<1>3. at \in Nat
  BY <1>1, ListTypes DEF Shape, TypeOK
<1>4. ASSUME NEW j \in 1 .. Len(old) PROVE OldRow(j)' = OldRow(j)
  <2>1. CASE j \in used
    BY <1>1, <1>2, <2>1 DEF OldRow, Left
  <2>2. CASE j \notin used
    <3>1. OldRow(j) = Unmatched(j) /\ OldRow(j)' = Unmatched(j)'
      BY <1>1, <1>2, <2>2 DEF OldRow
    <3>2. j < at \/ j = at \/ j = at + 1 \/ (j > at + 1 /\ ~(j < at + 1) /\ j # at + 1 /\ ~(j < at) /\ j # at)
      BY <1>3
    <3>3. at + 1 # at /\ ~(at + 1 < at) /\ ~(at + 1 < at + 1) /\ at < at + 1 /\ (j < at => j < at + 1)
      BY <1>3
    <3>4. Unmatched(j)' = Unmatched(j)
      BY <1>1, <1>2, <2>2, <3>2, <3>3 DEF Unmatched, Rest
    <3> QED BY <3>1, <3>4
  <2> QED BY <2>1, <2>2
<1>5. \A k \in 1 .. Len(next) : NewRow(k)' = NewRow(k) /\ MovedRow(k)' = MovedRow(k)
  BY <1>1 DEF NewRow, MovedRow, Left
<1> QED BY <1>1, <1>4, <1>5, RowsStay

LEMMA OrderReorder ==
  ASSUME IInv, Shape', Reorder
  PROVE  IInv'
<1>1. /\ Shape /\ pc = "rest" /\ pc' = "order" /\ todo = <<>> /\ at = Len(old) /\ cur = 0
      /\ at' = Len(children) /\ block' = <<>>
      /\ todo' = IF Len(children) = 0 THEN <<>> ELSE children[Len(children)].nodes
      /\ UNCHANGED <<kids, ok, failed, old, next, children, from, cur>>
      /\ Len(children) = Len(next)
  BY DEF IInv, Shape, Loops, Reorder, MoveTo, dom
<1>2. used' = used /\ \A j : PlaceOf(j)' = PlaceOf(j)
  BY <1>1, SameLists DEF PlaceOf
<1>3. DOMAIN from = 1 .. Len(children) /\ Len(children) \in Nat /\ Len(old) \in Nat
  BY <1>1, ListTypes DEF Shape
<1>4. ASSUME NEW k \in 1 .. Len(children) PROVE Left(k)' = Left(k)
  <2>1. k < Len(children) \/ (k = Len(children) /\ ~(k < Len(children)))
    BY <1>3
  <2> QED BY <1>1, <1>3, <2>1 DEF Left
<1>5. ASSUME NEW j \in 1 .. Len(old) PROVE OldRow(j)' = OldRow(j)
  <2>1. CASE j \in used
    <3>1. PlaceOf(j) \in 1 .. Len(children)
      BY <1>1, <1>3, <2>1, PlaceFacts DEF Shape
    <3> QED BY <1>2, <1>4, <2>1, <3>1 DEF OldRow
  <2>2. CASE j \notin used
    <3>1. j < at \/ j = at
      BY <1>1, <1>3
    <3> QED BY <1>1, <1>2, <2>2, <3>1 DEF OldRow, Unmatched
  <2> QED BY <2>1, <2>2
<1>6. ASSUME NEW k \in 1 .. Len(next)
      PROVE  NewRow(k)' = NewRow(k) /\ MovedRow(k)' = MovedRow(k)
  <2>1. k < Len(children) \/ k = Len(children)
    BY <1>1, <1>3
  <2> QED BY <1>1, <1>3, <1>4, <2>1 DEF NewRow, MovedRow
<1> QED BY <1>1, <1>5, <1>6, RowsStay

LEMMA OrderMoveNext ==
  ASSUME IInv, Shape', MoveNext
  PROVE  IInv'
<1>1. /\ Shape /\ pc = "order" /\ pc' = "order" /\ todo = <<>> /\ at > 1 /\ cur = 0
      /\ at' = at - 1 /\ block' = <<>> /\ MoveTo(at - 1) /\ at <= Len(children)
      /\ UNCHANGED <<kids, ok, failed, old, next, children, from, cur>>
      /\ Len(children) = Len(next) /\ (at # 0 => block \o todo = children[at].nodes)
  BY DEF IInv, Shape, Loops, MoveNext, MoveTo, dom
<1>2. used' = used /\ \A j : PlaceOf(j)' = PlaceOf(j)
  BY <1>1, SameLists DEF PlaceOf
<1>3. DOMAIN from = 1 .. Len(children) /\ Len(children) \in Nat /\ Len(old) \in Nat /\ at \in Nat
  BY <1>1, ListTypes DEF Shape, TypeOK
<1>4. todo' = children[at - 1].nodes /\ block = children[at].nodes
  <2>1. at - 1 # 0 /\ at # 0
    BY <1>1, <1>3
  <2>2. block \o <<>> = block
    BY <1>1, ConcatEmptySeq DEF Shape, TypeOK
  <2> QED BY <1>1, <2>1, <2>2 DEF MoveTo
<1>5. ASSUME NEW k \in 1 .. Len(children)
      PROVE  Left(k)' = Left(k) /\ MovedRow(k)' = MovedRow(k)
  <2>1. CASE k < at - 1
    <3>1. k < at
      BY <1>3, <2>1
    <3> QED BY <1>1, <2>1, <3>1 DEF Left, MovedRow
  <2>2. CASE k = at - 1
    <3>1. k < at /\ ~(k < at - 1)
      BY <1>3, <2>2
    <3> QED BY <1>1, <1>4, <2>2, <3>1 DEF Left, MovedRow
  <2>3. CASE k = at
    <3>1. ~(k < at) /\ ~(k < at - 1) /\ k # at - 1
      BY <1>3, <2>3
    <3> QED BY <1>1, <1>4, <2>3, <3>1 DEF Left, MovedRow
  <2>4. CASE k > at
    <3>1. ~(k < at) /\ ~(k < at - 1) /\ k # at - 1 /\ k # at
      BY <1>3, <2>4
    <3> QED BY <1>1, <3>1 DEF Left, MovedRow
  <2> QED BY <1>3, <2>1, <2>2, <2>3, <2>4
<1>6. ASSUME NEW j \in 1 .. Len(old) PROVE OldRow(j)' = OldRow(j)
  <2>1. CASE j \in used
    <3>1. PlaceOf(j) \in 1 .. Len(children)
      BY <1>1, <1>3, <2>1, PlaceFacts DEF Shape
    <3> QED BY <1>2, <1>5, <2>1, <3>1 DEF OldRow
  <2>2. CASE j \notin used
    BY <1>1, <1>2, <2>2 DEF OldRow, Unmatched
  <2> QED BY <2>1, <2>2
<1>7. \A k \in 1 .. Len(next) : NewRow(k)' = NewRow(k) /\ MovedRow(k)' = MovedRow(k)
  BY <1>1, <1>3, <1>5 DEF NewRow
<1> QED BY <1>1, <1>6, <1>7, RowsStay

-----------------------------------------------------------------------------
(* The order of the nodes: the list changes *)

IdleRows == [r \in 0 .. Len(old) + 1 |-> IF r = 0 THEN Lead
                                         ELSE IF r = Len(old) + 1 THEN Trail ELSE old[r].nodes]

\* the rows in between two patches, those of ChildrenInOrder
IdleFacts == pc = "idle" => Behind = Len(old) + 1 /\ Rows = IdleRows

LEMMA RowsIdle ==
  Shape => IdleFacts
<1> SUFFICES ASSUME Shape, pc = "idle" PROVE Behind = Len(old) + 1 /\ Rows = IdleRows
  BY DEF IdleFacts
<1>1. next = <<>> /\ cur = 0
  BY DEF Shape, Loops
<1>2. Len(next) = 0 /\ Len(old) \in Nat /\ Len(children) = 0 /\ DOMAIN from = 1 .. Len(children)
  BY <1>1, ListTypes DEF Shape, TypeOK
<1>3. used = {}
  BY <1>2 DEF used
<1>4. Behind = Len(old) + 1
  BY <1>2 DEF Behind
<1>5. \A j \in 1 .. Len(old) : Rows[j] = old[j].nodes
  BY <1>1, <1>3, RowsOfState, SimpleRows DEF RowFacts, SimpleOldRow
<1>6. /\ Rows[0] = Lead /\ Rows[Len(old) + 1] = Trail
      /\ Rows = [r \in 0 .. Len(old) + 1 |-> Rows[r]]
  BY <1>4, RowsOfState DEF RowFacts, Rows
<1>7. \A r \in 0 .. Len(old) + 1 : Rows[r] = IdleRows[r]
  BY <1>2, <1>5, <1>6, SMTT(30) DEF IdleRows
<1> QED BY <1>4, <1>6, <1>7 DEF IdleRows

LEMMA RowsIdleNext ==
  Shape' => IdleFacts'
BY RowsIdle, PTL

LEMMA RowsInOtherPlaces ==
  ASSUME IInv, Shape', UNCHANGED <<kids, ok>>, NEW g,
         Renumbered(Rows, Behind, Rows', Behind', g)
  PROVE  IInv'
<1> DEFINE B == Rows
           T == Behind
           C == Rows'
           V == Behind'
<1>1. kids \in Seq(Nodes) /\ InDocumentOrder(kids, B) /\ ok'
  BY DEF IInv, Shape, TypeOK
<1>2. RowFacts /\ RowFacts'
  BY RowsOfState, NextRows DEF IInv
<1>3. T \in Nat /\ V \in Nat /\ IsRows(B, T) /\ IsRows(C, V)
  BY <1>2 DEF RowFacts
<1>4. Renumbered(B, T, C, V, g)
  OBVIOUS
<1> HIDE DEF B, T, C, V
<1>5. InDocumentOrder(kids, C)
  BY ONLY <1>1, <1>3, <1>4, RowsRenumbered
<1> QED BY <1>1, <1>5 DEF IInv, C, InDocumentOrder

LEMMA OrderPatchChildren ==
  ASSUME IInv, Shape', NEW list \in Lists, PatchChildren(list)
  PROVE  IInv'
<1>1. /\ Shape /\ pc = "idle" /\ pc' = "next" /\ next' = list
      /\ UNCHANGED <<kids, ok, failed, old, children, from, cur, block, todo, at>>
      /\ next = <<>> /\ cur = 0
  BY DEF IInv, Shape, Loops, PatchChildren, dom
<1>2. Len(next) = 0 /\ Len(old) \in Nat /\ Len(children) = 0 /\ DOMAIN from = 1 .. Len(children)
      /\ UNCHANGED Len(old)
  BY <1>1, ListTypes DEF Shape, TypeOK
<1>3. used = {} /\ used' = {} /\ DOMAIN from = {}
  BY <1>1, <1>2 DEF used
<1> DEFINE o == Len(old)
           V == o + 2 * Len(list) + 1
<1>4. RowFacts' /\ Behind' = V /\ Len(list) \in Nat
  <2>1. Len(list) \in Nat
    BY ListsAssumption, LenProperties
  <2> QED BY <1>1, <1>2, <2>1, NextRows DEF RowFacts
<1>5. /\ Behind = o + 1 /\ Rows[0] = Lead /\ Rows[o + 1] = Trail
      /\ \A j \in 1 .. o : Rows[j] = old[j].nodes
  BY <1>1, <1>2, RowsIdle DEF IdleFacts, IdleRows
<1>6. /\ Rows'[0] = Lead /\ Rows'[V] = Trail
      /\ \A j \in 1 .. o : Rows'[j] = old[j].nodes
      /\ \A k \in 1 .. Len(list) : Rows'[o + k] = <<>> /\ Rows'[o + Len(list) + k] = <<>>
  <2>1. /\ \A j \in 1 .. o : OldRow(j)' = old[j].nodes
        /\ \A k : NewRow(k)' = <<>> /\ MovedRow(k)' = <<>>
    BY <1>1, <1>2, <1>3, SimpleRowsNext DEF SimpleOldRow
  <2>2. /\ Rows'[0] = Lead /\ Rows'[Behind'] = Trail
        /\ \A j \in 1 .. Len(old') : Rows'[j] = OldRow(j)'
        /\ \A k \in 1 .. Len(next') : /\ Rows'[Len(old') + k] = NewRow(k)'
                                      /\ Rows'[Len(old') + Len(next') + k] = MovedRow(k)'
    BY <1>4 DEF RowFacts
  <2> QED BY <1>1, <1>2, <1>4, <2>1, <2>2
<1> DEFINE g == [q \in 0 .. V |-> IF q <= o THEN q ELSE o + 1]
<1>7. \A q \in 0 .. V : q <= o \/ q = V \/ Rows'[q] = <<>>
  <2> SUFFICES ASSUME NEW q \in 0 .. V, q > o, q < V PROVE Rows'[q] = <<>>
    BY <1>2, <1>4
  <2>1. \/ q - o \in 1 .. Len(list) /\ q = o + (q - o)
        \/ q - o - Len(list) \in 1 .. Len(list) /\ q = o + Len(list) + (q - o - Len(list))
    BY <1>2, <1>4
  <2> QED BY <1>6, <2>1
<1>8. g \in [0 .. Behind' -> 0 .. Behind]
  BY <1>2, <1>4, <1>5
<1>9. \A q, m \in 0 .. V : q < m /\ Rows'[q] # <<>> /\ Rows'[m] # <<>> => g[q] < g[m]
  BY <1>2, <1>4, <1>7
<1>10. \A q \in 0 .. V : Rows'[q] # <<>> => Rows'[q] = Rows[g[q]]
  <2> SUFFICES ASSUME NEW q \in 0 .. V, q <= o \/ q = V PROVE Rows'[q] = Rows[g[q]]
    BY <1>7
  <2>1. q = 0 \/ q \in 1 .. o \/ (q = V /\ ~(q <= o))
    BY <1>2, <1>4
  <2> QED BY <1>2, <1>5, <1>6, <2>1
<1>11. \A r \in 0 .. Behind : \E q \in 0 .. V : g[q] = r /\ Rows'[q] = Rows[r]
  <2> TAKE r \in 0 .. Behind
  <2>1. r = 0 \/ r \in 1 .. o \/ r = o + 1
    BY <1>2, <1>5
  <2>2. r <= o => g[r] = r /\ r \in 0 .. V /\ Rows'[r] = Rows[r]
    BY <1>2, <1>4, <1>5, <1>6, <2>1
  <2>3. g[V] = o + 1 /\ V \in 0 .. V /\ Rows'[V] = Rows[o + 1]
    BY <1>2, <1>4, <1>5, <1>6
  <2> HIDE DEF g
  <2> QED BY <1>2, <2>1, <2>2, <2>3
<1> HIDE DEF g
<1>12. Renumbered(Rows, Behind, Rows', Behind', g)
  BY <1>4, <1>8, <1>9, <1>10, <1>11 DEF Renumbered
<1> QED BY <1>1, <1>12, RowsInOtherPlaces

(***************************************************************************)
(* patchChildren returns: place(k) is the row in which child k has been    *)
(* patched, mounted or moved, and only these are not empty.                *)
(***************************************************************************)
LEMMA OrderReturns ==
  ASSUME IInv, Shape', PatchReturns, Len(children) = Len(next), NEW place,
         place \in [1 .. Len(children) -> 1 .. (Behind - 1)],
         \A k, m \in 1 .. Len(children) : k < m => place[k] < place[m],
         \A k \in 1 .. Len(children) : Rows[place[k]] = children[k].nodes,
         \A r \in 1 .. (Behind - 1) :
           Rows[r] # <<>> => \E k \in 1 .. Len(children) : place[k] = r
  PROVE  IInv'
<1> DEFINE N == Len(children)
           V == N + 1
           g == [q \in 0 .. V |-> IF q = 0 THEN 0 ELSE IF q = V THEN Behind ELSE place[q]]
<1>1. Shape /\ UNCHANGED <<kids, ok>> /\ old' = children /\ pc' = "idle"
  BY DEF IInv, PatchReturns, dom
<1>2. N \in Nat /\ Behind \in Nat /\ Behind >= 1 /\ Rows[0] = Lead /\ Rows[Behind] = Trail
  BY <1>1, ListTypes, RowsOfState DEF RowFacts, Shape
<1>3. /\ Behind' = V /\ Rows'[0] = Lead /\ Rows'[V] = Trail
      /\ \A k \in 1 .. N : Rows'[k] = children[k].nodes
  <2>1. Len(old') = N /\ Behind' = Len(old') + 1 /\ Rows' = IdleRows'
    BY <1>1, RowsIdleNext DEF IdleFacts
  <2> QED BY <1>1, <1>2, <2>1 DEF IdleRows
<1>4. \A q \in 0 .. V : q = 0 \/ q \in 1 .. N \/ q = V
  BY <1>2
<1>5. \A k \in 1 .. N : g[k] = place[k] /\ place[k] \in 1 .. (Behind - 1)
  BY <1>2
<1>6. g[0] = 0 /\ g[V] = Behind /\ V # 0
  BY <1>2
<1>7. g \in [0 .. V -> 0 .. Behind]
  BY <1>2
<1> HIDE DEF g
<1>8. \A q, m \in 0 .. V : q < m => g[q] < g[m]
  <2> SUFFICES ASSUME NEW q \in 0 .. V, NEW m \in 0 .. V, q < m PROVE g[q] < g[m]
    OBVIOUS
  <2>1. CASE q = 0
    <3>1. m \in 1 .. N \/ m = V
      BY <1>4, <2>1
    <3> QED BY <1>2, <1>5, <1>6, <2>1, <3>1
  <2>2. CASE q \in 1 .. N
    <3>1. m \in 1 .. N \/ m = V
      BY <1>4, <2>2
    <3>2. m \in 1 .. N => place[q] < place[m]
      BY <2>2
    <3> QED BY <1>2, <1>5, <1>6, <2>2, <3>1, <3>2
  <2>3. q # V
    BY <1>2
  <2> QED BY <1>4, <2>1, <2>2, <2>3
<1>9. \A q \in 0 .. V : Rows'[q] = Rows[g[q]]
  BY <1>2, <1>3, <1>4, <1>5, <1>6
<1>10. ASSUME NEW r \in 0 .. Behind, Rows[r] # <<>>
       PROVE  \E q \in 0 .. V : g[q] = r
  <2>1. r = 0 \/ r = Behind \/ r \in 1 .. (Behind - 1)
    BY <1>2
  <2>2. CASE r \in 1 .. (Behind - 1)
    <3>1. PICK k \in 1 .. N : place[k] = r
      BY <1>10, <2>2
    <3>2. k \in 0 .. V
      BY <1>2
    <3> QED BY <1>5, <3>1, <3>2
  <2>3. 0 \in 0 .. V /\ V \in 0 .. V
    BY <1>2
  <2> QED BY <1>6, <2>1, <2>2, <2>3
<1>11. Renumbered(Rows, Behind, Rows', Behind', g)
  BY <1>3, <1>7, <1>8, <1>9, <1>10 DEF Renumbered
<1> QED BY <1>1, <1>11, RowsInOtherPlaces

LEMMA OrderInPlace ==
  ASSUME IInv, Shape', InPlace
  PROVE  IInv'
<1> DEFINE o == Len(old)
           N == Len(children)
           place == [k \in 1 .. N |-> IF k <= o THEN k ELSE o + k]
<1>1. /\ Shape /\ pc = "rest" /\ todo = <<>> /\ at = o /\ cur = 0 /\ N = Len(next)
      /\ PatchReturns /\ (~hasKeyedChildren \/ sameMountedChildren)
  BY DEF IInv, Shape, Loops, InPlace
<1>2. o \in Nat /\ N \in Nat /\ DOMAIN from = 1 .. N /\ DOMAIN old = 1 .. o
  BY <1>1, ListTypes DEF Shape
<1>3. \A k \in 1 .. N : from[k] = IF k <= o THEN k ELSE 0
  <2>1. CASE ~hasKeyedChildren
    BY <1>1, <1>2, <2>1 DEF Shape, Matches
  <2>2. CASE sameMountedChildren
    BY <1>1, <1>2, <2>2 DEF sameMountedChildren
  <2> QED BY <1>1, <2>1, <2>2
<1>4. /\ Behind = o + 2 * N + 1 /\ Behind \in Nat
      /\ \A j \in 1 .. o : Rows[j] = OldRow(j)
      /\ \A k \in 1 .. N : Rows[o + k] = NewRow(k) /\ Rows[o + N + k] = MovedRow(k)
  BY <1>1, RowsOfState DEF RowFacts
<1>5. ASSUME NEW j \in 1 .. o
      PROVE  OldRow(j) = IF j <= N THEN children[j].nodes ELSE <<>>
  <2>1. CASE j <= N
    <3>1. j \in DOMAIN from /\ from[j] = j /\ j # 0
      BY <1>2, <1>3, <2>1
    <3>2. j \in used
      BY <3>1 DEF used
    <3>3. PlaceOf(j) = j
      BY <1>1, <3>1, <3>2, PlaceFacts DEF Shape
    <3> QED BY <1>1, <2>1, <3>2, <3>3 DEF OldRow, Left
  <2>2. CASE ~(j <= N)
    <3>1. j \notin used
      BY <1>2, <1>3, <2>2 DEF used
    <3>2. j < at \/ j = at
      BY <1>1, <1>2
    <3> QED BY <1>1, <2>2, <3>1, <3>2 DEF OldRow, Unmatched
  <2> QED BY <2>1, <2>2
<1>6. \A k \in 1 .. N : /\ NewRow(k) = IF k <= o THEN <<>> ELSE children[k].nodes
                        /\ MovedRow(k) = <<>>
  BY <1>1, <1>2, <1>3 DEF NewRow, MovedRow, Left
<1>7. place \in [1 .. N -> 1 .. (Behind - 1)]
  BY <1>2, <1>4
<1>8. \A k, m \in 1 .. N : k < m => place[k] < place[m]
  BY <1>2
<1>9. \A k \in 1 .. N : Rows[place[k]] = children[k].nodes
  BY <1>2, <1>4, <1>5, <1>6
<1>10. ASSUME NEW r \in 1 .. (Behind - 1), Rows[r] # <<>>
       PROVE  \E k \in 1 .. N : place[k] = r
  <2>1. CASE r \in 1 .. o
    <3>1. r \in 1 .. N /\ place[r] = r
      BY <1>2, <1>4, <1>5, <1>10, <2>1
    <3> HIDE DEF place
    <3> QED BY <3>1
  <2>2. ASSUME NEW k \in 1 .. N, r = o + k PROVE place[k] = r
    BY <1>2, <1>4, <1>6, <1>10, <2>2
  <2>3. ASSUME NEW k \in 1 .. N, r = o + N + k PROVE FALSE
    BY <1>2, <1>4, <1>6, <1>10, <2>3
  <2>4. r \in 0 .. Behind /\ r # 0 /\ r # Behind
    BY <1>4
  <2> HIDE DEF place
  <2> QED BY <1>1, <2>1, <2>2, <2>3, <2>4, RowKinds
<1> HIDE DEF place
<1> QED BY <1>1, <1>7, <1>8, <1>9, <1>10, OrderReturns

LEMMA OrderReordered ==
  ASSUME IInv, Shape', Reordered
  PROVE  IInv'
<1> DEFINE o == Len(old)
           N == Len(children)
           place == [k \in 1 .. N |-> o + N + k]
<1>1. /\ Shape /\ pc = "order" /\ todo = <<>> /\ at <= 1 /\ cur = 0 /\ N = Len(next)
      /\ PatchReturns /\ (at = 0 => children = <<>>)
      /\ (at # 0 => block \o todo = children[at].nodes)
  BY DEF IInv, Shape, Loops, Reordered
<1>2. o \in Nat /\ N \in Nat /\ DOMAIN from = 1 .. N /\ at \in Nat /\ (at = 0 => N = 0)
  BY <1>1, ListTypes DEF Shape, TypeOK
<1>3. at = 1 => block = children[1].nodes
  <2>1. block \o <<>> = block
    BY <1>1, ConcatEmptySeq DEF Shape, TypeOK
  <2> QED BY <1>1, <2>1
<1>4. /\ Behind = o + 2 * N + 1 /\ Behind \in Nat
      /\ \A j \in 1 .. o : Rows[j] = OldRow(j)
      /\ \A k \in 1 .. N : Rows[o + k] = NewRow(k) /\ Rows[o + N + k] = MovedRow(k)
  BY <1>1, RowsOfState DEF RowFacts
<1>5. ASSUME NEW k \in 1 .. N PROVE Left(k) = <<>> /\ MovedRow(k) = children[k].nodes
  <2>1. at = 1 /\ ~(k < at)
    BY <1>1, <1>2
  <2> QED BY <1>1, <1>3, <2>1 DEF Left, MovedRow
<1>6. ASSUME NEW j \in 1 .. o PROVE OldRow(j) = <<>>
  <2>1. j \in used => PlaceOf(j) \in 1 .. N
    BY <1>1, <1>2, PlaceFacts DEF Shape
  <2> QED BY <1>1, <1>5, <2>1 DEF OldRow, Unmatched
<1>7. \A k \in 1 .. N : NewRow(k) = <<>>
  BY <1>1, <1>2, <1>5 DEF NewRow
<1>8. place \in [1 .. N -> 1 .. (Behind - 1)]
  BY <1>2, <1>4
<1>9. \A k, m \in 1 .. N : k < m => place[k] < place[m]
  BY <1>2
<1>10. \A k \in 1 .. N : Rows[place[k]] = children[k].nodes
  BY <1>2, <1>4, <1>5
<1>11. ASSUME NEW r \in 1 .. (Behind - 1), Rows[r] # <<>>
       PROVE  \E k \in 1 .. N : place[k] = r
  <2>1. r \in 0 .. Behind /\ r # 0 /\ r # Behind
    BY <1>4
  <2>2. \E k \in 1 .. N : r = o + N + k
    BY <1>1, <1>4, <1>6, <1>7, <1>11, <2>1, RowKinds
  <2> QED BY <2>2
<1> HIDE DEF place
<1> QED BY <1>1, <1>8, <1>9, <1>10, <1>11, OrderReturns

-----------------------------------------------------------------------------
(* The order of the nodes: operations of the DOM *)

LEMMA ConcatFacts ==
  ASSUME NEW S, NEW a \in Seq(S), NEW b \in Seq(S)
  PROVE  /\ a \o b \in Seq(S) /\ Len(a \o b) = Len(a) + Len(b)
         /\ DOMAIN (a \o b) = 1 .. (Len(a) + Len(b))
         /\ \A i \in 1 .. Len(a) : (a \o b)[i] = a[i]
         /\ \A i \in 1 .. Len(b) : (a \o b)[Len(a) + i] = b[i]
<1> DEFINE c == a \o b
<1>1. Len(a) \in Nat /\ Len(b) \in Nat
  BY LenProperties
<1>2. /\ c \in Seq(S) /\ Len(c) = Len(a) + Len(b)
      /\ \A i \in 1 .. Len(a) + Len(b) : c[i] = IF i <= Len(a) THEN a[i] ELSE b[i - Len(a)]
  BY ConcatProperties
<1> HIDE DEF c
<1>3. DOMAIN c = 1 .. (Len(a) + Len(b))
  BY <1>2, LenProperties
<1>4. ASSUME NEW i \in 1 .. Len(b) PROVE c[Len(a) + i] = b[i]
  <2>1. /\ Len(a) + i \in 1 .. Len(a) + Len(b) /\ ~(Len(a) + i <= Len(a))
        /\ Len(a) + i - Len(a) = i
    BY <1>1
  <2> QED BY <1>2, <2>1
<1>5. \A i \in 1 .. Len(a) : c[i] = a[i]
  BY <1>1, <1>2
<1> QED BY <1>2, <1>3, <1>4, <1>5 DEF c

LEMMA InsertInFirst ==
  ASSUME NEW S, NEW a \in Seq(S), NEW b \in Seq(S), NEW e \in S, NEW p \in 1 .. (Len(a) + 1)
  PROVE  InsertAt(a, p, e) \o b = InsertAt(a \o b, p, e)
<1> DEFINE c == a \o b
           d == InsertAt(a, p, e)
           f == d \o b
           h == InsertAt(c, p, e)
<1>1. Len(a) \in Nat /\ Len(b) \in Nat
  BY LenProperties
<1>2. /\ c \in Seq(S) /\ Len(c) = Len(a) + Len(b)
      /\ \A i \in 1 .. Len(a) : c[i] = a[i]
      /\ \A i \in 1 .. Len(b) : c[Len(a) + i] = b[i]
  BY ConcatFacts
<1>3. /\ d \in Seq(S) /\ Len(d) = Len(a) + 1
      /\ \A i \in 1 .. (Len(a) + 1) :
           d[i] = IF i < p THEN a[i] ELSE IF i = p THEN e ELSE a[i - 1]
  <2>1. a \in Seq(S) /\ p \in 1 .. (Len(a) + 1) /\ e \in S
    OBVIOUS
  <2>2. d \in Seq(S) /\ Len(d) = Len(a) + 1
    BY ONLY <2>1, InsertAtSeq
  <2>3. ASSUME NEW i \in 1 .. (Len(a) + 1)
        PROVE  d[i] = IF i < p THEN a[i] ELSE IF i = p THEN e ELSE a[i - 1]
    BY ONLY <2>1, InsertAtElement
  <2> QED BY <2>2, <2>3
<1> HIDE DEF c, d
<1>4. /\ f \in Seq(S) /\ Len(f) = Len(d) + Len(b)
      /\ \A i \in 1 .. Len(d) : f[i] = d[i]
      /\ \A i \in 1 .. Len(b) : f[Len(d) + i] = b[i]
  <2>1. d \in Seq(S)
    BY <1>3
  <2> QED BY <2>1, ConcatFacts
<1>5. /\ h \in Seq(S) /\ Len(h) = Len(c) + 1
      /\ \A i \in 1 .. (Len(c) + 1) :
           h[i] = IF i < p THEN c[i] ELSE IF i = p THEN e ELSE c[i - 1]
  <2>1. p \in 1 .. (Len(c) + 1) /\ c \in Seq(S) /\ e \in S
    BY <1>1, <1>2
  <2>2. h \in Seq(S) /\ Len(h) = Len(c) + 1
    BY ONLY <2>1, InsertAtSeq
  <2>3. ASSUME NEW i \in 1 .. (Len(c) + 1)
        PROVE  h[i] = IF i < p THEN c[i] ELSE IF i = p THEN e ELSE c[i - 1]
    BY ONLY <2>1, InsertAtElement
  <2> QED BY <2>2, <2>3
<1> HIDE DEF f, h
<1>6. Len(f) = Len(h) /\ Len(f) = Len(a) + Len(b) + 1
  BY <1>1, <1>2, <1>3, <1>4, <1>5
<1>7. ASSUME NEW i \in 1 .. Len(f) PROVE f[i] = h[i]
  <2>1. CASE i < p
    <3>1. i \in 1 .. Len(a) /\ i \in 1 .. (Len(a) + 1) /\ i \in 1 .. (Len(c) + 1)
      BY <1>1, <1>2, <1>6, <2>1
    <3> QED BY <1>2, <1>3, <1>4, <1>5, <2>1, <3>1
  <2>2. CASE i = p
    <3>1. i \in 1 .. (Len(a) + 1) /\ i \in 1 .. (Len(c) + 1) /\ ~(i < p)
      BY <1>1, <1>2, <1>6, <2>2
    <3> QED BY <1>3, <1>4, <1>5, <2>2, <3>1
  <2>3. CASE i > p /\ i <= Len(a) + 1
    <3>1. /\ i \in 1 .. (Len(a) + 1) /\ i \in 1 .. (Len(c) + 1) /\ ~(i < p) /\ i # p
          /\ i - 1 \in 1 .. Len(a)
      BY <1>1, <1>2, <1>6, <2>3
    <3> QED BY <1>2, <1>3, <1>4, <1>5, <3>1
  <2>4. CASE i > Len(a) + 1
    <3> DEFINE j == i - (Len(a) + 1)
    <3>1. /\ j \in 1 .. Len(b) /\ i = Len(d) + j /\ i - 1 = Len(a) + j
          /\ i \in 1 .. (Len(c) + 1) /\ ~(i < p) /\ i # p
      BY <1>1, <1>2, <1>3, <1>6, <2>4
    <3> HIDE DEF j
    <3>2. f[i] = b[j]
      BY <1>4, <3>1
    <3>3. h[i] = c[i - 1] /\ c[i - 1] = b[j]
      BY <1>2, <1>5, <3>1
    <3> QED BY <3>2, <3>3
  <2> QED BY <1>1, <1>6, <2>1, <2>2, <2>3, <2>4
<1>8. f = h
  BY <1>4, <1>5, <1>6, <1>7, SeqEqual
<1> QED BY <1>8 DEF f, h, c, d

LEMMA RemoveBehind ==
  ASSUME NEW S, NEW a \in Seq(S), NEW b \in Seq(S), b # <<>>
  PROVE  /\ Len(a) + 1 \in DOMAIN (a \o b) /\ (a \o b)[Len(a) + 1] = Head(b)
         /\ RemoveAt(a \o b, Len(a) + 1) = a \o Tail(b)
<1> DEFINE c == a \o b
           t == Tail(b)
           f == a \o t
           h == RemoveAt(c, Len(a) + 1)
<1>1. Len(a) \in Nat /\ Len(b) \in Nat /\ Len(b) > 0 /\ Head(b) = b[1]
      /\ t \in Seq(S) /\ Len(t) = Len(b) - 1
      /\ \A i \in 1 .. (Len(b) - 1) : t[i] = b[i + 1]
  BY EmptySeq, LenProperties, HeadTailProperties
<1>2. /\ c \in Seq(S) /\ Len(c) = Len(a) + Len(b) /\ DOMAIN c = 1 .. (Len(a) + Len(b))
      /\ \A i \in 1 .. Len(a) : c[i] = a[i]
      /\ \A i \in 1 .. Len(b) : c[Len(a) + i] = b[i]
  BY ConcatFacts
<1> HIDE DEF c, t
<1>3. Len(a) + 1 \in DOMAIN c /\ c[Len(a) + 1] = Head(b)
  BY <1>1, <1>2
<1>4. /\ f \in Seq(S) /\ Len(f) = Len(a) + Len(t)
      /\ \A i \in 1 .. Len(a) : f[i] = a[i]
      /\ \A i \in 1 .. Len(t) : f[Len(a) + i] = t[i]
  BY <1>1, ConcatFacts
<1>5. /\ h \in Seq(S) /\ Len(h) = Len(c) - 1
      /\ \A j \in 1 .. (Len(c) - 1) : h[j] = IF j < Len(a) + 1 THEN c[j] ELSE c[j + 1]
  BY <1>2, <1>3, RemoveAtFacts
<1> HIDE DEF f, h
<1>6. Len(f) = Len(h) /\ Len(f) = Len(a) + Len(b) - 1
  BY <1>1, <1>2, <1>4, <1>5
<1>7. ASSUME NEW i \in 1 .. Len(f) PROVE f[i] = h[i]
  <2>1. CASE i <= Len(a)
    <3>1. i \in 1 .. Len(a) /\ i \in 1 .. (Len(c) - 1) /\ i < Len(a) + 1
      BY <1>1, <1>5, <1>6, <2>1
    <3> QED BY <1>2, <1>4, <1>5, <3>1
  <2>2. CASE i > Len(a)
    <3> DEFINE j == i - Len(a)
    <3>1. /\ j \in 1 .. Len(t) /\ j \in 1 .. (Len(b) - 1) /\ i = Len(a) + j
          /\ i \in 1 .. (Len(c) - 1) /\ ~(i < Len(a) + 1)
          /\ j + 1 \in 1 .. Len(b) /\ i + 1 = Len(a) + (j + 1)
      BY <1>1, <1>5, <1>6, <2>2
    <3> HIDE DEF j
    <3>2. f[i] = b[j + 1]
      BY <1>1, <1>4, <3>1
    <3>3. h[i] = c[i + 1] /\ c[i + 1] = b[j + 1]
      BY <1>2, <1>5, <3>1
    <3> QED BY <3>2, <3>3
  <2> QED BY <1>1, <1>6, <2>1, <2>2
<1>8. f = h
  BY <1>4, <1>5, <1>6, <1>7, SeqEqual
<1> QED BY <1>3, <1>8 DEF f, h, c, t

LEMMA RemoveHead ==
  ASSUME NEW S, NEW b \in Seq(S), b # <<>>
  PROVE  1 \in DOMAIN b /\ b[1] = Head(b) /\ RemoveAt(b, 1) = Tail(b)
<1> DEFINE a == <<>>
<1>1. a \in Seq(S) /\ Len(a) = 0
  OBVIOUS
<1>2. a \o b = b /\ a \o Tail(b) = Tail(b)
  BY ConcatEmptySeq, HeadTailProperties
<1> HIDE DEF a
<1>3. /\ Len(a) + 1 \in DOMAIN (a \o b) /\ (a \o b)[Len(a) + 1] = Head(b)
      /\ RemoveAt(a \o b, Len(a) + 1) = a \o Tail(b)
  BY <1>1, RemoveBehind
<1>4. Len(a) + 1 = 1
  BY <1>1
<1> QED BY <1>2, <1>3, <1>4

(***************************************************************************)
(* A node that is taken from its row, to be put into another place.        *)
(***************************************************************************)
Vacated(r, p) == [Rows EXCEPT ![r] = RemoveAt(Rows[r], p)]

LEMMA RowWithout ==
  ASSUME IInv, NEW r \in 0 .. Behind, NEW p \in DOMAIN Rows[r]
  PROVE  /\ IsRows(Vacated(r, p), Behind) /\ Vacated(r, p)[r] = RemoveAt(Rows[r], p)
         /\ \A q \in 0 .. Behind : q # r => Vacated(r, p)[q] = Rows[q]
         /\ InDocumentOrder(Without(kids, Rows[r][p]), Vacated(r, p))
         /\ Rows[r][p] \in Nodes /\ Rows[r][p] \notin ToSet(Without(kids, Rows[r][p]))
         /\ Without(kids, Rows[r][p]) \in Seq(Nodes)
<1> DEFINE B == Rows
           T == Behind
           C == Vacated(r, p)
           n == Rows[r][p]
<1>1. /\ T \in Nat /\ IsRows(B, T) /\ kids \in Seq(Nodes) /\ InDocumentOrder(kids, B)
  BY RowsOfState DEF RowFacts, IInv, Shape, TypeOK
<1>2. n = B[r][p] /\ p \in DOMAIN B[r] /\ C = [B EXCEPT ![r] = RemoveAt(B[r], p)] /\ r \in 0 .. T
  BY DEF Vacated
<1> HIDE DEF B, T, C, n
<1>3. B[r] \in Seq(Nodes)
  BY <1>1, <1>2 DEF IsRows
<1>4. RemoveAt(B[r], p) \in Seq(Nodes) /\ n \in Nodes
  <2>1. RemoveAt(B[r], p) \in Seq(Nodes)
    BY <1>2, <1>3, RemoveAtFacts
  <2> QED BY <1>2, <1>3, <2>1
<1>5. C[r] = RemoveAt(B[r], p) /\ \A q \in 0 .. T : q # r => C[q] = B[q]
  BY <1>1, <1>2 DEF IsRows
<1>6. IsRows(C, T)
  BY <1>1, <1>2, <1>4, <1>5 DEF IsRows
<1>7. /\ InDocumentOrder(Without(kids, n), C)
      /\ n \notin ToSet(Without(kids, n)) /\ Without(kids, n) \in Seq(Nodes)
  <2>1. r \in 0 .. T /\ p \in DOMAIN B[r]
    BY <1>2
  <2>2. /\ InDocumentOrder(Without(kids, B[r][p]), C)
        /\ ToSet(Without(kids, B[r][p])) = ToSet(kids) \ {B[r][p]}
        /\ Without(kids, B[r][p]) \in Seq(Nodes)
    BY ONLY <1>1, <1>5, <1>6, <2>1, NodeRemoved
  <2> QED BY <1>2, <2>2
<1> QED BY <1>4, <1>5, <1>6, <1>7 DEF B, T, C, n

\* the row of the child at hand
LEMMA RowAtHand ==
  ASSUME Shape, pc \in {"mount", "patch", "rerender", "remove"}, cur # 0
  PROVE  /\ cur \in 1 .. Len(old) /\ cur \in DOMAIN old /\ cur \in 0 .. Behind
         /\ cur \notin used /\ Rows[cur] = block \o todo
<1>1. cur \in 0 .. Len(old) /\ cur \notin used
  BY DEF Shape, TypeOK
<1>2. /\ RowFacts /\ Len(old) \in Nat /\ Len(next) \in Nat /\ DOMAIN old = 1 .. Len(old)
  BY RowsOfState, ListTypes DEF Shape
<1>3. cur \in 1 .. Len(old) /\ cur \in 0 .. Behind
  BY <1>1, <1>2 DEF RowFacts
<1>4. Rows[cur] = OldRow(cur)
  BY <1>2, <1>3 DEF RowFacts
<1> QED BY <1>1, <1>2, <1>3, <1>4 DEF OldRow

\* a step that changes the block of the child at hand, or what is to be removed
LEMMA OnlyRowAtHand ==
  ASSUME Shape, Shape', pc \in {"mount", "patch", "rerender", "remove"}, cur # 0,
         UNCHANGED <<old, next, children, from, pc, cur, at>>
  PROVE  /\ Behind' = Behind /\ Rows'[cur] = block' \o todo'
         /\ \A r \in 0 .. Behind : r # cur => Rows'[r] = Rows[r]
<1>1. used' = used /\ index' = index /\ \A j : PlaceOf(j)' = PlaceOf(j)
  BY SameLists DEF PlaceOf
<1>2. \A j \in 1 .. Len(old) : j \notin {cur} => OldRow(j)' = OldRow(j)
  BY <1>1, SimpleRows, SimpleRowsNext DEF SimpleOldRow
<1>3. \A k \in 1 .. Len(next) : NewRow(k)' = NewRow(k) /\ MovedRow(k)' = MovedRow(k)
  BY <1>1, SimpleRows, SimpleRowsNext
<1>4. Behind' = Behind /\ \A r \in 0 .. Behind : r \notin {cur} => Rows'[r] = Rows[r]
  <2>1. PICK D : D = {cur}
    OBVIOUS
  <2> QED BY <1>2, <1>3, <2>1, OtherRows
<1>5. cur \in 1 .. Len(old) /\ cur \notin used'
  BY <1>1, RowAtHand
<1>6. Rows'[cur] = block' \o todo'
  <2>1. \A j \in 1 .. Len(old) : Rows'[j] = OldRow(j)'
    BY NextRows DEF RowFacts
  <2>2. PICK j \in 1 .. Len(old) : j = cur
    BY <1>5
  <2>3. OldRow(j)' = block' \o todo'
    BY <1>5, <2>2, SimpleRowsNext DEF SimpleOldRow
  <2> QED BY <2>1, <2>2, <2>3
<1> QED BY <1>4, <1>6

LEMMA OrderRemoveWithin ==
  ASSUME IInv, Shape', NEW p \in 1 .. MaxBlock, RemoveNodeWithin(p)
  PROVE  IInv'
<1>1. /\ Shape /\ pc \in {"patch", "rerender"} /\ cur # 0 /\ todo = <<>>
      /\ UNCHANGED <<failed, old, next, children, from, pc, cur, todo, at>>
      /\ removeChild(block[p]) /\ p \in DOMAIN block /\ block' = RemoveAt(block, p)
  BY DEF IInv, Shape, Loops, Patching, RemoveNodeWithin
<1>2. block \o todo = block /\ block' \o todo' = block'
  BY <1>1, ConcatEmptySeq DEF Shape, TypeOK
<1>3. cur \in 0 .. Behind /\ Rows[cur] = block
  BY <1>1, <1>2, RowAtHand
<1>4. /\ Behind' = Behind /\ Rows'[cur] = RemoveAt(block, p)
      /\ \A r \in 0 .. Behind : r # cur => Rows'[r] = Rows[r]
  BY <1>1, <1>2, OnlyRowAtHand
<1> QED BY <1>1, <1>3, <1>4, RowLoses

LEMMA OrderInsertWithin ==
  ASSUME IInv, Shape', NEW n \in Nodes, NEW p \in 1 .. MaxBlock, InsertWithin(n, p),
         n \in ToSet(block) \/ n \notin ToSet(kids)
  PROVE  IInv'
<1> DEFINE others == Without(block, n)
           C == [Rows EXCEPT ![cur] = others]
<1>1. /\ Shape /\ pc \in {"patch", "rerender"} /\ cur # 0 /\ todo = <<>> /\ ok
      /\ UNCHANGED <<failed, old, next, children, from, pc, cur, todo, at>>
      /\ insertNode(n, others[p]) /\ p <= Len(others) /\ block' = InsertAt(others, p, n)
  BY DEF IInv, Shape, Loops, Patching, InsertWithin
<1>2. block \o todo = block /\ block' \o todo' = block' /\ block \in Seq(Nodes)
  BY <1>1, ConcatEmptySeq DEF Shape, TypeOK
<1>3. cur \in 0 .. Behind /\ Rows[cur] = block
  BY <1>1, <1>2, RowAtHand
<1>4. /\ Behind' = Behind /\ Rows'[cur] = InsertAt(others, p, n)
      /\ \A r \in 0 .. Behind : r # cur => Rows'[r] = Rows[r]
  BY <1>1, <1>2, OnlyRowAtHand
<1>5. /\ IsRows(C, Behind) /\ C[cur] = others
      /\ \A q \in 0 .. Behind : q # cur => C[q] = Rows[q]
      /\ InDocumentOrder(Without(kids, n), C)
      /\ n \notin ToSet(Without(kids, n)) /\ Without(kids, n) \in Seq(Nodes)
  <2>1. CASE n \in ToSet(block)
    <3>1. PICK i : i = Position(block, n)
      OBVIOUS
    <3>2. i \in DOMAIN block /\ n = block[i] /\ others = RemoveAt(block, i)
      BY <1>2, <2>1, <3>1, PositionFacts DEF Without
    <3>3. i \in DOMAIN Rows[cur] /\ n = Rows[cur][i] /\ C = Vacated(cur, i)
      BY <1>3, <3>2 DEF Vacated
    <3> HIDE DEF C
    <3> QED BY <1>3, <3>2, <3>3, RowWithout
  <2>2. CASE n \notin ToSet(block) /\ n \notin ToSet(kids)
    <3>1. others = block /\ Without(kids, n) = kids
      BY <2>2 DEF Without
    <3>2. IsRows(Rows, Behind) /\ InDocumentOrder(kids, Rows) /\ kids \in Seq(Nodes)
      BY RowsOfState DEF RowFacts, IInv, Shape, TypeOK
    <3>3. C = Rows
      BY <1>3, <3>1 DEF Rows
    <3> HIDE DEF C
    <3> QED BY <1>3, <2>2, <3>1, <3>2, <3>3
  <2> QED BY <2>1, <2>2
<1> HIDE DEF C
<1>6. others \in Seq(Nodes)
  BY <1>3, <1>5 DEF IsRows
<1> HIDE DEF others
<1>7. p \in 1 .. (Len(C[cur]) + 1) /\ p \in DOMAIN C[cur]
  <2>1. Len(others) \in Nat /\ DOMAIN others = 1 .. Len(others)
    BY <1>6, LenProperties
  <2> QED BY <1>1, <1>5, <2>1
<1>8. IsAnchor(C, cur, p, others[p])
  BY <1>5, <1>7 DEF IsAnchor
<1>9. /\ Rows'[cur] = InsertAt(C[cur], p, n)
      /\ \A q \in 0 .. Behind : q # cur => Rows'[q] = C[q]
  BY <1>4, <1>5
<1> QED BY <1>1, <1>3, <1>4, <1>5, <1>7, <1>8, <1>9, RowGains

LEMMA OrderRemoveNode ==
  ASSUME IInv, Shape', RemoveNode
  PROVE  IInv'
<1>1. /\ Shape /\ pc \in {"remove", "rest"} /\ todo # <<>>
      /\ removeChild(Head(todo)) /\ todo' = Tail(todo)
      /\ UNCHANGED <<failed, old, next, children, from, pc, cur, block, at>>
      /\ todo \in Seq(Nodes) /\ block \in Seq(Nodes)
  BY DEF RemoveNode, IInv, Shape, TypeOK
<1>2. CASE pc = "remove"
  <2>1. cur # 0
    BY <1>1, <1>2 DEF Shape, Loops
  <2>2. cur \in 0 .. Behind /\ Rows[cur] = block \o todo
    BY <1>1, <1>2, <2>1, RowAtHand
  <2>3. /\ Behind' = Behind /\ Rows'[cur] = block \o Tail(todo)
        /\ \A r \in 0 .. Behind : r # cur => Rows'[r] = Rows[r]
    BY <1>1, <1>2, <2>1, OnlyRowAtHand
  <2>4. /\ Len(block) + 1 \in DOMAIN (block \o todo)
        /\ (block \o todo)[Len(block) + 1] = Head(todo)
        /\ RemoveAt(block \o todo, Len(block) + 1) = block \o Tail(todo)
    BY <1>1, RemoveBehind
  <2>5. PICK p : p = Len(block) + 1
    OBVIOUS
  <2>6. /\ p \in DOMAIN Rows[cur] /\ removeChild(Rows[cur][p])
        /\ Rows'[cur] = RemoveAt(Rows[cur], p)
    BY <1>1, <2>2, <2>3, <2>4, <2>5
  <2> QED BY <1>1, <2>2, <2>3, <2>6, RowLoses
<1>3. CASE pc = "rest"
  <2>1. at # 0 /\ at \notin used /\ at <= Len(old) /\ cur = 0
    BY <1>1, <1>3 DEF Shape, Loops
  <2>2. at \in 1 .. Len(old) /\ RowFacts /\ RowFacts' /\ at \in 0 .. Behind
    <3>1. at \in Nat /\ Len(old) \in Nat /\ Len(next) \in Nat
      BY <1>1, ListTypes DEF Shape, TypeOK
    <3> QED BY <1>1, <2>1, <3>1, RowsOfState, NextRows DEF RowFacts
  <2>3. used' = used /\ index' = index /\ \A j : PlaceOf(j)' = PlaceOf(j)
    BY <1>1, SameLists DEF PlaceOf
  <2>4. \A j \in 1 .. Len(old) : j \notin {at} => OldRow(j)' = OldRow(j)
    BY <1>1, <1>3, <2>1, <2>3 DEF OldRow, Unmatched, Left
  <2>5. \A k \in 1 .. Len(next) : NewRow(k)' = NewRow(k) /\ MovedRow(k)' = MovedRow(k)
    BY <1>1, <1>3 DEF NewRow, MovedRow, Left
  <2>6. Behind' = Behind /\ \A r \in 0 .. Behind : r \notin {at} => Rows'[r] = Rows[r]
    <3>1. PICK D : D = {at}
      OBVIOUS
    <3> QED BY <1>1, <2>4, <2>5, <3>1, OtherRows
  <2>7. PICK j \in 1 .. Len(old) : j = at
    BY <2>2
  <2>8. OldRow(j) = todo /\ OldRow(j)' = Tail(todo)
    <3>1. ~(j < at)
      BY <2>7
    <3> QED BY <1>1, <1>3, <2>1, <2>3, <2>7, <3>1 DEF OldRow, Unmatched
  <2>9. Rows[at] = todo /\ Rows'[at] = Tail(todo)
    BY <1>1, <2>2, <2>7, <2>8 DEF RowFacts
  <2>10. /\ 1 \in DOMAIN Rows[at] /\ removeChild(Rows[at][1])
         /\ Rows'[at] = RemoveAt(Rows[at], 1)
    BY <1>1, <2>9, RemoveHead
  <2> QED BY <1>1, <2>2, <2>6, <2>10, RowLoses
<1> QED BY <1>1, <1>2, <1>3

LEMMA OrderMountNode ==
  ASSUME IInv, Shape', NEW p \in 1 .. MaxBlock, MountNode(p)
  PROVE  IInv'
<1> DEFINE n == NewNode
           x == IF p <= Len(block) THEN block[p]
                ELSE IF cur = 0 THEN Before ELSE firstDOMNode(old[cur])
<1>1. /\ Shape /\ ok /\ pc = "mount" /\ p <= Len(block) + 1 /\ Fresh # {}
      /\ UNCHANGED <<failed, old, next, children, from, pc, cur, todo, at>>
      /\ insertNode(n, x) /\ block' = InsertAt(block, p, n)
      /\ block \in Seq(Nodes) /\ todo \in Seq(Nodes)
      /\ todo = (IF cur = 0 THEN <<>> ELSE old[cur].nodes) /\ index <= Len(next)
  BY DEF IInv, Shape, TypeOK, Loops, MountNode
<1>2. n \in Nodes /\ n \notin ToSet(kids)
  BY <1>1, NewNodeType DEF Fresh
<1>3. Without(kids, n) = kids
  BY <1>2 DEF Without
<1>4. IsRows(Rows, Behind) /\ InDocumentOrder(kids, Rows) /\ kids \in Seq(Nodes) /\ RowFacts
  BY RowsOfState DEF RowFacts, IInv, Shape, TypeOK
<1>8. RowFacts'
  BY NextRows
<1> HIDE DEF n, x
<1>5. p \in 1 .. (Len(block) + 1) /\ Len(block) \in Nat /\ DOMAIN block = 1 .. Len(block)
  BY <1>1, LenProperties
<1>6. CASE cur # 0
  <2>1. cur \in DOMAIN old /\ cur \in 0 .. Behind /\ Rows[cur] = block \o todo
    BY <1>1, <1>6, RowAtHand
  <2>2. /\ Behind' = Behind /\ Rows'[cur] = block' \o todo'
        /\ \A r \in 0 .. Behind : r # cur => Rows'[r] = Rows[r]
    BY <1>1, <1>6, OnlyRowAtHand
  <2>3. Rows'[cur] = InsertAt(Rows[cur], p, n)
    <3>1. block \in Seq(Nodes) /\ todo \in Seq(Nodes)
      BY <1>1
    <3>2. InsertAt(block, p, n) \o todo = InsertAt(block \o todo, p, n)
      BY <1>2, <1>5, <3>1, InsertInFirst
    <3> QED BY <1>1, <2>1, <2>2, <3>2
  <2>4. todo # <<>> /\ Len(todo) \in Nat /\ Len(todo) > 0
    BY <1>1, <1>6, <2>1, ListTypes, LenProperties, EmptySeq DEF Shape, Mounted, Blocks
  <2> DEFINE c == block \o todo
  <2>5. /\ Len(c) = Len(block) + Len(todo) /\ DOMAIN c = 1 .. (Len(block) + Len(todo))
        /\ \A i \in 1 .. Len(block) : c[i] = block[i]
        /\ \A i \in 1 .. Len(todo) : c[Len(block) + i] = todo[i]
    BY <1>1, ConcatFacts
  <2>6. Rows[cur] = c
    BY <2>1
  <2> HIDE DEF c
  <2>7. p \in DOMAIN c /\ p \in 1 .. (Len(c) + 1)
    BY <1>5, <2>4, <2>5
  <2>8. x = c[p]
    <3>1. CASE p <= Len(block)
      BY <1>5, <2>5, <3>1 DEF x
    <3>2. CASE ~(p <= Len(block))
      <4>1. p = Len(block) + 1 /\ 1 \in 1 .. Len(todo)
        BY <1>5, <2>4, <3>2
      <4>2. c[p] = todo[1]
        BY <2>5, <4>1
      <4> QED BY <1>1, <1>6, <3>2, <4>2 DEF x, firstDOMNode
    <3> QED BY <3>1, <3>2
  <2>9. IsAnchor(Rows, cur, p, x)
    BY <2>6, <2>7, <2>8 DEF IsAnchor
  <2> QED BY <1>1, <1>2, <1>3, <1>4, <2>1, <2>2, <2>3, <2>6, <2>7, <2>9, RowGains
<1>7. CASE cur = 0
  <2> DEFINE r == Len(old) + index
  <2>1. /\ index \in 1 .. Len(next) /\ Len(old) \in Nat /\ Len(next) \in Nat
        /\ index = Len(children) + 1 /\ DOMAIN from = 1 .. Len(children) /\ Len(children) \in Nat
    BY <1>1, ListTypes DEF Shape
  <2>2. used' = used /\ index' = index /\ \A j : PlaceOf(j)' = PlaceOf(j)
    BY <1>1, SameLists DEF PlaceOf
  <2>3. r \in 0 .. Behind /\ Rows[r] = NewRow(index) /\ r < Behind
    <3>1. Behind = Len(old) + 2 * Len(next) + 1
      BY <1>4 DEF RowFacts
    <3>2. r \in 0 .. Behind /\ r < Behind
      BY <2>1, <3>1
    <3>3. \A k \in 1 .. Len(next) : Rows[Len(old) + k] = NewRow(k)
      BY <1>4 DEF RowFacts
    <3> QED BY <2>1, <3>2, <3>3
  <2>4. index \notin DOMAIN from
    BY <2>1
  <2>5. Rows[r] = block
    BY <1>1, <1>7, <2>3, <2>4, SimpleRows
  <2>6. Rows'[r] = block'
    <3>1. PICK k \in 1 .. Len(next) : k = index
      BY <2>1
    <3>2. Rows'[Len(old) + k] = NewRow(k)'
      BY <1>1, <1>8 DEF RowFacts
    <3>3. NewRow(k)' = block'
      BY <1>1, <1>7, <2>2, <2>4, <3>1, SimpleRowsNext
    <3> QED BY <3>1, <3>2, <3>3
  <2>7. \A j \in 1 .. Len(old) : OldRow(j)' = OldRow(j)
    BY <1>1, <1>7, <2>2, SimpleRows, SimpleRowsNext DEF SimpleOldRow
  <2>8. \A k \in 1 .. Len(next) : Len(old) + k \notin {r} => NewRow(k)' = NewRow(k)
    BY <1>1, <2>2, SimpleRows, SimpleRowsNext
  <2>9. \A k \in 1 .. Len(next) : MovedRow(k) = <<>> /\ MovedRow(k)' = MovedRow(k)
    BY <1>1, SimpleRows, SimpleRowsNext
  <2>10. \A k \in 1 .. Len(next) : k > index => NewRow(k) = <<>>
    BY <1>1, <2>1, SimpleRows
  <2> HIDE DEF r
  <2>11. Behind' = Behind /\ \A q \in 0 .. Behind : q \notin {r} => Rows'[q] = Rows[q]
    <3>1. PICK D : D = {r}
      OBVIOUS
    <3> QED BY <1>1, <2>7, <2>8, <2>9, <3>1, OtherRows
  <2>12. IsAnchor(Rows, r, p, x)
    <3>1. CASE p <= Len(block)
      BY <1>5, <2>5, <3>1 DEF IsAnchor, x
    <3>2. CASE ~(p <= Len(block))
      <4>1. p = Len(Rows[r]) + 1 /\ x = Before
        BY <1>5, <1>7, <2>5, <3>2 DEF x
      <4>2. ASSUME NEW q \in 0 .. Behind, q > r, q < Behind PROVE Rows[q] = <<>>
        <5>1. q # 0 /\ q # Behind /\ ~(q \in 1 .. Len(old))
          BY <2>1, <4>2 DEF r
        <5>2. CASE \E k \in 1 .. Len(next) : q = Len(old) + k
          BY <1>4, <2>1, <2>10, <4>2, <5>2 DEF RowFacts, r
        <5>3. CASE \E k \in 1 .. Len(next) : q = Len(old) + Len(next) + k
          BY <1>4, <2>9, <5>3 DEF RowFacts
        <5> QED BY <1>1, <5>1, <5>2, <5>3, RowKinds
      <4>3. Rows[Behind] = Trail /\ Behind \in 0 .. Behind /\ DOMAIN Rows = 0 .. Behind
        BY <1>4 DEF RowFacts, IsRows
      <4>4. Before = IF Trail = <<>> THEN Nil ELSE Trail[1]
        BY DEF Before
      <4>5. CASE Trail = <<>>
        <5>1. \A q \in 0 .. Behind : q > r => Rows[q] = <<>>
          BY <4>2, <4>3, <4>5
        <5> QED BY <4>1, <4>3, <4>4, <4>5, <5>1 DEF IsAnchor
      <4>6. CASE Trail # <<>>
        <5>1. \A m \in 0 .. Behind : r < m /\ m < Behind => Rows[m] = <<>>
          BY <2>3, <4>2 DEF r
        <5>2. Behind > r
          BY <2>1, <2>3 DEF r
        <5> QED BY <4>1, <4>3, <4>4, <4>6, <5>1, <5>2 DEF IsAnchor
      <4> QED BY <4>5, <4>6
    <3> QED BY <3>1, <3>2
  <2>13. r \in 0 .. Behind
    BY <2>3 DEF r
  <2>14. p \in 1 .. (Len(Rows[r]) + 1) /\ Rows'[r] = InsertAt(Rows[r], p, n)
    BY <1>1, <1>5, <2>5, <2>6 DEF r
  <2> QED BY <1>1, <1>2, <1>3, <1>4, <2>11, <2>12, <2>13, <2>14, RowGains
<1> QED BY <1>6, <1>7

LEMMA InsertAtEnd ==
  ASSUME NEW S, NEW s \in Seq(S), NEW e \in S
  PROVE  InsertAt(s, Len(s) + 1, e) = Append(s, e)
<1> DEFINE i == Len(s) + 1
           f == InsertAt(s, i, e)
           h == Append(s, e)
<1>1. Len(s) \in Nat /\ i \in 1 .. (Len(s) + 1)
  BY LenProperties
<1>2. /\ h \in Seq(S) /\ Len(h) = Len(s) + 1 /\ h[Len(s) + 1] = e
      /\ \A j \in 1 .. Len(s) : h[j] = s[j]
  BY <1>1, AppendProperties
<1>3. /\ f \in Seq(S) /\ Len(f) = Len(s) + 1
      /\ \A j \in 1 .. (Len(s) + 1) :
           f[j] = IF j < i THEN s[j] ELSE IF j = i THEN e ELSE s[j - 1]
  <2> HIDE DEF i, h
  <2>1. i \in 1 .. (Len(s) + 1) /\ s \in Seq(S) /\ e \in S
    BY <1>1
  <2>2. f \in Seq(S) /\ Len(f) = Len(s) + 1
    BY ONLY <2>1, InsertAtSeq
  <2>3. ASSUME NEW j \in 1 .. (Len(s) + 1)
        PROVE  f[j] = IF j < i THEN s[j] ELSE IF j = i THEN e ELSE s[j - 1]
    BY ONLY <2>1, InsertAtElement
  <2> QED BY <2>2, <2>3
<1> HIDE DEF f, h
<1>4. \A j \in 1 .. Len(f) : f[j] = h[j]
  BY <1>1, <1>2, <1>3
<1>5. f = h
  BY <1>2, <1>3, <1>4, SeqEqual
<1> QED BY <1>5 DEF f, h

LEMMA OrderMoveNode ==
  ASSUME IInv, Shape', MoveNode
  PROVE  IInv'
<1> DEFINE n == Head(todo)
           r == IF from[at] # 0 THEN from[at] ELSE Len(old) + at
           m == Len(old) + Len(next) + at
           C == Vacated(r, 1)
<1>1. /\ Shape /\ ok /\ pc = "order" /\ todo # <<>> /\ cur = 0
      /\ UNCHANGED <<failed, old, next, children, from, pc, cur, at>>
      /\ insertNode(n, anchor) /\ block' = Append(block, n) /\ todo' = Tail(todo)
      /\ at # 0 /\ at <= Len(children) /\ Len(children) = Len(next)
  BY DEF IInv, Shape, Loops, MoveNode
<1>2. /\ todo \in Seq(Nodes) /\ block \in Seq(Nodes) /\ n \in Nodes
      /\ Len(block) \in Nat
  BY <1>1, HeadTailProperties, LenProperties DEF Shape, TypeOK
<1>3. /\ Len(old) \in Nat /\ Len(next) \in Nat /\ DOMAIN from = 1 .. Len(next)
      /\ DOMAIN children = 1 .. Len(next) /\ at \in 1 .. Len(next)
      /\ from[at] \in 0 .. Len(old)
  <2>1. at \in Nat /\ Len(old) \in Nat /\ Len(children) \in Nat /\ DOMAIN from = DOMAIN children
        /\ DOMAIN children = 1 .. Len(children)
        /\ \A k \in DOMAIN from : from[k] \in 0 .. Len(old)
    BY <1>1, ListTypes DEF Shape, TypeOK
  <2>2. at \in 1 .. Len(children)
    BY <1>1, <2>1
  <2> QED BY <1>1, <2>1, <2>2
<1>4. RowFacts
  BY <1>1, RowsOfState
<1>5. RowFacts'
  BY NextRows
<1>6. used' = used /\ index' = index /\ \A j : PlaceOf(j)' = PlaceOf(j)
  BY <1>1, SameLists DEF PlaceOf
<1>7. /\ \A j \in used : /\ PlaceOf(j) \in DOMAIN from /\ from[PlaceOf(j)] = j
                         /\ \A k \in DOMAIN from : from[k] = j => k = PlaceOf(j)
  BY <1>1, PlaceFacts DEF Shape
<1>8. /\ Left(at) = todo /\ MovedRow(at) = block
      /\ \A k : k # at => Left(k)' = Left(k) /\ MovedRow(k)' = MovedRow(k)
  <2>1. ~(at < at)
    BY <1>3
  <2> QED BY <1>1, <2>1 DEF Left, MovedRow
<1>9. ASSUME NEW k, k = at PROVE Left(k)' = Tail(todo) /\ MovedRow(k)' = Append(block, n)
  <2>1. ~(k < at)
    BY <1>3, <1>9
  <2> QED BY <1>1, <1>9, <2>1 DEF Left, MovedRow
<1>10. /\ Behind = Len(old) + 2 * Len(next) + 1
       /\ r \in 0 .. Behind /\ m \in 0 .. Behind /\ r < m /\ m < Behind
  <2>1. Behind = Len(old) + 2 * Len(next) + 1
    BY <1>4 DEF RowFacts
  <2> QED BY <1>3, <2>1
<1> HIDE DEF n
<1>11. Rows[r] = todo /\ Rows'[r] = Tail(todo)
  <2>1. PICK k \in 1 .. Len(next) : k = at
    BY <1>3
  <2>2. CASE from[at] # 0
    <3>1. PICK j \in 1 .. Len(old) : j = from[at]
      BY <1>3, <2>2
    <3>2. j \in used /\ PlaceOf(j) = k
      <4>1. j \in used
        BY <1>3, <2>2, <3>1 DEF used
      <4> QED BY <1>3, <1>7, <2>1, <3>1, <4>1
    <3>3. OldRow(j) = todo
      BY <1>8, <2>1, <3>2 DEF OldRow
    <3>4. OldRow(j)' = Tail(todo)
      <4>1. OldRow(j)' = Left(k)'
        BY <1>6, <3>2 DEF OldRow
      <4> QED BY <1>9, <2>1, <4>1
    <3>5. Rows[j] = OldRow(j)
      BY <1>4 DEF RowFacts
    <3>6. Rows'[j] = OldRow(j)'
      BY <1>1, <1>5 DEF RowFacts
    <3> QED BY <2>2, <3>1, <3>3, <3>4, <3>5, <3>6
  <2>3. CASE from[at] = 0
    <3>1. NewRow(k) = todo
      BY <1>3, <1>8, <2>1, <2>3 DEF NewRow
    <3>2. NewRow(k)' = Tail(todo)
      <4>1. NewRow(k)' = Left(k)'
        BY <1>1, <1>3, <2>1, <2>3 DEF NewRow
      <4> QED BY <1>9, <2>1, <4>1
    <3>3. Rows[Len(old) + k] = NewRow(k)
      BY <1>4 DEF RowFacts
    <3>4. Rows'[Len(old) + k] = NewRow(k)'
      BY <1>1, <1>5 DEF RowFacts
    <3> QED BY <2>1, <2>3, <3>1, <3>2, <3>3, <3>4
  <2> QED BY <2>2, <2>3
<1>12. Rows[m] = block /\ Rows'[m] = Append(block, n)
  <2>1. PICK k \in 1 .. Len(next) : k = at
    BY <1>3
  <2>2. Rows[Len(old) + Len(next) + k] = MovedRow(k)
    BY <1>4 DEF RowFacts
  <2>3. Rows'[Len(old) + Len(next) + k] = MovedRow(k)'
    BY <1>1, <1>5 DEF RowFacts
  <2> QED BY <1>8, <1>9, <2>1, <2>2, <2>3
<1>13. Behind' = Behind /\ \A q \in 0 .. Behind : q \notin {r, m} => Rows'[q] = Rows[q]
  <2>1. ASSUME NEW j \in 1 .. Len(old), j # r PROVE OldRow(j)' = OldRow(j)
    <3>1. CASE j \in used
      <4>1. PlaceOf(j) # at
        BY <1>3, <1>7, <2>1, <3>1
      <4> QED BY <1>6, <1>8, <3>1, <4>1 DEF OldRow
    <3>2. CASE j \notin used
      BY <1>1, <1>3, <1>6, <3>2 DEF OldRow, Unmatched
    <3> QED BY <3>1, <3>2
  <2>2. ASSUME NEW k \in 1 .. Len(next), Len(old) + k # r PROVE NewRow(k)' = NewRow(k)
    <3>1. k = at => from[k] # 0
      BY <2>2
    <3> QED BY <1>1, <1>3, <1>8, <3>1 DEF NewRow
  <2>3. ASSUME NEW k \in 1 .. Len(next), Len(old) + Len(next) + k # m
        PROVE  MovedRow(k)' = MovedRow(k)
    BY <1>8, <2>3
  <2> HIDE DEF r, m
  <2>4. PICK D : D = {r, m}
    OBVIOUS
  <2> QED BY <1>1, <2>1, <2>2, <2>3, <2>4, OtherRows
\* where child at + 1 begins, or what is behind the children
<1>14. \E q \in 0 .. Behind : /\ q = m + 1
                              /\ IF Rows[q] = <<>> THEN q = Behind /\ anchor = Nil
                                 ELSE anchor = Rows[q][1]
  <2>1. CASE at = Len(children)
    <3>1. Rows[Behind] = Trail /\ m + 1 = Behind /\ Behind \in 0 .. Behind
      BY <1>1, <1>3, <1>4, <1>10, <2>1 DEF RowFacts
    <3>2. anchor = IF Trail = <<>> THEN Nil ELSE Trail[1]
      BY <2>1 DEF anchor, Before
    <3> QED BY <3>1, <3>2
  <2>2. CASE at # Len(children)
    <3>0. at + 1 \in 1 .. Len(next)
      <4>1. at # Len(next)
        BY <1>1, <2>2
      <4> QED BY <1>3, <4>1
    <3>1. PICK k \in 1 .. Len(next) : k = at + 1
      BY <3>0
    <3>2. Rows[Len(old) + Len(next) + k] = MovedRow(k) /\ Len(old) + Len(next) + k = m + 1
      BY <1>3, <1>4, <3>1 DEF RowFacts
    <3>3. ~(k < at) /\ k # at
      BY <1>3, <3>1
    <3>4. MovedRow(k) = children[k].nodes /\ children[k].nodes # <<>>
      BY <1>1, <1>3, <3>3, ListTypes DEF MovedRow, Shape, Mounted, Blocks
    <3>5. anchor = children[k].nodes[1]
      BY <2>2, <3>1 DEF anchor, firstDOMNode
    <3>6. m + 1 \in 0 .. Behind
      BY <1>3, <1>10
    <3> QED BY <3>2, <3>4, <3>5, <3>6
  <2> QED BY <2>1, <2>2
<1> HIDE DEF r, m
<1>15. n = Rows[r][1] /\ 1 \in DOMAIN Rows[r] /\ RemoveAt(Rows[r], 1) = Tail(todo)
  BY <1>1, <1>2, <1>11, RemoveHead DEF n
<1>16. /\ IsRows(C, Behind) /\ C[r] = Tail(todo)
       /\ \A q \in 0 .. Behind : q # r => C[q] = Rows[q]
       /\ InDocumentOrder(Without(kids, n), C)
       /\ n \notin ToSet(Without(kids, n)) /\ Without(kids, n) \in Seq(Nodes)
  BY <1>10, <1>15, RowWithout
<1> HIDE DEF C
<1>17. C[m] = block /\ r # m
  BY <1>10, <1>12, <1>16
<1>18. PICK p : p = Len(block) + 1
  OBVIOUS
<1>19. p \in 1 .. (Len(C[m]) + 1) /\ Rows'[m] = InsertAt(C[m], p, n)
  BY <1>2, <1>12, <1>17, <1>18, InsertAtEnd
<1>20. \A q \in 0 .. Behind : q # m => Rows'[q] = C[q]
  BY <1>11, <1>13, <1>16
<1>21. IsAnchor(C, m, p, anchor)
  <2>1. PICK q \in 0 .. Behind : /\ q = m + 1
                                 /\ IF Rows[q] = <<>> THEN q = Behind /\ anchor = Nil
                                    ELSE anchor = Rows[q][1]
    BY <1>14
  <2>2. DOMAIN C = 0 .. Behind /\ q > m /\ C[q] = Rows[q]
    BY <1>10, <1>16, <2>1 DEF IsRows
  <2>3. \A l \in 0 .. Behind : ~(m < l /\ l < q)
    BY <1>10, <2>1
  <2>4. CASE Rows[q] = <<>>
    <3>1. \A l \in 0 .. Behind : l > m => l = q
      BY <1>10, <2>1, <2>4
    <3> QED BY <1>17, <1>18, <2>1, <2>2, <2>4, <3>1 DEF IsAnchor
  <2>5. CASE Rows[q] # <<>>
    BY <1>17, <1>18, <2>1, <2>2, <2>3, <2>5 DEF IsAnchor
  <2> QED BY <2>4, <2>5
<1> QED BY <1>1, <1>2, <1>10, <1>13, <1>16, <1>19, <1>20, <1>21, RowGains

-----------------------------------------------------------------------------
(* The theorems *)

LEMMA InvInit ==
  Init => IInv
<1> SUFFICES ASSUME Init PROVE IInv
  OBVIOUS
<1>1. Shape
  BY ShapeInit
<1>2. ok /\ pc = "idle" /\ Len(old) = 0 /\ kids = Lead \o Trail
  BY DEF Init
<1>3. Rows = IdleRows
  BY <1>1, <1>2, RowsIdle DEF IdleFacts
<1>4. DOMAIN Rows = 0 .. 1 /\ Rows[0] = Lead /\ Rows[1] = Trail
  BY <1>2, <1>3 DEF IdleRows
<1>5. /\ Lead \in Seq(Nodes) /\ Trail \in Seq(Nodes)
      /\ Len(Lead) \in Nat /\ DOMAIN Lead = 1 .. Len(Lead)
      /\ Len(Trail) \in Nat /\ DOMAIN Trail = 1 .. Len(Trail)
      /\ IsInjective(Lead) /\ IsInjective(Trail) /\ ToSet(Lead) \cap ToSet(Trail) = {}
  BY AroundAssumption, LenProperties
<1>6. /\ kids \in Seq(Nodes) /\ Len(kids) = Len(Lead) + Len(Trail)
      /\ DOMAIN kids = 1 .. (Len(Lead) + Len(Trail))
      /\ \A i \in 1 .. Len(Lead) : kids[i] = Lead[i]
      /\ \A i \in 1 .. Len(Trail) : kids[Len(Lead) + i] = Trail[i]
  <2>1. Lead \in Seq(Nodes) /\ Trail \in Seq(Nodes)
    BY <1>5
  <2> QED BY <1>2, <2>1, ConcatFacts
\* where in kids the node in place p of row r is
<1> DEFINE place(r, p) == IF r = 0 THEN p ELSE Len(Lead) + p
<1>7. ASSUME NEW r \in 0 .. 1, NEW p \in DOMAIN Rows[r]
      PROVE  place(r, p) \in DOMAIN kids /\ kids[place(r, p)] = Rows[r][p] /\ p \in Nat
  <2>1. CASE r = 0
    BY <1>4, <1>5, <1>6, <2>1
  <2>2. CASE r = 1
    BY <1>4, <1>5, <1>6, <2>2
  <2> QED BY <2>1, <2>2
<1>8. ASSUME NEW i \in DOMAIN kids
      PROVE  \E r \in 0 .. 1 : \E p \in DOMAIN Rows[r] : i = place(r, p)
  <2>1. CASE i <= Len(Lead)
    <3>1. i \in DOMAIN Rows[0] /\ i = place(0, i)
      BY <1>4, <1>5, <1>6, <2>1
    <3> QED BY <3>1
  <2>2. CASE i > Len(Lead)
    <3>1. i - Len(Lead) \in DOMAIN Rows[1] /\ i = place(1, i - Len(Lead))
      BY <1>4, <1>5, <1>6, <2>2
    <3> HIDE DEF place
    <3> QED BY <3>1
  <2> QED BY <1>5, <1>6, <2>1, <2>2
<1>9. ASSUME NEW r \in 0 .. 1, NEW q \in 0 .. 1, NEW p \in DOMAIN Rows[r], NEW o \in DOMAIN Rows[q],
             Earlier(r, p, q, o)
      PROVE  Follows(kids, Rows[r][p], Rows[q][o])
  <2>1. place(r, p) < place(q, o)
    <3>1. r = 0 => p <= Len(Lead)
      BY <1>4, <1>5
    <3>2. p \in Nat /\ o \in Nat /\ (q = 1 => o >= 1)
      BY <1>4, <1>5, <1>7
    <3> QED BY <1>5, <1>9, <3>1, <3>2 DEF Earlier
  <2>2. /\ place(r, p) \in DOMAIN kids /\ kids[place(r, p)] = Rows[r][p]
        /\ place(q, o) \in DOMAIN kids /\ kids[place(q, o)] = Rows[q][o]
    BY <1>7
  <2> HIDE DEF place
  <2> QED BY <2>1, <2>2 DEF Follows
<1>10. ASSUME NEW i \in DOMAIN kids, NEW j \in DOMAIN kids, kids[i] = kids[j] PROVE i = j
  <2>1. PICK r \in 0 .. 1 : \E p \in DOMAIN Rows[r] : i = place(r, p)
    BY <1>8
  <2>2. PICK p \in DOMAIN Rows[r] : i = place(r, p)
    BY <2>1
  <2>3. PICK q \in 0 .. 1 : \E o \in DOMAIN Rows[q] : j = place(q, o)
    BY <1>8
  <2>4. PICK o \in DOMAIN Rows[q] : j = place(q, o)
    BY <2>3
  <2>5. Rows[r][p] = Rows[q][o]
    BY <1>7, <1>10, <2>2, <2>4
  <2> HIDE DEF place
  <2>6. r = q
    <3>1. \A a \in DOMAIN Lead, b \in DOMAIN Trail : Lead[a] # Trail[b]
      BY <1>5 DEF ToSet
    <3>2. (r = 0 \/ r = 1) /\ (q = 0 \/ q = 1)
      OBVIOUS
    <3> QED BY <1>4, <2>5, <3>1, <3>2
  <2>7. p = o
    BY <1>4, <1>5, <2>5, <2>6, SMTT(30) DEF IsInjective
  <2> QED BY <2>2, <2>4, <2>6, <2>7
<1>11. ToSet(kids) = NodesOf(Rows)
  <2>1. IsRows(Rows, 1)
    BY <1>4, <1>5 DEF IsRows
  <2>2. \A n : n \in NodesOf(Rows) <=> \E r \in 0 .. 1 : \E p \in DOMAIN Rows[r] : Rows[r][p] = n
    BY <2>1, CellsOf
  <2>3. ASSUME NEW n, \E r \in 0 .. 1 : \E p \in DOMAIN Rows[r] : Rows[r][p] = n
        PROVE  n \in ToSet(kids)
    <3>1. PICK r \in 0 .. 1 : \E p \in DOMAIN Rows[r] : Rows[r][p] = n
      BY <2>3
    <3>2. PICK p \in DOMAIN Rows[r] : Rows[r][p] = n
      BY <3>1
    <3>3. place(r, p) \in DOMAIN kids /\ kids[place(r, p)] = n
      BY <1>7, <3>2
    <3> HIDE DEF place
    <3> QED BY <3>3 DEF ToSet
  <2>4. ASSUME NEW i \in DOMAIN kids
        PROVE  \E r \in 0 .. 1 : \E p \in DOMAIN Rows[r] : Rows[r][p] = kids[i]
    <3>1. PICK r \in 0 .. 1 : \E p \in DOMAIN Rows[r] : i = place(r, p)
      BY <1>8
    <3>2. PICK p \in DOMAIN Rows[r] : i = place(r, p)
      BY <3>1
    <3>3. kids[i] = Rows[r][p]
      BY <1>7, <3>2
    <3> QED BY <3>3
  <2>5. \A n : n \in ToSet(kids) <=> \E r \in 0 .. 1 : \E p \in DOMAIN Rows[r] : Rows[r][p] = n
    BY <2>3, <2>4 DEF ToSet
  <2> QED BY <2>2, <2>5
<1>12. InDocumentOrder(kids, Rows)
  <2>1. IsInjective(kids)
    BY <1>10 DEF IsInjective
  <2> QED BY <1>4, <1>9, <1>11, <2>1 DEF InDocumentOrder
<1> QED BY <1>1, <1>2, <1>12 DEF IInv

LEMMA InvStep ==
  ASSUME IInv, [Next]_vars
  PROVE  IInv'
<1>0. Shape' /\ Shape
  BY ShapeStep DEF IInv
<1>1. CASE UNCHANGED vars
  <2>1. UNCHANGED <<kids, ok, failed, old, next, children, from, pc, cur, block, todo, at>>
    BY <1>1 DEF vars
  <2>2. \A j : OldRow(j)' = OldRow(j)
    BY <2>1 DEF OldRow, used, PlaceOf, Left, Unmatched
  <2>3. \A k : NewRow(k)' = NewRow(k) /\ MovedRow(k)' = MovedRow(k)
    BY <2>1 DEF NewRow, MovedRow, Left, index
  <2> QED BY <1>0, <2>1, <2>2, <2>3, RowsStay
<1>2. CASE \E list \in Lists : PatchChildren(list)
  BY <1>0, <1>2, OrderPatchChildren
<1>3. CASE MountChild \/ PatchChild \/ \E j \in DOMAIN old : Rerender(j)
  BY <1>0, <1>3, OrderMountChild, OrderPatchChild, OrderRerender
<1>4. CASE \E p \in 1 .. MaxBlock : MountNode(p) \/ RemoveNodeWithin(p)
  BY <1>0, <1>4, OrderMountNode, OrderRemoveWithin
<1>5. CASE \E p \in 1 .. MaxBlock : InsertNodeWithin(p)
  <2>1. PICK p \in 1 .. MaxBlock : InsertNodeWithin(p)
    BY <1>5
  <2>2. InsertWithin(NewNode, p) /\ NewNode \in Nodes /\ NewNode \notin ToSet(kids)
    BY <2>1, NewNodeType DEF InsertNodeWithin, Fresh
  <2> QED BY <1>0, <2>2, OrderInsertWithin
<1>6. CASE \E q, p \in 1 .. MaxBlock : MoveNodeWithin(q, p)
  <2>1. PICK q \in 1 .. MaxBlock, p \in 1 .. MaxBlock : MoveNodeWithin(q, p)
    BY <1>6
  <2>2. block[q] \in Nodes /\ block[q] \in ToSet(block) /\ InsertWithin(block[q], p)
    <3>1. block \in Seq(Nodes)
      BY <1>0 DEF Shape, TypeOK
    <3> QED BY <2>1, <3>1 DEF MoveNodeWithin, ToSet
  <2> QED BY <1>0, <2>2, OrderInsertWithin
<1>7. CASE ChildFails \/ ChildMounted \/ ChildReplaced \/ ChildPatched \/ Rerendered
  BY <1>0, <1>7, OrderChildFails, OrderChildMounted, OrderChildDone, OrderRerendered
<1>8. CASE RemoveNode \/ RemoveRest \/ RestNext \/ InPlace
  BY <1>0, <1>8, OrderRemoveNode, OrderRemoveRest, OrderRestNext, OrderInPlace
<1>9. CASE Reorder \/ MoveNode \/ MoveNext \/ Reordered
  BY <1>0, <1>9, OrderReorder, OrderMoveNode, OrderMoveNext, OrderReordered
<1> QED BY <1>1, <1>2, <1>3, <1>4, <1>5, <1>6, <1>7, <1>8, <1>9 DEF Next

(***************************************************************************)
(* domBoundary never throws for the sake of patchChildren: the anchors of  *)
(* insertBefore and the nodes of removeChild are children of the parent    *)
(* when they are used.                                                     *)
(***************************************************************************)
THEOREM DOMNeverThrows == Spec => []NeverThrows
<1>1. IInv => NeverThrows
  BY DEF IInv, NeverThrows
<1>2. IInv /\ [Next]_vars => IInv'
  BY InvStep
<1> QED BY InvInit, <1>1, <1>2, PTL DEF Spec

(***************************************************************************)
(* After patchChildren the nodes of the parent are those of the new list,  *)
(* in its order, for every old and new list, with or without keys.         *)
(***************************************************************************)
THEOREM PatchedInOrder == Spec => []ChildrenInOrder
<1>1. IInv => ChildrenInOrder
  <2> SUFFICES ASSUME IInv, pc = "idle" PROVE InDocumentOrder(kids, IdleRows)
    BY DEF ChildrenInOrder, IdleRows
  <2>1. Rows = IdleRows /\ InDocumentOrder(kids, Rows)
    BY RowsIdle DEF IInv, IdleFacts
  <2> QED BY <2>1
<1>2. IInv /\ [Next]_vars => IInv'
  BY InvStep
<1> QED BY InvInit, <1>1, <1>2, PTL DEF Spec

(***************************************************************************)
(* The nodes around the list stay where they are at every step.            *)
(***************************************************************************)
THEOREM AroundStays == Spec => []SiblingsStay
<1>1. ASSUME IInv PROVE SiblingsStay
  <2>1. /\ Behind \in Nat /\ Behind >= 1 /\ Rows[0] = Lead /\ Rows[Behind] = Trail
        /\ IsRows(Rows, Behind) /\ kids \in Seq(Nodes) /\ InDocumentOrder(kids, Rows)
    <3>1. Shape /\ TypeOK /\ InDocumentOrder(kids, Rows)
      BY <1>1 DEF IInv, Shape
    <3>2. RowFacts /\ Len(old) \in Nat /\ Len(next) \in Nat
      BY <3>1, RowsOfState, ListTypes
    <3>3. Behind >= 1
      BY <3>2 DEF RowFacts
    <3> QED BY <3>1, <3>2, <3>3 DEF RowFacts, TypeOK
  <2>2. \A r, q \in 0 .. Behind : \A p \in DOMAIN Rows[r], o \in DOMAIN Rows[q] :
          Earlier(r, p, q, o) => Follows(kids, Rows[r][p], Rows[q][o])
    BY <2>1 DEF InDocumentOrder, IsRows
  <2>3. /\ \A r \in 0 .. Behind : \A p \in DOMAIN Rows[r] : Rows[r][p] \in ToSet(kids)
        /\ \A n \in ToSet(kids) : \E r \in 0 .. Behind : \E p \in DOMAIN Rows[r] : Rows[r][p] = n
    BY <2>1, CellFacts
  <2>4. 0 \in 0 .. Behind /\ Behind \in 0 .. Behind
    BY <2>1
  <2>5. ToSet(Lead) \cup ToSet(Trail) \subseteq ToSet(kids)
    BY <2>1, <2>3, <2>4 DEF ToSet
  <2>6. ASSUME NEW n \in ToSet(kids) \ ToSet(Lead), NEW l \in ToSet(Lead)
        PROVE  Follows(kids, l, n)
    <3>1. PICK r \in 0 .. Behind : \E p \in DOMAIN Rows[r] : Rows[r][p] = n
      BY <2>3
    <3>2. PICK p \in DOMAIN Rows[r] : Rows[r][p] = n
      BY <3>1
    <3>3. PICK i \in DOMAIN Rows[0] : Rows[0][i] = l
      BY <2>1 DEF ToSet
    <3>4. 0 < r
      <4>1. r # 0
        BY <2>1, <3>2 DEF ToSet
      <4> QED BY <2>1, <4>1
    <3>5. Earlier(0, i, r, p)
      BY <3>4 DEF Earlier
    <3> QED BY <2>2, <2>4, <3>2, <3>3, <3>5
  <2>7. ASSUME NEW n \in ToSet(kids) \ ToSet(Trail), NEW t \in ToSet(Trail)
        PROVE  Follows(kids, n, t)
    <3>1. PICK r \in 0 .. Behind : \E p \in DOMAIN Rows[r] : Rows[r][p] = n
      BY <2>3
    <3>2. PICK p \in DOMAIN Rows[r] : Rows[r][p] = n
      BY <3>1
    <3>3. PICK i \in DOMAIN Rows[Behind] : Rows[Behind][i] = t
      BY <2>1 DEF ToSet
    <3>4. r < Behind
      <4>1. r # Behind
        BY <2>1, <3>2 DEF ToSet
      <4> QED BY <2>1, <4>1
    <3>5. Earlier(r, p, Behind, i)
      BY <3>4 DEF Earlier
    <3> QED BY <2>2, <2>4, <3>2, <3>3, <3>5
  <2>8. \A i, j \in DOMAIN Lead : i < j => Follows(kids, Lead[i], Lead[j])
    BY <2>1, <2>2, <2>4 DEF Earlier
  <2>9. \A i, j \in DOMAIN Trail : i < j => Follows(kids, Trail[i], Trail[j])
    BY <2>1, <2>2, <2>4 DEF Earlier
  <2> QED BY <2>5, <2>6, <2>7, <2>8, <2>9 DEF SiblingsStay
<1>2. IInv /\ [Next]_vars => IInv'
  BY InvStep
<1> QED BY InvInit, <1>1, <1>2, PTL DEF Spec

(***************************************************************************)
(* A keyed element that stays in the list is found for the first child of  *)
(* its key, which keeps its node, and the node never leaves the document   *)
(* on the way.                                                             *)
(***************************************************************************)
THEOREM KeyedElementsStay == Spec => []KeyedStay
<1>1. ASSUME IInv, NEW j \in DOMAIN old, NEW k \in DOMAIN next, Keeps(j, k)
      PROVE  /\ ToSet(old[j].nodes) \subseteq ToSet(kids)
             /\ k \in DOMAIN children => children[k].nodes = old[j].nodes
  <2>1. /\ Shape /\ TypeOK /\ Loops /\ Matches /\ Kept
        /\ kids \in Seq(Nodes) /\ InDocumentOrder(kids, Rows)
        /\ block \in Seq(Nodes) /\ todo \in Seq(Nodes)
    BY <1>1 DEF IInv, Shape, TypeOK
  <2>2. /\ RowFacts /\ Len(old) \in Nat /\ Len(next) \in Nat /\ Len(children) \in Nat
        /\ DOMAIN children = 1 .. Len(children) /\ DOMAIN from = DOMAIN children
        /\ index = Len(children) + 1
        /\ k \in 1 .. Len(next) /\ j \in 1 .. Len(old)
    BY <2>1, RowsOfState, ListTypes
  <2>3. /\ IsRows(Rows, Behind) /\ Behind \in Nat
        /\ \A r \in 0 .. Behind : \A p \in DOMAIN Rows[r] : Rows[r][p] \in ToSet(kids)
    <3>1. IsRows(Rows, Behind) /\ Behind \in Nat
      BY <2>2 DEF RowFacts
    <3> QED BY <2>1, <3>1, CellFacts
  <2>4. /\ Behind = Len(old) + 2 * Len(next) + 1
        /\ Rows[j] = OldRow(j) /\ Rows[Len(old) + Len(next) + k] = MovedRow(k)
    BY <2>2 DEF RowFacts
  <2>5. j \in 0 .. Behind /\ Len(old) + Len(next) + k \in 0 .. Behind
    BY <2>2, <2>4
  <2>6. /\ \A p \in DOMAIN OldRow(j) : OldRow(j)[p] \in ToSet(kids)
        /\ \A p \in DOMAIN MovedRow(k) : MovedRow(k)[p] \in ToSet(kids)
    BY <2>3, <2>4, <2>5
  <2>7. CASE k \in DOMAIN children
    <3>1. from[k] = j /\ children[k].nodes = old[j].nodes
      BY <1>1, <2>1, <2>7 DEF Kept
    <3>2. j \in used /\ PlaceOf(j) = k
      <4>1. j \in used
        BY <2>2, <2>7, <3>1 DEF used
      <4> QED BY <2>1, <2>2, <2>7, <3>1, <4>1, PlaceFacts
    <3>3. OldRow(j) = Left(k)
      BY <3>2 DEF OldRow
    <3>4. CASE pc # "order" \/ k < at
      <4>1. OldRow(j) = old[j].nodes
        BY <3>1, <3>3, <3>4 DEF Left
      <4> QED BY <2>6, <3>1, <4>1 DEF ToSet
    <3>5. CASE pc = "order" /\ ~(k < at) /\ k # at
      <4>1. MovedRow(k) = old[j].nodes
        BY <3>1, <3>5 DEF MovedRow
      <4> QED BY <2>6, <3>1, <4>1 DEF ToSet
    <3>6. CASE pc = "order" /\ k = at
      <4>1. ~(k < at) /\ at # 0
        BY <2>2, <3>6
      <4>2. OldRow(j) = todo /\ MovedRow(k) = block /\ block \o todo = old[j].nodes
        BY <2>1, <3>1, <3>3, <3>6, <4>1 DEF Left, MovedRow, Loops
      <4> DEFINE c == block \o todo
      <4>3. /\ DOMAIN c = 1 .. (Len(block) + Len(todo))
            /\ \A i \in 1 .. Len(block) : c[i] = block[i]
            /\ \A i \in 1 .. Len(todo) : c[Len(block) + i] = todo[i]
            /\ DOMAIN block = 1 .. Len(block) /\ DOMAIN todo = 1 .. Len(todo)
            /\ Len(block) \in Nat /\ Len(todo) \in Nat
        BY <2>1, ConcatFacts, LenProperties
      <4>4. c = old[j].nodes
        BY <4>2
      <4> HIDE DEF c
      <4>5. ASSUME NEW i \in DOMAIN c PROVE c[i] \in ToSet(kids)
        <5>1. CASE i <= Len(block)
          <6>1. i \in DOMAIN block /\ c[i] = block[i]
            BY <4>3, <5>1
          <6> QED BY <2>6, <4>2, <6>1
        <5>2. CASE i > Len(block)
          <6>1. i - Len(block) \in DOMAIN todo /\ i = Len(block) + (i - Len(block))
            BY <4>3, <5>2
          <6>2. c[i] = todo[i - Len(block)]
            BY <4>3, <6>1
          <6> QED BY <2>6, <4>2, <6>1, <6>2
        <5> QED BY <4>3, <5>1, <5>2
      <4> QED BY <3>1, <4>4, <4>5 DEF ToSet
    <3> QED BY <3>4, <3>5, <3>6
  <2>8. CASE k \notin DOMAIN children
    <3>1. index <= k /\ pc \notin {"rest", "order"} /\ next # <<>>
      <4>1. index <= k /\ Len(children) # Len(next) /\ Len(next) # 0
        BY <2>2, <2>8
      <4>2. next # <<>>
        BY <4>1
      <4> QED BY <2>1, <4>1, <4>2 DEF Loops
    <3>2. /\ old[j].key = next[k].key /\ sameVNode(old[j], next[k]) /\ old[j].kind \in Simple
          /\ \A m \in 1 .. (k - 1) : next[m].key # next[k].key
      BY <1>1 DEF Keeps, FirstOf, sameVNode
    <3>3. j \notin used
      <4> SUFFICES ASSUME j \in used PROVE FALSE
        OBVIOUS
      <4>1. PICK m \in DOMAIN from : from[m] = j /\ j # 0
        BY DEF used
      <4>2. old[j].key = next[m].key
        BY <2>1, <2>2, <4>1 DEF Matches
      <4>3. m \in 1 .. (k - 1)
        BY <2>2, <3>1
      <4> QED BY <3>2, <4>2, <4>3
    <3>4. OldRow(j) = old[j].nodes
      <4>1. CASE j # cur
        BY <3>1, <3>3, <4>1, SimpleRows DEF SimpleOldRow
      <4>2. CASE j = cur
        <5>1. pc \in {"mount", "patch", "remove"} /\ cur # 0 /\ index <= Len(next)
          BY <2>1, <2>2, <3>1, <4>2 DEF TypeOK, Loops
        <5>2. old[cur].key = next[index].key
          BY <2>1, <5>1 DEF Matches
        <5>3. index = k
          <6>1. index \in 1 .. (k - 1) \/ index = k
            BY <2>2, <3>1
          <6> QED BY <3>2, <4>2, <5>2, <6>1
        <5>4. pc = "patch" /\ block = old[j].nodes
          BY <2>1, <3>2, <4>2, <5>1, <5>3 DEF Matches
        <5>5. todo = <<>> /\ block \o <<>> = block
          BY <2>1, <5>4, ConcatEmptySeq DEF Loops
        <5> QED BY <3>1, <3>3, <4>2, <5>4, <5>5, SimpleRows DEF SimpleOldRow
      <4> QED BY <4>1, <4>2
    <3> QED BY <2>6, <2>8, <3>4 DEF ToSet
  <2> QED BY <2>7, <2>8
<1>2. IInv => KeyedStay
  BY <1>1 DEF KeyedStay, Keeps
<1>3. IInv /\ [Next]_vars => IInv'
  BY InvStep
<1> QED BY InvInit, <1>2, <1>3, PTL DEF Spec

-----------------------------------------------------------------------------
(* The promise to those who render *)

(***************************************************************************)
(* What ChildList needs beyond IInv: whose nodes a child may have.  Nodes  *)
(* of an old child go to the one that is patched from it, and to nobody    *)
(* else, and one without a key stays in its place.                         *)
(***************************************************************************)
Disjoint(s, t) == ToSet(s) \cap ToSet(t) = {}

OldApart == \A i, j \in DOMAIN old : i # j => Disjoint(old[i].nodes, old[j].nodes)

OwnNodes ==
  \A k \in DOMAIN children, j \in DOMAIN old :
    sameVNode(old[j], children[k]) \/ Disjoint(children[k].nodes, old[j].nodes)

OwnBlock ==
  pc # "order" =>
    \A j \in DOMAIN old : \/ pc \in {"patch", "rerender"} /\ cur = j
                          \/ Disjoint(block, old[j].nodes)

\* the same child without a key in the same place
InSamePlace(k) == next[k].key = NoKey /\ k \in DOMAIN old /\ sameVNode(old[k], next[k])

Placed ==
  \A k \in DOMAIN children :
    /\ next[k].key = NoKey => from[k] \in {0, k}
    /\ InSamePlace(k) /\ next[k].kind \in Simple => children[k].nodes = old[k].nodes

PlacedNext ==
  pc \in {"mount", "patch", "remove"} =>
    /\ next[index].key = NoKey => cur \in {0, index}
    /\ InSamePlace(index) => cur = index

Rendered ==
  /\ pc \notin {"idle", "rerender"} => next \in Lists
  /\ pc = "rerender" => old[cur].kind \in Components

Own == OldApart /\ OwnNodes /\ OwnBlock /\ Placed /\ PlacedNext /\ Rendered

LEMMA OwnInit ==
  Init => Own
BY DEF Init, Own, OldApart, OwnNodes, OwnBlock, Placed, PlacedNext, Rendered

(***************************************************************************)
(* Between two patches every node of the list is in one row.               *)
(***************************************************************************)
ApartIdle == pc = "idle" => OldApart

LEMMA IdleApart ==
  IInv => ApartIdle
<1> SUFFICES ASSUME IInv, pc = "idle", NEW i \in DOMAIN old, NEW j \in DOMAIN old, i # j,
                    NEW n \in ToSet(old[i].nodes), n \in ToSet(old[j].nodes)
             PROVE  FALSE
  BY DEF ApartIdle, OldApart, Disjoint
<1>1. /\ Shape /\ TypeOK /\ kids \in Seq(Nodes) /\ InDocumentOrder(kids, Rows)
  BY DEF IInv, Shape, TypeOK
<1>2. /\ Behind = Len(old) + 1 /\ Rows = IdleRows /\ RowFacts
      /\ Len(old) \in Nat /\ DOMAIN old = 1 .. Len(old)
  BY <1>1, RowsIdle, RowsOfState, ListTypes DEF IdleFacts
<1>3. /\ i \in 0 .. Behind /\ j \in 0 .. Behind
      /\ Rows[i] = old[i].nodes /\ Rows[j] = old[j].nodes
  BY <1>2 DEF IdleRows
<1>4. PICK p \in DOMAIN old[i].nodes : old[i].nodes[p] = n
  BY DEF ToSet
<1>5. PICK o \in DOMAIN old[j].nodes : old[j].nodes[o] = n
  BY DEF ToSet
<1>6. Behind \in Nat /\ IsRows(Rows, Behind)
  BY <1>2 DEF RowFacts
<1>7. \A r, q \in 0 .. Behind : \A p1 \in DOMAIN Rows[r], o1 \in DOMAIN Rows[q] :
        Rows[r][p1] = Rows[q][o1] => r = q /\ p1 = o1
  BY <1>1, <1>6, CellFacts
<1> QED BY <1>3, <1>4, <1>5, <1>7

LEMMA IdleApartNext ==
  IInv' => ApartIdle'
BY IdleApart, PTL

(***************************************************************************)
(* A step that leaves the lists alone.                                     *)
(***************************************************************************)
LEMMA OwnKept ==
  ASSUME Own, UNCHANGED <<old, next, children, from>>, OwnBlock', PlacedNext', Rendered'
  PROVE  Own'
<1>1. \A k : InSamePlace(k)' = InSamePlace(k)
  BY DEF InSamePlace, sameVNode
<1>2. OldApart' /\ OwnNodes' /\ Placed'
  BY <1>1 DEF Own, OldApart, OwnNodes, Placed, sameVNode
<1> QED BY <1>2 DEF Own

\* a step of the child at hand, which may get nodes that nobody has had
LEMMA OwnBlockChanges ==
  ASSUME Own, UNCHANGED <<old, next, children, from, pc, cur>>,
         ToSet(block') \subseteq ToSet(block) \cup Fresh
  PROVE  Own'
<1>1. index' = index /\ \A k : InSamePlace(k)' = InSamePlace(k)
  BY SameLists DEF InSamePlace, sameVNode
<1>2. \A j \in DOMAIN old : Fresh \cap ToSet(old[j].nodes) = {}
  BY DEF Fresh
<1>3. OwnBlock'
  BY <1>2 DEF Own, OwnBlock, Disjoint
<1>4. PlacedNext' /\ Rendered'
  BY <1>1 DEF Own, PlacedNext, Rendered
<1> QED BY <1>3, <1>4, OwnKept

LEMMA OwnPatchChildren ==
  ASSUME IInv, Own, NEW list \in Lists, PatchChildren(list)
  PROVE  Own'
<1>1. /\ pc = "idle" /\ pc' = "next" /\ next' = list /\ old' = old
      /\ children' = children /\ from' = from /\ block' = block
  BY DEF PatchChildren
<1>2. children = <<>> /\ block = <<>>
  <2>1. Len(children) = 0 /\ children \in Seq(Mounted)
    BY <1>1, ListTypes DEF IInv, Shape, TypeOK, Loops
  <2> QED BY <1>1, <2>1, EmptySeq DEF IInv, Shape, Loops
<1>3. OwnNodes' /\ Placed' /\ OwnBlock'
  BY <1>1, <1>2 DEF OwnNodes, Placed, OwnBlock, Disjoint, ToSet
<1>4. OldApart' /\ PlacedNext' /\ Rendered'
  BY <1>1 DEF Own, OldApart, PlacedNext, Rendered
<1> QED BY <1>3, <1>4 DEF Own

\* a child without a key is found in its place
LEMMA FoundInPlace ==
  ASSUME Shape, Own, index <= Len(next)
  PROVE  /\ \A j \in nextOldChild(index) : /\ next[index].key = NoKey => j = index
                                           /\ InSamePlace(index) => j = index
         /\ nextOldChild(index) = {} => ~InSamePlace(index)
<1>1. \A j \in nextOldChild(index) : next[index].key = NoKey => j = index
  BY DEF nextOldChild, Candidates
<1>2. ASSUME nextOldChild(index) = {}, InSamePlace(index)
      PROVE  FALSE
  <2>1. index \in Candidates(index) /\ next[index].key = NoKey /\ old[index].key = NoKey
    BY <1>2 DEF InSamePlace, Candidates, sameVNode
  <2>2. index \in used
    BY <1>2, <2>1 DEF nextOldChild
  <2>3. PICK k \in DOMAIN from : from[k] = index /\ index # 0
    BY <2>2 DEF used
  <2>4. k \in DOMAIN children /\ k # index
    BY <2>3, ListTypes DEF Shape
  <2>5. next[k].key = NoKey
    BY <2>1, <2>3, <2>4 DEF Shape, Matches
  <2> QED BY <2>3, <2>4, <2>5 DEF Own, Placed
<1> QED BY <1>1, <1>2 DEF InSamePlace

LEMMA OwnMountChild ==
  ASSUME IInv, Own, MountChild
  PROVE  Own'
<1>1. /\ pc = "next" /\ pc' = "mount" /\ index <= Len(next)
      /\ UNCHANGED <<old, next, children, from, block>> /\ cur = 0
      /\ (cur' = 0 /\ nextOldChild(index) = {}) \/ cur' \in nextOldChild(index)
  BY DEF MountChild, IInv, Shape, Loops
<1>2. index' = index /\ \A k : InSamePlace(k)' = InSamePlace(k)
  BY <1>1, SameLists DEF InSamePlace, sameVNode
<1>3. OwnBlock' /\ Rendered'
  BY <1>1 DEF Own, OwnBlock, Rendered
<1>4. PlacedNext'
  BY <1>1, <1>2, FoundInPlace DEF IInv, PlacedNext
<1> QED BY <1>1, <1>3, <1>4, OwnKept

LEMMA OwnPatchChild ==
  ASSUME IInv, Own, PatchChild
  PROVE  Own'
<1>1. /\ pc = "next" /\ pc' = "patch" /\ index <= Len(next)
      /\ UNCHANGED <<old, next, children, from>>
      /\ cur' \in nextOldChild(index) /\ block' = old[cur'].nodes
  BY DEF PatchChild
<1>2. index' = index /\ \A k : InSamePlace(k)' = InSamePlace(k)
  BY <1>1, SameLists DEF InSamePlace, sameVNode
<1>3. cur' \in DOMAIN old
  BY <1>1, Found DEF IInv
<1>4. OwnBlock' /\ Rendered'
  BY <1>1, <1>3 DEF Own, OldApart, OwnBlock, Rendered
<1>5. PlacedNext'
  BY <1>1, <1>2, FoundInPlace DEF IInv, PlacedNext
<1> QED BY <1>1, <1>4, <1>5, OwnKept

LEMMA OwnRerender ==
  ASSUME Own, NEW j \in DOMAIN old, Rerender(j)
  PROVE  Own'
<1>1. /\ pc' = "rerender" /\ UNCHANGED <<old, next, children, from>>
      /\ cur' = j /\ block' = old[j].nodes /\ old[j].kind \in Components
  BY DEF Rerender
<1>2. OwnBlock' /\ PlacedNext' /\ Rendered'
  BY <1>1 DEF Own, OldApart, OwnBlock, PlacedNext, Rendered
<1> QED BY <1>1, <1>2, OwnKept

LEMMA InsertAtSet ==
  ASSUME NEW S, NEW s \in Seq(S), NEW e \in S, NEW i \in 1 .. (Len(s) + 1)
  PROVE  ToSet(InsertAt(s, i, e)) \subseteq ToSet(s) \cup {e}
<1> DEFINE f == InsertAt(s, i, e)
<1>1. f \in Seq(S) /\ Len(f) = Len(s) + 1
  BY InsertAtSeq
<1>2. \A j \in 1 .. (Len(s) + 1) :
        f[j] = IF j < i THEN s[j] ELSE IF j = i THEN e ELSE s[j - 1]
  BY InsertAtElement
<1> HIDE DEF f
<1>3. /\ DOMAIN f = 1 .. (Len(s) + 1) /\ DOMAIN s = 1 .. Len(s) /\ Len(s) \in Nat
  BY <1>1, LenProperties
<1>4. \A j \in DOMAIN f : f[j] = e \/ \E m \in DOMAIN s : f[j] = s[m]
  <2> SUFFICES ASSUME NEW j \in DOMAIN f PROVE f[j] = e \/ \E m \in DOMAIN s : f[j] = s[m]
    OBVIOUS
  <2>1. CASE j < i
    BY <1>2, <1>3, <2>1
  <2>2. CASE j = i
    BY <1>2, <1>3, <2>2
  <2>3. CASE i < j
    <3>1. j - 1 \in DOMAIN s /\ f[j] = s[j - 1]
      BY <1>2, <1>3, <2>3
    <3> QED BY <3>1
  <2> QED BY <1>3, <2>1, <2>2, <2>3
<1>5. ToSet(f) \subseteq ToSet(s) \cup {e}
  BY <1>4 DEF ToSet
<1> QED BY <1>5 DEF f

LEMMA RemoveAtSet ==
  ASSUME NEW S, NEW s \in Seq(S), NEW i \in DOMAIN s
  PROVE  ToSet(RemoveAt(s, i)) \subseteq ToSet(s)
<1> DEFINE f == RemoveAt(s, i)
<1>1. /\ f \in Seq(S) /\ Len(f) = Len(s) - 1
      /\ \A j \in 1 .. (Len(s) - 1) : f[j] = IF j < i THEN s[j] ELSE s[j + 1]
  BY RemoveAtFacts
<1> HIDE DEF f
<1>2. DOMAIN f = 1 .. (Len(s) - 1) /\ DOMAIN s = 1 .. Len(s) /\ Len(s) \in Nat
  BY <1>1, LenProperties
<1>3. \A j \in DOMAIN f : \E m \in DOMAIN s : f[j] = s[m]
  <2> SUFFICES ASSUME NEW j \in DOMAIN f PROVE \E m \in DOMAIN s : f[j] = s[m]
    OBVIOUS
  <2>1. j \in DOMAIN s /\ j + 1 \in DOMAIN s
    BY <1>2
  <2> QED BY <1>1, <1>2, <2>1
<1>4. ToSet(f) \subseteq ToSet(s)
  BY <1>3 DEF ToSet
<1> QED BY <1>4 DEF f

LEMMA OwnMountNode ==
  ASSUME IInv, Own, NEW p \in 1 .. MaxBlock, MountNode(p)
  PROVE  Own'
<1>1. /\ p <= Len(block) + 1 /\ Fresh # {} /\ block' = InsertAt(block, p, NewNode)
      /\ UNCHANGED <<old, next, children, from, pc, cur>>
  BY DEF MountNode
<1>2. NewNode \in Fresh /\ NewNode \in Nodes /\ block \in Seq(Nodes)
  BY <1>1, NewNodeType DEF IInv, Shape, TypeOK
<1>3. p \in 1 .. (Len(block) + 1)
  BY <1>1, <1>2, LenProperties
<1>4. ToSet(block') \subseteq ToSet(block) \cup {NewNode}
  BY <1>1, <1>2, <1>3, InsertAtSet
<1> QED BY <1>1, <1>2, <1>4, OwnBlockChanges

LEMMA OwnInsertWithin ==
  ASSUME IInv, Own, NEW n \in Nodes, n \in ToSet(block) \cup Fresh, NEW p \in 1 .. MaxBlock,
         InsertWithin(n, p)
  PROVE  Own'
<1> DEFINE others == Without(block, n)
<1>1. block \in Seq(Nodes)
  BY DEF IInv, Shape, TypeOK
<1>2. others \in Seq(Nodes) /\ ToSet(others) \subseteq ToSet(block)
  BY <1>1, PositionFacts, RemoveAtFacts, RemoveAtSet DEF Without
<1>3. /\ UNCHANGED <<old, next, children, from, pc, cur>>
      /\ p <= Len(others) /\ block' = InsertAt(others, p, n)
  BY DEF InsertWithin
<1> HIDE DEF others
<1>4. p \in 1 .. (Len(others) + 1)
  BY <1>2, <1>3, LenProperties
<1>5. ToSet(block') \subseteq ToSet(others) \cup {n}
  BY <1>2, <1>3, <1>4, InsertAtSet
<1> QED BY <1>2, <1>3, <1>5, OwnBlockChanges

LEMMA OwnRemoveWithin ==
  ASSUME IInv, Own, NEW p \in 1 .. MaxBlock, RemoveNodeWithin(p)
  PROVE  Own'
<1>1. block \in Seq(Nodes)
  BY DEF IInv, Shape, TypeOK
<1>2. /\ UNCHANGED <<old, next, children, from, pc, cur>>
      /\ p \in DOMAIN block /\ block' = RemoveAt(block, p)
  BY DEF RemoveNodeWithin
<1>3. ToSet(block') \subseteq ToSet(block)
  BY <1>1, <1>2, RemoveAtSet
<1> QED BY <1>2, <1>3, OwnBlockChanges

LEMMA OwnAppendChild ==
  ASSUME IInv, Own, pc \in {"mount", "patch", "remove"}, block # <<>>, AppendChild
  PROVE  Own'
<1>1. Shape /\ TypeOK /\ Matches
  BY DEF IInv, Shape
<1>2. /\ pc' = "next" /\ block' = <<>> /\ UNCHANGED <<old, next>>
  BY DEF AppendChild
<1>3. /\ DOMAIN children' = 1 .. index /\ DOMAIN children = 1 .. Len(children)
      /\ Len(children) \in Nat /\ index = Len(children) + 1
      /\ \A k \in 1 .. Len(children) : children'[k] = children[k] /\ from'[k] = from[k]
      /\ children'[index] = [key |-> next[index].key, kind |-> next[index].kind,
                             nodes |-> block]
      /\ from'[index] = cur /\ index \in DOMAIN next
  BY <1>1, Appended, ListTypes
<1>4. \A k \in 1 .. index : k \in 1 .. Len(children) \/ k = index
  BY <1>3
<1>5. ASSUME NEW j \in DOMAIN old
      PROVE  sameVNode(old[j], children'[index]) \/ Disjoint(block, old[j].nodes)
  <2>1. CASE pc = "patch" /\ cur = j
    <3>1. cur # 0
      BY <1>1, <2>1, ListTypes
    <3> QED BY <1>1, <1>3, <2>1, <3>1 DEF Matches, sameVNode
  <2>2. CASE ~(pc = "patch" /\ cur = j)
    BY <2>2 DEF Own, OwnBlock
  <2> QED BY <2>1, <2>2
<1>6. OwnNodes'
  <2> SUFFICES ASSUME NEW k \in 1 .. index, NEW j \in DOMAIN old
               PROVE  \/ sameVNode(old[j], children'[k])
                      \/ Disjoint(children'[k].nodes, old[j].nodes)
    BY <1>2, <1>3 DEF OwnNodes, sameVNode, Disjoint
  <2>1. CASE k \in 1 .. Len(children)
    BY <1>3, <2>1 DEF Own, OwnNodes
  <2>2. CASE k = index
    BY <1>3, <1>5, <2>2
  <2> QED BY <1>4, <2>1, <2>2
<1>7. Placed'
  <2> SUFFICES ASSUME NEW k \in 1 .. index
               PROVE  /\ next[k].key = NoKey => from'[k] \in {0, k}
                      /\ InSamePlace(k) /\ next[k].kind \in Simple =>
                           children'[k].nodes = old[k].nodes
    BY <1>2, <1>3 DEF Placed, InSamePlace, sameVNode
  <2>1. CASE k \in 1 .. Len(children)
    BY <1>3, <2>1 DEF Own, Placed
  <2>2. CASE k = index
    <3>1. next[index].key = NoKey => cur \in {0, index}
      BY DEF Own, PlacedNext
    <3>2. ASSUME InSamePlace(index), next[index].kind \in Simple
          PROVE  block = old[index].nodes
      <4>1. cur = index /\ cur # 0 /\ sameVNode(old[cur], next[index])
        BY <1>1, <3>2, ListTypes DEF Own, PlacedNext, InSamePlace
      <4>2. pc = "patch" /\ old[cur].kind \in Simple
        BY <1>1, <3>2, <4>1 DEF Matches, sameVNode
      <4> QED BY <1>1, <4>1, <4>2 DEF Matches
    <3> QED BY <1>3, <2>2, <3>1, <3>2
  <2> QED BY <1>4, <2>1, <2>2
<1>8. OldApart' /\ PlacedNext' /\ Rendered'
  BY <1>2 DEF Own, OldApart, PlacedNext, Rendered
<1>9. OwnBlock'
  BY <1>2 DEF OwnBlock, Disjoint, ToSet
<1> QED BY <1>6, <1>7, <1>8, <1>9 DEF Own

LEMMA OwnChildMounted ==
  ASSUME IInv, Own, ChildMounted
  PROVE  Own'
<1>1. pc = "mount" /\ block # <<>>
  BY DEF ChildMounted
<1>2. CASE cur = 0
  BY <1>1, <1>2, OwnAppendChild DEF ChildMounted
<1>3. CASE cur # 0
  <2>1. pc' = "remove" /\ UNCHANGED <<old, next, children, from, cur, block>>
    BY <1>3 DEF ChildMounted
  <2>2. index' = index /\ \A k : InSamePlace(k)' = InSamePlace(k)
    BY <2>1, SameLists DEF InSamePlace, sameVNode
  <2>3. OwnBlock' /\ PlacedNext' /\ Rendered'
    BY <1>1, <2>1, <2>2 DEF Own, OwnBlock, PlacedNext, Rendered
  <2> QED BY <2>1, <2>3, OwnKept
<1> QED BY <1>2, <1>3

LEMMA OwnChildDone ==
  ASSUME IInv, Own, ChildReplaced \/ ChildPatched
  PROVE  Own'
<1>1. pc \in {"patch", "remove"} /\ block # <<>> /\ AppendChild
  BY DEF ChildReplaced, ChildPatched, IInv, Shape, Loops
<1> QED BY <1>1, OwnAppendChild

(***************************************************************************)
(* When the list is done.                                                  *)
(***************************************************************************)
LEMMA OwnReturns ==
  ASSUME IInv', pc' = "idle", children' = <<>>, block' = <<>>
  PROVE  Own'
<1>1. OldApart'
  BY IdleApartNext DEF ApartIdle
<1>2. OwnNodes' /\ Placed' /\ OwnBlock'
  BY DEF OwnNodes, Placed, OwnBlock, Disjoint, ToSet
<1>3. PlacedNext' /\ Rendered'
  BY DEF PlacedNext, Rendered
<1> QED BY <1>1, <1>2, <1>3 DEF Own

LEMMA OwnRerendered ==
  ASSUME IInv, IInv', Rerendered
  PROVE  Own'
<1>1. pc = "rerender" /\ pc' = "idle" /\ block' = <<>> /\ children' = children
  BY DEF Rerendered
<1>2. children = <<>>
  <2>1. next = <<>> /\ TypeOK
    BY <1>1 DEF IInv, Shape, Loops
  <2>2. Len(children) = 0
    BY <2>1, ListTypes DEF TypeOK
  <2> QED BY <2>1, <2>2, EmptySeq DEF TypeOK
<1> QED BY <1>1, <1>2, OwnReturns

LEMMA OwnInPlace ==
  ASSUME IInv', InPlace \/ Reordered
  PROVE  Own'
<1>1. pc' = "idle" /\ children' = <<>> /\ block' = <<>>
  BY DEF InPlace, Reordered, PatchReturns
<1> QED BY <1>1, OwnReturns

(***************************************************************************)
(* The loops that remove and move nodes.                                   *)
(***************************************************************************)
LEMMA OwnLoops ==
  ASSUME IInv, Own, \/ ChildFails \/ RemoveNode \/ RemoveRest \/ RestNext
                    \/ Reorder \/ MoveNode \/ MoveNext
  PROVE  Own'
<1>1. UNCHANGED <<old, next, children, from, cur>>
  BY DEF ChildFails, RemoveNode, RemoveRest, RestNext, Reorder, MoveNode, MoveNext, MoveTo
<1>2. \/ pc' = pc /\ block' = block
      \/ pc = "next" /\ pc' = "rest" /\ block' = block
      \/ pc \notin {"idle", "rerender"} /\ pc' = "order"
  BY DEF ChildFails, RemoveNode, RemoveRest, RestNext, Reorder, MoveNode, MoveNext, MoveTo
<1>3. index' = index /\ \A k : InSamePlace(k)' = InSamePlace(k)
  BY <1>1, SameLists DEF InSamePlace, sameVNode
<1>4. OwnBlock' /\ PlacedNext' /\ Rendered'
  BY <1>1, <1>2, <1>3 DEF Own, OwnBlock, PlacedNext, Rendered
<1> QED BY <1>1, <1>4, OwnKept

LEMMA OwnStep ==
  ASSUME IInv, IInv', Own, [Next]_vars
  PROVE  Own'
<1>1. CASE UNCHANGED vars
  <2>1. UNCHANGED <<old, next, children, from, pc, cur, block>>
    BY <1>1 DEF vars
  <2> QED BY <2>1, OwnBlockChanges
<1>2. CASE \E list \in Lists : PatchChildren(list)
  BY <1>2, OwnPatchChildren
<1>3. CASE MountChild \/ PatchChild \/ \E j \in DOMAIN old : Rerender(j)
  BY <1>3, OwnMountChild, OwnPatchChild, OwnRerender
<1>4. CASE \E p \in 1 .. MaxBlock : MountNode(p) \/ RemoveNodeWithin(p)
  BY <1>4, OwnMountNode, OwnRemoveWithin
<1>5. CASE \E p \in 1 .. MaxBlock : InsertNodeWithin(p)
  BY <1>5, OwnInsertWithin, NewNodeType DEF InsertNodeWithin
<1>6. CASE \E q, p \in 1 .. MaxBlock : MoveNodeWithin(q, p)
  <2>1. PICK q \in 1 .. MaxBlock, p \in 1 .. MaxBlock : MoveNodeWithin(q, p)
    BY <1>6
  <2>2. block[q] \in Nodes /\ block[q] \in ToSet(block) /\ InsertWithin(block[q], p)
    BY <2>1, SMTT(30) DEF MoveNodeWithin, IInv, Shape, TypeOK, ToSet
  <2> QED BY <2>2, OwnInsertWithin
<1>7. CASE ChildMounted \/ ChildReplaced \/ ChildPatched \/ Rerendered \/ InPlace \/ Reordered
  BY <1>7, OwnChildMounted, OwnChildDone, OwnRerendered, OwnInPlace
<1>8. CASE \/ ChildFails \/ RemoveNode \/ RemoveRest \/ RestNext
           \/ Reorder \/ MoveNode \/ MoveNext
  BY <1>8, OwnLoops
<1> QED BY <1>1, <1>2, <1>3, <1>4, <1>5, <1>6, <1>7, <1>8 DEF Next

(***************************************************************************)
(* The steps of ChildList.                                                 *)
(***************************************************************************)
LEMMA SharedNodes ==
  \A c, d : Abstract!Shared(c, d) <=> ~Disjoint(c.nodes, d.nodes)
BY DEF Abstract!Shared, Abstract!ToSet, Disjoint, ToSet

LEMMA ApartNext ==
  ASSUME OldApart'
  PROVE  Abstract!Apart(old')
BY SharedNodes DEF OldApart, Abstract!Apart, Disjoint, ToSet, Abstract!Shared, Abstract!ToSet

LEMMA ReturnsPatches ==
  ASSUME IInv, IInv', Own, Own', pc \notin {"idle", "rerender"}, Len(children) = Len(next),
         PatchReturns
  PROVE  Abstract!Patch(next)
<1>1. /\ TypeOK /\ Matches /\ Kept /\ OwnNodes /\ Placed
  BY DEF IInv, Shape, Own
<1>2. /\ old' = children /\ Len(old') = Len(next)
      /\ DOMAIN children = DOMAIN next /\ DOMAIN next = 1 .. Len(next)
  BY <1>1, ListTypes DEF PatchReturns
<1>3. Abstract!Apart(old')
  <2>1. OldApart'
    BY DEF Own
  <2> QED BY <2>1, ApartNext
<1>4. ASSUME NEW k \in DOMAIN next
      PROVE  sameVNode(children[k], next[k]) /\ children[k].nodes # <<>>
  BY <1>1, <1>2, ListTypes DEF Matches, Mounted, Blocks
<1>5. ASSUME NEW k \in DOMAIN next, NEW j \in DOMAIN old,
             Abstract!Shared(old[j], children[k])
      PROVE  sameVNode(old[j], next[k])
  <2>1. sameVNode(old[j], children[k])
    BY <1>1, <1>2, <1>5, SharedNodes DEF OwnNodes, Disjoint
  <2> QED BY <1>4, <2>1 DEF sameVNode
<1>6. ASSUME NEW k \in DOMAIN next, NEW j \in DOMAIN old,
             Abstract!Stays(j, next, k), next[k].kind \in Simple
      PROVE  children[k].nodes = old[j].nodes
  <2>1. sameVNode(old[j], next[k])
    BY <1>6 DEF Abstract!Stays, Abstract!Same, sameVNode
  <2>2. CASE next[k].key = NoKey
    <3>1. j = k /\ InSamePlace(k)
      BY <1>6, <2>1, <2>2 DEF Abstract!Stays, InSamePlace
    <3> QED BY <1>1, <1>2, <1>6, <3>1 DEF Placed
  <2>3. CASE next[k].key # NoKey
    <3>1. Keeps(j, k)
      BY <1>6, <2>1, <2>3 DEF Abstract!Stays, Abstract!First, Keeps, FirstOf, sameVNode
    <3> QED BY <1>1, <1>2, <3>1 DEF Kept
  <2> QED BY <2>2, <2>3
<1>7. ASSUME NEW k \in DOMAIN next
      PROVE  /\ Abstract!Same(old'[k], next[k]) /\ old'[k].nodes # <<>>
             /\ \A j \in DOMAIN old :
                  /\ Abstract!Shared(old[j], old'[k]) => Abstract!Same(old[j], next[k])
                  /\ Abstract!Stays(j, next, k) /\ next[k].kind \in Simple =>
                       old'[k].nodes = old[j].nodes
  BY <1>2, <1>4, <1>5, <1>6 DEF Abstract!Same, sameVNode
<1> QED BY <1>2, <1>3, <1>7 DEF Abstract!Patch

LEMMA RerenderedRerenders ==
  ASSUME IInv, IInv', Own, Own', Rerendered
  PROVE  \E j \in DOMAIN old : Abstract!Rerender(j)
<1>1. /\ TypeOK /\ cur \in DOMAIN old /\ block # <<>> /\ old[cur].kind \in Components
      /\ old' = [old EXCEPT ![cur].nodes = block]
  BY ListTypes DEF Rerendered, IInv, Shape, Loops, TypeOK, Own, Rendered
<1>2. old[cur] \in Mounted /\ old \in Seq(Mounted)
  BY <1>1, ListTypes DEF TypeOK
<1>3. old'[cur].nodes = block
  BY <1>1, <1>2 DEF Mounted
<1>4. OldApart'
  BY DEF Own
<1>5. Abstract!Apart(old')
  BY <1>4, ApartNext
<1>6. Abstract!Rerender(cur)
  BY <1>1, <1>3, <1>5 DEF Abstract!Rerender
<1> QED BY <1>1, <1>6

LEMMA StepRefines ==
  ASSUME IInv, IInv', Own, Own', [Next]_vars
  PROVE  [Abstract!Next]_old
<1>1. CASE old' = old
  BY <1>1
<1>2. CASE InPlace \/ Reordered
  <2>1. pc \notin {"idle", "rerender"} /\ PatchReturns
    BY <1>2 DEF InPlace, Reordered
  <2>2. Len(children) = Len(next) /\ next \in Lists
    BY <1>2, <2>1 DEF InPlace, Reordered, IInv, Shape, Loops, Own, Rendered
  <2>3. Abstract!Patch(next)
    BY <2>1, <2>2, ReturnsPatches
  <2> QED BY <2>2, <2>3 DEF Abstract!Next
<1>3. CASE Rerendered
  BY <1>3, RerenderedRerenders DEF Abstract!Next
<1>4. CASE ~(InPlace \/ Reordered \/ Rerendered)
  <2>1. old' = old
    BY <1>4 DEF Next, vars, PatchChildren, MountChild, PatchChild, Rerender, MountNode,
                InsertNodeWithin, MoveNodeWithin, InsertWithin, RemoveNodeWithin, ChildFails,
                ChildMounted, ChildReplaced, ChildPatched, AppendChild, RemoveNode, RemoveRest,
                RestNext, Reorder, MoveNode, MoveNext, MoveTo
  <2> QED BY <2>1
<1> QED BY <1>2, <1>3, <1>4

(***************************************************************************)
(* patchChildren, and the effects of the children in between, implement    *)
(* ChildList: each patch amounts to one step in which the children that    *)
(* stay keep their nodes and none has a node of another.                   *)
(***************************************************************************)
THEOREM Refinement == Spec => ImplementsChildList
<1>1. Init => Abstract!Init
  BY DEF Init, Abstract!Init
<1>2. IInv /\ [Next]_vars => IInv'
  BY InvStep
<1>3. Own /\ IInv /\ IInv' /\ [Next]_vars => Own'
  BY OwnStep
<1>4. IInv /\ IInv' /\ Own /\ Own' /\ [Next]_vars => [Abstract!Next]_old
  BY StepRefines
<1> QED BY <1>1, <1>2, <1>3, <1>4, InvInit, OwnInit, PTL
        DEF Spec, ImplementsChildList, Abstract!Spec

=============================================================================
