------------------------------ MODULE ChildList -------------------------------
(***************************************************************************)
(* What the reconciler promises about the children of one DOM node to the  *)
(* code that renders, without the DOM, the loops or the keys' bookkeeping: *)
(* a list is replaced by another in one step, the children that stay are   *)
(* the same, and no child ever has what belonged to another one.           *)
(***************************************************************************)
EXTENDS Integers, Sequences, SequencesExt

CONSTANTS
  NoKey,       \* the key of a node without one
  Simple,      \* kinds of one node: elements, texts
  Components,  \* kinds that are rendered again by an effect of their own
  Lists        \* the lists that may be rendered

VARIABLE
  mounted      \* the children: [key, kind, nodes]

Init == mounted = <<>>

Shared(c, d) == ToSet(c.nodes) \cap ToSet(d.nodes) # {}
Apart(list) == \A j, k \in DOMAIN list : j # k => ~Shared(list[j], list[k])

Same(c, v) == c.key = v.key /\ c.kind = v.kind

First(list, k) == \A i \in 1 .. (k - 1) : list[i].key # list[k].key

\* Child k of the list is what mounted[j] was: the first with its key in both,
\* or a child without a key in its place.
Stays(j, list, k) ==
  /\ Same(mounted[j], list[k])
  /\ IF list[k].key = NoKey THEN j = k ELSE First(mounted, j) /\ First(list, k)

Patch(list) ==
  /\ Len(mounted') = Len(list) /\ Apart(mounted')
  /\ \A k \in DOMAIN list :
       /\ Same(mounted'[k], list[k]) /\ mounted'[k].nodes # <<>>
       /\ \A j \in DOMAIN mounted :
            /\ Shared(mounted[j], mounted'[k]) => Same(mounted[j], list[k])
            /\ Stays(j, list, k) /\ list[k].kind \in Simple =>
                 mounted'[k].nodes = mounted[j].nodes

\* A component finds other nodes for itself; nobody else notices.
Rerender(j) ==
  /\ mounted[j].kind \in Components
  /\ mounted' = [mounted EXCEPT ![j].nodes = mounted'[j].nodes]
  /\ mounted'[j].nodes # <<>> /\ Apart(mounted')

Next ==
  \/ \E list \in Lists : Patch(list)
  \/ \E j \in DOMAIN mounted : Rerender(j)

Spec == Init /\ [][Next]_mounted
===============================================================================
