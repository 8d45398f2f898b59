------------------------------- MODULE Siblings --------------------------------
(***************************************************************************)
(* One list of children under one DOM parent, and what patchChildren of    *)
(* patch.go does to it, one DOM operation a step: children with and        *)
(* without keys are matched with mounted ones, patched or mounted, what is *)
(* left over is removed, and the children are put in order.                *)
(*                                                                         *)
(* Patch has whole trees, and computes a patch in one step with recursive  *)
(* operators.  Here the tree below a child is abstracted by what it does   *)
(* to this parent: while it is mounted or patched, it inserts, moves and   *)
(* removes nodes of its own, next to one another, and keeps at least one.  *)
(* A fragment keeps its start and end marker, and between them patches a   *)
(* list like this one, so that what is assumed of a child is what holds of *)
(* the list it is in turn made of.                                         *)
(***************************************************************************)
EXTENDS Integers, Sequences, SequencesExt

CONSTANTS
  Nodes,       \* DOM nodes
  Nil,         \* no DOM node
  Keys,        \* the keys of virtual nodes
  NoKey,       \* that of a node without one, the empty string
  Kinds,       \* what sameVNode compares besides the key: the type, the tag
  Simple,      \* kinds of one node that is kept by a patch: elements, texts
  Components,  \* kinds that are rendered again by an effect of their own
  Lists,       \* the lists of children that may be rendered
  Lead,        \* nodes of the parent before the children: a start marker
  Trail,       \* and behind them: an end marker, the siblings of a fragment
  MaxBlock     \* bound: nodes one child consists of

VNodes == [key : Keys, kind : Kinds]

ASSUME NilAssumption == Nil \notin Nodes
ASSUME KindsAssumption == Simple \subseteq Kinds /\ Components \subseteq Kinds \ Simple
ASSUME ListsAssumption == Lists \subseteq Seq(VNodes)
ASSUME AroundAssumption ==
  /\ Lead \in Seq(Nodes) /\ IsInjective(Lead)
  /\ Trail \in Seq(Nodes) /\ IsInjective(Trail)
  /\ ToSet(Lead) \cap ToSet(Trail) = {}

VARIABLES
  kids,      \* the child nodes of the parent
  ok,        \* the DOM has not thrown an exception
  failed,    \* mounting or patching a child has returned an error
  old,       \* the mounted children: [key, kind, nodes]
  next,      \* the children they are patched into
  children,  \* those of next that are mounted
  from,      \* from[k]: where in old children[k] was found, 0 if it was not
  pc,        \* what is going on
  cur,       \* where in old the child at hand was found, 0 if it was not
  block,     \* the nodes of the child at hand, as far as they are done
  todo,      \* the nodes that are still to be removed, or moved
  at         \* the index of the loop over old, or over children

vars == <<kids, ok, failed, old, next, children, from, pc, cur, block, todo, at>>
dom == <<kids, ok>>

Init ==
  /\ kids = Lead \o Trail
  /\ ok = TRUE /\ failed = FALSE
  /\ old = <<>> /\ next = <<>> /\ children = <<>> /\ from = <<>>
  /\ pc = "idle" /\ cur = 0 /\ block = <<>> /\ todo = <<>> /\ at = 0

-----------------------------------------------------------------------------
(* domBoundary, for the one parent there is.  *)

Position(s, n) == CHOOSE i \in DOMAIN s : s[i] = n
Without(s, n) == IF n \in ToSet(s) THEN RemoveAt(s, Position(s, n)) ELSE s

\* appendChild or insertBefore, which take the node from where it is and throw
\* if `before' is not another child of the parent
insertNode(n, before) ==
  LET taken == Without(kids, n) IN
  IF before = Nil
  THEN kids' = Append(taken, n) /\ UNCHANGED ok
  ELSE IF before \in ToSet(taken)
       THEN kids' = InsertAt(taken, Position(taken, before), n) /\ UNCHANGED ok
       ELSE ok' = FALSE /\ UNCHANGED kids

\* throws if the node is not a child of the parent
removeChild(n) ==
  IF n \in ToSet(kids)
  THEN kids' = Without(kids, n) /\ UNCHANGED ok
  ELSE ok' = FALSE /\ UNCHANGED kids

\* nodes that nobody has
Fresh == Nodes \ (ToSet(kids) \cup ToSet(Lead) \cup ToSet(Trail) \cup
                  UNION {ToSet(old[j].nodes) : j \in DOMAIN old})
NewNode == CHOOSE n \in Fresh : TRUE

\* past the end marker of the fragment, or the siblings behind it
MutantBefore == Nil

\* the argument `before' of patchChildren: the end marker of a fragment, or
\* nil for the children of an element
Before == IF Trail = <<>> THEN Nil ELSE Trail[1]

firstDOMNode(m) == m.nodes[1]

-----------------------------------------------------------------------------
(* patchChildren *)

PatchChildren(list) ==
  /\ pc = "idle"
  /\ next' = list /\ pc' = "next"
  /\ UNCHANGED <<dom, failed, old, children, from, cur, block, todo, at>>

hasKeyedChildren ==
  (\E j \in DOMAIN old : old[j].key # NoKey) \/ (\E k \in DOMAIN next : next[k].key # NoKey)

used == {from[k] : k \in DOMAIN from} \ {0}

\* Which mounted child is patched into child k of next: the first of its key,
\* or, for one without a key, the one at the same place.
Candidates(k) ==
  IF next[k].key = NoKey THEN {j \in DOMAIN old : j = k /\ old[j].key = NoKey}
  ELSE {j \in DOMAIN old : /\ old[j].key = next[k].key
                           /\ \A i \in 1 .. (j - 1) : old[i].key # next[k].key}

\* children are matched by their places
MutantByPosition(k) == {j \in DOMAIN old : j = k} \ used

\* a child is patched into one child only
nextOldChild(k) == Candidates(k) \ used

\* what has the same key is patched, whatever it is
MutantSameKey(m, v) == m.key = v.key

sameVNode(m, v) == m.key = v.key /\ m.kind = v.kind

\* the child of next that is being mounted or patched
index == Len(children) + 1

\* mountVNode, before what follows the children or the child it replaces
MountChild ==
  /\ pc = "next" /\ index <= Len(next)
  /\ \/ /\ nextOldChild(index) = {}
        /\ UNCHANGED <<cur, todo>>
     \/ \E j \in nextOldChild(index) :
          /\ ~sameVNode(old[j], next[index])
          /\ cur' = j /\ todo' = old[j].nodes
  /\ pc' = "mount"
  /\ UNCHANGED <<dom, failed, old, next, children, from, block, at>>

\* patchVNode of a child of the same kind
PatchChild ==
  /\ pc = "next" /\ index <= Len(next)
  /\ \E j \in nextOldChild(index) :
       /\ sameVNode(old[j], next[index])
       /\ cur' = j /\ block' = old[j].nodes
  /\ pc' = "patch"
  /\ UNCHANGED <<dom, failed, old, next, children, from, todo, at>>

\* patchRenderedVNode of a child that is a component, by its own effect
Rerender(j) ==
  /\ pc = "idle" /\ old[j].kind \in Components
  /\ pc' = "rerender" /\ cur' = j /\ block' = old[j].nodes
  /\ UNCHANGED <<dom, failed, old, next, children, from, todo, at>>

\* A child that is mounted inserts its nodes, before the anchor it was given or
\* before a node of its own; an element or a text has one.
MountNode(p) ==
  /\ pc = "mount" /\ p <= Len(block) + 1 /\ Len(block) < MaxBlock
  /\ next[index].kind \in Simple => block = <<>>
  /\ Fresh # {}
  /\ insertNode(NewNode, IF p <= Len(block) THEN block[p]
                         ELSE IF cur = 0 THEN Before ELSE firstDOMNode(old[cur]))
  /\ block' = InsertAt(block, p, NewNode)
  /\ UNCHANGED <<failed, old, next, children, from, pc, cur, todo, at>>

Patching == \/ pc = "patch" /\ next[index].kind \notin Simple
            \/ pc = "rerender"

\* A fragment or a component that is patched inserts or moves nodes before
\* other nodes of its own,
InsertWithin(n, p) ==
  LET others == Without(block, n) IN
  /\ Patching /\ p <= Len(others) /\ Len(others) < MaxBlock
  /\ insertNode(n, others[p])
  /\ block' = InsertAt(others, p, n)
  /\ UNCHANGED <<failed, old, next, children, from, pc, cur, todo, at>>

InsertNodeWithin(p) == Fresh # {} /\ InsertWithin(NewNode, p)
MoveNodeWithin(q, p) == q \in DOMAIN block /\ InsertWithin(block[q], p)

\* and removes some of them.
RemoveNodeWithin(p) ==
  /\ Patching /\ p \in DOMAIN block /\ Len(block) > 1
  /\ removeChild(block[p])
  /\ block' = RemoveAt(block, p)
  /\ UNCHANGED <<failed, old, next, children, from, pc, cur, todo, at>>

\* The error of a child is returned as it is: `old' stays the list of the
\* parent, and the nodes stay where they are.
ChildFails ==
  /\ pc = "mount" \/ Patching
  /\ failed' = TRUE
  /\ UNCHANGED <<dom, old, next, children, from, pc, cur, block, todo, at>>

AppendChild ==
  /\ children' = Append(children, [key |-> next[index].key, kind |-> next[index].kind,
                                   nodes |-> block])
  /\ from' = Append(from, cur)
  /\ pc' = "next" /\ cur' = 0 /\ block' = <<>>
  /\ UNCHANGED <<dom, failed, old, next, todo, at>>

\* the child that is replaced is removed when the new one is there
ChildMounted ==
  /\ pc = "mount" /\ block # <<>>
  /\ IF cur = 0 THEN AppendChild
     ELSE /\ pc' = "remove"
          /\ UNCHANGED <<dom, failed, old, next, children, from, cur, block, todo, at>>

ChildReplaced == pc = "remove" /\ todo = <<>> /\ AppendChild
ChildPatched == pc = "patch" /\ AppendChild

Rerendered ==
  /\ pc = "rerender"
  /\ old' = [old EXCEPT ![cur].nodes = block]
  /\ pc' = "idle" /\ cur' = 0 /\ block' = <<>>
  /\ UNCHANGED <<dom, failed, next, children, from, todo, at>>

\* removeMountedVNode, of the child that is replaced or of one that is left over
RemoveNode ==
  /\ pc \in {"remove", "rest"} /\ todo # <<>>
  /\ removeChild(Head(todo)) /\ todo' = Tail(todo)
  /\ UNCHANGED <<failed, old, next, children, from, pc, cur, block, at>>

RemoveRest ==
  /\ pc = "next" /\ Len(children) = Len(next)
  /\ pc' = "rest"
  /\ UNCHANGED <<dom, failed, old, next, children, from, cur, block, todo, at>>

\* the children that have been replaced are removed again
MutantRest(j) == IF \E k \in DOMAIN children : /\ from[k] = j
                                               /\ sameVNode(old[j], children[k])
                 THEN <<>> ELSE old[j].nodes

\* the nodes to be removed of a mounted child: all if it was not used
Rest(j) == IF j \in used THEN <<>> ELSE old[j].nodes

RestNext ==
  /\ pc = "rest" /\ todo = <<>> /\ at < Len(old)
  /\ at' = at + 1 /\ todo' = Rest(at + 1)
  /\ UNCHANGED <<dom, failed, old, next, children, from, pc, cur, block>>

sameMountedChildren ==
  /\ Len(old) = Len(children)
  /\ \A j \in DOMAIN old : from[j] = j /\ sameVNode(old[j], children[j])

PatchReturns ==
  /\ old' = children /\ next' = <<>> /\ children' = <<>> /\ from' = <<>>
  /\ pc' = "idle" /\ block' = <<>> /\ at' = 0
  /\ UNCHANGED <<dom, failed, cur, todo>>

InPlace ==
  /\ pc = "rest" /\ todo = <<>> /\ at = Len(old)
  /\ ~hasKeyedChildren \/ sameMountedChildren
  /\ PatchReturns

\* reorderMountedChildren moves the last child first, each before the child
\* that follows it.
MoveTo(k) ==
  /\ at' = k /\ block' = <<>>
  /\ todo' = IF k = 0 THEN <<>> ELSE children[k].nodes
  /\ UNCHANGED <<dom, failed, old, next, children, from, cur>>

Reorder ==
  /\ pc = "rest" /\ todo = <<>> /\ at = Len(old)
  /\ hasKeyedChildren /\ ~sameMountedChildren
  /\ pc' = "order" /\ MoveTo(Len(children))

\* every child is moved behind those that were moved before it
MutantAnchor == Before

anchor == IF at = Len(children) THEN Before ELSE firstDOMNode(children[at + 1])

\* one insertNode of moveMountedVNodeBefore
MoveNode ==
  /\ pc = "order" /\ todo # <<>>
  /\ insertNode(Head(todo), anchor)
  /\ block' = Append(block, Head(todo)) /\ todo' = Tail(todo)
  /\ UNCHANGED <<failed, old, next, children, from, pc, cur, at>>

MoveNext ==
  /\ pc = "order" /\ todo = <<>> /\ at > 1
  /\ MoveTo(at - 1) /\ UNCHANGED pc

Reordered == pc = "order" /\ todo = <<>> /\ at <= 1 /\ PatchReturns

\* What is rendered after an error is not modelled.
Next ==
  /\ ok /\ ~failed
  /\ \/ \E list \in Lists : PatchChildren(list)
     \/ MountChild
     \/ PatchChild
     \/ \E j \in DOMAIN old : Rerender(j)
     \/ \E p \in 1 .. MaxBlock : MountNode(p)
     \/ \E p \in 1 .. MaxBlock : InsertNodeWithin(p)
     \/ \E q, p \in 1 .. MaxBlock : MoveNodeWithin(q, p)
     \/ \E p \in 1 .. MaxBlock : RemoveNodeWithin(p)
     \/ ChildFails
     \/ ChildMounted
     \/ ChildReplaced
     \/ ChildPatched
     \/ Rerendered
     \/ RemoveNode
     \/ RemoveRest
     \/ RestNext
     \/ InPlace
     \/ Reorder
     \/ MoveNode
     \/ MoveNext
     \/ Reordered

Spec == Init /\ [][Next]_vars

-----------------------------------------------------------------------------
(* Properties *)

Blocks == Seq(Nodes) \ {<<>>}
Mounted == [key : Keys, kind : Kinds, nodes : Blocks]

(***************************************************************************)
(* Every mounted child has a first DOM node, which is the anchor of what   *)
(* is mounted or moved before it, and is found at most once (the map used  *)
(* of patchKeyedChildren).                                                 *)
(***************************************************************************)
TypeOK ==
  /\ kids \in Seq(Nodes)
  /\ ok \in BOOLEAN /\ failed \in BOOLEAN
  /\ old \in Seq(Mounted) /\ children \in Seq(Mounted)
  /\ next \in Lists \cup {<<>>} /\ Len(children) <= Len(next)
  /\ from \in Seq(0 .. Len(old)) /\ Len(from) = Len(children)
  /\ \A k, m \in DOMAIN from : from[k] = from[m] /\ from[k] # 0 => k = m
  /\ pc \in {"idle", "next", "mount", "patch", "rerender", "remove", "rest", "order"}
  /\ cur \in 0 .. Len(old) /\ cur \notin used
  /\ block \in Seq(Nodes) /\ todo \in Seq(Nodes)
  /\ at \in 0 .. Len(old) \/ at \in 0 .. Len(children)

(***************************************************************************)
(* The browser never throws: every anchor that is computed before other    *)
(* nodes are mounted, moved and removed is still a child of the parent     *)
(* when it is used, and every node is removed once.                        *)
(***************************************************************************)
NeverThrows == ok

Follows(s, a, b) == \E i, j \in DOMAIN s : i < j /\ s[i] = a /\ s[j] = b

NodesOf(blocks) == UNION {ToSet(blocks[r]) : r \in DOMAIN blocks}

Earlier(r, p, q, o) == r < q \/ (r = q /\ p < o)

\* s consists of the nodes of the blocks, block by block
InDocumentOrder(s, blocks) ==
  /\ IsInjective(s)
  /\ ToSet(s) = NodesOf(blocks)
  /\ \A r, q \in DOMAIN blocks : \A p \in DOMAIN blocks[r], o \in DOMAIN blocks[q] :
       Earlier(r, p, q, o) => Follows(s, blocks[r][p], blocks[q][o])

(***************************************************************************)
(* When patchChildren returns, the parent has the nodes of the new list,   *)
(* child by child in the order of the list and each of them once, between  *)
(* the nodes it had around them, whatever the lists and their keys were.   *)
(***************************************************************************)
ChildrenInOrder ==
  pc = "idle" =>
    InDocumentOrder(kids, [r \in 0 .. Len(old) + 1 |->
                             IF r = 0 THEN Lead
                             ELSE IF r = Len(old) + 1 THEN Trail ELSE old[r].nodes])

(***************************************************************************)
(* At no time of a patch, and not when a child fails either, are the nodes *)
(* around the list out of the document, or is a node of the list beyond    *)
(* them: insertNode gets the anchors of this list only.                    *)
(***************************************************************************)
SiblingsStay ==
  /\ ToSet(Lead) \cup ToSet(Trail) \subseteq ToSet(kids)
  /\ \A n \in ToSet(kids) \ ToSet(Lead) : \A l \in ToSet(Lead) : Follows(kids, l, n)
  /\ \A n \in ToSet(kids) \ ToSet(Trail) : \A t \in ToSet(Trail) : Follows(kids, n, t)
  /\ \A i, j \in DOMAIN Lead : i < j => Follows(kids, Lead[i], Lead[j])
  /\ \A i, j \in DOMAIN Trail : i < j => Follows(kids, Trail[i], Trail[j])

FirstOf(list, i) == /\ list[i].key # NoKey
                    /\ \A j \in 1 .. (i - 1) : list[j].key # list[i].key

(***************************************************************************)
(* A keyed element that stays in the list, wherever it goes, keeps its DOM *)
(* node, and with it focus and input: from the first step of a patch to    *)
(* the last the node is a child of the parent, and the child that is       *)
(* mounted for it is that node.                                            *)
(***************************************************************************)
KeyedStay ==
  \A j \in DOMAIN old, k \in DOMAIN next :
    /\ FirstOf(old, j) /\ FirstOf(next, k)
    /\ sameVNode(old[j], next[k]) /\ old[j].kind \in Simple
    => /\ ToSet(old[j].nodes) \subseteq ToSet(kids)
       /\ k \in DOMAIN children => children[k].nodes = old[j].nodes

\* the children as they were after the last patch, or the last effect of one
Abstract == INSTANCE ChildList WITH mounted <- old

(***************************************************************************)
(* Seen from one patch to the next, the list of children is one ChildList: *)
(* what the loops, the map used and the moves do in between amounts to one *)
(* step that replaces a list by another.                                   *)
(***************************************************************************)
ImplementsChildList == Abstract!Spec

=============================================================================
