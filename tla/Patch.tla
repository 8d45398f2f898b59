--------------------------------- MODULE Patch ---------------------------------
(***************************************************************************)
(* The reconciler of patch.go over the DOM, with the component boundary of *)
(* mounting.go: the root component and the components below it render     *)
(* virtual nodes, each by its own render effect, and what they rendered    *)
(* before is patched in place.                                             *)
(*                                                                         *)
(* Patching is sequential code without callbacks into it here (Lifecycle  *)
(* has those), so every operation is an operator from a world, the DOM and *)
(* the component instances, to a world and a tree of mounted nodes.  The   *)
(* operators are recursive, which is why nothing is proved in this module. *)
(***************************************************************************)
EXTENDS Integers, Sequences, FiniteSets, SequencesExt

CONSTANTS
  Tags,     \* component types
  States,   \* States[C]: the states a component of type C may be in
  Props,    \* the props it may be given
  Renders,  \* Renders[C][s][p]: the virtual node it then renders
  Roots     \* the virtual nodes the root component may render

ASSUME RendersType == \A C \in Tags : DOMAIN Renders[C] = States[C]

None == "none"
Nil == -1
Container == 0   \* the element of the mount target

(***************************************************************************)
(* Virtual nodes (VNode).  The tag of a text is its content, the attrs of  *)
(* a component its props; attributes and events are functions from names.  *)
(***************************************************************************)
Node(type, key, tag, attrs, events, html, children) ==
  [type |-> type, key |-> key, tag |-> tag, attrs |-> attrs, events |-> events,
   html |-> html, children |-> children]

Element(key, tag, attrs, events, children) ==
  Node("element", key, tag, attrs, events, None, children)
ElementWithTrustedHTML(key, tag, html) ==
  Node("element", key, tag, <<>>, <<>>, html, <<>>)
Text(text) == Node("text", "", text, <<>>, <<>>, None, <<>>)
Fragment(key, children) == Node("fragment", key, "", <<>>, <<>>, None, children)
Component(key, C, props) == Node("component", key, C, props, <<>>, None, <<>>)

AllStates == {s \in [Tags -> UNION {States[C] : C \in Tags}] :
                \A C \in Tags : s[C] \in States[C]}

VARIABLES
  dom,      \* every DOM node: what it is, and its child nodes in order
  live,     \* the component instances whose render effects are not stopped
  ok,       \* the DOM has not thrown an exception
  tree,     \* Mounted.tree of the root component
  shown,    \* what the root component renders now
  state,    \* the state that every component of a type reads
  pending   \* the render effects that are queued; 0 is that of the root

vars == <<dom, live, ok, tree, shown, state, pending>>

\* The world that the operators below transform; ids are the instances that
\* were alive at any time of the operation.
World == [dom |-> dom, live |-> live, ids |-> live, ok |-> ok, state |-> state]

Unmounted == [vnode |-> Text(""), nodes |-> <<>>, children |-> <<>>,
              comp |-> 0, parent |-> Nil]

Init ==
  /\ dom = (Container :> [tag |-> "target", attrs |-> <<>>, events |-> <<>>,
                          html |-> None, kids |-> <<>>])
  /\ live = {}
  /\ ok = TRUE
  /\ tree = Unmounted
  /\ shown \in Roots
  /\ state \in AllStates
  /\ pending = {}

-----------------------------------------------------------------------------
(* domBoundary, as the browser implements it.  *)

NewNode(w) ==
  CHOOSE n \in 1 .. Cardinality(DOMAIN w.dom) : n \notin DOMAIN w.dom

create(w, n, v) ==
  LET made == [tag |-> v.tag, attrs |-> v.attrs, events |-> v.events,
               html |-> v.html, kids |-> <<>>]
  IN [w EXCEPT !.dom = [x \in DOMAIN @ \cup {n} |-> IF x = n THEN made ELSE w.dom[x]]]

\* appendChild or insertBefore, which take the child from where it is and
\* throw if `before' is not a child of the parent
insertNode(w, parent, child, before) ==
  LET taken == [n \in DOMAIN w.dom |-> [w.dom[n] EXCEPT !.kids = Remove(@, child)]]
      kids == taken[parent].kids
  IN
  IF before = Nil
  THEN [w EXCEPT !.dom = [taken EXCEPT ![parent].kids = Append(@, child)]]
  ELSE IF before \notin ToSet(kids) THEN [w EXCEPT !.ok = FALSE]
  ELSE LET i == SelectInSeq(kids, LAMBDA n : n = before) IN
       [w EXCEPT !.dom = [taken EXCEPT ![parent].kids = InsertAt(@, i, child)]]

\* throws if the node is not a child of the parent
removeChild(w, parent, child) ==
  IF child \in ToSet(w.dom[parent].kids)
  THEN [w EXCEPT !.dom[parent].kids = Remove(@, child)]
  ELSE [w EXCEPT !.ok = FALSE]

\* the children there are, whatever they are, are gone
setInnerHTML(w, n, html) ==
  [w EXCEPT !.dom[n].kids = <<>>, !.dom[n].html = html]

patchAttrs(w, n, old, next) ==
  LET changed == {a \in DOMAIN next : a \in DOMAIN old => old[a] # next[a]}
      removed == DOMAIN old \ DOMAIN next
  IN
  [w EXCEPT !.dom[n].attrs =
     [a \in (DOMAIN @ \ removed) \cup changed |->
        IF a \in changed THEN next[a] ELSE w.dom[n].attrs[a]]]

\* patchEvents: a listener that stays gets the new handler, the others are
\* added and removed
patchEvents(w, n, next) == [w EXCEPT !.dom[n].events = next]

-----------------------------------------------------------------------------
(* Mounting.  A mounted node is mountedVNode, and Mounted if it is that of *)
(* a component: comp is the instance, parent its target.                   *)

RECURSIVE mountVNode(_, _, _, _)
RECURSIVE patchVNode(_, _, _, _)
RECURSIVE cleanupMountedVNode(_, _)

Mounting(w, v, nodes, children) ==
  [w |-> w, tree |-> [vnode |-> v, nodes |-> nodes, children |-> children,
                      comp |-> 0, parent |-> Nil]]

firstDOMNode(m) == Head(m.nodes)
lastDOMNode(m) == Last(m.nodes)

\* a child that has been mounted or patched joins those before it
Join(trees, m) == [w |-> m.w, trees |-> Append(trees, m.tree)]

mountChildren(w, parent, before, vs) ==
  FoldLeft(LAMBDA acc, v : Join(acc.trees, mountVNode(acc.w, parent, before, v)),
           [w |-> w, trees |-> <<>>], vs)

mountElement(w, parent, before, v) ==
  LET n == NewNode(w)
      Around(inner) ==
        Mounting(insertNode(inner.w, parent, n, before), v, <<n>>, inner.trees)
  IN Around(mountChildren(create(w, n, v), n, Nil, v.children))

mountText(w, parent, before, v) ==
  LET n == NewNode(w) IN
  Mounting(insertNode(create(w, n, v), parent, n, before), v, <<n>>, <<>>)

Marker(tag) == Text(tag)

fragmentNodes(start, children, end) ==
  <<start>> \o FoldLeft(LAMBDA acc, m : acc \o m.nodes, <<>>, children) \o <<end>>

mountFragment(w, parent, before, v) ==
  LET start == NewNode(w)
      opened == insertNode(create(w, start, Marker("start")), parent, start, before)
      end == NewNode(opened)
      closed == insertNode(create(opened, end, Marker("end")), parent, end, before)
      Around(inner) ==
        Mounting(inner.w, v, fragmentNodes(start, inner.trees, end), inner.trees)
  IN Around(mountChildren(closed, parent, end, v.children))

Rendered(w, v) == Renders[v.tag][w.state[v.tag]][v.attrs]

mountComponentVNode(w, parent, before, v) ==
  LET c == CHOOSE i \in 1 .. Cardinality(w.ids) + 1 : i \notin w.ids
      made == [w EXCEPT !.live = @ \cup {c}, !.ids = @ \cup {c}]
      Around(inner) ==
        [w |-> inner.w,
         tree |-> [vnode |-> v, nodes |-> inner.tree.nodes, children |-> <<inner.tree>>,
                   comp |-> c, parent |-> parent]]
  IN Around(mountVNode(made, parent, before, Rendered(w, v)))

mountVNode(w, parent, before, v) ==
  CASE v.type = "element" -> mountElement(w, parent, before, v)
    [] v.type = "text" -> mountText(w, parent, before, v)
    [] v.type = "fragment" -> mountFragment(w, parent, before, v)
    [] v.type = "component" -> mountComponentVNode(w, parent, before, v)

\* the children of a removed element keep their listeners
MutantShallowCleanup(w, m) ==
  IF m.comp # 0
  THEN cleanupMountedVNode([w EXCEPT !.live = @ \ {m.comp}], m.children[1])
  ELSE IF m.vnode.type = "element"
       THEN [w EXCEPT !.dom[firstDOMNode(m)].events = <<>>]
       ELSE FoldLeft(cleanupMountedVNode, w, m.children)

\* Listeners are removed and components unmounted, all the way down.
cleanupMountedVNode(w, m) ==
  IF m.comp # 0
  THEN cleanupMountedVNode([w EXCEPT !.live = @ \ {m.comp}], m.children[1])
  ELSE FoldLeft(cleanupMountedVNode,
                IF m.vnode.type = "element"
                THEN [w EXCEPT !.dom[firstDOMNode(m)].events = <<>>]
                ELSE w,
                m.children)

removeMountedVNode(w, parent, m) ==
  FoldLeft(LAMBDA acc, n : removeChild(acc, parent, n),
           cleanupMountedVNode(w, m), m.nodes)

\* the new children without the old ones that are not among them
Without(placed, parent, gone) ==
  [placed EXCEPT !.w = FoldLeft(LAMBDA acc, m : removeMountedVNode(acc, parent, m),
                                @, gone)]

-----------------------------------------------------------------------------
(* Patching *)

sameVNode(old, next) ==
  /\ old.type = next.type /\ old.key = next.key
  /\ old.type \in {"element", "component"} => old.tag = next.tag

\* old is Unmounted if there is none
patchOrMountChild(w, parent, before, old, next) ==
  IF old = Unmounted THEN mountVNode(w, parent, before, next)
  ELSE patchVNode(w, parent, old, next)

patchUnkeyedChildren(w, parent, before, old, next) ==
  LET Child(i) == IF i <= Len(old) THEN old[i] ELSE Unmounted IN
  Without(FoldLeft(LAMBDA acc, i :
                     Join(acc.trees,
                          patchOrMountChild(acc.w, parent, before, Child(i), next[i])),
                   [w |-> w, trees |-> <<>>], [i \in DOMAIN next |-> i]),
          parent, SubSeq(old, Len(next) + 1, Len(old)))

hasKeyedChildren(old, next) ==
  \/ \E i \in DOMAIN old : old[i].vnode.key # ""
  \/ \E i \in DOMAIN next : next[i].key # ""

\* children are matched by position only
MutantByPosition(i, v, old, used) == IF i <= Len(old) /\ i \notin used THEN i ELSE 0

\* The position of the old child to be patched into v, 0 for none: the first
\* of its key, or the one at the same position if neither has a key.
nextOldChild(i, v, old, used) ==
  LET j == IF v.key # "" THEN SelectInSeq(old, LAMBDA m : m.vnode.key = v.key)
           ELSE IF i <= Len(old) THEN i ELSE 0
  IN IF j = 0 THEN 0
     ELSE IF old[j].vnode.key # v.key \/ j \in used THEN 0
     ELSE j

\* children are moved one after the other to the end
MutantReorderForward(w, parent, before, ms) ==
  FoldLeft(LAMBDA acc, m :
             FoldLeft(LAMBDA at, n : insertNode(at, parent, n, before), acc,
                      <<firstDOMNode(m)>>),
           w, ms)

\* Every child is moved before its right neighbour, the last one first.
reorderMountedChildren(w, parent, before, ms) ==
  FoldRight(LAMBDA m, acc :
              [w |-> FoldLeft(LAMBDA at, n : insertNode(at, parent, n, acc.anchor),
                              acc.w, m.nodes),
               anchor |-> firstDOMNode(m)],
            ms, [w |-> w, anchor |-> before]).w

\* The children of next are patched or mounted in their order, then the rest of
\* the old ones goes, and the new ones are put in order if they have to be.
patchKeyedChildren(w, parent, before, old, next) ==
  LET Match(i, acc) == nextOldChild(i, next[i], old, acc.used)
      Child(j) == IF j = 0 THEN Unmounted ELSE old[j]
      Place(acc, i, j, m) ==
        [w |-> m.w, trees |-> Append(acc.trees, m.tree), used |-> acc.used \cup {j},
         inPlace |-> acc.inPlace /\ j = i /\ sameVNode(old[i].vnode, next[i])]
      Unused(used) ==
        LET js == SelectSeq([j \in DOMAIN old |-> j], LAMBDA j : j \notin used) IN
        [k \in DOMAIN js |-> old[js[k]]]
      InOrder(placed) ==
        IF placed.inPlace THEN placed
        ELSE [placed EXCEPT !.w = reorderMountedChildren(@, parent, before, placed.trees)]
      Finish(placed) == InOrder(Without(placed, parent, Unused(placed.used)))
  IN Finish(FoldLeft(LAMBDA acc, i :
                       LET j == Match(i, acc) IN
                       Place(acc, i, j,
                             patchOrMountChild(acc.w, parent, before, Child(j), next[i])),
                     [w |-> w, trees |-> <<>>, used |-> {},
                      inPlace |-> Len(old) = Len(next)],
                     [i \in DOMAIN next |-> i]))

patchChildren(w, parent, before, old, next) ==
  IF hasKeyedChildren(old, next)
  THEN patchKeyedChildren(w, parent, before, old, next)
  ELSE patchUnkeyedChildren(w, parent, before, old, next)

patchElementContent(w, n, old, next) ==
  LET Written(cleaned) == IF old.vnode.html = next.html THEN cleaned
                          ELSE setInnerHTML(cleaned, n, next.html)
  IN
  IF next.html # None
  THEN [w |-> Written(FoldLeft(cleanupMountedVNode, w, old.children)), trees |-> <<>>]
  ELSE patchChildren(IF old.vnode.html = None THEN w ELSE setInnerHTML(w, n, None),
                     n, Nil, old.children, next.children)

patchElement(w, old, next) ==
  LET n == firstDOMNode(old)
      attrs == patchAttrs(w, n, old.vnode.attrs, next.attrs)
      Around(content) == Mounting(content.w, next, old.nodes, content.trees)
  IN Around(patchElementContent(patchEvents(attrs, n, next.events), n, old, next))

patchText(w, old, next) ==
  Mounting([w EXCEPT !.dom[firstDOMNode(old)].tag = next.tag], next, old.nodes, <<>>)

patchFragment(w, parent, old, next) ==
  LET end == lastDOMNode(old)
      Around(inner) ==
        Mounting(inner.w, next, fragmentNodes(firstDOMNode(old), inner.trees, end),
                 inner.trees)
  IN Around(patchChildren(w, parent, end, old.children, next.children))

\* the nodes of the owner stay what they were
MutantKeepOwner(w, m, v) ==
  LET Around(inner) ==
        [w |-> inner.w, tree |-> [m EXCEPT !.vnode = v, !.children = <<inner.tree>>]]
  IN Around(patchVNode(w, m.parent, m.children[1], Rendered(w, v)))

\* patchRenderedVNode of the component mounted at m, given its vnode: what it
\* renders is patched, and the nodes of its owner are what it now consists of
rerender(w, m, v) ==
  LET Around(inner) ==
        [w |-> inner.w, tree |-> [m EXCEPT !.vnode = v, !.children = <<inner.tree>>,
                                           !.nodes = inner.tree.nodes]]
  IN Around(patchVNode(w, m.parent, m.children[1], Rendered(w, v)))

patchVNode(w, parent, old, next) ==
  LET Instead(m) == [m EXCEPT !.w = removeMountedVNode(@, parent, old)] IN
  IF ~sameVNode(old.vnode, next)
  THEN Instead(mountVNode(w, parent, firstDOMNode(old), next))
  ELSE CASE next.type = "element" -> patchElement(w, old, next)
         [] next.type = "text" -> patchText(w, old, next)
         [] next.type = "fragment" -> patchFragment(w, parent, old, next)
         [] next.type = "component" -> rerender(w, old, next)

-----------------------------------------------------------------------------
(* The program.  What a component renders depends on reactive state: a     *)
(* change queues the render effects that read it, which then run one by    *)
(* one, each for its own component.                                        *)

RECURSIVE Instances(_)
Instances(m) ==
  (IF m.comp = 0 THEN {} ELSE {m}) \cup
  UNION {Instances(m.children[i]) : i \in DOMAIN m.children}

RECURSIVE Replace(_, _)
\* the tree with the mounted node of an instance replaced
Replace(m, new) ==
  IF m.comp = new.comp THEN new
  ELSE [m EXCEPT !.children = [i \in DOMAIN @ |-> Replace(@[i], new)]]

RECURSIVE Below(_, _)
Below(d, n) == {n} \cup UNION {Below(d, k) : k \in ToSet(d[n].kids)}

RECURSIVE Cached(_)
\* the nodes some mounted node knows
Cached(m) == ToSet(m.nodes) \cup UNION {Cached(m.children[i]) : i \in DOMAIN m.children}

\* DOM nodes nobody can reach are forgotten.
Collected(d, m) ==
  LET kept == Below(d, Container) \cup Cached(m) \cup
              {n \in DOMAIN d : d[n].events # <<>>}
  IN [n \in kept |-> IF n \in Below(d, Container) THEN d[n]
                     ELSE [d[n] EXCEPT !.kids = <<>>]]

(***************************************************************************)
(* The names of nodes and instances mean nothing: between two changes they *)
(* are numbered afresh, in document order, so that states that differ only *)
(* in such names are one.                                                  *)
(***************************************************************************)
RECURSIVE DocumentOrder(_)
DocumentOrder(n) ==
  <<n>> \o FoldLeft(LAMBDA acc, k : acc \o DocumentOrder(k), <<>>, dom[n].kids)

RECURSIVE TreeOrder(_)
TreeOrder(m) ==
  (IF m.comp = 0 THEN <<>> ELSE <<m.comp>>) \o
  FoldLeft(LAMBDA acc, k : acc \o TreeOrder(k), <<>>, m.children)

Numbers(ordered, all) ==
  LET list == ordered \o SetToSeq(all \ ToSet(ordered)) IN
  [x \in all |-> CHOOSE i \in DOMAIN list : list[i] = x]

RECURSIVE Renamed(_, _, _)
Renamed(m, node, comp) ==
  [m EXCEPT !.nodes = [i \in DOMAIN @ |-> node[@[i]]],
            !.children = [i \in DOMAIN @ |-> Renamed(@[i], node, comp)],
            !.comp = IF @ = 0 THEN 0 ELSE comp[@],
            !.parent = IF @ = Nil THEN Nil ELSE node[@]]

Renumber ==
  LET number == Numbers(DocumentOrder(Container), DOMAIN dom)
      node == [n \in DOMAIN dom |-> number[n] - 1]
      comp == Numbers(TreeOrder(tree), live)
      named == [i \in {node[n] : n \in DOMAIN dom} |->
                  CHOOSE n \in DOMAIN dom : node[n] = i]
  IN
  /\ dom' = [i \in DOMAIN named |->
               [dom[named[i]] EXCEPT !.kids = [k \in DOMAIN @ |-> node[@[k]]]]]
  /\ live' = {comp[c] : c \in live}
  /\ tree' = Renamed(tree, node, comp)

\* an operation is over: [w, tree] is what it returned
Become(m) ==
  /\ dom' = Collected(m.w.dom, m.tree)
  /\ live' = m.w.live
  /\ ok' = m.w.ok
  /\ tree' = m.tree

\* Whoever was unmounted is not queued any more.
BecomeQueued(m, queue) ==
  /\ Become(m)
  /\ pending' = queue \cap (m.w.live \cup {0})

Mounted == tree # Unmounted

\* mountComponent of the root component
Mount ==
  /\ ok /\ ~Mounted
  /\ Become(mountVNode(World, Container, Nil, shown))
  /\ UNCHANGED <<shown, state, pending>>

\* State is Set, in a Batch if it is more than one: who reads it is queued.
Change ==
  /\ ok /\ Mounted /\ pending = {}
  /\ Renumber
  /\ \E v \in Roots, s \in AllStates :
       /\ shown' = v
       /\ state' = s
       /\ pending' = {m.comp : m \in {x \in Instances(tree') :
                                        state[x.vnode.tag] # s[x.vnode.tag]}}
                     \cup (IF v = shown THEN {} ELSE {0})
  /\ UNCHANGED ok

\* an effect that is stopped stays in the queue
MutantStayQueued ==
  /\ ok /\ 0 \in pending
  /\ Become(patchVNode(World, Container, tree, shown))
  /\ pending' = pending \ {0}
  /\ UNCHANGED <<shown, state>>

\* The render effect of the root component runs: whoever is unmounted by
\* that leaves the queue.
RenderRoot ==
  /\ ok /\ 0 \in pending
  /\ BecomeQueued(patchVNode(World, Container, tree, shown), pending \ {0})
  /\ UNCHANGED <<shown, state>>

\* The render effect of another component runs by itself.
RenderComponent(c) ==
  LET InTree(new) == [w |-> new.w, tree |-> Replace(tree, new.tree)] IN
  /\ ok /\ c \in pending
  /\ \E m \in Instances(tree) :
       /\ m.comp = c
       /\ BecomeQueued(InTree(rerender(World, m, m.vnode)), pending \ {c})
  /\ UNCHANGED <<shown, state>>

\* Mounted.Unmount of the root component
Unmount ==
  LET Emptied(w) == [w |-> setInnerHTML(w, Container, None), tree |-> Unmounted] IN
  /\ ok /\ Mounted /\ pending = {}
  /\ Become(Emptied(cleanupMountedVNode(World, tree)))
  /\ UNCHANGED <<shown, state, pending>>

Next ==
  \/ Mount \/ Unmount
  \/ Change
  \/ RenderRoot
  \/ \E c \in pending : RenderComponent(c)

Spec == Init /\ [][Next]_vars

-----------------------------------------------------------------------------
(* Properties. *)

\* The type invariant: mounted nodes cache DOM nodes that exist, and effects
\* are queued for the root or for live components.
TypeOK ==
  /\ Container \in DOMAIN dom
  /\ \A n \in DOMAIN dom : ToSet(dom[n].kids) \subseteq DOMAIN dom \ {Container}
  /\ live \subseteq Nat \ {0}
  /\ ok \in BOOLEAN
  /\ shown \in Roots
  /\ state \in AllStates
  /\ pending \subseteq live \cup {0}

RECURSIVE Flat(_)
\* The reference: the DOM that a virtual node describes, as nested sequences.
Flat(v) ==
  LET inner == FoldLeft(LAMBDA acc, x : acc \o Flat(x), <<>>, v.children)
      Leaf(tag) == <<[tag |-> tag, attrs |-> <<>>, events |-> <<>>, html |-> None,
                      kids |-> <<>>]>>
  IN CASE v.type = "element" -> <<[tag |-> v.tag, attrs |-> v.attrs, events |-> v.events,
                                   html |-> v.html, kids |-> inner]>>
       [] v.type = "text" -> Leaf(v.tag)
       [] v.type = "fragment" -> Leaf("start") \o inner \o Leaf("end")
       [] v.type = "component" -> Flat(Renders[v.tag][state[v.tag]][v.attrs])

RECURSIVE Shape(_)
Shape(n) == [dom[n] EXCEPT !.kids = [i \in DOMAIN @ |-> Shape(@[i])]]

\* The DOM is what the components render, attributes, listeners with their
\* handlers and the order of nodes included, once every queued effect has run,
\* in whatever order; and no DOM operation throws (patchVNode and below).
DomMatches ==
  /\ ok
  /\ pending = {} =>
       Shape(Container).kids = IF Mounted THEN Flat(shown) ELSE <<>>

RECURSIVE Known(_)
\* the DOM nodes a mounted tree stands for, in order
Known(m) ==
  IF m.vnode.type \in {"element", "text"} THEN m.nodes
  ELSE LET inner == FoldLeft(LAMBDA acc, x : acc \o Known(x), <<>>, m.children) IN
       IF m.comp # 0 THEN inner ELSE <<Head(m.nodes)>> \o inner \o <<Last(m.nodes)>>

RECURSIVE CachesRight(_)
CachesRight(m) ==
  /\ m.nodes = Known(m)
  /\ \A i \in DOMAIN m.children : CachesRight(m.children[i])

\* The nodes a mounted node has cached, from which it is moved and removed
\* later, are the ones it consists of (mountedVNode.nodes).
CachedNodesCurrent == Mounted => CachesRight(tree)

\* Nothing is leaked: the live render effects are those of the components in
\* the tree, and only nodes in the document have listeners.
NothingLeaks ==
  /\ live = {m.comp : m \in Instances(tree)}
  /\ \A n \in DOMAIN dom : dom[n].events # <<>> => n \in Below(dom, Container)

\* the first child with its key
FirstOfKey(ms, i) ==
  /\ ms[i].vnode.key # ""
  /\ \A k \in 1 .. i - 1 : ms[k].vnode.key # ms[i].vnode.key

\* A child with a key keeps its DOM node and its component instance, and so
\* their state, wherever the root component moves it (patchKeyedChildren).
KeyedChildrenStay ==
  [][ Mounted /\ Mounted' /\ 0 \in pending \ pending' /\ sameVNode(tree.vnode, shown)
      /\ shown.type \in {"element", "fragment"} =>
        \A i \in DOMAIN tree.children, j \in DOMAIN tree'.children :
          LET old == tree.children[i]
              new == tree'.children[j]
          IN FirstOfKey(tree.children, i) /\ FirstOfKey(tree'.children, j)
             /\ sameVNode(old.vnode, new.vnode) =>
               /\ old.comp = new.comp
               /\ old.comp = 0 => firstDOMNode(old) = firstDOMNode(new) ]_vars
===============================================================================
