-------------------------------- MODULE MCPatch --------------------------------
(***************************************************************************)
(* Small instances of Patch.                                               *)
(***************************************************************************)
EXTENDS Patch

Item(key, class) == Element(key, "li", "class" :> class, <<>>, <<>>)
Button(key, handler) == Element(key, "button", <<>>, "click" :> handler, <<Text("x")>>)

\* A component that renders an element or a fragment, as a v-if at the root of
\* a template does.
MCTags == {"Card"}
MCStates == [C \in MCTags |-> {0, 1}]
MCProps == {0, 1}
MCRenders ==
  [C \in MCTags |-> [s \in {0, 1} |-> [p \in MCProps |->
     IF s = 0 THEN Element("", "p", "title" :> p, "click" :> p, <<>>)
     ELSE Fragment("", <<Text("y"), Element("", "b", "title" :> p, <<>>, <<>>)>>)]]]

In(l) == Element("", "main", <<>>, <<>>, l)

\* Keyed children of one element, with a text between them: every arrangement
\* of a few, some that repeat a key, some that change what is behind it.
Keyed ==
  LET items == {Item("a", 0), Item("b", 0), Text("t"), Component("c", "Card", 0)}
      changed == {Button("b", 1), Item("a", 1), Component("c", "Card", 1)}
  IN {In(l) : l \in
        {q \in BoundedSeq(items, 3) : Cardinality(ToSet(q)) = Len(q)}
        \cup {<<Item("a", 0), Item("b", 0), Item("a", 0)>>,
              <<Item("b", 0), Item("b", 0)>>}
        \cup {<<x, Item("b", 0), y>> : x, y \in changed}}

\* Children without keys, raw HTML, listeners that come and go, fragments in
\* and below elements, and other nodes at the root.
Positional ==
  LET items == {Item("", 0), Button("", 1), Button("", 2),
                ElementWithTrustedHTML("", "li", "one"),
                ElementWithTrustedHTML("", "li", "two"),
                Fragment("", <<Text("t"), Button("", 1)>>),
                Fragment("a", <<>>),
                Element("", "li", <<>>, <<>>, <<Component("", "Card", 0)>>)}
  IN {In(<<x>>) : x \in items} \cup {In(<<x, Text("t")>>) : x \in items}
     \cup {Text("t"), Component("", "Card", 0),
           Fragment("", <<Item("a", 0), Item("b", 1)>>),
           Fragment("", <<Item("b", 0), Text("t"), Item("a", 0)>>)}

MCRoots == Keyed \cup Positional

\* A component below a fragment, which caches the nodes of the component.
FragmentRoots == {In(<<>>), In(<<Fragment("", <<Component("", "Card", 0)>>)>>)}
=============================================================================
