------------------------------ MODULE MCSiblings -------------------------------
(***************************************************************************)
(* Small instance of Siblings.                                             *)
(***************************************************************************)
EXTENDS Siblings, FiniteSets

MCNodes == 0 .. 12
MCLead == <<0>>
MCTrail == <<1>>
MCKeys == {"", "a", "b"}

V(key, kind) == [key |-> key, kind |-> kind]

\* Rows of a table that are swapped, added, replaced by another kind and
\* dropped, with one key twice, and children without keys between them.
MCLists ==
  LET a == V("a", "li")
      b == V("b", "li")
      c == V("b", "Card")
      t == V("", "text")
      f == V("", "fragment")
  IN {<<>>, <<a, b>>, <<b, a>>, <<a, c>>, <<c, t>>, <<t, a, b>>, <<b, f, a>>,
      <<a, a>>, <<t, f>>, <<f>>}
=============================================================================
