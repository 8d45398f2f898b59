------------------------------ MODULE MCLifecycle ------------------------------
(***************************************************************************)
(* Small instances of Lifecycle.                                           *)
(***************************************************************************)
EXTENDS Lifecycle

CONSTANTS s1

MCTypes == {"App", "Panel", "Leaf", "Ghost"}

\* Instance 1 is the application.
MCTypeOf == [i \in 1 .. Count |-> IF i = 1 THEN "App" ELSE IF i \in 2 .. 4 THEN "Panel"
                                   ELSE "Leaf"]
MCInput == [C \in MCTypes |-> s1]

\* The panel loses its leaf; then the application trades the panel for a leaf,
\* and a panel that is rendered after that asks for a component that cannot be
\* created.
MCShows ==
  LET app == <<<<"Panel">>, <<"Panel">>, <<"Leaf">>>>
      panel == <<<<"Leaf">>, <<>>, <<"Ghost">>>>
  IN [C \in MCTypes |-> [v \in 0 .. MaxVersion |->
        CASE C = "App" -> app[v + 1] [] C = "Panel" -> panel[v + 1] [] OTHER -> <<>>]]
=============================================================================
