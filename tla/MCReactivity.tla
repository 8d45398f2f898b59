----------------------------- MODULE MCReactivity -----------------------------
(***************************************************************************)
(* A small instance of Reactivity.                                         *)
(***************************************************************************)
EXTENDS Reactivity

CONSTANTS s1, c1, w1, w2

\* One watcher reads a state, the other a computed of it. A notify loop of s1
\* may run w2 before it invalidates c1, and w2 may call Watch for w1, which is
\* then handed the outdated cache of c1.
ForkReads == (c1 :> {s1}) @@ (w1 :> {c1}) @@ (w2 :> {s1})
=============================================================================
