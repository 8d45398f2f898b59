------------------------------ MODULE AsyncValue ------------------------------
(***************************************************************************)
(* What a Resource promises to component code, without goroutines, locks   *)
(* or contexts: a sequence of requests of which only the latest can be     *)
(* answered, and what is shown is either that it is loading or its answer. *)
(***************************************************************************)
EXTENDS Integers

CONSTANTS
  MaxRequests  \* bound: number of requests

VARIABLES
  request,  \* the number of the latest request
  shown,    \* what Value, Error and Loading report together
  closed    \* the component is gone: no request is accepted any more

vars == <<request, shown, closed>>

Nothing == [kind |-> "empty", of |-> 0]

Init ==
  /\ request = 0
  /\ shown = Nothing
  /\ closed = FALSE

\* A new request replaces whatever is shown.
Request ==
  /\ ~closed
  /\ request < MaxRequests
  /\ request' = request + 1
  /\ shown' = [kind |-> "loading", of |-> request']
  /\ UNCHANGED closed

\* The latest request is answered, once.
Answer(kind) ==
  /\ ~closed
  /\ shown = [kind |-> "loading", of |-> request]
  /\ shown' = [kind |-> kind, of |-> request]
  /\ UNCHANGED <<request, closed>>

\* Closing gives up a request in flight and keeps an answer.
Close ==
  /\ ~closed
  /\ closed' = TRUE
  /\ shown' = IF shown.kind = "loading" THEN Nothing ELSE shown
  /\ UNCHANGED request

Next == Request \/ (\E kind \in {"value", "error"} : Answer(kind)) \/ Close

Spec == Init /\ [][Next]_vars
===============================================================================
