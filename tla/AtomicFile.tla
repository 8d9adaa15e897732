------------------------------ MODULE AtomicFile -------------------------------
(***************************************************************************)
(* A file that is only ever replaced as a whole: a reader sees one of the  *)
(* saved versions, a power loss may go back to an earlier one but never to *)
(* a fragment (the promise in the docstring of industrial_ai/io.py).       *)
(***************************************************************************)
EXTENDS Naturals

VARIABLES
  shown,    \* the version a reader of the path sees, 0 for no file
  durable   \* the version a power loss would leave

vars == <<shown, durable>>

Init == shown = 0 /\ durable = 0

Replace == shown' \in Nat /\ shown' > shown /\ UNCHANGED durable

Persist == durable' = shown /\ UNCHANGED shown

PowerLoss == shown' = durable /\ UNCHANGED durable

Next == Replace \/ Persist \/ PowerLoss

Spec == Init /\ [][Next]_vars
================================================================================
