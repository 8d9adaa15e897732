------------------------------ MODULE SweepLedger ------------------------------
(***************************************************************************)
(* What a resumable sweep promises the operator who reads its manifest     *)
(* after any mixture of Ctrl-C, crashes and restarts: the record changes   *)
(* one cell at a time, a cell that is done stays done, and a failure is    *)
(* taken back only by an invocation that asked for it (--retry-failed).    *)
(* SweepDriver is shown to implement this specification.                   *)
(***************************************************************************)
CONSTANT Cells

VARIABLES
  ledger,  \* each cell "open", "failed" or "done"
  retry    \* the current invocation asked for --retry-failed

vars == <<ledger, retry>>

Init == ledger = [c \in Cells |-> "open"] /\ retry \in BOOLEAN

Decide(c) ==
  /\ ledger[c] = "open"
  /\ ledger' \in {[ledger EXCEPT ![c] = s] : s \in {"failed", "done"}}
  /\ UNCHANGED retry

Reopen(c) ==
  /\ retry /\ ledger[c] = "failed"
  /\ ledger' = [ledger EXCEPT ![c] = "open"]
  /\ UNCHANGED retry

Invoke == retry' \in BOOLEAN /\ UNCHANGED ledger

Next == Invoke \/ \E c \in Cells : Decide(c) \/ Reopen(c)

Spec == Init /\ [][Next]_vars
================================================================================
