-------------------------- MODULE SupervisorContract --------------------------
(***************************************************************************)
(* What the supervisory layer promises the regulatory layer, whatever the  *)
(* language model answers: the setpoint pair the plant tracks is always    *)
(* one that was once accepted, and a cycle without an acceptable proposal  *)
(* either holds the last accepted pair or stops the run (ADR 010 sections  *)
(* 2 and 5).  AgentRunner is shown to implement this specification.        *)
(***************************************************************************)
EXTENDS Naturals

CONSTANTS
  Safe,   \* the setpoint pairs the plant may be asked to track
  None    \* no pair yet

VARIABLES
  target,        \* the pair the regulatory layer last tracked
  lastAccepted,  \* the pair most recently accepted
  cycles,        \* supervisor cycles completed
  status         \* "running" or "aborted"

vars == <<target, lastAccepted, cycles, status>>

Init ==
  /\ target = None
  /\ lastAccepted = None
  /\ cycles = 0
  /\ status = "running"

Adopt(t) ==
  /\ status = "running"
  /\ target' = t
  /\ lastAccepted' = t
  /\ cycles' = cycles + 1
  /\ UNCHANGED status

Hold ==
  /\ status = "running"
  /\ lastAccepted # None
  /\ target' = lastAccepted
  /\ cycles' = cycles + 1
  /\ UNCHANGED <<lastAccepted, status>>

Abort ==
  /\ status = "running"
  /\ status' = "aborted"
  /\ UNCHANGED <<target, lastAccepted, cycles>>

Next == (\E t \in Safe : Adopt(t)) \/ Hold \/ Abort

Spec == Init /\ [][Next]_vars
===============================================================================
