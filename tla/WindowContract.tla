----------------------------- MODULE WindowContract -----------------------------
(***************************************************************************)
(* What a regulatory backend promises the supervisor and the scripts: the  *)
(* plant handed back has lived through the whole window, or it is the      *)
(* plant handed in.  ClosedLoop is shown to implement this specification.  *)
(***************************************************************************)
EXTENDS Naturals

CONSTANTS
  Plants,
  Window,  \* minutes of a window
  Inf      \* the KPI of a failed simulation

VARIABLES
  plant,
  lived,   \* minutes the plant has lived through
  kpi      \* of the last window

vars == <<plant, lived, kpi>>

Init == plant \in Plants /\ lived = 0 /\ kpi = Inf

Whole ==
  /\ plant' \in Plants
  /\ lived' = lived + Window
  /\ kpi' \in Nat

Refused == kpi' = Inf /\ UNCHANGED <<plant, lived>>

\* A script scores a window and keeps its own starting point.
Study == kpi' \in Nat \cup {Inf} /\ UNCHANGED <<plant, lived>>

Next == Whole \/ Refused \/ Study

Spec == Init /\ [][Next]_vars
================================================================================
