----------------------------- MODULE MCLLMClient -----------------------------
(* LLMClient for TLC: two pairs (the mock's two), a trace below and one above  *)
(* the budgets, two completions.                                              *)
EXTENDS LLMClient

CONSTANTS Spec_0_99, Interim_0_97

MCAdmissible == {Spec_0_99, Interim_0_97}
MCTraces == {600, 9000}
MCBudgets == {1024}
===============================================================================
