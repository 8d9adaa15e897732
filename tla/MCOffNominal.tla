------------------------------ MODULE MCOffNominal ------------------------------
(***************************************************************************)
(* Instances of OffNominal, and what the verdict's functions promise,      *)
(* checked on every small table.                                           *)
(***************************************************************************)
EXTENDS OffNominal

\* The simulations of an operating point all succeed, or all diverge.
MCEvaluations == {[s \in Scenarios |-> n] : n \in {0, None}}

-------------------------------------------------------------------------------
(* The scripts run one after the other: baselines, screening, analysis.    *)

MCOneEvaluation == {[s \in Scenarios |-> 2]}

MCInOrder ==
  /\ OffNominalNext
  /\ driverVars' # driverVars => spc = "off" /\ scripts = MaxScripts
  /\ analysisVars' # analysisVars => pc = "off"

MCInOrderSpec == OffNominalInit /\ [][MCInOrder]_offVars

-------------------------------------------------------------------------------
Tables == UNION {[1 .. n -> 0 .. 3] : n \in 1 .. 4}

\* A percentile lies between the least and the greatest of its inputs, and raising
\* an input does not lower it.
ASSUME PercentileBounds ==
  \A f \in Tables :
    /\ 100 * Least(Range(f)) <= P95(f) /\ P95(f) <= 100 * Greatest(Range(f))
    /\ \A i \in DOMAIN f : P95(f) <= P95([f EXCEPT ![i] = @ + 1])

EvenGrounds ==
  UNION {[Ops \X Scenarios \X {"target_acquisition"} \X X -> Numbers] : X \in SUBSET Seeds \ {{}}}

\* Where every scenario has the same seeds the bootstrap neither fails nor puts its
\* upper bound below the estimate.
ASSUME EvenSeedsAreConservative ==
  \A g \in EvenGrounds :
    ~Raises(g) /\ \A o \in Ops : PointP95(g, o, "target_acquisition") <= Upper(g, o, "target_acquisition")
================================================================================
