----------------------------- MODULE MCDoePipeline -----------------------------
(***************************************************************************)
(* Instance of DoePipeline: two factor cells that can overtake each other, *)
(* two screening and two confirmation seeds, two analyses.  Factor cells,  *)
(* and seeds, are interchangeable; only safety is checked.                 *)
(***************************************************************************)
EXTENDS DoePipeline, TLC

\* Of at most two numbers the bootstrap's upper bound is the larger one.
MCAccepted(f) == \A s \in DOMAIN f : f[s] < 1

MCSymmetry == Permutations(Levels) \cup Permutations(Seeds) \cup Permutations(ConfirmationSeeds)
================================================================================
