----------------------------- MODULE BucketVerdict -----------------------------
(***************************************************************************)
(* What tools/analyze_offnominal_screening.py computes: from the finished  *)
(* cells of the off-nominal screening and the two C1 baselines to the      *)
(* Bucket-B verdict of each sub-metric.  It looks at nothing else.         *)
(*                                                                         *)
(* Operating points, scenarios and seeds are numbered in the order of the  *)
(* script's tuples.  Exact fractions stand for the floats: a mean over     *)
(* seeds is in units of 1/Unit, a percentile in 1/100 of its inputs' unit. *)
(* None is NaN.                                                            *)
(***************************************************************************)
EXTENDS Integers, FiniteSets, Functions

CONSTANTS
  Ops,        \* operating points: _OPS
  Scenarios,  \* _SCENARIOS
  Seeds,      \* _SEEDS
  Numbers,    \* canonical IAEs a finished run may report
  None

Submetrics == {"target_acquisition", "disturbance_rejection"}

Cells == Ops \X Scenarios \X Submetrics \X Seeds

\* Finished cells with a number.
Grounds == UNION {[S -> Numbers] : S \in SUBSET Cells}

\* per_op of a baseline file: each scenario's IAE, nothing if the run failed; an
\* operating point that was skipped has no scenarios.
Baselines == [Ops -> [Scenarios -> Numbers \cup {None}] \cup {None}]

ASSUME VerdictAssumption ==
  /\ Ops \subseteq Nat /\ Scenarios \subseteq Nat /\ Seeds \subseteq Nat
  /\ IsFiniteSet(Ops) /\ IsFiniteSet(Scenarios) /\ IsFiniteSet(Seeds)
  /\ Numbers \subseteq Nat
  /\ None \notin Int \cup Cells \cup Grounds \cup Baselines \cup [Scenarios -> Numbers \cup {None}]

-------------------------------------------------------------------------------
(* Statistics.                                                             *)

Least(S) == CHOOSE x \in S : \A y \in S : x <= y
Greatest(S) == CHOOSE x \in S : \A y \in S : y <= x

\* The element at index p of the sorted values of f, from 0.
Sorted(f, p) ==
  CHOOSE v \in Range(f) : /\ Cardinality({d \in DOMAIN f : f[d] < v}) <= p
                          /\ p < Cardinality({d \in DOMAIN f : f[d] <= v})

\* 95th percentile, with linear interpolation; of nothing, NaN.
P95(f) ==
  LET last == Cardinality(DOMAIN f) - 1
      below == (95 * last) \div 100
      above == Least({below + 1, last})
      fraction == (95 * last) % 100
  IN  IF DOMAIN f = {} THEN None
      ELSE (100 - fraction) * Sorted(f, below) + fraction * Sorted(f, above)

Unit == LET fact[n \in 0 .. Cardinality(Seeds)] == IF n = 0 THEN 1 ELSE n * fact[n - 1]
        IN  fact[Cardinality(Seeds)]

Mean(values) == (Unit * SumFunction(values)) \div Cardinality(DOMAIN values)

-------------------------------------------------------------------------------
(* The screening.                                                          *)

SeedsUsed(g, o, s, m) == {x \in Seeds : <<o, s, m, x>> \in DOMAIN g}

\* A factor cell's numbers, listed by seed.
Individual(g, o, s, m) ==
  LET used == SeedsUsed(g, o, s, m)
      seed(i) == CHOOSE x \in used : Cardinality({y \in used : y < x}) = i - 1
  IN  [i \in 1 .. Cardinality(used) |-> g[<<o, s, m, seed(i)>>]]

\* Scenarios without a finished cell are left out.
Present(g, o, m) == {s \in Scenarios : SeedsUsed(g, o, s, m) # {}}

Screened(g, m) == {o \in Ops : Present(g, o, m) # {}}

PointP95(g, o, m) == P95([s \in Present(g, o, m) |-> Mean(Individual(g, o, s, m))])

\* Seeds are drawn again by position, as many as the first scenario has.
Draws(g, o, m) ==
  LET n == Cardinality(SeedsUsed(g, o, Least(Present(g, o, m)), m)) IN [1 .. n -> 1 .. n]

\* A position beyond a scenario's list is an IndexError.
Raises(g) ==
  \E m \in Submetrics : \E o \in Screened(g, m) : \E s \in Present(g, o, m) :
    Cardinality(SeedsUsed(g, o, s, m)) < Cardinality(SeedsUsed(g, o, Least(Present(g, o, m)), m))

\* The bootstrap's bounds are the 2.5th and 97.5th percentile of 1000 draws: its
\* extremes for up to three seeds, where each draw comes up more often than that.
Resampled(g, o, m) ==
  {P95([s \in Present(g, o, m) |->
          Mean([i \in DOMAIN draw |-> Individual(g, o, s, m)[draw[i]]])]) : draw \in Draws(g, o, m)}

Upper(g, o, m) == Greatest(Resampled(g, o, m))

GridPoint(g, m) == P95([o \in Screened(g, m) |-> PointP95(g, o, m)])
GridUpper(g, m) == P95([o \in Screened(g, m) |-> Upper(g, o, m)])

-------------------------------------------------------------------------------
(* The baseline, the bands and the verdict.                                *)

Finite(b, o) == {s \in Scenarios : b[o][s] # None}

\* Points that were skipped, or where every scenario failed, are left out.
Compared(b) == {o \in Ops : b[o] # None /\ Finite(b, o) # {}}

C1Grid(b) == P95([o \in Compared(b) |-> P95([s \in Finite(b, o) |-> b[o][s]])])

\* c2/c1 < pct/100; against 0 the ratio is infinite or 1, and NaN is not smaller.
Below(c2, c1, pct) == c2 # None /\ c1 > 0 /\ 100 * c2 < pct * Unit * c1

\* bucket_b_threshold_clear; absent, so not clear, without a baseline number.
Clear(g, b, m) == C1Grid(b) # None /\ Below(GridUpper(g, m), C1Grid(b), 67)

Band(g, b, m) ==
  LET c1 == C1Grid(b)
  IN  CASE c1 = None -> "no_c1_baseline"
        [] c1 # None /\ Below(GridUpper(g, m), c1, 50) -> "strong"
        [] c1 # None /\ ~Below(GridUpper(g, m), c1, 50) /\ Clear(g, b, m) -> "moderate"
        [] c1 # None /\ ~Clear(g, b, m) /\ Below(GridPoint(g, m), c1, 67) -> "ambiguous"
        [] c1 # None /\ ~Clear(g, b, m) /\ ~Below(GridPoint(g, m), c1, 67) -> "fails"

\* The sub-metrics on which the verdict is Bucket B; with none, "ambiguous" or
\* "does_not_clear".
BucketB(g, bs) == {m \in Submetrics : Clear(g, bs[m], m)}

Overall(g, bs) ==
  IF BucketB(g, bs) # {} THEN "Bucket B"
  ELSE IF \E m \in Submetrics : Band(g, bs[m], m) = "ambiguous" THEN "ambiguous"
  ELSE "does_not_clear"
================================================================================
