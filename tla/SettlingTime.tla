------------------------------ MODULE SettlingTime ------------------------------
(***************************************************************************)
(* _settling_time of evaluation/kpis.py: when, after the disturbance, both *)
(* compositions of a trajectory have settled.  Times and compositions are  *)
(* integers; a mean is compared by what it is multiplied out.              *)
(***************************************************************************)
EXTENDS Integers, Sequences, FiniteSetsExt

\* +inf.
NotSettled == -1

\* The samples the final value is the mean of.
Tail5Percent(t) == {i \in DOMAIN t : i > (95 * Len(t)) \div 100}

Near(series, tail, band, k) ==
  LET n == Cardinality(tail)
      deviation == n * series[k] - MapThenSumSet(LAMBDA i : series[i], tail)
  IN  -n * band <= deviation /\ deviation <= n * band

InsideBand(t, y_D, x_B, onset, band) ==
  {k \in DOMAIN t : /\ t[k] >= onset
                    /\ Near(y_D, Tail5Percent(t), band, k)
                    /\ Near(x_B, Tail5Percent(t), band, k)}

\* The samples of the window that starts at sample k.
WindowOf(t, k, window) == {i \in DOMAIN t : i >= k /\ t[i] <= t[k] + window}

\* The loop over the samples, with its early return.
settling_time(t, y_D, x_B, onset, band, window) ==
  LET inside == InsideBand(t, y_D, x_B, onset, band)
      scan[k \in 1 .. Len(t) + 1] ==
        IF k > Len(t) THEN NotSettled
        ELSE IF k \notin inside THEN scan[k + 1]
        ELSE IF Len(t) \in WindowOf(t, k, window) THEN NotSettled
        ELSE IF WindowOf(t, k, window) \subseteq inside THEN t[k] - onset
        ELSE scan[k + 1]
  IN  scan[1]

-------------------------------------------------------------------------------
\* What the docstring defines, but for one sample: the first moment after onset
\* from which both stay in the band for a whole window, and the trajectory goes on
\* beyond it.
Settled(t, y_D, x_B, onset, band, window) ==
  LET inside == InsideBand(t, y_D, x_B, onset, band)
      settled == {k \in inside : /\ WindowOf(t, k, window) \subseteq inside
                                 /\ t[Len(t)] > t[k] + window}
  IN  IF settled = {} THEN NotSettled ELSE Min({t[k] - onset : k \in settled})
================================================================================
