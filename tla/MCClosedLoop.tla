------------------------------ MODULE MCClosedLoop ------------------------------
(***************************************************************************)
(* Instance of ClosedLoop: four ticks, the last a short one; an MPC period *)
(* that does not divide the window; the setpoints two steps of the limiter *)
(* apart; two windows, so that the second starts where the first ended.    *)
(* The settling time of its KPIs is checked over short trajectories.       *)
(***************************************************************************)
EXTENDS ClosedLoop

Settling == INSTANCE SettlingTime

\* Every pattern of five samples in and out of the band, on an even time axis and on
\* one that ends in a short tick.
Patterns == [1 .. 5 -> 0 .. 1]
Axes == {<<0, 2, 4, 6, 8>>, <<0, 2, 4, 6, 7>>}

\* The search of the KPIs, which gives up at the first sample whose window leaves the
\* trajectory, misses no later sample that would have qualified: what it returns is
\* the first moment from which both compositions stay in the band for a whole window.
ASSUME SettlesFirst ==
  \A t \in Axes, y_D, x_B \in Patterns, onset \in {0, 3}, window \in 1 .. 4 :
    Settling!settling_time(t, y_D, x_B, onset, 0, window)
      = Settling!Settled(t, y_D, x_B, onset, 0, window)

\* Over twenty-one samples the final value is the mean of two: with those two a step
\* apart no sample is nearer than half a step to it, so the trajectory has settled
\* under a band of one step and never under a band of zero.
ASSUME FinalValueIsAMean ==
  LET t == [i \in 1 .. 21 |-> i]
      flat == [i \in 1 .. 21 |-> 0]
      ringing == [i \in 1 .. 21 |-> i % 2]
  IN  /\ Settling!settling_time(t, ringing, flat, 5, 1, 3) = 0
      /\ Settling!settling_time(t, ringing, flat, 5, 0, 3) = Settling!NotSettled
================================================================================
