---------------------------- MODULE MCRegulatoryLoop ----------------------------
(***************************************************************************)
(* Instance of RegulatoryLoop: a step of the limiter that does not divide  *)
(* the distance between the setpoints, all three gains in use, and errors  *)
(* of both signs large enough to saturate the output either way.           *)
(* The reading of a relay test, from which the gains are tuned, is checked *)
(* over short signals.                                                     *)
(***************************************************************************)
EXTENDS RegulatoryLoop, Sequences

Relay == INSTANCE RelayCrossings

\* Every measured deviation of six samples, in units of the hysteresis.
Signals == [1 .. 6 -> -2 .. 2]
NonZero == [1 .. 6 -> {-2, -1, 1, 2}]

\* Taking every other crossing takes crossings of one direction, which the period of
\* a relay test rests on: it holds of a signal with no sample exactly on the setpoint.
ASSUME EveryOtherIsOneDirection ==
  \A signal \in NonZero :
    LET same == Relay!SameDirection(signal)
    IN  \A i, j \in DOMAIN same : signal[same[i]] * signal[same[j]] > 0

\* The relay cannot switch twice without the signal crossing the setpoint between,
\* whatever the hysteresis: no switch is missed when the cycles are counted.
ASSUME CrossingBetweenSwitches ==
  \A signal \in Signals, hysteresis \in 0 .. 1 :
    LET relay == Relay!RelayStates(signal, hysteresis)
        switches == {k \in 1 .. 5 : relay[k] # relay[k - 1]}
        crossings == Relay!Crossings(signal)
    IN  \A j, k \in switches :
          j < k => \E i \in DOMAIN crossings : crossings[i] \in j .. k - 1

\* The converse is not so, though the code reads its crossings as "every time the relay
\* would switch": a signal ringing inside the hysteresis band crosses and switches nothing.
ASSUME CrossingsOutnumberSwitches ==
  LET ringing == <<1, -1, 1, -1>>
      relay == Relay!RelayStates(ringing, 1)
  IN  Len(Relay!Crossings(ringing)) = 3 /\ \A k \in 0 .. 3 : relay[k] = 1

\* A usable limit cycle has a positive period and a positive amplitude, so that the
\* ultimate gain divides by neither zero: the check for a zero amplitude never fires.
ASSUME CycleIsReal ==
  \A signal \in NonZero :
    Relay!Usable(signal, 1) => /\ Relay!Pu(signal, 1)[1] * Relay!Pu(signal, 1)[2] > 0
                               /\ Relay!PeakToPeak(signal, 1) > 0

\* The period read off a signal that repeats every four samples is four, wherever its
\* crossings fall between two samples.
ASSUME PeriodIsExact ==
  \A a, b \in {1, 2}, c, d \in {-2, -1} :
    LET cycle == <<a, b, c, d>>
        pu == Relay!Pu([i \in 1 .. 13 |-> cycle[((i - 1) % 4) + 1]], 2)
    IN  pu[1] = 4 * pu[2]
================================================================================
