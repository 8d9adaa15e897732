----------------------------- MODULE RelayCrossings -----------------------------
(***************************************************************************)
(* control/relay_tuning.py: what the relay of a relay test does with the   *)
(* measurements, and how the limit cycle is read off them afterwards.      *)
(* Deviations from the setpoint are integers, times are counted in ticks   *)
(* (the first sample is at 1, and the last tick is a whole one); a period  *)
(* is an exact fraction.                                                   *)
(***************************************************************************)
EXTENDS Integers, Sequences, FiniteSetsExt

\* relay_state at each tick, before whose integration a sample is looked at; the
\* last sample is looked at by no tick, and entry 0 is the initial state.
RelayStates(deviation, hysteresis) ==
  LET relay[k \in 0 .. Len(deviation) - 1] ==
        IF k = 0 THEN 1
        ELSE IF relay[k - 1] > 0 /\ deviation[k] > hysteresis THEN -1
        ELSE IF relay[k - 1] < 0 /\ deviation[k] < -hysteresis THEN 1
        ELSE relay[k - 1]
  IN  relay

\* The samples at which, or after which, the signal crosses zero.
Crossings(signal) ==
  LET Crosses(i) == signal[i] = 0 \/ signal[i] * signal[i + 1] < 0
  IN  SelectSeq([i \in 1 .. Len(signal) - 1 |-> i], Crosses)

\* crossings[::2].
SameDirection(signal) ==
  LET crossings == Crossings(signal)
  IN  [j \in 1 .. (Len(crossings) + 1) \div 2 |-> crossings[2 * j - 1]]

\* The crossings that begin and end the last n full cycles; too few raise.
Usable(signal, n) == Len(SameDirection(signal)) >= n + 1
First(signal, n) == LET same == SameDirection(signal) IN same[Len(same) - n]
Last(signal) == LET same == SameDirection(signal) IN same[Len(same)]

\* The time of a crossing is i + Numerator / Denominator.
Numerator(signal, i) == signal[i]
Denominator(signal, i) == IF signal[i] = 0 THEN 1 ELSE signal[i] - signal[i + 1]

\* Mean period of those cycles, as numerator and denominator.
Pu(signal, n) ==
  LET f == First(signal, n)  l == Last(signal)
      df == Denominator(signal, f)  dl == Denominator(signal, l)
  IN  <<(l - f) * df * dl + Numerator(signal, l) * df - Numerator(signal, f) * dl,
        n * df * dl>>

\* Excursion since the first of those crossings: 2a.
PeakToPeak(signal, n) ==
  LET f == First(signal, n)
      window == {i \in DOMAIN signal : i >= f /\ (i = f => signal[f] = 0)}
  IN  Max({signal[i] : i \in window}) - Min({signal[i] : i \in window})
================================================================================
