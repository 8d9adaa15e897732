----------------------------- MODULE RegulatoryLoop -----------------------------
(***************************************************************************)
(* One composition loop of the regulatory layer, as a tick of              *)
(* twin/simulate.py drives it: the rate limiter of setpoint_interface.py,  *)
(* the optional setpoint filter, and the PID of regulatory_pid.py with its *)
(* conditional-integration anti-windup.                                    *)
(*                                                                         *)
(* The unit of time is a tick and compositions, gains and flows are        *)
(* integers.  The measurement is anything the plant may show.  The two     *)
(* channels of the column share no state of this layer, so one stands for  *)
(* either: top (direct acting) or bottom (reverse acting).                 *)
(***************************************************************************)
EXTENDS RateLimiter

CONSTANTS
  Scale,         \* the composition 1.0
  Setpoints,     \* setpoints a supervisor may request
  Measurements,  \* compositions the plant may show
  Kp, Ki, Kd,    \* gains per tick
  OutMin, OutMax

ASSUME LoopAssumption ==
  /\ Scale \in Nat
  /\ Setpoints \subseteq 0 .. Scale /\ Measurements \subseteq 0 .. Scale
  /\ Kp \in Nat /\ Ki \in Nat \ {0} /\ Kd \in Nat
  /\ OutMin \in Int /\ OutMax \in Int /\ OutMin <= 0 /\ 0 <= OutMax

VARIABLES
  request,         \* the setpoint the scenario asks for
  applied,         \* RateLimiter.current
  filtered,        \* output of the setpoint filter
  integral,        \* PIDState.integral
  previous_error,  \* PIDState.previous_error
  output,          \* the command of the last tick
  direct,          \* direct_acting
  smooth,          \* setpoint_filter_tau_min is not None
  asked            \* history: the range of the setpoints requested so far

loopVars == <<request, applied, filtered, integral, previous_error, output,
              direct, smooth, asked>>

-------------------------------------------------------------------------------
(* The filter.                                                             *)

\* A first-order lag with 0 < alpha < 1 ends somewhere between where it was and
\* the setpoint it follows.
Filter(old, target) == {f \in 0 .. Scale : (old <= f /\ f <= target) \/ (target <= f /\ f <= old)}

-------------------------------------------------------------------------------
(* The controller.                                                         *)

Error(sp, y) == IF direct THEN sp - y ELSE y - sp

Unclipped(e) == Kp * e + Ki * integral + Kd * (e - previous_error)

Saturate(u) == Clip(u, OutMin, OutMax)

Freezes_Never(u, e) == FALSE

Freezes_WhenSaturated(u, e) == u > OutMax \/ u < OutMin

\* The integrator stops exactly when the output is saturated and the error
\* pushes further.
Freezes(u, e) == (u > OutMax /\ e > 0) \/ (u < OutMin /\ e < 0)

PIDStep(sp, y) ==
  LET e == Error(sp, y)
      u == Unclipped(e)
  IN  /\ output' = Saturate(u)
      /\ integral' = IF Freezes(u, e) THEN integral ELSE integral + e
      /\ previous_error' = e

-------------------------------------------------------------------------------
(* The loop.                                                               *)

\* The builders seed the integral so that at zero error the output is the bias.
Seeds == {i \in OutMin .. OutMax : OutMin <= Ki * i /\ Ki * i <= OutMax}

\* A new loop: limiter and filter start at the setpoint asked for first.
LoopInit ==
  /\ request \in Setpoints
  /\ applied = request /\ filtered = request
  /\ integral \in Seeds
  /\ previous_error = 0
  /\ output = Ki * integral
  /\ direct \in BOOLEAN /\ smooth \in BOOLEAN
  /\ asked = [lo |-> request, hi |-> request]

\* One tick with request r and measurement y.
Regulate(r, y) ==
  /\ request' = r
  /\ applied' = RateLimit(applied, r)
  /\ IF smooth THEN filtered' \in Filter(filtered, applied') ELSE UNCHANGED filtered
  /\ PIDStep(IF smooth THEN filtered' ELSE applied', y)
  /\ asked' = [lo |-> IF r < asked.lo THEN r ELSE asked.lo,
               hi |-> IF r > asked.hi THEN r ELSE asked.hi]
  /\ UNCHANGED <<direct, smooth>>

Tick == \E r \in Setpoints, y \in Measurements : Regulate(r, y)

\* The simulation loop never waits.
LoopSpec == LoopInit /\ [][Tick]_loopVars /\ WF_loopVars(Tick)

-------------------------------------------------------------------------------
(* Properties.                                                             *)

LoopTypeOK ==
  /\ request \in Setpoints
  /\ applied \in 0 .. Scale /\ filtered \in 0 .. Scale
  /\ integral \in Int
  /\ previous_error \in -Scale .. Scale
  /\ output \in OutMin .. OutMax
  /\ direct \in BOOLEAN /\ smooth \in BOOLEAN
  /\ asked \in [lo : Setpoints, hi : Setpoints]

\* No setpoint the controller sees lies outside the range of what has been
\* asked for, whatever the ramps were cut short at: limiter and filter do not
\* overshoot.
WithinRequests ==
  /\ asked.lo <= applied /\ applied <= asked.hi
  /\ asked.lo <= filtered /\ filtered <= asked.hi

\* Anti-windup: however long and in whatever order the plant misses its
\* setpoint, the integral action stays within one tick's worth of the range of
\* the actuator (regulatory_pid.py, conditional integration).
IntegralBounded ==
  /\ OutMin - (Ki + Kd) * Scale <= Ki * integral
  /\ Ki * integral <= OutMax + (Ki + Kd) * Scale

\* And it never freezes for good: an error that keeps one sign drives the output
\* to the bound on that side, from whatever saturation it started.
LeavesSaturation ==
  /\ <>[](previous_error < 0) => <>[](output = OutMin)
  /\ <>[](previous_error > 0) => <>[](output = OutMax)

\* A setpoint that is held is reached, exactly.
SetpointReached == \A r \in Setpoints : <>[](request = r) => <>[](applied = r)
================================================================================
