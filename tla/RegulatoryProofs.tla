--------------------------- MODULE RegulatoryProofs ----------------------------
(***************************************************************************)
(* The regulatory layer.  The single loop, proved for every set of         *)
(* setpoints and measurements, every step of the limiter, all gains and all*)
(* bounds; and the tick loops of a window, proved for every duration, tick,*)
(* period and plant.                                                       *)
(***************************************************************************)
EXTENDS ClosedLoop, RegulatoryLoop, OperatorProofs

-------------------------------------------------------------------------------
(* The single loop.                                                        *)

\* The limiter stays between where it was and what is asked for.
LEMMA RateLimitBetween ==
  ASSUME NEW c \in Int, NEW r \in Int, NEW lo \in Int, NEW hi \in Int,
         lo <= c, c <= hi, lo <= r, r <= hi
  PROVE  RateLimit(c, r) \in Int /\ lo <= RateLimit(c, r) /\ RateLimit(c, r) <= hi
  BY LimiterAssumption DEF RateLimit, Clip

\* So does the filter.
LEMMA FilterBetween ==
  ASSUME NEW old \in 0 .. Scale, NEW target \in 0 .. Scale, NEW f \in Filter(old, target),
         NEW lo \in Int, NEW hi \in Int, lo <= old, old <= hi, lo <= target, target <= hi
  PROVE  f \in 0 .. Scale /\ lo <= f /\ f <= hi
  BY LoopAssumption DEF Filter

\* Products of gains and errors have the sign and the size one expects.
LEMMA Products ==
  ASSUME NEW g \in Nat, NEW m \in Nat, NEW n \in Nat, m <= n
  PROVE  0 <= g * m /\ g * m <= g * n
  OBVIOUS

\* A step that pushes further into saturation is frozen; any other one adds at
\* most one error to an integral action the output still answers for.
LEMMA IntegralUpper ==
  ASSUME NEW e \in 1 .. Scale, NEW p \in -Scale .. Scale, NEW i \in Int,
         Kp * e + Ki * i + Kd * (e - p) <= OutMax
  PROVE  Ki * (i + e) <= OutMax + (Ki + Kd) * Scale
  <1> USE LoopAssumption
  <1>1. 0 <= Kp * e
    BY Products
  <1>2. Ki * e <= Ki * Scale
    BY Products
  <1>3. Kd * (p - e) <= Kd * Scale
    <2>1. CASE p - e >= 0
      BY <2>1, Products
    <2>2. CASE p - e < 0
      <3>1. 0 <= Kd * (e - p)
        BY <2>2, Products
      <3>2. Kd * (p - e) = -(Kd * (e - p)) /\ 0 <= Kd * Scale
        BY Products
      <3> QED BY <3>1, <3>2
    <2> QED BY <2>1, <2>2
  <1>4. /\ Ki * (i + e) = Ki * i + Ki * e
        /\ (Ki + Kd) * Scale = Ki * Scale + Kd * Scale
        /\ Kd * (e - p) = -(Kd * (p - e))
    OBVIOUS
  <1> QED BY <1>1, <1>2, <1>3, <1>4

\* The same below.
LEMMA IntegralLower ==
  ASSUME NEW e \in -Scale .. -1, NEW p \in -Scale .. Scale, NEW i \in Int,
         OutMin <= Kp * e + Ki * i + Kd * (e - p)
  PROVE  OutMin - (Ki + Kd) * Scale <= Ki * (i + e)
  <1> USE LoopAssumption
  <1>1. 0 <= Kp * (-e)
    BY Products
  <1>2. Ki * (-e) <= Ki * Scale
    BY Products
  <1>3. Kd * (e - p) <= Kd * Scale
    <2>1. CASE e - p >= 0
      BY <2>1, Products
    <2>2. CASE e - p < 0
      <3>1. 0 <= Kd * (p - e)
        BY <2>2, Products
      <3>2. Kd * (e - p) = -(Kd * (p - e)) /\ 0 <= Kd * Scale
        BY Products
      <3> QED BY <3>1, <3>2
    <2> QED BY <2>1, <2>2
  <1>4. /\ Ki * (i + e) = Ki * i + Ki * e
        /\ (Ki + Kd) * Scale = Ki * Scale + Kd * Scale
        /\ Kp * (-e) = -(Kp * e) /\ Ki * (-e) = -(Ki * e)
    OBVIOUS
  <1> QED BY <1>1, <1>2, <1>3, <1>4

-------------------------------------------------------------------------------
(* The invariant.                                                          *)

Asked == asked.lo <= request /\ request <= asked.hi

LoopInv == LoopTypeOK /\ Asked /\ WithinRequests /\ IntegralBounded

\* A new loop has been asked for one setpoint and its integral is a bias.
LEMMA LoopInitInv == ASSUME LoopInit PROVE LoopInv
  <1> USE LoopAssumption
  <1>1. integral \in Int /\ OutMin <= Ki * integral /\ Ki * integral <= OutMax
    BY DEF LoopInit, Seeds
  <1>2. 0 <= (Ki + Kd) * Scale
    <2>1. Ki + Kd \in Nat
      OBVIOUS
    <2> QED BY <2>1, Products
  <1>3. direct \in BOOLEAN /\ smooth \in BOOLEAN
    BY Zenon DEF LoopInit
  <1>4. Ki * integral \in Int /\ (Ki + Kd) * Scale \in Int
    BY <1>1
  <1>5. LoopTypeOK
    BY <1>1, <1>3, <1>4 DEF LoopInit, LoopTypeOK
  <1>6. Asked /\ WithinRequests
    BY DEF LoopInit, Asked, WithinRequests
  <1>7. IntegralBounded
    <2> HIDE DEF LoopInit
    <2> QED BY <1>1, <1>2, <1>4 DEF IntegralBounded
  <1> QED BY <1>5, <1>6, <1>7 DEF LoopInv

\* Every tick preserves the invariant.
LEMMA LoopNextInv == ASSUME LoopInv, [Tick]_loopVars PROVE LoopInv'
  <1> USE LoopAssumption
  <1>1. CASE UNCHANGED loopVars
    BY <1>1 DEF loopVars, LoopInv, LoopTypeOK, Asked, WithinRequests, IntegralBounded
  <1>2. ASSUME NEW r \in Setpoints, NEW y \in Measurements,
               Regulate(r, y)
        PROVE  LoopInv'
    <2>1. /\ request' = r /\ direct' = direct /\ smooth' = smooth
          /\ applied' = RateLimit(applied, r)
          /\ IF smooth THEN filtered' \in Filter(filtered, applied') ELSE filtered' = filtered
      BY <1>2 DEF Regulate
    <2>a. /\ asked' = [lo |-> IF r < asked.lo THEN r ELSE asked.lo,
                       hi |-> IF r > asked.hi THEN r ELSE asked.hi]
          /\ asked \in [lo : Setpoints, hi : Setpoints]
      BY <1>2 DEF Regulate, LoopInv, LoopTypeOK
    <2>b. r \in Int /\ y \in Int /\ asked.lo \in Int /\ asked.hi \in Int
      <3>1. asked.lo \in Setpoints /\ asked.hi \in Setpoints
        BY <2>a
      <3>2. \A i \in Setpoints \cup Measurements : i \in Int
        OBVIOUS
      <3> QED BY <3>1, <3>2
    <2>2. /\ asked' \in [lo : Setpoints, hi : Setpoints]
          /\ asked'.lo \in Int /\ asked'.hi \in Int
          /\ asked'.lo <= asked.lo /\ asked.hi <= asked'.hi
          /\ asked'.lo <= r /\ r <= asked'.hi
      <3>1. asked' \in [lo : Setpoints, hi : Setpoints]
        BY <2>a
      <3> QED BY <2>a, <2>b, <3>1
    <2>c. /\ applied \in 0 .. Scale /\ filtered \in 0 .. Scale
          /\ asked'.lo <= applied /\ applied <= asked'.hi
          /\ asked'.lo <= filtered /\ filtered <= asked'.hi
      BY <2>b, <2>2 DEF LoopInv, LoopTypeOK, WithinRequests
    <2>3. /\ applied' \in 0 .. Scale
          /\ asked'.lo <= applied' /\ applied' <= asked'.hi
      <3>1. /\ RateLimit(applied, r) \in Int
            /\ asked'.lo <= RateLimit(applied, r) /\ RateLimit(applied, r) <= asked'.hi
        BY <2>b, <2>2, <2>c, RateLimitBetween
      <3>2. asked'.lo \in 0 .. Scale /\ asked'.hi \in 0 .. Scale
        BY <2>2
      <3> QED BY <2>1, <2>2, <3>1, <3>2
    <2>4. /\ filtered' \in 0 .. Scale
          /\ asked'.lo <= filtered' /\ filtered' <= asked'.hi
      <3>1. CASE filtered' = filtered
        BY <2>c, <3>1
      <3>2. CASE filtered' \in Filter(filtered, applied')
        BY <2>2, <2>c, <2>3, <3>2, FilterBetween
      <3> QED BY <2>1, <3>1, <3>2
    <2> DEFINE target == IF smooth THEN filtered' ELSE applied'
               e == Error(target, y)
               u == Unclipped(e)
    <2>5. e \in -Scale .. Scale
      <3>1. target \in 0 .. Scale /\ y \in 0 .. Scale
        BY <2>3, <2>4
      <3> HIDE DEF target
      <3> QED BY <3>1 DEF Error
    <2> HIDE DEF e
    <2>6. u \in Int
      BY <2>5 DEF Unclipped, LoopInv, LoopTypeOK
    <2>7. /\ output' = Saturate(u)
          /\ integral' = IF Freezes(u, e) THEN integral ELSE integral + e
          /\ previous_error' = e
      BY <1>2 DEF Regulate, PIDStep, e
    <2>8. LoopTypeOK'
      <3>1. output' \in OutMin .. OutMax /\ integral' \in Int
        BY <2>5, <2>6, <2>7 DEF Saturate, Clip, LoopInv, LoopTypeOK
      <3>2. direct' \in BOOLEAN /\ smooth' \in BOOLEAN
        BY <2>1, Zenon DEF LoopInv, LoopTypeOK
      <3> QED BY <2>1, <2>2, <2>3, <2>4, <2>5, <2>7, <3>1, <3>2 DEF LoopTypeOK
    <2>9. Asked' /\ WithinRequests'
      BY <2>1, <2>2, <2>3, <2>4 DEF Asked, WithinRequests
    <2>10. IntegralBounded'
      <3>1. integral \in Int /\ previous_error \in -Scale .. Scale /\ IntegralBounded
        BY DEF LoopInv, LoopTypeOK
      <3>2. CASE integral' = integral
        BY <3>1, <3>2 DEF IntegralBounded
      <3>3. CASE e > 0 /\ u <= OutMax /\ integral' = integral + e
        <4>1. Ki * (integral + e) <= OutMax + (Ki + Kd) * Scale
          BY <2>5, <3>1, <3>3, IntegralUpper DEF Unclipped
        <4>2. Ki * (integral + e) = Ki * integral + Ki * e /\ 0 <= Ki * e
          BY <2>5, <3>1, <3>3, Products
        <4>3. Ki * integral \in Int /\ Ki * e \in Int /\ (Ki + Kd) * Scale \in Int
          BY <2>5, <3>1
        <4> QED BY <3>1, <3>3, <4>1, <4>2, <4>3 DEF IntegralBounded
      <3>4. CASE e < 0 /\ OutMin <= u /\ integral' = integral + e
        <4>1. OutMin - (Ki + Kd) * Scale <= Ki * (integral + e)
          BY <2>5, <3>1, <3>4, IntegralLower DEF Unclipped
        <4>2. Ki * (integral + e) = Ki * integral - Ki * (-e) /\ 0 <= Ki * (-e)
          BY <2>5, <3>1, <3>4, Products
        <4>3. Ki * integral \in Int /\ Ki * (-e) \in Int /\ (Ki + Kd) * Scale \in Int
          BY <2>5, <3>1
        <4> QED BY <3>1, <3>4, <4>1, <4>2, <4>3 DEF IntegralBounded
      <3> QED BY <2>5, <2>6, <2>7, <3>1, <3>2, <3>3, <3>4 DEF Freezes
    <2> QED BY <2>8, <2>9, <2>10 DEF LoopInv
  <1> QED BY <1>1, <1>2 DEF Tick

\* The inductive invariant of the regulatory loop.
THEOREM LoopInvariant == LoopSpec => []LoopInv
  BY LoopInitInv, LoopNextInv, PTL DEF LoopSpec

\* Type correctness: the command stays within the actuator's bounds.
THEOREM LoopTypes == LoopSpec => []LoopTypeOK
  <1>1. LoopInv => LoopTypeOK
    BY DEF LoopInv
  <1> QED BY <1>1, LoopInvariant, PTL

\* Limiter and filter never overshoot.
THEOREM LoopWithinRequests == LoopSpec => []WithinRequests
  <1>1. LoopInv => WithinRequests
    BY DEF LoopInv
  <1> QED BY <1>1, LoopInvariant, PTL

\* The integral cannot wind up.
THEOREM LoopIntegralBounded == LoopSpec => []IntegralBounded
  <1>1. LoopInv => IntegralBounded
    BY DEF LoopInv
  <1> QED BY <1>1, LoopInvariant, PTL

-------------------------------------------------------------------------------
(* The tick loops: what the arithmetic of ticks and periods gives.         *)

\* The number of ticks is the duration divided by the tick, rounded up.
LEMMA TicksRoundUp ==
  NTicks \in Nat \ {0} /\ NTicks * TickDt >= Duration /\ (NTicks - 1) * TickDt < Duration
  <1> DEFINE n == Duration + TickDt - 1
  <1>1. n \in Nat /\ TickDt \in Nat \ {0} /\ n >= TickDt
    BY SimAssumption
  <1>2. NTicks \in Nat /\ TickDt * NTicks <= n /\ n < TickDt * NTicks + TickDt
    BY <1>1 DEF NTicks
  <1>3. NTicks # 0
    BY <1>1, <1>2
  <1>4. (NTicks - 1) * TickDt = TickDt * NTicks - TickDt /\ NTicks * TickDt = TickDt * NTicks
    BY <1>1, <1>2
  <1> QED BY <1>1, <1>2, <1>3, <1>4, SimAssumption

\* Every tick starts before the window ends.
LEMMA TickInWindow == ASSUME NEW i \in Ticks PROVE i * TickDt < Duration
  <1>1. i \in Nat /\ NTicks - 1 - i \in Nat /\ TickDt \in Nat
    BY TicksRoundUp, SimAssumption DEF Ticks
  <1>2. 0 <= (NTicks - 1 - i) * TickDt
    BY <1>1
  <1>3. (NTicks - 1 - i) * TickDt = (NTicks - 1) * TickDt - i * TickDt
    BY <1>1, TicksRoundUp
  <1> QED BY <1>1, <1>2, <1>3, TicksRoundUp, SimAssumption

\* A tick in which the MPC is not due is in the period of the tick before.
LEMMA SamePeriod ==
  ASSUME NEW i \in Nat, ~Due(i + 1)
  PROVE  SolvedAt(i + 1) = SolvedAt(i)
  <1>1. Period \in Nat \ {0}
    BY SimAssumption
  <1>2. i % Period \in 0 .. Period - 1 /\ (i + 1) % Period \in 0 .. Period - 1
    BY <1>1
  <1> DEFINE p == i \div Period
             q == (i + 1) \div Period
  <1>3. /\ p \in Int /\ i = Period * p + (i % Period)
        /\ q \in Int /\ i + 1 = Period * q + ((i + 1) % Period)
    BY <1>1
  <1> HIDE DEF p, q
  <1>4. (i + 1) % Period # 0
    BY DEF Due
  <1>5. Period * (q - p) = 1 + (i % Period) - ((i + 1) % Period)
    BY <1>1, <1>2, <1>3
  <1>6. q = p
    <2>1. CASE q - p >= 1
      <3>1. Period * (q - p) >= Period
        BY <1>1, <1>3, <2>1
      <3> QED BY <1>1, <1>2, <1>4, <1>5, <3>1
    <2>2. CASE q - p <= -1
      <3>1. Period * (q - p) <= -Period
        BY <1>1, <1>3, <2>2
      <3> QED BY <1>1, <1>2, <1>5, <3>1
    <2> QED BY <1>3, <2>1, <2>2
  <1>7. SolvedAt(i) = Period * p /\ SolvedAt(i + 1) = Period * q
    BY <1>1, <1>2, <1>3 DEF SolvedAt
  <1> QED BY <1>6, <1>7

\* The solve in force is never later than the tick.
LEMMA SolvedBefore == ASSUME NEW i \in Nat PROVE SolvedAt(i) \in 0 .. i
  <1>1. Period \in Nat \ {0} /\ i % Period \in 0 .. Period - 1
    BY SimAssumption
  <1>2. i % Period <= i
    BY <1>1
  <1> QED BY <1>1, <1>2 DEF SolvedAt

\* When tick i starts; after the last one, when the window ends.
TimeAt(i) == IF i * TickDt < Duration THEN i * TickDt ELSE Duration

LEMMA TimeAtTicks ==
  /\ TimeAt(0) = 0 /\ TimeAt(NTicks) = Duration
  /\ \A i \in Rows : TimeAt(i) \in 0 .. Duration
  /\ \A i \in Ticks : TimeAt(i) = i * TickDt /\ TimeAt(i) < TimeAt(i + 1)
  <1>1. TickDt \in Nat \ {0} /\ Duration \in Nat \ {0}
    BY SimAssumption
  <1>2. TimeAt(0) = 0 /\ TimeAt(NTicks) = Duration
    BY <1>1, TicksRoundUp DEF TimeAt
  <1>3. ASSUME NEW i \in Rows PROVE TimeAt(i) \in 0 .. Duration
    <2>1. i \in Nat /\ i * TickDt \in Nat
      BY <1>1, TicksRoundUp DEF Rows
    <2> QED BY <1>1, <2>1 DEF TimeAt
  <1>4. ASSUME NEW i \in Ticks PROVE TimeAt(i) = i * TickDt /\ TimeAt(i) < TimeAt(i + 1)
    <2>1. i \in Nat /\ i * TickDt < Duration
      BY TickInWindow, TicksRoundUp DEF Ticks
    <2>2. (i + 1) * TickDt = i * TickDt + TickDt /\ i * TickDt \in Nat
      BY <1>1, <2>1
    <2> QED BY <1>1, <2>1, <2>2 DEF TimeAt
  <1> QED BY <1>2, <1>3, <1>4

-------------------------------------------------------------------------------
(* The invariant.                                                          *)

\* Where the loop stands.
Standing ==
  /\ scenario \in [Ticks -> Nat]
  /\ pc = "drive" => k \in Ticks
  /\ pc \in {"tick", "drive"} => success
  /\ ~success => k \in Ticks
  /\ success /\ pc = "return" => k = NTicks

\* The time axis follows the ticks as far as the loop came.
Clock ==
  /\ \A i \in Rows : i <= k => t_axis[i] = TimeAt(i)
  /\ ~success => \A i \in Rows : i > k => t_axis[i] = TimeAt(k + 1)

\* The command the MPC has in force in tick i.
Solution(i) == Command(SolvedAt(i), X_axis[SolvedAt(i)], scenario[SolvedAt(i)])

\* The command in force belongs to the tick about to be integrated.
InForce ==
  /\ X_axis[k] = x
  /\ pc = "drive" /\ by = "pid" => held = Command(k, x, sp)
  /\ pc = "drive" /\ by = "mpc" => held = Solution(k)
  /\ pc = "tick" /\ by = "mpc" /\ ~Due(k) => held = Solution(k)

\* In a window of the agent the setpoint is one and the limiter sits on it.
Steady ==
  caller = "backend" =>
    \A i \in Ticks : scenario[i] = scenario[0] /\ (by = "pid" => sp = scenario[0])

SimInv ==
  /\ SimTypeOK /\ Standing /\ Clock /\ LogIsTheResult
  /\ InForce /\ CommandsAreFresh /\ Steady /\ AgentTracksItsTarget

\* Facts about indices used in every step.
LEMMA Indices ==
  /\ NTicks \in Nat \ {0} /\ 0 \in Ticks /\ 0 \in Rows /\ NTicks \in Rows
  /\ Ticks \subseteq Rows /\ Rows \subseteq Nat
  /\ \A i \in Ticks : i + 1 \in Rows /\ i < NTicks /\ SolvedAt(i) \in Ticks /\ SolvedAt(i) <= i
  /\ \A i \in Rows : i < NTicks <=> i \in Ticks
  <1>1. NTicks \in Nat \ {0}
    BY TicksRoundUp
  <1>2. ASSUME NEW i \in Ticks PROVE SolvedAt(i) \in Ticks /\ SolvedAt(i) <= i
    <2>1. i \in Nat /\ i <= NTicks - 1
      BY <1>1 DEF Ticks
    <2>2. SolvedAt(i) \in 0 .. i
      BY <2>1, SolvedBefore
    <2> QED BY <1>1, <2>1, <2>2 DEF Ticks
  <1> QED BY <1>1, <1>2 DEF Ticks, Rows

LEMMA Zeros == NoColumn \in Columns /\ NoCommand \in Commands
  BY Indices DEF NoColumn, NoCommand, Column, Command, Columns, Commands

LEMMA SimInitInv == ASSUME SimInit PROVE SimInv
  <1>1. plant \in Columns
    BY DEF SimInit, Column, Columns
  <1>2. SimTypeOK
    <2>1. /\ t_axis \in [Rows -> 0 .. Duration] /\ X_axis \in [Rows -> Columns]
          /\ inputs_axis \in [Ticks -> Commands] /\ applied_setpoints \in [Ticks -> Nat]
          /\ held \in Commands /\ x \in Columns
      BY Zeros, SimAssumption DEF SimInit
    <2>2. /\ pc = "idle" /\ calls \in 0 .. MaxCalls /\ by = "pid" /\ caller = "script"
          /\ k \in Rows /\ sp \in Nat /\ success \in BOOLEAN
          /\ series \in Seq(LogRows) /\ profiles \in Seq(Profiles)
      BY Indices, SimAssumption DEF SimInit
    <2> QED BY <1>1, <2>1, <2>2 DEF SimTypeOK
  <1>3. Standing
    BY DEF SimInit, Standing
  <1>4. Clock
    BY TimeAtTicks, Indices DEF SimInit, Clock
  <1>5. LogIsTheResult
    BY DEF SimInit, LogIsTheResult
  <1>6. InForce /\ CommandsAreFresh /\ Steady /\ AgentTracksItsTarget
    BY Indices DEF SimInit, InForce, CommandsAreFresh, Steady, AgentTracksItsTarget, Ticks
  <1> QED BY <1>2, <1>3, <1>4, <1>5, <1>6 DEF SimInv

-------------------------------------------------------------------------------
(* Steps.                                                                  *)

\* A window starts from empty arrays and a limiter at its first setpoint.
LEMMA CallInv == ASSUME SimInv, Call PROVE SimInv'
  <1>1. /\ k' = 0 /\ x' = plant /\ pc' = "tick" /\ success' = TRUE /\ plant' = plant
        /\ held' = NoCommand /\ series' = <<>> /\ profiles' = <<>>
        /\ t_axis' = [i \in Rows |-> 0]
        /\ X_axis' = [i \in Rows |-> IF i = 0 THEN plant ELSE NoColumn]
        /\ inputs_axis' = [i \in Ticks |-> NoCommand]
        /\ applied_setpoints' = [i \in Ticks |-> 0]
        /\ sp' = scenario'[0]
    BY DEF Call, Seed
  <1>2. scenario' \in [Ticks -> Nat] /\ (caller' = "backend" => \A i \in Ticks : scenario'[i] = scenario'[0])
    <2>1. Requests \subseteq Nat
      BY SimAssumption
    <2>2. scenario' \in Scenarios(caller')
      BY DEF Call
    <2>3. CASE caller' = "backend"
      <3>1. PICK r \in Requests : scenario' = [i \in Ticks |-> r]
        BY <2>2, <2>3 DEF Scenarios
      <3> QED BY <2>1, <3>1, Indices
    <2>4. CASE caller' # "backend"
      BY <2>1, <2>2, <2>4 DEF Scenarios
    <2> QED BY <2>3, <2>4
  <1>3. SimTypeOK'
    <2>1. plant \in Columns /\ by' \in {"pid", "mpc"} /\ caller' \in {"backend", "script"}
      BY DEF Call, SimInv, SimTypeOK
    <2>2. calls' \in 0 .. MaxCalls
      BY SimAssumption DEF Call, SimInv, SimTypeOK
    <2>3. /\ t_axis' \in [Rows -> 0 .. Duration] /\ X_axis' \in [Rows -> Columns]
          /\ inputs_axis' \in [Ticks -> Commands] /\ applied_setpoints' \in [Ticks -> Nat]
      BY <1>1, <2>1, Zeros, SimAssumption
    <2>4. k' \in Rows /\ sp' \in Nat /\ series' \in Seq(LogRows) /\ profiles' \in Seq(Profiles)
      BY <1>1, <1>2, Indices
    <2> QED BY <1>1, <2>1, <2>2, <2>3, <2>4, Zeros DEF SimTypeOK
  <1>4. Standing'
    BY <1>1, <1>2 DEF Standing
  <1>5. Clock'
    BY <1>1, TimeAtTicks, Indices DEF Clock
  <1>6. LogIsTheResult'
    BY <1>1 DEF LogIsTheResult
  <1>7. InForce'
    <2>1. Due(0)
      BY SimAssumption DEF Due
    <2> QED BY <1>1, <2>1, Indices DEF InForce
  <1>8. CommandsAreFresh' /\ AgentTracksItsTarget'
    BY <1>1, Indices DEF CommandsAreFresh, AgentTracksItsTarget, Ticks
  <1>9. Steady'
    BY <1>1, <1>2 DEF Steady
  <1> QED BY <1>3, <1>4, <1>5, <1>6, <1>7, <1>8, <1>9 DEF SimInv

\* A break leaves the filled rows alone, so all that is said of them stays true.
LEMMA AbortInv == ASSUME SimInv, Abort, k \in Ticks PROVE SimInv'
  <1>1. /\ success' = FALSE /\ pc' = "return"
        /\ t_axis' = [i \in Rows |-> IF i > k THEN TNext ELSE t_axis[i]]
        /\ X_axis' = [i \in Rows |-> IF i > k THEN x ELSE X_axis[i]]
        /\ UNCHANGED <<calls, plant, by, caller, scenario, kpi, series, profiles, k, x, sp,
                       held, inputs_axis, applied_setpoints>>
    BY DEF Abort, Pad, callVars, loggerVars
  <1>2. TNext = TimeAt(k + 1) /\ TimeAt(k + 1) \in 0 .. Duration
    BY Indices, TimeAtTicks DEF TNext, TimeAt
  <1>3. \A i \in Rows : i <= k => t_axis'[i] = t_axis[i] /\ X_axis'[i] = X_axis[i]
    BY <1>1, Indices
  <1>4. SimTypeOK'
    <2>1. t_axis' \in [Rows -> 0 .. Duration]
      BY <1>1, <1>2 DEF SimInv, SimTypeOK
    <2>2. X_axis' \in [Rows -> Columns]
      BY <1>1 DEF SimInv, SimTypeOK
    <2> QED BY <1>1, <2>1, <2>2 DEF SimInv, SimTypeOK
  <1>5. Standing'
    BY <1>1 DEF SimInv, Standing
  <1>6. Clock'
    BY <1>1, <1>2, <1>3 DEF SimInv, Clock
  <1>7. LogIsTheResult'
    <2>1. \A i \in 1 .. k : i \in Rows /\ i <= k
      BY Indices DEF Ticks, Rows
    <2> QED BY <1>1, <1>3, <2>1 DEF SimInv, LogIsTheResult
  <1>8. InForce'
    BY <1>1, <1>3, Indices DEF SimInv, InForce
  <1>9. CommandsAreFresh'
    <2>1. SUFFICES ASSUME NEW i \in Ticks, i < k,
                          NEW from, from = IF by = "mpc" THEN SolvedAt(i) ELSE i
                   PROVE  inputs_axis[i] = Command(from, X_axis'[from],
                            IF by = "mpc" THEN scenario[from] ELSE applied_setpoints[i])
      BY <1>1 DEF CommandsAreFresh
    <2>2. from \in Rows /\ from <= k
      BY <2>1, Indices DEF Ticks
    <2>3. X_axis'[from] = X_axis[from]
      BY <1>3, <2>2
    <2> QED BY <2>1, <2>3 DEF SimInv, CommandsAreFresh
  <1>10. Steady' /\ AgentTracksItsTarget'
    BY <1>1 DEF SimInv, Steady, AgentTracksItsTarget
  <1> QED BY <1>4, <1>5, <1>6, <1>7, <1>8, <1>9, <1>10 DEF SimInv

\* A step that leaves the result and the log's rows alone.
LEMMA ResultKept ==
  ASSUME SimInv, UNCHANGED <<arrayVars, series, k, by, caller, scenario, success>>
  PROVE  Clock' /\ CommandsAreFresh' /\ AgentTracksItsTarget' /\ (UNCHANGED profiles => LogIsTheResult')
  BY DEF arrayVars, SimInv, Clock, CommandsAreFresh, AgentTracksItsTarget, LogIsTheResult

\* Issuing a command touches the command and, for the PID, its limiter.
LEMMA DriveInv == ASSUME SimInv, DrivePID \/ SolveMPC \/ HoldMPC PROVE SimInv'
  <1>1. /\ pc = "tick" /\ pc' = "drive" /\ k < NTicks
        /\ UNCHANGED <<calls, plant, by, caller, scenario, kpi, series, profiles, t_axis, X_axis,
                       inputs_axis, applied_setpoints, k, x, success>>
    BY DEF DrivePID, SolveMPC, HoldMPC, callVars, loggerVars, arrayVars
  <1>2. k \in Ticks /\ success /\ X_axis[k] = x /\ x \in Columns /\ scenario[k] \in Nat
    BY <1>1, Indices DEF SimInv, SimTypeOK, Standing, InForce
  <1>3. /\ held' \in Commands /\ sp' \in Nat
        /\ by = "pid" => held' = Command(k, x, sp')
        /\ by = "mpc" => held' = Solution(k)
        /\ by = "pid" /\ caller = "backend" => sp' = scenario[k]
        /\ by = "mpc" => sp' = sp
    <2>1. CASE DrivePID
      <3>1. sp \in Nat /\ MaxStep \in Nat \ {0}
        BY LimiterAssumption DEF SimInv, SimTypeOK
      <3>2. by = "pid" /\ sp' = RateLimit(sp, scenario[k]) /\ held' = Command(k, x, sp')
        BY <2>1 DEF DrivePID
      <3>3. sp' \in Nat
        BY <1>2, <3>1, <3>2 DEF RateLimit, Clip
      <3>4. sp = scenario[k] => sp' = scenario[k]
        BY <1>2, <3>1, <3>2 DEF RateLimit, Clip
      <3>5. caller = "backend" => sp = scenario[k]
        BY <1>2, <3>2 DEF SimInv, Steady
      <3>6. held' \in Commands
        BY <1>2, <3>2, <3>3 DEF Command, Commands
      <3> QED BY <3>2, <3>3, <3>4, <3>5, <3>6
    <2>2. CASE SolveMPC
      <3>1. by = "mpc" /\ Due(k) /\ sp' = sp /\ held' = Command(k, x, scenario[k])
        BY <2>2 DEF SolveMPC
      <3>2. SolvedAt(k) = k
        BY <1>2, <3>1, Indices DEF Due, SolvedAt
      <3>3. held' \in Commands
        BY <1>2, <3>1 DEF Command, Commands
      <3> QED BY <1>2, <3>1, <3>2, <3>3 DEF Solution, SimInv, SimTypeOK
    <2>3. CASE HoldMPC
      BY <1>1, <2>3 DEF HoldMPC, SimInv, SimTypeOK, InForce
    <2> QED BY <2>1, <2>2, <2>3
  <1>4. SimTypeOK'
    BY <1>1, <1>3 DEF SimInv, SimTypeOK
  <1>5. Standing'
    BY <1>1, <1>2 DEF SimInv, Standing
  <1>6. InForce'
    BY <1>1, <1>2, <1>3 DEF InForce, Solution
  <1>7. Steady'
    BY <1>1, <1>2, <1>3, Indices DEF SimInv, Steady
  <1>8. Clock' /\ CommandsAreFresh' /\ AgentTracksItsTarget' /\ LogIsTheResult'
    BY <1>1, ResultKept DEF arrayVars
  <1> QED BY <1>4, <1>5, <1>6, <1>7, <1>8 DEF SimInv

\* The final profile is of the last row.
LEMMA EndInv == ASSUME SimInv, LoopEnds PROVE SimInv'
  <1>1. /\ pc = "tick" /\ k = NTicks /\ pc' = "return"
        /\ UNCHANGED <<calls, plant, by, caller, scenario, kpi, series, t_axis, X_axis,
                       inputs_axis, applied_setpoints, k, x, sp, held, success>>
    BY DEF LoopEnds, callVars, arrayVars
  <1>2. profiles' = profiles \/ profiles' = Append(profiles, [t |-> t_axis[k], x |-> X_axis[k]])
    BY <1>1 DEF LoopEnds
  <1>3. profiles \in Seq(Profiles) /\ [t |-> t_axis[k], x |-> X_axis[k]] \in Profiles
    BY DEF SimInv, SimTypeOK, Profiles
  <1>4. SimTypeOK'
    <2>1. profiles' \in Seq(Profiles)
      BY <1>2, <1>3
    <2> QED BY <1>1, <2>1 DEF SimInv, SimTypeOK
  <1>5. Standing' /\ InForce' /\ Steady'
    BY <1>1, Indices DEF SimInv, Standing, InForce, Steady, Solution
  <1>6. Clock' /\ CommandsAreFresh' /\ AgentTracksItsTarget'
    BY <1>1, ResultKept DEF arrayVars
  <1>7. LogIsTheResult'
    <2>1. CASE profiles' = profiles
      BY <1>1, <2>1, ResultKept DEF arrayVars
    <2>2. CASE profiles' = Append(profiles, [t |-> t_axis[k], x |-> X_axis[k]])
      <3>1. k \in 1 .. k
        BY <1>1, Indices
      <3>2. \A j \in DOMAIN profiles' : (j \in DOMAIN profiles /\ profiles'[j] = profiles[j])
                                        \/ profiles'[j] = [t |-> t_axis[k], x |-> X_axis[k]]
        BY <1>3, <2>2
      <3> QED BY <1>1, <3>1, <3>2 DEF SimInv, LogIsTheResult
    <2> QED BY <1>2, <2>1, <2>2
  <1> QED BY <1>4, <1>5, <1>6, <1>7 DEF SimInv

\* The caller takes a state that is in the result, or keeps its own.
LEMMA ReturnInv == ASSUME SimInv, Return PROVE SimInv'
  <1>1. /\ pc = "return" /\ pc' = "idle"
        /\ UNCHANGED <<calls, by, caller, scenario, series, profiles, t_axis, X_axis,
                       inputs_axis, applied_setpoints, k, x, sp, held, success>>
    BY DEF Return, loggerVars, arrayVars
  <1>2. plant' \in Columns
    BY Indices DEF Return, XFinal, SimInv, SimTypeOK
  <1>3. SimTypeOK'
    BY <1>1, <1>2 DEF SimInv, SimTypeOK
  <1>4. Standing' /\ InForce' /\ Steady'
    BY <1>1 DEF SimInv, Standing, InForce, Steady, Solution
  <1>5. Clock' /\ CommandsAreFresh' /\ AgentTracksItsTarget' /\ LogIsTheResult'
    BY <1>1, ResultKept DEF arrayVars
  <1> QED BY <1>3, <1>4, <1>5 DEF SimInv

\* A good tick fills the next row and logs it.
LEMMA IntegrateInv == ASSUME SimInv, Integrate PROVE SimInv'
  <1> DEFINE ap == Applied
             row == [t |-> TNext, x |-> x', u |-> held, requested |-> scenario[k], applied |-> ap]
             profile == [t |-> TNext, x |-> x']
  <1>1. /\ pc = "drive" /\ pc' = "tick" /\ k' = k + 1
        /\ t_axis' = [t_axis EXCEPT ![k + 1] = TNext]
        /\ X_axis' = [X_axis EXCEPT ![k + 1] = x']
        /\ inputs_axis' = [inputs_axis EXCEPT ![k] = held]
        /\ applied_setpoints' = [applied_setpoints EXCEPT ![k] = ap]
        /\ series' = Append(series, row)
        /\ profiles' = profiles \/ profiles' = Append(profiles, profile)
        /\ UNCHANGED <<calls, plant, by, caller, scenario, kpi, sp, held, success>>
    BY DEF Integrate, RecordProfile, LogState, callVars
  <1>2. /\ k \in Ticks /\ k \in Rows /\ k + 1 \in Rows /\ k < NTicks /\ success
        /\ SolvedAt(k) \in Ticks /\ SolvedAt(k) <= k /\ k \in Nat
    BY <1>1, Indices DEF SimInv, Standing
  <1>3. TNext = TimeAt(k + 1) /\ TNext \in 0 .. Duration /\ k * TickDt < TNext
    <2>1. TNext = TimeAt(k + 1)
      BY DEF TNext, TimeAt
    <2> QED BY <1>2, <2>1, TimeAtTicks
  <1>4. x' \in Columns
    <2>1. PICK c \in Compositions : x' = Column(c, x.lived + TNext - k * TickDt)
      BY DEF Integrate
    <2>2. x.lived \in Nat
      BY DEF SimInv, SimTypeOK, Columns
    <2>3. k * TickDt \in Nat
      BY <1>2, SimAssumption
    <2>4. x.lived + TNext - k * TickDt \in Nat
      BY <1>3, <2>2, <2>3, SimAssumption
    <2> QED BY <2>1, <2>4 DEF Column, Columns
  <1>5. ap \in Nat /\ scenario[k] \in Nat /\ held \in Commands
    BY <1>2 DEF Applied, SimInv, SimTypeOK, Standing
  <1>6. /\ DOMAIN t_axis = Rows /\ DOMAIN X_axis = Rows
        /\ DOMAIN inputs_axis = Ticks /\ DOMAIN applied_setpoints = Ticks
        /\ series \in Seq(LogRows) /\ profiles \in Seq(Profiles)
    BY DEF SimInv, SimTypeOK
  <1>7. /\ \A i \in Rows : i <= k => t_axis'[i] = t_axis[i] /\ X_axis'[i] = X_axis[i]
        /\ t_axis'[k + 1] = TNext /\ X_axis'[k + 1] = x'
        /\ \A i \in Ticks : i < k => inputs_axis'[i] = inputs_axis[i]
                                     /\ applied_setpoints'[i] = applied_setpoints[i]
        /\ inputs_axis'[k] = held /\ applied_setpoints'[k] = ap
    BY <1>1, <1>2, <1>6, Indices
  <1>8. row \in LogRows /\ profile \in Profiles
    BY <1>3, <1>4, <1>5 DEF LogRows, Profiles
  <1> HIDE DEF ap, row, profile
  <1>9. SimTypeOK'
    <2>1. t_axis' \in [Rows -> 0 .. Duration] /\ X_axis' \in [Rows -> Columns]
      BY <1>1, <1>3, <1>4 DEF SimInv, SimTypeOK
    <2>2. inputs_axis' \in [Ticks -> Commands] /\ applied_setpoints' \in [Ticks -> Nat]
      BY <1>1, <1>5 DEF SimInv, SimTypeOK
    <2>3. series' \in Seq(LogRows)
      BY <1>1, <1>6, <1>8
    <2>4. profiles' \in Seq(Profiles)
      <3>1. Append(profiles, profile) \in Seq(Profiles)
        BY <1>6, <1>8
      <3> QED BY <1>1, <1>6, <3>1
    <2> QED BY <1>1, <1>2, <1>4, <2>1, <2>2, <2>3, <2>4 DEF SimInv, SimTypeOK
  <1>10. Standing'
    BY <1>1, <1>2 DEF SimInv, Standing
  <1>11. Clock'
    <2>1. \A i \in Rows : i <= k + 1 => i <= k \/ i = k + 1
      BY <1>2, Indices
    <2> QED BY <1>1, <1>2, <1>3, <1>7, <2>1 DEF SimInv, Clock
  <1>12. LogIsTheResult'
    <2>1. Len(series) = k
      BY DEF SimInv, LogIsTheResult
    <2>2. Len(series') = k + 1 /\ series'[k + 1] = row /\ \A i \in 1 .. k : series'[i] = series[i]
      BY <1>1, <1>2, <1>6, <2>1
    <2>3. \A i \in 1 .. k : i \in Rows /\ i <= k /\ i - 1 \in Ticks /\ i - 1 < k
      BY <1>2, Indices DEF Ticks, Rows
    <2>4. \A i \in 1 .. k : series'[i] = [t |-> t_axis'[i], x |-> X_axis'[i], u |-> inputs_axis'[i - 1],
                               requested |-> scenario'[i - 1], applied |-> applied_setpoints'[i - 1]]
      BY <1>1, <1>7, <2>2, <2>3 DEF SimInv, LogIsTheResult
    <2>5. series'[k + 1] = [t |-> t_axis'[k + 1], x |-> X_axis'[k + 1], u |-> inputs_axis'[k],
                            requested |-> scenario'[k], applied |-> applied_setpoints'[k]]
      BY <1>1, <1>7, <2>2 DEF row
    <2>6. \A i \in 1 .. k + 1 : i \in 1 .. k \/ (i = k + 1 /\ i - 1 = k)
      BY <1>2
    <2>7. \A i \in 1 .. k' : series'[i] = [t |-> t_axis'[i], x |-> X_axis'[i], u |-> inputs_axis'[i - 1],
                               requested |-> scenario'[i - 1], applied |-> applied_setpoints'[i - 1]]
      BY <1>1, <2>4, <2>5, <2>6
    <2>8. \A j \in DOMAIN profiles' : \E i \in 1 .. k + 1 : profiles'[j] = [t |-> t_axis'[i], x |-> X_axis'[i]]
      <3>1. ASSUME NEW j \in DOMAIN profiles
            PROVE  \E i \in 1 .. k + 1 : profiles[j] = [t |-> t_axis'[i], x |-> X_axis'[i]]
        <4>1. PICK i \in 1 .. k : profiles[j] = [t |-> t_axis[i], x |-> X_axis[i]]
          BY DEF SimInv, LogIsTheResult
        <4> QED BY <1>2, <1>7, <2>3, <4>1
      <3>2. profile = [t |-> t_axis'[k + 1], x |-> X_axis'[k + 1]] /\ k + 1 \in 1 .. k + 1
        BY <1>2, <1>7 DEF profile
      <3>3. \A j \in DOMAIN profiles' : (j \in DOMAIN profiles /\ profiles'[j] = profiles[j])
                                        \/ profiles'[j] = profile
        BY <1>1, <1>6
      <3> QED BY <3>1, <3>2, <3>3
    <2> QED BY <1>1, <2>2, <2>7, <2>8 DEF LogIsTheResult
  <1>13. /\ by = "pid" => held = Command(k, x, sp) /\ ap = sp
         /\ by = "mpc" => held = Solution(k)
         /\ X_axis[k] = x
    BY <1>1 DEF SimInv, InForce, ap, Applied
  <1>14. InForce'
    <2>1. X_axis'[k'] = x'
      BY <1>1, <1>7
    <2>2. ASSUME by = "mpc", ~Due(k')
          PROVE  held = Command(SolvedAt(k'), X_axis'[SolvedAt(k')], scenario'[SolvedAt(k')])
      <3>1. SolvedAt(k') = SolvedAt(k)
        BY <1>1, <1>2, <2>2, SamePeriod
      <3>2. X_axis'[SolvedAt(k)] = X_axis[SolvedAt(k)]
        BY <1>2, <1>7, Indices
      <3>3. held = Command(SolvedAt(k), X_axis[SolvedAt(k)], scenario[SolvedAt(k)])
        BY <1>13, <2>2 DEF Solution
      <3> QED BY <1>1, <3>1, <3>2, <3>3
    <2> QED BY <1>1, <2>1, <2>2 DEF InForce, Solution
  <1>15. CommandsAreFresh'
    <2>1. SUFFICES ASSUME NEW i \in Ticks, i < k + 1,
                          NEW from, from = IF by = "mpc" THEN SolvedAt(i) ELSE i
                   PROVE  inputs_axis'[i] = Command(from, X_axis'[from],
                            IF by = "mpc" THEN scenario[from] ELSE applied_setpoints'[i])
      BY <1>1 DEF CommandsAreFresh
    <2>2. from \in Rows /\ from <= i /\ i <= k /\ i \in Nat
      <3>1. i \in Rows /\ i \in Nat
        BY Indices
      <3>2. SolvedAt(i) \in Rows /\ SolvedAt(i) <= i
        BY Indices
      <3> QED BY <1>2, <2>1, <3>1, <3>2
    <2>3. X_axis'[from] = X_axis[from]
      <3>1. k \in Nat /\ from \in Nat
        BY <1>2, <2>2, Indices
      <3>2. from <= k
        BY <2>2, <3>1
      <3> QED BY <1>7, <2>2, <3>2
    <2>4. CASE i < k
      BY <1>7, <2>1, <2>3, <2>4 DEF SimInv, CommandsAreFresh
    <2>5. CASE i = k
      <3>1. CASE by = "mpc"
        BY <1>7, <1>13, <2>1, <2>3, <2>5, <3>1 DEF Solution
      <3>2. CASE by = "pid"
        BY <1>7, <1>13, <2>1, <2>3, <2>5, <3>2
      <3> QED BY <3>1, <3>2 DEF SimInv, SimTypeOK
    <2> QED BY <1>2, <2>2, <2>4, <2>5, Indices
  <1>16. Steady'
    BY <1>1 DEF SimInv, Steady
  <1>17. AgentTracksItsTarget'
    <2>1. caller = "backend" => held.target = scenario[k]
      <3>1. SUFFICES ASSUME caller = "backend" PROVE held.target = scenario[k]
        OBVIOUS
      <3>2. \A i \in Ticks : scenario[i] = scenario[0] /\ (by = "pid" => sp = scenario[0])
        BY <3>1 DEF SimInv, Steady
      <3>3. CASE by = "mpc"
        <4>1. scenario[SolvedAt(k)] = scenario[k]
          BY <1>2, <3>2
        <4>2. held = Command(SolvedAt(k), X_axis[SolvedAt(k)], scenario[k])
          BY <1>13, <3>3, <4>1 DEF Solution
        <4> QED BY <4>2 DEF Command
      <3>4. CASE by = "pid"
        BY <1>2, <1>13, <3>2, <3>4 DEF Command
      <3> QED BY <3>3, <3>4 DEF SimInv, SimTypeOK
    <2>2. \A i \in Ticks : i < k + 1 => i < k \/ i = k
      BY <1>2, Indices
    <2> QED BY <1>1, <1>7, <2>1, <2>2 DEF SimInv, AgentTracksItsTarget
  <1> QED BY <1>9, <1>10, <1>11, <1>12, <1>14, <1>15, <1>16, <1>17 DEF SimInv

-------------------------------------------------------------------------------
(* Theorems.                                                               *)

LEMMA SimNextInv == ASSUME SimInv, [SimNext]_simVars PROVE SimInv'
  <1>1. CASE UNCHANGED simVars
    BY <1>1 DEF simVars, SimInv, SimTypeOK, Standing, Clock, LogIsTheResult, InForce, Solution,
                CommandsAreFresh, Steady, AgentTracksItsTarget
  <1>2. CASE CapExceeded \/ SolveFails \/ TickFails
    <2>1. k \in Ticks /\ Abort
      BY <1>2, Indices DEF CapExceeded, SolveFails, TickFails, SimInv, SimTypeOK, Standing
    <2> QED BY <2>1, AbortInv
  <1>3. CASE Call \/ DrivePID \/ SolveMPC \/ HoldMPC \/ Integrate \/ LoopEnds \/ Return
    BY <1>3, CallInv, DriveInv, IntegrateInv, EndInv, ReturnInv
  <1> QED BY <1>1, <1>2, <1>3 DEF SimNext

\* The inductive invariant of the tick loops.
THEOREM SimInvariant == SimSpec => []SimInv
  BY SimInitInv, SimNextInv, PTL DEF SimSpec

\* Type correctness of the arrays, the log and the command in force.
THEOREM SimTypes == SimSpec => []SimTypeOK
  <1>1. SimInv => SimTypeOK
    BY DEF SimInv
  <1> QED BY <1>1, SimInvariant, PTL

\* Time runs to the end of the window or to the break, whatever the remainder of
\* the last tick.
THEOREM SimTimeRuns == SimSpec => []TimeRuns
  <1>1. ASSUME SimInv PROVE TimeRuns
    <2>1. \A i \in Rows \ {0} : i <= k => t_axis[i - 1] < t_axis[i]
      <3>1. SUFFICES ASSUME NEW i \in Rows \ {0}, i <= k PROVE t_axis[i - 1] < t_axis[i]
        OBVIOUS
      <3>2. k \in Rows /\ i \in Nat /\ i - 1 \in Ticks /\ i - 1 \in Rows /\ i - 1 <= k /\ i = (i - 1) + 1
        BY <1>1, <3>1, Indices DEF SimInv, SimTypeOK, Ticks, Rows
      <3>3. t_axis[i] = TimeAt(i) /\ t_axis[i - 1] = TimeAt(i - 1)
        BY <1>1, <3>1, <3>2 DEF SimInv, Clock
      <3>4. TimeAt(i - 1) < TimeAt((i - 1) + 1)
        BY <3>2, TimeAtTicks
      <3> QED BY <3>2, <3>3, <3>4
    <2>2. pc = "return" /\ success => t_axis[NTicks] = Duration
      BY <1>1, TimeAtTicks, Indices DEF SimInv, Standing, Clock
    <2>3. ~success => \A i \in Rows : i > k => t_axis[i] = t_axis[NTicks] /\ t_axis[k] < t_axis[i]
      <3>1. SUFFICES ASSUME ~success, NEW i \in Rows, i > k
                     PROVE  t_axis[i] = t_axis[NTicks] /\ t_axis[k] < t_axis[i]
        OBVIOUS
      <3>a. k \in Ticks
        BY <1>1, <3>1 DEF SimInv, Standing
      <3>b. k \in Rows /\ k \in Nat /\ NTicks \in Nat
        BY <3>a, Indices
      <3>2. k \in Ticks /\ k \in Rows /\ k <= k /\ NTicks \in Rows /\ NTicks > k
        BY <3>a, <3>b, Indices
      <3>3. t_axis[i] = TimeAt(k + 1) /\ t_axis[NTicks] = TimeAt(k + 1) /\ t_axis[k] = TimeAt(k)
        BY <1>1, <3>1, <3>2 DEF SimInv, Clock
      <3> QED BY <3>2, <3>3, TimeAtTicks
    <2> QED BY <2>1, <2>2, <2>3 DEF TimeRuns
  <1> QED BY <1>1, SimInvariant, PTL

\* The log and the result agree, however the loop was left.
THEOREM SimLogIsTheResult == SimSpec => []LogIsTheResult
  <1>1. SimInv => LogIsTheResult
    BY DEF SimInv
  <1> QED BY <1>1, SimInvariant, PTL

\* Commands are computed from the state their period began in.
THEOREM SimCommandsAreFresh == SimSpec => []CommandsAreFresh
  <1>1. SimInv => CommandsAreFresh
    BY DEF SimInv
  <1> QED BY <1>1, SimInvariant, PTL

\* A window of the agent tracks the agent's decision throughout.
THEOREM SimAgentTracksItsTarget == SimSpec => []AgentTracksItsTarget
  <1>1. SimInv => AgentTracksItsTarget
    BY DEF SimInv
  <1> QED BY <1>1, SimInvariant, PTL

-------------------------------------------------------------------------------
(* What the window costs, and what is handed back.                         *)

\* The term of tick i in the IAE.
Loss == [i \in Ticks |-> Distance(X_axis[i + 1].comp, applied_setpoints[i])
                           * (t_axis[i + 1] - t_axis[i])]

\* The cost summed along the way is that of the ticks done; the column has lived
\* through as many minutes of the window as the clock shows.
WindowInv ==
  /\ plant.comp \in Compositions
  /\ kpi \in Nat \cup {Inf}
  /\ pc # "idle" => x.comp \in Compositions /\ x.lived = plant.lived + TimeAt(k)
  /\ cost \in Nat /\ cost = SumFunctionOnSet(Loss, 0 .. k - 1)
  /\ KPIIsOfTheWholeWindow

\* The terms are integers.
LEMMA LossTypes == ASSUME SimTypeOK PROVE \A i \in Ticks : Loss[i] \in Int
  <1>1. ASSUME NEW i \in Ticks PROVE Loss[i] \in Int
    <2>1. i + 1 \in Rows /\ i \in Rows
      BY Indices
    <2>2. X_axis[i + 1] \in Columns /\ applied_setpoints[i] \in Nat
          /\ t_axis[i + 1] \in Int /\ t_axis[i] \in Int
      BY <2>1, SimAssumption DEF SimTypeOK
    <2>3. X_axis[i + 1].comp \in Int
      <3>1. X_axis[i + 1].comp \in Compositions \cup {0}
        BY <2>2 DEF Columns
      <3>2. \A c \in Compositions \cup {0} : c \in Int
        BY SimAssumption
      <3> QED BY <3>1, <3>2, Zenon
    <2> QED BY <2>2, <2>3 DEF Loss, Distance
  <1> QED BY <1>1

\* Rows that did not change cost what they did.
LEMMA LossKept ==
  ASSUME SimInv, NEW n \in Rows,
         \A i \in Rows : i <= n => t_axis'[i] = t_axis[i] /\ X_axis'[i] = X_axis[i],
         \A i \in Ticks : i < n => applied_setpoints'[i] = applied_setpoints[i]
  PROVE  SumFunctionOnSet(Loss', 0 .. n - 1) = SumFunctionOnSet(Loss, 0 .. n - 1)
  <1>1. n \in Nat /\ \A i \in 0 .. n - 1 : i \in Ticks /\ i + 1 \in Rows /\ i + 1 <= n /\ i < n
    BY Indices DEF Rows, Ticks
  <1>2. \A i \in 0 .. n - 1 : Loss'[i] = Loss[i]
    BY <1>1, Indices DEF Loss
  <1>3. IsFiniteSet(0 .. n - 1)
    BY <1>1, FS_Interval
  <1> DEFINE S == 0 .. n - 1
             f == Loss'
             g == Loss
  <1> HIDE DEF S, f, g
  <1>4. SumFunctionOnSet(f, S) = SumFunctionOnSet(g, S)
    BY <1>2, <1>3, SumEqual, Zenon DEF S, f, g
  <1> QED BY <1>4 DEF S, f, g

\* A simulated tick costs its term and lives its minutes.
LEMMA IntegrateWindow == ASSUME SimInv, WindowInv, Integrate PROVE WindowInv'
  <1>1. /\ pc = "drive" /\ pc' = "tick" /\ k' = k + 1
        /\ t_axis' = [t_axis EXCEPT ![k + 1] = TNext]
        /\ X_axis' = [X_axis EXCEPT ![k + 1] = x']
        /\ applied_setpoints' = [applied_setpoints EXCEPT ![k] = Applied]
        /\ cost' = cost + Distance(x'.comp, Applied) * (TNext - k * TickDt)
        /\ UNCHANGED <<plant, kpi>>
    BY DEF Integrate, callVars
  <1>2. k \in Ticks /\ k \in Rows /\ k + 1 \in Rows /\ k \in Nat /\ k * TickDt \in Nat
    <2>1. k \in Ticks /\ k \in Rows /\ k + 1 \in Rows /\ k \in Nat
      BY <1>1, Indices DEF SimInv, Standing
    <2> QED BY <2>1, SimAssumption
  <1>3. TNext = TimeAt(k + 1) /\ TimeAt(k) = k * TickDt /\ TNext \in Nat /\ k * TickDt < TNext
    <2>1. TNext = TimeAt(k + 1)
      BY DEF TNext, TimeAt
    <2> QED BY <1>2, <2>1, TimeAtTicks, SimAssumption
  <1>4. x'.comp \in Compositions /\ x'.lived = plant'.lived + TimeAt(k')
    <2>1. PICK c \in Compositions : x' = Column(c, x.lived + TNext - k * TickDt)
      BY DEF Integrate
    <2>2. x.lived = plant.lived + TimeAt(k) /\ plant.lived \in Nat
      BY <1>1 DEF WindowInv, SimInv, SimTypeOK, Columns
    <2> QED BY <1>1, <1>2, <1>3, <2>1, <2>2 DEF Column
  <1>5. /\ DOMAIN t_axis = Rows /\ DOMAIN X_axis = Rows /\ DOMAIN applied_setpoints = Ticks
        /\ t_axis[k] = k * TickDt
    BY <1>2, <1>3 DEF SimInv, SimTypeOK, Clock
  <1> DEFINE n == k
             e == Distance(x'.comp, Applied) * (TNext - k * TickDt)
             f == Loss'
  <1>6. e \in Nat
    <2>1. x'.comp \in Nat /\ Applied \in Nat
      BY <1>2, <1>4, SimAssumption DEF Applied, SimInv, SimTypeOK, Standing
    <2>2. Distance(x'.comp, Applied) \in Nat
      BY <2>1 DEF Distance
    <2>3. TNext - k * TickDt \in Nat
      BY <1>2, <1>3
    <2> QED BY <2>2, <2>3
  <1>7. f[k] = e
    <2>1. X_axis'[k + 1] = x' /\ applied_setpoints'[k] = Applied /\ t_axis'[k + 1] = TNext
          /\ t_axis'[k] = k * TickDt
      BY <1>1, <1>2, <1>5
    <2> QED BY <1>2, <2>1 DEF Loss
  <1>8. SumFunctionOnSet(f, 0 .. k - 1) = cost
    <2>1. /\ \A i \in Rows : i <= k => t_axis'[i] = t_axis[i] /\ X_axis'[i] = X_axis[i]
          /\ \A i \in Ticks : i < k => applied_setpoints'[i] = applied_setpoints[i]
      BY <1>1, <1>2, <1>5, Indices
    <2> QED BY <1>2, <2>1, LossKept DEF WindowInv
  <1>9. \A i \in 0 .. k : f[i] \in Int
    <2>1. SimTypeOK'
      BY IntegrateInv DEF SimInv
    <2>2. \A i \in 0 .. k : i \in Ticks
      BY <1>2, Indices DEF Ticks
    <2>3. (\A i \in Ticks : Loss[i] \in Int)'
      BY <2>1, LossTypes, PTL
    <2> QED BY <2>2, <2>3
  <1> HIDE DEF e, f
  <1>10. SumFunctionOnSet(f, 0 .. k) = SumFunctionOnSet(f, 0 .. k - 1) + f[k]
    <2>1. 0 \in Int /\ k - 1 \in Int /\ k - 1 >= 0 - 1 /\ (k - 1) + 1 = k
      BY <1>2
    <2>2. \A i \in 0 .. (k - 1) + 1 : f[i] \in Int
      BY <1>9, <2>1
    <2>3. SumFunctionOnSet(f, 0 .. (k - 1) + 1) = SumFunctionOnSet(f, 0 .. k - 1) + f[(k - 1) + 1]
      BY <2>1, <2>2, SumNext
    <2> QED BY <2>1, <2>3
  <1>11. cost' = SumFunctionOnSet(Loss', 0 .. k' - 1) /\ cost' \in Nat
    <2>1. k' - 1 = k /\ cost' = cost + e /\ cost \in Nat
      BY <1>1, <1>2 DEF e, WindowInv
    <2> QED BY <1>6, <1>7, <1>8, <1>10, <2>1 DEF f
  <1> QED BY <1>1, <1>4, <1>11 DEF WindowInv, KPIIsOfTheWholeWindow

\* A complete window is handed over with its cost as its IAE.
LEMMA WholeWindow ==
  ASSUME SimInv, WindowInv, pc = "return", success
  PROVE  IAE = cost /\ k = NTicks /\ X_axis[NTicks] = x
  <1>1. k = NTicks /\ X_axis[k] = x
    BY DEF SimInv, Standing, InForce
  <1>2. IAE = SumFunctionOnSet(Loss, Ticks)
    <2>1. IAE = SumFunctionOnSet(Loss, DOMAIN Loss)
      BY Zenon DEF IAE, Loss, SumFunction
    <2>2. DOMAIN Loss = Ticks
      BY DEF Loss
    <2> QED BY <2>1, <2>2
  <1> QED BY <1>1, <1>2 DEF WindowInv, Ticks

LEMMA ReturnWindow ==
  ASSUME SimInv, WindowInv, Return
  PROVE  WindowInv' /\ (Backend!Whole \/ Backend!Refused \/ Backend!Study)
  <1>1. /\ pc = "return" /\ pc' = "idle" /\ kpi' = compute_kpis
        /\ plant' = IF caller = "backend" THEN XFinal ELSE plant
        /\ UNCHANGED <<k, cost, t_axis, X_axis, applied_setpoints>>
    BY DEF Return, arrayVars
  <1>2. cost' = SumFunctionOnSet(Loss', 0 .. k' - 1) /\ cost' \in Nat
    BY <1>1 DEF WindowInv, Loss
  <1>3. plant \in Columns /\ plant.lived \in Nat /\ x \in Columns
    BY DEF SimInv, SimTypeOK, Columns
  <1>4. CASE success
    <2>1. kpi' = cost /\ k = NTicks /\ XFinal = x
      BY <1>1, <1>4, WholeWindow DEF compute_kpis, XFinal
    <2>2. x.comp \in Compositions /\ x.lived = plant.lived + Duration
      BY <1>1, <2>1, TimeAtTicks DEF WindowInv
    <2>3. CASE caller = "backend"
      <3>1. plant' = x
        BY <1>1, <2>1, <2>3
      <3>2. Backend!Whole
        BY <1>1, <2>1, <2>2, <3>1 DEF Backend!Whole, WindowInv
      <3> QED BY <1>1, <1>2, <2>1, <2>2, <3>1, <3>2 DEF WindowInv, KPIIsOfTheWholeWindow
    <2>4. CASE caller # "backend"
      <3>1. plant' = plant
        BY <1>1, <2>4
      <3>2. Backend!Study
        BY <1>1, <2>1, <3>1 DEF Backend!Study, WindowInv
      <3> QED BY <1>1, <1>2, <2>1, <3>1, <3>2 DEF WindowInv, KPIIsOfTheWholeWindow
    <2> QED BY <2>3, <2>4
  <1>5. CASE ~success
    <2>1. kpi' = Inf /\ plant' = plant
      BY <1>1, <1>5 DEF compute_kpis, XFinal
    <2>2. Backend!Refused
      BY <2>1 DEF Backend!Refused
    <2> QED BY <1>1, <1>2, <2>1, <2>2 DEF WindowInv, KPIIsOfTheWholeWindow
  <1> QED BY <1>4, <1>5

\* A break pads the rows after the last good one and costs nothing.
LEMMA AbortWindow == ASSUME SimInv, WindowInv, pc # "idle", Abort PROVE WindowInv'
  <1>1. /\ pc' = "return" /\ t_axis' = Pad(t_axis, TNext) /\ X_axis' = Pad(X_axis, x)
        /\ UNCHANGED <<plant, kpi, k, x, applied_setpoints, cost>>
    BY DEF Abort, callVars
  <1>2. k \in Rows /\ k \in Nat
    BY Indices DEF SimInv, SimTypeOK
  <1>3. \A i \in Rows : i <= k => t_axis'[i] = t_axis[i] /\ X_axis'[i] = X_axis[i]
    BY <1>1, <1>2, Indices DEF Pad
  <1>4. SumFunctionOnSet(Loss', 0 .. k - 1) = SumFunctionOnSet(Loss, 0 .. k - 1)
    BY <1>1, <1>2, <1>3, LossKept
  <1> QED BY <1>1, <1>4 DEF WindowInv, KPIIsOfTheWholeWindow

LEMMA WindowInitInv == ASSUME SimInit PROVE WindowInv
  <1>1. SumFunctionOnSet(Loss, {}) = 0
    BY SumEmpty
  <1>2. k = 0 /\ 0 .. k - 1 = {}
    BY DEF SimInit
  <1>3. plant.comp \in Compositions
    BY DEF SimInit, Column
  <1> QED BY <1>1, <1>2, <1>3 DEF SimInit, WindowInv, KPIIsOfTheWholeWindow

LEMMA WindowNextInv ==
  ASSUME SimInv, WindowInv, [SimNext]_simVars
  PROVE  WindowInv' /\ [Backend!Next]_(Backend!vars)
  <1>1. CASE CapExceeded \/ SolveFails \/ TickFails
    <2>1. pc # "idle" /\ Abort
      BY <1>1 DEF CapExceeded, SolveFails, TickFails
    <2>2. UNCHANGED <<plant, kpi>>
      BY <2>1 DEF Abort, callVars
    <2> QED BY <2>1, <2>2, AbortWindow DEF Backend!vars
  <1>2. CASE Integrate
    <2>1. UNCHANGED <<plant, kpi>>
      BY <1>2 DEF Integrate, callVars
    <2> QED BY <1>2, <2>1, IntegrateWindow DEF Backend!vars
  <1>3. CASE Return
    BY <1>3, ReturnWindow DEF Backend!Next
  <1>4. CASE Call
    <2>1. /\ k' = 0 /\ x' = plant /\ cost' = 0 /\ pc' = "tick"
          /\ UNCHANGED <<plant, kpi>>
      BY <1>4 DEF Call
    <2>2. SumFunctionOnSet(Loss', {}) = 0
      BY SumEmpty
    <2>3. 0 .. k' - 1 = {}
      BY <2>1
    <2>4. plant.lived \in Nat
      BY DEF SimInv, SimTypeOK, Columns
    <2>5. x'.lived = plant'.lived + TimeAt(k')
      BY <2>1, <2>4, TimeAtTicks
    <2>6. cost' = SumFunctionOnSet(Loss', 0 .. k' - 1)
      BY <2>1, <2>2, <2>3
    <2> QED BY <2>1, <2>5, <2>6 DEF WindowInv, KPIIsOfTheWholeWindow, Backend!vars
  <1>5. CASE DrivePID \/ SolveMPC \/ HoldMPC \/ LoopEnds
    <2>1. /\ UNCHANGED <<plant, kpi, k, x, t_axis, X_axis, applied_setpoints, cost>>
          /\ pc # "idle" /\ pc' # "idle"
      BY <1>5 DEF DrivePID, SolveMPC, HoldMPC, LoopEnds, callVars, arrayVars
    <2> QED BY <2>1 DEF WindowInv, KPIIsOfTheWholeWindow, Loss, Backend!vars
  <1>6. CASE UNCHANGED simVars
    BY <1>6 DEF simVars, WindowInv, KPIIsOfTheWholeWindow, Loss, Backend!vars
  <1> QED BY <1>1, <1>2, <1>3, <1>4, <1>5, <1>6 DEF SimNext

\* The inductive invariant of what a window costs and leaves.
THEOREM WindowInvariant == SimSpec => []WindowInv
  BY WindowInitInv, WindowNextInv, SimInvariant, PTL DEF SimSpec

\* A finite IAE is what the whole window cost, whatever its duration, its tick and
\* its remainder: padding never counts.
THEOREM SimKPIIsOfTheWholeWindow == SimSpec => []KPIIsOfTheWholeWindow
  <1>1. WindowInv => KPIIsOfTheWholeWindow
    BY DEF WindowInv
  <1> QED BY <1>1, WindowInvariant, PTL

\* The simulator implements the contract of the regulatory backends: a plant that
\* has lived through the whole window is handed back, or the one handed in.
THEOREM SimImplementsWindow == SimSpec => ImplementsWindow
  <1>1. SimInit => Backend!Init
    <2> SUFFICES ASSUME SimInit PROVE Backend!Init
      OBVIOUS
    <2>1. PICK c \in Compositions : plant = Column(c, 0)
      BY DEF SimInit
    <2> QED BY <2>1 DEF SimInit, Column, Backend!Init
  <1> QED
    BY <1>1, WindowNextInv, WindowInvariant, SimInvariant, PTL
    DEF SimSpec, ImplementsWindow, Backend!Spec
================================================================================
