------------------------------- MODULE ClosedLoop -------------------------------
(***************************************************************************)
(* The tick loops of twin/simulate.py (PID) and control/c1_linear_mpc.py   *)
(* (MPC), called for a window by a regulatory backend or by a script, and  *)
(* the IAE that evaluation/kpis.py makes of what they return.              *)
(*                                                                         *)
(* The column is its top composition, which goes anywhere in a tick, and,  *)
(* as a history, the minutes it has lived through.  A command is           *)
(* abstracted to what it was computed from: the tick, the state and the    *)
(* setpoint.                                                               *)
(***************************************************************************)
EXTENDS RateLimiter, Sequences, Functions

CONSTANTS
  Compositions,     \* compositions the column may have
  Requests,         \* setpoints a supervisor may request
  TickDt, Duration, \* tick_dt_min, duration_min
  Period,           \* supervisor_period_ticks
  ProfileEvery,     \* record_tray_profile_every_n_ticks
  MaxCalls,         \* bound: windows simulated
  Inf

ASSUME SimAssumption ==
  /\ Compositions \subseteq Nat /\ Requests \subseteq Nat
  /\ TickDt \in Nat \ {0} /\ Duration \in Nat \ {0}
  /\ Period \in Nat \ {0} /\ ProfileEvery \in Nat \ {0}
  /\ MaxCalls \in Nat
  /\ Inf \notin Nat

\* ceil(duration_min / tick_dt_min)
NTicks == (Duration + TickDt - 1) \div TickDt
Ticks == 0 .. NTicks - 1
Rows == 0 .. NTicks

VARIABLES
  pc,         \* "idle", "tick" (top of the loop), "drive" (command issued), "return"
  calls,
  plant,      \* the state the caller starts a window from
  by,         \* "pid" or "mpc"
  caller,     \* "backend" or "script"
  scenario,   \* requested setpoint of each tick
  k, x,       \* tick, X_current
  sp,         \* the limiter's held setpoint
  held,       \* the command in force
  success,
  t_axis, X_axis, inputs_axis, applied_setpoints,
  series,     \* the logger's rows
  profiles,   \* the logger's tray profiles
  kpi,
  cost        \* history: IAE summed as the simulation went along

simVars == <<pc, calls, plant, by, caller, scenario, k, x, sp, held, success, t_axis,
             X_axis, inputs_axis, applied_setpoints, series, profiles, kpi, cost>>

callVars == <<calls, plant, by, caller, scenario, kpi>>
loggerVars == <<series, profiles>>
arrayVars == <<t_axis, X_axis, inputs_axis, applied_setpoints>>

Distance(a, b) == IF a < b THEN b - a ELSE a - b

Column(c, minutes) == [comp |-> c, lived |-> minutes]

\* A command: the tick and the state it was computed at, the setpoint it tracks.
Command(at, state, target) == [at |-> at, state |-> state, target |-> target]

\* What the zeros of a fresh array stand for.
NoColumn == Column(0, 0)
NoCommand == Command(0, NoColumn, 0)

SimInit ==
  /\ pc = "idle" /\ calls = 0
  /\ plant \in {Column(c, 0) : c \in Compositions}
  /\ by = "pid" /\ caller = "script"
  /\ scenario = [i \in Ticks |-> 0]
  /\ k = 0 /\ x = NoColumn /\ sp = 0 /\ held = NoCommand
  /\ success = TRUE
  /\ t_axis = [i \in Rows |-> 0] /\ X_axis = [i \in Rows |-> NoColumn]
  /\ inputs_axis = [i \in Ticks |-> NoCommand]
  /\ applied_setpoints = [i \in Ticks |-> 0]
  /\ series = <<>> /\ profiles = <<>>
  /\ kpi = Inf /\ cost = 0

-------------------------------------------------------------------------------
(* A call.                                                                 *)

\* A backend holds the agent's target for the whole window; the scenario of a
\* script is any function of time.
Scenarios(cl) ==
  IF cl = "backend" THEN {[i \in Ticks |-> r] : r \in Requests} ELSE [Ticks -> Requests]

Seed_AtColumn(s) == plant.comp

\* The limiter starts at the first setpoint of the scenario.
Seed(s) == s[0]

Call ==
  /\ pc = "idle" /\ calls < MaxCalls
  /\ calls' = calls + 1
  /\ by' \in {"pid", "mpc"} /\ caller' \in {"backend", "script"}
  /\ scenario' \in Scenarios(caller')
  /\ k' = 0 /\ x' = plant
  /\ sp' = Seed(scenario')
  /\ held' = NoCommand
  /\ success' = TRUE
  /\ t_axis' = [i \in Rows |-> 0]
  /\ X_axis' = [i \in Rows |-> IF i = 0 THEN plant ELSE NoColumn]
  /\ inputs_axis' = [i \in Ticks |-> NoCommand]
  /\ applied_setpoints' = [i \in Ticks |-> 0]
  /\ series' = <<>> /\ profiles' = <<>>
  /\ cost' = 0
  /\ pc' = "tick"
  /\ UNCHANGED <<plant, kpi>>

TNext == IF (k + 1) * TickDt < Duration THEN (k + 1) * TickDt ELSE Duration

\* Fill what is left of an axis after a break in tick k.
Pad(axis, v) == [i \in Rows |-> IF i > k THEN v ELSE axis[i]]

\* Every break of the loop: flag the failure and carry the last state forward.
Abort ==
  /\ success' = FALSE
  /\ t_axis' = Pad(t_axis, TNext)
  /\ X_axis' = Pad(X_axis, x)
  /\ pc' = "return"
  /\ UNCHANGED <<callVars, loggerVars, k, x, sp, held, inputs_axis, applied_setpoints, cost>>

\* The wall-clock cap, which only scripts set and only the PID loop knows.
CapExceeded == pc = "tick" /\ k < NTicks /\ by = "pid" /\ caller = "script" /\ Abort

\* The PID answers every tick, to the limited setpoint.
DrivePID ==
  /\ pc = "tick" /\ k < NTicks /\ by = "pid"
  /\ sp' = RateLimit(sp, scenario[k])
  /\ held' = Command(k, x, sp')
  /\ pc' = "drive"
  /\ UNCHANGED <<callVars, loggerVars, arrayVars, k, x, success, cost>>

Due_FromOne(i) == i % Period = 1 % Period

Due(i) == i % Period = 0

\* The MPC is solved once a period.
SolveMPC ==
  /\ pc = "tick" /\ k < NTicks /\ by = "mpc" /\ Due(k)
  /\ held' = Command(k, x, scenario[k])
  /\ pc' = "drive"
  /\ UNCHANGED <<callVars, loggerVars, arrayVars, k, x, sp, success, cost>>

SolveFails == pc = "tick" /\ k < NTicks /\ by = "mpc" /\ Due(k) /\ Abort

\* Between solves its last command is held.
HoldMPC ==
  /\ pc = "tick" /\ k < NTicks /\ by = "mpc" /\ ~Due(k)
  /\ pc' = "drive"
  /\ UNCHANGED <<callVars, loggerVars, arrayVars, k, x, sp, held, success, cost>>

\* Non-finite inputs, a failed integration, a state that diverged.
TickFails == pc = "drive" /\ Abort

Applied == IF by = "pid" THEN sp ELSE scenario[k]

RecordProfile ==
  profiles' = IF by = "pid" /\ k % ProfileEvery = 0
              THEN Append(profiles, [t |-> TNext, x |-> x']) ELSE profiles

LogState_Before == x

LogState == x'

\* A good tick: fill the row it belongs to and log it.
Integrate ==
  /\ pc = "drive"
  /\ x' \in {Column(c, x.lived + TNext - k * TickDt) : c \in Compositions}
  /\ t_axis' = [t_axis EXCEPT ![k + 1] = TNext]
  /\ X_axis' = [X_axis EXCEPT ![k + 1] = x']
  /\ inputs_axis' = [inputs_axis EXCEPT ![k] = held]
  /\ applied_setpoints' = [applied_setpoints EXCEPT ![k] = Applied]
  /\ series' = Append(series, [t |-> TNext, x |-> LogState, u |-> held,
                               requested |-> scenario[k], applied |-> Applied])
  /\ RecordProfile
  /\ cost' = cost + Distance(x'.comp, Applied) * (TNext - k * TickDt)
  /\ k' = k + 1
  /\ pc' = "tick"
  /\ UNCHANGED <<callVars, sp, held, success>>

\* The loop ran to its end: the PID loop logs the final profile.
LoopEnds ==
  /\ pc = "tick" /\ k = NTicks
  /\ profiles' = IF by = "pid" THEN Append(profiles, [t |-> t_axis[NTicks], x |-> X_axis[NTicks]])
                 ELSE profiles
  /\ pc' = "return"
  /\ UNCHANGED <<callVars, series, arrayVars, k, x, sp, held, success, cost>>

-------------------------------------------------------------------------------
(* What the caller makes of the result.                                    *)

\* compute_kpis: composition at the end of each interval against the setpoint
\* applied during it.
IAE == SumFunction([i \in Ticks |-> Distance(X_axis[i + 1].comp, applied_setpoints[i])
                                      * (t_axis[i + 1] - t_axis[i])])

compute_kpis_Always == IAE

compute_kpis == IF success THEN IAE ELSE Inf

XFinal_Last == X_axis[NTicks]

XFinal == IF success THEN X_axis[NTicks] ELSE plant

\* A backend hands its final state back; a script keeps its starting point.
Return ==
  /\ pc = "return"
  /\ kpi' = compute_kpis
  /\ plant' = IF caller = "backend" THEN XFinal ELSE plant
  /\ pc' = "idle"
  /\ UNCHANGED <<calls, by, caller, scenario, k, x, sp, held, success, arrayVars, loggerVars, cost>>

SimNext ==
  \/ Call
  \/ CapExceeded \/ DrivePID
  \/ SolveMPC \/ SolveFails \/ HoldMPC
  \/ TickFails \/ Integrate
  \/ LoopEnds \/ Return

\* The loops never wait; whether there is another window is the caller's choice.
SimSpec == SimInit /\ [][SimNext]_simVars /\ WF_simVars(~Call /\ SimNext)

-------------------------------------------------------------------------------
(* Properties.                                                             *)

Columns == [comp : Compositions \cup {0}, lived : Nat]
Commands == [at : Ticks, state : Columns, target : Nat]
LogRows == [t : 0 .. Duration, x : Columns, u : Commands, requested : Nat, applied : Nat]
Profiles == [t : 0 .. Duration, x : Columns]

\* The tick whose solve is in force in tick i.
SolvedAt(i) == i - (i % Period)

SimTypeOK ==
  /\ pc \in {"idle", "tick", "drive", "return"}
  /\ calls \in 0 .. MaxCalls
  /\ plant \in Columns /\ x \in Columns
  /\ by \in {"pid", "mpc"} /\ caller \in {"backend", "script"}
  /\ k \in Rows /\ sp \in Nat
  /\ held \in Commands
  /\ success \in BOOLEAN
  /\ t_axis \in [Rows -> 0 .. Duration]
  /\ inputs_axis \in [Ticks -> Commands]
  /\ applied_setpoints \in [Ticks -> Nat]
  /\ X_axis \in [Rows -> Columns]
  /\ series \in Seq(LogRows) /\ profiles \in Seq(Profiles)

\* Time runs: the filled rows are strictly increasing, a complete window ends
\* exactly at its duration although the last tick may be a short one, and after
\* a break time stands still (simulate.py, t_next and the padding).
TimeRuns ==
  /\ \A i \in Rows \ {0} : i <= k => t_axis[i - 1] < t_axis[i]
  /\ pc = "return" /\ success => t_axis[NTicks] = Duration
  /\ ~success => \A i \in Rows : i > k => t_axis[i] = t_axis[NTicks] /\ t_axis[k] < t_axis[i]

\* The log and the result tell the same story, a row for each tick that was
\* simulated and none for one that was not, however the loop was left: rows pair
\* the command of a tick with the state the tick ended in, profiles are of one of
\* those states.
LogIsTheResult ==
  /\ Len(series) = k
  /\ \A i \in 1 .. k : series[i] = [t |-> t_axis[i], x |-> X_axis[i], u |-> inputs_axis[i - 1],
                                   requested |-> scenario[i - 1], applied |-> applied_setpoints[i - 1]]
  /\ \A j \in DOMAIN profiles : \E i \in 1 .. k : profiles[j] = [t |-> t_axis[i], x |-> X_axis[i]]

\* Every command in the result was computed from the state its period began in
\* and from the setpoint then asked for: the PID's period is one tick, the
\* MPC's is supervisor_period_min.
CommandsAreFresh ==
  \A i \in Ticks : i < k =>
    LET from == IF by = "mpc" THEN SolvedAt(i) ELSE i
    IN  inputs_axis[i] = Command(from, X_axis[from],
                                 IF by = "mpc" THEN scenario[from] ELSE applied_setpoints[i])

\* The agent's decision is what its window tracks, from the first command to the
\* last, with either controller.
AgentTracksItsTarget ==
  caller = "backend" => \A i \in Ticks : i < k => inputs_axis[i].target = scenario[i]

\* A finite IAE is what the simulation cost, tick by tick, over the whole
\* window: rows that only pad the result never count.
KPIIsOfTheWholeWindow ==
  pc = "idle" /\ kpi # Inf => kpi = cost /\ k = NTicks

\* The setpoint a PID tracks moves by at most a step of the limiter from one tick
\* of the agent's run to the next (setpoint_interface.py, lines 3-8; ADR 006, line
\* 70).  It does not: every window has a limiter of its own.
SetpointsAreSlewed ==
  [][by = "pid" /\ by' = "pid" /\ caller = "backend" /\ caller' = "backend"
     => Distance(sp, sp') <= MaxStep]_simVars

Backend == INSTANCE WindowContract WITH
  Plants <- Compositions, Window <- Duration, plant <- plant.comp, lived <- plant.lived

\* What is handed back has lived through the whole window or not at all.
ImplementsWindow == Backend!Spec
================================================================================
