-------------------------------- MODULE C2Smoke --------------------------------
(***************************************************************************)
(* tools/run_c2_smoke.py: the process that drives AgentRunner over a run   *)
(* of NTicks supervisor cycles, keeps the per-cycle trace, catches the     *)
(* language-model failures, and writes smoke.json and an exit code for the *)
(* sweep drivers to read.  The process may be killed at any point.         *)
(***************************************************************************)
EXTENDS AgentRunner, Sequences, Functions

CONSTANTS
  NTicks,   \* horizon_min / tick_min
  LT0       \* the reflux of the initial operating point

ASSUME SmokeAssumption == NTicks \in Nat \ {0} /\ LT0 \in Refluxes

VARIABLES
  smoke,    \* "start", "loop", "step", "write", "writing", "written", "exited"
  tick,     \* the loop index i
  plant,    \* X, as its top composition
  mv,       \* the reflux the regulatory layer applied last
  cycles,   \* the trace, one row per completed cycle
  abortAt,  \* abort_at_cycle, -1 for None
  rc,       \* how the process ended
  file      \* smoke.json as another process would read it

driverVars == <<smoke, tick, plant, mv, cycles, abortAt, rc, file>>
vars == <<runnerVars, driverVars>>

NoPayload == [iae |-> 0, completed |-> 0, abortAt |-> -1, allOK |-> FALSE]
File(state, payload) == [state |-> state, payload |-> payload]

\* The exception types of main's except clause.
Caught == {"ResponseParse", "ResponseFormat", "ServerError", "MissingUsage",
           "EndpointUnreachable"}

-------------------------------------------------------------------------------
(* The process.                                                            *)

\* The output path may hold the payload of an earlier attempt at the run.
Init ==
  /\ RunnerInit
  /\ smoke = "start"
  /\ tick = 0
  /\ plant \in Plants
  /\ mv = LT0
  /\ cycles = <<>>
  /\ abortAt = -1
  /\ rc = "none"
  /\ file \in {File("absent", NoPayload), File("old", NoPayload)}

Exit(code) == smoke' = "exited" /\ rc' = code

\* The initial state could be loaded, or the operating point is infeasible.
Load ==
  /\ smoke = "start"
  /\ \/ smoke' = "loop" /\ UNCHANGED rc
     \/ Exit("1")
  /\ UNCHANGED <<runnerVars, tick, plant, mv, cycles, abortAt, file>>

\* The Observer is handed the run's initial reflux in every cycle.
StartTick ==
  /\ smoke = "loop" /\ tick < NTicks
  /\ BeginCycle(tick, plant, LT0)
  /\ smoke' = "step"
  /\ UNCHANGED <<tick, plant, mv, cycles, abortAt, rc, file>>

AgentStep ==
  /\ smoke = "step"
  /\ InnerStep
  /\ UNCHANGED driverVars

Row(yD, ok) ==
  [pre |-> plant, post |-> yD, target |-> decision, escalated |-> verdict = "escalate",
   ok |-> ok]

NextPlant(yD) == plant' = yD

\* runner.step returned: append the row, carry the plant over.
EndTick(yD, ok) ==
  /\ smoke = "step"
  /\ cycles' = Append(cycles, Row(yD, ok))
  /\ NextPlant(yD)
  /\ tick' = tick + 1
  /\ smoke' = "loop"
  /\ UNCHANGED <<abortAt, rc, file>>

TickSucceeds ==
  \E yD \in Plants : Regulated(yD) /\ EndTick(yD, TRUE) /\ mv' \in Refluxes

\* X_final is X0 when the simulation failed.
TickFails == RegulationFails /\ EndTick(plant, FALSE) /\ UNCHANGED mv

AbortRun ==
  /\ smoke = "step"
  /\ pc = "raised" /\ raised \in Caught
  /\ abortAt' = tick
  /\ smoke' = "write"
  /\ UNCHANGED <<runnerVars, tick, plant, mv, cycles, rc, file>>

\* Any other exception leaves main with a traceback.
Crash ==
  /\ smoke = "step"
  /\ pc = "raised" /\ raised \notin Caught
  /\ Exit("1")
  /\ UNCHANGED <<runnerVars, tick, plant, mv, cycles, abortAt, file>>

LoopEnds ==
  /\ smoke = "loop" /\ tick = NTicks
  /\ smoke' = "write"
  /\ UNCHANGED <<runnerVars, tick, plant, mv, cycles, abortAt, rc, file>>

\* open("w") truncates; json.dump then writes in place.
OpenFile ==
  /\ smoke = "write"
  /\ smoke' = "writing"
  /\ file' = File("torn", NoPayload)
  /\ UNCHANGED <<runnerVars, tick, plant, mv, cycles, abortAt, rc>>

AllOK == cycles # <<>> /\ \A k \in 1 .. Len(cycles) : cycles[k].ok

ExitCode_AlwaysZero == "0"

ExitCode == IF abortAt = -1 THEN "0" ELSE "2"

CloseFile ==
  /\ smoke = "writing"
  /\ file' = File("complete", [iae |-> iae, completed |-> completed,
                               abortAt |-> abortAt, allOK |-> AllOK])
  /\ smoke' = "written"
  /\ UNCHANGED <<runnerVars, tick, plant, mv, cycles, abortAt, rc>>

Return ==
  /\ smoke = "written"
  /\ Exit(ExitCode)
  /\ UNCHANGED <<runnerVars, tick, plant, mv, cycles, abortAt, file>>

\* A signal from the driver or the operator.
Kill ==
  /\ smoke # "exited"
  /\ Exit("killed")
  /\ UNCHANGED <<runnerVars, tick, plant, mv, cycles, abortAt, file>>

Progress ==
  \/ Load \/ StartTick \/ AgentStep \/ TickSucceeds \/ TickFails
  \/ AbortRun \/ Crash \/ LoopEnds \/ OpenFile \/ CloseFile \/ Return

Next == Progress \/ Kill

\* Every completion call, controller solve and integration returns or raises:
\* the clients carry a timeout and the solvers an iteration limit.
Spec == Init /\ [][Next]_vars /\ WF_vars(Progress)

-------------------------------------------------------------------------------
(* Properties.                                                             *)

RowIAE(row) == IF row.ok THEN Abs(row.post - Canonical) ELSE 0

SumIAE(rows) == SumFunction([k \in 1 .. Len(rows) |-> RowIAE(rows[k])])

\* Each row starts where the row before it ended, a cycle whose simulation
\* failed leaves the plant where it was, and an escalated cycle repeats the
\* target of the row before it (so the first row is never an escalation).
TraceIsOneRun ==
  \A k \in 1 .. Len(cycles) :
    /\ k > 1 => cycles[k].pre = cycles[k - 1].post
    /\ ~cycles[k].ok => cycles[k].post = cycles[k].pre
    /\ cycles[k].escalated => k > 1 /\ cycles[k].target = cycles[k - 1].target

\* What the runner accumulates is what the trace shows: one completed cycle per
\* row, an IAE over the successful rows only, and the Observer of a cycle
\* reports the sum over exactly the rows before it.
RunnerMatchesTrace ==
  /\ completed = Len(cycles)
  /\ iae = SumIAE(cycles)
  /\ smoke = "step" => report.cycle = Len(cycles) /\ report.iae = SumIAE(cycles)

\* The exit code tells a driver what it will find: 0 a complete file of this
\* run with every tick, 2 a complete file that stops at the aborted tick, 1
\* no file of this run; a killed run may have left any of them.
ExitTellsFile ==
  /\ rc = "0" => /\ file.state = "complete"
                 /\ file.payload.abortAt = -1 /\ file.payload.completed = NTicks
  /\ rc = "2" => /\ file.state = "complete"
                 /\ file.payload.abortAt = file.payload.completed
                 /\ file.payload.completed < NTicks
  /\ rc = "1" => file.state # "complete"

\* Unless it is killed, a run ends, however the model answers.
RunEnds == <>(smoke = "exited")

\* ADR 010 lines 14 and 77: a failed integration may be carried forward because
\* the KPI treats it as infinite; a run that exits 0 with a finite IAE has
\* therefore simulated every cycle.  (The accumulator leaves the cycle out.)
FiniteIAEMeansSimulated == rc = "0" => file.payload.allOK

\* state.py line 66: the Observer's report carries the most recent applied
\* reflux.  (The tick loop passes the initial reflux in every cycle.)
ReportsAppliedReflux == smoke = "step" => report.LT = mv

\* run_c2_smoke.py, comment in the tick loop: a failure of the model to answer
\* in the expected form aborts the run but preserves the partial trace.
PartialTracePreserved ==
  raised \in LLMErrors \cup {"ValidationError"} /\ rc \notin {"none", "killed"}
    => file.state = "complete"
================================================================================
