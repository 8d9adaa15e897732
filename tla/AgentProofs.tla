------------------------------ MODULE AgentProofs ------------------------------
(***************************************************************************)
(* The agent runner, proved for every set of proposals, every plant and    *)
(* every round budget, with its refinement of SupervisorContract; and the  *)
(* smoke process around it, for every number of ticks: it runs the runner, *)
(* its exit code tells what its file holds, its trace is the record of one *)
(* run, and the runner's memory is what that trace shows.                  *)
(***************************************************************************)
EXTENDS C2Smoke, OperatorProofs

-------------------------------------------------------------------------------
(* The runner: the inductive invariant.                                    *)

\* What ties the stages of a cycle together: the Critic judges a proposal the
\* client let through, and the backend is handed an admissible pair that is
\* the proposal of this cycle or the pair remembered from an earlier one.
StagesLinked ==
  /\ pc = "critic" => /\ proposal # None
                      /\ rounds # 0
                      /\ checked => SchemaOK(proposal)
  /\ pc = "regulate" => /\ decision # None
                        /\ SchemaOK(decision)
                        /\ verdict \in {"accept", "escalate"}
                        /\ verdict = "escalate" => prev # None /\ decision = prev
  /\ (raised # "none") <=> (pc = "raised")

\* The Boolean part of the type invariant, proved apart.
Flags ==
  /\ feedback \in BOOLEAN
  /\ reasoning \in BOOLEAN
  /\ simOK \in BOOLEAN
  /\ checked \in BOOLEAN

IInv ==
  /\ RunnerTypeOK
  /\ TracksLastAccepted
  /\ LoopGuardUnreachable
  /\ FeedbackOfThisCycle
  /\ SchemaClientNeverEscalates
  /\ StagesLinked

\* What the IAE adds per cycle is never negative.
LEMMA AbsNat == ASSUME NEW n \in Int PROVE Abs(n) \in Nat
  BY DEF Abs

\* The Critic compares two integers.
LEMMA RoundsInt == ASSUME RunnerTypeOK PROVE rounds \in Int /\ MaxRounds \in Int
  BY RunnerAssumption DEF RunnerTypeOK

\* The inductive invariant holds before the first cycle.
LEMMA InitIInv == ASSUME RunnerInit PROVE IInv
  <1> USE RunnerAssumption DEF RunnerInit
  <1>1. report.yD \in Int
    OBVIOUS
  <1>2. Flags
    BY Zenon DEF Flags
  <1>3. RunnerTypeOK
    BY <1>1, <1>2 DEF RunnerTypeOK, Flags
  <1>4. TracksLastAccepted /\ LoopGuardUnreachable /\ FeedbackOfThisCycle
    BY DEF TracksLastAccepted, LoopGuardUnreachable, FeedbackOfThisCycle
  <1>5. SchemaClientNeverEscalates /\ StagesLinked
    BY DEF SchemaClientNeverEscalates, StagesLinked
  <1> QED BY <1>3, <1>4, <1>5 DEF IInv

\* A fresh AgentState carries nothing over but the runner's memory.
LEMMA BeginCycleIInv ==
  ASSUME IInv, NEW i, NEW yD \in Plants, NEW lt, BeginCycle(i, yD, lt)
  PROVE  IInv'
  <1> USE RunnerAssumption DEF IInv, BeginCycle, ClearFeedback, memory
  <1>1. report'.yD \in Int
    OBVIOUS
  <1>2. Flags'
    BY Zenon DEF Flags, RunnerTypeOK
  <1>3. RunnerTypeOK'
    BY <1>1, <1>2 DEF RunnerTypeOK, Flags
  <1>4. TracksLastAccepted' /\ LoopGuardUnreachable' /\ FeedbackOfThisCycle'
    BY DEF RunnerTypeOK, TracksLastAccepted, LoopGuardUnreachable, FeedbackOfThisCycle
  <1>5. SchemaClientNeverEscalates' /\ StagesLinked'
    BY DEF SchemaClientNeverEscalates, StagesLinked
  <1> QED BY <1>3, <1>4, <1>5

\* A round starts below the budget, so counting it stays within.
LEMMA OptimizeIInv ==
  ASSUME IInv, NEW p \in Proposals, Optimize(p)
  PROVE  IInv'
  <1> USE RunnerAssumption DEF IInv, Optimize, CountRound, memory
  <1>1. Flags'
    BY Zenon DEF Flags, RunnerTypeOK
  <1>2. rounds' \in 0 .. MaxRounds
    BY DEF RunnerTypeOK, LoopGuardUnreachable
  <1>3. RunnerTypeOK'
    BY <1>1, <1>2 DEF RunnerTypeOK, Flags
  <1>4. TracksLastAccepted' /\ LoopGuardUnreachable' /\ FeedbackOfThisCycle'
    BY DEF RunnerTypeOK, TracksLastAccepted, LoopGuardUnreachable, FeedbackOfThisCycle
  <1>5. SchemaClientNeverEscalates'
    BY DEF SchemaClientNeverEscalates
  <1>6. rounds' # 0 /\ (checked' => SchemaOK(proposal'))
    BY DEF RunnerTypeOK, ClientReturns
  <1>7. StagesLinked'
    BY <1>6 DEF StagesLinked
  <1> QED BY <1>3, <1>4, <1>5, <1>7

\* Every way a completion call or the backend can raise.
LEMMA RaiseIInv ==
  ASSUME IInv, pc \in {"optimize", "regulate"},
         NEW e \in Exceptions \ {"CriticLoopLimit"}, Raise(e), UNCHANGED cycleVars
  PROVE  IInv'
  <1> USE RunnerAssumption DEF IInv, Raise, memory, cycleVars
  <1>1. RunnerTypeOK'
    BY DEF RunnerTypeOK
  <1>2. TracksLastAccepted' /\ LoopGuardUnreachable' /\ FeedbackOfThisCycle'
    BY DEF TracksLastAccepted, LoopGuardUnreachable, FeedbackOfThisCycle
  <1>3. SchemaClientNeverEscalates' /\ StagesLinked'
    BY DEF SchemaClientNeverEscalates, StagesLinked, Exceptions, CompletionErrors, LLMErrors
  <1> QED BY <1>1, <1>2, <1>3

\* The four ways out of the Critic.  A client that validates cannot reach the
\* two that escalate.
LEMMA CriticIInv ==
  ASSUME IInv, CriticAccepts \/ CriticRevises \/ CriticEscalates \/ CriticLoopLimit
  PROVE  IInv'
  <1> USE RunnerAssumption, RoundsInt DEF IInv, memory
  <1>1. CASE CriticAccepts
    <2> USE <1>1 DEF CriticAccepts, Accepts
    <2>1. RunnerTypeOK'
      BY DEF RunnerTypeOK, StagesLinked
    <2>2. TracksLastAccepted' /\ LoopGuardUnreachable' /\ FeedbackOfThisCycle'
      BY DEF TracksLastAccepted, LoopGuardUnreachable, FeedbackOfThisCycle
    <2>3. SchemaClientNeverEscalates' /\ StagesLinked'
      BY DEF SchemaClientNeverEscalates, StagesLinked
    <2> QED BY <2>1, <2>2, <2>3
  <1>2. CASE CriticRevises
    <2> USE <1>2 DEF CriticRevises
    <2>1. rounds < MaxRounds
      BY DEF Accepts, Escalates
    <2>2. RunnerTypeOK'
      BY DEF RunnerTypeOK
    <2>3. rounds # 0
      BY DEF StagesLinked
    <2>4. TracksLastAccepted' /\ LoopGuardUnreachable' /\ FeedbackOfThisCycle'
      BY <2>1, <2>3
      DEF RunnerTypeOK, TracksLastAccepted, LoopGuardUnreachable, FeedbackOfThisCycle
    <2>5. SchemaClientNeverEscalates' /\ StagesLinked'
      BY DEF SchemaClientNeverEscalates, StagesLinked
    <2> QED BY <2>2, <2>4, <2>5
  <1>3. CASE CriticEscalates
    <2> USE <1>3 DEF CriticEscalates, Fallback
    <2>1. ~checked
      BY DEF Escalates, StagesLinked
    <2>2. RunnerTypeOK'
      BY DEF RunnerTypeOK
    <2>3. TracksLastAccepted' /\ LoopGuardUnreachable' /\ FeedbackOfThisCycle'
      BY DEF TracksLastAccepted, LoopGuardUnreachable, FeedbackOfThisCycle
    <2>4. SchemaClientNeverEscalates' /\ StagesLinked'
      BY <2>1 DEF SchemaClientNeverEscalates, StagesLinked, TracksLastAccepted
    <2> QED BY <2>2, <2>3, <2>4
  <1>4. CASE CriticLoopLimit
    <2> USE <1>4 DEF CriticLoopLimit, Raise
    <2>1. ~checked
      BY DEF Escalates, StagesLinked
    <2>2. RunnerTypeOK'
      BY DEF RunnerTypeOK, Exceptions
    <2>3. TracksLastAccepted' /\ LoopGuardUnreachable' /\ FeedbackOfThisCycle'
      BY DEF TracksLastAccepted, LoopGuardUnreachable, FeedbackOfThisCycle
    <2>4. SchemaClientNeverEscalates' /\ StagesLinked'
      BY <2>1 DEF SchemaClientNeverEscalates, StagesLinked
    <2> QED BY <2>2, <2>3, <2>4
  <1> QED BY <1>1, <1>2, <1>3, <1>4

\* The backend tracks the decision, and what is remembered is the same pair.
LEMMA RegulateIInv ==
  ASSUME IInv, (\E yD \in Plants : Regulated(yD)) \/ RegulationFails
  PROVE  IInv'
  <1> USE RunnerAssumption DEF IInv, Remember, CountCycle, cycleVars
  <1>1. CASE \E yD \in Plants : Regulated(yD)
    <2> PICK yD \in Plants : Regulated(yD) BY <1>1
    <2> USE DEF Regulated
    <2>1. /\ Abs(yD - Canonical) \in Nat
          /\ Abs(yD - decision.yD) \in Nat
      BY AbsNat DEF RunnerTypeOK, StagesLinked
    <2>2. RunnerTypeOK'
      BY <2>1 DEF RunnerTypeOK
    <2>3. TracksLastAccepted' /\ LoopGuardUnreachable' /\ FeedbackOfThisCycle'
      BY DEF TracksLastAccepted, LoopGuardUnreachable, FeedbackOfThisCycle, StagesLinked
    <2>4. SchemaClientNeverEscalates' /\ StagesLinked'
      BY DEF SchemaClientNeverEscalates, StagesLinked
    <2> QED BY <2>2, <2>3, <2>4
  <1>2. CASE RegulationFails
    <2> USE <1>2 DEF RegulationFails
    <2>1. Flags'
      BY Zenon DEF Flags, RunnerTypeOK
    <2>2. RunnerTypeOK'
      BY <2>1 DEF RunnerTypeOK, Flags
    <2>3. TracksLastAccepted' /\ LoopGuardUnreachable' /\ FeedbackOfThisCycle'
      BY DEF TracksLastAccepted, LoopGuardUnreachable, FeedbackOfThisCycle, StagesLinked
    <2>4. SchemaClientNeverEscalates' /\ StagesLinked'
      BY DEF SchemaClientNeverEscalates, StagesLinked
    <2> QED BY <2>2, <2>3, <2>4
  <1> QED BY <1>1, <1>2

\* Every step preserves the inductive invariant.
LEMMA NextIInv == ASSUME IInv, [RunnerNext]_runnerVars PROVE IInv'
  <1>1. CASE \E yD \in Plants, lt \in Refluxes : BeginCycle(completed, yD, lt)
    BY <1>1, BeginCycleIInv
  <1>2. CASE \E p \in Proposals : Optimize(p)
    BY <1>2, OptimizeIInv
  <1>3. CASE \E p \in Proposals : SchemaRefuses(p)
    BY <1>3, RaiseIInv DEF SchemaRefuses, Exceptions
  <1>4. CASE \E e \in CompletionErrors : CompletionFails(e)
    BY <1>4, RaiseIInv DEF CompletionFails, Exceptions, CompletionErrors, LLMErrors
  <1>5. CASE CriticAccepts \/ CriticRevises \/ CriticEscalates \/ CriticLoopLimit
    BY <1>5, CriticIInv
  <1>6. CASE BackendRaises
    BY <1>6, RaiseIInv DEF BackendRaises, Exceptions
  <1>7. CASE (\E yD \in Plants : Regulated(yD)) \/ RegulationFails
    BY <1>7, RegulateIInv
  <1>8. CASE UNCHANGED runnerVars
    BY <1>8
    DEF runnerVars, cycleVars, memory, IInv, RunnerTypeOK, TracksLastAccepted,
        LoopGuardUnreachable, FeedbackOfThisCycle, SchemaClientNeverEscalates,
        StagesLinked
  <1> QED
    BY <1>1, <1>2, <1>3, <1>4, <1>5, <1>6, <1>7, <1>8 DEF RunnerNext, InnerStep

\* The inductive invariant holds in every state of the runner.
THEOREM RunnerInvariant == RunnerSpec => []IInv
  BY InitIInv, NextIInv, PTL DEF RunnerSpec

-------------------------------------------------------------------------------
\* Type correctness of the runner.
THEOREM RunnerTypes == RunnerSpec => []RunnerTypeOK
  <1>1. IInv => RunnerTypeOK
    BY DEF IInv
  <1> QED BY <1>1, RunnerInvariant, PTL

\* The plant tracks only admissible pairs, and exactly the pair an escalation
\* would fall back to.
THEOREM RunnerTracksLastAccepted == RunnerSpec => []TracksLastAccepted
  <1>1. IInv => TracksLastAccepted
    BY DEF IInv
  <1> QED BY <1>1, RunnerInvariant, PTL

\* The Critic's budget check makes the loop's ceiling unreachable.
THEOREM RunnerLoopGuardUnreachable == RunnerSpec => []LoopGuardUnreachable
  <1>1. IInv => LoopGuardUnreachable
    BY DEF IInv
  <1> QED BY <1>1, RunnerInvariant, PTL

\* With a schema-validating client no cycle escalates.
THEOREM RunnerSchemaClientNeverEscalates == RunnerSpec => []SchemaClientNeverEscalates
  <1>1. IInv => SchemaClientNeverEscalates
    BY DEF IInv
  <1> QED BY <1>1, RunnerInvariant, PTL

\* Feedback never crosses from one cycle into the next.
THEOREM RunnerFeedbackOfThisCycle == RunnerSpec => []FeedbackOfThisCycle
  <1>1. IInv => FeedbackOfThisCycle
    BY DEF IInv
  <1> QED BY <1>1, RunnerInvariant, PTL

-------------------------------------------------------------------------------
\* The runner starts where the contract starts.
LEMMA RefineInit == RunnerInit => Contract!Init
  BY DEF RunnerInit, Contract!Init

\* A cycle's last step adopts or holds a pair, an exception aborts, and every
\* other step is invisible to the contract.
LEMMA RefineNext ==
  ASSUME IInv, [RunnerNext]_runnerVars
  PROVE  [Contract!Next]_Contract!vars
  <1> USE DEF IInv, Contract!vars
  <1>1. CASE \E yD \in Plants, lt \in Refluxes : BeginCycle(completed, yD, lt)
    BY <1>1 DEF BeginCycle, memory
  <1>2. CASE \E p \in Proposals : Optimize(p)
    BY <1>2 DEF Optimize, memory
  <1>3. ASSUME NEW e \in Exceptions, Raise(e), pc # "raised"
        PROVE  Contract!Abort
    BY <1>3
    DEF Raise, Contract!Abort, StagesLinked, Exceptions, CompletionErrors, LLMErrors, memory
  <1>4. CASE \E p \in Proposals : SchemaRefuses(p)
    BY <1>4, <1>3 DEF SchemaRefuses, Exceptions, Contract!Next
  <1>5. CASE \E e \in CompletionErrors : CompletionFails(e)
    BY <1>5, <1>3 DEF CompletionFails, Exceptions, Contract!Next
  <1>6. CASE CriticAccepts \/ CriticRevises \/ CriticEscalates
    BY <1>6 DEF CriticAccepts, CriticRevises, CriticEscalates, memory
  <1>7. CASE CriticLoopLimit
    BY <1>7, <1>3 DEF CriticLoopLimit, Exceptions, Contract!Next
  <1>8. CASE BackendRaises
    BY <1>8, <1>3 DEF BackendRaises, Exceptions, Contract!Next
  <1>9. ASSUME pc = "regulate", applied' = decision, Remember, CountCycle,
               UNCHANGED raised
        PROVE  Contract!Next
    <2>1. raised = "none" /\ decision \in Proposals /\ SchemaOK(decision)
      BY <1>9 DEF StagesLinked, RunnerTypeOK
    <2>2. CASE verdict = "accept"
      <3>1. Contract!Adopt(decision)
        BY <1>9, <2>1, <2>2 DEF Remember, CountCycle, Contract!Adopt
      <3> QED BY <3>1, <2>1 DEF Contract!Next
    <2>3. CASE verdict = "escalate"
      <3>1. Contract!Hold
        BY <1>9, <2>1, <2>3 DEF Remember, CountCycle, Contract!Hold, StagesLinked
      <3> QED BY <3>1 DEF Contract!Next
    <2> QED BY <1>9, <2>2, <2>3 DEF StagesLinked
  <1>10. CASE (\E yD \in Plants : Regulated(yD)) \/ RegulationFails
    BY <1>10, <1>9 DEF Regulated, RegulationFails
  <1>11. CASE UNCHANGED runnerVars
    BY <1>11 DEF runnerVars, memory
  <1> QED
    BY <1>1, <1>2, <1>4, <1>5, <1>6, <1>7, <1>8, <1>10, <1>11 DEF RunnerNext, InnerStep

\* The runner implements the supervisor's contract: every behaviour of the
\* cycle-by-cycle program is one the contract allows.
THEOREM RunnerImplementsContract == RunnerSpec => ImplementsContract
  BY RefineInit, RefineNext, RunnerInvariant, PTL
  DEF RunnerSpec, ImplementsContract, Contract!Spec

-------------------------------------------------------------------------------
(* The process.                                                            *)

\* The loop index is the runner's count of cycles.
Indexed ==
  /\ plant \in Plants
  /\ tick = completed
  /\ tick \in 0 .. NTicks
  /\ smoke = "step" => tick < NTicks

\* How the file comes to match the exit code.
Reported ==
  /\ smoke \in {"start", "loop", "step", "write", "writing", "written", "exited"}
  /\ smoke # "exited" => rc = "none"
  /\ smoke \in {"start", "loop", "step"} => abortAt = -1
  /\ abortAt = -1 \/ (abortAt = tick /\ tick < NTicks)
  /\ smoke \in {"write", "writing", "written"} => abortAt # -1 \/ tick = NTicks
  /\ smoke \notin {"written", "exited"} => file.state # "complete"
  /\ smoke = "written" => /\ file.state = "complete"
                          /\ file.payload.abortAt = abortAt
                          /\ file.payload.completed = tick

SmokeInv == Indexed /\ Reported /\ ExitTellsFile

\* The process starts with nothing counted and nothing written.
LEMMA SmokeInitInv == ASSUME Init PROVE SmokeInv
  BY SmokeAssumption
  DEF Init, RunnerInit, SmokeInv, Indexed, Reported, ExitTellsFile, File, NoPayload

\* No step inside a cycle counts a cycle.
LEMMA InnerKeepsCount == ASSUME InnerStep PROVE UNCHANGED completed
  BY DEF InnerStep, Optimize, SchemaRefuses, CompletionFails, CriticAccepts,
         CriticRevises, CriticEscalates, CriticLoopLimit, BackendRaises, Raise, memory

\* The end of a tick moves the index and the count together.
LEMMA EndTickInv ==
  ASSUME SmokeInv, NEW yD \in Plants, NEW ok, EndTick(yD, ok), CountCycle
  PROVE  SmokeInv'
  <1> USE SmokeAssumption DEF EndTick, CountCycle, NextPlant, SmokeInv
  <1>1. Indexed'
    BY DEF Indexed
  <1>2. Reported' /\ ExitTellsFile'
    BY DEF Indexed, Reported, ExitTellsFile
  <1> QED BY <1>1, <1>2

\* Every step of the process preserves the invariant.
LEMMA SmokeNextInv == ASSUME SmokeInv, [Next]_vars PROVE SmokeInv'
  <1> USE SmokeAssumption DEF SmokeInv
  <1>1. CASE Load
    BY <1>1 DEF Load, Exit, Indexed, Reported, ExitTellsFile, runnerVars, memory
  <1>2. CASE StartTick
    BY <1>2 DEF StartTick, BeginCycle, Indexed, Reported, ExitTellsFile, memory
  <1>3. CASE AgentStep
    BY <1>3, InnerKeepsCount
    DEF AgentStep, driverVars, Indexed, Reported, ExitTellsFile
  <1>4. CASE TickSucceeds
    BY <1>4, EndTickInv DEF TickSucceeds, Regulated
  <1>5. CASE TickFails
    BY <1>5, EndTickInv DEF TickFails, RegulationFails, Indexed
  <1>6. CASE AbortRun
    BY <1>6 DEF AbortRun, Indexed, Reported, ExitTellsFile, runnerVars, memory
  <1>7. CASE Crash \/ Kill
    BY <1>7 DEF Crash, Kill, Exit, Indexed, Reported, ExitTellsFile, runnerVars, memory
  <1>8. CASE LoopEnds
    BY <1>8 DEF LoopEnds, Indexed, Reported, ExitTellsFile, runnerVars, memory
  <1>9. CASE OpenFile
    BY <1>9
    DEF OpenFile, File, NoPayload, Indexed, Reported, ExitTellsFile, runnerVars, memory
  <1>10. CASE CloseFile
    BY <1>10 DEF CloseFile, File, Indexed, Reported, ExitTellsFile, runnerVars, memory
  <1>11. CASE Return
    BY <1>11
    DEF Return, Exit, ExitCode, Indexed, Reported, ExitTellsFile, runnerVars, memory
  <1>12. CASE UNCHANGED vars
    BY <1>12
    DEF vars, driverVars, Indexed, Reported, ExitTellsFile, runnerVars, memory
  <1> QED
    BY <1>1, <1>2, <1>3, <1>4, <1>5, <1>6, <1>7, <1>8, <1>9, <1>10, <1>11, <1>12
    DEF Next, Progress

\* The invariant holds in every state of the process.
THEOREM SmokeInvariant == Spec => []SmokeInv
  BY SmokeInitInv, SmokeNextInv, PTL DEF Spec

\* A driver may believe the exit code: 0 and 2 each name the file they left.
THEOREM SmokeExitTellsFile == Spec => []ExitTellsFile
  <1>1. SmokeInv => ExitTellsFile
    BY DEF SmokeInv
  <1> QED BY <1>1, SmokeInvariant, PTL

-------------------------------------------------------------------------------
\* A step of the process is a step of the runner or leaves the runner alone.
LEMMA SmokeStepsRunner ==
  ASSUME SmokeInv, [Next]_vars
  PROVE  [RunnerNext]_runnerVars
  <1>1. CASE StartTick
    BY <1>1, SmokeAssumption DEF StartTick, RunnerNext, SmokeInv, Indexed
  <1>2. CASE AgentStep
    BY <1>2 DEF AgentStep, RunnerNext
  <1>3. CASE TickSucceeds \/ TickFails
    BY <1>3 DEF TickSucceeds, TickFails, RunnerNext
  <1>4. CASE \/ Load \/ AbortRun \/ Crash \/ LoopEnds \/ OpenFile \/ CloseFile
             \/ Return \/ Kill \/ UNCHANGED vars
    BY <1>4
    DEF Load, AbortRun, Crash, LoopEnds, OpenFile, CloseFile, Return, Kill, vars
  <1> QED BY <1>1, <1>2, <1>3, <1>4 DEF Next, Progress

\* The process implements the runner's specification.
THEOREM SmokeRunsTheRunner == Spec => RunnerSpec
  <1>1. Init => RunnerInit
    BY DEF Init
  <1> QED BY <1>1, SmokeStepsRunner, SmokeInvariant, PTL DEF Spec, RunnerSpec

\* Hence it implements the supervisor's contract too, kills included.
THEOREM SmokeImplementsContract == Spec => ImplementsContract
  BY SmokeRunsTheRunner, RunnerImplementsContract

-------------------------------------------------------------------------------
(* The trace.                                                              *)

Rows == [pre : Plants, post : Plants, target : Proposals, escalated : BOOLEAN, ok : BOOLEAN]

\* The trace ends at the plant the next cycle starts from, and at the pair the
\* runner remembers.
TraceEndsHere ==
  /\ cycles \in Seq(Rows)
  /\ plant \in Plants
  /\ cycles = <<>> => prev = None
  /\ cycles # <<>> => /\ plant = cycles[Len(cycles)].post
                      /\ prev = cycles[Len(cycles)].target

TraceInv == TraceEndsHere /\ TraceIsOneRun

\* An empty trace, and nothing remembered.
LEMMA TraceInitInv == ASSUME Init PROVE TraceInv
  BY SmokeAssumption DEF Init, RunnerInit, TraceInv, TraceEndsHere, TraceIsOneRun

\* What the runner remembers after a cycle is what the plant tracked in it.
LEMMA RemembersDecision ==
  ASSUME IInv, pc = "regulate", Remember
  PROVE  /\ prev' = decision /\ decision \in Proposals
         /\ verdict = "escalate" => prev # None /\ decision = prev
  BY DEF IInv, StagesLinked, RunnerTypeOK, Remember

\* The row of a cycle continues the trace.
LEMMA EndTickTraceInv ==
  ASSUME IInv, TraceInv, pc = "regulate", Remember,
         NEW yD \in Plants, NEW ok \in BOOLEAN, EndTick(yD, ok), ~ok => yD = plant
  PROVE  TraceInv'
  <1> DEFINE row == Row(yD, ok)
             n == Len(cycles)
  <1>1. row \in Rows
    <2>1. plant \in Plants /\ decision \in Proposals
      BY RemembersDecision DEF TraceInv, TraceEndsHere
    <2>2. (verdict = "escalate") \in BOOLEAN
      BY Zenon
    <2> QED BY <2>1, <2>2 DEF Row, Rows
  <1>2. /\ row.pre = plant /\ row.post = yD /\ row.target = decision /\ row.ok = ok
        /\ row.escalated <=> verdict = "escalate"
    BY DEF Row
  <1>3. cycles \in Seq(Rows) /\ n \in Nat
    BY DEF TraceInv, TraceEndsHere
  <1>4. cycles' = Append(cycles, row) /\ plant' = yD
    BY DEF EndTick, NextPlant
  <1> HIDE DEF row
  <1>5. /\ cycles' \in Seq(Rows)
        /\ Len(cycles') = n + 1
        /\ cycles'[n + 1] = row
        /\ \A k \in 1 .. n : cycles'[k] = cycles[k]
    BY <1>1, <1>3, <1>4
  <1>6. TraceEndsHere'
    BY <1>2, <1>3, <1>4, <1>5, RemembersDecision DEF TraceEndsHere
  <1>7. TraceIsOneRun'
    <2> SUFFICES ASSUME NEW k \in 1 .. n + 1
                 PROVE  /\ k > 1 => cycles'[k].pre = cycles'[k - 1].post
                        /\ ~cycles'[k].ok => cycles'[k].post = cycles'[k].pre
                        /\ cycles'[k].escalated
                             => k > 1 /\ cycles'[k].target = cycles'[k - 1].target
      BY <1>5 DEF TraceIsOneRun
    <2>1. CASE k \in 1 .. n
      <3>1. cycles'[k] = cycles[k] /\ (k > 1 => cycles'[k - 1] = cycles[k - 1])
        BY <2>1, <1>3, <1>5
      <3> QED BY <2>1, <3>1 DEF TraceInv, TraceIsOneRun
    <2>2. CASE k = n + 1 /\ n = 0
      <3>1. cycles'[k] = row /\ prev = None
        BY <2>2, <1>3, <1>5 DEF TraceInv, TraceEndsHere
      <3> QED BY <2>2, <3>1, <1>2, RemembersDecision
    <2>3. CASE k = n + 1 /\ n > 0
      <3>1. cycles'[k] = row /\ cycles'[k - 1] = cycles[n]
        BY <2>3, <1>3, <1>5
      <3>2. plant = cycles[n].post /\ prev = cycles[n].target
        BY <2>3, <1>3 DEF TraceInv, TraceEndsHere
      <3> QED BY <2>3, <3>1, <3>2, <1>2, <1>3, RemembersDecision
    <2> QED BY <2>1, <2>2, <2>3, <1>3
  <1> QED BY <1>6, <1>7 DEF TraceInv

\* Only the end of a cycle touches what the trace invariant speaks of.
LEMMA TraceNextInv ==
  ASSUME IInv, TraceInv, [Next]_vars
  PROVE  TraceInv'
  <1>1. CASE TickSucceeds
    <2>1. PICK yD \in Plants : Regulated(yD) /\ EndTick(yD, TRUE)
      BY <1>1 DEF TickSucceeds
    <2> QED BY <2>1, EndTickTraceInv DEF Regulated
  <1>2. CASE TickFails
    BY <1>2, EndTickTraceInv DEF TickFails, RegulationFails, TraceInv, TraceEndsHere
  <1>3. CASE ~TickSucceeds /\ ~TickFails
    <2>1. UNCHANGED <<cycles, plant, prev>>
      <3>1. CASE StartTick
        BY <3>1 DEF StartTick, BeginCycle, memory
      <3>2. CASE AgentStep
        <4>1. UNCHANGED memory
          BY <3>2
          DEF AgentStep, InnerStep, Optimize, SchemaRefuses, CompletionFails, CriticAccepts,
              CriticRevises, CriticEscalates, CriticLoopLimit, BackendRaises, Raise, memory
        <4> QED BY <3>2, <4>1 DEF AgentStep, driverVars, memory
      <3>3. CASE \/ Load \/ AbortRun \/ Crash \/ LoopEnds \/ OpenFile \/ CloseFile
                 \/ Return \/ Kill \/ UNCHANGED vars
        BY <3>3
        DEF Load, AbortRun, Crash, LoopEnds, OpenFile, CloseFile, Return, Kill, vars,
            runnerVars, driverVars, memory
      <3> QED BY <1>3, <3>1, <3>2, <3>3 DEF Next, Progress
    <2> QED BY <2>1 DEF TraceInv, TraceEndsHere, TraceIsOneRun
  <1> QED BY <1>1, <1>2, <1>3

\* The trace a run leaves, whole or partial, is the record of one run: no row starts
\* where the one before did not end, and none escalates to a pair nobody accepted.
THEOREM SmokeTraceIsOneRun == Spec => []TraceIsOneRun
  <1>1. Spec => []IInv
    BY SmokeRunsTheRunner, RunnerInvariant, PTL
  <1>2. TraceInv => TraceIsOneRun
    BY DEF TraceInv
  <1> QED BY <1>1, <1>2, TraceInitInv, TraceNextInv, PTL DEF Spec

-------------------------------------------------------------------------------
(* The runner's memory and the trace.                                      *)

\* The canonical error of a row is a natural number.
LEMMA RowIAEType == ASSUME NEW row \in Rows PROVE RowIAE(row) \in Nat
  <1>1. row.post \in Int /\ Canonical \in Int
    BY RunnerAssumption DEF Rows
  <1> QED BY <1>1, AbsNat DEF RowIAE

\* A trace that grows by a row has that row's error more.
LEMMA SumIAEGrows ==
  ASSUME NEW rows \in Seq(Rows), NEW row \in Rows
  PROVE  SumIAE(Append(rows, row)) = SumIAE(rows) + RowIAE(row)
  <1> DEFINE n == Len(rows)
             f == [k \in 1 .. n |-> RowIAE(rows[k])]
             g == [k \in 1 .. n + 1 |-> RowIAE(Append(rows, row)[k])]
  <1>1. /\ n \in Nat /\ Len(Append(rows, row)) = n + 1
        /\ Append(rows, row)[n + 1] = row
        /\ \A k \in 1 .. n : rows[k] \in Rows /\ Append(rows, row)[k] = rows[k]
    OBVIOUS
  <1>2. IsFiniteSet(1 .. n)
    <2> HIDE DEF n
    <2>1. n \in Int /\ 1 \in Int
      BY <1>1
    <2> QED BY <2>1, FS_Interval, Zenon
  <1>3. \A k \in 1 .. n : f[k] = g[k] /\ g[k] \in Int
    BY <1>1, RowIAEType
  <1>4. g[n + 1] = RowIAE(row) /\ g[n + 1] \in Int
    BY <1>1, RowIAEType
  <1>5. SumIAE(rows) = SumFunctionOnSet(f, 1 .. n)
    BY DEF SumIAE, SumFunction
  <1>6. SumIAE(Append(rows, row)) = SumFunctionOnSet(g, 1 .. n + 1)
    BY <1>1 DEF SumIAE, SumFunction
  <1> HIDE DEF f, g, n
  <1>7. SumFunctionOnSet(f, 1 .. n) = SumFunctionOnSet(g, 1 .. n)
    BY <1>2, <1>3, SumEqual
  <1>8. SumFunctionOnSet(g, 1 .. n + 1) = SumFunctionOnSet(g, 1 .. n) + g[n + 1]
    <2>1. n \in Int /\ 1 \in Int /\ n >= 1 - 1
      BY <1>1
    <2>2. \A k \in 1 .. n + 1 : g[k] \in Int
      BY <1>1, <1>3, <1>4
    <2> QED BY <2>1, <2>2, SumNext
  <1> QED BY <1>4, <1>5, <1>6, <1>7, <1>8

\* The end of a tick adds to the memory what its row shows.
LEMMA EndTickMatches ==
  ASSUME IInv, TraceInv, RunnerMatchesTrace, pc = "regulate", Remember, CountCycle,
         NEW yD \in Plants, NEW ok \in BOOLEAN, EndTick(yD, ok),
         iae' = iae + IF ok THEN Abs(yD - Canonical) ELSE 0
  PROVE  RunnerMatchesTrace'
  <1> DEFINE row == Row(yD, ok)
  <1>1. row \in Rows
    <2>1. plant \in Plants /\ decision \in Proposals
      BY RemembersDecision DEF TraceInv, TraceEndsHere
    <2>2. (verdict = "escalate") \in BOOLEAN
      BY Zenon
    <2> QED BY <2>1, <2>2 DEF Row, Rows
  <1>2. row.post = yD /\ row.ok = ok
    BY DEF Row
  <1>3. cycles \in Seq(Rows) /\ cycles' = Append(cycles, row) /\ smoke' # "step"
    BY DEF TraceInv, TraceEndsHere, EndTick
  <1>4. completed = Len(cycles) /\ completed' = completed + 1
    BY DEF RunnerMatchesTrace, CountCycle
  <1> HIDE DEF row
  <1>5. completed' = Len(cycles')
    BY <1>1, <1>3, <1>4
  <1>6. SumIAE(cycles') = SumIAE(cycles) + RowIAE(row)
    BY <1>1, <1>3, SumIAEGrows
  <1>7. iae' = SumIAE(cycles')
    BY <1>2, <1>6 DEF RunnerMatchesTrace, RowIAE
  <1> QED BY <1>3, <1>5, <1>7 DEF RunnerMatchesTrace

\* Only the end of a tick changes memory or trace, only its start the report.
LEMMA MatchNext ==
  ASSUME IInv, SmokeInv, TraceInv, RunnerMatchesTrace, [Next]_vars
  PROVE  RunnerMatchesTrace'
  <1>1. CASE TickSucceeds
    <2>1. PICK yD \in Plants : Regulated(yD) /\ EndTick(yD, TRUE)
      BY <1>1 DEF TickSucceeds
    <2> QED BY <2>1, EndTickMatches DEF Regulated
  <1>2. CASE TickFails
    <2>1. iae' = iae + IF FALSE THEN Abs(plant - Canonical) ELSE 0
      BY <1>2 DEF TickFails, RegulationFails, IInv, RunnerTypeOK
    <2>2. plant \in Plants
      BY DEF TraceInv, TraceEndsHere
    <2> QED BY <1>2, <2>1, <2>2, EndTickMatches DEF TickFails, RegulationFails
  <1>3. CASE StartTick
    BY <1>3 DEF StartTick, BeginCycle, memory, RunnerMatchesTrace, SmokeInv, Indexed
  <1>4. CASE AgentStep
    <2>1. UNCHANGED <<completed, iae, report>>
      BY <1>4
      DEF AgentStep, InnerStep, Optimize, SchemaRefuses, CompletionFails, CriticAccepts,
          CriticRevises, CriticEscalates, CriticLoopLimit, BackendRaises, Raise, memory, cycleVars
    <2> QED BY <1>4, <2>1 DEF AgentStep, driverVars, RunnerMatchesTrace
  <1>5. CASE \/ Load \/ AbortRun \/ Crash \/ LoopEnds \/ OpenFile \/ CloseFile
             \/ Return \/ Kill \/ UNCHANGED vars
    <2>1. UNCHANGED <<completed, iae, report, cycles>>
      BY <1>5
      DEF Load, AbortRun, Crash, LoopEnds, OpenFile, CloseFile, Return, Kill, vars,
          runnerVars, driverVars, memory, cycleVars
    <2>2. smoke' = "step" => smoke = "step"
      BY <1>5
      DEF Load, Exit, AbortRun, Crash, LoopEnds, OpenFile, CloseFile, Return, Kill, vars,
          driverVars
    <2> QED BY <2>1, <2>2 DEF RunnerMatchesTrace
  <1> QED BY <1>1, <1>2, <1>3, <1>4, <1>5 DEF Next, Progress

\* Whatever the run did, the IAE and the cycle count it reports are those of its
\* trace, and each cycle was shown the sum over exactly the rows before it.
THEOREM SmokeRunnerMatchesTrace == Spec => []RunnerMatchesTrace
  <1>1. Init => RunnerMatchesTrace
    <2>1. SumIAE(<<>>) = 0
      <3> DEFINE f == [k \in 1 .. 0 |-> RowIAE(<<>>[k])]
      <3>1. SumIAE(<<>>) = SumFunctionOnSet(f, {})
        BY DEF SumIAE, SumFunction
      <3> HIDE DEF f
      <3> QED BY <3>1, SumEmpty
    <2> QED BY <2>1 DEF Init, RunnerInit, RunnerMatchesTrace
  <1>2. Spec => []IInv
    BY SmokeRunsTheRunner, RunnerInvariant, PTL
  <1>3. Spec => []TraceInv
    BY <1>2, TraceInitInv, TraceNextInv, PTL DEF Spec
  <1> QED BY <1>1, <1>2, <1>3, SmokeInvariant, MatchNext, PTL DEF Spec
================================================================================
