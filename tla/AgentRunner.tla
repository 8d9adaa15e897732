------------------------------ MODULE AgentRunner ------------------------------
(***************************************************************************)
(* agents/graph.py: one supervisor cycle (run_one_cycle: Observer, then    *)
(* rounds of Optimizer and Critic, then the regulatory backend) and the    *)
(* memory AgentRunner.step keeps between cycles.                           *)
(*                                                                         *)
(* Mole fractions are counted in tenths.  A cycle's trajectory is          *)
(* abstracted to one sample, the top composition it ends at: no decision   *)
(* reads anything else of the plant state.  Prompts, rationales and token  *)
(* counts are left out.                                                    *)
(***************************************************************************)
EXTENDS Integers

CONSTANTS
  Proposals,            \* setpoint pairs [yD, xB] the model may answer with
  Plants,               \* top compositions y_D the plant may be observed at
  Refluxes,             \* values of the reflux LT
  MaxRounds,            \* GraphConfig.max_critic_optimizer_rounds
  FirstRoundReasoning,  \* GraphConfig.first_round_reasoning
  Canonical,            \* canonical_y_D_target
  None

Scale == 10             \* 1.0 in tenths
Slack == 3              \* the 0.3 of the plausibility heuristic

ASSUME RunnerAssumption ==
  /\ Proposals \subseteq [yD : Int, xB : Int]
  /\ Plants \subseteq Int
  /\ MaxRounds \in Nat \ {0}
  /\ FirstRoundReasoning \in BOOLEAN
  /\ Canonical \in Int
  /\ None \notin Proposals

VARIABLES
  pc,         \* where the cycle stands
  report,     \* ObserverReport
  proposal,   \* AgentState.optimizer_proposal
  rounds,     \* AgentState.optimizer_rounds
  verdict,    \* AgentState.critic_verdict
  feedback,   \* critic_feedback is not None
  reasoning,  \* the reasoning flag of the latest completion call
  decision,   \* AgentState.decision
  simOK,      \* SimulationResult.success of the latest cycle
  raised,     \* the exception run_one_cycle ended with, or "none"
  prev,       \* AgentRunner._previous_accepted
  iae,        \* AgentRunner._canonical_aggregate_iae
  tracking,   \* AgentRunner._internal_tracking_iae
  completed,  \* AgentRunner._completed_cycles
  applied,    \* the pair the regulatory layer last tracked
  checked     \* llm_client: TRUE when it builds its reply through
              \* SetpointProposalInput, FALSE for a test double that skips
              \* the validators (model_construct)

cycleVars == <<report, proposal, rounds, verdict, feedback, reasoning, decision>>
memory == <<prev, iae, tracking, completed>>
runnerVars == <<pc, cycleVars, simOK, raised, memory, applied, checked>>

-------------------------------------------------------------------------------
(* Helpers.                                                                *)

Abs(n) == IF n < 0 THEN -n ELSE n

InBounds(v) == 0 <= v /\ v <= Scale

\* The field bounds and the ordering validator of SetpointProposalInput, which
\* are also the hard checks of _critic_node.
SchemaOK(p) == InBounds(p.yD) /\ InBounds(p.xB) /\ p.xB < p.yD

\* The one-shot failures of LLMClient.complete.
LLMErrors == {"EndpointUnreachable", "ServerError", "ResponseFormat",
              "ResponseParse", "MissingUsage"}

\* A reply the client reads without a check raises whatever Python does.
CompletionErrors == LLMErrors \cup {"Untyped"}

Exceptions == CompletionErrors \cup {"ValidationError", "CriticLoopLimit", "Backend"}

Implausible(p, yD) == yD - p.yD > Slack

Accepts_Unordered(p, yD, n) == InBounds(p.yD) /\ InBounds(p.xB)

\* _critic_node: hard objections escalate once the budget is spent; the
\* plausibility heuristic only ever asks for another round.
Accepts(p, yD, n) == SchemaOK(p) /\ (Implausible(p, yD) => n >= MaxRounds)

Escalates(p, n) == ~SchemaOK(p) /\ n >= MaxRounds

-------------------------------------------------------------------------------
(* One cycle.                                                              *)

RunnerInit ==
  /\ pc = "idle"
  /\ report = [cycle |-> 0, yD |-> 0, LT |-> 0, iae |-> 0]
  /\ proposal = None
  /\ rounds = 0
  /\ verdict = "none"
  /\ feedback = FALSE
  /\ reasoning = FALSE
  /\ decision = None
  /\ simOK = TRUE
  /\ raised = "none"
  /\ prev = None
  /\ iae = 0
  /\ tracking = 0
  /\ completed = 0
  /\ applied = None
  /\ checked \in BOOLEAN

ClearFeedback_Forgotten == UNCHANGED feedback

ClearFeedback == feedback' = FALSE

\* A fresh AgentState and the Observer's report.
BeginCycle(i, yD, lt) ==
  /\ pc = "idle"
  /\ pc' = "optimize"
  /\ report' = [cycle |-> i, yD |-> yD, LT |-> lt, iae |-> iae]
  /\ proposal' = None
  /\ rounds' = 0
  /\ verdict' = "none"
  /\ ClearFeedback
  /\ decision' = None
  /\ UNCHANGED <<reasoning, simOK, raised, memory, applied, checked>>

Raise(e) ==
  /\ raised' = e
  /\ pc' = "raised"
  /\ UNCHANGED <<simOK, memory, applied, checked>>

ClientReturns(p) == checked => SchemaOK(p)

CountRound_Forgotten == UNCHANGED rounds

CountRound == rounds' = rounds + 1

\* One Optimizer round whose completion call returned p.  The guard on rounds
\* is the loop's own ceiling, one round above the Critic's budget.
Optimize(p) ==
  /\ pc = "optimize"
  /\ rounds <= MaxRounds
  /\ ClientReturns(p)
  /\ proposal' = p
  /\ CountRound
  /\ reasoning' = (feedback \/ FirstRoundReasoning)
  /\ pc' = "critic"
  /\ UNCHANGED <<report, verdict, feedback, decision, simOK, raised, memory, applied, checked>>

\* A reply with a JSON object the schema refuses: pydantic's own exception.
SchemaRefuses(p) ==
  /\ pc = "optimize"
  /\ ~ClientReturns(p)
  /\ Raise("ValidationError")
  /\ UNCHANGED cycleVars

CompletionFails(e) ==
  /\ pc = "optimize"
  /\ Raise(e)
  /\ UNCHANGED cycleVars

CriticAccepts ==
  /\ pc = "critic"
  /\ Accepts(proposal, report.yD, rounds)
  /\ verdict' = "accept"
  /\ decision' = proposal
  /\ pc' = "regulate"
  /\ UNCHANGED <<report, proposal, rounds, feedback, reasoning, simOK, raised, memory, applied, checked>>

CriticRevises ==
  /\ pc = "critic"
  /\ ~Accepts(proposal, report.yD, rounds)
  /\ ~Escalates(proposal, rounds)
  /\ verdict' = "revise"
  /\ feedback' = TRUE
  /\ pc' = "optimize"
  /\ UNCHANGED <<report, proposal, rounds, reasoning, decision, simOK, raised, memory, applied, checked>>

Fallback_OwnProposal == proposal

Fallback == prev

\* The budget is spent: fall back to the previous accepted pair.
CriticEscalates ==
  /\ pc = "critic"
  /\ Escalates(proposal, rounds)
  /\ verdict' = "escalate"
  /\ prev # None
  /\ decision' = Fallback
  /\ pc' = "regulate"
  /\ UNCHANGED <<report, proposal, rounds, feedback, reasoning, simOK, raised, memory, applied, checked>>

\* ... and there is none: CriticLoopLimitError.
CriticLoopLimit ==
  /\ pc = "critic"
  /\ Escalates(proposal, rounds)
  /\ verdict' = "escalate"
  /\ prev = None
  /\ Raise("CriticLoopLimit")
  /\ UNCHANGED <<report, proposal, rounds, feedback, reasoning, decision>>

-------------------------------------------------------------------------------
(* The backend's step and the tail of AgentRunner.step.                    *)

Remember_Proposal == prev' = proposal

Remember == prev' = IF verdict = "accept" THEN decision ELSE prev

CountCycle_OnlyGood == completed' = IF simOK' THEN completed + 1 ELSE completed

CountCycle == completed' = completed + 1

\* The backend tracked the decision and the cycle ends at y_D = yD.
Regulated(yD) ==
  /\ pc = "regulate"
  /\ applied' = decision
  /\ simOK' = TRUE
  /\ Remember
  /\ iae' = iae + Abs(yD - Canonical)
  /\ tracking' = tracking + Abs(yD - decision.yD)
  /\ CountCycle
  /\ pc' = "idle"
  /\ UNCHANGED <<cycleVars, checked, raised>>

\* The simulation came back with success = False: no IAE is accumulated, and
\* the cycle still counts.
RegulationFails ==
  /\ pc = "regulate"
  /\ applied' = decision
  /\ simOK' = FALSE
  /\ Remember
  /\ CountCycle
  /\ pc' = "idle"
  /\ UNCHANGED <<cycleVars, checked, raised, iae, tracking>>

\* Building the controller for the cycle raised.
BackendRaises ==
  /\ pc = "regulate"
  /\ Raise("Backend")
  /\ UNCHANGED cycleVars

InnerStep ==
  \/ \E p \in Proposals : Optimize(p) \/ SchemaRefuses(p)
  \/ \E e \in CompletionErrors : CompletionFails(e)
  \/ CriticAccepts \/ CriticRevises \/ CriticEscalates \/ CriticLoopLimit
  \/ BackendRaises

RunnerNext ==
  \/ \E yD \in Plants, lt \in Refluxes : BeginCycle(completed, yD, lt)
  \/ InnerStep
  \/ \E yD \in Plants : Regulated(yD)
  \/ RegulationFails

RunnerSpec == RunnerInit /\ [][RunnerNext]_runnerVars

-------------------------------------------------------------------------------
(* Properties.                                                             *)

RunnerTypeOK ==
  /\ pc \in {"idle", "optimize", "critic", "regulate", "raised"}
  /\ report.yD \in Int
  /\ proposal \in Proposals \cup {None}
  /\ rounds \in 0 .. MaxRounds
  /\ verdict \in {"none", "accept", "revise", "escalate"}
  /\ feedback \in BOOLEAN
  /\ reasoning \in BOOLEAN
  /\ decision \in Proposals \cup {None}
  /\ simOK \in BOOLEAN
  /\ raised \in Exceptions \cup {"none"}
  /\ prev \in Proposals \cup {None}
  /\ iae \in Nat
  /\ tracking \in Nat
  /\ completed \in Nat
  /\ applied \in Proposals \cup {None}
  /\ checked \in BOOLEAN

\* The plant only ever tracks a pair inside the physical bounds with y_D above
\* x_B, and it is the very pair the runner would fall back to: an escalation,
\* however late, repeats what the plant already tracks (graph.py, escalate
\* branch and the update of _previous_accepted).
TracksLastAccepted == applied = prev /\ (prev # None => SchemaOK(prev))

\* The Critic's budget check ends every cycle before the loop's own ceiling,
\* the branch graph.py marks unreachable; a verdict never asks for a round the
\* budget does not have.
LoopGuardUnreachable ==
  /\ pc = "optimize" => rounds < MaxRounds
  /\ pc = "critic" => rounds <= MaxRounds

\* An Optimizer call carries Critic feedback exactly when a verdict of this
\* same cycle asked for a revision: nothing leaks from the cycle before, and
\* every revision, and no first round unless forced, runs with reasoning.
FeedbackOfThisCycle ==
  /\ pc = "optimize" => (feedback <=> rounds > 0)
  /\ pc = "critic" => (reasoning <=> rounds > 1 \/ FirstRoundReasoning)

\* A client that builds its reply through SetpointProposalInput is never
\* escalated: the Critic's hard checks repeat the schema's, so with such a
\* client CriticLoopLimitError cannot happen and the fallback is never used.
SchemaClientNeverEscalates ==
  checked => verdict # "escalate" /\ raised # "CriticLoopLimit"

\* The runner implements the supervisor's contract.
Contract == INSTANCE SupervisorContract
  WITH Safe <- {p \in Proposals : SchemaOK(p)},
       target <- applied, lastAccepted <- prev, cycles <- completed,
       status <- IF raised = "none" THEN "running" ELSE "aborted"

\* Every step of the runner is a step of the contract or leaves the contract's
\* variables alone.
ImplementsContract == Contract!Spec
================================================================================
