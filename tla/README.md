# Verification of the IndustrialAI supervisor and its experiment pipeline

This directory is the formal model of the program under `src/`: a language-model
supervisor that moves the setpoints of a distillation column, and the scripts
that run it in long, restartable experiments. It holds TLA+ modules, the
configurations that check small instances of them with TLC, and proofs checked
by TLAPS. Paths below are relative to the repository, whose package is
`src/industrial_ai/` and whose scripts are `tools/`.

## 1. The system

### 1.1 How the parts interact

```
 run_doe_sweep.py  --- one child process per cell --->  run_c2_smoke.py
      |  sweep_manifest.json                                |  AgentRunner.step, once per tick
      v                                                     v
 analyze_doe_sweep.py                              agents/graph.py: Observer -> (Optimizer <-> Critic)*
      |  confirmation_spec.json                        |  LLMClient.complete      |  decision
      v                                                v                          v
 run_doe_confirmation.py ---> run_c2_smoke.py       NIM / MLX / LM Studio  regulatory_backend.py
                                                                               |  PID or linear MPC
                                                                               v
                                                               twin/simulate.py: closed loop on Column A

 run_c1_disturbance_rejection_baseline.py --- pre-stage cache ---> run_c2_smoke.py
 run_c1_off_nominal_grid.py                                            ^
      |  baseline files                                                |  one child per cell
      v                                                                |
 analyze_offnominal_screening.py  <--- sweep_manifest.json ---  run_offnominal_screening.py
      |  analysis.json, bucket_b_classification.json
```

All of it is sequential inside one process. What makes it hard lies between
processes and between runs: a Ctrl-C handler that runs between any two
statements of a driver, a child that outlives the timeout that gave it up,
kills and power losses during a save, invocations repeated with other flags, an
oracle (the model) that may answer anything, and errors that are carried over
from one cycle to the next.

### 1.2 Inventory

| Part | State | Operations | What is hard | What makes it correct |
|---|---|---|---|---|
| Agent cycle, `agents/graph.py`, `state.py`, `tools.py`, `errors.py` | `AgentState` of a cycle; `AgentRunner`'s previous accepted pair, two accumulators, cycle count | observe, propose, criticise (accept, revise, escalate), regulate, remember | unbounded dialogue with an untrusted oracle; what survives a cycle and what must not; a dozen exceptions | only admissible pairs reach the plant; an escalation repeats what the plant tracks; the dialogue ends; feedback belongs to its cycle |
| Smoke process, `tools/run_c2_smoke.py` | plant state, per-cycle trace, `smoke.json`, exit code | tick loop, partial trace on abort, write, exit | partial failure; a file written in place; stale locals | trace, accumulators and file agree; the exit code tells what the file holds |
| Model clients, `agents/llm_client.py`, protocols | settings, payload, connection | build or refuse, complete, parse, validate, count tokens | refusals that name the wrong thing, timeouts, an SDK that retries, null or inline or cut-short answers, one convention per model family | every outcome is the pair the model answered with or an error the run survives; a model reasons exactly when asked |
| Regulatory backends, `agents/regulatory_backend.py` | a controller built anew for each cycle | step | state lost between cycles | the decision is what is tracked |
| Sweep driver, `tools/run_doe_sweep.py` | `sweep_manifest.json`, its copy in memory, current cell | launch, select, run a cell, collect, save, Ctrl-C handler | crashes, orphans, repeated launches with other flags | no result lost, invented or redone; every cell decided in the end |
| Atomic writes, `industrial_ai/io.py` | path, `.tmp`, cached and stable disk state | write, flush, fsync, rename | kills, power losses, re-entrance from a signal handler | a reader sees one whole version, never an older one |
| DoE analysis, `tools/analyze_doe_sweep.py` | - | aggregate, bootstrap, choose the optimum, write the spec | incomplete factor cells | the optimum is chosen from finished cells |
| DoE confirmation, `tools/run_doe_confirmation.py` | `confirmation_manifest.json`, result | build or reuse, run seeds, write the result | a manifest of another optimum; missing seeds | the result is about the optimum it names |
| Off-nominal screening and analysis, `tools/*_offnominal_screening.py` | manifest, two result files | as the sweep, with a dry run; aggregate, bootstrap, classify | unfinished and infeasible cells, a cache rebuilt while it is read, results written one after the other | a verdict's numbers stay on disk; only on-spec operating points are compared; the bound is a bound |
| Closed loop, `twin/simulate.py` | plant state, trajectory, flags | tick, integrate, fail, cap, pad | three failure paths at different points of a tick | time is monotone; padding is never data |
| Setpoint interface, `twin/setpoint_interface.py` | last applied setpoints | request, rate-limit | remainders of a ramp | bounded slew, no overshoot |
| Regulatory PID, `twin/regulatory_pid.py` | integral | step, reset | saturation | bounded integral, leaves saturation |
| Linear MPC, `control/c1_linear_mpc.py` | warm start, last input | build, solve, loop | a failed solve in mid-run | every command from the solve of its period; a failed solve ends the run |
| KPIs, `evaluation/kpis.py` | - | IAE, settling time, overshoot | windows at the end of the data | agrees with its definition |
| Relay tuning, SIMC, PID variants, decoupler, `control/*` | relay state | crossings, tuning rules | samples on the switching line | crossings alternate, none is missed |
| Scenarios, `control/scenarios.py`, `off_nominal_scenarios.py` | - | functions of time | - | - |
| Run logger, `twin/data_logging.py` | run directory, buffered rows | create, record, finalize | a directory used again, a kill between two files | a directory whose manifest verifies is the whole record of one run |
| Column A model, integrator, linearisation, steady states, `twin/column_a/*` | 82 real states | ODE, root finding | numerics | out of reach (1.4) |
| Operating window, `twin/column_a/operating_window.py` | grid of states | sweep with warm starts, look up (tests only) | float tolerances | - |
| Baseline, tuning and grid scripts, `tools/*` | pre-stage cache, baseline files | sequential runs, files written in place | a reader meets a torn or missing file | the reader tells a torn file from an infeasible point |
| TEP data, `tools/acquire_tep_dataset.py` | listing, files, provenance | download, verify, record | interrupted downloads into the final file | exit 0 means whole files; only another download loses a whole file |

### 1.3 Hazards

`PROJECT.json` lists 40 places, with their lines, where this code can go wrong
in a way a test would hardly reach, and the property that watches each. In
short:

- *what survives a cycle*: the remembered pair, Critic feedback, the plant
  state, the reflux reported to the model;
- *what survives an exception or a failed simulation*: trace, KPI, exit code;
- *what survives a driver*: the manifest under Ctrl-C, kills, power losses and
  repeated launches; an attempt given up that finishes after all;
- *what is read hours after it was written*: the spec, the screening numbers;
- *what is reused though its premises changed*: a confirmation manifest, a
  controller, a cache, a run directory, a half-downloaded file;
- *what a server makes of a request*: inline traces, null contents, retries
  nobody asked for, a marker of another model family;
- *arithmetic at a boundary*: round budgets, rate limits, anti-windup, settling
  windows, percentiles and bootstraps over uneven seeds.

Hazards without a property of a run have a note: those whose documented property
fails on this code (section 4), those no document decides, and the two pure
functions that assumptions of MC modules check (section 2.12).

### 1.4 Not modelled

- *Continuous dynamics, root finding, the optimiser, the tuning formulas*: real
  arithmetic; TLC has none, and an integer caricature would say nothing of them.
  Among them is the warm start an MPC object keeps between scenarios
  (`run_c1_disturbance_rejection_baseline.py:237`): what it changes is a number
  IPOPT converges to.
- *Disturbance scenarios*: piecewise-constant functions of time without state.
- *Scripts without a decision of their own* (`run_pid_shootout.py`,
  `generate_c0_pid_tuning.py`, the regularization probes, the operating-window
  sweep): they evaluate one case after the other and print or dump a table.
- *Statistics of the DoE analysis* (bootstrap bound, ANOVA) are a predicate of a
  cell's numbers (`Accepted`); those of the off-nominal analysis are modelled.
- *Two drivers on one output root*: the docs describe one operator, and one copy
  of each manifest in memory is modelled.

## 2. The modules

| Module | Models | Abstract or detailed |
|---|---|---|
| `SupervisorContract` | what the supervisor promises the plant | abstract |
| `AgentRunner` | one cycle of `graph.py` and the runner's memory | implements `SupervisorContract` |
| `C2Smoke` | the process that drives `AgentRunner`, `smoke.json`, exit codes, kills | extends `AgentRunner` |
| `SweepLedger` | what the sweep promises the operator | abstract |
| `SweepDriver` | `run_doe_sweep.py` with its children and its operator | implements `SweepLedger`; uses what `C2Smoke!ExitTellsFile` establishes |
| `AtomicFile` | a file replaced only as a whole | abstract |
| `AtomicWrite` | `atomic_write_json` on a file system, re-entered by the handlers | implements `AtomicFile` |
| `RateLimiter` | one channel of `setpoint_interface.py` | operators |
| `RegulatoryLoop` | a composition loop: limiter, setpoint filter, PID with anti-windup | extends `RateLimiter` |
| `WindowContract` | what a regulatory backend promises its caller | abstract |
| `ClosedLoop` | the tick loops of `simulate.py` and `c1_linear_mpc.py`, their callers and the KPI | extends `RateLimiter`; implements `WindowContract` |
| `DoePipeline` | `analyze_doe_sweep.py` and `run_doe_confirmation.py` beside a sweep, on shared files | uses what `SweepDriver` establishes of the sweep |
| `LLMClient` | the factory, the clients, the reasoning protocols and one completion after the other | what `AgentRunner` has as the outcomes of a call |
| `BucketVerdict` | what `analyze_offnominal_screening.py` computes | operators |
| `OffNominal` | baseline scripts, off-nominal screening and analysis on shared files | extends `BucketVerdict` |
| `RunArtifacts` | the run directory of `data_logging.py` | |
| `TepDataset` | `acquire_tep_dataset.py` | |
| `SettlingTime` | `_settling_time` of `kpis.py` and its definition | operators, instantiated by `MCClosedLoop` |
| `RelayCrossings` | the relay of a relay test and how its limit cycle is read | operators, instantiated by `MCRegulatoryLoop` |
| `OperatorProofs` | theorems about sums over finite sets and the settling search | |
| `AgentProofs` | theorems about `AgentRunner` and `C2Smoke` | |
| `RegulatoryProofs` | theorems about `RegulatoryLoop` and `ClosedLoop` | |
| `PersistenceProofs` | theorems about `AtomicWrite`, `RunArtifacts` and `TepDataset` | |
| `SweepDriverProofs`, `DoePipelineProofs`, `LLMClientProofs`, `OffNominalProofs` | theorems about the modules of those names, and `BucketVerdict` | |
| `MCC2Smoke`, `MCSweepDriver`, `MCAtomicWrite`, `MCRegulatoryLoop`, `MCClosedLoop`, `MCDoePipeline`, `MCLLMClient`, `MCOffNominal` | instances for TLC | |

### 2.1 AgentRunner

State: `pc` is the node of the graph about to run; `report`, `proposal`,
`rounds`, `verdict`, `feedback`, `decision` are the fields of `AgentState`, and
`feedback` the local `critic_feedback`; `prev`, `iae`, `tracking`, `completed`
are the attributes of `AgentRunner`; `applied` is the pair the backend was last
given. `checked` says whether the client builds its reply through
`SetpointProposalInput` (every client of the package does; a test double that
uses `model_construct` does not), which is what decides whether the Critic's
hard checks can ever fire.

Actions: `BeginCycle` is the fresh `AgentState` and the Observer; `Optimize`,
`SchemaRefuses`, `CompletionFails` are the outcomes of one call of
`LLMClient.complete` (an error of the package, or `"Untyped"` for a reply the client
reads without a check); `CriticAccepts`, `CriticRevises`, `CriticEscalates`,
`CriticLoopLimit` the branches of `_critic_node` and of the loop around it;
`Regulated`, `RegulationFails`, `BackendRaises` the outcomes of the backend, the
first two with the tail of `AgentRunner.step`. Mole fractions are tenths: the
Critic compares with 0, 1 and 0.3 only. A trajectory is the composition it ends
at, since no later decision reads anything else of it; the accumulated IAE is
the distance of that composition from the target.

`SupervisorContract` says: the plant is unsupervised until a pair from `Safe`
arrives; a cycle installs a new safe pair and remembers it or repeats the
remembered one; an aborted run installs nothing.

### 2.2 C2Smoke

`smoke` is the statement `main` stands at, `tick` its index, `plant` is `X`,
`mv` the reflux the regulatory layer ended with, `cycles` the trace, `file` what
another process would read at the output path. `AbortRun` is the `except`
clause with exactly the types it lists, `Crash` every other exception.
`OpenFile` and `CloseFile` are separate because `smoke.json` is not written
through `atomic_write_json`. `Kill` may strike anywhere.

### 2.3 SweepDriver

`disk` and `mem` are the manifest in its file and in the driver; `pc` the
statement between two effects that a signal can separate: after the cell is
marked, after that is saved, while the child runs, after the return code, after
the status and before the metrics, before the last save. `Launch` is an
invocation with one of the values of `--retry-failed` and `--max-cells`;
`Interrupt` is the SIGINT handler, `Crash` a kill.

A child is what section 2.2 establishes of it: an exit code and the file it
goes with (`Outcomes`). `--cell-timeout` and an abandoned driver kill `uv`, not
the Python process under it. That process finds its output pipe closed and dies
at its next print, or was past its last one and still writes its file:
`CutShort` is the set of files it can leave, chosen at the moment it is
abandoned.

Two things the model does and a reader of a manifest should know: a Ctrl-C
between the status and the metrics leaves a cell done without numbers, which no
later invocation takes up (`DoePipeline` shows what follows from it), and an
invocation that selects nothing exits 0 also when cells have failed
(`ExitZeroMeansDecided` is what 0 does mean).

`SweepLedger` says what a reader of the manifest may rely on: the record of one
cell changes at a time, done is final, and a failure is reopened only by an
invocation that asked for it.

### 2.4 AtomicWrite

Inodes have content as processes see it (`cache`) and as the disk holds it
(`stable`), and so has the directory (`dir`, `dirS`). `stack` is the call in
progress and, above it, the one the handler makes. Content is a version and
whether it is whole. The kernel writes back content and directory entries at any
time and in any order. Two facts of CPython matter and are modelled: text that
fits the 8 KiB buffer stays there until `flush`, longer text goes straight to
the file; and a `with open` block that is unwound closes the file, which writes
what the buffer still holds. A sweep manifest (over a hundred cells) is the long
kind, a confirmation manifest (five) and the spec are the short kind.

### 2.5 RegulatoryLoop

One action, `Tick`: the scenario asks for any setpoint, the plant shows any
composition, and the loop does what a tick of `simulate.py` does with them:
limit (`RateLimit`), filter if there is a filter (`Filter`), control (`PIDStep`).
The arithmetic is that of the code on integers: time counts ticks, so gains are
per tick, and compositions and flows are multiples of a unit. The filter's lag
alone is real arithmetic and is the set of values it could have. `direct` and
`smooth` choose the sign of the loop and whether the filter is there; the two
channels of the column share no state, so one loop stands for each. `asked` is a
history variable, the range of what has been requested.

### 2.6 ClosedLoop

`Call` is the entry of a simulation: a backend's window (one target throughout,
a limiter made for the window) or a script's scenario (any function of time). A
tick is two actions because it fails at different points: the command
(`DrivePID`, `SolveMPC`, `HoldMPC`) and the integration (`Integrate`). `Abort` is
every `break` of the loops with the padding that precedes it; `CapExceeded`,
`SolveFails`, `TickFails` say where it may strike. `LoopEnds` and `Return` are
the final profile, `compute_kpis` and what the caller keeps. `t_axis`, `X_axis`,
`inputs_axis`, `applied_setpoints` are the arrays of the result, `series` and
`profiles` the rows of the logger.

The column is its top composition, which may jump anywhere in a tick, and the
minutes it has lived through, which nothing reads: they are what
`WindowContract` speaks of. A command is abstracted to the tick and the state
it was computed at and the setpoint it tracks, so that a stale one is seen as
such. `cost` is the IAE summed while the simulation runs, against which the KPI
computed afterwards from the arrays is held.

### 2.7 DoePipeline

Three processes and the files between them: `sweep` is `sweep_manifest.json`,
`analysis` and `spec` what the analysis writes, `conf` the confirmation's
manifest, `result` its last file. `found` is what an analysis has computed and
not yet written, `order` and `mem` what the confirmation driver has loaded,
`queue`, `cur`, `measured` its loop. All steps interleave: cells finish while an
analysis writes, and an analysis may replace the spec under a driver at work.

The sweep is what 2.3 establishes: done is final, a done cell's number is the
one in its smoke file, or missing. A cell is otherwise "open", since analysis and
confirmation ask for nothing else than `status` "done" or not. One number stands
for the headline numbers of a run. `Accepted` stands for the bootstrap bound and
the two ceilings. Among equal means the code compares the wall clock and the id;
the model takes any. A save is one step (2.4 looks inside). `ran`, the cell at
which the confirmation's runs were launched, is a history variable in the
result. One confirmation driver runs at a time.

### 2.8 LLMClient

One behaviour is one run. `settings` is what the environment and the command
line say; `Refusal` and `NewClient` are `build_llm_client` (and the direct
constructions of the LM Studio client and the mock), `Protocol` the registry of
model prefixes. `Call` puts a request together, with the reasoning switch, the
budget and the token limit of the client's protocol; `Answer` is whatever comes
back; `SdkRetry` posts again where the SDK does; `Finish` is the chain of checks
of `complete` down to `SetpointProposalInput`.

Tokens are counted and text is not spelled out. What a model writes is a trace
of some tokens, which may hold an object in braces (a draft), then the answer;
the endpoint cuts the whole at `max_tokens`. Protocols differ in whether the
server separates the trace from the content (`Separated`) and in what switches
thinking on in a model (`Thinking`): for the 49B family the pinned chat template,
which the MLX client renders itself (`EnableThinking`; the other servers carry the
same one), for the others a flag their servers read (`Flag`, external).

A reply may be broken in every way a check could look for: no JSON, no choice, a
null content, a usage block that is missing, is not an object or holds no numbers.
The clients differ in what they check (`Interpreted`, `NameOf`). LangChain reads the
reply inside the `try`, so all of it becomes `LLMEndpointUnreachableError`; the NIM
client checks the content before it counts tokens; the MLX client reads
`reply.choices[0].text` (`llm_client.py:525`) outside its `try`. `Unguarded` lists the
replies that are read without a check; for the runner they are `CompletionErrors`.

### 2.9 BucketVerdict and OffNominal

`BucketVerdict` is the arithmetic: percentiles with linear interpolation in
hundredths, means over seeds in units that every number of seeds divides, the
bootstrap as the interval of its possible draws (what its 1000 draws give for up
to three seeds), the bands and the verdict. A
missing number is `None`, as NaN is in the code, and is compared like one.

`OffNominal` has three kinds of process on shared files: a baseline script (`spc`,
`script`, `per_op`), the screening driver (`pc`, `queue`, `cur`, `x0`) and the
analysis (`apc`, `grounds`, `found`). Cache and baselines are written in place,
so opening one and writing it are two steps and a reader may find it `Torn`;
manifest, `analysis.json` and `bucket_b_classification.json` are replaced
atomically. What a child finds of its operating point is read when it starts
(`InitialState`), and the class of its failure comes from what it printed
(`FailureClass`). `dry` marks cells that `--dry-run` declared done: a history
variable.

### 2.10 RunArtifacts

`root` holds, of each file, the run it is of and how much that run had recorded
for it, or `Torn`; `manifest` the same for the files it lists: contents stand
for their hashes. `Create` keeps whatever the directory holds; `Finalize` starts
the walk through `Paths` in the order `finalize` writes them (`OpenFile`,
`WriteFile`, `SkipFile` for the safety log of an ordinary run), then the
manifest; `Ends` may strike between any two. Recording may go on after a
finalize and finalize may be called again, as in the code.

### 2.11 TepDataset

An invocation fetches the listing, writes it in place, then looks at each file:
kept if its SHA-256 is right (`Skip`; the pinned dataset lists MD5 sums, so for it
never), opened in place (`Open`), received whole,
short or wrong (`Received`), or refused (`Unreachable`). `failed` and `results`
are what the exit code is computed from, `provenance` what is recorded. `Dies`
and `Killed` may leave any file cut short.

### 2.12 SettlingTime and RelayCrossings

Pure functions, held against what they are for by assumptions that TLC evaluates
whenever it runs `closed_loop` and `regulatory_loop`.

`SettlesFirst` (in `MCClosedLoop`): the search of `_settling_time`, which gives
up at the first in-band sample whose window leaves the trajectory, returns the
first moment of `Settled`, for every pattern of five samples in and out of the
band. (`Settled` asks for a sample beyond the window: a window that ends exactly
at the last sample is refused, though "for at least" would admit it.)
`FinalValueIsAMean` looks at a tail of two samples.

In `MCRegulatoryLoop`: `EveryOtherIsOneDirection`, `CrossingBetweenSwitches`,
`CycleIsReal`, `PeriodIsExact`, over every signal of six samples (the last over
periodic ones). `CrossingsOutnumberSwitches` records that the converse of the
second fails: `relay_tuning.py:322-323` calls the crossings "every time the relay
would switch", but inside the hysteresis band the signal crosses and switches
nothing. The first needs that no sample lies exactly on the setpoint: one that
does and turns back counts as a crossing and breaks the alternation.

## 3. The runs

| Run | Expect | Shows |
|---|---|---|
| `c2_smoke` | pass | every dialogue, failure and kill over three cycles: the plant tracks accepted pairs, trace, KPI, file and exit code agree, the run ends; implements the contract |
| `sweep` | pass | three cells under every mixture of launches, one Ctrl-C and one crash: no result lost, invented or redone; every cell decided in the end; implements the ledger |
| `atomic_write` | pass | saves of the sweep manifest with the handler re-entering and of the spec without: a reader and a power loss see whole versions in order; implements `AtomicFile` |
| `regulatory_loop` | pass | any requests and any measurements: a bounded integral, saturation left, setpoints reached exactly; the relay's readings (2.12) |
| `closed_loop` | pass | two windows with either controller and caller, every break at every tick: log, result, commands and KPI agree; implements the window contract; the settling search (2.12) |
| `doe_pipeline` | pass | two analyses and any number of confirmations beside a sweep, one Ctrl-C or kill: an optimum stands on finished cells, published numbers are measured and stay |
| `llm_client` | pass | every client, request and reply: a call ends in the model's answer or in an error the run survives, save for replies read without a check (finding 8), and a model reasons when asked to |
| `off_nominal` | pass | baselines, screening and analysis in any order, torn caches and one stop: verdicts keep their grounds, infeasible points stay out, infeasible means infeasible |
| `run_artifacts` | pass | three runs on one directory, ended anywhere: a directory that verifies is one whole run |
| `tep_dataset` | pass | three invocations with bad answers and kills: exit 0 means whole files, which only a later download loses |
| `stale_optimum` | violation | a confirmation after a second analysis names the new optimum over cells run at the old one |
| `partial_screening` | violation | with uneven numbers of seeds the "upper bound" clears a threshold the estimate fails |

The properties, each with its comment in the module:

- *AgentRunner*: `TracksLastAccepted`, `FeedbackOfThisCycle`,
  `ImplementsContract`.
- *C2Smoke*: `TraceIsOneRun`, `RunnerMatchesTrace`, `ExitTellsFile`, `RunEnds`.
- *SweepDriver*: `LosesAtMostOneCell`, `DoneIsBackedBySmoke`,
  `RunningNeedsCrash`, `ExitZeroMeansDecided`, `ImplementsLedger`,
  `EveryCellDecided`.
- *AtomicWrite*: `AtomicTypeOK`, `ReaderSeesWholeFile`, `ImplementsAtomicFile`
  (what survives a power loss is part of it).
- *RegulatoryLoop*: `IntegralBounded`, `LeavesSaturation`, `SetpointReached`.
- *ClosedLoop*: `LogIsTheResult`, `CommandsAreFresh`, `AgentTracksItsTarget`,
  `KPIIsOfTheWholeWindow`, `ImplementsWindow`.
- *DoePipeline*: `SpecStands`, `ResultIsMeasured`, `PublishedNumbersStand`.
- *LLMClient*: `FailuresAreNamed`, `AnswersWithTheAnswer`, `ThinksWhenAsked`,
  `EveryCallEnds`.
- *OffNominal*: `VerdictStands`, `OnlyFeasibleOpsCompared`, `InfeasibleIsTrue`,
  and `ClearIsConservative`, which fails. What `BucketVerdict` promises of every
  small table (`PercentileBounds`, `EvenSeedsAreConservative`) are assumptions of
  `MCOffNominal`.
- *RunArtifacts*: `ArtifactsTypeOK`, `VerifiedIsOneRun`, `FinalizedIsVerified`.
- *TepDataset*: `TepTypeOK`, `ExitZeroMeansWhole`, `LostOnlyToADownload`.

The type invariants of the other modules, and a few consequences of theirs
(`LoopGuardUnreachable`, `SchemaClientNeverEscalates`, `WithinRequests`,
`TimeRuns`), are proved (section 5) and no longer run.

Every property of a passing run is paired in `PROJECT.json` with a plausible bug
in the code (an operator named `<definition>_<bug>` beside the original) under
which TLC finds it violated.

### 3.1 Bounds, and why they are enough

- `c2_smoke`: five proposals, one for each thing the Critic tells apart
  (accepted, implausible, inverted, each coordinate out of bounds); two plant
  compositions, one of which makes the low setpoint implausible; a budget of
  two rounds, so that the first, the last and the round that would be one too
  many differ; three cycles, so that something remembered in one can go wrong in
  the next and be seen in the third.
- `sweep` (`NCells`, `MaxSignals`, `MaxCrashes`): three cells, so that the
  current, an earlier and a later one exist; `--max-cells` 1 or none; one
  Ctrl-C and one crash, each at any point and in either order, with any number
  of launches between them. Two headline numbers tell one attempt from another.
- `atomic_write` (`NInodes`, `MaxSaves`): four inodes let the path, the
  temporary name and their states on disk be different files; four saves let a
  handler's save fall between two others.
- `regulatory_loop` (`MaxStep`, `Setpoints`, `Measurements`): a step of two that
  divides none of the distances between the setpoints 0, 2 and 5 evenly but one,
  so that ramps end in a remainder; gains and an actuator range (0 to 6) for
  which errors of either sign saturate, with an integral of either sign. The
  state space is finite because the integral is bounded, which is the point.
- `closed_loop` (`MaxCalls`): windows of seven minutes in ticks of two, so four
  ticks of which the last is short; an MPC period of three ticks, which does not
  divide them; profiles every second tick; setpoints two limiter steps apart;
  two windows, so that one may start where the other ended or failed.

- `doe_pipeline` (`MaxAnalyses`, `MaxStops`): two factor cells, so that one can
  overtake the other; two seeds of each kind, so that a mean can change and a
  seed can be missing; two analyses, of which the second may choose otherwise;
  one Ctrl-C or kill at any point. Factor cells and seeds are interchangeable in
  the model, and only safety is checked, so TLC may identify states that differ
  by a permutation of them.
- `llm_client` (`MaxCalls`): two pairs, so that a draft and the answer can differ;
  a trace shorter and one longer than the token limits and budgets; the two
  budgets of the factor plan (1024 given, 4096 by default); the SDK's two retries; two
  completions, so that something kept from the first can go wrong in the second.
- `off_nominal` (`MaxScripts`, `MaxLaunches`, `MaxAnalyses`, `MaxStops`): a
  feasible and an infeasible operating point; one scenario and one seed, so that
  each sub-metric of a point is one cell; two of each kind of process, so that
  one can repeat or overtake another; one kill or Ctrl-C; `--max-cells` 1 or
  none. Its numbers are one, as the properties ask whether a number is there and
  still the same; the proofs hold for any numbers.
- `partial_screening`: one operating point, two scenarios and two seeds, the
  least with which seeds can be uneven; three numbers, so that bound and estimate
  fall on different sides of the threshold; the scripts one after the other,
  since no interleaving is needed.
- `run_artifacts` (`MaxRuns`, `MaxRows`, `Recorded`): a run, one that writes over
  it and one that writes over both; a file every run writes and the one only
  safety runs write may vary within a run, the others' rows are constant.
- `tep_dataset` (`MaxInvocations`): a file with a SHA-256, one with an MD5 and
  one without an address, each a branch of its own (all four files of the pinned
  dataset are of the second kind, which both properties cover); three invocations, so that
  what one tore and the next skipped is seen by a third.

The proofs of section 5 carry the safety properties to every value of the
constants.

### 3.2 Fairness, and why the code justifies it

- `C2Smoke`: `WF_vars(Progress)`. Everything the process waits for returns or
  raises: model clients have a request timeout, the solvers an iteration limit,
  and a window has a fixed number of ticks. `Kill` is not fair, and the dialogue's
  outcomes are chosen without fairness: that the run ends is due to the round
  budget alone.
- `SweepDriver`: `WF_vars(Work)` for the driver and its child, which
  `--cell-timeout` bounds; `SF_vars(Launch(FALSE, NCells))` for the operator,
  who repeats the resume command of the module's doc. Strong fairness is needed
  since the command is possible only while no driver runs. It assumes nothing of
  the other launches, which may intervene. `--retry-failed --max-cells k` alone
  does not suffice: it always selects the first `k` open cells, and `k` cells
  that keep failing starve those behind them.
- `LLMClient`: `WF_vars` of the endpoint's answer, the SDK's retry and the checks
  that follow. A request has a timeout, after which it counts as unreachable, and
  the SDK's retries are bounded by a counter. Nothing makes the run ask again.
- `AtomicWrite`, `DoePipeline`, `OffNominal`, `RunArtifacts` and `TepDataset` state
  safety only: what they do next is up to whoever starts a script.
- `RegulatoryLoop`: `WF_loopVars(Tick)`, as the loop it is part of never waits.
  Requests and measurements are chosen without fairness.
- `ClosedLoop`: weak fairness of everything but `Call`, for the same reason; it
  is needed only for the finding to be about a system that does not stop.

Deadlock is checked for `sweep`, `atomic_write` and `regulatory_loop`; a smoke
process really ends, a caller of the closed loop or of a client may want no more
of it, and the scripts of the others are finished when nobody starts another.

## 4. Findings

Two are standing runs; the quotations and the lines are in `PROJECT.json`.

1. *Stale optimum* (`stale_optimum`): an existing confirmation manifest is
   reused without comparing its optimum with the spec's. After a second analysis
   (a sweep resumed, or failed cells retried) its done cells pass for the new
   optimum's, and the result combines them with that optimum's screening.
2. *A bound below the estimate* (`partial_screening`): the bootstrap of
   `analyze_offnominal_screening.py:116` draws seed indices for the first listed
   scenario and applies them to all. Where cells are missing, a later scenario is
   resampled from its first seeds only; with IAEs [0] and [0, 71] over a C1 P95 of
   47.5 the code reports a ratio of 0.71 at the estimate, 0.0 at the upper bound,
   and the band "strong". (The other way round it raises an `IndexError`.) Lines
   24-25 and 270-272 call the bound conservative; with even seeds, three at most, it
   is (`OffNominalEvenVerdictConservative`, section 5).

Further disagreements of code and documents, whose configurations are kept:
`tlc -config <cfg> <module>` shows the counterexample.

3. *A failed cycle lowers the KPI* (`VFailedCycle.cfg`, `MCC2Smoke`,
   `FiniteIAEMeansSimulated`): ADR 010 (line 77) says a failed simulation counts as
   `iae=inf`; the accumulator (`graph.py:505`) leaves it out.
4. *Stale reflux* (`VStaleReflux.cfg`, `MCC2Smoke`, `ReportsAppliedReflux`):
   `run_c2_smoke.py:441` passes the initial reflux in every cycle to a report whose
   field is the "Most recent applied reflux" (`state.py:66`).
5. *Lost trace* (`VLostTrace.cfg`, `MCC2Smoke`, `PartialTracePreserved`): pydantic's
   `ValidationError` is none of the types `run_c2_smoke.py:447` catches to
   "preserve the partial diagnostic trace" (432-434).
6. *Garbled manifest* (`VAtomicWrite.cfg`, `MCAtomicWrite`, `ReaderSeesWholeFile`):
   the handler of `run_doe_confirmation.py` saves through the same temporary name
   as the call it interrupts, and `sys.exit` then lets that call flush its buffer
   into the file just renamed. The window is one statement wide and the file must
   fit the buffer.
7. *Unslewed setpoints* (`VUnslewed.cfg`, `MCClosedLoop`, `SetpointsAreSlewed`): ADR
   006 (line 70) puts a rate limiter at the handoff so that a decision never
   reaches the loops as a step, but a backend builds one for each window
   (`regulatory_backend.py:224`), seeded with that window's own target.

8. *Untyped failures* (`VUntypedFailure.cfg`, `MCLLMClient`, `EveryFailureIsTyped`):
   ADR 010 (line 23) says that errors "propagate as named, typed exceptions", but
   `llm_client.py:525` reads `reply.choices[0].text` outside the `try` of 518-524: a
   body that is no JSON, has no choices or a null text escapes as an
   `AttributeError`, `IndexError` or `TypeError`, and with it, as in finding 5, the
   trace of the run. A usage block of the wrong types does the same to the NIM
   client (894, 908). `FailuresAreNamed` is what does hold.
9. *Unchecked files in place* (`VUncheckedDownload.cfg`, `TepDataset`,
   `OnlyMatchingFilesInPlace`): `acquire_tep_dataset.py:16-18` says a file comes to
   `data/external/tep/` after its checksum matches; the code downloads into place
   and compares afterwards, and what does not match stays. A cached file is compared
   only by SHA-256, so the dataset's files, listed with an MD5, are fetched again on
   every `--download` and a good one may be lost to it.

Observed while modelling, without a property of their own:

- `ConnectionError`, 429 and 5xx answers are posted again twice by the OpenAI and
  LangChain SDKs, which the clients build with default retries
  (`llm_client.py:462`); ADR 010 speaks of a single attempt. Only the NIM client
  makes one.
- The reasoning budget of the extra-body protocol is 4096 by default and at the
  upper factor level, and so is its token limit for trace and answer together: a
  trace that uses up its budget leaves no room for the answer
  (`llm_client.py:664`, 686; the null content of line 880).
- Protocols that leave the trace in the content may hand on a draft from it
  (`AnswersWithTheAnswer` says which).
- `--dry-run` marks off-nominal cells done with an IAE of zero; on a real output
  root they stay and are averaged in.
- A safety log left by an earlier run is among `run_paths` of a later ordinary
  one, but not in its manifest. Two runs at once on a directory are not guarded
  against.
- `bulk_downloaded` (`acquire_tep_dataset.py:252`) is true also if every download
  failed; `--verify-only` reports a bad file and exits 0.
- `lookup_lv_ss` documents an absolute tolerance of 1e-6, to which `np.isclose`
  adds its default relative one of 1e-5.

## 5. Proofs

The theorems hold for every value of the constants that the modules' ASSUMEs
admit (`RunnerAssumption`, `SmokeAssumption`, `SweepAssumption`, `LimiterAssumption`,
`LoopAssumption`, `SimAssumption`, `PipelineAssumption`, `AdmissibleAssumption`,
`TokensAssumption`, `VerdictAssumption`, `OffNominalAssumption`,
`AtomicAssumption`, `ArtifactsAssumption`, `DatasetAssumption`). They are type
assumptions, that counts and durations are positive where the code requires it,
that the operating points, scenarios and seeds of a screening are finitely many,
that the actuator range includes zero, and that `None`, `Inf`, `Torn` and
`Missing` are not values; nothing is assumed of the oracle, the plant or the
operator.

**Sums and the settling search** (`OperatorProofs`). The library's
`SumFunctionOnSet` adds by a recursion that takes an arbitrary element at a time,
and its induction theorems are out of this prover's reach (they take an operator).
The way round is induction over a *set* of numbers (`SetInduction`, from the
well-foundedness of the naturals): that the recursion has a solution on all
subsets up to a size (`IterFits`), and that every order of taking elements gives
the same result (`IterAnyOrder`). From it `SumType`, `SumEqual`, `SumAdd`,
`SumNext`, on which the two KPIs and the mean rest. In the same way
`SettlingSearchFindsFirst`: the samples whose window leaves the trajectory are its
last ones, because times do not decrease, so giving up at the first of them
(`kpis.py:242`) misses nothing. The run's `SettlesFirst` is the instance of it on
short trajectories.

**AgentRunner** (`AgentProofs`). The safety properties are not inductive:
that the plant tracks the remembered pair needs to know that the pair on its way
from the Critic to the backend is admissible, and that this follows from the
verdict it came with. `RunnerInv` adds for each stage of the cycle what the
earlier stages established (the rounds used, the verdict behind a decision, the
feedback behind a round). From it: `RunnerTypes`, `RunnerTracksLastAccepted`,
`RunnerLoopGuardUnreachable`, `RunnerFeedbackOfThisCycle`,
`RunnerSchemaClientNeverEscalates`, and `RunnerImplementsContract`, in which a
completed cycle maps to a step of the contract and all else to a stutter.

**C2Smoke** (`AgentProofs`). `SmokeRunsTheRunner` shows that every behaviour of
the process is one of the runner, so the theorems above hold of it
(`SmokeImplementsContract`). `SmokeInv` ties the loop index to the runner's
count and the file to the exit code that will follow; it gives
`SmokeExitTellsFile`, on which `SweepDriver!Outcomes` relies. `SmokeTraceIsOneRun`
holds because the trace ends at the plant and the pair that the runner carries
into the next cycle (`TraceEndsHere`), which needs the runner's own invariant:
what it remembers is what the plant tracked. `SmokeRunnerMatchesTrace` says the
runner's accumulated IAE is the sum of the trace's rows; within a tick the runner
is ahead of the trace by the row about to be appended, which the invariant has to
say for each statement of the loop, and appending a row is `SumNext`.

**SweepDriver** (`SweepDriverProofs`). `SweepInv` says, point by point, how memory
and disk differ on the current cell (`Progress`), that queued cells are still
open, that other cells agree (`LosesAtMostOneCell`), and that the smoke file
stands behind each done cell in *both* manifests while an undecided cell has no
metrics (`Results`): without the part about memory, a save would not preserve
the part about the disk. From it: `SweepTypes`, `SweepLosesAtMostOneCell`,
`SweepDoneIsBackedBySmoke`, and `SweepImplementsLedger`, where the interesting
steps are the saves, the handler's included. `SweepExitZeroMeansDecided` needs
besides that an empty selection leaves no open cell, hence that a non-empty set
of cells has a first one (well-foundedness of the naturals). `SweepRunningNeedsCrash`
counts the cells that are running without a run (`LeftRunning`): only a crash
takes the current cell away from under its status.

**RegulatoryLoop** (`RegulatoryProofs`). The integral grows by an error only
while the unclipped output `Kp*e + Ki*I + Kd*d` does not exceed the bound, so
`Ki*I` cannot exceed it by more than the other two terms can be negative plus one
error: `LoopIntegralBounded`. `LoopWithinRequests` needs that the range of past
requests is itself ordered and contains the current one (`Asked`).

**ClosedLoop** (`RegulatoryProofs`). `SimInv` says what is standing at each
statement (`Standing`: the state, the log and the failure flag), that the clock
of each filled row is its tick times the step, capped at the duration (`Clock`),
which command is in force between solves (`InForce`), and that the limiter of a
backend's window rests (`Steady`). The arithmetic is in lemmas: the number of
ticks is the quotient rounded up, and the last multiple of the period advances
exactly at the ticks that are due. From it: `SimTypes`, `SimTimeRuns`,
`SimLogIsTheResult`, `SimCommandsAreFresh`, `SimAgentTracksItsTarget`. `WindowInv`
adds that what the column accumulated up to the current tick is the sum over the
rows filled so far, whatever the rows behind them still hold; at the end of the
loop that sum is over the whole window, which gives `SimKPIIsOfTheWholeWindow`,
and with it `SimImplementsWindow`: the return of the loop maps to the one step of
the contract, every tick to a stutter.

**AtomicWrite, RunArtifacts, TepDataset** (`PersistenceProofs`). `AtomicInv`: the
directory and each open call hold inodes of their own where it matters (`Apart`);
what is in place, now or after a power loss, is whole in the cache and on the disk
(`InPlace`); the call at work has the temporary file whole by the time it is
flushed, and safe by the time it is renamed (`InHand`); and its version is newer
than all that has been in place (`Below`). `AtomicTypes` holds of every file;
`AtomicReaderSeesWholeFile` and `AtomicImplementsFile` have the hypothesis `Plain`:
the file is not both small enough for the file object's buffer and saved by the
handler. The sweep manifest (larger than the buffer) and the spec (no handler)
satisfy it; what it excludes is the confirmation manifest of finding 6, for which
`VAtomicWrite.cfg` shows the property to be false. `ArtifactsInv` follows `finalize`
along `Paths` (`Walk`: what is behind it is written) and says that every completed
manifest, whether it still verifies or not, is of one run (`ManifestIsOneRun`): so a
directory that verifies holds that run's files. `TepInv` says that while nothing has
failed every file already looked at that has a checksum is whole (`Reckoning`).
`TepLostOnlyToADownload` is an action property, of every file whatever its checksum:
the only steps that touch one are its opening, by a `--download` that has no result
for it yet and which a matching SHA-256 prevents, and what is received into a file
that was emptied for it.

**DoePipeline** (`DoePipelineProofs`). `PipelineInv` adds to the properties that
what an analysis under way has found is true and covers whatever was concluded
before it (`Grounded`), that later documents about one optimum name more seeds:
the published result, the driver's copy of the spec, the spec (`Growing`), and
how the driver's copy of its manifest runs ahead of the file (`Progress`).
`PipelineNumbersStand` needs all of it: a
result written from a spec that was loaded hours ago must not fall behind the one
already published. From it also `PipelineTypes`, `PipelineSpecStands`,
`PipelineResultIsMeasured`.

**LLMClient** (`LLMClientProofs`). The properties speak of a reply and of what was
made of it; that is inductive only together with how both come to be: the client
is the one the factory builds from the settings, a reply is one the endpoint can
give to the request, an outcome is the reading of the reply beside it (`IInv`).
`ClientFailuresAreNamed` is then a case distinction over the checks of each
`complete`, of which the replies in `Unguarded` are what no check covers; `ClientAnswersWithTheAnswer` holds since an answer that was cut short
has no closing brace; `ClientThinksWhenAsked` follows from registry and template
agreeing on each family. For any set of pairs, traces, budgets and retries.

**OffNominal** (`OffNominalProofs`). `OffNominalInv` adds to the properties that a
cache which parses is right (`FeasibleOnly`, carried through baselines and
analysis into the verdict), that what an analysis has read is still on disk and
covers what was published before it (`Grounded`), what the status of each cell
says of its operating point (`CellsTrue`), and that the driver works on undecided
cells and knows where the current one started (`Progress`), also when the cache
changes under it. From it: `OffNominalVerdictStands`,
`OffNominalOnlyFeasibleOps`, `OffNominalInfeasibleIsTrue`.

**BucketVerdict** (`OffNominalProofs`). Every order statistic of a finite table
exists (`SortedIs`) and is monotone in the table and in the index
(`SortedMonotone`, by comparing how many entries lie below the one and up to the
other), hence so is the interpolated percentile: `PercentileInBounds`,
`PercentileMonotone`. With as many finished seeds in each scenario the draw that
repeats nothing is one of the bootstrap's, so the estimate is one of the resampled
values and the upper bound is not below it (`EvenSeedsConservative`, `EvenSeedsDoNotRaise`),
at every operating point and over the grid. `OffNominalEvenVerdictConservative`
puts it together for published verdicts: with even seeds `ClearIsConservative`, the
property that the run `partial_screening` finds violated, holds. The
upper bound is the model's, the greatest draw: that is the code's for up to three
seeds (section 2.9). For the ten of a full screening the code takes the 97.5th
percentile of 1000 random draws, of which the theorem says nothing.

**Only model-checked.** Every safety invariant, action property and refinement that
a passing run checks is a theorem (the two of `AtomicWrite` under `Plain`).
Liveness (`RunEnds`, `EveryCellDecided`, `LeavesSaturation`, `SetpointReached`,
`EveryCallEnds`) is out of the prover's reach. The readings of a relay test
(section 2.12) are model-checked over short signals: they rest on `SelectSeq`, whose
recursion could be treated as the sums were and is not yet.

## 6. Plan

In the order of what matters most to someone who trusts a result of this system:

1. *Done*: the agent cycle and the process around it; the sweep and its saves;
   the regulatory loop and the closed loop; the DoE pipeline; the model clients;
   the off-nominal chain with the caches of the baseline scripts; the run
   directory; the TEP data; settling time and relay readings.
2. *Two drivers on one root*: a manifest copy per process, to say what two
   sweeps or two confirmations started together can lose.
3. *Composition of `LLMClient` with `AgentRunner`*: the runner's outcomes of a call
   are those `LLMClient` proves; a refinement would replace that by a theorem.
4. *Proofs*: the relay readings for signals of every length.
