------------------------------- MODULE OffNominal -------------------------------
(***************************************************************************)
(* From the column to the Bucket-B verdict.  Three kinds of process, each  *)
(* started by hand, killed and repeated at will, meet in files:            *)
(*   - the baseline scripts (run_c1_disturbance_rejection_baseline.py,     *)
(*     run_c1_off_nominal_grid.py, run_c0_off_nominal_grid.py) evaluate    *)
(*     the classical controllers; the first keeps a cache of on-spec       *)
(*     initial states.  They write in place;                               *)
(*   - run_offnominal_screening.py runs the agent on every cell; its       *)
(*     disturbance-rejection runs start from the cache;                    *)
(*   - analyze_offnominal_screening.py compares (BucketVerdict).           *)
(*                                                                         *)
(* A cell is "open" while pending, running or interrupted, which no script *)
(* tells apart.  The driver saves whenever it has changed a cell: its copy *)
(* and the file are one here, and SweepDriver has the steps in between.    *)
(***************************************************************************)
EXTENDS BucketVerdict

CONSTANTS
  Feasible,      \* operating points with an on-spec steady state inside the bounds
  Evaluations,   \* per-scenario IAEs a controller may get at an operating point
  Limits,        \* values --max-cells may take; without it, all cells
  MaxScripts,    \* bound: baseline scripts started
  MaxLaunches,   \* bound: screening invocations
  MaxAnalyses,   \* bound: analyses started
  MaxStops,      \* bound: kills and Ctrl-C presses
  Torn           \* what an in-place write leaves when it is cut short

Files == Submetrics \cup {"c0"}
Errors == {"pre_stage_infeasible", "other"}
Cell == [status : {"open", "failed", "done"}, iae : Numbers \cup {None},
         error : Errors \cup {None}, dry : BOOLEAN]
Manifests == [Cells -> Cell]
Caches == [Ops -> BOOLEAN]
Verdicts == [grounds : Grounds, base : [Submetrics -> Baselines]]

ASSUME OffNominalAssumption ==
  /\ Feasible \subseteq Ops
  /\ Evaluations \subseteq [Scenarios -> Numbers \cup {None}]
  /\ 0 \in Numbers /\ Limits \subseteq Nat
  /\ MaxScripts \in Nat /\ MaxLaunches \in Nat /\ MaxAnalyses \in Nat /\ MaxStops \in Nat
  /\ None \notin Cell \cup Manifests \cup Verdicts \cup Files \cup Caches \cup Errors \cup {Torn}
  /\ Torn \notin Baselines \cup Caches

VARIABLES
  cache,     \* off_nominal_on_spec_pre_stages.json: which points are on spec
  base,      \* the baseline files
  spc,       \* a baseline script: "off", "cache", "dump_cache", "evaluate", "dump"
  script,    \* the file it makes
  per_op,    \* its results
  disk,      \* sweep_manifest.json; dry is a history: marked by --dry-run
  pc,        \* the screening driver: "off", "cell", "child"
  queue,     \* selected cells not started yet
  cur,       \* the cell it runs
  dry_run,
  x0,        \* what the smoke run found to start from: "found", "infeasible", "unreadable"
  apc,       \* the analysis: "off", "baselines", "analysis", "classification"
  grounds,   \* finished cells it read
  found,     \* what it compared
  analysis,  \* analysis.json
  verdict,   \* bucket_b_classification.json
  scripts, launches, analyses, stops

scriptVars == <<cache, base, spc, script, per_op>>
driverVars == <<disk, pc, queue, cur, dry_run, x0>>
analysisVars == <<apc, grounds, found, analysis, verdict>>
counters == <<scripts, launches, analyses, stops>>
offVars == <<scriptVars, driverVars, analysisVars, counters>>

OffNominalInit ==
  /\ cache = None /\ base = [f \in Files |-> None]
  /\ spc = "off" /\ script = None /\ per_op = None
  /\ disk = None /\ pc = "off" /\ queue = {} /\ cur = None /\ dry_run = FALSE /\ x0 = None
  /\ apc = "off" /\ grounds = None /\ found = None /\ analysis = None /\ verdict = None
  /\ scripts = 0 /\ launches = 0 /\ analyses = 0 /\ stops = 0

-------------------------------------------------------------------------------
(* The baseline scripts.                                                   *)

\* --force-pre-stage removes the cache first; only one script has a cache.
StartScript(f, force) ==
  /\ spc = "off" /\ scripts < MaxScripts
  /\ force => f = "disturbance_rejection"
  /\ script' = f
  /\ cache' = IF force THEN None ELSE cache
  /\ spc' = IF f = "disturbance_rejection" THEN "cache" ELSE "evaluate"
  /\ scripts' = scripts + 1
  /\ UNCHANGED <<base, per_op, driverVars, analysisVars, launches, analyses, stops>>

ScriptEnds == spc' = "off" /\ script' = None /\ per_op' = None

LoadCache ==
  /\ spc = "cache" /\ cache \notin {None, Torn}
  /\ spc' = "evaluate"
  /\ UNCHANGED <<cache, base, script, per_op, driverVars, analysisVars, counters>>

\* A cut-short cache does not parse.
CacheUnreadable ==
  /\ spc = "cache" /\ cache = Torn
  /\ ScriptEnds
  /\ UNCHANGED <<cache, base, driverVars, analysisVars, counters>>

\* Search the points, then open the file, which empties it.
BuildCache ==
  /\ spc = "cache" /\ cache = None
  /\ cache' = Torn /\ spc' = "dump_cache"
  /\ UNCHANGED <<base, script, per_op, driverVars, analysisVars, counters>>

WriteCache ==
  /\ spc = "dump_cache"
  /\ cache' = [o \in Ops |-> o \in Feasible] /\ spc' = "evaluate"
  /\ UNCHANGED <<base, script, per_op, driverVars, analysisVars, counters>>

\* The points a script evaluates: the others are recorded as skipped.
EvaluatedOps(f) == {o \in Ops : f = "disturbance_rejection" => cache[o]}

\* A scenario whose simulation fails, or that SIGALRM cuts off, has no number.
Results(f) ==
  {[o \in Ops |-> IF o \in DOMAIN r THEN r[o] ELSE None] : r \in [EvaluatedOps(f) -> Evaluations]}

\* aggregate_iae_finite of some point: none of its scenarios failed.
FiniteAggregate(b) == \E o \in Ops : b[o] # None /\ \A s \in Scenarios : b[o][s] # None

\* Simulate, then open the file.
Evaluate ==
  /\ spc = "evaluate"
  /\ per_op' \in Results(script)
  /\ script = "target_acquisition" => FiniteAggregate(per_op')
  /\ base' = [base EXCEPT ![script] = Torn]
  /\ spc' = "dump"
  /\ UNCHANGED <<cache, script, driverVars, analysisVars, counters>>

\* run_c1_off_nominal_grid.py raises where the others write an empty aggregate.
NoBaseline ==
  /\ spc = "evaluate" /\ script = "target_acquisition"
  /\ \E b \in Results(script) : ~FiniteAggregate(b)
  /\ ScriptEnds
  /\ UNCHANGED <<cache, base, driverVars, analysisVars, counters>>

WriteBaseline ==
  /\ spc = "dump"
  /\ base' = [base EXCEPT ![script] = per_op]
  /\ ScriptEnds
  /\ UNCHANGED <<cache, driverVars, analysisVars, counters>>

ScriptDies ==
  /\ spc # "off" /\ stops < MaxStops
  /\ stops' = stops + 1
  /\ ScriptEnds
  /\ UNCHANGED <<cache, base, driverVars, analysisVars, scripts, launches, analyses>>

-------------------------------------------------------------------------------
(* The screening.                                                          *)

Fresh == [status |-> "open", iae |-> None, error |-> None, dry |-> FALSE]

enumerate_cells == [c \in Cells |-> Fresh]

SubmetricOrder(m) == IF m = "target_acquisition" THEN 0 ELSE 1

\* The order of the manifest: operating point, scenario, sub-metric, seed.
Before(c, d) ==
  \/ c[1] < d[1]
  \/ c[1] = d[1] /\ c[2] < d[2]
  \/ c[1] = d[1] /\ c[2] = d[2] /\ SubmetricOrder(c[3]) < SubmetricOrder(d[3])
  \/ c[1] = d[1] /\ c[2] = d[2] /\ c[3] = d[3] /\ c[4] < d[4]

\* Mutant: --retry-failed repeats the done cells too.
SelectPending_RetryAll(m, retry, k) ==
  LET open == {c \in Cells : m[c].status = "open" \/ retry}
  IN  {c \in open : Cardinality({d \in open : Before(d, c)}) < k}

\* Not done and, unless --retry-failed, not failed; with --max-cells the first k.
SelectPending(m, retry, k) ==
  LET open == {c \in Cells : m[c].status # "done" /\ (m[c].status = "failed" => retry)}
  IN  {c \in open : Cardinality({d \in open : Before(d, c)}) < k}

\* Load or create the manifest, save it, select; without a pending cell, exit 0.
Launch(retry, dry, k) ==
  LET m == IF disk = None THEN enumerate_cells ELSE disk
      pending == SelectPending(m, retry, k)
  IN  /\ pc = "off" /\ launches < MaxLaunches
      /\ launches' = launches + 1
      /\ disk' = m
      /\ IF pending = {}
         THEN UNCHANGED <<pc, queue, dry_run>>
         ELSE pc' = "cell" /\ queue' = pending /\ dry_run' = dry
      /\ UNCHANGED <<scriptVars, cur, x0, analysisVars, scripts, analyses, stops>>

\* Mutant: any entry of the cache will do.
InitialState_AnyEntry(c) ==
  IF c[3] = "target_acquisition" \/ cache \notin {None, Torn} THEN "found" ELSE "unreadable"

\* What run_c2_smoke.py makes of a cell's operating point.  (Every point of the grid
\* has an entry in a cache that parses; one without would be infeasible, too.)
InitialState(c) ==
  IF c[3] = "target_acquisition" THEN "found"
  ELSE IF cache \in {None, Torn} THEN "unreadable"
  ELSE IF cache[c[1]] THEN "found"
  ELSE "infeasible"

\* Mark the next cell as running, save, run the agent on it.
StartCell ==
  /\ pc = "cell" /\ ~dry_run
  /\ cur' \in {c \in queue : \A d \in queue : ~Before(d, c)}
  /\ queue' = queue \ {cur'}
  /\ disk' = [disk EXCEPT ![cur'] = Fresh]
  /\ x0' = InitialState(cur')
  /\ pc' = "child"
  /\ UNCHANGED <<scriptVars, dry_run, analysisVars, counters>>

\* --dry-run: done, with number zero.
DryCell ==
  /\ pc = "cell" /\ dry_run
  /\ \E c \in queue :
       /\ \A d \in queue : ~Before(d, c)
       /\ queue' = queue \ {c}
       /\ disk' = [disk EXCEPT ![c] = [status |-> "done", iae |-> 0, error |-> None, dry |-> TRUE]]
  /\ UNCHANGED <<scriptVars, pc, cur, dry_run, x0, analysisVars, counters>>

ChildEnds(c) ==
  /\ disk' = [disk EXCEPT ![cur] = c]
  /\ pc' = "cell" /\ cur' = None /\ x0' = None
  /\ UNCHANGED <<scriptVars, queue, dry_run, analysisVars, counters>>

\* Exit code 0 and a smoke.json: done, with its number, or without where no cycle
\* completed or Ctrl-C came before the number was read.
ChildSucceeds ==
  /\ pc = "child" /\ x0 = "found"
  /\ \E v \in Numbers \cup {None} :
       ChildEnds([status |-> "done", iae |-> v, error |-> None, dry |-> FALSE])

\* Mutant: every failed disturbance-rejection run counts as infeasible.
FailureClass_BySubmetric == IF cur[3] = "target_acquisition" THEN "other" ELSE "pre_stage_infeasible"

\* By what the run printed: InfeasibleSubmetricError, or any other failure.
FailureClass == IF x0 = "infeasible" THEN "pre_stage_infeasible" ELSE "other"

\* It raised, aborted, or took longer than --cell-timeout (and printed nothing).
ChildFails ==
  /\ pc = "child"
  /\ \E error \in {FailureClass, "other"} :
       ChildEnds([status |-> "failed", iae |-> None, error |-> error, dry |-> FALSE])

DriverEnds ==
  pc' = "off" /\ queue' = {} /\ cur' = None /\ dry_run' = FALSE /\ x0' = None

Finish ==
  /\ pc = "cell" /\ queue = {}
  /\ DriverEnds
  /\ UNCHANGED <<scriptVars, disk, analysisVars, counters>>

\* Ctrl-C (the handler saves, marking the cell interrupted) or a kill.
DriverStopped ==
  /\ pc # "off" /\ stops < MaxStops
  /\ stops' = stops + 1
  /\ DriverEnds
  /\ UNCHANGED <<scriptVars, disk, analysisVars, scripts, launches, analyses>>

-------------------------------------------------------------------------------
(* The analysis.                                                           *)

FinishedCells(m) == {c \in Cells : m[c].status = "done" /\ m[c].iae # None}

\* Read the manifest (exit 2 without one) and aggregate (exit 3 without a finished
\* cell; an IndexError where the bootstrap raises).
ReadScreening ==
  LET g == [c \in FinishedCells(disk) |-> disk[c].iae]
  IN  /\ apc = "off" /\ analyses < MaxAnalyses /\ disk # None
      /\ DOMAIN g # {} /\ ~Raises(g)
      /\ grounds' = g /\ apc' = "baselines"
      /\ analyses' = analyses + 1
      /\ UNCHANGED <<scriptVars, driverVars, found, analysis, verdict, scripts, launches, stops>>

AnalysisEnds == apc' = "off" /\ grounds' = None /\ found' = None

\* Both baselines must be there and parse.
ReadBaselines ==
  /\ apc = "baselines"
  /\ IF \A m \in Submetrics : base[m] \notin {None, Torn}
     THEN /\ found' = [grounds |-> grounds, base |-> [m \in Submetrics |-> base[m]]]
          /\ apc' = "analysis" /\ UNCHANGED grounds
     ELSE AnalysisEnds
  /\ UNCHANGED <<scriptVars, driverVars, analysis, verdict, counters>>

WriteAnalysis ==
  /\ apc = "analysis"
  /\ analysis' = found /\ apc' = "classification"
  /\ UNCHANGED <<scriptVars, driverVars, grounds, found, verdict, counters>>

WriteClassification ==
  /\ apc = "classification"
  /\ verdict' = found
  /\ AnalysisEnds
  /\ UNCHANGED <<scriptVars, driverVars, analysis, counters>>

AnalysisDies ==
  /\ apc # "off" /\ stops < MaxStops
  /\ stops' = stops + 1
  /\ AnalysisEnds
  /\ UNCHANGED <<scriptVars, driverVars, analysis, verdict, scripts, launches, analyses>>

-------------------------------------------------------------------------------
OffNominalNext ==
  \/ \E f \in Files, force \in BOOLEAN : StartScript(f, force)
  \/ LoadCache \/ CacheUnreadable \/ BuildCache \/ WriteCache
  \/ Evaluate \/ NoBaseline \/ WriteBaseline \/ ScriptDies
  \/ \E retry \in BOOLEAN, dry \in BOOLEAN, k \in Limits : Launch(retry, dry, k)
  \/ StartCell \/ DryCell \/ ChildSucceeds \/ ChildFails \/ Finish \/ DriverStopped
  \/ ReadScreening \/ ReadBaselines \/ WriteAnalysis \/ WriteClassification \/ AnalysisDies

OffNominalSpec == OffNominalInit /\ [][OffNominalNext]_offVars

-------------------------------------------------------------------------------
(* Properties.                                                             *)

OffNominalTypeOK ==
  /\ cache \in Caches \cup {None, Torn}
  /\ base \in [Files -> Baselines \cup {None, Torn}]
  /\ spc \in {"off", "cache", "dump_cache", "evaluate", "dump"}
  /\ script \in Files \cup {None} /\ (spc # "off" => script \in Files)
  /\ spc = "evaluate" /\ script = "disturbance_rejection" => cache \in Caches
  /\ per_op \in Baselines \cup {None} /\ (spc = "dump" => per_op \in Baselines)
  /\ disk \in Manifests \cup {None}
  /\ pc \in {"off", "cell", "child"} /\ (pc # "off" => disk \in Manifests)
  /\ queue \subseteq Cells
  /\ cur \in Cells \cup {None} /\ (pc = "child" => cur \in Cells)
  /\ dry_run \in BOOLEAN
  /\ x0 \in {"found", "infeasible", "unreadable", None}
  /\ apc \in {"off", "baselines", "analysis", "classification"}
  /\ grounds \in Grounds \cup {None} /\ (apc # "off" => grounds \in Grounds)
  /\ found \in Verdicts \cup {None} /\ (apc \in {"analysis", "classification"} => found \in Verdicts)
  /\ analysis \in Verdicts \cup {None} /\ verdict \in Verdicts \cup {None}
  /\ scripts \in 0 .. MaxScripts /\ launches \in 0 .. MaxLaunches
  /\ analyses \in 0 .. MaxAnalyses /\ stops \in 0 .. MaxStops

\* What a verdict rests on does not go away: each of its numbers, wherever it or a
\* later analysis was killed and whatever the screening was asked to repeat, is
\* still the number of a done cell, and analysis.json lists it.
VerdictStands ==
  verdict # None =>
    /\ \A c \in DOMAIN verdict.grounds :
         disk[c].status = "done" /\ disk[c].iae = verdict.grounds[c]
    /\ analysis # None /\ DOMAIN verdict.grounds \subseteq DOMAIN analysis.grounds

\* An operating point without an on-spec state counts on neither side of the
\* disturbance-rejection ratio (ADR 010: no silent fall-back), whoever rebuilt or
\* tore the cache while the screening ran.  Only --dry-run enters it.
OnlyFeasibleOpsCompared ==
  verdict # None =>
    /\ Compared(verdict.base["disturbance_rejection"]) \subseteq Feasible
    /\ \A c \in DOMAIN verdict.grounds :
         c[3] = "disturbance_rejection" /\ ~disk[c].dry => c[1] \in Feasible

\* A cell the manifest calls infeasible is: a cache that is missing, being written
\* or cut short fails a cell under another name.
InfeasibleIsTrue ==
  disk # None =>
    \A c \in Cells : disk[c].error = "pre_stage_infeasible"
                     => c[3] = "disturbance_rejection" /\ c[1] \notin Feasible

\* analyze_offnominal_screening.py lines 24-25 and 270-272: the verdict uses C2's
\* upper bound, the conservative one.  So it never clears where the estimate fails.
ClearIsConservative ==
  verdict # None =>
    \A m \in BucketB(verdict.grounds, verdict.base) :
      Below(GridPoint(verdict.grounds, m), C1Grid(verdict.base[m]), 67)
================================================================================
