------------------------------ MODULE DoePipeline ------------------------------
(***************************************************************************)
(* From the screening sweep to the confirmed operating point: the sweep    *)
(* fills its manifest, tools/analyze_doe_sweep.py picks an optimum from    *)
(* whatever is finished and writes a spec, tools/run_doe_confirmation.py   *)
(* runs further seeds at it and writes the result.  The three are separate *)
(* processes on shared files, may overlap, and are repeated at will.       *)
(*                                                                         *)
(* The sweep is what SweepDriver establishes of it: done is final, and a   *)
(* done cell's number is the one in its smoke.json.  A cell is "open"      *)
(* while it is pending, running, interrupted or failed: no script here     *)
(* tells these apart.  The headline numbers of a run are one number.  A    *)
(* save is one step.                                                       *)
(***************************************************************************)
EXTENDS Naturals, FiniteSets, Functions

CONSTANTS
  Levels,             \* factor cells
  Seeds,              \* seeds of the screening
  ConfirmationSeeds,
  Numbers,            \* headline numbers a finished run may report
  Accepted(_),        \* whether a factor cell's numbers clear the bootstrap bound and ceilings
  MaxAnalyses,        \* bound: analyses started
  MaxStops,           \* bound: Ctrl-C presses and kills, of the driver or the analysis
  None

NumbersOf(S) == UNION {[T -> Numbers] : T \in SUBSET S}
Cell == [status : {"open", "done"}, iae : Numbers \cup {None}]
Analyses == [optimum : Levels, used : [Levels -> SUBSET Seeds]]
Specs == [optimum : Levels, seeds : SUBSET Seeds]
Manifests == [optimum : Levels, cells : [ConfirmationSeeds -> Cell]]
Results == [optimum : Levels, ran : Levels,
            screening : NumbersOf(Seeds), confirmation : NumbersOf(ConfirmationSeeds)]

ASSUME PipelineAssumption ==
  /\ Numbers \subseteq Nat
  /\ \A f \in NumbersOf(Seeds) : Accepted(f) \in BOOLEAN
  /\ MaxAnalyses \in Nat /\ MaxStops \in Nat
  /\ None \notin Numbers \cup ConfirmationSeeds \cup Analyses \cup Specs \cup Manifests \cup Results

VARIABLES
  sweep,     \* sweep_manifest.json: each level's cells, by seed
  apc,       \* the analysis: "off", "analysis" or "spec" (the file it writes next)
  found,     \* what it computed
  analysis,  \* analysis.json
  spec,      \* confirmation_spec.json
  conf,      \* confirmation_manifest.json
  pc,        \* the confirmation driver: "off", "cell", "child", "metrics", "save"
  order,     \* its copy of the spec
  mem,       \* its copy of the manifest
  queue,     \* pending seeds not started yet
  cur,       \* seed of current_cell
  measured,  \* smoke.json of the run that just succeeded
  result,    \* confirmation_result.json; ran is a history: the level its cells ran at
  analyses, stops

analysisVars == <<apc, found, analysis, spec>>
driverVars == <<pc, order, mem, queue, cur, measured>>
counters == <<analyses, stops>>
pipelineVars == <<sweep, analysisVars, conf, driverVars, result, counters>>

Open == [status |-> "open", iae |-> None]

PipelineInit ==
  /\ sweep = [l \in Levels |-> [s \in Seeds |-> Open]]
  /\ apc = "off" /\ found = None /\ analysis = None /\ spec = None
  /\ conf = None
  /\ pc = "off" /\ order = None /\ mem = None /\ queue = {} /\ cur = None
  /\ measured = None
  /\ result = None
  /\ analyses = 0 /\ stops = 0

-------------------------------------------------------------------------------
(* The sweep goes on.                                                      *)

\* A cell is done, with its numbers or, if Ctrl-C came in between, without.
SweepFinishes ==
  /\ \E l \in Levels, s \in Seeds, v \in Numbers \cup {None} :
       /\ sweep[l][s].status = "open"
       /\ sweep' = [sweep EXCEPT ![l][s] = [status |-> "done", iae |-> v]]
  /\ UNCHANGED <<analysisVars, conf, driverVars, result, counters>>

-------------------------------------------------------------------------------
(* The analysis.                                                           *)

\* The seeds of a factor cell that count: done, with a number.
Used(l) == {s \in Seeds : sweep[l][s].status = "done" /\ sweep[l][s].iae # None}

ScreeningNumbers(l, S) == [s \in S |-> sweep[l][s].iae]

Aggregated == {l \in Levels : Used(l) # {}}

Candidates ==
  LET accepted == {l \in Aggregated : Accepted(ScreeningNumbers(l, Used(l)))}
  IN  IF accepted # {} THEN accepted ELSE Aggregated

\* The mean of l is smaller than that of k.
Better(l, k) ==
  LET total(m) == SumFunction(ScreeningNumbers(m, Used(m)))
  IN  total(l) * Cardinality(Used(k)) < total(k) * Cardinality(Used(l))

\* Read the manifest and choose; without a finished cell it exits 3.  Among equal
\* means the wall clock and the id decide: here, any of them.
Analyse ==
  /\ apc = "off" /\ analyses < MaxAnalyses
  /\ \E l \in Candidates :
       /\ \A k \in Candidates : ~Better(k, l)
       /\ found' = [optimum |-> l, used |-> [k \in Levels |-> Used(k)]]
  /\ apc' = "analysis"
  /\ analyses' = analyses + 1
  /\ UNCHANGED <<sweep, analysis, spec, conf, driverVars, result, stops>>

WriteAnalysis ==
  /\ apc = "analysis"
  /\ analysis' = found
  /\ apc' = "spec"
  /\ UNCHANGED <<sweep, found, spec, conf, driverVars, result, counters>>

SeedsUsed_AllAssumed(f) == Seeds

SeedsUsed(f) == f.used[f.optimum]

WriteSpec ==
  /\ apc = "spec"
  /\ spec' = [optimum |-> found.optimum, seeds |-> SeedsUsed(found)]
  /\ apc' = "off" /\ found' = None
  /\ UNCHANGED <<sweep, analysis, conf, driverVars, result, counters>>

\* Killed between its files.
AnalysisDies ==
  /\ apc # "off" /\ stops < MaxStops
  /\ stops' = stops + 1
  /\ apc' = "off" /\ found' = None
  /\ UNCHANGED <<sweep, analysis, spec, conf, driverVars, result, analyses>>

-------------------------------------------------------------------------------
(* The confirmation driver.                                                *)

build_manifest == [optimum |-> spec.optimum, cells |-> [s \in ConfirmationSeeds |-> Open]]

Pending_Everything(m) == ConfirmationSeeds

Pending(m) == {s \in ConfirmationSeeds : m.cells[s].status # "done"}

\* An invocation: load the spec (it raises without one), load or create the
\* manifest, list what is not done.
Confirm ==
  /\ pc = "off" /\ spec # None
  /\ order' = spec
  /\ mem' = IF conf # None THEN conf ELSE build_manifest
  /\ conf' = mem'
  /\ queue' = Pending(mem')
  /\ pc' = "cell"
  /\ UNCHANGED <<sweep, analysisVars, cur, measured, result, counters>>

\* Mark a pending seed as running, save, launch the smoke run.  (The driver takes
\* them in order, which nothing depends on.)
RunCell ==
  /\ pc = "cell" /\ queue # {}
  /\ cur' \in queue /\ queue' = queue \ {cur'}
  /\ conf' = mem
  /\ pc' = "child"
  /\ UNCHANGED <<sweep, analysisVars, order, mem, measured, result, counters>>

\* Exit code 0: the status first, then the numbers of smoke.json.
CellSucceeds ==
  /\ pc = "child"
  /\ measured' \in Numbers
  /\ mem' = [mem EXCEPT !.cells[cur].status = "done"]
  /\ pc' = "metrics"
  /\ UNCHANGED <<sweep, analysisVars, conf, order, queue, cur, result, counters>>

\* Another exit code, or --cell-timeout.
CellFails ==
  /\ pc = "child"
  /\ pc' = "save"
  /\ UNCHANGED <<sweep, analysisVars, conf, order, mem, queue, cur, measured, result, counters>>

ReadMetrics ==
  /\ pc = "metrics"
  /\ mem' = [mem EXCEPT !.cells[cur].iae = measured]
  /\ pc' = "save"
  /\ UNCHANGED <<sweep, analysisVars, conf, order, queue, cur, measured, result, counters>>

Save_Forgotten == UNCHANGED conf

Save == conf' = mem

SaveCell ==
  /\ pc = "save"
  /\ Save
  /\ cur' = None /\ measured' = None
  /\ pc' = "cell"
  /\ UNCHANGED <<sweep, analysisVars, order, mem, queue, result, counters>>

\* Screening numbers are read again from the sweep, by the names in the spec.
load_screening_iae_per_seed ==
  ScreeningNumbers(order.optimum, {s \in order.seeds : sweep[order.optimum][s].iae # None})

ConfirmationNumbers(m) ==
  [s \in {s \in ConfirmationSeeds : m.cells[s].iae # None} |-> m.cells[s].iae]

Stop ==
  /\ pc' = "off"
  /\ order' = None /\ mem' = None /\ queue' = {} /\ cur' = None /\ measured' = None

\* All pending seeds were tried: write the result over those that have a number.
WriteResult ==
  /\ pc = "cell" /\ queue = {}
  /\ result' = [optimum |-> order.optimum, ran |-> mem.optimum,
                screening |-> load_screening_iae_per_seed,
                confirmation |-> ConfirmationNumbers(mem)]
  /\ Stop
  /\ UNCHANGED <<sweep, analysisVars, conf, counters>>

\* The SIGINT handler saves what the driver holds.
Interrupt ==
  /\ pc # "off" /\ stops < MaxStops
  /\ stops' = stops + 1
  /\ conf' = mem
  /\ Stop
  /\ UNCHANGED <<sweep, analysisVars, result, analyses>>

Crash ==
  /\ pc # "off" /\ stops < MaxStops
  /\ stops' = stops + 1
  /\ Stop
  /\ UNCHANGED <<sweep, analysisVars, conf, result, analyses>>

Driver == RunCell \/ CellSucceeds \/ CellFails \/ ReadMetrics \/ SaveCell \/ WriteResult

PipelineNext ==
  \/ SweepFinishes
  \/ Analyse \/ WriteAnalysis \/ WriteSpec \/ AnalysisDies
  \/ Confirm \/ Driver
  \/ Interrupt \/ Crash

PipelineSpec == PipelineInit /\ [][PipelineNext]_pipelineVars

-------------------------------------------------------------------------------
(* Properties.                                                             *)

PipelineTypeOK ==
  /\ sweep \in [Levels -> [Seeds -> Cell]]
  /\ apc \in {"off", "analysis", "spec"}
  /\ found \in Analyses \cup {None}
  /\ apc # "off" => found \in Analyses
  /\ analysis \in Analyses \cup {None}
  /\ spec \in Specs \cup {None}
  /\ conf \in Manifests \cup {None}
  /\ pc \in {"off", "cell", "child", "metrics", "save"}
  /\ order \in Specs \cup {None} /\ mem \in Manifests \cup {None}
  /\ pc # "off" => order \in Specs /\ mem \in Manifests /\ conf \in Manifests
  /\ queue \subseteq ConfirmationSeeds
  /\ cur \in ConfirmationSeeds \cup {None}
  /\ pc \in {"child", "metrics", "save"} => cur \in ConfirmationSeeds
  /\ measured \in Numbers \cup {None}
  /\ pc = "metrics" => measured \in Numbers
  /\ result \in Results \cup {None}
  /\ analyses \in 0 .. MaxAnalyses /\ stops \in 0 .. MaxStops

HasNumber(l, s) == sweep[l][s].status = "done" /\ sweep[l][s].iae # None

\* What an optimum was chosen from does not go away: every seed a spec names, on
\* disk or loaded an hour ago by a driver still at work, is a finished cell with
\* a number; and a reader of the spec finds its grounds in analysis.json,
\* wherever the analysis that wrote them or a later one was killed.
SpecStands ==
  /\ \A sp \in {spec, order} \ {None} : sp.seeds # {} /\ \A s \in sp.seeds : HasNumber(sp.optimum, s)
  /\ spec # None => analysis # None /\ spec.seeds \subseteq analysis.used[spec.optimum]

\* Every number in the result is still that of a finished run, of the sweep's
\* manifest or of the confirmation's, whatever happened to the processes since:
\* none comes from an attempt that was interrupted, killed or failed.
ResultIsMeasured ==
  result # None =>
    /\ \A s \in DOMAIN result.screening :
         HasNumber(result.optimum, s) /\ sweep[result.optimum][s].iae = result.screening[s]
    /\ \A s \in DOMAIN result.confirmation :
         conf.cells[s] = [status |-> "done", iae |-> result.confirmation[s]]

Extends(f, g) == \A s \in DOMAIN g : s \in DOMAIN f /\ f[s] = g[s]

\* Confirming an optimum again, after more of the sweep, another analysis, a
\* failure or an interruption, adds seeds to the published result and neither
\* drops nor changes one ("idempotent restart", run_doe_confirmation.py line 10).
PublishedNumbersStand ==
  [][result # None /\ result'.optimum = result.optimum
     => /\ Extends(result'.screening, result.screening)
        /\ Extends(result'.confirmation, result.confirmation)]_pipelineVars

\* run_doe_confirmation.py lines 3-7: the additional runs are at the optimum cell's
\* factor levels and combine with the screening at that cell.  (A manifest of an
\* earlier optimum is reused.)
ResultIsOfTheOptimum == result # None => result.ran = result.optimum
================================================================================
