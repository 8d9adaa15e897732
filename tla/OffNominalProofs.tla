---------------------------- MODULE OffNominalProofs ----------------------------
(***************************************************************************)
(* The off-nominal chain, proved for all operating points, scenarios,      *)
(* seeds, numbers and evaluations: what a verdict rests on stays, and an   *)
(* operating point without an on-spec state never enters it.  Then the     *)
(* statistics of the verdict: percentiles, and the bootstrap over seeds    *)
(* that are evenly many.                                                   *)
(***************************************************************************)
EXTENDS OffNominal, OperatorProofs

DR == "disturbance_rejection"

-------------------------------------------------------------------------------
(* The invariant.                                                          *)

\* A cache that parses is right, and so is all that was computed from one.
FeasibleOnly ==
  /\ cache \notin {None, Torn} => \A o \in Ops : cache[o] => o \in Feasible
  /\ cache \notin {None, Torn} => \A o \in Ops : o \in Feasible => cache[o]
  /\ spc = "dump" /\ script = DR => Compared(per_op) \subseteq Feasible
  /\ base[DR] \notin {None, Torn} => Compared(base[DR]) \subseteq Feasible
  /\ apc \in {"analysis", "classification"} => Compared(found.base[DR]) \subseteq Feasible
  /\ verdict # None => Compared(verdict.base[DR]) \subseteq Feasible

Stands(g) == disk # None /\ \A c \in DOMAIN g : disk[c].status = "done" /\ disk[c].iae = g[c]

\* What the analysis under way has read is still true, and covers the published
\* verdict, so that the next one can only add to it.
Grounded ==
  /\ apc = "baselines" => Stands(grounds)
  /\ apc \in {"analysis", "classification"} => Stands(found.grounds)
  /\ verdict # None => Stands(verdict.grounds) /\ analysis # None
  /\ verdict # None => DOMAIN verdict.grounds \subseteq DOMAIN analysis.grounds
  /\ verdict # None /\ apc = "baselines" => DOMAIN verdict.grounds \subseteq DOMAIN grounds
  /\ verdict # None /\ apc \in {"analysis", "classification"}
       => DOMAIN verdict.grounds \subseteq DOMAIN found.grounds
  /\ apc = "classification" => analysis = found

\* What the status of a cell says of its operating point.
CellTrue(c, x) ==
  /\ x.status = "done" /\ ~x.dry /\ c[3] = DR => c[1] \in Feasible
  /\ x.error = "pre_stage_infeasible" => c[3] = DR /\ c[1] \notin Feasible

CellsTrue == disk # None => \A c \in Cells : CellTrue(c, disk[c])

\* The driver touches no done cell, and knows where the current one started.
Progress ==
  /\ pc # "off" => \A c \in queue : disk[c].status # "done"
  /\ pc = "child" => cur \notin queue /\ disk[cur].status = "open"
  /\ pc = "child" /\ x0 = "found" /\ cur[3] = DR => cur[1] \in Feasible
  /\ pc = "child" /\ x0 = "infeasible" => cur[3] = DR /\ cur[1] \notin Feasible

OffNominalInv == OffNominalTypeOK /\ FeasibleOnly /\ Grounded /\ CellsTrue /\ Progress

-------------------------------------------------------------------------------
(* Lemmas.                                                                 *)

\* Operating points, scenarios, seeds and IAEs are numbers.
LEMMA Numbered ==
  Ops \in SUBSET Int /\ Scenarios \in SUBSET Int /\ Seeds \in SUBSET Int /\ Numbers \in SUBSET Int
  <1>1. /\ Ops \subseteq Nat /\ Scenarios \subseteq Nat /\ Seeds \subseteq Nat
        /\ Numbers \subseteq Nat
    BY VerdictAssumption, Zenon
  <1> QED BY <1>1

\* None and Torn are no data.
LEMMA NoneIsNone ==
  /\ None \notin Manifests /\ None \notin Verdicts /\ None \notin Cells /\ None \notin Caches
  /\ None \notin Baselines /\ None # Torn /\ None \notin Errors /\ None \notin Grounds
  /\ None \notin [Scenarios -> Numbers \cup {None}] /\ None \notin Numbers
  /\ Torn \notin Baselines /\ Torn \notin Caches /\ DR \in Files /\ DR \in Submetrics
  <1>1. None \notin Numbers
    <2>1. None \notin Int
      BY VerdictAssumption, Zenon
    <2> QED BY <2>1, Numbered
  <1>2. DR \in Submetrics /\ DR \in Files
    BY DEF Submetrics, Files, DR
  <1> QED BY <1>1, <1>2, OffNominalAssumption, VerdictAssumption, Zenon

\* A fresh cell is a cell, and says nothing.
LEMMA FreshFacts ==
  Fresh \in Cell /\ Fresh.status = "open" /\ \A c \in Cells : CellTrue(c, Fresh)
  BY NoneIsNone DEF Fresh, Cell, CellTrue, Errors

\* Whatever the controllers get, a script's results are a baseline, over the points
\* it evaluates.
LEMMA ResultsFacts ==
  ASSUME NEW f \in Files, NEW b \in Results(f)
  PROVE  b \in Baselines /\ Compared(b) \subseteq EvaluatedOps(f)
  <1>1. PICK r \in [EvaluatedOps(f) -> Evaluations] :
          b = [o \in Ops |-> IF o \in DOMAIN r THEN r[o] ELSE None]
    BY DEF Results
  <1>2. Evaluations \subseteq [Scenarios -> Numbers \cup {None}]
    BY OffNominalAssumption
  <1>3. \A o \in Ops : b[o] \in [Scenarios -> Numbers \cup {None}] \cup {None}
    BY <1>1, <1>2
  <1>4. b \in Baselines
    BY <1>1, <1>3 DEF Baselines
  <1>5. \A o \in Ops : b[o] # None => o \in EvaluatedOps(f)
    BY <1>1
  <1> QED BY <1>4, <1>5 DEF Compared

\* The finished cells of a manifest, with their numbers.
LEMMA FinishedFacts ==
  ASSUME NEW m \in Manifests
  PROVE  [c \in FinishedCells(m) |-> m[c].iae] \in Grounds
  <1>1. FinishedCells(m) \in SUBSET Cells
    BY DEF FinishedCells
  <1>2. \A c \in FinishedCells(m) : m[c].iae \in Numbers
    BY DEF FinishedCells, Manifests, Cell
  <1>3. [c \in FinishedCells(m) |-> m[c].iae] \in [FinishedCells(m) -> Numbers]
    BY <1>2
  <1> QED BY <1>1, <1>3 DEF Grounds

-------------------------------------------------------------------------------
(* Initially.                                                              *)

LEMMA OffNominalInitInv == OffNominalInit => OffNominalInv
  <1> SUFFICES ASSUME OffNominalInit PROVE OffNominalInv
    OBVIOUS
  <1> USE DEF OffNominalInit
  <1>1. OffNominalTypeOK
    <2>1. 0 \in 0 .. MaxScripts /\ 0 \in 0 .. MaxLaunches /\ 0 \in 0 .. MaxAnalyses /\ 0 \in 0 .. MaxStops
      BY OffNominalAssumption
    <2>2. base \in [Files -> Baselines \cup {None, Torn}]
      OBVIOUS
    <2> QED BY <2>1, <2>2 DEF OffNominalTypeOK
  <1>2. FeasibleOnly /\ Grounded /\ CellsTrue /\ Progress
    BY NoneIsNone DEF FeasibleOnly, Grounded, CellsTrue, Progress
  <1> QED BY <1>1, <1>2 DEF OffNominalInv

-------------------------------------------------------------------------------
(* The baseline scripts touch no cell and no analysis.                     *)

ScriptPart ==
  /\ cache \in Caches \cup {None, Torn}
  /\ base \in [Files -> Baselines \cup {None, Torn}]
  /\ spc \in {"off", "cache", "dump_cache", "evaluate", "dump"}
  /\ script \in Files \cup {None} /\ (spc # "off" => script \in Files)
  /\ spc = "evaluate" /\ script = DR => cache \in Caches
  /\ per_op \in Baselines \cup {None} /\ (spc = "dump" => per_op \in Baselines)
  /\ scripts \in 0 .. MaxScripts /\ stops \in 0 .. MaxStops
  /\ cache \notin {None, Torn} => \A o \in Ops : cache[o] => o \in Feasible
  /\ cache \notin {None, Torn} => \A o \in Ops : o \in Feasible => cache[o]
  /\ spc = "dump" /\ script = DR => Compared(per_op) \subseteq Feasible
  /\ base[DR] \notin {None, Torn} => Compared(base[DR]) \subseteq Feasible

LEMMA ScriptPartHolds == OffNominalInv => ScriptPart
  BY DEF OffNominalInv, OffNominalTypeOK, FeasibleOnly, ScriptPart, DR

LEMMA ScriptsKeepTheRest ==
  ASSUME OffNominalInv, ScriptPart', UNCHANGED <<driverVars, analysisVars, launches, analyses>>
  PROVE  OffNominalInv'
  <1> USE DEF OffNominalInv, driverVars, analysisVars
  <1>1. OffNominalTypeOK'
    BY DEF OffNominalTypeOK, ScriptPart, DR
  <1>2. FeasibleOnly'
    BY DEF FeasibleOnly, ScriptPart
  <1>3. Grounded' /\ CellsTrue' /\ Progress'
    BY DEF Grounded, Stands, CellsTrue, Progress
  <1> QED BY <1>1, <1>2, <1>3

LEMMA ScriptStepInv ==
  ASSUME OffNominalInv,
         \/ \E f \in Files, force \in BOOLEAN : StartScript(f, force)
         \/ LoadCache \/ CacheUnreadable \/ BuildCache \/ WriteCache
         \/ Evaluate \/ NoBaseline \/ WriteBaseline \/ ScriptDies
  PROVE  OffNominalInv'
  <1> USE NoneIsNone DEF counters, ScriptEnds
  <1>1. UNCHANGED <<driverVars, analysisVars, launches, analyses>>
    BY DEF StartScript, LoadCache, CacheUnreadable, BuildCache, WriteCache, Evaluate, NoBaseline,
           WriteBaseline, ScriptDies
  <1>2. SUFFICES ScriptPart'
    BY <1>1, ScriptsKeepTheRest
  <1>3. ScriptPart
    BY ScriptPartHolds
  <1>4. MaxScripts \in Nat /\ MaxStops \in Nat
    BY OffNominalAssumption
  <1>5. ASSUME NEW f \in Files, NEW force \in BOOLEAN, StartScript(f, force) PROVE ScriptPart'
    BY <1>3, <1>4, <1>5 DEF ScriptPart, StartScript, DR
  <1>6. CASE LoadCache
    BY <1>3, <1>6 DEF ScriptPart, LoadCache
  <1>7. CASE CacheUnreadable \/ NoBaseline
    BY <1>3, <1>7 DEF ScriptPart, CacheUnreadable, NoBaseline
  <1>8. CASE BuildCache
    BY <1>3, <1>8 DEF ScriptPart, BuildCache
  <1>9. CASE WriteCache
    <2>1. cache' = [o \in Ops |-> o \in Feasible]
      BY <1>9 DEF WriteCache
    <2>2. cache' \in Caches
      <3>1. \A o \in Ops : (o \in Feasible) \in BOOLEAN
        OBVIOUS
      <3>2. [o \in Ops |-> o \in Feasible] \in [Ops -> BOOLEAN]
        BY ONLY <3>1, Zenon
      <3> QED BY <2>1, <3>2 DEF Caches
    <2>3. \A o \in Ops : cache'[o] <=> o \in Feasible
      BY <2>1, Zenon
    <2> QED BY <1>3, <1>9, <2>2, <2>3 DEF ScriptPart, WriteCache
  <1>10. CASE Evaluate
    <2>1. script \in Files /\ per_op' \in Results(script)
      BY <1>3, <1>10 DEF ScriptPart, Evaluate
    <2>2. per_op' \in Baselines /\ Compared(per_op') \subseteq EvaluatedOps(script)
      BY <2>1, ResultsFacts
    <2>3. script = DR => EvaluatedOps(script) \subseteq Feasible
      BY <1>3, <1>10 DEF ScriptPart, Evaluate, EvaluatedOps, DR
    <2>4. /\ base' \in [Files -> Baselines \cup {None, Torn}]
          /\ base'[DR] \notin {None, Torn} => base'[DR] = base[DR]
      BY <1>3, <1>10, <2>1 DEF ScriptPart, Evaluate
    <2> QED BY <1>3, <1>10, <2>1, <2>2, <2>3, <2>4 DEF ScriptPart, Evaluate
  <1>11. CASE WriteBaseline
    <2>1. /\ base' \in [Files -> Baselines \cup {None, Torn}]
          /\ base'[DR] = IF script = DR THEN per_op ELSE base[DR]
      BY <1>3, <1>11 DEF ScriptPart, WriteBaseline
    <2> QED BY <1>3, <1>11, <2>1 DEF ScriptPart, WriteBaseline
  <1>12. CASE ScriptDies
    BY <1>3, <1>4, <1>12 DEF ScriptPart, ScriptDies
  <1> QED BY <1>5, <1>6, <1>7, <1>8, <1>9, <1>10, <1>11, <1>12

-------------------------------------------------------------------------------
(* The screening driver changes cells, but no done one.                    *)

DriverPart ==
  /\ disk \in Manifests \cup {None}
  /\ pc \in {"off", "cell", "child"} /\ (pc # "off" => disk \in Manifests)
  /\ queue \subseteq Cells
  /\ cur \in Cells \cup {None} /\ (pc = "child" => cur \in Cells)
  /\ dry_run \in BOOLEAN
  /\ x0 \in {"found", "infeasible", "unreadable", None}
  /\ launches \in 0 .. MaxLaunches /\ stops \in 0 .. MaxStops
  /\ CellsTrue /\ Progress

DoneStays ==
  disk # None => disk' # None /\ \A c \in Cells : disk[c].status = "done" => disk'[c] = disk[c]

LEMMA DriverPartHolds == OffNominalInv => DriverPart
  BY DEF OffNominalInv, OffNominalTypeOK, DriverPart

LEMMA GroundsStand ==
  ASSUME DoneStays, NEW g \in Grounds, Stands(g)
  PROVE  Stands(g)'
  <1>1. DOMAIN g \subseteq Cells
    BY DEF Grounds
  <1> QED BY <1>1 DEF Stands, DoneStays

LEMMA DriverKeepsTheRest ==
  ASSUME OffNominalInv, DriverPart', DoneStays,
         UNCHANGED <<scriptVars, analysisVars, scripts, analyses>>
  PROVE  OffNominalInv'
  <1> USE DEF OffNominalInv, scriptVars, analysisVars
  <1>1. OffNominalTypeOK'
    BY DEF OffNominalTypeOK, DriverPart
  <1>2. FeasibleOnly'
    BY DEF FeasibleOnly
  <1>3. Grounded'
    <2>1. /\ apc = "baselines" => grounds \in Grounds
          /\ apc \in {"analysis", "classification"} => found.grounds \in Grounds
          /\ verdict # None => verdict.grounds \in Grounds
      BY DEF OffNominalTypeOK, Verdicts
    <2>2. apc = "baselines" => Stands(grounds)'
      BY <2>1, GroundsStand DEF Grounded
    <2>3. apc \in {"analysis", "classification"} => Stands(found.grounds)'
      BY <2>1, GroundsStand DEF Grounded
    <2>4. verdict # None => Stands(verdict.grounds)'
      BY <2>1, GroundsStand DEF Grounded
    <2> QED BY <2>2, <2>3, <2>4 DEF Grounded
  <1> QED BY <1>1, <1>2, <1>3 DEF DriverPart

LEMMA LaunchInv ==
  ASSUME OffNominalInv, NEW retry \in BOOLEAN, NEW dry \in BOOLEAN, NEW k \in Limits,
         Launch(retry, dry, k)
  PROVE  OffNominalInv'
  <1> USE NoneIsNone
  <1> DEFINE m == IF disk = None THEN enumerate_cells ELSE disk
             pending == SelectPending(m, retry, k)
  <1>1. DriverPart
    BY DriverPartHolds
  <1>2. m \in Manifests /\ \A c \in Cells : CellTrue(c, m[c])
    BY <1>1, FreshFacts DEF DriverPart, CellsTrue, enumerate_cells, Manifests
  <1>3. pending \subseteq Cells /\ \A c \in pending : m[c].status # "done"
    BY DEF SelectPending
  <1>4. /\ disk' = m /\ launches' = launches + 1 /\ launches < MaxLaunches /\ pc = "off"
        /\ \/ UNCHANGED <<pc, queue, dry_run>>
           \/ pc' = "cell" /\ queue' = pending /\ dry_run' = dry
        /\ UNCHANGED <<scriptVars, cur, x0, analysisVars, scripts, analyses, stops>>
    BY DEF Launch
  <1> HIDE DEF m, pending
  <1>5. launches' \in 0 .. MaxLaunches
    BY <1>1, <1>4, OffNominalAssumption DEF DriverPart
  <1>6. CellsTrue' /\ Progress'
    BY <1>2, <1>3, <1>4 DEF CellsTrue, Progress
  <1>7. DriverPart'
    BY <1>1, <1>2, <1>3, <1>4, <1>5, <1>6 DEF DriverPart
  <1>8. DoneStays
    BY <1>2, <1>4 DEF DoneStays, m
  <1> QED BY <1>4, <1>7, <1>8, DriverKeepsTheRest

\* Writing one cell that is not done.
LEMMA OneCell ==
  ASSUME OffNominalInv, pc # "off", NEW c \in Cells, NEW x \in Cell,
         disk[c].status # "done", disk' = [disk EXCEPT ![c] = x], CellTrue(c, x)
  PROVE  /\ disk' \in Manifests /\ DoneStays /\ CellsTrue'
         /\ disk'[c] = x /\ \A d \in Cells \ {c} : disk'[d] = disk[d]
  <1>1. disk \in Manifests /\ disk # None
    BY NoneIsNone DEF OffNominalInv, OffNominalTypeOK
  <1>2. disk' \in Manifests /\ disk'[c] = x /\ \A d \in Cells \ {c} : disk'[d] = disk[d]
    BY <1>1 DEF Manifests
  <1>3. DoneStays
    BY <1>2, NoneIsNone DEF DoneStays
  <1>4. CellsTrue'
    BY <1>1, <1>2 DEF OffNominalInv, CellsTrue
  <1> QED BY <1>2, <1>3, <1>4

LEMMA StartCellInv == ASSUME OffNominalInv, StartCell PROVE OffNominalInv'
  <1> USE NoneIsNone
  <1>1. DriverPart
    BY DriverPartHolds
  <1>2. /\ cur' \in queue /\ cur' \in Cells /\ pc = "cell" /\ queue' = queue \ {cur'}
        /\ disk' = [disk EXCEPT ![cur'] = Fresh] /\ x0' = InitialState(cur') /\ pc' = "child"
        /\ UNCHANGED <<scriptVars, dry_run, analysisVars, counters>>
    BY <1>1 DEF StartCell, DriverPart
  <1>3. disk[cur'].status # "done"
    BY <1>1, <1>2 DEF DriverPart, Progress
  <1>4. /\ disk' \in Manifests /\ DoneStays /\ CellsTrue'
        /\ disk'[cur'] = Fresh /\ \A d \in Cells \ {cur'} : disk'[d] = disk[d]
    BY <1>2, <1>3, FreshFacts, OneCell
  <1>5. x0' \in {"found", "infeasible", "unreadable"}
    BY <1>2 DEF InitialState
  <1>6. /\ x0' = "found" /\ cur'[3] = DR => cur'[1] \in Feasible
        /\ x0' = "infeasible" => cur'[3] = DR /\ cur'[1] \notin Feasible
    <2>1. cur'[1] \in Ops /\ cur'[3] \in Submetrics
      BY <1>2 DEF Cells
    <2>2. cache \notin {None, Torn} => (cache[cur'[1]] <=> cur'[1] \in Feasible)
      BY <2>1 DEF OffNominalInv, FeasibleOnly
    <2>3. cur'[3] # "target_acquisition" <=> cur'[3] = DR
      BY <2>1 DEF Submetrics, DR
    <2> QED BY <1>2, <2>2, <2>3 DEF InitialState
  <1>7. Progress'
    BY <1>1, <1>2, <1>4, <1>6, FreshFacts DEF DriverPart, Progress
  <1>8. DriverPart'
    BY <1>1, <1>2, <1>4, <1>5, <1>7 DEF DriverPart, counters
  <1> QED BY <1>2, <1>4, <1>8, DriverKeepsTheRest DEF counters

LEMMA DryCellInv == ASSUME OffNominalInv, DryCell PROVE OffNominalInv'
  <1> USE NoneIsNone
  <1> DEFINE zero == [status |-> "done", iae |-> 0, error |-> None, dry |-> TRUE]
  <1>1. DriverPart
    BY DriverPartHolds
  <1>2. PICK c \in queue : queue' = queue \ {c} /\ disk' = [disk EXCEPT ![c] = zero]
    BY DEF DryCell
  <1>3. pc = "cell" /\ UNCHANGED <<scriptVars, pc, cur, dry_run, x0, analysisVars, counters>>
    BY DEF DryCell
  <1>4. c \in Cells /\ disk[c].status # "done"
    BY <1>1, <1>2, <1>3 DEF DriverPart, Progress
  <1>5. zero \in Cell /\ CellTrue(c, zero)
    BY OffNominalAssumption DEF Cell, CellTrue, Errors
  <1>6. /\ disk' \in Manifests /\ DoneStays /\ CellsTrue'
        /\ \A d \in Cells \ {c} : disk'[d] = disk[d]
    BY <1>2, <1>3, <1>4, <1>5, OneCell
  <1>7. Progress'
    BY <1>1, <1>2, <1>3, <1>6 DEF DriverPart, Progress
  <1>8. DriverPart'
    BY <1>1, <1>2, <1>3, <1>6, <1>7 DEF DriverPart, counters
  <1> QED BY <1>3, <1>6, <1>8, DriverKeepsTheRest DEF counters

LEMMA ChildEndsInv ==
  ASSUME OffNominalInv, pc = "child", NEW x \in Cell, CellTrue(cur, x), ChildEnds(x)
  PROVE  OffNominalInv'
  <1> USE NoneIsNone
  <1>1. DriverPart
    BY DriverPartHolds
  <1>2. /\ disk' = [disk EXCEPT ![cur] = x] /\ pc' = "cell" /\ cur' = None /\ x0' = None
        /\ UNCHANGED <<scriptVars, queue, dry_run, analysisVars, counters>>
    BY DEF ChildEnds
  <1>3. cur \in Cells /\ cur \notin queue /\ disk[cur].status # "done"
    BY <1>1 DEF DriverPart, Progress
  <1>4. /\ disk' \in Manifests /\ DoneStays /\ CellsTrue'
        /\ \A d \in Cells \ {cur} : disk'[d] = disk[d]
    BY <1>2, <1>3, OneCell
  <1>5. Progress'
    BY <1>1, <1>2, <1>3, <1>4 DEF DriverPart, Progress
  <1>6. DriverPart'
    BY <1>1, <1>2, <1>4, <1>5 DEF DriverPart, counters
  <1> QED BY <1>2, <1>4, <1>6, DriverKeepsTheRest DEF counters

LEMMA DriverStepInv ==
  ASSUME OffNominalInv,
         \/ \E retry \in BOOLEAN, dry \in BOOLEAN, k \in Limits : Launch(retry, dry, k)
         \/ StartCell \/ DryCell \/ ChildSucceeds \/ ChildFails \/ Finish \/ DriverStopped
  PROVE  OffNominalInv'
  <1> USE NoneIsNone
  <1>1. DriverPart
    BY DriverPartHolds
  <1>2. CASE ChildSucceeds
    <2>1. PICK v \in Numbers \cup {None} :
            ChildEnds([status |-> "done", iae |-> v, error |-> None, dry |-> FALSE])
      BY <1>2 DEF ChildSucceeds
    <2> DEFINE x == [status |-> "done", iae |-> v, error |-> None, dry |-> FALSE]
    <2>2. pc = "child" /\ x0 = "found"
      BY <1>2 DEF ChildSucceeds
    <2>3. x \in Cell
      BY DEF Cell
    <2>4. CellTrue(cur, x)
      BY <1>1, <2>2 DEF CellTrue, Errors, DriverPart, Progress
    <2> QED BY <2>1, <2>2, <2>3, <2>4, ChildEndsInv
  <1>3. CASE ChildFails
    <2>1. PICK e \in {FailureClass, "other"} :
            ChildEnds([status |-> "failed", iae |-> None, error |-> e, dry |-> FALSE])
      BY <1>3 DEF ChildFails
    <2> DEFINE x == [status |-> "failed", iae |-> None, error |-> e, dry |-> FALSE]
    <2>2. pc = "child"
      BY <1>3 DEF ChildFails
    <2>3. x \in Cell
      BY DEF Cell, FailureClass, Errors
    <2>4. CellTrue(cur, x)
      BY <1>1, <2>2 DEF CellTrue, DriverPart, Progress, FailureClass
    <2> QED BY <2>1, <2>2, <2>3, <2>4, ChildEndsInv
  <1>4. CASE Finish
    <2>1. DriverPart'
      BY <1>1, <1>4 DEF DriverPart, Finish, DriverEnds, counters, CellsTrue, Progress
    <2>2. DoneStays
      BY <1>4 DEF Finish, DoneStays
    <2> QED BY <1>4, <2>1, <2>2, DriverKeepsTheRest DEF Finish, counters
  <1>5. CASE DriverStopped
    <2>1. stops' \in 0 .. MaxStops
      BY <1>1, <1>5, OffNominalAssumption DEF DriverPart, DriverStopped
    <2>2. DriverPart'
      BY <1>1, <1>5, <2>1 DEF DriverPart, DriverStopped, DriverEnds, CellsTrue, Progress
    <2>3. DoneStays
      BY <1>5 DEF DriverStopped, DoneStays
    <2> QED BY <1>5, <2>2, <2>3, DriverKeepsTheRest DEF DriverStopped
  <1> QED BY <1>2, <1>3, <1>4, <1>5, LaunchInv, StartCellInv, DryCellInv

-------------------------------------------------------------------------------
(* The analysis changes nothing but its own files.                         *)

AnalysisPart ==
  /\ apc \in {"off", "baselines", "analysis", "classification"}
  /\ grounds \in Grounds \cup {None} /\ (apc # "off" => grounds \in Grounds)
  /\ found \in Verdicts \cup {None} /\ (apc \in {"analysis", "classification"} => found \in Verdicts)
  /\ analysis \in Verdicts \cup {None} /\ verdict \in Verdicts \cup {None}
  /\ analyses \in 0 .. MaxAnalyses /\ stops \in 0 .. MaxStops
  /\ apc \in {"analysis", "classification"} => Compared(found.base[DR]) \subseteq Feasible
  /\ verdict # None => Compared(verdict.base[DR]) \subseteq Feasible
  /\ Grounded

LEMMA AnalysisPartHolds == OffNominalInv => AnalysisPart
  BY DEF OffNominalInv, OffNominalTypeOK, FeasibleOnly, AnalysisPart, DR

LEMMA AnalysisKeepsTheRest ==
  ASSUME OffNominalInv, AnalysisPart', UNCHANGED <<scriptVars, driverVars, scripts, launches>>
  PROVE  OffNominalInv'
  <1> USE DEF OffNominalInv, scriptVars, driverVars
  <1>1. OffNominalTypeOK'
    BY DEF OffNominalTypeOK, AnalysisPart
  <1>2. FeasibleOnly'
    BY DEF FeasibleOnly, AnalysisPart
  <1>3. CellsTrue' /\ Progress'
    BY DEF CellsTrue, Progress
  <1> QED BY <1>1, <1>2, <1>3 DEF AnalysisPart

LEMMA ReadScreeningInv == ASSUME OffNominalInv, ReadScreening PROVE OffNominalInv'
  <1> USE NoneIsNone
  <1>1. AnalysisPart
    BY AnalysisPartHolds
  <1> DEFINE g == [c \in FinishedCells(disk) |-> disk[c].iae]
  <1>2. /\ disk # None /\ grounds' = g /\ apc' = "baselines"
        /\ analyses' = analyses + 1 /\ analyses < MaxAnalyses
        /\ UNCHANGED <<scriptVars, driverVars, found, analysis, verdict, scripts, launches, stops>>
    BY DEF ReadScreening
  <1>3. disk \in Manifests
    BY <1>2 DEF OffNominalInv, OffNominalTypeOK
  <1>4. g \in Grounds
    BY <1>3, FinishedFacts
  <1>5. Stands(g)
    BY <1>2 DEF Stands, FinishedCells
  <1>6. verdict # None => DOMAIN verdict.grounds \subseteq DOMAIN g
    <2> SUFFICES ASSUME verdict # None, NEW c \in DOMAIN verdict.grounds PROVE c \in FinishedCells(disk)
      OBVIOUS
    <2>1. verdict.grounds \in Grounds /\ Stands(verdict.grounds)
      BY <1>1 DEF AnalysisPart, Grounded, Verdicts
    <2>2. PICK S \in SUBSET Cells : verdict.grounds \in [S -> Numbers]
      BY <2>1 DEF Grounds
    <2>3. c \in Cells /\ verdict.grounds[c] \in Numbers
      BY <2>2
    <2> QED BY <2>1, <2>3 DEF Stands, FinishedCells
  <1> HIDE DEF g
  <1>7. Grounded'
    <2>1. Stands(grounds)'
      BY <1>2, <1>5 DEF Stands, driverVars
    <2>2. verdict # None => Stands(verdict.grounds)' /\ analysis # None
                            /\ DOMAIN verdict.grounds \subseteq DOMAIN analysis.grounds
      BY <1>1, <1>2 DEF AnalysisPart, Grounded, Stands, driverVars
    <2> QED BY <1>2, <1>6, <2>1, <2>2 DEF Grounded
  <1>8. analyses' \in 0 .. MaxAnalyses
    BY <1>1, <1>2, OffNominalAssumption DEF AnalysisPart
  <1>9. AnalysisPart'
    BY <1>1, <1>2, <1>4, <1>7, <1>8 DEF AnalysisPart
  <1> QED BY <1>2, <1>9, AnalysisKeepsTheRest

LEMMA ReadBaselinesInv == ASSUME OffNominalInv, ReadBaselines PROVE OffNominalInv'
  <1> USE NoneIsNone DEF counters
  <1>1. AnalysisPart
    BY AnalysisPartHolds
  <1>2. CASE \A m \in Submetrics : base[m] \notin {None, Torn}
    <2> DEFINE b == [m \in Submetrics |-> base[m]]
    <2>1. /\ found' = [grounds |-> grounds, base |-> b] /\ apc' = "analysis" /\ grounds' = grounds
          /\ apc = "baselines"
          /\ UNCHANGED <<scriptVars, driverVars, analysis, verdict, counters>>
      BY <1>2 DEF ReadBaselines
    <2>2. b \in [Submetrics -> Baselines]
      <3>1. \A m \in Submetrics : m \in Files
        BY DEF Files
      <3> QED BY <1>2, <3>1 DEF OffNominalInv, OffNominalTypeOK
    <2>3. found'.base[DR] = base[DR] /\ found'.grounds = grounds
      BY <2>1
    <2>4. Compared(found'.base[DR]) \subseteq Feasible
      BY <1>2, <2>3 DEF OffNominalInv, FeasibleOnly
    <2>5. found' \in Verdicts
      BY <1>1, <2>1, <2>2 DEF AnalysisPart, Verdicts
    <2>6. Grounded'
      BY <1>1, <2>1, <2>3 DEF AnalysisPart, Grounded, Stands, driverVars
    <2>7. AnalysisPart'
      BY <1>1, <2>1, <2>4, <2>5, <2>6 DEF AnalysisPart
    <2> QED BY <2>1, <2>7, AnalysisKeepsTheRest
  <1>3. CASE ~(\A m \in Submetrics : base[m] \notin {None, Torn})
    <2>1. /\ AnalysisEnds /\ UNCHANGED <<scriptVars, driverVars, analysis, verdict, counters>>
      BY <1>3 DEF ReadBaselines
    <2>2. AnalysisPart'
      BY <1>1, <2>1 DEF AnalysisPart, AnalysisEnds, Grounded, Stands, driverVars
    <2> QED BY <2>1, <2>2, AnalysisKeepsTheRest
  <1> QED BY <1>2, <1>3

LEMMA AnalysisStepInv ==
  ASSUME OffNominalInv,
         ReadScreening \/ ReadBaselines \/ WriteAnalysis \/ WriteClassification \/ AnalysisDies
  PROVE  OffNominalInv'
  <1> USE NoneIsNone DEF counters
  <1>1. AnalysisPart
    BY AnalysisPartHolds
  <1>2. CASE WriteAnalysis
    <2>1. /\ apc = "analysis" /\ analysis' = found /\ apc' = "classification"
          /\ UNCHANGED <<scriptVars, driverVars, grounds, found, verdict, counters>>
      BY <1>2 DEF WriteAnalysis
    <2>2. found \in Verdicts
      BY <1>1, <2>1 DEF AnalysisPart
    <2>3. Grounded'
      BY <1>1, <2>1, <2>2 DEF AnalysisPart, Grounded, Stands, driverVars
    <2>4. AnalysisPart'
      BY <1>1, <2>1, <2>2, <2>3 DEF AnalysisPart
    <2> QED BY <2>1, <2>4, AnalysisKeepsTheRest
  <1>3. CASE WriteClassification
    <2>1. /\ apc = "classification" /\ verdict' = found /\ AnalysisEnds
          /\ UNCHANGED <<scriptVars, driverVars, analysis, counters>>
      BY <1>3 DEF WriteClassification
    <2>2. found \in Verdicts /\ analysis = found
      BY <1>1, <2>1 DEF AnalysisPart, Grounded
    <2>3. Grounded'
      BY <1>1, <2>1, <2>2 DEF AnalysisPart, Grounded, Stands, driverVars, AnalysisEnds
    <2>4. AnalysisPart'
      BY <1>1, <2>1, <2>2, <2>3 DEF AnalysisPart, AnalysisEnds
    <2> QED BY <2>1, <2>4, AnalysisKeepsTheRest
  <1>4. CASE AnalysisDies
    <2>1. stops' \in 0 .. MaxStops
      BY <1>1, <1>4, OffNominalAssumption DEF AnalysisPart, AnalysisDies
    <2>2. AnalysisPart'
      BY <1>1, <1>4, <2>1 DEF AnalysisPart, AnalysisDies, AnalysisEnds, Grounded, Stands, driverVars
    <2> QED BY <1>4, <2>2, AnalysisKeepsTheRest DEF AnalysisDies
  <1> QED BY <1>2, <1>3, <1>4, ReadScreeningInv, ReadBaselinesInv

-------------------------------------------------------------------------------
(* The theorems.                                                           *)

\* Every reachable state of the chain satisfies the invariant: what the scripts,
\* the driver and the analysis know of each other's files when killed anywhere.
THEOREM OffNominalInvariant == OffNominalSpec => []OffNominalInv
  <1>1. OffNominalInv /\ [OffNominalNext]_offVars => OffNominalInv'
    <2> SUFFICES ASSUME OffNominalInv, [OffNominalNext]_offVars PROVE OffNominalInv'
      OBVIOUS
    <2>1. CASE UNCHANGED offVars
      BY <2>1 DEF offVars, scriptVars, driverVars, analysisVars, counters, OffNominalInv, FeasibleOnly,
                  OffNominalTypeOK, Grounded, Stands, CellsTrue, Progress
    <2>2. CASE OffNominalNext
      BY <2>2, ScriptStepInv, DriverStepInv, AnalysisStepInv DEF OffNominalNext
    <2> QED BY <2>1, <2>2
  <1> QED BY <1>1, OffNominalInitInv, PTL DEF OffNominalSpec

\* Types: a script that evaluates disturbance rejection holds a parsed cache, the
\* driver a manifest, the analysis what it read.
THEOREM OffNominalTypes == OffNominalSpec => []OffNominalTypeOK
  BY OffNominalInvariant, PTL DEF OffNominalInv

\* Each number a published verdict rests on is still that of a done cell.
THEOREM OffNominalVerdictStands == OffNominalSpec => []VerdictStands
  <1>1. OffNominalInv => VerdictStands
    BY DEF OffNominalInv, Grounded, Stands, VerdictStands
  <1> QED BY <1>1, OffNominalInvariant, PTL

\* No operating point without an on-spec state is compared, on either side.
THEOREM OffNominalOnlyFeasibleOps == OffNominalSpec => []OnlyFeasibleOpsCompared
  <1>1. ASSUME OffNominalInv PROVE OnlyFeasibleOpsCompared
    <2> SUFFICES ASSUME verdict # None
                 PROVE  /\ Compared(verdict.base[DR]) \subseteq Feasible
                        /\ \A c \in DOMAIN verdict.grounds : c[3] = DR /\ ~disk[c].dry => c[1] \in Feasible
      BY DEF OnlyFeasibleOpsCompared, DR
    <2>1. Compared(verdict.base[DR]) \subseteq Feasible
      BY <1>1 DEF OffNominalInv, FeasibleOnly
    <2>2. disk # None /\ \A c \in DOMAIN verdict.grounds : disk[c].status = "done"
      BY <1>1 DEF OffNominalInv, Grounded, Stands
    <2>3. DOMAIN verdict.grounds \subseteq Cells
      BY <1>1, NoneIsNone DEF OffNominalInv, OffNominalTypeOK, Verdicts, Grounds
    <2> QED BY <1>1, <2>1, <2>2, <2>3 DEF OffNominalInv, CellsTrue, CellTrue
  <1> QED BY <1>1, OffNominalInvariant, PTL

\* A cell recorded as infeasible is.
THEOREM OffNominalInfeasibleIsTrue == OffNominalSpec => []InfeasibleIsTrue
  <1>1. OffNominalInv => InfeasibleIsTrue
    BY DEF OffNominalInv, CellsTrue, CellTrue, InfeasibleIsTrue, DR
  <1> QED BY <1>1, OffNominalInvariant, PTL

-------------------------------------------------------------------------------
(* Order statistics.                                                       *)

\* A finite set without one of its elements is smaller.
LEMMA Smaller ==
  ASSUME NEW S, IsFiniteSet(S), NEW T, T \subseteq S, NEW y \in S, y \notin T
  PROVE  Cardinality(T) < Cardinality(S)
  <1>1. /\ IsFiniteSet(T) /\ Cardinality(T) <= Cardinality(S)
        /\ Cardinality(S) = Cardinality(T) => S = T
    BY FS_Subset, Zenon
  <1>2. Cardinality(S) \in Nat /\ Cardinality(T) \in Nat
    BY <1>1, FS_CardinalityType
  <1>3. S # T
    OBVIOUS
  <1> QED BY <1>1, <1>2, <1>3

\* A finite set of integers that is not empty has a least and a greatest element.
LEMMA Extremes ==
  ASSUME NEW S \in SUBSET Int, IsFiniteSet(S), S # {}
  PROVE  (\E c \in S : \A d \in S : c <= d) /\ (\E c \in S : \A d \in S : d <= c)
  <1> DEFINE L(x) == {y \in S : y < x}
             G(x) == {y \in S : x < y}
  <1>1. ASSUME NEW x \in S PROVE /\ IsFiniteSet(L(x)) /\ IsFiniteSet(G(x))
                                 /\ Cardinality(L(x)) \in Nat /\ Cardinality(G(x)) \in Nat
    BY FS_Subset, FS_CardinalityType
  <1>2. ASSUME NEW x \in S, NEW y \in S, y < x PROVE Cardinality(L(y)) < Cardinality(L(x))
    <2>1. L(y) \subseteq L(x) /\ y \in L(x) /\ y \notin L(y)
      <3>1. x \in Int /\ y \in Int /\ \A z \in S : z \in Int
        OBVIOUS
      <3>2. \A z \in S : z < y => z < x
        BY <1>2, <3>1
      <3>3. y < x /\ ~ (y < y)
        BY <1>2, <3>1
      <3> QED BY <3>2, <3>3, Zenon
    <2> HIDE DEF L
    <2> QED BY <1>1, <2>1, Smaller
  <1>3. ASSUME NEW x \in S, NEW y \in S, x < y PROVE Cardinality(G(y)) < Cardinality(G(x))
    <2>1. G(y) \subseteq G(x) /\ y \in G(x) /\ y \notin G(y)
      <3>1. x \in Int /\ y \in Int /\ \A z \in S : z \in Int
        OBVIOUS
      <3>2. \A z \in S : y < z => x < z
        BY <1>3, <3>1
      <3>3. x < y /\ ~ (y < y)
        BY <1>3, <3>1
      <3> QED BY <3>2, <3>3, Zenon
    <2> HIDE DEF G
    <2> QED BY <1>1, <2>1, Smaller
  <1> HIDE DEF L, G
  <1>4. \E c \in S : \A d \in S : c <= d
    <2> DEFINE N == {Cardinality(L(x)) : x \in S}
    <2>1. N \in SUBSET Nat /\ N # {}
      BY <1>1
    <2>2. PICK n \in N : \A m \in N : n <= m
      BY <2>1, LeastNumber
    <2>3. PICK c \in S : n = Cardinality(L(c))
      BY <2>2
    <2>4. \A d \in S : Cardinality(L(c)) <= Cardinality(L(d))
      BY <2>2, <2>3
    <2>5. \A d \in S : ~ (d < c)
      BY <1>1, <1>2, <2>4
    <2> QED BY <2>5
  <1>5. \E c \in S : \A d \in S : d <= c
    <2> DEFINE N == {Cardinality(G(x)) : x \in S}
    <2>1. N \in SUBSET Nat /\ N # {}
      BY <1>1
    <2>2. PICK n \in N : \A m \in N : n <= m
      BY <2>1, LeastNumber
    <2>3. PICK c \in S : n = Cardinality(G(c))
      BY <2>2
    <2>4. \A d \in S : Cardinality(G(c)) <= Cardinality(G(d))
      BY <2>2, <2>3
    <2>5. \A d \in S : ~ (c < d)
      BY <1>1, <1>3, <2>4
    <2> QED BY <2>5
  <1> QED BY <1>4, <1>5

\* ... which Least and Greatest choose.
LEMMA LeastAndGreatest ==
  ASSUME NEW S \in SUBSET Int, IsFiniteSet(S), S # {}
  PROVE  /\ Least(S) \in S /\ \A y \in S : Least(S) <= y
         /\ Greatest(S) \in S /\ \A y \in S : y <= Greatest(S)
  BY Extremes DEF Least, Greatest

\* The arguments with a value below v, and with one up to v.
Under(f, v) == {d \in DOMAIN f : f[d] < v}
UpTo(f, v) == {d \in DOMAIN f : f[d] <= v}

\* A table of numbers.
IsTable(f) == IsFiniteSet(DOMAIN f) /\ \A d \in DOMAIN f : f[d] \in Int

\* Parts of a table are finite, and a part of a part is not larger.
LEMMA Counts ==
  ASSUME NEW f, IsTable(f)
  PROVE  /\ Cardinality(DOMAIN f) \in Nat
         /\ \A S \in SUBSET DOMAIN f : IsFiniteSet(S) /\ Cardinality(S) \in Nat
         /\ \A S, T \in SUBSET DOMAIN f : S \subseteq T => Cardinality(S) <= Cardinality(T)
  <1>1. \A S \in SUBSET DOMAIN f : IsFiniteSet(S) /\ Cardinality(S) \in Nat
    BY FS_Subset, FS_CardinalityType DEF IsTable
  <1>2. \A S, T \in SUBSET DOMAIN f : S \subseteq T => Cardinality(S) <= Cardinality(T)
    BY <1>1, FS_Subset
  <1> QED BY <1>1, <1>2

\* The values of a table.
LEMMA Values ==
  ASSUME NEW f, IsTable(f), NEW S \in SUBSET DOMAIN f
  PROVE  {f[d] : d \in S} \in SUBSET Int /\ IsFiniteSet({f[d] : d \in S})
  <1> DEFINE T == {f[d] : d \in S}
             g == [d \in S |-> f[d]]
  <1>1. IsFiniteSet(S)
    BY Counts
  <1>2. g \in Surjection(S, T)
    BY DEF Surjection
  <1> HIDE DEF g
  <1>3. IsFiniteSet(T)
    BY <1>1, <1>2, FS_Surjection
  <1> QED BY <1>3 DEF IsTable

\* Every order statistic exists: v is the value at index p of the sorted table.
LEMMA SortedIs ==
  ASSUME NEW f, IsTable(f), NEW p \in Nat, p < Cardinality(DOMAIN f)
  PROVE  /\ Sorted(f, p) \in Int /\ \E d \in DOMAIN f : Sorted(f, p) = f[d]
         /\ Cardinality(Under(f, Sorted(f, p))) <= p
         /\ p < Cardinality(UpTo(f, Sorted(f, p)))
  <1> DEFINE V == {f[d] : d \in DOMAIN f}
             G == {v \in V : p < Cardinality(UpTo(f, v))}
  <1>1. V \in SUBSET Int /\ IsFiniteSet(V)
    BY Values
  <1>2. DOMAIN f # {}
    BY FS_EmptySet
  <1>3. G # {}
    <2>1. V # {} /\ \A d \in DOMAIN f : f[d] \in V
      BY <1>2
    <2>2. PICK v \in V : \A w \in V : w <= v
      <3> HIDE DEF V, G
      <3> QED BY <1>1, <2>1, Extremes
    <2>3. UpTo(f, v) = DOMAIN f
      BY <2>1, <2>2 DEF UpTo
    <2> QED BY <2>2, <2>3
  <1>4. G \in SUBSET Int /\ IsFiniteSet(G)
    <2>1. G \in SUBSET V
      OBVIOUS
    <2> HIDE DEF V, G
    <2> QED BY <1>1, <2>1, FS_Subset
  <1>5. PICK v \in G : \A w \in G : v <= w
    BY <1>3, <1>4, Extremes
  <1>6. v \in V /\ v \in Int /\ p < Cardinality(UpTo(f, v))
    BY <1>1, <1>5
  <1>7. Cardinality(Under(f, v)) <= p
    <2>1. SUFFICES ASSUME p < Cardinality(Under(f, v)) PROVE FALSE
      <3>1. Under(f, v) \in SUBSET DOMAIN f
        BY DEF Under
      <3> QED BY <3>1, Counts
    <2>2. Under(f, v) \in SUBSET DOMAIN f /\ Under(f, v) # {}
      BY <2>1, FS_EmptySet DEF Under
    <2> DEFINE B == {f[d] : d \in Under(f, v)}
    <2>3. B \in SUBSET Int /\ IsFiniteSet(B) /\ B # {}
      BY <2>2, Values
    <2>4. PICK w \in B : \A x \in B : x <= w
      BY <2>3, Extremes
    <2>5. w \in V /\ w \in Int /\ w < v
      <3>1. PICK d \in Under(f, v) : w = f[d]
        BY <2>4
      <3> QED BY <2>3, <2>4, <3>1 DEF Under
    <2>6. Under(f, v) \subseteq UpTo(f, w)
      BY <2>4 DEF Under, UpTo
    <2>7. p < Cardinality(UpTo(f, w))
      <3>1. UpTo(f, w) \in SUBSET DOMAIN f
        BY DEF UpTo
      <3>2. Cardinality(Under(f, v)) <= Cardinality(UpTo(f, w))
            /\ Cardinality(Under(f, v)) \in Nat /\ Cardinality(UpTo(f, w)) \in Nat
        BY <2>2, <2>6, <3>1, Counts
      <3> QED BY <2>1, <3>2
    <2>8. w \in G
      BY <2>5, <2>7
    <2> QED BY <1>5, <1>6, <2>5, <2>8
  <1> HIDE DEF V, G
  <1> DEFINE Q(x) == /\ Cardinality({d \in DOMAIN f : f[d] < x}) <= p
                     /\ p < Cardinality({d \in DOMAIN f : f[d] <= x})
  <1>8. Q(v)
    BY <1>6, <1>7 DEF Under, UpTo
  <1>9. Range(f) = V
    BY DEF Range, V
  <1>10. Sorted(f, p) = CHOOSE x \in V : Q(x)
    BY <1>9 DEF Sorted
  <1> HIDE DEF Q
  <1>11. Sorted(f, p) \in V /\ Q(Sorted(f, p))
    BY <1>6, <1>8, <1>10
  <1>12. \A x \in V : x \in Int /\ \E d \in DOMAIN f : x = f[d]
    BY <1>1 DEF V
  <1> QED BY <1>11, <1>12 DEF Q, Under, UpTo

\* A table that is nowhere lower, read at an index that is not lower, gives a value
\* that is not lower.
LEMMA SortedMonotone ==
  ASSUME NEW f, IsTable(f), NEW h, IsTable(h), DOMAIN h = DOMAIN f,
         \A d \in DOMAIN f : f[d] <= h[d],
         NEW p \in Nat, NEW q \in Nat, p <= q, q < Cardinality(DOMAIN f)
  PROVE  Sorted(f, p) <= Sorted(h, q)
  <1> DEFINE v == Sorted(f, p)
             w == Sorted(h, q)
  <1>1. Cardinality(DOMAIN f) \in Nat
    BY Counts
  <1>2. v \in Int /\ Cardinality(Under(f, v)) <= p
    BY <1>1, SortedIs
  <1>3. w \in Int /\ q < Cardinality(UpTo(h, w))
    BY <1>1, SortedIs
  <1> HIDE DEF v, w
  <1>4. SUFFICES ASSUME w < v PROVE FALSE
    BY <1>2, <1>3 DEF v, w
  <1>5. UpTo(h, w) \in SUBSET DOMAIN f /\ Under(f, v) \in SUBSET DOMAIN f
    BY DEF UpTo, Under
  <1>6. UpTo(h, w) \subseteq Under(f, v)
    <2>1. ASSUME NEW d \in DOMAIN f, h[d] <= w PROVE f[d] < v
      <3>1. f[d] \in Int /\ h[d] \in Int /\ f[d] <= h[d]
        BY DEF IsTable
      <3> QED BY <1>2, <1>3, <1>4, <2>1, <3>1
    <2> QED BY <2>1 DEF UpTo, Under
  <1>7. /\ Cardinality(UpTo(h, w)) <= Cardinality(Under(f, v))
        /\ Cardinality(UpTo(h, w)) \in Nat /\ Cardinality(Under(f, v)) \in Nat
    BY <1>5, <1>6, Counts
  <1> QED BY <1>2, <1>3, <1>7

\* Where P95 reads the sorted table, and between the two how far.
Low(f) == (95 * (Cardinality(DOMAIN f) - 1)) \div 100
High(f) == Least({Low(f) + 1, Cardinality(DOMAIN f) - 1})
Fraction(f) == (95 * (Cardinality(DOMAIN f) - 1)) % 100

\* Both places are in the table.
LEMMA Indices ==
  ASSUME NEW f, IsTable(f), DOMAIN f # {}
  PROVE  /\ Low(f) \in Nat /\ Low(f) < Cardinality(DOMAIN f)
         /\ High(f) \in Nat /\ High(f) < Cardinality(DOMAIN f)
         /\ Fraction(f) \in 0 .. 99
         /\ P95(f) = (100 - Fraction(f)) * Sorted(f, Low(f)) + Fraction(f) * Sorted(f, High(f))
  <1> DEFINE n == Cardinality(DOMAIN f)
  <1>1. n \in Nat /\ n # 0
    BY Counts, FS_EmptySet DEF IsTable
  <1>2. P95(f) = (100 - Fraction(f)) * Sorted(f, Low(f)) + Fraction(f) * Sorted(f, High(f))
    BY DEF P95, Low, High, Fraction
  <1>3. Low(f) \in Nat /\ Low(f) < n /\ Fraction(f) \in 0 .. 99
    <2> HIDE DEF n
    <2>1. Low(f) = (95 * (n - 1)) \div 100 /\ Fraction(f) = (95 * (n - 1)) % 100
      BY DEF Low, Fraction, n
    <2> QED BY <1>1, <2>1
  <1>4. High(f) \in Nat /\ High(f) < n
    <2> DEFINE S == {Low(f) + 1, n - 1}
    <2>1. S \in SUBSET Int /\ IsFiniteSet(S) /\ S # {}
      <3>1. IsFiniteSet({Low(f) + 1}) /\ S = {Low(f) + 1} \cup {n - 1}
        BY FS_Singleton
      <3>2. IsFiniteSet(S)
        BY <3>1, FS_AddElement
      <3> QED BY <1>1, <1>3, <3>2
    <2>2. High(f) = Least(S)
      BY DEF High
    <2> HIDE DEF S
    <2>3. High(f) \in S /\ \A y \in S : High(f) <= y
      BY <2>1, <2>2, LeastAndGreatest
    <2> QED BY <1>1, <1>3, <2>3 DEF S
  <1> QED BY <1>2, <1>3, <1>4

\* A percentile of integers, in hundredths, is an integer.
LEMMA PercentileType == ASSUME NEW f, IsTable(f), DOMAIN f # {} PROVE P95(f) \in Int
  <1> DEFINE v == Sorted(f, Low(f))
             w == Sorted(f, High(f))
             x == Fraction(f)
  <1>1. v \in Int /\ w \in Int
    BY Indices, SortedIs
  <1>2. x \in 0 .. 99 /\ P95(f) = (100 - x) * v + x * w
    BY Indices
  <1> HIDE DEF v, w, x
  <1> QED BY <1>1, <1>2

\* A weight keeps the order.
LEMMA Scaled ==
  ASSUME NEW k \in Nat, NEW a \in Int, NEW b \in Int, a <= b
  PROVE  k * a <= k * b /\ k * a \in Int /\ k * b \in Int
  OBVIOUS

\* A percentile of a table of integers that is not empty is an integer, and lies
\* between any bounds of the values.
THEOREM PercentileInBounds ==
  ASSUME NEW f, IsTable(f), DOMAIN f # {}, NEW a \in Int, NEW b \in Int,
         \A d \in DOMAIN f : a <= f[d] /\ f[d] <= b
  PROVE  P95(f) \in Int /\ 100 * a <= P95(f) /\ P95(f) <= 100 * b
  <1> DEFINE v == Sorted(f, Low(f))
             w == Sorted(f, High(f))
             x == Fraction(f)
  <1>1. /\ v \in Int /\ a <= v /\ v <= b
        /\ w \in Int /\ a <= w /\ w <= b
    <2>1. /\ \E d \in DOMAIN f : v = f[d]
          /\ \E d \in DOMAIN f : w = f[d]
      BY Indices, SortedIs
    <2> HIDE DEF v, w
    <2> QED BY <2>1 DEF IsTable
  <1>2. x \in 0 .. 99 /\ P95(f) = (100 - x) * v + x * w
    BY Indices
  <1> HIDE DEF v, w, x
  <1>3. /\ (100 - x) * a <= (100 - x) * v /\ (100 - x) * v <= (100 - x) * b
        /\ x * a <= x * w /\ x * w <= x * b
    BY <1>1, <1>2, Scaled
  <1>4. (100 - x) * a + x * a = 100 * a /\ (100 - x) * b + x * b = 100 * b
    BY <1>2
  <1> QED BY <1>1, <1>2, <1>3, <1>4

\* Raising values of a table does not lower its percentile.
THEOREM PercentileMonotone ==
  ASSUME NEW f, IsTable(f), DOMAIN f # {}, NEW h, IsTable(h), DOMAIN h = DOMAIN f,
         \A d \in DOMAIN f : f[d] <= h[d]
  PROVE  P95(f) <= P95(h)
  <1>1. Low(f) = Low(h) /\ High(f) = High(h) /\ Fraction(f) = Fraction(h)
    BY DEF Low, High, Fraction
  <1> DEFINE v == Sorted(f, Low(f))
             w == Sorted(f, High(f))
             y == Sorted(h, Low(f))
             z == Sorted(h, High(f))
             x == Fraction(f)
  <1>2. v \in Int /\ w \in Int /\ y \in Int /\ z \in Int
    BY <1>1, Indices, SortedIs
  <1>3. v <= y /\ w <= z
    BY Indices, SortedMonotone
  <1>4. x \in 0 .. 99 /\ P95(f) = (100 - x) * v + x * w
    BY Indices
  <1>5. P95(h) = (100 - x) * y + x * z
    BY <1>1, Indices
  <1> HIDE DEF v, w, x, y, z
  <1>6. (100 - x) * v <= (100 - x) * y /\ x * w <= x * z
    BY <1>2, <1>3, <1>4, Scaled
  <1> QED BY <1>2, <1>4, <1>5, <1>6

-------------------------------------------------------------------------------
(* Means.                                                                  *)

\* g is what the recursion of Unit gives up to k.
Factorials(k, g) == g = [n \in 0 .. k |-> IF n = 0 THEN 1 ELSE n * g[n - 1]]

\* The recursion has a solution ...
LEMMA FactorialsExist == \A k \in Nat : \E g : Factorials(k, g)
  <1> DEFINE N == {k \in Nat : \E g : Factorials(k, g)}
  <1>1. 0 \in N
    <2> DEFINE g == [n \in 0 .. 0 |-> 1]
    <2>1. g = [n \in 0 .. 0 |-> IF n = 0 THEN 1 ELSE n * g[n - 1]]
      OBVIOUS
    <2> HIDE DEF g
    <2>2. Factorials(0, g)
      BY <2>1 DEF Factorials
    <2> QED BY <2>2
  <1>2. ASSUME NEW k \in Nat, k \in N PROVE k + 1 \in N
    <2>1. PICK g : Factorials(k, g)
      BY <1>2
    <2>2. \A n \in 0 .. k : g[n] = IF n = 0 THEN 1 ELSE n * g[n - 1]
      BY <2>1 DEF Factorials
    <2> DEFINE h == [n \in 0 .. k + 1 |-> IF n = 0 THEN 1 ELSE n * g[n - 1]]
    <2>3. \A n \in 0 .. k : h[n] = g[n]
      BY <2>2
    <2>4. \A n \in 0 .. k + 1 : n # 0 => n - 1 \in 0 .. k
      OBVIOUS
    <2>5. \A n \in 0 .. k + 1 : h[n] = IF n = 0 THEN 1 ELSE n * h[n - 1]
      BY <2>3, <2>4, Zenon
    <2>6. h = [n \in 0 .. k + 1 |-> h[n]]
      OBVIOUS
    <2> HIDE DEF h
    <2>7. Factorials(k + 1, h)
      BY <2>5, <2>6, Zenon DEF Factorials
    <2> QED BY <2>7
  <1> HIDE DEF N
  <1>3. \A k \in Nat : k \in N
    BY <1>1, <1>2, SetInduction, Zenon
  <1> QED BY <1>3 DEF N

\* ... and every solution is an integer,
LEMMA FactorialsType ==
  ASSUME NEW k \in Nat, NEW g, Factorials(k, g)
  PROVE  g[k] \in Int
  <1> DEFINE N == {n \in Nat : n <= k => g[n] \in Int}
  <1>1. \A n \in 0 .. k : g[n] = IF n = 0 THEN 1 ELSE n * g[n - 1]
    BY DEF Factorials
  <1>2. 0 \in N
    BY <1>1
  <1>3. ASSUME NEW n \in Nat, n \in N PROVE n + 1 \in N
    <2> SUFFICES ASSUME n + 1 <= k PROVE g[n + 1] \in Int
      OBVIOUS
    <2>1. n + 1 \in 0 .. k /\ n + 1 # 0 /\ (n + 1) - 1 = n /\ g[n] \in Int
      BY <1>3
    <2>2. g[n + 1] = (n + 1) * g[n]
      BY <1>1, <2>1
    <2> QED BY <2>1, <2>2
  <1> HIDE DEF N
  <1>4. \A n \in Nat : n \in N
    BY <1>2, <1>3, SetInduction, Zenon
  <1> QED BY <1>4 DEF N

\* so Unit is one.
LEMMA UnitType == Unit \in Int
  <1> DEFINE n == Cardinality(Seeds)
             fact == CHOOSE g : Factorials(n, g)
  <1>1. n \in Nat
    BY VerdictAssumption, FS_CardinalityType
  <1>2. Unit = fact[n]
    BY Zenon DEF Unit, Factorials
  <1> HIDE DEF n
  <1>3. Factorials(n, fact)
    BY <1>1, FactorialsExist, Zenon
  <1> HIDE DEF fact
  <1> QED BY <1>1, <1>2, <1>3, FactorialsType

\* A mean of integers is an integer, in units of 1/Unit.
LEMMA MeanType ==
  ASSUME NEW n \in Nat \ {0}, NEW values, DOMAIN values = 1 .. n,
         \A i \in 1 .. n : values[i] \in Int
  PROVE  Mean(values) \in Int
  <1>1. IsFiniteSet(1 .. n) /\ Cardinality(1 .. n) = n
    BY FS_Interval
  <1>2. SumFunctionOnSet(values, 1 .. n) \in Int
    BY <1>1, SumType
  <1>3. Mean(values) = (Unit * SumFunctionOnSet(values, 1 .. n)) \div n
    BY <1>1 DEF Mean, SumFunction
  <1> QED BY <1>2, <1>3, UnitType

\* In a finite set of numbers every position is taken.
LEMMA Position ==
  ASSUME NEW U \in SUBSET Int, IsFiniteSet(U), NEW i \in 1 .. Cardinality(U)
  PROVE  \E x \in U : Cardinality({y \in U : y < x}) = i - 1
  <1> DEFINE f == [x \in U |-> x]
             v == Sorted(f, i - 1)
  <1>1. Cardinality(U) \in Nat
    BY FS_CardinalityType
  <1>2. IsTable(f) /\ i - 1 \in Nat /\ i - 1 < Cardinality(DOMAIN f)
    BY <1>1 DEF IsTable
  <1>3. v \in U /\ Cardinality(Under(f, v)) <= i - 1 /\ i - 1 < Cardinality(UpTo(f, v))
    <2> HIDE DEF f
    <2>1. (\E d \in DOMAIN f : v = f[d]) /\ Cardinality(Under(f, v)) <= i - 1
          /\ i - 1 < Cardinality(UpTo(f, v))
      BY <1>2, SortedIs
    <2> QED BY <2>1 DEF f
  <1> HIDE DEF v
  <1> DEFINE L == {y \in U : y < v}
  <1>4. Under(f, v) = L /\ UpTo(f, v) = L \cup {v} /\ v \notin L
    <2>1. Under(f, v) = L /\ UpTo(f, v) = {y \in U : y <= v}
      BY DEF Under, UpTo
    <2>2. \A y \in U : y <= v <=> y < v \/ y = v
      <3>1. v \in Int /\ \A y \in U : y \in Int
        BY <1>3
      <3> QED BY <3>1
    <2>3. v \notin L
      BY <1>3
    <2> HIDE DEF f
    <2> QED BY <1>3, <2>1, <2>2, <2>3
  <1>5. IsFiniteSet(L) /\ Cardinality(L) \in Nat
    BY FS_Subset, FS_CardinalityType
  <1> HIDE DEF L
  <1>6. Cardinality(L \cup {v}) = Cardinality(L) + 1
    BY <1>4, <1>5, FS_AddElement
  <1>7. Cardinality(L) = i - 1
    BY <1>3, <1>4, <1>5, <1>6
  <1> QED BY <1>3, <1>7 DEF L

\* The numbers of a factor cell, one for each of its seeds.
LEMMA IndividualType ==
  ASSUME NEW g \in Grounds, NEW o, NEW s, NEW m
  PROVE  LET n == Cardinality(SeedsUsed(g, o, s, m))
         IN  /\ n \in Nat /\ (SeedsUsed(g, o, s, m) # {} => n # 0)
             /\ Individual(g, o, s, m) = [i \in 1 .. n |-> Individual(g, o, s, m)[i]]
             /\ \A i \in 1 .. n : Individual(g, o, s, m)[i] \in Int
  <1> DEFINE used == SeedsUsed(g, o, s, m)
             seed(i) == CHOOSE x \in used : Cardinality({y \in used : y < x}) = i - 1
             n == Cardinality(used)
  <1>1. used \in SUBSET Seeds /\ used \in SUBSET Int /\ IsFiniteSet(used)
    <2>1. used \in SUBSET Seeds
      BY DEF SeedsUsed
    <2> HIDE DEF used
    <2>2. IsFiniteSet(used)
      BY <2>1, VerdictAssumption, FS_Subset
    <2> QED BY <2>1, <2>2, Numbered
  <1>2. n \in Nat /\ (used # {} => n # 0)
    BY <1>1, FS_CardinalityType, FS_EmptySet
  <1>3. Individual(g, o, s, m) = [i \in 1 .. n |-> g[<<o, s, m, seed(i)>>]]
    BY DEF Individual
  <1>4. \A x \in used : g[<<o, s, m, x>>] \in Int
    <2>1. \A x \in used : <<o, s, m, x>> \in DOMAIN g
      BY DEF SeedsUsed
    <2>2. \A c \in DOMAIN g : g[c] \in Numbers
      BY DEF Grounds
    <2> QED BY <2>1, <2>2, Numbered
  <1> HIDE DEF used
  <1>5. ASSUME NEW i \in 1 .. n PROVE seed(i) \in used
    BY <1>1, Position
  <1>6. \A i \in 1 .. n : g[<<o, s, m, seed(i)>>] \in Int
    BY <1>4, <1>5, Zenon
  <1> HIDE DEF seed
  <1>7. \A i \in 1 .. n : Individual(g, o, s, m)[i] = g[<<o, s, m, seed(i)>>]
    BY <1>3
  <1> QED BY <1>2, <1>3, <1>6, <1>7 DEF used

-------------------------------------------------------------------------------
(* The bootstrap.                                                          *)

\* There are finitely many sequences of a length over a finite set.
LEMMA FiniteTuples == ASSUME NEW T, IsFiniteSet(T) PROVE \A n \in Nat : IsFiniteSet([1 .. n -> T])
  <1> DEFINE N == {n \in Nat : IsFiniteSet([1 .. n -> T])}
  <1>1. 0 \in N
    <2>1. 1 .. 0 = {}
      OBVIOUS
    <2>2. [1 .. 0 -> T] = {[i \in {} |-> 0]}
      BY <2>1
    <2> QED BY <2>2, FS_Singleton, Zenon
  <1>2. ASSUME NEW n \in Nat, n \in N PROVE n + 1 \in N
    <2> DEFINE P == [1 .. n -> T] \X T
               add(q) == [i \in 1 .. n + 1 |-> IF i = n + 1 THEN q[2] ELSE q[1][i]]
               adds == [q \in P |-> add(q)]
    <2>1. IsFiniteSet(P)
      BY <1>2, FS_Product
    <2>2. \A q \in P : add(q) \in [1 .. n + 1 -> T]
      OBVIOUS
    <2>3. ASSUME NEW t \in [1 .. n + 1 -> T] PROVE \E q \in P : add(q) = t
      <3> DEFINE r == [i \in 1 .. n |-> t[i]]
      <3>1. <<r, t[n + 1]>> \in P
        OBVIOUS
      <3>2. add(<<r, t[n + 1]>>) = t
        OBVIOUS
      <3> QED BY <3>1, <3>2
    <2> HIDE DEF P, add
    <2>4. adds \in Surjection(P, [1 .. n + 1 -> T])
      BY <2>2, <2>3 DEF Surjection
    <2> HIDE DEF adds
    <2>5. IsFiniteSet([1 .. n + 1 -> T])
      BY <2>1, <2>4, FS_Surjection
    <2> QED BY <2>5
  <1> HIDE DEF N
  <1>3. \A n \in Nat : n \in N
    BY <1>1, <1>2, SetInduction, Zenon
  <1> QED BY <1>3 DEF N

\* Every scenario of an operating point has as many finished seeds as the others.
Even(g, m) ==
  \A o \in Screened(g, m) : \A s, t \in Present(g, o, m) :
    Cardinality(SeedsUsed(g, o, s, m)) = Cardinality(SeedsUsed(g, o, t, m))

\* The scenarios of an operating point, and how many draws it has.
LEMMA PresentFacts ==
  ASSUME NEW g \in Grounds, NEW m, Even(g, m), NEW o \in Screened(g, m)
  PROVE  /\ IsFiniteSet(Present(g, o, m)) /\ Present(g, o, m) # {}
         /\ \E n \in Nat \ {0} :
              /\ Draws(g, o, m) = [1 .. n -> 1 .. n]
              /\ \A s \in Present(g, o, m) :
                   /\ Cardinality(SeedsUsed(g, o, s, m)) = n
                   /\ Individual(g, o, s, m) = [i \in 1 .. n |-> Individual(g, o, s, m)[i]]
                   /\ \A i \in 1 .. n : Individual(g, o, s, m)[i] \in Int
  <1> DEFINE S == Present(g, o, m)
             a == Least(S)
             n == Cardinality(SeedsUsed(g, o, a, m))
  <1>1. S \in SUBSET Scenarios /\ S # {} /\ \A s \in S : SeedsUsed(g, o, s, m) # {}
    BY DEF Present, Screened
  <1>2. S \in SUBSET Int /\ IsFiniteSet(S)
    <2> HIDE DEF S
    <2>1. IsFiniteSet(S)
      BY <1>1, VerdictAssumption, FS_Subset
    <2> QED BY <1>1, <2>1, Numbered
  <1>3. a \in S
    <2> HIDE DEF S
    <2> QED BY <1>1, <1>2, LeastAndGreatest
  <1>4. Draws(g, o, m) = [1 .. n -> 1 .. n]
    BY DEF Draws
  <1>5. \A s \in S : Cardinality(SeedsUsed(g, o, s, m)) = n
    BY <1>3 DEF Even
  <1> HIDE DEF S, a
  <1>6. n \in Nat /\ n # 0
    BY <1>1, <1>3, IndividualType
  <1>7. ASSUME NEW s \in S
        PROVE  /\ Individual(g, o, s, m) = [i \in 1 .. n |-> Individual(g, o, s, m)[i]]
               /\ \A i \in 1 .. n : Individual(g, o, s, m)[i] \in Int
    <2>1. Cardinality(SeedsUsed(g, o, s, m)) = n
      BY <1>5
    <2> HIDE DEF n
    <2> QED BY <2>1, IndividualType
  <1> HIDE DEF n
  <1> QED BY <1>1, <1>2, <1>4, <1>5, <1>6, <1>7 DEF S

\* One draw's percentile over the scenarios.
Drawn(g, o, m, draw) ==
  P95([s \in Present(g, o, m) |-> Mean([i \in DOMAIN draw |-> Individual(g, o, s, m)[draw[i]]])])

\* Where the seeds are even the analysis finds every number it draws, its estimate
\* is one of the draws, and so the upper bound, which for up to three seeds is the
\* greatest draw, is not below the estimate.
THEOREM EvenSeedsConservative ==
  ASSUME NEW g \in Grounds, NEW m, Even(g, m), NEW o \in Screened(g, m)
  PROVE  /\ PointP95(g, o, m) \in Int /\ Upper(g, o, m) \in Int
         /\ PointP95(g, o, m) <= Upper(g, o, m)
  <1> DEFINE S == Present(g, o, m)
             R == Resampled(g, o, m)
             x(s) == Individual(g, o, s, m)
  <1>1. IsFiniteSet(S) /\ S # {}
    BY PresentFacts
  <1>2. PICK n \in Nat \ {0} :
          /\ Draws(g, o, m) = [1 .. n -> 1 .. n]
          /\ \A s \in S : x(s) = [i \in 1 .. n |-> x(s)[i]] /\ \A i \in 1 .. n : x(s)[i] \in Int
    BY PresentFacts
  <1> DEFINE D == [1 .. n -> 1 .. n]
             id == [i \in 1 .. n |-> i]
  <1>3. R = {Drawn(g, o, m, draw) : draw \in D}
    BY <1>2 DEF Resampled, Drawn
  <1>4. ASSUME NEW draw \in D PROVE Drawn(g, o, m, draw) \in Int
    <2> DEFINE y(s) == [i \in DOMAIN draw |-> x(s)[draw[i]]]
               f == [s \in S |-> Mean(y(s))]
    <2>1. ASSUME NEW s \in S PROVE Mean(y(s)) \in Int
      <3>1. DOMAIN y(s) = 1 .. n /\ \A i \in 1 .. n : y(s)[i] \in Int
        <4>1. \A i \in 1 .. n : draw[i] \in 1 .. n
          OBVIOUS
        <4> HIDE DEF x
        <4> QED BY <1>2, <4>1
      <3> HIDE DEF y
      <3> QED BY <3>1, MeanType
    <2>2. Drawn(g, o, m, draw) = P95(f)
      BY DEF Drawn
    <2> HIDE DEF y, S
    <2>3. IsTable(f) /\ DOMAIN f # {}
      BY <1>1, <2>1 DEF IsTable
    <2> HIDE DEF f
    <2> QED BY <2>2, <2>3, PercentileType
  <1>5. PointP95(g, o, m) = Drawn(g, o, m, id)
    <2>1. \A s \in S : [i \in DOMAIN id |-> x(s)[id[i]]] = x(s)
      <3>1. \A s \in S : [i \in DOMAIN id |-> x(s)[id[i]]] = [i \in 1 .. n |-> x(s)[i]]
        OBVIOUS
      <3> HIDE DEF x, id
      <3> QED BY <1>2, <3>1
    <2> DEFINE z(s) == [i \in DOMAIN id |-> x(s)[id[i]]]
    <2>2. PointP95(g, o, m) = P95([s \in S |-> Mean(x(s))])
      BY DEF PointP95
    <2>3. Drawn(g, o, m, id) = P95([s \in S |-> Mean(z(s))])
      BY DEF Drawn
    <2>4. \A s \in S : z(s) = x(s)
      BY <2>1
    <2> HIDE DEF x, z, S, id
    <2>5. [s \in S |-> Mean(x(s))] = [s \in S |-> Mean(z(s))]
      BY <2>4
    <2> QED BY <2>2, <2>3, <2>5
  <1>6. id \in D
    OBVIOUS
  <1> HIDE DEF x, S, R, id
  <1>7. IsFiniteSet(D)
    <2>1. n \in Nat /\ IsFiniteSet(1 .. n)
      BY FS_Interval
    <2> QED BY <2>1, FiniteTuples
  <1> DEFINE drawn == [draw \in D |-> Drawn(g, o, m, draw)]
  <1> HIDE DEF D
  <1>8. R \in SUBSET Int /\ IsFiniteSet(R) /\ PointP95(g, o, m) \in R
    <2>1. drawn \in Surjection(D, R)
      BY <1>3 DEF Surjection
    <2> HIDE DEF drawn
    <2>2. IsFiniteSet(R)
      BY <1>7, <2>1, FS_Surjection
    <2> QED BY <1>3, <1>4, <1>5, <1>6, <2>2
  <1>9. Upper(g, o, m) \in R /\ \A v \in R : v <= Upper(g, o, m)
    <2>1. Upper(g, o, m) = Greatest(R)
      BY DEF Upper, R
    <2> QED BY <1>8, <2>1, LeastAndGreatest
  <1> QED BY <1>8, <1>9

\* With even seeds no draw is beyond a scenario's list: the analysis does not raise.
THEOREM EvenSeedsDoNotRaise ==
  ASSUME NEW g \in Grounds, \A m \in Submetrics : Even(g, m)
  PROVE  ~Raises(g)
  <1> SUFFICES ASSUME NEW m \in Submetrics, NEW o \in Screened(g, m), NEW s \in Present(g, o, m)
               PROVE  ~ (Cardinality(SeedsUsed(g, o, s, m))
                         < Cardinality(SeedsUsed(g, o, Least(Present(g, o, m)), m)))
    BY DEF Raises
  <1> DEFINE S == Present(g, o, m)
             a == Least(S)
  <1>1. S \in SUBSET Int /\ IsFiniteSet(S) /\ S # {}
    <2>1. S \in SUBSET Int
      BY Numbered DEF Present
    <2> HIDE DEF S
    <2> QED BY <2>1, PresentFacts DEF S
  <1>2. a \in S
    <2> HIDE DEF S
    <2> QED BY <1>1, LeastAndGreatest
  <1>3. Cardinality(SeedsUsed(g, o, s, m)) = Cardinality(SeedsUsed(g, o, a, m))
    BY <1>2 DEF Even
  <1>4. Cardinality(SeedsUsed(g, o, s, m)) \in Nat
    BY IndividualType
  <1> QED BY <1>3, <1>4

\* A baseline's percentile is a number wherever there is something to compare.
LEMMA BaselineType ==
  ASSUME NEW b \in Baselines, C1Grid(b) # None
  PROVE  C1Grid(b) \in Int
  <1> DEFINE point(o) == [s \in Finite(b, o) |-> b[o][s]]
             grid == [o \in Compared(b) |-> P95(point(o))]
  <1>1. Compared(b) # {} /\ C1Grid(b) = P95(grid)
    BY DEF C1Grid, P95
  <1>2. IsFiniteSet(Compared(b))
    BY VerdictAssumption, FS_Subset DEF Compared
  <1>3. ASSUME NEW o \in Compared(b) PROVE P95(point(o)) \in Int
    <2>1. Finite(b, o) # {} /\ b[o] \in [Scenarios -> Numbers \cup {None}]
      BY DEF Compared, Baselines
    <2>2. IsFiniteSet(Finite(b, o))
      BY VerdictAssumption, FS_Subset DEF Finite
    <2>3. \A s \in Finite(b, o) : b[o][s] \in Int
      <3>1. \A s \in Finite(b, o) : b[o][s] \in Numbers
        BY <2>1 DEF Finite
      <3> QED BY <3>1, Numbered
    <2>4. IsTable(point(o)) /\ DOMAIN point(o) # {}
      BY <2>1, <2>2, <2>3 DEF IsTable
    <2> HIDE DEF point
    <2> QED BY <2>4, PercentileType
  <1> HIDE DEF point
  <1>4. IsTable(grid) /\ DOMAIN grid # {}
    BY <1>1, <1>2, <1>3 DEF IsTable
  <1> HIDE DEF grid
  <1> QED BY <1>1, <1>4, PercentileType

\* Where the seeds are even the verdict never clears a sub-metric whose estimate
\* fails.
LEMMA EvenClears ==
  ASSUME NEW g \in Grounds, NEW b \in Baselines, NEW m, Even(g, m), Clear(g, b, m)
  PROVE  Below(GridPoint(g, m), C1Grid(b), 67)
  <1> DEFINE O == Screened(g, m)
             p == [o \in O |-> PointP95(g, o, m)]
             u == [o \in O |-> Upper(g, o, m)]
             c1 == C1Grid(b)
  <1>1. GridUpper(g, m) # None /\ c1 # None /\ c1 > 0 /\ 100 * GridUpper(g, m) < 67 * Unit * c1
    BY DEF Clear, Below
  <1>2. c1 \in Int /\ Unit \in Int
    BY <1>1, BaselineType, UnitType
  <1>3. O # {} /\ IsFiniteSet(O)
    <2>1. O # {}
      BY <1>1 DEF GridUpper, P95
    <2>2. O \in SUBSET Ops
      BY DEF Screened
    <2> HIDE DEF O
    <2> QED BY <2>1, <2>2, VerdictAssumption, FS_Subset
  <1>4. \A o \in O : /\ PointP95(g, o, m) \in Int /\ Upper(g, o, m) \in Int
                     /\ PointP95(g, o, m) <= Upper(g, o, m)
    BY EvenSeedsConservative
  <1>5. GridPoint(g, m) = P95(p) /\ GridUpper(g, m) = P95(u)
    BY DEF GridPoint, GridUpper
  <1> HIDE DEF O, c1
  <1>6. /\ IsTable(p) /\ IsTable(u) /\ DOMAIN p # {} /\ DOMAIN u = DOMAIN p
        /\ \A o \in DOMAIN p : p[o] <= u[o]
    BY <1>3, <1>4 DEF IsTable
  <1> HIDE DEF p, u
  <1>7. P95(p) \in Int /\ P95(u) \in Int /\ P95(p) <= P95(u)
    BY <1>6, PercentileType, PercentileMonotone
  <1>8. GridPoint(g, m) # None
    BY <1>5, <1>7, VerdictAssumption
  <1>9. 100 * GridPoint(g, m) < 67 * Unit * c1
    BY <1>1, <1>2, <1>5, <1>7
  <1> QED BY <1>1, <1>8, <1>9 DEF Below, c1

\* A published verdict that rests on even seeds is conservative, as the analysis
\* script says of every one: it clears no sub-metric whose estimate fails.  The upper
\* bound is the greatest draw, the script's own for up to three seeds.
THEOREM OffNominalEvenVerdictConservative ==
  OffNominalSpec => []((verdict # None => \A m \in Submetrics : Even(verdict.grounds, m))
                       => ClearIsConservative)
  <1>1. ASSUME OffNominalTypeOK,
               verdict # None => \A m \in Submetrics : Even(verdict.grounds, m)
        PROVE  ClearIsConservative
    <2> SUFFICES ASSUME verdict # None, NEW m \in BucketB(verdict.grounds, verdict.base)
                 PROVE  Below(GridPoint(verdict.grounds, m), C1Grid(verdict.base[m]), 67)
      BY DEF ClearIsConservative
    <2> DEFINE g == verdict.grounds
               b == verdict.base[m]
    <2>1. m \in Submetrics /\ Clear(g, b, m)
      BY DEF BucketB
    <2>2. g \in Grounds /\ b \in Baselines
      BY <1>1, <2>1 DEF OffNominalTypeOK, Verdicts
    <2>3. Even(g, m)
      BY <1>1, <2>1
    <2> HIDE DEF g, b
    <2>4. Below(GridPoint(g, m), C1Grid(b), 67)
      BY <2>1, <2>2, <2>3, EvenClears
    <2> QED BY <2>4 DEF g, b
  <1> QED BY <1>1, OffNominalTypes, PTL
================================================================================
