--------------------------- MODULE DoePipelineProofs ---------------------------
(***************************************************************************)
(* The DoE pipeline, proved for all factor cells, seeds, numbers and       *)
(* selection rules: the grounds of a spec stay true, and a published       *)
(* number is a measured one and stays published.                           *)
(***************************************************************************)
EXTENDS DoePipeline, TLAPS

-------------------------------------------------------------------------------
(* The invariant.                                                          *)

\* The analysis under way has seen these seeds of this level.
Seen(l, S) == apc # "off" => S \subseteq found.used[l]

\* What the analysis under way found is true and covers whatever was concluded
\* before it, so that its spec can only add to an earlier one.
Grounded ==
  /\ apc # "off" => /\ found.used[found.optimum] # {}
                    /\ \A l \in Levels : \A s \in found.used[l] : HasNumber(l, s)
  /\ apc = "spec" => analysis = found
  /\ spec # None => Seen(spec.optimum, spec.seeds)
  /\ order # None => Seen(order.optimum, order.seeds)
  /\ result # None => Seen(result.optimum, DOMAIN result.screening)

\* For one optimum, later documents name more seeds: result, then the driver's
\* copy of the spec, then the spec.
Growing ==
  /\ order # None => spec # None
  /\ order # None /\ order.optimum = spec.optimum => order.seeds \subseteq spec.seeds
  /\ result # None => spec # None
  /\ result # None /\ result.optimum = spec.optimum => DOMAIN result.screening \subseteq spec.seeds
  /\ result # None /\ order # None /\ result.optimum = order.optimum
       => DOMAIN result.screening \subseteq order.seeds

\* Only a done cell has a number.
NumbersOnlyDone(m) == \A s \in ConfirmationSeeds : m.cells[s].iae # None => m.cells[s].status = "done"

\* What memory and disk say of the current seed, and what is still queued.
Progress ==
  /\ pc = "off" => order = None /\ mem = None
  /\ conf # None => NumbersOnlyDone(conf)
  /\ result # None => conf # None
  /\ pc # "off" => NumbersOnlyDone(mem)
  /\ pc # "off" => \A s \in queue : mem.cells[s].status = "open" /\ conf.cells[s].status = "open"
  /\ pc \in {"cell", "child"} => mem = conf
  /\ pc \in {"metrics", "save"} => \A s \in ConfirmationSeeds \ {cur} : mem.cells[s] = conf.cells[s]
  /\ pc \in {"child", "metrics", "save"} => conf.cells[cur].status = "open" /\ cur \notin queue
  /\ pc = "metrics" => mem.cells[cur].status = "done"

PipelineInv ==
  PipelineTypeOK /\ SpecStands /\ ResultIsMeasured /\ Grounded /\ Growing /\ Progress

-------------------------------------------------------------------------------
(* Lemmas.                                                                 *)

\* None is no document.
LEMMA NoneIsNone ==
  None \notin Numbers /\ None \notin ConfirmationSeeds /\ None \notin Analyses
  /\ None \notin Specs /\ None \notin Manifests /\ None \notin Results
  BY PipelineAssumption

\* A result over the cells that have a number is one of numbers.
LEMMA ConfirmationNumbersFacts ==
  ASSUME NEW m \in Manifests
  PROVE  /\ ConfirmationNumbers(m) \in NumbersOf(ConfirmationSeeds)
         /\ \A s \in ConfirmationSeeds :
              /\ s \in DOMAIN ConfirmationNumbers(m) <=> m.cells[s].iae # None
              /\ m.cells[s].iae # None => ConfirmationNumbers(m)[s] = m.cells[s].iae
  <1> DEFINE D == {s \in ConfirmationSeeds : m.cells[s].iae # None}
  <1>1. \A s \in D : m.cells[s].iae \in Numbers
    BY DEF Manifests, Cell
  <1>2. ConfirmationNumbers(m) \in [D -> Numbers] /\ D \in SUBSET ConfirmationSeeds
    BY <1>1 DEF ConfirmationNumbers
  <1>3. ConfirmationNumbers(m) \in NumbersOf(ConfirmationSeeds)
    BY <1>2 DEF NumbersOf
  <1> QED BY <1>3 DEF ConfirmationNumbers

\* What is read again from the sweep is what the spec was made from.
LEMMA ScreeningFacts ==
  ASSUME PipelineInv, order \in Specs
  PROVE  /\ load_screening_iae_per_seed \in NumbersOf(Seeds)
         /\ DOMAIN load_screening_iae_per_seed = order.seeds
         /\ \A s \in order.seeds : /\ HasNumber(order.optimum, s)
                                   /\ load_screening_iae_per_seed[s] = sweep[order.optimum][s].iae
  <1> DEFINE l == order.optimum
  <1>1. l \in Levels /\ order.seeds \subseteq Seeds
    BY DEF Specs
  <1>2. \A s \in order.seeds : HasNumber(l, s)
    <2>1. order # None
      BY NoneIsNone
    <2>2. order \in {spec, order} \ {None}
      BY <2>1
    <2> QED BY <2>2 DEF PipelineInv, SpecStands
  <1>3. {s \in order.seeds : sweep[l][s].iae # None} = order.seeds
    BY <1>2 DEF HasNumber
  <1>4. load_screening_iae_per_seed = [s \in order.seeds |-> sweep[l][s].iae]
    BY <1>3 DEF load_screening_iae_per_seed, ScreeningNumbers
  <1>5. \A s \in order.seeds : sweep[l][s].iae \in Numbers
    <2>1. \A s \in Seeds : sweep[l][s] \in Cell
      BY <1>1 DEF PipelineInv, PipelineTypeOK
    <2> QED BY <1>1, <1>2, <2>1 DEF Cell, HasNumber
  <1>6. load_screening_iae_per_seed \in [order.seeds -> Numbers]
    BY <1>4, <1>5
  <1>7. load_screening_iae_per_seed \in NumbersOf(Seeds)
    BY <1>1, <1>6 DEF NumbersOf
  <1> QED BY <1>2, <1>4, <1>7

-------------------------------------------------------------------------------
(* Initially.                                                              *)

LEMMA PipelineInitInv == PipelineInit => PipelineInv
  <1> SUFFICES ASSUME PipelineInit PROVE PipelineInv
    OBVIOUS
  <1> USE DEF PipelineInit
  <1>1. Open \in Cell
    BY DEF Open, Cell
  <1>2. PipelineTypeOK
    BY <1>1, PipelineAssumption DEF PipelineTypeOK
  <1>3. SpecStands /\ ResultIsMeasured
    BY DEF SpecStands, ResultIsMeasured
  <1>4. Grounded /\ Growing /\ Progress
    BY DEF Grounded, Growing, Progress
  <1> QED BY <1>2, <1>3, <1>4 DEF PipelineInv

-------------------------------------------------------------------------------
(* The sweep and the analysis.                                             *)

\* A number in the sweep's manifest stays.
LEMMA SweepKeeps ==
  ASSUME PipelineInv, SweepFinishes
  PROVE  /\ sweep' \in [Levels -> [Seeds -> Cell]]
         /\ \A l \in Levels, s \in Seeds :
              HasNumber(l, s) => HasNumber(l, s)' /\ sweep'[l][s] = sweep[l][s]
  <1>1. PICK l \in Levels, s \in Seeds, v \in Numbers \cup {None} :
          /\ sweep[l][s].status = "open"
          /\ sweep' = [sweep EXCEPT ![l][s] = [status |-> "done", iae |-> v]]
    BY DEF SweepFinishes
  <1>2. sweep \in [Levels -> [Seeds -> Cell]]
    BY DEF PipelineInv, PipelineTypeOK
  <1>3. [status |-> "done", iae |-> v] \in Cell
    BY DEF Cell
  <1>4. sweep' \in [Levels -> [Seeds -> Cell]]
    BY <1>1, <1>2, <1>3
  <1>5. ASSUME NEW m \in Levels, NEW t \in Seeds, HasNumber(m, t)
        PROVE  sweep'[m][t] = sweep[m][t]
    <2>1. m # l \/ t # s
      BY <1>1, <1>5 DEF HasNumber
    <2> QED BY <1>1, <1>2, <2>1
  <1> QED BY <1>4, <1>5 DEF HasNumber

LEMMA SweepInv == ASSUME PipelineInv, SweepFinishes PROVE PipelineInv'
  <1>1. UNCHANGED <<apc, found, analysis, spec, conf, pc, order, mem, queue, cur, measured,
                    result, analyses, stops>>
    BY DEF SweepFinishes, analysisVars, driverVars, counters
  <1>2. PipelineTypeOK'
    BY <1>1, SweepKeeps DEF PipelineInv, PipelineTypeOK
  <1>3. SpecStands'
    <2>1. \A sp \in {spec, order} \ {None} : sp.seeds # {} /\ \A s \in sp.seeds : HasNumber(sp.optimum, s)'
      <3>1. ASSUME NEW sp \in {spec, order} \ {None}
            PROVE  sp.seeds # {} /\ \A s \in sp.seeds : HasNumber(sp.optimum, s)'
        <4>1. sp \in Specs
          BY <3>1 DEF PipelineInv, PipelineTypeOK
        <4>2. sp.optimum \in Levels /\ sp.seeds \subseteq Seeds
          BY <4>1 DEF Specs
        <4>3. sp.seeds # {} /\ \A s \in sp.seeds : HasNumber(sp.optimum, s)
          BY <3>1 DEF PipelineInv, SpecStands
        <4> QED BY <4>2, <4>3, SweepKeeps
      <3> QED BY <3>1
    <2> QED BY <1>1, <2>1 DEF PipelineInv, SpecStands
  <1>4. ResultIsMeasured'
    <2>1. CASE result = None
      BY <1>1, <2>1 DEF ResultIsMeasured
    <2>2. CASE result # None
      <3>1. result \in Results
        BY <2>2 DEF PipelineInv, PipelineTypeOK
      <3>2. result.optimum \in Levels /\ DOMAIN result.screening \subseteq Seeds
        BY <3>1 DEF Results, NumbersOf
      <3> QED BY <1>1, <2>2, <3>2, SweepKeeps DEF PipelineInv, ResultIsMeasured
    <2> QED BY <2>1, <2>2
  <1>5. Grounded'
    <2>1. ASSUME apc # "off" PROVE \A l \in Levels : \A s \in found.used[l] : HasNumber(l, s)'
      <3>1. found \in Analyses
        BY <2>1 DEF PipelineInv, PipelineTypeOK
      <3>2. \A l \in Levels : found.used[l] \subseteq Seeds
        BY <3>1 DEF Analyses
      <3> QED BY <2>1, <3>2, SweepKeeps DEF PipelineInv, Grounded
    <2> QED BY <1>1, <2>1 DEF PipelineInv, Grounded, Seen
  <1>6. Growing' /\ Progress'
    BY <1>1 DEF PipelineInv, Growing, Progress, NumbersOnlyDone
  <1> QED BY <1>2, <1>3, <1>4, <1>5, <1>6 DEF PipelineInv

\* An optimum is chosen among the levels that have a finished seed.
LEMMA CandidatesFacts == \A l \in Candidates : l \in Levels /\ Used(l) # {}
  BY DEF Candidates, Aggregated

LEMMA AnalyseInv == ASSUME PipelineInv, Analyse PROVE PipelineInv'
  <1>1. UNCHANGED <<sweep, analysis, spec, conf, pc, order, mem, queue, cur, measured, result, stops>>
        /\ apc = "off" /\ apc' = "analysis" /\ analyses' = analyses + 1 /\ analyses < MaxAnalyses
    BY DEF Analyse, driverVars
  <1>2. PICK l \in Candidates : found' = [optimum |-> l, used |-> [k \in Levels |-> Used(k)]]
    BY DEF Analyse
  <1>3. l \in Levels /\ Used(l) # {}
    BY CandidatesFacts
  <1>4. \A k \in Levels : Used(k) \subseteq Seeds /\ found'.used[k] = Used(k)
    BY <1>2 DEF Used
  <1>5. found' \in Analyses
    BY <1>2, <1>3, <1>4 DEF Analyses
  <1>6. PipelineTypeOK'
    BY <1>1, <1>5, PipelineAssumption DEF PipelineInv, PipelineTypeOK
  <1>7. \A k \in Levels, S \in SUBSET Seeds : (\A s \in S : HasNumber(k, s)) => S \subseteq found'.used[k]
    BY <1>4 DEF Used, HasNumber
  <1>8. Grounded'
    <2>1. found'.used[found'.optimum] # {} /\ \A k \in Levels : \A s \in found'.used[k] : HasNumber(k, s)'
      <3>1. found'.optimum = l
        BY <1>2
      <3>2. \A k \in Levels : \A s \in found'.used[k] : HasNumber(k, s)
        BY <1>4 DEF Used, HasNumber
      <3> QED BY <1>1, <1>3, <1>4, <3>1, <3>2 DEF HasNumber
    <2>2. spec # None => spec.seeds \subseteq found'.used[spec.optimum]
      <3>1. SUFFICES ASSUME spec # None PROVE spec.seeds \subseteq found'.used[spec.optimum]
        OBVIOUS
      <3>2. spec \in Specs /\ spec \in {spec, order} \ {None}
        BY <3>1 DEF PipelineInv, PipelineTypeOK
      <3>3. \A s \in spec.seeds : HasNumber(spec.optimum, s)
        BY <3>2 DEF PipelineInv, SpecStands
      <3> QED BY <1>7, <3>2, <3>3 DEF Specs
    <2>3. order # None => order.seeds \subseteq found'.used[order.optimum]
      <3>1. SUFFICES ASSUME order # None PROVE order.seeds \subseteq found'.used[order.optimum]
        OBVIOUS
      <3>2. order \in Specs /\ order \in {spec, order} \ {None}
        BY <3>1 DEF PipelineInv, PipelineTypeOK
      <3>3. \A s \in order.seeds : HasNumber(order.optimum, s)
        BY <3>2 DEF PipelineInv, SpecStands
      <3> QED BY <1>7, <3>2, <3>3 DEF Specs
    <2>4. result # None => DOMAIN result.screening \subseteq found'.used[result.optimum]
      <3>1. SUFFICES ASSUME result # None
                     PROVE  DOMAIN result.screening \subseteq found'.used[result.optimum]
        OBVIOUS
      <3>2. result \in Results
        BY <3>1 DEF PipelineInv, PipelineTypeOK
      <3>3. result.optimum \in Levels /\ DOMAIN result.screening \in SUBSET Seeds
        BY <3>2 DEF Results, NumbersOf
      <3>4. \A s \in DOMAIN result.screening : HasNumber(result.optimum, s)
        BY <3>1 DEF PipelineInv, ResultIsMeasured
      <3> QED BY <1>7, <3>3, <3>4
    <2> QED BY <1>1, <2>1, <2>2, <2>3, <2>4 DEF Grounded, Seen
  <1>9. (SpecStands /\ ResultIsMeasured)'
    BY <1>1 DEF PipelineInv, SpecStands, ResultIsMeasured, HasNumber
  <1>10. Growing' /\ Progress'
    BY <1>1 DEF PipelineInv, Growing, Progress, NumbersOnlyDone
  <1> QED BY <1>6, <1>8, <1>9, <1>10 DEF PipelineInv

LEMMA WriteAnalysisInv == ASSUME PipelineInv, WriteAnalysis PROVE PipelineInv'
  <1>1. /\ UNCHANGED <<sweep, found, spec, conf, pc, order, mem, queue, cur, measured, result,
                       analyses, stops>>
        /\ apc = "analysis" /\ apc' = "spec" /\ analysis' = found
    BY DEF WriteAnalysis, driverVars, counters
  <1>2. found \in Analyses /\ found # None
    BY <1>1, NoneIsNone DEF PipelineInv, PipelineTypeOK
  <1>3. PipelineTypeOK'
    BY <1>1, <1>2 DEF PipelineInv, PipelineTypeOK
  <1>4. SpecStands'
    BY <1>1, <1>2 DEF PipelineInv, SpecStands, Grounded, Seen, HasNumber
  <1>5. Grounded'
    BY <1>1 DEF PipelineInv, Grounded, Seen, HasNumber
  <1>6. ResultIsMeasured' /\ Growing' /\ Progress'
    BY <1>1 DEF PipelineInv, ResultIsMeasured, HasNumber, Growing, Progress, NumbersOnlyDone
  <1> QED BY <1>3, <1>4, <1>5, <1>6 DEF PipelineInv

LEMMA WriteSpecInv == ASSUME PipelineInv, WriteSpec PROVE PipelineInv'
  <1>1. /\ UNCHANGED <<sweep, analysis, conf, pc, order, mem, queue, cur, measured, result,
                       analyses, stops>>
        /\ apc = "spec" /\ apc' = "off" /\ found' = None
        /\ spec' = [optimum |-> found.optimum, seeds |-> found.used[found.optimum]]
    BY DEF WriteSpec, SeedsUsed, driverVars, counters
  <1>2. found \in Analyses
    BY <1>1 DEF PipelineInv, PipelineTypeOK
  <1>3. PICK l \in Levels, S \in SUBSET Seeds : l = found.optimum /\ S = found.used[l]
    BY <1>2 DEF Analyses
  <1>4. spec' = [optimum |-> l, seeds |-> S] /\ spec' \in Specs /\ spec' # None
    BY <1>1, <1>3, NoneIsNone DEF Specs
  <1>5. PipelineTypeOK'
    BY <1>1, <1>4 DEF PipelineInv, PipelineTypeOK
  <1>6. analysis = found /\ S # {} /\ \A s \in S : HasNumber(l, s)
    BY <1>1, <1>3 DEF PipelineInv, Grounded
  <1>7. SpecStands'
    <2>1. order # None => order.seeds # {} /\ \A s \in order.seeds : HasNumber(order.optimum, s)'
      <3>1. order # None => order.seeds # {} /\ \A s \in order.seeds : HasNumber(order.optimum, s)
        BY DEF PipelineInv, SpecStands
      <3> QED BY <1>1, <3>1 DEF HasNumber
    <2>2. spec'.seeds # {} /\ \A s \in spec'.seeds : HasNumber(spec.optimum, s)'
      BY <1>1, <1>4, <1>6 DEF HasNumber
    <2>3. analysis # None /\ spec'.seeds \subseteq analysis.used[spec'.optimum]
      BY <1>2, <1>3, <1>4, <1>6, NoneIsNone
    <2> QED BY <1>1, <2>1, <2>2, <2>3 DEF SpecStands
  <1>8. Growing'
    <2>1. order # None /\ order.optimum = l => order.seeds \subseteq S
      BY <1>1, <1>3 DEF PipelineInv, Grounded, Seen
    <2>2. result # None /\ result.optimum = l => DOMAIN result.screening \subseteq S
      BY <1>1, <1>3 DEF PipelineInv, Grounded, Seen
    <2> QED BY <1>1, <1>4, <2>1, <2>2 DEF PipelineInv, Growing
  <1>9. ResultIsMeasured' /\ Grounded' /\ Progress'
    BY <1>1 DEF PipelineInv, ResultIsMeasured, HasNumber, Grounded, Seen, Progress, NumbersOnlyDone
  <1> QED BY <1>5, <1>7, <1>8, <1>9 DEF PipelineInv

LEMMA AnalysisDiesInv == ASSUME PipelineInv, AnalysisDies PROVE PipelineInv'
  <1>1. /\ UNCHANGED <<sweep, analysis, spec, conf, pc, order, mem, queue, cur, measured, result, analyses>>
        /\ apc' = "off" /\ found' = None /\ stops' = stops + 1 /\ stops < MaxStops
    BY DEF AnalysisDies, driverVars
  <1>2. PipelineTypeOK'
    BY <1>1, PipelineAssumption DEF PipelineInv, PipelineTypeOK
  <1>3. Grounded'
    BY <1>1 DEF Grounded, Seen
  <1>4. SpecStands' /\ ResultIsMeasured' /\ Growing' /\ Progress'
    <2>1. SpecStands'
      BY <1>1 DEF PipelineInv, SpecStands, HasNumber
    <2>2. ResultIsMeasured'
      BY <1>1 DEF PipelineInv, ResultIsMeasured, HasNumber
    <2>3. Growing' /\ Progress'
      BY <1>1 DEF PipelineInv, Growing, Progress, NumbersOnlyDone
    <2> QED BY <2>1, <2>2, <2>3
  <1> QED BY <1>2, <1>3, <1>4 DEF PipelineInv

-------------------------------------------------------------------------------
(* The confirmation driver.                                                *)

\* What the invariant says of the spec and the analysis survives a driver that
\* takes the spec, keeps its copy or drops it.
LEMMA DriverFrame ==
  ASSUME PipelineInv, UNCHANGED <<sweep, apc, found, analysis, spec, result>>,
         order' \in {order, spec, None}
  PROVE  SpecStands' /\ Grounded' /\ Growing'
  <1>1. Grounded'
    BY DEF PipelineInv, Grounded, Seen, HasNumber
  <1>2. Growing'
    BY DEF PipelineInv, Growing
  <1>3. SpecStands'
    BY DEF PipelineInv, SpecStands, HasNumber
  <1> QED BY <1>1, <1>2, <1>3

\* A published number survives a save that keeps every done cell.
LEMMA ResultFrame ==
  ASSUME PipelineInv, UNCHANGED <<sweep, result>>,
         conf # None => \A s \in ConfirmationSeeds :
                          conf.cells[s].status = "done" => conf'.cells[s] = conf.cells[s]
  PROVE  ResultIsMeasured'
  <1>1. CASE result = None
    BY <1>1 DEF ResultIsMeasured
  <1>2. CASE result # None
    <2>1. result \in Results /\ conf # None
      BY <1>2 DEF PipelineInv, PipelineTypeOK, Progress
    <2>2. DOMAIN result.confirmation \subseteq ConfirmationSeeds
      BY <2>1 DEF Results, NumbersOf
    <2>3. \A s \in DOMAIN result.confirmation :
            conf'.cells[s] = [status |-> "done", iae |-> result.confirmation[s]]
      BY <1>2, <2>1, <2>2 DEF PipelineInv, ResultIsMeasured
    <2>4. \A s \in DOMAIN result.screening :
            HasNumber(result.optimum, s) /\ sweep[result.optimum][s].iae = result.screening[s]
      BY <1>2 DEF PipelineInv, ResultIsMeasured
    <2> QED BY <2>3, <2>4 DEF ResultIsMeasured, HasNumber
  <1> QED BY <1>1, <1>2

\* The manifest in memory keeps every done cell of the one on disk.
LEMMA MemoryKeeps ==
  ASSUME PipelineInv, pc # "off"
  PROVE  \A s \in ConfirmationSeeds : conf.cells[s].status = "done" => mem.cells[s] = conf.cells[s]
  <1>1. CASE pc \in {"cell", "child"}
    BY <1>1 DEF PipelineInv, Progress
  <1>2. CASE pc \in {"metrics", "save"}
    BY <1>2 DEF PipelineInv, Progress
  <1> QED BY <1>1, <1>2 DEF PipelineInv, PipelineTypeOK

LEMMA ConfirmInv == ASSUME PipelineInv, Confirm PROVE PipelineInv'
  <1>1. /\ UNCHANGED <<sweep, apc, found, analysis, spec, cur, measured, result, analyses, stops>>
        /\ pc = "off" /\ spec # None /\ order' = spec /\ pc' = "cell"
        /\ mem' = IF conf # None THEN conf ELSE build_manifest
        /\ conf' = mem'
        /\ queue' = {s \in ConfirmationSeeds : mem'.cells[s].status # "done"}
    BY DEF Confirm, Pending, analysisVars, counters
  <1>2. spec \in Specs
    BY <1>1 DEF PipelineInv, PipelineTypeOK
  <1>3. build_manifest \in Manifests /\ NumbersOnlyDone(build_manifest)
    BY <1>2 DEF build_manifest, Manifests, Specs, Open, Cell, NumbersOnlyDone
  <1>4. mem' \in Manifests /\ NumbersOnlyDone(mem')
    BY <1>1, <1>3 DEF PipelineInv, PipelineTypeOK, Progress
  <1>5. mem' # None
    BY <1>4, NoneIsNone
  <1>6. PipelineTypeOK'
    BY <1>1, <1>2, <1>4 DEF PipelineInv, PipelineTypeOK
  <1>7. SpecStands' /\ Grounded' /\ Growing'
    BY <1>1, DriverFrame
  <1>8. ResultIsMeasured'
    BY <1>1, ResultFrame
  <1>9. \A s \in queue' : mem'.cells[s].status = "open"
    <2>1. \A s \in ConfirmationSeeds : mem'.cells[s] \in Cell
      BY <1>4 DEF Manifests
    <2> QED BY <1>1, <2>1 DEF Cell
  <1>10. Progress'
    BY <1>1, <1>4, <1>5, <1>9 DEF Progress, NumbersOnlyDone
  <1> QED BY <1>6, <1>7, <1>8, <1>10 DEF PipelineInv

LEMMA RunCellInv == ASSUME PipelineInv, RunCell PROVE PipelineInv'
  <1>1. /\ UNCHANGED <<sweep, apc, found, analysis, spec, order, mem, measured, result, analyses, stops>>
        /\ pc = "cell" /\ pc' = "child" /\ conf' = mem
        /\ cur' \in queue /\ queue' = queue \ {cur'}
    BY DEF RunCell, analysisVars, counters
  <1>2. mem = conf
    BY <1>1 DEF PipelineInv, Progress
  <1>3. PipelineTypeOK'
    BY <1>1, <1>2 DEF PipelineInv, PipelineTypeOK
  <1>4. SpecStands' /\ Grounded' /\ Growing'
    BY <1>1, DriverFrame
  <1>5. ResultIsMeasured'
    BY <1>1, <1>2, ResultFrame
  <1>6. Progress'
    BY <1>1, <1>2 DEF PipelineInv, Progress, NumbersOnlyDone
  <1> QED BY <1>3, <1>4, <1>5, <1>6 DEF PipelineInv

\* Changing one field of the current cell.
LEMMA CellChanged ==
  ASSUME PipelineInv, pc \in {"child", "metrics"}, UNCHANGED <<sweep, apc, found, analysis, spec,
           conf, order, queue, cur, result, analyses, stops>>,
         NEW c \in Cell, c.status = "done", mem' = [mem EXCEPT !.cells[cur] = c],
         pc' \in {"metrics", "save"}, measured' \in Numbers
  PROVE  PipelineInv'
  <1>1. cur \in ConfirmationSeeds /\ mem \in Manifests /\ order \in Specs /\ conf \in Manifests
    BY DEF PipelineInv, PipelineTypeOK
  <1>2. mem' \in Manifests /\ mem'.cells[cur] = c
        /\ \A s \in ConfirmationSeeds \ {cur} : mem'.cells[s] = mem.cells[s]
    BY <1>1 DEF Manifests
  <1>3. PipelineTypeOK'
    BY <1>1, <1>2 DEF PipelineInv, PipelineTypeOK
  <1>4. SpecStands' /\ Grounded' /\ Growing'
    BY DriverFrame
  <1>5. ResultIsMeasured'
    BY ResultFrame
  <1>6. Progress'
    <2>1. \A s \in ConfirmationSeeds \ {cur} : mem.cells[s] = conf.cells[s]
      BY DEF PipelineInv, Progress
    <2>2. NumbersOnlyDone(mem)'
      BY <1>2 DEF PipelineInv, Progress, NumbersOnlyDone
    <2>3. conf.cells[cur].status = "open" /\ cur \notin queue
          /\ \A s \in queue : mem.cells[s].status = "open" /\ conf.cells[s].status = "open"
      BY DEF PipelineInv, Progress
    <2>4. \A s \in queue : mem'.cells[s].status = "open"
      BY <1>2, <2>3 DEF PipelineInv, PipelineTypeOK
    <2>5. conf # None => NumbersOnlyDone(conf)
      BY DEF PipelineInv, Progress
    <2>6. result # None => conf # None
      BY DEF PipelineInv, Progress
    <2> QED BY <1>2, <2>1, <2>2, <2>3, <2>4, <2>5, <2>6 DEF Progress, NumbersOnlyDone
  <1> QED BY <1>3, <1>4, <1>5, <1>6 DEF PipelineInv

LEMMA CellSucceedsInv == ASSUME PipelineInv, CellSucceeds PROVE PipelineInv'
  <1>1. /\ UNCHANGED <<sweep, apc, found, analysis, spec, conf, order, queue, cur, result, analyses, stops>>
        /\ pc = "child" /\ pc' = "metrics" /\ measured' \in Numbers
        /\ mem' = [mem EXCEPT !.cells[cur].status = "done"]
    BY DEF CellSucceeds, analysisVars, counters
  <1>2. cur \in ConfirmationSeeds /\ mem \in Manifests
    BY <1>1 DEF PipelineInv, PipelineTypeOK
  <1>3. mem.cells[cur] \in Cell
    BY <1>2 DEF Manifests
  <1>4. PICK c \in Cell : c = [mem.cells[cur] EXCEPT !.status = "done"]
    BY <1>3 DEF Cell
  <1>5. c.status = "done" /\ mem' = [mem EXCEPT !.cells[cur] = c]
    BY <1>1, <1>3, <1>4 DEF Cell
  <1> QED BY <1>1, <1>5, CellChanged

LEMMA ReadMetricsInv == ASSUME PipelineInv, ReadMetrics PROVE PipelineInv'
  <1>1. /\ UNCHANGED <<sweep, apc, found, analysis, spec, conf, order, queue, cur, measured, result,
                       analyses, stops>>
        /\ pc = "metrics" /\ pc' = "save"
        /\ mem' = [mem EXCEPT !.cells[cur].iae = measured]
    BY DEF ReadMetrics, analysisVars, counters
  <1>2. cur \in ConfirmationSeeds /\ mem \in Manifests /\ measured \in Numbers
    BY <1>1 DEF PipelineInv, PipelineTypeOK
  <1>3. mem.cells[cur] \in Cell /\ mem.cells[cur].status = "done"
    BY <1>1, <1>2 DEF Manifests, PipelineInv, Progress
  <1>4. PICK c \in Cell : c = [mem.cells[cur] EXCEPT !.iae = measured]
    BY <1>2, <1>3 DEF Cell
  <1>5. c.status = "done" /\ mem' = [mem EXCEPT !.cells[cur] = c]
    BY <1>1, <1>3, <1>4 DEF Cell
  <1> QED BY <1>1, <1>2, <1>5, CellChanged

LEMMA CellFailsInv == ASSUME PipelineInv, CellFails PROVE PipelineInv'
  <1>1. /\ UNCHANGED <<sweep, apc, found, analysis, spec, conf, order, mem, queue, cur, measured, result,
                       analyses, stops>>
        /\ pc = "child" /\ pc' = "save"
    BY DEF CellFails, analysisVars, counters
  <1>2. PipelineTypeOK'
    BY <1>1 DEF PipelineInv, PipelineTypeOK
  <1>3. SpecStands' /\ Grounded' /\ Growing'
    BY <1>1, DriverFrame
  <1>4. ResultIsMeasured'
    BY <1>1, ResultFrame
  <1>5. Progress'
    BY <1>1 DEF PipelineInv, Progress, NumbersOnlyDone
  <1> QED BY <1>2, <1>3, <1>4, <1>5 DEF PipelineInv

LEMMA SaveCellInv == ASSUME PipelineInv, SaveCell PROVE PipelineInv'
  <1>1. /\ UNCHANGED <<sweep, apc, found, analysis, spec, order, mem, queue, result, analyses, stops>>
        /\ pc = "save" /\ pc' = "cell" /\ conf' = mem /\ cur' = None /\ measured' = None
    BY DEF SaveCell, Save, analysisVars, counters
  <1>2. mem \in Manifests /\ mem # None
    BY <1>1, NoneIsNone DEF PipelineInv, PipelineTypeOK
  <1>3. PipelineTypeOK'
    BY <1>1, <1>2 DEF PipelineInv, PipelineTypeOK
  <1>4. SpecStands' /\ Grounded' /\ Growing'
    BY <1>1, DriverFrame
  <1>5. ResultIsMeasured'
    BY <1>1, MemoryKeeps, ResultFrame
  <1>6. Progress'
    BY <1>1, <1>2 DEF PipelineInv, Progress, NumbersOnlyDone
  <1> QED BY <1>3, <1>4, <1>5, <1>6 DEF PipelineInv

\* An invocation that ends without a result.
LEMMA StopInv ==
  ASSUME PipelineInv, pc # "off", Stop, conf' \in {conf, mem}, analyses' = analyses,
         stops' \in 0 .. MaxStops, UNCHANGED <<sweep, apc, found, analysis, spec, result>>
  PROVE  PipelineInv'
  <1>1. pc' = "off" /\ order' = None /\ mem' = None /\ queue' = {} /\ cur' = None /\ measured' = None
    BY DEF Stop
  <1>2. mem \in Manifests /\ conf \in Manifests /\ mem # None /\ conf # None
    BY NoneIsNone DEF PipelineInv, PipelineTypeOK
  <1>3. PipelineTypeOK'
    BY <1>1, <1>2 DEF PipelineInv, PipelineTypeOK
  <1>4. SpecStands' /\ Grounded' /\ Growing'
    BY <1>1, DriverFrame
  <1>5. ResultIsMeasured'
    BY MemoryKeeps, ResultFrame
  <1>6. Progress'
    BY <1>1, <1>2 DEF PipelineInv, Progress, NumbersOnlyDone
  <1> QED BY <1>3, <1>4, <1>5, <1>6 DEF PipelineInv

\* The invariant about what is published holds of a new result.
LEMMA WriteResultInv ==
  ASSUME PipelineInv, WriteResult
  PROVE  /\ PipelineInv'
         /\ result # None /\ result'.optimum = result.optimum
              => /\ Extends(result'.screening, result.screening)
                 /\ Extends(result'.confirmation, result.confirmation)
  <1>1. /\ UNCHANGED <<sweep, apc, found, analysis, spec, conf, analyses, stops>>
        /\ pc = "cell"
        /\ pc' = "off" /\ order' = None /\ mem' = None /\ queue' = {} /\ cur' = None /\ measured' = None
        /\ result' = [optimum |-> order.optimum, ran |-> mem.optimum,
                      screening |-> load_screening_iae_per_seed,
                      confirmation |-> ConfirmationNumbers(mem)]
    BY DEF WriteResult, Stop, analysisVars, counters
  <1>2. order \in Specs /\ order # None /\ mem \in Manifests /\ conf \in Manifests /\ conf # None /\ mem = conf
    BY <1>1, NoneIsNone DEF PipelineInv, PipelineTypeOK, Progress
  <1> DEFINE scr == load_screening_iae_per_seed
             con == ConfirmationNumbers(mem)
  <1>3. PICK l \in Levels, S \in SUBSET Seeds : l = order.optimum /\ S = order.seeds
    BY <1>2 DEF Specs
  <1>4. /\ scr \in NumbersOf(Seeds) /\ DOMAIN scr = S
        /\ \A s \in S : HasNumber(l, s) /\ scr[s] = sweep[l][s].iae
    BY <1>2, <1>3, ScreeningFacts
  <1>5. /\ con \in NumbersOf(ConfirmationSeeds)
        /\ \A s \in ConfirmationSeeds : /\ s \in DOMAIN con <=> mem.cells[s].iae # None
                                        /\ mem.cells[s].iae # None => con[s] = mem.cells[s].iae
    BY <1>2, ConfirmationNumbersFacts
  <1>6. DOMAIN con \subseteq ConfirmationSeeds
    BY <1>5 DEF NumbersOf
  <1> HIDE DEF scr, con
  <1>7. /\ result'.optimum = l /\ result'.screening = scr /\ result'.confirmation = con
        /\ result' \in Results /\ result' # None
    <2>1. result' = [optimum |-> l, ran |-> mem.optimum, screening |-> scr, confirmation |-> con]
      BY <1>1, <1>3 DEF scr, con
    <2>2. mem.optimum \in Levels
      BY <1>2 DEF Manifests
    <2>3. result' \in Results
      BY <1>4, <1>5, <2>1, <2>2 DEF Results
    <2> QED BY <2>1, <2>3, NoneIsNone
  <1>8. PipelineTypeOK'
    BY <1>1, <1>7 DEF PipelineInv, PipelineTypeOK
  <1>9. SpecStands'
    BY <1>1 DEF PipelineInv, SpecStands, HasNumber
  <1>10. ResultIsMeasured'
    <2>1. \A s \in DOMAIN scr : HasNumber(result.optimum, s)' /\ sweep'[result'.optimum][s].iae = scr[s]
      BY <1>1, <1>4, <1>7 DEF HasNumber
    <2>2. \A s \in DOMAIN con : conf'.cells[s] = [status |-> "done", iae |-> con[s]]
      <3>1. \A s \in DOMAIN con : /\ conf.cells[s].iae = con[s] /\ conf.cells[s].status = "done"
                                  /\ conf.cells[s] \in Cell
        BY <1>2, <1>5, <1>6 DEF Manifests, PipelineInv, Progress, NumbersOnlyDone
      <3> QED BY <1>1, <3>1 DEF Cell
    <2> QED BY <1>7, <2>1, <2>2 DEF ResultIsMeasured
  <1>11. Grounded'
    <2>1. apc # "off" => S \subseteq found.used[l]
      BY <1>2, <1>3 DEF PipelineInv, Grounded, Seen
    <2>2. Seen(result.optimum, DOMAIN result.screening)'
      BY <1>1, <1>4, <1>7, <2>1 DEF Seen
    <2> QED BY <1>1, <2>2 DEF PipelineInv, Grounded, Seen, HasNumber
  <1>12. Growing'
    BY <1>1, <1>2, <1>3, <1>4, <1>7 DEF PipelineInv, Growing
  <1>13. Progress'
    BY <1>1, <1>2 DEF PipelineInv, Progress, NumbersOnlyDone
  <1>14. ASSUME result # None, result'.optimum = result.optimum
         PROVE  Extends(scr, result.screening) /\ Extends(con, result.confirmation)
    <2>1. result \in Results
      BY <1>14 DEF PipelineInv, PipelineTypeOK
    <2>2. DOMAIN result.screening \subseteq S
      BY <1>2, <1>3, <1>7, <1>14 DEF PipelineInv, Growing
    <2>3. Extends(scr, result.screening)
      BY <1>4, <1>7, <1>14, <2>2 DEF PipelineInv, ResultIsMeasured, Extends
    <2>4. DOMAIN result.confirmation \subseteq ConfirmationSeeds
      BY <2>1 DEF Results, NumbersOf
    <2>5. \A s \in DOMAIN result.confirmation :
            result.confirmation[s] \in Numbers /\ conf.cells[s].iae = result.confirmation[s]
      <3>1. PICK T \in SUBSET ConfirmationSeeds : result.confirmation \in [T -> Numbers]
        BY <2>1 DEF Results, NumbersOf
      <3>2. \A s \in DOMAIN result.confirmation :
              conf.cells[s] = [status |-> "done", iae |-> result.confirmation[s]]
        BY <1>14 DEF PipelineInv, ResultIsMeasured
      <3>3. \A s \in DOMAIN result.confirmation : conf.cells[s].iae = result.confirmation[s]
        <4>1. \A c, v : c = [status |-> "done", iae |-> v] => c.iae = v
          OBVIOUS
        <4> QED BY <3>2, <4>1, Zenon
      <3>4. \A s \in DOMAIN result.confirmation : result.confirmation[s] \in Numbers
        BY <3>1
      <3> QED BY <3>3, <3>4
    <2>6. Extends(con, result.confirmation)
      BY <1>2, <1>5, <2>4, <2>5, NoneIsNone DEF Extends
    <2> QED BY <2>3, <2>6
  <1> QED BY <1>7, <1>8, <1>9, <1>10, <1>11, <1>12, <1>13, <1>14 DEF PipelineInv

-------------------------------------------------------------------------------
(* The theorems.                                                           *)

LEMMA PipelineNextInv == PipelineInv /\ [PipelineNext]_pipelineVars => PipelineInv'
  <1> SUFFICES ASSUME PipelineInv, [PipelineNext]_pipelineVars PROVE PipelineInv'
    OBVIOUS
  <1>1. CASE UNCHANGED pipelineVars
    <2>1. UNCHANGED <<sweep, apc, found, analysis, spec, conf, pc, order, mem, queue, cur, measured,
                      result, analyses, stops>>
      BY <1>1 DEF pipelineVars, analysisVars, driverVars, counters
    <2>2. PipelineTypeOK'
      BY <2>1 DEF PipelineInv, PipelineTypeOK
    <2>3. SpecStands' /\ Grounded' /\ Growing'
      BY <2>1, DriverFrame
    <2>4. ResultIsMeasured'
      BY <2>1, ResultFrame
    <2>5. Progress'
      BY <2>1 DEF PipelineInv, Progress, NumbersOnlyDone
    <2> QED BY <2>2, <2>3, <2>4, <2>5 DEF PipelineInv
  <1>2. CASE SweepFinishes
    BY <1>2, SweepInv
  <1>3. CASE Analyse \/ WriteAnalysis \/ WriteSpec \/ AnalysisDies
    BY <1>3, AnalyseInv, WriteAnalysisInv, WriteSpecInv, AnalysisDiesInv
  <1>4. CASE Confirm
    BY <1>4, ConfirmInv
  <1>5. CASE Driver
    BY <1>5, RunCellInv, CellSucceedsInv, CellFailsInv, ReadMetricsInv, SaveCellInv, WriteResultInv
       DEF Driver
  <1>6. CASE Interrupt
    <2>1. stops' \in 0 .. MaxStops
      BY <1>6, PipelineAssumption DEF Interrupt, PipelineInv, PipelineTypeOK
    <2> QED BY <1>6, <2>1, StopInv DEF Interrupt, analysisVars
  <1>7. CASE Crash
    <2>1. stops' \in 0 .. MaxStops
      BY <1>7, PipelineAssumption DEF Crash, PipelineInv, PipelineTypeOK
    <2> QED BY <1>7, <2>1, StopInv DEF Crash, analysisVars
  <1> QED BY <1>1, <1>2, <1>3, <1>4, <1>5, <1>6, <1>7 DEF PipelineNext

\* The inductive invariant of the pipeline.
THEOREM PipelineInvariant == PipelineSpec => []PipelineInv
  BY PipelineInitInv, PipelineNextInv, PTL DEF PipelineSpec

\* Type correctness of the shared files and of each process's copies.
THEOREM PipelineTypes == PipelineSpec => []PipelineTypeOK
  <1>1. PipelineInv => PipelineTypeOK
    BY DEF PipelineInv
  <1> QED BY <1>1, PipelineInvariant, PTL

\* What a spec names stays finished, and analysis.json shows it.
THEOREM PipelineSpecStands == PipelineSpec => []SpecStands
  <1>1. PipelineInv => SpecStands
    BY DEF PipelineInv
  <1> QED BY <1>1, PipelineInvariant, PTL

\* Every published number is that of a finished run.
THEOREM PipelineResultIsMeasured == PipelineSpec => []ResultIsMeasured
  <1>1. PipelineInv => ResultIsMeasured
    BY DEF PipelineInv
  <1> QED BY <1>1, PipelineInvariant, PTL

\* A published number stays published while the optimum stays.
THEOREM PipelineNumbersStand == PipelineSpec => PublishedNumbersStand
  <1> DEFINE Stands == result # None /\ result'.optimum = result.optimum
                         => /\ Extends(result'.screening, result.screening)
                            /\ Extends(result'.confirmation, result.confirmation)
  <1>1. PipelineInv /\ [PipelineNext]_pipelineVars => [Stands]_pipelineVars
    <2>1. SUFFICES ASSUME PipelineInv, PipelineNext PROVE Stands
      OBVIOUS
    <2>2. CASE WriteResult
      BY <2>1, <2>2, WriteResultInv
    <2>3. CASE result' = result
      BY <2>3 DEF Extends
    <2>4. WriteResult \/ result' = result
      BY <2>1 DEF PipelineNext, Driver, SweepFinishes, Analyse, WriteAnalysis, WriteSpec, AnalysisDies,
                  Confirm, RunCell, CellSucceeds, CellFails, ReadMetrics, SaveCell, Interrupt, Crash
    <2> QED BY <2>2, <2>3, <2>4
  <1> QED BY <1>1, PipelineInvariant, PTL DEF PipelineSpec, PublishedNumbersStand
================================================================================
