------------------------------ MODULE SweepDriver ------------------------------
(***************************************************************************)
(* tools/run_doe_sweep.py: the screening sweep.  One driver process works  *)
(* through the pending cells, runs run_c2_smoke.py for each, and rewrites  *)
(* sweep_manifest.json after every transition, so that Ctrl-C, a crash or  *)
(* a timeout can be followed by the same command again.                    *)
(*                                                                         *)
(* A smoke run is what C2Smoke!ExitTellsFile says of it: an exit code and  *)
(* what it left in smoke.json.  A save of the manifest is one step (that   *)
(* is AtomicWrite's subject).  The headline numbers of a run are one       *)
(* value.  --dry-run is left out.                                          *)
(***************************************************************************)
EXTENDS Naturals, FiniteSets

CONSTANTS
  NCells,      \* cells of the factorial
  Values,      \* headline numbers a finished run may report
  MaxCells,    \* values given to --max-cells; NCells stands for no limit
  MaxSignals,  \* Ctrl-C presses, bounded
  MaxCrashes,  \* kills of the driver, bounded
  None

Cells == 1 .. NCells
Statuses == {"pending", "running", "done", "failed", "interrupted"}
Manifests == [Cells -> [status : Statuses, metrics : Values \cup {None}]]

ASSUME SweepAssumption ==
  /\ NCells \in Nat \ {0}
  /\ None \notin Values \cup Cells \cup Manifests
  /\ MaxCells \subseteq 1 .. NCells
  /\ NCells \in MaxCells
  /\ MaxSignals \in Nat /\ MaxCrashes \in Nat

VARIABLES
  disk,     \* sweep_manifest.json, None before the first save
  mem,      \* the driver's manifest object
  pc,       \* where the driver stands, "off" when no driver runs
  queue,    \* cells of this invocation not started yet
  cur,      \* current_cell
  retry,    \* --retry-failed of this invocation
  code,     \* returncode of the smoke run
  exit,     \* exit code of the last invocation
  smoke,    \* per cell, what its smoke.json holds
  signals,
  crashes

vars == <<disk, mem, pc, queue, cur, retry, code, exit, smoke, signals, crashes>>

Smoke(kind, v) == [kind |-> kind, value |-> v]

\* A run cut short leaves the file as it was, torn, or written after all.
CutShort(old) ==
  {old, Smoke("torn", None)} \cup {Smoke(k, v) : k \in {"full", "partial"}, v \in Values}

\* Exit code and smoke.json of a run.
Outcomes(old) ==
  {<<"0", Smoke("full", v)>> : v \in Values} \cup
  {<<"2", Smoke("partial", v)>> : v \in Values} \cup
  {<<"other", f>> : f \in CutShort(old)}

-------------------------------------------------------------------------------
(* An invocation.                                                          *)

enumerate_cells == [c \in Cells |-> [status |-> "pending", metrics |-> None]]

Init ==
  /\ disk = None
  /\ mem = None
  /\ pc = "off"
  /\ queue = {}
  /\ cur = None
  /\ retry = FALSE
  /\ code = "none"
  /\ exit = "none"
  /\ smoke = [c \in Cells |-> Smoke("absent", None)]
  /\ signals = 0
  /\ crashes = 0

LoadOrCreate == IF disk = None THEN enumerate_cells ELSE disk

SelectPending_OnlyPending(m, r, k) == {c \in Cells : m[c].status = "pending"}

SelectPending_FailedToo(m, r, k) == {c \in Cells : m[c].status # "done"}

\* The first k cells, in order, that still need work.
SelectPending(m, r, k) ==
  LET open == {c \in Cells : m[c].status # "done" /\ (m[c].status = "failed" => r)}
  IN  {c \in open : Cardinality({d \in open : d <= c}) <= k}

\* Load or create the manifest, save it, pick this invocation's cells.
Launch(r, k) ==
  LET m == LoadOrCreate
      pending == SelectPending(m, r, k)
  IN  /\ pc = "off"
      /\ disk' = m
      /\ retry' = r
      /\ IF pending = {}
         THEN exit' = "0" /\ UNCHANGED <<mem, pc, queue>>
         ELSE mem' = m /\ pc' = "cell" /\ queue' = pending /\ exit' = "none"
      /\ UNCHANGED <<cur, code, smoke, signals, crashes>>

Stop(e) ==
  /\ exit' = e
  /\ pc' = "off"
  /\ mem' = None
  /\ queue' = {}
  /\ cur' = None
  /\ code' = "none"

Done(m) == {c \in Cells : m[c].status = "done"}

ExitCode_AlwaysZero(m) == "0"

ExitCode(m) == IF Done(m) = Cells THEN "0" ELSE "1"

Finish ==
  /\ pc = "cell" /\ queue = {}
  /\ Stop(ExitCode(mem))
  /\ UNCHANGED <<disk, retry, smoke, signals, crashes>>

Mark(c, s) == [mem EXCEPT ![c].status = s]

StartCell ==
  /\ pc = "cell"
  /\ \E c \in queue :
       /\ \A d \in queue : c <= d
       /\ cur' = c
       /\ queue' = queue \ {c}
       /\ mem' = Mark(c, "running")
  /\ pc' = "save_running"
  /\ UNCHANGED <<disk, retry, code, exit, smoke, signals, crashes>>

SaveRunning ==
  /\ pc = "save_running"
  /\ disk' = mem
  /\ pc' = "child"
  /\ UNCHANGED <<mem, queue, cur, retry, code, exit, smoke, signals, crashes>>

ChildEnds(rc, f) ==
  /\ code' = rc
  /\ smoke' = [smoke EXCEPT ![cur] = f]
  /\ pc' = "collect"
  /\ UNCHANGED <<disk, mem, queue, cur, retry, exit, signals, crashes>>

ChildExits == pc = "child" /\ \E o \in Outcomes(smoke[cur]) : ChildEnds(o[1], o[2])

\* --cell-timeout: `uv` is killed, the run it started may still finish.
ChildTimesOut == pc = "child" /\ \E f \in CutShort(smoke[cur]) : ChildEnds("124", f)

Succeeded_AnyCode == smoke[cur].kind # "absent"

Succeeded == code = "0" /\ smoke[cur].kind # "absent"

\* The status is assigned first; the metrics, or the back-off sleep, follow.
Collect ==
  /\ pc = "collect"
  /\ IF Succeeded
     THEN mem' = Mark(cur, "done") /\ pc' = "metrics"
     ELSE mem' = Mark(cur, "failed") /\ pc' = "save"
  /\ UNCHANGED <<disk, queue, cur, retry, code, exit, smoke, signals, crashes>>

ReadMetrics ==
  /\ pc = "metrics"
  /\ mem' = [mem EXCEPT ![cur].metrics = smoke[cur].value]
  /\ pc' = "save"
  /\ UNCHANGED <<disk, queue, cur, retry, code, exit, smoke, signals, crashes>>

Save_Forgotten == UNCHANGED disk

Save == disk' = mem

SaveCell ==
  /\ pc = "save"
  /\ Save
  /\ code' = "none"
  /\ pc' = "cell"
  /\ UNCHANGED <<mem, queue, cur, retry, exit, smoke, signals, crashes>>

-------------------------------------------------------------------------------
(* Interruptions.                                                          *)

\* The smoke run of the current cell, if there is one, loses its driver.
AbandonChild ==
  IF pc = "child"
  THEN \E f \in CutShort(smoke[cur]) : smoke' = [smoke EXCEPT ![cur] = f]
  ELSE UNCHANGED smoke

Interrupted_NotMarked == mem

Interrupted ==
  IF cur # None /\ mem[cur].status = "running" THEN Mark(cur, "interrupted") ELSE mem

\* The SIGINT handler may run between any two steps of the driver.
Interrupt ==
  /\ pc # "off" /\ signals < MaxSignals
  /\ signals' = signals + 1
  /\ disk' = Interrupted
  /\ AbandonChild
  /\ Stop("130")
  /\ UNCHANGED <<retry, crashes>>

\* SIGKILL, a power loss, or a Ctrl-C before the handler is installed.
Crash ==
  /\ pc # "off" /\ crashes < MaxCrashes
  /\ crashes' = crashes + 1
  /\ AbandonChild
  /\ Stop("killed")
  /\ UNCHANGED <<disk, retry, signals>>

Work ==
  \/ Finish \/ StartCell \/ SaveRunning \/ ChildExits \/ ChildTimesOut
  \/ Collect \/ ReadMetrics \/ SaveCell

Next ==
  \/ \E r \in BOOLEAN, k \in MaxCells : Launch(r, k)
  \/ Work \/ Interrupt \/ Crash

\* The driver's steps and the child (it has a timeout) make progress, and the
\* operator keeps repeating the plain resume command of the module's doc.
Spec == Init /\ [][Next]_vars /\ WF_vars(Work) /\ SF_vars(Launch(FALSE, NCells))

-------------------------------------------------------------------------------
(* Properties.                                                             *)

SweepTypeOK ==
  /\ disk \in Manifests \cup {None}
  /\ mem \in Manifests \cup {None}
  /\ pc \in {"off", "cell", "save_running", "child", "collect", "metrics", "save"}
  /\ pc # "off" => mem \in Manifests /\ disk \in Manifests
  /\ queue \subseteq Cells
  /\ cur \in Cells \cup {None}
  /\ pc \notin {"off", "cell"} => cur \in Cells
  /\ retry \in BOOLEAN
  /\ code \in {"none", "0", "2", "other", "124"}
  /\ exit \in {"none", "0", "1", "130", "killed"}
  /\ smoke \in [Cells -> [kind : {"absent", "torn", "full", "partial"},
                          value : Values \cup {None}]]
  /\ signals \in 0 .. MaxSignals
  /\ crashes \in 0 .. MaxCrashes
  /\ pc = "metrics" => smoke[cur].value \in Values

\* The module's doc: a crash "loses at most one cell's progress".  Whatever the
\* driver knows about a cell other than the current one is on disk.
LosesAtMostOneCell == pc # "off" => \A c \in Cells \ {cur} : disk[c] = mem[c]

\* A cell the manifest calls done has, in smoke.json, all ticks of a run that
\* exited 0, and metrics, where there are any, are that run's: a timeout, an
\* abort or an orphaned earlier attempt never passes for a result.
DoneIsBackedBySmoke ==
  disk # None =>
    \A c \in Done(disk) : /\ smoke[c].kind = "full"
                          /\ disk[c].metrics \in {None, smoke[c].value}

\* Only a crash leaves a cell "running" in the manifest with no driver at work:
\* each crash leaves at most one, and Ctrl-C never does.
RunningNeedsCrash ==
  disk # None =>
    Cardinality({c \in Cells : disk[c].status = "running"})
      <= crashes + (IF pc = "off" THEN 0 ELSE 1)

\* An invocation that exits 0 leaves no cell it might have run undecided.
ExitZeroMeansDecided ==
  exit = "0" => \A c \in Cells : disk[c].status \in {"done", "failed"}

\* The manifest on disk implements the ledger.
Ledger == INSTANCE SweepLedger
  WITH ledger <- [c \in Cells |->
                    IF disk # None /\ disk[c].status \in {"done", "failed"}
                    THEN disk[c].status ELSE "open"]

\* Every step, a crash or an interruption included, changes the recorded
\* decision of at most one cell, never that of a done cell, and takes a failure
\* back only under --retry-failed.
ImplementsLedger == Ledger!Spec

\* Repeating the resume command decides every cell, whichever steps earlier
\* invocations were cut off at: a cell left running or interrupted is picked up.
EveryCellDecided ==
  \A c \in Cells : <>(disk # None /\ disk[c].status \in {"done", "failed"})
================================================================================
