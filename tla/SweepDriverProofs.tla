--------------------------- MODULE SweepDriverProofs ---------------------------
(***************************************************************************)
(* The sweep driver, proved for every number of cells, signals and         *)
(* crashes: what the manifest on disk and the manifest in memory have to   *)
(* do with each other, and with the smoke files, at each point of the      *)
(* driver; from that, what a reader of the manifest may rely on.           *)
(***************************************************************************)
EXTENDS SweepDriver, FiniteSetTheorems, WellFoundedInduction, TLAPS

\* The decision about a cell in the manifest m is one this invocation may take
\* up again: the cell is not done, and failed only under --retry-failed.
Open(m, c) ==
  /\ m[c].status # "done"
  /\ m[c].status = "failed" => retry

\* What memory and disk say of the current cell, and what is still queued.
Progress ==
  /\ pc = "off" => cur = None /\ queue = {}
  /\ pc = "cell" => mem = disk /\ (cur # None => mem[cur].status # "running")
  /\ pc = "save_running" => Open(disk, cur)
  /\ pc \in {"save_running", "child", "collect"} => mem[cur].status = "running"
  /\ pc \in {"child", "collect", "metrics", "save"} => disk[cur].status = "running"
  /\ pc = "metrics" => mem[cur].status = "done"
  /\ pc = "save" => mem[cur].status \in {"done", "failed"}
  /\ \A c \in queue : c # cur /\ Open(mem, c)

\* Only a run that exited 0 makes a cell done, and only a done cell has metrics.
Backed(m) ==
  \A c \in Cells :
    IF m[c].status = "done"
    THEN smoke[c].kind = "full" /\ m[c].metrics \in {None, smoke[c].value}
    ELSE m[c].metrics = None

Results ==
  /\ disk # None => Backed(disk)
  /\ pc # "off" => Backed(mem)
  /\ pc = "collect" /\ code = "0" => smoke[cur].kind = "full" /\ smoke[cur].value \in Values

SweepInv == SweepTypeOK /\ LosesAtMostOneCell /\ Progress /\ Results

Smokes == [kind : {"absent", "torn", "full", "partial"}, value : Values \cup {None}]

-------------------------------------------------------------------------------
(* The operators the actions are built from.                               *)

\* Marking changes the status of one cell and nothing else.
LEMMA MarkFacts ==
  ASSUME mem \in Manifests, NEW c \in Cells, NEW s \in Statuses
  PROVE  /\ Mark(c, s) \in Manifests
         /\ Mark(c, s)[c].status = s
         /\ Mark(c, s)[c].metrics = mem[c].metrics
         /\ \A d \in Cells \ {c} : Mark(c, s)[d] = mem[d]
  BY DEF Mark, Manifests

\* A run cut short leaves a file of a kind a reader knows.
LEMMA CutShortType == ASSUME NEW old \in Smokes PROVE CutShort(old) \subseteq Smokes
  BY DEF CutShort, Smoke, Smokes

\* Exit code 0 comes with a full file.
LEMMA OutcomeFacts ==
  ASSUME NEW old \in Smokes, NEW o \in Outcomes(old)
  PROVE  /\ o[1] \in {"0", "2", "other"}
         /\ o[2] \in Smokes
         /\ o[1] = "0" => o[2].kind = "full" /\ o[2].value \in Values
  BY CutShortType DEF Outcomes, Smoke, Smokes

\* The handler turns the running cell into an interrupted one.
LEMMA InterruptedFacts ==
  ASSUME mem \in Manifests, cur \in Cells \cup {None}
  PROVE  /\ Interrupted \in Manifests
         /\ \A d \in Cells : \/ Interrupted[d] = mem[d]
                            \/ /\ d = cur
                               /\ mem[d].status = "running"
                               /\ Interrupted[d].status = "interrupted"
                               /\ Interrupted[d].metrics = mem[d].metrics
         /\ cur # None => Interrupted[cur].status # "running"
  BY SweepAssumption, MarkFacts DEF Interrupted, Statuses

\* No selected cell is done, and none has failed without --retry-failed.
LEMMA SelectPendingFacts ==
  ASSUME NEW m, NEW r, NEW k, NEW c \in SelectPending(m, r, k)
  PROVE  c \in Cells /\ m[c].status # "done" /\ (m[c].status = "failed" => r)
  BY DEF SelectPending

\* An abandoned smoke run changes the file of the current cell only.
LEMMA AbandonFacts ==
  ASSUME SweepTypeOK, AbandonChild
  PROVE  /\ smoke' \in [Cells -> Smokes]
         /\ \A c \in Cells : pc # "child" \/ c # cur => smoke'[c] = smoke[c]
  <1>1. CASE pc = "child"
    <2>1. PICK f \in CutShort(smoke[cur]) : smoke' = [smoke EXCEPT ![cur] = f]
      BY <1>1 DEF AbandonChild
    <2>2. cur \in Cells /\ smoke \in [Cells -> Smokes]
      BY <1>1 DEF SweepTypeOK, Smokes
    <2>3. f \in Smokes
      BY <2>2, CutShortType
    <2> QED BY <1>1, <2>1, <2>2, <2>3
  <1>2. CASE pc # "child"
    BY <1>2 DEF AbandonChild, SweepTypeOK, Smokes
  <1> QED BY <1>1, <1>2

-------------------------------------------------------------------------------
(* The invariant.                                                          *)

\* Before the first invocation nothing is recorded.
LEMMA SweepInitInv == ASSUME Init PROVE SweepInv
  <1> USE SweepAssumption
  <1>1. SweepTypeOK
    <2>1. smoke \in [Cells -> Smokes]
      BY DEF Init, Smoke, Smokes
    <2>2. retry \in BOOLEAN
      BY Zenon DEF Init
    <2>3. 0 \in 0 .. MaxSignals /\ 0 \in 0 .. MaxCrashes
      OBVIOUS
    <2> QED BY <2>1, <2>2, <2>3 DEF Init, SweepTypeOK, Smokes
  <1>2. LosesAtMostOneCell /\ Progress /\ Results
    BY DEF Init, LosesAtMostOneCell, Progress, Results
  <1> QED BY <1>1, <1>2 DEF SweepInv

\* A launch starts from what is on disk.
LEMMA LaunchInv ==
  ASSUME SweepInv, NEW r \in BOOLEAN, NEW k \in MaxCells, Launch(r, k)
  PROVE  SweepInv'
  <1> DEFINE m == LoadOrCreate
  <1>1. m \in Manifests
    BY DEF LoadOrCreate, enumerate_cells, SweepInv, SweepTypeOK, Manifests, Statuses
  <1>2. Backed(m)
    BY DEF LoadOrCreate, enumerate_cells, SweepInv, Results, Backed
  <1> HIDE DEF m
  <1>3. CASE SelectPending(m, r, k) = {}
    <2>1. /\ pc = "off" /\ disk' = m /\ retry' = r /\ exit' = "0"
          /\ UNCHANGED <<mem, pc, queue, cur, code, smoke, signals, crashes>>
      BY <1>3 DEF Launch, m
    <2>2. SweepTypeOK'
      BY <1>1, <2>1 DEF SweepInv, SweepTypeOK
    <2>3. LosesAtMostOneCell' /\ Progress' /\ Results'
      BY <1>2, <2>1 DEF SweepInv, LosesAtMostOneCell, Progress, Results, Backed
    <2> QED BY <2>2, <2>3 DEF SweepInv
  <1>4. CASE SelectPending(m, r, k) # {}
    <2>1. /\ pc = "off" /\ disk' = m /\ mem' = m /\ retry' = r /\ pc' = "cell"
          /\ exit' = "none" /\ queue' = SelectPending(m, r, k)
          /\ UNCHANGED <<cur, code, smoke, signals, crashes>>
      BY <1>4 DEF Launch, m
    <2>2. cur = None /\ None \notin Cells
      BY <2>1, SweepAssumption DEF SweepInv, Progress
    <2>3. SweepTypeOK'
      BY <1>1, <2>1, SelectPendingFacts DEF SweepInv, SweepTypeOK
    <2>4. LosesAtMostOneCell' /\ Results'
      BY <1>2, <2>1 DEF SweepInv, LosesAtMostOneCell, Results, Backed
    <2>5. Progress'
      BY <2>1, <2>2, SelectPendingFacts DEF SweepInv, Progress, Open
    <2> QED BY <2>3, <2>4, <2>5 DEF SweepInv
  <1> QED BY <1>3, <1>4

\* The driver's own steps.
LEMMA WorkInv == ASSUME SweepInv, Work PROVE SweepInv'
  <1> USE SweepAssumption DEF SweepInv
  <1>1. CASE Finish
    <2>1. SweepTypeOK'
      BY <1>1 DEF Finish, Stop, ExitCode, SweepTypeOK
    <2>2. LosesAtMostOneCell' /\ Progress' /\ Results'
      BY <1>1 DEF Finish, Stop, LosesAtMostOneCell, Progress, Results, Backed
    <2> QED BY <2>1, <2>2
  <1>2. CASE StartCell
    <2>1. PICK c \in queue : cur' = c /\ queue' = queue \ {c} /\ mem' = Mark(c, "running")
      BY <1>2 DEF StartCell
    <2>2. /\ pc = "cell" /\ pc' = "save_running"
          /\ UNCHANGED <<disk, retry, code, exit, smoke, signals, crashes>>
      BY <1>2 DEF StartCell
    <2>3. mem \in Manifests /\ c \in Cells /\ "running" \in Statuses
      BY <2>2 DEF SweepTypeOK, Statuses
    <2>4. /\ mem' \in Manifests
          /\ mem'[c].status = "running" /\ mem'[c].metrics = mem[c].metrics
          /\ \A d \in Cells \ {c} : mem'[d] = mem[d]
      BY <2>1, <2>3, MarkFacts
    <2>5. mem = disk /\ Open(mem, c) /\ \A d \in queue : Open(mem, d)
      BY <2>1, <2>2 DEF Progress
    <2>6. SweepTypeOK'
      BY <2>1, <2>2, <2>3, <2>4 DEF SweepTypeOK
    <2>7. LosesAtMostOneCell'
      BY <2>1, <2>2, <2>4, <2>5 DEF LosesAtMostOneCell
    <2>8. Progress'
      BY <2>1, <2>2, <2>3, <2>4, <2>5 DEF Progress, Open, SweepTypeOK
    <2>9. Results'
      BY <2>1, <2>2, <2>3, <2>4, <2>5 DEF Results, Backed, Open
    <2> QED BY <2>6, <2>7, <2>8, <2>9
  <1>3. CASE SaveRunning
    <2>1. SweepTypeOK'
      BY <1>3 DEF SaveRunning, SweepTypeOK
    <2>2. LosesAtMostOneCell' /\ Progress' /\ Results'
      BY <1>3 DEF SaveRunning, LosesAtMostOneCell, Progress, Results, Backed, Open
    <2> QED BY <2>1, <2>2
  <1>4. ASSUME NEW f \in Smokes, NEW e \in {"0", "2", "other", "124"}, pc = "child",
               e = "0" => f.kind = "full" /\ f.value \in Values,
               ChildEnds(e, f)
        PROVE  SweepInv'
    <2>1. cur \in Cells /\ smoke' = [smoke EXCEPT ![cur] = f]
      BY <1>4 DEF ChildEnds, SweepTypeOK
    <2>2. SweepTypeOK'
      BY <1>4, <2>1 DEF ChildEnds, SweepTypeOK, Smokes
    <2>3. LosesAtMostOneCell' /\ Progress'
      BY <1>4, <2>1 DEF ChildEnds, LosesAtMostOneCell, Progress, Open
    <2>4. Results'
      BY <1>4, <2>1 DEF ChildEnds, Results, Backed, Progress, SweepTypeOK
    <2> QED BY <2>2, <2>3, <2>4
  <1>5. pc = "child" => smoke[cur] \in Smokes
    BY DEF SweepTypeOK, Smokes
  <1>6. CASE ChildExits
    <2>1. PICK o \in Outcomes(smoke[cur]) : pc = "child" /\ ChildEnds(o[1], o[2])
      BY <1>6 DEF ChildExits
    <2> QED BY <1>4, <1>5, <2>1, OutcomeFacts
  <1>7. CASE ChildTimesOut
    <2>1. PICK f \in CutShort(smoke[cur]) : pc = "child" /\ ChildEnds("124", f)
      BY <1>7 DEF ChildTimesOut
    <2> QED BY <1>4, <1>5, <2>1, CutShortType
  <1>8. ASSUME Collect, NEW s \in {"done", "failed"}, mem' = Mark(cur, s),
               pc' = (IF s = "done" THEN "metrics" ELSE "save"),
               s = "done" => Succeeded
        PROVE  SweepInv'
    <2>1. /\ pc = "collect" /\ cur \in Cells /\ mem \in Manifests /\ s \in Statuses
          /\ UNCHANGED <<disk, queue, cur, retry, code, exit, smoke, signals, crashes>>
      BY <1>8 DEF Collect, SweepTypeOK, Statuses
    <2>2. /\ mem' \in Manifests
          /\ mem'[cur].status = s /\ mem'[cur].metrics = mem[cur].metrics
          /\ \A d \in Cells \ {cur} : mem'[d] = mem[d]
      BY <1>8, <2>1, MarkFacts
    <2>3. mem[cur].metrics = None
      BY <2>1 DEF Progress, Results, Backed
    <2>4. s = "done" => smoke[cur].kind = "full" /\ smoke[cur].value \in Values
      BY <1>8, <2>1 DEF Succeeded, Results
    <2>5. SweepTypeOK'
      BY <1>8, <2>1, <2>2, <2>4 DEF SweepTypeOK
    <2>6. LosesAtMostOneCell' /\ Progress'
      BY <1>8, <2>1, <2>2 DEF LosesAtMostOneCell, Progress, Open, SweepTypeOK
    <2>7. Results'
      BY <1>8, <2>1, <2>2, <2>3, <2>4 DEF Results, Backed
    <2> QED BY <2>5, <2>6, <2>7
  <1>9. CASE Collect
    BY <1>8, <1>9 DEF Collect
  <1>10. CASE ReadMetrics
    <2>1. /\ pc = "metrics" /\ pc' = "save" /\ cur \in Cells /\ mem \in Manifests
          /\ smoke[cur].value \in Values
          /\ mem' = [mem EXCEPT ![cur].metrics = smoke[cur].value]
          /\ UNCHANGED <<disk, queue, cur, retry, code, exit, smoke, signals, crashes>>
      BY <1>10 DEF ReadMetrics, SweepTypeOK
    <2>2. /\ mem' \in Manifests
          /\ mem'[cur].status = mem[cur].status
          /\ mem'[cur].metrics = smoke[cur].value
          /\ \A d \in Cells \ {cur} : mem'[d] = mem[d]
      BY <2>1 DEF Manifests
    <2>3. SweepTypeOK'
      BY <2>1, <2>2 DEF SweepTypeOK
    <2>4. LosesAtMostOneCell' /\ Progress'
      BY <2>1, <2>2 DEF LosesAtMostOneCell, Progress, Open, SweepTypeOK
    <2>5. Results'
      BY <2>1, <2>2 DEF Results, Backed, Progress
    <2> QED BY <2>3, <2>4, <2>5
  <1>11. CASE SaveCell
    <2>1. SweepTypeOK'
      BY <1>11 DEF SaveCell, Save, SweepTypeOK
    <2>2. LosesAtMostOneCell' /\ Progress' /\ Results'
      BY <1>11 DEF SaveCell, Save, LosesAtMostOneCell, Progress, Results, Backed, Open
    <2> QED BY <2>1, <2>2
  <1> QED BY <1>1, <1>2, <1>3, <1>6, <1>7, <1>9, <1>10, <1>11 DEF Work

\* The handler saves what memory holds, with the running cell marked.
LEMMA InterruptInv == ASSUME SweepInv, Interrupt PROVE SweepInv'
  <1>1. /\ pc # "off" /\ signals' = signals + 1 /\ signals < MaxSignals
        /\ disk' = Interrupted /\ mem' = None /\ pc' = "off" /\ queue' = {}
        /\ cur' = None /\ code' = "none" /\ exit' = "130"
        /\ retry' = retry /\ crashes' = crashes
    BY DEF Interrupt, Stop
  <1>2. mem \in Manifests /\ cur \in Cells \cup {None}
    BY <1>1 DEF SweepInv, SweepTypeOK
  <1>3. /\ smoke' \in [Cells -> Smokes]
        /\ \A c \in Cells : pc # "child" \/ c # cur => smoke'[c] = smoke[c]
    BY AbandonFacts DEF SweepInv, Interrupt
  <1>4. SweepTypeOK'
    BY <1>1, <1>2, <1>3, InterruptedFacts, SweepAssumption
    DEF SweepInv, SweepTypeOK, Smokes
  <1>5. LosesAtMostOneCell' /\ Progress'
    BY <1>1 DEF LosesAtMostOneCell, Progress
  <1>6. Results'
    BY <1>1, <1>2, <1>3, InterruptedFacts DEF SweepInv, Results, Backed, Progress
  <1> QED BY <1>4, <1>5, <1>6 DEF SweepInv

\* A crash leaves the disk as it is.
LEMMA CrashInv == ASSUME SweepInv, Crash PROVE SweepInv'
  <1>1. /\ pc # "off" /\ crashes' = crashes + 1 /\ crashes < MaxCrashes
        /\ disk' = disk /\ mem' = None /\ pc' = "off" /\ queue' = {}
        /\ cur' = None /\ code' = "none" /\ exit' = "killed"
        /\ retry' = retry /\ signals' = signals
    BY DEF Crash, Stop
  <1>2. /\ smoke' \in [Cells -> Smokes]
        /\ \A c \in Cells : pc # "child" \/ c # cur => smoke'[c] = smoke[c]
    BY AbandonFacts DEF SweepInv, Crash
  <1>3. SweepTypeOK'
    BY <1>1, <1>2, SweepAssumption DEF SweepInv, SweepTypeOK, Smokes
  <1>4. LosesAtMostOneCell' /\ Progress'
    BY <1>1 DEF LosesAtMostOneCell, Progress
  <1>5. Results'
    BY <1>1, <1>2 DEF SweepInv, Results, Backed, Progress
  <1> QED BY <1>3, <1>4, <1>5 DEF SweepInv

\* Every step preserves the invariant.
LEMMA SweepNextInv == ASSUME SweepInv, [Next]_vars PROVE SweepInv'
  <1>1. CASE UNCHANGED vars
    BY <1>1 DEF vars, SweepInv, SweepTypeOK, LosesAtMostOneCell, Progress, Results,
                Backed, Open
  <1> QED BY <1>1, LaunchInv, WorkInv, InterruptInv, CrashInv DEF Next

\* The inductive invariant of the driver.
THEOREM SweepInvariant == Spec => []SweepInv
  BY SweepInitInv, SweepNextInv, PTL DEF Spec

-------------------------------------------------------------------------------
(* What a reader of the manifest may rely on.                              *)

\* Type correctness.
THEOREM SweepTypes == Spec => []SweepTypeOK
  <1>1. SweepInv => SweepTypeOK
    BY DEF SweepInv
  <1> QED BY <1>1, SweepInvariant, PTL

\* A crash loses the progress of at most one cell.
THEOREM SweepLosesAtMostOneCell == Spec => []LosesAtMostOneCell
  <1>1. SweepInv => LosesAtMostOneCell
    BY DEF SweepInv
  <1> QED BY <1>1, SweepInvariant, PTL

\* A timeout, an abort or an orphaned attempt never passes for a result.
THEOREM SweepDoneIsBackedBySmoke == Spec => []DoneIsBackedBySmoke
  <1>1. SweepInv => DoneIsBackedBySmoke
    BY DEF SweepInv, Results, Backed, DoneIsBackedBySmoke, Done
  <1> QED BY <1>1, SweepInvariant, PTL

\* What the ledger records of a manifest.
Record(m) == [c \in Cells |-> IF m # None /\ m[c].status \in {"done", "failed"}
                             THEN m[c].status ELSE "open"]

\* A save that decides the running cell, or takes an open one up again, is a
\* step of the ledger.
LEMMA SaveRefines ==
  ASSUME SweepInv, pc # "off", disk' \in Manifests, retry' = retry,
         \A c \in Cells : \/ disk'[c].status = mem[c].status
                        \/ /\ mem[c].status = "running"
                           /\ disk'[c].status = "interrupted"
  PROVE  [Ledger!Next]_(Ledger!vars)
  <1>1. disk \in Manifests /\ mem \in Manifests /\ disk # None /\ disk' # None
    BY SweepAssumption DEF SweepInv, SweepTypeOK
  <1>2. \A c \in Cells \ {cur} : Record(disk')[c] = Record(disk)[c]
    BY <1>1 DEF SweepInv, LosesAtMostOneCell, Record
  <1>3. CASE Record(disk') = Record(disk)
    BY <1>3 DEF Ledger!Next, Ledger!Invoke, Ledger!vars, Record
  <1>4. CASE Record(disk') # Record(disk)
    <2>1. cur \in Cells /\ Record(disk')[cur] # Record(disk)[cur]
      BY <1>2, <1>4 DEF Record
    <2>2. Record(disk') = [Record(disk) EXCEPT ![cur] = Record(disk')[cur]]
      BY <1>2, <2>1 DEF Record
    <2>3. CASE pc \in {"cell", "save_running"}
      <3>1. pc = "save_running"
        BY <1>1, <2>1, <2>3 DEF SweepInv, Progress, Record
      <3>2. Record(disk)[cur] = "failed" /\ retry /\ Record(disk')[cur] = "open"
        BY <1>1, <2>1, <3>1 DEF SweepInv, Progress, Open, Record
      <3>3. Ledger!Reopen(cur)
        BY <2>2, <3>2 DEF Ledger!Reopen, Record
      <3> QED BY <2>1, <3>3 DEF Ledger!Next, Ledger!Reopen
    <2>4. CASE pc \in {"child", "collect", "metrics", "save"}
      <3>1. Record(disk)[cur] = "open" /\ Record(disk')[cur] \in {"done", "failed"}
        BY <1>1, <2>1, <2>4 DEF SweepInv, Progress, Record
      <3>2. Ledger!Decide(cur)
        BY <2>2, <3>1 DEF Ledger!Decide, Record
      <3> QED BY <2>1, <3>2 DEF Ledger!Next, Ledger!Decide
    <2> QED BY <2>3, <2>4 DEF SweepInv, SweepTypeOK
  <1> QED BY <1>3, <1>4

\* Every step of the driver is a step of the ledger, or changes nothing there.
LEMMA StepRefines == ASSUME SweepInv, [Next]_vars PROVE [Ledger!Next]_(Ledger!vars)
  <1>1. ASSUME NEW r \in BOOLEAN, NEW k \in MaxCells, Launch(r, k)
        PROVE  Ledger!Invoke
    <2>1. disk' = LoadOrCreate /\ retry' = r
      BY <1>1 DEF Launch
    <2>2. Record(disk') = Record(disk)
      BY <2>1 DEF LoadOrCreate, enumerate_cells, Record
    <2> QED BY <2>1, <2>2 DEF Ledger!Invoke, Record
  <1>2. CASE UNCHANGED <<disk, retry>>
    BY <1>2 DEF Ledger!vars
  <1>3. CASE SaveRunning \/ SaveCell
    <2>1. pc # "off" /\ disk' = mem /\ mem \in Manifests /\ retry' = retry
      BY <1>3 DEF SaveRunning, SaveCell, Save, SweepInv, SweepTypeOK
    <2> QED BY <2>1, SaveRefines
  <1>4. CASE Interrupt
    <2>1. pc # "off" /\ disk' = Interrupted /\ retry' = retry
      BY <1>4 DEF Interrupt
    <2>2. mem \in Manifests /\ cur \in Cells \cup {None}
      BY <2>1 DEF SweepInv, SweepTypeOK
    <2> QED BY <2>1, <2>2, InterruptedFacts, SaveRefines
  <1>5. ASSUME Work, ~SaveRunning, ~SaveCell
        PROVE  UNCHANGED <<disk, retry>>
    BY <1>5 DEF Work, Finish, StartCell, ChildExits, ChildTimesOut, ChildEnds,
                Collect, ReadMetrics
  <1>6. Crash \/ UNCHANGED vars => UNCHANGED <<disk, retry>>
    BY DEF Crash, vars
  <1> QED BY <1>1, <1>2, <1>3, <1>4, <1>5, <1>6 DEF Next, Ledger!Next

\* A non-empty set of cells has a first one.
LEMMA FirstCell ==
  ASSUME NEW S \in SUBSET Cells, S # {} PROVE \E c \in S : \A d \in S : c <= d
  <1>1. S \subseteq Nat
    BY SweepAssumption DEF Cells
  <1>2. \E c \in S : \A d \in S : ~ (<<d, c>> \in OpToRel(<, Nat))
    BY <1>1, NatLessThanWellFounded, WFMin, Zenon
  <1>3. ASSUME NEW c \in S, NEW d \in S, d < c PROVE <<d, c>> \in OpToRel(<, Nat)
    <2>1. <<d, c>> \in Nat \X Nat /\ <<d, c>>[1] < <<d, c>>[2]
      BY <1>1, <1>3
    <2> QED BY <2>1, Zenon DEF OpToRel
  <1>4. \E c \in S : \A d \in S : ~ (d < c)
    BY <1>2, <1>3
  <1> QED BY <1>1, <1>4

\* An empty selection means that no cell is left that could be selected.
LEMMA EmptySelection ==
  ASSUME NEW m, NEW r, NEW k \in MaxCells, SelectPending(m, r, k) = {},
         NEW c \in Cells, m[c].status # "done"
  PROVE  m[c].status = "failed"
  <1> DEFINE open == {d \in Cells : m[d].status # "done" /\ (m[d].status = "failed" => r)}
  <1> SUFFICES ASSUME m[c].status # "failed" PROVE FALSE
    OBVIOUS
  <1>1. c \in open
    OBVIOUS
  <1>2. PICK f \in open : \A d \in open : f <= d
    BY <1>1, FirstCell, Zenon
  <1>3. {d \in open : d <= f} = {f}
    BY <1>2, SweepAssumption DEF Cells
  <1>4. Cardinality({d \in open : d <= f}) <= k
    <2>1. Cardinality({f}) = 1 /\ k >= 1
      BY FS_Singleton, SweepAssumption
    <2> HIDE DEF open
    <2> QED BY <1>3, <2>1, Zenon
  <1>5. f \in SelectPending(m, r, k)
    BY <1>2, <1>4 DEF SelectPending
  <1> QED BY <1>5

\* Exit code 0 is given with every cell decided, and the manifest rests then.
Exited == exit = "0" => pc = "off" /\ disk # None /\ ExitZeroMeansDecided

\* Every step keeps what exit code 0 means.
LEMMA ExitedNext == ASSUME SweepInv, Exited, [Next]_vars PROVE Exited'
  <1>1. ASSUME NEW r \in BOOLEAN, NEW k \in MaxCells, Launch(r, k), exit' = "0"
        PROVE  Exited'
    <2>1. /\ SelectPending(LoadOrCreate, r, k) = {}
          /\ pc = "off" /\ pc' = pc /\ disk' = LoadOrCreate
      BY <1>1 DEF Launch
    <2>2. disk' # None
      BY <2>1, SweepAssumption
      DEF LoadOrCreate, enumerate_cells, Manifests, Statuses
    <2> QED BY <2>1, <2>2, EmptySelection DEF Exited, ExitZeroMeansDecided
  <1>2. CASE Finish
    <2>1. /\ pc = "cell" /\ disk' = disk /\ pc' = "off"
          /\ exit' = "0" => Done(mem) = Cells
      BY <1>2 DEF Finish, Stop, ExitCode
    <2>2. mem = disk /\ disk # None
      BY <2>1, SweepAssumption DEF SweepInv, SweepTypeOK, Progress
    <2> QED BY <2>1, <2>2 DEF Exited, ExitZeroMeansDecided, Done
  <1>3. ASSUME Work, ~Finish PROVE exit' = exit /\ pc # "off"
    BY <1>3 DEF Work, StartCell, SaveRunning, ChildExits, ChildTimesOut, ChildEnds,
                Collect, ReadMetrics, SaveCell
  <1>4. Interrupt \/ Crash => exit' # "0"
    BY DEF Interrupt, Crash, Stop
  <1>5. UNCHANGED vars => Exited'
    BY DEF vars, Exited, ExitZeroMeansDecided
  <1>6. ASSUME NEW r \in BOOLEAN, NEW k \in MaxCells, Launch(r, k)
        PROVE  Exited'
    BY <1>1, <1>6 DEF Exited
  <1> QED BY <1>2, <1>3, <1>4, <1>5, <1>6 DEF Next, Exited

\* An invocation that exits 0 leaves no cell undecided.
THEOREM SweepExitZeroMeansDecided == Spec => []ExitZeroMeansDecided
  <1>1. Init => Exited
    BY DEF Init, Exited
  <1>2. Exited => ExitZeroMeansDecided
    BY DEF Exited, ExitZeroMeansDecided
  <1> QED BY <1>1, <1>2, ExitedNext, SweepInvariant, PTL DEF Spec

\* The manifest on disk implements the ledger, for every number of cells.
THEOREM SweepImplementsLedger == Spec => ImplementsLedger
  <1>1. Init => Ledger!Init
    BY DEF Init, Ledger!Init
  <1> QED BY <1>1, StepRefines, SweepInvariant, PTL
          DEF Spec, ImplementsLedger, Ledger!Spec
-------------------------------------------------------------------------------
(* Cells left running.                                                     *)

\* Cells the manifest calls running although no run of theirs is under way.
LeftRunning == {c \in Cells \ {cur} : disk[c].status = "running"}

\* Each crash leaves at most one.
FewLeft == disk # None => Cardinality(LeftRunning) <= crashes

\* Sets of cells are finite, and a smaller one has no more elements.
LEMMA CellSets ==
  ASSUME NEW S \in SUBSET Cells, NEW T \in SUBSET S
  PROVE  /\ IsFiniteSet(S) /\ Cardinality(S) \in Nat /\ Cardinality(T) \in Nat
         /\ Cardinality(T) <= Cardinality(S)
  <1>1. IsFiniteSet(Cells)
    BY SweepAssumption, FS_Interval DEF Cells
  <1>2. IsFiniteSet(S)
    BY <1>1, FS_Subset
  <1> QED BY <1>2, FS_Subset, FS_CardinalityType

\* One more element adds at most one.
LEMMA OneMore ==
  ASSUME NEW S \in SUBSET Cells, NEW x, NEW T, T \subseteq S \cup {x}
  PROVE  Cardinality(T) \in Nat /\ Cardinality(T) <= Cardinality(S) + 1
  <1>1. IsFiniteSet(S) /\ Cardinality(S) \in Nat
    BY CellSets
  <1>2. /\ IsFiniteSet(S \cup {x}) /\ Cardinality(S \cup {x}) \in Nat
        /\ Cardinality(S \cup {x}) <= Cardinality(S) + 1
    BY <1>1, FS_AddElement, FS_CardinalityType
  <1>3. Cardinality(T) \in Nat /\ Cardinality(T) <= Cardinality(S \cup {x})
    BY <1>2, FS_Subset, FS_CardinalityType
  <1> QED BY <1>1, <1>2, <1>3

\* A step that adds no cell to those left running.
LEMMA NoMoreLeft ==
  ASSUME FewLeft, disk # None, LeftRunning' \subseteq LeftRunning, crashes' = crashes,
         crashes \in Nat
  PROVE  FewLeft'
  <1>1. Cardinality(LeftRunning) <= crashes
    BY DEF FewLeft
  <1>2. LeftRunning \in SUBSET Cells
    BY DEF LeftRunning
  <1>3. /\ Cardinality(LeftRunning) \in Nat /\ Cardinality(LeftRunning') \in Nat
        /\ Cardinality(LeftRunning') <= Cardinality(LeftRunning)
    BY <1>2, CellSets
  <1> QED BY <1>1, <1>3 DEF FewLeft

\* Every step leaves at most as many cells running as there were crashes.
LEMMA FewLeftNext == ASSUME SweepInv, FewLeft, [Next]_vars PROVE FewLeft'
  <1> USE SweepAssumption
  <1>1. crashes \in Nat /\ (pc # "off" => disk # None)
    BY DEF SweepInv, SweepTypeOK
  <1>2. ASSUME NEW r \in BOOLEAN, NEW k \in MaxCells, Launch(r, k) PROVE FewLeft'
    <2>1. disk' = LoadOrCreate /\ cur' = cur /\ crashes' = crashes
      BY <1>2 DEF Launch
    <2>2. CASE disk = None
      <3>1. LeftRunning' = {}
        BY <2>1, <2>2 DEF LeftRunning, LoadOrCreate, enumerate_cells
      <3> QED BY <1>1, <2>1, <3>1, FS_EmptySet DEF FewLeft
    <2>3. CASE disk # None
      BY <1>1, <2>1, <2>3, NoMoreLeft DEF LoadOrCreate, LeftRunning
    <2> QED BY <2>2, <2>3
  <1>3. CASE Finish \/ StartCell
    <2>1. pc = "cell" /\ disk' = disk /\ crashes' = crashes
      BY <1>3 DEF Finish, StartCell
    <2>2. cur # None => disk[cur].status # "running"
      BY <2>1 DEF SweepInv, Progress
    <2>3. LeftRunning' \subseteq LeftRunning
      BY <2>1, <2>2 DEF LeftRunning, SweepInv, SweepTypeOK, Cells
    <2> QED BY <1>1, <2>1, <2>3, NoMoreLeft
  <1>4. CASE SaveRunning \/ SaveCell
    <2>1. pc # "off" /\ disk' = mem /\ cur' = cur /\ crashes' = crashes
      BY <1>4 DEF SaveRunning, SaveCell, Save
    <2>2. LeftRunning' \subseteq LeftRunning
      BY <2>1 DEF LeftRunning, SweepInv, LosesAtMostOneCell
    <2> QED BY <1>1, <2>1, <2>2, NoMoreLeft
  <1>5. CASE ChildExits \/ ChildTimesOut \/ Collect \/ ReadMetrics
    <2>1. pc # "off" /\ disk' = disk /\ cur' = cur /\ crashes' = crashes
      BY <1>5 DEF ChildExits, ChildTimesOut, ChildEnds, Collect, ReadMetrics
    <2> QED BY <1>1, <2>1, NoMoreLeft DEF LeftRunning
  <1>6. CASE Interrupt
    <2>1. pc # "off" /\ disk' = Interrupted /\ cur' = None /\ crashes' = crashes
      BY <1>6 DEF Interrupt, Stop
    <2>2. mem \in Manifests /\ cur \in Cells \cup {None}
      BY <2>1 DEF SweepInv, SweepTypeOK
    <2>3. ASSUME NEW c \in Cells, Interrupted[c].status = "running"
          PROVE  c # cur /\ disk[c].status = "running"
      <3>1. c # cur /\ mem[c].status = "running"
        BY <2>2, <2>3, InterruptedFacts
      <3> QED BY <2>1, <3>1 DEF SweepInv, LosesAtMostOneCell
    <2>4. LeftRunning' \subseteq LeftRunning
      BY <2>1, <2>3 DEF LeftRunning
    <2> QED BY <1>1, <2>1, <2>4, NoMoreLeft
  <1>7. CASE Crash
    <2>1. pc # "off" /\ disk' = disk /\ cur' = None /\ crashes' = crashes + 1
      BY <1>7 DEF Crash, Stop
    <2>2. LeftRunning' \subseteq LeftRunning \cup {cur}
      BY <2>1 DEF LeftRunning
    <2>3. Cardinality(LeftRunning) <= crashes
      BY <1>1, <2>1 DEF FewLeft
    <2>4. LeftRunning \in SUBSET Cells
      BY DEF LeftRunning
    <2>5. /\ Cardinality(LeftRunning) \in Nat /\ Cardinality(LeftRunning') \in Nat
          /\ Cardinality(LeftRunning') <= Cardinality(LeftRunning) + 1
      BY <2>2, <2>4, CellSets, OneMore
    <2> QED BY <1>1, <2>1, <2>3, <2>5 DEF FewLeft
  <1>8. CASE UNCHANGED vars
    BY <1>8 DEF vars, FewLeft, LeftRunning
  <1> QED BY <1>2, <1>3, <1>4, <1>5, <1>6, <1>7, <1>8 DEF Next, Work

\* With the run under way, there is one more; with no driver, there is none.
LEMMA FewLeftSuffices == ASSUME SweepInv, FewLeft PROVE RunningNeedsCrash
  <1> DEFINE R == {c \in Cells : disk[c].status = "running"}
  <1> SUFFICES ASSUME disk # None
               PROVE  Cardinality(R) <= crashes + (IF pc = "off" THEN 0 ELSE 1)
    BY DEF RunningNeedsCrash
  <1>1. crashes \in Nat /\ Cardinality(LeftRunning) <= crashes
    BY SweepAssumption DEF FewLeft, SweepInv, SweepTypeOK
  <1>2. CASE pc = "off"
    <2>1. R = LeftRunning
      BY <1>2, SweepAssumption DEF LeftRunning, SweepInv, Progress
    <2> HIDE DEF R
    <2>2. Cardinality(R) \in Nat
      BY <2>1, CellSets DEF LeftRunning
    <2> QED BY <1>1, <1>2, <2>1, <2>2
  <1>3. CASE pc # "off"
    <2>1. R \subseteq LeftRunning \cup {cur}
      BY DEF LeftRunning
    <2>2. LeftRunning \in SUBSET Cells
      BY DEF LeftRunning
    <2> HIDE DEF R
    <2>3. /\ Cardinality(LeftRunning) \in Nat /\ Cardinality(R) \in Nat
          /\ Cardinality(R) <= Cardinality(LeftRunning) + 1
      BY <2>1, <2>2, CellSets, OneMore
    <2> QED BY <1>1, <1>3, <2>3
  <1> QED BY <1>2, <1>3

\* Only a crash leaves a cell running with no driver at work.
THEOREM SweepRunningNeedsCrash == Spec => []RunningNeedsCrash
  <1>1. Init => FewLeft
    BY DEF Init, FewLeft
  <1> QED BY <1>1, FewLeftNext, FewLeftSuffices, SweepInvariant, PTL DEF Spec
================================================================================
