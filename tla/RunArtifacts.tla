------------------------------ MODULE RunArtifacts ------------------------------
(***************************************************************************)
(* twin/data_logging.py: the RunLogger buffers a run's observations and    *)
(* finalize writes them, file by file and in place, into the directory of  *)
(* its config, scenario and seed, then a manifest with the hash of each    *)
(* file.  Nothing empties the directory: a run done again, killed or       *)
(* failing on the way, writes over what the one before it left.            *)
(*                                                                         *)
(* A file's content is the run it is of and how much that run had recorded *)
(* for it; contents stand for their hashes.  One run at a time.            *)
(***************************************************************************)
EXTENDS Naturals

CONSTANTS
  MaxRuns,   \* bound: runs on the directory
  Recorded,  \* bound: files whose contents vary within a run
  MaxRows,   \* bound: rows recorded per file
  Torn,      \* what is left of a file cut short
  Missing

\* In the order finalize writes them.
Paths == <<"timeseries", "tray_profile", "setpoints", "safety_log", "kpis", "latency", "config">>

Names == {Paths[i] : i \in DOMAIN Paths}
Content == [run : 1 .. MaxRuns, rows : 0 .. MaxRows]
Manifests == UNION {[N -> Content \cup {Torn}] : N \in SUBSET Names}

ASSUME ArtifactsAssumption ==
  /\ Recorded \subseteq Names
  /\ MaxRuns \in Nat /\ MaxRows \in Nat
  /\ Missing # Torn
  /\ Missing \notin Content \cup Manifests /\ Torn \notin Content \cup Manifests

VARIABLES
  root,       \* the files
  manifest,   \* artifact_hashes of manifest.json
  run,        \* runs so far
  is_safety_run,
  rows,       \* rows buffered
  phase,      \* "off", "recording", "opening", "writing", "opening_manifest", "writing_manifest"
  next,       \* position in Paths of the file written next
  finalized   \* history: finalize has returned, nothing was recorded since

artifactVars == <<root, manifest, run, is_safety_run, rows, phase, next, finalized>>

ArtifactsInit ==
  /\ root = [f \in Names |-> Missing] /\ manifest = Missing
  /\ run = 0 /\ is_safety_run = FALSE /\ rows = [f \in Names |-> 0]
  /\ phase = "off" /\ next = 1 /\ finalized = FALSE

\* A logger for a run of this config, scenario and seed; the directory is kept.
Create ==
  /\ phase = "off" /\ run < MaxRuns
  /\ run' = run + 1
  /\ is_safety_run' \in BOOLEAN
  /\ rows' = [f \in Names |-> 0]
  /\ phase' = "recording"
  /\ UNCHANGED <<root, manifest, next, finalized>>

\* The record_ and set_ methods; a safety decision needs a safety run.
Record(f) ==
  /\ phase = "recording" /\ rows[f] < MaxRows
  /\ f = "safety_log" => is_safety_run
  /\ rows' = [rows EXCEPT ![f] = @ + 1]
  /\ finalized' = FALSE
  /\ UNCHANGED <<root, manifest, run, is_safety_run, phase, next>>

\* The files this run writes.
Artifacts == {f \in Names : f = "safety_log" => is_safety_run}

Finalize ==
  /\ phase = "recording"
  /\ phase' = "opening" /\ next' = 1 /\ finalized' = FALSE
  /\ UNCHANGED <<root, manifest, run, is_safety_run, rows>>

OpenFile ==
  /\ phase = "opening" /\ Paths[next] \in Artifacts
  /\ root' = [root EXCEPT ![Paths[next]] = Torn]
  /\ phase' = "writing"
  /\ UNCHANGED <<manifest, run, is_safety_run, rows, next, finalized>>

\* Mutant: the last file is forgotten.
NextFile_OneShort ==
  IF next = 6 THEN phase' = "opening_manifest" /\ UNCHANGED next ELSE phase' = "opening" /\ next' = next + 1

\* Mutant: one file too many.
NextFile_OneOver ==
  IF next = 8 THEN phase' = "opening_manifest" /\ UNCHANGED next ELSE phase' = "opening" /\ next' = next + 1

NextFile ==
  IF next = 7 THEN phase' = "opening_manifest" /\ UNCHANGED next ELSE phase' = "opening" /\ next' = next + 1

SkipFile ==
  /\ phase = "opening" /\ Paths[next] \notin Artifacts
  /\ NextFile
  /\ UNCHANGED <<root, manifest, run, is_safety_run, rows, finalized>>

WriteFile ==
  /\ phase = "writing"
  /\ root' = [root EXCEPT ![Paths[next]] = [run |-> run, rows |-> rows[Paths[next]]]]
  /\ NextFile
  /\ UNCHANGED <<manifest, run, is_safety_run, rows, finalized>>

\* Mutant: whatever is in the directory is hashed.
Hashed_WholeDirectory == {f \in Names : root[f] # Missing}

\* Paths of this run that exist.
Hashed == {f \in Artifacts : root[f] # Missing}

OpenManifest ==
  /\ phase = "opening_manifest"
  /\ manifest' = Torn
  /\ phase' = "writing_manifest"
  /\ UNCHANGED <<root, run, is_safety_run, rows, next, finalized>>

WriteManifest ==
  /\ phase = "writing_manifest"
  /\ manifest' = [f \in Hashed |-> root[f]]
  /\ phase' = "recording" /\ finalized' = TRUE
  /\ UNCHANGED <<root, run, is_safety_run, rows, next>>

\* The process ends, is killed, or raises in the middle of a file (a KPI that
\* JSON does not know, a full disk).
Ends ==
  /\ phase # "off"
  /\ phase' = "off" /\ finalized' = FALSE
  /\ UNCHANGED <<root, manifest, run, is_safety_run, rows, next>>

FinalizeStep == OpenFile \/ SkipFile \/ WriteFile \/ OpenManifest \/ WriteManifest

ArtifactsNext == Create \/ (\E f \in Recorded : Record(f)) \/ Finalize \/ FinalizeStep \/ Ends

ArtifactsSpec == ArtifactsInit /\ [][ArtifactsNext]_artifactVars

-------------------------------------------------------------------------------
(* Properties.                                                             *)

ArtifactsTypeOK ==
  /\ root \in [Names -> Content \cup {Torn, Missing}]
  /\ manifest \in Manifests \cup {Torn, Missing}
  /\ run \in 0 .. MaxRuns /\ is_safety_run \in BOOLEAN
  /\ rows \in [Names -> 0 .. MaxRows]
  /\ phase \in {"off", "recording", "opening", "writing", "opening_manifest", "writing_manifest"}
  /\ next \in 1 .. 7 /\ finalized \in BOOLEAN

\* manifest.json is there, parses, and every hash in it is that of the file.
Verified == manifest \notin {Missing, Torn} /\ \A f \in DOMAIN manifest : root[f] = manifest[f]

\* A directory that verifies is the whole record of one run: no file in its
\* manifest is cut short, missing or left by another run, in whatever state the
\* runs before and after were when they were killed.
VerifiedIsOneRun ==
  Verified => /\ \E r \in 1 .. MaxRuns : \A f \in DOMAIN manifest : manifest[f] \in Content /\ manifest[f].run = r
              /\ Names \ {"safety_log"} \subseteq DOMAIN manifest

\* When finalize returns the directory verifies, and holds all that was recorded.
FinalizedIsVerified ==
  finalized => Verified /\ \A f \in Artifacts : root[f] = [run |-> run, rows |-> rows[f]]
================================================================================
