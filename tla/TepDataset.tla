------------------------------- MODULE TepDataset -------------------------------
(***************************************************************************)
(* tools/acquire_tep_dataset.py: fetch the file listing of the Tennessee   *)
(* Eastman dataset, optionally download its files straight into place,     *)
(* each with one attempt, and compare checksums afterwards.  Invocations   *)
(* may be killed, and repeated over what is already there.                 *)
(***************************************************************************)
EXTENDS Naturals

CONSTANTS
  Files,            \* files of the dataset
  Addressed,        \* those the listing has an id, hence a download_url, for
  Sha256, Md5,      \* those it has a checksum of that kind for
  MaxInvocations,   \* bound
  None

ASSUME DatasetAssumption ==
  /\ Addressed \subseteq Files /\ Sha256 \subseteq Files /\ Md5 \subseteq Files
  /\ Sha256 \cap Md5 = {}
  /\ MaxInvocations \in Nat
  /\ None \notin Files \cup {"0", "2", "3", "killed"}

VARIABLES
  local,        \* each file: "absent", "torn" (cut short), "wrong" or "whole"
  listing,      \* file_listing.json: "absent", "torn" or "whole"
  provenance,   \* provenance.json: "absent", "torn", or its bulk_downloaded
  pc,           \* "off", "fetch", "listing", "files", "receiving", "provenance", "return"
  download,     \* --download
  todo,         \* files not looked at yet
  cur,          \* the file being received
  failed,       \* some result is an error or a checksum mismatch
  results,      \* whether there are any results
  exit,         \* exit code of the last invocation, "killed" if it did not return
  invocations

tepVars == <<local, listing, provenance, pc, download, todo, cur, failed, results, exit, invocations>>

TepInit ==
  /\ local = [f \in Files |-> "absent"]
  /\ listing = "absent" /\ provenance = "absent"
  /\ pc = "off" /\ download = FALSE /\ todo = {} /\ cur = None
  /\ failed = FALSE /\ results = FALSE
  /\ exit = None /\ invocations = 0

Start ==
  /\ pc = "off" /\ invocations < MaxInvocations
  /\ invocations' = invocations + 1
  /\ download' \in BOOLEAN
  /\ pc' = "fetch"
  /\ failed' = FALSE /\ results' = FALSE /\ exit' = None
  /\ UNCHANGED <<local, listing, provenance, todo, cur>>

\* --verify-only reads and reports; without a listing it returns 2.
VerifyOnly ==
  /\ pc = "off" /\ invocations < MaxInvocations /\ listing # "torn"
  /\ invocations' = invocations + 1
  /\ download' = FALSE
  /\ exit' = IF listing = "absent" THEN "2" ELSE "0"
  /\ UNCHANGED <<local, listing, provenance, pc, todo, cur, failed, results>>

Dies ==
  /\ pc' = "off" /\ todo' = {} /\ cur' = None /\ exit' = "killed"

\* One GET of the index, then its file is opened.  (A failed request is Killed.)
FetchListing ==
  /\ pc = "fetch"
  /\ listing' = "torn" /\ pc' = "listing"
  /\ UNCHANGED <<local, provenance, download, todo, cur, failed, results, exit, invocations>>

\* Mutant: the files are gone through in either mode.
WriteListing_Always ==
  /\ pc = "listing"
  /\ listing' = "whole" /\ pc' = "files" /\ todo' = Files
  /\ UNCHANGED <<local, provenance, download, cur, failed, results, exit, invocations>>

WriteListing ==
  /\ pc = "listing"
  /\ listing' = "whole"
  /\ IF download THEN pc' = "files" /\ todo' = Files ELSE pc' = "provenance" /\ UNCHANGED todo
  /\ UNCHANGED <<local, provenance, download, cur, failed, results, exit, invocations>>

\* A result of one file; b says that it is an error or a mismatch.
Result(f, b) ==
  /\ todo' = todo \ {f}
  /\ results' = TRUE
  /\ failed' = (failed \/ b)

\* cached:sha256_match.
Cached(f) == f \in Sha256 /\ local[f] = "whole"

\* skipped:no_url, or cached.
Skip ==
  /\ pc = "files"
  /\ \E f \in todo : (f \notin Addressed \/ Cached(f)) /\ Result(f, FALSE)
  /\ UNCHANGED <<local, listing, provenance, pc, download, cur, exit, invocations>>

\* urlopen raises URLError.
Unreachable ==
  /\ pc = "files"
  /\ \E f \in todo : f \in Addressed /\ ~Cached(f) /\ Result(f, TRUE)
  /\ UNCHANGED <<local, listing, provenance, pc, download, cur, exit, invocations>>

\* Mutant: the target is opened to append.
Open_Appends ==
  /\ pc = "files"
  /\ cur' \in {f \in todo \cap Addressed : ~Cached(f)}
  /\ pc' = "receiving"
  /\ UNCHANGED <<local, listing, provenance, download, todo, failed, results, exit, invocations>>

\* The answer starts: open the target, which empties it.
Open ==
  /\ pc = "files"
  /\ cur' \in {f \in todo \cap Addressed : ~Cached(f)}
  /\ local' = [local EXCEPT ![cur'] = "torn"]
  /\ pc' = "receiving"
  /\ UNCHANGED <<listing, provenance, download, todo, failed, results, exit, invocations>>

\* Mutant: with no checksum to compare with, and otherwise, all is well.
Mismatch_Never(f, content) == FALSE

\* checksum_match is False, which takes a checksum: MD5 or SHA-256.
Mismatch(f, content) == f \in Sha256 \cup Md5 /\ content # "whole"

\* The answer ends: complete, cut short without an error, or different bytes.
Received ==
  /\ pc = "receiving"
  /\ \E content \in {"whole", "torn", "wrong"} :
       /\ local' = [local EXCEPT ![cur] = content]
       /\ Result(cur, Mismatch(cur, content))
  /\ cur' = None /\ pc' = "files"
  /\ UNCHANGED <<listing, provenance, download, exit, invocations>>

FilesDone ==
  /\ pc = "files" /\ todo = {}
  /\ pc' = "provenance"
  /\ UNCHANGED <<local, listing, provenance, download, todo, cur, failed, results, exit, invocations>>

OpenProvenance ==
  /\ pc = "provenance"
  /\ provenance' = "torn" /\ pc' = "return"
  /\ UNCHANGED <<local, listing, download, todo, cur, failed, results, exit, invocations>>

\* Write it (bulk_downloaded: there were results) and return.
Return ==
  /\ pc = "return"
  /\ provenance' = IF results THEN "bulk" ELSE "listing"
  /\ exit' = IF failed THEN "3" ELSE "0"
  /\ pc' = "off"
  /\ UNCHANGED <<local, listing, download, todo, cur, failed, results, invocations>>

\* Killed, or an exception that is not a URLError (a reset connection while
\* receiving), or a failed request for the index.
Killed ==
  /\ pc # "off"
  /\ Dies
  /\ UNCHANGED <<local, listing, provenance, download, failed, results, invocations>>

TepNext ==
  \/ Start \/ VerifyOnly \/ FetchListing \/ WriteListing
  \/ Skip \/ Unreachable \/ Open \/ Received \/ FilesDone
  \/ OpenProvenance \/ Return \/ Killed

TepSpec == TepInit /\ [][TepNext]_tepVars

-------------------------------------------------------------------------------
(* Properties.                                                             *)

TepTypeOK ==
  /\ local \in [Files -> {"absent", "torn", "wrong", "whole"}]
  /\ listing \in {"absent", "torn", "whole"}
  /\ provenance \in {"absent", "torn", "bulk", "listing"}
  /\ pc \in {"off", "fetch", "listing", "files", "receiving", "provenance", "return"}
  /\ todo \subseteq Files /\ (todo # {} => download)
  /\ cur \in todo \cup {None} /\ (pc = "receiving" => cur \in todo /\ local[cur] = "torn")
  /\ download \in BOOLEAN /\ failed \in BOOLEAN /\ results \in BOOLEAN
  /\ exit \in {"0", "2", "3", "killed", None}
  /\ invocations \in 0 .. MaxInvocations

\* An invocation with --download that exits 0 leaves every file that has an address
\* and a checksum whole, over whatever torn or wrong files earlier ones left.
ExitZeroMeansWhole ==
  exit = "0" /\ download =>
    \A f \in Addressed \cap (Sha256 \cup Md5) : local[f] = "whole"

\* A whole file is lost, if ever, to an invocation with --download that has had no
\* result for it yet.  So the default mode, which the docstring wants run by every CI
\* (lines 12-14), never touches the data, wherever it is killed; and what a download
\* has counted as good is still good when it computes its exit code.  (The next
\* download opens it again: the dataset's checksums are MD5.)
LostOnlyToADownload ==
  [][\A f \in Files :
       local[f] = "whole" /\ local'[f] # "whole" => download /\ f \in todo \ Sha256]_tepVars

\* "downloads each .RData to data/external/tep/ after the upstream-reported SHA-256
\* matches the post-download local SHA-256" (lines 16-18): a file in place matches.
\* The code downloads into place and compares afterwards (README, Findings).
OnlyMatchingFilesInPlace ==
  pc = "off" => \A f \in Sha256 \cup Md5 : local[f] \in {"absent", "whole"}
================================================================================
