------------------------------ MODULE AtomicWrite ------------------------------
(***************************************************************************)
(* industrial_ai/io.py, atomic_write_json, as the sweep drivers call it:   *)
(* from the main program and, re-entrantly, from the SIGINT handler, which *)
(* saves the same path through the same temporary file and then unwinds    *)
(* the interrupted call with sys.exit.  The process may be killed and the  *)
(* machine may lose power.                                                 *)
(*                                                                         *)
(* A file system is inodes with cached and stable content and a directory  *)
(* with a cached and a stable state.  Content is the version it belongs to *)
(* and whether it is all there.                                            *)
(***************************************************************************)
EXTENDS Naturals, Sequences

CONSTANTS
  NInodes,   \* inodes of the file system
  MaxSaves,  \* versions saved, bounded
  SavedFiles      \* the files considered, of those the drivers save this way

\* The manifest of a sweep is far larger than the 8 KiB buffer of a Python file
\* object, the five cells of a confirmation and its spec fit in it; the two
\* manifests are also saved by a SIGINT handler.
InBuffer == {"confirmation_spec", "confirmation_manifest"}
Handled == {"sweep_manifest", "confirmation_manifest"}

\* The save that announces "running", whose content the handler then changes,
\* and the one that records the outcome, whose content it repeats.
SaveKinds == {"running", "final"}

ASSUME AtomicAssumption ==
  /\ NInodes \in Nat /\ NInodes >= 4
  /\ MaxSaves \in Nat
  /\ SavedFiles \subseteq InBuffer \cup Handled

Inodes == 1 .. NInodes
NoInode == 0

VARIABLES
  file,    \* the file this behaviour is about
  stack,   \* the atomic_write_json calls in progress, the handler's last
  cache,   \* content of each inode as processes see it
  stable,  \* content of each inode on the disk itself
  dir,     \* the inodes of the path and of its .tmp as processes see them
  dirS,    \* the same, on the disk itself
  saves    \* versions handed out

vars == <<file, stack, cache, stable, dir, dirS, saves>>

Whole(v) == [of |-> v, whole |-> TRUE]
Fragment == [of |-> 0, whole |-> FALSE]

Call(kind, v) == [at |-> "open", kind |-> kind, of |-> v, inode |-> NoInode]

Init ==
  /\ file \in SavedFiles
  /\ stack = <<>>
  /\ cache = [i \in Inodes |-> Fragment]
  /\ stable = [i \in Inodes |-> Fragment]
  /\ dir = [path |-> NoInode, tmp |-> NoInode]
  /\ dirS = dir
  /\ saves = 0

-------------------------------------------------------------------------------
(* The call.                                                               *)

Top == stack[Len(stack)]

InProgress(at) == stack # <<>> /\ Top.at = at

Advance(at) == stack' = [stack EXCEPT ![Len(stack)].at = at]

Begin(kind) ==
  /\ stack = <<>> /\ saves < MaxSaves
  /\ stack' = <<Call(kind, saves + 1)>>
  /\ saves' = saves + 1
  /\ UNCHANGED <<file, cache, stable, dir, dirS>>

Used == {dir.path, dir.tmp, dirS.path, dirS.tmp} \cup {stack[k].inode : k \in 1 .. Len(stack)}

\* open("w"): truncates a temporary file that is there already.
OpenTmp ==
  /\ InProgress("open")
  /\ \E i \in Inodes :
       /\ IF dir.tmp = NoInode THEN i \notin Used ELSE i = dir.tmp
       /\ stack' = [stack EXCEPT ![Len(stack)].at = "opened", ![Len(stack)].inode = i]
       /\ cache' = [cache EXCEPT ![i] = Fragment]
       /\ dir' = [dir EXCEPT !.tmp = i]
  /\ UNCHANGED <<file, stable, dirS, saves>>

Fill(i) == cache' = [cache EXCEPT ![i] = Whole(Top.of)]

\* fh.write: a file that fits stays in the buffer of the file object.
Write ==
  /\ InProgress("opened")
  /\ Advance("written")
  /\ IF file \in InBuffer THEN UNCHANGED cache ELSE Fill(Top.inode)
  /\ UNCHANGED <<file, stable, dir, dirS, saves>>

Flush ==
  /\ InProgress("written")
  /\ Advance("flushed")
  /\ Fill(Top.inode)
  /\ UNCHANGED <<file, stable, dir, dirS, saves>>

Sync_Forgotten == UNCHANGED stable

Sync == stable' = [stable EXCEPT ![Top.inode] = cache[Top.inode]]

Fsync ==
  /\ InProgress("flushed")
  /\ Advance("synced")
  /\ Sync
  /\ UNCHANGED <<file, cache, dir, dirS, saves>>

Rename_Link == dir' = [path |-> Top.inode, tmp |-> Top.inode]

Rename == dir' = [path |-> Top.inode, tmp |-> NoInode]

\* The handler goes on to sys.exit.
Replace ==
  /\ InProgress("synced")
  /\ Rename
  /\ IF Len(stack) = 1 THEN stack' = <<>> ELSE Advance("exit")
  /\ UNCHANGED <<file, cache, stable, dirS, saves>>

\* SystemExit leaves the interrupted call's "with" block, whose close writes
\* what the call still had in its buffer.
Unwind ==
  /\ InProgress("exit")
  /\ stack' = <<>>
  /\ cache' = IF stack[1].at = "written" /\ file \in InBuffer /\ stack[1].of # Top.of
              THEN [cache EXCEPT ![stack[1].inode] = Fragment] ELSE cache
  /\ UNCHANGED <<file, stable, dir, dirS, saves>>

-------------------------------------------------------------------------------
(* Signals, kills and the disk.                                            *)

\* What the handler saves: it turns "running" into "interrupted", and finds
\* nothing to change in a cell with an outcome.
HandlerVersion == IF Top.kind = "running" THEN saves + 1 ELSE Top.of

Sigint ==
  /\ Len(stack) = 1 /\ file \in Handled
  /\ saves < MaxSaves
  /\ stack' = Append(stack, Call("handler", HandlerVersion))
  /\ saves' = IF HandlerVersion > saves THEN HandlerVersion ELSE saves
  /\ UNCHANGED <<file, cache, stable, dir, dirS>>

Kill ==
  /\ stack # <<>>
  /\ stack' = <<>>
  /\ UNCHANGED <<file, cache, stable, dir, dirS, saves>>

PowerLoss ==
  /\ stack' = <<>>
  /\ cache' = stable
  /\ dir' = dirS
  /\ UNCHANGED <<file, stable, dirS, saves>>

\* The kernel writes back when it likes, content and directory in any order.
WriteBack(i) ==
  /\ stable' = [stable EXCEPT ![i] = cache[i]]
  /\ UNCHANGED <<file, stack, cache, dir, dirS, saves>>

CommitDirectory ==
  /\ dirS' = dir
  /\ UNCHANGED <<file, stack, cache, stable, dir, saves>>

Next ==
  \/ \E kind \in SaveKinds : Begin(kind)
  \/ OpenTmp \/ Write \/ Flush \/ Fsync \/ Replace \/ Unwind
  \/ Sigint \/ Kill \/ PowerLoss \/ CommitDirectory
  \/ \E i \in Inodes : WriteBack(i)

Spec == Init /\ [][Next]_vars

-------------------------------------------------------------------------------
(* Properties.                                                             *)

Contents == [of : 0 .. MaxSaves, whole : BOOLEAN]
Directories == [path : 0 .. NInodes, tmp : 0 .. NInodes]
Calls == [at : {"open", "opened", "written", "flushed", "synced", "exit"},
          kind : SaveKinds \cup {"handler"}, of : 1 .. MaxSaves, inode : 0 .. NInodes]

AtomicTypeOK ==
  /\ file \in SavedFiles
  /\ stack \in Seq(Calls) /\ Len(stack) <= 2
  /\ cache \in [Inodes -> Contents]
  /\ stable \in [Inodes -> Contents]
  /\ dir \in Directories /\ dirS \in Directories
  /\ dir.tmp # NoInode => dir.tmp # dir.path
  /\ saves \in 0 .. MaxSaves

\* io.py lines 8-11: a reader sees the old file in full or the new file in
\* full, never a half-written one; with kills at any point and, for a manifest,
\* Ctrl-C at any point of a save.
ReaderSeesWholeFile == dir.path # NoInode => cache[dir.path].whole

View(d, content) == IF d.path = NoInode THEN 0 ELSE content[d.path].of

File == INSTANCE AtomicFile WITH shown <- View(dir, cache), durable <- View(dirS, stable)

\* A save replaces the version shown by a newer one in a single step, and no
\* kill, re-entrant save or leftover temporary file brings an older one back;
\* only a power loss does.
ImplementsAtomicFile == File!Spec
================================================================================
