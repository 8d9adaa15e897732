--------------------------- MODULE PersistenceProofs ---------------------------
(***************************************************************************)
(* What the program leaves on the disk: an atomically saved JSON file,     *)
(* proved for every number of inodes and saves; a run's directory, for     *)
(* every number of runs and rows; and the downloaded dataset, for every    *)
(* set of files, addresses and checksums.                                  *)
(***************************************************************************)
EXTENDS AtomicWrite, RunArtifacts, TepDataset, SequenceTheorems, TLAPS

-------------------------------------------------------------------------------
(* The atomic save: types.                                                 *)

\* The temporary file in use is never a file in place, as processes see it or as the
\* disk has it.
Apart ==
  /\ dir.tmp # NoInode => dir.tmp # dir.path /\ dir.tmp # dirS.path
  /\ dirS.tmp # NoInode => dirS.tmp # dirS.path

\* The call at work is one of at most two.
LEMMA TopTyped ==
  ASSUME AtomicTypeOK, stack # <<>>
  PROVE  Top \in Calls /\ Len(stack) \in 1 .. 2 /\ DOMAIN stack = 1 .. Len(stack)
  <1>1. stack \in Seq(Calls) /\ Len(stack) <= 2
    BY DEF AtomicTypeOK
  <1>2. Len(stack) \in Nat /\ Len(stack) # 0 /\ DOMAIN stack = 1 .. Len(stack)
    BY <1>1
  <1>3. Len(stack) \in 1 .. 2 /\ Len(stack) \in 1 .. Len(stack)
    BY <1>1, <1>2
  <1> QED BY <1>1, <1>2, <1>3 DEF Top

\* A step of the call at work leaves an interrupted one alone.
LEMMA Stepped ==
  ASSUME AtomicTypeOK, stack # <<>>, NEW c \in Calls,
         stack' = [stack EXCEPT ![Len(stack)] = c]
  PROVE  /\ stack' \in Seq(Calls) /\ Len(stack') = Len(stack) /\ stack' # <<>>
         /\ DOMAIN stack' = DOMAIN stack /\ Top' = c
         /\ \A n \in DOMAIN stack : stack'[n] = IF n = Len(stack) THEN c ELSE stack[n]
  <1>1. Len(stack) \in 1 .. Len(stack) /\ stack \in Seq(Calls)
    BY TopTyped DEF AtomicTypeOK
  <1> QED BY <1>1, ExceptSeq DEF Top

\* A call that moves on keeps everything but its place.
LEMMA Advanced ==
  ASSUME AtomicTypeOK, stack # <<>>,
         NEW at \in {"open", "opened", "written", "flushed", "synced", "exit"}, Advance(at)
  PROVE  /\ stack' \in Seq(Calls) /\ Len(stack') = Len(stack) /\ stack' # <<>>
         /\ DOMAIN stack' = DOMAIN stack
         /\ Top' = [Top EXCEPT !.at = at]
         /\ \A n \in DOMAIN stack : stack'[n].of = stack[n].of
  <1> DEFINE c == [Top EXCEPT !.at = at]
  <1>1. Top \in Calls
    BY TopTyped
  <1>2. c \in Calls /\ c.of = Top.of
    BY <1>1 DEF Calls
  <1>3. stack' = [stack EXCEPT ![Len(stack)] = c]
    BY DEF Advance, Top
  <1> HIDE DEF c
  <1>4. /\ stack' \in Seq(Calls) /\ Len(stack') = Len(stack) /\ stack' # <<>>
        /\ DOMAIN stack' = DOMAIN stack /\ Top' = c
        /\ \A n \in DOMAIN stack : stack'[n] = IF n = Len(stack) THEN c ELSE stack[n]
    BY <1>2, <1>3, Stepped
  <1>5. \A n \in DOMAIN stack : stack'[n].of = stack[n].of
    BY <1>2, <1>4 DEF Top
  <1> QED BY <1>4, <1>5 DEF c

\* The temporary file opened is the one left over, or a new one.
LEMMA Opened ==
  ASSUME AtomicTypeOK, Apart, OpenTmp
  PROVE  \E i \in Inodes :
           /\ i # NoInode /\ i # dir.path /\ i # dirS.path
           /\ stack # <<>> /\ Top.at = "open"
           /\ stack' \in Seq(Calls) /\ Len(stack') = Len(stack) /\ stack' # <<>>
           /\ DOMAIN stack' = DOMAIN stack
           /\ Top' = [Top EXCEPT !.at = "opened", !.inode = i]
           /\ \A n \in DOMAIN stack : stack'[n].of = stack[n].of
           /\ cache' = [cache EXCEPT ![i] = Fragment]
           /\ dir' = [dir EXCEPT !.tmp = i]
  <1>1. stack # <<>> /\ Top.at = "open" /\ Top \in Calls
    BY TopTyped DEF OpenTmp, InProgress
  <1>2. PICK i \in Inodes :
          /\ IF dir.tmp = NoInode THEN i \notin Used ELSE i = dir.tmp
          /\ stack' = [stack EXCEPT ![Len(stack)].at = "opened", ![Len(stack)].inode = i]
          /\ cache' = [cache EXCEPT ![i] = Fragment]
          /\ dir' = [dir EXCEPT !.tmp = i]
    BY DEF OpenTmp
  <1>3. i # NoInode /\ i # dir.path /\ i # dirS.path
    BY <1>2 DEF Used, Inodes, NoInode, Apart
  <1> DEFINE c == [Top EXCEPT !.at = "opened", !.inode = i]
  <1>4. c \in Calls /\ c.of = Top.of
    <2>1. i \in 0 .. NInodes
      BY AtomicAssumption DEF Inodes
    <2> QED BY <1>1, <2>1 DEF Calls
  <1>5. stack' = [stack EXCEPT ![Len(stack)] = c]
    BY <1>2 DEF Top
  <1> HIDE DEF c
  <1>6. /\ stack' \in Seq(Calls) /\ Len(stack') = Len(stack) /\ stack' # <<>>
        /\ DOMAIN stack' = DOMAIN stack /\ Top' = c
        /\ \A n \in DOMAIN stack : stack'[n] = IF n = Len(stack) THEN c ELSE stack[n]
    BY <1>1, <1>4, <1>5, Stepped
  <1>7. \A n \in DOMAIN stack : stack'[n].of = stack[n].of
    BY <1>4, <1>6 DEF Top
  <1> QED BY <1>1, <1>2, <1>3, <1>6, <1>7 DEF c

\* The handler's call goes on top of the one it interrupts.
LEMMA Interrupted ==
  ASSUME AtomicTypeOK, Sigint
  PROVE  /\ stack # <<>> /\ Len(stack) = 1 /\ file \in Handled
         /\ HandlerVersion \in 1 .. MaxSaves
         /\ stack' \in Seq(Calls) /\ Len(stack') = 2
         /\ Top' = Call("handler", HandlerVersion)
         /\ stack'[1] = stack[1] /\ stack[1] = Top
  <1>1. Len(stack) = 1 /\ file \in Handled /\ saves < MaxSaves /\ stack \in Seq(Calls)
        /\ saves \in Nat /\ stack' = Append(stack, Call("handler", HandlerVersion))
    BY AtomicAssumption DEF Sigint, AtomicTypeOK
  <1>2. stack # <<>> /\ Top \in Calls /\ stack[1] = Top
    BY <1>1, TopTyped DEF Top
  <1>3. HandlerVersion \in 1 .. MaxSaves
    BY <1>1, <1>2, AtomicAssumption DEF HandlerVersion, Calls
  <1> DEFINE c == Call("handler", HandlerVersion)
  <1>4. c \in Calls
    BY <1>3, AtomicAssumption DEF Call, Calls, NoInode
  <1> HIDE DEF c
  <1>5. /\ stack' \in Seq(Calls) /\ Len(stack') = 2 /\ stack'[2] = c
        /\ stack'[1] = stack[1]
    <2>1. stack' = Append(stack, c)
      BY <1>1 DEF c
    <2>2. /\ Append(stack, c) \in Seq(Calls) /\ Len(Append(stack, c)) = Len(stack) + 1
          /\ \A n \in 1 .. Len(stack) : Append(stack, c)[n] = stack[n]
          /\ Append(stack, c)[Len(stack) + 1] = c
      BY <1>1, <1>4, AppendProperties
    <2> QED BY <1>1, <2>1, <2>2
  <1> QED BY <1>1, <1>2, <1>3, <1>5 DEF Top, c

LEMMA ContentTypes ==
  /\ Fragment \in Contents
  /\ \A c \in Calls : Whole(c.of) \in Contents
  BY AtomicAssumption DEF Fragment, Whole, Contents, Calls

LEMMA AtomicTypesInit == ASSUME Init PROVE AtomicTypeOK /\ Apart
  BY ContentTypes, AtomicAssumption DEF Init, AtomicTypeOK, Apart, Directories, NoInode

LEMMA AtomicTypesNext ==
  ASSUME AtomicTypeOK, Apart, [Next]_vars
  PROVE  AtomicTypeOK' /\ Apart'
  <1> USE AtomicAssumption
  <1>1. CASE \E kind \in SaveKinds : Begin(kind)
    <2>1. PICK kind \in SaveKinds : Begin(kind)
      BY <1>1
    <2>2. Call(kind, saves + 1) \in Calls /\ saves + 1 \in 0 .. MaxSaves
      BY <2>1 DEF Begin, Call, Calls, NoInode, AtomicTypeOK
    <2>3. stack' \in Seq(Calls) /\ Len(stack') <= 2
      BY <2>1, <2>2 DEF Begin
    <2> QED BY <2>1, <2>2, <2>3 DEF Begin, AtomicTypeOK, Apart
  <1>2. CASE OpenTmp
    <2>1. PICK i \in Inodes :
            /\ i # NoInode /\ i # dir.path /\ i # dirS.path
            /\ stack' \in Seq(Calls) /\ Len(stack') = Len(stack)
            /\ cache' = [cache EXCEPT ![i] = Fragment]
            /\ dir' = [dir EXCEPT !.tmp = i]
      BY <1>2, Opened
    <2>2. UNCHANGED <<file, stable, dirS, saves>>
      BY <1>2 DEF OpenTmp
    <2>3. cache' \in [Inodes -> Contents]
      BY <2>1, ContentTypes DEF AtomicTypeOK
    <2>4. dir' \in Directories /\ dir'.tmp = i /\ dir'.path = dir.path
      <3>1. i \in 0 .. NInodes /\ dir \in Directories
        BY DEF AtomicTypeOK, Inodes
      <3> QED BY <2>1, <3>1 DEF Directories
    <2> QED BY <2>1, <2>2, <2>3, <2>4 DEF AtomicTypeOK, Apart
  <1>3. CASE Write \/ Flush \/ Fsync
    <2>1. stack # <<>> /\ Top \in Calls
      BY <1>3, TopTyped DEF Write, Flush, Fsync, InProgress
    <2>2. stack' \in Seq(Calls) /\ Len(stack') = Len(stack)
      BY <1>3, <2>1, Advanced DEF Write, Flush, Fsync
    <2>3. /\ UNCHANGED <<file, dir, dirS, saves>>
          /\ cache' = cache \/ cache' = [cache EXCEPT ![Top.inode] = Whole(Top.of)]
          /\ stable' = stable \/ stable' = [stable EXCEPT ![Top.inode] = cache[Top.inode]]
      BY <1>3 DEF Write, Flush, Fsync, Fill, Sync
    <2>4. cache' \in [Inodes -> Contents]
      <3>1. Whole(Top.of) \in Contents
        BY <2>1, ContentTypes
      <3> QED BY <2>3, <3>1 DEF AtomicTypeOK
    <2>5. stable' \in [Inodes -> Contents]
      BY <2>3 DEF AtomicTypeOK
    <2> QED BY <2>2, <2>3, <2>4, <2>5 DEF AtomicTypeOK, Apart
  <1>4. CASE Replace
    <2>1. stack # <<>> /\ Top \in Calls
      BY <1>4, TopTyped DEF Replace, InProgress
    <2>2. stack' \in Seq(Calls) /\ Len(stack') <= 2
      <3>1. CASE Advance("exit")
        BY <2>1, <3>1, Advanced DEF AtomicTypeOK
      <3>2. CASE stack' = <<>>
        BY <3>2
      <3> QED BY <1>4, <3>1, <3>2 DEF Replace
    <2>3. dir' \in Directories /\ dir'.tmp = NoInode
      BY <1>4, <2>1 DEF Replace, Rename, Directories, NoInode, Calls
    <2> QED BY <1>4, <2>2, <2>3 DEF Replace, AtomicTypeOK, Apart
  <1>5. CASE Unwind \/ Kill \/ PowerLoss
    <2>1. stack' \in Seq(Calls) /\ Len(stack') <= 2
      <3>1. stack' = <<>>
        BY <1>5 DEF Unwind, Kill, PowerLoss
      <3> QED BY <3>1
    <2>2. cache' \in [Inodes -> Contents]
      BY <1>5, ContentTypes DEF Unwind, Kill, PowerLoss, AtomicTypeOK
    <2>3. UNCHANGED <<file, stable, dirS, saves>> /\ (dir' = dir \/ dir' = dirS)
      BY <1>5 DEF Unwind, Kill, PowerLoss
    <2> QED BY <2>1, <2>2, <2>3 DEF AtomicTypeOK, Apart
  <1>6. CASE Sigint
    <2>1. saves' \in 0 .. MaxSaves
      BY <1>6, Interrupted DEF Sigint, AtomicTypeOK
    <2> QED BY <1>6, <2>1, Interrupted DEF Sigint, AtomicTypeOK, Apart
  <1>7. CASE CommitDirectory
    BY <1>7 DEF CommitDirectory, AtomicTypeOK, Apart
  <1>8. CASE \E i \in Inodes : WriteBack(i)
    BY <1>8 DEF WriteBack, AtomicTypeOK, Apart
  <1>9. CASE UNCHANGED vars
    BY <1>9 DEF vars, AtomicTypeOK, Apart
  <1> QED BY <1>1, <1>2, <1>3, <1>4, <1>5, <1>6, <1>7, <1>8, <1>9 DEF Next

\* Type correctness of the file system and of the calls in progress; a temporary file
\* is never also the file in place.
THEOREM AtomicTypes == Spec => []AtomicTypeOK
  BY AtomicTypesInit, AtomicTypesNext, PTL DEF Spec

-------------------------------------------------------------------------------
(* The atomic save: what is in place.                                      *)

\* The files for which the promise holds: not both small enough for the buffer of the
\* file object and saved by the SIGINT handler.
Plain == file \notin InBuffer \cap Handled

\* Versions are handed out in order, and the call at work has one not yet in place.
Below ==
  /\ View(dir, cache) <= saves /\ View(dirS, stable) <= saves
  /\ \A n \in DOMAIN stack : stack[n].of <= saves
  /\ stack # <<>> /\ Top.at # "exit" => View(dir, cache) < Top.of

\* What is in place is whole, in the cache and on the disk.
InPlace ==
  /\ dir.path # NoInode => cache[dir.path] = stable[dir.path] /\ cache[dir.path].whole
  /\ dirS.path # NoInode => cache[dirS.path] = stable[dirS.path] /\ cache[dirS.path].whole

\* The call at work writes the temporary file, which is whole before it is renamed.
InHand ==
  /\ Len(stack) = 2 => file \in Handled
  /\ Len(stack) = 1 => Top.at # "exit"
  /\ stack # <<>> =>
       /\ Top.at \notin {"open", "exit"} => Top.inode # NoInode /\ Top.inode = dir.tmp
       /\ Top.at \in {"flushed", "synced"} => cache[Top.inode] = Whole(Top.of)
       /\ Top.at = "synced" => stable[Top.inode] = Whole(Top.of)

AtomicInv == AtomicTypeOK /\ Apart /\ Plain /\ Below /\ InPlace /\ InHand

\* What is in place is an inode.
LEMMA PlacesTyped ==
  ASSUME AtomicTypeOK
  PROVE  \A p \in {dir.path, dirS.path} : p # NoInode => p \in Inodes
  <1>1. dir.path \in 0 .. NInodes /\ dirS.path \in 0 .. NInodes
    BY DEF AtomicTypeOK, Directories
  <1> QED BY <1>1, AtomicAssumption DEF NoInode, Inodes

\* The views are versions.
LEMMA ViewTypes ==
  ASSUME AtomicTypeOK
  PROVE  View(dir, cache) \in Nat /\ View(dirS, stable) \in Nat
  <1>1. \A i \in Inodes : cache[i].of \in Nat /\ stable[i].of \in Nat
    BY DEF AtomicTypeOK, Contents
  <1> QED BY <1>1, PlacesTyped DEF View

LEMMA AtomicInitInv == ASSUME Init, Plain PROVE AtomicInv
  <1>1. AtomicTypeOK /\ Apart
    BY AtomicTypesInit
  <1>2. View(dir, cache) = 0 /\ View(dirS, stable) = 0
    BY DEF Init, View
  <1> QED BY <1>1, <1>2 DEF Init, AtomicInv, Below, InPlace, InHand, NoInode

\* A change of the cache or of the disk away from what is in place is not seen.
LEMMA Elsewhere ==
  ASSUME AtomicInv, NEW i \in Inodes, i # dir.path, i # dirS.path,
         NEW a, NEW b,
         cache' = [cache EXCEPT ![i] = a], stable' = [stable EXCEPT ![i] = b],
         dir'.path = dir.path, dirS' = dirS
  PROVE  /\ InPlace' /\ UNCHANGED <<View(dir, cache), View(dirS, stable)>>
         /\ cache'[i] = a /\ stable'[i] = b
  <1>1. DOMAIN cache = Inodes /\ DOMAIN stable = Inodes
    BY DEF AtomicInv, AtomicTypeOK
  <1>2. cache'[i] = a /\ stable'[i] = b
    BY <1>1
  <1>3. \A j \in Inodes : j # i => cache'[j] = cache[j] /\ stable'[j] = stable[j]
    BY <1>1
  <1>4. \A p \in {dir.path, dirS.path} :
          p # NoInode => cache'[p] = cache[p] /\ stable'[p] = stable[p]
    BY <1>3, PlacesTyped DEF AtomicInv
  <1> QED BY <1>2, <1>4 DEF AtomicInv, InPlace, View

\* A step that leaves what is in place alone is not seen.
LEMMA Unseen ==
  ASSUME AtomicInv, UNCHANGED <<View(dir, cache), View(dirS, stable)>>
  PROVE  UNCHANGED File!vars
  BY DEF File!vars

\* The steps that prepare a save, one by one.
LEMMA PrepareInv ==
  ASSUME AtomicInv, OpenTmp \/ Write \/ Flush \/ Fsync
  PROVE  /\ Below' /\ InPlace' /\ InHand'
         /\ UNCHANGED <<View(dir, cache), View(dirS, stable)>>
  <1>1. CASE OpenTmp
    <2>1. PICK i \in Inodes :
            /\ i # NoInode /\ i # dir.path /\ i # dirS.path
            /\ stack # <<>> /\ Top.at = "open"
            /\ Len(stack') = Len(stack) /\ stack' # <<>> /\ DOMAIN stack' = DOMAIN stack
            /\ Top' = [Top EXCEPT !.at = "opened", !.inode = i]
            /\ \A n \in DOMAIN stack : stack'[n].of = stack[n].of
            /\ cache' = [cache EXCEPT ![i] = Fragment]
            /\ dir' = [dir EXCEPT !.tmp = i]
      BY <1>1, Opened DEF AtomicInv
    <2>2. UNCHANGED <<file, stable, dirS, saves>>
      BY <1>1 DEF OpenTmp
    <2>3. Top \in Calls /\ dir \in Directories
      BY <2>1, TopTyped DEF AtomicInv, AtomicTypeOK
    <2>4. dir'.path = dir.path /\ dir'.tmp = i
      BY <2>1, <2>3 DEF Directories
    <2>5. Top'.at = "opened" /\ Top'.inode = i /\ Top'.of = Top.of
      BY <2>1, <2>3 DEF Calls
    <2>6. stable' = [stable EXCEPT ![i] = stable[i]]
      BY <2>2 DEF AtomicInv, AtomicTypeOK
    <2>7. InPlace' /\ UNCHANGED <<View(dir, cache), View(dirS, stable)>>
      BY <2>1, <2>2, <2>4, <2>6, Elsewhere
    <2>8. Below'
      BY <2>1, <2>2, <2>5, <2>7 DEF AtomicInv, Below
    <2>9. InHand'
      BY <2>1, <2>2, <2>4, <2>5 DEF AtomicInv, InHand
    <2> QED BY <2>7, <2>8, <2>9
  <1>2. CASE Write \/ Flush \/ Fsync
    <2> DEFINE i == Top.inode
    <2>1. /\ stack # <<>> /\ Top \in Calls /\ Top.at \in {"opened", "written", "flushed"}
          /\ UNCHANGED <<file, dir, dirS, saves>>
      BY <1>2, TopTyped DEF AtomicInv, Write, Flush, Fsync, InProgress
    <2>2. i # NoInode /\ i = dir.tmp /\ i \in Inodes /\ i # dir.path /\ i # dirS.path
      <3>1. i # NoInode /\ i = dir.tmp
        BY <2>1 DEF AtomicInv, InHand
      <3>2. i \in 0 .. NInodes
        BY <2>1 DEF Calls
      <3> QED BY <3>1, <3>2, AtomicAssumption DEF AtomicInv, Apart, Inodes, NoInode
    <2>3. \E at \in {"written", "flushed", "synced"} :
            /\ Advance(at)
            /\ at = "written" => UNCHANGED stable /\ (UNCHANGED cache \/ Fill(i))
            /\ at = "flushed" => UNCHANGED stable /\ Fill(i)
            /\ at = "synced"  => Top.at = "flushed" /\ UNCHANGED cache
                                 /\ stable' = [stable EXCEPT ![i] = cache[i]]
      BY <1>2 DEF Write, Flush, Fsync, InProgress, Sync
    <2>4. PICK at \in {"written", "flushed", "synced"} :
            /\ Advance(at)
            /\ at = "written" => UNCHANGED stable /\ (UNCHANGED cache \/ Fill(i))
            /\ at = "flushed" => UNCHANGED stable /\ Fill(i)
            /\ at = "synced"  => Top.at = "flushed" /\ UNCHANGED cache
                                 /\ stable' = [stable EXCEPT ![i] = cache[i]]
      BY <2>3
    <2>5. /\ Len(stack') = Len(stack) /\ stack' # <<>>
          /\ DOMAIN stack' = DOMAIN stack
          /\ Top' = [Top EXCEPT !.at = at]
          /\ \A n \in DOMAIN stack : stack'[n].of = stack[n].of
      BY <2>1, <2>4, Advanced DEF AtomicInv
    <2>6. Top'.at = at /\ Top'.inode = i /\ Top'.of = Top.of
      BY <2>1, <2>5 DEF Calls
    <2>7. /\ cache \in [Inodes -> Contents] /\ stable \in [Inodes -> Contents]
          /\ cache = [cache EXCEPT ![i] = cache[i]] /\ stable = [stable EXCEPT ![i] = stable[i]]
      BY DEF AtomicInv, AtomicTypeOK
    <2>8. PICK a, b : cache' = [cache EXCEPT ![i] = a] /\ stable' = [stable EXCEPT ![i] = b]
      <3>1. cache' = [cache EXCEPT ![i] = cache[i]] \/ cache' = [cache EXCEPT ![i] = Whole(Top.of)]
        BY <2>4, <2>7 DEF Fill
      <3>2. stable' = [stable EXCEPT ![i] = stable[i]] \/ stable' = [stable EXCEPT ![i] = cache[i]]
        BY <2>4, <2>7
      <3> QED BY <3>1, <3>2
    <2> HIDE DEF i
    <2>9. /\ InPlace' /\ UNCHANGED <<View(dir, cache), View(dirS, stable)>>
      BY <2>1, <2>2, <2>8, Elsewhere
    <2>10. Below'
      BY <2>1, <2>5, <2>6, <2>9 DEF AtomicInv, Below
    <2>11. at = "flushed" => cache'[i] = Whole(Top.of)
      BY <2>2, <2>4, <2>7 DEF Fill
    <2>12. at = "synced" => cache'[i] = Whole(Top.of) /\ stable'[i] = Whole(Top.of)
      <3>1. Top.at = "flushed" => cache[i] = Whole(Top.of)
        BY <2>1 DEF AtomicInv, InHand, i
      <3> QED BY <2>2, <2>4, <2>7, <3>1
    <2>13. InHand'
      BY <2>1, <2>2, <2>4, <2>5, <2>6, <2>11, <2>12 DEF AtomicInv, InHand, Whole
    <2> QED BY <2>9, <2>10, <2>13
  <1> QED BY <1>1, <1>2

\* The rename puts a whole and newer version in place.
LEMMA ReplaceInv ==
  ASSUME AtomicInv, Replace
  PROVE  Below' /\ InPlace' /\ InHand' /\ File!Replace
  <1>1. /\ stack # <<>> /\ Top.at = "synced" /\ Top \in Calls /\ Len(stack) \in 1 .. 2
        /\ dir' = [path |-> Top.inode, tmp |-> NoInode]
        /\ IF Len(stack) = 1 THEN stack' = <<>> ELSE Advance("exit")
        /\ UNCHANGED <<file, cache, stable, dirS, saves>>
    BY TopTyped DEF AtomicInv, Replace, InProgress, Rename
  <1>2. /\ Top.inode # NoInode /\ Top.inode = dir.tmp /\ cache[Top.inode] = Whole(Top.of)
        /\ stable[Top.inode] = Whole(Top.of) /\ Top.inode # dirS.path
    BY <1>1 DEF AtomicInv, InHand, Apart
  <1>3. /\ View(dir, cache)' = Top.of /\ View(dirS, stable)' = View(dirS, stable)
        /\ View(dir, cache) < Top.of /\ Top.of \in Nat /\ Top.of <= saves
    <2>1. View(dir, cache)' = Top.of
      BY <1>1, <1>2 DEF View, Whole
    <2>2. View(dirS, stable)' = View(dirS, stable)
      BY <1>1 DEF View
    <2>3. View(dir, cache) < Top.of /\ Top.of \in Nat
      BY <1>1 DEF AtomicInv, Below, Calls
    <2>4. Top.of <= saves
      <3>1. Len(stack) \in DOMAIN stack
        BY <1>1, TopTyped DEF AtomicInv
      <3> QED BY <3>1 DEF AtomicInv, Below, Top
    <2> QED BY <2>1, <2>2, <2>3, <2>4
  <1>4. InPlace'
    BY <1>1, <1>2 DEF AtomicInv, InPlace, Whole
  <1>5. CASE stack' = <<>>
    BY <1>1, <1>3, <1>4, <1>5 DEF AtomicInv, Below, InHand, File!Replace
  <1>6. CASE Advance("exit") /\ Len(stack) = 2
    <2>1. /\ Len(stack') = Len(stack) /\ DOMAIN stack' = DOMAIN stack
          /\ Top' = [Top EXCEPT !.at = "exit"]
          /\ \A n \in DOMAIN stack : stack'[n].of = stack[n].of
      BY <1>1, <1>6, Advanced DEF AtomicInv
    <2>2. Top'.at = "exit"
      BY <1>1, <2>1 DEF Calls
    <2> QED BY <1>1, <1>3, <1>4, <1>6, <2>1, <2>2 DEF AtomicInv, Below, InHand, File!Replace
  <1> QED BY <1>1, <1>5, <1>6

\* A save is interrupted by a newer one, or by the same one once more.
LEMMA SigintInv ==
  ASSUME AtomicInv, Sigint
  PROVE  /\ Below' /\ InPlace' /\ InHand'
         /\ UNCHANGED <<View(dir, cache), View(dirS, stable)>>
  <1>1. /\ stack # <<>> /\ Len(stack) = 1 /\ file \in Handled
        /\ Len(stack') = 2 /\ stack' \in Seq(Calls)
        /\ Top' = Call("handler", HandlerVersion)
        /\ stack'[1] = stack[1] /\ stack[1] = Top
    BY Interrupted DEF AtomicInv
  <1>2. /\ UNCHANGED <<file, cache, stable, dir, dirS>>
        /\ saves' = IF HandlerVersion > saves THEN HandlerVersion ELSE saves
        /\ saves \in Nat /\ Top \in Calls
    BY <1>1, TopTyped, AtomicAssumption DEF Sigint, AtomicInv, AtomicTypeOK
  <1>3. UNCHANGED <<View(dir, cache), View(dirS, stable)>>
    BY <1>2 DEF View
  <1>4. Top.at # "exit" /\ View(dir, cache) < Top.of /\ Top.of <= saves
    BY <1>1 DEF AtomicInv, InHand, Below
  <1>5. /\ HandlerVersion \in Nat /\ View(dir, cache) < HandlerVersion
        /\ saves' \in Nat /\ saves <= saves' /\ HandlerVersion <= saves'
    BY <1>2, <1>4, ViewTypes DEF HandlerVersion, Calls, AtomicInv
  <1>6. Top'.at = "open" /\ Top'.of = HandlerVersion
    BY <1>1 DEF Call
  <1>7. \A n \in DOMAIN stack' : stack'[n].of <= saves'
    <2>1. DOMAIN stack' = {1, 2} /\ stack'[2] = Top'
      BY <1>1 DEF Top
    <2>2. stack'[1].of <= saves' /\ stack'[2].of <= saves'
      BY <1>1, <1>2, <1>4, <1>5, <1>6, <2>1 DEF Calls
    <2> QED BY <2>1, <2>2
  <1>8. Below'
    <2>1. View(dir, cache) <= saves' /\ View(dirS, stable) <= saves'
      BY <1>2, <1>5, ViewTypes DEF AtomicInv, Below
    <2> QED BY <1>3, <1>5, <1>6, <1>7, <2>1 DEF Below
  <1> QED BY <1>1, <1>2, <1>3, <1>6, <1>8 DEF AtomicInv, InPlace, InHand

\* The disk catches up, or the cache is lost: what is in place is the same on both.
LEMMA DiskInv ==
  ASSUME AtomicInv, PowerLoss \/ CommitDirectory \/ \E i \in Inodes : WriteBack(i)
  PROVE  Below' /\ InPlace' /\ InHand' /\ [File!Next]_(File!vars)
  <1>1. CASE PowerLoss
    <2>1. /\ stack' = <<>> /\ cache' = stable /\ dir' = dirS
          /\ UNCHANGED <<file, stable, dirS, saves>>
      BY <1>1 DEF PowerLoss
    <2>2. View(dir, cache)' = View(dirS, stable) /\ View(dirS, stable)' = View(dirS, stable)
      BY <2>1 DEF View
    <2> QED BY <2>1, <2>2 DEF AtomicInv, Below, InPlace, InHand, File!Next, File!PowerLoss
  <1>2. CASE CommitDirectory
    <2>1. dirS' = dir /\ UNCHANGED <<file, stack, cache, stable, dir, saves>>
      BY <1>2 DEF CommitDirectory
    <2>2. View(dir, cache)' = View(dir, cache) /\ View(dirS, stable)' = View(dir, cache)
      BY <2>1 DEF View, AtomicInv, InPlace
    <2>3. Top' = Top
      BY <2>1 DEF Top
    <2> QED BY <2>1, <2>2, <2>3 DEF AtomicInv, Below, InPlace, InHand, File!Next, File!Persist
  <1>3. CASE \E i \in Inodes : WriteBack(i)
    <2>1. PICK i \in Inodes : WriteBack(i)
      BY <1>3
    <2>2. /\ stable' = [stable EXCEPT ![i] = cache[i]]
          /\ UNCHANGED <<file, stack, cache, dir, dirS, saves>>
          /\ stable \in [Inodes -> Contents]
      BY <2>1 DEF WriteBack, AtomicInv, AtomicTypeOK
    <2>3. \A j \in Inodes : cache[j] = stable[j] => stable'[j] = cache[j]
      BY <2>2
    <2>4. \A p \in {dir.path, dirS.path} : p # NoInode => stable'[p] = cache[p]
      BY <2>3, PlacesTyped DEF AtomicInv, InPlace
    <2>5. UNCHANGED <<View(dir, cache), View(dirS, stable)>> /\ InPlace'
      BY <2>2, <2>4 DEF AtomicInv, InPlace, View
    <2>6. Top' = Top /\ (stack # <<>> => Top \in Calls)
      BY <2>2, TopTyped DEF Top, AtomicInv
    <2>7. stack # <<>> /\ Top.at = "synced" => stable'[Top.inode] = Whole(Top.of)
      <3>1. SUFFICES ASSUME stack # <<>>, Top.at = "synced" PROVE stable'[Top.inode] = Whole(Top.of)
        OBVIOUS
      <3>2. cache[Top.inode] = Whole(Top.of) /\ stable[Top.inode] = Whole(Top.of) /\ Top.inode # NoInode
        BY <3>1 DEF AtomicInv, InHand
      <3>3. Top.inode \in Inodes
        BY <2>6, <3>1, <3>2, AtomicAssumption DEF Calls, Inodes, NoInode
      <3> QED BY <2>3, <3>2, <3>3
    <2> QED BY <2>2, <2>5, <2>6, <2>7, Unseen DEF AtomicInv, Below, InHand
  <1> QED BY <1>1, <1>2, <1>3

LEMMA AtomicNextInv ==
  ASSUME AtomicInv, [Next]_vars
  PROVE  AtomicInv' /\ [File!Next]_(File!vars)
  <1>1. AtomicTypeOK' /\ Apart'
    BY AtomicTypesNext DEF AtomicInv
  <1>2. Plain'
    <2>1. file' = file
      BY DEF Next, Begin, OpenTmp, Write, Flush, Fsync, Replace, Unwind, Sigint, Kill, PowerLoss,
             CommitDirectory, WriteBack, vars
    <2> QED BY <2>1 DEF AtomicInv, Plain
  <1> SUFFICES Below' /\ InPlace' /\ InHand' /\ [File!Next]_(File!vars)
    BY <1>1, <1>2 DEF AtomicInv
  <1>3. CASE \E kind \in SaveKinds : Begin(kind)
    <2>1. PICK kind \in SaveKinds : Begin(kind)
      BY <1>3
    <2>2. /\ stack' = <<Call(kind, saves + 1)>> /\ saves' = saves + 1 /\ saves \in Nat
          /\ UNCHANGED <<file, cache, stable, dir, dirS>>
      BY <2>1, AtomicAssumption DEF Begin, AtomicInv, AtomicTypeOK
    <2>3. UNCHANGED <<View(dir, cache), View(dirS, stable)>>
      BY <2>2 DEF View
    <2>4. Top'.of = saves + 1 /\ Top'.at = "open"
      BY <2>2 DEF Top, Call
    <2>5. Below'
      BY <2>2, <2>3, <2>4, ViewTypes DEF AtomicInv, Below, Call
    <2> QED BY <2>2, <2>3, <2>4, <2>5, Unseen DEF AtomicInv, InPlace, InHand
  <1>4. CASE OpenTmp \/ Write \/ Flush \/ Fsync
    BY <1>4, PrepareInv, Unseen
  <1>5. CASE Replace
    BY <1>5, ReplaceInv DEF File!Next
  <1>6. CASE Sigint
    BY <1>6, SigintInv, Unseen
  <1>7. CASE Unwind \/ Kill
    <2>1. stack' = <<>> /\ UNCHANGED <<file, cache, stable, dir, dirS, saves>>
      <3>1. CASE Kill
        BY <3>1 DEF Kill
      <3>2. CASE Unwind
        <4>1. Len(stack) = 2
          BY <3>2, TopTyped DEF Unwind, InProgress, AtomicInv, InHand
        <4>2. file \notin InBuffer
          BY <4>1 DEF AtomicInv, InHand, Plain
        <4> QED BY <3>2, <4>2 DEF Unwind
      <3> QED BY <1>7, <3>1, <3>2
    <2>2. UNCHANGED <<View(dir, cache), View(dirS, stable)>>
      BY <2>1 DEF View
    <2> QED BY <2>1, <2>2, Unseen DEF AtomicInv, Below, InPlace, InHand
  <1>8. CASE PowerLoss \/ CommitDirectory \/ \E i \in Inodes : WriteBack(i)
    BY <1>8, DiskInv
  <1>9. CASE UNCHANGED vars
    <2>1. UNCHANGED <<View(dir, cache), View(dirS, stable)>> /\ Top' = Top
      BY <1>9 DEF vars, View, Top
    <2> QED BY <1>9, <2>1, Unseen DEF vars, AtomicInv, Below, InPlace, InHand
  <1> QED BY <1>3, <1>4, <1>5, <1>6, <1>7, <1>8, <1>9 DEF Next

\* The inductive invariant of the atomic save.
THEOREM AtomicInvariant == Spec /\ Plain => []AtomicInv
  BY AtomicInitInv, AtomicNextInv, PTL DEF Spec

\* A reader of a file that is not both small and saved by the SIGINT handler sees it
\* whole, with a kill, a power loss or a re-entrant save at any point.
THEOREM AtomicReaderSeesWholeFile == Spec /\ Plain => []ReaderSeesWholeFile
  <1>1. AtomicInv => ReaderSeesWholeFile
    BY DEF AtomicInv, InPlace, ReaderSeesWholeFile
  <1> QED BY <1>1, AtomicInvariant, PTL

\* Such a file is only ever replaced as a whole and by a newer version; a power loss
\* alone brings an older one back.
THEOREM AtomicImplementsFile == Spec /\ Plain => ImplementsAtomicFile
  <1>1. Init => File!Init
    BY DEF Init, View, File!Init
  <1> QED
    BY <1>1, AtomicNextInv, AtomicInvariant, PTL DEF Spec, ImplementsAtomicFile, File!Spec

-------------------------------------------------------------------------------
(* The run directory.                                                      *)

\* The file is that of this run, with all that was recorded for it.
Wrote(f) == f \in Artifacts => root[f] = [run |-> run, rows |-> rows[f]]

\* How far finalize has come.
Walk ==
  /\ phase # "off" => run \in 1 .. MaxRuns
  /\ phase = "writing" => Paths[next] \in Artifacts
  /\ phase \in {"opening", "writing"} => \A i \in 1 .. next - 1 : Wrote(Paths[i])
  /\ phase \in {"opening_manifest", "writing_manifest"} => \A f \in Names : Wrote(f)

\* Every manifest that was completed is of one run, whether it still verifies or not.
ManifestIsOneRun ==
  manifest \notin {Missing, Torn} =>
    /\ \E r \in 1 .. MaxRuns : \A f \in DOMAIN manifest : manifest[f] \in Content /\ manifest[f].run = r
    /\ Names \ {"safety_log"} \subseteq DOMAIN manifest

\* After a finalize nothing has happened.
Returned == finalized => phase = "recording"

ArtifactsInv == ArtifactsTypeOK /\ Walk /\ ManifestIsOneRun /\ Returned /\ FinalizedIsVerified

\* The seven files, each once.
LEMMA SevenPaths ==
  /\ DOMAIN Paths = 1 .. 7 /\ Names = {Paths[i] : i \in 1 .. 7}
  /\ \A i \in 1 .. 7 : Paths[i] \in Names
  /\ \A i, j \in 1 .. 7 : Paths[i] = Paths[j] => i = j
  /\ \A f \in Names : \E i \in 1 .. 7 : f = Paths[i]
  BY DEF Paths, Names

LEMMA ArtifactsInitInv == ASSUME ArtifactsInit PROVE ArtifactsInv
  <1>1. ArtifactsTypeOK
    <2>1. root \in [Names -> Content \cup {Torn, Missing}] /\ rows \in [Names -> 0 .. MaxRows]
      BY ArtifactsAssumption DEF ArtifactsInit
    <2>2. run \in 0 .. MaxRuns /\ next \in 1 .. 7
      BY ArtifactsAssumption DEF ArtifactsInit
    <2>3. is_safety_run \in BOOLEAN /\ finalized \in BOOLEAN
      BY Zenon DEF ArtifactsInit
    <2> QED BY <2>1, <2>2, <2>3 DEF ArtifactsInit, ArtifactsTypeOK
  <1> QED
    BY <1>1 DEF ArtifactsInit, ArtifactsInv, Walk, ManifestIsOneRun, Returned, FinalizedIsVerified

\* Past a file that is done, finalize goes to the next one or to the manifest.
LEMMA WalkOn ==
  ASSUME ArtifactsTypeOK, phase \in {"opening", "writing"}, NextFile,
         \A i \in 1 .. next - 1 : Wrote(Paths[i]), Wrote(Paths[next])
  PROVE  /\ next' \in 1 .. 7 /\ phase' \in {"opening", "opening_manifest"}
         /\ phase' = "opening" => \A i \in 1 .. next' - 1 : Wrote(Paths[i])
         /\ phase' = "opening_manifest" => \A f \in Names : Wrote(f)
  <1>1. next \in 1 .. 7
    BY DEF ArtifactsTypeOK
  <1>2. \A i \in 1 .. next : Wrote(Paths[i])
    BY <1>1
  <1>3. CASE next = 7
    <2>1. \A f \in Names : Wrote(f)
      BY <1>2, <1>3, SevenPaths
    <2> QED BY <1>3, <2>1 DEF NextFile
  <1>4. CASE next # 7
    <2>1. next' = next + 1 /\ phase' = "opening"
      BY <1>4 DEF NextFile
    <2> QED BY <1>1, <1>2, <1>4, <2>1
  <1> QED BY <1>3, <1>4

\* A file is written with the rows recorded for it, and no other file is touched.
LEMMA WriteFileInv == ASSUME ArtifactsInv, WriteFile PROVE ArtifactsInv'
  <1>1. /\ phase = "writing" /\ next \in 1 .. 7 /\ Paths[next] \in Names
        /\ Paths[next] \in Artifacts
        /\ root' = [root EXCEPT ![Paths[next]] = [run |-> run, rows |-> rows[Paths[next]]]]
        /\ NextFile
        /\ UNCHANGED <<manifest, run, is_safety_run, rows, finalized>>
        /\ finalized = FALSE
    BY SevenPaths DEF ArtifactsInv, ArtifactsTypeOK, Walk, WriteFile, Returned
  <1>2. PICK p \in Names : p = Paths[next]
    BY <1>1
  <1>3. [run |-> run, rows |-> rows[p]] \in Content
    BY <1>1, <1>2 DEF ArtifactsInv, ArtifactsTypeOK, Walk, Content
  <1>4. /\ root' \in [Names -> Content \cup {Torn, Missing}]
        /\ root'[p] = [run |-> run, rows |-> rows[p]]
        /\ \A f \in Names : f # p => root'[f] = root[f]
    BY <1>1, <1>2, <1>3 DEF ArtifactsInv, ArtifactsTypeOK
  <1>5. Artifacts' = Artifacts
    BY <1>1 DEF Artifacts
  <1>6. Wrote(p)'
    BY <1>1, <1>4 DEF Wrote
  <1>7. ASSUME NEW f \in Names, Wrote(f) PROVE Wrote(f)'
    <2>1. CASE f = p
      BY <1>6, <2>1
    <2>2. CASE f # p
      BY <1>1, <1>4, <1>5, <1>7, <2>2 DEF Wrote
    <2> QED BY <2>1, <2>2
  <1>8. \A i \in 1 .. next : Wrote(Paths[i])'
    <2>1. ASSUME NEW i \in 1 .. next PROVE Wrote(Paths[i])'
      <3>1. CASE i = next
        BY <1>2, <1>6, <3>1
      <3>2. CASE i # next
        <4>1. i \in 1 .. 7 /\ i \in 1 .. next - 1
          BY <1>1, <3>2
        <4>2. Paths[i] \in Names /\ Wrote(Paths[i])
          BY <1>1, <4>1, SevenPaths DEF ArtifactsInv, Walk
        <4> QED BY <1>7, <4>2
      <3> QED BY <3>1, <3>2
    <2> QED BY <2>1
  <1>9. CASE next = 7
    <2>1. phase' = "opening_manifest" /\ next' = next
      BY <1>1, <1>9 DEF NextFile
    <2>2. \A f \in Names : Wrote(f)'
      BY <1>8, <1>9, SevenPaths
    <2> QED
      BY <1>1, <1>4, <2>1, <2>2
      DEF ArtifactsInv, ArtifactsTypeOK, Walk, ManifestIsOneRun, Returned, FinalizedIsVerified
  <1>10. CASE next # 7
    <2>1. phase' = "opening" /\ next' = next + 1
      BY <1>1, <1>10 DEF NextFile
    <2>2. \A i \in 1 .. next' - 1 : Wrote(Paths[i])'
      BY <1>1, <1>8, <2>1
    <2> QED
      BY <1>1, <1>4, <1>10, <2>1, <2>2
      DEF ArtifactsInv, ArtifactsTypeOK, Walk, ManifestIsOneRun, Returned, FinalizedIsVerified
  <1> QED BY <1>9, <1>10

\* Opening a file empties it: those written before it stay.
LEMMA OpenFileInv == ASSUME ArtifactsInv, OpenFile PROVE ArtifactsInv'
  <1> DEFINE p == Paths[next]
  <1>1. /\ phase = "opening" /\ phase' = "writing" /\ next \in 1 .. 7 /\ p \in Names
        /\ p \in Artifacts /\ root' = [root EXCEPT ![p] = Torn]
        /\ UNCHANGED <<manifest, run, is_safety_run, rows, next, finalized>>
        /\ finalized = FALSE
    BY SevenPaths DEF ArtifactsInv, ArtifactsTypeOK, OpenFile, Returned
  <1>2. root' \in [Names -> Content \cup {Torn, Missing}]
        /\ \A f \in Names : f # p => root'[f] = root[f]
    BY <1>1 DEF ArtifactsInv, ArtifactsTypeOK
  <1>3. Artifacts' = Artifacts
    BY <1>1 DEF Artifacts
  <1>4. \A i \in 1 .. next - 1 : Wrote(Paths[i])'
    <2>1. \A i \in 1 .. next - 1 : Paths[i] \in Names /\ Paths[i] # p /\ Wrote(Paths[i])
      BY <1>1, SevenPaths DEF ArtifactsInv, Walk
    <2> QED BY <1>1, <1>2, <1>3, <2>1 DEF Wrote
  <1> QED
    BY <1>1, <1>2, <1>3, <1>4
    DEF ArtifactsInv, ArtifactsTypeOK, Walk, ManifestIsOneRun, Returned, FinalizedIsVerified

\* The safety log of an ordinary run is passed over.
LEMMA SkipFileInv == ASSUME ArtifactsInv, SkipFile PROVE ArtifactsInv'
  <1>1. /\ phase = "opening" /\ Paths[next] \notin Artifacts /\ NextFile
        /\ UNCHANGED <<root, manifest, run, is_safety_run, rows, finalized>>
        /\ finalized = FALSE
    BY DEF ArtifactsInv, SkipFile, Returned
  <1>2. /\ next' \in 1 .. 7 /\ phase' \in {"opening", "opening_manifest"}
        /\ phase' = "opening" => \A i \in 1 .. next' - 1 : Wrote(Paths[i])
        /\ phase' = "opening_manifest" => \A f \in Names : Wrote(f)
    BY <1>1, WalkOn DEF ArtifactsInv, Walk, Wrote
  <1>3. \A f : Wrote(f)' <=> Wrote(f)
    BY <1>1 DEF Wrote, Artifacts
  <1> QED
    BY <1>1, <1>2, <1>3
    DEF ArtifactsInv, ArtifactsTypeOK, Walk, ManifestIsOneRun, Returned, FinalizedIsVerified

\* The manifest is written from files that are all of this run.
LEMMA WriteManifestInv == ASSUME ArtifactsInv, WriteManifest PROVE ArtifactsInv'
  <1>1. /\ phase = "writing_manifest" /\ phase' = "recording" /\ finalized' = TRUE
        /\ manifest' = [f \in Hashed |-> root[f]]
        /\ UNCHANGED <<root, run, is_safety_run, rows, next>>
    BY DEF WriteManifest
  <1>2. /\ run \in 1 .. MaxRuns /\ rows \in [Names -> 0 .. MaxRows]
        /\ \A f \in Artifacts : root[f] = [run |-> run, rows |-> rows[f]]
        /\ Artifacts \subseteq Names
    BY <1>1 DEF ArtifactsInv, ArtifactsTypeOK, Walk, Wrote, Artifacts
  <1>3. \A f \in Artifacts : root[f] \in Content /\ root[f].run = run
    <2>1. ASSUME NEW f \in Artifacts PROVE root[f] \in Content /\ root[f].run = run
      <3>1. root[f] = [run |-> run, rows |-> rows[f]] /\ rows[f] \in 0 .. MaxRows
        BY <1>2
      <3> QED BY <1>2, <3>1 DEF Content
    <2> QED BY <2>1
  <1>4. Hashed = Artifacts
    BY <1>3, ArtifactsAssumption DEF Hashed
  <1>5. manifest' \in [Artifacts -> Content \cup {Torn}] /\ DOMAIN manifest' = Artifacts
        /\ \A f \in Artifacts : manifest'[f] = root[f]
    BY <1>1, <1>3, <1>4
  <1>6. manifest' \in Manifests
    <2>1. Artifacts \in SUBSET Names
      BY <1>2
    <2> QED BY <1>5, <2>1 DEF Manifests
  <1>7. manifest' \notin {Missing, Torn}
    BY <1>6, ArtifactsAssumption
  <1>8. Artifacts' = Artifacts
    BY <1>1 DEF Artifacts
  <1>9. FinalizedIsVerified'
    BY <1>1, <1>2, <1>5, <1>7, <1>8 DEF FinalizedIsVerified, Verified
  <1>10. ManifestIsOneRun'
    <2>1. Names \ {"safety_log"} \subseteq Artifacts
      BY DEF Artifacts
    <2>2. \A f \in DOMAIN manifest' : manifest'[f] \in Content /\ manifest'[f].run = run
      BY <1>3, <1>5
    <2> QED BY <1>2, <1>5, <2>1, <2>2 DEF ManifestIsOneRun
  <1>11. ArtifactsTypeOK'
    BY <1>1, <1>6 DEF ArtifactsInv, ArtifactsTypeOK
  <1> QED BY <1>1, <1>2, <1>9, <1>10, <1>11 DEF ArtifactsInv, Walk, Returned

LEMMA ArtifactsNextInv ==
  ASSUME ArtifactsInv, [ArtifactsNext]_artifactVars
  PROVE  ArtifactsInv'
  <1> USE ArtifactsAssumption
  <1>1. CASE Create
    <2>1. run' \in 1 .. MaxRuns /\ phase = "off" /\ phase' = "recording"
      BY <1>1 DEF Create, ArtifactsInv, ArtifactsTypeOK
    <2>2. ArtifactsTypeOK'
      BY <1>1, <2>1 DEF Create, ArtifactsInv, ArtifactsTypeOK
    <2>3. UNCHANGED <<manifest, finalized>> /\ finalized = FALSE
      BY <1>1, <2>1 DEF Create, ArtifactsInv, ArtifactsTypeOK, Returned
    <2> QED
      BY <2>1, <2>2, <2>3 DEF ArtifactsInv, Walk, ManifestIsOneRun, Returned, FinalizedIsVerified
  <1>2. CASE \E f \in Recorded : Record(f)
    <2>1. PICK f \in Recorded : Record(f)
      BY <1>2
    <2>2. f \in Names /\ rows[f] + 1 \in 0 .. MaxRows
      BY <2>1 DEF Record, ArtifactsInv, ArtifactsTypeOK
    <2>3. ArtifactsTypeOK'
      BY <2>1, <2>2 DEF Record, ArtifactsInv, ArtifactsTypeOK
    <2> QED
      BY <2>1, <2>3 DEF Record, ArtifactsInv, Walk, ManifestIsOneRun, Returned, FinalizedIsVerified
  <1>3. CASE Finalize
    <2>1. ArtifactsTypeOK'
      <3>1. finalized' \in BOOLEAN
        BY <1>3, Zenon DEF Finalize
      <3>2. next' \in 1 .. 7
        BY <1>3, SMT DEF Finalize
      <3> QED BY <1>3, <3>1, <3>2 DEF Finalize, ArtifactsInv, ArtifactsTypeOK
    <2> QED
      BY <1>3, <2>1 DEF Finalize, ArtifactsInv, Walk, ManifestIsOneRun, Returned, FinalizedIsVerified
  <1>4. CASE FinalizeStep
    <2>1. CASE OpenManifest
      <3>1. /\ phase = "opening_manifest" /\ phase' = "writing_manifest" /\ manifest' = Torn
            /\ UNCHANGED <<root, run, is_safety_run, rows, next, finalized>>
            /\ finalized = FALSE
        BY <2>1 DEF OpenManifest, ArtifactsInv, ArtifactsTypeOK, Returned
      <3>2. \A f : Wrote(f)' <=> Wrote(f)
        BY <3>1 DEF Wrote, Artifacts
      <3> QED
        BY <3>1, <3>2
        DEF ArtifactsInv, ArtifactsTypeOK, Walk, ManifestIsOneRun, Returned, FinalizedIsVerified
    <2> QED
      BY <1>4, <2>1, OpenFileInv, SkipFileInv, WriteFileInv, WriteManifestInv DEF FinalizeStep
  <1>5. CASE Ends
    BY <1>5
    DEF Ends, ArtifactsInv, ArtifactsTypeOK, Walk, ManifestIsOneRun, Returned, FinalizedIsVerified
  <1>6. CASE UNCHANGED artifactVars
    <2>1. \A f : Wrote(f)' <=> Wrote(f)
      BY <1>6 DEF artifactVars, Wrote, Artifacts
    <2>2. Artifacts' = Artifacts /\ (Verified' <=> Verified)
      BY <1>6 DEF artifactVars, Artifacts, Verified
    <2> QED
      BY <1>6, <2>1, <2>2
      DEF artifactVars, ArtifactsInv, ArtifactsTypeOK, Walk, ManifestIsOneRun, Returned,
          FinalizedIsVerified
  <1> QED BY <1>1, <1>2, <1>3, <1>4, <1>5, <1>6 DEF ArtifactsNext

\* The inductive invariant of the run directory.
THEOREM ArtifactsInvariant == ArtifactsSpec => []ArtifactsInv
  BY ArtifactsInitInv, ArtifactsNextInv, PTL DEF ArtifactsSpec

\* Type correctness of the files and of the manifest.
THEOREM ArtifactsTypes == ArtifactsSpec => []ArtifactsTypeOK
  <1>1. ArtifactsInv => ArtifactsTypeOK
    BY DEF ArtifactsInv
  <1> QED BY <1>1, ArtifactsInvariant, PTL

\* A directory that verifies is the whole record of one run, after any number of runs
\* that ended, failed or were killed at any file.
THEOREM ArtifactsVerifiedIsOneRun == ArtifactsSpec => []VerifiedIsOneRun
  <1>1. ArtifactsInv => VerifiedIsOneRun
    BY DEF ArtifactsInv, ManifestIsOneRun, Verified, VerifiedIsOneRun
  <1> QED BY <1>1, ArtifactsInvariant, PTL

\* When finalize returns the directory verifies and holds all that was recorded.
THEOREM ArtifactsFinalizedIsVerified == ArtifactsSpec => []FinalizedIsVerified
  <1>1. ArtifactsInv => FinalizedIsVerified
    BY DEF ArtifactsInv
  <1> QED BY <1>1, ArtifactsInvariant, PTL

-------------------------------------------------------------------------------
(* The dataset.                                                            *)

\* Files a mismatch of which is noticed.
Checked == Addressed \cap (Sha256 \cup Md5)

\* What an invocation has established of the files it has looked at.
Reckoning ==
  /\ pc # "off" => exit = None
  /\ pc \in {"off", "fetch", "listing", "provenance", "return"} => todo = {}
  /\ pc # "receiving" => cur = None
  /\ pc \in {"files", "receiving", "provenance", "return"} /\ download /\ ~failed =>
       \A f \in Checked \ todo : local[f] = "whole"

TepInv == TepTypeOK /\ Reckoning /\ ExitZeroMeansWhole

LEMMA TepInitInv == ASSUME TepInit PROVE TepInv
  <1>1. download \in BOOLEAN /\ failed \in BOOLEAN /\ results \in BOOLEAN
    BY Zenon DEF TepInit
  <1>2. TepTypeOK
    BY <1>1, DatasetAssumption DEF TepInit, TepTypeOK
  <1>3. exit # "0" \/ download = FALSE
    BY DEF TepInit
  <1> QED BY <1>2, <1>3 DEF TepInit, TepInv, Reckoning, ExitZeroMeansWhole

\* An invocation begins, reads the listing or ends between two files.
LEMMA TepOutsideInv ==
  ASSUME TepInv, Start \/ VerifyOnly \/ FetchListing \/ WriteListing \/ FilesDone
                 \/ OpenProvenance \/ Killed
  PROVE  TepInv'
  <1> USE DatasetAssumption
  <1>1. CASE Start
    <2>1. /\ pc = "off" /\ pc' = "fetch" /\ exit' = None /\ invocations' \in 0 .. MaxInvocations
          /\ UNCHANGED <<local, listing, provenance, todo, cur>> /\ todo = {}
      BY <1>1 DEF Start, TepInv, TepTypeOK, Reckoning
    <2>2. download' \in BOOLEAN /\ failed' \in BOOLEAN /\ results' \in BOOLEAN
      BY <1>1, Zenon DEF Start
    <2>3. TepTypeOK'
      BY <2>1, <2>2 DEF TepInv, TepTypeOK
    <2> QED BY <2>1, <2>3 DEF TepInv, Reckoning, ExitZeroMeansWhole
  <1>2. CASE VerifyOnly
    <2>1. /\ pc = "off" /\ invocations' \in 0 .. MaxInvocations /\ exit' \in {"0", "2"}
          /\ UNCHANGED <<local, listing, provenance, pc, todo, cur, failed, results>> /\ todo = {}
      BY <1>2 DEF VerifyOnly, TepInv, TepTypeOK, Reckoning
    <2>2. download' \in BOOLEAN /\ ~download'
      BY <1>2, Zenon DEF VerifyOnly
    <2>3. TepTypeOK'
      BY <2>1, <2>2 DEF TepInv, TepTypeOK
    <2> QED BY <2>1, <2>2, <2>3 DEF TepInv, Reckoning, ExitZeroMeansWhole
  <1>3. CASE FetchListing
    BY <1>3 DEF FetchListing, TepInv, TepTypeOK, Reckoning, ExitZeroMeansWhole
  <1>4. CASE WriteListing
    BY <1>4 DEF WriteListing, TepInv, TepTypeOK, Reckoning, ExitZeroMeansWhole, Checked
  <1>5. CASE FilesDone
    BY <1>5 DEF FilesDone, TepInv, TepTypeOK, Reckoning, ExitZeroMeansWhole
  <1>6. CASE OpenProvenance
    BY <1>6 DEF OpenProvenance, TepInv, TepTypeOK, Reckoning, ExitZeroMeansWhole
  <1>7. CASE Killed
    BY <1>7 DEF Killed, Dies, TepInv, TepTypeOK, Reckoning, ExitZeroMeansWhole
  <1> QED BY <1>1, <1>2, <1>3, <1>4, <1>5, <1>6, <1>7

\* A file is passed over, cannot be reached, is opened, or has arrived.
LEMMA TepFilesInv ==
  ASSUME TepInv, Skip \/ Unreachable \/ Open \/ Received
  PROVE  TepInv'
  <1> USE DatasetAssumption
  <1>1. CASE Skip
    <2>1. PICK f \in todo : (f \notin Addressed \/ Cached(f)) /\ Result(f, FALSE)
      BY <1>1 DEF Skip
    <2>2. f \in Checked => local[f] = "whole"
      BY <2>1 DEF Checked, Cached
    <2>3. TepTypeOK'
      <3>1. failed' \in BOOLEAN /\ results' \in BOOLEAN
        BY <2>1, Zenon DEF Result
      <3>2. /\ todo' = todo \ {f} /\ pc = "files"
            /\ UNCHANGED <<local, listing, provenance, pc, download, cur, exit, invocations>>
        BY <1>1, <2>1 DEF Skip, Result
      <3> QED BY <3>1, <3>2 DEF TepInv, TepTypeOK, Reckoning
    <2>4. failed' = failed /\ todo' = todo \ {f} /\ UNCHANGED <<local, pc, download, exit, cur>> /\ pc = "files"
      BY <1>1, <2>1 DEF Skip, Result, TepInv, TepTypeOK
    <2> QED BY <2>2, <2>3, <2>4 DEF TepInv, Reckoning, ExitZeroMeansWhole
  <1>2. CASE Unreachable
    <2>1. PICK f \in todo : Result(f, TRUE)
      BY <1>2 DEF Unreachable
    <2>2. failed' = TRUE /\ todo' = todo \ {f} /\ UNCHANGED <<local, pc, download, exit, cur>> /\ pc = "files"
      BY <1>2, <2>1 DEF Unreachable, Result
    <2>3. TepTypeOK'
      <3>1. failed' \in BOOLEAN /\ results' \in BOOLEAN
        BY <2>1, Zenon DEF Result
      <3>2. UNCHANGED <<listing, provenance, cur, invocations>>
        BY <1>2 DEF Unreachable
      <3> QED BY <2>2, <3>1, <3>2 DEF TepInv, TepTypeOK, Reckoning
    <2> QED BY <2>2, <2>3 DEF TepInv, Reckoning, ExitZeroMeansWhole
  <1>3. CASE Open
    <2>1. cur' \in todo /\ cur' \in Files /\ pc = "files" /\ pc' = "receiving"
      BY <1>3 DEF Open, TepInv, TepTypeOK
    <2>2. UNCHANGED <<listing, provenance, download, todo, failed, results, exit, invocations>>
          /\ local' = [local EXCEPT ![cur'] = "torn"]
      BY <1>3 DEF Open
    <2>3. \A f \in Files : f # cur' => local'[f] = local[f]
      BY <2>1, <2>2 DEF TepInv, TepTypeOK
    <2>4. TepTypeOK'
      BY <2>1, <2>2 DEF TepInv, TepTypeOK
    <2>5. \A f \in Checked \ todo : f \in Files /\ f # cur'
      BY <2>1 DEF Checked
    <2>6. exit = None /\ exit' = None
      BY <2>1, <2>2 DEF TepInv, Reckoning
    <2>7. Reckoning'
      BY <2>1, <2>2, <2>3, <2>5, <2>6 DEF TepInv, Reckoning
    <2>8. exit' # "0"
      BY <2>6
    <2> QED BY <2>4, <2>7, <2>8 DEF TepInv, ExitZeroMeansWhole
  <1>4. CASE Received
    <2>1. PICK content \in {"whole", "torn", "wrong"} :
            local' = [local EXCEPT ![cur] = content] /\ Result(cur, Mismatch(cur, content))
      BY <1>4 DEF Received
    <2>2. /\ cur \in todo /\ cur \in Files /\ pc = "receiving" /\ pc' = "files" /\ cur' = None
          /\ UNCHANGED <<listing, provenance, download, exit, invocations>>
          /\ todo' = todo \ {cur}
      BY <1>4, <2>1 DEF Received, Result, TepInv, TepTypeOK
    <2>3. local'[cur] = content /\ \A f \in Files : f # cur => local'[f] = local[f]
      BY <2>1, <2>2 DEF TepInv, TepTypeOK
    <2>4. Mismatch(cur, content) \in BOOLEAN /\ failed' \in BOOLEAN /\ results' \in BOOLEAN
      BY <2>1, Zenon DEF Mismatch, Result, TepInv, TepTypeOK
    <2>5. ~failed' => ~failed /\ ~Mismatch(cur, content)
      BY <2>1, Zenon DEF Result
    <2>6. ~failed' /\ cur \in Checked => local'[cur] = "whole"
      BY <2>3, <2>5 DEF Mismatch, Checked
    <2>7. TepTypeOK'
      BY <2>1, <2>2, <2>4 DEF TepInv, TepTypeOK
    <2>8. exit' # "0"
      BY <2>2 DEF TepInv, Reckoning
    <2>9. Reckoning'
      <3>1. \A f \in Checked \ todo' : f \in Files /\ (f = cur \/ f \in Checked \ todo)
        BY <2>2 DEF Checked
      <3> QED BY <2>2, <2>3, <2>5, <2>6, <3>1 DEF TepInv, Reckoning
    <2> QED BY <2>7, <2>8, <2>9 DEF TepInv, ExitZeroMeansWhole
  <1> QED BY <1>1, <1>2, <1>3, <1>4

LEMMA TepNextInv == ASSUME TepInv, [TepNext]_tepVars PROVE TepInv'
  <1>1. CASE Return
    <2>1. /\ pc = "return" /\ pc' = "off" /\ exit' = IF failed THEN "3" ELSE "0"
          /\ UNCHANGED <<local, listing, download, todo, cur, failed, results, invocations>>
          /\ provenance' \in {"bulk", "listing"}
      BY <1>1 DEF Return
    <2>2. TepTypeOK'
      BY <2>1, DatasetAssumption DEF TepInv, TepTypeOK
    <2>3. ExitZeroMeansWhole'
      BY <2>1 DEF TepInv, Reckoning, ExitZeroMeansWhole, Checked
    <2> QED BY <2>1, <2>2, <2>3 DEF TepInv, Reckoning
  <1>2. CASE UNCHANGED tepVars
    BY <1>2 DEF tepVars, TepInv, TepTypeOK, Reckoning, ExitZeroMeansWhole
  <1> QED BY <1>1, <1>2, TepOutsideInv, TepFilesInv DEF TepNext

\* The inductive invariant of the acquisition.
THEOREM TepInvariant == TepSpec => []TepInv
  BY TepInitInv, TepNextInv, PTL DEF TepSpec

\* Type correctness; what is being received is a file that was emptied for it.
THEOREM TepTypes == TepSpec => []TepTypeOK
  <1>1. TepInv => TepTypeOK
    BY DEF TepInv
  <1> QED BY <1>1, TepInvariant, PTL

\* A download that exits 0 leaves every file with an address and a checksum whole,
\* whatever short, wrong or failed answers there were before.
THEOREM TepExitZeroMeansWhole == TepSpec => []ExitZeroMeansWhole
  <1>1. TepInv => ExitZeroMeansWhole
    BY DEF TepInv
  <1> QED BY <1>1, TepInvariant, PTL

\* A whole file is lost only to a --download that has had no result for it yet: a
\* step that touches a file is its opening, which a matching SHA-256 prevents, or the
\* end of what is received into a file that was emptied for it.
THEOREM TepLostOnlyToADownload == TepSpec => LostOnlyToADownload
  <1>1. ASSUME TepInv, [TepNext]_tepVars
        PROVE  \A f \in Files :
                 local[f] = "whole" /\ local'[f] # "whole" => download /\ f \in todo \ Sha256
    <2>1. SUFFICES ASSUME NEW f \in Files, local[f] = "whole", local'[f] # "whole"
                   PROVE  download /\ f \in todo \ Sha256
      OBVIOUS
    <2>2. local \in [Files -> {"absent", "torn", "wrong", "whole"}]
      BY <1>1 DEF TepInv, TepTypeOK
    <2>3. CASE Open
      <3>1. cur' \in todo /\ ~Cached(cur') /\ local' = [local EXCEPT ![cur'] = "torn"]
        BY <2>3 DEF Open
      <3>2. cur' = f
        BY <2>1, <2>2, <3>1
      <3> QED BY <1>1, <2>1, <3>1, <3>2 DEF Cached, TepInv, TepTypeOK
    <2>4. CASE Received
      <3>1. cur # f
        BY <1>1, <2>1, <2>4 DEF Received, TepInv, TepTypeOK
      <3>2. PICK content : local' = [local EXCEPT ![cur] = content]
        BY <2>4 DEF Received
      <3> QED BY <2>1, <2>2, <3>1, <3>2
    <2>5. CASE UNCHANGED local
      BY <2>1, <2>5
    <2> QED
      BY <1>1, <2>3, <2>4, <2>5
      DEF TepNext, Start, VerifyOnly, FetchListing, WriteListing, Skip, Unreachable, FilesDone,
          OpenProvenance, Return, Killed, tepVars
  <1> QED BY <1>1, TepInvariant, PTL DEF TepSpec, LostOnlyToADownload
================================================================================
