---- MODULE BlockStore ----
(***************************************************************************)
(* The peer's file based block store: block files, the checkpoint and the  *)
(* block index (both in one leveldb), with every point at which the        *)
(* process can die while a block is added, the store is opened or it is    *)
(* rolled back.  Files are numbered from 1 and hold whole blocks and       *)
(* perhaps a torn one at the end; a size is a number of whole blocks.  A   *)
(* stored block is a record with its number in num.                        *)
(***************************************************************************)
EXTENDS Integers, SequencesExt

CONSTANTS FileCap,     \* maxBlockfileSize, in blocks
          IndexBatch   \* how many blocks one rollback batch takes off the index

ASSUME BlockStoreAssumption == FileCap \in Nat \ {0} /\ IndexBatch \in Nat \ {0}

VARIABLES files,   \* the block files: [blocks, torn]
          cp,      \* the saved checkpoint or NoCheckpoint
          index,   \* index[n + 1] = <<file, position>> of block n
          mgr,     \* blockfileMgr in memory: [cp, height], or Closed
          step,    \* where the running operation is
          adding,  \* the block being added
          target,  \* the block being rolled back to
          kept     \* the height that no crash may undo

bsvars == <<files, cp, index, mgr, step, adding, target, kept>>

NoCheckpoint == [suffix |-> 0, size |-> 0, empty |-> TRUE, last |-> 0]
Closed == [cp |-> NoCheckpoint, height |-> 0]
NoBlock == [num |-> -1]
NoTarget == -1
EmptyFile == [blocks |-> <<>>, torn |-> FALSE]

\* The blocks on disk, in file order.
Stored == FlattenSeq([i \in DOMAIN files |-> files[i].blocks])

BSInit ==
  /\ files = <<>> /\ cp = NoCheckpoint /\ index = <<>> /\ mgr = Closed
  /\ step = "closed" /\ adding = NoBlock /\ target = NoTarget /\ kept = 0

---------------------------------------------------------------------------
(* Opening: newBlockfileMgr *)

Count(i) == Len(files[i].blocks)

\* (mutant) looks for the last block in the last file only
constructCheckpointInfoFromBlockFilesMutant ==
  IF files = <<>> THEN [NoCheckpoint EXCEPT !.suffix = 1]
  ELSE LET last == Len(files)
       IN  [suffix |-> last, size |-> Count(last), empty |-> Count(last) = 0,
            last   |-> IF Count(last) = 0 THEN 0 ELSE Last(files[last].blocks).num]

constructCheckpointInfoFromBlockFiles ==
  LET last  == Len(files)
      from  == IF last > 1 /\ Count(last) = 0 THEN last - 1 ELSE last
  IN  IF last = 0 THEN [NoCheckpoint EXCEPT !.suffix = 1]
      ELSE [suffix |-> last, size |-> Count(last),
            empty  |-> last = 1 /\ Count(1) = 0,
            last   |-> IF Count(from) = 0 THEN 0 ELSE Last(files[from].blocks).num]

\* The scan starts at the offset that the checkpoint remembers.
syncCPInfoFromFS ==
  IF cp.suffix > Len(files) \/ (Count(cp.suffix) = cp.size /\ ~files[cp.suffix].torn)
  THEN cp
  ELSE LET found == Count(cp.suffix) - cp.size
       IN  [cp EXCEPT !.size  = Count(cp.suffix),
                      !.last  = IF found = 0 THEN @
                                ELSE IF cp.empty THEN found - 1 ELSE @ + found,
                      !.empty = @ /\ found = 0]

LoadCheckpoint ==
  /\ step = "closed"
  /\ cp' = IF cp = NoCheckpoint THEN constructCheckpointInfoFromBlockFiles
           ELSE syncCPInfoFromFS
  /\ step' = "loaded"
  /\ UNCHANGED <<files, index, mgr, adding, target, kept>>

TruncateTo(f, n) == [blocks |-> SubSeq(f.blocks, 1, n), torn |-> FALSE]

\* newBlockfileWriter creates the file if it is not there.
OpenWriter ==
  /\ step = "loaded"
  /\ files' = IF cp.suffix > Len(files) THEN Append(files, EmptyFile)
              ELSE [files EXCEPT ![cp.suffix] = TruncateTo(@, cp.size)]
  /\ step' = IF cp.empty THEN "ready" ELSE "syncing"
  /\ mgr' = IF cp.empty THEN [cp |-> cp, height |-> 0] ELSE mgr
  /\ UNCHANGED <<cp, index, adding, target, kept>>

\* The block stream of syncIndex: the places after the last indexed block,
\* up to the file of the checkpoint.
Unindexed ==
  LET after == IF index = <<>> THEN <<1, 0>> ELSE Last(index)
  IN  { <<f, p>> \in (1..cp.suffix) \X (1..FileCap) :
          /\ p <= Count(f)
          /\ f > after[1] \/ (f = after[1] /\ p > after[2]) }

FirstPlace(S) ==
  CHOOSE x \in S : \A y \in S : x[1] < y[1] \/ (x[1] = y[1] /\ x[2] <= y[2])

IndexInSync == index # <<>> /\ Len(index) - 1 = cp.last

SyncIndex ==
  /\ step = "syncing" /\ ~IndexInSync /\ Unindexed # {}
  /\ index' = Append(index, FirstPlace(Unindexed))
  /\ UNCHANGED <<files, cp, mgr, step, adding, target, kept>>

\* The header of the last block is looked up through the index; the manager
\* panics when it is not found.
FinishOpen ==
  /\ step = "syncing"
  /\ IndexInSync \/ Unindexed = {}
  /\ IF cp.last < Len(index)
     THEN step' = "ready" /\ mgr' = [cp |-> cp, height |-> cp.last + 1]
     ELSE step' = "panicked" /\ UNCHANGED mgr
  /\ UNCHANGED <<files, cp, index, adding, target, kept>>

---------------------------------------------------------------------------
(* Adding a block: addBlock and moveToNextFile *)

AddBlock(b) ==
  /\ step = "ready" /\ b.num = mgr.height
  /\ adding' = b
  /\ step' = IF mgr.cp.size + 1 > FileCap THEN "next_file" ELSE "append"
  /\ UNCHANGED <<files, cp, index, mgr, target, kept>>

OpenNextFile ==
  /\ step = "next_file"
  /\ files' = IF Len(files) > mgr.cp.suffix THEN files ELSE Append(files, EmptyFile)
  /\ step' = "save_next"
  /\ UNCHANGED <<cp, index, mgr, adding, target, kept>>

SaveNextFile ==
  LET c == [suffix |-> mgr.cp.suffix + 1, size |-> 0, empty |-> FALSE, last |-> mgr.cp.last]
  IN  /\ step = "save_next"
      /\ cp' = c /\ mgr' = [mgr EXCEPT !.cp = c]
      /\ step' = "append"
      /\ UNCHANGED <<files, index, adding, target, kept>>

\* The length and the bytes are two writes, only the second one synced.
AppendPart ==
  /\ step = "append"
  /\ files' = [files EXCEPT ![mgr.cp.suffix].torn = TRUE]
  /\ step' = "appending"
  /\ UNCHANGED <<cp, index, mgr, adding, target, kept>>

AppendRest ==
  /\ step = "appending"
  /\ files' = [files EXCEPT ![mgr.cp.suffix] =
                 [blocks |-> Append(@.blocks, adding), torn |-> FALSE]]
  /\ step' = "appended"
  /\ UNCHANGED <<cp, index, mgr, adding, target, kept>>

NewCP == [suffix |-> mgr.cp.suffix, size |-> mgr.cp.size + 1, empty |-> FALSE,
          last |-> adding.num]

\* Not synced: a machine crash before the next synced write is a crash before
\* this step.
SaveCheckpoint ==
  /\ step = "appended"
  /\ cp' = NewCP
  /\ step' = "checkpointed"
  /\ UNCHANGED <<files, index, mgr, adding, target, kept>>

IndexBlock ==
  /\ step = "checkpointed"
  /\ index' = Append(index, <<NewCP.suffix, NewCP.size>>)
  /\ mgr' = [cp |-> NewCP, height |-> mgr.height + 1]
  /\ step' = "ready" /\ adding' = NoBlock /\ kept' = mgr.height + 1
  /\ UNCHANGED <<files, cp, target>>

---------------------------------------------------------------------------
(* The rollback and reset commands, run while the peer is down *)

Lower(n) == IF kept > n + 1 THEN n + 1 ELSE kept

\* ValidateRollbackParams, and the start of Rollback.
RollbackTo(n) ==
  /\ step = "closed" /\ n < constructCheckpointInfoFromBlockFiles.last
  /\ step' = "rb_index" /\ target' = n /\ kept' = Lower(n)
  /\ UNCHANGED <<files, cp, index, mgr, adding>>

RollbackIndex ==
  /\ step = "rb_index"
  /\ IF Len(index) - 1 > target
     THEN /\ index' = SubSeq(index, 1, IF Len(index) - (target + 1) > IndexBatch
                                       THEN Len(index) - IndexBatch ELSE target + 1)
          /\ UNCHANGED step
     ELSE step' = "rb_checkpoint" /\ UNCHANGED index
  /\ UNCHANGED <<files, cp, mgr, adding, target, kept>>

DeleteCheckpoint ==
  /\ step = "rb_checkpoint"
  /\ cp' = NoCheckpoint /\ step' = "rb_files"
  /\ UNCHANGED <<files, index, mgr, adding, target, kept>>

\* binarySearchFileNumForBlock, on the first block of each probed file; 0 is
\* the error for a probed file that holds no whole block.
SearchFile(n) ==
  LET Search[b \in 1..Len(files), e \in 1..Len(files)] ==
        LET s == b + ((e - b) \div 2) + 1
        IN  IF b = e THEN b
            ELSE IF Count(s) = 0 THEN 0
            ELSE LET first == Head(files[s].blocks).num
                 IN  IF first = n THEN s
                     ELSE IF first > n THEN Search[b, s - 1] ELSE Search[s, e]
  IN  Search[1, Len(files)]

EndCommand == step' = "closed" /\ target' = NoTarget

SearchFailed ==
  /\ step = "rb_files" /\ SearchFile(target) = 0
  /\ EndCommand
  /\ UNCHANGED <<files, cp, index, mgr, adding, kept>>

RemoveFile ==
  /\ step = "rb_files" /\ SearchFile(target) \in 1..(Len(files) - 1)
  /\ files' = Front(files)
  /\ UNCHANGED <<cp, index, mgr, step, adding, target, kept>>

TruncateFile ==
  /\ step = "rb_files" /\ Len(files) > 0 /\ SearchFile(target) = Len(files)
  /\ \E p \in 1..Count(Len(files)) :
       /\ files[Len(files)].blocks[p].num = target
       /\ files' = [files EXCEPT ![Len(files)] = TruncateTo(@, p)]
  /\ EndCommand
  /\ UNCHANGED <<cp, index, mgr, adding, kept>>

\* ResetBlockStore: drops the whole index directory, then goes back to the
\* first block; an error when the first file has no whole block.
ResetStore ==
  /\ step = "closed" /\ files # <<>> /\ Count(1) > 0
  /\ cp' = NoCheckpoint /\ index' = <<>>
  /\ step' = "reset_files" /\ target' = 0 /\ kept' = Lower(0)
  /\ UNCHANGED <<files, mgr, adding>>

ResetFiles ==
  /\ step = "reset_files"
  /\ IF Len(files) > 1 THEN files' = Front(files) /\ UNCHANGED <<step, target>>
     ELSE files' = [files EXCEPT ![1] = TruncateTo(@, 1)] /\ EndCommand
  /\ UNCHANGED <<cp, index, mgr, adding, kept>>

---------------------------------------------------------------------------
\* The process or the command dies.
CrashStore ==
  /\ step' = "closed" /\ mgr' = Closed /\ adding' = NoBlock /\ target' = NoTarget
  /\ UNCHANGED <<files, cp, index, kept>>

Opening == LoadCheckpoint \/ OpenWriter \/ SyncIndex \/ FinishOpen

Adding == \/ OpenNextFile \/ SaveNextFile \/ AppendPart \/ AppendRest
          \/ SaveCheckpoint \/ IndexBlock

Rewinding == \/ RollbackIndex \/ DeleteCheckpoint \/ SearchFailed \/ RemoveFile
             \/ TruncateFile \/ ResetFiles
====
