---- MODULE AtomicLedger ----
(***************************************************************************)
(* What the ledger promises to the peer: a chain that grows one block at a *)
(* time, shrinks only by a command, and, while the ledger is open, a state *)
(* that is the one the blocks before it determine.  A block's validation   *)
(* flags and commit hash are determined by the blocks before it: neither a *)
(* crash nor private data that is missing makes a difference.              *)
(***************************************************************************)
EXTENDS Validator, Integers

CONSTANTS Chain, PubKeys, PvtKeys

VARIABLES chain,    \* the stored blocks
          applied,  \* the number of blocks in the state; NotOpen when nobody serves it
          view,     \* the public state and the private hashes
          command   \* a rollback or a reset is running

avars == <<chain, applied, view, command>>

NotOpen == -1
NoView == <<>>

EmptyView == [pub |-> [k \in PubKeys |-> Absent], hash |-> [k \in PvtKeys |-> Absent]]

\* The ledger of the first n blocks, committed one after the other.
After[n \in 0 .. Len(Chain)] ==
  IF n = 0 THEN [chain |-> <<>>, view |-> EmptyView]
  ELSE LET old  == After[n - 1]
           prev == IF n = 1 THEN <<>> ELSE Last(old.chain).hash
           r    == ValidateAndPrepareBatch(Chain[n].txs, n - 1, Chain[n].given, TRUE, {}, old.view)
       IN  [chain |-> Append(old.chain,
                        [num |-> n - 1, flags |-> r.flags,
                         hash |-> IF n = 2 \/ prev # <<>> THEN <<n - 1, prev, r.flags, r.upd>>
                                  ELSE <<>>]),
            view  |-> [pub  |-> ApplyUpdates(old.view.pub, r.upd.pub),
                       hash |-> ApplyUpdates(old.view.hash, r.upd.hash)]]

AInit == chain = <<>> /\ applied = NotOpen /\ view = NoView /\ command = FALSE

AppendBlock ==
  /\ applied = Len(chain) /\ Len(chain) < Len(Chain)
  /\ chain' = After[Len(chain) + 1].chain
  /\ UNCHANGED <<applied, view, command>>

ApplyBlock ==
  /\ applied = Len(chain) - 1 /\ applied # NotOpen
  /\ applied' = Len(chain) /\ view' = After[Len(chain)].view
  /\ UNCHANGED <<chain, command>>

OpenLedger ==
  /\ applied = NotOpen /\ ~command
  /\ applied' = Len(chain) /\ view' = After[Len(chain)].view
  /\ UNCHANGED <<chain, command>>

CloseLedger == applied' = NotOpen /\ view' = NoView /\ UNCHANGED <<chain, command>>

BeginCommand == applied = NotOpen /\ command' = TRUE /\ UNCHANGED <<chain, applied, view>>

\* A command cuts in one or several steps, and may end early.
Cut ==
  /\ command /\ command' \in BOOLEAN
  /\ \E n \in 1 .. Len(chain) : chain' = SubSeq(chain, 1, n)
  /\ UNCHANGED <<applied, view>>

ANext == \/ AppendBlock \/ ApplyBlock \/ OpenLedger \/ CloseLedger
         \/ BeginCommand \/ Cut

ASpec == AInit /\ [][ANext]_avars
====
