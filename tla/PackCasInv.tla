----------------------------- MODULE PackCasInv -----------------------------
(***************************************************************************)
(* The inductive invariant behind IndexSound, DurableSound, OneWriter and  *)
(* WriterOnCurrent, which are not inductive by themselves.                 *)
(***************************************************************************)
EXTENDS PackCas

(* Who holds what.  The transaction differs from the committed index only  *)
(* while somebody holds it, and only a finished copy changes its           *)
(* generation.                                                             *)
LockInv ==
  /\ \A p \in Procs : pc[p] \in LockedPcs => flock = p
  /\ \A p \in Procs : pc[p] \in TxnPcs <=> wtxn = p
  /\ wtxn = NoProc => txn = index
  /\ \A p \in Procs : pc[p] \in BatchPcs \cup {"compacting"} => txn.gen = index.gen
  /\ \A p \in Procs : pc[p] = "copied" => txn.gen = index.gen + 1

(* No process knows a generation newer than that of the index, and         *)
(* Impl::cur is the newest one it has mapped.                              *)
MapInv ==
  /\ \A p \in Procs, g \in Gens : map[p][g] # 0 => g <= index.gen /\ g <= cur[p]
  /\ \A p \in Procs : map[p] # Unmapped => map[p][cur[p]] # 0
  /\ \A p \in Procs : ogen[p] <= index.gen
  /\ \A p \in Procs : Reading(p) => rd[p].gen <= index.gen
  /\ WriterOnCurrent

(* Names and files: two names never mean one file, and whoever has the     *)
(* live generation mapped has mapped the live pack.                        *)
FileInv ==
  /\ \A g, h \in Gens : dir[g] = dir[h] /\ dir[g] # 0 => g = h
  /\ \A p \in Procs : map[p][index.gen] # 0 => map[p][index.gen] = dir[index.gen]
  /\ \A p \in Procs : pc[p] = "opening" =>
       /\ ogen[p] = index.gen
       /\ \A q \in Procs : pc[q] \notin {"compacting", "copied"}

(* While a batch is open, nothing up to end is overwritten and nothing up  *)
(* to committed_end is cut off.                                            *)
BatchInv ==
  \A p \in Procs : pc[p] \in BatchPcs =>
    /\ cend[p] <= end[p] /\ end[p] <= Len(data[dir[index.gen]])
    /\ \A b \in Stored(index) : index.at[b] <= cend[p]
    /\ \A b \in Stored(durable) : durable.at[b] <= cend[p]
    /\ \A b \in Stored(txn) : txn.at[b] <= end[p] /\ data[dir[index.gen]][txn.at[b]] = b

(* What is about to be committed is on disk, and what the disk knows is    *)
(* the live generation, or the one before while the switch is not synced.  *)
DiskInv ==
  /\ Backed(index) /\ Backed(durable)
  /\ \A p \in Procs : pc[p] \in {"datasynced", "copied"} => Backed(txn)
  /\ \/ durable.gen = index.gen
     \/ durable.gen + 1 = index.gen /\ \E p \in Procs : pc[p] = "switched"

(* Behind ReaderSound and StoreSpec.  A process with a lookup under way    *)
(* has the bytes it is after: a pack that was retired keeps them while it  *)
(* is mapped, and nobody recreates its name.                               *)
FoundIn(p) ==   \* the file the lookup of p will read, or 0 if it is gone
  IF map[p][rd[p].gen] # 0 THEN map[p][rd[p].gen] ELSE dir[rd[p].gen]

Holding(p) == rd[p].st \in {"looked", "mapped"}

ReadInv ==
  /\ ReaderSound
  /\ \A p \in Procs : Reading(p) => p \in Readers
  /\ \A p \in Procs : Holding(p) =>
       /\ rd[p].at # 0
       /\ rd[p].gen = index.gen => index.at[rd[p].b] = rd[p].at
       /\ FoundIn(p) # 0 => /\ rd[p].at <= Len(data[FoundIn(p)])
                            /\ data[FoundIn(p)][rd[p].at] = rd[p].b
  /\ \A p \in Procs : rd[p].st = "mapped" => map[p][rd[p].gen] # 0

NameInv ==
  /\ \A p \in Procs, g, h \in Gens : map[p][g] # 0 /\ map[p][g] = dir[h] => g = h
  /\ \A p \in Procs : pc[p] = "cleaned" =>
       /\ ogen[p] = index.gen
       /\ \A q \in Procs : pc[q] \notin {"compacting", "copied"}
  /\ \A p \in Procs : pc[p] \in BatchPcs =>
       /\ p \in Writers
       /\ \A b \in Stored(index) : txn.at[b] = index.at[b]
  /\ \A p \in Procs : pc[p] = "compacting" => txn = index

(* Behind BlobsSurvive.  A batch only adds to the index, and only one of   *)
(* Compactors takes anything out of it.                                    *)
KeepInv ==
  \A p \in Procs :
    /\ pc[p] \in BatchPcs => Stored(index) \subseteq Stored(txn)
    /\ pc[p] \in {"compacting", "copied"} => p \in Compactors

(* Behind ChurnIsReal.  A process that reads has mapped a generation when  *)
(* it opened the directory, and each time that it finds none to map, one   *)
(* more has been retired after it.                                         *)
ChurnInv ==
  \A p \in Procs :
    /\ pc[p] \notin ClosedPcs => map[p] # Unmapped
    /\ Reading(p) => \E g \in Gens : g <= rd[p].gen /\ map[p][g] # 0
    /\ rd[p].st = "looked" => rd[p].tries = 0 \/ rd[p].gen > rd[p].tries
    /\ rd[p].st = "retry"  => index.gen > rd[p].tries
    /\ rd[p].st = "churn"  => index.gen > rd[p].tries /\ rd[p].tries >= MaxRetries

PackInv == TypeOK /\ LockInv /\ MapInv /\ FileInv /\ BatchInv /\ DiskInv
=============================================================================
