------------------------------ MODULE PackCas ------------------------------
(***************************************************************************)
(* The pack CAS of src/src/pack_cas.cpp: an LMDB index in front of an      *)
(* append-only pack file per generation, shared by every process that has  *)
(* the cache directory open.                                               *)
(*                                                                         *)
(* Writers batch under an flock on the file "lock" and inside one LMDB     *)
(* write transaction; readers take a snapshot of the index and then, with  *)
(* no lock, map the pack of the generation the snapshot names.  compact()  *)
(* copies the blobs its caller calls live into the pack of the next        *)
(* generation, switches the index over and unlinks the old pack.           *)
(*                                                                         *)
(* Abstractions.  A blob stands for its content and for its BLAKE3 hash    *)
(* (no collisions).  A pack is a sequence of cells, one stored blob per    *)
(* cell whatever its length, and an index entry is the 1-based cell of its *)
(* blob, 0 if there is none.  Every process has one writer thread (pc) and *)
(* one reader thread (rd).                                                 *)
(***************************************************************************)
EXTENDS Naturals, Sequences, FiniteSets

CONSTANTS
  Procs,       \* processes that may have the cache directory open
  Writers,     \* ... that call put() and sync()
  Compactors,  \* ... that call compact()
  Readers,     \* ... whose reader thread calls get() or get_view()
  Blobs,       \* contents, each identified with its hash
  Torn,        \* what a cell holds after a short write or a power loss
  NoProc,      \* nobody holds the lock
  AutoSync,    \* kAutoSyncBytes, in cells
  MaxRetries,  \* kMaxGenerationRetries
  MaxGen,      \* bound: the last generation a compaction may create
  MaxFiles,    \* bound: pack files that exist at a time, unlinked ones included
  MaxCells,    \* bound: cells of a pack that put() may fill
  Faults       \* what the environment may do, see AllFaults

(***************************************************************************)
(* "kill"         a process dies (SIGKILL, or an exit without destructors) *)
(* "power"        the machine loses power                                  *)
(* "shortWrite"   pwrite fails after having written part of a blob         *)
(* "syncError"    fdatasync or mdb_env_sync fails at the end of a batch    *)
(* "abandon"      compact() fails before it commits                        *)
(* "switchError"  mdb_env_sync fails after compact() has committed         *)
(* "openRace"     a compaction starts while another process is inside      *)
(*                open_once, between its transaction and its cleanup       *)
(* "mapRace"      ... or between its cleanup and its mapping of the pack   *)
(* "killSwitch"   a compactor dies between its commit and its env_sync     *)
(***************************************************************************)
AllFaults == {"kill", "power", "shortWrite", "syncError", "abandon",
              "switchError", "openRace", "mapRace", "killSwitch"}

ASSUME PackAssumption ==
  /\ Writers \subseteq Procs /\ Compactors \subseteq Procs /\ Readers \subseteq Procs
  /\ IsFiniteSet(Blobs)
  /\ Torn \notin Blobs /\ NoProc \notin Procs
  /\ AutoSync \in Nat \ {0} /\ MaxRetries \in Nat \ {0}
  /\ MaxGen \in Nat /\ MaxFiles \in Nat /\ MaxCells \in Nat
  /\ Faults \subseteq AllFaults

Gens  == 0 .. MaxGen
Files == 1 .. MaxFiles
Cells == Blobs \cup {Torn}

(* A committed LMDB state, as far as the pack is concerned: the generation *)
(* record of the meta table and the blobs table.                           *)
Indexes == [gen : Gens, at : [Blobs -> Nat]]

VARIABLES
  index,    \* the LMDB state every new read transaction sees
  durable,  \* the LMDB state the last mdb_env_sync put on disk
  wtxn,     \* process that holds the LMDB write transaction
  txn,      \* what that transaction sees; equals index when there is none
  dir,      \* dir[g]: the file the name pack.<g> refers to, 0 if none
  data,     \* data[f]: the cells of file f
  dlen,     \* dlen[f]: how many of them the last fdatasync put on disk
  flock,    \* process that holds the writer lock
  pc,       \* where the writer thread of each process is
  ogen,     \* generation that open_once read, 0 outside open_once
  end,      \* Impl::end and Impl::committed_end, "valid while the flock
  cend,     \* is held": 0 when no batch is open
  map,      \* map[p][g]: the file p has mapped for generation g, 0 if none
  cur,      \* generation of Impl::cur, once something is mapped
  rd        \* what the reader thread of each process is doing

lmdb  == <<index, durable, wtxn, txn>>
disk  == <<dir, data, dlen>>
maps  == <<map, cur>>
ends  == <<end, cend>>
vars  == <<lmdb, disk, maps, ends, flock, pc, ogen, rd>>

Stored(ix) == {b \in Blobs : ix.at[b] # 0}

(* Where the writer thread is while a batch is open (Impl::wtxn is set),   *)
(* while it holds the LMDB write transaction, and while it holds the flock *)
BatchPcs   == {"batch", "autosync", "datasynced"}
TxnPcs     == BatchPcs \cup {"compacting", "copied"}
LockedPcs  == TxnPcs \cup {"committed", "switched", "flushed", "unlinked"}
ClosedPcs  == {"closed", "opening", "cleaned"}
Pcs        == LockedPcs \cup ClosedPcs \cup {"ready"}

NoRead     == [st |-> "idle"]
ReadStates == {NoRead}
  \cup [st : {"looked", "mapped", "retry", "corrupt", "misread", "churn"},
        b : Blobs, gen : Gens, at : Nat, tries : Nat]
Reading(p) == rd[p].st \in {"looked", "mapped", "retry"}

TypeOK ==
  /\ index \in Indexes /\ durable \in Indexes /\ txn \in Indexes
  /\ wtxn \in Procs \cup {NoProc} /\ flock \in Procs \cup {NoProc}
  /\ dir \in [Gens -> Files \cup {0}]
  /\ data \in [Files -> Seq(Cells)]
  /\ dlen \in [Files -> Nat]
  /\ pc \in [Procs -> Pcs]
  /\ ogen \in [Procs -> Gens]
  /\ end \in [Procs -> Nat] /\ cend \in [Procs -> Nat]
  /\ map \in [Procs -> [Gens -> Files \cup {0}]]
  /\ cur \in [Procs -> Gens]
  /\ rd \in [Procs -> ReadStates]

EmptyIndex == [gen |-> 0, at |-> [b \in Blobs |-> 0]]
Unmapped   == [g \in Gens |-> 0]

(* A directory nobody has opened yet.                                      *)
Init ==
  /\ index = EmptyIndex /\ durable = EmptyIndex /\ txn = EmptyIndex
  /\ wtxn = NoProc /\ flock = NoProc
  /\ dir = [g \in Gens |-> 0]
  /\ data = [f \in Files |-> <<>>]
  /\ dlen = [f \in Files |-> 0]
  /\ pc = [p \in Procs |-> "closed"]
  /\ ogen = [p \in Procs |-> 0]
  /\ end = [p \in Procs |-> 0] /\ cend = [p \in Procs |-> 0]
  /\ map = [p \in Procs |-> Unmapped]
  /\ cur = [p \in Procs |-> 0]
  /\ rd = [p \in Procs |-> NoRead]

Goto(p, l) == pc' = [pc EXCEPT ![p] = l]
EndBatch(p) == end' = [end EXCEPT ![p] = 0] /\ cend' = [cend EXCEPT ![p] = 0]
CanLock(p) == flock \in {NoProc, p}  \* an flock belongs to the open file of p

-----------------------------------------------------------------------------
(* An inode that no name refers to and no process has open.                *)
InUse(f) == \/ \E g \in Gens : dir[g] = f
            \/ \E p \in Procs, g \in Gens : map[p][g] = f
Free     == {f \in Files : ~InUse(f)}
NewFile  == IF Free = {} THEN 0 ELSE CHOOSE f \in Free : TRUE

(* mapping_for(g, true): the mapping p already has for generation g, or a  *)
(* new one of pack.<g>, which O_CREAT creates empty if it does not exist.  *)
FileFor(p, g) ==
  IF map[p][g] # 0 THEN map[p][g] ELSE IF dir[g] # 0 THEN dir[g] ELSE NewFile

(* Mutant: every mapping becomes the current one.                          *)
NextCurAlways(p, g) == g

(* Impl::cur moves only to a newer generation.                             *)
NextCur(p, g) ==
  IF map[p][g] = 0 /\ (map[p] = Unmapped \/ g > cur[p]) THEN g ELSE cur[p]

MapPack(p, g) ==
  LET f == FileFor(p, g) IN
  /\ f \in Files
  /\ cur' = [cur EXCEPT ![p] = NextCur(p, g)]
  /\ map' = [map EXCEPT ![p][g] = f]
  /\ IF map[p][g] = 0 /\ dir[g] = 0
       THEN /\ dir' = [dir EXCEPT ![g] = f]
            /\ data' = [data EXCEPT ![f] = <<>>]
            /\ dlen' = [dlen EXCEPT ![f] = 0]
       ELSE UNCHANGED disk

(* Mutant: the last cell, not the end.                                     *)
PackSizeLast(p, g) == Len(data[FileFor(p, g)]) - 1

(* The size begin_batch finds the pack to have.                            *)
PackSize(p, g) == IF map[p][g] = 0 /\ dir[g] = 0 THEN 0 ELSE Len(data[FileFor(p, g)])

(* The file put() appends to: current()->pack_fd.                          *)
Current(p) == map[p][cur[p]]

(* ftruncate to n cells; a hole that this leaves has no content.           *)
Cut(s, n) == [i \in 1 .. n |-> IF i <= Len(s) THEN s[i] ELSE Torn]

(* pwrite of one cell at offset n - 1.                                     *)
WriteAt(s, n, c) == IF n <= Len(s) THEN [s EXCEPT ![n] = c] ELSE Append(s, c)

-----------------------------------------------------------------------------
(* open_once.  Its transaction writes (dbi_open, the format record), so it *)
(* waits for the LMDB writer; it reads the generation and commits.         *)
OpenTxn(p) ==
  /\ pc[p] = "closed" /\ wtxn = NoProc
  /\ ogen' = [ogen EXCEPT ![p] = index.gen]
  /\ Goto(p, "opening")
  /\ UNCHANGED <<lmdb, disk, maps, ends, flock, rd>>

(* If the lock is free, take it, unlink every pack but that of the         *)
(* generation just read, and release it.                                   *)
OpenCleanup(p) ==
  /\ pc[p] = "opening"
  /\ dir' = IF flock = NoProc
              THEN [g \in Gens |-> IF g = ogen[p] THEN dir[g] ELSE 0]
              ELSE dir
  /\ Goto(p, "cleaned")
  /\ UNCHANGED <<lmdb, data, dlen, maps, ends, flock, ogen, rd>>

OpenMap(p) ==
  /\ pc[p] = "cleaned"
  /\ MapPack(p, ogen[p])
  /\ ogen' = [ogen EXCEPT ![p] = 0]
  /\ Goto(p, "ready")
  /\ UNCHANGED <<lmdb, ends, flock, rd>>

-----------------------------------------------------------------------------
(* Mutant: begins without lock_writer.                                     *)
BeginBatchUnlocked(p) ==
  /\ p \in Writers /\ pc[p] = "ready" /\ wtxn = NoProc
  /\ flock' = p /\ wtxn' = p
  /\ MapPack(p, index.gen)
  /\ end'  = [end  EXCEPT ![p] = PackSize(p, index.gen)]
  /\ cend' = [cend EXCEPT ![p] = PackSize(p, index.gen)]
  /\ Goto(p, "batch")
  /\ UNCHANGED <<index, durable, txn, ogen, rd>>

(* begin_batch: the flock, the LMDB write transaction, then the pack of    *)
(* the generation that transaction sees, to be appended to at its size.    *)
BeginBatch(p) ==
  /\ p \in Writers /\ pc[p] = "ready"
  /\ CanLock(p) /\ wtxn = NoProc
  /\ flock' = p /\ wtxn' = p
  /\ MapPack(p, index.gen)
  /\ end'  = [end  EXCEPT ![p] = PackSize(p, index.gen)]
  /\ cend' = [cend EXCEPT ![p] = PackSize(p, index.gen)]
  /\ Goto(p, "batch")
  /\ UNCHANGED <<index, durable, txn, ogen, rd>>

(* Mutant: the entry is written in a transaction of its own.               *)
PutAutocommit(p, b) ==
  /\ pc[p] = "batch" /\ txn.at[b] = 0 /\ end[p] < MaxCells
  /\ data' = [data EXCEPT ![Current(p)] = WriteAt(@, end[p] + 1, b)]
  /\ txn' = [txn EXCEPT !.at[b] = end[p] + 1]
  /\ index' = txn'
  /\ end' = [end EXCEPT ![p] = @ + 1]
  /\ UNCHANGED <<durable, wtxn, dir, dlen, maps, cend, flock, pc, ogen, rd>>

(* put of a blob the transaction does not hold yet; when it does, put      *)
(* returns and nothing changes.  A batch that has grown to AutoSync cells  *)
(* is committed before put returns.                                        *)
Put(p, b) ==
  /\ pc[p] = "batch" /\ txn.at[b] = 0 /\ end[p] < MaxCells
  /\ data' = [data EXCEPT ![Current(p)] = WriteAt(@, end[p] + 1, b)]
  /\ txn' = [txn EXCEPT !.at[b] = end[p] + 1]
  /\ end' = [end EXCEPT ![p] = @ + 1]
  /\ Goto(p, IF end[p] + 1 - cend[p] >= AutoSync THEN "autosync" ELSE "batch")
  /\ UNCHANGED <<index, durable, wtxn, dir, dlen, maps, cend, flock, ogen, rd>>

(* pwrite_all throws after a short write: the batch stays open and end     *)
(* stays where it was.                                                     *)
PutFails(p) ==
  /\ "shortWrite" \in Faults
  /\ pc[p] = "batch" /\ end[p] < MaxCells
  /\ data' = [data EXCEPT ![Current(p)] = WriteAt(@, end[p] + 1, Torn)]
  /\ UNCHANGED <<lmdb, dir, dlen, maps, ends, flock, pc, ogen, rd>>

(* Mutant: no fdatasync.                                                   *)
SyncDataSkipped(p) ==
  /\ pc[p] \in {"batch", "autosync"}
  /\ Goto(p, "datasynced")
  /\ UNCHANGED <<lmdb, disk, maps, ends, flock, ogen, rd>>

(* commit_batch: fdatasync of the pack, ...                                *)
SyncData(p) ==
  /\ pc[p] \in {"batch", "autosync"}
  /\ dlen' = [dlen EXCEPT ![Current(p)] = Len(data[Current(p)])]
  /\ Goto(p, "datasynced")
  /\ UNCHANGED <<lmdb, dir, data, maps, ends, flock, ogen, rd>>

(* (if that fails, commit_batch throws and the batch stays open)           *)
SyncDataFails(p) ==
  /\ "syncError" \in Faults
  /\ pc[p] = "autosync"
  /\ Goto(p, "batch")
  /\ UNCHANGED <<lmdb, disk, maps, ends, flock, ogen, rd>>

(* ... the LMDB commit, ...                                                *)
SyncCommit(p) ==
  /\ pc[p] = "datasynced"
  /\ index' = txn /\ wtxn' = NoProc
  /\ Goto(p, "committed")
  /\ UNCHANGED <<durable, txn, disk, maps, ends, flock, ogen, rd>>

(* ... mdb_env_sync, and the release of the flock, ...                     *)
SyncFlush(p) ==
  /\ pc[p] = "committed"
  /\ durable' = index
  /\ EndBatch(p)
  /\ flock' = NoProc
  /\ Goto(p, "ready")
  /\ UNCHANGED <<index, wtxn, txn, disk, maps, ogen, rd>>

(* ... which is skipped when mdb_env_sync throws.                          *)
SyncFlushFails(p) ==
  /\ "syncError" \in Faults
  /\ pc[p] = "committed"
  /\ EndBatch(p)
  /\ Goto(p, "ready")
  /\ UNCHANGED <<lmdb, disk, maps, flock, ogen, rd>>

-----------------------------------------------------------------------------
(* compact: the flock, a write transaction, the pack to copy from.         *)
CompactBegin(p) ==
  /\ p \in Compactors /\ pc[p] = "ready" /\ index.gen < MaxGen
  /\ "openRace" \in Faults \/ \A q \in Procs : pc[q] # "opening"
  /\ "mapRace" \in Faults \/ \A q \in Procs : pc[q] # "cleaned"
  /\ CanLock(p) /\ wtxn = NoProc
  /\ flock' = p /\ wtxn' = p
  /\ MapPack(p, index.gen)
  /\ Goto(p, "compacting")
  /\ UNCHANGED <<index, durable, txn, ends, ogen, rd>>

(* Enumerations of S: the order in which the LMDB cursor meets the hashes. *)
Orderings(S) ==
  {s \in [1 .. Cardinality(S) -> S] :
     \A b \in S : \E i \in 1 .. Cardinality(S) : s[i] = b}

CellIn(s, b) ==
  IF \E i \in DOMAIN s : s[i] = b THEN CHOOSE i \in DOMAIN s : s[i] = b ELSE 0

NewPack == IF dir[index.gen + 1] # 0 THEN dir[index.gen + 1] ELSE NewFile

(* Mutant: the new pack is not synced.                                     *)
CompactCopyUnsynced(p, keep) ==
  LET old == map[p][index.gen] IN
  /\ pc[p] = "compacting" /\ index.gen < MaxGen
  /\ NewPack \in Files
  /\ dir' = [dir EXCEPT ![index.gen + 1] = NewPack]
  /\ \E s \in Orderings(keep) :
       /\ data' = [data EXCEPT ![NewPack] =
                     [i \in 1 .. Cardinality(keep) |-> data[old][index.at[s[i]]]]]
       /\ txn' = [gen |-> index.gen + 1, at |-> [b \in Blobs |-> CellIn(s, b)]]
  /\ dlen' = [dlen EXCEPT ![NewPack] = 0]
  /\ Goto(p, "copied")
  /\ UNCHANGED <<index, durable, wtxn, maps, ends, flock, ogen, rd>>

(* Create or truncate the pack of the next generation, copy into it the    *)
(* blobs of keep, the stored ones that live() accepts, fdatasync it, and   *)
(* rewrite the blobs table and the generation inside the transaction.      *)
CompactCopy(p, keep) ==
  LET old == map[p][index.gen] IN
  /\ pc[p] = "compacting" /\ index.gen < MaxGen /\ old # 0
  /\ \A b \in keep : index.at[b] <= Len(data[old])
  /\ NewPack \in Files
  /\ dir' = [dir EXCEPT ![index.gen + 1] = NewPack]
  /\ \E s \in Orderings(keep) :
       /\ data' = [data EXCEPT ![NewPack] =
                     [i \in 1 .. Cardinality(keep) |-> data[old][index.at[s[i]]]]]
       /\ txn' = [gen |-> index.gen + 1, at |-> [b \in Blobs |-> CellIn(s, b)]]
  /\ dlen' = [dlen EXCEPT ![NewPack] = Cardinality(keep)]
  /\ Goto(p, "copied")
  /\ UNCHANGED <<index, durable, wtxn, maps, ends, flock, ogen, rd>>

(* Mutant: the transaction is committed, not aborted.                      *)
CompactFailsCommits(p) ==
  /\ "abandon" \in Faults /\ pc[p] = "copied"
  /\ index' = txn /\ wtxn' = NoProc /\ flock' = NoProc
  /\ Goto(p, "ready")
  /\ UNCHANGED <<durable, txn, disk, maps, ends, ogen, rd>>

(* Anything that throws before the commit: the transaction is aborted and  *)
(* the new pack, if it was opened, unlinked.                               *)
CompactFails(p) ==
  /\ "abandon" \in Faults
  /\ pc[p] \in {"compacting", "copied"}
  /\ \/ pc[p] = "compacting" /\ dir' = dir
     \/ dir' = [dir EXCEPT ![index.gen + 1] = 0]
  /\ wtxn' = NoProc /\ txn' = index /\ flock' = NoProc
  /\ Goto(p, "ready")
  /\ UNCHANGED <<index, durable, data, dlen, maps, ends, ogen, rd>>

CompactCommit(p) ==
  /\ pc[p] = "copied"
  /\ index' = txn /\ wtxn' = NoProc
  /\ Goto(p, "switched")
  /\ UNCHANGED <<durable, txn, disk, maps, ends, flock, ogen, rd>>

CompactFlush(p) ==
  /\ pc[p] = "switched"
  /\ durable' = index
  /\ Goto(p, "flushed")
  /\ UNCHANGED <<index, wtxn, txn, disk, maps, ends, flock, ogen, rd>>

(* mdb_env_sync throws: the handler unlinks the new pack, although the     *)
(* index that names it is committed.                                       *)
CompactFlushFails(p) ==
  /\ "switchError" \in Faults
  /\ pc[p] = "switched"
  /\ dir' = [dir EXCEPT ![index.gen] = 0]
  /\ flock' = NoProc
  /\ Goto(p, "ready")
  /\ UNCHANGED <<lmdb, data, dlen, maps, ends, ogen, rd>>

CompactUnlink(p) ==
  /\ pc[p] = "flushed"
  /\ dir' = [dir EXCEPT ![index.gen - 1] = 0]
  /\ Goto(p, "unlinked")
  /\ UNCHANGED <<lmdb, data, dlen, maps, ends, flock, ogen, rd>>

CompactRemap(p) ==
  /\ pc[p] = "unlinked"
  /\ MapPack(p, index.gen)
  /\ flock' = NoProc
  /\ Goto(p, "ready")
  /\ UNCHANGED <<lmdb, ends, ogen, rd>>

-----------------------------------------------------------------------------
(* locate(): the entry and the generation, from one read transaction, ...  *)
Found(p, b, n) ==
  [st |-> "looked", b |-> b, gen |-> index.gen, at |-> index.at[b], tries |-> n]

Lookup(p, b) ==
  /\ p \in Readers /\ pc[p] \notin ClosedPcs
  /\ rd[p] = NoRead /\ index.at[b] # 0
  /\ rd' = [rd EXCEPT ![p] = Found(p, b, 0)]
  /\ UNCHANGED <<lmdb, disk, maps, ends, flock, pc, ogen>>

(* Mutant: the generation is read again, apart from the entry.             *)
LocateNewest(p) ==
  /\ rd[p].st = "looked" /\ MapPack(p, index.gen)
  /\ rd' = [rd EXCEPT ![p].st = "mapped", ![p].gen = index.gen]
  /\ UNCHANGED <<lmdb, ends, flock, pc, ogen>>

(* ... then the mapping of that generation.  A process with a batch open   *)
(* creates the pack if it is missing, ...                                  *)
Locate(p) ==
  /\ rd[p].st = "looked"
  /\ \/ map[p][rd[p].gen] # 0
     \/ dir[rd[p].gen] # 0
     \/ pc[p] \in BatchPcs
  /\ MapPack(p, rd[p].gen)
  /\ rd' = [rd EXCEPT ![p].st = "mapped"]
  /\ UNCHANGED <<lmdb, ends, flock, pc, ogen>>

(* ... any other tries again, and gives up in the end.                     *)
Missed(r) ==
  [r EXCEPT !.st = IF r.tries + 1 < MaxRetries THEN "retry" ELSE "churn",
            !.tries = r.tries + 1]

LocateFails(p) ==
  /\ rd[p].st = "looked"
  /\ map[p][rd[p].gen] = 0 /\ dir[rd[p].gen] = 0
  /\ pc[p] \notin BatchPcs
  /\ rd' = [rd EXCEPT ![p] = Missed(rd[p])]
  /\ UNCHANGED <<lmdb, disk, maps, ends, flock, pc, ogen>>

(* Mutant: tries the same generation again.                                *)
RelookStale(p) ==
  /\ rd[p].st = "retry"
  /\ rd' = [rd EXCEPT ![p].st = "looked"]
  /\ UNCHANGED <<lmdb, disk, maps, ends, flock, pc, ogen>>

Relook(p) ==
  /\ rd[p].st = "retry"
  /\ rd' = [rd EXCEPT ![p] = IF index.at[rd[p].b] = 0 THEN NoRead
                             ELSE Found(p, rd[p].b, rd[p].tries)]
  /\ UNCHANGED <<lmdb, disk, maps, ends, flock, pc, ogen>>

(* The bytes: outside the file is a CorruptError, anything but the blob    *)
(* asked for is a misread, which nothing checks.                           *)
Fetch(p) ==
  LET cells == data[map[p][rd[p].gen]] IN
  /\ rd[p].st = "mapped"
  /\ rd' = [rd EXCEPT ![p] =
       IF rd[p].at > Len(cells) THEN [rd[p] EXCEPT !.st = "corrupt"]
       ELSE IF cells[rd[p].at] # rd[p].b THEN [rd[p] EXCEPT !.st = "misread"]
       ELSE NoRead]
  /\ UNCHANGED <<lmdb, disk, maps, ends, flock, pc, ogen>>

-----------------------------------------------------------------------------
(* What the end of a process takes with it.                                *)
Gone(p) ==
  /\ Goto(p, "closed")
  /\ flock' = IF flock = p THEN NoProc ELSE flock
  /\ wtxn' = IF wtxn = p THEN NoProc ELSE wtxn
  /\ txn' = IF wtxn = p THEN index ELSE txn
  /\ map' = [map EXCEPT ![p] = Unmapped]
  /\ cur' = [cur EXCEPT ![p] = 0]
  /\ EndBatch(p)
  /\ ogen' = [ogen EXCEPT ![p] = 0]
  /\ rd' = [rd EXCEPT ![p] = NoRead]
  /\ UNCHANGED <<index, durable>>

(* ~Impl: an open batch is aborted and its bytes are cut off the pack.     *)
Close(p) ==
  /\ pc[p] \in {"ready", "batch"} /\ ~Reading(p)
  /\ IF pc[p] = "batch"
       THEN /\ data' = [data EXCEPT ![Current(p)] = Cut(@, cend[p])]
            /\ dlen' = [dlen EXCEPT ![Current(p)] = IF @ < cend[p] THEN @ ELSE cend[p]]
       ELSE UNCHANGED <<data, dlen>>
  /\ Gone(p)
  /\ UNCHANGED dir

Kill(p) ==
  /\ "kill" \in Faults /\ pc[p] # "closed"
  /\ "killSwitch" \in Faults \/ pc[p] # "switched"
  /\ Gone(p)
  /\ UNCHANGED disk

(* Power loss.  The index comes back as last synced or as last committed;  *)
(* cells not yet synced are kept, gone, or their space is there without    *)
(* content.                                                                *)
PowerLoss ==
  /\ "power" \in Faults
  /\ \E p \in Procs : pc[p] # "closed"
  /\ index' \in {index, durable}
  /\ durable' = index' /\ txn' = index'
  /\ \/ data' = data
     \/ data' = [f \in Files |-> Cut(data[f], dlen[f])]
     \/ data' = [f \in Files |-> [i \in 1 .. Len(data[f]) |->
                                    IF i <= dlen[f] THEN data[f][i] ELSE Torn]]
  /\ wtxn' = NoProc /\ flock' = NoProc
  /\ pc' = [p \in Procs |-> "closed"]
  /\ ogen' = [p \in Procs |-> 0]
  /\ end' = [p \in Procs |-> 0] /\ cend' = [p \in Procs |-> 0]
  /\ map' = [p \in Procs |-> Unmapped]
  /\ cur' = [p \in Procs |-> 0]
  /\ rd' = [p \in Procs |-> NoRead]
  /\ UNCHANGED <<dir, dlen>>

-----------------------------------------------------------------------------
Open(p)    == OpenTxn(p) \/ OpenCleanup(p) \/ OpenMap(p)
Batch(p)   == \/ BeginBatch(p) \/ PutFails(p) \/ \E b \in Blobs : Put(p, b)
              \/ SyncData(p) \/ SyncDataFails(p) \/ SyncCommit(p) \/ SyncFlush(p) \/ SyncFlushFails(p)
Compact(p) == \/ CompactBegin(p) \/ CompactFails(p)
              \/ \E keep \in SUBSET Stored(index) : CompactCopy(p, keep)
              \/ CompactCommit(p) \/ CompactFlush(p) \/ CompactFlushFails(p)
              \/ CompactUnlink(p) \/ CompactRemap(p)
Get(p)     == \/ \E b \in Blobs : Lookup(p, b)
              \/ Locate(p) \/ LocateFails(p) \/ Relook(p) \/ Fetch(p)

Next == \/ \E p \in Procs : Open(p) \/ Batch(p) \/ Compact(p) \/ Get(p) \/ Close(p) \/ Kill(p)
        \/ PowerLoss

Spec == Init /\ [][Next]_vars

-----------------------------------------------------------------------------
(* What ix says is on disk: every entry is a cell of the pack of ix.gen    *)
(* that an fdatasync covered and that holds the blob the entry is for.     *)
Backed(ix) ==
  \A b \in Stored(ix) :
    /\ dir[ix.gen] # 0
    /\ ix.at[b] <= dlen[dir[ix.gen]] /\ dlen[dir[ix.gen]] <= Len(data[dir[ix.gen]])
    /\ data[dir[ix.gen]][ix.at[b]] = b

(* The index a new reader sees never names a pack that is gone, bytes past *)
(* the synced part of the pack, or bytes of another blob, whatever batches,*)
(* aborted batches and compactions of several processes did before         *)
(* (commit_batch and compact sync the pack before they commit).            *)
IndexSound == Backed(index)

(* Nor does the index a power loss would bring back: compact unlinks the   *)
(* old pack only once the switch to the new one is on disk.                *)
DurableSound == Backed(durable)

(* Mutual exclusion: of all the processes inside a batch or a compaction,  *)
(* from lock_writer to unlock_writer, there is at most one, and the flock  *)
(* is its own.                                                             *)
OneWriter ==
  \A p \in Procs : pc[p] \in LockedPcs => /\ flock = p
                                         /\ \A q \in Procs \ {p} : pc[q] \notin LockedPcs

(* put and commit_batch write to and sync current(), which the reader      *)
(* thread of the process moves too: while a batch is open it is the pack   *)
(* of the generation the batch commits to.                                 *)
WriterOnCurrent ==
  \A p \in Procs : pc[p] \in BatchPcs => cur[p] = index.gen /\ map[p][cur[p]] # 0

(* get and get_view return the bytes of the blob asked for, and never      *)
(* raise CorruptError, however writers and compactions overtake them       *)
(* between the index lookup, the mapping and the read.                     *)
ReaderSound == \A p \in Procs : rd[p].st \notin {"misread", "corrupt"}

(* locate() gives up ("pack generation churn") only when that many         *)
(* generations were really retired after the one the process opened with.  *)
ChurnIsReal == \A p \in Procs : rd[p].st = "churn" => index.gen > MaxRetries

(* A blob leaves the index only when a compaction commits without it, or   *)
(* when a power loss takes back a batch that no mdb_env_sync had flushed.  *)
BlobsSurvive ==
  [][\A b \in Stored(index) \ Stored(index') :
       \/ b \notin Stored(durable)
       \/ \E p \in Compactors : pc[p] = "copied" /\ pc'[p] = "switched"]_vars

-----------------------------------------------------------------------------
(* The promise: the pack CAS is a BlobStore.  Batches and compactions show *)
(* at once and entirely or not at all, whoever dies when, and a get() that *)
(* found its blob in the index returns that blob or gives up.              *)
NoBlob == "none"
Store == INSTANCE BlobStore WITH
  stored <- Stored(index),
  safe   <- Stored(durable),
  writer <- wtxn,
  view   <- Stored(txn),
  asked  <- [p \in Procs |-> IF Reading(p) THEN rd[p].b
                             ELSE IF rd[p].st \in {"misread", "corrupt"} THEN rd[p].st
                             ELSE NoBlob]

StoreSpec == Store!Spec
=============================================================================
