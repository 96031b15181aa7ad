--------------------------- MODULE PackCasProofs ---------------------------
(***************************************************************************)
(* Theorems about PackCas, for every number of processes and blobs and     *)
(* every value of the bounds.                                              *)
(***************************************************************************)
EXTENDS PackCasInv, FiniteSetTheorems, SequenceTheorems, TLAPS

-----------------------------------------------------------------------------
(* What the helpers return.                                                *)

LEMMA WriteAtType ==
  ASSUME NEW s \in Seq(Cells), NEW n \in Nat \ {0}, NEW c \in Cells
  PROVE  WriteAt(s, n, c) \in Seq(Cells)
<1>1. CASE n <= Len(s)
  BY <1>1, ExceptSeq DEF WriteAt
<1>2. CASE ~(n <= Len(s))
  BY <1>2 DEF WriteAt
<1> QED BY <1>1, <1>2

LEMMA CutType ==
  ASSUME NEW s \in Seq(Cells), NEW n \in Nat
  PROVE  Cut(s, n) \in Seq(Cells)
<1>1. \A i \in 1 .. Len(s) : s[i] \in Cells
  BY ElementOfSeq
<1>2. \A i \in 1 .. n : (IF i <= Len(s) THEN s[i] ELSE Torn) \in Cells
  BY <1>1, LenProperties DEF Cells
<1> QED BY <1>2, IsASeq DEF Cut

(* mapping_for keeps the state well typed.                                 *)
LEMMA MapPackType ==
  ASSUME TypeOK, NEW p \in Procs, NEW g \in Gens, MapPack(p, g)
  PROVE  /\ map' \in [Procs -> [Gens -> Files \cup {0}]]
         /\ cur' \in [Procs -> Gens]
         /\ dir' \in [Gens -> Files \cup {0}]
         /\ data' \in [Files -> Seq(Cells)]
         /\ dlen' \in [Files -> Nat]
<1>1. <<>> \in Seq(Cells)
  OBVIOUS
<1>2. NextCur(p, g) \in Gens
  BY DEF TypeOK, NextCur
<1>3. map' \in [Procs -> [Gens -> Files \cup {0}]]
  BY DEF TypeOK, MapPack
<1>4. cur' \in [Procs -> Gens]
  BY <1>2 DEF TypeOK, MapPack
<1>5. CASE map[p][g] = 0 /\ dir[g] = 0
  <2>1. /\ dir' = [dir EXCEPT ![g] = FileFor(p, g)]
        /\ data' = [data EXCEPT ![FileFor(p, g)] = <<>>]
        /\ dlen' = [dlen EXCEPT ![FileFor(p, g)] = 0]
        /\ FileFor(p, g) \in Files
    BY <1>5 DEF MapPack
  <2> QED BY <1>1, <1>3, <1>4, <2>1 DEF TypeOK
<1>6. CASE ~(map[p][g] = 0 /\ dir[g] = 0)
  BY <1>3, <1>4, <1>6 DEF TypeOK, MapPack, disk
<1> QED BY <1>5, <1>6

LEMMA PackSizeType ==
  ASSUME TypeOK, NEW p \in Procs, NEW g \in Gens, FileFor(p, g) \in Files
  PROVE  PackSize(p, g) \in Nat
BY LenProperties DEF TypeOK, PackSize

(* What compact copies is a pack, and its entries are cells.               *)
LEMMA CopyType ==
  ASSUME NEW old \in Seq(Cells), NEW at \in [Blobs -> Nat],
         NEW keep \in SUBSET Blobs,
         \A b \in keep : at[b] # 0 /\ at[b] <= Len(old),
         NEW s \in Orderings(keep)
  PROVE  /\ Cardinality(keep) \in Nat
         /\ [i \in 1 .. Cardinality(keep) |-> old[at[s[i]]]] \in Seq(Cells)
         /\ \A b \in Blobs : CellIn(s, b) \in Nat
<1>1. Cardinality(keep) \in Nat
  BY FS_Subset, FS_CardinalityType, PackAssumption
<1>2. \A i \in 1 .. Cardinality(keep) : s[i] \in keep
  BY DEF Orderings
<1>3. \A i \in 1 .. Cardinality(keep) : at[s[i]] \in 1 .. Len(old)
  BY <1>2, LenProperties
<1>4. \A i \in 1 .. Cardinality(keep) : old[at[s[i]]] \in Cells
  BY <1>3, ElementOfSeq
<1>5. [i \in 1 .. Cardinality(keep) |-> old[at[s[i]]]] \in Seq(Cells)
  BY <1>1, <1>4, IsASeq
<1>6. DOMAIN s = 1 .. Cardinality(keep)
  BY DEF Orderings
<1>7. \A b \in Blobs : CellIn(s, b) \in Nat
  BY <1>1, <1>6 DEF CellIn
<1> QED BY <1>1, <1>5, <1>7

-----------------------------------------------------------------------------
(* Types.                                                                  *)

LEMMA TypeInit == Init => TypeOK
<1> SUFFICES ASSUME Init PROVE TypeOK
  OBVIOUS
<1>1. 0 \in Gens /\ <<>> \in Seq(Cells)
  BY PackAssumption DEF Gens
<1>2. EmptyIndex \in Indexes /\ Unmapped \in [Gens -> Files \cup {0}]
  BY <1>1 DEF EmptyIndex, Indexes, Unmapped
<1> QED BY <1>1, <1>2 DEF Init, TypeOK, Pcs, ClosedPcs, ReadStates

LEMMA TypeOpen ==
  ASSUME TypeOK, NEW p \in Procs, Open(p)
  PROVE  TypeOK'
<1>1. CASE OpenTxn(p)
  BY <1>1 DEF TypeOK, OpenTxn, Goto, Pcs, ClosedPcs, Indexes, lmdb, disk, maps, ends
<1>2. CASE OpenCleanup(p)
  BY <1>2 DEF TypeOK, OpenCleanup, Goto, Pcs, ClosedPcs, lmdb, disk, maps, ends
<1>3. CASE OpenMap(p)
  <2>1. ogen[p] \in Gens /\ 0 \in Gens
    BY PackAssumption DEF TypeOK, Gens
  <2>2. MapPack(p, ogen[p])
    BY <1>3 DEF OpenMap
  <2> QED BY <1>3, <2>1, <2>2, MapPackType DEF TypeOK, OpenMap, Goto, Pcs, lmdb, ends
<1> QED BY <1>1, <1>2, <1>3 DEF Open

LEMMA TypeBatch ==
  ASSUME TypeOK, NEW p \in Procs, Batch(p)
  PROVE  TypeOK'
<1>0. /\ index.gen \in Gens /\ txn.at \in [Blobs -> Nat] /\ txn.gen \in Gens
      /\ Current(p) \in Files \cup {0} /\ end[p] \in Nat
  BY DEF TypeOK, Indexes, Current
<1>1. CASE BeginBatch(p)
  <2>1. MapPack(p, index.gen)
    BY <1>1 DEF BeginBatch
  <2>2. PackSize(p, index.gen) \in Nat
    BY <1>0, <2>1, PackSizeType DEF MapPack
  <2> QED BY <1>0, <1>1, <2>1, <2>2, MapPackType
        DEF TypeOK, BeginBatch, Goto, Pcs, LockedPcs, TxnPcs, BatchPcs
<1>2. ASSUME NEW c \in Cells
      PROVE  [data EXCEPT ![Current(p)] = WriteAt(@, end[p] + 1, c)] \in [Files -> Seq(Cells)]
  <2>1. CASE Current(p) \in Files
    <3>1. data[Current(p)] \in Seq(Cells) /\ end[p] + 1 \in Nat \ {0}
      BY <1>0, <2>1 DEF TypeOK
    <3>2. WriteAt(data[Current(p)], end[p] + 1, c) \in Seq(Cells)
      BY <3>1, WriteAtType
    <3> QED BY <2>1, <3>2 DEF TypeOK
  <2>2. CASE Current(p) \notin Files
    BY <2>2 DEF TypeOK
  <2> QED BY <2>1, <2>2
<1>3. ASSUME NEW b \in Blobs, Put(p, b)
      PROVE  TypeOK'
  <2>1. txn' \in Indexes
    <3>1. [txn.at EXCEPT ![b] = end[p] + 1] \in [Blobs -> Nat]
      BY <1>0
    <3>2. txn' = [txn EXCEPT !.at = [txn.at EXCEPT ![b] = end[p] + 1]]
      BY <1>3 DEF Put
    <3> QED BY <3>1, <3>2 DEF TypeOK, Indexes
  <2>2. data' \in [Files -> Seq(Cells)]
    BY <1>2, <1>3 DEF Put, Cells
  <2>3. pc' \in [Procs -> Pcs]
    BY <1>3 DEF Put, Goto, TypeOK, Pcs, LockedPcs, TxnPcs, BatchPcs
  <2>4. end' \in [Procs -> Nat]
    BY <1>0, <1>3 DEF Put, TypeOK
  <2>5. UNCHANGED <<index, durable, wtxn, dir, dlen, map, cur, cend, flock, ogen, rd>>
    BY <1>3 DEF Put, maps
  <2> QED BY <2>1, <2>2, <2>3, <2>4, <2>5 DEF TypeOK
<1>4. CASE PutFails(p)
  BY <1>2, <1>4 DEF TypeOK, PutFails, Cells, lmdb, maps, ends
<1>5. CASE SyncData(p)
  <2>1. CASE Current(p) \in Files
    <3>1. Len(data[Current(p)]) \in Nat
      BY <2>1, LenProperties DEF TypeOK
    <3> QED BY <1>5, <3>1 DEF TypeOK, SyncData, Goto, Pcs, LockedPcs, TxnPcs, BatchPcs, lmdb, maps, ends
  <2>2. CASE Current(p) \notin Files
    BY <1>5, <2>2 DEF TypeOK, SyncData, Goto, Pcs, LockedPcs, TxnPcs, BatchPcs, lmdb, maps, ends
  <2> QED BY <2>1, <2>2
<1>6. CASE SyncDataFails(p)
  BY <1>6 DEF TypeOK, SyncDataFails, Goto, Pcs, LockedPcs, TxnPcs, BatchPcs, lmdb, disk, maps, ends
<1>7. CASE SyncCommit(p)
  BY <1>7 DEF TypeOK, SyncCommit, Goto, Pcs, LockedPcs, disk, maps, ends
<1>8. CASE SyncFlush(p)
  BY <1>8 DEF TypeOK, SyncFlush, EndBatch, Goto, Pcs, disk, maps
<1>9. CASE SyncFlushFails(p)
  BY <1>9 DEF TypeOK, SyncFlushFails, EndBatch, Goto, Pcs, lmdb, disk, maps
<1> QED BY <1>1, <1>3, <1>4, <1>5, <1>6, <1>7, <1>8, <1>9 DEF Batch

LEMMA TypeCompact ==
  ASSUME TypeOK, NEW p \in Procs, Compact(p)
  PROVE  TypeOK'
<1>0. index.gen \in Gens /\ index.at \in [Blobs -> Nat]
  BY DEF TypeOK, Indexes
<1>1. CASE CompactBegin(p)
  <2>1. MapPack(p, index.gen)
    BY <1>1 DEF CompactBegin
  <2> QED BY <1>0, <1>1, <2>1, MapPackType
        DEF TypeOK, CompactBegin, Goto, Pcs, LockedPcs, TxnPcs, ends
<1>2. CASE CompactFails(p)
  BY <1>2 DEF TypeOK, CompactFails, Goto, Pcs, maps, ends
<1>3. ASSUME NEW keep \in SUBSET Stored(index), CompactCopy(p, keep)
      PROVE  TypeOK'
  <2> DEFINE old == map[p][index.gen]
  <2>1. index.gen + 1 \in Gens
    BY <1>0, <1>3, PackAssumption DEF CompactCopy, Gens
  <2>2. PICK s \in Orderings(keep) :
          /\ data' = [data EXCEPT ![NewPack] =
                        [i \in 1 .. Cardinality(keep) |-> data[old][index.at[s[i]]]]]
          /\ txn' = [gen |-> index.gen + 1, at |-> [b \in Blobs |-> CellIn(s, b)]]
    BY <1>3 DEF CompactCopy
  <2>3. keep \in SUBSET Blobs /\ \A b \in keep : index.at[b] # 0
    BY DEF Stored
  <2>4. Cardinality(keep) \in Nat
    BY <2>3, FS_Subset, FS_CardinalityType, PackAssumption
  <2>5. \A b \in Blobs : CellIn(s, b) \in Nat
    BY <2>4 DEF CellIn, Orderings
  <2>6. NewPack \in Files
    BY <1>3 DEF CompactCopy
  <2>7. [i \in 1 .. Cardinality(keep) |-> data[old][index.at[s[i]]]] \in Seq(Cells)
    <3>1. data[old] \in Seq(Cells)
      BY <1>0, <1>3 DEF TypeOK, CompactCopy
    <3>2. \A b \in keep : index.at[b] # 0 /\ index.at[b] <= Len(data[old])
      BY <1>3, <2>3 DEF CompactCopy
    <3> HIDE DEF old
    <3> QED BY <1>0, <2>3, <3>1, <3>2, CopyType
  <2>8. data' \in [Files -> Seq(Cells)]
    BY <2>2, <2>6, <2>7 DEF TypeOK
  <2>9. txn' \in Indexes
    BY <2>1, <2>2, <2>5 DEF Indexes
  <2>10. dir' \in [Gens -> Files \cup {0}] /\ dlen' \in [Files -> Nat]
    BY <1>3, <2>4, <2>6 DEF CompactCopy, TypeOK
  <2> QED BY <1>3, <2>8, <2>9, <2>10
        DEF TypeOK, CompactCopy, Goto, Pcs, LockedPcs, TxnPcs, maps, ends
<1>4. CASE CompactCommit(p)
  BY <1>4 DEF TypeOK, CompactCommit, Goto, Pcs, LockedPcs, disk, maps, ends
<1>5. CASE CompactFlush(p)
  BY <1>5 DEF TypeOK, CompactFlush, Goto, Pcs, LockedPcs, disk, maps, ends
<1>6. CASE CompactFlushFails(p)
  BY <1>6 DEF TypeOK, CompactFlushFails, Goto, Pcs, lmdb, maps, ends
<1>7. CASE CompactUnlink(p)
  BY <1>7 DEF TypeOK, CompactUnlink, Goto, Pcs, LockedPcs, lmdb, maps, ends
<1>8. CASE CompactRemap(p)
  <2>1. MapPack(p, index.gen)
    BY <1>8 DEF CompactRemap
  <2> QED BY <1>0, <1>8, <2>1, MapPackType DEF TypeOK, CompactRemap, Goto, Pcs, lmdb, ends
<1> QED BY <1>1, <1>2, <1>3, <1>4, <1>5, <1>6, <1>7, <1>8 DEF Compact

LEMMA TypeGet ==
  ASSUME TypeOK, NEW p \in Procs, Get(p)
  PROVE  TypeOK'
<1>0. index.gen \in Gens /\ index.at \in [Blobs -> Nat]
  BY DEF TypeOK, Indexes
<1> DEFINE Record == [st : {"looked", "mapped", "retry", "corrupt", "misread", "churn"},
                      b : Blobs, gen : Gens, at : Nat, tries : Nat]
<1>1. rd[p].st # "idle" => rd[p] \in Record
  BY DEF TypeOK, ReadStates, NoRead
<1>2. ASSUME NEW b \in Blobs, NEW n \in Nat
      PROVE  Found(p, b, n) \in Record
  BY <1>0 DEF Found
<1>3. Record \subseteq ReadStates /\ NoRead \in ReadStates
  BY DEF ReadStates
<1>4. ASSUME NEW b \in Blobs, Lookup(p, b)
      PROVE  TypeOK'
  <2>1. Found(p, b, 0) \in ReadStates
    BY <1>2, <1>3
  <2> HIDE DEF Record
  <2> QED BY <1>4, <2>1 DEF Lookup, TypeOK, lmdb, disk, maps, ends
<1>5. CASE Locate(p)
  <2>1. rd[p] \in Record /\ rd[p].gen \in Gens /\ MapPack(p, rd[p].gen)
    BY <1>1, <1>5 DEF Locate
  <2>2. [rd[p] EXCEPT !.st = "mapped"] \in ReadStates
    BY <1>3, <2>1
  <2>3. rd' \in [Procs -> ReadStates]
    BY <1>5, <2>2 DEF Locate, TypeOK
  <2> HIDE DEF Record
  <2> QED BY <1>5, <2>1, <2>3, MapPackType DEF Locate, TypeOK, lmdb, ends
<1>6. CASE LocateFails(p)
  <2>1. rd[p] \in Record
    BY <1>1, <1>6 DEF LocateFails
  <2>2. Missed(rd[p]) \in Record
    <3> DEFINE st == IF rd[p].tries + 1 < MaxRetries THEN "retry" ELSE "churn"
    <3>1. [rd[p] EXCEPT !.st = st] \in Record
      BY <2>1
    <3>2. Missed(rd[p]) = [[rd[p] EXCEPT !.st = st] EXCEPT !.tries = rd[p].tries + 1]
      BY <2>1 DEF Missed
    <3>3. rd[p].tries + 1 \in Nat
      BY <2>1
    <3> HIDE DEF st
    <3> QED BY <3>3, <2>1, <3>1, <3>2
  <2>3. rd' \in [Procs -> ReadStates]
    BY <1>3, <1>6, <2>2 DEF LocateFails, TypeOK
  <2> HIDE DEF Record
  <2> QED BY <1>6, <2>3 DEF LocateFails, TypeOK, lmdb, disk, maps, ends
<1>7. CASE Relook(p)
  <2>1. rd[p] \in Record
    BY <1>1, <1>7 DEF Relook
  <2>2. Found(p, rd[p].b, rd[p].tries) \in ReadStates
    BY <1>2, <1>3, <2>1
  <2>3. rd' \in [Procs -> ReadStates]
    BY <1>3, <1>7, <2>2 DEF Relook, TypeOK
  <2> HIDE DEF Record
  <2> QED BY <1>7, <2>3 DEF Relook, TypeOK, lmdb, disk, maps, ends
<1>8. CASE Fetch(p)
  <2>1. rd[p] \in Record
    BY <1>1, <1>8 DEF Fetch
  <2>2. /\ [rd[p] EXCEPT !.st = "corrupt"] \in ReadStates
        /\ [rd[p] EXCEPT !.st = "misread"] \in ReadStates
    BY <1>3, <2>1
  <2>3. rd' \in [Procs -> ReadStates]
    BY <1>3, <1>8, <2>2 DEF Fetch, TypeOK
  <2> HIDE DEF Record
  <2> QED BY <1>8, <2>3 DEF Fetch, TypeOK, lmdb, disk, maps, ends
<1> QED BY <1>4, <1>5, <1>6, <1>7, <1>8 DEF Get

(* The end of a process, whatever becomes of the files.                    *)
LEMMA TypeGone ==
  ASSUME TypeOK, NEW p \in Procs, Gone(p),
         dir' \in [Gens -> Files \cup {0}], data' \in [Files -> Seq(Cells)],
         dlen' \in [Files -> Nat]
  PROVE  TypeOK'
<1>1. 0 \in Gens /\ Unmapped \in [Gens -> Files \cup {0}] /\ NoRead \in ReadStates
  BY PackAssumption DEF Gens, Unmapped, ReadStates
<1> QED BY <1>1 DEF TypeOK, Gone, Goto, EndBatch, Pcs, ClosedPcs

LEMMA TypeClose ==
  ASSUME TypeOK, NEW p \in Procs, Close(p)
  PROVE  TypeOK'
<1> DEFINE f == Current(p)
<1>1. CASE pc[p] = "batch"
  <2>1. cend[p] \in Nat
    BY DEF TypeOK
  <2>2. f \in Files => Cut(data[f], cend[p]) \in Seq(Cells)
    BY <2>1, CutType DEF TypeOK
  <2>3. /\ data' = [data EXCEPT ![f] = Cut(data[f], cend[p])]
        /\ dlen' = [dlen EXCEPT ![f] = IF dlen[f] < cend[p] THEN dlen[f] ELSE cend[p]]
        /\ dir' = dir /\ Gone(p)
    BY <1>1 DEF Close
  <2> HIDE DEF f
  <2>4. data' \in [Files -> Seq(Cells)] /\ dlen' \in [Files -> Nat]
    BY <2>1, <2>2, <2>3 DEF TypeOK
  <2> QED BY <2>3, <2>4, TypeGone DEF TypeOK
<1>2. CASE pc[p] # "batch"
  BY <1>2, TypeGone DEF Close, TypeOK
<1> QED BY <1>1, <1>2

LEMMA TypePowerLoss ==
  ASSUME TypeOK, PowerLoss
  PROVE  TypeOK'
<1>1. 0 \in Gens /\ Unmapped \in [Gens -> Files \cup {0}] /\ NoRead \in ReadStates
  BY PackAssumption DEF Gens, Unmapped, ReadStates
<1>2. data' \in [Files -> Seq(Cells)]
  <2>1. CASE data' = data
    BY <2>1 DEF TypeOK
  <2>2. CASE data' = [f \in Files |-> Cut(data[f], dlen[f])]
    <3>1. \A f \in Files : Cut(data[f], dlen[f]) \in Seq(Cells)
      BY CutType DEF TypeOK
    <3> QED BY <2>2, <3>1
  <2>3. CASE data' = [f \in Files |-> [i \in 1 .. Len(data[f]) |->
                                         IF i <= dlen[f] THEN data[f][i] ELSE Torn]]
    <3>1. ASSUME NEW f \in Files
          PROVE  [i \in 1 .. Len(data[f]) |->
                    IF i <= dlen[f] THEN data[f][i] ELSE Torn] \in Seq(Cells)
      <4>1. data[f] \in Seq(Cells) /\ Len(data[f]) \in Nat
        BY LenProperties DEF TypeOK
      <4>2. \A i \in 1 .. Len(data[f]) : data[f][i] \in Cells
        BY <4>1, ElementOfSeq
      <4>3. \A i \in 1 .. Len(data[f]) :
              (IF i <= dlen[f] THEN data[f][i] ELSE Torn) \in Cells
        BY <4>2 DEF Cells
      <4> QED BY <4>1, <4>3, IsASeq
    <3> QED BY <2>3, <3>1
  <2> QED BY <2>1, <2>2, <2>3 DEF PowerLoss
<1> QED BY <1>1, <1>2 DEF TypeOK, PowerLoss, Pcs, ClosedPcs

LEMMA TypeNext == TypeOK /\ [Next]_vars => TypeOK'
<1> SUFFICES ASSUME TypeOK, [Next]_vars PROVE TypeOK'
  OBVIOUS
<1>1. CASE PowerLoss
  BY <1>1, TypePowerLoss
<1>2. CASE UNCHANGED vars
  BY <1>2 DEF TypeOK, vars, lmdb, disk, maps, ends
<1>3. ASSUME NEW p \in Procs, Kill(p) PROVE TypeOK'
  BY <1>3, TypeGone DEF Kill, TypeOK, disk
<1> QED BY <1>1, <1>2, <1>3, TypeOpen, TypeBatch, TypeCompact, TypeGet, TypeClose DEF Next

(* Every reachable state is well typed; in particular an index never gets  *)
(* past the last generation and a pack holds nothing but cells.            *)
THEOREM TypeCorrect == Spec => []TypeOK
BY TypeInit, TypeNext, PTL DEF Spec

-----------------------------------------------------------------------------
(* Locks.                                                                  *)

LEMMA LockInit == Init => LockInv
BY PackAssumption DEF Init, LockInv, LockedPcs, TxnPcs, BatchPcs

LEMMA LockOpen ==
  ASSUME TypeOK, LockInv, NEW p \in Procs, Open(p)
  PROVE  LockInv'
BY DEF TypeOK, LockInv, Open, OpenTxn, OpenCleanup, OpenMap, Goto, LockedPcs, TxnPcs, BatchPcs, lmdb

LEMMA LockBatch ==
  ASSUME TypeOK, LockInv, NEW p \in Procs, Batch(p)
  PROVE  LockInv'
<1> USE DEF TypeOK, LockInv, Goto, LockedPcs, TxnPcs, BatchPcs
<1>1. CASE BeginBatch(p)
  BY <1>1, PackAssumption DEF BeginBatch, CanLock
<1>2. ASSUME NEW b \in Blobs, Put(p, b) PROVE LockInv'
  <2>1. txn'.gen = txn.gen
    BY <1>2 DEF Put, Indexes
  <2> QED BY <1>2, <2>1, PackAssumption DEF Put
<1>3. CASE PutFails(p)
  BY <1>3 DEF PutFails, lmdb
<1>4. CASE SyncData(p)
  BY <1>4 DEF SyncData, lmdb
<1>5. CASE SyncDataFails(p)
  BY <1>5 DEF SyncDataFails, lmdb
<1>6. CASE SyncCommit(p)
  BY <1>6, PackAssumption DEF SyncCommit
<1>7. CASE SyncFlush(p)
  BY <1>7, PackAssumption DEF SyncFlush
<1>8. CASE SyncFlushFails(p)
  BY <1>8 DEF SyncFlushFails, lmdb
<1> QED BY <1>1, <1>2, <1>3, <1>4, <1>5, <1>6, <1>7, <1>8 DEF Batch

LEMMA LockCompact ==
  ASSUME TypeOK, LockInv, NEW p \in Procs, Compact(p)
  PROVE  LockInv'
<1> USE DEF TypeOK, LockInv, Goto, LockedPcs, TxnPcs, BatchPcs
<1>1. CASE CompactBegin(p)
  BY <1>1, PackAssumption DEF CompactBegin, CanLock
<1>2. CASE CompactFails(p)
  BY <1>2, PackAssumption DEF CompactFails
<1>3. ASSUME NEW keep \in SUBSET Stored(index), CompactCopy(p, keep) PROVE LockInv'
  <2>1. txn'.gen = index.gen + 1
    BY <1>3 DEF CompactCopy
  <2> QED BY <1>3, <2>1, PackAssumption DEF CompactCopy
<1>4. CASE CompactCommit(p)
  BY <1>4, PackAssumption DEF CompactCommit
<1>5. CASE CompactFlush(p)
  BY <1>5 DEF CompactFlush
<1>6. CASE CompactFlushFails(p)
  BY <1>6, PackAssumption DEF CompactFlushFails, lmdb
<1>7. CASE CompactUnlink(p)
  BY <1>7 DEF CompactUnlink, lmdb
<1>8. CASE CompactRemap(p)
  BY <1>8, PackAssumption DEF CompactRemap, lmdb
<1> QED BY <1>1, <1>2, <1>3, <1>4, <1>5, <1>6, <1>7, <1>8 DEF Compact

LEMMA LockGet ==
  ASSUME TypeOK, LockInv, NEW p \in Procs, Get(p)
  PROVE  LockInv'
BY DEF TypeOK, LockInv, Get, Lookup, Locate, LocateFails, Relook, Fetch, lmdb

LEMMA LockGone ==
  ASSUME TypeOK, LockInv, NEW p \in Procs, Gone(p)
  PROVE  LockInv'
BY PackAssumption DEF TypeOK, LockInv, Gone, Goto, LockedPcs, TxnPcs, BatchPcs

LEMMA LockNext == TypeOK /\ LockInv /\ [Next]_vars => LockInv'
<1> SUFFICES ASSUME TypeOK, LockInv, [Next]_vars PROVE LockInv'
  OBVIOUS
<1>1. CASE PowerLoss
  BY <1>1, PackAssumption DEF LockInv, PowerLoss, LockedPcs, TxnPcs, BatchPcs
<1>2. CASE UNCHANGED vars
  BY <1>2 DEF LockInv, vars, lmdb
<1>3. ASSUME NEW p \in Procs, Close(p) \/ Kill(p) PROVE LockInv'
  BY <1>3, LockGone DEF Close, Kill
<1> QED BY <1>1, <1>2, <1>3, LockOpen, LockBatch, LockCompact, LockGet DEF Next

LEMMA LockedAlone == LockInv => OneWriter
BY DEF LockInv, OneWriter

(* No two processes are ever inside a batch or a compaction, whichever     *)
(* faults occur: lock_writer and unlock_writer bracket both.               *)
THEOREM MutualExclusion == Spec => []OneWriter
<1>1. Init => TypeOK /\ LockInv
  BY TypeInit, LockInit
<1>2. TypeOK /\ LockInv /\ [Next]_vars => (TypeOK /\ LockInv)'
  BY TypeNext, LockNext
<1> QED BY <1>1, <1>2, LockedAlone, PTL DEF Spec

-----------------------------------------------------------------------------
(* Generations and mappings.                                               *)

LEMMA MapInit == Init => MapInv
<1> SUFFICES ASSUME Init PROVE MapInv
  OBVIOUS
<1>1. \A p \in Procs : ~Reading(p) /\ pc[p] \notin BatchPcs
  BY DEF Init, Reading, NoRead, BatchPcs
<1> QED BY <1>1, PackAssumption DEF Init, MapInv, EmptyIndex, Unmapped, WriterOnCurrent, Gens

(* mapping_for(g, true) of a generation the index has reached: current()   *)
(* stays the newest mapping, and is the live one if g is.                  *)
LEMMA MapPackKnown ==
  ASSUME TypeOK, MapInv, NEW p \in Procs, NEW g \in Gens, g <= index.gen, MapPack(p, g)
  PROVE  /\ \A q \in Procs, h \in Gens : map'[q][h] # 0 => h <= index.gen /\ h <= cur'[q]
         /\ \A q \in Procs : map'[q] # Unmapped => map'[q][cur'[q]] # 0
         /\ map'[p][g] # 0
         /\ g = index.gen => cur'[p] = index.gen
         /\ \A q \in Procs : cur[q] = index.gen /\ map[q][cur[q]] # 0
                              => cur'[q] = index.gen /\ map'[q][cur'[q]] # 0
<1>0. /\ index.gen \in Nat /\ g \in Nat /\ Gens \subseteq Nat
      /\ \A q \in Procs : cur[q] \in Gens /\ cur[q] \in Nat
  BY PackAssumption DEF TypeOK, Indexes, Gens
<1> DEFINE f == FileFor(p, g)
<1>1. f \in Files /\ f # 0 /\ map' = [map EXCEPT ![p][g] = f]
      /\ cur' = [cur EXCEPT ![p] = NextCur(p, g)]
  BY DEF MapPack, Files
<1> HIDE DEF f
<1>2. /\ map'[p][g] # 0
      /\ \A h \in Gens \ {g} : map'[p][h] = map[p][h]
      /\ \A q \in Procs \ {p} : map'[q] = map[q] /\ cur'[q] = cur[q]
      /\ cur'[p] = NextCur(p, g)
  BY <1>1 DEF TypeOK
<1>3. \A h \in Gens : map[p][h] # 0 => map'[p][h] # 0
  BY <1>2
<1>4. \A h \in Gens : map'[p][h] # 0 => h <= index.gen /\ h <= cur'[p]
  <2>1. CASE map[p][g] # 0
    BY <1>0, <1>2, <2>1 DEF NextCur, MapInv
  <2>2. CASE map[p] = Unmapped
    <3>1. \A h \in Gens : map[p][h] = 0
      BY <2>2 DEF Unmapped
    <3>2. cur'[p] = g
      BY <1>2, <2>2, <3>1 DEF NextCur
    <3> QED BY <1>0, <1>2, <3>1, <3>2
  <2>3. CASE map[p][g] = 0 /\ map[p] # Unmapped
    <3>1. cur'[p] = IF g > cur[p] THEN g ELSE cur[p]
      BY <1>2, <2>3 DEF NextCur
    <3>2. /\ cur[p] \in Nat /\ cur'[p] \in Nat
          /\ g <= cur'[p] /\ cur[p] <= cur'[p]
      BY <1>0, <3>1
    <3>3. ASSUME NEW h \in Gens, map'[p][h] # 0
          PROVE  h <= index.gen /\ h <= cur'[p]
      <4>1. CASE h = g
        BY <3>2, <4>1
      <4>2. CASE h # g
        <5>1. h <= index.gen /\ h <= cur[p]
          BY <1>2, <3>3, <4>2 DEF MapInv
        <5>2. h \in Nat
          BY <1>0
        <5> QED BY <3>2, <5>1, <5>2
      <4> QED BY <4>1, <4>2
    <3> QED BY <3>3
  <2> QED BY <2>1, <2>2, <2>3
<1>5. map'[p][cur'[p]] # 0
  <2>1. CASE map[p][g] # 0
    <3>1. map[p] # Unmapped
      BY <2>1 DEF Unmapped
    <3> QED BY <1>0, <1>2, <1>3, <2>1, <3>1 DEF NextCur, MapInv
  <2>2. CASE map[p][g] = 0
    BY <1>0, <1>2, <1>3, <2>2 DEF NextCur, MapInv
  <2> QED BY <2>1, <2>2
<1>6. cur'[p] \in Nat /\ cur'[p] \in Gens /\ cur'[p] <= index.gen
  <2>1. cur'[p] \in Nat /\ cur'[p] \in Gens
    BY <1>0, <1>2 DEF NextCur
  <2> QED BY <1>4, <1>5, <2>1
<1>7. g = index.gen => cur'[p] = index.gen
  <2> SUFFICES ASSUME g = index.gen PROVE cur'[p] = index.gen
    OBVIOUS
  <2>1. g <= cur'[p]
    BY <1>2, <1>4
  <2> QED BY <1>0, <1>6, <2>1
<1>8. cur[p] = index.gen /\ map[p][cur[p]] # 0 => cur'[p] = index.gen
  <2> SUFFICES ASSUME cur[p] = index.gen, map[p][cur[p]] # 0 PROVE cur'[p] = index.gen
    OBVIOUS
  <2>1. cur[p] <= cur'[p]
    BY <1>0, <1>3, <1>4
  <2> QED BY <1>0, <1>6, <2>1
<1> QED BY <1>2, <1>4, <1>5, <1>7, <1>8 DEF MapInv

LEMMA MapOpen ==
  ASSUME TypeOK, LockInv, MapInv, NEW p \in Procs, Open(p)
  PROVE  MapInv'
<1>0. 0 \in Gens /\ index.gen \in Gens /\ ogen[p] \in Gens /\ index.gen \in Nat
  BY PackAssumption DEF TypeOK, Indexes, Gens
<1>1. CASE OpenTxn(p)
  BY <1>0, <1>1 DEF TypeOK, MapInv, OpenTxn, Goto, WriterOnCurrent, BatchPcs, Reading, lmdb, maps
<1>2. CASE OpenCleanup(p)
  BY <1>0, <1>2 DEF TypeOK, MapInv, OpenCleanup, Goto, WriterOnCurrent, BatchPcs, Reading, lmdb, maps
<1>3. CASE OpenMap(p)
  <2>1. MapPack(p, ogen[p]) /\ ogen[p] <= index.gen
    BY <1>3 DEF OpenMap, MapInv
  <2> QED BY <1>0, <1>3, <2>1, MapPackKnown
        DEF TypeOK, MapInv, OpenMap, Goto, WriterOnCurrent, BatchPcs, Reading, lmdb
<1> QED BY <1>1, <1>2, <1>3 DEF Open

LEMMA MapBatch ==
  ASSUME TypeOK, LockInv, MapInv, NEW p \in Procs, Batch(p)
  PROVE  MapInv'
<1>0. index.gen \in Gens /\ index.gen \in Nat
  BY PackAssumption DEF TypeOK, Indexes, Gens
<1>1. CASE BeginBatch(p)
  <2>1. MapPack(p, index.gen) /\ index.gen <= index.gen
    BY <1>0, <1>1 DEF BeginBatch
  <2>2. cur'[p] = index.gen /\ map'[p][cur'[p]] # 0
    BY <1>0, <2>1, MapPackKnown
  <2> QED BY <1>0, <1>1, <2>1, <2>2, MapPackKnown
        DEF TypeOK, MapInv, BeginBatch, Goto, WriterOnCurrent, BatchPcs, Reading
<1>2. ASSUME NEW b \in Blobs, Put(p, b) PROVE MapInv'
  BY <1>2 DEF TypeOK, MapInv, Put, Goto, WriterOnCurrent, BatchPcs, Reading, maps
<1>3. CASE PutFails(p)
  BY <1>3 DEF MapInv, PutFails, WriterOnCurrent, Reading, lmdb, maps
<1>4. CASE SyncData(p)
  BY <1>4 DEF TypeOK, MapInv, SyncData, Goto, WriterOnCurrent, BatchPcs, Reading, lmdb, maps
<1>5. CASE SyncDataFails(p)
  BY <1>5 DEF TypeOK, MapInv, SyncDataFails, Goto, WriterOnCurrent, BatchPcs, Reading, lmdb, maps
<1>6. CASE SyncCommit(p)
  <2>1. index'.gen = index.gen
    BY <1>6 DEF SyncCommit, LockInv, BatchPcs
  <2> QED BY <1>6, <2>1 DEF TypeOK, MapInv, SyncCommit, Goto, WriterOnCurrent, BatchPcs, Reading, maps
<1>7. CASE SyncFlush(p)
  BY <1>7 DEF TypeOK, MapInv, SyncFlush, Goto, WriterOnCurrent, BatchPcs, Reading, maps
<1>8. CASE SyncFlushFails(p)
  BY <1>8 DEF TypeOK, MapInv, SyncFlushFails, Goto, WriterOnCurrent, BatchPcs, Reading, lmdb, maps
<1> QED BY <1>1, <1>2, <1>3, <1>4, <1>5, <1>6, <1>7, <1>8 DEF Batch

LEMMA MapCompact ==
  ASSUME TypeOK, LockInv, MapInv, NEW p \in Procs, Compact(p)
  PROVE  MapInv'
<1>0. index.gen \in Gens /\ index.gen \in Nat /\ Gens \subseteq Nat
  BY PackAssumption DEF TypeOK, Indexes, Gens
<1>1. CASE CompactBegin(p)
  <2>1. MapPack(p, index.gen) /\ index.gen <= index.gen
    BY <1>0, <1>1 DEF CompactBegin
  <2> QED BY <1>0, <1>1, <2>1, MapPackKnown
        DEF TypeOK, MapInv, CompactBegin, Goto, WriterOnCurrent, BatchPcs, Reading
<1>2. CASE CompactFails(p)
  BY <1>2 DEF TypeOK, MapInv, CompactFails, Goto, WriterOnCurrent, BatchPcs, Reading, maps
<1>3. ASSUME NEW keep \in SUBSET Stored(index), CompactCopy(p, keep) PROVE MapInv'
  BY <1>3 DEF TypeOK, MapInv, CompactCopy, Goto, WriterOnCurrent, BatchPcs, Reading, maps
<1>4. CASE CompactCommit(p)
  <2>1. index'.gen = index.gen + 1
    BY <1>4 DEF CompactCommit, LockInv
  <2>2. \A q \in Procs : pc'[q] \notin BatchPcs
    BY <1>4, PackAssumption DEF TypeOK, CompactCommit, Goto, LockInv, TxnPcs, BatchPcs
  <2>3. \A g \in Nat : g <= index.gen => g <= index'.gen
    BY <1>0, <2>1
  <2>4. \A q \in Procs : ogen[q] \in Nat /\ (Reading(q) => rd[q].gen \in Nat)
    <3>1. ASSUME NEW q \in Procs, Reading(q) PROVE rd[q].gen \in Gens
      BY <3>1 DEF TypeOK, Reading, ReadStates, NoRead
    <3> QED BY <1>0, <3>1 DEF TypeOK
  <2> QED BY <1>0, <1>4, <2>2, <2>3, <2>4
        DEF MapInv, CompactCommit, WriterOnCurrent, Reading, maps
<1>5. CASE CompactFlush(p)
  BY <1>5 DEF TypeOK, MapInv, CompactFlush, Goto, WriterOnCurrent, BatchPcs, Reading, maps
<1>6. CASE CompactFlushFails(p)
  BY <1>6 DEF TypeOK, MapInv, CompactFlushFails, Goto, WriterOnCurrent, BatchPcs, Reading, lmdb, maps
<1>7. CASE CompactUnlink(p)
  BY <1>7 DEF TypeOK, MapInv, CompactUnlink, Goto, WriterOnCurrent, BatchPcs, Reading, lmdb, maps
<1>8. CASE CompactRemap(p)
  <2>1. MapPack(p, index.gen) /\ index.gen <= index.gen
    BY <1>0, <1>8 DEF CompactRemap
  <2> QED BY <1>0, <1>8, <2>1, MapPackKnown
        DEF TypeOK, MapInv, CompactRemap, Goto, WriterOnCurrent, BatchPcs, Reading, lmdb
<1> QED BY <1>1, <1>2, <1>3, <1>4, <1>5, <1>6, <1>7, <1>8 DEF Compact

LEMMA MapGet ==
  ASSUME TypeOK, LockInv, MapInv, NEW p \in Procs, Get(p)
  PROVE  MapInv'
<1>0. index.gen \in Gens /\ index.gen \in Nat /\ Gens \subseteq Nat
  BY PackAssumption DEF TypeOK, Indexes, Gens
<1>1. CASE Locate(p)
  <2>1. MapPack(p, rd[p].gen) /\ rd[p].gen \in Gens /\ rd[p].gen <= index.gen
    BY <1>1 DEF Locate, TypeOK, ReadStates, NoRead, MapInv, Reading
  <2>2. \A q \in Procs : Reading(q)' => Reading(q) /\ rd'[q].gen = rd[q].gen
    BY <1>1, <2>1 DEF Locate, TypeOK, ReadStates, NoRead, Reading
  <2>3. UNCHANGED <<index, pc, ogen>>
    BY <1>1 DEF Locate, lmdb
  <2> QED BY <1>0, <2>1, <2>2, <2>3, MapPackKnown DEF MapInv, WriterOnCurrent
<1>2. ASSUME ~Locate(p)
      PROVE  /\ \A q \in Procs : Reading(q)' => rd'[q].gen <= index.gen
             /\ UNCHANGED <<index, map, cur, pc, ogen>>
  <2>1. \A b \in Blobs, n \in Nat : Found(p, b, n).gen <= index.gen
    BY <1>0 DEF Found
  <2>2. ASSUME NEW b \in Blobs, Lookup(p, b)
        PROVE  rd'[p].gen <= index.gen
    BY <2>1, <2>2 DEF Lookup, TypeOK
  <2>3. CASE Relook(p)
    <3>1. rd[p].b \in Blobs /\ rd[p].tries \in Nat
      BY <2>3 DEF Relook, TypeOK, ReadStates, NoRead
    <3>2. rd'[p] = NoRead \/ rd'[p] = Found(p, rd[p].b, rd[p].tries)
      BY <2>3 DEF Relook, TypeOK
    <3>3. rd'[p] = NoRead \/ rd'[p].gen <= index.gen
      BY <2>1, <3>1, <3>2
    <3> QED BY <2>3, <3>3 DEF Relook, TypeOK, MapInv, Reading, NoRead, lmdb, maps
  <2>4. CASE LocateFails(p)
    <3>1. rd'[p].gen = rd[p].gen
      BY <2>4 DEF LocateFails, Missed, TypeOK, ReadStates, NoRead
    <3> QED BY <2>4, <3>1 DEF LocateFails, TypeOK, MapInv, Reading, lmdb, maps
  <2>5. CASE Fetch(p)
    <3>1. ~Reading(p)'
      BY <2>5 DEF Fetch, TypeOK, ReadStates, NoRead, Reading
    <3> QED BY <2>5, <3>1 DEF Fetch, TypeOK, MapInv, Reading, lmdb, maps
  <2>6. ASSUME NEW b \in Blobs, Lookup(p, b)
        PROVE  /\ \A q \in Procs : Reading(q)' => rd'[q].gen <= index.gen
               /\ UNCHANGED <<index, map, cur, pc, ogen>>
    BY <2>2, <2>6 DEF Lookup, TypeOK, MapInv, Reading, lmdb, maps
  <2> QED BY <1>2, <2>3, <2>4, <2>5, <2>6 DEF Get
<1>3. CASE ~Locate(p)
  BY <1>2, <1>3 DEF MapInv, WriterOnCurrent
<1> QED BY <1>1, <1>3

LEMMA MapGone ==
  ASSUME TypeOK, LockInv, MapInv, NEW p \in Procs, Gone(p)
  PROVE  MapInv'
<1>0. index.gen \in Nat
  BY PackAssumption DEF TypeOK, Indexes, Gens
<1>1. /\ map'[p] = Unmapped /\ ogen'[p] = 0 /\ ~Reading(p)' /\ pc'[p] \notin BatchPcs
      /\ \A q \in Procs \ {p} : /\ map'[q] = map[q] /\ cur'[q] = cur[q] /\ ogen'[q] = ogen[q]
                                /\ rd'[q] = rd[q] /\ pc'[q] = pc[q]
      /\ index' = index
  BY DEF TypeOK, Gone, Goto, NoRead, Reading, BatchPcs
<1> QED BY <1>0, <1>1 DEF MapInv, WriterOnCurrent, Reading, Unmapped

LEMMA MapPowerLoss ==
  ASSUME TypeOK, PowerLoss
  PROVE  MapInv'
<1>1. index'.gen \in Nat
  BY PackAssumption DEF TypeOK, PowerLoss, Indexes, Gens
<1>2. \A p \in Procs : /\ map'[p] = Unmapped /\ ogen'[p] = 0
                       /\ ~Reading(p)' /\ pc'[p] \notin BatchPcs
  BY DEF PowerLoss, NoRead, Reading, BatchPcs
<1> QED BY <1>1, <1>2 DEF MapInv, WriterOnCurrent, Unmapped

LEMMA MapNext == TypeOK /\ LockInv /\ MapInv /\ [Next]_vars => MapInv'
<1> SUFFICES ASSUME TypeOK, LockInv, MapInv, [Next]_vars PROVE MapInv'
  OBVIOUS
<1>1. CASE PowerLoss
  BY <1>1, MapPowerLoss
<1>2. CASE UNCHANGED vars
  BY <1>2 DEF MapInv, WriterOnCurrent, Reading, vars, lmdb, maps
<1>3. ASSUME NEW p \in Procs, Close(p) \/ Kill(p) PROVE MapInv'
  BY <1>3, MapGone DEF Close, Kill
<1> QED BY <1>1, <1>2, <1>3, MapOpen, MapBatch, MapCompact, MapGet DEF Next

(* Whatever the reader thread maps in the meantime, and whichever faults   *)
(* occur, put and commit_batch work on the pack of the generation that the *)
(* batch commits to.                                                       *)
THEOREM CurrentIsLive == Spec => []WriterOnCurrent
<1>1. Init => TypeOK /\ LockInv /\ MapInv
  BY TypeInit, LockInit, MapInit
<1>2. TypeOK /\ LockInv /\ MapInv /\ [Next]_vars => (TypeOK /\ LockInv /\ MapInv)'
  BY TypeNext, LockNext, MapNext
<1>3. MapInv => WriterOnCurrent
  BY DEF MapInv
<1> QED BY <1>1, <1>2, <1>3, PTL DEF Spec

-----------------------------------------------------------------------------
(* What leaves the index.                                                  *)

LEMMA KeepBatch ==
  ASSUME TypeOK, LockInv, KeepInv, NEW p \in Procs, Batch(p)
  PROVE  KeepInv'
<1> USE DEF TypeOK, KeepInv, Goto, BatchPcs
<1>0. \A q \in Procs : q # p /\ pc[q] \in BatchPcs => wtxn = q /\ q # NoProc
  BY PackAssumption DEF LockInv, TxnPcs
<1>1. CASE BeginBatch(p)
  BY <1>1 DEF BeginBatch, LockInv
<1>2. ASSUME NEW b \in Blobs, Put(p, b) PROVE KeepInv'
  <2>1. end[p] + 1 # 0 /\ txn.at \in [Blobs -> Nat]
    BY DEF Indexes
  <2>2. txn' = [txn EXCEPT !.at[b] = end[p] + 1] /\ txn \in Indexes
    BY <1>2 DEF Put
  <2>3. \A x \in Blobs : txn'.at[x] = IF x = b THEN end[p] + 1 ELSE txn.at[x]
    BY <2>2 DEF Indexes
  <2>4. Stored(txn) \subseteq Stored(txn')
    BY <2>1, <2>3 DEF Stored
  <2> QED BY <1>2, <2>4 DEF Put, Stored
<1>3. CASE PutFails(p)
  BY <1>3 DEF PutFails, lmdb, Stored
<1>4. CASE SyncData(p)
  BY <1>4 DEF SyncData, lmdb, Stored
<1>5. CASE SyncDataFails(p)
  BY <1>5 DEF SyncDataFails, lmdb, Stored
<1>6. CASE SyncCommit(p)
  <2>1. wtxn = p
    BY <1>6 DEF SyncCommit, LockInv, TxnPcs
  <2> QED BY <1>0, <1>6, <2>1 DEF SyncCommit, Stored
<1>7. CASE SyncFlush(p)
  BY <1>7 DEF SyncFlush, Stored
<1>8. CASE SyncFlushFails(p)
  BY <1>8 DEF SyncFlushFails, lmdb, Stored
<1> QED BY <1>1, <1>2, <1>3, <1>4, <1>5, <1>6, <1>7, <1>8 DEF Batch

LEMMA KeepCompact ==
  ASSUME TypeOK, LockInv, KeepInv, NEW p \in Procs, Compact(p)
  PROVE  KeepInv'
<1> USE DEF TypeOK, KeepInv, Goto, BatchPcs
<1>0. \A q \in Procs : q # p /\ pc[q] \in BatchPcs => wtxn = q /\ q # NoProc
  BY PackAssumption DEF LockInv, TxnPcs
<1>1. CASE CompactBegin(p)
  BY <1>1 DEF CompactBegin, Stored
<1>2. CASE CompactFails(p)
  BY <1>2 DEF CompactFails, Stored
<1>3. ASSUME NEW keep \in SUBSET Stored(index), CompactCopy(p, keep) PROVE KeepInv'
  <2>1. wtxn = p
    BY <1>3 DEF CompactCopy, LockInv, TxnPcs
  <2>2. pc[p] = "compacting" /\ pc' = [pc EXCEPT ![p] = "copied"]
    BY <1>3 DEF CompactCopy
  <2> QED BY <1>0, <2>1, <2>2
<1>4. CASE CompactCommit(p)
  <2>1. wtxn = p
    BY <1>4 DEF CompactCommit, LockInv, TxnPcs
  <2> QED BY <1>0, <1>4, <2>1 DEF CompactCommit
<1>5. CASE CompactFlush(p)
  BY <1>5 DEF CompactFlush, Stored
<1>6. CASE CompactFlushFails(p)
  BY <1>6 DEF CompactFlushFails, lmdb, Stored
<1>7. CASE CompactUnlink(p)
  BY <1>7 DEF CompactUnlink, lmdb, Stored
<1>8. CASE CompactRemap(p)
  BY <1>8 DEF CompactRemap, lmdb, Stored
<1> QED BY <1>1, <1>2, <1>3, <1>4, <1>5, <1>6, <1>7, <1>8 DEF Compact

LEMMA KeepNext == TypeOK /\ LockInv /\ KeepInv /\ [Next]_vars => KeepInv'
<1> SUFFICES ASSUME TypeOK, LockInv, KeepInv, [Next]_vars PROVE KeepInv'
  OBVIOUS
<1> USE DEF TypeOK, KeepInv, Goto, BatchPcs
<1>1. CASE PowerLoss
  BY <1>1 DEF PowerLoss
<1>2. CASE UNCHANGED vars
  BY <1>2 DEF vars, lmdb, Stored
<1>3. ASSUME NEW p \in Procs, Open(p) \/ Get(p) PROVE KeepInv'
  BY <1>3 DEF Open, OpenTxn, OpenCleanup, OpenMap, Get, Lookup, Locate, LocateFails, Relook, Fetch,
              lmdb, Stored
<1>4. ASSUME NEW p \in Procs, Close(p) \/ Kill(p) PROVE KeepInv'
  <2>1. Gone(p)
    BY <1>4 DEF Close, Kill
  <2>2. \A q \in Procs : q # p /\ pc[q] \in BatchPcs => wtxn = q
    BY DEF LockInv, TxnPcs
  <2> QED BY <2>1, <2>2 DEF Gone, Stored
<1> QED BY <1>1, <1>2, <1>3, <1>4, KeepBatch, KeepCompact DEF Next

(* Whichever faults occur, the committed index loses a blob only to a      *)
(* compaction, or in a power loss if no mdb_env_sync had covered it.       *)
THEOREM BlobsAreKept == Spec => BlobsSurvive
<1>1. Init => TypeOK /\ LockInv /\ KeepInv
  <2>1. Init => KeepInv
    BY DEF Init, KeepInv, BatchPcs
  <2> QED BY <2>1, TypeInit, LockInit
<1>2. TypeOK /\ LockInv /\ KeepInv /\ [Next]_vars => (TypeOK /\ LockInv /\ KeepInv)'
  BY TypeNext, LockNext, KeepNext
<1>3. TypeOK /\ LockInv /\ KeepInv /\ [Next]_vars =>
        \A b \in Stored(index) \ Stored(index') :
          \/ b \notin Stored(durable)
          \/ \E p \in Compactors : pc[p] = "copied" /\ pc'[p] = "switched"
  <2> SUFFICES ASSUME TypeOK, LockInv, KeepInv, [Next]_vars, NEW b \in Stored(index) \ Stored(index')
               PROVE  \/ b \notin Stored(durable)
                      \/ \E p \in Compactors : pc[p] = "copied" /\ pc'[p] = "switched"
    OBVIOUS
  <2>1. index' # index
    OBVIOUS
  <2>2. CASE PowerLoss
    BY <2>1, <2>2 DEF PowerLoss
  <2>3. ASSUME NEW p \in Procs, Batch(p) PROVE FALSE
    <3>1. SyncCommit(p)
      BY <2>1, <2>3 DEF Batch, BeginBatch, Put, PutFails, SyncData, SyncDataFails, SyncFlush,
                        SyncFlushFails, lmdb
    <3> QED BY <3>1 DEF SyncCommit, KeepInv, BatchPcs
  <2>4. ASSUME NEW p \in Procs, Compact(p)
        PROVE  \E q \in Compactors : pc[q] = "copied" /\ pc'[q] = "switched"
    <3>1. CompactCommit(p)
      BY <2>1, <2>4 DEF Compact, CompactBegin, CompactFails, CompactCopy, CompactFlush,
                        CompactFlushFails, CompactUnlink, CompactRemap, lmdb
    <3>2. pc[p] = "copied" /\ pc'[p] = "switched" /\ p \in Compactors
      BY <3>1 DEF CompactCommit, Goto, TypeOK, KeepInv
    <3> QED BY <3>2
  <2>5. ASSUME NEW p \in Procs, Open(p) \/ Get(p) \/ Close(p) \/ Kill(p) PROVE FALSE
    BY <2>1, <2>5 DEF Open, OpenTxn, OpenCleanup, OpenMap, Get, Lookup, Locate, LocateFails, Relook,
                      Fetch, Close, Kill, Gone, lmdb
  <2>6. ASSUME UNCHANGED vars PROVE FALSE
    BY <2>1, <2>6 DEF vars, lmdb
  <2> QED BY <2>2, <2>3, <2>4, <2>5, <2>6 DEF Next
<1> QED BY <1>1, <1>2, <1>3, PTL DEF Spec, BlobsSurvive

-----------------------------------------------------------------------------
(* The index is always backed by the pack, for every instance in which no  *)
(* compaction overlaps an open_once, and compact() runs on from its commit *)
(* to its mdb_env_sync.                                                    *)
NoSwitchFault == /\ "openRace" \notin Faults
                 /\ "switchError" \notin Faults
                 /\ "killSwitch" \notin Faults

DataInv == FileInv /\ BatchInv /\ DiskInv

(* Backed, of any directory and files.                                     *)
Holds(ix, d, da, dl) ==
  \A b \in Stored(ix) :
    /\ d[ix.gen] # 0
    /\ ix.at[b] <= dl[d[ix.gen]] /\ dl[d[ix.gen]] <= Len(da[d[ix.gen]])
    /\ da[d[ix.gen]][ix.at[b]] = b

LEMMA HoldsKept ==
  ASSUME NEW ix, NEW d, NEW da, NEW dl, NEW d2, NEW da2, NEW dl2,
         Holds(ix, d, da, dl),
         d[ix.gen] # 0 => /\ d2[ix.gen] = d[ix.gen]
                          /\ da2[d[ix.gen]] = da[d[ix.gen]]
                          /\ dl2[d[ix.gen]] = dl[d[ix.gen]]
  PROVE  Holds(ix, d2, da2, dl2)
BY DEF Holds

LEMMA BackedHolds ==
  /\ Backed(index) <=> Holds(index, dir, data, dlen)
  /\ Backed(durable) <=> Holds(durable, dir, data, dlen)
  /\ Backed(txn) <=> Holds(txn, dir, data, dlen)
  /\ Backed(index)' <=> Holds(index', dir', data', dlen')
  /\ Backed(durable)' <=> Holds(durable', dir', data', dlen')
  /\ Backed(txn)' <=> Holds(txn', dir', data', dlen')
BY DEF Backed, Holds

LEMMA IndexTypes ==
  ASSUME TypeOK
  PROVE  /\ index.gen \in Gens /\ durable.gen \in Gens /\ txn.gen \in Gens
         /\ index.gen \in Nat /\ durable.gen \in Nat /\ txn.gen \in Nat
         /\ \A b \in Blobs : index.at[b] \in Nat /\ durable.at[b] \in Nat /\ txn.at[b] \in Nat
         /\ 0 \notin Files
BY PackAssumption DEF TypeOK, Indexes, Gens, Files

(* Whoever is in a batch or a compaction is alone.                         *)
LEMMA Alone ==
  ASSUME TypeOK, LockInv, NEW p \in Procs, pc[p] \in LockedPcs \/ CanLock(p)
  PROVE  \A q \in Procs \ {p} : pc[q] \notin LockedPcs
BY PackAssumption DEF LockInv, CanLock

(* mapping_for(g, true) disturbs no pack that has a name.                  *)
LEMMA MapPackDisk ==
  ASSUME TypeOK, NEW p \in Procs, NEW g \in Gens, MapPack(p, g)
  PROVE  /\ \A h \in Gens : dir[h] # 0 => /\ dir'[h] = dir[h]
                                          /\ data'[dir[h]] = data[dir[h]]
                                          /\ dlen'[dir[h]] = dlen[dir[h]]
         /\ map'[p][g] \in Files
         /\ \A q \in Procs, h \in Gens : q # p \/ h # g => map'[q][h] = map[q][h]
         /\ map'[p][g] = IF map[p][g] # 0 THEN map[p][g] ELSE dir'[g]
         /\ \A h \in Gens \ {g} : dir'[h] = dir[h]
         /\ map[p][g] = 0 /\ dir[g] = 0 => data'[dir'[g]] = <<>>
         /\ FileFor(p, g) = map'[p][g]
         /\ ~(map[p][g] = 0 /\ dir[g] = 0) => UNCHANGED disk
         /\ \A h \in Gens \ {g} : dir'[g] # 0 /\ dir'[g] = dir'[h]
                               => dir[g] # 0 /\ dir[g] = dir[h]
<1> DEFINE f == FileFor(p, g)
<1>1. f \in Files /\ f # 0 /\ map' = [map EXCEPT ![p][g] = f]
  BY DEF MapPack, Files
<1>2. CASE map[p][g] = 0 /\ dir[g] = 0
  <2>1. /\ dir' = [dir EXCEPT ![g] = f]
        /\ data' = [data EXCEPT ![f] = <<>>]
        /\ dlen' = [dlen EXCEPT ![f] = 0]
    BY <1>2 DEF MapPack
  <2>2. f = NewFile
    BY <1>2 DEF FileFor
  <2>3. f \in Free
    BY <1>1, <2>2 DEF NewFile
  <2>4. \A h \in Gens : dir[h] # f
    BY <2>3 DEF Free, InUse
  <2> HIDE DEF f
  <2>5. \A h \in Gens : dir[h] # 0 => h # g /\ dir[h] \in Files \ {f}
    BY <1>2, <2>4 DEF TypeOK
  <2> QED BY <1>1, <1>2, <2>1, <2>5 DEF TypeOK, f
<1>3. CASE ~(map[p][g] = 0 /\ dir[g] = 0)
  <2>1. UNCHANGED disk /\ f = IF map[p][g] # 0 THEN map[p][g] ELSE dir[g]
    BY <1>3 DEF MapPack, FileFor
  <2> HIDE DEF f
  <2> QED BY <1>1, <1>3, <2>1 DEF TypeOK, disk, f
<1> QED BY <1>2, <1>3

LEMMA MapPackFiles ==
  ASSUME TypeOK, FileInv, NEW p \in Procs, NEW g \in Gens, MapPack(p, g)
  PROVE  /\ \A h, k \in Gens : dir'[h] = dir'[k] /\ dir'[h] # 0 => h = k
         /\ \A q \in Procs : map'[q][index.gen] # 0 => map'[q][index.gen] = dir'[index.gen]
         /\ \A ix \in Indexes : Holds(ix, dir, data, dlen) => Holds(ix, dir', data', dlen')
<1>1. \A h, k \in Gens : dir'[h] = dir'[k] /\ dir'[h] # 0 => h = k
  <2> SUFFICES ASSUME NEW h \in Gens, NEW k \in Gens, dir'[h] = dir'[k], dir'[h] # 0
               PROVE  h = k
    OBVIOUS
  <2>1. CASE h # g /\ k # g
    BY <2>1, MapPackDisk DEF FileInv
  <2>2. CASE h = g /\ k # g
    BY <2>2, MapPackDisk DEF FileInv
  <2>3. CASE h # g /\ k = g
    BY <2>3, MapPackDisk DEF FileInv
  <2> QED BY <2>1, <2>2, <2>3
<1>2. ASSUME NEW q \in Procs, map'[q][index.gen] # 0
      PROVE  map'[q][index.gen] = dir'[index.gen]
  <2>0. index.gen \in Gens
    BY IndexTypes
  <2>1. CASE q = p /\ index.gen = g
    <3>1. CASE map[p][g] # 0
      <4>1. map[p][g] = dir[g]
        BY <2>1, <3>1 DEF FileInv
      <4> QED BY <2>1, <3>1, <4>1, MapPackDisk
    <3>2. CASE map[p][g] = 0
      BY <2>1, <3>2, MapPackDisk
    <3> QED BY <3>1, <3>2
  <2>2. CASE ~(q = p /\ index.gen = g)
    <3>1. map'[q][index.gen] = map[q][index.gen]
      BY <2>0, <2>2, MapPackDisk
    <3>2. map[q][index.gen] = dir[index.gen] /\ dir[index.gen] # 0
      BY <1>2, <3>1 DEF FileInv
    <3> QED BY <2>0, <3>1, <3>2, MapPackDisk
  <2> QED BY <2>1, <2>2
<1>3. ASSUME NEW ix \in Indexes, Holds(ix, dir, data, dlen)
      PROVE  Holds(ix, dir', data', dlen')
  <2>1. ix.gen \in Gens
    BY DEF Indexes
  <2> QED BY <1>3, <2>1, MapPackDisk, HoldsKept
<1> QED BY <1>1, <1>2, <1>3

(* An action that maps a pack and moves neither the index nor anybody into *)
(* or out of a batch or a compaction.                                      *)
LEMMA MapOnly ==
  ASSUME PackInv, NEW p \in Procs, NEW g \in Gens, MapPack(p, g),
         UNCHANGED lmdb, UNCHANGED ends,
         \A q \in Procs : pc'[q] \in LockedPcs \cup {"opening"} => pc'[q] = pc[q],
         \A q \in Procs : pc[q] = "switched" => pc'[q] = pc[q],
         \A q \in Procs : pc'[q] = "opening" => ogen'[q] = ogen[q]
  PROVE  DataInv'
<1>1. FileInv'
  <2>1. \A q \in Procs : pc'[q] \in {"compacting", "copied"} => pc'[q] = pc[q]
    BY DEF LockedPcs, TxnPcs
  <2> QED BY <2>1, MapPackFiles DEF PackInv, FileInv, lmdb
<1>2. BatchInv'
  <2> SUFFICES ASSUME NEW q \in Procs, pc'[q] \in BatchPcs
               PROVE  /\ cend[q] <= end[q] /\ end[q] <= Len(data'[dir'[index.gen]])
                      /\ \A b \in Stored(index) : index.at[b] <= cend[q]
                      /\ \A b \in Stored(durable) : durable.at[b] <= cend[q]
                      /\ \A b \in Stored(txn) : /\ txn.at[b] <= end[q]
                                               /\ data'[dir'[index.gen]][txn.at[b]] = b
    BY DEF BatchInv, lmdb, ends, Stored
  <2>1. pc[q] \in BatchPcs
    BY DEF LockedPcs, TxnPcs, BatchPcs
  <2>2. dir[index.gen] # 0 /\ index.gen \in Gens
    BY <2>1, IndexTypes DEF PackInv, MapInv, FileInv, WriterOnCurrent
  <2>3. data'[dir'[index.gen]] = data[dir[index.gen]]
    BY <2>2, MapPackDisk DEF PackInv
  <2> QED BY <2>1, <2>3 DEF PackInv, BatchInv
<1>3. DiskInv'
  <2>1. Holds(index, dir', data', dlen') /\ Holds(durable, dir', data', dlen')
    BY BackedHolds, MapPackFiles DEF PackInv, DiskInv, TypeOK
  <2>2. ASSUME NEW q \in Procs, pc'[q] \in {"datasynced", "copied"}
        PROVE  Holds(txn, dir', data', dlen')
    <3>1. pc[q] \in {"datasynced", "copied"}
      BY <2>2 DEF LockedPcs, TxnPcs, BatchPcs
    <3>2. Holds(txn, dir, data, dlen)
      BY <3>1, BackedHolds DEF PackInv, DiskInv
    <3> QED BY <3>2, MapPackFiles DEF PackInv, TypeOK
  <2> QED BY <2>1, <2>2, BackedHolds DEF PackInv, DiskInv, lmdb
<1> QED BY <1>1, <1>2, <1>3 DEF DataInv

-----------------------------------------------------------------------------
LEMMA DataInit == Init => DataInv
<1> SUFFICES ASSUME Init PROVE DataInv
  OBVIOUS
<1>1. \A p \in Procs : pc[p] \notin BatchPcs \cup {"opening", "datasynced", "copied"}
  BY DEF Init, BatchPcs
<1>2. index.gen = 0 /\ durable.gen = 0 /\ Stored(index) = {} /\ Stored(durable) = {}
  BY DEF Init, EmptyIndex, Stored
<1>3. index.gen \in Gens
  BY <1>2, PackAssumption DEF Gens
<1> QED BY <1>1, <1>2, <1>3 DEF Init, DataInv, FileInv, BatchInv, DiskInv, Backed, Unmapped

(* With the lock free or held by p, which has no compaction to sync, the   *)
(* index on disk is of the live generation.                                *)
LEMMA NothingSwitched ==
  ASSUME PackInv, NEW p \in Procs, pc[p] # "switched", pc[p] \in LockedPcs \/ CanLock(p)
  PROVE  durable.gen = index.gen
<1>1. \A q \in Procs \ {p} : pc[q] \notin LockedPcs
  BY Alone DEF PackInv
<1>2. \A q \in Procs : pc[q] # "switched"
  BY <1>1 DEF LockedPcs
<1> QED BY <1>2 DEF PackInv, DiskInv

LEMMA DataOpen ==
  ASSUME PackInv, NEW p \in Procs, Open(p)
  PROVE  DataInv'
<1>1. CASE OpenTxn(p)
  <2>1. \A q \in Procs : pc[q] \notin {"compacting", "copied"}
    BY <1>1, PackAssumption DEF OpenTxn, PackInv, LockInv, TxnPcs
  <2>2. \A q \in Procs \ {p} : pc'[q] = pc[q] /\ ogen'[q] = ogen[q]
    BY <1>1 DEF OpenTxn, Goto, PackInv, TypeOK
  <2>3. pc[p] = "closed" /\ pc'[p] = "opening" /\ ogen'[p] = index.gen
    BY <1>1 DEF OpenTxn, Goto, PackInv, TypeOK
  <2>4. UNCHANGED <<lmdb, disk, maps, ends>>
    BY <1>1 DEF OpenTxn
  <2>5. FileInv'
    BY <2>1, <2>2, <2>3, <2>4 DEF PackInv, FileInv, lmdb, disk, maps
  <2>6. BatchInv'
    BY <2>2, <2>3, <2>4 DEF PackInv, BatchInv, BatchPcs, Stored, lmdb, disk, ends
  <2>7. DiskInv'
    BY <2>2, <2>3, <2>4 DEF PackInv, DiskInv, Backed, Stored, lmdb, disk
  <2> QED BY <2>5, <2>6, <2>7 DEF DataInv
<1>2. CASE OpenCleanup(p)
  <2>1. /\ pc[p] = "opening" /\ pc'[p] = "cleaned" /\ UNCHANGED <<lmdb, data, dlen, maps, ends, ogen>>
        /\ \A q \in Procs \ {p} : pc'[q] = pc[q]
    BY <1>2 DEF OpenCleanup, Goto, PackInv, TypeOK
  <2>2. CASE flock = NoProc
    <3>1. \A q \in Procs : pc[q] \notin LockedPcs
      BY <2>2, PackAssumption DEF PackInv, LockInv
    <3>2. ogen[p] = index.gen /\ durable.gen = index.gen /\ index.gen \in Gens
      BY <2>1, <3>1, IndexTypes DEF PackInv, FileInv, DiskInv, LockedPcs
    <3>3. dir' = [g \in Gens |-> IF g = index.gen THEN dir[g] ELSE 0]
      BY <1>2, <2>2, <3>2 DEF OpenCleanup
    <3>4. \A q \in Procs : pc'[q] \notin BatchPcs \cup {"copied", "datasynced", "compacting"}
      BY <2>1, <3>1 DEF LockedPcs, TxnPcs, BatchPcs
    <3>5. FileInv'
      BY <2>1, <3>2, <3>3, <3>4 DEF PackInv, FileInv, lmdb, maps
    <3>6. DiskInv'
      BY <2>1, <3>2, <3>3, <3>4 DEF PackInv, DiskInv, Backed, Stored, lmdb
    <3> QED BY <3>4, <3>5, <3>6 DEF DataInv, BatchInv
  <2>3. CASE flock # NoProc
    <3>1. dir' = dir
      BY <1>2, <2>3 DEF OpenCleanup
    <3>2. FileInv'
      BY <2>1, <3>1 DEF PackInv, FileInv, lmdb, maps
    <3>3. BatchInv'
      BY <2>1, <3>1 DEF PackInv, BatchInv, BatchPcs, Stored, lmdb, ends
    <3>4. DiskInv'
      BY <2>1, <3>1 DEF PackInv, DiskInv, Backed, Stored, lmdb
    <3> QED BY <3>2, <3>3, <3>4 DEF DataInv
  <2> QED BY <2>2, <2>3
<1>3. CASE OpenMap(p)
  <2>1. MapPack(p, ogen[p]) /\ ogen[p] \in Gens /\ UNCHANGED <<lmdb, ends>>
    BY <1>3 DEF OpenMap, PackInv, TypeOK
  <2>2. /\ pc[p] = "cleaned" /\ pc'[p] = "ready"
        /\ \A q \in Procs \ {p} : pc'[q] = pc[q] /\ ogen'[q] = ogen[q]
    BY <1>3 DEF OpenMap, Goto, PackInv, TypeOK
  <2> QED BY <2>1, <2>2, MapOnly DEF LockedPcs, TxnPcs, BatchPcs
<1> QED BY <1>1, <1>2, <1>3 DEF Open

-----------------------------------------------------------------------------
(* An action of the only process in a batch, on the live pack f: what an   *)
(* index has there stays if its entries are kept.                          *)
LEMMA WriteAtKeeps ==
  ASSUME NEW s \in Seq(Cells), NEW n \in Nat, n <= Len(s), NEW c
  PROVE  /\ \A i \in 1 .. Len(s) : i # n + 1 => WriteAt(s, n + 1, c)[i] = s[i]
         /\ WriteAt(s, n + 1, c)[n + 1] = c
         /\ Len(s) <= Len(WriteAt(s, n + 1, c)) /\ n + 1 <= Len(WriteAt(s, n + 1, c))
<1>1. CASE n + 1 <= Len(s)
  <2>1. WriteAt(s, n + 1, c) = [s EXCEPT ![n + 1] = c]
    BY <1>1 DEF WriteAt
  <2> QED BY <1>1, <2>1, LenProperties
<1>2. CASE ~(n + 1 <= Len(s))
  <2>1. WriteAt(s, n + 1, c) = Append(s, c) /\ n = Len(s)
    BY <1>2, LenProperties DEF WriteAt
  <2> QED BY <2>1, LenProperties
<1> QED BY <1>1, <1>2

(* The state of the process that has a batch open.                         *)
LEMMA InBatch ==
  ASSUME PackInv, NEW p \in Procs, pc[p] \in BatchPcs
  PROVE  /\ Current(p) = dir[index.gen] /\ dir[index.gen] \in Files
         /\ data[dir[index.gen]] \in Seq(Cells)
         /\ end[p] \in Nat /\ cend[p] \in Nat
         /\ \A q \in Procs \ {p} : pc[q] \notin LockedPcs
         /\ durable.gen = index.gen /\ txn.gen = index.gen
<1>1. Current(p) = dir[index.gen] /\ dir[index.gen] # 0
  BY DEF PackInv, MapInv, FileInv, WriterOnCurrent, Current
<1>2. dir[index.gen] \in Files
  BY <1>1, IndexTypes DEF PackInv, TypeOK
<1>3. pc[p] \in LockedPcs /\ pc[p] # "switched"
  BY DEF LockedPcs, TxnPcs, BatchPcs
<1> QED BY <1>1, <1>2, <1>3, Alone, NothingSwitched DEF PackInv, TypeOK, LockInv

LEMMA DataBegin ==
  ASSUME PackInv, NEW p \in Procs, BeginBatch(p)
  PROVE  DataInv'
<1>1. /\ pc[p] = "ready" /\ CanLock(p) /\ wtxn = NoProc /\ MapPack(p, index.gen)
      /\ UNCHANGED <<index, durable, txn, ogen>>
      /\ pc'[p] = "batch" /\ \A q \in Procs \ {p} : pc'[q] = pc[q]
      /\ end'[p] = PackSize(p, index.gen) /\ cend'[p] = PackSize(p, index.gen)
  BY DEF BeginBatch, Goto, PackInv, TypeOK
<1>2. /\ \A q \in Procs \ {p} : pc[q] \notin LockedPcs
      /\ durable.gen = index.gen /\ txn = index /\ index.gen \in Gens
  BY <1>1, Alone, NothingSwitched, IndexTypes DEF PackInv, LockInv
<1>3. /\ Holds(index, dir, data, dlen) /\ Holds(durable, dir, data, dlen)
      /\ Holds(index, dir', data', dlen') /\ Holds(durable, dir', data', dlen')
  BY <1>1, <1>2, BackedHolds, MapPackFiles DEF PackInv, DiskInv, TypeOK
<1>4. FileInv'
  <2>1. \A q \in Procs : pc'[q] = "opening" => pc[q] = "opening"
    BY <1>1
  <2>2. \A q \in Procs : pc'[q] \notin {"compacting", "copied"}
    BY <1>1, <1>2 DEF LockedPcs, TxnPcs
  <2> QED BY <1>1, <1>2, <2>1, <2>2, MapPackFiles DEF PackInv, FileInv
<1>5. DiskInv'
  <2>1. \A q \in Procs : pc'[q] \notin {"datasynced", "copied"}
    BY <1>1, <1>2 DEF LockedPcs, TxnPcs, BatchPcs
  <2> QED BY <1>1, <1>2, <1>3, <2>1, BackedHolds DEF DiskInv
<1>6. BatchInv'
  <2>1. \A q \in Procs : pc'[q] \in BatchPcs => q = p
    BY <1>1, <1>2 DEF LockedPcs, TxnPcs
  <2>2. dir'[index.gen] = map'[p][index.gen] /\ map'[p][index.gen] \in Files
    BY <1>1, <1>2, MapPackFiles, MapPackDisk, IndexTypes DEF PackInv
  <2>3. PackSize(p, index.gen) = Len(data'[dir'[index.gen]])
    <3>1. CASE map[p][index.gen] = 0 /\ dir[index.gen] = 0
      BY <1>1, <1>2, <3>1, MapPackDisk DEF PackSize, PackInv
    <3>2. CASE ~(map[p][index.gen] = 0 /\ dir[index.gen] = 0)
      BY <1>1, <1>2, <2>2, <3>2, MapPackDisk DEF PackSize, PackInv, disk
    <3> QED BY <3>1, <3>2
  <2> DEFINE L == Len(data'[dir'[index.gen]])
  <2>4. L \in Nat
    BY <1>1, <1>2, <2>2, MapPackType, LenProperties DEF PackInv
  <2>5. dlen'[dir'[index.gen]] \in Nat
    BY <1>1, <1>2, <2>2, MapPackType DEF PackInv
  <2>6. \A b \in Stored(index) : index.at[b] <= L /\ data'[dir'[index.gen]][index.at[b]] = b
    BY <1>3, <2>4, <2>5, IndexTypes DEF Holds, Stored, PackInv
  <2>7. \A b \in Stored(durable) : durable.at[b] <= L
    BY <1>2, <1>3, <2>4, <2>5, IndexTypes DEF Holds, Stored, PackInv
  <2>8. end'[p] = L /\ cend'[p] = L
    BY <1>1, <2>3
  <2>9. index' = index /\ durable' = durable /\ txn' = index
    BY <1>1, <1>2
  <2> HIDE DEF L
  <2>10. /\ cend'[p] <= end'[p] /\ end'[p] <= L
    BY <2>4, <2>8
  <2> QED BY <2>1, <2>6, <2>7, <2>8, <2>9, <2>10 DEF BatchInv, Stored, L
<1> QED BY <1>4, <1>5, <1>6 DEF DataInv

(* Writing behind end, by put or by a put that fails.                      *)
LEMMA DataWrite ==
  ASSUME PackInv, NEW p \in Procs, pc[p] = "batch", NEW c,
         data' = [data EXCEPT ![Current(p)] = WriteAt(@, end[p] + 1, c)],
         UNCHANGED <<index, durable, dir, dlen>>
  PROVE  /\ Holds(index, dir', data', dlen') /\ Holds(durable, dir', data', dlen')
         /\ \A i \in 1 .. end[p] : data'[dir[index.gen]][i] = data[dir[index.gen]][i]
         /\ end[p] + 1 <= Len(data'[dir[index.gen]])
         /\ data'[dir[index.gen]][end[p] + 1] = c
<1> DEFINE f == dir[index.gen]
<1>1. /\ Current(p) = f /\ f \in Files /\ data[f] \in Seq(Cells)
      /\ end[p] \in Nat /\ cend[p] \in Nat /\ durable.gen = index.gen
  BY InBatch DEF BatchPcs
<1>2. /\ cend[p] <= end[p] /\ end[p] <= Len(data[f])
      /\ \A b \in Stored(index) : index.at[b] <= cend[p]
      /\ \A b \in Stored(durable) : durable.at[b] <= cend[p]
  BY DEF PackInv, BatchInv, BatchPcs
<1>3. Len(data[f]) \in Nat /\ dlen[f] \in Nat
  BY <1>1, LenProperties DEF PackInv, TypeOK
<1> HIDE DEF f
<1>4. data'[f] = WriteAt(data[f], end[p] + 1, c)
  BY <1>1 DEF PackInv, TypeOK
<1>5. /\ \A i \in 1 .. Len(data[f]) : i # end[p] + 1 => data'[f][i] = data[f][i]
      /\ data'[f][end[p] + 1] = c
      /\ Len(data[f]) <= Len(data'[f]) /\ end[p] + 1 <= Len(data'[f])
  BY <1>1, <1>2, <1>4, WriteAtKeeps
<1>6. \A i \in 1 .. end[p] : data'[f][i] = data[f][i]
  BY <1>1, <1>2, <1>3, <1>5
<1>7. Len(data'[f]) \in Int
  <2>1. CASE end[p] + 1 <= Len(data[f])
    BY <1>1, <1>3, <1>4, <2>1, LenProperties DEF WriteAt
  <2>2. CASE ~(end[p] + 1 <= Len(data[f]))
    BY <1>1, <1>3, <1>4, <2>2, LenProperties DEF WriteAt
  <2> QED BY <2>1, <2>2
<1>8. ASSUME NEW ix, ix = index \/ ix = durable
      PROVE  Holds(ix, dir', data', dlen')
  <2>1. ix.gen = index.gen /\ \A b \in Stored(ix) : ix.at[b] <= cend[p] /\ ix.at[b] \in 1 .. end[p]
    BY <1>1, <1>2, <1>8, IndexTypes DEF Stored, PackInv
  <2>2. Holds(ix, dir, data, dlen)
    BY <1>8, BackedHolds DEF PackInv, DiskInv
  <2>3. dlen[f] <= Len(data[f]) => dlen[f] <= Len(data'[f])
    BY <1>3, <1>5, <1>7
  <2> QED BY <1>6, <2>1, <2>2, <2>3 DEF Holds, f
<1> QED BY <1>5, <1>6, <1>8 DEF f

LEMMA DataPut ==
  ASSUME PackInv, NEW p \in Procs, NEW b \in Blobs, Put(p, b)
  PROVE  DataInv'
<1> DEFINE f == dir[index.gen]
<1>1. /\ pc[p] = "batch" /\ pc'[p] \in {"batch", "autosync"}
      /\ \A q \in Procs \ {p} : pc'[q] = pc[q]
      /\ data' = [data EXCEPT ![Current(p)] = WriteAt(@, end[p] + 1, b)]
      /\ txn' = [txn EXCEPT !.at[b] = end[p] + 1]
      /\ end'[p] = end[p] + 1
      /\ UNCHANGED <<index, durable, dir, dlen, maps, cend, ogen>>
  BY DEF Put, Goto, PackInv, TypeOK
<1>2. /\ \A q \in Procs \ {p} : pc[q] \notin LockedPcs
      /\ end[p] \in Nat /\ cend[p] \in Nat
  BY <1>1, InBatch DEF BatchPcs
<1>3. /\ Holds(index, dir', data', dlen') /\ Holds(durable, dir', data', dlen')
      /\ \A i \in 1 .. end[p] : data'[f][i] = data[f][i]
      /\ end[p] + 1 <= Len(data'[f])
      /\ data'[f][end[p] + 1] = b
  BY <1>1, DataWrite
<1>4. \A q \in Procs : pc'[q] \notin {"compacting", "copied", "datasynced"}
  BY <1>1, <1>2 DEF LockedPcs, TxnPcs, BatchPcs
<1>5. FileInv'
  BY <1>1, <1>4 DEF PackInv, FileInv, maps
<1>6. DiskInv'
  <2>1. durable.gen = index.gen
    BY <1>1, InBatch DEF BatchPcs
  <2> QED BY <1>1, <1>3, <1>4, <2>1, BackedHolds DEF DiskInv
<1>7. BatchInv'
  <2>1. \A q \in Procs : pc'[q] \in BatchPcs => q = p
    BY <1>1, <1>2 DEF LockedPcs, TxnPcs
  <2>2. /\ cend[p] <= end[p]
        /\ \A a \in Stored(index) : index.at[a] <= cend[p]
        /\ \A a \in Stored(durable) : durable.at[a] <= cend[p]
        /\ \A a \in Stored(txn) : txn.at[a] <= end[p] /\ data[f][txn.at[a]] = a
    BY <1>1 DEF PackInv, BatchInv, BatchPcs
  <2>3. cend'[p] <= end'[p]
    BY <1>1, <1>2, <2>2
  <2>4. \A a \in Blobs : txn'.at[a] = IF a = b THEN end[p] + 1 ELSE txn.at[a]
    BY <1>1 DEF PackInv, TypeOK, Indexes
  <2>5. ASSUME NEW a \in Blobs, txn'.at[a] # 0
        PROVE  txn'.at[a] <= end[p] + 1 /\ data'[f][txn'.at[a]] = a
    <3>1. CASE a = b
      BY <1>2, <1>3, <2>4, <3>1
    <3>2. CASE a # b
      <4>1. txn.at[a] \in Nat \ {0} /\ txn.at[a] <= end[p] /\ data[f][txn.at[a]] = a
        BY <2>2, <2>4, <2>5, <3>2, IndexTypes DEF Stored, PackInv
      <4>2. txn.at[a] \in 1 .. end[p]
        BY <1>2, <4>1
      <4> QED BY <1>2, <1>3, <2>4, <3>2, <4>1, <4>2
    <3> QED BY <3>1, <3>2
  <2> HIDE DEF f
  <2>6. dir'[index'.gen] = f /\ index' = index /\ durable' = durable
    BY <1>1 DEF f
  <2> QED BY <1>1, <1>3, <2>1, <2>2, <2>3, <2>5, <2>6 DEF BatchInv, Stored
<1> QED BY <1>5, <1>6, <1>7 DEF DataInv

LEMMA DataPutFails ==
  ASSUME PackInv, NEW p \in Procs, PutFails(p)
  PROVE  DataInv'
<1> DEFINE f == dir[index.gen]
<1>1. /\ pc[p] = "batch" /\ pc' = pc
      /\ data' = [data EXCEPT ![Current(p)] = WriteAt(@, end[p] + 1, Torn)]
      /\ UNCHANGED <<index, durable, txn, dir, dlen, maps, ends, ogen>>
  BY DEF PutFails, lmdb
<1>2. /\ \A q \in Procs \ {p} : pc[q] \notin LockedPcs
      /\ end[p] \in Nat /\ data[f] \in Seq(Cells) /\ durable.gen = index.gen
  BY <1>1, InBatch DEF BatchPcs
<1>3. /\ Holds(index, dir', data', dlen') /\ Holds(durable, dir', data', dlen')
      /\ \A i \in 1 .. end[p] : data'[f][i] = data[f][i]
      /\ end[p] + 1 <= Len(data'[f])
  BY <1>1, DataWrite
<1>4. \A q \in Procs : pc'[q] \notin {"compacting", "copied", "datasynced"}
  BY <1>1, <1>2 DEF LockedPcs, TxnPcs, BatchPcs
<1>5. FileInv'
  BY <1>1 DEF PackInv, FileInv, maps
<1>6. DiskInv'
  BY <1>1, <1>2, <1>3, <1>4, BackedHolds DEF DiskInv
<1>7. BatchInv'
  <2>1. \A q \in Procs : pc'[q] \in BatchPcs => q = p
    BY <1>1, <1>2 DEF LockedPcs, TxnPcs
  <2>2. /\ cend[p] <= end[p]
        /\ \A a \in Stored(index) : index.at[a] <= cend[p]
        /\ \A a \in Stored(durable) : durable.at[a] <= cend[p]
        /\ \A a \in Stored(txn) : txn.at[a] <= end[p] /\ data[f][txn.at[a]] = a
    BY <1>1 DEF PackInv, BatchInv, BatchPcs
  <2>3. \A a \in Stored(txn) : txn.at[a] \in 1 .. end[p]
    BY <1>2, <2>2, IndexTypes DEF Stored, PackInv
  <2>4. end[p] <= Len(data'[f])
    <3>1. data' [f] \in Seq(Cells)
      <4>1. data'[f] = WriteAt(data[f], end[p] + 1, Torn)
        BY <1>1, InBatch DEF BatchPcs, PackInv, TypeOK
      <4>2. Torn \in Cells /\ end[p] + 1 \in Nat \ {0}
        BY <1>2 DEF Cells
      <4> QED BY <1>2, <4>1, <4>2, WriteAtType
    <3> QED BY <1>2, <1>3, <3>1, LenProperties
  <2> HIDE DEF f
  <2>5. dir'[index'.gen] = f /\ index' = index /\ durable' = durable /\ txn' = txn /\ end' = end /\ cend' = cend
    BY <1>1 DEF f, ends
  <2> QED BY <1>3, <2>1, <2>2, <2>3, <2>4, <2>5 DEF BatchInv, Stored
<1> QED BY <1>5, <1>6, <1>7 DEF DataInv

LEMMA DataSync ==
  ASSUME PackInv, NEW p \in Procs,
         SyncData(p) \/ SyncDataFails(p) \/ SyncCommit(p) \/ SyncFlush(p) \/ SyncFlushFails(p)
  PROVE  DataInv'
<1> DEFINE f == dir[index.gen]
<1>0. \A q \in Procs \ {p} : pc'[q] = pc[q]
  BY DEF SyncData, SyncDataFails, SyncCommit, SyncFlush, SyncFlushFails, Goto, PackInv, TypeOK
<1>1. CASE SyncData(p)
  <2>1. /\ pc[p] \in {"batch", "autosync"} /\ pc'[p] = "datasynced"
        /\ dlen' = [dlen EXCEPT ![Current(p)] = Len(data[Current(p)])]
        /\ UNCHANGED <<index, durable, txn, dir, data, maps, ends, ogen>>
    BY <1>1 DEF SyncData, Goto, PackInv, TypeOK, lmdb
  <2>2. /\ Current(p) = f /\ f \in Files /\ data[f] \in Seq(Cells)
        /\ \A q \in Procs \ {p} : pc[q] \notin LockedPcs
        /\ durable.gen = index.gen /\ txn.gen = index.gen
    BY <2>1, InBatch DEF BatchPcs
  <2>3. /\ end[p] <= Len(data[f])
        /\ \A a \in Stored(txn) : txn.at[a] <= end[p] /\ data[f][txn.at[a]] = a
    BY <2>1 DEF PackInv, BatchInv, BatchPcs
  <2>4. end[p] \in Nat /\ Len(data[f]) \in Nat /\ dlen[f] \in Nat /\ f # 0
    BY <2>2, LenProperties, IndexTypes DEF PackInv, TypeOK
  <2> HIDE DEF f
  <2>5. dlen'[f] = Len(data[f])
    BY <2>1, <2>2 DEF PackInv, TypeOK
  <2>6. ASSUME NEW ix, ix = index \/ ix = durable
        PROVE  Holds(ix, dir', data', dlen')
    <3>1. Holds(ix, dir, data, dlen) /\ dir[ix.gen] = f
      BY <2>2, <2>6, BackedHolds DEF PackInv, DiskInv, f
    <3>2. \A b \in Stored(ix) : ix.at[b] \in Nat
      BY <2>6, IndexTypes DEF Stored, PackInv
    <3> QED BY <2>1, <2>4, <2>5, <3>1, <3>2 DEF Holds
  <2>7. Holds(txn, dir', data', dlen')
    <3>1. \A b \in Stored(txn) : txn.at[b] \in Nat
      BY IndexTypes DEF Stored, PackInv
    <3> QED BY <2>1, <2>2, <2>3, <2>4, <2>5, <3>1 DEF Holds, f
  <2>8. \A q \in Procs : pc'[q] \in BatchPcs => q = p
    BY <1>0, <2>2 DEF LockedPcs, TxnPcs
  <2>9. FileInv'
    <3>1. \A q \in Procs : pc'[q] = "opening" => pc[q] = "opening"
      BY <1>0, <2>1
    <3>2. \A q \in Procs : pc'[q] \notin {"compacting", "copied"}
      BY <1>0, <2>1, <2>2 DEF LockedPcs, TxnPcs
    <3> QED BY <2>1, <3>1, <3>2 DEF PackInv, FileInv, maps
  <2>10. BatchInv'
    <3>1. pc[p] \in BatchPcs
      BY <2>1 DEF BatchPcs
    <3> QED BY <2>1, <2>8, <3>1 DEF PackInv, BatchInv, Stored, ends
  <2>11. DiskInv'
    BY <2>1, <2>2, <2>6, <2>7, BackedHolds DEF DiskInv
  <2> QED BY <2>9, <2>10, <2>11 DEF DataInv
<1>2. CASE SyncDataFails(p)
  <2>1. /\ pc[p] = "autosync" /\ pc'[p] = "batch" /\ UNCHANGED <<lmdb, disk, maps, ends, ogen>>
    BY <1>2 DEF SyncDataFails, Goto, PackInv, TypeOK
  <2>2. FileInv'
    BY <1>0, <2>1 DEF PackInv, FileInv, lmdb, disk, maps
  <2>3. BatchInv'
    BY <1>0, <2>1 DEF PackInv, BatchInv, BatchPcs, Stored, lmdb, disk, ends
  <2>4. DiskInv'
    BY <1>0, <2>1 DEF PackInv, DiskInv, Backed, Stored, lmdb, disk
  <2> QED BY <2>2, <2>3, <2>4 DEF DataInv
<1>3. CASE SyncCommit(p)
  <2>1. /\ pc[p] = "datasynced" /\ pc'[p] = "committed" /\ index' = txn
        /\ UNCHANGED <<durable, txn, disk, maps, ends, ogen>>
    BY <1>3 DEF SyncCommit, Goto, PackInv, TypeOK
  <2>2. /\ \A q \in Procs \ {p} : pc[q] \notin LockedPcs
        /\ durable.gen = index.gen /\ txn.gen = index.gen
    BY <2>1, InBatch DEF BatchPcs
  <2>3. \A q \in Procs : pc'[q] \notin BatchPcs \cup {"datasynced", "copied"}
    BY <1>0, <2>1, <2>2 DEF LockedPcs, TxnPcs, BatchPcs
  <2>4. FileInv'
    BY <1>0, <2>1, <2>2 DEF PackInv, FileInv, disk, maps
  <2>5. DiskInv'
    BY <2>1, <2>2, <2>3 DEF PackInv, DiskInv, Backed, Stored, disk
  <2> QED BY <2>3, <2>4, <2>5 DEF DataInv, BatchInv
<1>4. CASE SyncFlush(p) \/ SyncFlushFails(p)
  <2>1. /\ pc[p] = "committed" /\ pc'[p] = "ready" /\ durable' \in {durable, index}
        /\ UNCHANGED <<index, txn, disk, maps, ogen>>
    BY <1>4 DEF SyncFlush, SyncFlushFails, Goto, PackInv, TypeOK, lmdb
  <2>2. /\ \A q \in Procs \ {p} : pc[q] \notin LockedPcs
        /\ durable.gen = index.gen
    BY <2>1, Alone, NothingSwitched DEF PackInv, LockedPcs
  <2>3. \A q \in Procs : pc'[q] \notin BatchPcs \cup {"datasynced", "copied"}
    BY <1>0, <2>1, <2>2 DEF LockedPcs, TxnPcs, BatchPcs
  <2>4. FileInv'
    BY <1>0, <2>1, <2>2 DEF PackInv, FileInv, disk, maps
  <2>5. DiskInv'
    BY <2>1, <2>2, <2>3 DEF PackInv, DiskInv, Backed, Stored, disk
  <2> QED BY <2>3, <2>4, <2>5 DEF DataInv, BatchInv
<1> QED BY <1>1, <1>2, <1>3, <1>4

LEMMA DataBatch ==
  ASSUME PackInv, NEW p \in Procs, Batch(p)
  PROVE  DataInv'
BY DataBegin, DataPut, DataPutFails, DataSync DEF Batch

-----------------------------------------------------------------------------
LEMMA DataCompactBegin ==
  ASSUME NoSwitchFault, PackInv, NEW p \in Procs, CompactBegin(p)
  PROVE  DataInv'
<1>1. /\ pc[p] = "ready" /\ CanLock(p) /\ MapPack(p, index.gen)
      /\ UNCHANGED <<index, durable, txn, ogen>>
      /\ pc'[p] = "compacting" /\ \A q \in Procs \ {p} : pc'[q] = pc[q]
      /\ \A q \in Procs : pc[q] # "opening"
  BY DEF CompactBegin, Goto, PackInv, TypeOK, NoSwitchFault
<1>2. /\ \A q \in Procs \ {p} : pc[q] \notin LockedPcs
      /\ durable.gen = index.gen /\ index.gen \in Gens
  BY <1>1, Alone, NothingSwitched, IndexTypes DEF PackInv
<1>3. Holds(index, dir', data', dlen') /\ Holds(durable, dir', data', dlen')
  BY <1>1, <1>2, BackedHolds, MapPackFiles DEF PackInv, DiskInv, TypeOK
<1>4. \A q \in Procs : pc'[q] \notin BatchPcs \cup {"opening", "datasynced", "copied"}
  BY <1>1, <1>2 DEF LockedPcs, TxnPcs, BatchPcs
<1>5. FileInv'
  BY <1>1, <1>2, <1>4, MapPackFiles DEF PackInv, FileInv
<1>6. DiskInv'
  BY <1>1, <1>2, <1>3, <1>4, BackedHolds DEF DiskInv
<1> QED BY <1>4, <1>5, <1>6 DEF DataInv, BatchInv

(* Removing names other than that of the live generation, by a process     *)
(* that gives up or goes on without a batch.                               *)
LEMMA DataUnname ==
  ASSUME PackInv, NEW p \in Procs, pc[p] \in LockedPcs, pc[p] # "switched",
         NEW g, g # index.gen, dir' \in {dir, [dir EXCEPT ![g] = 0]},
         UNCHANGED <<index, durable, data, dlen, maps, ogen>>,
         pc'[p] \in {"ready", "unlinked"}, \A q \in Procs \ {p} : pc'[q] = pc[q]
  PROVE  DataInv'
<1>1. /\ \A q \in Procs \ {p} : pc[q] \notin LockedPcs
      /\ durable.gen = index.gen /\ index.gen \in Gens
  BY Alone, NothingSwitched, IndexTypes DEF PackInv
<1>2. \A q \in Procs : pc'[q] \notin BatchPcs \cup {"datasynced", "copied", "compacting"}
  BY <1>1 DEF LockedPcs, TxnPcs, BatchPcs
<1>3. /\ dir'[index.gen] = dir[index.gen]
      /\ \A h \in Gens : dir'[h] = dir[h] \/ dir'[h] = 0
  BY <1>1 DEF PackInv, TypeOK
<1>4. FileInv'
  BY <1>2, <1>3 DEF PackInv, FileInv, maps
<1>5. DiskInv'
  <2>1. Backed(index)' /\ Backed(durable)'
    BY <1>1, <1>3 DEF PackInv, DiskInv, Backed, Stored
  <2> QED BY <1>1, <1>2, <2>1 DEF DiskInv
<1> QED BY <1>2, <1>4, <1>5 DEF DataInv, BatchInv

LEMMA DataCompactFails ==
  ASSUME PackInv, NEW p \in Procs, CompactFails(p)
  PROVE  DataInv'
<1>1. /\ pc[p] \in {"compacting", "copied"} /\ pc'[p] = "ready"
      /\ \A q \in Procs \ {p} : pc'[q] = pc[q]
      /\ UNCHANGED <<index, durable, data, dlen, maps, ogen>>
      /\ dir' \in {dir, [dir EXCEPT ![index.gen + 1] = 0]}
  BY DEF CompactFails, Goto, PackInv, TypeOK
<1>2. pc[p] \in LockedPcs /\ pc[p] # "switched" /\ index.gen \in Nat /\ index.gen \in Gens
  BY <1>1, IndexTypes DEF PackInv, LockedPcs, TxnPcs
<1>3. index.gen + 1 # index.gen
  BY <1>2
<1> QED BY <1>1, <1>2, <1>3, DataUnname

LEMMA DataCompactUnlink ==
  ASSUME PackInv, NEW p \in Procs, CompactUnlink(p)
  PROVE  DataInv'
<1>1. /\ pc[p] = "flushed" /\ pc'[p] = "unlinked"
      /\ \A q \in Procs \ {p} : pc'[q] = pc[q]
      /\ UNCHANGED <<index, durable, data, dlen, maps, ogen>>
      /\ dir' = [dir EXCEPT ![index.gen - 1] = 0]
  BY DEF CompactUnlink, Goto, PackInv, TypeOK, lmdb
<1>2. pc[p] \in LockedPcs /\ pc[p] # "switched" /\ index.gen \in Nat /\ index.gen \in Gens
  BY <1>1, IndexTypes DEF PackInv, LockedPcs, TxnPcs
<1>3. index.gen - 1 # index.gen
  BY <1>2
<1> QED BY <1>1, <1>2, <1>3, DataUnname

(* Where compact has put the blob b.                                       *)
LEMMA CellOf ==
  ASSUME NEW keep, NEW s \in Orderings(keep), NEW b, CellIn(s, b) # 0
  PROVE  /\ CellIn(s, b) \in DOMAIN s /\ s[CellIn(s, b)] = b
         /\ DOMAIN s = 1 .. Cardinality(keep)
         /\ \A i \in 1 .. Cardinality(keep) : s[i] \in keep
<1>1. PICK i \in DOMAIN s : s[i] = b
  BY DEF CellIn
<1>2. CellIn(s, b) \in DOMAIN s /\ s[CellIn(s, b)] = b
  BY <1>1 DEF CellIn
<1> QED BY <1>2 DEF Orderings

LEMMA DataCompactCopy ==
  ASSUME PackInv, NEW p \in Procs, NEW keep \in SUBSET Stored(index), CompactCopy(p, keep)
  PROVE  DataInv'
<1> DEFINE G == index.gen
           old == map[p][G]
           new == NewPack
           n == Cardinality(keep)
<1>1. /\ pc[p] = "compacting" /\ pc'[p] = "copied" /\ G < MaxGen /\ old # 0
      /\ \A q \in Procs \ {p} : pc'[q] = pc[q]
      /\ new \in Files /\ dir' = [dir EXCEPT ![G + 1] = new]
      /\ dlen' = [dlen EXCEPT ![new] = n]
      /\ UNCHANGED <<index, durable, maps, ogen>>
  BY DEF CompactCopy, Goto, PackInv, TypeOK
<1>2. PICK s \in Orderings(keep) :
        /\ data' = [data EXCEPT ![new] = [i \in 1 .. n |-> data[old][index.at[s[i]]]]]
        /\ txn' = [gen |-> G + 1, at |-> [b \in Blobs |-> CellIn(s, b)]]
  BY DEF CompactCopy
<1>3. G \in Gens /\ G \in Nat /\ G + 1 \in Gens /\ G + 1 # G /\ 0 \notin Files
  BY <1>1, IndexTypes, PackAssumption DEF PackInv, Gens
<1>4. pc[p] \in LockedPcs /\ pc[p] # "switched"
  BY <1>1 DEF LockedPcs, TxnPcs
<1>5. /\ \A q \in Procs \ {p} : pc[q] \notin LockedPcs
      /\ durable.gen = G
  BY <1>4, Alone, NothingSwitched DEF PackInv
<1>6. \A q \in Procs : pc[q] # "opening"
  BY <1>1 DEF PackInv, FileInv
<1>7. keep \in SUBSET Blobs /\ n \in Nat
  BY FS_Subset, FS_CardinalityType, PackAssumption DEF Stored
<1>8. old = dir[G] /\ dir[G] # 0
  BY <1>1 DEF PackInv, FileInv
<1>9. new # dir[G] /\ \A h \in Gens : h # G + 1 => dir[h] # new
  <2>1. CASE dir[G + 1] # 0
    BY <1>3, <1>8, <2>1 DEF NewPack, PackInv, FileInv
  <2>2. CASE dir[G + 1] = 0
    <3>1. new \in Free
      BY <1>1, <1>3, <2>2 DEF NewPack, NewFile
    <3> QED BY <1>3, <3>1 DEF Free, InUse
  <2> QED BY <2>1, <2>2
<1>10. /\ dir'[G] = dir[G] /\ data'[dir[G]] = data[dir[G]] /\ dlen'[dir[G]] = dlen[dir[G]]
  BY <1>1, <1>2, <1>3, <1>8, <1>9 DEF PackInv, TypeOK
<1>11. Holds(index, dir', data', dlen') /\ Holds(durable, dir', data', dlen')
  BY <1>5, <1>10, BackedHolds, HoldsKept DEF PackInv, DiskInv
<1>12. \A b \in keep : data[old][index.at[b]] = b
  BY <1>8 DEF PackInv, DiskInv, Backed
<1>13. Holds(txn', dir', data', dlen')
  <2> DEFINE cells == [i \in 1 .. n |-> data[old][index.at[s[i]]]]
  <2>1. dir'[G + 1] = new /\ new # 0
    BY <1>1, <1>3 DEF PackInv, TypeOK
  <2>2. data'[new] = cells /\ dlen'[new] = n
    BY <1>1, <1>2 DEF PackInv, TypeOK
  <2>3. txn'.gen = G + 1 /\ \A b \in Blobs : txn'.at[b] = CellIn(s, b)
    BY <1>2
  <2>4. ASSUME NEW b \in Blobs, CellIn(s, b) # 0
        PROVE  CellIn(s, b) \in 1 .. n /\ cells[CellIn(s, b)] = b
    <3>1. /\ CellIn(s, b) \in DOMAIN s /\ s[CellIn(s, b)] = b
          /\ DOMAIN s = 1 .. n /\ \A i \in 1 .. n : s[i] \in keep
      BY <2>4, CellOf
    <3> HIDE DEF n, old
    <3> QED BY <1>12, <3>1
  <2>5. Len(cells) = n
    BY <1>7
  <2> HIDE DEF cells, new, n, G
  <2> QED BY <1>7, <2>1, <2>2, <2>3, <2>4, <2>5 DEF Holds, Stored
<1>14. FileInv'
  <2> HIDE DEF new, n
  <2>1. \A q \in Procs : pc'[q] # "opening"
    BY <1>1, <1>6
  <2>2. \A h \in Gens : dir'[h] = IF h = G + 1 THEN new ELSE dir[h]
    BY <1>1 DEF PackInv, TypeOK
  <2>3. \A g, h \in Gens : dir'[g] = dir'[h] /\ dir'[g] # 0 => g = h
    BY <1>9, <2>2 DEF PackInv, FileInv
  <2>4. \A q \in Procs : map'[q][index'.gen] # 0 => map'[q][index'.gen] = dir'[index'.gen]
    BY <1>1, <1>10 DEF PackInv, FileInv, maps
  <2> QED BY <2>1, <2>3, <2>4 DEF FileInv
<1>15. \A q \in Procs : pc'[q] \notin BatchPcs
  BY <1>1, <1>5 DEF LockedPcs, TxnPcs, BatchPcs
<1>16. DiskInv'
  BY <1>1, <1>5, <1>11, <1>13, BackedHolds DEF DiskInv
<1> QED BY <1>14, <1>15, <1>16 DEF DataInv, BatchInv

LEMMA DataCompactSwitch ==
  ASSUME NoSwitchFault, PackInv, NEW p \in Procs,
         CompactCommit(p) \/ CompactFlush(p) \/ CompactFlushFails(p)
  PROVE  DataInv'
<1>1. CASE CompactCommit(p)
  <2>1. /\ pc[p] = "copied" /\ pc'[p] = "switched" /\ index' = txn
        /\ \A q \in Procs \ {p} : pc'[q] = pc[q]
        /\ UNCHANGED <<durable, txn, disk, maps, ogen>>
    BY <1>1 DEF CompactCommit, Goto, PackInv, TypeOK
  <2>2. /\ pc[p] \in LockedPcs /\ pc[p] # "switched" /\ txn.gen = index.gen + 1
        /\ index.gen \in Nat /\ txn.gen \in Gens
    BY <2>1, IndexTypes DEF PackInv, LockInv, LockedPcs, TxnPcs
  <2>3. /\ \A q \in Procs \ {p} : pc[q] \notin LockedPcs
        /\ durable.gen = index.gen
    BY <2>2, Alone, NothingSwitched DEF PackInv
  <2>4. \A q \in Procs : pc'[q] \notin BatchPcs \cup {"opening", "datasynced", "copied"}
    BY <2>1, <2>3 DEF PackInv, FileInv, LockedPcs, TxnPcs, BatchPcs
  <2>5. \A q \in Procs : map[q][txn.gen] = 0
    <3>1. ~(txn.gen <= index.gen)
      BY <2>2
    <3> QED BY <2>2, <3>1 DEF PackInv, MapInv
  <2>6. FileInv'
    BY <2>1, <2>4, <2>5 DEF PackInv, FileInv, disk, maps
  <2>7. DiskInv'
    <3>1. Backed(txn) /\ Backed(durable)
      BY <2>1 DEF PackInv, DiskInv
    <3>2. Backed(index)' /\ Backed(durable)'
      BY <2>1, <3>1 DEF Backed, Stored, disk
    <3>3. durable'.gen + 1 = index'.gen /\ pc'[p] = "switched"
      BY <2>1, <2>2, <2>3
    <3> QED BY <2>4, <3>2, <3>3 DEF DiskInv
  <2> QED BY <2>4, <2>6, <2>7 DEF DataInv, BatchInv
<1>2. CASE CompactFlush(p)
  <2>1. /\ pc[p] = "switched" /\ pc'[p] = "flushed" /\ durable' = index
        /\ \A q \in Procs \ {p} : pc'[q] = pc[q]
        /\ UNCHANGED <<index, txn, disk, maps, ogen>>
    BY <1>2 DEF CompactFlush, Goto, PackInv, TypeOK
  <2>2. \A q \in Procs \ {p} : pc[q] \notin LockedPcs
    BY <2>1, Alone DEF PackInv, LockedPcs
  <2>3. \A q \in Procs : pc'[q] \notin BatchPcs \cup {"datasynced", "copied", "compacting"}
    BY <2>1, <2>2 DEF LockedPcs, TxnPcs, BatchPcs
  <2>4. FileInv'
    BY <2>1, <2>3 DEF PackInv, FileInv, disk, maps
  <2>5. DiskInv'
    BY <2>1, <2>3 DEF PackInv, DiskInv, Backed, Stored, disk
  <2> QED BY <2>3, <2>4, <2>5 DEF DataInv, BatchInv
<1>3. ~CompactFlushFails(p)
  BY DEF CompactFlushFails, NoSwitchFault
<1> QED BY <1>1, <1>2, <1>3

LEMMA DataCompact ==
  ASSUME NoSwitchFault, PackInv, NEW p \in Procs, Compact(p)
  PROVE  DataInv'
<1>1. CASE CompactRemap(p)
  <2>1. /\ MapPack(p, index.gen) /\ index.gen \in Gens /\ UNCHANGED <<lmdb, ends, ogen>>
        /\ pc[p] = "unlinked" /\ pc'[p] = "ready" /\ \A q \in Procs \ {p} : pc'[q] = pc[q]
    BY <1>1, IndexTypes DEF CompactRemap, Goto, PackInv, TypeOK
  <2> QED BY <2>1, MapOnly DEF LockedPcs, TxnPcs, BatchPcs
<1> QED BY <1>1, DataCompactBegin, DataCompactFails, DataCompactCopy, DataCompactSwitch,
           DataCompactUnlink DEF Compact

-----------------------------------------------------------------------------
LEMMA DataGet ==
  ASSUME PackInv, NEW p \in Procs, Get(p)
  PROVE  DataInv'
<1>1. CASE Locate(p)
  <2>1. rd[p].gen \in Gens
    BY <1>1 DEF Locate, PackInv, TypeOK, ReadStates, NoRead
  <2>2. MapPack(p, rd[p].gen) /\ UNCHANGED <<lmdb, ends, pc, ogen>>
    BY <1>1 DEF Locate
  <2> QED BY <2>1, <2>2, MapOnly
<1>2. CASE ~Locate(p)
  <2>1. UNCHANGED <<lmdb, disk, maps, ends, pc, ogen>>
    BY <1>2 DEF Get, Lookup, LocateFails, Relook, Fetch
  <2> QED BY <2>1 DEF PackInv, DataInv, FileInv, BatchInv, DiskInv, Backed, Stored,
                      lmdb, disk, maps, ends
<1> QED BY <1>1, <1>2

(* A process ends that is not between the commit and the sync of a         *)
(* compaction, and leaves the files alone.                                 *)
LEMMA DataGone ==
  ASSUME PackInv, NEW p \in Procs, Gone(p), pc[p] # "switched", UNCHANGED disk
  PROVE  DataInv'
<1>1. /\ pc'[p] = "closed" /\ \A q \in Procs \ {p} : pc'[q] = pc[q]
      /\ map'[p] = Unmapped /\ \A q \in Procs \ {p} : map'[q] = map[q] /\ ogen'[q] = ogen[q]
      /\ \A q \in Procs \ {p} : end'[q] = end[q] /\ cend'[q] = cend[q]
      /\ UNCHANGED <<index, durable>>
  BY DEF Gone, Goto, EndBatch, PackInv, TypeOK
<1>2. index.gen \in Gens
  BY IndexTypes DEF PackInv
<1>3. txn' = txn \/ \A q \in Procs \ {p} : pc[q] \notin TxnPcs
  BY PackAssumption DEF Gone, PackInv, LockInv
<1>4. FileInv'
  BY <1>1, <1>2 DEF PackInv, FileInv, Unmapped, disk
<1>5. BatchInv'
  <2> SUFFICES ASSUME NEW q \in Procs, pc'[q] \in BatchPcs
               PROVE  /\ cend'[q] <= end'[q] /\ end'[q] <= Len(data'[dir'[index'.gen]])
                      /\ \A b \in Stored(index)' : index'.at[b] <= cend'[q]
                      /\ \A b \in Stored(durable)' : durable'.at[b] <= cend'[q]
                      /\ \A b \in Stored(txn)' : /\ txn'.at[b] <= end'[q]
                                                /\ data'[dir'[index'.gen]][txn'.at[b]] = b
    BY DEF BatchInv
  <2>1. q # p /\ pc[q] \in BatchPcs
    BY <1>1 DEF BatchPcs
  <2>2. txn' = txn
    BY <1>3, <2>1 DEF TxnPcs
  <2> QED BY <1>1, <2>1, <2>2 DEF PackInv, BatchInv, Stored, disk
<1>6. DiskInv'
  <2>1. Backed(index)' /\ Backed(durable)'
    BY <1>1 DEF PackInv, DiskInv, Backed, Stored, disk
  <2>2. ASSUME NEW q \in Procs, pc'[q] \in {"datasynced", "copied"}
        PROVE  Backed(txn)'
    <3>1. q # p /\ pc[q] \in {"datasynced", "copied"}
      BY <1>1, <2>2
    <3>2. txn' = txn
      BY <1>3, <3>1 DEF TxnPcs, BatchPcs
    <3> QED BY <3>1, <3>2 DEF PackInv, DiskInv, Backed, Stored, disk
  <2>3. \A q \in Procs : pc[q] = "switched" => pc'[q] = "switched"
    BY <1>1
  <2>4. \/ durable'.gen = index'.gen
        \/ durable'.gen + 1 = index'.gen /\ \E q \in Procs : pc'[q] = "switched"
    BY <1>1, <2>3 DEF PackInv, DiskInv
  <2> QED BY <2>1, <2>2, <2>4 DEF DiskInv
<1> QED BY <1>4, <1>5, <1>6 DEF DataInv

(* ~Impl cuts off nothing that an index refers to.                         *)
LEMMA DataClose ==
  ASSUME PackInv, NEW p \in Procs, Close(p)
  PROVE  DataInv'
<1>1. CASE pc[p] # "batch"
  BY <1>1, DataGone DEF Close, disk
<1>2. CASE pc[p] = "batch"
  <2> DEFINE f == dir[index.gen]
  <2>1. /\ Current(p) = f /\ f \in Files /\ data[f] \in Seq(Cells)
        /\ cend[p] \in Nat /\ end[p] \in Nat
        /\ \A q \in Procs \ {p} : pc[q] \notin LockedPcs
        /\ durable.gen = index.gen
    BY <1>2, InBatch DEF BatchPcs
  <2>2. /\ data' = [data EXCEPT ![f] = Cut(@, cend[p])]
        /\ dlen' = [dlen EXCEPT ![f] = IF @ < cend[p] THEN @ ELSE cend[p]]
        /\ dir' = dir /\ Gone(p)
    BY <1>2, <2>1 DEF Close
  <2>3. /\ pc'[p] = "closed" /\ \A q \in Procs \ {p} : pc'[q] = pc[q] /\ ogen'[q] = ogen[q]
        /\ map'[p] = Unmapped /\ \A q \in Procs \ {p} : map'[q] = map[q]
        /\ UNCHANGED <<index, durable>>
    BY <2>2 DEF Gone, Goto, PackInv, TypeOK
  <2>4. /\ cend[p] <= end[p] /\ end[p] <= Len(data[f])
        /\ \A b \in Stored(index) : index.at[b] <= cend[p]
        /\ \A b \in Stored(durable) : durable.at[b] <= cend[p]
    BY <1>2 DEF PackInv, BatchInv, BatchPcs
  <2> HIDE DEF f
  <2>5. Len(data[f]) \in Nat /\ dlen[f] \in Nat
    BY <2>1, LenProperties DEF PackInv, TypeOK
  <2>6. /\ Len(data'[f]) = cend[p]
        /\ \A i \in 1 .. cend[p] : data'[f][i] = data[f][i]
        /\ dlen'[f] = IF dlen[f] < cend[p] THEN dlen[f] ELSE cend[p]
    <3>1. data'[f] = Cut(data[f], cend[p])
      BY <2>1, <2>2 DEF PackInv, TypeOK
    <3>2. dlen'[f] = IF dlen[f] < cend[p] THEN dlen[f] ELSE cend[p]
      BY <2>1, <2>2 DEF PackInv, TypeOK
    <3> QED BY <2>1, <2>4, <2>5, <3>1, <3>2 DEF Cut
  <2>7. ASSUME NEW ix, ix = index \/ ix = durable
        PROVE  Holds(ix, dir', data', dlen')
    <3>1. ix.gen = index.gen /\ \A b \in Stored(ix) : ix.at[b] <= cend[p] /\ ix.at[b] \in 1 .. cend[p]
      BY <2>1, <2>4, <2>7, IndexTypes DEF Stored, PackInv
    <3>2. Holds(ix, dir, data, dlen) /\ dir[ix.gen] = f /\ dir'[ix.gen] = f
      BY <2>2, <2>7, <3>1, BackedHolds DEF PackInv, DiskInv, f
    <3> QED BY <2>1, <2>5, <2>6, <3>1, <3>2 DEF Holds
  <2>8. index.gen \in Gens
    BY IndexTypes DEF PackInv
  <2>9. FileInv'
    BY <2>2, <2>3, <2>8 DEF PackInv, FileInv, Unmapped
  <2>10. \A q \in Procs : pc'[q] \notin BatchPcs \cup {"datasynced", "copied"}
    BY <2>1, <2>3 DEF LockedPcs, TxnPcs, BatchPcs
  <2>11. DiskInv'
    BY <2>1, <2>3, <2>7, <2>10, BackedHolds DEF DiskInv
  <2> QED BY <2>9, <2>10, <2>11 DEF DataInv, BatchInv
<1> QED BY <1>1, <1>2

(* What power loss leaves of a pack is at least what an fdatasync covered. *)
LEMMA DataPowerLoss ==
  ASSUME PackInv, PowerLoss
  PROVE  DataInv'
<1>1. /\ index' \in {index, durable} /\ durable' = index' /\ UNCHANGED <<dir, dlen>>
      /\ \A p \in Procs : pc'[p] = "closed" /\ map'[p] = Unmapped
  BY DEF PowerLoss
<1>2. index'.gen \in Gens
  BY <1>1, IndexTypes DEF PackInv
<1>3. ASSUME NEW f \in Files, dlen[f] <= Len(data[f])
      PROVE  /\ dlen[f] <= Len(data'[f])
             /\ \A i \in 1 .. dlen[f] : data'[f][i] = data[f][i]
  <2>1. dlen[f] \in Nat /\ Len(data[f]) \in Nat
    BY LenProperties DEF PackInv, TypeOK
  <2>2. CASE data' = data
    BY <1>3, <2>2
  <2>3. CASE data' = [g \in Files |-> Cut(data[g], dlen[g])]
    <3>1. data'[f] = Cut(data[f], dlen[f])
      BY <2>3
    <3> QED BY <1>3, <2>1, <3>1 DEF Cut
  <2>4. CASE data' = [g \in Files |-> [i \in 1 .. Len(data[g]) |->
                                         IF i <= dlen[g] THEN data[g][i] ELSE Torn]]
    <3>1. data'[f] = [i \in 1 .. Len(data[f]) |-> IF i <= dlen[f] THEN data[f][i] ELSE Torn]
      BY <2>4
    <3> QED BY <1>3, <2>1, <3>1
  <2> QED BY <2>2, <2>3, <2>4 DEF PowerLoss
<1>4. Holds(index', dir', data', dlen')
  <2> SUFFICES ASSUME NEW b \in Stored(index')
               PROVE  /\ dir[index'.gen] # 0
                      /\ index'.at[b] <= dlen[dir[index'.gen]]
                      /\ dlen[dir[index'.gen]] <= Len(data'[dir[index'.gen]])
                      /\ data'[dir[index'.gen]][index'.at[b]] = b
    BY <1>1 DEF Holds
  <2> DEFINE f == dir[index'.gen]
  <2>1. Holds(index', dir, data, dlen)
    BY <1>1, BackedHolds DEF PackInv, DiskInv
  <2>2. /\ f # 0 /\ index'.at[b] <= dlen[f] /\ dlen[f] <= Len(data[f])
        /\ data[f][index'.at[b]] = b
    BY <2>1 DEF Holds
  <2>3. f \in Files /\ dlen[f] \in Nat /\ index'.at[b] \in Nat \ {0}
    BY <1>1, <1>2, <2>2, IndexTypes DEF PackInv, TypeOK, Stored
  <2> HIDE DEF f
  <2>4. index'.at[b] \in 1 .. dlen[f]
    BY <2>2, <2>3
  <2> QED BY <1>3, <2>2, <2>3, <2>4 DEF f
<1>5. FileInv'
  BY <1>1, <1>2 DEF PackInv, FileInv, Unmapped
<1>6. DiskInv'
  BY <1>1, <1>4, BackedHolds DEF DiskInv
<1> QED BY <1>1, <1>5, <1>6 DEF DataInv, BatchInv, BatchPcs

LEMMA DataNext ==
  ASSUME NoSwitchFault, PackInv, [Next]_vars
  PROVE  DataInv'
<1>1. CASE PowerLoss
  BY <1>1, DataPowerLoss
<1>2. CASE UNCHANGED vars
  BY <1>2 DEF PackInv, DataInv, FileInv, BatchInv, DiskInv, Backed, Stored,
              vars, lmdb, disk, maps, ends
<1>3. ASSUME NEW p \in Procs, Kill(p) PROVE DataInv'
  BY <1>3, DataGone DEF Kill, NoSwitchFault
<1> QED BY <1>1, <1>2, <1>3, DataOpen, DataBatch, DataCompact, DataGet, DataClose DEF Next

-----------------------------------------------------------------------------
LEMMA AlwaysPackInv == NoSwitchFault => (Spec => []PackInv)
<1> SUFFICES ASSUME NoSwitchFault PROVE Spec => []PackInv
  OBVIOUS
<1>1. Init => PackInv
  BY TypeInit, LockInit, MapInit, DataInit DEF PackInv, DataInv
<1>2. PackInv /\ [Next]_vars => PackInv'
  BY TypeNext, LockNext, MapNext, DataNext DEF PackInv, DataInv
<1> QED BY <1>1, <1>2, PTL DEF Spec

(* Unless compact() is stopped between its commit and its mdb_env_sync or  *)
(* overlaps an open_once, and whatever else fails or dies, every entry of  *)
(* the index names synced bytes of its blob in a pack that is there.       *)
THEOREM IndexAlwaysBacked == NoSwitchFault => (Spec => []IndexSound)
<1>1. PackInv => IndexSound
  BY DEF PackInv, DiskInv, IndexSound
<1> QED BY <1>1, AlwaysPackInv, PTL

(* And so does every entry of the index that a power loss would bring back:*)
(* the pack is synced before the commit, and no pack that the durable      *)
(* index names is removed before mdb_env_sync has replaced it.             *)
THEOREM DurableAlwaysBacked == NoSwitchFault => (Spec => []DurableSound)
<1>1. PackInv => DurableSound
  BY DEF PackInv, DiskInv, DurableSound
<1> QED BY <1>1, AlwaysPackInv, PTL
=============================================================================
