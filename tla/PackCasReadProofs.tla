------------------------- MODULE PackCasReadProofs -------------------------
(***************************************************************************)
(* Readers, which take no lock, get the bytes they ask for: ReaderSound    *)
(* and StoreSpec for every instance of PackCas in which, besides, nobody   *)
(* reads in a process that writes.                                         *)
(***************************************************************************)
EXTENDS PackCasProofs

QuietReads == /\ NoSwitchFault /\ "mapRace" \notin Faults
              /\ Readers \cap Writers = {}

Inv == PackInv /\ NameInv /\ ReadInv

(* The file that a lookup r will read, with the mappings m of its process  *)
(* and the directory d; and what the files da then hold for it.            *)
FileOf(r, m, d) == IF m[r.gen] # 0 THEN m[r.gen] ELSE d[r.gen]
Reads(r, m, d, da, ix) ==
  /\ r.at # 0
  /\ r.gen = ix.gen => ix.at[r.b] = r.at
  /\ FileOf(r, m, d) # 0 => /\ r.at <= Len(da[FileOf(r, m, d)])
                            /\ da[FileOf(r, m, d)][r.at] = r.b

LEMMA ReadInvParts ==
  /\ ReadInv <=>
       /\ \A q \in Procs : rd[q].st \notin {"misread", "corrupt"}
       /\ \A q \in Procs : Reading(q) => q \in Readers
       /\ \A q \in Procs : Holding(q) => Reads(rd[q], map[q], dir, data, index)
       /\ \A q \in Procs : rd[q].st = "mapped" => map[q][rd[q].gen] # 0
  /\ ReadInv' <=>
       /\ \A q \in Procs : rd'[q].st \notin {"misread", "corrupt"}
       /\ \A q \in Procs : Reading(q)' => q \in Readers
       /\ \A q \in Procs : Holding(q)' => Reads(rd'[q], map'[q], dir', data', index')
       /\ \A q \in Procs : rd'[q].st = "mapped" => map'[q][rd'[q].gen] # 0
BY DEF ReadInv, ReaderSound, Reads, FoundIn, FileOf

LEMMA RdType ==
  ASSUME TypeOK, NEW q \in Procs, Reading(q)
  PROVE  /\ rd[q].gen \in Gens /\ rd[q].at \in Nat /\ rd[q].b \in Blobs /\ rd[q].tries \in Nat
         /\ rd[q] # NoRead
BY DEF TypeOK, ReadStates, NoRead, Reading

LEMMA HoldingReads ==
  ASSUME NEW q, Holding(q)
  PROVE  Reading(q)
BY DEF Holding, Reading

(* A file in use: two generations never mean the same one.                 *)
LEMMA OneGeneration ==
  ASSUME Inv, NEW q \in Procs, Holding(q), NEW h \in Gens, dir[h] # 0,
         FileOf(rd[q], map[q], dir) = dir[h]
  PROVE  rd[q].gen = h
<1>1. rd[q].gen \in Gens
  BY HoldingReads, RdType DEF Inv, PackInv
<1>2. CASE map[q][rd[q].gen] # 0
  BY <1>1, <1>2 DEF FileOf, Inv, NameInv
<1>3. CASE map[q][rd[q].gen] = 0
  BY <1>1, <1>3 DEF FileOf, Inv, PackInv, FileInv
<1> QED BY <1>2, <1>3

(* mapping_for(g, true) leaves the cells of every file that is in use.     *)
LEMMA MapPackCells ==
  ASSUME TypeOK, NEW p \in Procs, NEW g \in Gens, MapPack(p, g), NEW f \in Files, InUse(f)
  PROVE  data'[f] = data[f]
<1>1. CASE map[p][g] = 0 /\ dir[g] = 0
  <2>1. data' = [data EXCEPT ![FileFor(p, g)] = <<>>] /\ FileFor(p, g) \in Files
    BY <1>1 DEF MapPack
  <2>2. FileFor(p, g) = NewFile
    BY <1>1 DEF FileFor
  <2>3. FileFor(p, g) \in Free
    BY <2>1, <2>2 DEF NewFile, Files
  <2>4. FileFor(p, g) # f
    BY <2>3 DEF Free
  <2> QED BY <2>1, <2>4 DEF TypeOK
<1>2. CASE ~(map[p][g] = 0 /\ dir[g] = 0)
  BY <1>2 DEF MapPack, disk
<1> QED BY <1>1, <1>2

(* A pack is created only for the live generation, of which nobody can     *)
(* have found anything then; any other mapping is of the file that a       *)
(* lookup would read anyway.                                               *)
LEMMA ReadsMap ==
  ASSUME Inv, NEW p \in Procs, NEW g \in Gens, MapPack(p, g),
         map[p][g] = 0 /\ dir[g] = 0 => g = index.gen,
         NEW q \in Procs, Holding(q)
  PROVE  /\ Reads(rd[q], map'[q], dir', data', index)
         /\ map[q][rd[q].gen] # 0 => map'[q][rd[q].gen] # 0
<1> DEFINE r == rd[q]
           f == FileOf(r, map[q], dir)
<1>0. TypeOK /\ r.gen \in Gens /\ r.b \in Blobs
  BY HoldingReads, RdType DEF Inv, PackInv
<1>1. Reads(r, map[q], dir, data, index)
  BY ReadInvParts DEF Inv
<1>2. CASE map[p][g] = 0 /\ dir[g] = 0 /\ r.gen = g
  <2>1. index.at[r.b] # 0
    BY <1>1, <1>2 DEF Reads
  <2>2. Backed(index)
    BY DEF Inv, PackInv, DiskInv
  <2>3. dir[index.gen] # 0
    BY <1>0, <2>1, <2>2 DEF Backed, Stored
  <2> QED BY <1>2, <2>3
<1>3. CASE ~(map[p][g] = 0 /\ dir[g] = 0 /\ r.gen = g)
  <2>1. FileOf(r, map'[q], dir') = f
    <3>1. CASE r.gen # g
      <4>1. map'[q][r.gen] = map[q][r.gen] /\ dir'[r.gen] = dir[r.gen]
        BY <1>0, <3>1, MapPackDisk
      <4> QED BY <4>1 DEF FileOf
    <3>2. CASE r.gen = g /\ q # p
      <4>1. map'[q][g] = map[q][g]
        BY <1>0, <3>2, MapPackDisk
      <4>2. dir[g] # 0 => dir'[g] = dir[g]
        BY <1>0, MapPackDisk
      <4>3. map[q][g] # 0 => FileOf(r, map'[q], dir') = f
        BY <3>2, <4>1 DEF FileOf
      <4>4. CASE map[q][g] = 0 /\ dir[g] = 0
        <5>1. map[p][g] # 0
          BY <1>3, <3>2, <4>4
        <5>2. dir' = dir
          BY <5>1 DEF MapPack, disk
        <5> QED BY <3>2, <4>1, <5>2 DEF FileOf
      <4>5. CASE map[q][g] = 0 /\ dir[g] # 0
        BY <3>2, <4>1, <4>2, <4>5 DEF FileOf
      <4> QED BY <4>3, <4>4, <4>5
    <3>3. CASE r.gen = g /\ q = p
      <4>1. map'[p][g] = IF map[p][g] # 0 THEN map[p][g] ELSE dir'[g]
        BY <1>0, MapPackDisk
      <4>2. map'[p][g] # 0
        BY <1>0, MapPackDisk DEF Files
      <4>3. map[p][g] = 0 => dir[g] # 0 /\ dir'[g] = dir[g]
        BY <1>0, <1>3, <3>3, MapPackDisk
      <4> QED BY <3>3, <4>1, <4>2, <4>3 DEF FileOf
    <3> QED BY <3>1, <3>2, <3>3
  <2>2. f # 0 => data'[f] = data[f]
    <3> SUFFICES ASSUME f # 0 PROVE data'[f] = data[f]
      OBVIOUS
    <3>1. f \in Files
      BY <1>0 DEF FileOf, TypeOK
    <3>2. InUse(f)
      BY <1>0 DEF FileOf, InUse
    <3> QED BY <1>0, <3>1, <3>2, MapPackCells
  <2>3. Reads(r, map'[q], dir', data', index)
    BY <1>1, <2>1, <2>2 DEF Reads
  <2>4. map[q][r.gen] # 0 => map'[q][r.gen] # 0
    BY <1>0, MapPackDisk DEF Files
  <2> QED BY <2>3, <2>4
<1> QED BY <1>2, <1>3

(* Names that go, and files that nobody looks into any more.               *)
LEMMA ReadsUnname ==
  ASSUME Inv, NEW q \in Procs, Holding(q),
         \A h \in Gens : dir'[h] \in {0, dir[h]}
  PROVE  Reads(rd[q], map[q], dir', data, index)
<1>1. rd[q].gen \in Gens
  BY HoldingReads, RdType DEF Inv, PackInv
<1>2. Reads(rd[q], map[q], dir, data, index)
  BY ReadInvParts DEF Inv
<1> QED BY <1>1, <1>2 DEF Reads, FileOf

(* What is written to, or cut off, the live pack leaves what the index has *)
(* there.                                                                  *)
LEMMA ReadsWrite ==
  ASSUME Inv, NEW q \in Procs, Holding(q), dir[index.gen] \in Files,
         NEW new, data' = [data EXCEPT ![dir[index.gen]] = new],
         \A b \in Stored(index) : /\ index.at[b] <= Len(new)
                                  /\ new[index.at[b]] = data[dir[index.gen]][index.at[b]]
  PROVE  Reads(rd[q], map[q], dir, data', index)
<1> DEFINE r == rd[q]
           f == FileOf(r, map[q], dir)
<1>1. r.gen \in Gens /\ r.b \in Blobs /\ index.gen \in Gens /\ 0 \notin Files
  BY HoldingReads, RdType, IndexTypes DEF Inv, PackInv
<1>2. Reads(r, map[q], dir, data, index)
  BY ReadInvParts DEF Inv
<1>3. CASE f = dir[index.gen]
  <2>1. r.gen = index.gen
    BY <1>1, <1>3, OneGeneration
  <2>2. index.at[r.b] = r.at /\ r.b \in Stored(index)
    BY <1>1, <1>2, <2>1 DEF Reads, Stored
  <2>3. data'[f] = new
    BY <1>3 DEF Inv, PackInv, TypeOK
  <2> QED BY <1>1, <1>2, <1>3, <2>2, <2>3 DEF Reads
<1>4. CASE f # dir[index.gen]
  <2>1. data'[f] = data[f] \/ f = 0
    BY <1>1, <1>4 DEF FileOf, Inv, PackInv, TypeOK
  <2> QED BY <1>2, <2>1 DEF Reads
<1> QED BY <1>3, <1>4

(* compact() fills a file that nobody has found anything in.               *)
LEMMA ReadsCopy ==
  ASSUME Inv, NEW p \in Procs, NEW keep \in SUBSET Stored(index), CompactCopy(p, keep),
         NEW q \in Procs, Holding(q)
  PROVE  Reads(rd[q], map[q], dir', data', index)
<1> DEFINE r == rd[q]
           f == FileOf(r, map[q], dir)
           G == index.gen
<1>1. /\ r.gen \in Gens /\ r.b \in Blobs /\ G \in Gens /\ 0 \notin Files
      /\ Gens \subseteq Nat /\ r.gen <= G
  BY HoldingReads, RdType, IndexTypes, PackAssumption DEF Inv, PackInv, MapInv, Gens
<1>2. Reads(r, map[q], dir, data, index)
  BY ReadInvParts DEF Inv
<1>3. /\ G < MaxGen /\ NewPack \in Files /\ dir' = [dir EXCEPT ![G + 1] = NewPack]
      /\ \E new : data' = [data EXCEPT ![NewPack] = new]
  BY DEF CompactCopy
<1>4. G + 1 \in Gens /\ r.gen # G + 1
  BY <1>1, <1>3, PackAssumption DEF Gens
<1>5. dir'[r.gen] = dir[r.gen]
  BY <1>1, <1>3, <1>4 DEF Inv, PackInv, TypeOK
<1>6. FileOf(r, map[q], dir') = f
  BY <1>5 DEF FileOf
<1>7. f # 0 => f # NewPack
  <2> SUFFICES ASSUME f # 0, f = NewPack PROVE FALSE
    OBVIOUS
  <2>1. CASE dir[G + 1] # 0
    BY <1>4, <2>1, OneGeneration DEF NewPack
  <2>2. CASE dir[G + 1] = 0
    <3>1. f = NewFile
      BY <2>2 DEF NewPack
    <3>2. f \in Free
      BY <1>1, <1>3, <3>1 DEF NewFile
    <3>3. InUse(f)
      BY <1>1 DEF FileOf, InUse
    <3> QED BY <3>2, <3>3 DEF Free
  <2> QED BY <2>1, <2>2
<1>8. f # 0 => data'[f] = data[f]
  BY <1>1, <1>3, <1>7 DEF FileOf, Inv, PackInv, TypeOK
<1> QED BY <1>2, <1>6, <1>8 DEF Reads

-----------------------------------------------------------------------------
LEMMA NameInit == Init => NameInv
<1> SUFFICES ASSUME Init PROVE NameInv
  OBVIOUS
<1> QED BY DEF Init, NameInv, Unmapped, BatchPcs

(* The names and files part of NameInv, ...                                *)
FilesApart(m, d) == \A q \in Procs, g, h \in Gens : m[q][g] # 0 /\ m[q][g] = d[h] => g = h

LEMMA ApartMap ==
  ASSUME TypeOK, FileInv, FilesApart(map, dir), NEW p \in Procs, NEW k \in Gens, MapPack(p, k)
  PROVE  FilesApart(map', dir')
<1> SUFFICES ASSUME NEW q \in Procs, NEW g \in Gens, NEW h \in Gens,
                    map'[q][g] # 0, map'[q][g] = dir'[h]
             PROVE  g = h
  BY DEF FilesApart
<1>1. CASE map[p][k] = 0 /\ dir[k] = 0
  <2>1. FileFor(p, k) = NewFile /\ FileFor(p, k) \in Files
    BY <1>1 DEF MapPack, FileFor
  <2>2. PICK f \in Free : f # 0 /\ FileFor(p, k) = f
    BY <2>1 DEF NewFile, Files
  <2>3. /\ \A i \in Gens : dir[i] # f
        /\ \A x \in Procs, i \in Gens : map[x][i] # f
    BY <2>2 DEF Free, InUse
  <2>4. dir' = [dir EXCEPT ![k] = f] /\ map' = [map EXCEPT ![p][k] = f]
    BY <1>1, <2>2 DEF MapPack
  <2>5. /\ dir'[k] = f /\ \A i \in Gens \ {k} : dir'[i] = dir[i]
        /\ map'[p][k] = f
        /\ \A x \in Procs, i \in Gens : x # p \/ i # k => map'[x][i] = map[x][i]
    BY <2>4 DEF TypeOK
  <2> QED BY <2>2, <2>3, <2>5 DEF FilesApart
<1>2. CASE ~(map[p][k] = 0 /\ dir[k] = 0)
  <2>1. dir' = dir
    BY <1>2 DEF MapPack, disk
  <2>2. map'[p][k] = IF map[p][k] # 0 THEN map[p][k] ELSE dir[k]
    BY <2>1, MapPackDisk
  <2>3. \A x \in Procs, i \in Gens : x # p \/ i # k => map'[x][i] = map[x][i]
    BY MapPackDisk
  <2> QED BY <2>1, <2>2, <2>3 DEF FilesApart, FileInv
<1> QED BY <1>1, <1>2

LEMMA ApartUnname ==
  ASSUME FilesApart(map, dir),
         \A h \in Gens : dir'[h] \in {0, dir[h]},
         \A q \in Procs : map'[q] \in {map[q], Unmapped}
  PROVE  FilesApart(map', dir')
<1>1. \A q \in Procs, g \in Gens : map'[q][g] \in {0, map[q][g]}
  BY DEF Unmapped
<1> QED BY <1>1 DEF FilesApart

LEMMA ApartCopy ==
  ASSUME TypeOK, FilesApart(map, dir), NEW p \in Procs, NEW keep, CompactCopy(p, keep)
  PROVE  FilesApart(map', dir')
<1>1. /\ index.gen + 1 \in Gens
      /\ NewPack \in Files /\ dir' = [dir EXCEPT ![index.gen + 1] = NewPack] /\ map' = map
  BY IndexTypes, PackAssumption DEF CompactCopy, Gens, maps
<1>2. CASE dir[index.gen + 1] # 0
  BY <1>1, <1>2 DEF NewPack, TypeOK, FilesApart
<1>3. CASE dir[index.gen + 1] = 0
  <2>1. NewPack \in Free
    BY <1>1, <1>3 DEF NewPack, NewFile, Files
  <2>2. \A q \in Procs, g \in Gens : map[q][g] # NewPack
    BY <2>1 DEF Free, InUse
  <2>3. \A h \in Gens : dir'[h] = NewPack \/ dir'[h] = dir[h]
    BY <1>1 DEF TypeOK
  <2> QED BY <1>1, <2>2, <2>3 DEF FilesApart
<1> QED BY <1>2, <1>3

LEMMA ApartNext ==
  ASSUME Inv, [Next]_vars
  PROVE  FilesApart(map', dir')
<1>0. /\ TypeOK /\ FileInv /\ FilesApart(map, dir) /\ index.gen \in Gens
      /\ \A p \in Procs : ogen[p] \in Gens /\ (Reading(p) => rd[p].gen \in Gens)
  BY IndexTypes, RdType DEF Inv, PackInv, NameInv, FilesApart, TypeOK
<1>1. CASE UNCHANGED <<dir, map>>
  BY <1>0, <1>1
<1>2. ASSUME NEW p \in Procs, NEW g \in Gens, MapPack(p, g)
      PROVE  FilesApart(map', dir')
  BY <1>0, <1>2, ApartMap
<1>3. ASSUME NEW p \in Procs,
             OpenMap(p) \/ BeginBatch(p) \/ CompactBegin(p) \/ CompactRemap(p) \/ Locate(p)
      PROVE  FilesApart(map', dir')
  BY <1>0, <1>2, <1>3 DEF OpenMap, BeginBatch, CompactBegin, CompactRemap, Locate, Reading
<1>4. ASSUME NEW p \in Procs,
             \/ OpenCleanup(p) \/ CompactFails(p) \/ CompactFlushFails(p) \/ CompactUnlink(p)
             \/ Close(p) \/ Kill(p)
      PROVE  FilesApart(map', dir')
  <2>1. \A h \in Gens : dir'[h] \in {0, dir[h]}
    BY <1>0, <1>4 DEF OpenCleanup, CompactFails, CompactFlushFails, CompactUnlink, Close, Kill,
                      disk, TypeOK
  <2>2. \A q \in Procs : map'[q] \in {map[q], Unmapped}
    BY <1>0, <1>4 DEF OpenCleanup, CompactFails, CompactFlushFails, CompactUnlink, Close, Kill,
                      Gone, maps, TypeOK
  <2> QED BY <1>0, <2>1, <2>2, ApartUnname
<1>5. ASSUME NEW p \in Procs, NEW keep \in SUBSET Stored(index), CompactCopy(p, keep)
      PROVE  FilesApart(map', dir')
  BY <1>0, <1>5, ApartCopy
<1>6. ASSUME NEW p \in Procs, Open(p) PROVE FilesApart(map', dir')
  BY <1>1, <1>3, <1>4, <1>6 DEF Open, OpenTxn, disk, maps
<1>7. ASSUME NEW p \in Procs, Batch(p) PROVE FilesApart(map', dir')
  BY <1>1, <1>3, <1>7
     DEF Batch, Put, PutFails, SyncData, SyncDataFails, SyncCommit, SyncFlush, SyncFlushFails,
         disk, maps
<1>8. ASSUME NEW p \in Procs, Compact(p) PROVE FilesApart(map', dir')
  BY <1>1, <1>3, <1>4, <1>5, <1>8 DEF Compact, CompactCommit, CompactFlush, disk, maps
<1>9. ASSUME NEW p \in Procs, Get(p) PROVE FilesApart(map', dir')
  BY <1>1, <1>3, <1>9 DEF Get, Lookup, LocateFails, Relook, Fetch, disk, maps
<1>10. CASE PowerLoss
  BY <1>0, <1>10, ApartUnname DEF PowerLoss
<1> QED BY <1>1, <1>4, <1>6, <1>7, <1>8, <1>9, <1>10 DEF Next, vars, disk, maps

(* ... and the rest: where the generation cannot move, and what a          *)
(* transaction has in common with the index.                               *)
StillInv ==
  /\ \A p \in Procs : pc[p] = "cleaned" =>
       /\ ogen[p] = index.gen
       /\ \A q \in Procs : pc[q] \notin {"compacting", "copied"}
  /\ \A p \in Procs : pc[p] \in BatchPcs =>
       /\ p \in Writers
       /\ \A b \in Stored(index) : txn.at[b] = index.at[b]
  /\ \A p \in Procs : pc[p] = "compacting" => txn = index

LEMMA StillOpen ==
  ASSUME Inv, NEW p \in Procs, Open(p)
  PROVE  StillInv'
<1>1. /\ UNCHANGED <<index, txn>> /\ pc'[p] \notin BatchPcs \cup {"compacting", "copied"}
      /\ \A q \in Procs \ {p} : pc'[q] = pc[q] /\ ogen'[q] = ogen[q]
      /\ pc'[p] = "cleaned" => pc[p] = "opening" /\ ogen'[p] = ogen[p]
  BY DEF Open, OpenTxn, OpenCleanup, OpenMap, Goto, BatchPcs, Inv, PackInv, TypeOK, lmdb
<1> QED BY <1>1 DEF StillInv, Inv, NameInv, PackInv, FileInv, Stored

LEMMA StillBatch ==
  ASSUME Inv, NEW p \in Procs, Batch(p)
  PROVE  StillInv'
<1>1. /\ UNCHANGED ogen
      /\ pc'[p] \notin {"cleaned", "compacting", "copied"}
      /\ pc'[p] \in BatchPcs => p \in Writers
      /\ \A q \in Procs \ {p} : pc'[q] = pc[q]
  BY DEF Batch, BeginBatch, Put, PutFails, SyncData, SyncDataFails, SyncCommit, SyncFlush,
         SyncFlushFails, Goto, BatchPcs, Inv, PackInv, NameInv, TypeOK
<1>2. index'.gen = index.gen
  BY DEF Batch, BeginBatch, Put, PutFails, SyncData, SyncDataFails, SyncCommit, SyncFlush,
         SyncFlushFails, BatchPcs, Inv, PackInv, LockInv, lmdb
<1>3. \A q \in Procs \ {p} : pc[q] \notin TxnPcs
  BY Alone DEF Inv, PackInv, Batch, BeginBatch, Put, PutFails, SyncData, SyncDataFails,
               SyncCommit, SyncFlush, SyncFlushFails, LockedPcs, TxnPcs, BatchPcs
<1>4. ASSUME pc'[p] \in BatchPcs
      PROVE  \A b \in Stored(index') : txn'.at[b] = index'.at[b]
  <2>1. CASE BeginBatch(p)
    BY <2>1 DEF BeginBatch, Inv, PackInv, LockInv
  <2>2. ASSUME NEW b \in Blobs, Put(p, b)
        PROVE  \A c \in Stored(index') : txn'.at[c] = index'.at[c]
    <3>1. /\ index' = index /\ txn.at[b] = 0 /\ pc[p] \in BatchPcs
          /\ \A c \in Blobs \ {b} : txn'.at[c] = txn.at[c]
      BY <2>2 DEF Put, BatchPcs, Inv, PackInv, TypeOK, Indexes
    <3>2. b \notin Stored(index)
      BY <3>1 DEF Inv, NameInv, Stored
    <3> QED BY <3>1, <3>2 DEF Inv, NameInv, Stored
  <2>3. CASE PutFails(p) \/ SyncData(p) \/ SyncDataFails(p)
    BY <2>3 DEF PutFails, SyncData, SyncDataFails, BatchPcs, Inv, NameInv, lmdb, Stored
  <2>4. CASE SyncCommit(p) \/ SyncFlush(p) \/ SyncFlushFails(p)
    BY <1>4, <2>4 DEF SyncCommit, SyncFlush, SyncFlushFails, Goto, BatchPcs, Inv, PackInv, TypeOK
  <2> QED BY <2>1, <2>2, <2>3, <2>4 DEF Batch
<1>5. \A q \in Procs \ {p} : pc'[q] \notin TxnPcs
  BY <1>1, <1>3
<1> QED BY <1>1, <1>2, <1>4, <1>5 DEF StillInv, Inv, NameInv, TxnPcs, Stored

LEMMA StillCompact ==
  ASSUME QuietReads, Inv, NEW p \in Procs, Compact(p)
  PROVE  StillInv'
<1>1. \A q \in Procs \ {p} : pc'[q] = pc[q] /\ pc[q] \notin TxnPcs
  <2>1. \A q \in Procs \ {p} : pc'[q] = pc[q]
    BY DEF Compact, CompactBegin, CompactFails, CompactCopy, CompactCommit, CompactFlush,
           CompactFlushFails, CompactUnlink, CompactRemap, Goto, Inv, PackInv, TypeOK
  <2>2. pc[p] \in LockedPcs \/ CanLock(p)
    BY DEF Compact, CompactBegin, CompactFails, CompactCopy, CompactCommit, CompactFlush,
           CompactFlushFails, CompactUnlink, CompactRemap, LockedPcs, TxnPcs
  <2> QED BY <2>1, <2>2, Alone DEF Inv, PackInv, LockedPcs
<1>2. /\ UNCHANGED ogen /\ pc'[p] \notin BatchPcs \cup {"cleaned"}
  BY DEF Compact, CompactBegin, CompactFails, CompactCopy, CompactCommit, CompactFlush,
         CompactFlushFails, CompactUnlink, CompactRemap, Goto, BatchPcs, Inv, PackInv, TypeOK
<1>3. pc'[p] = "compacting" => txn' = index'
  BY DEF Compact, CompactBegin, CompactFails, CompactCopy, CompactCommit, CompactFlush,
         CompactFlushFails, CompactUnlink, CompactRemap, Goto, Inv, PackInv, LockInv, TypeOK
<1>4. ASSUME NEW q \in Procs, pc'[q] = "cleaned"
      PROVE  ogen[q] = index'.gen /\ pc'[p] \notin {"compacting", "copied"}
  <2>1. q # p /\ pc[q] = "cleaned"
    BY <1>1, <1>2, <1>4
  <2>2. pc[p] \notin {"compacting", "copied"} /\ ogen[q] = index.gen
    BY <2>1 DEF Inv, NameInv
  <2>3. ~CompactBegin(p)
    BY <2>1 DEF CompactBegin, QuietReads
  <2> QED BY <2>2, <2>3 DEF Compact, CompactFails, CompactCopy, CompactCommit, CompactFlush,
                            CompactFlushFails, CompactUnlink, CompactRemap, Goto, Inv, PackInv,
                            TypeOK, lmdb
<1> QED BY <1>1, <1>2, <1>3, <1>4 DEF StillInv, TxnPcs

LEMMA StillGone ==
  ASSUME Inv, NEW p \in Procs, Gone(p)
  PROVE  StillInv'
<1>1. /\ index' = index /\ pc'[p] = "closed"
      /\ \A q \in Procs \ {p} : pc'[q] = pc[q] /\ ogen'[q] = ogen[q]
  BY DEF Gone, Goto, Inv, PackInv, TypeOK
<1>2. ASSUME NEW q \in Procs \ {p}, pc[q] \in TxnPcs
      PROVE  txn' = txn
  BY <1>2, PackAssumption DEF Gone, Inv, PackInv, LockInv
<1>3. "closed" \notin TxnPcs \cup {"cleaned"} /\ BatchPcs \subseteq TxnPcs /\ "compacting" \in TxnPcs
  BY DEF TxnPcs, BatchPcs
<1> QED BY <1>1, <1>2, <1>3 DEF StillInv, Inv, NameInv, Stored

LEMMA NameNext ==
  ASSUME QuietReads, Inv, [Next]_vars
  PROVE  NameInv'
<1>1. ASSUME PowerLoss PROVE StillInv'
  BY <1>1 DEF PowerLoss, StillInv, BatchPcs
<1>2. ASSUME UNCHANGED vars PROVE StillInv'
  BY <1>2 DEF vars, lmdb, Stored, StillInv, Inv, NameInv
<1>3. ASSUME NEW p \in Procs, Get(p) PROVE StillInv'
  BY <1>3 DEF Get, Lookup, Locate, LocateFails, Relook, Fetch, lmdb, Stored, StillInv, Inv, NameInv
<1>4. ASSUME NEW p \in Procs, Close(p) \/ Kill(p) PROVE StillInv'
  BY <1>4, StillGone DEF Close, Kill
<1>5. StillInv'
  BY <1>1, <1>2, <1>3, <1>4, StillOpen, StillBatch, StillCompact DEF Next
<1> QED BY <1>5, ApartNext DEF NameInv, FilesApart, StillInv

-----------------------------------------------------------------------------
(* Steps of writers and compactors, which no lookup notices.               *)
LEMMA Undisturbed ==
  ASSUME Inv, UNCHANGED rd,
         \A q \in Procs : Holding(q) =>
           /\ Reads(rd[q], map'[q], dir', data', index')
           /\ map[q][rd[q].gen] # 0 => map'[q][rd[q].gen] # 0
  PROVE  ReadInv'
<1>1. \A q \in Procs : /\ Reading(q)' <=> Reading(q)
                       /\ Holding(q)' <=> Holding(q)
                       /\ rd[q].st = "mapped" => Holding(q)
  BY DEF Reading, Holding
<1> QED BY <1>1, ReadInvParts DEF Inv

LEMMA ReadMapStep ==
  ASSUME Inv, NEW p \in Procs, NEW g \in Gens, MapPack(p, g),
         map[p][g] = 0 /\ dir[g] = 0 => g = index.gen,
         UNCHANGED <<index, rd>>
  PROVE  ReadInv'
BY ReadsMap, Undisturbed

LEMMA ReadUnnameStep ==
  ASSUME Inv, \A h \in Gens : dir'[h] \in {0, dir[h]},
         UNCHANGED <<index, data, map, rd>>
  PROVE  ReadInv'
BY ReadsUnname, Undisturbed

LEMMA ReadOpen ==
  ASSUME Inv, NEW p \in Procs, Open(p)
  PROVE  ReadInv'
<1>1. CASE OpenTxn(p) \/ OpenCleanup(p)
  BY <1>1, ReadUnnameStep DEF OpenTxn, OpenCleanup, lmdb, disk, maps, Inv, PackInv, TypeOK
<1>2. CASE OpenMap(p)
  <2>1. /\ ogen[p] = index.gen /\ MapPack(p, index.gen) /\ UNCHANGED <<index, rd>>
    BY <1>2 DEF OpenMap, Inv, NameInv, lmdb
  <2> QED BY <2>1, ReadMapStep, IndexTypes DEF Inv, PackInv
<1> QED BY <1>1, <1>2 DEF Open

(* put() writes past the end that the batch knows, ...                     *)
LEMMA ReadWriteStep ==
  ASSUME Inv, NEW p \in Procs, pc[p] = "batch", NEW c,
         data' = [data EXCEPT ![Current(p)] = WriteAt(@, end[p] + 1, c)],
         UNCHANGED <<index, durable, dir, dlen, map, rd>>
  PROVE  ReadInv'
<1> DEFINE f == dir[index.gen]
           new == WriteAt(data[f], end[p] + 1, c)
<1>1. /\ PackInv /\ Current(p) = f /\ f \in Files
      /\ end[p] \in Nat /\ cend[p] \in Nat /\ data[f] \in Seq(Cells)
  BY InBatch DEF Inv, BatchPcs
<1>2. /\ \A b \in Stored(index) : index.at[b] <= cend[p]
      /\ cend[p] <= end[p] /\ end[p] <= Len(data[f])
  BY <1>1 DEF PackInv, BatchInv, BatchPcs
<1>3. data' = [data EXCEPT ![f] = new] /\ data'[f] = new
  BY <1>1 DEF PackInv, TypeOK
<1>4. /\ \A i \in 1 .. end[p] : new[i] = data[f][i]
      /\ end[p] + 1 <= Len(new)
  BY <1>1, <1>3, DataWrite
<1>5. Len(new) \in Nat
  BY <1>1, <1>2, <1>4, WriteAtKeeps, LenProperties DEF WriteAt
<1> HIDE DEF f, new
<1>6. ASSUME NEW b \in Stored(index)
      PROVE  index.at[b] <= Len(new) /\ new[index.at[b]] = data[f][index.at[b]]
  <2>1. index.at[b] \in Nat \ {0} /\ index.at[b] <= cend[p]
    BY <1>1, <1>2, IndexTypes DEF Stored, PackInv
  <2>2. index.at[b] \in 1 .. end[p]
    BY <1>1, <1>2, <2>1
  <2> QED BY <1>1, <1>4, <1>5, <2>2
<1>7. \A q \in Procs : Holding(q) => Reads(rd[q], map[q], dir, data', index)
  BY <1>1, <1>3, <1>6, ReadsWrite DEF f
<1> QED BY <1>7, Undisturbed

LEMMA ReadBatch ==
  ASSUME Inv, NEW p \in Procs, Batch(p)
  PROVE  ReadInv'
<1>1. CASE BeginBatch(p)
  BY <1>1, ReadMapStep, IndexTypes DEF BeginBatch, Inv, PackInv
<1>2. ASSUME NEW b \in Blobs, Put(p, b) PROVE ReadInv'
  BY <1>2, ReadWriteStep DEF Put, maps
<1>3. CASE PutFails(p)
  BY <1>3, ReadWriteStep DEF PutFails, lmdb, maps
<1>4. CASE SyncData(p) \/ SyncDataFails(p) \/ SyncFlush(p) \/ SyncFlushFails(p)
  BY <1>4, ReadUnnameStep DEF SyncData, SyncDataFails, SyncFlush, SyncFlushFails, lmdb, disk, maps
<1>5. CASE SyncCommit(p)
  <2>1. /\ index' = txn /\ pc[p] \in BatchPcs /\ UNCHANGED <<disk, maps, rd>>
    BY <1>5 DEF SyncCommit, BatchPcs
  <2>2. /\ index'.gen = index.gen
        /\ \A b \in Stored(index) : index'.at[b] = index.at[b]
    BY <2>1 DEF Inv, NameInv, PackInv, LockInv
  <2>3. ASSUME NEW q \in Procs, Holding(q)
        PROVE  Reads(rd[q], map'[q], dir', data', index')
    <3>1. Reads(rd[q], map[q], dir, data, index) /\ rd[q].b \in Blobs
      BY <2>3, ReadInvParts, HoldingReads, RdType DEF Inv, PackInv
    <3> QED BY <2>1, <2>2, <3>1 DEF Reads, FileOf, Stored, disk, maps
  <2> QED BY <2>1, <2>3, Undisturbed DEF maps
<1> QED BY <1>1, <1>2, <1>3, <1>4, <1>5 DEF Batch

(* ... and compact() retires a pack without touching its bytes.            *)
LEMMA ReadCompact ==
  ASSUME QuietReads, Inv, NEW p \in Procs, Compact(p)
  PROVE  ReadInv'
<1>1. CASE CompactBegin(p) \/ CompactRemap(p)
  BY <1>1, ReadMapStep, IndexTypes DEF CompactBegin, CompactRemap, Inv, PackInv, lmdb
<1>2. CASE CompactFails(p) \/ CompactFlush(p) \/ CompactFlushFails(p) \/ CompactUnlink(p)
  BY <1>2, ReadUnnameStep
     DEF CompactFails, CompactFlush, CompactFlushFails, CompactUnlink, lmdb, disk, maps,
         Inv, PackInv, TypeOK
<1>3. ASSUME NEW keep \in SUBSET Stored(index), CompactCopy(p, keep) PROVE ReadInv'
  BY <1>3, ReadsCopy, Undisturbed DEF CompactCopy, maps
<1>4. CASE CompactCommit(p)
  <2>1. /\ UNCHANGED <<disk, maps, rd>> /\ index'.gen = index.gen + 1 /\ index.gen \in Nat
    BY <1>4, IndexTypes DEF CompactCommit, Inv, PackInv, LockInv
  <2>2. ASSUME NEW q \in Procs, Holding(q)
        PROVE  Reads(rd[q], map'[q], dir', data', index')
    <3>1. /\ Reads(rd[q], map[q], dir, data, index)
          /\ rd[q].gen \in Gens /\ rd[q].gen <= index.gen
      BY <2>2, ReadInvParts, HoldingReads, RdType DEF Inv, PackInv, MapInv
    <3>2. rd[q].gen # index'.gen
      BY <2>1, <3>1, PackAssumption DEF Gens
    <3> QED BY <2>1, <3>1, <3>2 DEF Reads, FileOf, disk, maps
  <2> QED BY <2>1, <2>2, Undisturbed DEF maps
<1> QED BY <1>1, <1>2, <1>3, <1>4 DEF Compact

-----------------------------------------------------------------------------
(* The steps of the reader itself.                                         *)
LEMMA FoundReads ==
  ASSUME Inv, NEW p \in Procs, NEW b \in Stored(index), NEW n
  PROVE  Reads(Found(p, b, n), map[p], dir, data, index)
<1>1. Backed(index) /\ index.gen \in Gens /\ index.at[b] \in Nat \ {0}
  BY IndexTypes DEF Inv, PackInv, DiskInv, Stored
<1>2. FileOf(Found(p, b, n), map[p], dir) = dir[index.gen]
  BY <1>1 DEF FileOf, Found, Inv, PackInv, FileInv
<1>3. dir[index.gen] \in Files /\ Len(data[dir[index.gen]]) \in Nat /\ dlen[dir[index.gen]] \in Nat
  BY <1>1, LenProperties DEF Backed, Inv, PackInv, TypeOK
<1> QED BY <1>1, <1>2, <1>3 DEF Reads, Found, Backed

LEMMA ReadGet ==
  ASSUME QuietReads, Inv, NEW p \in Procs, Get(p)
  PROVE  ReadInv'
<1>1. \A q \in Procs \ {p} : /\ rd'[q] = rd[q]
                             /\ Reading(q)' <=> Reading(q)
                             /\ Holding(q)' <=> Holding(q)
  BY DEF Get, Lookup, Locate, LocateFails, Relook, Fetch, Reading, Holding, Inv, PackInv, TypeOK
<1>2. ASSUME ~Locate(p) PROVE UNCHANGED <<index, dir, data, map>>
  BY <1>2 DEF Get, Lookup, LocateFails, Relook, Fetch, lmdb, disk, maps
<1>3. ASSUME ~Locate(p),
             rd'[p].st \notin {"misread", "corrupt", "mapped"},
             Reading(p)' => p \in Readers,
             Holding(p)' => Reads(rd'[p], map[p], dir, data, index)
      PROVE  ReadInv'
  BY <1>1, <1>2, <1>3, ReadInvParts DEF Inv
<1>4. ASSUME NEW b \in Blobs, Lookup(p, b), ~Locate(p) PROVE ReadInv'
  <2>1. rd'[p] = Found(p, b, 0) /\ b \in Stored(index) /\ p \in Readers
    BY <1>4 DEF Lookup, Stored, Inv, PackInv, TypeOK
  <2>2. rd'[p].st = "looked"
    BY <2>1 DEF Found
  <2> QED BY <1>3, <1>4, <2>1, <2>2, FoundReads
<1>5. CASE Relook(p) /\ ~Locate(p)
  <2>1. rd[p].b \in Blobs /\ p \in Readers
    BY <1>5, RdType DEF Relook, Reading, Inv, PackInv, ReadInv
  <2>2. \/ rd'[p] = NoRead
        \/ rd'[p] = Found(p, rd[p].b, rd[p].tries) /\ rd[p].b \in Stored(index)
    BY <1>5, <2>1 DEF Relook, Stored, Inv, PackInv, TypeOK
  <2>3. CASE rd'[p] = NoRead
    BY <1>3, <1>5, <2>3 DEF NoRead, Reading, Holding
  <2>4. CASE rd'[p] = Found(p, rd[p].b, rd[p].tries) /\ rd[p].b \in Stored(index)
    <3>1. rd'[p].st = "looked"
      BY <2>4 DEF Found
    <3> QED BY <1>3, <1>5, <2>1, <2>4, <3>1, FoundReads
  <2> QED BY <2>2, <2>3, <2>4
<1>6. CASE LocateFails(p) /\ ~Locate(p)
  <2>1. p \in Readers /\ rd'[p] = Missed(rd[p])
    BY <1>6 DEF LocateFails, Reading, Inv, PackInv, ReadInv, TypeOK
  <2>2. rd'[p].st \in {"retry", "churn"}
    BY <1>6, <2>1 DEF Missed, LocateFails, Inv, PackInv, TypeOK, ReadStates, NoRead
  <2> QED BY <1>3, <1>6, <2>1, <2>2 DEF Holding
<1>7. CASE Fetch(p) /\ ~Locate(p)
  <2>1. /\ Holding(p) /\ map[p][rd[p].gen] # 0
        /\ Reads(rd[p], map[p], dir, data, index)
    BY <1>7, ReadInvParts DEF Fetch, Holding, Inv
  <2>2. /\ rd[p].at <= Len(data[map[p][rd[p].gen]])
        /\ data[map[p][rd[p].gen]][rd[p].at] = rd[p].b
    BY <2>1 DEF Reads, FileOf
  <2>3. rd[p].at \in Nat /\ Len(data[map[p][rd[p].gen]]) \in Nat
    <3>1. rd[p].gen \in Gens /\ rd[p].at \in Nat
      BY <2>1, HoldingReads, RdType DEF Inv, PackInv
    <3> QED BY <2>1, <3>1, LenProperties DEF Inv, PackInv, TypeOK
  <2>4. rd'[p] = NoRead
    BY <1>7, <2>2, <2>3 DEF Fetch, Inv, PackInv, TypeOK
  <2> QED BY <1>3, <1>7, <2>4 DEF NoRead, Reading, Holding
<1>8. CASE Locate(p)
  <2>1. /\ rd[p].gen \in Gens /\ MapPack(p, rd[p].gen) /\ Holding(p) /\ p \in Readers
        /\ index' = index
    BY <1>8, RdType DEF Locate, Reading, Holding, Inv, PackInv, ReadInv, lmdb
  <2>2. pc[p] \notin BatchPcs
    BY <2>1 DEF QuietReads, Inv, NameInv
  <2>3. \A q \in Procs : Holding(q) =>
          /\ Reads(rd[q], map'[q], dir', data', index)
          /\ map[q][rd[q].gen] # 0 => map'[q][rd[q].gen] # 0
    BY <1>8, <2>1, <2>2, ReadsMap DEF Locate
  <2>4. rd'[p] = [rd[p] EXCEPT !.st = "mapped"]
    BY <1>8 DEF Locate, Inv, PackInv, TypeOK
  <2>5. /\ rd'[p].st = "mapped" /\ rd'[p].gen = rd[p].gen /\ rd'[p].b = rd[p].b
        /\ rd'[p].at = rd[p].at
    BY <1>8, <2>4 DEF Locate, Inv, PackInv, TypeOK, ReadStates, NoRead
  <2>6. Reads(rd'[p], map'[p], dir', data', index)
    BY <2>1, <2>3, <2>5 DEF Reads, FileOf
  <2>7. map'[p][rd[p].gen] # 0
    BY <2>1, MapPackDisk DEF Inv, PackInv, Files
  <2>8. \A q \in Procs : rd[q].st = "mapped" => Holding(q)
    BY DEF Holding
  <2>9. \A q \in Procs : rd'[q].st \notin {"misread", "corrupt"}
    BY <1>1, <2>5, ReadInvParts DEF Inv
  <2>10. \A q \in Procs : Reading(q)' => q \in Readers
    BY <1>1, <2>1, ReadInvParts DEF Inv
  <2>11. \A q \in Procs : Holding(q)' => Reads(rd'[q], map'[q], dir', data', index')
    BY <1>1, <2>1, <2>3, <2>6
  <2>12. \A q \in Procs : rd'[q].st = "mapped" => map'[q][rd'[q].gen] # 0
    BY <1>1, <2>3, <2>5, <2>7, <2>8, ReadInvParts DEF Inv
  <2> QED BY <2>9, <2>10, <2>11, <2>12, ReadInvParts
<1> QED BY <1>4, <1>5, <1>6, <1>7, <1>8 DEF Get

(* A process ends; what it cuts off the pack, no index refers to.          *)
LEMMA ReadGone ==
  ASSUME Inv, NEW p \in Procs, Gone(p), dir' = dir,
         \A q \in Procs \ {p} : Holding(q) => Reads(rd[q], map[q], dir, data', index)
  PROVE  ReadInv'
<1>1. /\ rd'[p] = NoRead /\ index' = index
      /\ \A q \in Procs \ {p} : rd'[q] = rd[q] /\ map'[q] = map[q]
  BY DEF Gone, Inv, PackInv, TypeOK
<1>2. /\ ~Reading(p)' /\ ~Holding(p)' /\ rd'[p].st \notin {"misread", "corrupt", "mapped"}
      /\ \A q \in Procs \ {p} : (Reading(q)' <=> Reading(q)) /\ (Holding(q)' <=> Holding(q))
  BY <1>1 DEF Reading, Holding, NoRead
<1> QED BY <1>1, <1>2, ReadInvParts DEF Inv

LEMMA ReadClose ==
  ASSUME Inv, NEW p \in Procs, Close(p)
  PROVE  ReadInv'
<1>1. Gone(p) /\ dir' = dir
  BY DEF Close
<1>2. CASE pc[p] # "batch"
  <2>1. data' = data
    BY <1>2 DEF Close
  <2> QED BY <1>1, <2>1, ReadGone, ReadInvParts DEF Inv
<1>3. CASE pc[p] = "batch"
  <2> DEFINE f == dir[index.gen]
             new == Cut(data[f], cend[p])
  <2>1. /\ PackInv /\ Current(p) = f /\ f \in Files
        /\ end[p] \in Nat /\ cend[p] \in Nat /\ data[f] \in Seq(Cells)
    BY <1>3, InBatch DEF Inv, BatchPcs
  <2>2. /\ \A b \in Stored(index) : index.at[b] <= cend[p]
        /\ cend[p] <= end[p] /\ end[p] <= Len(data[f])
    BY <1>3, <2>1 DEF PackInv, BatchInv, BatchPcs
  <2>3. data' = [data EXCEPT ![f] = new]
    BY <1>3, <2>1 DEF Close
  <2>4. Len(data[f]) \in Nat
    BY <2>1, LenProperties
  <2>5. /\ Len(new) = cend[p]
        /\ \A i \in 1 .. cend[p] : new[i] = data[f][i]
    BY <2>1, <2>2, <2>4 DEF Cut
  <2> HIDE DEF f, new
  <2>6. ASSUME NEW b \in Stored(index)
        PROVE  index.at[b] <= Len(new) /\ new[index.at[b]] = data[f][index.at[b]]
    <3>1. index.at[b] \in 1 .. cend[p]
      BY <2>1, <2>2, IndexTypes DEF Stored, PackInv
    <3> QED BY <2>1, <2>5, <3>1
  <2>7. \A q \in Procs : Holding(q) => Reads(rd[q], map[q], dir, data', index)
    BY <2>1, <2>3, <2>6, ReadsWrite DEF f
  <2> QED BY <1>1, <2>7, ReadGone
<1> QED BY <1>2, <1>3

LEMMA ReadNext ==
  ASSUME QuietReads, Inv, [Next]_vars
  PROVE  ReadInv'
<1>1. CASE PowerLoss
  BY <1>1, ReadInvParts DEF PowerLoss, NoRead, Reading, Holding
<1>2. CASE UNCHANGED vars
  BY <1>2, ReadUnnameStep DEF vars, lmdb, disk, maps, Inv, PackInv, TypeOK
<1>3. ASSUME NEW p \in Procs, Kill(p) PROVE ReadInv'
  BY <1>3, ReadGone, ReadInvParts DEF Kill, disk, Inv
<1> QED BY <1>1, <1>2, <1>3, ReadOpen, ReadBatch, ReadCompact, ReadGet, ReadClose DEF Next

LEMMA InvInit == Init => Inv
<1> SUFFICES ASSUME Init PROVE Inv
  OBVIOUS
<1>1. PackInv
  BY TypeInit, LockInit, MapInit, DataInit DEF PackInv, DataInv
<1>2. \A q \in Procs : rd[q] = NoRead
  BY DEF Init
<1>3. ReadInv
  BY <1>2, ReadInvParts DEF NoRead, Reading, Holding
<1> QED BY <1>1, <1>3, NameInit DEF Inv

LEMMA InvNext ==
  ASSUME QuietReads, Inv, [Next]_vars
  PROVE  Inv'
<1>1. PackInv'
  BY TypeNext, LockNext, MapNext, DataNext DEF Inv, PackInv, DataInv, QuietReads
<1> QED BY <1>1, NameNext, ReadNext DEF Inv

(* get() and get_view() return the bytes of the blob asked for, however    *)
(* writers, compactions, crashes and power losses overtake them, provided  *)
(* that no compaction overlaps an open_once or dies while it switches, and *)
(* that the process that reads is not one that writes.                     *)
THEOREM ReadersGetTheirBlob == QuietReads => (Spec => []ReaderSound)
<1> SUFFICES ASSUME QuietReads PROVE Spec => []ReaderSound
  OBVIOUS
<1>1. Init => Inv
  BY InvInit
<1>2. Inv /\ [Next]_vars => Inv'
  BY InvNext
<1>3. Inv => ReaderSound
  BY DEF Inv, ReadInv
<1> QED BY <1>1, <1>2, <1>3, PTL DEF Spec

-----------------------------------------------------------------------------
(* Every step of the pack CAS is one of the BlobStore, or none.            *)
Asked == [p \in Procs |-> IF Reading(p) THEN rd[p].b
                          ELSE IF rd[p].st \in {"misread", "corrupt"} THEN rd[p].st
                          ELSE NoBlob]

StoreStep == [Store!Next]_(Store!vars)

LEMMA Stutters ==
  ASSUME UNCHANGED lmdb, Asked' = Asked
  PROVE  StoreStep
BY DEF StoreStep, Store!vars, lmdb, Stored, Asked

(* While ReadInv holds, a process has asked for what it is reading.        *)
LEMMA AskedIs ==
  ASSUME ReadInv
  PROVE  Asked = [p \in Procs |-> IF Reading(p) THEN rd[p].b ELSE NoBlob]
BY DEF ReadInv, ReaderSound, Asked

LEMMA AskedSame ==
  ASSUME UNCHANGED rd
  PROVE  Asked' = Asked
BY DEF Asked, Reading

LEMMA RefineOpen ==
  ASSUME Inv, NEW p \in Procs, Open(p)
  PROVE  StoreStep
<1>1. UNCHANGED <<lmdb, rd>>
  BY DEF Open, OpenTxn, OpenCleanup, OpenMap
<1> QED BY <1>1, Stutters, AskedSame

LEMMA RefineBatch ==
  ASSUME Inv, NEW p \in Procs, Batch(p)
  PROVE  StoreStep
<1>0. Asked' = Asked
  BY AskedSame DEF Batch, BeginBatch, Put, PutFails, SyncData, SyncDataFails, SyncCommit,
                   SyncFlush, SyncFlushFails
<1>1. CASE BeginBatch(p)
  <2>1. Store!Begin(p)
    BY <1>0, <1>1 DEF BeginBatch, Store!Begin, Stored, Asked
  <2> QED BY <2>1 DEF StoreStep, Store!Next
<1>2. ASSUME NEW b \in Blobs, Put(p, b) PROVE StoreStep
  <2>1. /\ wtxn = p /\ UNCHANGED <<index, durable, wtxn>>
        /\ txn' = [txn EXCEPT !.at[b] = end[p] + 1] /\ end[p] \in Nat
    BY <1>2 DEF Put, Inv, PackInv, LockInv, TypeOK, TxnPcs, BatchPcs
  <2>2. /\ txn'.at[b] = end[p] + 1
        /\ \A c \in Blobs \ {b} : txn'.at[c] = txn.at[c]
    BY <2>1 DEF Inv, PackInv, TypeOK, Indexes
  <2>3. Stored(txn') = Stored(txn) \cup {b}
    BY <2>1, <2>2 DEF Stored
  <2>4. Store!Add(p, b)
    BY <1>0, <2>1, <2>3 DEF Store!Add, Stored, Asked
  <2> QED BY <2>4 DEF StoreStep, Store!Next
<1>3. CASE PutFails(p) \/ SyncData(p) \/ SyncDataFails(p) \/ SyncFlushFails(p)
  BY <1>0, <1>3, Stutters DEF PutFails, SyncData, SyncDataFails, SyncFlushFails
<1>4. CASE SyncCommit(p)
  <2>1. Store!Publish(p)
    BY <1>0, <1>4 DEF SyncCommit, Store!Publish, Stored, Asked, Inv, PackInv, LockInv, TxnPcs, BatchPcs
  <2> QED BY <2>1 DEF StoreStep, Store!Next
<1>5. CASE SyncFlush(p)
  <2>1. Store!Flush
    BY <1>0, <1>5 DEF SyncFlush, Store!Flush, Stored, Asked
  <2> QED BY <2>1 DEF StoreStep, Store!Next
<1> QED BY <1>1, <1>2, <1>3, <1>4, <1>5 DEF Batch

(* The rewritten table has an entry for every blob that was kept.          *)
LEMMA CopyStores ==
  ASSUME NEW keep \in SUBSET Blobs, NEW s \in Orderings(keep),
         NEW ix, ix.at = [b \in Blobs |-> CellIn(s, b)]
  PROVE  Stored(ix) = keep
<1>0. Cardinality(keep) \in Nat
  BY FS_Subset, FS_CardinalityType, PackAssumption
<1>1. ASSUME NEW b \in Blobs, CellIn(s, b) # 0 PROVE b \in keep
  <2>1. /\ CellIn(s, b) \in DOMAIN s /\ s[CellIn(s, b)] = b
        /\ DOMAIN s = 1 .. Cardinality(keep)
        /\ \A i \in 1 .. Cardinality(keep) : s[i] \in keep
    BY <1>1, CellOf
  <2> QED BY <2>1
<1>2. ASSUME NEW b \in keep PROVE CellIn(s, b) # 0
  <2>1. DOMAIN s = 1 .. Cardinality(keep) /\ \E i \in DOMAIN s : s[i] = b
    BY DEF Orderings
  <2> QED BY <1>0, <2>1 DEF CellIn
<1> QED BY <1>1, <1>2 DEF Stored

LEMMA RefineCompact ==
  ASSUME Inv, NEW p \in Procs, Compact(p)
  PROVE  StoreStep
<1>0. Asked' = Asked
  BY AskedSame DEF Compact, CompactBegin, CompactFails, CompactCopy, CompactCommit, CompactFlush,
                   CompactFlushFails, CompactUnlink, CompactRemap
<1>1. CASE CompactBegin(p)
  <2>1. Store!Begin(p)
    BY <1>0, <1>1 DEF CompactBegin, Store!Begin, Stored, Asked
  <2> QED BY <2>1 DEF StoreStep, Store!Next
<1>2. CASE CompactFails(p)
  <2>1. Store!Abandon(p)
    BY <1>0, <1>2 DEF CompactFails, Store!Abandon, Stored, Asked, Inv, PackInv, LockInv, TxnPcs
  <2> QED BY <2>1 DEF StoreStep, Store!Next
<1>3. ASSUME NEW keep \in SUBSET Stored(index), CompactCopy(p, keep) PROVE StoreStep
  <2>1. /\ wtxn = p /\ txn = index /\ UNCHANGED <<index, durable, wtxn>>
    BY <1>3 DEF CompactCopy, Inv, PackInv, LockInv, NameInv, TxnPcs
  <2>2. Stored(txn') = keep
    BY <1>3, CopyStores DEF CompactCopy, Stored
  <2>3. Store!Collect(p, keep)
    BY <1>0, <2>1, <2>2 DEF Store!Collect, Stored, Asked
  <2> QED BY <2>3 DEF StoreStep, Store!Next
<1>4. CASE CompactCommit(p)
  <2>1. Store!Publish(p)
    BY <1>0, <1>4 DEF CompactCommit, Store!Publish, Stored, Asked, Inv, PackInv, LockInv, TxnPcs
  <2> QED BY <2>1 DEF StoreStep, Store!Next
<1>5. CASE CompactFlush(p)
  <2>1. Store!Flush
    BY <1>0, <1>5 DEF CompactFlush, Store!Flush, Stored, Asked
  <2> QED BY <2>1 DEF StoreStep, Store!Next
<1>6. CASE CompactFlushFails(p) \/ CompactUnlink(p) \/ CompactRemap(p)
  BY <1>0, <1>6, Stutters DEF CompactFlushFails, CompactUnlink, CompactRemap
<1> QED BY <1>1, <1>2, <1>3, <1>4, <1>5, <1>6 DEF Compact

LEMMA RefineGet ==
  ASSUME Inv, ReadInv', NEW p \in Procs, Get(p)
  PROVE  StoreStep
<1>1. UNCHANGED lmdb /\ \A q \in Procs \ {p} : rd'[q] = rd[q]
  BY DEF Get, Lookup, Locate, LocateFails, Relook, Fetch, Inv, PackInv, TypeOK
<1>2. /\ Asked = [q \in Procs |-> IF Reading(q) THEN rd[q].b ELSE NoBlob]
      /\ Asked' = [q \in Procs |-> IF Reading(q)' THEN rd'[q].b ELSE NoBlob]
  BY AskedIs, ReadInvParts DEF Asked, ReadInv, ReaderSound, Inv
<1>3. \A q \in Procs \ {p} : Reading(q)' <=> Reading(q)
  BY <1>1 DEF Reading
<1>4. Asked' = [Asked EXCEPT ![p] = IF Reading(p)' THEN rd'[p].b ELSE NoBlob]
  BY <1>1, <1>2, <1>3
<1>5. ASSUME NEW b \in Blobs, Lookup(p, b) PROVE StoreStep
  <2>1. /\ Asked[p] = NoBlob /\ b \in Stored(index) /\ rd'[p] = Found(p, b, 0)
    BY <1>2, <1>5 DEF Lookup, NoRead, Reading, Stored, Inv, PackInv, TypeOK
  <2>2. Asked' = [Asked EXCEPT ![p] = b]
    BY <1>4, <2>1 DEF Found, Reading
  <2>3. Store!Ask(p, b)
    BY <1>1, <2>1, <2>2 DEF Store!Ask, Stored, Asked, lmdb
  <2> QED BY <2>3 DEF StoreStep, Store!Next
<1>6. CASE Reading(p)
  <2>1. CASE Reading(p)' /\ rd'[p].b = rd[p].b
    BY <1>1, <1>2, <1>4, <1>6, <2>1, Stutters
  <2>2. CASE ~Reading(p)' /\ Asked[p] # NoBlob
    <3>1. Store!Answer(p)
      BY <1>1, <1>4, <2>2 DEF Store!Answer, Stored, Asked, lmdb
    <3> QED BY <3>1 DEF StoreStep, Store!Next
  <2>3. CASE ~Reading(p)' /\ Asked[p] = NoBlob
    BY <1>1, <1>2, <1>4, <2>3, Stutters
  <2>4. ASSUME Reading(p)', \A b \in Blobs : ~Lookup(p, b)
        PROVE  rd'[p].b = rd[p].b
    <3>1. rd \in [Procs -> ReadStates] /\ rd[p] \in ReadStates /\ rd[p] # NoRead
      BY <1>6 DEF Reading, NoRead, Inv, PackInv, TypeOK
    <3>2. CASE Locate(p)
      BY <3>1, <3>2 DEF Locate, ReadStates
    <3>3. CASE LocateFails(p)
      BY <3>1, <3>3 DEF LocateFails, Missed, ReadStates
    <3>4. CASE Relook(p)
      <4>1. rd'[p] \in {NoRead, Found(p, rd[p].b, rd[p].tries)}
        BY <3>1, <3>4 DEF Relook
      <4> QED BY <2>4, <4>1 DEF Found, NoRead, Reading
    <3>5. CASE Fetch(p)
      BY <2>4, <3>1, <3>5 DEF Fetch, ReadStates, NoRead, Reading
    <3> QED BY <2>4, <3>2, <3>3, <3>4, <3>5 DEF Get
  <2> QED BY <1>5, <2>1, <2>2, <2>3, <2>4
<1>7. CASE ~Reading(p)
  BY <1>5, <1>7 DEF Get, Locate, LocateFails, Relook, Fetch, Reading
<1> QED BY <1>6, <1>7

LEMMA RefineGone ==
  ASSUME Inv, ReadInv', NEW p \in Procs, Gone(p)
  PROVE  StoreStep
<1>1. /\ rd'[p] = NoRead /\ \A q \in Procs \ {p} : rd'[q] = rd[q]
      /\ UNCHANGED <<index, durable>>
  BY DEF Gone, Inv, PackInv, TypeOK
<1>2. ~Reading(p)' /\ rd'[p].st \notin {"misread", "corrupt"}
      /\ \A q \in Procs \ {p} : Reading(q)' <=> Reading(q)
  BY <1>1 DEF Reading, NoRead
<1>3. Asked' = [Asked EXCEPT ![p] = NoBlob]
  BY <1>1, <1>2 DEF Asked
<1>4. Stored(txn') = IF wtxn = p THEN Stored(index) ELSE Stored(txn)
  BY DEF Gone, Stored
<1>5. Store!Exit(p)
  BY <1>1, <1>3, <1>4 DEF Gone, Store!Exit, Stored, Asked
<1> QED BY <1>5 DEF StoreStep, Store!Next

LEMMA RefinePowerLoss ==
  ASSUME PowerLoss
  PROVE  StoreStep
<1>1. \A p \in Procs : ~Reading(p)' /\ rd'[p].st = "idle"
  BY DEF PowerLoss, NoRead, Reading
<1>2. Asked' = [p \in Procs |-> NoBlob]
  BY <1>1 DEF Asked
<1>3. Stored(index') \in {Stored(index), Stored(durable)}
  BY DEF PowerLoss
<1>4. Store!PowerLoss
  BY <1>2, <1>3 DEF PowerLoss, Store!PowerLoss, Stored, Asked
<1> QED BY <1>4 DEF StoreStep, Store!Next

(* Under the assumptions of ReadersGetTheirBlob the pack CAS is a          *)
(* BlobStore: batches and collections are atomic and one at a time,        *)
(* whatever was flushed outlives a power loss, and a get() that found its  *)
(* blob returns it or gives up.                                            *)
THEOREM PackCasIsBlobStore == QuietReads => (Spec => StoreSpec)
<1> SUFFICES ASSUME QuietReads PROVE Spec => StoreSpec
  OBVIOUS
<1>1. Init => Store!Init
  BY DEF Init, Store!Init, EmptyIndex, Stored, NoRead, Reading
<1>2. Inv /\ Inv' /\ [Next]_vars => [Store!Next]_(Store!vars)
  <2> SUFFICES ASSUME Inv, Inv', [Next]_vars PROVE StoreStep
    BY DEF StoreStep
  <2>1. ReadInv'
    BY DEF Inv
  <2>2. CASE UNCHANGED vars
    BY <2>2, Stutters, AskedSame DEF vars
  <2>3. ASSUME NEW p \in Procs, Close(p) \/ Kill(p) PROVE StoreStep
    BY <2>1, <2>3, RefineGone DEF Close, Kill
  <2> QED BY <2>1, <2>2, <2>3, RefineOpen, RefineBatch, RefineCompact, RefineGet, RefinePowerLoss
          DEF Next
<1>3. Init => Inv
  BY InvInit
<1>4. Inv /\ [Next]_vars => Inv'
  BY InvNext
<1> QED BY <1>1, <1>2, <1>3, <1>4, PTL DEF Spec, StoreSpec, Store!Spec

-----------------------------------------------------------------------------
(* A lookup gives up only when so many generations were really retired.    *)

LEMMA MapGrows ==
  ASSUME TypeOK, NEW p \in Procs, NEW g \in Gens, MapPack(p, g)
  PROVE  /\ map'[p] # Unmapped
         /\ \A q \in Procs, h \in Gens : map[q][h] # 0 => map'[q][h] # 0
<1>1. map'[p][g] # 0 /\ \A q \in Procs, h \in Gens : q # p \/ h # g => map'[q][h] = map[q][h]
  BY MapPackDisk DEF Files
<1> QED BY <1>1 DEF Unmapped

(* What the writing threads do to it.                                      *)
LEMMA ChurnFrame ==
  ASSUME TypeOK, TypeOK', ChurnInv, rd' = rd, index.gen <= index'.gen,
         \A q \in Procs, h \in Gens : map[q][h] # 0 => map'[q][h] # 0,
         \A q \in Procs : pc'[q] \notin ClosedPcs => pc[q] \notin ClosedPcs \/ map'[q] # Unmapped
  PROVE  ChurnInv'
<1>1. index.gen \in Nat /\ index'.gen \in Nat
  BY DEF TypeOK, Indexes, Gens
<1>2. \A q \in Procs : map[q] # Unmapped => map'[q] # Unmapped
  BY DEF TypeOK, Unmapped
<1>3. \A q \in Procs : rd[q].st \in {"retry", "churn"} => rd[q].tries \in Nat
  BY DEF TypeOK, ReadStates, NoRead
<1>4. ASSUME NEW q \in Procs, rd[q].st \in {"retry", "churn"} PROVE index'.gen > rd[q].tries
  <2>1. index.gen > rd[q].tries /\ rd[q].tries \in Nat
    BY <1>3, <1>4 DEF ChurnInv
  <2> QED BY <1>1, <2>1
<1>5. \A q \in Procs : Reading(q)' => \E g \in Gens : g <= rd'[q].gen /\ map'[q][g] # 0
  <2> SUFFICES ASSUME NEW q \in Procs, Reading(q)
               PROVE  \E g \in Gens : g <= rd[q].gen /\ map'[q][g] # 0
    BY DEF Reading
  <2>1. PICK g \in Gens : g <= rd[q].gen /\ map[q][g] # 0
    BY DEF ChurnInv
  <2> QED BY <2>1
<1> QED BY <1>2, <1>4, <1>5 DEF ChurnInv

LEMMA ChurnWrites ==
  ASSUME TypeOK, TypeOK', LockInv, ChurnInv, NEW p \in Procs, Open(p) \/ Batch(p) \/ Compact(p)
  PROVE  ChurnInv'
<1>0. index.gen \in Gens /\ index.gen \in Nat /\ index.gen <= index.gen /\ ogen[p] \in Gens
  <2>1. index.gen \in Gens /\ index.gen \in Nat
    BY IndexTypes
  <2>2. ogen[p] \in Gens
    BY DEF TypeOK
  <2> QED BY <2>1, <2>2
<1>1. ASSUME NEW g \in Gens, MapPack(p, g), rd' = rd, index' = index,
             \A q \in Procs : q # p => pc'[q] = pc[q]
      PROVE  ChurnInv'
  <2>1. /\ map'[p] # Unmapped
        /\ \A q \in Procs, h \in Gens : map[q][h] # 0 => map'[q][h] # 0
    BY <1>1, MapGrows
  <2> QED BY <1>0, <1>1, <2>1, ChurnFrame
<1>2. ASSUME rd' = rd, map' = map, index.gen <= index'.gen,
             \A q \in Procs : pc'[q] \notin ClosedPcs => pc[q] \notin ClosedPcs
      PROVE  ChurnInv'
  BY <1>2, ChurnFrame
<1> USE DEF Goto, TypeOK, LockedPcs, TxnPcs, BatchPcs, ClosedPcs
<1>3. CASE OpenMap(p)
  BY <1>0, <1>1, <1>3 DEF OpenMap, lmdb
<1>4. CASE BeginBatch(p) \/ CompactBegin(p)
  BY <1>0, <1>1, <1>4 DEF BeginBatch, CompactBegin
<1>5. CASE CompactRemap(p)
  BY <1>0, <1>1, <1>5 DEF CompactRemap, lmdb
<1>6. CASE SyncCommit(p)
  <2>1. index'.gen = index.gen
    BY <1>6 DEF SyncCommit, LockInv
  <2> QED BY <1>0, <1>2, <1>6, <2>1 DEF SyncCommit, maps
<1>7. CASE CompactCommit(p)
  <2>1. index'.gen = index.gen + 1
    BY <1>7 DEF CompactCommit, LockInv
  <2> QED BY <1>0, <1>2, <1>7, <2>1 DEF CompactCommit, maps
<1>8. CASE OpenTxn(p) \/ OpenCleanup(p)
  BY <1>0, <1>2, <1>8 DEF OpenTxn, OpenCleanup, lmdb, maps
<1>9. ASSUME \/ \E b \in Blobs : Put(p, b)
             \/ PutFails(p) \/ SyncData(p) \/ SyncDataFails(p) \/ SyncFlush(p) \/ SyncFlushFails(p)
      PROVE  ChurnInv'
  BY <1>0, <1>2, <1>9 DEF Put, PutFails, SyncData, SyncDataFails, SyncFlush, SyncFlushFails, lmdb, maps
<1>10. ASSUME \/ \E keep \in SUBSET Stored(index) : CompactCopy(p, keep)
              \/ CompactFails(p) \/ CompactFlush(p) \/ CompactFlushFails(p) \/ CompactUnlink(p)
       PROVE  ChurnInv'
  BY <1>0, <1>2, <1>10 DEF CompactCopy, CompactFails, CompactFlush, CompactFlushFails, CompactUnlink,
                           lmdb, maps
<1> QED BY <1>3, <1>4, <1>5, <1>6, <1>7, <1>8, <1>9, <1>10 DEF Open, Batch, Compact

(* What a lookup does to it.                                               *)
LEMMA ChurnLooks ==
  ASSUME TypeOK, ChurnInv, NEW p \in Procs, rd' = [rd EXCEPT ![p] = rd'[p]],
         UNCHANGED <<index, map, pc>>,
         Reading(p)' => \E g \in Gens : g <= rd'[p].gen /\ map[p][g] # 0,
         rd'[p].st = "looked" => rd'[p].tries = 0 \/ rd'[p].gen > rd'[p].tries,
         rd'[p].st \in {"retry", "churn"} => index.gen > rd'[p].tries,
         rd'[p].st = "churn" => rd'[p].tries >= MaxRetries
  PROVE  ChurnInv'
<1>1. \A q \in Procs : q # p => rd'[q] = rd[q] /\ (Reading(q)' <=> Reading(q))
  BY DEF Reading, TypeOK
<1>2. \A q \in Procs : Reading(q)' => \E g \in Gens : g <= rd'[q].gen /\ map[q][g] # 0
  BY <1>1 DEF ChurnInv
<1> QED BY <1>1, <1>2 DEF ChurnInv

LEMMA ChurnGet ==
  ASSUME Inv, ChurnInv, NEW p \in Procs, Get(p)
  PROVE  ChurnInv'
<1>0. /\ TypeOK /\ index.gen \in Nat /\ index.gen \in Gens /\ Gens \subseteq Nat
      /\ MaxRetries \in Nat
  BY IndexTypes, PackAssumption DEF Inv, PackInv, Gens
<1>1. CASE Locate(p)
  <2>1. /\ rd[p].gen \in Gens /\ MapPack(p, rd[p].gen) /\ Reading(p) /\ rd[p].st = "looked"
        /\ UNCHANGED <<index, pc>>
    BY <1>0, <1>1, RdType DEF Locate, Reading, lmdb
  <2>2. /\ \A q \in Procs : q # p => rd'[q] = rd[q]
        /\ rd'[p].st = "mapped" /\ rd'[p].gen = rd[p].gen
    BY <1>0, <1>1 DEF Locate, TypeOK, ReadStates, NoRead
  <2>3. /\ map'[p] # Unmapped
        /\ \A q \in Procs, h \in Gens : map[q][h] # 0 => map'[q][h] # 0
    BY <1>0, <2>1, MapGrows
  <2>4. \A q \in Procs : map[q] # Unmapped => map'[q] # Unmapped
    BY <1>0, <2>3 DEF TypeOK, Unmapped
  <2>5. \A q \in Procs : Reading(q)' => \E g \in Gens : g <= rd'[q].gen /\ map'[q][g] # 0
    <3> SUFFICES ASSUME NEW q \in Procs, Reading(q)'
                 PROVE  \E g \in Gens : g <= rd'[q].gen /\ map'[q][g] # 0
      OBVIOUS
    <3>1. Reading(q) /\ rd'[q].gen = rd[q].gen
      BY <2>1, <2>2 DEF Reading
    <3>2. PICK g \in Gens : g <= rd[q].gen /\ map[q][g] # 0
      BY <3>1 DEF ChurnInv
    <3> QED BY <2>3, <3>1, <3>2
  <2> QED BY <2>1, <2>2, <2>4, <2>5 DEF ChurnInv
<1>2. ASSUME NEW b \in Blobs, Lookup(p, b) PROVE ChurnInv'
  <2>1. /\ rd' = [rd EXCEPT ![p] = Found(p, b, 0)] /\ UNCHANGED <<index, map, pc>>
        /\ pc[p] \notin ClosedPcs
    BY <1>2 DEF Lookup, lmdb, maps
  <2>2. rd'[p] = Found(p, b, 0)
    BY <1>0, <2>1 DEF TypeOK
  <2>3. rd'[p].st = "looked" /\ rd'[p].gen = index.gen /\ rd'[p].tries = 0
    BY <2>2 DEF Found
  <2>4. PICK g \in Gens : map[p][g] # 0
    BY <1>0, <2>1 DEF ChurnInv, TypeOK, Unmapped
  <2>5. g <= index.gen
    BY <2>4 DEF Inv, PackInv, MapInv
  <2> QED BY <1>0, <2>1, <2>2, <2>3, <2>4, <2>5, ChurnLooks
<1>3. CASE Relook(p)
  <2>1. /\ rd[p].st = "retry" /\ UNCHANGED <<index, map, pc>> /\ rd[p].tries \in Nat /\ Reading(p)
    BY <1>0, <1>3, RdType DEF Relook, Reading, lmdb, maps
  <2>2. /\ rd' = [rd EXCEPT ![p] = rd'[p]]
        /\ rd'[p] = NoRead \/ rd'[p] = Found(p, rd[p].b, rd[p].tries)
    BY <1>0, <1>3 DEF Relook, TypeOK
  <2>3. CASE rd'[p] = NoRead
    <3>1. rd'[p].st = "idle" /\ ~Reading(p)'
      BY <2>3 DEF NoRead, Reading
    <3> QED BY <1>0, <2>1, <2>2, <3>1, ChurnLooks
  <2>4. CASE rd'[p] = Found(p, rd[p].b, rd[p].tries)
    <3>1. rd'[p].st = "looked" /\ rd'[p].gen = index.gen /\ rd'[p].tries = rd[p].tries
      BY <2>4 DEF Found
    <3>2. index.gen > rd[p].tries
      BY <2>1 DEF ChurnInv
    <3>3. PICK g \in Gens : g <= rd[p].gen /\ map[p][g] # 0
      BY <2>1 DEF ChurnInv
    <3>4. g <= index.gen
      BY <3>3 DEF Inv, PackInv, MapInv
    <3> QED BY <1>0, <2>1, <2>2, <3>1, <3>2, <3>3, <3>4, ChurnLooks
  <2> QED BY <2>2, <2>3, <2>4
<1>4. CASE LocateFails(p)
  <2>1. /\ rd[p].st = "looked" /\ map[p][rd[p].gen] = 0 /\ dir[rd[p].gen] = 0
        /\ rd' = [rd EXCEPT ![p] = Missed(rd[p])] /\ UNCHANGED <<index, map, pc>>
    BY <1>4 DEF LocateFails, lmdb, maps
  <2>2. /\ Reading(p) /\ Holding(p) /\ rd[p].gen \in Gens /\ rd[p].tries \in Nat /\ rd[p].b \in Blobs
    BY <1>0, <2>1, RdType DEF Reading, Holding
  <2>3. rd[p].gen < index.gen
    <3>1. rd[p].gen <= index.gen
      BY <2>2 DEF Inv, PackInv, MapInv
    <3>2. rd[p].gen # index.gen
      <4> SUFFICES ASSUME rd[p].gen = index.gen PROVE FALSE
        OBVIOUS
      <4>1. rd[p].b \in Stored(index)
        BY <2>2 DEF Inv, ReadInv, Stored
      <4> QED BY <2>1, <4>1 DEF Inv, PackInv, DiskInv, Backed
    <3>3. rd[p].gen \in Nat /\ index.gen \in Nat
      BY <1>0, <2>2
    <3> QED BY <3>1, <3>2, <3>3
  <2>4. PICK g \in Gens : g <= rd[p].gen /\ map[p][g] # 0
    BY <2>2 DEF ChurnInv
  <2>5. rd[p].gen > rd[p].tries
    <3>1. g # rd[p].gen
      BY <2>1, <2>4
    <3>2. rd[p].gen > 0
      BY <1>0, <2>2, <2>4, <3>1
    <3>3. rd[p].tries = 0 \/ rd[p].gen > rd[p].tries
      BY <2>1 DEF ChurnInv
    <3> QED BY <3>2, <3>3
  <2>6. index.gen > rd[p].tries + 1
    <3>1. rd[p].gen \in Nat /\ rd[p].tries \in Nat /\ index.gen \in Nat
      BY <1>0, <2>2
    <3> QED BY <2>3, <2>5, <3>1
  <2>7. PICK r : r = rd[p] /\ r \in ReadStates \ {NoRead}
    <3>1. rd[p] \in ReadStates /\ rd[p] # NoRead
      BY <1>0, <2>2, RdType DEF TypeOK
    <3> QED BY <3>1
  <2>8. /\ Missed(r).st = IF r.tries + 1 < MaxRetries THEN "retry" ELSE "churn"
        /\ Missed(r).tries = r.tries + 1 /\ Missed(r).gen = r.gen
    BY <2>7 DEF Missed, ReadStates
  <2>9. rd'[p] = Missed(r)
    BY <1>0, <2>1, <2>7 DEF TypeOK
  <2>10. Missed(r).st = "churn" => Missed(r).tries >= MaxRetries
    BY <1>0, <2>2, <2>7, <2>8
  <2>11. /\ rd'[p].gen = rd[p].gen /\ index.gen > rd'[p].tries /\ rd'[p].st # "looked"
         /\ rd'[p].st = "churn" => rd'[p].tries >= MaxRetries
    BY <2>6, <2>7, <2>8, <2>9, <2>10
  <2> QED BY <1>0, <2>1, <2>4, <2>7, <2>9, <2>11, ChurnLooks
<1>5. CASE Fetch(p)
  <2>1. rd' = [rd EXCEPT ![p] = rd'[p]] /\ UNCHANGED <<index, map, pc>>
    BY <1>0, <1>5 DEF Fetch, TypeOK, lmdb, maps
  <2>2. rd'[p].st \in {"corrupt", "misread", "idle"}
    BY <1>0, <1>5 DEF Fetch, TypeOK, ReadStates, NoRead
  <2>3. ~Reading(p)'
    BY <2>2 DEF Reading
  <2> QED BY <1>0, <2>1, <2>2, <2>3, ChurnLooks
<1> QED BY <1>1, <1>2, <1>3, <1>4, <1>5 DEF Get

LEMMA ChurnNext ==
  ASSUME Inv, Inv', ChurnInv, [Next]_vars
  PROVE  ChurnInv'
<1>0. TypeOK /\ TypeOK' /\ LockInv
  BY DEF Inv, PackInv
<1>1. CASE PowerLoss
  BY <1>1 DEF PowerLoss, NoRead, Reading, ChurnInv, ClosedPcs
<1>2. CASE UNCHANGED vars
  BY <1>2 DEF vars, lmdb, maps, ChurnInv, Reading
<1>3. ASSUME NEW p \in Procs, Close(p) \/ Kill(p) PROVE ChurnInv'
  <2>1. /\ rd'[p] = NoRead /\ pc'[p] = "closed" /\ index' = index
        /\ \A q \in Procs \ {p} : rd'[q] = rd[q] /\ map'[q] = map[q] /\ pc'[q] = pc[q]
    BY <1>0, <1>3 DEF Close, Kill, Gone, Goto, TypeOK
  <2>2. /\ rd'[p].st = "idle" /\ ~Reading(p)'
        /\ \A q \in Procs \ {p} : Reading(q)' <=> Reading(q)
    BY <2>1 DEF NoRead, Reading
  <2> QED BY <2>1, <2>2 DEF ChurnInv, ClosedPcs
<1> QED BY <1>0, <1>1, <1>2, <1>3, ChurnWrites, ChurnGet DEF Next

(* "pack generation churn" is raised only when the generation is beyond    *)
(* the number of tries: no lookup gives up on a pack that is there, and    *)
(* none meets the same missing generation twice.                           *)
THEOREM OnlyChurnGivesUp == QuietReads => (Spec => []ChurnIsReal)
<1> SUFFICES ASSUME QuietReads PROVE Spec => []ChurnIsReal
  OBVIOUS
<1>1. Init => Inv /\ ChurnInv
  <2>1. Init => ChurnInv
    BY DEF Init, ChurnInv, ClosedPcs, Reading, NoRead
  <2> QED BY <2>1, InvInit
<1>2. Inv /\ ChurnInv /\ [Next]_vars => (Inv /\ ChurnInv)'
  BY InvNext, ChurnNext
<1>3. Inv /\ ChurnInv => ChurnIsReal
  <2> SUFFICES ASSUME Inv, ChurnInv, NEW p \in Procs, rd[p].st = "churn"
               PROVE  index.gen > MaxRetries
    BY DEF ChurnIsReal
  <2>1. rd[p].tries \in Nat /\ index.gen \in Nat /\ MaxRetries \in Nat
    BY IndexTypes, PackAssumption DEF Inv, PackInv, TypeOK, ReadStates, NoRead
  <2> QED BY <2>1 DEF ChurnInv
<1> QED BY <1>1, <1>2, <1>3, PTL DEF Spec
=============================================================================
