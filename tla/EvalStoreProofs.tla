-------------------------- MODULE EvalStoreProofs --------------------------
(***************************************************************************)
(* The records of the eval store: typed, rooted, and kept while they are   *)
(* read, whatever fails, dies or is evicted at any time.                   *)
(***************************************************************************)
EXTENDS EvalStore, TLAPS

(* Between transactions there is one table; inside one nothing gets old.   *)
BatchInv ==
  /\ LmdbFree => vtab = tab
  /\ vtab.old \subseteq tab.old

(* What a store has rooted in its batch stays so until it is flushed, and  *)
(* a record that is dropped in a batch has no object there.                *)
FreshInv ==
  \A t \in Threads :
    /\ pc[t] = "flush" => writer = t /\ Obj(t) \in tab.roots \ tab.old
    /\ writer = t /\ pc[t] \in {"record", "sync"} => Obj(t) \in vtab.roots \ vtab.old
    /\ writer = t /\ pc[t] = "drop" => Obj(t) \notin vtab.objs

(* What was stored is whole in every state that may come to be the table.  *)
Kept(p, T) == p \in Valid(T) /\ (Object[p] \in T.roots \/ p \in T.evicted)
StoredInv  == \A p \in stored : Kept(p, tab) /\ Kept(p, vtab) /\ Kept(p, disk)

(* What was read since its root became old has a touch pending.            *)
ReadInv ==
  \A p \in stored : Object[p] \in vtab.old =>
    p \in unread \/ \E q \in Procs : Object[p] \in touch[q]

EvalInv == TypeOK /\ BatchInv /\ FreshInv /\ StoredInv /\ ReadInv

-----------------------------------------------------------------------------
(* What the operations make of a table.                                    *)
LEMMA TableFacts ==
  ASSUME NEW T \in Tables
  PROVE  /\ \A S \in SUBSET Objects :
              /\ Rooted(T, S) \in Tables
              /\ Rooted(T, S).objs = T.objs /\ Rooted(T, S).recs = T.recs
              /\ Rooted(T, S).roots = T.roots \cup S /\ Rooted(T, S).old = T.old \ S
              /\ Rooted(T, S).evicted = T.evicted \ PathsOf(S)
         /\ \A o \in Objects :
              /\ [T EXCEPT !.objs = @ \cup {o}] \in Tables
              /\ [T EXCEPT !.objs = @ \cup {o}].objs = T.objs \cup {o}
              /\ [T EXCEPT !.objs = @ \cup {o}].recs = T.recs
              /\ [T EXCEPT !.objs = @ \cup {o}].roots = T.roots
              /\ [T EXCEPT !.objs = @ \cup {o}].old = T.old
              /\ [T EXCEPT !.objs = @ \cup {o}].evicted = T.evicted
         /\ \A R \in SUBSET Paths :
              /\ [T EXCEPT !.recs = R] \in Tables
              /\ [T EXCEPT !.recs = R].objs = T.objs
              /\ [T EXCEPT !.recs = R].recs = R
              /\ [T EXCEPT !.recs = R].roots = T.roots
              /\ [T EXCEPT !.recs = R].old = T.old
              /\ [T EXCEPT !.recs = R].evicted = T.evicted
         /\ \A o \in Objects :
              /\ Aged(T, o) \in Tables
              /\ Aged(T, o).objs = T.objs /\ Aged(T, o).recs = T.recs
              /\ Aged(T, o).roots = T.roots /\ Aged(T, o).evicted = T.evicted
              /\ Aged(T, o).old \subseteq T.old \cup {o}
BY DEF Tables, Rooted, Aged, PathsOf

LEMMA CallFacts ==
  ASSUME TypeOK, NEW t \in Threads
  PROVE  Path(t) \in Paths /\ Obj(t) \in Objects /\ ProcOf[t] \in Procs /\ NoThread \notin Threads
BY EvalAssumption DEF TypeOK, Path, Obj, Objects, Procs

(* meta_put and meta_del see and change the newest table.                  *)
LEMMA WriteFacts ==
  ASSUME BatchInv, NEW t \in Threads, NEW new, Write(t, new)
  PROVE  /\ View(t) = vtab /\ vtab' = new /\ disk' = disk /\ writer' = writer
         /\ \/ Batch(t) /\ tab' = tab
            \/ LmdbFree /\ ~Batch(t) /\ tab' = new
BY EvalAssumption DEF Write, View, Batch, LmdbFree, BatchInv

-----------------------------------------------------------------------------
LEMMA StepType ==
  ASSUME TypeOK, BatchInv, NEW t \in Threads, Step(t) \/ StoreFails(t)
  PROVE  TypeOK'
<1>0. /\ Path(t) \in Paths /\ Obj(t) \in Objects /\ ProcOf[t] \in Procs
      /\ View(t) \in Tables /\ vtab \in Tables /\ tab \in Tables
      /\ touch \in [Procs -> SUBSET Objects] /\ touch[ProcOf[t]] \in SUBSET Objects
      /\ mutex \in [Procs -> Threads \cup {NoThread}] /\ pc \in [Threads -> Pcs]
      /\ call \in [Threads -> [path : Paths, op : {"query", "add"}]]
      /\ NoCall \in [path : Paths, op : {"query", "add"}]
  BY CallFacts, EvalAssumption DEF TypeOK, View, NoCall
<1>g. ASSUME NEW l \in Pcs, Goto(t, l)
      PROVE  pc' \in [Threads -> Pcs] /\ call' \in [Threads -> [path : Paths, op : {"query", "add"}]]
  BY <1>0, <1>g DEF Goto
<1>m. Miss(t) => \E l \in Pcs : Goto(t, l)
  BY DEF Miss, Pcs
<1>p. {"idle", "look", "check", "touch", "drop", "lock", "put", "register", "record", "sync",
       "flush"} = Pcs
  BY DEF Pcs, StorePcs
<1>u. (Unlock(t) => mutex' \in [Procs -> Threads \cup {NoThread}])
  BY <1>0 DEF Unlock
<1>1. CASE Look(t) \/ Check(t) \/ Lock(t)
  <2>1. PICK l \in Pcs : Goto(t, l)
    BY <1>1, <1>m, <1>p DEF Look, Check, Lock
  <2>2. mutex' \in [Procs -> Threads \cup {NoThread}]
    BY <1>0, <1>1 DEF Look, Check, Lock
  <2> QED BY <1>1, <1>g, <2>1, <2>2 DEF Look, Check, Lock, TypeOK, lmdb, history
<1>2. CASE Touch(t)
  BY <1>0, <1>2, <1>g, <1>p DEF Touch, TypeOK, lmdb
<1>3. CASE PutRefused(t) \/ StoreFails(t)
  BY <1>0, <1>3, <1>g, <1>p, <1>u DEF PutRefused, StoreFails, Throws, TypeOK, lmdb, history
<1>4. CASE Put(t) \/ PutBulk(t)
  BY <1>0, <1>4, <1>g, <1>p, TableFacts DEF Put, PutBulk, TypeOK, lmdb, history
<1>5. CASE Drop(t)
  <2>1. PICK l \in Pcs : Goto(t, l)
    BY <1>5, <1>m DEF Drop
  <2>2. PICK new : new = [View(t) EXCEPT !.recs = @ \ {Path(t)}] /\ Write(t, new)
    BY <1>5 DEF Drop
  <2>3. new \in Tables
    BY <1>0, <2>2 DEF Tables
  <2>4. tab' \in Tables /\ vtab' \in Tables /\ UNCHANGED <<disk, writer>>
    BY <1>0, <2>2, <2>3 DEF Write
  <2> QED BY <1>5, <1>g, <2>1, <2>4 DEF Drop, TypeOK
<1>6. CASE Register(t)
  <2>1. tab' \in Tables /\ vtab' \in Tables /\ UNCHANGED <<disk, writer>>
    BY <1>0, <1>6, TableFacts DEF Register, Write
  <2> QED BY <1>6, <1>g, <1>p, <2>1 DEF Register, TypeOK, history
<1>7. CASE Record(t)
  <2>2. PICK new : new = [View(t) EXCEPT !.recs = @ \cup {Path(t)}] /\ Write(t, new)
    BY <1>7 DEF Record
  <2>3. new \in Tables
    BY <1>0, <2>2 DEF Tables
  <2>4. tab' \in Tables /\ vtab' \in Tables /\ UNCHANGED <<disk, writer>>
    BY <1>0, <2>2, <2>3 DEF Write
  <2> QED BY <1>7, <1>g, <1>p, <2>4 DEF Record, TypeOK, history
<1>8. CASE Commit(t)
  <2>1. tab' \in Tables /\ vtab' \in Tables /\ UNCHANGED <<disk, writer>>
    BY <1>0, <1>8, TableFacts DEF Commit, Write
  <2>2. PICK l \in Pcs : Goto(t, l)
    BY <1>8, <1>p DEF Commit
  <2>3. mutex' \in [Procs -> Threads \cup {NoThread}] /\ touch' \in [Procs -> SUBSET Objects]
    BY <1>0, <1>8, <1>u DEF Commit
  <2>4. unread' \subseteq Paths /\ stored' = stored /\ calls' = calls
    BY <1>8 DEF Commit, TypeOK
  <2> QED BY <1>g, <2>1, <2>2, <2>3, <2>4 DEF TypeOK
<1>9. CASE Flush(t)
  BY <1>0, <1>9, <1>g, <1>p, <1>u DEF Flush, TypeOK
<1> QED BY <1>1, <1>2, <1>3, <1>4, <1>5, <1>6, <1>7, <1>8, <1>9 DEF Step

LEMMA NextType ==
  ASSUME TypeOK, BatchInv, [Next]_vars
  PROVE  TypeOK'
<1>0. /\ vtab \in Tables /\ tab \in Tables /\ disk \in Tables
      /\ touch \in [Procs -> SUBSET Objects]
      /\ mutex \in [Procs -> Threads \cup {NoThread}] /\ pc \in [Threads -> Pcs]
      /\ call \in [Threads -> [path : Paths, op : {"query", "add"}]]
      /\ NoCall \in [path : Paths, op : {"query", "add"}]
      /\ {"idle", "look"} \subseteq Pcs
  BY EvalAssumption DEF TypeOK, NoCall, Pcs
<1>1. ASSUME NEW t \in Threads, NEW p \in Paths, NEW op \in {"query", "add"}, Call(t, p, op)
      PROVE  TypeOK'
  <2>1. calls' \in 0 .. MaxCalls
    BY <1>1, EvalAssumption DEF Call, TypeOK
  <2> QED BY <1>0, <1>1, <2>1 DEF Call, TypeOK, lmdb, history
<1>2. ASSUME NEW o \in Objects, Age(o) PROVE TypeOK'
  BY <1>0, <1>2, TableFacts DEF Age, TypeOK, PathsOf
<1>3. CASE Pass
  BY <1>0, <1>3 DEF Pass, TypeOK, Tables
<1>4. ASSUME NEW S \in SUBSET Objects, PassDies(S) PROVE TypeOK'
  BY <1>0, <1>4 DEF PassDies, TypeOK, Tables, PathsOf, history
<1>5. ASSUME NEW q \in Procs, Kill(q) PROVE TypeOK'
  BY <1>0, <1>5 DEF Kill, TypeOK, PathsOf
<1>6. CASE PowerLoss
  BY <1>0, <1>6 DEF PowerLoss, TypeOK, PathsOf
<1>7. CASE UNCHANGED vars
  BY <1>7 DEF vars, lmdb, history, TypeOK
<1> QED BY <1>1, <1>2, <1>3, <1>4, <1>5, <1>6, <1>7, StepType DEF Next

-----------------------------------------------------------------------------
(* The steps of a thread.                                                  *)

LEMMA GotoFacts ==
  ASSUME TypeOK, NEW t \in Threads, NEW l, Goto(t, l)
  PROVE  /\ pc'[t] = l
         /\ \A u \in Threads : u # t => pc'[u] = pc[u] /\ call'[u] = call[u]
         /\ l # "idle" => call'[t] = call[t]
BY DEF Goto, TypeOK

(* A step that writes nothing.                                             *)
LEMMA QuietKeeps ==
  ASSUME EvalInv, NEW t \in Threads, UNCHANGED lmdb, stored' = stored,
         \A u \in Threads : u # t => pc'[u] = pc[u] /\ call'[u] = call[u],
         pc[t] # "flush", pc'[t] \notin {"flush", "record", "sync"},
         writer = t /\ pc'[t] = "drop" => Obj(t)' \notin vtab.objs
  PROVE  BatchInv' /\ FreshInv' /\ StoredInv'
<1>1. UNCHANGED <<tab, vtab, disk, writer>>
  BY DEF lmdb
<1>2. BatchInv'
  <2>1. LmdbFree' => LmdbFree
    BY <1>1, CallFacts DEF LmdbFree, EvalInv, TypeOK
  <2> QED BY <1>1, <2>1 DEF EvalInv, BatchInv
<1>3. \A u \in Threads : u # t => Obj(u)' = Obj(u)
  BY DEF Obj
<1>4. FreshInv'
  BY <1>1, <1>3 DEF EvalInv, FreshInv
<1>5. StoredInv'
  BY <1>1 DEF EvalInv, StoredInv, Kept, Valid
<1> QED BY <1>2, <1>4, <1>5

(* A write in a batch, or in a transaction of its own.                     *)
LEMMA WriteKeeps ==
  ASSUME EvalInv, NEW t \in Threads, NEW new, Write(t, new),
         vtab.roots \subseteq new.roots, new.old \subseteq vtab.old,
         stored' \subseteq stored, \A p \in stored' : Kept(p, tab') /\ Kept(p, new),
         \A u \in Threads : u # t => pc'[u] = pc[u] /\ call'[u] = call[u],
         pc[t] # "flush", pc'[t] \notin {"flush", "drop"},
         writer = t /\ pc'[t] \in {"record", "sync"} => Obj(t)' \in new.roots \ new.old
  PROVE  BatchInv' /\ FreshInv' /\ StoredInv'
<1>1. /\ View(t) = vtab /\ vtab' = new /\ disk' = disk /\ writer' = writer
      /\ \/ Batch(t) /\ tab' = tab
         \/ LmdbFree /\ ~Batch(t) /\ tab' = new
  BY WriteFacts DEF EvalInv
<1>2. t # NoThread /\ writer \in Threads \cup {NoThread}
  BY EvalAssumption DEF EvalInv, TypeOK
<1>3. BatchInv'
  <2>1. CASE Batch(t) /\ tab' = tab
    <3>1. ~LmdbFree'
      BY <1>1, <1>2, <2>1 DEF LmdbFree, Batch
    <3> QED BY <1>1, <2>1, <3>1 DEF EvalInv, BatchInv
  <2>2. CASE tab' = new
    BY <1>1, <2>2 DEF BatchInv
  <2> QED BY <1>1, <2>1, <2>2
<1>4. ASSUME NEW u \in Threads
      PROVE  /\ pc'[u] = "flush" => writer' = u /\ Obj(u)' \in tab'.roots \ tab'.old
             /\ writer' = u /\ pc'[u] \in {"record", "sync"} => Obj(u)' \in vtab'.roots \ vtab'.old
             /\ writer' = u /\ pc'[u] = "drop" => Obj(u)' \notin vtab'.objs
  <2>1. CASE u = t
    BY <1>1, <2>1
  <2>2. CASE u # t
    <3>1. pc'[u] = pc[u] /\ Obj(u)' = Obj(u)
      BY <2>2 DEF Obj
    <3>2. CASE Batch(t) /\ tab' = tab
      BY <1>1, <2>2, <3>1, <3>2 DEF Batch, EvalInv, FreshInv
    <3>3. CASE LmdbFree /\ tab' = new
      <4>1. vtab = tab /\ (writer = u => pc[u] = "flush")
        BY <3>3, EvalAssumption DEF LmdbFree, EvalInv, BatchInv
      <4> QED BY <1>1, <3>1, <3>3, <4>1 DEF EvalInv, FreshInv
    <3> QED BY <1>1, <3>2, <3>3
  <2> QED BY <2>1, <2>2
<1>5. FreshInv'
  BY <1>4 DEF FreshInv, Obj
<1>6. StoredInv'
  BY <1>1 DEF EvalInv, StoredInv, Kept, Valid
<1> QED BY <1>3, <1>5, <1>6

LEMMA LookKeeps ==
  ASSUME EvalInv, NEW t \in Threads,
         \/ Look(t) \/ Check(t) \/ Lock(t) \/ PutRefused(t) \/ StoreFails(t)
         \/ \E p \in Paths, op \in {"query", "add"} : Call(t, p, op)
  PROVE  (BatchInv /\ FreshInv /\ StoredInv /\ ReadInv)'
<1>0. pc \in [Threads -> Pcs] /\ call \in [Threads -> [path : Paths, op : {"query", "add"}]]
  BY DEF EvalInv, TypeOK
<1>1. UNCHANGED <<tab, vtab, disk, writer, touch, unread, stored>>
  BY DEF Look, Check, Lock, PutRefused, StoreFails, Throws, Call, lmdb, history
<1>2. /\ \A u \in Threads : u # t => pc'[u] = pc[u] /\ call'[u] = call[u]
      /\ pc[t] # "flush" /\ pc'[t] \notin {"flush", "record", "sync"}
  BY <1>0, GotoFacts DEF Look, Check, Lock, PutRefused, StoreFails, Throws, Call, Miss, EvalInv
<1>3. writer = t /\ pc'[t] = "drop" => Obj(t)' \notin vtab.objs
  <2> SUFFICES ASSUME writer = t, pc'[t] = "drop" PROVE Obj(t)' \notin vtab.objs
    OBVIOUS
  <2>1. Check(t)
    BY <1>0, GotoFacts DEF Look, Lock, PutRefused, StoreFails, Throws, Call, Miss, EvalInv
  <2>2. pc[t] = "check" /\ call'[t] = call[t]
    BY <2>1, GotoFacts DEF Check, EvalInv
  <2>3. Obj(t) \notin View(t).objs
    BY <2>1, GotoFacts DEF Check, EvalInv
  <2> QED BY <2>2, <2>3 DEF View, Batch, Obj
<1>4. ReadInv'
  BY <1>1 DEF EvalInv, ReadInv
<1> QED BY <1>1, <1>2, <1>3, <1>4, QuietKeeps DEF lmdb

LEMMA TouchKeeps ==
  ASSUME EvalInv, NEW t \in Threads, Touch(t)
  PROVE  (BatchInv /\ FreshInv /\ StoredInv /\ ReadInv)'
<1>0. /\ touch \in [Procs -> SUBSET Objects] /\ ProcOf[t] \in Procs
  BY CallFacts DEF EvalInv, TypeOK
<1>1. /\ UNCHANGED lmdb /\ vtab' = vtab /\ stored' = stored /\ unread' = unread \ {Path(t)}
      /\ pc[t] = "touch" /\ Goto(t, "idle")
      /\ touch' = IF Obj(t) \in View(t).old
                    THEN [touch EXCEPT ![ProcOf[t]] = @ \cup {Obj(t)}] ELSE touch
  BY DEF Touch, lmdb
<1>2. /\ \A u \in Threads : u # t => pc'[u] = pc[u] /\ call'[u] = call[u]
      /\ pc'[t] = "idle"
  BY <1>1, GotoFacts DEF EvalInv
<1>3. BatchInv' /\ FreshInv' /\ StoredInv'
  BY <1>1, <1>2, QuietKeeps
<1>4. ReadInv'
  <2> SUFFICES ASSUME NEW p \in stored, Object[p] \in vtab.old, p \notin unread'
               PROVE  \E q \in Procs : Object[p] \in touch'[q]
    BY <1>1 DEF ReadInv
  <2>1. CASE p \in unread
    <3>1. p = Path(t) /\ Object[p] = Obj(t)
      BY <1>1, <2>1 DEF Path, Obj
    <3>2. Obj(t) \in View(t).old
      BY <3>1 DEF View, EvalInv, BatchInv
    <3>3. Obj(t) \in touch'[ProcOf[t]]
      BY <1>0, <1>1, <3>2
    <3> QED BY <1>0, <3>1, <3>3
  <2>2. CASE p \notin unread
    <3>1. PICK q \in Procs : Object[p] \in touch[q]
      BY <2>2 DEF EvalInv, ReadInv
    <3>2. Object[p] \in touch'[q]
      BY <1>0, <1>1, <3>1
    <3> QED BY <3>2
  <2> QED BY <2>1, <2>2
<1> QED BY <1>3, <1>4

LEMMA DropKeeps ==
  ASSUME EvalInv, NEW t \in Threads, Drop(t)
  PROVE  (BatchInv /\ FreshInv /\ StoredInv /\ ReadInv)'
<1>0. vtab \in Tables /\ vtab.recs \subseteq Paths /\ pc \in [Threads -> Pcs]
  BY DEF EvalInv, TypeOK, Tables
<1>1. PICK R, new : /\ R = View(t).recs \ {Path(t)} /\ new = [View(t) EXCEPT !.recs = R]
                    /\ Write(t, new)
  BY DEF Drop
<1>2. /\ View(t) = vtab /\ vtab' = new /\ disk' = disk /\ writer' = writer
      /\ \/ Batch(t) /\ tab' = tab
         \/ LmdbFree /\ ~Batch(t) /\ tab' = new
  BY <1>1, WriteFacts DEF EvalInv
<1>3. /\ new.objs = vtab.objs /\ new.recs = vtab.recs \ {Path(t)} /\ new.roots = vtab.roots
      /\ new.old = vtab.old /\ new.evicted = vtab.evicted
  BY <1>0, <1>1, <1>2, TableFacts
<1>4. /\ \A u \in Threads : u # t => pc'[u] = pc[u] /\ call'[u] = call[u]
      /\ pc[t] = "drop" /\ pc'[t] \in {"idle", "lock"}
      /\ stored' = stored \cap Valid(tab') /\ UNCHANGED <<touch, unread>>
  BY GotoFacts DEF Drop, Miss, EvalInv
<1>5. ASSUME NEW p \in stored' PROVE Kept(p, tab') /\ Kept(p, new)
  <2>1. p \in stored /\ p \in Valid(tab') /\ Kept(p, tab) /\ Kept(p, vtab)
    BY <1>4 DEF EvalInv, StoredInv
  <2>2. CASE Batch(t) /\ tab' = tab
    <3>1. Obj(t) \notin vtab.objs
      BY <1>4, <2>2 DEF Batch, EvalInv, FreshInv
    <3>2. p # Path(t)
      BY <2>1, <3>1 DEF Kept, Valid, PathsOf, Path, Obj
    <3> QED BY <1>3, <2>1, <2>2, <3>2 DEF Kept, Valid
  <2>3. CASE tab' = new
    BY <1>3, <2>1, <2>3 DEF Kept
  <2> QED BY <1>2, <2>2, <2>3
<1>6. BatchInv' /\ FreshInv' /\ StoredInv'
  BY <1>1, <1>3, <1>4, <1>5, WriteKeeps
<1>7. ReadInv'
  BY <1>2, <1>3, <1>4 DEF EvalInv, ReadInv
<1> QED BY <1>6, <1>7

LEMMA RecordKeeps ==
  ASSUME EvalInv, NEW t \in Threads, Record(t)
  PROVE  (BatchInv /\ FreshInv /\ StoredInv /\ ReadInv)'
<1>0. vtab \in Tables /\ vtab.recs \subseteq Paths /\ Path(t) \in Paths
  BY CallFacts DEF EvalInv, TypeOK, Tables
<1>1. PICK R, new : /\ R = View(t).recs \cup {Path(t)} /\ new = [View(t) EXCEPT !.recs = R]
                    /\ Write(t, new)
  BY DEF Record
<1>2. /\ View(t) = vtab /\ vtab' = new /\ disk' = disk /\ writer' = writer
      /\ \/ Batch(t) /\ tab' = tab
         \/ LmdbFree /\ ~Batch(t) /\ tab' = new
  BY <1>1, WriteFacts DEF EvalInv
<1>3. /\ new.objs = vtab.objs /\ new.recs = vtab.recs \cup {Path(t)} /\ new.roots = vtab.roots
      /\ new.old = vtab.old /\ new.evicted = vtab.evicted
  BY <1>0, <1>1, <1>2, TableFacts
<1>4. /\ \A u \in Threads : u # t => pc'[u] = pc[u] /\ call'[u] = call[u]
      /\ pc[t] = "record" /\ pc'[t] = "sync" /\ call'[t] = call[t]
      /\ UNCHANGED <<touch, unread, stored>>
  BY GotoFacts DEF Record, EvalInv, history
<1>5. ASSUME NEW p \in stored' PROVE Kept(p, tab') /\ Kept(p, new)
  BY <1>2, <1>3, <1>4 DEF EvalInv, StoredInv, Kept, Valid
<1>6. writer = t => Obj(t)' \in new.roots \ new.old
  BY <1>3, <1>4 DEF EvalInv, FreshInv, Obj
<1>7. BatchInv' /\ FreshInv' /\ StoredInv'
  BY <1>1, <1>3, <1>4, <1>5, <1>6, WriteKeeps
<1>8. ReadInv'
  BY <1>2, <1>3, <1>4 DEF EvalInv, ReadInv
<1> QED BY <1>7, <1>8

(* Rooting objects keeps what was stored, and makes them young.            *)
LEMMA RootedKeeps ==
  ASSUME EvalInv, NEW S \in SUBSET Objects, NEW p \in stored
  PROVE  /\ Kept(p, Rooted(vtab, S))
         /\ vtab.roots \subseteq Rooted(vtab, S).roots /\ Rooted(vtab, S).old = vtab.old \ S
         /\ S \subseteq Rooted(vtab, S).roots
BY TableFacts DEF EvalInv, TypeOK, StoredInv, Kept, Valid, PathsOf

LEMMA RegisterKeeps ==
  ASSUME EvalInv, NEW t \in Threads, Register(t)
  PROVE  (BatchInv /\ FreshInv /\ StoredInv /\ ReadInv)'
<1>0. vtab \in Tables /\ {Obj(t)} \in SUBSET Objects
  BY CallFacts DEF EvalInv, TypeOK
<1>1. PICK new : new = Rooted(View(t), {Obj(t)}) /\ Write(t, new)
  BY DEF Register
<1>2. /\ View(t) = vtab /\ vtab' = new /\ disk' = disk /\ writer' = writer
      /\ \/ Batch(t) /\ tab' = tab
         \/ LmdbFree /\ ~Batch(t) /\ tab' = new
  BY <1>1, WriteFacts DEF EvalInv
<1>3. new.roots = vtab.roots \cup {Obj(t)} /\ new.old = vtab.old \ {Obj(t)}
  BY <1>0, <1>1, <1>2, TableFacts
<1>4. /\ \A u \in Threads : u # t => pc'[u] = pc[u] /\ call'[u] = call[u]
      /\ pc[t] = "register" /\ pc'[t] = "record" /\ call'[t] = call[t]
      /\ UNCHANGED <<touch, unread, stored>>
  BY GotoFacts DEF Register, EvalInv, history
<1>5. ASSUME NEW p \in stored' PROVE Kept(p, tab') /\ Kept(p, new)
  <2>1. p \in stored /\ Kept(p, tab)
    BY <1>4 DEF EvalInv, StoredInv
  <2>2. Kept(p, new)
    BY <1>0, <1>1, <1>2, <2>1, RootedKeeps
  <2> QED BY <1>2, <2>1, <2>2
<1>6. Obj(t)' \in new.roots \ new.old
  BY <1>3, <1>4 DEF Obj
<1>7. BatchInv' /\ FreshInv' /\ StoredInv'
  BY <1>1, <1>3, <1>4, <1>5, <1>6, WriteKeeps
<1>8. ReadInv'
  BY <1>2, <1>3, <1>4 DEF EvalInv, ReadInv
<1> QED BY <1>7, <1>8

LEMMA CommitKeeps ==
  ASSUME EvalInv, NEW t \in Threads, Commit(t)
  PROVE  (BatchInv /\ FreshInv /\ StoredInv /\ ReadInv)'
<1> DEFINE mine == touch[ProcOf[t]]
<1>0. /\ vtab \in Tables /\ mine \in SUBSET Objects /\ touch \in [Procs -> SUBSET Objects]
      /\ ProcOf[t] \in Procs
  BY CallFacts DEF EvalInv, TypeOK
<1>1. PICK new : /\ new = Rooted(View(t), mine)
                 /\ unread' = IF Obj(t) \in new.old THEN unread ELSE unread \ {Path(t)}
                 /\ touch' = [touch EXCEPT ![ProcOf[t]] = {}]
                 /\ pc[t] = "sync" /\ stored' = stored
                 /\ \/ /\ Batch(t) /\ tab' = new /\ vtab' = new /\ Goto(t, "flush")
                       /\ UNCHANGED <<disk, writer>>
                    \/ ~Batch(t) /\ Write(t, new) /\ Goto(t, "idle")
  BY DEF Commit
<1>2. View(t) = vtab /\ vtab' = new
  <2>1. CASE Batch(t)
    BY <1>1, <2>1 DEF View
  <2>2. CASE ~Batch(t)
    BY <1>1, <2>2, WriteFacts DEF EvalInv
  <2> QED BY <2>1, <2>2
<1>3. new.roots = vtab.roots \cup mine /\ new.old = vtab.old \ mine
  BY <1>0, <1>1, <1>2, TableFacts
<1>4. \A p \in stored : Kept(p, new) /\ Kept(p, tab)
  BY <1>0, <1>1, <1>2, RootedKeeps DEF EvalInv, StoredInv
<1>5. ReadInv'
  <2> SUFFICES ASSUME NEW p \in stored, Object[p] \in new.old, p \notin unread'
               PROVE  \E q \in Procs : Object[p] \in touch'[q]
    BY <1>1, <1>2 DEF ReadInv
  <2>1. p \notin unread
    BY <1>1 DEF Obj, Path
  <2>2. PICK q \in Procs : Object[p] \in touch[q]
    BY <1>3, <2>1 DEF EvalInv, ReadInv
  <2>3. Object[p] \in touch'[q]
    BY <1>0, <1>1, <1>3, <2>2
  <2> QED BY <2>3
<1>6. CASE ~Batch(t)
  <2>1. /\ pc'[t] = "idle" /\ Write(t, new)
        /\ \A u \in Threads : u # t => pc'[u] = pc[u] /\ call'[u] = call[u]
    BY <1>1, <1>6, GotoFacts DEF EvalInv
  <2>2. \A p \in stored' : Kept(p, tab') /\ Kept(p, new)
    BY <1>1, <1>4, <2>1 DEF Write
  <2>3. BatchInv' /\ FreshInv' /\ StoredInv'
    BY <1>1, <1>3, <2>1, <2>2, WriteKeeps
  <2> QED BY <1>5, <2>3
<1>7. CASE Batch(t)
  <2>1. /\ tab' = new /\ disk' = disk /\ writer = t /\ writer' = t
        /\ pc'[t] = "flush" /\ call'[t] = call[t]
        /\ \A u \in Threads : u # t => pc'[u] = pc[u] /\ call'[u] = call[u]
    BY <1>1, <1>7, GotoFacts DEF EvalInv, Batch
  <2>2. Obj(t)' \in new.roots \ new.old
    BY <1>1, <1>3, <2>1 DEF EvalInv, FreshInv, Obj
  <2>3. \A u \in Threads : u # t => pc'[u] # "flush"
    BY <2>1 DEF EvalInv, FreshInv
  <2>4. FreshInv'
    BY <1>2, <2>1, <2>2, <2>3 DEF FreshInv, Obj
  <2>5. StoredInv'
    BY <1>1, <1>2, <1>4, <2>1 DEF EvalInv, StoredInv, Kept, Valid
  <2>6. BatchInv'
    BY <1>2, <2>1 DEF BatchInv
  <2> QED BY <1>5, <2>4, <2>5, <2>6
<1> QED BY <1>6, <1>7

LEMMA PutKeeps ==
  ASSUME EvalInv, NEW t \in Threads, Put(t) \/ PutBulk(t)
  PROVE  (BatchInv /\ FreshInv /\ StoredInv /\ ReadInv)'
<1>0. /\ vtab \in Tables /\ Obj(t) \in Objects /\ pc \in [Threads -> Pcs] /\ t # NoThread
      /\ \A u \in Threads : u # NoThread
  BY CallFacts, EvalAssumption DEF EvalInv, TypeOK
<1>1. PICK new : /\ new = [vtab EXCEPT !.objs = @ \cup {Obj(t)}] /\ vtab' = new
                 /\ pc[t] = "put" /\ writer \in {NoThread, t} /\ Goto(t, "register")
                 /\ UNCHANGED <<touch, unread, stored>>
                 /\ \/ writer' = t /\ UNCHANGED <<tab, disk>>
                    \/ writer' = NoThread /\ tab' = new /\ disk' = new
  BY DEF Put, PutBulk, history
<1>2. /\ new.objs = vtab.objs \cup {Obj(t)} /\ new.recs = vtab.recs /\ new.roots = vtab.roots
      /\ new.old = vtab.old /\ new.evicted = vtab.evicted
  BY <1>0, <1>1, TableFacts
<1>3. pc'[t] = "register" /\ \A u \in Threads : u # t => pc'[u] = pc[u] /\ call'[u] = call[u]
  BY <1>1, GotoFacts DEF EvalInv
<1>4. \A p \in stored : Kept(p, new) /\ Kept(p, tab) /\ Kept(p, disk)
  BY <1>2 DEF EvalInv, StoredInv, Kept, Valid, PathsOf
<1>5. StoredInv'
  BY <1>1, <1>4 DEF StoredInv, Kept, Valid
<1>6. ReadInv'
  BY <1>1, <1>2 DEF EvalInv, ReadInv
<1>7. BatchInv'
  <2>1. CASE writer' = t /\ UNCHANGED <<tab, disk>>
    <3>1. ~LmdbFree'
      BY <1>0, <1>3, <2>1 DEF LmdbFree
    <3> QED BY <1>1, <1>2, <2>1, <3>1 DEF EvalInv, BatchInv
  <2>2. CASE tab' = new
    BY <1>1, <2>2 DEF BatchInv
  <2> QED BY <1>1, <2>1, <2>2
<1>8. FreshInv'
  BY <1>0, <1>1, <1>3 DEF EvalInv, FreshInv
<1> QED BY <1>5, <1>6, <1>7, <1>8

LEMMA FlushKeeps ==
  ASSUME EvalInv, NEW t \in Threads, Flush(t)
  PROVE  (BatchInv /\ FreshInv /\ StoredInv /\ ReadInv)'
<1>1. /\ pc[t] = "flush" /\ writer = t /\ Obj(t) \in tab.roots \ tab.old /\ vtab = tab
      /\ UNCHANGED <<tab, vtab, touch, unread>> /\ disk' = tab /\ writer' = NoThread
      /\ stored' = (stored \cup {Path(t)}) \cap Valid(tab) /\ Goto(t, "idle")
      /\ \A u \in Threads : u # NoThread
  BY EvalAssumption DEF Flush, EvalInv, FreshInv, BatchInv, LmdbFree
<1>2. pc'[t] = "idle" /\ \A u \in Threads : u # t => pc'[u] = pc[u] /\ call'[u] = call[u]
  BY <1>1, GotoFacts DEF EvalInv
<1>3. \A p \in stored' : Kept(p, tab)
  BY <1>1 DEF EvalInv, StoredInv, Kept, Obj, Path
<1>4. StoredInv'
  BY <1>1, <1>3 DEF StoredInv, Kept, Valid
<1>5. ReadInv'
  BY <1>1 DEF EvalInv, ReadInv, Obj, Path
<1>6. BatchInv' /\ FreshInv'
  BY <1>1, <1>2 DEF EvalInv, BatchInv, FreshInv
<1> QED BY <1>4, <1>5, <1>6

-----------------------------------------------------------------------------
(* The collector, time and the deaths.                                     *)

LEMMA AgeKeeps ==
  ASSUME EvalInv, NEW o \in Objects, Age(o)
  PROVE  (BatchInv /\ FreshInv /\ StoredInv /\ ReadInv)'
<1>0. /\ tab \in Tables /\ disk \in Tables /\ stored \subseteq Paths
      /\ \A u \in Threads : u # NoThread
  BY EvalAssumption DEF EvalInv, TypeOK
<1>1. /\ writer = NoThread /\ vtab = tab /\ tab' = Aged(tab, o) /\ vtab' = tab'
      /\ disk' = Aged(disk, o) /\ unread' = unread \cup PathsOf({o})
      /\ UNCHANGED <<writer, touch, pc, call, stored>>
  BY DEF Age, EvalInv, BatchInv, LmdbFree
<1>2. /\ tab'.objs = tab.objs /\ tab'.recs = tab.recs /\ tab'.roots = tab.roots
      /\ tab'.evicted = tab.evicted /\ tab'.old \subseteq tab.old \cup {o}
      /\ disk'.objs = disk.objs /\ disk'.recs = disk.recs /\ disk'.roots = disk.roots
      /\ disk'.evicted = disk.evicted
  BY <1>0, <1>1, TableFacts
<1>3. StoredInv'
  BY <1>1, <1>2 DEF EvalInv, StoredInv, Kept, Valid
<1>4. ReadInv'
  BY <1>0, <1>1, <1>2 DEF EvalInv, ReadInv, PathsOf
<1>5. BatchInv' /\ FreshInv'
  BY <1>0, <1>1 DEF EvalInv, BatchInv, FreshInv
<1> QED BY <1>3, <1>4, <1>5

LEMMA PassKeeps ==
  ASSUME EvalInv, Pass
  PROVE  (BatchInv /\ FreshInv /\ StoredInv /\ ReadInv)'
<1>0. tab \in Tables /\ \A u \in Threads : u # NoThread
  BY EvalAssumption DEF EvalInv, TypeOK
<1>1. /\ writer = NoThread /\ vtab' = tab' /\ disk' = tab' /\ stored' = stored \cap Valid(tab')
      /\ UNCHANGED <<writer, touch, pc, call, unread>>
  BY DEF Pass
<1>2. /\ tab'.objs \subseteq tab'.roots /\ tab'.old = {}
  BY <1>0 DEF Pass, Tables
<1>3. StoredInv'
  BY <1>1, <1>2 DEF StoredInv, Kept, Valid, PathsOf
<1>4. BatchInv' /\ FreshInv' /\ ReadInv'
  BY <1>0, <1>1, <1>2 DEF EvalInv, BatchInv, FreshInv, ReadInv
<1> QED BY <1>3, <1>4

LEMMA PassDiesKeeps ==
  ASSUME EvalInv, NEW S \in SUBSET Objects, PassDies(S)
  PROVE  (BatchInv /\ FreshInv /\ StoredInv /\ ReadInv)'
<1>0. tab \in Tables /\ stored \subseteq Paths /\ \A u \in Threads : u # NoThread
  BY EvalAssumption DEF EvalInv, TypeOK
<1>1. /\ LmdbFree /\ vtab = tab /\ S \subseteq tab.old /\ vtab' = tab'
      /\ UNCHANGED <<disk, writer, touch, pc, call, unread, stored>>
  BY DEF PassDies, EvalInv, BatchInv, history
<1>2. /\ tab'.objs = tab.objs /\ tab'.recs = tab.recs /\ tab'.roots = tab.roots \ S
      /\ tab'.old = tab.old \ S
      /\ tab'.evicted = tab.evicted \cup (PathsOf(S) \cap Valid(tab))
  BY <1>0 DEF PassDies, Tables
<1>3. \A p \in stored : Kept(p, tab')
  BY <1>0, <1>2 DEF EvalInv, StoredInv, Kept, Valid, PathsOf
<1>4. StoredInv'
  BY <1>1, <1>3 DEF EvalInv, StoredInv, Kept, Valid
<1>5. ReadInv' /\ BatchInv'
  BY <1>1, <1>2 DEF EvalInv, ReadInv, BatchInv
<1>6. \A u \in Threads : Obj(u)' = Obj(u) /\ (writer = u => pc[u] = "flush")
  BY <1>0, <1>1 DEF LmdbFree, Obj
<1>7. FreshInv'
  BY <1>1, <1>2, <1>6 DEF EvalInv, FreshInv
<1> QED BY <1>4, <1>5, <1>7

LEMMA KillKeeps ==
  ASSUME EvalInv, NEW q \in Procs, Kill(q)
  PROVE  (BatchInv /\ FreshInv /\ StoredInv /\ ReadInv)'
<1> DEFINE mine == {t \in Threads : ProcOf[t] = q}
<1>0. /\ touch \in [Procs -> SUBSET Objects] /\ stored \subseteq Paths
      /\ writer \in Threads \cup {NoThread} /\ \A u \in Threads : u # NoThread
  BY EvalAssumption DEF EvalInv, TypeOK
<1>1. /\ writer' = IF writer \in mine THEN NoThread ELSE writer
      /\ vtab' = IF writer \in mine THEN tab ELSE vtab
      /\ touch' = [touch EXCEPT ![q] = {}]
      /\ pc' = [t \in Threads |-> IF t \in mine THEN "idle" ELSE pc[t]]
      /\ call' = [t \in Threads |-> IF t \in mine THEN NoCall ELSE call[t]]
      /\ unread' = unread \cup PathsOf(touch[q] \cup (IF writer \in mine THEN tab.old ELSE {}))
      /\ UNCHANGED <<tab, disk, stored>>
  BY DEF Kill
<1>2. StoredInv'
  BY <1>1 DEF EvalInv, StoredInv, Kept, Valid
<1>3. BatchInv'
  <2>1. CASE writer \in mine
    BY <1>1, <2>1 DEF BatchInv
  <2>2. CASE writer \notin mine
    <3>1. LmdbFree' => LmdbFree
      BY <1>0, <1>1, <2>2 DEF LmdbFree
    <3> QED BY <1>1, <2>2, <3>1 DEF EvalInv, BatchInv
  <2> QED BY <2>1, <2>2
<1>4. ASSUME NEW u \in Threads
      PROVE  /\ pc'[u] = "flush" => writer' = u /\ Obj(u)' \in tab'.roots \ tab'.old
             /\ writer' = u /\ pc'[u] \in {"record", "sync"} => Obj(u)' \in vtab'.roots \ vtab'.old
             /\ writer' = u /\ pc'[u] = "drop" => Obj(u)' \notin vtab'.objs
  <2>1. CASE u \in mine
    BY <1>1, <2>1
  <2>2. CASE u \notin mine
    <3>1. pc'[u] = pc[u] /\ Obj(u)' = Obj(u)
      BY <1>1, <2>2 DEF Obj
    <3>2. writer' = u <=> writer = u
      BY <1>0, <1>1, <2>2
    <3>3. writer = u => vtab' = vtab
      BY <1>1, <2>2
    <3> QED BY <1>1, <3>1, <3>2, <3>3 DEF EvalInv, FreshInv
  <2> QED BY <2>1, <2>2
<1>5. FreshInv'
  BY <1>4 DEF FreshInv, Obj
<1>6. ReadInv'
  <2> SUFFICES ASSUME NEW p \in stored, Object[p] \in vtab'.old, p \notin unread'
               PROVE  \E r \in Procs : Object[p] \in touch'[r]
    BY <1>1 DEF ReadInv
  <2>1. p \in Paths /\ writer \notin mine /\ vtab' = vtab /\ Object[p] \notin touch[q] /\ p \notin unread
    BY <1>0, <1>1 DEF PathsOf
  <2>2. PICK r \in Procs : Object[p] \in touch[r]
    BY <2>1 DEF EvalInv, ReadInv
  <2>3. Object[p] \in touch'[r]
    BY <1>0, <1>1, <2>1, <2>2
  <2> QED BY <2>3
<1> QED BY <1>2, <1>3, <1>5, <1>6

LEMMA PowerKeeps ==
  ASSUME EvalInv, PowerLoss
  PROVE  (BatchInv /\ FreshInv /\ StoredInv /\ ReadInv)'
<1>0. stored \subseteq Paths /\ \A u \in Threads : u # NoThread
  BY EvalAssumption DEF EvalInv, TypeOK
<1>1. /\ tab' \in {tab, disk} /\ vtab' = tab' /\ disk' = tab' /\ writer' = NoThread
      /\ \A u \in Threads : pc'[u] = "idle"
      /\ unread' = unread \cup PathsOf(tab'.old) /\ stored' \subseteq stored
  BY DEF PowerLoss
<1>2. StoredInv'
  BY <1>1 DEF EvalInv, StoredInv, Kept, Valid
<1>3. BatchInv' /\ FreshInv' /\ ReadInv'
  BY <1>0, <1>1 DEF BatchInv, FreshInv, ReadInv, PathsOf
<1> QED BY <1>2, <1>3

-----------------------------------------------------------------------------
LEMMA EvalInit == Init => EvalInv
BY EvalAssumption DEF Init, EvalInv, TypeOK, Tables, Empty, NoCall, Pcs, BatchInv, FreshInv, StoredInv,
   ReadInv

LEMMA EvalStep ==
  ASSUME EvalInv, [Next]_vars
  PROVE  EvalInv'
<1> DEFINE Keeps == (BatchInv /\ FreshInv /\ StoredInv /\ ReadInv)'
<1>1. TypeOK'
  BY NextType DEF EvalInv
<1>2. ASSUME NEW t \in Threads,
             Step(t) \/ StoreFails(t) \/ \E p \in Paths, op \in {"query", "add"} : Call(t, p, op)
      PROVE  Keeps
  BY <1>2, LookKeeps, TouchKeeps, DropKeeps, PutKeeps, RegisterKeeps, RecordKeeps, CommitKeeps,
     FlushKeeps DEF Step
<1>3. ASSUME UNCHANGED vars PROVE Keeps
  <2>1. UNCHANGED <<tab, vtab, disk, writer, touch, pc, call, unread, stored>>
    BY <1>3 DEF vars, lmdb, history
  <2> QED BY <2>1 DEF EvalInv, BatchInv, LmdbFree, FreshInv, Obj, StoredInv, Kept, Valid, ReadInv
<1> QED BY <1>1, <1>2, <1>3, AgeKeeps, PassKeeps, PassDiesKeeps, KillKeeps, PowerKeeps
        DEF Next, EvalInv

(* Every variable has its type, whatever the faults.                       *)
THEOREM TypeCorrect == Spec => []TypeOK
<1>1. EvalInv => TypeOK
  BY DEF EvalInv
<1> QED BY <1>1, EvalInit, EvalStep, PTL DEF Spec

(* A path that was stored has a root, or its root was evicted by a pass    *)
(* that died: no failed, killed or partly committed store of the same      *)
(* object takes it away.                                                   *)
THEOREM RecordsAreRooted == Spec => []RecordsRooted
<1>1. EvalInv => RecordsRooted
  BY DEF EvalInv, StoredInv, Kept, RecordsRooted
<1> QED BY <1>1, EvalInit, EvalStep, PTL DEF Spec

(* Only a pass and a late deletion take a path that was stored away.       *)
LEMMA LossStep ==
  ASSUME EvalInv, [Next]_vars, NEW p \in stored \ Valid(tab')
  PROVE  \/ p \in unread \cup tab.evicted
         \/ \E q \in Procs : Object[p] \in touch[q]
         \/ DroppedLate(p)
<1>0. EvalInv' /\ p \in Paths /\ Kept(p, tab) /\ Kept(p, vtab) /\ Kept(p, disk)
  BY EvalStep DEF EvalInv, StoredInv, TypeOK
<1>1. p \notin stored'
  BY <1>0 DEF EvalInv, StoredInv, Kept
<1>2. CASE Pass
  <2>1. writer = NoThread /\ vtab = tab /\ tab \in Tables
    BY <1>2 DEF Pass, EvalInv, BatchInv, LmdbFree, TypeOK
  <2>2. /\ tab'.objs = tab.objs \cap (tab.roots \ tab.old) /\ tab'.recs = tab.recs
    BY <1>2, <2>1 DEF Pass, Tables
  <2>3. Object[p] \notin tab.roots \ tab.old
    BY <1>0, <2>2 DEF Kept, Valid, PathsOf
  <2> QED BY <1>0, <2>1, <2>3 DEF EvalInv, ReadInv, Kept
<1>3. ASSUME NEW t \in Threads, Drop(t) PROVE DroppedLate(p)
  <2>1. p = Path(t)
    <3> SUFFICES ASSUME p # Path(t) PROVE FALSE
      OBVIOUS
    <3>1. PICK R, new : /\ R = View(t).recs \ {Path(t)} /\ new = [View(t) EXCEPT !.recs = R]
                        /\ Write(t, new)
      BY <1>3 DEF Drop
    <3>2. View(t) = vtab /\ (tab' = tab \/ tab' = new) /\ vtab \in Tables /\ vtab.recs \subseteq Paths
      BY <3>1, WriteFacts DEF EvalInv, TypeOK, Tables
    <3>3. new.objs = vtab.objs /\ new.recs = vtab.recs \ {Path(t)}
      BY <3>1, <3>2, TableFacts
    <3>4. p \in Valid(tab')
      BY <1>0, <3>2, <3>3 DEF Kept, Valid
    <3> QED BY <3>4
  <2>2. pc[t] = "drop" /\ pc'[t] # "drop"
    BY <1>3, GotoFacts DEF Drop, Miss, EvalInv
  <2> QED BY <2>1, <2>2 DEF DroppedLate
<1>4. CASE PowerLoss
  BY <1>0, <1>4 DEF PowerLoss, Kept
<1>5. ASSUME NEW t \in Threads, Flush(t) PROVE FALSE
  BY <1>0, <1>5 DEF Flush, Kept
<1>6. ASSUME NEW t \in Threads, Step(t) \/ StoreFails(t), ~Drop(t), ~Flush(t) PROVE FALSE
  BY <1>1, <1>6 DEF Step, Look, Check, Touch, Lock, Put, PutBulk, PutRefused, StoreFails, Throws,
       Register, Record, Commit, history
<1>7. ASSUME NEW t \in Threads, NEW r \in Paths, NEW op \in {"query", "add"}, Call(t, r, op)
      PROVE  FALSE
  BY <1>1, <1>7 DEF Call, history
<1>8. ASSUME \/ \E o \in Objects : Age(o)
             \/ \E S \in SUBSET Objects : PassDies(S)
             \/ \E q \in Procs : Kill(q)
             \/ UNCHANGED vars
      PROVE  FALSE
  BY <1>1, <1>8 DEF Age, PassDies, Kill, vars, history
<1> QED BY <1>2, <1>3, <1>4, <1>5, <1>6, <1>7, <1>8 DEF Next

(* A path that was stored stays valid, but for the ways out that           *)
(* RecordsKept names.                                                      *)
THEOREM RecordsAreKept == Spec => RecordsKept
<1>1. EvalInv /\ [Next]_vars =>
        \A p \in stored \ Valid(tab') :
          \/ p \in unread \cup tab.evicted
          \/ \E q \in Procs : Object[p] \in touch[q]
          \/ DroppedLate(p)
  BY LossStep
<1> QED BY <1>1, EvalInit, EvalStep, PTL DEF Spec, RecordsKept
=============================================================================
