----------------------------- MODULE EvalStore -----------------------------
(***************************************************************************)
(* The eval store of src/plugin/store.cc: records of store paths and of    *)
(* derivations in the meta table, each naming an object of the TreeStore.  *)
(* A query reads the record, then looks for the object, then touches its   *)
(* root, in steps of their own and with no lock; a record whose object is  *)
(* gone is deleted.  A store ingests the object, registers its root and    *)
(* writes the record, all in one batch, under the mutex of the process.    *)
(*                                                                         *)
(* Abstractions.  An object stands for all the blobs of a file system      *)
(* object; records of paths (pathRecord) and of derivations (drvText) go   *)
(* through the same steps.  A root is old once it has not been used for    *)
(* the TTL.  A pass of the collector is one step here (see TreeGc), or one *)
(* that evicts roots and dies.                                             *)
(***************************************************************************)
EXTENDS Naturals, FiniteSets

CONSTANTS
  Threads, NoThread,
  ProcOf,      \* ProcOf[t]: the process of thread t
  Paths,       \* store paths
  Object,      \* Object[p]: what is to be stored at p
  MaxCalls,    \* bound: calls made altogether
  Faults        \* what the environment may do, see AllFaults

(***************************************************************************)
(* "fail"  a store throws and leaves its batch open                        *)
(* "kill"  a process dies                                                  *)
(* "power" the machine loses power                                         *)
(***************************************************************************)
AllFaults == {"fail", "kill", "power"}

Procs   == {ProcOf[t] : t \in Threads}
Objects == {Object[p] : p \in Paths}

ASSUME EvalAssumption ==
  /\ NoThread \notin Threads
  /\ DOMAIN ProcOf = Threads /\ DOMAIN Object = Paths /\ Paths # {}
  /\ MaxCalls \in Nat /\ Faults \subseteq AllFaults

VARIABLES
  tab,      \* the committed LMDB state
  vtab,     \* what the open write transaction makes of it, else the same
  disk,     \* the state the last mdb_env_sync put on disk
  writer,   \* the thread whose batch is open or being flushed
  mutex,    \* Ctx::mutex of each process
  touch,    \* pending_touch_ of each process
  pc, call, \* where each thread is, and what it was called for
  calls,    \* how many calls were made
  unread,   \* history: paths nobody has read since their root became old
  stored    \* history: paths a store has flushed, and valid since

lmdb    == <<tab, vtab, disk, writer>>
history == <<unread, stored>>
vars    == <<lmdb, mutex, touch, pc, call, calls, history>>

(* objs: stored objects; recs: paths with a record; roots: registered      *)
(* roots, of which a pass would evict those in old; evicted: valid paths   *)
(* whose root was evicted by a pass that died before it swept.             *)
Tables == [objs : SUBSET Objects, recs : SUBSET Paths, roots : SUBSET Objects,
           old : SUBSET Objects, evicted : SUBSET Paths]
Empty  == [objs |-> {}, recs |-> {}, roots |-> {}, old |-> {}, evicted |-> {}]

StorePcs == {"put", "register", "record", "sync", "flush"}
Pcs      == StorePcs \cup {"idle", "look", "check", "touch", "drop", "lock"}

TypeOK ==
  /\ tab \in Tables /\ vtab \in Tables /\ disk \in Tables
  /\ writer \in Threads \cup {NoThread}
  /\ mutex \in [Procs -> Threads \cup {NoThread}]
  /\ touch \in [Procs -> SUBSET Objects]
  /\ pc \in [Threads -> Pcs]
  /\ call \in [Threads -> [path : Paths, op : {"query", "add"}]]
  /\ calls \in 0 .. MaxCalls
  /\ unread \subseteq Paths /\ stored \subseteq Paths

NoCall == [path |-> CHOOSE p \in Paths : TRUE, op |-> "query"]

Init ==
  /\ tab = Empty /\ vtab = Empty /\ disk = Empty /\ writer = NoThread
  /\ mutex = [q \in Procs |-> NoThread] /\ touch = [q \in Procs |-> {}]
  /\ pc = [t \in Threads |-> "idle"] /\ call = [t \in Threads |-> NoCall]
  /\ calls = 0
  /\ unread = {} /\ stored = {}

PathsOf(S) == {p \in Paths : Object[p] \in S}
Valid(T)   == T.recs \cap PathsOf(T.objs)   \* what can be read

Goto(t, l) ==
  /\ pc' = [pc EXCEPT ![t] = l]
  /\ call' = IF l = "idle" THEN [call EXCEPT ![t] = NoCall] ELSE call
Path(t)    == call[t].path
Obj(t)     == Object[call[t].path]

-----------------------------------------------------------------------------
(* A thread sees its own batch, every other one what is committed.         *)
Batch(t) == writer = t /\ pc[t] # "flush"
View(t)  == IF Batch(t) THEN vtab ELSE tab

(* meta_put and meta_del: in the batch of t, or in a transaction of their  *)
(* own, which waits for the LMDB writer.                                   *)
LmdbFree == writer # NoThread => pc[writer] = "flush"
Write(t, new) ==
  /\ \/ Batch(t) /\ vtab' = new /\ tab' = tab
     \/ LmdbFree /\ tab' = new /\ vtab' = new
  /\ UNCHANGED <<disk, writer>>

(* What registerRoot, or the flush of a touch, makes of a table.           *)
Rooted(T, S) ==
  [T EXCEPT !.roots = @ \cup S, !.old = @ \ S, !.evicted = @ \ PathsOf(S)]

-----------------------------------------------------------------------------
(* isValidPath, queryPathInfo, readDerivation, an accessor ("query");      *)
(* addToStore, addToStoreFromDump, writeDerivation ("add").                *)
Call(t, p, op) ==
  /\ pc[t] = "idle" /\ calls < MaxCalls
  /\ call' = [call EXCEPT ![t] = [path |-> p, op |-> op]]
  /\ calls' = calls + 1
  /\ pc' = [pc EXCEPT ![t] = "look"]
  /\ UNCHANGED <<lmdb, mutex, touch, history>>

(* There is no record: a query ends, a store goes on.                      *)
Miss(t) == Goto(t, IF call[t].op = "add" THEN "lock" ELSE "idle")

(* metaGet.                                                                *)
Look(t) ==
  /\ pc[t] = "look"
  /\ IF Path(t) \in View(t).recs THEN Goto(t, "check") ELSE Miss(t)
  /\ UNCHANGED <<lmdb, mutex, touch, calls, history>>

(* has(), or get() of a derivation.                                        *)
Check(t) ==
  /\ pc[t] = "check"
  /\ Goto(t, IF Obj(t) \in View(t).objs THEN "touch" ELSE "drop")
  /\ UNCHANGED <<lmdb, mutex, touch, calls, history>>

(* Mutant: the root of a file is touched as that of a tree, which is none. *)
TouchOtherKey(t) ==
  /\ pc[t] = "touch"
  /\ unread' = unread \ {Path(t)}
  /\ Goto(t, "idle")
  /\ UNCHANGED <<lmdb, mutex, touch, calls, stored>>

(* touchRoot: only a root that is registered, and old, is touched.         *)
Touch(t) ==
  /\ pc[t] = "touch"
  /\ touch' = IF Obj(t) \in View(t).old
                THEN [touch EXCEPT ![ProcOf[t]] = @ \cup {Obj(t)}] ELSE touch
  /\ unread' = unread \ {Path(t)}
  /\ Goto(t, "idle")
  /\ UNCHANGED <<lmdb, mutex, calls, stored>>

(* meta_del.                                                               *)
Drop(t) ==
  /\ pc[t] = "drop"
  /\ Write(t, [View(t) EXCEPT !.recs = @ \ {Path(t)}])
  /\ stored' = stored \cap Valid(tab')
  /\ Miss(t)
  /\ UNCHANGED <<mutex, touch, calls, unread>>

-----------------------------------------------------------------------------
Lock(t) ==
  /\ pc[t] = "lock" /\ mutex[ProcOf[t]] = NoThread
  /\ mutex' = [mutex EXCEPT ![ProcOf[t]] = t]
  /\ Goto(t, "put")
  /\ UNCHANGED <<lmdb, touch, calls, history>>

(* ingest: the first put() opens the batch.                                *)
Put(t) ==
  /\ pc[t] = "put" /\ writer \in {NoThread, t}
  /\ writer' = t
  /\ vtab' = [vtab EXCEPT !.objs = @ \cup {Obj(t)}]
  /\ Goto(t, "register")
  /\ UNCHANGED <<tab, disk, mutex, touch, calls, history>>

(* ... and the put() that fills it commits it.                             *)
PutBulk(t) ==
  /\ pc[t] = "put" /\ writer \in {NoThread, t}
  /\ tab' = [vtab EXCEPT !.objs = @ \cup {Obj(t)}]
  /\ vtab' = tab' /\ disk' = tab' /\ writer' = NoThread
  /\ Goto(t, "register")
  /\ UNCHANGED <<mutex, touch, calls, history>>

(* Mutant: an object that was there before needs no root.                  *)
RegisterIfNew(t) ==
  /\ pc[t] = "register"
  /\ Write(t, IF Obj(t) \in tab.objs THEN View(t) ELSE Rooted(View(t), {Obj(t)}))
  /\ Goto(t, "record")
  /\ UNCHANGED <<mutex, touch, calls, history>>

(* Mutant: the root is registered under the name of the path.              *)
RegisterPath(t) ==
  /\ pc[t] = "register"
  /\ Write(t, Rooted(View(t), {Path(t)}))
  /\ Goto(t, "record")
  /\ UNCHANGED <<mutex, touch, calls, history>>

Register(t) ==
  /\ pc[t] = "register"
  /\ Write(t, Rooted(View(t), {Obj(t)}))
  /\ Goto(t, "record")
  /\ UNCHANGED <<mutex, touch, calls, history>>

Record(t) ==
  /\ pc[t] = "record"
  /\ Write(t, [View(t) EXCEPT !.recs = @ \cup {Path(t)}])
  /\ Goto(t, "sync")
  /\ UNCHANGED <<mutex, touch, calls, history>>

Unlock(t) == mutex' = [mutex EXCEPT ![ProcOf[t]] = NoThread]

(* sync(): the pending touches, then the commit.  A batch that put() has   *)
(* committed is no longer open, and nothing is flushed ...                 *)
Commit(t) ==
  LET new == Rooted(View(t), touch[ProcOf[t]]) IN
  /\ pc[t] = "sync"
  /\ touch' = [touch EXCEPT ![ProcOf[t]] = {}]
  /\ unread' = IF Obj(t) \in new.old THEN unread ELSE unread \ {Path(t)}
  /\ \/ /\ Batch(t)
        /\ tab' = new /\ vtab' = new
        /\ Goto(t, "flush")
        /\ UNCHANGED <<disk, writer, mutex>>
     \/ /\ ~Batch(t)
        /\ Write(t, new)
        /\ Unlock(t) /\ Goto(t, "idle")
  /\ UNCHANGED <<calls, stored>>

(* ... and the mdb_env_sync.                                               *)
Flush(t) ==
  /\ pc[t] = "flush"
  /\ disk' = tab /\ writer' = NoThread
  /\ Unlock(t) /\ Goto(t, "idle")
  /\ stored' = (stored \cup {Path(t)}) \cap Valid(tab)
  /\ UNCHANGED <<tab, vtab, touch, calls, unread>>

Throws(t) ==
  /\ Unlock(t) /\ Goto(t, "idle")
  /\ UNCHANGED <<lmdb, touch, calls, history>>

(* Mutant: the mutex is not released by an exception.                      *)
StoreFailsLocked(t) ==
  /\ "fail" \in Faults
  /\ pc[t] \in {"put", "register", "record", "sync"}
  /\ Goto(t, "idle")
  /\ UNCHANGED <<lmdb, mutex, touch, calls, history>>

(* A step of a store throws; its batch stays open.                         *)
StoreFails(t) ==
  /\ "fail" \in Faults
  /\ pc[t] \in {"put", "register", "record", "sync"}
  /\ Throws(t)

(* put() finds the batch of another thread of its process open, or has     *)
(* waited ten minutes for the lock that another process holds.             *)
PutRefused(t) ==
  /\ pc[t] = "put" /\ writer \notin {NoThread, t}
  /\ Throws(t)

-----------------------------------------------------------------------------
(* The TTL, far longer than a store takes, passes without a use of o.      *)
Aged(T, o) == IF o \in T.roots THEN [T EXCEPT !.old = @ \cup {o}] ELSE T
Age(o) ==
  /\ writer = NoThread /\ o \in tab.roots \ tab.old
  /\ \A q \in Procs : o \notin touch[q]
  /\ \A t \in Threads : pc[t] \in StorePcs => Obj(t) # o
  /\ tab' = Aged(tab, o) /\ vtab' = tab' /\ disk' = Aged(disk, o)
  /\ unread' = unread \cup PathsOf({o})
  /\ UNCHANGED <<writer, mutex, touch, pc, call, calls, stored>>

(* A pass: it drops the old roots and every object without a root.         *)
Pass ==
  /\ writer = NoThread /\ tab.old # {}
  /\ LET live == tab.roots \ tab.old IN
       tab' = [tab EXCEPT !.roots = live, !.old = {}, !.evicted = {}, !.objs = @ \cap live]
  /\ vtab' = tab' /\ disk' = tab'
  /\ stored' = stored \cap Valid(tab')
  /\ UNCHANGED <<writer, mutex, touch, pc, call, calls, unread>>

(* ... or one that ends, by whatever failure, before it sweeps.            *)
PassDies(S) ==
  /\ LmdbFree /\ S # {} /\ S \subseteq tab.old
  /\ tab' = [tab EXCEPT !.roots = @ \ S, !.old = @ \ S, 
                                 !.evicted = @ \cup (PathsOf(S) \cap Valid(tab))]
  /\ vtab' = tab'
  /\ UNCHANGED <<disk, writer, mutex, touch, pc, call, calls, history>>

(* History forgets the reads that were not written.                        *)
Kill(q) ==
  LET mine == {t \in Threads : ProcOf[t] = q} IN
  /\ "kill" \in Faults /\ \E t \in mine : pc[t] # "idle" \/ writer = t
  /\ writer' = IF writer \in mine THEN NoThread ELSE writer
  /\ vtab' = IF writer \in mine THEN tab ELSE vtab
  /\ mutex' = [mutex EXCEPT ![q] = NoThread]
  /\ touch' = [touch EXCEPT ![q] = {}]
  /\ pc' = [t \in Threads |-> IF t \in mine THEN "idle" ELSE pc[t]]
  /\ call' = [t \in Threads |-> IF t \in mine THEN NoCall ELSE call[t]]
  /\ unread' = unread \cup PathsOf(touch[q] \cup (IF writer \in mine THEN tab.old ELSE {}))
  /\ UNCHANGED <<tab, disk, calls, stored>>

PowerLoss ==
  /\ "power" \in Faults
  /\ \E t \in Threads : pc[t] # "idle"
  /\ tab' \in {tab, disk} /\ vtab' = tab' /\ disk' = tab'
  /\ writer' = NoThread
  /\ mutex' = [q \in Procs |-> NoThread] /\ touch' = [q \in Procs |-> {}]
  /\ pc' = [t \in Threads |-> "idle"] /\ call' = [t \in Threads |-> NoCall]
  /\ unread' = unread \cup PathsOf(tab'.old)
  /\ stored' = stored \cap Valid(tab')
  /\ UNCHANGED calls

-----------------------------------------------------------------------------
Step(t) ==
  \/ Look(t) \/ Check(t) \/ Touch(t) \/ Drop(t) \/ Lock(t)
  \/ Put(t) \/ PutBulk(t) \/ PutRefused(t) \/ Register(t) \/ Record(t)
  \/ Commit(t) \/ Flush(t)

Next ==
  \/ \E t \in Threads :
       Step(t) \/ StoreFails(t) \/ \E p \in Paths, op \in {"query", "add"} : Call(t, p, op)
  \/ \E o \in Objects : Age(o)
  \/ Pass \/ \E S \in SUBSET Objects : PassDies(S)
  \/ \E q \in Procs : Kill(q)
  \/ PowerLoss

Spec == Init /\ [][Next]_vars
FairSpec == Spec /\ \A t \in Threads : WF_vars(Step(t))

-----------------------------------------------------------------------------
(* A path that was stored has a root, unless a pass has evicted that root  *)
(* and died: whatever stores of the same contents fail, are killed, or are *)
(* committed in parts before and after.                                    *)
RecordsRooted == \A p \in stored : Object[p] \in tab.roots \/ p \in tab.evicted

(* README.md: "Eval records survive as long as something reads them."      *)
(* A path that was stored stays valid, even when the power is lost, but    *)
(* for these: nobody has read it since its root became old; it was read,   *)
(* but the touch is still pending in a process, or found no root, which a  *)
(* pass that died had evicted; a thread that found its object missing      *)
(* deletes the record after somebody has stored it again.                  *)
DroppedLate(p) == \E t \in Threads : Path(t) = p /\ pc[t] = "drop" /\ pc'[t] # "drop"
RecordsKept ==
  [][\A p \in stored \ Valid(tab') :
       \/ p \in unread \cup tab.evicted
       \/ \E q \in Procs : Object[p] \in touch[q]
       \/ DroppedLate(p)]_vars

(* Every call returns, with an answer or an error, unless a store that     *)
(* failed has left its batch open, which only its own thread can end.      *)
Abandoned == writer # NoThread /\ pc[writer] = "idle"
EveryCallReturns == \A t \in Threads : pc[t] # "idle" ~> pc[t] = "idle" \/ Abandoned
=============================================================================
