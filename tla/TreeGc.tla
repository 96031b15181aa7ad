------------------------------- MODULE TreeGc -------------------------------
(***************************************************************************)
(* TreeStore of src/src/tree.cpp: trees and files kept as blobs of a pack  *)
(* CAS, the roots registered in its meta table with the time of their last *)
(* use, and the collector, maybeGc(), that drops the roots unused for a    *)
(* while and every object that no other root reaches.                      *)
(*                                                                         *)
(* The pack CAS is the BlobStore that PackCas implements; the meta table   *)
(* is part of the same LMDB transactions.  Each process has one thread     *)
(* that writes (the plugin's Ctx::mutex) and threads that only touch.      *)
(*                                                                         *)
(* Abstractions.  An object stands for its content and hash; a tree has a  *)
(* set of children, whose order in the tree is not fixed.  Time is a       *)
(* counter, and a difference of time stamps wraps at Word, as it does at   *)
(* 2^64 in the code.  Stamp 0 means that there is no record.               *)
(***************************************************************************)
EXTENDS Naturals, Sequences, FiniteSets

CONSTANTS
  Procs, NoProc,
  Objects,        \* contents of files and trees, each identified with its hash
  Trees,          \* ... those that are trees
  Children,       \* Children[t]: the objects tree t names
  Jobs,           \* keys of the roots that processes ingest and use
  Ttl, GcInterval, TouchInterval,
  Word,           \* 2^64: the modulus of time stamps
  MaxTime,        \* bound: the last clock value
  Races           \* what the environment may do, see AllRaces

(***************************************************************************)
(* "gcInBatch"   a pass begins while another process has a batch open      *)
(* "ingestInGc"  an ingest begins while another process is in a pass       *)
(* "twoGcs"      two processes are in a pass at the same time              *)
(* "bulk"        a pass falls between two batches of an ingest of another  *)
(*               process, one that has filled kAutoSyncBytes               *)
(* "held"        touches are pending when a pass begins in another process *)
(*               or come in while a pass is under way                      *)
(* "slow"        time passes while touches are pending                     *)
(* "rot"         an object becomes unreadable                              *)
(* "fail"        an ingest throws, and leaves its batch open               *)
(* "kill"        a process dies                                            *)
(***************************************************************************)
AllRaces == {"gcInBatch", "ingestInGc", "twoGcs", "bulk", "held", "slow", "rot",
             "fail", "kill"}

LastGc    == <<"lastgc">>
RootKeys  == {<<"R", t>> : t \in Trees}
BlobKeys  == {<<"B", o>> : o \in Objects}
Keys      == RootKeys \cup BlobKeys \cup {LastGc}
KeysOf(kind) == IF kind = "R" THEN RootKeys ELSE BlobKeys

ASSUME GcAssumption ==
  /\ NoProc \notin Procs
  /\ IsFiniteSet(Objects)
  /\ Trees \subseteq Objects /\ Children \in [Trees -> SUBSET Objects]
  /\ Jobs \subseteq RootKeys \cup BlobKeys
  /\ \A k \in Jobs \cap BlobKeys : k[2] \notin Trees
  /\ Ttl \in Nat /\ GcInterval \in Nat /\ TouchInterval \in Nat
  /\ MaxTime \in Nat \ {0} /\ Word \in Nat /\ Word > MaxTime
  /\ Races \subseteq AllRaces

(* What a root keeps alive: everything that can be reached from it.        *)
Closed(S) == \A t \in S \cap Trees : Children[t] \subseteq S
Reach(o)  == {x \in Objects : \A S \in SUBSET Objects : o \in S /\ Closed(S) => x \in S}
Needs(k)  == IF k[1] = "R" THEN Reach(k[2]) ELSE {k[2]}

VARIABLES
  stored, writer, view,  \* the pack CAS, see BlobStore
  meta,     \* the committed meta table: the stamp of each key
  vmeta,    \* what the open write transaction makes of it
  rotten,   \* objects whose bytes can no longer be read
  clock,
  pc,       \* where the writing thread of each process is
  job,      \* root it ingests
  done,     \* objects of that root it has put
  touch,    \* pending_touch_: the stamp to write for each key
  flush,    \* the touches that flush_touches() has still to write
  gc,       \* the locals of maybeGc()
  used      \* history: when each key was last registered or touched

cas    == <<stored, writer, view>>
tables == <<meta, vmeta>>
ingest == <<job, done>>
touches == <<touch, flush, used>>
vars   == <<cas, tables, rotten, clock, pc, ingest, touches, gc>>

NoStamps == [k \in Keys |-> 0]
NoJob    == LastGc
NoGc     == [now |-> 0, kinds |-> {}, any |-> FALSE, expired |-> {}, todo |-> {},
             live |-> {}, stack |-> <<>>, at |-> NoJob, broken |-> {}]

Cas == INSTANCE BlobStore WITH
  Blobs <- Objects, NoBlob <- NoJob, safe <- {}, asked <- [p \in Procs |-> NoJob]

IngestPcs == {"ingest", "sync", "syncing"}
GcPcs     == {"check", "stamp", "expire", "delete", "mark", "unroot", "blobs",
              "compact", "sweep", "switch"}
Pcs       == IngestPcs \cup GcPcs \cup {"closed", "idle", "gc", "flushing", "close", "closing"}

Stamps == 0 .. MaxTime
GcLocals ==
  [now : Stamps, kinds : SUBSET {"R", "B"}, any : BOOLEAN, expired : SUBSET Keys,
   todo : SUBSET RootKeys, live : SUBSET Objects, stack : Seq(Trees),
   at : RootKeys \cup {NoJob}, broken : SUBSET (RootKeys \cup {NoJob})]

TypeOK ==
  /\ stored \subseteq Objects /\ view \subseteq Objects /\ rotten \subseteq Objects
  /\ writer \in Procs \cup {NoProc}
  /\ meta \in [Keys -> Stamps] /\ vmeta \in [Keys -> Stamps] /\ used \in [Keys -> Stamps]
  /\ clock \in Stamps
  /\ pc \in [Procs -> Pcs]
  /\ job \in [Procs -> Jobs \cup {NoJob}] /\ done \in [Procs -> SUBSET Objects]
  /\ touch \in [Procs -> [Keys -> Stamps]] /\ flush \in [Procs -> [Keys -> Stamps]]
  /\ gc \in [Procs -> GcLocals]

Init ==
  /\ stored = {} /\ view = {} /\ writer = NoProc
  /\ meta = NoStamps /\ vmeta = NoStamps /\ used = NoStamps
  /\ rotten = {} /\ clock = 1
  /\ pc = [p \in Procs |-> "closed"]
  /\ job = [p \in Procs |-> NoJob] /\ done = [p \in Procs |-> {}]
  /\ touch = [p \in Procs |-> NoStamps] /\ flush = [p \in Procs |-> NoStamps]
  /\ gc = [p \in Procs |-> NoGc]

Goto(p, l)  == pc' = [pc EXCEPT ![p] = l]
InGc(p)     == pc[p] \in GcPcs
Others(p)   == Procs \ {p}

(* A difference of two uint64_t time stamps.                               *)
Since(now, stamp) == (now + Word - stamp) % Word

-----------------------------------------------------------------------------
(* meta_get, meta_put and meta_del: inside the batch p has open, or else   *)
(* in a transaction of their own, for which the LMDB writer must be free.  *)
Meta(p) == IF writer = p THEN vmeta ELSE meta

MetaSet(p, k, stamp) ==
  \/ /\ writer = p
     /\ vmeta' = [vmeta EXCEPT ![k] = stamp] /\ meta' = meta
  \/ /\ writer = NoProc
     /\ meta' = [meta EXCEPT ![k] = stamp] /\ vmeta' = meta'

(* What commits, or aborts, the transaction of the pack CAS does so to the *)
(* meta table.                                                             *)
Commit(p) == Cas!Publish(p) /\ meta' = vmeta /\ vmeta' = vmeta
Exit(p) ==
  /\ Cas!Exit(p)
  /\ vmeta' = IF writer = p THEN meta ELSE vmeta
  /\ meta' = meta

-----------------------------------------------------------------------------
(* The constructor of Ctx collects.                                        *)
Open(p) ==
  /\ pc[p] = "closed"
  /\ Goto(p, "gc")
  /\ UNCHANGED <<cas, tables, rotten, clock, ingest, touches, gc>>

(* ingest_archive, or storeObject of the eval store.                       *)
StartIngest(p, k) ==
  /\ pc[p] = "idle"
  /\ "ingestInGc" \in Races \/ \A q \in Procs : ~InGc(q)
  /\ job' = [job EXCEPT ![p] = k] /\ done' = [done EXCEPT ![p] = {}]
  /\ Goto(p, "ingest")
  /\ UNCHANGED <<cas, tables, rotten, clock, touches, gc>>

PutBegin(p) ==
  /\ pc[p] = "ingest" /\ ~(Needs(job[p]) \subseteq done[p])
  /\ Cas!Begin(p)
  /\ UNCHANGED <<tables, rotten, clock, pc, ingest, touches, gc>>

(* put(): files as the archive names them, a tree after its children.      *)
Put(p, o) ==
  /\ pc[p] = "ingest" /\ writer = p
  /\ o \in Needs(job[p]) \ done[p]
  /\ o \in Trees => Children[o] \subseteq done[p]
  /\ IF o \in view THEN UNCHANGED cas ELSE Cas!Add(p, o)
  /\ done' = [done EXCEPT ![p] = @ \cup {o}]
  /\ UNCHANGED <<tables, rotten, clock, pc, job, touches, gc>>

(* ... and a batch that has grown large is committed.                      *)
AutoSync(p) ==
  /\ pc[p] = "ingest" /\ done[p] # {}
  /\ "bulk" \in Races \/ \A q \in Others(p) : ~InGc(q)
  /\ Commit(p)
  /\ UNCHANGED <<rotten, clock, pc, ingest, touches, gc>>

(* Anything that throws: the batch stays open.                             *)
IngestFails(p) ==
  /\ "fail" \in Races
  /\ pc[p] = "ingest"
  /\ Goto(p, "idle")
  /\ job' = [job EXCEPT ![p] = NoJob] /\ done' = [done EXCEPT ![p] = {}]
  /\ UNCHANGED <<cas, tables, rotten, clock, touches, gc>>

(* Mutant: registerRoot before flush_tree, so before the root is complete. *)
RegisterEarly(p) ==
  /\ pc[p] = "ingest"
  /\ MetaSet(p, job[p], clock)
  /\ used' = [used EXCEPT ![job[p]] = clock]
  /\ job' = [job EXCEPT ![p] = NoJob] /\ done' = [done EXCEPT ![p] = {}]
  /\ Goto(p, "sync")
  /\ UNCHANGED <<cas, rotten, clock, touch, flush, gc>>

(* Mutant: a root that is already registered keeps its stamp.              *)
RegisterOnce(p) ==
  /\ pc[p] = "ingest" /\ Needs(job[p]) \subseteq done[p]
  /\ MetaSet(p, job[p], IF Meta(p)[job[p]] = 0 THEN clock ELSE Meta(p)[job[p]])
  /\ used' = [used EXCEPT ![job[p]] = clock]
  /\ job' = [job EXCEPT ![p] = NoJob] /\ done' = [done EXCEPT ![p] = {}]
  /\ Goto(p, "sync")
  /\ UNCHANGED <<cas, rotten, clock, touch, flush, gc>>

(* registerRoot, before the sync that commits the batch.                   *)
Register(p) ==
  /\ pc[p] = "ingest" /\ Needs(job[p]) \subseteq done[p]
  /\ MetaSet(p, job[p], clock)
  /\ used' = [used EXCEPT ![job[p]] = clock]
  /\ job' = [job EXCEPT ![p] = NoJob] /\ done' = [done EXCEPT ![p] = {}]
  /\ Goto(p, "sync")
  /\ UNCHANGED <<cas, rotten, clock, touch, flush, gc>>

(* touchRoot, on any thread: deferred, and only if the record is stale.    *)
Touch(p, k) ==
  /\ pc[p] # "closed" /\ meta[k] # 0
  /\ "held" \in Races \/ \A q \in Procs : ~InGc(q)
  /\ used' = [used EXCEPT ![k] = clock]
  /\ touch' = IF Since(clock, meta[k]) < TouchInterval \/ touch[p][k] # 0 THEN touch
              ELSE [touch EXCEPT ![p][k] = clock]
  /\ UNCHANGED <<cas, tables, rotten, clock, pc, ingest, flush, gc>>

(* flush_touches, called by sync, maybeGc and the destructor: takes what   *)
(* is pending, then writes it record by record.                            *)
Flush(p) ==
  /\ \/ pc[p] = "sync"  /\ Goto(p, "syncing")
     \/ pc[p] = "gc"    /\ Goto(p, "flushing")
     \/ pc[p] = "close" /\ Goto(p, "closing")
  /\ flush' = [flush EXCEPT ![p] = touch[p]]
  /\ touch' = [touch EXCEPT ![p] = NoStamps]
  /\ UNCHANGED <<cas, tables, rotten, clock, ingest, used, gc>>

FlushOne(p, k) ==
  /\ flush[p][k] # 0
  /\ MetaSet(p, k, flush[p][k])
  /\ flush' = [flush EXCEPT ![p][k] = 0]
  /\ UNCHANGED <<cas, rotten, clock, pc, ingest, touch, used, gc>>

Flushed(p) == flush[p] = NoStamps

(* sync() commits the batch, if it is still open; an archive is followed   *)
(* by maybeGc(), an object of the eval store is not.                       *)
Sync(p) ==
  /\ pc[p] = "syncing" /\ Flushed(p)
  /\ IF writer = p THEN Commit(p) ELSE UNCHANGED <<cas, tables>>
  /\ \E l \in {"gc", "idle"} : Goto(p, l)
  /\ UNCHANGED <<rotten, clock, ingest, touches, gc>>

-----------------------------------------------------------------------------
SetGc(p, g) == gc' = [gc EXCEPT ![p] = g]

(* What must not be under way elsewhere when a pass begins, unless Races   *)
(* says so.                                                                *)
MayBegin(p) ==
  /\ \A q \in Others(p) :
       \/ pc[q] \in {"closed", "idle"} /\ (writer # q \/ "gcInBatch" \in Races)
       \/ pc[q] \in IngestPcs /\ writer = q /\ "gcInBatch" \in Races
       \/ pc[q] = "ingest" /\ writer # q /\ done[q] # {} /\ "bulk" \in Races
       \/ pc[q] \in GcPcs \cup {"gc", "flushing"} /\ "twoGcs" \in Races
  /\ "held" \in Races \/ \A q \in Procs : touch[q] = NoStamps /\ flush[q] = NoStamps

GcNow(p) ==
  /\ pc[p] = "flushing" /\ Flushed(p)
  /\ MayBegin(p)
  /\ SetGc(p, [NoGc EXCEPT !.now = clock])
  /\ Goto(p, "check")
  /\ UNCHANGED <<cas, tables, rotten, clock, ingest, touches>>

(* Mutant: the time of the last pass is not looked at.                     *)
GcCheckSkipped(p) ==
  /\ pc[p] = "check"
  /\ Goto(p, "stamp")
  /\ UNCHANGED <<cas, tables, rotten, clock, ingest, touches, gc>>

GcCheck(p) ==
  /\ pc[p] = "check"
  /\ IF Meta(p)[LastGc] # 0 /\ Since(gc[p].now, Meta(p)[LastGc]) < GcInterval
       THEN Goto(p, "idle") /\ SetGc(p, NoGc)
       ELSE Goto(p, "stamp") /\ gc' = gc
  /\ UNCHANGED <<cas, tables, rotten, clock, ingest, touches>>

GcStamp(p) ==
  /\ pc[p] = "stamp"
  /\ MetaSet(p, LastGc, gc[p].now)
  /\ SetGc(p, [gc[p] EXCEPT !.kinds = {"R", "B"}])
  /\ Goto(p, "expire")
  /\ UNCHANGED <<cas, rotten, clock, ingest, touches>>

(* expire_roots of the roots of one kind: a scan, ...                      *)
GcExpire(p, kind) ==
  LET old == {k \in KeysOf(kind) :
                Meta(p)[k] # 0 /\ Since(gc[p].now, Meta(p)[k]) >= Ttl} IN
  /\ pc[p] = "expire" /\ kind \in gc[p].kinds
  /\ SetGc(p, [gc[p] EXCEPT !.kinds = @ \ {kind}, !.any = @ \/ old # {}, !.expired = old])
  /\ Goto(p, "delete")
  /\ UNCHANGED <<cas, tables, rotten, clock, ingest, touches>>

(* ... then one deletion after the other.                                  *)
GcDelete(p, k) ==
  /\ pc[p] = "delete" /\ k \in gc[p].expired
  /\ MetaSet(p, k, 0)
  /\ SetGc(p, [gc[p] EXCEPT !.expired = @ \ {k}])
  /\ UNCHANGED <<cas, rotten, clock, pc, ingest, touches>>

(* After both kinds: nothing expired, nothing to collect.  Otherwise the   *)
(* scan of the roots that are left begins.                                 *)
GcExpired(p) ==
  /\ pc[p] = "delete" /\ gc[p].expired = {}
  /\ \/ gc[p].kinds # {} /\ Goto(p, "expire") /\ gc' = gc
     \/ gc[p].kinds = {} /\ ~gc[p].any /\ Goto(p, "idle") /\ SetGc(p, NoGc)
     \/ /\ gc[p].kinds = {} /\ gc[p].any
        /\ SetGc(p, [gc[p] EXCEPT !.todo = {k \in RootKeys : Meta(p)[k] # 0}])
        /\ Goto(p, "mark")
  /\ UNCHANGED <<cas, tables, rotten, clock, ingest, touches>>

(* mark_live of the next root: a root already marked is not walked.        *)
MarkRoot(p, k) ==
  /\ pc[p] = "mark" /\ gc[p].stack = <<>> /\ k \in gc[p].todo
  /\ SetGc(p, [gc[p] EXCEPT !.todo = @ \ {k}, !.at = k, !.live = @ \cup {k[2]},
                            !.stack = IF k[2] \in gc[p].live THEN <<>> ELSE <<k[2]>>])
  /\ UNCHANGED <<cas, tables, rotten, clock, pc, ingest, touches>>

Orderings(S) == {s \in [1 .. Cardinality(S) -> S] : \A x \in S : \E i \in DOMAIN s : s[i] = x}

(* Mutant: only the directories of a tree are marked.                      *)
MarkTreeDirs(p) ==
  LET stack == gc[p].stack
      t     == stack[Len(stack)]
      rest  == SubSeq(stack, 1, Len(stack) - 1)
      new   == (Children[t] \cap Trees) \ gc[p].live IN
  /\ pc[p] = "mark" /\ stack # <<>>
  /\ IF t \in stored \ rotten
       THEN \E s \in Orderings(new) :
              SetGc(p, [gc[p] EXCEPT !.live = @ \cup new, !.stack = rest \o s])
       ELSE SetGc(p, [gc[p] EXCEPT !.broken = @ \cup {gc[p].at}, !.stack = <<>>])
  /\ UNCHANGED <<cas, tables, rotten, clock, pc, ingest, touches>>

(* Mutant: files are stacked too, to be read as trees.                     *)
MarkTreeFiles(p) ==
  LET stack == gc[p].stack
      t     == stack[Len(stack)]
      rest  == SubSeq(stack, 1, Len(stack) - 1)
      new   == Children[t] \ gc[p].live IN
  /\ pc[p] = "mark" /\ stack # <<>>
  /\ IF t \in stored \ rotten
       THEN \E s \in Orderings(new) :
              SetGc(p, [gc[p] EXCEPT !.live = @ \cup new, !.stack = rest \o s])
       ELSE SetGc(p, [gc[p] EXCEPT !.broken = @ \cup {gc[p].at}, !.stack = <<>>])
  /\ UNCHANGED <<cas, tables, rotten, clock, pc, ingest, touches>>

(* It reads the tree on top of the stack, marks its children and stacks    *)
(* those trees that were not marked before.  A tree that cannot be read    *)
(* ends the walk; what was marked stays marked.                            *)
MarkTree(p) ==
  LET stack == gc[p].stack
      t     == stack[Len(stack)]
      rest  == SubSeq(stack, 1, Len(stack) - 1)
      new   == Children[t] \ gc[p].live IN
  /\ pc[p] = "mark" /\ stack # <<>>
  /\ IF t \in stored \ rotten
       THEN \E s \in Orderings(new \cap Trees) :
              SetGc(p, [gc[p] EXCEPT !.live = @ \cup new, !.stack = rest \o s])
       ELSE SetGc(p, [gc[p] EXCEPT !.broken = @ \cup {gc[p].at}, !.stack = <<>>])
  /\ UNCHANGED <<cas, tables, rotten, clock, pc, ingest, touches>>

Marked(p) ==
  /\ pc[p] = "mark" /\ gc[p].stack = <<>> /\ gc[p].todo = {}
  /\ Goto(p, "unroot")
  /\ UNCHANGED <<cas, tables, rotten, clock, ingest, touches, gc>>

GcUnroot(p, k) ==
  /\ pc[p] = "unroot" /\ k \in gc[p].broken
  /\ MetaSet(p, k, 0)
  /\ SetGc(p, [gc[p] EXCEPT !.broken = @ \ {k}])
  /\ UNCHANGED <<cas, rotten, clock, pc, ingest, touches>>

GcBlobs(p) ==
  /\ pc[p] = "unroot" /\ gc[p].broken = {}
  /\ SetGc(p, [gc[p] EXCEPT !.live = @ \cup {k[2] : k \in {b \in BlobKeys : Meta(p)[b] # 0}}])
  /\ Goto(p, "compact")
  /\ UNCHANGED <<cas, tables, rotten, clock, ingest, touches>>

(* compact(): only now are other writers shut out.                         *)
GcCompact(p) ==
  /\ pc[p] = "compact"
  /\ Cas!Begin(p)
  /\ Goto(p, "sweep")
  /\ UNCHANGED <<tables, rotten, clock, ingest, touches, gc>>

(* Mutant: objects that are not live are copied all the same.              *)
GcSweepNone(p) ==
  /\ pc[p] = "sweep"
  /\ Goto(p, "switch")
  /\ UNCHANGED <<cas, tables, rotten, clock, ingest, touches, gc>>

GcSweep(p) ==
  /\ pc[p] = "sweep"
  /\ Cas!Collect(p, stored \cap gc[p].live)
  /\ Goto(p, "switch")
  /\ UNCHANGED <<tables, rotten, clock, ingest, touches, gc>>

GcSwitch(p) ==
  /\ pc[p] = "switch"
  /\ Commit(p)
  /\ SetGc(p, NoGc)
  /\ Goto(p, "idle")
  /\ UNCHANGED <<rotten, clock, ingest, touches>>

-----------------------------------------------------------------------------
(* What p had not committed is lost, and history forgets it too.           *)
Lost(p) == {k \in Keys : touch[p][k] # 0 \/ flush[p][k] # 0
                          \/ (writer = p /\ vmeta[k] # meta[k])}

Gone(p) ==
  /\ Exit(p)
  /\ Goto(p, "closed")
  /\ used' = [k \in Keys |-> IF k \in Lost(p) THEN meta[k] ELSE used[k]]
  /\ job' = [job EXCEPT ![p] = NoJob] /\ done' = [done EXCEPT ![p] = {}]
  /\ touch' = [touch EXCEPT ![p] = NoStamps] /\ flush' = [flush EXCEPT ![p] = NoStamps]
  /\ SetGc(p, NoGc)
  /\ UNCHANGED <<rotten, clock>>

(* ~TreeStore flushes the touches, ~PackCas aborts a batch that is open.   *)
Close(p) ==
  /\ pc[p] = "idle"
  /\ Goto(p, "close")
  /\ UNCHANGED <<cas, tables, rotten, clock, ingest, touches, gc>>

Destroy(p) ==
  /\ pc[p] = "closing" /\ Flushed(p)
  /\ Gone(p)

Kill(p) ==
  /\ "kill" \in Races /\ pc[p] # "closed"
  /\ Gone(p)

Rot(o) ==
  /\ "rot" \in Races /\ rotten = {} /\ o \in stored
  /\ rotten' = {o}
  /\ UNCHANGED <<cas, tables, clock, pc, ingest, touches, gc>>

Tick ==
  /\ clock < MaxTime
  /\ "slow" \in Races \/ \A p \in Procs : touch[p] = NoStamps /\ flush[p] = NoStamps
  /\ clock' = clock + 1
  /\ UNCHANGED <<cas, tables, rotten, pc, ingest, touches, gc>>

-----------------------------------------------------------------------------
Writes(p) ==
  \/ Open(p) \/ PutBegin(p) \/ AutoSync(p) \/ IngestFails(p) \/ Register(p)
  \/ Flush(p) \/ Sync(p) \/ Close(p) \/ Destroy(p)
  \/ \E k \in Jobs : StartIngest(p, k)
  \/ \E o \in Objects : Put(p, o)
  \/ \E k \in Keys : FlushOne(p, k)

Collects(p) ==
  \/ GcNow(p) \/ GcCheck(p) \/ GcStamp(p) \/ GcExpired(p)
  \/ \E kind \in {"R", "B"} : GcExpire(p, kind)
  \/ \E k \in Keys : GcDelete(p, k) \/ GcUnroot(p, k)
  \/ \E k \in RootKeys : MarkRoot(p, k)
  \/ MarkTree(p) \/ Marked(p) \/ GcBlobs(p) \/ GcCompact(p) \/ GcSweep(p) \/ GcSwitch(p)

Next ==
  \/ \E p \in Procs : Writes(p) \/ Collects(p) \/ Kill(p) \/ \E k \in Jobs : Touch(p, k)
  \/ \E o \in Objects : Rot(o)
  \/ Tick

Spec == Init /\ [][Next]_vars

-----------------------------------------------------------------------------
Registered(m) == {k \in Keys \ {LastGc} : m[k] # 0}

(* Every registered root is whole: an ingest registers its root only with  *)
(* all its objects, and the collector, which decides what is live without  *)
(* a lock, sweeps none of them.                                            *)
RootsWhole == \A k \in Registered(meta) : Needs(k) \subseteq stored

(* A root is dropped only if nobody has registered or touched it for the   *)
(* TTL, but for the interval in which touches are not recorded, or if it   *)
(* cannot be read.                                                         *)
UsedRootsKept ==
  [][\A k \in Registered(meta) \ Registered(meta') :
       \/ used[k] + Ttl <= clock + TouchInterval
       \/ Needs(k) \cap rotten # {}]_vars

(* The pass runs at most once per interval.                                *)
GcRate ==
  [][\A p \in Procs : pc[p] = "stamp" /\ pc'[p] = "expire" /\ meta[LastGc] # 0 =>
       gc[p].now >= meta[LastGc] + GcInterval]_vars

(* What a pass leaves is reachable from the roots that are left.           *)
SweptClean ==
  [][\A p \in Procs : pc[p] = "switch" /\ pc'[p] = "idle" =>
       stored' \subseteq UNION {Needs(k) : k \in Registered(meta')}]_vars

-----------------------------------------------------------------------------
(* The promise: a TreeStore is a RootStore.                                *)
Roots == INSTANCE RootStore WITH
  Writers <- Procs, NoWriter <- NoProc, Keys <- RootKeys \cup BlobKeys,
  objs <- stored, roots <- Registered(meta), vobjs <- view, vroots <- Registered(vmeta)

(* Whatever ingests, touches, passes, failures and deaths do, each step    *)
(* stores, registers with everything needed in place, drops a root, or     *)
(* sweeps what no root needs, and no batch shows before it is committed.   *)
RootSpec == Roots!Spec
=============================================================================
