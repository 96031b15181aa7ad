------------------------------ MODULE Fetcher ------------------------------
(***************************************************************************)
(* The tarball input scheme of src/plugin/tarmac.cc, with the accessor it  *)
(* returns (pack_accessor.hh) and the life of the cache directory          *)
(* (ctx.hh).  Nix processes fetch one URL, of which the server publishes   *)
(* new versions; they share an entry of Nix's own fetcher cache, naming    *)
(* the version's etag and the root of its tree, and a cache directory.  A  *)
(* process that meets a corrupt object leaves a poison mark, and the next  *)
(* one to start removes the directory, under whoever is using it.          *)
(*                                                                         *)
(* Abstractions.  A run of Nix fetches once and reads one path.  A root is *)
(* old once it has not been used for the TTL.  An ingest, with its sync,   *)
(* is one step, and so is a pass of the collector, which any process of    *)
(* the directory may make at any time (see TreeGc).  The empty tree that   *)
(* an unchanged download stores is left out: nothing reads it.             *)
(***************************************************************************)
EXTENDS Naturals, FiniteSets

CONSTANTS
  Procs,
  MaxVersion,   \* bound: versions of the tarball, from 1
  MaxFaults,    \* bound: faults, altogether
  Faults        \* which of AllFaults happen

(* "rot"     an object, or its index entry, is damaged on disk             *)
(* "network" a download throws                                             *)
(* "kill"    a process dies                                                *)
(* "power"   the machine loses power                                       *)
(* "pass"    a pass ends, by whatever failure, before it sweeps            *)
AllFaults == {"rot", "network", "kill", "power", "pass"}

ASSUME FetcherAssumption ==
  IsFiniteSet(Procs) /\ MaxVersion \in Nat \ {0} /\ MaxFaults \in Nat /\ Faults \subseteq AllFaults

VARIABLES
  web,      \* the version the server has
  entry,    \* Nix's cache: what an upsert wrote last
  store,    \* the store in each directory that was not removed, or is in use
  cur,      \* which of them has the name of the cache directory
  poison,   \* that one is marked
  pc, at,   \* where each process is, and in which directory
  got,      \* the version in the entry that its lookup found good, or 0, and
            \* from the download on the version its fetch returns
  pend,     \* its touch is pending
  faults,   \* how many faults happened
  sure      \* history: its tree was sound and its root in use at the lookup,
            \* or it was not there

proc == <<pc, at, got, pend, sure>>
vars == <<web, entry, store, cur, poison, proc, faults>>

Versions == 1 .. MaxVersion
Slots    == 0 .. Cardinality(Procs)
NoEntry  == [etag |-> 0, root |-> 0, expired |-> FALSE]

(* The objects of the tree of version v, <<v, k>>.  The archive is a tree  *)
(* whose one entry is the top directory that download() strips, and that   *)
(* has two directories; a collector reads the second one first.            *)
Arc == 1   Top == 2   Last == 3   First == 4   File == 5
Kids(k) == CASE k = Arc -> {Top} [] k = Top -> {First, Last} [] k = First -> {File} [] OTHER -> {}
Objects == Versions \X (Arc .. File)
Tree(v, k) == {v} \X (k .. File)

(* loose: roots registered since the last flush; lost: history, versions   *)
(* whose top directory may be there without being a root.                  *)
Store == [objs : SUBSET Objects, rot : SUBSET Objects,
          roots : SUBSET Objects, old : SUBSET Objects, loose : SUBSET Objects,
          lost : SUBSET Versions]
Nothing == [objs |-> {}, rot |-> {}, roots |-> {}, old |-> {}, loose |-> {}, lost |-> {}]

Fetching == {"lookup", "download", "strip", "hash", "touch", "read"}

TypeOK ==
  /\ web \in Versions /\ faults \in 0 .. MaxFaults
  /\ entry \in [etag : 0 .. MaxVersion, root : 0 .. MaxVersion, expired : BOOLEAN]
  /\ store \in [Slots -> Store]
  /\ \A s \in Slots : store[s].old \cup store[s].loose \subseteq store[s].roots
  /\ cur \in Slots /\ poison \in BOOLEAN
  /\ pc \in [Procs -> Fetching \cup {"off", "served"}]
  /\ at \in [Procs -> Slots]
  /\ got \in [Procs -> 0 .. MaxVersion]
  /\ pend \in [Procs -> BOOLEAN] /\ sure \in [Procs -> BOOLEAN]

Init ==
  /\ web = 1 /\ entry = NoEntry /\ faults = 0
  /\ store = [s \in Slots |-> Nothing] /\ cur = 0 /\ poison = FALSE
  /\ pc = [p \in Procs |-> "off"] /\ at = [p \in Procs |-> 0]
  /\ got = [p \in Procs |-> 0]
  /\ pend = [p \in Procs |-> FALSE] /\ sure = [p \in Procs |-> TRUE]

My(p)        == store[at[p]]
In(p, new)   == store' = [store EXCEPT ![at[p]] = new]
Users(s)     == {q \in Procs : pc[q] # "off" /\ at[q] = s}
Goto(p, l)   == pc' = [pc EXCEPT ![p] = l]
Fault(kind)  == kind \in Faults /\ faults < MaxFaults /\ faults' = faults + 1

(* registerRoot, or the flush of a touch.                                  *)
Rooted(T, v, k) ==
  [T EXCEPT !.roots = @ \cup {<<v, k>>}, !.old = @ \ {<<v, k>>},
            !.lost = IF k = Top THEN @ \ {v} ELSE @]
(* Mutant: the root is written whether its touch is pending or not.        *)
FlushedAnyway(p) == Rooted(My(p), got[p], Top)
Flushed(p) == IF pend[p] THEN Rooted(My(p), got[p], Top) ELSE My(p)
Synced(T)  == [T EXCEPT !.loose = {}]

(* The process ends, with what it leaves in its directory, of which        *)
(* nothing stays when it was removed and nobody else is using it.          *)
End(p, left) ==
  /\ Goto(p, "off")
  /\ In(p, IF at[p] # cur /\ Users(at[p]) = {p} THEN Nothing ELSE left)
  /\ at' = [at EXCEPT ![p] = 0] /\ pend' = [pend EXCEPT ![p] = FALSE]
  /\ got' = [got EXCEPT ![p] = 0]
  /\ sure' = [sure EXCEPT ![p] = TRUE]

-----------------------------------------------------------------------------
(* Mutant: the mark is removed with nothing else of the directory.         *)
StartKeeps(p) ==
  /\ pc[p] = "off" /\ Goto(p, "lookup")
  /\ at' = [at EXCEPT ![p] = cur] /\ poison' = FALSE
  /\ UNCHANGED <<web, entry, store, cur, got, pend, faults, sure>>

(* Ctx: a marked directory is removed, and an empty one takes its name.    *)
Start(p) ==
  /\ pc[p] = "off" /\ Goto(p, "lookup")
  /\ LET fresh == CHOOSE s \in Slots : Users(s) = {} IN
       cur' = IF poison THEN fresh ELSE cur
  /\ store' = [s \in Slots |->
       IF poison /\ (s = cur' \/ Users(s) = {}) THEN Nothing ELSE store[s]]
  /\ at' = [at EXCEPT ![p] = cur'] /\ poison' = FALSE
  /\ UNCHANGED <<web, entry, got, pend, faults, sure>>

Exit(p) ==
  /\ pc[p] = "served" /\ End(p, Flushed(p))
  /\ UNCHANGED <<web, entry, cur, poison, faults>>

(* An exception ends the run; the destructor still writes the touches.     *)
Throw(p) ==
  /\ End(p, IF pc[p] = "strip" THEN [My(p) EXCEPT !.lost = @ \cup {got[p]}] ELSE Flushed(p))
  /\ UNCHANGED <<web, entry, cur>>

-----------------------------------------------------------------------------
(* What the lookup leads to, v being the version of a good entry, or 0.    *)
Good(p, v) ==
  /\ got' = [got EXCEPT ![p] = v]
  /\ Goto(p, IF v # 0 /\ ~entry.expired THEN "touch" ELSE "download")

(* Mutant: the entry is enough.                                            *)
LookupTrusts(p) ==
  /\ pc[p] = "lookup"
  /\ Good(p, entry.root)
  /\ sure' = [sure EXCEPT ![p] = <<entry.root, Top>> \notin My(p).old]
  /\ UNCHANGED <<web, entry, store, cur, poison, at, pend, faults>>

(* getAccessor up to the decision.  hasTree looks for the top directory    *)
(* only, and throws when its index entry is damaged.                       *)
Lookup(p) ==
  LET root == <<entry.root, Top>>   found == root \in My(p).objs IN
  /\ pc[p] = "lookup"
  /\ \/ Good(p, IF found THEN entry.root ELSE 0) /\ poison' = poison
     \/ root \in My(p).rot /\ Good(p, 0) /\ poison' = TRUE
  /\ sure' = [sure EXCEPT ![p] = found =>
                 /\ root \in My(p).roots \ My(p).old
                 /\ Tree(entry.root, Top) \cap My(p).rot = {}]
  /\ UNCHANGED <<web, entry, store, cur, at, pend, faults>>

(* Mutant: the value of the empty archive, under the etag of the answer.   *)
NotModifiedEmpty(p) ==
  /\ pc[p] = "download" /\ got[p] = web
  /\ In(p, Synced(Flushed(p)))
  /\ entry' = [etag |-> web, root |-> 0, expired |-> FALSE]
  /\ Goto(p, "touch")
  /\ UNCHANGED <<web, cur, poison, at, got, pend, faults, sure>>

(* 304: the cached value is written again.                                 *)
NotModified(p) ==
  /\ pc[p] = "download" /\ got[p] = web
  /\ In(p, Synced(Flushed(p)))
  /\ entry' = [etag |-> got[p], root |-> got[p], expired |-> FALSE]
  /\ Goto(p, "touch")
  /\ UNCHANGED <<web, cur, poison, at, got, pend, faults, sure>>

(* 200: ingest_archive, which stores again nothing that is in the index    *)
(* (put() throws on a damaged index entry).                                *)
Ingest(p) ==
  /\ pc[p] = "download" /\ got[p] # web
  /\ In(p, Synced(Rooted([Flushed(p) EXCEPT !.objs = @ \cup Tree(web, Arc)], web, Arc)))
  /\ got' = [got EXCEPT ![p] = web] /\ Goto(p, "strip")
  /\ sure' = [sure EXCEPT ![p] = TRUE]
  /\ UNCHANGED <<web, entry, cur, poison, at, pend, faults>>

IngestFails(p) ==
  /\ pc[p] = "download"
  /\ \/ Fault("network")
     \/ My(p).rot \cap Tree(web, Arc) # {} /\ faults' = faults
  /\ Throw(p) /\ UNCHANGED poison

(* Mutant: only the archive is a root.                                     *)
StripUnrooted(p) ==
  /\ pc[p] = "strip" /\ <<got[p], Arc>> \in My(p).objs \ My(p).rot
  /\ Goto(p, "hash")
  /\ UNCHANGED <<web, entry, store, cur, poison, at, got, pend, faults, sure>>

(* The top directory becomes a root, in a transaction of its own.          *)
Strip(p) ==
  /\ pc[p] = "strip" /\ <<got[p], Arc>> \in My(p).objs \ My(p).rot
  /\ In(p, Rooted([My(p) EXCEPT !.loose = @ \cup {<<got[p], Top>>}], got[p], Top))
  /\ Goto(p, "hash")
  /\ UNCHANGED <<web, entry, cur, poison, at, got, pend, faults, sure>>

(* nar_sha256 reads the tree; the entry is written.                        *)
Hash(p) ==
  /\ pc[p] = "hash" /\ Tree(got[p], Top) \subseteq My(p).objs \ My(p).rot
  /\ entry' = [etag |-> got[p], root |-> got[p], expired |-> FALSE]
  /\ Goto(p, "touch")
  /\ UNCHANGED <<web, store, cur, poison, at, got, pend, faults, sure>>

(* A corrupt object met by download(): nothing catches it.                 *)
DownloadThrows(p) ==
  /\ \/ pc[p] = "strip" /\ <<got[p], Arc>> \notin My(p).objs \ My(p).rot
     \/ pc[p] = "hash" /\ ~(Tree(got[p], Top) \subseteq My(p).objs \ My(p).rot)
  /\ Throw(p) /\ UNCHANGED <<poison, faults>>

(* touchRoot: a root that is old; the touch is written later.              *)
Touch(p) ==
  /\ pc[p] = "touch" /\ Goto(p, "read")
  /\ pend' = [pend EXCEPT ![p] = <<got[p], Top>> \in My(p).old]
  /\ UNCHANGED <<web, entry, store, cur, poison, at, got, faults, sure>>

-----------------------------------------------------------------------------
(* PackAccessor: the directories on the way to the file, or to the other   *)
(* directory; a missing one is corruption, a missing file is not.          *)
DirsTo(k) == IF k = File THEN {Top, First} ELSE {Top, Last}
ReadsWell(p, k) == {got[p]} \X (DirsTo(k) \cup {k}) \subseteq My(p).objs \ My(p).rot
Corrupt(p, k) ==
  \/ {got[p]} \X (DirsTo(k) \cup {k}) \cap My(p).rot # {}
  \/ ~({got[p]} \X DirsTo(k) \subseteq My(p).objs)

Read(p, k) ==
  /\ pc[p] = "read" /\ ReadsWell(p, k) /\ Goto(p, "served")
  /\ UNCHANGED <<web, entry, store, cur, poison, at, got, pend, faults, sure>>
ReadFails(p, k) ==
  /\ pc[p] = "read" /\ ~ReadsWell(p, k)
  /\ poison' = (poison \/ Corrupt(p, k))
  /\ Throw(p) /\ UNCHANGED faults

-----------------------------------------------------------------------------
(* mark_live from the root <<v, k>>, given what is marked of version v: it  *)
(* reads the directories k .. First in order, up to one that was marked    *)
(* before, and throws at a bad one, with what it marked until then.        *)
Queue(k, live) == {j \in k .. First : (k .. j) \cap live = {}}
Reach(T, v, k, live) ==
  {j \in Queue(k, live) : {v} \X (k .. j) \subseteq T.objs \ T.rot}

MarkRoot(T, v, mark, k) ==
  LET reach == Reach(T, v, k, mark.live) IN
  IF <<v, k>> \notin T.roots \/ k \in mark.live THEN mark
  ELSE [live   |-> mark.live \cup {k} \cup UNION {Kids(j) : j \in reach},
        broken |-> IF reach = Queue(k, mark.live) THEN mark.broken ELSE mark.broken \cup {k}]

(* The two roots of a version, in the order of their hashes.               *)
MarkVersion(T, v, order) ==
  MarkRoot(T, v, MarkRoot(T, v, [live |-> {}, broken |-> {}], order[1]), order[2])

Of(v, ks) == {v} \X ks
Pass(s, order) ==
  LET T      == [store[s] EXCEPT !.roots = @ \ store[s].old]
      mark   == [v \in Versions |-> MarkVersion(T, v, order)]
      objs   == T.objs \cap UNION {Of(v, mark[v].live) : v \in Versions}
      roots  == T.roots \ UNION {Of(v, mark[v].broken) : v \in Versions}
  IN /\ T.old # {} /\ Users(s) # {}
     /\ store' = [store EXCEPT ![s] = [T EXCEPT
          !.objs = objs, !.rot = @ \cap objs, !.roots = roots, !.old = {}, !.loose = {},
          !.lost = {v \in Versions : <<v, Top>> \in objs \ roots}]]
     /\ UNCHANGED <<web, entry, cur, poison, proc, faults>>

PassDies(s) ==
  /\ Fault("pass") /\ Users(s) # {} /\ store[s].old # {}
  /\ store' = [store EXCEPT ![s] = [store[s] EXCEPT
       !.roots = @ \ store[s].old, !.old = {}, !.loose = @ \ store[s].old,
       !.lost = @ \cup {v \in Versions : <<v, Top>> \in store[s].old}]]
  /\ UNCHANGED <<web, entry, cur, poison, proc>>

-----------------------------------------------------------------------------
Publish ==
  /\ web < MaxVersion /\ web' = web + 1
  /\ UNCHANGED <<entry, store, cur, poison, proc, faults>>

(* tarball-ttl passes between two runs of Nix ...                          *)
AllOff == \A p \in Procs : pc[p] = "off"
Expire ==
  /\ entry # NoEntry /\ ~entry.expired /\ AllOff
  /\ entry' = [entry EXCEPT !.expired = TRUE]
  /\ UNCHANGED <<web, store, cur, poison, proc, faults>>

(* ... and the TTL without a use of the root.  The archive was registered  *)
(* before its top directory.                                               *)
Age(v, k) ==
  LET T == store[cur] IN
  /\ <<v, k>> \in T.roots \ T.old
  /\ AllOff
  /\ k = Top => <<v, Arc>> \notin T.roots \ T.old \/ v \in T.lost
  /\ store' = [store EXCEPT ![cur].old = @ \cup {<<v, k>>}]
  /\ UNCHANGED <<web, entry, cur, poison, proc, faults>>

Rot(o) ==
  /\ Fault("rot") /\ o \in store[cur].objs \ store[cur].rot
  /\ store' = [store EXCEPT ![cur].rot = @ \cup {o}]
  /\ sure' = [p \in Procs |-> sure[p] /\ o[1] # got[p]]
  /\ UNCHANGED <<web, entry, cur, poison, pc, at, got, pend>>

Kill(p) ==
  /\ Fault("kill") /\ pc[p] # "off"
  /\ End(p, IF pc[p] = "strip" THEN [My(p) EXCEPT !.lost = @ \cup {got[p]}] ELSE My(p))
  /\ UNCHANGED <<web, entry, cur, poison>>

(* What was registered since the last flush may be gone.                   *)
PowerLoss ==
  LET T == store[cur]
      undone == {v \in Versions : \E p \in Users(cur) : pc[p] = "strip" /\ got[p] = v}
  IN
  /\ Fault("power") /\ \E p \in Procs : pc[p] # "off"
  /\ \E S \in {{}, T.loose} :
       store' = [s \in Slots |-> IF s # cur THEN Nothing ELSE [T EXCEPT
         !.roots = @ \ S, !.old = @ \ S, !.loose = @ \ S,
         !.lost = @ \cup undone \cup {o[1] : o \in S}]]
  /\ pc' = [p \in Procs |-> "off"] /\ at' = [p \in Procs |-> 0]
  /\ got' = [p \in Procs |-> 0]
  /\ pend' = [p \in Procs |-> FALSE] /\ sure' = [p \in Procs |-> TRUE]
  /\ UNCHANGED <<web, entry, cur, poison>>

-----------------------------------------------------------------------------
Step(p) ==
  \/ Start(p) \/ Lookup(p) \/ NotModified(p) \/ Ingest(p) \/ Strip(p) \/ Hash(p)
  \/ DownloadThrows(p) \/ Touch(p) \/ Exit(p)
  \/ \E k \in {Last, File} : Read(p, k) \/ ReadFails(p, k)

Next ==
  \/ \E p \in Procs : Step(p) \/ IngestFails(p) \/ Kill(p)
  \/ \E s \in Slots : PassDies(s) \/ \E order \in {<<Arc, Top>>, <<Top, Arc>>} : Pass(s, order)
  \/ \E v \in Versions, k \in {Arc, Top} : Age(v, k)
  \/ \E o \in Objects : Rot(o)
  \/ Publish \/ Expire \/ PowerLoss

Spec == Init /\ [][Next]_vars

(* Whoever runs Nix goes on doing so, and its processes run.               *)
FairSpec == Spec /\ \A p \in Procs : WF_vars(Step(p))

-----------------------------------------------------------------------------
(* The entry names the tree of its etag: an answer "not modified", whose   *)
(* empty body is ingested like any other, leaves the entry as it was.      *)
EntryMatches == entry.root = entry.etag

(* A tree that a fetch returns is whole, and stays so while it is read,    *)
(* whatever other processes collect, ingest or wipe, unless its root was   *)
(* old, or no root, when it was looked up, or the disk is damaged.         *)
InUseWhole ==
  \A p \in Procs :
    /\ pc[p] \in {"touch", "read"} /\ sure[p]
    => Tree(got[p], Top) \subseteq My(p).objs

(* The tree the entry names is a root of its own, so that its uses keep    *)
(* it, or it is not there and will be fetched again; but for an ingest     *)
(* that has not come to that, a registration lost with the power, a pass   *)
(* that died, and damage that a pass has met.                              *)
EntryRooted ==
  LET T == store[cur] IN
  entry # NoEntry /\ <<entry.root, Top>> \in T.objs =>
    \/ <<entry.root, Top>> \in T.roots \/ entry.root \in T.lost
    \/ \E p \in Users(cur) : pc[p] = "strip" /\ got[p] = entry.root

(* A directory that was marked is replaced by one from which a fetch is    *)
(* served, unless it is damaged again.                                     *)
Sound == ~poison /\ store[cur].rot = {}
Heals == poison ~> (~poison /\ store[cur].rot # {}) \/ (Sound /\ \E p \in Users(cur) : pc[p] = "served")

(* README.md of the repository: "If the cache is detected as corrupt it is *)
(* wiped and everything regenerates on the next run."  Faults are finitely *)
(* many, so that fetches are served again and again.                       *)
CacheHeals == []<>(\E p \in Procs : pc[p] = "served")
=============================================================================
