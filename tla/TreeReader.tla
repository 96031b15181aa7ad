----------------------------- MODULE TreeReader -----------------------------
(***************************************************************************)
(* The readers of a stored tree: TreeWalker (src/src/tree.cpp), through    *)
(* which PackAccessor (src/plugin/pack_accessor.hh) finds paths, with its  *)
(* cache of the trees it has read, and nar_dump(), a walk with a stack of  *)
(* strings and nodes.  An object of the store may become unreadable, which *)
(* readTree() and readBlob() report as CorruptError.                       *)
(***************************************************************************)
EXTENDS TarTree

CONSTANTS
  NameOrder,    \* the names, in the order of std::map
  Queries       \* paths that are looked up

VARIABLES
  rotten,   \* objects that cannot be read
  cache,    \* TreeWalker::cache_
  answer,   \* of the last lookup
  work,     \* the stack of nar_dump(), its top is the last
  nar       \* what it has written

Names == Range(NameOrder)
ASSUME ReaderAssumption ==
  /\ NameOrder \in Seq(STRING) /\ Queries \subseteq Seq(STRING)
  /\ \A i \in Items : Range(i.path) \subseteq Names \cup LongNames \cup {"", ".", ".."}

walker == <<cache, answer>>
dump   == <<work, nar>>
readers == <<rotten, walker, dump>>

NoAnswer == [found |-> "none"]

ReaderInit ==
  /\ Init
  /\ rotten = {} /\ cache = <<>> /\ answer = NoAnswer /\ work = <<>> /\ nar = <<>>

Readable(id) == id \in objects \ rotten

-----------------------------------------------------------------------------
Rank(name) == CHOOSE i \in DOMAIN NameOrder : NameOrder[i] = name

(* Mutant: what lower_bound() finds is not compared with the name.         *)
NamedAtLeast(entries, name) ==
  LET later == {e \in entries : Rank(e.name) >= Rank(name)}
  IN {e \in later : \A f \in later : Rank(e.name) <= Rank(f.name)}

Named(entries, name) == {e \in entries : e.name = name}

(* TreeWalker::tree within a lookup: the slot of the cache is made before  *)
(* the tree is read, and stays, empty, when that fails.                    *)
Descend(walk, comp) ==
  LET id      == walk.at.id
      hit     == id \in DOMAIN walk.cache
      entries == IF hit THEN walk.cache[id] ELSE IF Readable(id) THEN id.entries ELSE {}
      next    == Named(entries, comp)
      cached  == [walk EXCEPT !.cache =
                    [i \in DOMAIN @ \cup {id} |-> IF i = id THEN entries ELSE walk.cache[i]]]
  IN IF walk.found # "yes" THEN walk
     ELSE IF walk.at.type # "d" THEN [walk EXCEPT !.found = "no"]
     ELSE IF ~hit /\ ~Readable(id) THEN [cached EXCEPT !.found = "corrupt"]
     ELSE IF next = {} THEN [cached EXCEPT !.found = "no"]
     ELSE [cached EXCEPT !.at = CHOOSE e \in next : TRUE]

(* TreeWalker::lookup, under PackAccessor::mutex_.                         *)
Lookup(raw) ==
  LET path == Split(raw)
      walk == FoldLeft(Descend,
                [found |-> "yes", at |-> [name |-> "", type |-> "d", id |-> root],
                 cache |-> cache], path.comps)
  IN /\ pc = "done" /\ nar = <<>>
     /\ IF path.ok
          THEN /\ answer' = [path |-> path.comps, found |-> walk.found,
                             node |-> [type |-> walk.at.type, id |-> walk.at.id]]
               /\ cache' = walk.cache
          ELSE answer' = NoAnswer /\ cache' = cache
     /\ UNCHANGED <<vars, rotten, dump>>

-----------------------------------------------------------------------------
Node(e, depth) == [node |-> TRUE, entry |-> e, depth |-> depth]
Str(s)         == [node |-> FALSE, str |-> s]
Strs(ss)       == [i \in DOMAIN ss |-> Str(ss[i])]

Ordered(names) ==
  CHOOSE ns \in [1 .. Cardinality(names) -> names] :
    \A i, j \in DOMAIN ns : i < j => Rank(ns[i]) < Rank(ns[j])

Sorted(entries) ==
  LET names == Ordered({e.name : e \in entries})
  IN [i \in DOMAIN names |-> CHOOSE e \in entries : e.name = names[i]]

EntryWork(e, depth) ==
  Strs(<<")">>) \o <<Node(e, depth)>> \o Strs(<<"node", e.name, "name", "(", "entry">>)

(* Mutant: the children are pushed in their own order.                     *)
PushedForwards(entries, depth) ==
  FlattenSeq([i \in DOMAIN entries |-> EntryWork(entries[i], depth)])

(* nar_directory: what comes out last is pushed first.                     *)
Pushed(entries, depth) ==
  FlattenSeq([i \in DOMAIN entries |-> EntryWork(Reverse(entries)[i], depth)])

DumpBegin ==
  /\ pc = "done" /\ work = <<>> /\ nar = <<>>
  /\ nar' = <<"nix-archive-1">>
  /\ work' = <<Node([name |-> "", type |-> "d", id |-> root], 0)>>
  /\ UNCHANGED <<vars, rotten, walker>>

Top == work[Len(work)]

DumpStr ==
  /\ pc = "done" /\ work # <<>> /\ ~Top.node
  /\ nar' = Append(nar, Top.str) /\ work' = Front(work)
  /\ UNCHANGED <<vars, rotten, walker>>

Leaf(type, data) ==
  (CASE type = "s" -> <<"symlink", "target">>
     [] type = "x" -> <<"regular", "executable", "", "contents">>
     [] type = "r" -> <<"regular", "contents">>) \o <<data, ")">>

Dumps(strs, rest) ==
  /\ nar' = nar \o <<"(", "type">> \o strs /\ work' = Front(work) \o rest
  /\ UNCHANGED <<vars, rotten, walker>>

DumpStops(l, strs) ==
  /\ nar' = nar \o strs /\ pc' = l
  /\ UNCHANGED <<given, tree, objects, root, rotten, walker, work>>

(* The next node: nar_directory reads its tree after it has written        *)
(* "directory", nar_leaf its blob before it writes anything.               *)
DumpNode ==
  LET e == Top.entry IN
  /\ pc = "done" /\ work # <<>> /\ Top.node
  /\ IF Top.depth > MaxTreeDepth THEN DumpStops("too deep", <<>>)
     ELSE IF ~Readable(e.id)
       THEN DumpStops("broken", <<"(", "type">> \o IF e.type = "d" THEN <<"directory">> ELSE <<>>)
     ELSE IF e.type = "d"
       THEN Dumps(<<"directory">>,
                  Strs(<<")">>) \o Pushed(Sorted(e.id.entries), Top.depth + 1))
     ELSE Dumps(Leaf(e.type, e.id.data), <<>>)

Rot(o) ==
  /\ rotten = {} /\ pc = "done" /\ o \in objects
  /\ rotten' = {o}
  /\ UNCHANGED <<vars, walker, dump>>

Step ==
  \/ Ingest /\ UNCHANGED readers
  \/ \E raw \in Queries : Lookup(raw)
  \/ DumpBegin \/ DumpStr \/ DumpNode
  \/ \E o \in objects : Rot(o)

Spec == ReaderInit /\ [][Step]_<<vars, readers>>

-----------------------------------------------------------------------------
(* A lookup finds what the archive says, and nothing else: only an object  *)
(* that an earlier lookup of this walker has found corrupt may make it say *)
(* "no such file" of a path that is there.                                 *)
FindSound ==
  answer # NoAnswer =>
    LET path == answer.path IN
    /\ answer.found = "yes" =>
         /\ path \in DOMAIN Meaning /\ answer.node.type = Meaning[path].type
         /\ answer.node.type # "d" => answer.node.id = Meaning[path].id
    /\ answer.found = "no" /\ path \in DOMAIN Meaning =>
         \E id \in DOMAIN cache : cache[id] # id.entries

(* The archive format of Nix, of a path of the tree that is meant.         *)
EntryNar(name, s) == <<"entry", "(", "name", name, "node">> \o s \o <<")">>
NamesAt(path)     == {n \in Names : Append(path, n) \in DOMAIN Meaning}

NarOf[path \in DOMAIN Meaning] ==
  <<"(", "type">> \o
  IF Meaning[path].type # "d" THEN Leaf(Meaning[path].type, Meaning[path].id.data)
  ELSE LET names == Ordered(NamesAt(path))
       IN <<"directory">>
          \o FlattenSeq([i \in DOMAIN names |-> EntryNar(names[i], NarOf[Append(path, names[i])])])
          \o <<")">>

Nar == <<"nix-archive-1">> \o NarOf[<<>>]

(* A dump that ends has written the tree the archive describes, and one    *)
(* that stops early a part of it.                                          *)
NarIsTree ==
  /\ nar # <<>> /\ work = <<>> => nar = Nar
  /\ pc = "broken" => IsPrefix(nar, Nar)

(* An archive that was accepted is never too deep to be dumped.            *)
DumpReaches == pc # "too deep"
=============================================================================
