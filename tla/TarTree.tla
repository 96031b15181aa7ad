------------------------------ MODULE TarTree ------------------------------
(***************************************************************************)
(* The consumer of an archive in src/src/tree.cpp: apply_item() enters one *)
(* item after the other in a tree in memory, of MemNodes, with the         *)
(* overwrite rules of add_node(); flush_tree() then puts the directories,  *)
(* those below first, as tree objects of the store.                        *)
(*                                                                         *)
(* Abstractions.  The MemNodes are a function from the paths of the nodes. *)
(* An object is identified with its hash: a blob is its data, a tree       *)
(* object is the set of its entries, whose order is that of the names.     *)
(***************************************************************************)
EXTENDS Naturals, Sequences, SequencesExt, FiniteSets

CONSTANTS
  LongNames,      \* path components longer than kMaxNameLen
  MaxTreeDepth,   \* kMaxTreeDepth
  Items,          \* the items of archives, see read_item in ItemQueue
  MaxItems        \* bound: length of an archive

VARIABLES
  given,     \* history: the items applied
  tree,      \* the MemNodes: type and id of each path
  pc,
  objects,   \* what the store holds
  root       \* IngestResult::root

vars == <<given, tree, pc, objects, root>>

FileTypes == {"r", "x", "s"}

ASSUME TarAssumption ==
  /\ MaxTreeDepth \in Nat /\ MaxItems \in Nat
  /\ \A i \in Items : /\ i.type \in FileTypes \cup {"d", "h"} /\ i.path \in Seq(STRING)
                      /\ i.type = "h" => i.link \in Seq(STRING)

Blob(data)      == [kind |-> "blob", data |-> data]
TreeObject(es)  == [kind |-> "tree", entries |-> es]
NoId            == [kind |-> "none"]
Dir             == [type |-> "d", id |-> NoId]

Init ==
  /\ given = <<>> /\ tree = [path \in {<<>>} |-> Dir] /\ pc = "apply"
  /\ objects = {} /\ root = NoId

-----------------------------------------------------------------------------
SplitStep(path, comp, depth) ==
  IF ~path.ok \/ comp \in {"", "."} THEN path
  ELSE IF comp = ".." THEN [path EXCEPT !.comps = IF @ = <<>> THEN @ ELSE Front(@)]
  ELSE IF comp \in LongNames \/ Len(path.comps) >= depth THEN [path EXCEPT !.ok = FALSE]
  ELSE [path EXCEPT !.comps = Append(@, comp)]
SplitTo(raw, depth) ==
  FoldLeft(LAMBDA path, comp : SplitStep(path, comp, depth), [ok |-> TRUE, comps |-> <<>>], raw)

(* Mutant: one level more is allowed.                                      *)
SplitDeeper(raw) == SplitTo(raw, MaxTreeDepth + 1)

(* split_path: "." and empty components are dropped, ".." drops the one    *)
(* before it, and what is too long or too deep at any point is refused.    *)
Split(raw) == SplitTo(raw, MaxTreeDepth)

Above(path)  == {SubSeq(path, 1, n) : n \in 0 .. Len(path) - 1}
Below(path)  == {q \in DOMAIN tree : path \in Above(q)}
ChildrenOf(path) == {q \in Below(path) : Len(q) = Len(path) + 1}

(* When add_node throws: under a file, or in place of a directory that is  *)
(* not empty, or of the root.                                              *)
Refused(path, node) ==
  \/ \E q \in Above(path) \cap DOMAIN tree : tree[q].type # "d"
  \/ /\ path \in DOMAIN tree /\ tree[path].type = "d" /\ node.type # "d"
     /\ path = <<>> \/ Below(path) # {}

(* Mutant: a file is kept when a directory comes later.                    *)
AddNodeKeepsFile(path, node) ==
  IF path \in DOMAIN tree /\ node.type = "d" THEN tree
  ELSE [q \in DOMAIN tree \cup Above(path) \cup {path} |->
          IF q = path THEN node ELSE IF q \in DOMAIN tree THEN tree[q] ELSE Dir]

(* add_node: directories that are missing are made, a directory stays.     *)
AddNode(path, node) ==
  IF path \in DOMAIN tree /\ tree[path].type = "d" /\ node.type = "d" THEN tree
  ELSE [q \in DOMAIN tree \cup Above(path) \cup {path} |->
          IF q = path THEN node ELSE IF q \in DOMAIN tree THEN tree[q] ELSE Dir]

Add(item, path, node) ==
  IF Refused(path, node) THEN pc' = "failed" /\ UNCHANGED <<given, tree>>
  ELSE tree' = AddNode(path, node) /\ given' = Append(given, item) /\ pc' = pc

More == pc = "apply" /\ Len(given) < MaxItems /\ root' = root

ApplyDir(item) ==
  /\ More /\ item.type = "d" /\ Split(item.path).ok
  /\ Add(item, Split(item.path).comps, Dir)
  /\ UNCHANGED objects

(* The blob is put before add_node may refuse it.                          *)
ApplyFile(item) ==
  /\ More /\ item.type \in FileTypes /\ Split(item.path).ok
  /\ objects' = objects \cup {Blob(item.data)}
  /\ Add(item, Split(item.path).comps, [type |-> item.type, id |-> Blob(item.data)])

(* lookup_node, of a hard link's target, which must not be a directory.    *)
Linkable(target) ==
  target.ok /\ target.comps \in DOMAIN tree /\ tree[target.comps].type # "d"

(* A hard link takes the type and id its target has at that point.         *)
ApplyLink(item) ==
  LET target == Split(item.link) IN
  /\ More /\ item.type = "h" /\ Split(item.path).ok
  /\ Linkable(target)
  /\ Add(item, Split(item.path).comps, tree[target.comps])
  /\ UNCHANGED objects

(* "too long", "target does not exist", "target is a directory".           *)
ApplyFails(item) ==
  /\ More
  /\ Split(item.path).ok => item.type = "h" /\ ~Linkable(Split(item.link))
  /\ pc' = "failed"
  /\ UNCHANGED <<given, tree, objects>>

EndOfArchive ==
  /\ pc = "apply" /\ pc' = "flush"
  /\ UNCHANGED <<given, tree, objects, root>>

-----------------------------------------------------------------------------
Dirs == {path \in DOMAIN tree : tree[path].type = "d" /\ tree[path].id = NoId}

EntriesOf(path) ==
  {[name |-> Last(q), type |-> tree[q].type, id |-> tree[q].id] : q \in ChildrenOf(path)}

(* Mutant: the listing is walked forwards.                                 *)
FlushDirForwards(path) ==
  LET id == TreeObject(EntriesOf(path)) IN
  /\ pc = "flush" /\ path \in Dirs /\ \A q \in Dirs : Len(q) >= Len(path)
  /\ objects' = objects \cup {id}
  /\ tree' = [tree EXCEPT ![path].id = id]
  /\ IF path = <<>> THEN root' = id ELSE UNCHANGED root
  /\ pc' = IF Dirs = {path} THEN "done" ELSE pc
  /\ UNCHANGED given

(* The listing has all directories of a level before those of the next; it *)
(* is walked backwards, and each directory put gives up its children.      *)
FlushDir(path) ==
  LET id == TreeObject(EntriesOf(path)) IN
  /\ pc = "flush" /\ path \in Dirs /\ \A q \in Dirs : Len(q) <= Len(path)
  /\ objects' = objects \cup {id}
  /\ tree' = [q \in DOMAIN tree \ Below(path) |->
                IF q = path THEN [type |-> "d", id |-> id] ELSE tree[q]]
  /\ IF path = <<>> THEN pc' = "done" /\ root' = id ELSE UNCHANGED <<pc, root>>
  /\ UNCHANGED given

Ingest ==
  \/ \E item \in Items :
       ApplyDir(item) \/ ApplyFile(item) \/ ApplyLink(item) \/ ApplyFails(item)
  \/ EndOfArchive
  \/ \E path \in Dirs : FlushDir(path)

-----------------------------------------------------------------------------
(* What an archive says, entry by entry: the last one about a path counts, *)
(* a hard link stands for what the entries before it say of its target,    *)
(* and what lies above an entry is a directory.                            *)
PathOf(n)  == Split(given[n].path).comps
Said(path, upto) == {n \in 1 .. upto : PathOf(n) = path}
Latest(S)  == CHOOSE n \in S : \A m \in S : m <= n

Content[n \in 1 .. Len(given)] ==
  IF given[n].type = "d" THEN Dir
  ELSE IF given[n].type = "h" THEN Content[Latest(Said(Split(given[n].link).comps, n - 1))]
  ELSE [type |-> given[n].type, id |-> Blob(given[n].data)]

Paths == {<<>>} \cup UNION {{PathOf(n)} \cup Above(PathOf(n)) : n \in DOMAIN given}
Meaning ==
  [path \in Paths |->
     LET S == Said(path, Len(given)) IN IF S = {} THEN Dir ELSE Content[Latest(S)]]

(* The tree in memory is what the archive says: overwriting, in whatever   *)
(* order entries come, leaves nothing of what was there before, and a hard *)
(* link does not follow its target when that is overwritten later.         *)
LastEntryWins == pc = "apply" => tree = Meaning

(* At every moment, also in an archive that fails halfway, what an object  *)
(* of the store names is in the store.  The collector and the batches that *)
(* are committed while an archive is read rely on it.                      *)
StoreClosed ==
  \A o \in objects : o.kind = "tree" => \A e \in o.entries : e.id \in objects
=============================================================================
