-------------------------- MODULE TreeReaderProofs --------------------------
(***************************************************************************)
(* What an archive of any length leaves in the store: the tree it          *)
(* describes, closed under its entries and no deeper than a dump may go;   *)
(* and that lookups and dumps of it say what the archive said.             *)
(*                                                                         *)
(* The inductive invariant, ReadInv, is in parts.  StoreInv: each object   *)
(* of the store, and each id of the tree in memory, has what it names in   *)
(* the store.  Told: the tree in memory is what the items mean, and Shaped *)
(* as a tree is.  Hashed and Put: each path has the id that its subtree    *)
(* will have, and the flush puts exactly these.  CacheOk and Answered: a   *)
(* slot of the walker is the object's or was left empty.  Dumping: what is *)
(* written, and then what the stack stands for (Renders), is the archive.  *)
(*                                                                         *)
(* Ids, archives and meanings are recursive functions; each is shown to    *)
(* exist, and to have its properties, by the least counterexample.         *)
(***************************************************************************)
EXTENDS TreeReader, FiniteSetTheorems, SequenceTheorems, WellFoundedInduction, TLAPS

-----------------------------------------------------------------------------
(* Induction over the natural numbers, by the least counterexample.        *)
LEMMA LeastNat ==
  ASSUME NEW S \in SUBSET Nat, S # {}
  PROVE  \E n \in S : \A m \in S : n <= m
<1> DEFINE R == {ss \in Nat \X Nat : ss[1] < ss[2]}
<1>1. IsWellFoundedOn(R, Nat)
  BY NatLessThanWellFounded DEF OpToRel
<1>2. \E x \in S : \A y \in S : ~ (<<y, x>> \in R)
  <2> HIDE DEF R
  <2> QED BY <1>1, WFMin
<1>3. PICK n \in S : \A m \in S : ~ (<<m, n>> \in R)
  BY <1>2
<1>4. ASSUME NEW m \in S PROVE n <= m
  <2>1. ~ (<<m, n>> \in R) /\ m \in Nat /\ n \in Nat
    BY <1>3
  <2>2. ~ (m < n)
    BY <2>1
  <2> QED BY <2>1, <2>2
<1> QED BY <1>4

LEMMA Induct ==
  ASSUME NEW S, 0 \in S, \A n \in Nat : n \in S => n + 1 \in S
  PROVE  Nat \subseteq S
<1> SUFFICES ASSUME Nat \ S # {} PROVE FALSE
  OBVIOUS
<1>1. PICK n \in Nat \ S : \A m \in Nat \ S : n <= m
  BY LeastNat
<1>2. n # 0 /\ n - 1 \in Nat /\ n - 1 \in S /\ n = (n - 1) + 1
  BY <1>1
<1> QED BY <1>1, <1>2

(* The greatest of the numbers up to n, which a fold takes off first.      *)
LEMMA MaxIs ==
  ASSUME NEW n \in Nat, NEW s \in SUBSET (1 .. n), s # {}
  PROVE  Max(s) \in s /\ \A y \in s : y <= Max(s)
<1> DEFINE B == {b \in Nat : \A y \in s : y <= b}
<1>1. n \in B
  OBVIOUS
<1>2. PICK b \in B : \A c \in B : b <= c
  BY <1>1, LeastNat
<1>3. b \in s
  <2> SUFFICES ASSUME b \notin s PROVE FALSE
    OBVIOUS
  <2>1. b \in Nat /\ \A y \in s : y \in Nat \ {0} /\ y < b
    BY <1>2
  <2>2. PICK x \in s : x \in Nat \ {0} /\ x < b
    BY <2>1
  <2>3. b - 1 \in Nat /\ \A y \in s : y <= b - 1
    BY <2>1, <2>2
  <2>4. b - 1 \in B
    BY <2>3
  <2> QED BY <1>2, <2>1, <2>4
<1>4. \E x \in s : \A y \in s : x >= y
  BY <1>2, <1>3
<1>5. \A y \in s : Max(s) \in s /\ Max(s) >= y
  BY <1>4 DEF Max
<1> QED BY <1>5

LEMMA MaxUpTo == ASSUME NEW k \in Nat \ {0} PROVE Max(1 .. k) = k
<1>1. 1 .. k \in SUBSET (1 .. k) /\ k \in 1 .. k /\ 1 .. k # {} /\ k \in Nat
  OBVIOUS
<1>2. Max(1 .. k) \in 1 .. k /\ k <= Max(1 .. k)
  BY <1>1, MaxIs
<1> QED BY <1>2

-----------------------------------------------------------------------------
(* split_path, component by component.                                     *)
Whole == [ok |-> TRUE, comps |-> <<>>]
Folded(raw, depth, n, f) ==
  \A s \in SUBSET (1 .. n) :
    f[s] = IF s = {} THEN Whole ELSE SplitStep(f[s \ {Max(s)}], raw[Max(s)], depth)

LEMMA FoldExists ==
  ASSUME NEW raw, NEW depth
  PROVE  \A n \in Nat : \E f : Folded(raw, depth, n, f)
<1> DEFINE S == {n \in Nat : \E f : Folded(raw, depth, n, f)}
<1>1. 0 \in S
  <2> DEFINE f == [s \in {{}} |-> Whole]
  <2>1. \A s \in SUBSET (1 .. 0) : s = {}
    OBVIOUS
  <2>2. f[{}] = Whole
    OBVIOUS
  <2>3. Folded(raw, depth, 0, f)
    <3> HIDE DEF f
    <3> QED BY <2>1, <2>2 DEF Folded
  <2> QED BY <2>3
<1>2. ASSUME NEW n \in Nat, n \in S PROVE n + 1 \in S
  <2>1. PICK f : Folded(raw, depth, n, f)
    BY <1>2
  <2> DEFINE step(s) == IF s = {} THEN Whole ELSE SplitStep(f[s \ {Max(s)}], raw[Max(s)], depth)
             g == [s \in SUBSET (1 .. (n + 1)) |-> step(s)]
  <2>2. ASSUME NEW s \in SUBSET (1 .. (n + 1)), s # {}
        PROVE  s \ {Max(s)} \in SUBSET (1 .. n)
    <3>1. n + 1 \in Nat
      OBVIOUS
    <3>2. Max(s) \in s /\ \A y \in s : y <= Max(s)
      BY <2>2, <3>1, MaxIs
    <3>3. ASSUME NEW y \in s \ {Max(s)} PROVE y \in 1 .. n
      <4>1. y \in 1 .. (n + 1) /\ Max(s) \in 1 .. (n + 1) /\ y <= Max(s) /\ y # Max(s)
        BY <3>2
      <4> QED BY <4>1
    <3> QED BY <3>3
  <2>3. \A s \in SUBSET (1 .. n) : f[s] = step(s)
    BY <2>1 DEF Folded
  <2>4. \A s \in SUBSET (1 .. (n + 1)) : g[s] = step(s)
    OBVIOUS
  <2>5. \A s \in SUBSET (1 .. n) : s \in SUBSET (1 .. (n + 1))
    OBVIOUS
  <2>6. \A s \in SUBSET (1 .. n) : g[s] = f[s]
    <3> HIDE DEF g, step
    <3> QED BY <2>3, <2>4, <2>5
  <2>7. \A s \in SUBSET (1 .. (n + 1)) : s # {} => g[s \ {Max(s)}] = f[s \ {Max(s)}]
    <3> HIDE DEF g, step
    <3> QED BY <2>2, <2>6
  <2>8. Folded(raw, depth, n + 1, g)
    <3> HIDE DEF g
    <3> QED BY <2>4, <2>7 DEF Folded
  <2> QED BY <2>8
<1>3. Nat \subseteq S
  <2> HIDE DEF S
  <2> QED BY <1>1, <1>2, Induct
<1> QED BY <1>3

LEMMA SplitFolds ==
  ASSUME NEW raw \in Seq(STRING), NEW depth
  PROVE  \E acc : /\ acc[0] = Whole /\ acc[Len(raw)] = SplitTo(raw, depth)
                  /\ \A k \in 1 .. Len(raw) : acc[k] = SplitStep(acc[k - 1], raw[k], depth)
<1> DEFINE N == Len(raw)
           iter == CHOOSE f : f = [s \in SUBSET DOMAIN raw |->
                     IF s = {} THEN Whole ELSE SplitStep(f[s \ {Max(s)}], raw[Max(s)], depth)]
<1>1. N \in Nat /\ DOMAIN raw = 1 .. N
  OBVIOUS
<1>2. SplitTo(raw, depth) = iter[DOMAIN raw]
  BY DEF SplitTo, FoldLeft, MapThenFoldSet, Whole
<1>3. Folded(raw, depth, N, iter)
  <2>1. PICK f : Folded(raw, depth, N, f)
    BY <1>1, FoldExists
  <2> DEFINE g == [s \in SUBSET (1 .. N) |-> f[s]]
  <2>2. \A s \in SUBSET (1 .. N) : s \ {Max(s)} \in SUBSET (1 .. N)
    OBVIOUS
  <2>3. \A s \in SUBSET (1 .. N) :
          g[s] = IF s = {} THEN Whole ELSE SplitStep(g[s \ {Max(s)}], raw[Max(s)], depth)
    <3>1. \A s \in SUBSET (1 .. N) : g[s] = f[s]
      OBVIOUS
    <3> HIDE DEF g
    <3> QED BY <2>1, <2>2, <3>1 DEF Folded
  <2>4. g = [s \in SUBSET DOMAIN raw |->
              IF s = {} THEN Whole ELSE SplitStep(g[s \ {Max(s)}], raw[Max(s)], depth)]
    <3>1. g = [s \in SUBSET (1 .. N) |-> g[s]]
      OBVIOUS
    <3> HIDE DEF g
    <3> QED BY <1>1, <2>3, <3>1
  <2>5. iter = [s \in SUBSET DOMAIN raw |->
              IF s = {} THEN Whole ELSE SplitStep(iter[s \ {Max(s)}], raw[Max(s)], depth)]
    <3> HIDE DEF g
    <3> QED BY <2>4
  <2> HIDE DEF iter
  <2> QED BY <1>1, <2>5 DEF Folded
<1> DEFINE acc == [k \in 0 .. N |-> iter[1 .. k]]
<1>4. \A k \in 0 .. N : acc[k] = iter[1 .. k] /\ 1 .. k \in SUBSET (1 .. N)
  BY <1>1
<1>5. 0 \in 0 .. N /\ N \in 0 .. N /\ 1 .. 0 = {}
  BY <1>1
<1> HIDE DEF iter, acc
<1>6. acc[0] = Whole
  BY <1>3, <1>4, <1>5 DEF Folded
<1>7. acc[N] = SplitTo(raw, depth)
  BY <1>1, <1>2, <1>4, <1>5
<1>8. ASSUME NEW k \in 1 .. N PROVE acc[k] = SplitStep(acc[k - 1], raw[k], depth)
  <2>1. /\ k \in Nat \ {0} /\ k \in 0 .. N /\ k - 1 \in 0 .. N /\ 1 .. k # {}
        /\ (1 .. k) \ {k} = 1 .. (k - 1)
    <3>1. N \in Nat /\ k \in Nat \ {0} /\ k <= N
      BY <1>1
    <3>2. k - 1 \in Nat /\ k - 1 <= N
      BY <3>1
    <3>3. \A x : x \in (1 .. k) \ {k} <=> x \in 1 .. (k - 1)
      BY <3>1
    <3>4. k \in 1 .. k
      BY <3>1
    <3>5. (1 .. k) \ {k} = 1 .. (k - 1)
      BY <3>3
    <3>6. k \in 0 .. N /\ k - 1 \in 0 .. N
      BY <3>1, <3>2
    <3> QED BY <3>1, <3>4, <3>5, <3>6
  <2>2. Max(1 .. k) = k
    BY <2>1, MaxUpTo
  <2>3. iter[1 .. k] = SplitStep(iter[(1 .. k) \ {k}], raw[k], depth)
    BY <1>3, <1>4, <2>1, <2>2 DEF Folded
  <2> QED BY <1>4, <2>1, <2>3
<1> QED BY <1>6, <1>7, <1>8

(* A path that is split is a sequence of names of the archive's own, no    *)
(* longer than a walk may go.                                              *)
SplitOf(raw) == [ok : BOOLEAN, comps : Seq(Range(raw) \ (LongNames \cup {"", ".", ".."}))]

LEMMA SplitIs ==
  ASSUME NEW raw \in Seq(STRING)
  PROVE  Split(raw) \in SplitOf(raw) /\ Len(Split(raw).comps) <= MaxTreeDepth
<1> DEFINE C == Range(raw) \ (LongNames \cup {"", ".", ".."})
           Fine(path) == path \in SplitOf(raw) /\ Len(path.comps) <= MaxTreeDepth
<1>1. PICK acc : /\ acc[0] = Whole /\ acc[Len(raw)] = SplitTo(raw, MaxTreeDepth)
                 /\ \A k \in 1 .. Len(raw) : acc[k] = SplitStep(acc[k - 1], raw[k], MaxTreeDepth)
  BY SplitFolds
<1>0. SplitOf(raw) = [ok : BOOLEAN, comps : Seq(C)] /\ MaxTreeDepth \in Nat
  BY TarAssumption DEF SplitOf
<1>2. Fine(Whole)
  <2> HIDE DEF C
  <2> QED BY <1>0 DEF Whole
<1>3. ASSUME NEW path, Fine(path), NEW comp \in Range(raw)
      PROVE  Fine(SplitStep(path, comp, MaxTreeDepth))
  <2> HIDE DEF C
  <2>1. /\ path \in [ok : BOOLEAN, comps : Seq(C)] /\ path.comps \in Seq(C) /\ path.ok \in BOOLEAN
        /\ Len(path.comps) \in Nat /\ MaxTreeDepth \in Nat
    BY <1>0, <1>3
  <2>2. ASSUME NEW cs \in Seq(C), Len(cs) <= MaxTreeDepth
        PROVE  Fine([path EXCEPT !.comps = cs])
    BY <1>0, <2>1, <2>2
  <2>3. path.comps # <<>> => /\ Front(path.comps) \in Seq(C)
                             /\ Len(Front(path.comps)) <= Len(path.comps)
    BY <2>1 DEF Front
  <2>4. Fine([path EXCEPT !.ok = FALSE])
    BY <1>0, <1>3, <2>1
  <2>5. comp \in C => /\ Append(path.comps, comp) \in Seq(C)
                      /\ Len(Append(path.comps, comp)) = Len(path.comps) + 1
    BY <2>1
  <2>6. CASE ~path.ok \/ comp \in {"", "."}
    BY <1>3, <2>6 DEF SplitStep
  <2>7. CASE path.ok /\ comp \notin {"", "."} /\ comp = ".."
    <3>1. SplitStep(path, comp, MaxTreeDepth) =
            [path EXCEPT !.comps = IF path.comps = <<>> THEN path.comps ELSE Front(path.comps)]
      BY <2>7 DEF SplitStep
    <3>2. Len(Front(path.comps)) \in Nat \/ path.comps = <<>>
      BY <2>3
    <3>3. path.comps # <<>> => Len(Front(path.comps)) <= MaxTreeDepth
      BY <1>3, <2>1, <2>3, <3>2
    <3> DEFINE cs == IF path.comps = <<>> THEN path.comps ELSE Front(path.comps)
    <3>4. cs \in Seq(C) /\ Len(cs) <= MaxTreeDepth
      BY <1>3, <2>1, <2>3, <3>3
    <3> HIDE DEF Fine, cs
    <3>5. Fine([path EXCEPT !.comps = cs])
      BY <2>2, <3>4
    <3> QED BY <3>1, <3>5 DEF cs
  <2>8. CASE /\ path.ok /\ comp \notin {"", ".", ".."}
             /\ comp \in LongNames \/ Len(path.comps) >= MaxTreeDepth
    BY <2>4, <2>8 DEF SplitStep
  <2>9. CASE /\ path.ok /\ comp \notin {"", ".", ".."}
             /\ ~(comp \in LongNames \/ Len(path.comps) >= MaxTreeDepth)
    <3>1. SplitStep(path, comp, MaxTreeDepth) = [path EXCEPT !.comps = Append(path.comps, comp)]
      BY <2>9 DEF SplitStep
    <3>2. comp \in C
      BY <2>9 DEF C
    <3>3. Len(path.comps) + 1 <= MaxTreeDepth
      <4>1. PICK n \in Nat : n = Len(path.comps)
        BY <2>1
      <4>2. ~(n >= MaxTreeDepth) /\ MaxTreeDepth \in Nat
        BY <2>1, <2>9, <4>1
      <4>3. n + 1 <= MaxTreeDepth
        BY <4>2
      <4> QED BY <4>1, <4>3
    <3> HIDE DEF Fine
    <3> QED BY <2>2, <2>5, <3>1, <3>2, <3>3
  <2> QED BY <2>6, <2>7, <2>8, <2>9
<1> DEFINE S == {n \in Nat : n <= Len(raw) => Fine(acc[n])}
<1>4. 0 \in S
  BY <1>1, <1>2
<1>5. ASSUME NEW n \in Nat, n \in S PROVE n + 1 \in S
  <2> SUFFICES ASSUME n + 1 <= Len(raw) PROVE Fine(acc[n + 1])
    OBVIOUS
  <2>1. n + 1 \in 1 .. Len(raw) /\ Fine(acc[n]) /\ (n + 1) - 1 = n
    BY <1>5
  <2>2. acc[n + 1] = SplitStep(acc[n], raw[n + 1], MaxTreeDepth) /\ raw[n + 1] \in Range(raw)
    BY <1>1, <2>1 DEF Range
  <2> HIDE DEF Fine
  <2> QED BY <1>3, <2>1, <2>2
<1>6. Nat \subseteq S
  <2> HIDE DEF S
  <2> QED BY <1>4, <1>5, Induct
<1>7. Len(raw) \in S /\ Len(raw) \in Nat
  BY <1>6
<1> QED BY <1>1, <1>7 DEF Split

-----------------------------------------------------------------------------
(* Paths.                                                                  *)
Path == {path \in Seq(STRING) : Len(path) <= MaxTreeDepth}

LEMMA AboveIs ==
  ASSUME NEW p \in Seq(STRING)
  PROVE  \A q : q \in Above(p) <=>
           /\ q \in Seq(STRING) /\ Len(q) < Len(p)
           /\ \A i \in 1 .. Len(q) : q[i] = p[i]
<1>1. \A n \in 0 .. Len(p) - 1 :
        /\ SubSeq(p, 1, n) \in Seq(STRING) /\ Len(SubSeq(p, 1, n)) = n
        /\ \A i \in 1 .. n : SubSeq(p, 1, n)[i] = p[i]
  OBVIOUS
<1>2. ASSUME NEW q \in Above(p)
      PROVE  q \in Seq(STRING) /\ Len(q) < Len(p) /\ \A i \in 1 .. Len(q) : q[i] = p[i]
  <2>1. PICK n \in 0 .. Len(p) - 1 : q = SubSeq(p, 1, n)
    BY DEF Above
  <2>2. n < Len(p) /\ Len(q) = n
    BY <1>1, <2>1
  <2> QED BY <1>1, <2>1, <2>2
<1>3. ASSUME NEW q \in Seq(STRING), Len(q) < Len(p), \A i \in 1 .. Len(q) : q[i] = p[i]
      PROVE  q \in Above(p)
  <2>1. Len(q) \in 0 .. Len(p) - 1
    BY <1>3
  <2>2. q = SubSeq(p, 1, Len(q))
    BY <1>1, <1>3, <2>1
  <2> QED BY <2>1, <2>2 DEF Above
<1> QED BY <1>2, <1>3

LEMMA AboveFacts ==
  ASSUME NEW p \in Seq(STRING)
  PROVE  /\ \A q \in Above(p) : q \in Seq(STRING) /\ Len(q) < Len(p) /\ Above(q) \subseteq Above(p)
         /\ p # <<>> => <<>> \in Above(p)
         /\ p \notin Above(p)
<1>1. ASSUME NEW q \in Above(p), NEW r \in Above(q) PROVE r \in Above(p)
  <2>1. /\ q \in Seq(STRING) /\ Len(q) < Len(p) /\ \A i \in 1 .. Len(q) : q[i] = p[i]
    BY AboveIs
  <2>2. /\ r \in Seq(STRING) /\ Len(r) < Len(q) /\ \A i \in 1 .. Len(r) : r[i] = q[i]
    BY <2>1, AboveIs
  <2>3. Len(r) < Len(p) /\ \A i \in 1 .. Len(r) : i \in 1 .. Len(q) /\ r[i] = p[i]
    BY <2>1, <2>2
  <2> QED BY <2>2, <2>3, AboveIs
<1>2. p # <<>> => <<>> \in Above(p)
  <2>1. p # <<>> => 0 \in 0 .. Len(p) - 1
    OBVIOUS
  <2>2. SubSeq(p, 1, 0) = <<>>
    OBVIOUS
  <2> QED BY <2>1, <2>2 DEF Above
<1>3. \A q \in Above(p) : q \in Seq(STRING) /\ Len(q) < Len(p)
  BY AboveIs
<1> QED BY <1>1, <1>2, <1>3

LEMMA SeqHas ==
  ASSUME NEW A, NEW s \in Seq(A)
  PROVE  /\ Len(s) \in Nat /\ \A i \in 1 .. Len(s) : s[i] \in A
         /\ s = [i \in 1 .. Len(s) |-> s[i]]
OBVIOUS

LEMMA ASeq ==
  ASSUME NEW A, NEW s, NEW n \in Nat, s = [i \in 1 .. n |-> s[i]], \A i \in 1 .. n : s[i] \in A
  PROVE  s \in Seq(A)
<1> DEFINE t == [i \in 1 .. n |-> s[i]]
<1>1. t \in [1 .. n -> A]
  OBVIOUS
<1>2. s \in [1 .. n -> A]
  BY <1>1
<1> QED BY <1>2

LEMMA SplitPath ==
  ASSUME NEW raw \in Seq(STRING)
  PROVE  Split(raw).comps \in Path /\ Split(raw).ok \in BOOLEAN
<1>1. Range(raw) \subseteq STRING
  BY DEF Range
<1>2. Split(raw).comps \in Seq(Range(raw) \ (LongNames \cup {"", ".", ".."})) /\ Split(raw).ok \in BOOLEAN
  BY SplitIs DEF SplitOf
<1>3. Split(raw).comps \in Seq(STRING)
  <2>1. PICK c : c = Split(raw).comps
    OBVIOUS
  <2>2. c \in Seq(Range(raw) \ (LongNames \cup {"", ".", ".."}))
    BY <1>2, <2>1
  <2>3. /\ Len(c) \in Nat /\ \A i \in 1 .. Len(c) : c[i] \in Range(raw)
        /\ c = [i \in 1 .. Len(c) |-> c[i]]
    <3>1. PICK A : A = Range(raw) \ (LongNames \cup {"", ".", ".."})
      OBVIOUS
    <3>2. c \in Seq(A)
      BY <2>2, <3>1
    <3>3. Len(c) \in Nat /\ (\A i \in 1 .. Len(c) : c[i] \in A) /\ c = [i \in 1 .. Len(c) |-> c[i]]
      BY <3>2, SeqHas
    <3> QED BY <3>1, <3>3
  <2>4. c \in Seq(STRING)
    BY <1>1, <2>3, ASeq
  <2> QED BY <2>1, <2>4
<1> QED BY <1>2, <1>3, SplitIs DEF Path

-----------------------------------------------------------------------------
(* The tree in memory.                                                     *)
Kinds == FileTypes \cup {"d"}
TreeType ==
  /\ <<>> \in DOMAIN tree /\ DOMAIN tree \subseteq Path
  /\ \A q \in DOMAIN tree : /\ tree[q] = [type |-> tree[q].type, id |-> tree[q].id]
                            /\ tree[q].type \in Kinds /\ Above(q) \subseteq DOMAIN tree
  /\ tree[<<>>].type = "d"
  /\ tree = [q \in DOMAIN tree |-> tree[q]]

(* Only a directory that is still to be put has no id.                     *)
IdsInv ==
  \A q \in DOMAIN tree : tree[q].id \in objects \/ (tree[q].type = "d" /\ tree[q].id = NoId)

StoreInv == TreeType /\ IdsInv /\ StoreClosed

ANode(node) == node = [type |-> node.type, id |-> node.id] /\ node.type \in Kinds

AddsTo(t, path, node) ==
  /\ DOMAIN t = DOMAIN tree \cup Above(path) \cup {path}
  /\ t = [q \in DOMAIN t |-> t[q]]
  /\ \A q \in DOMAIN tree : q # path => t[q] = tree[q]
  /\ \A q \in Above(path) \ DOMAIN tree : t[q] = Dir
  /\ \/ t[path] = node
     \/ path \in DOMAIN tree /\ t[path] = tree[path] /\ tree[path].type = "d" /\ node.type = "d"

LEMMA AddNodeIs ==
  ASSUME TreeType, NEW path \in Path, NEW node, ~Refused(path, node),
         NEW t, t = AddNode(path, node)
  PROVE  AddsTo(t, path, node)
<1>1. path \notin Above(path)
  BY AboveFacts DEF Path
<1>2. CASE path \in DOMAIN tree /\ tree[path].type = "d" /\ node.type = "d"
  <2>1. t = tree
    BY <1>2 DEF AddNode
  <2>2. Above(path) \subseteq DOMAIN tree
    BY <1>2 DEF TreeType
  <2> QED BY <1>1, <1>2, <2>1, <2>2 DEF TreeType, AddsTo
<1>3. CASE ~(path \in DOMAIN tree /\ tree[path].type = "d" /\ node.type = "d")
  <2> DEFINE u == [q \in DOMAIN tree \cup Above(path) \cup {path} |->
                     IF q = path THEN node ELSE IF q \in DOMAIN tree THEN tree[q] ELSE Dir]
  <2>1. t = u
    BY <1>3 DEF AddNode
  <2>2. /\ DOMAIN u = DOMAIN tree \cup Above(path) \cup {path}
        /\ u = [q \in DOMAIN u |-> u[q]]
        /\ u[path] = node
        /\ \A q \in DOMAIN tree : q # path => u[q] = tree[q]
        /\ \A q \in Above(path) \ DOMAIN tree : u[q] = Dir
    BY <1>1
  <2> HIDE DEF u
  <2> QED BY <2>1, <2>2 DEF AddsTo
<1> QED BY <1>2, <1>3

(* add_node keeps a tree a tree.                                           *)
LEMMA AddNodeType ==
  ASSUME TreeType, NEW path \in Path, NEW node, ANode(node), ~Refused(path, node),
         tree' = AddNode(path, node)
  PROVE  TreeType'
<1>1. /\ DOMAIN tree' = DOMAIN tree \cup Above(path) \cup {path}
      /\ tree' = [q \in DOMAIN tree' |-> tree'[q]]
      /\ \A q \in DOMAIN tree : q # path => tree'[q] = tree[q]
      /\ \A q \in Above(path) \ DOMAIN tree : tree'[q] = Dir
      /\ tree'[path] = node \/ (path \in DOMAIN tree /\ tree'[path] = tree[path])
  <2>1. PICK t : t = AddNode(path, node)
    OBVIOUS
  <2>2. /\ DOMAIN t = DOMAIN tree \cup Above(path) \cup {path}
        /\ t = [q \in DOMAIN t |-> t[q]]
        /\ \A q \in DOMAIN tree : q # path => t[q] = tree[q]
        /\ \A q \in Above(path) \ DOMAIN tree : t[q] = Dir
        /\ t[path] = node \/ (path \in DOMAIN tree /\ t[path] = tree[path])
    BY <2>1, AddNodeIs DEF AddsTo
  <2>3. tree' = t
    BY <2>1
  <2> HIDE <2>1
  <2> QED BY <2>2, <2>3
<1>2. \A q \in Above(path) : q \in Path /\ Above(q) \subseteq Above(path)
  <2>1. \A q \in Above(path) : q \in Seq(STRING) /\ Len(q) < Len(path) /\ Above(q) \subseteq Above(path)
    BY AboveFacts DEF Path
  <2>2. path \in Seq(STRING) /\ Len(path) \in Nat /\ Len(path) <= MaxTreeDepth /\ MaxTreeDepth \in Nat
    BY TarAssumption DEF Path
  <2>3. ASSUME NEW q \in Above(path) PROVE Len(q) <= MaxTreeDepth
    <3>1. Len(q) \in Nat
      BY <2>1
    <3> QED BY <2>1, <2>2, <3>1
  <2> QED BY <2>1, <2>3 DEF Path
<1>3. ASSUME NEW q \in DOMAIN tree'
      PROVE  /\ q \in Path /\ ANode(tree'[q]) /\ Above(q) \subseteq DOMAIN tree'
  <2>1. CASE q = path
    BY <1>1, <2>1 DEF TreeType, ANode
  <2>2. CASE q # path /\ q \in DOMAIN tree
    BY <1>1, <2>2 DEF TreeType, ANode
  <2>3. CASE q \in Above(path) \ DOMAIN tree
    BY <1>1, <1>2, <2>3 DEF ANode, Kinds, Dir
  <2> QED BY <1>1, <2>1, <2>2, <2>3
<1>4. <<>> \in DOMAIN tree' /\ tree'[<<>>].type = "d"
  <2>1. <<>> \in DOMAIN tree'
    BY <1>1 DEF TreeType
  <2>2. CASE path = <<>>
    <3>1. node.type = "d"
      BY <2>2 DEF Refused, TreeType
    <3> QED BY <1>1, <2>2, <3>1 DEF TreeType
  <2>3. CASE path # <<>>
    BY <1>1, <2>3 DEF TreeType
  <2> QED BY <2>1, <2>2, <2>3
<1> QED BY <1>1, <1>3, <1>4 DEF TreeType, ANode


(* What add_node leaves of the invariant, whoever calls it.                *)
LEMMA AddKeeps ==
  ASSUME TreeType, IdsInv, NEW item, NEW path \in Path, NEW node, ANode(node), Add(item, path, node),
         objects \subseteq objects', node.id \in objects' \/ node = Dir
  PROVE  TreeType' /\ IdsInv'
<1>1. CASE Refused(path, node)
  <2>1. tree' = tree
    BY <1>1 DEF Add
  <2> QED BY <2>1 DEF TreeType, IdsInv
<1>2. CASE ~Refused(path, node)
  <2>0. PICK t : t = AddNode(path, node)
    OBVIOUS
  <2>1. tree' = AddNode(path, node) /\ tree' = t
    BY <1>2, <2>0 DEF Add
  <2>2. TreeType'
    BY <1>2, <2>1, AddNodeType
  <2>3. /\ DOMAIN t = DOMAIN tree \cup Above(path) \cup {path}
        /\ \A q \in DOMAIN tree : q # path => t[q] = tree[q]
        /\ \A q \in Above(path) \ DOMAIN tree : t[q] = Dir
        /\ t[path] = node \/ (path \in DOMAIN tree /\ t[path] = tree[path])
    BY <1>2, <2>0, AddNodeIs DEF AddsTo
  <2>4. ASSUME NEW q \in DOMAIN t
        PROVE  t[q].id \in objects' \/ (t[q].type = "d" /\ t[q].id = NoId)
    <3>1. Dir.type = "d" /\ Dir.id = NoId
      BY DEF Dir
    <3>2. CASE q = path /\ t[path] = node
      BY <3>1, <3>2
    <3>3. CASE q \in DOMAIN tree /\ t[q] = tree[q]
      BY <3>3 DEF IdsInv
    <3>4. CASE q \in Above(path) \ DOMAIN tree
      BY <2>3, <3>1, <3>4
    <3> QED BY <2>3, <3>2, <3>3, <3>4
  <2>5. IdsInv'
    BY <2>1, <2>4 DEF IdsInv
  <2> QED BY <2>2, <2>5
<1> QED BY <1>1, <1>2

LEMMA ItemFacts ==
  ASSUME NEW item \in Items
  PROVE  /\ Split(item.path).comps \in Path
         /\ item.type \in FileTypes \cup {"d", "h"}
         /\ item.type = "h" => Split(item.link).comps \in Path
BY TarAssumption, SplitPath

LEMMA DirANode == ANode(Dir) /\ Dir.type = "d" /\ Dir.id = NoId
BY DEF ANode, Dir, Kinds

LEMMA ApplyStore ==
  ASSUME StoreInv, NEW item \in Items,
         ApplyDir(item) \/ ApplyFile(item) \/ ApplyLink(item) \/ ApplyFails(item)
  PROVE  StoreInv'
<1>1. CASE ApplyDir(item)
  <2>1. Add(item, Split(item.path).comps, Dir) /\ objects' = objects
    BY <1>1 DEF ApplyDir
  <2>2. TreeType' /\ IdsInv'
    BY <2>1, AddKeeps, ItemFacts, DirANode DEF StoreInv
  <2> QED BY <2>1, <2>2 DEF StoreInv, StoreClosed
<1>2. CASE ApplyFile(item)
  <2> DEFINE node == [type |-> item.type, id |-> Blob(item.data)]
  <2>1. /\ Add(item, Split(item.path).comps, node) /\ objects' = objects \cup {Blob(item.data)}
        /\ item.type \in FileTypes
    BY <1>2 DEF ApplyFile
  <2>2. ANode(node) /\ node.id \in objects'
    BY <2>1 DEF ANode, Kinds
  <2> HIDE DEF node
  <2>3. TreeType' /\ IdsInv'
    BY <2>1, <2>2, AddKeeps, ItemFacts DEF StoreInv
  <2>4. Blob(item.data).kind # "tree"
    BY DEF Blob
  <2>5. StoreClosed'
    BY <2>1, <2>4 DEF StoreInv, StoreClosed
  <2> QED BY <2>3, <2>5 DEF StoreInv
<1>3. CASE ApplyLink(item)
  <2> DEFINE target == Split(item.link).comps
             node == tree[target]
  <2>1. /\ Add(item, Split(item.path).comps, node) /\ objects' = objects
        /\ target \in DOMAIN tree /\ tree[target].type # "d"
    BY <1>3 DEF ApplyLink, Linkable
  <2>2. ANode(node) /\ node.id \in objects'
    BY <2>1 DEF StoreInv, TreeType, IdsInv, ANode
  <2> HIDE DEF node
  <2>3. TreeType' /\ IdsInv'
    BY <2>1, <2>2, AddKeeps, ItemFacts DEF StoreInv
  <2> QED BY <2>1, <2>3 DEF StoreInv, StoreClosed
<1>4. CASE ApplyFails(item)
  BY <1>4 DEF ApplyFails, StoreInv, TreeType, IdsInv, StoreClosed
<1> QED BY <1>1, <1>2, <1>3, <1>4

(* A directory is put when none below it is left to be.                    *)
LEMMA ChildIs ==
  ASSUME TreeType, NEW p \in DOMAIN tree, NEW q \in ChildrenOf(p)
  PROVE  q \in DOMAIN tree /\ p \in Above(q) /\ Len(q) = Len(p) + 1 /\ q # <<>>
<1>1. q \in DOMAIN tree /\ p \in Above(q) /\ Len(q) = Len(p) + 1
  BY DEF ChildrenOf, Below
<1>2. p \in Seq(STRING)
  BY DEF TreeType, Path
<1>3. q # <<>>
  BY <1>1, <1>2
<1> QED BY <1>1, <1>3

LEMMA EntriesPut ==
  ASSUME TreeType, IdsInv, NEW p \in DOMAIN tree, \A q \in Dirs : Len(q) <= Len(p)
  PROVE  \A e \in EntriesOf(p) : e.id \in objects
<1> SUFFICES ASSUME NEW q \in ChildrenOf(p) PROVE tree[q].id \in objects
  BY DEF EntriesOf
<1>1. q \in DOMAIN tree /\ Len(q) = Len(p) + 1 /\ Len(p) \in Nat
  BY ChildIs DEF TreeType, Path
<1>2. q \notin Dirs
  BY <1>1
<1> QED BY <1>1, <1>2 DEF IdsInv, Dirs

LEMMA FlushType ==
  ASSUME TreeType, NEW path \in DOMAIN tree, tree[path].type = "d", NEW id,
         tree' = [q \in DOMAIN tree \ Below(path) |->
                    IF q = path THEN [type |-> "d", id |-> id] ELSE tree[q]]
  PROVE  TreeType'
<1>1. PICK t : t = [q \in DOMAIN tree \ Below(path) |->
                      IF q = path THEN [type |-> "d", id |-> id] ELSE tree[q]]
  OBVIOUS
<1>2. /\ DOMAIN t = DOMAIN tree \ Below(path) /\ t = [q \in DOMAIN t |-> t[q]]
      /\ \A q \in DOMAIN t : t[q] = IF q = path THEN [type |-> "d", id |-> id] ELSE tree[q]
  BY <1>1
<1>3. \A q \in DOMAIN tree : q \in Seq(STRING)
  BY DEF TreeType, Path
<1>4. <<>> \notin Below(path) /\ path \notin Below(path)
  <2>1. <<>> \notin Below(path)
    BY <1>3, AboveFacts DEF Below, Above
  <2>2. path \notin Below(path)
    BY <1>3, AboveFacts DEF Below
  <2> QED BY <2>1, <2>2
<1>5. ASSUME NEW q \in DOMAIN t
      PROVE  q \in Path /\ ANode(t[q]) /\ Above(q) \subseteq DOMAIN t
  <2>1. q \in DOMAIN tree /\ q \notin Below(path) /\ Above(q) \subseteq DOMAIN tree /\ q \in Path
    BY <1>2 DEF TreeType
  <2>2. \A r \in Above(q) : r \notin Below(path)
    BY <1>3, <2>1, AboveFacts DEF Below
  <2>3. ANode(t[q])
    <3>1. CASE q = path
      BY <1>2, <3>1 DEF ANode, Kinds
    <3>2. CASE q # path
      BY <1>2, <2>1, <3>2 DEF TreeType, ANode
    <3> QED BY <3>1, <3>2
  <2> QED BY <1>2, <2>1, <2>2, <2>3
<1>6. <<>> \in DOMAIN t /\ t[<<>>].type = "d"
  BY <1>2, <1>4 DEF TreeType
<1>7. tree' = t
  BY <1>1
<1> HIDE <1>1
<1> QED BY <1>2, <1>5, <1>6, <1>7 DEF TreeType, ANode

LEMMA FlushStore ==
  ASSUME StoreInv, NEW path \in Dirs, FlushDir(path)
  PROVE  StoreInv'
<1> DEFINE id == TreeObject(EntriesOf(path))
<1>1. /\ path \in DOMAIN tree /\ tree[path].type = "d" /\ \A q \in Dirs : Len(q) <= Len(path)
      /\ objects' = objects \cup {id}
      /\ tree' = [q \in DOMAIN tree \ Below(path) |->
                    IF q = path THEN [type |-> "d", id |-> id] ELSE tree[q]]
  BY DEF FlushDir, Dirs
<1>2. id.entries = EntriesOf(path)
  BY DEF TreeObject
<1>3. \A e \in EntriesOf(path) : e.id \in objects
  BY <1>1, EntriesPut DEF StoreInv
<1> HIDE DEF id
<1>4. TreeType'
  BY <1>1, FlushType DEF StoreInv
<1>5. IdsInv'
  BY <1>1 DEF StoreInv, IdsInv
<1>6. StoreClosed'
  BY <1>1, <1>2, <1>3 DEF StoreInv, StoreClosed
<1> QED BY <1>4, <1>5, <1>6 DEF StoreInv

LEMMA StoreInit == ASSUME ReaderInit PROVE StoreInv
<1>1. \A q : q \notin Above(<<>>)
  BY DEF Above
<1>2. tree = [path \in {<<>>} |-> Dir] /\ objects = {}
  BY DEF ReaderInit, Init
<1>3. DOMAIN tree = {<<>>} /\ tree[<<>>] = Dir /\ tree = [q \in DOMAIN tree |-> tree[q]]
  BY <1>2
<1>4. <<>> \in Path
  BY TarAssumption DEF Path
<1>5. TreeType
  BY <1>1, <1>3, <1>4, DirANode DEF TreeType, ANode
<1> QED BY <1>2, <1>3, <1>5, DirANode DEF StoreInv, IdsInv, StoreClosed

LEMMA StoreStep == ASSUME StoreInv, [Step]_<<vars, readers>> PROVE StoreInv'
<1>1. CASE Ingest
  <2>1. CASE EndOfArchive
    BY <2>1 DEF EndOfArchive, StoreInv, TreeType, IdsInv, StoreClosed
  <2> QED BY <1>1, <2>1, ApplyStore, FlushStore DEF Ingest
<1>2. CASE <<tree, objects>>' = <<tree, objects>>
  BY <1>2 DEF StoreInv, TreeType, IdsInv, StoreClosed
<1>3. Step => Ingest \/ <<tree, objects>>' = <<tree, objects>>
  BY DEF Step, Lookup, DumpBegin, DumpStr, DumpNode, Dumps, DumpStops, Rot, vars
<1> QED BY <1>1, <1>2, <1>3 DEF vars

(* What an object of the store names is in the store, at every moment of   *)
(* an archive of any length, also of one that is refused halfway: for      *)
(* apply_item() and flush_tree() in src/src/tree.cpp.                      *)
THEOREM ObjectsClosed == Spec => []StoreClosed
<1>1. Spec => []StoreInv
  BY StoreInit, StoreStep, PTL DEF Spec
<1>2. StoreInv => StoreClosed
  BY DEF StoreInv
<1> QED BY <1>1, <1>2, PTL


-----------------------------------------------------------------------------
(* What an archive says, of any sequence of items and any account of what  *)
(* its entries stand for.                                                  *)
PathIn(g, n)     == Split(g[n].path).comps
SaidIn(g, p, up) == {n \in 1 .. up : PathIn(g, n) = p}
Target(g, n)     == SaidIn(g, Split(g[n].link).comps, n - 1)
StandsFor(g, c, n) ==
  IF g[n].type = "d" THEN Dir
  ELSE IF g[n].type = "h" THEN c[Latest(Target(g, n))]
  ELSE [type |-> g[n].type, id |-> Blob(g[n].data)]
PathsIn(g)    == {<<>>} \cup UNION {{PathIn(g, n)} \cup Above(PathIn(g, n)) : n \in DOMAIN g}
SayIn(g, c, p) == IF SaidIn(g, p, Len(g)) = {} THEN Dir ELSE c[Latest(SaidIn(g, p, Len(g)))]

(* A hard link that was accepted has an entry before it to stand for.      *)
Accepted(g) ==
  g \in Seq(Items) /\ \A n \in 1 .. Len(g) : g[n].type = "h" => Target(g, n) # {}
Account(g, c) ==
  c = [n \in 1 .. Len(g) |-> c[n]] /\ \A n \in 1 .. Len(g) : c[n] = StandsFor(g, c, n)
Means(t, g, c) == t = [p \in PathsIn(g) |-> SayIn(g, c, p)]

LEMMA LatestIs ==
  ASSUME NEW N \in Nat, NEW S \in SUBSET (1 .. N), S # {}
  PROVE  Latest(S) \in S /\ \A m \in S : m <= Latest(S)
BY MaxIs DEF Latest

LEMMA LatestTarget ==
  ASSUME NEW g, Accepted(g), NEW n \in 1 .. Len(g), g[n].type = "h"
  PROVE  Latest(Target(g, n)) \in 1 .. (n - 1)
<1>1. n - 1 \in Nat
  BY DEF Accepted
<1>2. Target(g, n) \in SUBSET (1 .. (n - 1)) /\ Target(g, n) # {}
  BY DEF Accepted, Target, SaidIn
<1> QED BY <1>1, <1>2, LatestIs

(* There is one account of an archive that was accepted, so that is what   *)
(* the recursive definition of the model says.                             *)
LEMMA OneAccount ==
  ASSUME NEW g, Accepted(g), NEW c, Account(g, c), NEW d, Account(g, d)
  PROVE  c = d
<1> DEFINE S == {n \in Nat : \A m \in 1 .. n : m <= Len(g) => c[m] = d[m]}
<1>1. 0 \in S
  OBVIOUS
<1>2. ASSUME NEW n \in Nat, n \in S PROVE n + 1 \in S
  <2> SUFFICES ASSUME n + 1 <= Len(g) PROVE c[n + 1] = d[n + 1]
    <3>1. \A m \in 1 .. (n + 1) : m \in 1 .. n \/ m = n + 1
      OBVIOUS
    <3> QED BY <1>2, <3>1
  <2>0. Len(g) \in Nat
    BY DEF Accepted
  <2>1. n + 1 \in 1 .. Len(g) /\ (n + 1) - 1 = n
    BY <2>0
  <2>2. c[n + 1] = StandsFor(g, c, n + 1) /\ d[n + 1] = StandsFor(g, d, n + 1)
    BY <2>1 DEF Account
  <2>3. CASE g[n + 1].type = "h"
    <3>1. Latest(Target(g, n + 1)) \in 1 .. n
      BY <2>1, <2>3, LatestTarget
    <3>2. c[Latest(Target(g, n + 1))] = d[Latest(Target(g, n + 1))]
      BY <1>2, <2>0, <3>1
    <3> QED BY <2>2, <2>3, <3>2 DEF StandsFor
  <2>4. CASE g[n + 1].type # "h"
    BY <2>2, <2>4 DEF StandsFor
  <2> QED BY <2>3, <2>4
<1>3. Nat \subseteq S
  <2> HIDE DEF S
  <2> QED BY <1>1, <1>2, Induct
<1>4. Len(g) \in Nat
  BY DEF Accepted
<1>5. \A m \in 1 .. Len(g) : c[m] = d[m]
  BY <1>3, <1>4
<1> QED BY <1>5 DEF Account

LEMMA MeaningIs ==
  ASSUME Accepted(given), NEW c, Account(given, c)
  PROVE  Means(Meaning, given, c)
<1>0. given \in Seq(Items) /\ DOMAIN given = 1 .. Len(given)
  BY DEF Accepted
<1> DEFINE Fits(f) == f = [n \in 1 .. Len(given) |->
             IF given[n].type = "d" THEN Dir
             ELSE IF given[n].type = "h" THEN f[Latest(Said(Split(given[n].link).comps, n - 1))]
             ELSE [type |-> given[n].type, id |-> Blob(given[n].data)]]
<1>1. Fits(c)
  BY DEF Account, StandsFor, Target, SaidIn, PathIn, Said, PathOf
<1>2. Content = CHOOSE f : f = [n \in 1 .. Len(given) |->
             IF given[n].type = "d" THEN Dir
             ELSE IF given[n].type = "h" THEN f[Latest(Said(Split(given[n].link).comps, n - 1))]
             ELSE [type |-> given[n].type, id |-> Blob(given[n].data)]]
  BY DEF Content
<1>3. Fits(Content)
  BY <1>1, <1>2
<1>4. Account(given, Content)
  <2>1. \A n \in 1 .. Len(given) : Content[n] = StandsFor(given, Content, n)
    BY <1>3 DEF StandsFor, Target, SaidIn, PathIn, Said, PathOf
  <2>2. Content = [n \in 1 .. Len(given) |-> Content[n]]
    BY <1>3
  <2> QED BY <2>1, <2>2 DEF Account
<1>5. Content = c
  BY <1>4, OneAccount
<1>6. Meaning = [p \in PathsIn(given) |-> SayIn(given, Content, p)]
  BY DEF Meaning, Paths, PathsIn, PathOf, PathIn, Said, SaidIn, SayIn
<1> QED BY <1>5, <1>6 DEF Means


(* One item more.                                                          *)
With(g, c, node) == [n \in 1 .. Len(g) + 1 |-> IF n = Len(g) + 1 THEN node ELSE c[n]]
NodeOf(g, c, item) ==
  IF item.type = "d" THEN Dir
  ELSE IF item.type = "h" THEN c[Latest(SaidIn(g, Split(item.link).comps, Len(g)))]
  ELSE [type |-> item.type, id |-> Blob(item.data)]

MoreBy(g, item, k) ==
  /\ k \in Seq(Items) /\ Len(k) = Len(g) + 1 /\ Len(g) \in Nat /\ k[Len(g) + 1] = item
  /\ \A n \in 1 .. Len(g) : k[n] = g[n] /\ PathIn(k, n) = PathIn(g, n)
  /\ \A p : \A up \in 0 .. Len(g) : SaidIn(k, p, up) = SaidIn(g, p, up)
  /\ \A n \in 1 .. Len(g) : Target(k, n) = Target(g, n)

LEMMA OneMore ==
  ASSUME NEW g, Accepted(g), NEW item \in Items, NEW k, k = Append(g, item)
  PROVE  MoreBy(g, item, k)
<1>1. /\ k \in Seq(Items) /\ Len(k) = Len(g) + 1 /\ Len(g) \in Nat /\ k[Len(g) + 1] = item
      /\ \A n \in 1 .. Len(g) : k[n] = g[n]
  BY DEF Accepted
<1>2. \A n \in 1 .. Len(g) : PathIn(k, n) = PathIn(g, n)
  BY <1>1 DEF PathIn
<1>3. ASSUME NEW p, NEW up \in 0 .. Len(g) PROVE SaidIn(k, p, up) = SaidIn(g, p, up)
  <2>1. \A n \in 1 .. up : n \in 1 .. Len(g)
    BY <1>1
  <2> QED BY <1>2, <2>1 DEF SaidIn
<1>4. ASSUME NEW n \in 1 .. Len(g) PROVE Target(k, n) = Target(g, n)
  <2>1. n - 1 \in 0 .. Len(g)
    BY <1>1
  <2> QED BY <1>1, <1>3, <2>1 DEF Target
<1> QED BY <1>1, <1>2, <1>3, <1>4 DEF MoreBy

LEMMA OneMoreAccount ==
  ASSUME NEW g, Accepted(g), NEW c, Account(g, c), NEW item \in Items, NEW k, k = Append(g, item),
         item.type = "h" => SaidIn(g, Split(item.link).comps, Len(g)) # {},
         NEW d, d = With(g, c, NodeOf(g, c, item))
  PROVE  Accepted(k) /\ Account(k, d)
<1>0. MoreBy(g, item, k)
  BY OneMore
<1> DEFINE N == Len(g) + 1
<1>1. /\ k \in Seq(Items) /\ Len(k) = N /\ Len(g) \in Nat /\ k[N] = item
      /\ \A n \in 1 .. Len(g) : k[n] = g[n] /\ Target(k, n) = Target(g, n)
      /\ \A p : \A up \in 0 .. Len(g) : SaidIn(k, p, up) = SaidIn(g, p, up)
  BY <1>0 DEF MoreBy
<1>2. Target(k, N) = SaidIn(g, Split(item.link).comps, Len(g))
  <2>1. N - 1 = Len(g) /\ Len(g) \in 0 .. Len(g)
    BY <1>1
  <2> QED BY <1>1, <2>1 DEF Target
<1>3. \A n \in 1 .. Len(k) : n \in 1 .. Len(g) \/ n = N
  BY <1>1
<1>4. Accepted(k)
  <2>1. ASSUME NEW n \in 1 .. Len(k), k[n].type = "h" PROVE Target(k, n) # {}
    <3>1. CASE n \in 1 .. Len(g)
      BY <1>1, <2>1, <3>1 DEF Accepted
    <3>2. CASE n = N
      BY <1>1, <1>2, <2>1, <3>2
    <3> QED BY <1>3, <3>1, <3>2
  <2> QED BY <1>1, <2>1 DEF Accepted
<1>5. d[N] = NodeOf(g, c, item) /\ \A n \in 1 .. Len(g) : d[n] = c[n]
  BY <1>1 DEF With
<1>6. ASSUME NEW n \in 1 .. Len(g) PROVE d[n] = StandsFor(k, d, n)
  <2>1. d[n] = StandsFor(g, c, n)
    BY <1>5 DEF Account
  <2>2. CASE g[n].type = "h"
    <3>1. Latest(Target(g, n)) \in 1 .. (n - 1)
      BY <2>2, LatestTarget
    <3>2. Latest(Target(g, n)) \in 1 .. Len(g)
      BY <1>1, <3>1
    <3>3. d[Latest(Target(k, n))] = c[Latest(Target(g, n))]
      BY <1>1, <1>5, <3>2
    <3> QED BY <1>1, <2>1, <2>2, <3>3 DEF StandsFor
  <2>3. CASE g[n].type # "h"
    BY <1>1, <2>1, <2>3 DEF StandsFor
  <2> QED BY <2>2, <2>3
<1>7. d[N] = StandsFor(k, d, N)
  <2>1. CASE item.type = "h"
    <3>1. Latest(Target(k, N)) \in 1 .. Len(g)
      <4>1. N \in 1 .. Len(k) /\ N - 1 = Len(g)
        BY <1>1
      <4>2. k[N].type = "h"
        BY <1>1, <2>1
      <4>3. Latest(Target(k, N)) \in 1 .. (N - 1)
        BY <1>4, <4>1, <4>2, LatestTarget
      <4> QED BY <4>1, <4>3
    <3>2. d[Latest(Target(k, N))] = c[Latest(Target(k, N))]
      BY <1>5, <3>1
    <3> QED BY <1>1, <1>2, <1>5, <2>1, <3>2 DEF StandsFor, NodeOf
  <2>2. CASE item.type # "h"
    BY <1>1, <1>5, <2>2 DEF StandsFor, NodeOf
  <2> QED BY <2>1, <2>2
<1>8. \A n \in 1 .. Len(k) : d[n] = StandsFor(k, d, n)
  BY <1>3, <1>6, <1>7
<1>9. d = [n \in 1 .. Len(k) |-> d[n]]
  BY <1>1 DEF With
<1> QED BY <1>4, <1>8, <1>9 DEF Account

SaysMore(g, c, k, d, path, node) ==
  /\ PathsIn(k) = PathsIn(g) \cup {path} \cup Above(path)
  /\ SayIn(k, d, path) = node
  /\ \A p \in PathsIn(g) : p # path => SayIn(k, d, p) = SayIn(g, c, p)
  /\ \A p \in PathsIn(k) \ PathsIn(g) : p # path => SayIn(k, d, p) = Dir

LEMMA OneMoreSays ==
  ASSUME NEW g, Accepted(g), NEW c, NEW item \in Items, NEW k, k = Append(g, item),
         NEW node, NEW d, d = With(g, c, node), NEW path, path = Split(item.path).comps
  PROVE  SaysMore(g, c, k, d, path, node)
<1>0. MoreBy(g, item, k)
  BY OneMore
<1> DEFINE N == Len(g) + 1
<1>1. /\ Len(k) = N /\ Len(g) \in Nat /\ k[N] = item /\ k \in Seq(Items) /\ g \in Seq(Items)
      /\ \A n \in 1 .. Len(g) : PathIn(k, n) = PathIn(g, n)
      /\ \A p : \A up \in 0 .. Len(g) : SaidIn(k, p, up) = SaidIn(g, p, up)
  BY <1>0 DEF MoreBy, Accepted
<1>2. DOMAIN k = 1 .. N /\ DOMAIN g = 1 .. Len(g) /\ PathIn(k, N) = path
  BY <1>1 DEF PathIn
<1>3. \A n : n \in 1 .. N <=> n \in 1 .. Len(g) \/ n = N
  BY <1>1
<1>4. PathsIn(k) = PathsIn(g) \cup {path} \cup Above(path)
  <2> HIDE DEF N
  <2>1. \A q : q \in PathsIn(k) <=> q = <<>> \/ \E n \in 1 .. N : q = PathIn(k, n) \/ q \in Above(PathIn(k, n))
    BY <1>2 DEF PathsIn
  <2>2. \A q : q \in PathsIn(g) <=> q = <<>> \/ \E n \in 1 .. Len(g) : q = PathIn(g, n) \/ q \in Above(PathIn(g, n))
    BY <1>2 DEF PathsIn
  <2>3. \A q : q \in PathsIn(k) <=> q \in PathsIn(g) \/ q = path \/ q \in Above(path)
    BY <1>1, <1>2, <1>3, <2>1, <2>2
  <2> QED BY <2>3
<1>5. SaidIn(k, path, N) = SaidIn(g, path, Len(g)) \cup {N}
  BY <1>1, <1>2, <1>3 DEF SaidIn
<1>6. \A p : p # path => SaidIn(k, p, N) = SaidIn(g, p, Len(g))
  BY <1>1, <1>2, <1>3 DEF SaidIn
<1>7. d[N] = node /\ \A n \in 1 .. Len(g) : d[n] = c[n]
  BY <1>1 DEF With
<1>8. SayIn(k, d, path) = node
  <2>0. N \in Nat
    BY <1>1
  <2>1. SaidIn(k, path, N) \in SUBSET (1 .. N) /\ N \in SaidIn(k, path, N)
    BY <1>5 DEF SaidIn
  <2>2. Latest(SaidIn(k, path, N)) \in 1 .. N /\ N <= Latest(SaidIn(k, path, N))
    BY <2>0, <2>1, LatestIs
  <2>3. Latest(SaidIn(k, path, N)) = N
    BY <2>0, <2>2
  <2> QED BY <1>1, <1>7, <2>1, <2>3 DEF SayIn
<1>9. ASSUME NEW p, p # path, SaidIn(g, p, Len(g)) # {}
      PROVE  SayIn(k, d, p) = SayIn(g, c, p)
  <2>1. SaidIn(g, p, Len(g)) \in SUBSET (1 .. Len(g))
    BY DEF SaidIn
  <2>2. Latest(SaidIn(g, p, Len(g))) \in 1 .. Len(g)
    BY <1>1, <1>9, <2>1, LatestIs
  <2> QED BY <1>1, <1>6, <1>7, <1>9, <2>2 DEF SayIn
<1>10. ASSUME NEW p, p # path, SaidIn(g, p, Len(g)) = {}
       PROVE  SayIn(k, d, p) = Dir /\ SayIn(g, c, p) = Dir
  BY <1>1, <1>6, <1>10 DEF SayIn
<1>11. ASSUME NEW p, p \notin PathsIn(g) PROVE SaidIn(g, p, Len(g)) = {}
  BY <1>2, <1>11 DEF PathsIn, SaidIn
<1> QED BY <1>4, <1>8, <1>9, <1>10, <1>11 DEF SaysMore


-----------------------------------------------------------------------------
(* A tree as archives describe them: what is above a node is a directory,  *)
(* and the names are those that may be read back.                          *)
NamesIn(p) == \A i \in 1 .. Len(p) : p[i] \in Names
Shaped(m) ==
  /\ m = [q \in DOMAIN m |-> m[q]]
  /\ <<>> \in DOMAIN m /\ m[<<>>].type = "d"
  /\ \A q \in DOMAIN m : /\ q \in Path /\ NamesIn(q) /\ ANode(m[q])
                         /\ m[q].type = "d" => m[q] = Dir
                         /\ \A r \in Above(q) : r \in DOMAIN m /\ m[r].type = "d"

Told(m) == Accepted(given) /\ \E c : Account(given, c) /\ Means(m, given, c)

LEMMA ToldIs == ASSUME NEW m, Told(m) PROVE m = Meaning
BY MeaningIs DEF Told, Means

LEMMA SplitNames ==
  ASSUME NEW item \in Items
  PROVE  Split(item.path).comps \in Path /\ NamesIn(Split(item.path).comps)
<1>1. PICK A : A = Range(item.path) \ (LongNames \cup {"", ".", ".."})
  OBVIOUS
<1>2. A \subseteq Names
  BY <1>1, ReaderAssumption
<1>3. PICK s : s = Split(item.path).comps
  OBVIOUS
<1>4. s \in Seq(A)
  BY <1>1, <1>3, SplitIs, TarAssumption DEF SplitOf
<1>5. \A i \in 1 .. Len(s) : s[i] \in A
  BY <1>4, SeqHas
<1>6. NamesIn(s)
  BY <1>2, <1>5 DEF NamesIn
<1> QED BY <1>3, <1>6, ItemFacts

LEMMA AboveNames ==
  ASSUME NEW p \in Path, NamesIn(p), NEW q \in Above(p)
  PROVE  q \in Path /\ NamesIn(q) /\ q # p /\ Above(q) \subseteq Above(p)
<1>1. p \in Seq(STRING) /\ Len(p) \in Nat /\ Len(p) <= MaxTreeDepth /\ MaxTreeDepth \in Nat
  BY TarAssumption DEF Path
<1>2. q \in Seq(STRING) /\ Len(q) < Len(p) /\ \A i \in 1 .. Len(q) : q[i] = p[i]
  BY <1>1, AboveIs
<1>3. Len(q) \in Nat /\ Len(q) <= MaxTreeDepth /\ \A i \in 1 .. Len(q) : i \in 1 .. Len(p)
  BY <1>1, <1>2
<1>4. NamesIn(q)
  BY <1>2, <1>3 DEF NamesIn
<1> QED BY <1>1, <1>2, <1>3, <1>4, AboveFacts DEF Path

LEMMA ShapedType == ASSUME Shaped(tree) PROVE TreeType
<1>1. \A q \in DOMAIN tree : Above(q) \subseteq DOMAIN tree
  BY DEF Shaped
<1> QED BY <1>1 DEF Shaped, TreeType, ANode

LEMMA AddNodeShape ==
  ASSUME Shaped(tree), NEW path \in Path, NamesIn(path), NEW node, ANode(node),
         node.type = "d" => node = Dir, ~Refused(path, node), NEW t, t = AddNode(path, node)
  PROVE  Shaped(t)
<1>0. TreeType
  BY ShapedType
<1>1. /\ DOMAIN t = DOMAIN tree \cup Above(path) \cup {path}
      /\ t = [q \in DOMAIN t |-> t[q]]
      /\ \A q \in DOMAIN tree : q # path => t[q] = tree[q]
      /\ \A q \in Above(path) \ DOMAIN tree : t[q] = Dir
      /\ t[path] = node \/ (path \in DOMAIN tree /\ t[path] = tree[path] /\ tree[path].type = "d"
                            /\ node.type = "d")
  <2>1. AddsTo(t, path, node)
    BY <1>0, AddNodeIs
  <2> QED BY <2>1 DEF AddsTo
<1>2. \A q \in Above(path) : q \in Path /\ NamesIn(q) /\ q # path /\ Above(q) \subseteq Above(path)
  BY AboveNames
<1>3. ASSUME NEW q \in Above(path) PROVE q \in DOMAIN t /\ t[q] = Dir
  <2>1. CASE q \in DOMAIN tree
    <3>1. tree[q].type = "d"
      BY <2>1 DEF Refused
    <3> QED BY <1>1, <1>2, <2>1, <3>1 DEF Shaped
  <2>2. CASE q \notin DOMAIN tree
    BY <1>1, <2>2
  <2> QED BY <2>1, <2>2
<1>4. ASSUME NEW q \in DOMAIN t
      PROVE  /\ q \in Path /\ NamesIn(q) /\ ANode(t[q])
             /\ t[q].type = "d" => t[q] = Dir
             /\ \A r \in Above(q) : r \in DOMAIN t /\ t[r].type = "d"
  <2>1. CASE q = path
    <3>1. \A r \in Above(q) : r \in DOMAIN t /\ t[r].type = "d"
      BY <1>3, <2>1, DirANode
    <3>2. ANode(t[q]) /\ (t[q].type = "d" => t[q] = Dir)
      BY <1>1, <2>1 DEF Shaped
    <3> QED BY <2>1, <3>1, <3>2
  <2>2. CASE q \in Above(path)
    BY <1>2, <1>3, <2>2, DirANode
  <2>3. CASE q \in DOMAIN tree /\ q # path
    <3>1. t[q] = tree[q] /\ q \in Path /\ NamesIn(q) /\ ANode(t[q]) /\ (t[q].type = "d" => t[q] = Dir)
      BY <1>1, <2>3 DEF Shaped
    <3>2. ASSUME NEW r \in Above(q) PROVE r \in DOMAIN t /\ t[r].type = "d"
      <4>1. r \in DOMAIN tree /\ tree[r].type = "d"
        BY <2>3 DEF Shaped
      <4>2. CASE r = path
        <5>1. Below(path) # {}
          BY <2>3, <4>2 DEF Below
        <5>2. node.type = "d"
          BY <4>1, <4>2, <5>1 DEF Refused
        <5> QED BY <1>1, <4>1, <4>2, <5>2
      <4>3. CASE r # path
        BY <1>1, <4>1, <4>3
      <4> QED BY <4>2, <4>3
    <3> QED BY <3>1, <3>2
  <2> QED BY <1>1, <2>1, <2>2, <2>3
<1>5. <<>> \in DOMAIN t /\ t[<<>>].type = "d"
  <2>1. CASE path = <<>>
    <3>1. node.type = "d"
      BY <2>1 DEF Refused, Shaped
    <3> QED BY <1>1, <2>1, <3>1
  <2>2. CASE path # <<>>
    BY <1>1, <2>2 DEF Shaped
  <2> QED BY <2>1, <2>2
<1> QED BY <1>1, <1>4, <1>5 DEF Shaped


-----------------------------------------------------------------------------
(* What is one name longer.                                                *)
Kids(m, p) == {q \in DOMAIN m : p \in Above(q) /\ Len(q) = Len(p) + 1}

LEMMA OneUp ==
  ASSUME NEW p \in Seq(STRING), NEW q \in Seq(STRING), p \in Above(q), Len(q) = Len(p) + 1
  PROVE  q = Append(p, Last(q)) /\ Last(q) \in STRING
<1>1. \A i \in 1 .. Len(p) : p[i] = q[i]
  BY AboveIs
<1>2. Last(q) = q[Len(p) + 1] /\ Len(p) \in Nat
  BY DEF Last
<1>3. Last(q) \in STRING
  BY <1>2
<1> DEFINE a == Append(p, Last(q))
<1>4. a \in Seq(STRING) /\ Len(a) = Len(p) + 1 /\ a[Len(p) + 1] = Last(q)
      /\ \A i \in 1 .. Len(p) : a[i] = p[i]
  BY <1>3
<1>5. \A i \in 1 .. Len(q) : a[i] = q[i]
  <2>1. \A i \in 1 .. Len(q) : i \in 1 .. Len(p) \/ i = Len(p) + 1
    BY <1>2
  <2> HIDE DEF a
  <2> QED BY <1>1, <1>2, <1>4, <2>1
<1> HIDE DEF a
<1>6. a = q
  BY <1>4, <1>5
<1> QED BY <1>3, <1>6 DEF a

LEMMA AppendIs ==
  ASSUME NEW A, NEW s \in Seq(A), NEW x \in A
  PROVE  /\ Append(s, x) \in Seq(A) /\ Len(Append(s, x)) = Len(s) + 1
         /\ Append(s, x)[Len(s) + 1] = x /\ Len(s) \in Nat
         /\ \A i \in 1 .. Len(s) : Append(s, x)[i] = s[i]
OBVIOUS

LEMMA AppendUp ==
  ASSUME NEW p \in Seq(STRING), NEW n \in STRING
  PROVE  /\ Append(p, n) \in Seq(STRING) /\ p \in Above(Append(p, n))
         /\ Len(Append(p, n)) = Len(p) + 1 /\ Last(Append(p, n)) = n
<1>0. PICK a : a = Append(p, n)
  OBVIOUS
<1>1. /\ a \in Seq(STRING) /\ Len(a) = Len(p) + 1 /\ a[Len(p) + 1] = n /\ Len(p) \in Nat
      /\ \A i \in 1 .. Len(p) : a[i] = p[i]
  BY <1>0, AppendIs
<1>2. p \in Above(a)
  <2>1. Len(p) < Len(a) /\ \A i \in 1 .. Len(p) : p[i] = a[i]
    BY <1>1
  <2> QED BY <1>1, <2>1, AboveIs
<1> QED BY <1>0, <1>1, <1>2 DEF Last

(* Two paths above a third that are as long as each other.                 *)
LEMMA SameAbove ==
  ASSUME NEW p \in Seq(STRING), NEW q \in Seq(STRING), NEW r \in Seq(STRING),
         p \in Above(r), q \in Above(r), Len(p) = Len(q)
  PROVE  p = q
<1>1. (\A i \in 1 .. Len(p) : p[i] = r[i]) /\ (\A i \in 1 .. Len(q) : q[i] = r[i])
  BY AboveIs
<1> QED BY <1>1

(* The hash each path of a tree is put under: of a directory it is the     *)
(* tree object that lists its entries.                                     *)
Listing(m, h, p) == {[name |-> Last(q), type |-> m[q].type, id |-> h[q]] : q \in Kids(m, p)}
HashOf(m, h, p)  == IF m[p].type # "d" THEN m[p].id ELSE TreeObject(Listing(m, h, p))
Hashed(m, h)     == \A p \in DOMAIN m : h[p] = HashOf(m, h, p)

LEMMA HashExists ==
  ASSUME NEW m, DOMAIN m \subseteq Path
  PROVE  \E h : Hashed(m, h)
<1> DEFINE D == MaxTreeDepth + 1
           S == {k \in Nat : \E h : \A p \in DOMAIN m : Len(p) + k >= D => h[p] = HashOf(m, h, p)}
<1>0. MaxTreeDepth \in Nat /\ \A p \in DOMAIN m : Len(p) \in Nat /\ Len(p) <= MaxTreeDepth
  BY TarAssumption DEF Path
<1>1. 0 \in S
  BY <1>0
<1>2. ASSUME NEW k \in Nat, k \in S PROVE k + 1 \in S
  <2>1. PICK h : \A p \in DOMAIN m : Len(p) + k >= D => h[p] = HashOf(m, h, p)
    BY <1>2
  <2> DEFINE g == [p \in DOMAIN m |-> IF Len(p) + k >= D THEN h[p] ELSE HashOf(m, h, p)]
  <2>2. \A p \in DOMAIN m : g[p] = IF Len(p) + k >= D THEN h[p] ELSE HashOf(m, h, p)
    OBVIOUS
  <2>3. \A p \in DOMAIN m : g[p] = HashOf(m, h, p)
    BY <2>1, <2>2
  <2> HIDE DEF g
  <2>4. ASSUME NEW p \in DOMAIN m, Len(p) + (k + 1) >= D PROVE g[p] = HashOf(m, g, p)
    <3>1. \A q \in Kids(m, p) : q \in DOMAIN m /\ Len(q) + k >= D
      BY <1>0, <2>4 DEF Kids
    <3>2. \A q \in Kids(m, p) : g[q] = h[q]
      BY <2>2, <3>1
    <3>3. Listing(m, g, p) = Listing(m, h, p)
      BY <3>2 DEF Listing
    <3> QED BY <2>3, <3>3 DEF HashOf
  <2> QED BY <2>4
<1>3. Nat \subseteq S
  <2> HIDE DEF S
  <2> QED BY <1>1, <1>2, Induct
<1>4. D \in S
  <2>1. D \in Nat
    BY <1>0
  <2> HIDE DEF S, D
  <2> QED BY <1>3, <2>1
<1>5. PICK h : \A p \in DOMAIN m : Len(p) + D >= D => h[p] = HashOf(m, h, p)
  BY <1>4
<1> QED BY <1>0, <1>5 DEF Hashed

(* What a reader may take from the entries of a directory.                 *)
Lists(m, h, p, E) ==
  /\ \A e \in E : /\ e.name \in Names /\ Append(p, e.name) \in DOMAIN m
                  /\ e.type = m[Append(p, e.name)].type /\ e.id = h[Append(p, e.name)]
                  /\ e = [name |-> e.name, type |-> e.type, id |-> e.id]
  /\ \A n \in STRING : Append(p, n) \in DOMAIN m => \E e \in E : e.name = n

LEMMA ListingIs ==
  ASSUME NEW m, Shaped(m), NEW h, Hashed(m, h), NEW p \in DOMAIN m, m[p].type = "d"
  PROVE  Lists(m, h, p, h[p].entries)
<1>0. p \in Seq(STRING) /\ Len(p) \in Nat /\ \A q \in DOMAIN m : q \in Seq(STRING) /\ NamesIn(q)
  BY DEF Shaped, Path
<1>1. h[p].entries = Listing(m, h, p)
  <2>1. h[p] = TreeObject(Listing(m, h, p))
    BY DEF Hashed, HashOf
  <2> QED BY <2>1 DEF TreeObject
<1>2. ASSUME NEW q \in Kids(m, p)
      PROVE  q \in DOMAIN m /\ q = Append(p, Last(q)) /\ Last(q) \in Names
  <2>1. q \in DOMAIN m /\ q = Append(p, Last(q)) /\ Len(q) = Len(p) + 1
    BY <1>0, OneUp DEF Kids
  <2>2. Len(q) \in 1 .. Len(q) /\ Last(q) = q[Len(q)]
    BY <1>0, <2>1 DEF Last
  <2>3. Last(q) \in Names
    BY <1>0, <2>1, <2>2 DEF NamesIn
  <2> QED BY <2>1, <2>3
<1>3. ASSUME NEW e \in Listing(m, h, p)
      PROVE  /\ e.name \in Names /\ Append(p, e.name) \in DOMAIN m
             /\ e.type = m[Append(p, e.name)].type /\ e.id = h[Append(p, e.name)]
             /\ e = [name |-> e.name, type |-> e.type, id |-> e.id]
  <2>1. PICK q \in Kids(m, p) : e = [name |-> Last(q), type |-> m[q].type, id |-> h[q]]
    BY DEF Listing
  <2>2. e.name = Last(q) /\ e.type = m[q].type /\ e.id = h[q]
        /\ e = [name |-> e.name, type |-> e.type, id |-> e.id]
    BY <2>1
  <2> QED BY <1>2, <2>2
<1>4. ASSUME NEW n \in STRING, Append(p, n) \in DOMAIN m
      PROVE  \E e \in Listing(m, h, p) : e.name = n
  <2>1. PICK q : q = Append(p, n)
    OBVIOUS
  <2>2. q \in Kids(m, p) /\ Last(q) = n
    BY <1>0, <1>4, <2>1, AppendUp DEF Kids
  <2> DEFINE e == [name |-> Last(q), type |-> m[q].type, id |-> h[q]]
  <2>3. e \in Listing(m, h, p) /\ e.name = n
    BY <2>2 DEF Listing
  <2> QED BY <2>3
<1> QED BY <1>1, <1>3, <1>4 DEF Lists


-----------------------------------------------------------------------------
(* An item that is accepted leaves the tree that the longer archive means. *)
LEMMA AcceptedTold ==
  ASSUME Accepted(given), NEW c, Account(given, c), Means(tree, given, c), Shaped(tree),
         NEW item \in Items, NEW node, node = NodeOf(given, c, item), ANode(node),
         node.type = "d" => node = Dir,
         item.type = "h" => SaidIn(given, Split(item.link).comps, Len(given)) # {},
         NEW path, path = Split(item.path).comps, ~Refused(path, node),
         given' = Append(given, item), NEW t, t = AddNode(path, node)
  PROVE  Told(t)' /\ Shaped(t)
<1>1. path \in Path /\ NamesIn(path)
  BY SplitNames
<1>2. Shaped(t)
  BY <1>1, AddNodeShape
<1>3. PICK k : k = Append(given, item)
  OBVIOUS
<1>4. PICK d : d = With(given, c, node)
  OBVIOUS
<1>5. Accepted(k) /\ Account(k, d)
  BY <1>3, <1>4, OneMoreAccount
<1>6. /\ PathsIn(k) = PathsIn(given) \cup {path} \cup Above(path)
      /\ SayIn(k, d, path) = node
      /\ \A p \in PathsIn(given) : p # path => SayIn(k, d, p) = SayIn(given, c, p)
      /\ \A p \in PathsIn(k) \ PathsIn(given) : p # path => SayIn(k, d, p) = Dir
  <2>1. SaysMore(given, c, k, d, path, node)
    BY <1>3, <1>4, OneMoreSays
  <2> QED BY <2>1 DEF SaysMore
<1>7. AddsTo(t, path, node)
  BY <1>1, ShapedType, AddNodeIs
<1>8. DOMAIN tree = PathsIn(given) /\ \A p \in DOMAIN tree : tree[p] = SayIn(given, c, p)
  BY DEF Means
<1>9. DOMAIN t = PathsIn(k) /\ t = [p \in DOMAIN t |-> t[p]]
  BY <1>6, <1>7, <1>8 DEF AddsTo
<1>10. ASSUME NEW p \in DOMAIN t PROVE t[p] = SayIn(k, d, p)
  <2>1. CASE p = path
    <3>1. t[path] = node \/ (path \in DOMAIN tree /\ t[path] = tree[path] /\ tree[path].type = "d"
                             /\ node.type = "d")
      BY <1>7 DEF AddsTo
    <3>2. path \in DOMAIN tree /\ tree[path].type = "d" => tree[path] = Dir
      BY DEF Shaped
    <3> QED BY <1>6, <2>1, <3>1, <3>2
  <2>2. CASE p # path /\ p \in DOMAIN tree
    <3>1. t[p] = tree[p]
      BY <1>7, <2>2 DEF AddsTo
    <3> QED BY <1>6, <1>8, <2>2, <3>1
  <2>3. CASE p # path /\ p \notin DOMAIN tree
    <3>1. p \in Above(path) \ DOMAIN tree
      BY <1>7, <2>3 DEF AddsTo
    <3>2. t[p] = Dir
      BY <1>7, <3>1 DEF AddsTo
    <3> QED BY <1>6, <1>8, <1>9, <2>3, <3>2
  <2> QED BY <2>1, <2>2, <2>3
<1>11. Means(t, k, d)
  BY <1>9, <1>10 DEF Means
<1>12. given' = k
  BY <1>3
<1>13. Accepted(given') /\ Account(given', d) /\ Means(t, given', d)
  BY <1>5, <1>11, <1>12
<1>14. Told(t)'
  BY <1>13 DEF Told
<1> QED BY <1>2, <1>14

(* What applying an item does, whatever its type.                          *)
LEMMA AppliedTold ==
  ASSUME Told(tree), Shaped(tree), NEW item \in Items,
         ApplyDir(item) \/ ApplyFile(item) \/ ApplyLink(item), pc' = "apply"
  PROVE  Told(tree)' /\ Shaped(tree)'
<1>1. PICK c : Account(given, c) /\ Means(tree, given, c)
  BY DEF Told
<1>2. PICK path : path = Split(item.path).comps
  OBVIOUS
<1>3. PICK node : node = NodeOf(given, c, item)
  OBVIOUS
<1>4. /\ Add(item, path, node) /\ ANode(node) /\ (node.type = "d" => node = Dir)
      /\ item.type = "h" => SaidIn(given, Split(item.link).comps, Len(given)) # {}
  <2>1. CASE ApplyDir(item)
    <3>1. item.type = "d" /\ Add(item, Split(item.path).comps, Dir)
      BY <2>1 DEF ApplyDir
    <3>2. node = Dir
      BY <1>3, <3>1 DEF NodeOf
    <3> QED BY <1>2, <3>1, <3>2, DirANode
  <2>2. CASE ApplyFile(item)
    <3>1. /\ item.type \in FileTypes
          /\ Add(item, Split(item.path).comps, [type |-> item.type, id |-> Blob(item.data)])
      BY <2>2 DEF ApplyFile
    <3>2. item.type # "d" /\ item.type # "h"
      BY <3>1 DEF FileTypes
    <3>3. node = [type |-> item.type, id |-> Blob(item.data)]
      BY <1>3, <3>2 DEF NodeOf
    <3>4. ANode(node) /\ node.type # "d"
      BY <3>1, <3>2, <3>3 DEF ANode, Kinds
    <3> QED BY <1>2, <3>1, <3>2, <3>3, <3>4
  <2>3. CASE ApplyLink(item)
    <3>1. PICK target : target = Split(item.link).comps
      OBVIOUS
    <3>2. /\ item.type = "h" /\ Add(item, path, tree[target])
          /\ target \in DOMAIN tree /\ tree[target].type # "d"
      BY <1>2, <2>3, <3>1 DEF ApplyLink, Linkable
    <3>3. tree[target] = SayIn(given, c, target)
      BY <1>1, <3>2 DEF Means
    <3>4. SaidIn(given, target, Len(given)) # {}
      BY <3>2, <3>3, DirANode DEF SayIn
    <3>5. tree[target] = node
      BY <1>3, <3>1, <3>2, <3>3, <3>4 DEF SayIn, NodeOf
    <3>6. ANode(node) /\ node.type # "d"
      BY <3>2, <3>5 DEF Shaped
    <3> QED BY <3>1, <3>2, <3>4, <3>5, <3>6
  <2> QED BY <2>1, <2>2, <2>3
<1>5. ~Refused(path, node) /\ tree' = AddNode(path, node) /\ given' = Append(given, item)
  BY <1>4 DEF Add
<1>6. PICK t : t = AddNode(path, node)
  OBVIOUS
<1>7. Told(t)' /\ Shaped(t)
  BY <1>1, <1>2, <1>3, <1>4, <1>5, <1>6, AcceptedTold DEF Told
<1>8. tree' = t
  BY <1>5, <1>6
<1>9. Told(tree)'
  BY <1>7, <1>8 DEF Told
<1> QED BY <1>7, <1>8, <1>9 DEF Shaped

LEMMA ToldInit == ASSUME ReaderInit PROVE Told(tree) /\ Shaped(tree)
<1>1. given = <<>> /\ tree = [path \in {<<>>} |-> Dir]
  BY DEF ReaderInit, Init
<1>2. DOMAIN tree = {<<>>} /\ tree[<<>>] = Dir /\ tree = [q \in DOMAIN tree |-> tree[q]]
  BY <1>1
<1>3. Shaped(tree)
  <2>1. <<>> \in Path /\ NamesIn(<<>>) /\ \A q : q \notin Above(<<>>)
    BY TarAssumption DEF Path, NamesIn, Above
  <2> QED BY <1>2, <2>1, DirANode DEF Shaped
<1>4. Accepted(given) /\ Account(given, <<>>)
  BY <1>1 DEF Accepted, Account
<1>5. Means(tree, given, <<>>)
  <2>1. PathsIn(given) = {<<>>}
    BY <1>1 DEF PathsIn
  <2>2. \A p : SayIn(given, <<>>, p) = Dir
    BY <1>1 DEF SayIn, SaidIn
  <2> QED BY <1>2, <2>1, <2>2 DEF Means
<1> QED BY <1>3, <1>4, <1>5 DEF Told


-----------------------------------------------------------------------------
(* The directories that are put have the hashes of the tree that is meant, *)
(* and one that is not yet has all its children.                           *)
Flushing(m, h) ==
  /\ DOMAIN tree \subseteq DOMAIN m
  /\ \A q \in DOMAIN tree : tree[q].type = m[q].type /\ (tree[q].id = h[q] \/ q \in Dirs)
  /\ \A q \in Dirs : Kids(m, q) \subseteq DOMAIN tree
Put(m, h) ==
  /\ pc \in {"apply", "failed", "flush", "done", "broken"}
  /\ pc = "apply" => tree = m
  /\ pc = "flush" => Flushing(m, h)
  /\ pc \in {"done", "broken"} => root = h[<<>>]

LEMMA FlushBegins ==
  ASSUME NEW m, Shaped(m), NEW h, Hashed(m, h), tree = m
  PROVE  Flushing(m, h)
<1>1. ASSUME NEW q \in DOMAIN tree PROVE tree[q].id = h[q] \/ q \in Dirs
  <2>1. CASE m[q].type = "d"
    BY <2>1, DirANode DEF Shaped, Dirs
  <2>2. CASE m[q].type # "d"
    BY <2>2 DEF Hashed, HashOf
  <2> QED BY <2>1, <2>2
<1>2. \A q : Kids(m, q) \subseteq DOMAIN tree
  BY DEF Kids
<1> QED BY <1>1, <1>2 DEF Flushing

LEMMA FlushPuts ==
  ASSUME TreeType, NEW m, Shaped(m), NEW h, Hashed(m, h), Flushing(m, h),
         NEW path \in Dirs, FlushDir(path)
  PROVE  Flushing(m, h)' /\ TreeObject(EntriesOf(path)) = h[path]
<1>1. /\ path \in DOMAIN tree /\ tree[path].type = "d" /\ \A q \in Dirs : Len(q) <= Len(path)
      /\ tree' = [q \in DOMAIN tree \ Below(path) |->
                    IF q = path THEN [type |-> "d", id |-> TreeObject(EntriesOf(path))] ELSE tree[q]]
  BY DEF FlushDir, Dirs
<1>2. \A q \in DOMAIN m : q \in Seq(STRING) /\ Len(q) \in Nat
  BY DEF Shaped, Path
<1>3. /\ DOMAIN tree \subseteq DOMAIN m /\ Kids(m, path) \subseteq DOMAIN tree /\ path \in DOMAIN m
      /\ m[path].type = "d"
  BY <1>1 DEF Flushing
<1>4. ChildrenOf(path) = Kids(m, path)
  BY <1>3 DEF ChildrenOf, Below, Kids
<1>5. ASSUME NEW q \in Kids(m, path) PROVE tree[q].type = m[q].type /\ tree[q].id = h[q]
  <2>1. q \in DOMAIN tree /\ Len(q) = Len(path) + 1 /\ Len(path) \in Nat
    BY <1>2, <1>3 DEF Kids
  <2>2. q \notin Dirs
    BY <1>1, <2>1
  <2> QED BY <2>1, <2>2 DEF Flushing
<1>6. TreeObject(EntriesOf(path)) = h[path]
  <2>1. EntriesOf(path) = Listing(m, h, path)
    BY <1>4, <1>5 DEF EntriesOf, Listing
  <2> QED BY <1>3, <2>1 DEF Hashed, HashOf
<1>7. PICK t : /\ t = tree' /\ DOMAIN t = DOMAIN tree \ Below(path)
               /\ \A q \in DOMAIN t : t[q] = IF q = path THEN [type |-> "d", id |-> h[path]] ELSE tree[q]
  BY <1>1, <1>6
<1>8. h[path] # NoId
  BY <1>6 DEF TreeObject, NoId
<1> DEFINE Left == {q \in DOMAIN t : t[q].type = "d" /\ t[q].id = NoId}
<1>9. Left \subseteq Dirs \ {path}
  BY <1>7, <1>8 DEF Dirs
<1>10. ASSUME NEW q \in DOMAIN t PROVE t[q].type = m[q].type /\ (t[q].id = h[q] \/ q \in Left)
  <2>1. CASE q = path
    BY <1>3, <1>7, <2>1
  <2>2. CASE q # path
    BY <1>7, <2>2 DEF Flushing, Dirs
  <2> QED BY <2>1, <2>2
<1>11. ASSUME NEW q \in Left, NEW r \in Kids(m, q) PROVE r \in DOMAIN t
  <2>1. q \in Dirs /\ q # path /\ r \in DOMAIN tree /\ r \in DOMAIN m /\ q \in DOMAIN m
    BY <1>3, <1>9 DEF Flushing, Kids, Dirs
  <2>2. SUFFICES ASSUME path \in Above(r) PROVE FALSE
    BY <1>7, <2>1 DEF Below
  <2>3. q \in Above(r) /\ Len(r) = Len(q) + 1 /\ Len(q) <= Len(path)
    BY <1>1, <2>1 DEF Kids
  <2>4. Len(path) < Len(r)
    BY <1>2, <2>1, <2>2, AboveFacts
  <2>5. Len(q) = Len(path)
    BY <1>2, <1>3, <2>1, <2>3, <2>4
  <2> QED BY <1>2, <1>3, <2>1, <2>2, <2>3, <2>5, SameAbove
<1>12. Dirs' = Left
  BY <1>7 DEF Dirs
<1> HIDE DEF Left
<1>13. Flushing(m, h)'
  <2>1. DOMAIN t \subseteq DOMAIN m
    BY <1>3, <1>7
  <2>2. \A q \in Left : Kids(m, q) \subseteq DOMAIN t
    BY <1>11
  <2>3. tree' = t
    BY <1>7
  <2> QED BY <1>10, <1>12, <2>1, <2>2, <2>3 DEF Flushing
<1> QED BY <1>6, <1>13

LEMMA PutFlush ==
  ASSUME TreeType, NEW m, Shaped(m), NEW h, Hashed(m, h), Put(m, h),
         NEW path \in Dirs, FlushDir(path)
  PROVE  Put(m, h)' /\ pc' \in {"flush", "done"}
<1>1. pc = "flush" /\ Flushing(m, h)
  BY DEF FlushDir, Put
<1>2. Flushing(m, h)' /\ TreeObject(EntriesOf(path)) = h[path]
  BY <1>1, FlushPuts
<1>3. CASE path = <<>>
  BY <1>2, <1>3 DEF FlushDir, Put
<1>4. CASE path # <<>>
  BY <1>1, <1>2, <1>4 DEF FlushDir, Put
<1> QED BY <1>3, <1>4


-----------------------------------------------------------------------------
(* A lookup, component by component: what is said of split_path above.     *)
Walked(raw, base, n, f) ==
  \A s \in SUBSET (1 .. n) :
    f[s] = IF s = {} THEN base ELSE Descend(f[s \ {Max(s)}], raw[Max(s)])

LEMMA WalkExists ==
  ASSUME NEW raw, NEW base
  PROVE  \A n \in Nat : \E f : Walked(raw, base, n, f)
<1> DEFINE S == {n \in Nat : \E f : Walked(raw, base, n, f)}
<1>1. 0 \in S
  <2> DEFINE f == [s \in {{}} |-> base]
  <2>1. \A s \in SUBSET (1 .. 0) : s = {}
    OBVIOUS
  <2>2. f[{}] = base
    OBVIOUS
  <2>3. Walked(raw, base, 0, f)
    <3> HIDE DEF f
    <3> QED BY <2>1, <2>2 DEF Walked
  <2> QED BY <2>3
<1>2. ASSUME NEW n \in Nat, n \in S PROVE n + 1 \in S
  <2>1. PICK f : Walked(raw, base, n, f)
    BY <1>2
  <2> DEFINE step(s) == IF s = {} THEN base ELSE Descend(f[s \ {Max(s)}], raw[Max(s)])
             g == [s \in SUBSET (1 .. (n + 1)) |-> step(s)]
  <2>2. ASSUME NEW s \in SUBSET (1 .. (n + 1)), s # {}
        PROVE  s \ {Max(s)} \in SUBSET (1 .. n)
    <3>1. n + 1 \in Nat
      OBVIOUS
    <3>2. Max(s) \in s /\ \A y \in s : y <= Max(s)
      BY <2>2, <3>1, MaxIs
    <3>3. ASSUME NEW y \in s \ {Max(s)} PROVE y \in 1 .. n
      <4>1. y \in 1 .. (n + 1) /\ Max(s) \in 1 .. (n + 1) /\ y <= Max(s) /\ y # Max(s)
        BY <3>2
      <4> QED BY <4>1
    <3> QED BY <3>3
  <2>3. \A s \in SUBSET (1 .. n) : f[s] = step(s)
    BY <2>1 DEF Walked
  <2>4. \A s \in SUBSET (1 .. (n + 1)) : g[s] = step(s)
    OBVIOUS
  <2>5. \A s \in SUBSET (1 .. n) : s \in SUBSET (1 .. (n + 1))
    OBVIOUS
  <2>6. \A s \in SUBSET (1 .. n) : g[s] = f[s]
    <3> HIDE DEF g, step
    <3> QED BY <2>3, <2>4, <2>5
  <2>7. \A s \in SUBSET (1 .. (n + 1)) : s # {} => g[s \ {Max(s)}] = f[s \ {Max(s)}]
    <3> HIDE DEF g, step
    <3> QED BY <2>2, <2>6
  <2>8. Walked(raw, base, n + 1, g)
    <3> HIDE DEF g
    <3> QED BY <2>4, <2>7 DEF Walked
  <2> QED BY <2>8
<1>3. Nat \subseteq S
  <2> HIDE DEF S
  <2> QED BY <1>1, <1>2, Induct
<1> QED BY <1>3

WalkIs(raw, base, acc) ==
  /\ acc[0] = base /\ acc[Len(raw)] = FoldLeft(Descend, base, raw)
  /\ \A k \in 1 .. Len(raw) : acc[k] = Descend(acc[k - 1], raw[k])

LEMMA WalkFolds ==
  ASSUME NEW raw \in Seq(STRING), NEW base
  PROVE  \E acc : WalkIs(raw, base, acc)
<1> DEFINE N == Len(raw)
           iter == CHOOSE f : f = [s \in SUBSET DOMAIN raw |->
                     IF s = {} THEN base ELSE Descend(f[s \ {Max(s)}], raw[Max(s)])]
<1>1. N \in Nat /\ DOMAIN raw = 1 .. N
  OBVIOUS
<1>2. FoldLeft(Descend, base, raw) = iter[DOMAIN raw]
  BY DEF FoldLeft, MapThenFoldSet
<1>3. Walked(raw, base, N, iter)
  <2>1. PICK f : Walked(raw, base, N, f)
    BY <1>1, WalkExists
  <2> DEFINE g == [s \in SUBSET (1 .. N) |-> f[s]]
  <2>2. \A s \in SUBSET (1 .. N) : s \ {Max(s)} \in SUBSET (1 .. N)
    OBVIOUS
  <2>3. \A s \in SUBSET (1 .. N) :
          g[s] = IF s = {} THEN base ELSE Descend(g[s \ {Max(s)}], raw[Max(s)])
    <3>1. \A s \in SUBSET (1 .. N) : g[s] = f[s]
      OBVIOUS
    <3> HIDE DEF g
    <3> QED BY <2>1, <2>2, <3>1 DEF Walked
  <2>4. g = [s \in SUBSET DOMAIN raw |->
              IF s = {} THEN base ELSE Descend(g[s \ {Max(s)}], raw[Max(s)])]
    <3>1. g = [s \in SUBSET (1 .. N) |-> g[s]]
      OBVIOUS
    <3> HIDE DEF g
    <3> QED BY <1>1, <2>3, <3>1
  <2>5. iter = [s \in SUBSET DOMAIN raw |->
              IF s = {} THEN base ELSE Descend(iter[s \ {Max(s)}], raw[Max(s)])]
    <3> HIDE DEF g
    <3> QED BY <2>4
  <2> HIDE DEF iter
  <2> QED BY <1>1, <2>5 DEF Walked
<1> DEFINE acc == [k \in 0 .. N |-> iter[1 .. k]]
<1>4. \A k \in 0 .. N : acc[k] = iter[1 .. k] /\ 1 .. k \in SUBSET (1 .. N)
  BY <1>1
<1>5. 0 \in 0 .. N /\ N \in 0 .. N /\ 1 .. 0 = {}
  BY <1>1
<1> HIDE DEF iter, acc
<1>6. acc[0] = base
  BY <1>3, <1>4, <1>5 DEF Walked
<1>7. acc[N] = FoldLeft(Descend, base, raw)
  BY <1>1, <1>2, <1>4, <1>5
<1>8. ASSUME NEW k \in 1 .. N PROVE acc[k] = Descend(acc[k - 1], raw[k])
  <2>1. /\ k \in Nat \ {0} /\ k \in 0 .. N /\ k - 1 \in 0 .. N /\ 1 .. k # {}
        /\ (1 .. k) \ {k} = 1 .. (k - 1)
    <3>1. N \in Nat /\ k \in Nat \ {0} /\ k <= N
      BY <1>1
    <3>2. k - 1 \in Nat /\ k - 1 <= N
      BY <3>1
    <3>3. \A x : x \in (1 .. k) \ {k} <=> x \in 1 .. (k - 1)
      BY <3>1
    <3>4. k \in 1 .. k
      BY <3>1
    <3>5. (1 .. k) \ {k} = 1 .. (k - 1)
      BY <3>3
    <3>6. k \in 0 .. N /\ k - 1 \in 0 .. N
      BY <3>1, <3>2
    <3> QED BY <3>1, <3>4, <3>5, <3>6
  <2>2. Max(1 .. k) = k
    BY <2>1, MaxUpTo
  <2>3. iter[1 .. k] = Descend(iter[(1 .. k) \ {k}], raw[k])
    BY <1>3, <1>4, <2>1, <2>2 DEF Walked
  <2> QED BY <1>4, <2>1, <2>3
<1> QED BY <1>6, <1>7, <1>8 DEF WalkIs


(* The cache of a walker holds what it read of an object, or nothing.      *)
CacheOk(c) == \A id \in DOMAIN c : c[id] = id.entries \/ c[id] = {}
Missed(c)  == \E id \in DOMAIN c : c[id] # id.entries
WalkOk(m, h, path, k, w) ==
  /\ w = [found |-> w.found, at |-> w.at, cache |-> w.cache] /\ CacheOk(w.cache)
  /\ w.found = "yes" =>
       LET p == SubSeq(path, 1, k) IN p \in DOMAIN m /\ w.at.type = m[p].type /\ w.at.id = h[p]
  /\ w.found = "no" /\ path \in DOMAIN m => Missed(w.cache)

LEMMA PrefixIs ==
  ASSUME NEW path \in Seq(STRING), NEW k \in Nat, k + 1 <= Len(path)
  PROVE  /\ SubSeq(path, 1, k) \in Seq(STRING) /\ path[k + 1] \in STRING
         /\ SubSeq(path, 1, k + 1) = Append(SubSeq(path, 1, k), path[k + 1])
         /\ SubSeq(path, 1, k) \in Above(path)
         /\ SubSeq(path, 1, k + 1) \in Above(path) \cup {path}
<1>1. Len(path) \in Nat /\ path[k + 1] \in STRING /\ SubSeq(path, 1, k) \in Seq(STRING)
  OBVIOUS
<1>2. SubSeq(path, 1, k + 1) = Append(SubSeq(path, 1, k), path[k + 1])
  OBVIOUS
<1>3. SubSeq(path, 1, k) \in Above(path)
  <2>1. k \in 0 .. Len(path) - 1
    BY <1>1
  <2> QED BY <2>1 DEF Above
<1>4. SubSeq(path, 1, k + 1) \in Above(path) \cup {path}
  <2>1. CASE k + 1 = Len(path)
    BY <2>1
  <2>2. CASE k + 1 < Len(path)
    <3>1. k + 1 \in 0 .. Len(path) - 1
      BY <1>1, <2>2
    <3> QED BY <3>1 DEF Above
  <2> QED BY <1>1, <2>1, <2>2
<1> QED BY <1>1, <1>2, <1>3, <1>4

LEMMA DescendOk ==
  ASSUME NEW m, Shaped(m), NEW h, Hashed(m, h), NEW path \in Seq(STRING), NEW k \in Nat,
         k + 1 <= Len(path), NEW w, WalkOk(m, h, path, k, w), NEW v, v = Descend(w, path[k + 1])
  PROVE  WalkOk(m, h, path, k + 1, v)
<1> DEFINE p == SubSeq(path, 1, k)
           n == path[k + 1]
           id == w.at.id
           hit == id \in DOMAIN w.cache
           E == IF hit THEN w.cache[id] ELSE IF Readable(id) THEN id.entries ELSE {}
           next == Named(E, n)
           c == [i \in DOMAIN w.cache \cup {id} |-> IF i = id THEN E ELSE w.cache[i]]
           cached == [w EXCEPT !.cache = c]
<1>1. p \in Seq(STRING) /\ n \in STRING /\ SubSeq(path, 1, k + 1) = Append(p, n) /\ p \in Above(path)
      /\ SubSeq(path, 1, k + 1) \in Above(path) \cup {path}
  BY PrefixIs
<1>2. /\ w = [found |-> w.found, at |-> w.at, cache |-> w.cache] /\ CacheOk(w.cache)
      /\ w.found = "yes" => p \in DOMAIN m /\ w.at.type = m[p].type /\ id = h[p]
      /\ w.found = "no" /\ path \in DOMAIN m => Missed(w.cache)
  BY DEF WalkOk
<1>3. CASE w.found # "yes"
  <2>1. v = w
    BY <1>3 DEF Descend
  <2> QED BY <1>2, <1>3, <2>1 DEF WalkOk
<1>4. CASE w.found = "yes" /\ w.at.type # "d"
  <2>1. v = [w EXCEPT !.found = "no"]
    BY <1>4 DEF Descend
  <2>2. v = [found |-> "no", at |-> w.at, cache |-> w.cache]
    BY <1>2, <2>1
  <2>3. path \notin DOMAIN m
    BY <1>1, <1>2, <1>4 DEF Shaped
  <2> QED BY <1>2, <2>2, <2>3 DEF WalkOk
<1>5. CASE w.found = "yes" /\ w.at.type = "d"
  <2>1. p \in DOMAIN m /\ m[p].type = "d" /\ id = h[p]
    BY <1>2, <1>5
  <2>2. Lists(m, h, p, id.entries)
    BY <2>1, ListingIs
  <2>3. E = id.entries \/ E = {}
    BY <1>2 DEF CacheOk
  <2>4. CacheOk(c) /\ DOMAIN c = DOMAIN w.cache \cup {id} /\ c[id] = E
    BY <1>2, <2>3 DEF CacheOk
  <2>5. \A e \in next : e \in E /\ e.name = n
    BY DEF Named
  <2>6. v = IF ~hit /\ ~Readable(id) THEN [cached EXCEPT !.found = "corrupt"]
            ELSE IF next = {} THEN [cached EXCEPT !.found = "no"]
            ELSE [cached EXCEPT !.at = CHOOSE e \in next : TRUE]
    BY <1>5 DEF Descend
  <2>7. next = {} <=> \A e \in E : e.name # n
    BY DEF Named
  <2> HIDE DEF E, next, c, id
  <2>8. cached = [found |-> "yes", at |-> w.at, cache |-> c]
    BY <1>2, <1>5
  <2> HIDE DEF cached, p, n
  <2>9. CASE ~hit /\ ~Readable(id)
    <3>1. v = [found |-> "corrupt", at |-> w.at, cache |-> c]
      BY <2>6, <2>8, <2>9
    <3> QED BY <2>4, <3>1 DEF WalkOk
  <2>10. CASE ~(~hit /\ ~Readable(id)) /\ next = {}
    <3>1. v = [found |-> "no", at |-> w.at, cache |-> c]
      BY <2>6, <2>8, <2>10
    <3>2. ASSUME path \in DOMAIN m PROVE Missed(c)
      <4>1. Append(p, n) \in DOMAIN m
        BY <1>1, <3>2 DEF Shaped
      <4>2. PICK e \in id.entries : e.name = n
        BY <1>1, <2>2, <4>1 DEF Lists
      <4>3. E # id.entries
        BY <2>7, <2>10, <4>2
      <4> QED BY <2>4, <4>3 DEF Missed
    <3> QED BY <2>4, <3>1, <3>2 DEF WalkOk
  <2>11. CASE ~(~hit /\ ~Readable(id)) /\ next # {}
    <3>1. PICK e : e = CHOOSE x \in next : TRUE
      OBVIOUS
    <3>2. e \in E /\ e.name = n /\ E = id.entries
      BY <2>3, <2>5, <2>11, <3>1
    <3>3. v = [found |-> "yes", at |-> e, cache |-> c]
      BY <2>6, <2>8, <2>11, <3>1
    <3>4. Append(p, n) \in DOMAIN m /\ e.type = m[Append(p, n)].type /\ e.id = h[Append(p, n)]
      BY <2>2, <3>2 DEF Lists
    <3>5. PICK s : s = SubSeq(path, 1, k + 1)
      OBVIOUS
    <3>6. s \in DOMAIN m /\ v.at.type = m[s].type /\ v.at.id = h[s]
      <4>1. s = Append(p, n)
        BY <1>1, <3>5
      <4>2. s \in DOMAIN m /\ e.type = m[s].type /\ e.id = h[s]
        BY <3>4, <4>1, Zenon
      <4>3. v.at = e
        BY <3>3
      <4> QED BY <4>2, <4>3
    <3>7. v = [found |-> v.found, at |-> v.at, cache |-> v.cache] /\ v.found = "yes" /\ v.cache = c
      BY <3>3
    <3> QED BY <2>4, <3>5, <3>6, <3>7 DEF WalkOk
  <2> QED BY <2>9, <2>10, <2>11
<1> QED BY <1>3, <1>4, <1>5

(* What TreeWalker::lookup answers.                                        *)
Answered(m, h, a, c) ==
  a # NoAnswer =>
    /\ a.found = "yes" => /\ a.path \in DOMAIN m /\ a.node.type = m[a.path].type
                          /\ a.node.id = h[a.path]
    /\ a.found = "no" /\ a.path \in DOMAIN m => Missed(c)

LEMMA LookupOk ==
  ASSUME NEW m, Shaped(m), NEW h, Hashed(m, h), CacheOk(cache), root = h[<<>>],
         NEW raw \in Seq(STRING), Lookup(raw)
  PROVE  CacheOk(cache)' /\ Answered(m, h, answer, cache)'
<1>1. PICK path : path = Split(raw).comps
  OBVIOUS
<1>2. PICK base : base = [found |-> "yes", at |-> [name |-> "", type |-> "d", id |-> root],
                          cache |-> cache]
  OBVIOUS
<1>3. path \in Seq(STRING) /\ Len(path) \in Nat
  BY <1>1, SplitPath DEF Path
<1>0. PICK acc : WalkIs(path, base, acc)
  BY <1>3, WalkFolds
<1>4. /\ acc[0] = base /\ acc[Len(path)] = FoldLeft(Descend, base, path)
      /\ \A k \in 1 .. Len(path) : acc[k] = Descend(acc[k - 1], path[k])
  BY <1>0 DEF WalkIs
<1> DEFINE S == {k \in Nat : k <= Len(path) => WalkOk(m, h, path, k, acc[k])}
<1>5. 0 \in S
  <2>1. SubSeq(path, 1, 0) = <<>>
    BY <1>3
  <2>2. <<>> \in DOMAIN m /\ m[<<>>].type = "d"
    BY DEF Shaped
  <2>3. WalkOk(m, h, path, 0, base)
    BY <1>2, <2>1, <2>2 DEF WalkOk
  <2> QED BY <1>4, <2>3
<1>6. ASSUME NEW k \in Nat, k \in S PROVE k + 1 \in S
  <2> SUFFICES ASSUME k + 1 <= Len(path) PROVE WalkOk(m, h, path, k + 1, acc[k + 1])
    OBVIOUS
  <2>1. k + 1 \in 1 .. Len(path) /\ (k + 1) - 1 = k /\ WalkOk(m, h, path, k, acc[k])
    BY <1>3, <1>6
  <2>2. acc[k + 1] = Descend(acc[k], path[k + 1])
    BY <1>4, <2>1
  <2> QED BY <1>3, <2>1, <2>2, DescendOk
<1>7. Nat \subseteq S
  <2> HIDE DEF S
  <2> QED BY <1>5, <1>6, Induct
<1>8. PICK w : w = FoldLeft(Descend, base, path)
  OBVIOUS
<1>9. WalkOk(m, h, path, Len(path), w)
  BY <1>3, <1>4, <1>7, <1>8
<1>10. SubSeq(path, 1, Len(path)) = path
  BY <1>3
<1>11. CASE Split(raw).ok
  <2>1. /\ answer' = [path |-> path, found |-> w.found, node |-> [type |-> w.at.type, id |-> w.at.id]]
        /\ cache' = w.cache
    BY <1>1, <1>2, <1>8, <1>11 DEF Lookup
  <2>2. CacheOk(cache')
    BY <1>9, <2>1 DEF WalkOk
  <2>3. Answered(m, h, answer', cache')
    BY <1>9, <1>10, <2>1 DEF Answered, WalkOk
  <2>4. CacheOk(cache)'
    BY <2>2 DEF CacheOk
  <2>5. Answered(m, h, answer, cache)'
    BY <2>3 DEF Answered, Missed
  <2> QED BY <2>4, <2>5
<1>12. CASE ~Split(raw).ok
  <2>1. answer' = NoAnswer /\ cache' = cache
    BY <1>12 DEF Lookup
  <2> QED BY <2>1 DEF CacheOk, Answered
<1> QED BY <1>11, <1>12


-----------------------------------------------------------------------------
(* FlattenSeq, from its first sequence to its last.                        *)
Flat(A, n, ss, F) ==
  /\ F[0] = <<>> /\ \A i \in 0 .. n : F[i] \in Seq(A)
  /\ \A i \in 1 .. n : F[i] = F[i - 1] \o ss[i]

LEMMA FlatExists ==
  ASSUME NEW A, NEW n \in Nat, NEW ss, \A i \in 1 .. n : ss[i] \in Seq(A)
  PROVE  \E F : Flat(A, n, ss, F)
<1> DEFINE S == {k \in Nat : k <= n => \E F : Flat(A, k, ss, F)}
<1>1. 0 \in S
  <2> DEFINE F == [i \in 0 .. 0 |-> <<>>]
  <2>1. F[0] = <<>> /\ \A i \in 0 .. 0 : F[i] \in Seq(A)
    OBVIOUS
  <2>2. \A i \in 1 .. 0 : FALSE
    OBVIOUS
  <2> HIDE DEF F
  <2>3. Flat(A, 0, ss, F)
    BY <2>1, <2>2 DEF Flat
  <2> QED BY <2>3
<1>2. ASSUME NEW k \in Nat, k \in S PROVE k + 1 \in S
  <2> SUFFICES ASSUME k + 1 <= n PROVE \E F : Flat(A, k + 1, ss, F)
    OBVIOUS
  <2>1. PICK F : Flat(A, k, ss, F)
    BY <1>2
  <2>2. k + 1 \in 1 .. n /\ ss[k + 1] \in Seq(A)
    OBVIOUS
  <2> DEFINE G == [i \in 0 .. k + 1 |-> IF i = k + 1 THEN F[k] \o ss[k + 1] ELSE F[i]]
  <2>3. G[k + 1] = F[k] \o ss[k + 1] /\ \A i \in 0 .. k : G[i] = F[i]
    OBVIOUS
  <2>4. F[k] \in Seq(A) /\ F[0] = <<>> /\ 0 \in 0 .. k /\ k \in 0 .. k
    BY <2>1 DEF Flat
  <2>5. G[k + 1] \in Seq(A)
    BY <2>2, <2>3, <2>4, ConcatProperties
  <2> HIDE DEF G
  <2>6. ASSUME NEW i \in 0 .. k + 1 PROVE G[i] \in Seq(A)
    <3>1. i \in 0 .. k \/ i = k + 1
      OBVIOUS
    <3> QED BY <2>1, <2>3, <2>5, <3>1 DEF Flat
  <2>7. ASSUME NEW i \in 1 .. k + 1 PROVE G[i] = G[i - 1] \o ss[i]
    <3>1. CASE i = k + 1
      <4>1. i - 1 = k
        BY <3>1
      <4> QED BY <2>3, <2>4, <3>1, <4>1
    <3>2. CASE i # k + 1
      <4>1. i \in 1 .. k /\ i \in 0 .. k /\ i - 1 \in 0 .. k
        BY <3>2
      <4> QED BY <2>1, <2>3, <4>1 DEF Flat
    <3> QED BY <3>1, <3>2
  <2>8. Flat(A, k + 1, ss, G)
    BY <2>3, <2>4, <2>6, <2>7 DEF Flat
  <2> QED BY <2>8
<1>3. Nat \subseteq S
  <2> HIDE DEF S
  <2> QED BY <1>1, <1>2, Induct
<1>4. n \in S
  BY <1>3
<1> QED BY <1>4

LEMMA FlatIs ==
  ASSUME NEW A, NEW n \in Nat, NEW ss, ss = [i \in 1 .. n |-> ss[i]],
         \A i \in 1 .. n : ss[i] \in Seq(A)
  PROVE  \E F : Flat(A, n, ss, F) /\ F[n] = FlattenSeq(ss)
<1>1. PICK F : Flat(A, n, ss, F)
  BY FlatExists
<1>2. ss \in [1 .. n -> Seq(A)]
  BY ASeq
<1>3. Len(ss) = n
  BY <1>2
<1>4. CASE n = 0
  <2>1. FlattenSeq(ss) = ss
    BY <1>3, <1>4 DEF FlattenSeq
  <2>2. ss = <<>>
    BY <1>2, <1>3, <1>4
  <2> QED BY <1>1, <1>4, <2>1, <2>2 DEF Flat
<1>5. CASE n # 0
  <2> DEFINE f == CHOOSE g : g = [i \in 1 .. Len(ss) |-> IF i = 1 THEN ss[i] ELSE g[i - 1] \o ss[i]]
             G == [i \in 1 .. n |-> F[i]]
  <2>1. FlattenSeq(ss) = f[Len(ss)]
    BY <1>3, <1>5 DEF FlattenSeq
  <2>2. \A i \in 1 .. n : i - 1 \in 0 .. n /\ (i # 1 => i - 1 \in 1 .. n)
    OBVIOUS
  <2>3. 1 \in 1 .. n /\ F[1] = ss[1]
    <3>1. 1 \in 1 .. n /\ 1 - 1 = 0 /\ ss[1] \in Seq(A)
      BY <1>5
    <3>2. F[1] = <<>> \o ss[1]
      BY <1>1, <3>1 DEF Flat
    <3> QED BY <3>1, <3>2, ConcatEmptySeq
  <2>4. \A i \in 1 .. n : G[i] = IF i = 1 THEN ss[i] ELSE G[i - 1] \o ss[i]
    <3>1. \A i \in 1 .. n : G[i] = F[i]
      OBVIOUS
    <3> HIDE DEF G
    <3> QED BY <1>1, <2>2, <2>3, <3>1 DEF Flat
  <2>5. G = [i \in 1 .. Len(ss) |-> IF i = 1 THEN ss[i] ELSE G[i - 1] \o ss[i]]
    <3>1. G = [i \in 1 .. n |-> G[i]]
      OBVIOUS
    <3> HIDE DEF G
    <3> QED BY <1>3, <2>4, <3>1
  <2>6. f = [i \in 1 .. Len(ss) |-> IF i = 1 THEN ss[i] ELSE f[i - 1] \o ss[i]]
    <3> HIDE DEF G
    <3> QED BY <2>5
  <2> HIDE DEF f
  <2>7. \A i \in 1 .. n : f[i] = IF i = 1 THEN ss[i] ELSE f[i - 1] \o ss[i]
    BY <1>3, <2>6
  <2> DEFINE S == {k \in Nat : k \in 1 .. n => f[k] = F[k]}
  <2>8. 0 \in S
    OBVIOUS
  <2>9. ASSUME NEW k \in Nat, k \in S PROVE k + 1 \in S
    <3> SUFFICES ASSUME k + 1 \in 1 .. n PROVE f[k + 1] = F[k + 1]
      OBVIOUS
    <3>1. (k + 1) - 1 = k
      OBVIOUS
    <3>2. CASE k = 0
      <4>1. k + 1 = 1
        BY <3>2
      <4> QED BY <2>3, <2>7, <4>1
    <3>3. CASE k # 0
      <4>1. k + 1 # 1 /\ k \in 1 .. n
        BY <3>3
      <4>2. f[k] = F[k]
        BY <2>9, <4>1
      <4>3. f[k + 1] = f[k] \o ss[k + 1]
        BY <2>7, <3>1, <4>1
      <4>4. F[k + 1] = F[k] \o ss[k + 1]
        BY <1>1, <3>1 DEF Flat
      <4> QED BY <4>2, <4>3, <4>4
    <3> QED BY <3>2, <3>3
  <2>10. Nat \subseteq S
    <3> HIDE DEF S
    <3> QED BY <2>8, <2>9, Induct
  <2>11. f[n] = F[n]
    BY <1>5, <2>10
  <2> QED BY <1>1, <1>3, <2>1, <2>11
<1> QED BY <1>4, <1>5

-----------------------------------------------------------------------------
(* The names of a directory, in the order of std::map.                     *)
LEMMA NamesAre ==
  /\ Len(NameOrder) \in Nat /\ DOMAIN NameOrder = 1 .. Len(NameOrder)
  /\ \A i \in 1 .. Len(NameOrder) : NameOrder[i] \in STRING
<1>1. NameOrder \in Seq(STRING)
  BY ReaderAssumption
<1> QED BY <1>1, LenProperties, ElementOfSeq

LEMMA RankIs ==
  ASSUME NEW n \in Names
  PROVE  Rank(n) \in 1 .. Len(NameOrder) /\ NameOrder[Rank(n)] = n
<1>1. DOMAIN NameOrder = 1 .. Len(NameOrder)
  BY NamesAre
<1>2. \E i \in DOMAIN NameOrder : NameOrder[i] = n
  BY DEF Names, Range
<1> QED BY <1>1, <1>2 DEF Rank

LEMMA NamesFinite == Names \subseteq STRING /\ IsFiniteSet(Names)
<1> DEFINE F(k) == {NameOrder[i] : i \in 1 .. k}
           S == {k \in Nat : IsFiniteSet(F(k))}
<1>1. 0 \in S
  <2>1. F(0) = {}
    OBVIOUS
  <2> QED BY <2>1, FS_EmptySet
<1>2. ASSUME NEW k \in Nat, k \in S PROVE k + 1 \in S
  <2>1. \A i : i \in 1 .. (k + 1) <=> i \in 1 .. k \/ i = k + 1
    OBVIOUS
  <2>2. F(k + 1) = F(k) \cup {NameOrder[k + 1]}
    BY <2>1
  <2>3. IsFiniteSet(F(k) \cup {NameOrder[k + 1]})
    <3>1. PICK T : T = F(k)
      OBVIOUS
    <3>2. IsFiniteSet(T \cup {NameOrder[k + 1]})
      BY <1>2, <3>1, FS_AddElement
    <3> QED BY <3>1, <3>2
  <2> QED BY <2>2, <2>3
<1>3. Nat \subseteq S
  <2> HIDE DEF S
  <2> QED BY <1>1, <1>2, Induct
<1>4. Len(NameOrder) \in Nat /\ DOMAIN NameOrder = 1 .. Len(NameOrder)
  BY NamesAre
<1>5. Names = F(Len(NameOrder))
  BY <1>4 DEF Names, Range
<1>6. Names \subseteq STRING
  BY NamesAre DEF Names, Range
<1> QED BY <1>3, <1>4, <1>5, <1>6

InOrder(S, ns) ==
  /\ ns \in [1 .. Cardinality(S) -> S]
  /\ \A i, j \in DOMAIN ns : i < j => Rank(ns[i]) < Rank(ns[j])

LEMMA OrderExists ==
  ASSUME NEW S \in SUBSET Names
  PROVE  \E ns : InOrder(S, ns)
<1> DEFINE Upto(r) == {n \in Names : Rank(n) <= r}
           R == {r \in Nat : \A T \in SUBSET Upto(r) : \E ns : InOrder(T, ns)}
<1>0. \A T \in SUBSET Names : IsFiniteSet(T) /\ Cardinality(T) \in Nat
  BY NamesFinite, FS_Subset, FS_CardinalityType
<1>1. 0 \in R
  <2> SUFFICES ASSUME NEW T \in SUBSET Upto(0) PROVE \E ns : InOrder(T, ns)
    OBVIOUS
  <2>1. \A n \in Names : Rank(n) \in Nat /\ Rank(n) > 0
    <3>1. Len(NameOrder) \in Nat
      BY NamesAre
    <3> QED BY <3>1, RankIs
  <2>2. T = {}
    BY <2>1
  <2>3. Cardinality(T) = 0
    BY <2>2, FS_EmptySet
  <2> DEFINE ns == [i \in 1 .. 0 |-> i]
  <2>4. ns \in [1 .. 0 -> T] /\ DOMAIN ns = 1 .. 0 /\ \A i \in 1 .. 0 : FALSE
    OBVIOUS
  <2>5. InOrder(T, ns)
    <3> HIDE DEF ns
    <3> QED BY <2>3, <2>4 DEF InOrder
  <2> QED BY <2>5
<1>2. ASSUME NEW r \in Nat, r \in R PROVE r + 1 \in R
  <2> SUFFICES ASSUME NEW T \in SUBSET Upto(r + 1) PROVE \E ns : InOrder(T, ns)
    OBVIOUS
  <2>0. \A n \in Names : Rank(n) \in Nat
    <3>1. Len(NameOrder) \in Nat
      BY NamesAre
    <3> QED BY <3>1, RankIs
  <2>1. CASE \A n \in T : Rank(n) # r + 1
    <3>1. T \in SUBSET Upto(r)
      BY <2>0, <2>1
    <3> QED BY <1>2, <3>1
  <2>2. CASE \E n \in T : Rank(n) = r + 1
    <3>1. PICK x \in T : Rank(x) = r + 1
      BY <2>2
    <3> DEFINE V == T \ {x}
    <3>2. x \in Names /\ T \subseteq Names
      OBVIOUS
    <3>3. \A n \in V : Rank(n) # r + 1 /\ n \in Names /\ Rank(n) \in Nat /\ Rank(n) <= r
      <4>1. ASSUME NEW n \in V PROVE Rank(n) # r + 1
        BY <3>1, <3>2, RankIs
      <4> QED BY <2>0, <4>1
    <3>4. V \in SUBSET Upto(r)
      BY <3>3
    <3>5. PICK ns : InOrder(V, ns)
      BY <1>2, <3>4
    <3>6. PICK N \in Nat : N = Cardinality(V)
      BY <1>0, <3>2
    <3>7. Cardinality(T) = N + 1
      <4>1. IsFiniteSet(T) /\ Cardinality(T) \in Nat
        BY <1>0, <3>2
      <4>2. Cardinality(V) = Cardinality(T) - 1
        BY <4>1, FS_RemoveElement
      <4> QED BY <3>6, <4>1, <4>2
    <3> HIDE DEF V
    <3>8. ns \in [1 .. N -> V] /\ DOMAIN ns = 1 .. N
          /\ \A i, j \in 1 .. N : i < j => Rank(ns[i]) < Rank(ns[j])
      BY <3>5, <3>6 DEF InOrder
    <3> DEFINE u == [i \in 1 .. N + 1 |-> IF i = N + 1 THEN x ELSE ns[i]]
    <3>9. u[N + 1] = x /\ (\A i \in 1 .. N : u[i] = ns[i]) /\ DOMAIN u = 1 .. N + 1
      OBVIOUS
    <3>10. u \in [1 .. N + 1 -> T]
      <4>1. \A i \in 1 .. N + 1 : i # N + 1 => i \in 1 .. N
        OBVIOUS
      <4>2. \A i \in 1 .. N : ns[i] \in T
        BY <3>8 DEF V
      <4> QED BY <4>1, <4>2
    <3> HIDE DEF u
    <3>11. ASSUME NEW i \in 1 .. N + 1, NEW j \in 1 .. N + 1, i < j
           PROVE  Rank(u[i]) < Rank(u[j])
      <4>1. i \in 1 .. N
        BY <3>11
      <4>2. CASE j = N + 1
        <5>1. ns[i] \in V
          BY <3>8, <4>1
        <5>2. Rank(ns[i]) \in Nat /\ Rank(ns[i]) <= r
          BY <3>3, <5>1
        <5> QED BY <3>1, <3>9, <4>1, <4>2, <5>2
      <4>3. CASE j # N + 1
        <5>1. j \in 1 .. N
          BY <4>3
        <5> QED BY <3>8, <3>9, <3>11, <4>1, <5>1
      <4> QED BY <4>2, <4>3
    <3>12. InOrder(T, u)
      BY <3>7, <3>9, <3>10, <3>11 DEF InOrder
    <3> QED BY <3>12
  <2> QED BY <2>1, <2>2
<1>3. Nat \subseteq R
  <2> HIDE DEF R
  <2> QED BY <1>1, <1>2, Induct
<1>4. Len(NameOrder) \in Nat /\ S \in SUBSET Upto(Len(NameOrder))
  <2>1. Len(NameOrder) \in Nat
    BY NamesAre
  <2> QED BY <2>1, RankIs
<1> QED BY <1>3, <1>4

LEMMA OrderedIs ==
  ASSUME NEW S \in SUBSET Names
  PROVE  InOrder(S, Ordered(S))
<1>1. \E ns \in [1 .. Cardinality(S) -> S] : \A i, j \in DOMAIN ns : i < j => Rank(ns[i]) < Rank(ns[j])
  BY OrderExists DEF InOrder
<1> QED BY <1>1 DEF Ordered, InOrder


-----------------------------------------------------------------------------
(* What nar_dump() writes of each path of a tree.                          *)
NamesOf(m, p)     == {n \in Names : Append(p, n) \in DOMAIN m}
EntryNars(m, f, p) ==
  LET names == Ordered(NamesOf(m, p))
  IN [i \in DOMAIN names |-> EntryNar(names[i], f[Append(p, names[i])])]
NarStep(m, f, p) ==
  <<"(", "type">> \o
  IF m[p].type # "d" THEN Leaf(m[p].type, m[p].id.data)
  ELSE <<"directory">> \o FlattenSeq(EntryNars(m, f, p)) \o <<")">>
Words ==
  STRING \cup {"nix-archive-1", "(", ")", "type", "directory", "entry", "name", "node", "symlink",
               "target", "regular", "executable", "", "contents"}
Strings(m)    == Words \cup {m[p].id.data : p \in DOMAIN m}
NarFits(m, f) == \A p \in DOMAIN m : f[p] = NarStep(m, f, p)
Narred(m, f)  == NarFits(m, f) /\ \A p \in DOMAIN m : f[p] \in Seq(Strings(m))

LEMMA Tuples ==
  ASSUME NEW A, NEW a \in A, NEW b \in A, NEW c \in A, NEW d \in A, NEW e \in A
  PROVE  /\ <<a>> \in Seq(A) /\ <<a, b>> \in Seq(A) /\ <<a, b, c, d>> \in Seq(A)
         /\ <<a, b, c, d, e>> \in Seq(A)
OBVIOUS

LEMMA LeafIs ==
  ASSUME NEW A, Words \subseteq A, NEW t \in FileTypes, NEW d \in A
  PROVE  Leaf(t, d) \in Seq(A)
<1>1. <<d, ")">> \in Seq(A) /\ <<"symlink", "target">> \in Seq(A) /\ <<"regular", "contents">> \in Seq(A)
      /\ <<"regular", "executable", "", "contents">> \in Seq(A)
  <2>1. /\ ")" \in A /\ "symlink" \in A /\ "target" \in A /\ "regular" \in A /\ "contents" \in A
        /\ "executable" \in A /\ "" \in A
    BY DEF Words
  <2> QED BY <2>1, Tuples
<1>2. CASE t = "s"
  <2>1. Leaf(t, d) = <<"symlink", "target">> \o <<d, ")">>
    BY <1>2 DEF Leaf
  <2> QED BY <1>1, <2>1, ConcatProperties
<1>3. CASE t = "x"
  <2>1. Leaf(t, d) = <<"regular", "executable", "", "contents">> \o <<d, ")">>
    BY <1>3 DEF Leaf
  <2> QED BY <1>1, <2>1, ConcatProperties
<1>4. CASE t = "r"
  <2>1. Leaf(t, d) = <<"regular", "contents">> \o <<d, ")">>
    BY <1>4 DEF Leaf
  <2> QED BY <1>1, <2>1, ConcatProperties
<1> QED BY <1>2, <1>3, <1>4 DEF FileTypes

LEMMA EntryNarIs ==
  ASSUME NEW A, Words \subseteq A, NEW n \in STRING, NEW s \in Seq(A)
  PROVE  EntryNar(n, s) \in Seq(A)
<1>1. <<"entry", "(", "name", n, "node">> \in Seq(A) /\ <<")">> \in Seq(A)
  <2>1. "entry" \in A /\ "(" \in A /\ "name" \in A /\ n \in A /\ "node" \in A /\ ")" \in A
    BY DEF Words
  <2> QED BY <2>1, Tuples
<1>2. <<"entry", "(", "name", n, "node">> \o s \in Seq(A)
  BY <1>1, ConcatProperties
<1> QED BY <1>1, <1>2, ConcatProperties DEF EntryNar

(* The entries of a directory: how many, and which path each is of.        *)
LEMMA DirNames ==
  ASSUME NEW m, Shaped(m), NEW p \in DOMAIN m, NEW names, names = Ordered(NamesOf(m, p))
  PROVE  /\ Len(names) \in Nat /\ DOMAIN names = 1 .. Len(names)
         /\ \A i \in 1 .. Len(names) :
              /\ names[i] \in NamesOf(m, p) /\ names[i] \in STRING
              /\ Append(p, names[i]) \in Kids(m, p)
<1>1. InOrder(NamesOf(m, p), names)
  BY OrderedIs DEF NamesOf
<1>2. Cardinality(NamesOf(m, p)) \in Nat
  BY NamesFinite, FS_Subset, FS_CardinalityType DEF NamesOf
<1>3. names \in [1 .. Cardinality(NamesOf(m, p)) -> NamesOf(m, p)]
  BY <1>1 DEF InOrder
<1>4. Len(names) = Cardinality(NamesOf(m, p))
  BY <1>2, <1>3
<1>5. p \in Seq(STRING)
  BY DEF Shaped, Path
<1>6. ASSUME NEW n \in NamesOf(m, p) PROVE n \in STRING /\ Append(p, n) \in Kids(m, p)
  <2>1. n \in STRING /\ Append(p, n) \in DOMAIN m
    BY NamesFinite DEF NamesOf
  <2>2. p \in Above(Append(p, n)) /\ Len(Append(p, n)) = Len(p) + 1
    BY <1>5, <2>1, AppendUp
  <2> QED BY <2>1, <2>2 DEF Kids
<1> QED BY <1>2, <1>3, <1>4, <1>6

LEMMA EntryNarsIs ==
  ASSUME NEW m, Shaped(m), NEW f, NEW p \in DOMAIN m,
         \A q \in Kids(m, p) : f[q] \in Seq(Strings(m)),
         NEW names, names = Ordered(NamesOf(m, p)), NEW es, es = EntryNars(m, f, p)
  PROVE  /\ es = [i \in 1 .. Len(names) |-> es[i]]
         /\ \A i \in 1 .. Len(names) : es[i] = EntryNar(names[i], f[Append(p, names[i])])
         /\ \A i \in 1 .. Len(names) : es[i] \in Seq(Strings(m))
<1>1. /\ Len(names) \in Nat /\ DOMAIN names = 1 .. Len(names)
      /\ \A i \in 1 .. Len(names) : names[i] \in STRING /\ Append(p, names[i]) \in Kids(m, p)
  BY DirNames
<1>2. es = [i \in 1 .. Len(names) |-> EntryNar(names[i], f[Append(p, names[i])])]
  BY <1>1 DEF EntryNars
<1>3. Words \subseteq Strings(m)
  BY DEF Strings
<1>4. ASSUME NEW i \in 1 .. Len(names)
      PROVE  es[i] = EntryNar(names[i], f[Append(p, names[i])]) /\ es[i] \in Seq(Strings(m))
  <2>1. PICK A : A = Strings(m)
    OBVIOUS
  <2>2. names[i] \in STRING /\ f[Append(p, names[i])] \in Seq(A)
    BY <1>1, <2>1
  <2>3. EntryNar(names[i], f[Append(p, names[i])]) \in Seq(A)
    BY <1>3, <2>1, <2>2, EntryNarIs
  <2> QED BY <1>2, <2>1, <2>3
<1> QED BY <1>2, <1>4

LEMMA NarStepIs ==
  ASSUME NEW m, Shaped(m), NEW f, NEW p \in DOMAIN m, \A q \in Kids(m, p) : f[q] \in Seq(Strings(m))
  PROVE  NarStep(m, f, p) \in Seq(Strings(m))
<1>1. PICK A : A = Strings(m)
  OBVIOUS
<1>2. Words \subseteq A /\ m[p].id.data \in A
  BY <1>1 DEF Strings
<1>3. <<"(", "type">> \in Seq(A) /\ <<"directory">> \in Seq(A) /\ <<")">> \in Seq(A)
  <2>1. "(" \in A /\ "type" \in A /\ "directory" \in A /\ ")" \in A
    BY <1>2 DEF Words
  <2> QED BY <2>1, Tuples
<1>4. CASE m[p].type # "d"
  <2>1. m[p].type \in FileTypes
    BY <1>4 DEF Shaped, ANode, Kinds
  <2>2. PICK l : l = Leaf(m[p].type, m[p].id.data)
    OBVIOUS
  <2>3. l \in Seq(A)
    BY <1>2, <2>1, <2>2, LeafIs
  <2>4. NarStep(m, f, p) = <<"(", "type">> \o l
    BY <1>4, <2>2 DEF NarStep
  <2> QED BY <1>1, <1>3, <2>3, <2>4, ConcatProperties
<1>5. CASE m[p].type = "d"
  <2>1. PICK names : names = Ordered(NamesOf(m, p))
    OBVIOUS
  <2>2. PICK es : es = EntryNars(m, f, p)
    OBVIOUS
  <2>3. Len(names) \in Nat
    BY <2>1, DirNames
  <2>4. /\ es = [i \in 1 .. Len(names) |-> es[i]]
        /\ \A i \in 1 .. Len(names) : es[i] \in Seq(A)
    BY <1>1, <2>1, <2>2, EntryNarsIs
  <2>5. PICK F : Flat(A, Len(names), es, F) /\ F[Len(names)] = FlattenSeq(es)
    BY <2>3, <2>4, FlatIs
  <2>6. PICK s : s = FlattenSeq(es)
    OBVIOUS
  <2>7. s \in Seq(A)
    BY <2>3, <2>5, <2>6 DEF Flat
  <2>8. NarStep(m, f, p) = <<"(", "type">> \o (<<"directory">> \o s \o <<")">>)
    BY <1>5, <2>2, <2>6 DEF NarStep
  <2>9. <<"directory">> \o s \in Seq(A)
    BY <1>3, <2>7, ConcatProperties
  <2>10. (<<"directory">> \o s) \o <<")">> \in Seq(A)
    BY <1>3, <2>9, ConcatProperties
  <2> QED BY <1>1, <1>3, <2>8, <2>10, ConcatProperties
<1> QED BY <1>4, <1>5


LEMMA NarStepSame ==
  ASSUME NEW m, Shaped(m), NEW f, NEW g, NEW p \in DOMAIN m, \A q \in Kids(m, p) : f[q] = g[q]
  PROVE  NarStep(m, f, p) = NarStep(m, g, p)
<1>1. PICK names : names = Ordered(NamesOf(m, p))
  OBVIOUS
<1>2. /\ DOMAIN names = 1 .. Len(names)
      /\ \A i \in 1 .. Len(names) : Append(p, names[i]) \in Kids(m, p)
  BY <1>1, DirNames
<1>3. \A i \in DOMAIN names : f[Append(p, names[i])] = g[Append(p, names[i])]
  BY <1>2
<1>4. EntryNars(m, f, p) = EntryNars(m, g, p)
  BY <1>1, <1>3 DEF EntryNars
<1> QED BY <1>4 DEF NarStep

LEMMA NarExists ==
  ASSUME NEW m, Shaped(m)
  PROVE  \E f : NarFits(m, f)
<1> DEFINE D == MaxTreeDepth + 1
           S == {k \in Nat : \E f : \A p \in DOMAIN m : Len(p) + k >= D => f[p] = NarStep(m, f, p)}
<1>0. MaxTreeDepth \in Nat /\ \A p \in DOMAIN m : Len(p) \in Nat /\ Len(p) <= MaxTreeDepth
  BY TarAssumption DEF Shaped, Path
<1>1. 0 \in S
  BY <1>0
<1>2. ASSUME NEW k \in Nat, k \in S PROVE k + 1 \in S
  <2>1. PICK f : \A p \in DOMAIN m : Len(p) + k >= D => f[p] = NarStep(m, f, p)
    BY <1>2
  <2> DEFINE g == [p \in DOMAIN m |-> IF Len(p) + k >= D THEN f[p] ELSE NarStep(m, f, p)]
  <2>2. \A p \in DOMAIN m : g[p] = IF Len(p) + k >= D THEN f[p] ELSE NarStep(m, f, p)
    OBVIOUS
  <2>3. \A p \in DOMAIN m : g[p] = NarStep(m, f, p)
    BY <2>1, <2>2
  <2> HIDE DEF g
  <2>4. ASSUME NEW p \in DOMAIN m, Len(p) + (k + 1) >= D PROVE g[p] = NarStep(m, g, p)
    <3>1. \A q \in Kids(m, p) : q \in DOMAIN m /\ Len(q) + k >= D
      BY <1>0, <2>4 DEF Kids
    <3>2. \A q \in Kids(m, p) : f[q] = g[q]
      BY <2>2, <3>1
    <3>3. NarStep(m, f, p) = NarStep(m, g, p)
      BY <3>2, NarStepSame
    <3> QED BY <2>3, <3>3
  <2> QED BY <2>4
<1>3. Nat \subseteq S
  <2> HIDE DEF S
  <2> QED BY <1>1, <1>2, Induct
<1>4. D \in S
  <2>1. D \in Nat
    BY <1>0
  <2> HIDE DEF S, D
  <2> QED BY <1>3, <2>1
<1>5. PICK f : \A p \in DOMAIN m : Len(p) + D >= D => f[p] = NarStep(m, f, p)
  BY <1>4
<1> QED BY <1>0, <1>5 DEF NarFits

LEMMA NarIsWords ==
  ASSUME NEW m, Shaped(m), NEW f, NarFits(m, f)
  PROVE  Narred(m, f)
<1> DEFINE D == MaxTreeDepth + 1
           S == {k \in Nat : \A p \in DOMAIN m : Len(p) + k >= D => f[p] \in Seq(Strings(m))}
<1>0. MaxTreeDepth \in Nat /\ \A p \in DOMAIN m : Len(p) \in Nat /\ Len(p) <= MaxTreeDepth
  BY TarAssumption DEF Shaped, Path
<1>1. 0 \in S
  BY <1>0
<1>2. ASSUME NEW k \in Nat, k \in S PROVE k + 1 \in S
  <2>1. ASSUME NEW p \in DOMAIN m, Len(p) + (k + 1) >= D PROVE f[p] \in Seq(Strings(m))
    <3>1. \A q \in Kids(m, p) : q \in DOMAIN m /\ Len(q) + k >= D
      BY <1>0, <2>1 DEF Kids
    <3>2. \A q \in Kids(m, p) : f[q] \in Seq(Strings(m))
      BY <1>2, <3>1
    <3>3. NarStep(m, f, p) \in Seq(Strings(m))
      BY <3>2, NarStepIs
    <3> QED BY <3>3 DEF NarFits
  <2> QED BY <2>1
<1>3. Nat \subseteq S
  <2> HIDE DEF S
  <2> QED BY <1>1, <1>2, Induct
<1>4. D \in S
  <2>1. D \in Nat
    BY <1>0
  <2> HIDE DEF S, D
  <2> QED BY <1>3, <2>1
<1>5. \A p \in DOMAIN m : Len(p) + D >= D => f[p] \in Seq(Strings(m))
  BY <1>4
<1> QED BY <1>0, <1>5 DEF Narred

LEMMA NarOfFits ==
  ASSUME Shaped(Meaning)
  PROVE  Narred(Meaning, NarOf)
<1>1. PICK f : NarFits(Meaning, f)
  BY NarExists
<1> DEFINE g == [p \in DOMAIN Meaning |-> f[p]]
<1>2. \A p \in DOMAIN Meaning : g[p] = NarStep(Meaning, g, p)
  <2>1. ASSUME NEW p \in DOMAIN Meaning PROVE NarStep(Meaning, f, p) = NarStep(Meaning, g, p)
    <3>1. \A q \in Kids(Meaning, p) : f[q] = g[q]
      BY DEF Kids
    <3> HIDE DEF g
    <3> QED BY <3>1, NarStepSame
  <2> QED BY <1>1, <2>1 DEF NarFits
<1>3. g = [p \in DOMAIN Meaning |-> NarStep(Meaning, g, p)]
  <2>1. g = [p \in DOMAIN Meaning |-> g[p]]
    OBVIOUS
  <2> HIDE DEF g
  <2> QED BY <1>2, <2>1
<1>4. NarOf = CHOOSE h : h = [path \in DOMAIN Meaning |->
         <<"(", "type">> \o
         IF Meaning[path].type # "d" THEN Leaf(Meaning[path].type, Meaning[path].id.data)
         ELSE LET names == Ordered(NamesAt(path))
              IN <<"directory">>
                 \o FlattenSeq([i \in DOMAIN names |-> EntryNar(names[i], h[Append(path, names[i])])])
                 \o <<")">>]
  BY DEF NarOf
<1>5. NarOf = CHOOSE h : h = [p \in DOMAIN Meaning |-> NarStep(Meaning, h, p)]
  <2>1. \A p : NamesAt(p) = NamesOf(Meaning, p)
    BY DEF NamesAt, NamesOf
  <2> QED BY <1>4, <2>1 DEF NarStep, EntryNars
<1>6. NarOf = [p \in DOMAIN Meaning |-> NarStep(Meaning, NarOf, p)]
  <2> HIDE DEF g
  <2> QED BY <1>3, <1>5
<1>7. NarFits(Meaning, NarOf)
  BY <1>6 DEF NarFits
<1> QED BY <1>7, NarIsWords


-----------------------------------------------------------------------------
(* The stack of nar_dump(): what its items are, and what they will write.  *)
NodeAt(m, h, p, n) == Node([name |-> n, type |-> m[p].type, id |-> h[p]], Len(p))
Works(m, h) ==
  {Str(s) : s \in Strings(m)} \cup {NodeAt(m, h, p, n) : p \in DOMAIN m, n \in Words}
Writes(m, h, g, w, r) ==
  \/ \E s \in Strings(m) : w = Str(s) /\ r = <<s>>
  \/ \E p \in DOMAIN m, n \in Words : w = NodeAt(m, h, p, n) /\ r = g[p]

(* k, from its top down, will write t.                                     *)
Towers(m, h, g, k, T) ==
  /\ T[0] = <<>> /\ \A i \in 0 .. Len(k) : T[i] \in Seq(Strings(m))
  /\ \A i \in 1 .. Len(k) :
       \E r \in Seq(Strings(m)) : Writes(m, h, g, k[i], r) /\ T[i] = r \o T[i - 1]
Renders(m, h, g, k, t) ==
  k \in Seq(Works(m, h)) /\ \E T : Towers(m, h, g, k, T) /\ T[Len(k)] = t

LEMMA RendersNone ==
  ASSUME NEW m, NEW h, NEW g
  PROVE  Renders(m, h, g, <<>>, <<>>)
<1> DEFINE T == [i \in 0 .. 0 |-> <<>>]
<1>1. T[0] = <<>> /\ \A i \in 0 .. 0 : T[i] \in Seq(Strings(m))
  OBVIOUS
<1>2. Len(<<>>) = 0 /\ (\A i \in 1 .. 0 : FALSE) /\ <<>> \in Seq(Works(m, h))
  OBVIOUS
<1> HIDE DEF T
<1> QED BY <1>1, <1>2 DEF Renders, Towers

LEMMA RendersType ==
  ASSUME NEW m, NEW h, NEW g, NEW k, NEW t, Renders(m, h, g, k, t)
  PROVE  /\ t \in Seq(Strings(m)) /\ k \in Seq(Works(m, h)) /\ Len(k) \in Nat
         /\ k = <<>> => t = <<>>
<1>1. k \in Seq(Works(m, h)) /\ Len(k) \in Nat
  <2>1. k \in Seq(Works(m, h))
    BY DEF Renders
  <2> QED BY <2>1, LenProperties
<1>2. PICK T : Towers(m, h, g, k, T) /\ T[Len(k)] = t
  BY DEF Renders
<1>3. t \in Seq(Strings(m))
  BY <1>1, <1>2 DEF Towers
<1>4. k = <<>> => Len(k) = 0
  OBVIOUS
<1> QED BY <1>1, <1>2, <1>3, <1>4 DEF Towers

LEMMA RendersMore ==
  ASSUME NEW m, NEW h, NEW g, NEW k, NEW t, Renders(m, h, g, k, t),
         NEW w \in Works(m, h), NEW r \in Seq(Strings(m)), Writes(m, h, g, w, r)
  PROVE  Renders(m, h, g, Append(k, w), r \o t)
<1>1. PICK T : Towers(m, h, g, k, T) /\ T[Len(k)] = t
  BY DEF Renders
<1>2. t \in Seq(Strings(m)) /\ k \in Seq(Works(m, h)) /\ Len(k) \in Nat
  BY RendersType
<1>3. PICK n \in Nat : n = Len(k)
  BY <1>2
<1>4. PICK l : l = Append(k, w)
  OBVIOUS
<1>5. /\ l \in Seq(Works(m, h)) /\ Len(l) = n + 1 /\ l[n + 1] = w
      /\ \A i \in 1 .. n : l[i] = k[i]
  BY <1>2, <1>3, <1>4, AppendIs
<1>6. r \o t \in Seq(Strings(m))
  BY <1>2, ConcatProperties
<1> DEFINE U == [i \in 0 .. n + 1 |-> IF i = n + 1 THEN r \o t ELSE T[i]]
<1>7. U[n + 1] = r \o t /\ \A i \in 0 .. n : U[i] = T[i]
  OBVIOUS
<1> HIDE DEF U
<1>8. T[0] = <<>> /\ T[n] = t /\ \A i \in 0 .. n : T[i] \in Seq(Strings(m))
  BY <1>1, <1>3 DEF Towers
<1>9. U[0] = <<>> /\ \A i \in 0 .. n + 1 : U[i] \in Seq(Strings(m))
  <2>1. 0 \in 0 .. n /\ \A i \in 0 .. n + 1 : i \in 0 .. n \/ i = n + 1
    OBVIOUS
  <2> QED BY <1>6, <1>7, <1>8, <2>1
<1>10. ASSUME NEW i \in 1 .. n + 1
       PROVE  \E s \in Seq(Strings(m)) : Writes(m, h, g, l[i], s) /\ U[i] = s \o U[i - 1]
  <2>1. CASE i = n + 1
    <3>1. i - 1 = n /\ n \in 0 .. n
      BY <2>1
    <3>2. Writes(m, h, g, l[i], r) /\ U[i] = r \o U[i - 1]
      BY <1>5, <1>7, <1>8, <2>1, <3>1
    <3> QED BY <3>2
  <2>2. CASE i # n + 1
    <3>1. i \in 1 .. n /\ i \in 0 .. n /\ i - 1 \in 0 .. n
      BY <2>2
    <3>2. PICK s \in Seq(Strings(m)) : Writes(m, h, g, k[i], s) /\ T[i] = s \o T[i - 1]
      BY <1>1, <1>3, <3>1 DEF Towers
    <3>3. Writes(m, h, g, l[i], s) /\ U[i] = s \o U[i - 1]
      BY <1>5, <1>7, <3>1, <3>2
    <3> QED BY <3>3
  <2> QED BY <2>1, <2>2
<1>11. Towers(m, h, g, l, U)
  BY <1>5, <1>9, <1>10 DEF Towers
<1>12. U[Len(l)] = r \o t
  BY <1>5, <1>7
<1> QED BY <1>4, <1>5, <1>11, <1>12 DEF Renders

LEMMA RendersLess ==
  ASSUME NEW m, NEW h, NEW g, NEW k, NEW t, Renders(m, h, g, k, t), k # <<>>
  PROVE  \E r \in Seq(Strings(m)), u \in Seq(Strings(m)) :
           Writes(m, h, g, k[Len(k)], r) /\ t = r \o u /\ Renders(m, h, g, Front(k), u)
<1>1. PICK T : Towers(m, h, g, k, T) /\ T[Len(k)] = t
  BY DEF Renders
<1>2. k \in Seq(Works(m, h))
  BY RendersType
<1>3. PICK n \in Nat : Len(k) = n + 1
  <2>1. Len(k) \in Nat /\ Len(k) # 0
    BY <1>2
  <2>2. Len(k) - 1 \in Nat /\ Len(k) = (Len(k) - 1) + 1
    BY <2>1
  <2> QED BY <2>2
<1>4. PICK l : l = Front(k)
  OBVIOUS
<1>5. l \in Seq(Works(m, h)) /\ Len(l) = n /\ \A i \in 1 .. n : l[i] = k[i]
  <2>1. l = SubSeq(k, 1, n)
    BY <1>3, <1>4 DEF Front
  <2> QED BY <1>2, <1>3, <2>1
<1>6. /\ \A i \in 0 .. n : T[i] \in Seq(Strings(m))
      /\ \A i \in 1 .. n : i \in 1 .. n + 1
      /\ n \in 0 .. n /\ n + 1 \in 1 .. n + 1 /\ (n + 1) - 1 = n
  BY <1>1, <1>3 DEF Towers
<1>7. PICK r \in Seq(Strings(m)) : Writes(m, h, g, k[n + 1], r) /\ T[n + 1] = r \o T[n]
  BY <1>1, <1>3, <1>6 DEF Towers
<1>8. Towers(m, h, g, l, T)
  BY <1>1, <1>3, <1>5, <1>6 DEF Towers
<1>9. Renders(m, h, g, l, T[n])
  BY <1>5, <1>8 DEF Renders
<1> QED BY <1>1, <1>3, <1>4, <1>6, <1>7, <1>9


(* The work of an entry, pushed, writes the entry.                         *)
LEMMA StrsIs ==
  \A a, b, c, d, e : /\ Strs(<<a>>) = <<Str(a)>>
                     /\ Strs(<<a, b, c, d, e>>) = <<Str(a), Str(b), Str(c), Str(d), Str(e)>>
BY DEF Strs

LEMMA ConsSeq ==
  ASSUME NEW A, NEW w \in A, NEW d \in Seq(A), NEW s, s = <<w>> \o d
  PROVE  s \in Seq(A)
<1>1. <<w>> \in Seq(A)
  BY Tuples
<1> QED BY <1>1, ConcatProperties

LEMMA ConsLeft ==
  ASSUME NEW A, NEW w \in A, NEW d \in Seq(A), NEW u \in Seq(A)
  PROVE  (<<w>> \o d) \o u = <<w>> \o (d \o u)
<1>1. <<w>> \in Seq(A)
  BY Tuples
<1> QED BY <1>1, ConcatAssociative

LEMMA AppendOne ==
  ASSUME NEW A, NEW w \in A, NEW d \in Seq(A), NEW l, l = Append(d, w)
  PROVE  l \in Seq(A) /\ d \o <<w>> = l
<1>1. d \o <<w>> = Append(d, w)
  BY AppendIsConcat
<1> QED BY <1>1, AppendProperties

LEMMA AppendCons ==
  ASSUME NEW A, NEW w \in A, NEW d \in Seq(A), NEW u \in Seq(A), NEW l, l = Append(d, w)
  PROVE  d \o (<<w>> \o u) = l \o u
<1>1. <<w>> \in Seq(A)
  BY Tuples
<1>2. d \o <<w>> = l
  BY AppendOne
<1> QED BY <1>1, <1>2, ConcatAssociative

LEMMA ConsIs ==
  ASSUME NEW A, NEW a \in A, NEW s \in Seq(A), NEW v \in Seq(A), Len(v) = Len(s) + 1, v[1] = a,
         \A i \in 1 .. Len(s) : v[i + 1] = s[i]
  PROVE  v = <<a>> \o s
<1>1. PICK x : x = <<a>>
  OBVIOUS
<1>2. x \in Seq(A) /\ Len(x) = 1 /\ x[1] = a
  BY <1>1
<1>3. Len(s) \in Nat
  BY LenProperties
<1>4. /\ x \o s \in Seq(A) /\ Len(x \o s) = Len(s) + 1
      /\ \A i \in 1 .. Len(s) + 1 : (x \o s)[i] = IF i <= 1 THEN x[i] ELSE s[i - 1]
  <2>1. /\ x \o s \in Seq(A) /\ Len(x \o s) = Len(x) + Len(s)
        /\ \A i \in 1 .. Len(x) + Len(s) : (x \o s)[i] = IF i <= Len(x) THEN x[i] ELSE s[i - Len(x)]
    BY <1>2, ConcatProperties
  <2>2. Len(x) + Len(s) = Len(s) + 1
    BY <1>2, <1>3
  <2> QED BY <1>2, <2>1, <2>2
<1>5. ASSUME NEW i \in 1 .. Len(v) PROVE v[i] = (x \o s)[i]
  <2>1. CASE i = 1
    BY <1>2, <1>4, <2>1
  <2>2. CASE i # 1
    <3>1. i - 1 \in 1 .. Len(s) /\ (i - 1) + 1 = i
      BY <1>3, <2>2
    <3> QED BY <1>4, <2>2, <3>1
  <2> QED BY <2>1, <2>2
<1>6. v = x \o s
  BY <1>4, <1>5, SeqEqual
<1> QED BY <1>1, <1>6

FiveCons(a, b, c, d, e) ==
  <<a, b, c, d, e>> = <<a>> \o (<<b>> \o (<<c>> \o (<<d>> \o <<e>>)))
LEMMA FiveIs ==
  ASSUME NEW A, NEW a \in A, NEW b \in A, NEW c \in A, NEW d \in A, NEW e \in A
  PROVE  FiveCons(a, b, c, d, e)
<1>1. <<d, e>> = <<d>> \o <<e>>
  <2>1. PICK s, v : s = <<e>> /\ v = <<d, e>>
    OBVIOUS
  <2>2. /\ s \in Seq(A) /\ v \in Seq(A) /\ Len(s) = 1 /\ Len(v) = 2 /\ v[1] = d
        /\ v[2] = s[1]
    BY <2>1
  <2>3. \A i \in 1 .. 1 : v[i + 1] = s[i]
    BY <2>2
  <2>4. Len(v) = Len(s) + 1 /\ v[1] \in A /\ \A i \in 1 .. Len(s) : v[i + 1] = s[i]
    BY <2>2, <2>3
  <2>5. v = <<v[1]>> \o s
    BY <2>2, <2>4, ConsIs
  <2> QED BY <2>1, <2>2, <2>5
<1>2. <<c, d, e>> = <<c>> \o <<d, e>>
  <2>1. PICK s, v : s = <<d, e>> /\ v = <<c, d, e>>
    OBVIOUS
  <2>2. /\ s \in Seq(A) /\ v \in Seq(A) /\ Len(s) = 2 /\ Len(v) = 3 /\ v[1] = c
        /\ v[2] = s[1] /\ v[3] = s[2]
    BY <2>1
  <2>3. \A i \in 1 .. 2 : v[i + 1] = s[i]
    BY <2>2
  <2>4. Len(v) = Len(s) + 1 /\ v[1] \in A /\ \A i \in 1 .. Len(s) : v[i + 1] = s[i]
    BY <2>2, <2>3
  <2>5. v = <<v[1]>> \o s
    BY <2>2, <2>4, ConsIs
  <2> QED BY <2>1, <2>2, <2>5
<1>3. <<b, c, d, e>> = <<b>> \o <<c, d, e>>
  <2>1. PICK s, v : s = <<c, d, e>> /\ v = <<b, c, d, e>>
    OBVIOUS
  <2>2. /\ s \in Seq(A) /\ v \in Seq(A) /\ Len(s) = 3 /\ Len(v) = 4 /\ v[1] = b
        /\ v[2] = s[1] /\ v[3] = s[2] /\ v[4] = s[3]
    BY <2>1
  <2>3. \A i \in 1 .. 3 : v[i + 1] = s[i]
    BY <2>2
  <2>4. Len(v) = Len(s) + 1 /\ v[1] \in A /\ \A i \in 1 .. Len(s) : v[i + 1] = s[i]
    BY <2>2, <2>3
  <2>5. v = <<v[1]>> \o s
    BY <2>2, <2>4, ConsIs
  <2> QED BY <2>1, <2>2, <2>5
<1>4. <<a, b, c, d, e>> = <<a>> \o <<b, c, d, e>>
  <2>1. PICK s, v : s = <<b, c, d, e>> /\ v = <<a, b, c, d, e>>
    OBVIOUS
  <2>2. /\ s \in Seq(A) /\ v \in Seq(A) /\ Len(s) = 4 /\ Len(v) = 5 /\ v[1] = a
        /\ v[2] = s[1] /\ v[3] = s[2] /\ v[4] = s[3] /\ v[5] = s[4]
    BY <2>1
  <2>3. \A i \in 1 .. 4 : v[i + 1] = s[i]
    BY <2>2
  <2>4. Len(v) = Len(s) + 1 /\ v[1] \in A /\ \A i \in 1 .. Len(s) : v[i + 1] = s[i]
    BY <2>2, <2>3
  <2>5. v = <<v[1]>> \o s
    BY <2>2, <2>4, ConsIs
  <2> QED BY <2>1, <2>2, <2>5
<1> QED BY <1>1, <1>2, <1>3, <1>4 DEF FiveCons

LEMMA AppendFive ==
  ASSUME NEW A, NEW s \in Seq(A), NEW c \in A, NEW d \in A, NEW e \in A, NEW f \in A, NEW g \in A
  PROVE  s \o <<c, d, e, f, g>> = Append(Append(Append(Append(Append(s, c), d), e), f), g)
<1>1. PICK u1, u2, u3, u4 : u1 = <<g>> /\ u2 = <<f>> \o u1 /\ u3 = <<e>> \o u2 /\ u4 = <<d>> \o u3
  OBVIOUS
<1>2. u1 \in Seq(A)
  BY <1>1, Tuples
<1>3. u2 \in Seq(A)
  BY <1>1, <1>2, ConsSeq
<1>4. u3 \in Seq(A)
  BY <1>1, <1>3, ConsSeq
<1>5. u4 \in Seq(A)
  BY <1>1, <1>4, ConsSeq
<1>6. PICK s1, s2, s3, s4 : s1 = Append(s, c) /\ s2 = Append(s1, d) /\ s3 = Append(s2, e) /\ s4 = Append(s3, f)
  OBVIOUS
<1>7. s1 \in Seq(A)
  BY <1>6, AppendOne
<1>8. s2 \in Seq(A)
  BY <1>6, <1>7, AppendOne
<1>9. s3 \in Seq(A)
  BY <1>6, <1>8, AppendOne
<1>10. s4 \in Seq(A)
  BY <1>6, <1>9, AppendOne
<1>11. \A l \in Seq(A), x \in A, u \in Seq(A) : l \o (<<x>> \o u) = Append(l, x) \o u
  BY AppendCons
<1>12. s \o (<<c>> \o u4) = s1 \o u4
  BY <1>5, <1>6, <1>11
<1>13. s1 \o u4 = s2 \o u3
  <2>1. s1 \o (<<d>> \o u3) = Append(s1, d) \o u3
    BY <1>4, <1>7, <1>11
  <2> QED BY <1>1, <1>6, <2>1
<1>14. s2 \o u3 = s3 \o u2
  <2>1. s2 \o (<<e>> \o u2) = Append(s2, e) \o u2
    BY <1>3, <1>8, <1>11
  <2> QED BY <1>1, <1>6, <2>1
<1>15. s3 \o u2 = s4 \o u1
  <2>1. s3 \o (<<f>> \o u1) = Append(s3, f) \o u1
    BY <1>2, <1>9, <1>11
  <2> QED BY <1>1, <1>6, <2>1
<1>16. s4 \o u1 = Append(s4, g)
  <2>1. s4 \o <<g>> = Append(s4, g)
    BY <1>10, AppendOne
  <2> QED BY <1>1, <2>1
<1>17. <<c, d, e, f, g>> = <<c>> \o (<<d>> \o (<<e>> \o (<<f>> \o <<g>>)))
  <2>1. FiveCons(c, d, e, f, g)
    BY FiveIs
  <2> QED BY <2>1 DEF FiveCons
<1>18. <<c, d, e, f, g>> = <<c>> \o u4
  BY <1>1, <1>17
<1> QED BY <1>6, <1>12, <1>13, <1>14, <1>15, <1>16, <1>18

SevenAppends(A, k, a, b, c, d, e, f, g) ==
  /\ k \o (<<a>> \o <<b>> \o <<c, d, e, f, g>>) =
       Append(Append(Append(Append(Append(Append(Append(k, a), b), c), d), e), f), g)
  /\ (<<a>> \o <<b>> \o <<c, d, e, f, g>>) \in Seq(A)
LEMMA AppendSeven ==
  ASSUME NEW A, NEW k \in Seq(A), NEW a \in A, NEW b \in A, NEW c \in A, NEW d \in A, NEW e \in A,
         NEW f \in A, NEW g \in A
  PROVE  SevenAppends(A, k, a, b, c, d, e, f, g)
<1>1. PICK u : u = <<b>>
  OBVIOUS
<1>2. PICK v : v = <<c, d, e, f, g>>
  OBVIOUS
<1>3. u \in Seq(A) /\ v \in Seq(A)
  BY <1>1, <1>2, Tuples
<1>4. (<<a>> \o u) \o v = <<a>> \o (u \o v) /\ u \o v \in Seq(A) /\ <<a>> \o (u \o v) \in Seq(A)
  <2>1. u \o v \in Seq(A)
    BY <1>3, ConcatProperties
  <2>2. (<<a>> \o u) \o v = <<a>> \o (u \o v)
    BY <1>3, ConsLeft
  <2>3. <<a>> \o (u \o v) \in Seq(A)
    BY <2>1, ConsSeq
  <2> QED BY <2>1, <2>2, <2>3
<1>5. PICK k1 : k1 = Append(k, a)
  OBVIOUS
<1>6. k1 \in Seq(A) /\ k \o (<<a>> \o (u \o v)) = k1 \o (u \o v)
  <2>1. k1 \in Seq(A)
    BY <1>5, AppendOne
  <2>2. \A z \in Seq(A) : k \o (<<a>> \o z) = k1 \o z
    BY <1>5, AppendCons
  <2> QED BY <1>4, <2>1, <2>2
<1>7. PICK k2 : k2 = Append(k1, b)
  OBVIOUS
<1>8. k2 \in Seq(A) /\ k1 \o (u \o v) = k2 \o v
  <2>1. k2 \in Seq(A)
    BY <1>6, <1>7, AppendOne
  <2>2. k1 \o (<<b>> \o v) = k2 \o v
    BY <1>3, <1>6, <1>7, AppendCons
  <2> QED BY <1>1, <2>1, <2>2
<1>9. k2 \o v = Append(Append(Append(Append(Append(k2, c), d), e), f), g)
  <2>1. k2 \o <<c, d, e, f, g>> = Append(Append(Append(Append(Append(k2, c), d), e), f), g)
    BY <1>8, AppendFive
  <2> QED BY <1>2, <2>1
<1> QED BY <1>1, <1>2, <1>4, <1>5, <1>6, <1>7, <1>8, <1>9 DEF SevenAppends

LEMMA WordWork ==
  ASSUME NEW m, NEW h, NEW g, NEW s \in Words
  PROVE  /\ Str(s) \in Works(m, h) /\ <<s>> \in Seq(Strings(m)) /\ Writes(m, h, g, Str(s), <<s>>)
<1>1. s \in Strings(m)
  BY DEF Strings
<1> QED BY <1>1, Tuples DEF Works, Writes

LEMMA RendersWord ==
  ASSUME NEW m, NEW h, NEW g, NEW k, NEW t, Renders(m, h, g, k, t), NEW s \in Words
  PROVE  Renders(m, h, g, Append(k, Str(s)), <<s>> \o t)
BY WordWork, RendersMore

EntryParts(n, s, t) ==
  EntryNar(n, s) \o t =
    <<"entry">> \o (<<"(">> \o (<<"name">> \o (<<n>> \o (<<"node">> \o (s \o (<<")">> \o t))))))
LEMMA EntryNarParts ==
  ASSUME NEW A, Words \subseteq A, NEW n \in STRING, NEW s \in Seq(A), NEW t \in Seq(A)
  PROVE  EntryParts(n, s, t)
<1>1. /\ "entry" \in A /\ "(" \in A /\ "name" \in A /\ n \in A /\ "node" \in A /\ ")" \in A
  BY DEF Words
<1>2. <<"node">> \in Seq(A) /\ <<")">> \in Seq(A) /\ <<"entry", "(", "name", n, "node">> \in Seq(A)
  BY <1>1, Tuples
<1>3. PICK v : v = <<")">> \o t
  OBVIOUS
<1>4. v \in Seq(A)
  BY <1>2, <1>3, ConcatProperties
<1>5. PICK u : u = s \o v
  OBVIOUS
<1>6. u \in Seq(A)
  BY <1>4, <1>5, ConcatProperties
<1>7. PICK x : x = <<"entry", "(", "name", n, "node">>
  OBVIOUS
<1>8. EntryNar(n, s) \o t = x \o u
  <2>1. x \in Seq(A) /\ x \o s \in Seq(A) /\ <<")">> \in Seq(A)
    BY <1>2, <1>7, ConcatProperties
  <2>2. EntryNar(n, s) = (x \o s) \o <<")">>
    BY <1>7 DEF EntryNar
  <2>3. ((x \o s) \o <<")">>) \o t = (x \o s) \o v
    BY <1>3, <2>1, ConcatAssociative
  <2>4. (x \o s) \o v = x \o u
    BY <1>4, <1>5, <2>1, ConcatAssociative
  <2> QED BY <2>2, <2>3, <2>4
<1>9. PICK d, c, b : d = <<n>> \o <<"node">> /\ c = <<"name">> \o d /\ b = <<"(">> \o c
  OBVIOUS
<1>10. d \in Seq(A)
  BY <1>1, <1>2, <1>9, ConsSeq
<1>11. c \in Seq(A)
  BY <1>1, <1>9, <1>10, ConsSeq
<1>12. b \in Seq(A)
  BY <1>1, <1>9, <1>11, ConsSeq
<1>13. \A z \in A, l \in Seq(A) : (<<z>> \o l) \o u = <<z>> \o (l \o u)
  BY <1>6, ConsLeft
<1>14. d \o u = <<n>> \o (<<"node">> \o u)
  BY <1>2, <1>9, <1>13
<1>15. c \o u = <<"name">> \o (d \o u)
  BY <1>1, <1>9, <1>10, <1>13
<1>16. b \o u = <<"(">> \o (c \o u)
  BY <1>1, <1>9, <1>11, <1>13
<1>17. (<<"entry">> \o b) \o u = <<"entry">> \o (b \o u)
  BY <1>1, <1>12, <1>13
<1>18. x = <<"entry">> \o b
  <2>1. PICK v1, v2, v3, v4 : v1 = "entry" /\ v2 = "(" /\ v3 = "name" /\ v4 = "node"
    OBVIOUS
  <2>2. v1 \in A /\ v2 \in A /\ v3 \in A /\ n \in A /\ v4 \in A
    BY <1>1, <2>1
  <2>3. FiveCons(v1, v2, v3, n, v4)
    BY <2>2, FiveIs
  <2>4. <<v1, v2, v3, n, v4>> = <<v1>> \o (<<v2>> \o (<<v3>> \o (<<n>> \o <<v4>>)))
    BY <2>3 DEF FiveCons
  <2> QED BY <1>7, <1>9, <2>1, <2>4
<1> QED BY <1>3, <1>5, <1>8, <1>14, <1>15, <1>16, <1>17, <1>18 DEF EntryParts

LEMMA RendersEntry ==
  ASSUME NEW m, NEW h, NEW g, Narred(m, g), NEW k, NEW t, Renders(m, h, g, k, t),
         NEW q \in DOMAIN m, NEW e, e = [name |-> e.name, type |-> m[q].type, id |-> h[q]],
         e.name \in STRING, NEW block, block = EntryWork(e, Len(q))
  PROVE  /\ block \in Seq(Works(m, h))
         /\ Renders(m, h, g, k \o block, EntryNar(e.name, g[q]) \o t)
<1>1. PICK n \in STRING : n = e.name
  OBVIOUS
<1>2. /\ "entry" \in Words /\ "(" \in Words /\ "name" \in Words /\ n \in Words /\ "node" \in Words
      /\ ")" \in Words /\ Words \subseteq Strings(m)
  BY DEF Words, Strings
<1>3. PICK w : w = Node(e, Len(q))
  OBVIOUS
<1>4. w \in Works(m, h) /\ Writes(m, h, g, w, g[q]) /\ g[q] \in Seq(Strings(m))
  <2>1. w = NodeAt(m, h, q, n)
    BY <1>1, <1>3 DEF NodeAt
  <2> QED BY <1>2, <2>1 DEF Works, Writes, Narred
<1>5. block = <<Str(")")>> \o <<w>> \o <<Str("node"), Str(n), Str("name"), Str("("), Str("entry")>>
  <2>1. /\ Strs(<<")">>) = <<Str(")")>>
        /\ Strs(<<"node", n, "name", "(", "entry">>) =
             <<Str("node"), Str(n), Str("name"), Str("("), Str("entry")>>
    BY StrsIs
  <2>2. block = Strs(<<")">>) \o <<w>> \o Strs(<<"node", n, "name", "(", "entry">>)
    BY <1>1, <1>3 DEF EntryWork
  <2> QED BY <2>1, <2>2
<1>6. /\ Str(")") \in Works(m, h) /\ Str("node") \in Works(m, h) /\ Str(n) \in Works(m, h)
      /\ Str("name") \in Works(m, h) /\ Str("(") \in Works(m, h) /\ Str("entry") \in Works(m, h)
  BY <1>2, WordWork
<1>7. k \in Seq(Works(m, h)) /\ t \in Seq(Strings(m))
  BY RendersType
<1>8. /\ k \o block = Append(Append(Append(Append(Append(Append(Append(k, Str(")")), w),
                        Str("node")), Str(n)), Str("name")), Str("(")), Str("entry"))
      /\ block \in Seq(Works(m, h))
  <2>1. PICK B : B = Works(m, h)
    OBVIOUS
  <2>2. PICK a, c, d, e1, f, g1 : /\ a = Str(")") /\ c = Str("node") /\ d = Str(n) /\ e1 = Str("name")
                                  /\ f = Str("(") /\ g1 = Str("entry")
    OBVIOUS
  <2>3. a \in B /\ w \in B /\ c \in B /\ d \in B /\ e1 \in B /\ f \in B /\ g1 \in B /\ k \in Seq(B)
    BY <1>4, <1>6, <1>7, <2>1, <2>2
  <2>4. block = <<a>> \o <<w>> \o <<c, d, e1, f, g1>>
    BY <1>5, <2>2
  <2>5. SevenAppends(B, k, a, w, c, d, e1, f, g1)
    BY <2>3, AppendSeven
  <2>6. /\ k \o (<<a>> \o <<w>> \o <<c, d, e1, f, g1>>) =
             Append(Append(Append(Append(Append(Append(Append(k, a), w), c), d), e1), f), g1)
        /\ (<<a>> \o <<w>> \o <<c, d, e1, f, g1>>) \in Seq(B)
    BY <2>5 DEF SevenAppends
  <2> QED BY <2>1, <2>2, <2>4, <2>6
<1> DEFINE k1 == Append(k, Str(")"))
           t1 == <<")">> \o t
           k2 == Append(k1, w)
           t2 == g[q] \o t1
           k3 == Append(k2, Str("node"))
           t3 == <<"node">> \o t2
           k4 == Append(k3, Str(n))
           t4 == <<n>> \o t3
           k5 == Append(k4, Str("name"))
           t5 == <<"name">> \o t4
           k6 == Append(k5, Str("("))
           t6 == <<"(">> \o t5
<1>9. Renders(m, h, g, k1, t1)
  BY <1>2, RendersWord
<1>10. Renders(m, h, g, k2, t2)
  <2> HIDE DEF k1, t1
  <2> QED BY <1>4, <1>9, RendersMore
<1>11. Renders(m, h, g, k3, t3)
  <2> HIDE DEF k2, t2
  <2> QED BY <1>2, <1>10, RendersWord
<1>12. Renders(m, h, g, k4, t4)
  <2> HIDE DEF k3, t3
  <2> QED BY <1>2, <1>11, RendersWord
<1>13. Renders(m, h, g, k5, t5)
  <2> HIDE DEF k4, t4
  <2> QED BY <1>2, <1>12, RendersWord
<1>14. Renders(m, h, g, k6, t6)
  <2> HIDE DEF k5, t5
  <2> QED BY <1>2, <1>13, RendersWord
<1>15. Renders(m, h, g, Append(k6, Str("entry")), <<"entry">> \o t6)
  <2> HIDE DEF k6, t6
  <2> QED BY <1>2, <1>14, RendersWord
<1>16. EntryNar(n, g[q]) \o t = <<"entry">> \o t6
  <2>1. EntryParts(n, g[q], t)
    BY <1>2, <1>4, <1>7, EntryNarParts
  <2> QED BY <2>1 DEF EntryParts
<1> QED BY <1>1, <1>8, <1>15, <1>16



(* A directory's entries, in the order of their names, and what they push. *)
EntryOf(m, h, p, n) == [name |-> n, type |-> m[Append(p, n)].type, id |-> h[Append(p, n)]]
SortedAs(m, h, p, names, es) ==
  /\ Len(es) = Len(names) /\ DOMAIN es = 1 .. Len(names)
  /\ \A i \in 1 .. Len(names) : es[i] = EntryOf(m, h, p, names[i])

LEMMA SortedIs ==
  ASSUME NEW m, Shaped(m), NEW h, Hashed(m, h), NEW p \in DOMAIN m, m[p].type = "d",
         NEW names, names = Ordered(NamesOf(m, p)), NEW es, es = Sorted(h[p].entries)
  PROVE  SortedAs(m, h, p, names, es)
<1>1. PICK E : E = h[p].entries
  OBVIOUS
<1>2. Lists(m, h, p, E)
  BY <1>1, ListingIs
<1>3. {e.name : e \in E} = NamesOf(m, p)
  <2>1. ASSUME NEW e \in E PROVE e.name \in NamesOf(m, p)
    BY <1>2 DEF Lists, NamesOf
  <2>2. ASSUME NEW n \in NamesOf(m, p) PROVE \E e \in E : e.name = n
    <3>1. n \in STRING /\ Append(p, n) \in DOMAIN m
      BY NamesFinite DEF NamesOf
    <3> QED BY <1>2, <3>1 DEF Lists
  <2> QED BY <2>1, <2>2
<1>4. es = [i \in DOMAIN names |-> CHOOSE e \in E : e.name = names[i]]
  <2>1. PICK N : N = {e.name : e \in E}
    OBVIOUS
  <2>2. Sorted(E) = [i \in DOMAIN Ordered(N) |-> CHOOSE e \in E : e.name = Ordered(N)[i]]
    BY <2>1 DEF Sorted
  <2>3. Ordered(N) = names
    BY <1>3, <2>1
  <2> QED BY <1>1, <2>2, <2>3
<1>5. /\ Len(names) \in Nat /\ DOMAIN names = 1 .. Len(names)
      /\ \A i \in 1 .. Len(names) : names[i] \in NamesOf(m, p)
  BY DirNames
<1>6. ASSUME NEW i \in 1 .. Len(names)
      PROVE  es[i] \in E /\ es[i] = EntryOf(m, h, p, names[i])
  <2>1. es[i] = CHOOSE e \in E : e.name = names[i]
    BY <1>4, <1>5
  <2>2. \E e \in E : e.name = names[i]
    BY <1>3, <1>5
  <2>3. es[i] \in E /\ es[i].name = names[i]
    BY <2>1, <2>2
  <2>4. PICK e \in E : e = es[i]
    BY <2>3
  <2>5. /\ e.type = m[Append(p, e.name)].type /\ e.id = h[Append(p, e.name)]
        /\ e = [name |-> e.name, type |-> e.type, id |-> e.id]
    BY <1>2 DEF Lists
  <2>6. e = EntryOf(m, h, p, e.name)
    BY <2>5 DEF EntryOf
  <2> QED BY <2>3, <2>4, <2>6
<1>7. es \in [1 .. Len(names) -> E]
  BY <1>4, <1>5, <1>6
<1>8. Len(es) = Len(names)
  BY <1>5, <1>7
<1> QED BY <1>6, <1>7, <1>8 DEF SortedAs

BlocksAs(m, h, p, names, n, bs) ==
  /\ bs = [i \in 1 .. n |-> bs[i]]
  /\ \A i \in 1 .. n : bs[i] = EntryWork(EntryOf(m, h, p, names[n - i + 1]), Len(p) + 1)

LEMMA PushedIs ==
  ASSUME NEW m, NEW h, NEW p, NEW names, NEW n \in Nat, n = Len(names), NEW es,
         SortedAs(m, h, p, names, es)
  PROVE  \E bs : BlocksAs(m, h, p, names, n, bs) /\ Pushed(es, Len(p) + 1) = FlattenSeq(bs)
<1> DEFINE bs == [i \in 1 .. n |-> EntryWork(Reverse(es)[i], Len(p) + 1)]
<1>1. Pushed(es, Len(p) + 1) = FlattenSeq(bs)
  BY DEF Pushed, SortedAs
<1>2. bs = [i \in 1 .. n |-> bs[i]]
  OBVIOUS
<1>3. ASSUME NEW i \in 1 .. n
      PROVE  bs[i] = EntryWork(EntryOf(m, h, p, names[n - i + 1]), Len(p) + 1)
  <2>1. n - i + 1 \in 1 .. n
    OBVIOUS
  <2>2. Reverse(es)[i] = es[n - i + 1]
    BY DEF Reverse, SortedAs
  <2>3. es[n - i + 1] = EntryOf(m, h, p, names[n - i + 1])
    BY <2>1 DEF SortedAs
  <2> QED BY <2>2, <2>3
<1> HIDE DEF bs
<1> QED BY <1>1, <1>2, <1>3 DEF BlocksAs


LEMMA BlockRenders ==
  ASSUME NEW m, NEW h, NEW g, Narred(m, g), NEW p \in Seq(STRING), NEW n \in STRING,
         Append(p, n) \in DOMAIN m, NEW k, NEW t, Renders(m, h, g, k, t),
         NEW block, block = EntryWork(EntryOf(m, h, p, n), Len(p) + 1)
  PROVE  /\ block \in Seq(Works(m, h))
         /\ Renders(m, h, g, k \o block, EntryNar(n, g[Append(p, n)]) \o t)
<1>1. PICK q \in DOMAIN m : q = Append(p, n)
  OBVIOUS
<1>2. Len(q) = Len(p) + 1
  BY <1>1, AppendUp
<1>3. PICK e : e = EntryOf(m, h, p, n)
  OBVIOUS
<1>4. e.name = n /\ e = [name |-> e.name, type |-> m[q].type, id |-> h[q]]
  BY <1>1, <1>3 DEF EntryOf
<1>5. block = EntryWork(e, Len(q))
  BY <1>2, <1>3
<1>6. block \in Seq(Works(m, h)) /\ Renders(m, h, g, k \o block, EntryNar(e.name, g[q]) \o t)
  BY <1>4, <1>5, RendersEntry
<1> QED BY <1>1, <1>4, <1>6

LEMMA PushedRenders ==
  ASSUME NEW m, Shaped(m), NEW h, Hashed(m, h), NEW g, Narred(m, g), NEW p \in DOMAIN m,
         m[p].type = "d", NEW k, NEW t, Renders(m, h, g, k, t),
         NEW pushed, pushed = Pushed(Sorted(h[p].entries), Len(p) + 1)
  PROVE  /\ pushed \in Seq(Works(m, h)) /\ FlattenSeq(EntryNars(m, g, p)) \in Seq(Strings(m))
         /\ Renders(m, h, g, k \o pushed, FlattenSeq(EntryNars(m, g, p)) \o t)
<1>1. PICK names : names = Ordered(NamesOf(m, p))
  OBVIOUS
<1>2. PICK n \in Nat : n = Len(names)
  BY <1>1, DirNames
<1>3. \A i \in 1 .. n : names[i] \in STRING /\ Append(p, names[i]) \in DOMAIN m
  <2>1. \A i \in 1 .. n : names[i] \in STRING /\ Append(p, names[i]) \in Kids(m, p)
    BY <1>1, <1>2, DirNames
  <2> QED BY <2>1 DEF Kids
<1>4. p \in Seq(STRING)
  BY DEF Shaped, Path
<1>5. PICK es : es = Sorted(h[p].entries)
  OBVIOUS
<1>6. SortedAs(m, h, p, names, es)
  BY <1>1, <1>5, SortedIs
<1>7. PICK bs : BlocksAs(m, h, p, names, n, bs) /\ pushed = FlattenSeq(bs)
  BY <1>2, <1>5, <1>6, PushedIs
<1>8. PICK W, A : W = Works(m, h) /\ A = Strings(m)
  OBVIOUS
<1>9. \A i \in 1 .. n : n - i + 1 \in 1 .. n
  OBVIOUS
<1>10. ASSUME NEW i \in 1 .. n PROVE bs[i] \in Seq(W)
  <2>1. Renders(m, h, g, <<>>, <<>>)
    BY RendersNone
  <2>2. PICK s : s = names[n - i + 1]
    OBVIOUS
  <2>3. s \in STRING /\ Append(p, s) \in DOMAIN m
    BY <1>3, <1>9, <2>2
  <2>4. bs[i] = EntryWork(EntryOf(m, h, p, s), Len(p) + 1)
    BY <1>7, <2>2 DEF BlocksAs
  <2>5. bs[i] \in Seq(Works(m, h))
    BY <1>4, <2>1, <2>3, <2>4, BlockRenders
  <2> QED BY <1>8, <2>5
<1>11. bs = [i \in 1 .. n |-> bs[i]]
  BY <1>7 DEF BlocksAs
<1>12. PICK F : Flat(W, n, bs, F) /\ F[n] = pushed
  <2>1. PICK F : Flat(W, n, bs, F) /\ F[n] = FlattenSeq(bs)
    BY <1>10, <1>11, FlatIs
  <2> QED BY <1>7, <2>1
<1>13. PICK ns : ns = EntryNars(m, g, p)
  OBVIOUS
<1>14. /\ ns = [i \in 1 .. n |-> ns[i]]
       /\ \A i \in 1 .. n : ns[i] = EntryNar(names[i], g[Append(p, names[i])])
       /\ \A i \in 1 .. n : ns[i] \in Seq(A)
  <2>1. \A q \in Kids(m, p) : g[q] \in Seq(Strings(m))
    BY DEF Kids, Narred
  <2> QED BY <1>1, <1>2, <1>8, <1>13, <2>1, EntryNarsIs
<1>15. PICK G : Flat(A, n, ns, G) /\ G[n] = FlattenSeq(ns)
  BY <1>14, FlatIs
<1>16. t \in Seq(A) /\ k \in Seq(W)
  BY <1>8, RendersType
<1> DEFINE P(j) == j <= n =>
             \E x \in Seq(A) : Renders(m, h, g, k \o F[j], x) /\ G[n - j] \o x = G[n] \o t
           S    == {j \in Nat : P(j)}
<1>17. 0 \in S
  <2>1. k \o F[0] = k
    BY <1>12, <1>16, ConcatEmptySeq DEF Flat
  <2>2. n - 0 = n
    OBVIOUS
  <2> QED BY <1>16, <2>1, <2>2
<1>18. ASSUME NEW j \in Nat, P(j), j + 1 <= n
       PROVE  \E x \in Seq(A) : Renders(m, h, g, k \o F[j + 1], x) /\ G[n - (j + 1)] \o x = G[n] \o t
  <2>1. j <= n
    BY <1>18
  <2>2. PICK x \in Seq(A) : Renders(m, h, g, k \o F[j], x) /\ G[n - j] \o x = G[n] \o t
    BY <1>18, <2>1
  <2>3. PICK i \in 1 .. n : i = n - j
    BY <1>18
  <2>4. j + 1 \in 1 .. n /\ n - (j + 1) + 1 = i /\ n - (j + 1) = i - 1 /\ (j + 1) - 1 = j
        /\ i - 1 \in 0 .. n /\ j \in 0 .. n
    BY <1>18, <2>3
  <2>5. PICK s : s = names[i]
    OBVIOUS
  <2>6. s \in STRING /\ Append(p, s) \in DOMAIN m
    BY <1>3, <2>5
  <2>7. PICK b : b = bs[j + 1]
    OBVIOUS
  <2>8. b = EntryWork(EntryOf(m, h, p, s), Len(p) + 1)
    BY <1>7, <2>4, <2>5, <2>7 DEF BlocksAs
  <2>9. PICK l : l = k \o F[j]
    OBVIOUS
  <2>10. Renders(m, h, g, l \o b, EntryNar(s, g[Append(p, s)]) \o x)
    BY <1>4, <2>2, <2>6, <2>8, <2>9, BlockRenders
  <2>11. F[j] \in Seq(W) /\ b \in Seq(W) /\ F[j + 1] = F[j] \o b
    BY <1>10, <1>12, <2>4, <2>7 DEF Flat
  <2>12. l \o b = k \o F[j + 1]
    <3>1. PICK f : f = F[j]
      OBVIOUS
    <3>2. f \in Seq(W) /\ b \in Seq(W)
      BY <2>11, <3>1
    <3>3. (k \o f) \o b = k \o (f \o b)
      BY <1>16, <3>2, ConcatAssociative
    <3> QED BY <2>9, <2>11, <3>1, <3>3
  <2>13. PICK r : r = ns[i]
    OBVIOUS
  <2>14. r \in Seq(A) /\ r = EntryNar(s, g[Append(p, s)])
    BY <1>14, <2>5, <2>13
  <2>15. G[i - 1] \in Seq(A) /\ G[i] = G[i - 1] \o r
    BY <1>15, <2>4, <2>13 DEF Flat
  <2>16. r \o x \in Seq(A)
    BY <2>14, ConcatProperties
  <2>17. G[i - 1] \o (r \o x) = G[n] \o t
    <3>1. PICK f : f = G[i - 1]
      OBVIOUS
    <3>2. f \in Seq(A) /\ r \in Seq(A)
      BY <2>14, <2>15, <3>1
    <3>3. (f \o r) \o x = f \o (r \o x)
      BY <3>2, ConcatAssociative
    <3> QED BY <2>2, <2>3, <2>15, <3>1, <3>3
  <2>18. Renders(m, h, g, k \o F[j + 1], r \o x)
    BY <2>10, <2>12, <2>14
  <2> QED BY <2>4, <2>16, <2>17, <2>18
<1>19. Nat \subseteq S
  <2>1. ASSUME NEW j \in Nat, j \in S PROVE j + 1 \in S
    <3>1. P(j)
      <4> HIDE DEF P
      <4> QED BY <2>1
    <3>2. P(j + 1)
      BY <1>18, <3>1
    <3>3. j + 1 \in Nat
      OBVIOUS
    <3> HIDE DEF P
    <3> QED BY <3>2, <3>3
  <2> HIDE DEF S
  <2> QED BY <1>17, <2>1, Induct
<1>20. n \in S
  <2> HIDE DEF S
  <2> QED BY <1>19
<1>21. PICK x \in Seq(A) : Renders(m, h, g, k \o F[n], x) /\ G[0] \o x = G[n] \o t
  <2>1. n - n = 0 /\ n <= n
    OBVIOUS
  <2> QED BY <1>20, <2>1
<1>22. G[0] \o x = x
  BY <1>15, ConcatEmptySeq DEF Flat
<1>23. pushed \in Seq(W) /\ G[n] \in Seq(A)
  <2>1. n \in 0 .. n
    OBVIOUS
  <2> QED BY <1>12, <1>15, <2>1 DEF Flat
<1> HIDE DEF S
<1> QED BY <1>8, <1>12, <1>13, <1>15, <1>21, <1>22, <1>23



-----------------------------------------------------------------------------
(* What has been written, n, with what is on the stack, k, still to be     *)
(* written, is the archive of the tree.                                    *)
Full(g) == <<"nix-archive-1">> \o g[<<>>]
Reading(m, h, g, n, k) ==
  n \in Seq(Strings(m)) /\ \E t : Renders(m, h, g, k, t) /\ n \o t = Full(g)
NodeHere(m, h, g, n, k, w, p) ==
  /\ p \in DOMAIN m /\ w.depth = Len(p) /\ w.entry.type = m[p].type /\ w.entry.id = h[p]
  /\ \E u : Renders(m, h, g, Front(k), u) /\ n \o (g[p] \o u) = Full(g)

LEMMA StartReads ==
  ASSUME NEW m, Shaped(m), NEW h, NEW g, Narred(m, g)
  PROVE  Reading(m, h, g, <<"nix-archive-1">>,
                 <<Node([name |-> "", type |-> "d", id |-> h[<<>>]], 0)>>)
<1>1. PICK w : w = NodeAt(m, h, <<>>, "")
  OBVIOUS
<1>2. <<>> \in DOMAIN m /\ m[<<>>].type = "d" /\ Len(<<>>) = 0
  BY DEF Shaped
<1>3. w = Node([name |-> "", type |-> "d", id |-> h[<<>>]], 0)
  BY <1>1, <1>2 DEF NodeAt
<1>4. "" \in Words /\ "nix-archive-1" \in Strings(m)
  BY DEF Words, Strings
<1>5. w \in Works(m, h) /\ Writes(m, h, g, w, g[<<>>]) /\ g[<<>>] \in Seq(Strings(m))
  <2>1. w \in Works(m, h)
    <3>1. PICK q \in DOMAIN m, n \in Words : w = NodeAt(m, h, q, n)
      BY <1>1, <1>2, <1>4
    <3> QED BY <3>1 DEF Works
  <2>2. Writes(m, h, g, w, g[<<>>])
    BY <1>1, <1>2, <1>4 DEF Writes
  <2> QED BY <1>2, <2>1, <2>2 DEF Narred
<1>6. Renders(m, h, g, Append(<<>>, w), g[<<>>] \o <<>>)
  BY <1>5, RendersNone, RendersMore
<1>7. Append(<<>>, w) = <<w>> /\ g[<<>>] \o <<>> = g[<<>>]
  <2>1. PICK W : W = Works(m, h)
    OBVIOUS
  <2>2. <<>> \o <<w>> = Append(<<>>, w) /\ <<w>> \in Seq(W) /\ <<>> \in Seq(W)
    BY <1>5, <2>1, AppendIsConcat, Tuples
  <2> QED BY <1>5, <2>2, ConcatEmptySeq
<1>8. <<"nix-archive-1">> \in Seq(Strings(m))
  BY <1>4, Tuples
<1> QED BY <1>3, <1>6, <1>7, <1>8 DEF Reading, Full

LEMMA StrReads ==
  ASSUME NEW m, NEW h, NEW g, NEW n, NEW k, Reading(m, h, g, n, k), k # <<>>,
         NEW w, w = k[Len(k)], ~w.node
  PROVE  Reading(m, h, g, Append(n, w.str), Front(k))
<1>1. PICK t : Renders(m, h, g, k, t) /\ n \o t = Full(g)
  BY DEF Reading
<1>2. PICK r \in Seq(Strings(m)), u \in Seq(Strings(m)) :
        Writes(m, h, g, w, r) /\ t = r \o u /\ Renders(m, h, g, Front(k), u)
  BY <1>1, RendersLess
<1>3. PICK s \in Strings(m) : w = Str(s) /\ r = <<s>>
  <2>1. ASSUME NEW p \in DOMAIN m, NEW x \in Words, w = NodeAt(m, h, p, x) PROVE FALSE
    <3>1. w.node = TRUE
      BY <2>1 DEF NodeAt, Node
    <3> QED BY <3>1
  <2>2. \E s \in Strings(m) : w = Str(s) /\ r = <<s>>
    BY <1>2, <2>1 DEF Writes
  <2> QED BY <2>2
<1>4. w.str = s
  BY <1>3 DEF Str
<1>5. n \in Seq(Strings(m))
  BY DEF Reading
<1>6. PICK l : l = Append(n, s)
  OBVIOUS
<1>7. l \in Seq(Strings(m)) /\ n \o (<<s>> \o u) = l \o u
  <2>1. l \in Seq(Strings(m))
    BY <1>5, <1>6, AppendOne
  <2>2. n \o (<<s>> \o u) = l \o u
    BY <1>5, <1>6, AppendCons
  <2> QED BY <2>1, <2>2
<1> QED BY <1>1, <1>2, <1>3, <1>4, <1>6, <1>7 DEF Reading

LEMMA NodeReads ==
  ASSUME NEW m, NEW h, NEW g, NEW n, NEW k, Reading(m, h, g, n, k), k # <<>>,
         NEW w, w = k[Len(k)], w.node
  PROVE  \E p : NodeHere(m, h, g, n, k, w, p)
<1>1. PICK t : Renders(m, h, g, k, t) /\ n \o t = Full(g)
  BY DEF Reading
<1>2. PICK r \in Seq(Strings(m)), u \in Seq(Strings(m)) :
        Writes(m, h, g, w, r) /\ t = r \o u /\ Renders(m, h, g, Front(k), u)
  BY <1>1, RendersLess
<1>3. PICK p \in DOMAIN m, x \in Words : w = NodeAt(m, h, p, x) /\ r = g[p]
  <2>1. ASSUME NEW s \in Strings(m), w = Str(s) PROVE FALSE
    <3>1. w.node = FALSE
      BY <2>1 DEF Str
    <3> QED BY <3>1
  <2>2. \E p \in DOMAIN m, x \in Words : w = NodeAt(m, h, p, x) /\ r = g[p]
    BY <1>2, <2>1 DEF Writes
  <2> QED BY <2>2
<1>4. w.depth = Len(p) /\ w.entry.type = m[p].type /\ w.entry.id = h[p]
  BY <1>3 DEF NodeAt, Node
<1> QED BY <1>1, <1>2, <1>3, <1>4 DEF NodeHere

LEMMA PrefixWith ==
  ASSUME NEW A, NEW a \in Seq(A), NEW b \in Seq(A)
  PROVE  IsPrefix(a, a \o b)
<1>1. PICK c : c = a \o b
  OBVIOUS
<1>2. /\ c \in Seq(A) /\ Len(c) = Len(a) + Len(b) /\ Len(a) \in Nat /\ Len(b) \in Nat
      /\ \A i \in 1 .. Len(a) + Len(b) : c[i] = IF i <= Len(a) THEN a[i] ELSE b[i - Len(a)]
  BY <1>1, ConcatProperties, LenProperties
<1>3. \A i \in 1 .. Len(a) : c[i] = a[i]
  BY <1>2
<1>4. SubSeq(c, 1, Len(a)) = SubSeq(a, 1, Len(a))
  BY <1>2, <1>3
<1> QED BY <1>1, <1>2, <1>4 DEF IsPrefix


Associative(A) == \A i, j, k \in Seq(A) : (i \o j) \o k = i \o (j \o k)
LEMMA Associates ==
  ASSUME NEW A
  PROVE  Associative(A)
BY ConcatAssociative DEF Associative


LEMMA LeafReads ==
  ASSUME NEW m, Shaped(m), NEW h, Hashed(m, h), NEW g, Narred(m, g), NEW n, n \in Seq(Strings(m)),
         NEW k, NEW w, NEW p, NodeHere(m, h, g, n, k, w, p), m[p].type # "d"
  PROVE  Reading(m, h, g, n \o <<"(", "type">> \o Leaf(w.entry.type, w.entry.id.data), Front(k) \o <<>>)
<1>1. PICK A : A = Strings(m)
  OBVIOUS
<1>0. \A x, y, z \in Seq(A) : (x \o y) \o z = x \o (y \o z)
  <2>1. Associative(A)
    BY Associates
  <2> QED BY <2>1 DEF Associative
<1>2. PICK u : Renders(m, h, g, Front(k), u) /\ n \o (g[p] \o u) = Full(g)
  BY DEF NodeHere
<1>3. u \in Seq(A) /\ Front(k) \in Seq(Works(m, h))
  BY <1>1, <1>2, RendersType
<1>4. PICK a, b : a = <<"(", "type">> /\ b = Leaf(m[p].type, m[p].id.data)
  OBVIOUS
<1>5. p \in DOMAIN m /\ w.entry.type = m[p].type /\ w.entry.id = m[p].id
  BY DEF NodeHere, Hashed, HashOf
<1>6. a \in Seq(A)
  <2>1. "(" \in A /\ "type" \in A
    BY <1>1 DEF Strings, Words
  <2> QED BY <1>4, <2>1, Tuples
<1>7. b \in Seq(A)
  <2>1. m[p].type \in FileTypes /\ m[p].id.data \in A /\ Words \subseteq A
    BY <1>1, <1>5 DEF Shaped, ANode, Kinds, Strings
  <2> QED BY <1>4, <2>1, LeafIs
<1>8. g[p] = a \o b
  BY <1>4, <1>5 DEF Narred, NarFits, NarStep
<1>9. n \in Seq(A) /\ n \o a \in Seq(A) /\ (n \o a) \o b \in Seq(A)
  <2>1. n \in Seq(A) /\ n \o a \in Seq(A)
    BY <1>1, <1>6, ConcatProperties
  <2> QED BY <1>7, <2>1, ConcatProperties
<1>10. ((n \o a) \o b) \o u = n \o ((a \o b) \o u)
  <2>1. n \in Seq(A) /\ a \in Seq(A) /\ b \in Seq(A) /\ u \in Seq(A)
    BY <1>3, <1>6, <1>7, <1>9
  <2>2. (n \o a) \o b = n \o (a \o b)
    BY <1>0, <2>1
  <2>3. PICK c : c = a \o b
    OBVIOUS
  <2>4. c \in Seq(A)
    BY <2>1, <2>3, ConcatProperties
  <2>5. (n \o c) \o u = n \o (c \o u)
    BY <1>0, <2>1, <2>4
  <2> QED BY <2>2, <2>3, <2>5
<1>11. Front(k) \o <<>> = Front(k)
  BY <1>3, ConcatEmptySeq
<1> QED BY <1>1, <1>2, <1>4, <1>5, <1>8, <1>9, <1>10, <1>11 DEF Reading

DirOpens == <<"(", "type">> \o <<"directory">>
Regrouped(A, a, b, f, z, u) ==
  /\ f \o (z \o u) \in Seq(A) /\ a \o b \in Seq(A)
  /\ (a \o ((b \o f) \o z)) \o u = (a \o b) \o (f \o (z \o u))
LEMMA Regroup ==
  ASSUME NEW A, NEW a \in Seq(A), NEW b \in Seq(A), NEW f \in Seq(A), NEW z \in Seq(A), NEW u \in Seq(A)
  PROVE  Regrouped(A, a, b, f, z, u)
<1>0. \A i, j, k \in Seq(A) : (i \o j) \o k = i \o (j \o k)
  <2>1. Associative(A)
    BY Associates
  <2> QED BY <2>1 DEF Associative
<1>1. PICK c : c = b \o f
  OBVIOUS
<1>2. c \in Seq(A)
  BY <1>1, ConcatProperties
<1>3. PICK e : e = c \o z
  OBVIOUS
<1>4. e \in Seq(A)
  BY <1>2, <1>3, ConcatProperties
<1>5. PICK y : y = z \o u
  OBVIOUS
<1>6. y \in Seq(A)
  BY <1>5, ConcatProperties
<1>7. PICK x : x = f \o y
  OBVIOUS
<1>8. x \in Seq(A)
  BY <1>6, <1>7, ConcatProperties
<1>9. a \o b \in Seq(A)
  BY ConcatProperties
<1>10. (a \o e) \o u = a \o (e \o u)
  BY <1>0, <1>4
<1>11. (c \o z) \o u = c \o (z \o u)
  BY <1>0, <1>2
<1>12. (b \o f) \o y = b \o (f \o y)
  BY <1>0, <1>6
<1>13. (a \o b) \o x = a \o (b \o x)
  BY <1>0, <1>8
<1> QED
  BY <1>1, <1>3, <1>5, <1>7, <1>8, <1>9, <1>10, <1>11, <1>12, <1>13 DEF Regrouped

DirReadsAs(A, r, fs, u) ==
  /\ DirOpens \in Seq(A) /\ fs \o (<<")">> \o u) \in Seq(A)
  /\ r \o u = DirOpens \o (fs \o (<<")">> \o u))
LEMMA DirArchive ==
  ASSUME NEW m, Shaped(m), NEW g, Narred(m, g), NEW p \in DOMAIN m, m[p].type = "d",
         NEW A, A = Strings(m), NEW fs \in Seq(A), fs = FlattenSeq(EntryNars(m, g, p)), NEW u \in Seq(A)
  PROVE  DirReadsAs(A, g[p], fs, u)
<1>1. PICK a, b, z : a = <<"(", "type">> /\ b = <<"directory">> /\ z = <<")">>
  OBVIOUS
<1>2. a \in Seq(A) /\ b \in Seq(A) /\ z \in Seq(A)
  <2>1. "(" \in A /\ "type" \in A /\ "directory" \in A /\ ")" \in A
    BY DEF Strings, Words
  <2> QED BY <1>1, <2>1, Tuples
<1>3. g[p] = a \o ((b \o fs) \o z)
  BY <1>1 DEF Narred, NarFits, NarStep
<1>4. Regrouped(A, a, b, fs, z, u)
  BY <1>2, Regroup
<1> QED BY <1>1, <1>3, <1>4 DEF DirOpens, DirReadsAs, Regrouped

LEMMA DirReads ==
  ASSUME NEW m, Shaped(m), NEW h, Hashed(m, h), NEW g, Narred(m, g), NEW n, n \in Seq(Strings(m)),
         NEW k, NEW w, NEW p, NodeHere(m, h, g, n, k, w, p), m[p].type = "d",
         NEW l, l = Front(k) \o (Strs(<<")">>) \o Pushed(Sorted(w.entry.id.entries), w.depth + 1))
  PROVE  Reading(m, h, g, n \o DirOpens, l)
<1>1. PICK A, W : A = Strings(m) /\ W = Works(m, h)
  OBVIOUS
<1>2. PICK u : Renders(m, h, g, Front(k), u) /\ n \o (g[p] \o u) = Full(g)
  BY DEF NodeHere
<1>3. PICK v : v = Front(k)
  OBVIOUS
<1>4. u \in Seq(A) /\ v \in Seq(W)
  BY <1>1, <1>2, <1>3, RendersType
<1>5. p \in DOMAIN m /\ w.depth = Len(p) /\ w.entry.id = h[p]
  BY DEF NodeHere
<1>6. PICK x : x = Str(")")
  OBVIOUS
<1>7. ")" \in Words /\ ")" \in A
  BY <1>1 DEF Strings, Words
<1>8. x \in W
  BY <1>1, <1>6, <1>7, WordWork
<1>9. PICK v1 : v1 = Append(v, x)
  OBVIOUS
<1>10. PICK u1 : u1 = <<")">> \o u
  OBVIOUS
<1>11. Renders(m, h, g, v1, u1)
  BY <1>2, <1>3, <1>6, <1>7, <1>9, <1>10, RendersWord
<1>12. PICK pushed, fs : pushed = Pushed(Sorted(h[p].entries), Len(p) + 1)
                         /\ fs = FlattenSeq(EntryNars(m, g, p))
  OBVIOUS
<1>13. pushed \in Seq(W) /\ fs \in Seq(A) /\ Renders(m, h, g, v1 \o pushed, fs \o u1)
  BY <1>1, <1>5, <1>11, <1>12, PushedRenders
<1>14. l = v1 \o pushed
  <2>1. Strs(<<")">>) = <<x>>
    BY <1>6, StrsIs
  <2>2. v \o (<<x>> \o pushed) = v1 \o pushed
    <3>1. v \o <<x>> = v1
      BY <1>4, <1>8, <1>9, AppendOne
    <3>2. <<x>> \in Seq(W) /\ v \in Seq(W) /\ pushed \in Seq(W)
      BY <1>4, <1>8, <1>13, Tuples
    <3>3. (v \o <<x>>) \o pushed = v \o (<<x>> \o pushed)
      BY <3>2, ConcatAssociative
    <3> QED BY <3>1, <3>3
  <2> QED BY <1>3, <1>5, <1>12, <2>1, <2>2
<1>15. PICK d : d = DirOpens
  OBVIOUS
<1>16. d \in Seq(A) /\ fs \o u1 \in Seq(A) /\ g[p] \o u = d \o (fs \o u1)
  <2>1. DirReadsAs(A, g[p], fs, u)
    BY <1>1, <1>4, <1>5, <1>12, <1>13, DirArchive
  <2> QED BY <1>10, <1>15, <2>1 DEF DirReadsAs
<1>17. PICK r : r = fs \o u1
  OBVIOUS
<1>18. r \in Seq(A) /\ g[p] \o u = d \o r
  BY <1>16, <1>17
<1>19. (n \o d) \o r = n \o (d \o r) /\ n \o d \in Seq(A)
  BY <1>1, <1>16, <1>18, ConcatAssociative, ConcatProperties
<1> QED BY <1>1, <1>2, <1>13, <1>14, <1>15, <1>17, <1>18, <1>19 DEF Reading

LEMMA StopReads ==
  ASSUME NEW m, Shaped(m), NEW h, Hashed(m, h), NEW g, Narred(m, g), NEW n, n \in Seq(Strings(m)),
         NEW k, NEW w, NEW p, NodeHere(m, h, g, n, k, w, p),
         NEW s, s = <<"(", "type">> \o (IF m[p].type = "d" THEN <<"directory">> ELSE <<>>)
  PROVE  IsPrefix(n \o s, Full(g))
<1>1. PICK A : A = Strings(m)
  OBVIOUS
<1>0. \A x, y, z \in Seq(A) : (x \o y) \o z = x \o (y \o z)
  <2>1. Associative(A)
    BY Associates
  <2> QED BY <2>1 DEF Associative
<1>2. PICK u : Renders(m, h, g, Front(k), u) /\ n \o (g[p] \o u) = Full(g)
  BY DEF NodeHere
<1>3. u \in Seq(A) /\ n \in Seq(A) /\ p \in DOMAIN m
  BY <1>1, <1>2, RendersType DEF NodeHere
<1>4. \E r \in Seq(A) : s \in Seq(A) /\ g[p] \o u = s \o r
  <2>1. CASE m[p].type = "d"
    <3>1. PICK fs : fs = FlattenSeq(EntryNars(m, g, p))
      OBVIOUS
    <3>2. fs \in Seq(A)
      <4>1. Renders(m, h, g, <<>>, <<>>)
        BY RendersNone
      <4> QED BY <1>1, <1>3, <2>1, <3>1, <4>1, PushedRenders
    <3>3. PICK r, d : r = fs \o (<<")">> \o u) /\ d = DirOpens
      OBVIOUS
    <3>4. d \in Seq(A) /\ r \in Seq(A) /\ g[p] \o u = d \o r
      <4>1. DirReadsAs(A, g[p], fs, u)
        BY <1>1, <1>3, <2>1, <3>1, <3>2, DirArchive
      <4> QED BY <3>3, <4>1 DEF DirReadsAs
    <3>5. s = d
      BY <2>1, <3>3 DEF DirOpens
    <3> QED BY <3>4, <3>5
  <2>2. CASE m[p].type # "d"
    <3>1. PICK a, b : a = <<"(", "type">> /\ b = Leaf(m[p].type, m[p].id.data)
      OBVIOUS
    <3>2. a \in Seq(A)
      <4>1. "(" \in A /\ "type" \in A
        BY <1>1 DEF Strings, Words
      <4> QED BY <3>1, <4>1, Tuples
    <3>3. b \in Seq(A)
      <4>1. m[p].type \in FileTypes /\ m[p].id.data \in A /\ Words \subseteq A
        BY <1>1, <1>3, <2>2 DEF Shaped, ANode, Kinds, Strings
      <4> QED BY <3>1, <4>1, LeafIs
    <3>4. g[p] = a \o b
      BY <1>3, <2>2, <3>1 DEF Narred, NarFits, NarStep
    <3>5. s = a
      <4>1. s = a \o <<>>
        BY <2>2, <3>1
      <4> QED BY <3>2, <4>1, ConcatEmptySeq
    <3>6. (a \o b) \o u = a \o (b \o u)
      BY <1>0, <1>3, <3>2, <3>3
    <3>7. b \o u \in Seq(A)
      BY <1>3, <3>3, ConcatProperties
    <3> QED BY <3>2, <3>4, <3>5, <3>6, <3>7
  <2> QED BY <2>1, <2>2
<1>5. PICK r \in Seq(A) : s \in Seq(A) /\ g[p] \o u = s \o r
  BY <1>4
<1>6. (n \o s) \o r = n \o (s \o r) /\ n \o s \in Seq(A)
  <2>1. s \in Seq(A) /\ r \in Seq(A) /\ n \in Seq(A)
    BY <1>3, <1>5
  <2>2. (n \o s) \o r = n \o (s \o r)
    BY <1>0, <2>1
  <2> QED BY <2>1, <2>2, ConcatProperties
<1>7. PICK c : c = n \o s
  OBVIOUS
<1>8. IsPrefix(c, c \o r)
  BY <1>5, <1>6, <1>7, PrefixWith
<1> QED BY <1>2, <1>5, <1>6, <1>7, <1>8



-----------------------------------------------------------------------------
(* The invariant of the readers: unless the archive has been refused there *)
(* is a tree that the archive describes, with an id for each of its paths, *)
(* that the tree in memory, the root, the cache, the last answer and the   *)
(* dump all agree with.                                                    *)
Known(m, h) == Told(m) /\ Shaped(m) /\ Hashed(m, h)
Dumping(m, h, g) ==
  /\ nar = <<>> => work = <<>>
  /\ nar # <<>> /\ pc = "done" => Reading(m, h, g, nar, work)
  /\ pc = "broken" => IsPrefix(nar, Full(g)) /\ work # <<>>
Kept(m, h) ==
  /\ Put(m, h) /\ CacheOk(cache) /\ Answered(m, h, answer, cache)
  /\ \A g : Narred(m, g) => Dumping(m, h, g)
Idle == answer = NoAnswer /\ nar = <<>> /\ work = <<>> /\ cache = <<>>
ReadInv ==
  /\ StoreInv
  /\ pc \in {"apply", "failed", "flush"} => Idle
  /\ pc # "failed" => \E m, h : Known(m, h) /\ Kept(m, h)

LEMMA IdleKept ==
  ASSUME Idle, NEW m, NEW h, Put(m, h), pc \notin {"done", "broken"}
  PROVE  Kept(m, h)
<1>1. CacheOk(cache) /\ Answered(m, h, answer, cache)
  BY DEF Idle, CacheOk, Answered
<1>2. \A g : Dumping(m, h, g)
  BY DEF Idle, Dumping
<1> QED BY <1>1, <1>2 DEF Kept

LEMMA ReadInit == ASSUME ReaderInit PROVE ReadInv
<1>1. Told(tree) /\ Shaped(tree) /\ StoreInv
  BY ToldInit, StoreInit
<1>2. PICK m : m = tree
  OBVIOUS
<1>3. DOMAIN m \subseteq Path
  BY <1>1, <1>2 DEF Shaped
<1>4. PICK h : Hashed(m, h)
  BY <1>3, HashExists
<1>5. pc = "apply" /\ Idle
  BY DEF ReaderInit, Init, Idle
<1>6. Put(m, h)
  BY <1>2, <1>5 DEF Put
<1>7. Kept(m, h)
  BY <1>5, <1>6, IdleKept
<1>8. Known(m, h)
  BY <1>1, <1>2, <1>4 DEF Known
<1> QED BY <1>1, <1>5, <1>7, <1>8 DEF ReadInv

(* An item is applied: what the archive says, and the tree, become more.   *)
LEMMA ApplyRead ==
  ASSUME ReadInv, NEW item \in Items, UNCHANGED readers,
         ApplyDir(item) \/ ApplyFile(item) \/ ApplyLink(item), pc' = "apply"
  PROVE  \E m, h : Known(m, h)' /\ Put(m, h)'
<1>1. pc = "apply"
  BY DEF ApplyDir, ApplyFile, ApplyLink, More
<1>2. PICK m, h : Known(m, h) /\ Kept(m, h)
  BY <1>1 DEF ReadInv
<1>3. tree = m
  BY <1>1, <1>2 DEF Kept, Put
<1>4. Told(tree) /\ Shaped(tree)
  BY <1>2, <1>3 DEF Known
<1>5. Told(tree)' /\ Shaped(tree)'
  BY <1>4, AppliedTold
<1>6. PICK t : t = tree'
  OBVIOUS
<1>7. Shaped(t) /\ DOMAIN t \subseteq Path
  BY <1>5, <1>6 DEF Shaped
<1>8. PICK k : Hashed(t, k)
  BY <1>7, HashExists
<1>9. Told(t)'
  BY <1>5, <1>6 DEF Told
<1>10. Known(t, k)'
  BY <1>7, <1>8, <1>9 DEF Known
<1>11. Put(t, k)'
  BY <1>6 DEF Put
<1> QED BY <1>10, <1>11

LEMMA IngestRead ==
  ASSUME ReadInv, Ingest, UNCHANGED readers, StoreInv'
  PROVE  ReadInv'
<1>1. pc \in {"apply", "flush"}
  BY DEF Ingest, ApplyDir, ApplyFile, ApplyLink, ApplyFails, More, EndOfArchive, FlushDir
<1>2. Idle /\ Idle'
  BY <1>1 DEF ReadInv, Idle, readers, walker, dump
<1>3. PICK m, h : Known(m, h) /\ Kept(m, h)
  BY <1>1 DEF ReadInv
<1>4. ASSUME NEW k, NEW j, Known(k, j)', Put(k, j)', pc' \in {"apply", "flush"} PROVE ReadInv'
  <2>1. CacheOk(cache)' /\ Answered(k, j, answer, cache)'
    BY <1>2 DEF Idle, CacheOk, Answered
  <2>2. \A g : Dumping(k, j, g)'
    BY <1>2, <1>4 DEF Idle, Dumping
  <2>3. Kept(k, j)'
    BY <1>4, <2>1, <2>2 DEF Kept
  <2> QED BY <1>2, <1>4, <2>3 DEF ReadInv
<1>5. CASE pc' = "failed"
  BY <1>2, <1>5 DEF ReadInv
<1>6. CASE \E item \in Items : ApplyDir(item) \/ ApplyFile(item) \/ ApplyLink(item)
  <2>1. PICK item \in Items : ApplyDir(item) \/ ApplyFile(item) \/ ApplyLink(item)
    BY <1>6
  <2>2. pc' \in {"apply", "failed"}
    BY <2>1 DEF ApplyDir, ApplyFile, ApplyLink, Add, More
  <2>3. CASE pc' = "apply"
    <3>1. PICK k, j : Known(k, j)' /\ Put(k, j)'
      BY <2>1, <2>3, ApplyRead
    <3> QED BY <1>4, <2>3, <3>1
  <2> QED BY <1>5, <2>2, <2>3
<1>7. CASE EndOfArchive
  <2>1. pc = "apply" /\ pc' = "flush" /\ given' = given /\ tree' = tree /\ tree = m
    BY <1>3, <1>7 DEF EndOfArchive, Kept, Put
  <2>2. Flushing(m, h)
    BY <1>3, <2>1, FlushBegins DEF Known
  <2>3. Flushing(m, h)'
    BY <2>1, <2>2 DEF Flushing, Dirs
  <2>4. Put(m, h)'
    BY <2>1, <2>3 DEF Put
  <2>5. Known(m, h)'
    BY <1>3, <2>1 DEF Known, Told
  <2> QED BY <1>4, <2>1, <2>4, <2>5
<1>8. CASE \E path \in Dirs : FlushDir(path)
  <2>1. PICK path \in Dirs : FlushDir(path)
    BY <1>8
  <2>2. TreeType /\ Shaped(m) /\ Hashed(m, h) /\ Put(m, h)
    BY <1>3 DEF ReadInv, StoreInv, Known, Kept
  <2>3. Put(m, h)' /\ pc' \in {"flush", "done"}
    BY <2>1, <2>2, PutFlush
  <2>4. given' = given
    BY <2>1 DEF FlushDir
  <2>5. Known(m, h)'
    BY <1>3, <2>4 DEF Known, Told
  <2>6. CacheOk(cache)' /\ Answered(m, h, answer, cache)'
    BY <1>2 DEF Idle, CacheOk, Answered
  <2>7. \A g : Dumping(m, h, g)'
    BY <1>2, <2>3 DEF Idle, Dumping
  <2>8. Kept(m, h)'
    BY <2>3, <2>6, <2>7 DEF Kept
  <2> QED BY <1>2, <2>5, <2>8 DEF ReadInv
<1>9. CASE \E item \in Items : ApplyFails(item)
  BY <1>5, <1>9 DEF ApplyFails
<1> QED BY <1>6, <1>7, <1>8, <1>9 DEF Ingest


(* A step of the dump, after which what is written still agrees.           *)
LEMMA DumpNodeReads ==
  ASSUME NEW m, NEW h, NEW g, Shaped(m), Hashed(m, h), Narred(m, g), Dumping(m, h, g), DumpNode
  PROVE  Dumping(m, h, g)' /\ pc' \in {"done", "broken"}
<1>1. pc = "done" /\ work # <<>> /\ Top.node /\ nar # <<>>
  BY DEF DumpNode, Dumping
<1>2. PICK w : w = Top
  OBVIOUS
<1>3. Reading(m, h, g, nar, work) /\ w = work[Len(work)] /\ w.node
  BY <1>1, <1>2 DEF Dumping, Top
<1>4. PICK p : NodeHere(m, h, g, nar, work, w, p)
  BY <1>1, <1>3, NodeReads
<1>5. /\ p \in DOMAIN m /\ w.depth = Len(p) /\ w.entry.type = m[p].type /\ w.entry.id = h[p]
      /\ nar \in Seq(Strings(m))
  BY <1>3, <1>4 DEF NodeHere, Reading
<1>6. w.depth <= MaxTreeDepth /\ ~(w.depth > MaxTreeDepth)
  <2>1. p \in Path /\ MaxTreeDepth \in Nat
    BY <1>5, TarAssumption DEF Shaped
  <2>2. Len(p) \in Nat /\ Len(p) <= MaxTreeDepth
    BY <2>1 DEF Path
  <2> QED BY <1>5, <2>1, <2>2
<1>7. CASE ~Readable(w.entry.id)
  <2>1. PICK s : s = <<"(", "type">> \o (IF m[p].type = "d" THEN <<"directory">> ELSE <<>>)
    OBVIOUS
  <2>2. DumpStops("broken", s)
    BY <1>2, <1>5, <1>6, <1>7, <2>1 DEF DumpNode
  <2>3. nar' = nar \o s /\ pc' = "broken" /\ work' = work
    BY <2>2 DEF DumpStops
  <2>4. IsPrefix(nar \o s, Full(g))
    BY <1>4, <1>5, <2>1, StopReads
  <2>5. IsPrefix(nar', Full(g))
    BY <2>3, <2>4
  <2>6. (nar' = <<>> => work' = <<>>) /\ work' # <<>>
    <3>1. s # <<>> /\ nar \o s # <<>>
      <4>1. nar # <<>>
        BY <1>1
      <4>2. s \in Seq(Strings(m))
        <5>1. "(" \in Strings(m) /\ "type" \in Strings(m) /\ "directory" \in Strings(m)
          BY DEF Strings, Words
        <5>2. PICK a, b : a = <<"(", "type">> /\ b = <<"directory">>
          OBVIOUS
        <5>3. a \in Seq(Strings(m)) /\ b \in Seq(Strings(m)) /\ <<>> \in Seq(Strings(m))
          BY <5>1, <5>2, Tuples
        <5>4. a \o b \in Seq(Strings(m)) /\ a \o <<>> \in Seq(Strings(m))
          BY <5>3, ConcatProperties
        <5> QED BY <2>1, <5>2, <5>4
      <4>3. nar \o s # <<>>
        BY <1>5, <4>1, <4>2, ConcatEqualIffEmpty
      <4>4. s = <<>> => Len(s) = 0
        OBVIOUS
      <4>5. Len(s) # 0
        <5>1. m[p].type = "d" => s = <<"(", "type">> \o <<"directory">>
          BY <2>1
        <5>2. m[p].type # "d" => s = <<"(", "type">> \o <<>>
          BY <2>1
        <5> QED BY <5>1, <5>2
      <4> QED BY <4>3, <4>4, <4>5
    <3> QED BY <1>1, <2>3, <3>1
  <2>7. Dumping(m, h, g)'
    BY <2>3, <2>5, <2>6 DEF Dumping
  <2> QED BY <2>3, <2>7
<1>8. ASSUME NEW n, NEW k, nar' = n, work' = k, pc' = "done", Reading(m, h, g, n, k), n # <<>>
      PROVE  Dumping(m, h, g)' /\ pc' \in {"done", "broken"}
  BY <1>8 DEF Dumping
<1>9. ASSUME NEW n, NEW s, s \in Seq(Strings(m)), n = nar \o s PROVE n # <<>>
  BY <1>1, <1>5, <1>9, ConcatEqualIffEmpty
<1>10. CASE Readable(w.entry.id) /\ m[p].type = "d"
  <2>1. PICK rest : rest = Strs(<<")">>) \o Pushed(Sorted(w.entry.id.entries), w.depth + 1)
    OBVIOUS
  <2>2. Dumps(<<"directory">>, rest)
    BY <1>2, <1>5, <1>6, <1>10, <2>1 DEF DumpNode
  <2>3. PICK n, k : n = nar \o DirOpens /\ k = Front(work) \o rest
    OBVIOUS
  <2>4. nar' = n /\ work' = k /\ pc' = "done"
    <3>1. nar' = nar \o <<"(", "type">> \o <<"directory">> /\ work' = Front(work) \o rest /\ pc' = pc
      BY <2>2 DEF Dumps, vars
    <3>2. PICK A, a, b : A = Strings(m) /\ a = <<"(", "type">> /\ b = <<"directory">>
      OBVIOUS
    <3>3. "(" \in A /\ "type" \in A /\ "directory" \in A /\ nar \in Seq(A)
      BY <1>5, <3>2 DEF Strings, Words
    <3>4. a \in Seq(A) /\ b \in Seq(A) /\ nar \in Seq(A)
      BY <3>2, <3>3, Tuples
    <3>5. (nar \o a) \o b = nar \o (a \o b)
      BY <3>4, Associates DEF Associative
    <3>6. nar' = n
      BY <2>3, <3>1, <3>2, <3>5 DEF DirOpens
    <3> QED BY <1>1, <2>3, <3>1, <3>6
  <2>5. Reading(m, h, g, n, k)
    BY <1>4, <1>5, <1>10, <2>1, <2>3, DirReads
  <2>6. n # <<>>
    <3>1. PICK A, a, b : A = Strings(m) /\ a = <<"(", "type">> /\ b = <<"directory">>
      OBVIOUS
    <3>2. "(" \in A /\ "type" \in A /\ "directory" \in A
      BY <3>1 DEF Strings, Words
    <3>3. a \in Seq(A) /\ b \in Seq(A)
      BY <3>1, <3>2, Tuples
    <3>4. a \o b \in Seq(A)
      BY <3>3, ConcatProperties
    <3>5. DirOpens \in Seq(Strings(m))
      BY <3>1, <3>4 DEF DirOpens
    <3> QED BY <1>9, <2>3, <3>5
  <2> QED BY <1>8, <2>4, <2>5, <2>6
<1>11. CASE Readable(w.entry.id) /\ m[p].type # "d"
  <2>1. PICK l : l = Leaf(w.entry.type, w.entry.id.data)
    OBVIOUS
  <2>2. Dumps(l, <<>>)
    BY <1>2, <1>5, <1>6, <1>11, <2>1 DEF DumpNode
  <2>3. PICK n, k : n = nar \o <<"(", "type">> \o l /\ k = Front(work) \o <<>>
    OBVIOUS
  <2>4. nar' = n /\ work' = k /\ pc' = "done"
    BY <1>1, <2>2, <2>3 DEF Dumps, vars
  <2>5. Reading(m, h, g, n, k)
    BY <1>4, <1>5, <1>11, <2>1, <2>3, LeafReads
  <2>6. n # <<>>
    <3>1. PICK A, a : A = Strings(m) /\ a = <<"(", "type">>
      OBVIOUS
    <3>2. "(" \in A /\ "type" \in A /\ Words \subseteq A
      BY <3>1 DEF Strings, Words
    <3>3. a \in Seq(A)
      BY <3>1, <3>2, Tuples
    <3>4. nar \o a # <<>> /\ nar \o a \in Seq(A)
      BY <1>1, <1>5, <3>1, <3>3, ConcatEqualIffEmpty, ConcatProperties
    <3>5. l \in Seq(A)
      <4>1. m[p].type \in FileTypes /\ h[p] = m[p].id /\ m[p].id.data \in A
        BY <1>5, <1>11, <3>1 DEF Shaped, ANode, Kinds, Strings, Hashed, HashOf
      <4>2. l = Leaf(m[p].type, m[p].id.data)
        BY <1>5, <2>1, <4>1
      <4> QED BY <3>2, <4>1, <4>2, LeafIs
    <3>6. PICK c : c = nar \o a
      OBVIOUS
    <3>7. c \o l # <<>>
      BY <3>4, <3>5, <3>6, ConcatEqualIffEmpty
    <3> QED BY <2>3, <3>1, <3>6, <3>7
  <2> QED BY <1>8, <2>4, <2>5, <2>6
<1> QED BY <1>7, <1>10, <1>11

LEMMA DumpStrReads ==
  ASSUME NEW m, NEW h, NEW g, Dumping(m, h, g), DumpStr
  PROVE  Dumping(m, h, g)' /\ pc' = "done"
<1>1. /\ pc = "done" /\ work # <<>> /\ ~Top.node /\ pc' = pc
      /\ nar' = Append(nar, Top.str) /\ work' = Front(work)
  BY DEF DumpStr, vars
<1>2. PICK w : w = Top
  OBVIOUS
<1>3. Reading(m, h, g, nar, work) /\ w = work[Len(work)] /\ ~w.node
  BY <1>1, <1>2 DEF Dumping, Top
<1>4. Reading(m, h, g, Append(nar, w.str), Front(work))
  BY <1>1, <1>3, StrReads
<1>5. Reading(m, h, g, nar', work')
  BY <1>1, <1>2, <1>4
<1>6. nar' # <<>>
  <2>1. nar \in Seq(Strings(m))
    BY <1>3 DEF Reading
  <2>2. Len(nar') = Len(nar) + 1 /\ Len(nar) \in Nat
    BY <1>1, <2>1
  <2> QED BY <2>2
<1> QED BY <1>1, <1>5, <1>6 DEF Dumping


(* A step of the readers keeps the tree, and with it all that is said.     *)
LEMMA ReadSame ==
  ASSUME NEW m, NEW h, Known(m, h), Put(m, h), given' = given, root' = root, pc = "done",
         pc' \in {"done", "broken"}
  PROVE  Known(m, h)' /\ Put(m, h)'
<1>1. Known(m, h)'
  BY DEF Known, Told
<1>2. Put(m, h)'
  BY DEF Put
<1> QED BY <1>1, <1>2

LEMMA ReaderStep ==
  ASSUME ReadInv, Step, ~(Ingest /\ UNCHANGED readers), StoreInv'
  PROVE  ReadInv'
<1>1. pc = "done" /\ given' = given /\ root' = root
  BY DEF Step, Lookup, DumpBegin, DumpStr, DumpNode, Dumps, DumpStops, Rot, vars
<1>2. PICK m, h : Known(m, h) /\ Kept(m, h)
  BY <1>1 DEF ReadInv
<1>3. Shaped(m) /\ Hashed(m, h) /\ Put(m, h) /\ root = h[<<>>]
  BY <1>1, <1>2 DEF Known, Kept, Put
<1>4. ASSUME pc' \in {"done", "broken"}, CacheOk(cache)', Answered(m, h, answer, cache)',
             \A g : Narred(m, g) => Dumping(m, h, g)'
      PROVE  ReadInv'
  <2>1. Known(m, h)' /\ Put(m, h)'
    BY <1>1, <1>2, <1>3, <1>4, ReadSame
  <2>2. Kept(m, h)'
    BY <1>4, <2>1 DEF Kept, Narred, NarFits, NarStep, EntryNars, NamesOf, Strings
  <2> QED BY <1>4, <2>1, <2>2 DEF ReadInv
<1>5. ASSUME cache' = cache, answer' = answer PROVE CacheOk(cache)' /\ Answered(m, h, answer, cache)'
  BY <1>2, <1>5 DEF Kept, CacheOk, Answered, Missed
<1>6. CASE \E raw \in Queries : Lookup(raw)
  <2>1. PICK raw \in Queries : Lookup(raw)
    BY <1>6
  <2>2. raw \in Seq(STRING)
    BY ReaderAssumption
  <2>3. CacheOk(cache)
    BY <1>2 DEF Kept
  <2>4. CacheOk(cache)' /\ Answered(m, h, answer, cache)'
    BY <1>3, <2>1, <2>2, <2>3, LookupOk
  <2>5. pc' = pc /\ nar' = nar /\ work' = work
    BY <2>1 DEF Lookup, vars, dump
  <2>6. \A g : Narred(m, g) => Dumping(m, h, g)'
    BY <1>2, <2>5 DEF Kept, Dumping, Reading
  <2> QED BY <1>1, <1>4, <2>4, <2>5, <2>6
<1>7. CASE DumpBegin
  <2>1. /\ nar' = <<"nix-archive-1">> /\ pc' = "done" /\ cache' = cache /\ answer' = answer
        /\ work' = <<Node([name |-> "", type |-> "d", id |-> h[<<>>]], 0)>>
    BY <1>1, <1>3, <1>7 DEF DumpBegin, vars, walker
  <2>2. ASSUME NEW g, Narred(m, g) PROVE Dumping(m, h, g)'
    <3>1. Reading(m, h, g, nar', work')
      BY <1>3, <2>1, <2>2, StartReads
    <3>2. nar' # <<>>
      BY <2>1
    <3> QED BY <2>1, <3>1, <3>2 DEF Dumping
  <2> QED BY <1>4, <1>5, <2>1, <2>2
<1>8. CASE DumpStr
  <2>1. cache' = cache /\ answer' = answer /\ pc' = "done"
    BY <1>1, <1>8 DEF DumpStr, vars, walker
  <2>2. ASSUME NEW g, Narred(m, g) PROVE Dumping(m, h, g)'
    BY <1>2, <1>8, <2>2, DumpStrReads DEF Kept
  <2> QED BY <1>4, <1>5, <2>1, <2>2
<1>9. CASE DumpNode
  <2>1. cache' = cache /\ answer' = answer
    BY <1>9 DEF DumpNode, Dumps, DumpStops, vars, walker
  <2>2. ASSUME NEW g, Narred(m, g) PROVE Dumping(m, h, g)' /\ pc' \in {"done", "broken"}
    <3>1. Dumping(m, h, g)
      BY <1>2, <2>2 DEF Kept
    <3> QED BY <1>3, <1>9, <2>2, <3>1, DumpNodeReads
  <2>3. \E g : Narred(m, g)
    BY <1>3, NarExists, NarIsWords
  <2> QED BY <1>4, <1>5, <2>1, <2>2, <2>3
<1>10. CASE \E o \in objects : Rot(o)
  <2>1. cache' = cache /\ answer' = answer /\ pc' = pc /\ nar' = nar /\ work' = work
    BY <1>10 DEF Rot, vars, walker, dump
  <2>2. \A g : Narred(m, g) => Dumping(m, h, g)'
    BY <1>2, <2>1 DEF Kept, Dumping, Reading
  <2> QED BY <1>1, <1>4, <1>5, <2>1, <2>2
<1> QED BY <1>6, <1>7, <1>8, <1>9, <1>10 DEF Step

LEMMA ReadStep == ASSUME ReadInv, [Step]_<<vars, readers>> PROVE ReadInv'
<1>1. StoreInv'
  BY StoreStep DEF ReadInv
<1>2. CASE Ingest /\ UNCHANGED readers
  BY <1>1, <1>2, IngestRead
<1>3. CASE Step /\ ~(Ingest /\ UNCHANGED readers)
  BY <1>1, <1>3, ReaderStep
<1>4. CASE UNCHANGED <<vars, readers>>
  <2>1. /\ given' = given /\ tree' = tree /\ pc' = pc /\ root' = root
        /\ cache' = cache /\ answer' = answer /\ work' = work /\ nar' = nar
    BY <1>4 DEF vars, readers, walker, dump
  <2>2. CASE pc = "failed"
    BY <1>1, <2>1, <2>2 DEF ReadInv, Idle
  <2>3. CASE pc # "failed"
    <3>1. PICK m, h : Known(m, h) /\ Kept(m, h)
      BY <2>3 DEF ReadInv
    <3>2. Known(m, h)'
      BY <2>1, <3>1 DEF Known, Told
    <3>3. Put(m, h)'
      BY <2>1, <3>1 DEF Kept, Put, Flushing, Dirs
    <3>4. CacheOk(cache)' /\ Answered(m, h, answer, cache)'
      BY <2>1, <3>1 DEF Kept, CacheOk, Answered, Missed
    <3>5. \A g : Narred(m, g) => Dumping(m, h, g)'
      BY <2>1, <3>1 DEF Kept, Dumping, Reading
    <3>6. Kept(m, h)'
      BY <3>3, <3>4, <3>5 DEF Kept, Narred, NarFits, NarStep, EntryNars, NamesOf, Strings
    <3> QED BY <1>1, <2>1, <2>3, <3>2, <3>6 DEF ReadInv, Idle
  <2> QED BY <2>2, <2>3
<1> QED BY <1>2, <1>3, <1>4

LEMMA ReadAlways == Spec => []ReadInv
BY ReadInit, ReadStep, PTL DEF Spec

(* What the invariant says of an archive that was not refused.             *)
LEMMA ReadMeaning ==
  ASSUME ReadInv, pc # "failed"
  PROVE  \E h : Shaped(Meaning) /\ Hashed(Meaning, h) /\ Kept(Meaning, h)
<1>1. PICK m, h : Known(m, h) /\ Kept(m, h)
  BY DEF ReadInv
<1>2. Meaning = m
  BY <1>1, ToldIs DEF Known
<1>3. PICK t : t = Meaning
  OBVIOUS
<1>4. Shaped(t) /\ Hashed(t, h) /\ Kept(t, h)
  BY <1>1, <1>2, <1>3 DEF Known
<1> QED BY <1>3, <1>4

(* While an archive is read the tree in memory is what its entries say:    *)
(* the last of a path counts, a hard link stands for what its target was.  *)
(* For add_node() and apply_item() in src/src/tree.cpp, of any sequence of *)
(* items, whatever the names, the depth bound and the items are.           *)
THEOREM TreeIsMeaning == Spec => []LastEntryWins
<1>1. ReadInv => LastEntryWins
  <2>1. SUFFICES ASSUME ReadInv, pc = "apply" PROVE tree = Meaning
    BY DEF LastEntryWins
  <2>2. PICK h : Kept(Meaning, h)
    BY <2>1, ReadMeaning
  <2> QED BY <2>1, <2>2 DEF Kept, Put
<1> QED BY <1>1, ReadAlways, PTL

(* A lookup answers with the type, and for a file the id, that the archive *)
(* gives the path, and with "no" for a path that is there only where the   *)
(* cache holds an object that could not be read.  For TreeWalker::lookup.  *)
THEOREM LookupsAreSound == Spec => []FindSound
<1>1. ReadInv => FindSound
  <2>1. SUFFICES ASSUME ReadInv, answer # NoAnswer PROVE FindSound
    BY DEF FindSound
  <2>2. pc # "failed"
    BY <2>1 DEF ReadInv, Idle
  <2>3. PICK h : Shaped(Meaning) /\ Hashed(Meaning, h) /\ Kept(Meaning, h)
    BY <2>1, <2>2, ReadMeaning
  <2>4. PICK t : t = Meaning
    OBVIOUS
  <2>5. Hashed(t, h) /\ Answered(t, h, answer, cache)
    BY <2>3, <2>4 DEF Kept
  <2>6. answer.found = "yes" =>
          /\ answer.path \in DOMAIN t /\ answer.node.type = t[answer.path].type
          /\ answer.node.type # "d" => answer.node.id = t[answer.path].id
    BY <2>1, <2>5 DEF Answered, Hashed, HashOf
  <2>7. answer.found = "no" /\ answer.path \in DOMAIN t => \E id \in DOMAIN cache : cache[id] # id.entries
    BY <2>1, <2>5 DEF Answered, Missed
  <2> QED BY <2>4, <2>6, <2>7 DEF FindSound
<1> QED BY <1>1, ReadAlways, PTL

(* An archive that was accepted is never deeper than a dump may go: the    *)
(* bound of split_path is also that of nar_dump().                         *)
THEOREM DumpsReachTheLeaves == Spec => []DumpReaches
<1>1. ReadInv => DumpReaches
  <2>1. SUFFICES ASSUME ReadInv PROVE pc # "too deep"
    BY DEF DumpReaches
  <2>2. pc # "failed" => \E m, h : Put(m, h)
    BY <2>1 DEF ReadInv, Kept
  <2> QED BY <2>2 DEF Put
<1> QED BY <1>1, ReadAlways, PTL

(* A dump that ends has written the archive of the tree that was meant,    *)
(* and one that meets an object that cannot be read a prefix of it.  For   *)
(* nar_dump() of src/src/tree.cpp, of a tree of any size and depth.        *)
THEOREM DumpsAreTheTree == Spec => []NarIsTree
<1>1. ReadInv => NarIsTree
  <2>1. SUFFICES ASSUME ReadInv PROVE NarIsTree
    OBVIOUS
  <2>2. CASE pc = "failed"
    BY <2>1, <2>2 DEF ReadInv, Idle, NarIsTree
  <2>3. CASE pc # "failed"
    <3>1. PICK h : Shaped(Meaning) /\ Hashed(Meaning, h) /\ Kept(Meaning, h)
      BY <2>1, <2>3, ReadMeaning
    <3>2. Narred(Meaning, NarOf)
      BY <3>1, NarOfFits
    <3>3. Dumping(Meaning, h, NarOf)
      BY <3>1, <3>2 DEF Kept
    <3>4. Full(NarOf) = Nar
      BY DEF Full, Nar
    <3>5. pc = "broken" => IsPrefix(nar, Nar) /\ work # <<>>
      BY <3>3, <3>4 DEF Dumping
    <3>6. ASSUME nar # <<>>, work = <<>> PROVE nar = Nar
      <4>1. pc = "done"
        BY <2>1, <2>3, <3>1, <3>5, <3>6 DEF ReadInv, Idle, Kept, Put
      <4>2. Reading(Meaning, h, NarOf, nar, work)
        BY <3>3, <3>6, <4>1 DEF Dumping
      <4>3. PICK t : Renders(Meaning, h, NarOf, work, t) /\ nar \o t = Full(NarOf)
        BY <4>2 DEF Reading
      <4>4. t = <<>>
        BY <3>6, <4>3, RendersType
      <4>5. nar \o <<>> = nar
        BY <4>2, ConcatEmptySeq DEF Reading
      <4> QED BY <3>4, <4>3, <4>4, <4>5
    <3> QED BY <3>5, <3>6 DEF NarIsTree
  <2> QED BY <2>2, <2>3
<1> QED BY <1>1, ReadAlways, PTL
=============================================================================
