--------------------------- MODULE FetcherProofs ----------------------------
(***************************************************************************)
(* What a fetch hands out is whole while it is used, and what the entry of *)
(* Nix's cache names is a root, for any processes and versions, whatever   *)
(* fails, dies, is damaged, collected or wiped.                            *)
(***************************************************************************)
EXTENDS Fetcher, FiniteSetTheorems, TLAPS

Clean(T) == T.objs \ T.rot

(* A store may lack objects only beneath one that is damaged, or that it   *)
(* lacks itself; the sweep after a walk that broke off leaves it so.       *)
Settled(T) ==
  /\ T.rot \subseteq T.objs
  /\ \A v \in Versions :
       /\ <<v, Top>> \in Clean(T) => <<v, First>> \in T.objs /\ <<v, Last>> \in T.objs
       /\ <<v, Top>> \in Clean(T) /\ <<v, First>> \in Clean(T) /\ <<v, Last>> \in Clean(T)
            => <<v, File>> \in T.objs
SettledInv == \A s \in Slots : Settled(store[s])

(* A top directory that is there is a root, or is excused, in each         *)
(* directory, not only in the one that has the name.                       *)
RootInv ==
  \A s \in Slots, v \in Versions : <<v, Top>> \in store[s].objs =>
    \/ <<v, Top>> \in store[s].roots \/ v \in store[s].lost
    \/ \E p \in Users(s) : pc[p] = "strip" /\ got[p] = v

(* Which version a process has, and when a touch of its may be pending.    *)
PlaceInv ==
  \A p \in Procs :
    /\ pc[p] \in {"strip", "hash", "touch", "read", "served"} => got[p] # 0
    /\ pend[p] => pc[p] \in {"read", "served"}

(* No root of a tree in use is old while there still may be a pass: once   *)
(* there was one, there are no old roots until every process has ended.    *)
InUse(l, v, ok, T) ==
  /\ l \in {"download", "hash", "touch", "read"} /\ v # 0 /\ ok =>
       T.old = {} \/ <<v, Top>> \in T.roots \ T.old
  /\ l \in {"download", "touch", "read"} /\ v # 0 /\ ok =>
       Tree(v, Top) \subseteq Clean(T)
UseInv == \A p \in Procs : InUse(pc[p], got[p], sure[p], My(p))

FetchInv == TypeOK /\ PlaceInv /\ SettledInv /\ RootInv /\ UseInv /\ EntryMatches

-----------------------------------------------------------------------------
(* The data.                                                               *)
LEMMA Places ==
  /\ Versions \subseteq Nat \ {0} /\ IsFiniteSet(Procs) /\ MaxFaults \in Nat
  /\ 1 \in Versions /\ 0 \in Slots /\ MaxVersion \in Nat
  /\ \A v, w, k, j : <<v, k>> = <<w, j>> => v = w /\ k = j
<1>1. Cardinality(Procs) \in Nat
  BY FetcherAssumption, FS_CardinalityType
<1> QED BY <1>1, FetcherAssumption DEF Versions, Slots

LEMMA TreeIs ==
  ASSUME NEW v, NEW X
  PROVE  /\ Tree(v, Top) \subseteq X <=>
              /\ <<v, Top>> \in X /\ <<v, Last>> \in X /\ <<v, First>> \in X /\ <<v, File>> \in X
         /\ v \in Versions => /\ Tree(v, Arc) \subseteq Objects /\ Tree(v, Top) \subseteq Tree(v, Arc)
                              /\ <<v, Arc>> \in Objects /\ <<v, Top>> \in Objects
<1>1. Top .. File = {2, 3, 4, 5}
  BY DEF Top, File
<1>2. Arc .. File = {1, 2, 3, 4, 5}
  BY DEF Arc, File
<1> QED BY <1>1, <1>2 DEF Tree, Objects, Arc, Top, Last, First, File

LEMMA SettledWhole ==
  ASSUME NEW T, Settled(T), NEW v \in Versions, <<v, Top>> \in T.objs,
         Tree(v, Top) \cap T.rot = {}
  PROVE  Tree(v, Top) \subseteq Clean(T)
<1>1. /\ <<v, Top>> \in Tree(v, Top) /\ <<v, Last>> \in Tree(v, Top)
      /\ <<v, First>> \in Tree(v, Top) /\ <<v, File>> \in Tree(v, Top)
  BY TreeIs
<1>2. /\ <<v, Top>> \notin T.rot /\ <<v, Last>> \notin T.rot
      /\ <<v, First>> \notin T.rot /\ <<v, File>> \notin T.rot
  BY <1>1
<1>3. <<v, Top>> \in Clean(T) /\ <<v, First>> \in Clean(T) /\ <<v, Last>> \in Clean(T)
  BY <1>2 DEF Settled, Clean
<1>4. <<v, File>> \in Clean(T)
  BY <1>2, <1>3 DEF Settled, Clean
<1> QED BY <1>3, <1>4, TreeIs

(* A root that is registered is not old, and nothing else changes.         *)
LEMMA RootedIs ==
  ASSUME NEW T \in Store, T.old \cup T.loose \subseteq T.roots, NEW v \in Versions,
         NEW k \in {Arc, Top}
  PROVE  LET R == Rooted(T, v, k) IN
         /\ R \in Store /\ R.old \cup R.loose \subseteq R.roots
         /\ R.objs = T.objs /\ R.rot = T.rot /\ R.loose = T.loose
         /\ R.roots = T.roots \cup {<<v, k>>} /\ R.old = T.old \ {<<v, k>>}
         /\ R.lost = IF k = Top THEN T.lost \ {v} ELSE T.lost
<1>1. <<v, k>> \in Objects
  BY TreeIs
<1> QED BY <1>1 DEF Rooted, Store

LEMMA NothingIs ==
  /\ Nothing \in Store /\ Nothing.old \cup Nothing.loose \subseteq Nothing.roots
  /\ Nothing.objs = {} /\ Settled(Nothing)
BY DEF Nothing, Store, Settled, Clean

(* There is always a directory that nobody uses.                           *)
LEMMA FreeSlot ==
  ASSUME TypeOK
  PROVE  \E s \in Slots : Users(s) = {}
<1> DEFINE T == {at[q] : q \in Procs}
<1> SUFFICES ASSUME \A s \in Slots : Users(s) # {} PROVE FALSE
  OBVIOUS
<1>1. at \in Surjection(Procs, T)
  BY DEF TypeOK, Surjection
<1>2. IsFiniteSet(T) /\ Cardinality(T) <= Cardinality(Procs)
  <2> HIDE DEF T
  <2> QED BY <1>1, FetcherAssumption, FS_Surjection
<1>3. Slots \subseteq T
  BY DEF Users
<1>4. Cardinality(Procs) \in Nat
  BY FetcherAssumption, FS_CardinalityType
<1>5. Cardinality(Slots) = Cardinality(Procs) + 1
  BY <1>4, FS_Interval DEF Slots
<1>6. Cardinality(Slots) <= Cardinality(T) /\ Cardinality(T) \in Nat
  <2> HIDE DEF T
  <2> QED BY <1>2, <1>3, FS_Subset, FS_CardinalityType
<1> QED BY <1>2, <1>4, <1>5, <1>6

-----------------------------------------------------------------------------
(* What a pass marks of a version.                                         *)
LEMMA KidsAre ==
  \A x : /\ x \in Kids(1) <=> x = 2
         /\ x \in Kids(2) <=> x \in {3, 4}
         /\ x \notin Kids(3)
         /\ x \in Kids(4) <=> x = 5
BY DEF Kids, Arc, Top, Last, First, File

LEMMA ReachIs ==
  ASSUME NEW T, NEW v, NEW live
  PROVE  /\ \A j : j \in Reach(T, v, Arc, live) <=>
              /\ j \in 1 .. 4
              /\ \A i \in 1 .. j : i \notin live /\ <<v, i>> \in Clean(T)
         /\ \A j : j \in Reach(T, v, Top, live) <=>
              /\ j \in 2 .. 4
              /\ \A i \in 2 .. j : i \notin live /\ <<v, i>> \in Clean(T)
<1>1. ASSUME NEW k \in {Arc, Top}, NEW j
      PROVE  j \in Reach(T, v, k, live) <=>
               /\ j \in k .. First
               /\ \A i \in k .. j : i \notin live /\ <<v, i>> \in Clean(T)
  <2>1. (k .. j) \cap live = {} <=> \A i \in k .. j : i \notin live
    OBVIOUS
  <2>2. {v} \X (k .. j) \subseteq T.objs \ T.rot <=> \A i \in k .. j : <<v, i>> \in Clean(T)
    BY DEF Clean
  <2>3. j \in Reach(T, v, k, live) <=>
          /\ j \in k .. First /\ (k .. j) \cap live = {}
          /\ {v} \X (k .. j) \subseteq T.objs \ T.rot
    BY DEF Reach, Queue
  <2> QED BY <2>1, <2>2, <2>3
<1> QED BY <1>1 DEF Arc, Top, First

LEMMA MarkIs ==
  ASSUME NEW T, NEW v, NEW mark, NEW k
  PROVE  \A x : x \in MarkRoot(T, v, mark, k).live <=>
           \/ x \in mark.live
           \/ /\ <<v, k>> \in T.roots /\ k \notin mark.live
              /\ x = k \/ \E j \in Reach(T, v, k, mark.live) : x \in Kids(j)
BY DEF MarkRoot

(* From the archive; and from the top directory, with the archive marked   *)
(* or not, and nothing beneath it.                                         *)
LEMMA MarkArc ==
  ASSUME NEW T, NEW v, NEW mark, 1 \notin mark.live, <<v, Arc>> \in T.roots
  PROVE  LET new == MarkRoot(T, v, mark, Arc).live  good == {i \in 1 .. 5 : <<v, i>> \in Clean(T)} IN
         /\ \A x : x \in mark.live => x \in new
         /\ 1 \in new /\ \A x \in new : x \in mark.live \/ x \in 1 .. 5
         /\ 2 \notin mark.live =>
              /\ 2 \in new <=> 1 \in good
              /\ mark.live = {} /\ 2 \notin new => new = {1}
              /\ 2 \in new /\ 2 \in good /\ 3 \notin mark.live /\ 4 \notin mark.live =>
                   /\ 3 \in new /\ 4 \in new
                   /\ 3 \in good /\ 4 \in good => 5 \in new
<1> DEFINE R == Reach(T, v, Arc, mark.live)
           G(i) == i \notin mark.live /\ <<v, i>> \in Clean(T)
<1>1. /\ 1 \in R <=> G(1)
      /\ 2 \in R <=> G(1) /\ G(2)
      /\ 4 \in R <=> G(1) /\ G(2) /\ G(3) /\ G(4)
      /\ \A j \in R : j \in {1, 2, 3, 4}
  <2>1. \A j : j \in R <=> j \in 1 .. 4 /\ \A i \in 1 .. j : G(i)
    BY ReachIs
  <2>2. 1 .. 1 = {1} /\ 1 .. 2 = {1, 2} /\ 1 .. 4 = {1, 2, 3, 4}
    OBVIOUS
  <2> HIDE DEF R, G
  <2> QED BY <2>1, <2>2
<1>2. \A x : x \in MarkRoot(T, v, mark, Arc).live <=>
        x \in mark.live \/ x = 1 \/ \E j \in R : x \in Kids(j)
  BY MarkIs DEF Arc
<1>3. \A x : (\E j \in R : x \in Kids(j)) <=>
        \/ x = 2 /\ 1 \in R
        \/ x \in {3, 4} /\ 2 \in R
        \/ x = 5 /\ 4 \in R
  <2> HIDE DEF R
  <2> QED BY <1>1, KidsAre
<1>4. \A x : x \in MarkRoot(T, v, mark, Arc).live <=>
        \/ x \in mark.live \/ x = 1
        \/ x = 2 /\ G(1)
        \/ x \in {3, 4} /\ G(1) /\ G(2)
        \/ x = 5 /\ G(1) /\ G(2) /\ G(3) /\ G(4)
  <2> HIDE DEF R, G
  <2> QED BY <1>1, <1>2, <1>3
<1> HIDE DEF R
<1>5. 1 .. 5 = {1, 2, 3, 4, 5}
  OBVIOUS
<1> QED BY <1>4, <1>5

LEMMA MarkTop ==
  ASSUME NEW T, NEW v, NEW mark, mark.live \subseteq {1}, <<v, Top>> \in T.roots
  PROVE  LET new == MarkRoot(T, v, mark, Top).live  good == {i \in 1 .. 5 : <<v, i>> \in Clean(T)} IN
         /\ 2 \in new /\ \A x \in new : x \in 1 .. 5
         /\ 1 \in new => 1 \in mark.live
         /\ 2 \in good => 3 \in new /\ 4 \in new
         /\ 2 \in good /\ 3 \in good /\ 4 \in good => 5 \in new
<1> DEFINE R == Reach(T, v, Top, mark.live)
           G(i) == <<v, i>> \in Clean(T)
<1>1. /\ 2 \in R <=> G(2)
      /\ 4 \in R <=> G(2) /\ G(3) /\ G(4)
      /\ \A j \in R : j \in {2, 3, 4}
  <2>1. \A j : j \in R <=> j \in 2 .. 4 /\ \A i \in 2 .. j : i \notin mark.live /\ G(i)
    BY ReachIs
  <2>2. 2 .. 2 = {2} /\ 2 .. 4 = {2, 3, 4} /\ \A i \in {2, 3, 4} : i \notin mark.live
    OBVIOUS
  <2> HIDE DEF R, G
  <2> QED BY <2>1, <2>2
<1>2. \A x : x \in MarkRoot(T, v, mark, Top).live <=>
        x \in mark.live \/ x = 2 \/ \E j \in R : x \in Kids(j)
  BY MarkIs DEF Top
<1>3. \A x : (\E j \in R : x \in Kids(j)) <=>
        \/ x \in {3, 4} /\ 2 \in R
        \/ x = 5 /\ 4 \in R
  <2> HIDE DEF R
  <2> QED BY <1>1, KidsAre
<1>4. \A x : x \in MarkRoot(T, v, mark, Top).live <=>
        \/ x \in mark.live \/ x = 2
        \/ x \in {3, 4} /\ G(2)
        \/ x = 5 /\ G(2) /\ G(3) /\ G(4)
  <2> HIDE DEF R, G
  <2> QED BY <1>1, <1>2, <1>3
<1> HIDE DEF R
<1>5. 1 .. 5 = {1, 2, 3, 4, 5}
  OBVIOUS
<1> QED BY <1>4, <1>5

(* Of both roots, in either order: a top directory that can be read brings *)
(* along what is beneath it, up to one that cannot.                        *)
LEMMA MarkFacts ==
  ASSUME NEW T, NEW v, NEW order \in {<<Arc, Top>>, <<Top, Arc>>}
  PROVE  LET live == MarkVersion(T, v, order).live IN
         /\ <<v, Top>> \in T.roots => Top \in live
         /\ Top \in live /\ <<v, Top>> \in Clean(T) =>
              /\ Last \in live /\ First \in live
              /\ <<v, Last>> \in Clean(T) /\ <<v, First>> \in Clean(T) => File \in live
<1> DEFINE good == {i \in 1 .. 5 : <<v, i>> \in Clean(T)}
           none == [live |-> {}, broken |-> {}]
           Fine(live) == /\ <<v, Top>> \in T.roots => 2 \in live
                         /\ 2 \in live /\ 2 \in good =>
                              3 \in live /\ 4 \in live /\ (3 \in good /\ 4 \in good => 5 \in live)
<1>1. \A mark, k : <<v, k>> \notin T.roots \/ k \in mark.live => MarkRoot(T, v, mark, k) = mark
  BY DEF MarkRoot
<1>2. ASSUME order = <<Arc, Top>> PROVE Fine(MarkVersion(T, v, order).live)
  <2> DEFINE one == MarkRoot(T, v, none, Arc)
             two == MarkRoot(T, v, one, Top)
  <2>1. MarkVersion(T, v, order) = two
    BY <1>2 DEF MarkVersion
  <2>2. /\ 2 \in one.live /\ 2 \in good =>
             3 \in one.live /\ 4 \in one.live /\ (3 \in good /\ 4 \in good => 5 \in one.live)
        /\ 2 \notin one.live => one.live \subseteq {1}
    <3>1. CASE <<v, Arc>> \in T.roots
      <4>1. none.live = {}
        OBVIOUS
      <4> HIDE DEF none
      <4> QED BY <3>1, <4>1, MarkArc
    <3>2. CASE <<v, Arc>> \notin T.roots
      BY <1>1, <3>2
    <3> QED BY <3>1, <3>2
  <2>3. CASE 2 \in one.live \/ <<v, Top>> \notin T.roots
    <3>1. two = one
      BY <1>1, <2>3 DEF Top
    <3> HIDE DEF one, two, good
    <3> QED BY <2>1, <2>2, <2>3, <3>1
  <2>4. CASE 2 \notin one.live /\ <<v, Top>> \in T.roots
    <3>1. one.live \subseteq {1}
      BY <2>2, <2>4
    <3> HIDE DEF one
    <3> QED BY <2>1, <2>4, <3>1, MarkTop
  <2> QED BY <2>3, <2>4
<1>3. ASSUME order = <<Top, Arc>> PROVE Fine(MarkVersion(T, v, order).live)
  <2> DEFINE one == MarkRoot(T, v, none, Top)
             two == MarkRoot(T, v, one, Arc)
  <2>1. MarkVersion(T, v, order) = two
    BY <1>3 DEF MarkVersion
  <2>2. /\ <<v, Top>> \in T.roots =>
             /\ 2 \in one.live
             /\ 2 \in good => 3 \in one.live /\ 4 \in one.live
             /\ 2 \in good /\ 3 \in good /\ 4 \in good => 5 \in one.live
        /\ 1 \notin one.live
        /\ <<v, Top>> \notin T.roots => one.live = {}
    <3>1. none.live = {}
      OBVIOUS
    <3>2. CASE <<v, Top>> \in T.roots
      <4> HIDE DEF none
      <4> QED BY <3>1, <3>2, MarkTop
    <3>3. CASE <<v, Top>> \notin T.roots
      BY <1>1, <3>3
    <3> QED BY <3>2, <3>3
  <2>3. CASE <<v, Arc>> \notin T.roots
    <3>1. two = one
      BY <1>1, <2>3
    <3> HIDE DEF one, two, good
    <3> QED BY <2>1, <2>2, <3>1
  <2>4. CASE <<v, Arc>> \in T.roots
    <3> HIDE DEF one
    <3> QED BY <2>1, <2>2, <2>4, MarkArc
  <2> QED BY <2>3, <2>4
<1>4. Fine(MarkVersion(T, v, order).live)
  BY <1>2, <1>3
<1>5. \A i \in 1 .. 5 : i \in good <=> <<v, i>> \in Clean(T)
  OBVIOUS
<1> HIDE DEF good
<1> QED BY <1>4, <1>5 DEF Top, Last, First, File

(* What a pass leaves of a directory, of what was there.                   *)
LEMMA PassIs ==
  ASSUME TypeOK, NEW s \in Slots, NEW order \in {<<Arc, Top>>, <<Top, Arc>>}, Pass(s, order)
  PROVE  LET T == store[s]  N == store'[s] IN
         /\ \A t \in Slots : t # s => store'[t] = store[t]
         /\ N \in Store /\ N.old = {} /\ N.loose = {} /\ T.old # {}
         /\ \A v \in Versions : <<v, Top>> \in N.objs => <<v, Top>> \in N.roots \/ v \in N.lost
         /\ Settled(T) => Settled(N)
         /\ \A v \in Versions :
              <<v, Top>> \in T.roots \ T.old /\ Tree(v, Top) \subseteq Clean(T)
                => Tree(v, Top) \subseteq Clean(N)
<1> DEFINE U       == [store[s] EXCEPT !.roots = @ \ store[s].old]
           Live(v) == MarkVersion(U, v, order).live
           Bad(v)  == MarkVersion(U, v, order).broken
           mark    == [v \in Versions |-> MarkVersion(U, v, order)]
           objs    == U.objs \cap UNION {Of(v, mark[v].live) : v \in Versions}
           roots   == U.roots \ UNION {Of(v, mark[v].broken) : v \in Versions}
           new     == [U EXCEPT !.objs = objs, !.rot = @ \cap objs, !.roots = roots,
                         !.old = {}, !.loose = {},
                         !.lost = {v \in Versions : <<v, Top>> \in objs \ roots}]
<1>0. store \in [Slots -> Store] /\ store[s] \in Store
  BY DEF TypeOK
<1>1. /\ store' = [store EXCEPT ![s] = new] /\ U.old # {}
  BY DEF Pass
<1>2. /\ store[s].old # {} /\ U.objs = store[s].objs /\ U.rot = store[s].rot
      /\ U.roots = store[s].roots \ store[s].old /\ U \in Store
  BY <1>0, <1>1 DEF Store
<1>3. /\ store'[s] = new /\ \A t \in Slots : t # s => store'[t] = store[t]
  <2> HIDE DEF new
  <2> QED BY <1>0, <1>1
<1>4. \A v \in Versions : \A k : <<v, k>> \in objs <=> <<v, k>> \in U.objs /\ k \in Live(v)
  <2>1. \A v \in Versions : mark[v].live = Live(v)
    BY DEF mark
  <2>2. \A w \in Versions : \A v, k : <<v, k>> \in Of(w, mark[w].live) <=> v = w /\ k \in Live(w)
    BY <2>1 DEF Of
  <2>3. \A o : o \in objs <=> o \in U.objs /\ \E w \in Versions : o \in Of(w, mark[w].live)
    <3> HIDE DEF mark, U
    <3> QED OBVIOUS
  <2> SUFFICES ASSUME NEW v \in Versions, NEW k
               PROVE  <<v, k>> \in objs <=> <<v, k>> \in U.objs /\ k \in Live(v)
    OBVIOUS
  <2> HIDE DEF mark, Live, U, objs
  <2>4. (\E w \in Versions : <<v, k>> \in Of(w, mark[w].live)) <=> k \in Live(v)
    BY <2>2
  <2> QED BY <2>3, <2>4
<1>5. objs \subseteq U.objs /\ roots \subseteq U.roots
  OBVIOUS
<1>6. /\ new \in Store /\ new.objs = objs /\ new.rot = U.rot \cap objs /\ new.roots = roots
      /\ new.old = {} /\ new.loose = {}
      /\ new.lost = {v \in Versions : <<v, Top>> \in objs \ roots}
  <2> HIDE DEF objs, roots, U
  <2> QED BY <1>2, <1>5 DEF new, Store
<1>7. \A v \in Versions :
        /\ <<v, Top>> \in U.roots => Top \in Live(v)
        /\ Top \in Live(v) /\ <<v, Top>> \in Clean(U) =>
             /\ Last \in Live(v) /\ First \in Live(v)
             /\ <<v, Last>> \in Clean(U) /\ <<v, First>> \in Clean(U) => File \in Live(v)
  BY MarkFacts
<1> HIDE DEF new, objs, roots, U, Live
<1>8. \A v \in Versions : \A k : <<v, k>> \in Clean(new) <=> <<v, k>> \in Clean(U) /\ k \in Live(v)
  BY <1>4, <1>6 DEF Clean
<1>9. ASSUME Settled(store[s]) PROVE Settled(new)
  <2>1. Clean(U) = Clean(store[s])
    BY <1>2 DEF Clean
  <2> QED BY <1>2, <1>4, <1>6, <1>7, <1>8, <1>9, <2>1 DEF Settled
<1>10. ASSUME NEW v \in Versions, <<v, Top>> \in store[s].roots \ store[s].old,
              Tree(v, Top) \subseteq Clean(store[s])
       PROVE  Tree(v, Top) \subseteq Clean(new)
  <2>1. Clean(U) = Clean(store[s]) /\ <<v, Top>> \in U.roots
    BY <1>2, <1>10 DEF Clean
  <2>2. /\ <<v, Top>> \in Clean(U) /\ <<v, Last>> \in Clean(U) /\ <<v, First>> \in Clean(U)
        /\ <<v, File>> \in Clean(U)
    BY <1>10, <2>1, TreeIs
  <2>3. /\ <<v, Top>> \in Clean(new) /\ <<v, Last>> \in Clean(new) /\ <<v, First>> \in Clean(new)
        /\ <<v, File>> \in Clean(new)
    BY <1>7, <1>8, <2>1, <2>2
  <2> QED BY <2>3, TreeIs
<1> QED BY <1>2, <1>3, <1>6, <1>9, <1>10

-----------------------------------------------------------------------------
(* N is T with roots registered, and with nothing else that matters here.  *)
Keeps(T, N) ==
  /\ N \in Store /\ N.old \cup N.loose \subseteq N.roots
  /\ N.objs = T.objs /\ N.rot = T.rot
  /\ T.roots \subseteq N.roots /\ N.old \subseteq T.old
  /\ \A v \in T.lost : v \in N.lost \/ <<v, Top>> \in N.roots

LEMMA StoreType ==
  ASSUME TypeOK, NEW s \in Slots
  PROVE  store[s] \in Store /\ store[s].old \cup store[s].loose \subseteq store[s].roots
         /\ Keeps(store[s], store[s])
BY DEF TypeOK, Keeps

LEMMA KeepsUse ==
  ASSUME NEW T, NEW N, Keeps(T, N), NEW l, NEW v, NEW ok, InUse(l, v, ok, T)
  PROVE  InUse(l, v, ok, N)
BY DEF Keeps, InUse, Clean

LEMMA FlushedIs ==
  ASSUME TypeOK, PlaceInv, NEW p \in Procs
  PROVE  /\ Keeps(My(p), Flushed(p)) /\ Keeps(My(p), Synced(Flushed(p)))
         /\ Flushed(p).loose = My(p).loose
<1>1. My(p) \in Store /\ My(p).old \cup My(p).loose \subseteq My(p).roots /\ Keeps(My(p), My(p))
  BY StoreType DEF TypeOK, My
<1>2. pend[p] => got[p] \in Versions
  BY DEF TypeOK, PlaceInv, Versions
<1>3. Keeps(My(p), Flushed(p)) /\ Flushed(p).loose = My(p).loose
  <2>1. CASE pend[p]
    <3>1. PICK R : R = Rooted(My(p), got[p], Top)
      OBVIOUS
    <3>2. /\ R \in Store /\ R.old \cup R.loose \subseteq R.roots
          /\ R.objs = My(p).objs /\ R.rot = My(p).rot /\ R.loose = My(p).loose
          /\ R.roots = My(p).roots \cup {<<got[p], Top>>} /\ R.old = My(p).old \ {<<got[p], Top>>}
          /\ R.lost = My(p).lost \ {got[p]}
      BY <1>1, <1>2, <2>1, <3>1, RootedIs
    <3>3. Flushed(p) = R
      BY <2>1, <3>1 DEF Flushed
    <3> QED BY <3>2, <3>3 DEF Keeps
  <2>2. CASE ~pend[p]
    BY <1>1, <2>2 DEF Flushed
  <2> QED BY <2>1, <2>2
<1>4. ASSUME NEW T, Keeps(My(p), T) PROVE Keeps(My(p), Synced(T))
  <2>1. T \in Store
    BY <1>4 DEF Keeps
  <2>2. /\ Synced(T) \in Store /\ Synced(T).objs = T.objs /\ Synced(T).rot = T.rot
        /\ Synced(T).roots = T.roots /\ Synced(T).old = T.old /\ Synced(T).lost = T.lost
        /\ Synced(T).loose = {}
    BY <2>1 DEF Synced, Store
  <2> QED BY <1>4, <2>2 DEF Keeps
<1> QED BY <1>3, <1>4

(* What a process leaves when it ends.                                     *)
Left(p) == {My(p), Flushed(p), [My(p) EXCEPT !.lost = @ \cup {got[p]}]}
LEMMA LeftIs ==
  ASSUME TypeOK, PlaceInv, NEW p \in Procs, NEW left \in Left(p), pc[p] # "off",
         left = [My(p) EXCEPT !.lost = @ \cup {got[p]}] \/ pc[p] # "strip",
         pc[p] = "strip" \/ left \in {My(p), Flushed(p)}
  PROVE  Keeps(My(p), left) /\ (pc[p] = "strip" => got[p] \in left.lost)
<1>1. My(p) \in Store /\ My(p).old \cup My(p).loose \subseteq My(p).roots /\ Keeps(My(p), My(p))
  BY StoreType DEF TypeOK, My
<1>2. CASE pc[p] = "strip"
  <2>1. got[p] \in Versions
    BY <1>2 DEF TypeOK, PlaceInv, Versions
  <2>2. PICK R : R = [My(p) EXCEPT !.lost = @ \cup {got[p]}]
    OBVIOUS
  <2>3. /\ R \in Store /\ R.objs = My(p).objs /\ R.rot = My(p).rot /\ R.roots = My(p).roots
        /\ R.old = My(p).old /\ R.loose = My(p).loose /\ R.lost = My(p).lost \cup {got[p]}
    BY <1>1, <2>1, <2>2 DEF Store
  <2> QED BY <1>1, <1>2, <2>2, <2>3 DEF Keeps
<1>3. CASE pc[p] # "strip"
  BY <1>1, <1>3, FlushedIs
<1> QED BY <1>2, <1>3


-----------------------------------------------------------------------------
(* Types, and what the entry names, step by step.                          *)
LEMMA InIs ==
  ASSUME TypeOK, NEW p \in Procs, NEW new \in Store, new.old \cup new.loose \subseteq new.roots,
         In(p, new)
  PROVE  /\ store' \in [Slots -> Store]
         /\ \A s \in Slots : store'[s].old \cup store'[s].loose \subseteq store'[s].roots
         /\ at[p] \in Slots /\ store'[at[p]] = new
         /\ \A s \in Slots : s # at[p] => store'[s] = store[s]
<1>1. /\ store \in [Slots -> Store] /\ at[p] \in Slots
      /\ \A s \in Slots : store[s].old \cup store[s].loose \subseteq store[s].roots
  BY DEF TypeOK
<1>2. store' = [store EXCEPT ![at[p]] = new]
  BY DEF In
<1> QED BY <1>1, <1>2

LEMMA EndIs ==
  ASSUME TypeOK, PlaceInv, NEW p \in Procs, NEW left, Keeps(My(p), left), End(p, left),
         UNCHANGED <<web, entry, cur>>, faults' \in 0 .. MaxFaults, poison' \in BOOLEAN
  PROVE  /\ TypeOK' /\ PlaceInv'
         /\ at[p] \in Slots /\ store'[at[p]] \in {left, Nothing}
         /\ store'[at[p]] = Nothing => Users(at[p]) \subseteq {p} \/ left = Nothing
         /\ \A s \in Slots : s # at[p] => store'[s] = store[s]
         /\ \A q \in Procs : q # p =>
              pc'[q] = pc[q] /\ at'[q] = at[q] /\ got'[q] = got[q] /\ sure'[q] = sure[q]
         /\ pc'[p] = "off"
<1> DEFINE new == IF at[p] # cur /\ Users(at[p]) = {p} THEN Nothing ELSE left
<1>1. new \in Store /\ new.old \cup new.loose \subseteq new.roots /\ In(p, new)
  BY NothingIs DEF Keeps, End
<1>2. /\ store' \in [Slots -> Store]
      /\ \A s \in Slots : store'[s].old \cup store'[s].loose \subseteq store'[s].roots
      /\ at[p] \in Slots /\ store'[at[p]] = new
      /\ \A s \in Slots : s # at[p] => store'[s] = store[s]
  <2> HIDE DEF new
  <2> QED BY <1>1, InIs
<1>3. /\ pc' = [pc EXCEPT ![p] = "off"] /\ at' = [at EXCEPT ![p] = 0]
      /\ pend' = [pend EXCEPT ![p] = FALSE] /\ got' = [got EXCEPT ![p] = 0]
      /\ sure' = [sure EXCEPT ![p] = TRUE]
  BY DEF End, Goto
<1>4. TypeOK'
  BY <1>2, <1>3, Places DEF TypeOK
<1>5. PlaceInv'
  BY <1>3 DEF TypeOK, PlaceInv
<1>6. \A q \in Procs : q # p =>
        pc'[q] = pc[q] /\ at'[q] = at[q] /\ got'[q] = got[q] /\ sure'[q] = sure[q]
  BY <1>3 DEF TypeOK
<1>7. pc'[p] = "off"
  BY <1>3 DEF TypeOK
<1> QED BY <1>2, <1>4, <1>5, <1>6, <1>7

(* Every way for a process to end.                                         *)
Ends(p) == Exit(p) \/ DownloadThrows(p) \/ IngestFails(p) \/ Kill(p)
             \/ \E k \in {Last, File} : ReadFails(p, k)

LEMMA EndsAre ==
  ASSUME TypeOK, PlaceInv, NEW p \in Procs, Ends(p)
  PROVE  \E left \in Left(p) :
           /\ End(p, left) /\ Keeps(My(p), left) /\ pc[p] # "off"
           /\ pc[p] = "strip" => got[p] \in left.lost
           /\ UNCHANGED <<web, entry, cur>> /\ faults' \in 0 .. MaxFaults /\ poison' \in BOOLEAN
<1>1. /\ faults \in 0 .. MaxFaults /\ poison \in BOOLEAN /\ MaxFaults \in Nat
      /\ \A kind : Fault(kind) => faults' \in 0 .. MaxFaults
  BY Places DEF TypeOK, Fault
<1>2. UNCHANGED <<web, entry, cur>> /\ faults' \in 0 .. MaxFaults /\ poison' \in BOOLEAN
  <2>1. CASE Exit(p)
    BY <1>1, <2>1 DEF Exit
  <2>2. CASE DownloadThrows(p)
    BY <1>1, <2>2 DEF DownloadThrows, Throw
  <2>3. CASE IngestFails(p)
    BY <1>1, <2>3 DEF IngestFails, Throw
  <2>4. CASE Kill(p)
    BY <1>1, <2>4 DEF Kill
  <2>5. CASE \E k \in {Last, File} : ReadFails(p, k)
    BY <1>1, <2>5 DEF ReadFails, Throw, Corrupt
  <2> QED BY <2>1, <2>2, <2>3, <2>4, <2>5 DEF Ends
<1> DEFINE lost == [My(p) EXCEPT !.lost = @ \cup {got[p]}]
<1>3. pc[p] # "off" /\ \E left \in Left(p) :
        End(p, left) /\ IF pc[p] = "strip" THEN left = lost ELSE left \in {My(p), Flushed(p)}
  <2>1. CASE Exit(p)
    BY <2>1 DEF Exit, Left
  <2>2. ASSUME Throw(p) PROVE \E left \in Left(p) :
          End(p, left) /\ IF pc[p] = "strip" THEN left = lost ELSE left \in {My(p), Flushed(p)}
    BY <2>2 DEF Throw, Left
  <2>3. CASE DownloadThrows(p)
    BY <2>2, <2>3 DEF DownloadThrows
  <2>4. CASE IngestFails(p)
    BY <2>2, <2>4 DEF IngestFails
  <2>5. CASE Kill(p)
    BY <2>5 DEF Kill, Left
  <2>6. CASE \E k \in {Last, File} : ReadFails(p, k)
    BY <2>2, <2>6 DEF ReadFails
  <2> QED BY <2>1, <2>3, <2>4, <2>5, <2>6 DEF Ends
<1>4. PICK left \in Left(p) :
        End(p, left) /\ IF pc[p] = "strip" THEN left = lost ELSE left \in {My(p), Flushed(p)}
  BY <1>3
<1>5. Keeps(My(p), left) /\ (pc[p] = "strip" => got[p] \in left.lost)
  <2> QED BY <1>3, <1>4, LeftIs
<1> QED BY <1>2, <1>3, <1>4, <1>5

(* What an ingest of version web, and the strip after it, make of a        *)
(* directory.                                                              *)
Ingested(p) == Synced(Rooted([Flushed(p) EXCEPT !.objs = @ \cup Tree(web, Arc)], web, Arc))
Stripped(p) == Rooted([My(p) EXCEPT !.loose = @ \cup {<<got[p], Top>>}], got[p], Top)

LEMMA IngestIs ==
  ASSUME TypeOK, PlaceInv, NEW p \in Procs
  PROVE  LET T == My(p)  N == Ingested(p) IN
         /\ N \in Store /\ N.old \cup N.loose \subseteq N.roots
         /\ N.objs = T.objs \cup Tree(web, Arc) /\ N.rot = T.rot
         /\ T.roots \subseteq N.roots /\ N.old \subseteq T.old
         /\ \A v \in T.lost : v \in N.lost \/ <<v, Top>> \in N.roots
<1>1. /\ web \in Versions /\ My(p) \in Store /\ Tree(web, Arc) \subseteq Objects
  BY StoreType, TreeIs DEF TypeOK, My
<1>2. PICK F : F = Flushed(p)
  OBVIOUS
<1>3. Keeps(My(p), F)
  BY <1>2, FlushedIs
<1>4. PICK G : G = [F EXCEPT !.objs = @ \cup Tree(web, Arc)]
  OBVIOUS
<1>5. /\ G \in Store /\ G.objs = F.objs \cup Tree(web, Arc) /\ G.rot = F.rot /\ G.lost = F.lost
      /\ G.roots = F.roots /\ G.old = F.old /\ G.loose = F.loose
  BY <1>1, <1>3, <1>4 DEF Store, Keeps
<1>6. PICK R : R = Rooted(G, web, Arc)
  OBVIOUS
<1>7. /\ R \in Store /\ R.old \cup R.loose \subseteq R.roots
      /\ R.objs = G.objs /\ R.rot = G.rot
      /\ R.roots = G.roots \cup {<<web, Arc>>} /\ R.old = G.old \ {<<web, Arc>>}
      /\ R.lost = G.lost
  <2>1. G.old \cup G.loose \subseteq G.roots
    BY <1>3, <1>5 DEF Keeps
  <2>2. Arc # Top
    BY DEF Arc, Top
  <2> QED BY <1>1, <1>5, <1>6, <2>1, <2>2, RootedIs
<1>8. Ingested(p) = [R EXCEPT !.loose = {}]
  BY <1>2, <1>4, <1>6 DEF Ingested, Synced
<1>9. PICK N : N = [R EXCEPT !.loose = {}]
  OBVIOUS
<1>10. /\ N \in Store /\ N.objs = R.objs /\ N.rot = R.rot /\ N.roots = R.roots
       /\ N.old = R.old /\ N.lost = R.lost /\ N.loose = {}
  BY <1>7, <1>9 DEF Store
<1> QED BY <1>3, <1>5, <1>7, <1>8, <1>9, <1>10 DEF Keeps

LEMMA StripIs ==
  ASSUME TypeOK, PlaceInv, NEW p \in Procs, pc[p] = "strip"
  PROVE  /\ Keeps(My(p), Stripped(p))
         /\ <<got[p], Top>> \in Stripped(p).roots \ Stripped(p).old
<1>1. got[p] \in Versions
  BY DEF TypeOK, PlaceInv, Versions
<1>2. My(p) \in Store /\ My(p).old \cup My(p).loose \subseteq My(p).roots
  BY StoreType DEF TypeOK, My
<1>3. <<got[p], Top>> \in Objects
  BY <1>1, TreeIs
<1>4. PICK R : R = Stripped(p)
  OBVIOUS
<1>5. /\ R \in Store /\ R.objs = My(p).objs /\ R.rot = My(p).rot
      /\ R.roots = My(p).roots \cup {<<got[p], Top>>} /\ R.old = My(p).old \ {<<got[p], Top>>}
      /\ R.loose = My(p).loose \cup {<<got[p], Top>>} /\ R.lost = My(p).lost \ {got[p]}
  BY <1>1, <1>2, <1>3, <1>4 DEF Stripped, Rooted, Store
<1> QED BY <1>2, <1>4, <1>5 DEF Keeps

LEMMA StartTypes ==
  ASSUME TypeOK, PlaceInv, NEW p \in Procs, Start(p)
  PROVE  /\ TypeOK' /\ PlaceInv' /\ entry' = entry /\ pc'[p] = "lookup"
         /\ \A q \in Procs : q # p =>
              pc'[q] = pc[q] /\ at'[q] = at[q] /\ got'[q] = got[q] /\ sure'[q] = sure[q]
         /\ \A s \in Slots : store'[s] = store[s] \/ (store'[s] = Nothing /\ Users(s) \subseteq {p})
<1> DEFINE fresh == CHOOSE s \in Slots : Users(s) = {}
<1>1. fresh \in Slots /\ Users(fresh) = {}
  BY FreeSlot
<1>2. /\ pc[p] = "off" /\ pc' = [pc EXCEPT ![p] = "lookup"]
      /\ at' = [at EXCEPT ![p] = cur'] /\ poison' = FALSE
      /\ cur' = IF poison THEN fresh ELSE cur
      /\ store' = [s \in Slots |->
           IF poison /\ (s = cur' \/ Users(s) = {}) THEN Nothing ELSE store[s]]
      /\ UNCHANGED <<web, entry, got, pend, faults, sure>>
  BY DEF Start, Goto
<1> HIDE DEF fresh
<1>3. cur' \in Slots
  BY <1>1, <1>2 DEF TypeOK
<1>4. \A s \in Slots : \/ store'[s] = store[s]
                       \/ store'[s] = Nothing /\ Users(s) = {}
  BY <1>1, <1>2
<1>5. store' \in [Slots -> Store] /\
      \A s \in Slots : store'[s].old \cup store'[s].loose \subseteq store'[s].roots
  <2>1. \A s \in Slots :
          store'[s] \in Store /\ store'[s].old \cup store'[s].loose \subseteq store'[s].roots
    BY <1>4, NothingIs, StoreType
  <2>2. store' = [s \in Slots |-> store'[s]]
    BY <1>2
  <2> QED BY <2>1, <2>2
<1>6. TypeOK'
  BY <1>2, <1>3, <1>5 DEF TypeOK, Fetching
<1>7. PlaceInv'
  BY <1>2 DEF TypeOK, PlaceInv
<1>8. /\ pc'[p] = "lookup"
      /\ \A q \in Procs : q # p =>
           pc'[q] = pc[q] /\ at'[q] = at[q] /\ got'[q] = got[q] /\ sure'[q] = sure[q]
  BY <1>2 DEF TypeOK
<1> QED BY <1>2, <1>4, <1>6, <1>7, <1>8

(* The steps of a fetch that leave the directory alone.                    *)
LEMMA QuietTypes ==
  ASSUME TypeOK, PlaceInv, EntryMatches, NEW p \in Procs,
         \/ Lookup(p) \/ Hash(p) \/ Touch(p) \/ \E k \in {Last, File} : Read(p, k)
  PROVE  /\ TypeOK' /\ PlaceInv' /\ EntryMatches' /\ store' = store /\ at' = at
         /\ \A q \in Procs : q # p =>
              pc'[q] = pc[q] /\ at'[q] = at[q] /\ got'[q] = got[q] /\ sure'[q] = sure[q]
<1>1. CASE Lookup(p)
  <2> DEFINE root == <<entry.root, Top>>
  <2>1. PICK v \in {0, entry.root} : Good(p, v) /\ poison' \in BOOLEAN
    BY <1>1 DEF Lookup, TypeOK
  <2>2. /\ pc[p] = "lookup" /\ got' = [got EXCEPT ![p] = v]
        /\ pc' = [pc EXCEPT ![p] = IF v # 0 /\ ~entry.expired THEN "touch" ELSE "download"]
    BY <1>1, <2>1 DEF Lookup, Good, Goto
  <2>3. PICK ok \in BOOLEAN : sure' = [sure EXCEPT ![p] = ok]
    BY <1>1 DEF Lookup
  <2>4. UNCHANGED <<web, entry, store, cur, at, pend, faults>>
    BY <1>1 DEF Lookup
  <2>5. v \in 0 .. MaxVersion
    BY Places DEF TypeOK
  <2>6. TypeOK'
    BY <2>1, <2>2, <2>3, <2>4, <2>5 DEF TypeOK, Fetching
  <2>7. PlaceInv'
    BY <2>2, <2>4, <2>5 DEF TypeOK, PlaceInv
  <2>8. \A q \in Procs : q # p =>
          pc'[q] = pc[q] /\ at'[q] = at[q] /\ got'[q] = got[q] /\ sure'[q] = sure[q]
    BY <2>2, <2>3, <2>4 DEF TypeOK
  <2> QED BY <2>4, <2>6, <2>7, <2>8 DEF EntryMatches
<1>2. CASE Hash(p)
  <2>1. /\ pc[p] = "hash" /\ pc' = [pc EXCEPT ![p] = "touch"]
        /\ entry' = [etag |-> got[p], root |-> got[p], expired |-> FALSE]
        /\ UNCHANGED <<web, store, cur, poison, at, got, pend, faults, sure>>
    BY <1>2 DEF Hash, Goto
  <2> QED BY <2>1 DEF TypeOK, Fetching, PlaceInv, EntryMatches
<1>3. CASE Touch(p)
  <2>1. /\ pc[p] = "touch" /\ pc' = [pc EXCEPT ![p] = "read"]
        /\ pend' = [pend EXCEPT ![p] = <<got[p], Top>> \in My(p).old]
        /\ UNCHANGED <<web, entry, store, cur, poison, at, got, faults, sure>>
    BY <1>3 DEF Touch, Goto
  <2> QED BY <2>1 DEF TypeOK, Fetching, PlaceInv, EntryMatches
<1>4. CASE \E k \in {Last, File} : Read(p, k)
  <2>1. /\ pc[p] = "read" /\ pc' = [pc EXCEPT ![p] = "served"]
        /\ UNCHANGED <<web, entry, store, cur, poison, at, got, pend, faults, sure>>
    BY <1>4 DEF Read, Goto
  <2> QED BY <2>1 DEF TypeOK, Fetching, PlaceInv, EntryMatches
<1> QED BY <1>1, <1>2, <1>3, <1>4

(* The steps that change it.                                               *)
LEMMA WriteTypes ==
  ASSUME TypeOK, PlaceInv, EntryMatches, NEW p \in Procs,
         NotModified(p) \/ Ingest(p) \/ Strip(p)
  PROVE  /\ TypeOK' /\ PlaceInv' /\ EntryMatches' /\ at' = at
         /\ \A s \in Slots : s # at[p] => store'[s] = store[s]
         /\ \A q \in Procs : q # p =>
              pc'[q] = pc[q] /\ at'[q] = at[q] /\ got'[q] = got[q] /\ sure'[q] = sure[q]
<1>0. My(p) \in Store /\ My(p).old \cup My(p).loose \subseteq My(p).roots
  BY StoreType DEF TypeOK, My
<1>1. CASE NotModified(p)
  <2>1. /\ pc[p] = "download" /\ got[p] = web /\ pc' = [pc EXCEPT ![p] = "touch"]
        /\ In(p, Synced(Flushed(p)))
        /\ entry' = [etag |-> got[p], root |-> got[p], expired |-> FALSE]
        /\ UNCHANGED <<web, cur, poison, at, got, pend, faults, sure>>
    BY <1>1 DEF NotModified, Goto
  <2>2. /\ store' \in [Slots -> Store]
        /\ \A s \in Slots : store'[s].old \cup store'[s].loose \subseteq store'[s].roots
        /\ \A s \in Slots : s # at[p] => store'[s] = store[s]
    BY <2>1, FlushedIs, InIs DEF Keeps
  <2>3. TypeOK'
    BY <2>1, <2>2 DEF TypeOK, Fetching
  <2>4. PlaceInv' /\ EntryMatches'
    BY <2>1, Places DEF TypeOK, PlaceInv, EntryMatches
  <2>5. \A q \in Procs : q # p =>
          pc'[q] = pc[q] /\ at'[q] = at[q] /\ got'[q] = got[q] /\ sure'[q] = sure[q]
    BY <2>1 DEF TypeOK
  <2> QED BY <2>1, <2>2, <2>3, <2>4, <2>5
<1>2. CASE Ingest(p)
  <2>1. /\ pc[p] = "download" /\ pc' = [pc EXCEPT ![p] = "strip"]
        /\ got' = [got EXCEPT ![p] = web] /\ sure' = [sure EXCEPT ![p] = TRUE]
        /\ UNCHANGED <<web, entry, cur, poison, at, pend, faults>>
    BY <1>2 DEF Ingest, Goto
  <2>2. /\ store' \in [Slots -> Store]
        /\ \A s \in Slots : store'[s].old \cup store'[s].loose \subseteq store'[s].roots
        /\ \A s \in Slots : s # at[p] => store'[s] = store[s]
    BY <1>2, IngestIs, InIs DEF Ingest, Ingested
  <2>3. TypeOK'
    BY <2>1, <2>2, Places DEF TypeOK, Fetching, Versions
  <2>4. PlaceInv' /\ EntryMatches'
    BY <2>1, Places DEF TypeOK, PlaceInv, EntryMatches
  <2>5. \A q \in Procs : q # p =>
          pc'[q] = pc[q] /\ at'[q] = at[q] /\ got'[q] = got[q] /\ sure'[q] = sure[q]
    BY <2>1 DEF TypeOK
  <2> QED BY <2>1, <2>2, <2>3, <2>4, <2>5
<1>3. CASE Strip(p)
  <2>1. /\ pc[p] = "strip" /\ pc' = [pc EXCEPT ![p] = "hash"]
        /\ UNCHANGED <<web, entry, cur, poison, at, got, pend, faults, sure>>
    BY <1>3 DEF Strip, Goto
  <2>2. /\ store' \in [Slots -> Store]
        /\ \A s \in Slots : store'[s].old \cup store'[s].loose \subseteq store'[s].roots
        /\ \A s \in Slots : s # at[p] => store'[s] = store[s]
    BY <1>3, <2>1, StripIs, InIs DEF Strip, Stripped, Keeps
  <2>3. TypeOK'
    BY <2>1, <2>2 DEF TypeOK, Fetching
  <2>4. PlaceInv' /\ EntryMatches'
    BY <2>1 DEF TypeOK, PlaceInv, EntryMatches
  <2>5. \A q \in Procs : q # p =>
          pc'[q] = pc[q] /\ at'[q] = at[q] /\ got'[q] = got[q] /\ sure'[q] = sure[q]
    BY <2>1 DEF TypeOK
  <2> QED BY <2>1, <2>2, <2>3, <2>4, <2>5
<1> QED BY <1>1, <1>2, <1>3

-----------------------------------------------------------------------------
(* A step of one process that only registers roots, in any directory, or   *)
(* empties one that nobody else uses.                                      *)
Followed(p) ==
  \/ pc'[p] = "strip" /\ got'[p] = got[p] /\ at'[p] = at[p]
  \/ store'[at[p]] = Nothing \/ got[p] \in store'[at[p]].lost
  \/ <<got[p], Top>> \in store'[at[p]].roots

LEMMA OneSteps ==
  ASSUME FetchInv, TypeOK', NEW p \in Procs,
         \A q \in Procs : q # p =>
           pc'[q] = pc[q] /\ at'[q] = at[q] /\ got'[q] = got[q] /\ sure'[q] = sure[q],
         \A s \in Slots : \/ Keeps(store[s], store'[s])
                          \/ store'[s] = Nothing /\ Users(s) \subseteq {p},
         pc[p] = "strip" => Followed(p),
         InUse(pc'[p], got'[p], sure'[p], store'[at'[p]])
  PROVE  SettledInv' /\ RootInv' /\ UseInv'
<1>1. SettledInv'
  <2>1. \A s \in Slots : Settled(store[s])
    BY DEF FetchInv, SettledInv
  <2>2. \A s \in Slots : Keeps(store[s], store'[s]) /\ Settled(store[s]) => Settled(store'[s])
    BY DEF Keeps, Settled, Clean
  <2> QED BY <2>1, <2>2, NothingIs DEF SettledInv
<1>2. RootInv'
  <2> SUFFICES ASSUME NEW s \in Slots, NEW v \in Versions, <<v, Top>> \in store'[s].objs
               PROVE  \/ <<v, Top>> \in store'[s].roots \/ v \in store'[s].lost
                      \/ \E q \in Users(s)' : pc'[q] = "strip" /\ got'[q] = v
    BY DEF RootInv
  <2>1. Keeps(store[s], store'[s])
    BY NothingIs
  <2>2. <<v, Top>> \in store[s].objs
    BY <2>1 DEF Keeps
  <2>3. CASE <<v, Top>> \in store[s].roots \/ v \in store[s].lost
    BY <2>1, <2>3 DEF Keeps
  <2>4. ASSUME NEW q \in Users(s), pc[q] = "strip", got[q] = v
        PROVE  \/ <<v, Top>> \in store'[s].roots \/ v \in store'[s].lost
               \/ \E r \in Users(s)' : pc'[r] = "strip" /\ got'[r] = v
    <3>1. q \in Procs /\ at[q] = s
      BY <2>4 DEF Users
    <3>2. CASE q # p
      BY <2>4, <3>1, <3>2 DEF Users
    <3>3. CASE q = p
      BY <2>4, <3>1, <3>3, NothingIs DEF Users, Followed
    <3> QED BY <3>2, <3>3
  <2> QED BY <2>2, <2>3, <2>4 DEF FetchInv, RootInv
<1>3. UseInv'
  <2> SUFFICES ASSUME NEW q \in Procs, q # p
               PROVE  InUse(pc'[q], got'[q], sure'[q], store'[at'[q]])
    BY DEF UseInv, My
  <2>1. InUse(pc[q], got[q], sure[q], store[at[q]]) /\ at[q] \in Slots
    BY DEF FetchInv, UseInv, My, TypeOK
  <2>2. CASE Keeps(store[at[q]], store'[at[q]])
    BY <2>1, <2>2, KeepsUse
  <2>3. CASE store'[at[q]] = Nothing /\ Users(at[q]) \subseteq {p}
    BY <2>3 DEF Users, InUse
  <2> QED BY <2>1, <2>2, <2>3
<1> QED BY <1>1, <1>2, <1>3

LEMMA StartKeepsInv ==
  ASSUME FetchInv, NEW p \in Procs, Start(p)
  PROVE  FetchInv'
<1>1. TypeOK /\ PlaceInv /\ EntryMatches
  BY DEF FetchInv
<1>2. /\ TypeOK' /\ PlaceInv' /\ entry' = entry /\ pc'[p] = "lookup"
      /\ \A q \in Procs : q # p =>
           pc'[q] = pc[q] /\ at'[q] = at[q] /\ got'[q] = got[q] /\ sure'[q] = sure[q]
      /\ \A s \in Slots : store'[s] = store[s] \/ (store'[s] = Nothing /\ Users(s) \subseteq {p})
  BY <1>1, StartTypes
<1>3. \A s \in Slots : \/ Keeps(store[s], store'[s])
                       \/ store'[s] = Nothing /\ Users(s) \subseteq {p}
  BY <1>1, <1>2, StoreType
<1>4. pc[p] = "off" /\ InUse(pc'[p], got'[p], sure'[p], store'[at'[p]])
  BY <1>2 DEF Start, InUse
<1> QED BY <1>1, <1>2, <1>3, <1>4, OneSteps DEF FetchInv, EntryMatches

LEMMA EndsKeepInv ==
  ASSUME FetchInv, NEW p \in Procs, Ends(p)
  PROVE  FetchInv'
<1>1. TypeOK /\ PlaceInv /\ EntryMatches
  BY DEF FetchInv
<1>2. PICK left \in Left(p) :
           /\ End(p, left) /\ Keeps(My(p), left) /\ pc[p] # "off"
           /\ pc[p] = "strip" => got[p] \in left.lost
           /\ UNCHANGED <<web, entry, cur>> /\ faults' \in 0 .. MaxFaults /\ poison' \in BOOLEAN
  BY <1>1, EndsAre
<1>3. /\ TypeOK' /\ PlaceInv'
      /\ at[p] \in Slots /\ store'[at[p]] \in {left, Nothing}
      /\ store'[at[p]] = Nothing => Users(at[p]) \subseteq {p} \/ left = Nothing
      /\ \A s \in Slots : s # at[p] => store'[s] = store[s]
      /\ \A q \in Procs : q # p =>
           pc'[q] = pc[q] /\ at'[q] = at[q] /\ got'[q] = got[q] /\ sure'[q] = sure[q]
      /\ pc'[p] = "off"
  BY <1>1, <1>2, EndIs
<1>4. \A s \in Slots : \/ Keeps(store[s], store'[s])
                       \/ store'[s] = Nothing /\ Users(s) \subseteq {p}
  BY <1>1, <1>2, <1>3, StoreType DEF My
<1>5. /\ pc[p] = "strip" => Followed(p)
      /\ InUse(pc'[p], got'[p], sure'[p], store'[at'[p]])
  BY <1>2, <1>3 DEF Followed, InUse
<1> QED BY <1>1, <1>2, <1>3, <1>4, <1>5, OneSteps DEF FetchInv, EntryMatches

(* A lookup that is sure of its tree: the directory is settled, nothing of *)
(* the tree is damaged, and its root is in use.                            *)
LEMMA QuietKeepsInv ==
  ASSUME FetchInv, NEW p \in Procs,
         \/ Lookup(p) \/ Hash(p) \/ Touch(p) \/ \E k \in {Last, File} : Read(p, k)
  PROVE  FetchInv'
<1>1. TypeOK /\ PlaceInv /\ EntryMatches /\ at[p] \in Slots /\ Settled(My(p))
      /\ InUse(pc[p], got[p], sure[p], My(p))
  BY DEF FetchInv, TypeOK, SettledInv, UseInv, My
<1>2. /\ TypeOK' /\ PlaceInv' /\ EntryMatches' /\ store' = store /\ at' = at
      /\ \A q \in Procs : q # p =>
           pc'[q] = pc[q] /\ at'[q] = at[q] /\ got'[q] = got[q] /\ sure'[q] = sure[q]
  BY <1>1, QuietTypes
<1>3. \A s \in Slots : \/ Keeps(store[s], store'[s])
                       \/ store'[s] = Nothing /\ Users(s) \subseteq {p}
  BY <1>1, <1>2, StoreType
<1>4. pc[p] # "strip"
  BY DEF Lookup, Hash, Touch, Read
<1>5. InUse(pc'[p], got'[p], sure'[p], My(p))
  <2>1. CASE Lookup(p)
    <3> DEFINE root == <<entry.root, Top>>
               found == root \in My(p).objs
    <3>1. PICK v : Good(p, v) /\ (v # 0 => v = entry.root /\ found)
      BY <2>1 DEF Lookup
    <3>2. got'[p] = v /\ pc'[p] \in {"touch", "download"}
      BY <1>1, <3>1 DEF Good, Goto, TypeOK
    <3>3. sure'[p] = (found => root \in My(p).roots \ My(p).old
                                /\ Tree(entry.root, Top) \cap My(p).rot = {})
      BY <1>1, <2>1 DEF Lookup, TypeOK
    <3>4. ASSUME v # 0, sure'[p]
          PROVE  /\ <<v, Top>> \in My(p).roots \ My(p).old
                 /\ Tree(v, Top) \subseteq Clean(My(p))
      <4>1. v = entry.root /\ v \in Versions /\ <<v, Top>> \in My(p).objs
        BY <1>1, <3>1, <3>4 DEF TypeOK, Versions
      <4>2. /\ <<v, Top>> \in My(p).roots \ My(p).old
            /\ Tree(v, Top) \cap My(p).rot = {}
        BY <3>3, <3>4, <4>1
      <4> QED BY <1>1, <4>1, <4>2, SettledWhole
    <3> QED BY <3>2, <3>4 DEF InUse
  <2>2. CASE Hash(p)
    <3>1. /\ pc[p] = "hash" /\ pc'[p] = "touch" /\ got' = got /\ sure' = sure
          /\ Tree(got[p], Top) \subseteq Clean(My(p))
      BY <1>1, <2>2 DEF Hash, Goto, Clean, TypeOK
    <3> QED BY <1>1, <3>1 DEF InUse
  <2>3. CASE Touch(p)
    <3>1. pc[p] = "touch" /\ pc'[p] = "read" /\ got' = got /\ sure' = sure
      BY <1>1, <2>3 DEF Touch, Goto, TypeOK
    <3> QED BY <1>1, <3>1 DEF InUse
  <2>4. CASE \E k \in {Last, File} : Read(p, k)
    <3>1. pc'[p] = "served"
      BY <1>1, <2>4 DEF Read, Goto, TypeOK
    <3> QED BY <3>1 DEF InUse
  <2> QED BY <2>1, <2>2, <2>3, <2>4
<1> QED BY <1>1, <1>2, <1>3, <1>4, <1>5, OneSteps DEF FetchInv, My

LEMMA WritesKeepInv ==
  ASSUME FetchInv, NEW p \in Procs, NotModified(p) \/ Strip(p)
  PROVE  FetchInv'
<1>1. /\ TypeOK /\ PlaceInv /\ EntryMatches /\ at[p] \in Slots
      /\ InUse(pc[p], got[p], sure[p], My(p))
  BY DEF FetchInv, TypeOK, UseInv
<1>2. /\ TypeOK' /\ PlaceInv' /\ EntryMatches' /\ at' = at
      /\ \A s \in Slots : s # at[p] => store'[s] = store[s]
      /\ \A q \in Procs : q # p =>
           pc'[q] = pc[q] /\ at'[q] = at[q] /\ got'[q] = got[q] /\ sure'[q] = sure[q]
  BY <1>1, WriteTypes
<1>3. \A new : In(p, new) => store'[at[p]] = new
  BY <1>1 DEF In, TypeOK
<1>4. /\ Keeps(My(p), store'[at[p]])
      /\ pc[p] = "strip" => Followed(p)
      /\ InUse(pc'[p], got'[p], sure'[p], store'[at'[p]])
  <2>1. CASE NotModified(p)
    <3>1. /\ pc[p] = "download" /\ pc'[p] = "touch" /\ got' = got /\ sure' = sure
          /\ store'[at[p]] = Synced(Flushed(p))
      BY <1>1, <1>3, <2>1 DEF NotModified, Goto, TypeOK
    <3>2. Keeps(My(p), store'[at[p]])
      BY <1>1, <3>1, FlushedIs
    <3>3. InUse("download", got[p], sure[p], store'[at[p]])
      BY <1>1, <3>1, <3>2, KeepsUse
    <3> QED BY <1>2, <3>1, <3>2, <3>3 DEF InUse
  <2>2. CASE Strip(p)
    <3>1. /\ pc[p] = "strip" /\ pc'[p] = "hash" /\ got' = got /\ sure' = sure
          /\ store'[at[p]] = Stripped(p)
      BY <1>1, <1>3, <2>2 DEF Strip, Stripped, Goto, TypeOK
    <3> QED BY <1>1, <1>2, <3>1, StripIs DEF InUse, Followed
  <2> QED BY <2>1, <2>2
<1>5. \A s \in Slots : \/ Keeps(store[s], store'[s])
                       \/ store'[s] = Nothing /\ Users(s) \subseteq {p}
  BY <1>1, <1>2, <1>4, StoreType DEF My
<1> QED BY <1>1, <1>2, <1>4, <1>5, OneSteps DEF FetchInv

(* The tree that is ingested is whole, and its top directory is no root as *)
(* yet: the process is about to make it one.                               *)
LEMMA IngestKeepsInv ==
  ASSUME FetchInv, NEW p \in Procs, Ingest(p)
  PROVE  FetchInv'
<1>1. /\ TypeOK /\ PlaceInv /\ EntryMatches /\ at[p] \in Slots /\ web \in Versions
      /\ My(p) = store[at[p]]
  BY DEF FetchInv, TypeOK, My
<1>2. /\ TypeOK' /\ PlaceInv' /\ EntryMatches' /\ at' = at
      /\ \A s \in Slots : s # at[p] => store'[s] = store[s]
      /\ \A q \in Procs : q # p =>
           pc'[q] = pc[q] /\ at'[q] = at[q] /\ got'[q] = got[q] /\ sure'[q] = sure[q]
  BY <1>1, WriteTypes
<1>3. /\ pc[p] = "download" /\ pc'[p] = "strip" /\ got'[p] = web
      /\ store'[at[p]] = Ingested(p)
  BY <1>1 DEF Ingest, Ingested, In, Goto, TypeOK
<1> DEFINE T == My(p)
           N == store'[at[p]]
<1>4. /\ N.objs = T.objs \cup Tree(web, Arc) /\ N.rot = T.rot
      /\ T.roots \subseteq N.roots /\ N.old \subseteq T.old
      /\ \A v \in T.lost : v \in N.lost \/ <<v, Top>> \in N.roots
  BY <1>1, <1>3, IngestIs
<1>5. \A v, k : <<v, k>> \in Tree(web, Arc) => v = web
  BY DEF Tree
<1>6. /\ <<web, Top>> \in N.objs /\ <<web, Last>> \in N.objs
      /\ <<web, First>> \in N.objs /\ <<web, File>> \in N.objs
  <2>1. Tree(web, Top) \subseteq Tree(web, Arc)
    BY <1>1, TreeIs
  <2>2. Tree(web, Top) \subseteq N.objs
    BY <1>4, <2>1
  <2> HIDE DEF N
  <2> QED BY <2>2, TreeIs
<1> HIDE DEF N
<1>7. SettledInv'
  <2>1. \A s \in Slots : Settled(store[s])
    BY DEF FetchInv, SettledInv
  <2>2. Settled(T)
    BY <1>1, <2>1
  <2>3. N.rot \subseteq N.objs
    BY <1>4, <2>2 DEF Settled
  <2>4. ASSUME NEW v \in Versions, v # web
        PROVE  \A k : /\ <<v, k>> \in N.objs <=> <<v, k>> \in T.objs
                      /\ <<v, k>> \in Clean(N) <=> <<v, k>> \in Clean(T)
    BY <1>4, <1>5, <2>4 DEF Clean
  <2>5. Settled(N)
    BY <1>6, <2>2, <2>3, <2>4 DEF Settled
  <2> QED BY <1>2, <2>1, <2>5 DEF SettledInv, N
<1>8. RootInv'
  <2> SUFFICES ASSUME NEW s \in Slots, NEW v \in Versions, <<v, Top>> \in store'[s].objs
               PROVE  \/ <<v, Top>> \in store'[s].roots \/ v \in store'[s].lost
                      \/ \E q \in Users(s)' : pc'[q] = "strip" /\ got'[q] = v
    BY DEF RootInv
  <2>1. ASSUME NEW q \in Users(s), pc[q] = "strip", got[q] = v
        PROVE  \E r \in Users(s)' : pc'[r] = "strip" /\ got'[r] = v
    <3>1. q \in Procs /\ at[q] = s /\ q # p
      BY <1>3, <2>1 DEF Users
    <3> QED BY <1>2, <2>1, <3>1 DEF Users
  <2>2. CASE <<v, Top>> \in store[s].objs
    <3>1. \/ <<v, Top>> \in store[s].roots \/ v \in store[s].lost
          \/ \E q \in Users(s) : pc[q] = "strip" /\ got[q] = v
      BY <2>2 DEF FetchInv, RootInv
    <3>2. CASE s = at[p]
      BY <1>1, <1>4, <2>1, <3>1, <3>2 DEF N
    <3>3. CASE s # at[p]
      BY <1>2, <2>1, <3>1, <3>3
    <3> QED BY <3>2, <3>3
  <2>3. CASE <<v, Top>> \notin store[s].objs
    <3>1. s = at[p] /\ v = web
      BY <1>1, <1>2, <1>4, <1>5, <2>3 DEF N
    <3>2. p \in Users(s)'
      BY <1>2, <1>3, <3>1 DEF Users
    <3> QED BY <1>3, <3>1, <3>2
  <2> QED BY <2>2, <2>3
<1>9. UseInv'
  <2> SUFFICES ASSUME NEW q \in Procs
               PROVE  InUse(pc'[q], got'[q], sure'[q], store'[at'[q]])
    BY DEF UseInv, My
  <2>1. CASE q = p
    BY <1>3, <2>1 DEF InUse
  <2>2. CASE q # p
    <3>1. InUse(pc[q], got[q], sure[q], store[at[q]]) /\ at[q] \in Slots
      BY <1>1 DEF FetchInv, UseInv, My, TypeOK
    <3>2. CASE at[q] = at[p]
      <4>1. InUse(pc[q], got[q], sure[q], T)
        BY <1>1, <3>1, <3>2
      <4>2. Clean(T) \subseteq Clean(N)
        BY <1>4 DEF Clean
      <4>3. InUse(pc[q], got[q], sure[q], N)
        BY <1>4, <4>1, <4>2 DEF InUse
      <4> QED BY <1>2, <2>2, <3>2, <4>3 DEF N
    <3>3. CASE at[q] # at[p]
      BY <1>2, <2>2, <3>1, <3>3
    <3> QED BY <3>2, <3>3
  <2> QED BY <2>1, <2>2
<1> QED BY <1>2, <1>7, <1>8, <1>9 DEF FetchInv

-----------------------------------------------------------------------------
(* A step that is of no process: it changes one directory, and at most     *)
(* what a process is sure of.                                              *)
LEMMA OtherSteps ==
  ASSUME FetchInv, NEW s \in Slots, NEW N \in Store, N.old \cup N.loose \subseteq N.roots,
         store' = [store EXCEPT ![s] = N],
         UNCHANGED <<web, entry, cur, poison, pc, at, got, pend>>, faults' \in 0 .. MaxFaults,
         sure' \in [Procs -> BOOLEAN], \A p \in Procs : sure'[p] => sure[p],
         Settled(N),
         \A v \in Versions : <<v, Top>> \in N.objs =>
           \/ <<v, Top>> \in N.roots \/ v \in N.lost
           \/ \E p \in Users(s) : pc[p] = "strip" /\ got[p] = v,
         \A p \in Users(s) : InUse(pc[p], got[p], sure[p], store[s]) => InUse(pc[p], got[p], sure'[p], N)
  PROVE  FetchInv'
<1>1. /\ TypeOK /\ PlaceInv /\ EntryMatches
      /\ \A t \in Slots : t # s => store'[t] = store[t]
      /\ store'[s] = N
  BY DEF FetchInv, TypeOK
<1>2. TypeOK'
  <2>1. store' \in [Slots -> Store]
    BY <1>1 DEF TypeOK
  <2>2. \A t \in Slots : store'[t].old \cup store'[t].loose \subseteq store'[t].roots
    BY <1>1 DEF TypeOK
  <2> QED BY <1>1, <2>1, <2>2 DEF TypeOK
<1>3. PlaceInv' /\ EntryMatches' /\ SettledInv'
  BY <1>1 DEF FetchInv, PlaceInv, EntryMatches, SettledInv
<1>4. \A t \in Slots : Users(t)' = Users(t)
  BY DEF Users
<1>5. RootInv'
  <2> SUFFICES ASSUME NEW t \in Slots, NEW v \in Versions, <<v, Top>> \in store'[t].objs
               PROVE  \/ <<v, Top>> \in store'[t].roots \/ v \in store'[t].lost
                      \/ \E q \in Users(t)' : pc'[q] = "strip" /\ got'[q] = v
    BY DEF RootInv
  <2>1. CASE t = s
    BY <1>1, <1>4, <2>1
  <2>2. CASE t # s
    BY <1>1, <1>4, <2>2 DEF FetchInv, RootInv
  <2> QED BY <2>1, <2>2
<1>6. UseInv'
  <2> SUFFICES ASSUME NEW p \in Procs
               PROVE  InUse(pc[p], got[p], sure'[p], store'[at[p]])
    BY DEF UseInv, My
  <2>1. InUse(pc[p], got[p], sure[p], store[at[p]]) /\ at[p] \in Slots
    BY <1>1 DEF FetchInv, UseInv, My, TypeOK
  <2>2. CASE pc[p] = "off"
    BY <2>2 DEF InUse
  <2>3. CASE pc[p] # "off" /\ at[p] = s
    BY <1>1, <2>1, <2>3 DEF Users
  <2>4. CASE at[p] # s
    BY <1>1, <2>1, <2>4 DEF InUse
  <2> QED BY <2>2, <2>3, <2>4
<1> QED BY <1>2, <1>3, <1>5, <1>6 DEF FetchInv

LEMMA PassKeepsInv ==
  ASSUME FetchInv, NEW s \in Slots, NEW order \in {<<Arc, Top>>, <<Top, Arc>>}, Pass(s, order)
  PROVE  FetchInv'
<1>1. TypeOK /\ Settled(store[s]) /\ faults \in 0 .. MaxFaults /\ sure \in [Procs -> BOOLEAN]
  BY DEF FetchInv, SettledInv, TypeOK
<1>2. PICK N : store' = [store EXCEPT ![s] = N]
  BY DEF Pass
<1>3. store'[s] = N
  BY <1>1, <1>2 DEF TypeOK
<1>4. /\ N \in Store /\ N.old = {} /\ N.loose = {} /\ store[s].old # {}
      /\ \A v \in Versions : <<v, Top>> \in N.objs => <<v, Top>> \in N.roots \/ v \in N.lost
      /\ Settled(N)
      /\ \A v \in Versions :
           <<v, Top>> \in store[s].roots \ store[s].old /\ Tree(v, Top) \subseteq Clean(store[s])
             => Tree(v, Top) \subseteq Clean(N)
  BY <1>1, <1>3, PassIs
<1>5. ASSUME NEW p \in Users(s), InUse(pc[p], got[p], sure[p], store[s])
      PROVE  InUse(pc[p], got[p], sure[p], N)
  <2>1. got[p] # 0 => got[p] \in Versions
    BY <1>1 DEF TypeOK, Users, Versions
  <2> QED BY <1>4, <1>5, <2>1 DEF InUse
<1>6. UNCHANGED <<web, entry, cur, poison, pc, at, got, pend, sure, faults>>
  BY DEF Pass, proc
<1> QED BY <1>1, <1>2, <1>4, <1>5, <1>6, OtherSteps

LEMMA PassDiesKeepsInv ==
  ASSUME FetchInv, NEW s \in Slots, PassDies(s)
  PROVE  FetchInv'
<1>1. /\ TypeOK /\ Settled(store[s]) /\ sure \in [Procs -> BOOLEAN] /\ store[s] \in Store
      /\ store[s].old \cup store[s].loose \subseteq store[s].roots
  BY DEF FetchInv, SettledInv, TypeOK
<1> DEFINE new == [store[s] EXCEPT
                     !.roots = @ \ store[s].old, !.old = {}, !.loose = @ \ store[s].old,
                     !.lost = @ \cup {v \in Versions : <<v, Top>> \in store[s].old}]
<1>2. store' = [store EXCEPT ![s] = new]
  BY DEF PassDies
<1>3. PICK N : N = new
  OBVIOUS
<1>4. /\ N \in Store /\ N.objs = store[s].objs /\ N.rot = store[s].rot
      /\ N.roots = store[s].roots \ store[s].old /\ N.old = {} /\ N.loose = store[s].loose \ store[s].old
      /\ N.lost = store[s].lost \cup {v \in Versions : <<v, Top>> \in store[s].old}
  BY <1>1, <1>3 DEF Store
<1>5. N.old \cup N.loose \subseteq N.roots /\ Settled(N) /\ Clean(N) = Clean(store[s])
  BY <1>1, <1>4 DEF Settled, Clean
<1>6. \A v \in Versions : <<v, Top>> \in N.objs =>
        \/ <<v, Top>> \in N.roots \/ v \in N.lost
        \/ \E p \in Users(s) : pc[p] = "strip" /\ got[p] = v
  BY <1>4 DEF FetchInv, RootInv
<1>7. ASSUME NEW p \in Users(s), InUse(pc[p], got[p], sure[p], store[s])
      PROVE  InUse(pc[p], got[p], sure[p], N)
  BY <1>4, <1>5, <1>7 DEF InUse
<1>8. UNCHANGED <<web, entry, cur, poison, pc, at, got, pend, sure>> /\ faults' \in 0 .. MaxFaults
  BY <1>1, Places DEF PassDies, proc, Fault, TypeOK
<1>9. store' = [store EXCEPT ![s] = N] /\ \A p \in Procs : sure'[p] => sure[p]
  BY <1>2, <1>3, <1>8
<1>10. \A p \in Users(s) : InUse(pc[p], got[p], sure[p], store[s]) => InUse(pc[p], got[p], sure'[p], N)
  BY <1>7, <1>8
<1> HIDE DEF new
<1>11. /\ N \in Store /\ N.old \cup N.loose \subseteq N.roots /\ Settled(N)
       /\ UNCHANGED <<web, entry, cur, poison, pc, at, got, pend>> /\ faults' \in 0 .. MaxFaults
       /\ sure' \in [Procs -> BOOLEAN]
  BY <1>1, <1>4, <1>5, <1>8
<1> QED BY <1>6, <1>9, <1>10, <1>11, OtherSteps

LEMMA AgeKeepsInv ==
  ASSUME FetchInv, NEW v \in Versions, NEW k \in {Arc, Top}, Age(v, k)
  PROVE  FetchInv'
<1>1. /\ TypeOK /\ cur \in Slots /\ Settled(store[cur]) /\ sure \in [Procs -> BOOLEAN]
      /\ store[cur] \in Store /\ faults \in 0 .. MaxFaults
      /\ store[cur].old \cup store[cur].loose \subseteq store[cur].roots
  BY DEF FetchInv, SettledInv, TypeOK
<1> DEFINE new == [store[cur] EXCEPT !.old = @ \cup {<<v, k>>}]
<1>2. /\ store' = [store EXCEPT ![cur] = new] /\ <<v, k>> \in store[cur].roots
      /\ Users(cur) = {}
      /\ UNCHANGED <<web, entry, cur, poison, pc, at, got, pend, sure, faults>>
  BY DEF Age, proc, AllOff, Users
<1>3. PICK N : N = new
  OBVIOUS
<1>4. /\ N \in Store /\ N.objs = store[cur].objs /\ N.rot = store[cur].rot
      /\ N.roots = store[cur].roots /\ N.old = store[cur].old \cup {<<v, k>>}
      /\ N.loose = store[cur].loose /\ N.lost = store[cur].lost
  BY <1>1, <1>2, <1>3 DEF Store
<1>5. N.old \cup N.loose \subseteq N.roots /\ Settled(N)
  BY <1>1, <1>2, <1>4 DEF Settled, Clean
<1>6. \A w \in Versions : <<w, Top>> \in N.objs =>
        \/ <<w, Top>> \in N.roots \/ w \in N.lost
        \/ \E p \in Users(cur) : pc[p] = "strip" /\ got[p] = w
  BY <1>1, <1>4 DEF FetchInv, RootInv
<1> HIDE DEF new
<1> QED BY <1>1, <1>2, <1>3, <1>4, <1>5, <1>6, OtherSteps

LEMMA RotKeepsInv ==
  ASSUME FetchInv, NEW o \in Objects, Rot(o)
  PROVE  FetchInv'
<1>1. /\ TypeOK /\ cur \in Slots /\ Settled(store[cur]) /\ sure \in [Procs -> BOOLEAN]
      /\ store[cur] \in Store
      /\ store[cur].old \cup store[cur].loose \subseteq store[cur].roots
  BY DEF FetchInv, SettledInv, TypeOK
<1> DEFINE new == [store[cur] EXCEPT !.rot = @ \cup {o}]
<1>2. /\ store' = [store EXCEPT ![cur] = new] /\ o \in store[cur].objs
      /\ sure' = [p \in Procs |-> sure[p] /\ o[1] # got[p]]
      /\ UNCHANGED <<web, entry, cur, poison, pc, at, got, pend>>
      /\ faults' \in 0 .. MaxFaults
  BY <1>1, Places DEF Rot, Fault, TypeOK
<1>3. PICK N : N = new
  OBVIOUS
<1>4. /\ N \in Store /\ N.objs = store[cur].objs /\ N.rot = store[cur].rot \cup {o}
      /\ N.roots = store[cur].roots /\ N.old = store[cur].old
      /\ N.loose = store[cur].loose /\ N.lost = store[cur].lost
  BY <1>1, <1>3 DEF Store
<1>5. N.old \cup N.loose \subseteq N.roots /\ Settled(N)
  BY <1>1, <1>2, <1>4 DEF Settled, Clean
<1>6. \A v \in Versions : <<v, Top>> \in N.objs =>
        \/ <<v, Top>> \in N.roots \/ v \in N.lost
        \/ \E p \in Users(cur) : pc[p] = "strip" /\ got[p] = v
  BY <1>1, <1>4 DEF FetchInv, RootInv
<1>7. ASSUME NEW p \in Users(cur), InUse(pc[p], got[p], sure[p], store[cur])
      PROVE  InUse(pc[p], got[p], sure'[p], N)
  <2>1. p \in Procs
    BY DEF Users
  <2>2. sure'[p] => sure[p] /\ o[1] # got[p]
    BY <1>2, <2>1
  <2>3. sure'[p] => \A x \in Tree(got[p], Top) : x # o
    BY <2>2 DEF Tree
  <2>4. sure'[p] /\ Tree(got[p], Top) \subseteq Clean(store[cur]) => Tree(got[p], Top) \subseteq Clean(N)
    BY <1>4, <2>3 DEF Clean
  <2> QED BY <1>4, <1>7, <2>2, <2>4 DEF InUse
<1>8. sure' \in [Procs -> BOOLEAN] /\ \A p \in Procs : sure'[p] => sure[p]
  BY <1>1, <1>2
<1> HIDE DEF new
<1> QED BY <1>1, <1>2, <1>3, <1>4, <1>5, <1>6, <1>7, <1>8, OtherSteps

(* Every process ends at once, and only the directory that has the name is *)
(* left.                                                                   *)
LEMMA PowerLossKeepsInv ==
  ASSUME FetchInv, PowerLoss
  PROVE  FetchInv'
<1> DEFINE T == store[cur]
           undone == {v \in Versions : \E p \in Users(cur) : pc[p] = "strip" /\ got[p] = v}
           Torn(S) == [T EXCEPT
             !.roots = @ \ S, !.old = @ \ S, !.loose = @ \ S,
             !.lost = @ \cup undone \cup {o[1] : o \in S}]
<1>1. /\ TypeOK /\ cur \in Slots /\ T \in Store /\ Settled(T)
      /\ T.old \cup T.loose \subseteq T.roots
  BY DEF FetchInv, SettledInv, TypeOK
<1>2. PICK S \in {{}, T.loose} : store' = [s \in Slots |-> IF s # cur THEN Nothing ELSE Torn(S)]
  BY DEF PowerLoss
<1>3. /\ pc' = [p \in Procs |-> "off"] /\ at' = [p \in Procs |-> 0]
      /\ got' = [p \in Procs |-> 0]
      /\ pend' = [p \in Procs |-> FALSE] /\ sure' = [p \in Procs |-> TRUE]
      /\ UNCHANGED <<web, entry, cur, poison>> /\ faults' \in 0 .. MaxFaults
  <2>1. faults' \in 0 .. MaxFaults
    <3>1. faults \in 0 .. MaxFaults /\ faults < MaxFaults /\ faults' = faults + 1
      BY <1>1 DEF PowerLoss, Fault, TypeOK
    <3> QED BY <3>1, Places
  <2> QED BY <2>1 DEF PowerLoss
<1>4. S \subseteq Objects /\ {o[1] : o \in S} \subseteq Versions
  <2>1. S \subseteq Objects
    BY <1>1 DEF Store
  <2>2. \A o \in Objects : o[1] \in Versions
    BY DEF Objects
  <2> QED BY <2>1, <2>2
<1>5. PICK N : N = Torn(S)
  OBVIOUS
<1>6. /\ N \in Store /\ N.objs = T.objs /\ N.rot = T.rot
      /\ N.roots = T.roots \ S /\ N.old = T.old \ S /\ N.loose = T.loose \ S
      /\ N.lost = T.lost \cup undone \cup {o[1] : o \in S}
  <2> HIDE DEF T
  <2> QED BY <1>1, <1>4, <1>5 DEF Store
<1>7. store'[cur] = N /\ \A s \in Slots : s # cur => store'[s] = Nothing
  BY <1>1, <1>2, <1>5
<1>8. N.old \cup N.loose \subseteq N.roots /\ Settled(N)
  BY <1>1, <1>6 DEF Settled, Clean
<1>9. store' \in [Slots -> Store]
      /\ \A s \in Slots : store'[s].old \cup store'[s].loose \subseteq store'[s].roots
  <2>1. \A s \in Slots :
          store'[s] \in Store /\ store'[s].old \cup store'[s].loose \subseteq store'[s].roots
    BY <1>6, <1>7, <1>8, NothingIs
  <2>2. store' = [s \in Slots |-> store'[s]]
    BY <1>2
  <2> QED BY <2>1, <2>2
<1>10. TypeOK'
  BY <1>3, <1>9, Places DEF FetchInv, TypeOK
<1>11. PlaceInv' /\ EntryMatches'
  BY <1>3 DEF FetchInv, PlaceInv, EntryMatches
<1>12. SettledInv'
  BY <1>7, <1>8, NothingIs DEF SettledInv
<1>13. RootInv'
  <2> SUFFICES ASSUME NEW s \in Slots, NEW v \in Versions, <<v, Top>> \in store'[s].objs
               PROVE  <<v, Top>> \in store'[s].roots \/ v \in store'[s].lost
    BY DEF RootInv
  <2>1. s = cur /\ <<v, Top>> \in T.objs
    BY <1>6, <1>7, NothingIs
  <2>2. \/ <<v, Top>> \in T.roots \/ v \in T.lost
        \/ \E q \in Users(cur) : pc[q] = "strip" /\ got[q] = v
    BY <1>1, <2>1 DEF FetchInv, RootInv
  <2>3. <<v, Top>> \in S => v \in {o[1] : o \in S}
    OBVIOUS
  <2> QED BY <1>6, <1>7, <2>1, <2>2, <2>3
<1>14. UseInv'
  BY <1>3 DEF UseInv, InUse
<1> QED BY <1>10, <1>11, <1>12, <1>13, <1>14 DEF FetchInv

-----------------------------------------------------------------------------
LEMMA InitFetchInv == Init => FetchInv
<1> SUFFICES ASSUME Init PROVE FetchInv
  OBVIOUS
<1>1. TypeOK
  <2>1. /\ web \in Versions /\ faults \in 0 .. MaxFaults
        /\ entry \in [etag : 0 .. MaxVersion, root : 0 .. MaxVersion, expired : BOOLEAN]
    BY Places DEF Init, NoEntry
  <2>2. /\ store \in [Slots -> Store] /\ cur \in Slots /\ poison \in BOOLEAN
        /\ \A s \in Slots : store[s].old \cup store[s].loose \subseteq store[s].roots
    BY NothingIs, Places DEF Init
  <2>3. /\ pc \in [Procs -> Fetching \cup {"off", "served"}] /\ at \in [Procs -> Slots]
        /\ got \in [Procs -> 0 .. MaxVersion]
        /\ pend \in [Procs -> BOOLEAN] /\ sure \in [Procs -> BOOLEAN]
    BY Places DEF Init
  <2> QED BY <2>1, <2>2, <2>3 DEF TypeOK
<1>2. SettledInv /\ RootInv
  BY NothingIs DEF Init, SettledInv, RootInv
<1>3. PlaceInv /\ UseInv /\ EntryMatches
  BY DEF Init, PlaceInv, UseInv, InUse, EntryMatches, NoEntry
<1> QED BY <1>1, <1>2, <1>3 DEF FetchInv

LEMMA NextFetchInv == FetchInv /\ [Next]_vars => FetchInv'
<1> SUFFICES ASSUME FetchInv, [Next]_vars PROVE FetchInv'
  OBVIOUS
<1>1. CASE UNCHANGED vars
  BY <1>1 DEF FetchInv, TypeOK, PlaceInv, SettledInv, RootInv, UseInv, EntryMatches, Users, My,
              vars, proc
<1>2. ASSUME NEW p \in Procs, Step(p) \/ IngestFails(p) \/ Kill(p) PROVE FetchInv'
  <2>1. \/ Start(p) \/ Ends(p) \/ Ingest(p) \/ NotModified(p) \/ Strip(p)
        \/ Lookup(p) \/ Hash(p) \/ Touch(p) \/ \E k \in {Last, File} : Read(p, k)
    BY <1>2 DEF Step, Ends
  <2> QED BY <2>1, StartKeepsInv, EndsKeepInv, IngestKeepsInv, WritesKeepInv, QuietKeepsInv
<1>3. CASE Publish
  <2>1. web' \in Versions
    BY <1>3, Places DEF FetchInv, TypeOK, Publish, Versions
  <2>2. TypeOK'
    BY <1>3, <2>1 DEF FetchInv, TypeOK, Publish, proc
  <2> QED BY <1>3, <2>2 DEF FetchInv, PlaceInv, SettledInv, RootInv, UseInv, EntryMatches, Users, My,
              Publish, proc
<1>4. CASE Expire
  <2>1. TypeOK' /\ EntryMatches'
    BY <1>4 DEF FetchInv, TypeOK, EntryMatches, Expire, proc
  <2> QED BY <1>4, <2>1 DEF FetchInv, PlaceInv, SettledInv, RootInv, UseInv, Users, My, Expire, proc
<1> QED BY <1>1, <1>2, <1>3, <1>4, PassDiesKeepsInv, PassKeepsInv, AgeKeepsInv, RotKeepsInv,
           PowerLossKeepsInv DEF Next

LEMMA AlwaysFetchInv == Spec => []FetchInv
BY InitFetchInv, NextFetchInv, PTL DEF Spec

(* Every variable has its type, whatever the faults.                       *)
THEOREM TypeCorrect == Spec => []TypeOK
<1>1. FetchInv => TypeOK
  BY DEF FetchInv
<1> QED BY <1>1, AlwaysFetchInv, PTL

(* Nix's cache never names, under an etag, the tree of another version: a  *)
(* 304 writes the cached value again, and a download the tree it hashed.   *)
THEOREM EntryNamesItsTree == Spec => []EntryMatches
<1>1. FetchInv => EntryMatches
  BY DEF FetchInv
<1> QED BY <1>1, AlwaysFetchInv, PTL

(* A tree that getAccessor returns has every object of it, from there to   *)
(* the end of the run, whatever others collect, ingest or wipe.            *)
THEOREM UsedTreesWhole == Spec => []InUseWhole
<1>1. FetchInv => InUseWhole
  <2> SUFFICES ASSUME FetchInv, NEW p \in Procs, pc[p] \in {"touch", "read"}, sure[p]
               PROVE  Tree(got[p], Top) \subseteq My(p).objs
    BY DEF InUseWhole
  <2>1. got[p] # 0 /\ InUse(pc[p], got[p], sure[p], My(p))
    BY DEF FetchInv, PlaceInv, UseInv
  <2> QED BY <2>1 DEF InUse, Clean
<1> QED BY <1>1, AlwaysFetchInv, PTL

(* What the entry names is a root of its own, once strip has made it one,  *)
(* unless its registration was lost.                                       *)
THEOREM NamedTreesRooted == Spec => []EntryRooted
<1>1. FetchInv => EntryRooted
  <2> SUFFICES ASSUME FetchInv, <<entry.root, Top>> \in store[cur].objs
               PROVE  \/ <<entry.root, Top>> \in store[cur].roots \/ entry.root \in store[cur].lost
                      \/ \E p \in Users(cur) : pc[p] = "strip" /\ got[p] = entry.root
    BY DEF EntryRooted
  <2>1. cur \in Slots /\ store[cur].objs \subseteq Objects
    BY DEF FetchInv, TypeOK, Store
  <2>2. <<entry.root, Top>> \in Versions \X (Arc .. File)
    BY <2>1 DEF Objects
  <2>3. entry.root \in Versions
    BY <2>2
  <2> QED BY <2>1, <2>3 DEF FetchInv, RootInv
<1> QED BY <1>1, AlwaysFetchInv, PTL
=============================================================================
