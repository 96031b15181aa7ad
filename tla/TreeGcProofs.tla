---------------------------- MODULE TreeGcProofs ----------------------------
(***************************************************************************)
(* Theorems about TreeGc, for any processes, objects, trees and times.     *)
(***************************************************************************)
EXTENDS TreeGcInv, FiniteSetTheorems, SequenceTheorems, TLAPS

-----------------------------------------------------------------------------
(* Keys are what they are named for.                                       *)
LEMMA KeyFacts ==
  /\ LastGc \notin RootKeys \cup BlobKeys /\ RootKeys \cap BlobKeys = {}
  /\ \A k \in RootKeys : k[1] = "R" /\ k[2] \in Trees
  /\ \A k \in BlobKeys : k[1] = "B" /\ k[2] \in Objects
  /\ Jobs \subseteq RootKeys \cup BlobKeys
  /\ \A k \in Jobs : k \in Keys \ {LastGc} /\ k[2] \in Objects
BY GcAssumption DEF LastGc, RootKeys, BlobKeys, Keys

(* What is on a stack, when its top is taken and others are put there.     *)
LEMMA ConcatElems ==
  ASSUME NEW T, NEW a \in Seq(T), NEW b \in Seq(T)
  PROVE  a \o b \in Seq(T) /\ Elems(a \o b) = Elems(a) \cup Elems(b)
<1>1. PICK m, n : m = Len(a) /\ n = Len(b) /\ m \in Nat /\ n \in Nat
  BY LenProperties
<1>2. PICK c : c = a \o b
  OBVIOUS
<1>3. /\ c \in Seq(T) /\ Len(c) = m + n
      /\ \A i \in 1 .. m + n : c[i] = IF i <= m THEN a[i] ELSE b[i - m]
  BY <1>1, <1>2, ConcatProperties
<1>4. ASSUME NEW i \in 1 .. m + n
      PROVE  c[i] \in {a[j] : j \in 1 .. m} \cup {b[j] : j \in 1 .. n}
  <2>1. i <= m => i \in 1 .. m /\ c[i] = a[i]
    BY <1>1, <1>3
  <2>2. ~(i <= m) => i - m \in 1 .. n /\ c[i] = b[i - m]
    BY <1>1, <1>3
  <2> QED BY <2>1, <2>2
<1>5. ASSUME NEW i \in 1 .. m
      PROVE  i \in 1 .. m + n /\ c[i] = a[i]
  BY <1>1, <1>3
<1>6. ASSUME NEW i \in 1 .. n
      PROVE  m + i \in 1 .. m + n /\ c[m + i] = b[i]
  <2>1. m + i \in 1 .. m + n /\ ~(m + i <= m) /\ m + i - m = i
    BY <1>1
  <2>2. PICK j : j = m + i
    OBVIOUS
  <2>3. j \in 1 .. m + n /\ ~(j <= m) /\ j - m = i
    BY <1>1, <2>2
  <2>4. c[j] = IF j <= m THEN a[j] ELSE b[j - m]
    BY <1>3, <2>3
  <2> QED BY <2>1, <2>2, <2>3, <2>4
<1>7. {c[i] : i \in 1 .. m + n} = {a[i] : i \in 1 .. m} \cup {b[i] : i \in 1 .. n}
  BY <1>4, <1>5, <1>6
<1> QED BY <1>1, <1>2, <1>3, <1>7 DEF Elems

LEMMA PopElems ==
  ASSUME NEW T, NEW a \in Seq(T), a # <<>>
  PROVE  /\ a[Len(a)] \in T
         /\ SubSeq(a, 1, Len(a) - 1) \in Seq(T)
         /\ Elems(a) = Elems(SubSeq(a, 1, Len(a) - 1)) \cup {a[Len(a)]}
<1>1. PICK n : n = Len(a) /\ n \in Nat \ {0}
  BY EmptySeq
<1>2. PICK c : c = SubSeq(a, 1, n - 1)
  OBVIOUS
<1>3. \A i \in 1 .. n : a[i] \in T
  BY <1>1, ElementOfSeq
<1>4. c \in Seq(T) /\ Len(c) = n - 1 /\ \A i \in 1 .. n - 1 : c[i] = a[i]
  <2>1. 1 \in Int /\ n - 1 \in Int /\ \A i \in 1 .. n - 1 : a[i] \in T
    BY <1>1, <1>3
  <2>2. /\ c \in Seq(T)
        /\ Len(c) = IF 1 <= n - 1 THEN (n - 1) - 1 + 1 ELSE 0
        /\ \A i \in 1 .. (n - 1) - 1 + 1 : c[i] = a[1 + i - 1]
    BY <1>2, <2>1, SubSeqProperties
  <2> QED BY <1>1, <2>2
<1>5. {a[i] : i \in 1 .. n} = {c[i] : i \in 1 .. n - 1} \cup {a[n]}
  <2>1. 1 .. n = (1 .. n - 1) \cup {n}
    BY <1>1
  <2> QED BY <1>4, <2>1
<1> QED BY <1>1, <1>2, <1>3, <1>4, <1>5 DEF Elems

LEMMA OrderElems ==
  ASSUME NEW S \in SUBSET Trees, NEW s \in Orderings(S)
  PROVE  s \in Seq(Trees) /\ Elems(s) = S
<1>1. PICK n : n = Cardinality(S) /\ n \in Nat
  BY GcAssumption, FS_Subset, FS_CardinalityType
<1>2. s \in [1 .. n -> S] /\ \A x \in S : \E i \in 1 .. n : s[i] = x
  BY <1>1 DEF Orderings
<1>3. s \in Seq(Trees)
  BY <1>1, <1>2, SeqDef
<1>4. Len(s) = n
  <2>1. 1 .. Len(s) = 1 .. n /\ Len(s) \in Nat
    BY <1>2, <1>3, LenProperties
  <2> QED BY <1>1, <2>1
<1> QED BY <1>2, <1>3, <1>4 DEF Elems

-----------------------------------------------------------------------------
(* Type correctness, whatever the races.                                   *)

LEMMA MetaSetType ==
  ASSUME TypeOK, NEW p \in Procs, NEW k \in Keys, NEW s \in Stamps, MetaSet(p, k, s)
  PROVE  meta' \in [Keys -> Stamps] /\ vmeta' \in [Keys -> Stamps]
<1>1. meta \in [Keys -> Stamps] /\ vmeta \in [Keys -> Stamps]
  BY DEF TypeOK
<1> QED BY <1>1 DEF MetaSet

LEMMA WritesType ==
  ASSUME TypeOK, NEW p \in Procs, Writes(p)
  PROVE  TypeOK'
<1> USE DEF Goto, cas, tables, ingest, touches
<1>0. NoStamps \in [Keys -> Stamps] /\ NoGc \in GcLocals
  BY GcAssumption DEF NoStamps, NoGc, Stamps, GcLocals
<1>1. CASE Open(p)
  BY <1>1 DEF Open, TypeOK, Pcs, GcPcs, IngestPcs
<1>2. CASE PutBegin(p)
  BY <1>2 DEF PutBegin, Cas!Begin, TypeOK
<1>3. CASE AutoSync(p)
  BY <1>3 DEF AutoSync, Commit, Cas!Publish, TypeOK
<1>4. CASE IngestFails(p)
  BY <1>4 DEF IngestFails, TypeOK, Pcs, IngestPcs
<1>5. CASE Register(p)
  <2>1. job[p] \in Keys /\ clock \in Stamps
    BY <1>5, KeyFacts DEF Keys, TypeOK, NoJob
  <2>2. meta' \in [Keys -> Stamps] /\ vmeta' \in [Keys -> Stamps]
    BY <1>5, <2>1, MetaSetType DEF Register
  <2> QED BY <1>5, <2>1, <2>2 DEF Register, TypeOK, Pcs, IngestPcs
<1>6. CASE Flush(p)
  BY <1>0, <1>6 DEF Flush, TypeOK, Pcs, IngestPcs
<1>7. CASE Sync(p)
  BY <1>7 DEF Sync, Commit, Cas!Publish, TypeOK, Pcs
<1>8. CASE Close(p)
  BY <1>8 DEF Close, TypeOK, Pcs
<1>9. CASE Destroy(p)
  BY <1>0, <1>9 DEF Destroy, Gone, Exit, SetGc, Cas!Exit, TypeOK, Pcs
<1>10. ASSUME NEW k \in Jobs, StartIngest(p, k) PROVE TypeOK'
  BY <1>10 DEF StartIngest, TypeOK, Pcs, IngestPcs
<1>11. ASSUME NEW o \in Objects, Put(p, o) PROVE TypeOK'
  BY <1>11 DEF Put, Cas!Add, TypeOK
<1>12. ASSUME NEW k \in Keys, FlushOne(p, k) PROVE TypeOK'
  <2>1. flush[p][k] \in Stamps /\ 0 \in Stamps
    BY GcAssumption DEF TypeOK, Stamps
  <2>2. meta' \in [Keys -> Stamps] /\ vmeta' \in [Keys -> Stamps]
    BY <1>12, <2>1, MetaSetType DEF FlushOne
  <2> QED BY <1>12, <2>1, <2>2 DEF FlushOne, TypeOK
<1> QED BY <1>1, <1>2, <1>3, <1>4, <1>5, <1>6, <1>7, <1>8, <1>9, <1>10, <1>11, <1>12 DEF Writes

(* What the steps of a pass make of its locals.                            *)
LEMMA LocalsType ==
  ASSUME NEW g \in GcLocals
  PROVE  /\ \A s \in Stamps : [g EXCEPT !.now = s] \in GcLocals
         /\ \A S \in SUBSET {"R", "B"} : [g EXCEPT !.kinds = S] \in GcLocals
         /\ \A S \in SUBSET {"R", "B"}, b \in BOOLEAN, K \in SUBSET Keys :
              [g EXCEPT !.kinds = S, !.any = b, !.expired = K] \in GcLocals
         /\ \A K \in SUBSET Keys : [g EXCEPT !.expired = K] \in GcLocals
         /\ \A K \in SUBSET RootKeys : [g EXCEPT !.todo = K] \in GcLocals
         /\ \A K \in SUBSET RootKeys, k \in RootKeys, L \in SUBSET Objects, s \in Seq(Trees) :
              [g EXCEPT !.todo = K, !.at = k, !.live = L, !.stack = s] \in GcLocals
         /\ \A L \in SUBSET Objects, s \in Seq(Trees) :
              [g EXCEPT !.live = L, !.stack = s] \in GcLocals
         /\ \A K \in SUBSET (RootKeys \cup {NoJob}), s \in Seq(Trees) :
              [g EXCEPT !.broken = K, !.stack = s] \in GcLocals
         /\ \A K \in SUBSET (RootKeys \cup {NoJob}) : [g EXCEPT !.broken = K] \in GcLocals
         /\ \A L \in SUBSET Objects : [g EXCEPT !.live = L] \in GcLocals
<1>1. \A s \in Stamps : [g EXCEPT !.now = s] \in GcLocals
  BY DEF GcLocals
<1>2. \A S \in SUBSET {"R", "B"} : [g EXCEPT !.kinds = S] \in GcLocals
  BY DEF GcLocals
<1>3. \A S \in SUBSET {"R", "B"}, b \in BOOLEAN, K \in SUBSET Keys :
        [g EXCEPT !.kinds = S, !.any = b, !.expired = K] \in GcLocals
  BY DEF GcLocals
<1>4. \A K \in SUBSET Keys : [g EXCEPT !.expired = K] \in GcLocals
  BY DEF GcLocals
<1>5. \A K \in SUBSET RootKeys : [g EXCEPT !.todo = K] \in GcLocals
  BY DEF GcLocals
<1>6. \A K \in SUBSET RootKeys, k \in RootKeys, L \in SUBSET Objects, s \in Seq(Trees) :
        [g EXCEPT !.todo = K, !.at = k, !.live = L, !.stack = s] \in GcLocals
  BY DEF GcLocals
<1>7. \A L \in SUBSET Objects, s \in Seq(Trees) : [g EXCEPT !.live = L, !.stack = s] \in GcLocals
  BY DEF GcLocals
<1>8. \A K \in SUBSET (RootKeys \cup {NoJob}), s \in Seq(Trees) :
        [g EXCEPT !.broken = K, !.stack = s] \in GcLocals
  BY DEF GcLocals
<1>9. \A K \in SUBSET (RootKeys \cup {NoJob}) : [g EXCEPT !.broken = K] \in GcLocals
  BY DEF GcLocals
<1>10. \A L \in SUBSET Objects : [g EXCEPT !.live = L] \in GcLocals
  BY DEF GcLocals
<1> QED BY <1>1, <1>2, <1>3, <1>4, <1>5, <1>6, <1>7, <1>8, <1>9, <1>10, Zenon

LEMMA CollectsType ==
  ASSUME TypeOK, NEW p \in Procs, Collects(p)
  PROVE  TypeOK'
<1> USE DEF Goto, SetGc, cas, tables, ingest, touches
<1>0. /\ NoGc \in GcLocals /\ 0 \in Stamps
  BY GcAssumption DEF NoGc, Stamps, GcLocals
<1>g. gc[p] \in GcLocals
  BY DEF TypeOK
<1>1. CASE GcNow(p)
  <2>1. [NoGc EXCEPT !.now = clock] \in GcLocals
    BY <1>0, LocalsType DEF TypeOK
  <2> QED BY <1>1, <2>1 DEF GcNow, TypeOK, Pcs, GcPcs
<1>2. CASE GcCheck(p)
  BY <1>0, <1>2 DEF GcCheck, TypeOK, Pcs, GcPcs
<1>3. CASE GcStamp(p)
  <2>1. gc[p].now \in Stamps /\ LastGc \in Keys
    BY <1>g DEF GcLocals, Keys
  <2>2. meta' \in [Keys -> Stamps] /\ vmeta' \in [Keys -> Stamps]
    BY <1>3, <2>1, MetaSetType DEF GcStamp
  <2>3. [gc[p] EXCEPT !.kinds = {"R", "B"}] \in GcLocals
    BY <1>g, LocalsType
  <2> QED BY <1>3, <2>2, <2>3 DEF GcStamp, TypeOK, Pcs, GcPcs
<1>4. CASE GcExpired(p)
  <2>1. PICK K \in SUBSET RootKeys : K = {k \in RootKeys : Meta(p)[k] # 0}
    OBVIOUS
  <2>2. [gc[p] EXCEPT !.todo = K] \in GcLocals
    BY <1>g, LocalsType
  <2>3. gc' \in [Procs -> GcLocals]
    BY <1>0, <1>4, <2>1, <2>2 DEF GcExpired, TypeOK
  <2>4. pc' \in [Procs -> Pcs]
    BY <1>4 DEF GcExpired, TypeOK, Pcs, GcPcs
  <2> QED BY <1>4, <2>3, <2>4 DEF GcExpired, TypeOK
<1>5. ASSUME NEW kind \in {"R", "B"}, GcExpire(p, kind) PROVE TypeOK'
  <2>1. PICK K : K = {k \in KeysOf(kind) :
                        Meta(p)[k] # 0 /\ Since(gc[p].now, Meta(p)[k]) >= Ttl}
    OBVIOUS
  <2>2. K \in SUBSET Keys /\ gc[p].kinds \ {kind} \in SUBSET {"R", "B"}
    BY <1>g, <2>1 DEF KeysOf, Keys, GcLocals
  <2>3. (gc[p].any \/ K # {}) \in BOOLEAN
    OBVIOUS
  <2>4. PICK g : g = [gc[p] EXCEPT !.kinds = @ \ {kind}, !.any = @ \/ K # {}, !.expired = K]
    OBVIOUS
  <2>5. g \in GcLocals
    BY <1>g, <2>2, <2>3, <2>4, LocalsType, Zenon
  <2>6. gc' = [gc EXCEPT ![p] = g]
    BY <1>5, <2>1, <2>4 DEF GcExpire
  <2> QED BY <1>5, <2>5, <2>6 DEF GcExpire, TypeOK, Pcs, GcPcs
<1>6. ASSUME NEW k \in Keys, GcDelete(p, k) PROVE TypeOK'
  <2>1. meta' \in [Keys -> Stamps] /\ vmeta' \in [Keys -> Stamps]
    BY <1>0, <1>6, MetaSetType DEF GcDelete
  <2>2. gc[p].expired \ {k} \in SUBSET Keys
    BY <1>g DEF GcLocals
  <2>3. [gc[p] EXCEPT !.expired = @ \ {k}] \in GcLocals
    BY <1>g, <2>2, LocalsType
  <2> QED BY <1>6, <2>1, <2>3 DEF GcDelete, TypeOK
<1>7. ASSUME NEW k \in Keys, GcUnroot(p, k) PROVE TypeOK'
  <2>1. meta' \in [Keys -> Stamps] /\ vmeta' \in [Keys -> Stamps]
    BY <1>0, <1>7, MetaSetType DEF GcUnroot
  <2>2. gc[p].broken \ {k} \in SUBSET (RootKeys \cup {NoJob})
    BY <1>g DEF GcLocals
  <2>3. [gc[p] EXCEPT !.broken = @ \ {k}] \in GcLocals
    BY <1>g, <2>2, LocalsType
  <2> QED BY <1>7, <2>1, <2>3 DEF GcUnroot, TypeOK
<1>8. ASSUME NEW k \in RootKeys, MarkRoot(p, k) PROVE TypeOK'
  <2>1. k[2] \in Trees /\ k[2] \in Objects /\ <<k[2]>> \in Seq(Trees) /\ <<>> \in Seq(Trees)
    BY KeyFacts, GcAssumption
  <2>2. /\ gc[p].todo \ {k} \in SUBSET RootKeys /\ gc[p].live \cup {k[2]} \in SUBSET Objects
        /\ (IF k[2] \in gc[p].live THEN <<>> ELSE <<k[2]>>) \in Seq(Trees)
    BY <1>g, <2>1 DEF GcLocals
  <2>3. [gc[p] EXCEPT !.todo = @ \ {k}, !.at = k, !.live = @ \cup {k[2]},
                      !.stack = IF k[2] \in gc[p].live THEN <<>> ELSE <<k[2]>>] \in GcLocals
    BY <1>g, <2>2, LocalsType
  <2> QED BY <1>8, <2>3 DEF MarkRoot, TypeOK
<1>9. CASE MarkTree(p)
  <2>1. gc[p].stack \in Seq(Trees) /\ gc[p].stack # <<>>
    BY <1>9, <1>g DEF MarkTree, GcLocals
  <2>2. PICK t, rest, new :
          /\ t = gc[p].stack[Len(gc[p].stack)]
          /\ rest = SubSeq(gc[p].stack, 1, Len(gc[p].stack) - 1)
          /\ new = Children[t] \ gc[p].live
    OBVIOUS
  <2>3. t \in Trees /\ rest \in Seq(Trees)
    BY <2>1, <2>2, PopElems
  <2>4. gc[p].live \cup new \in SUBSET Objects
    BY <1>g, <2>2, <2>3, GcAssumption DEF GcLocals
  <2>5. \A s \in Orderings(new \cap Trees) : rest \o s \in Seq(Trees)
    BY <2>3, OrderElems, ConcatElems
  <2>6. CASE t \in stored \ rotten
    <3>1. PICK s \in Orderings(new \cap Trees) :
            gc' = [gc EXCEPT ![p] = [gc[p] EXCEPT !.live = @ \cup new, !.stack = rest \o s]]
      BY <1>9, <2>2, <2>6 DEF MarkTree
    <3>2. [gc[p] EXCEPT !.live = @ \cup new, !.stack = rest \o s] \in GcLocals
      BY <1>g, <2>4, <2>5, LocalsType
    <3> QED BY <1>9, <3>1, <3>2 DEF MarkTree, TypeOK
  <2>7. CASE ~(t \in stored \ rotten)
    <3>1. gc' = [gc EXCEPT ![p] = [gc[p] EXCEPT !.broken = @ \cup {gc[p].at}, !.stack = <<>>]]
      BY <1>9, <2>2, <2>7 DEF MarkTree
    <3>2. gc[p].broken \cup {gc[p].at} \in SUBSET (RootKeys \cup {NoJob}) /\ <<>> \in Seq(Trees)
      BY <1>g DEF GcLocals
    <3> QED BY <1>9, <1>g, <3>1, <3>2, LocalsType DEF MarkTree, TypeOK
  <2> QED BY <2>6, <2>7
<1>10. CASE Marked(p)
  BY <1>10 DEF Marked, TypeOK, Pcs, GcPcs
<1>11. CASE GcBlobs(p)
  <2>1. PICK L : L = {k[2] : k \in {b \in BlobKeys : Meta(p)[b] # 0}}
    OBVIOUS
  <2>2. gc[p].live \cup L \in SUBSET Objects
    BY <1>g, <2>1, KeyFacts DEF GcLocals
  <2>3. [gc[p] EXCEPT !.live = @ \cup L] \in GcLocals
    BY <1>g, <2>2, LocalsType
  <2> QED BY <1>11, <2>1, <2>3 DEF GcBlobs, TypeOK, Pcs, GcPcs
<1>12. CASE GcCompact(p)
  BY <1>12 DEF GcCompact, Cas!Begin, TypeOK, Pcs, GcPcs
<1>13. CASE GcSweep(p)
  BY <1>13 DEF GcSweep, Cas!Collect, TypeOK, Pcs, GcPcs
<1>14. CASE GcSwitch(p)
  BY <1>0, <1>14 DEF GcSwitch, Commit, Cas!Publish, TypeOK, Pcs
<1> QED BY <1>1, <1>2, <1>3, <1>4, <1>5, <1>6, <1>7, <1>8, <1>9, <1>10, <1>11, <1>12, <1>13, <1>14
        DEF Collects

LEMMA NextType ==
  ASSUME TypeOK, [Next]_vars
  PROVE  TypeOK'
<1> USE DEF cas, tables, ingest, touches
<1>1. ASSUME NEW p \in Procs, Kill(p) PROVE TypeOK'
  <2>1. NoStamps \in [Keys -> Stamps] /\ NoGc \in GcLocals
    BY GcAssumption DEF NoStamps, NoGc, Stamps, GcLocals
  <2> QED BY <1>1, <2>1 DEF Kill, Gone, Goto, Exit, SetGc, Cas!Exit, TypeOK, Pcs
<1>2. ASSUME NEW p \in Procs, NEW k \in Jobs, Touch(p, k) PROVE TypeOK'
  <2>1. k \in Keys
    BY KeyFacts
  <2> QED BY <1>2, <2>1 DEF Touch, TypeOK
<1>3. ASSUME NEW o \in Objects, Rot(o) PROVE TypeOK'
  BY <1>3 DEF Rot, TypeOK
<1>4. CASE Tick
  BY <1>4, GcAssumption DEF Tick, TypeOK, Stamps
<1>5. CASE UNCHANGED vars
  BY <1>5 DEF vars, TypeOK
<1> QED BY <1>1, <1>2, <1>3, <1>4, <1>5, WritesType, CollectsType DEF Next

(* The state is what the code's variables can hold, whatever the processes *)
(* do to each other.                                                       *)
THEOREM TypeCorrect == Spec => []TypeOK
<1>1. Init => TypeOK
  BY GcAssumption DEF Init, TypeOK, NoStamps, NoGc, Stamps, Pcs, GcLocals
<1>2. TypeOK /\ [Next]_vars => TypeOK'
  BY NextType
<1> QED BY <1>1, <1>2, PTL DEF Spec

-----------------------------------------------------------------------------
(* A collector that nobody gets in the way of keeps every root whole, and  *)
(* with it TreeGc implements RootStore, for any processes, objects, trees  *)
(* and times.                                                              *)

(* What k needs holds its own object, and is within any closed set that    *)
(* has that object.                                                        *)
LEMMA NeedsFacts ==
  ASSUME NEW k \in Jobs
  PROVE  /\ k[2] \in Needs(k)
         /\ \A S \in SUBSET Objects : Closed(S) /\ k[2] \in S => Needs(k) \subseteq S
<1>1. k[2] \in Objects
  BY KeyFacts
<1>2. k[2] \in Reach(k[2])
  BY <1>1 DEF Reach
<1>3. \A S \in SUBSET Objects : Closed(S) /\ k[2] \in S => Reach(k[2]) \subseteq S
  BY DEF Reach
<1> QED BY <1>2, <1>3 DEF Needs

LEMMA QuietFacts ==
  ASSUME QuietPasses
  PROVE  /\ "ingestInGc" \notin Races /\ "twoGcs" \notin Races /\ "bulk" \notin Races
         /\ "held" \notin Races /\ "rot" \notin Races
BY DEF QuietPasses

(* While a pass is under way no touch is pending, and who ingests has a    *)
(* batch that is older than the pass's first write.                        *)
LEMMA PassFacts ==
  ASSUME GcInv, NEW q \in Procs, InGc(q)
  PROVE  /\ \A p \in Procs, k \in Keys : touch[p][k] = 0 /\ flush[p][k] = 0
         /\ \A p \in Procs : p # q => ~InGc(p) /\ (pc[p] \in IngestPcs => writer = p)
         /\ pc[q] \notin {"check", "stamp"} => writer \in {q, NoProc}
         /\ pc[q] \notin {"sweep", "switch"} => writer # q
<1>1. \A p \in Procs : touch[p] = NoStamps /\ flush[p] = NoStamps
  BY DEF GcInv, AloneInv
<1>2. \A k \in Keys : NoStamps[k] = 0
  BY DEF NoStamps
<1>3. pc[q] \in GcPcs /\ (writer = q => pc[q] \in IngestPcs \cup {"idle", "close", "closing", "sweep", "switch"})
  BY DEF GcInv, BatchInv, InGc
<1> QED BY <1>1, <1>2, <1>3 DEF GcInv, AloneInv, Others, GcPcs, IngestPcs

(* A record is written in the batch, or at once.                           *)
LEMMA MetaSetFacts ==
  ASSUME GcInv, NEW p \in Procs, NEW k \in Keys, NEW s, MetaSet(p, k, s)
  PROVE  /\ writer \in {p, NoProc}
         /\ \A x \in Keys : vmeta'[x] = IF x = k THEN s ELSE vmeta[x]
         /\ \A x \in Keys : meta'[x] = meta[x] \/ (x = k /\ meta'[x] = s)
         /\ writer # NoProc => meta' = meta
         /\ writer = NoProc => vmeta' = meta'
<1>1. /\ meta \in [Keys -> Stamps] /\ vmeta \in [Keys -> Stamps]
      /\ writer = NoProc => vmeta = meta
  BY DEF GcInv, TypeOK, BatchInv
<1>2. CASE writer = p /\ vmeta' = [vmeta EXCEPT ![k] = s] /\ meta' = meta
  BY <1>1, <1>2, GcAssumption
<1>3. CASE writer = NoProc /\ meta' = [meta EXCEPT ![k] = s] /\ vmeta' = meta'
  BY <1>1, <1>3
<1> QED BY <1>2, <1>3 DEF MetaSet

-----------------------------------------------------------------------------
(* An ingest, and what commits its batch.                                  *)

LEMMA RegisterKeeps ==
  ASSUME QuietPasses, GcInv, NEW p \in Procs, Register(p)
  PROVE  (WholeInv /\ BatchInv /\ IngestInv /\ TouchInv /\ AloneInv /\ WalkInv)'
<1> DEFINE k == job[p]
<1>1. /\ k \in Jobs /\ k \in Keys \ {LastGc} /\ clock # 0 /\ pc[p] = "ingest"
      /\ writer \in {p, NoProc} /\ k[2] \in view
  <2>1. k \in Jobs /\ done[p] \subseteq IF writer = p THEN view ELSE stored
    BY DEF GcInv, IngestInv, Register
  <2>2. k[2] \in done[p]
    BY <2>1, NeedsFacts DEF Register
  <2> QED BY <2>1, <2>2, KeyFacts DEF Register, MetaSet, GcInv, BatchInv
<1>2. /\ pc' = [pc EXCEPT ![p] = "sync"] /\ UNCHANGED <<stored, writer, view, rotten, clock, touch, flush, gc>>
      /\ job' = [job EXCEPT ![p] = NoJob] /\ done' = [done EXCEPT ![p] = {}]
  BY DEF Register, Goto, cas
<1>3. /\ \A x \in Keys : meta'[x] = meta[x] \/ (x = k /\ meta'[x] = clock)
      /\ \A x \in Keys : vmeta'[x] = IF x = k THEN clock ELSE vmeta[x]
      /\ writer # NoProc => meta' = meta
      /\ writer = NoProc => vmeta' = meta'
  BY <1>1, MetaSetFacts DEF Register
<1>4. WholeInv'
  <2>1. \A x \in Registered(meta)' : x \in Jobs /\ x[2] \in stored
    BY <1>1, <1>3, GcAssumption DEF Registered, GcInv, WholeInv, BatchInv
  <2>2. \A x \in Registered(vmeta)' : x \in Jobs /\ x[2] \in view
    BY <1>1, <1>3 DEF Registered, GcInv, WholeInv
  <2> QED BY <1>2, <2>1, <2>2 DEF GcInv, WholeInv, Closed
<1>5. BatchInv'
  BY <1>1, <1>2, <1>3 DEF Registered, GcInv, BatchInv, TypeOK, IngestPcs
<1>6. IngestInv'
  BY <1>2 DEF GcInv, IngestInv, TypeOK
<1>7. TouchInv'
  BY <1>1, <1>2, <1>3 DEF GcInv, TouchInv
<1>8. AloneInv'
  BY <1>1, <1>2 DEF GcInv, AloneInv, TypeOK, InGc, IngestPcs, GcPcs
<1>9. WalkInv'
  <2>1. ASSUME NEW q \in Procs, InGc(q) PROVE pc[q] \in {"check", "stamp"} /\ q # p
    BY <1>1, <2>1, PassFacts, GcAssumption DEF InGc, GcPcs, IngestPcs
  <2>2. \A q \in Procs : pc'[q] \in GcPcs => pc'[q] = pc[q] /\ pc[q] \in {"check", "stamp"}
    BY <1>2, <2>1 DEF GcInv, TypeOK, GcPcs, InGc
  <2> QED BY <1>2, <2>2 DEF GcInv, WalkInv, GcPcs
<1> QED BY <1>4, <1>5, <1>6, <1>7, <1>8, <1>9

LEMMA OpenKeeps ==
  ASSUME QuietPasses, GcInv, NEW p \in Procs,
         \/ Open(p) \/ Close(p) \/ IngestFails(p) \/ \E k \in Jobs : StartIngest(p, k)
  PROVE  (WholeInv /\ BatchInv /\ IngestInv /\ TouchInv /\ AloneInv /\ WalkInv)'
<1>1. /\ UNCHANGED <<stored, writer, view, meta, vmeta, rotten, clock, touch, flush, gc>>
      /\ \A q \in Procs : q # p => pc'[q] = pc[q] /\ job'[q] = job[q] /\ done'[q] = done[q]
      /\ pc'[p] \in {"gc", "close", "idle", "ingest"} /\ pc[p] \in {"closed", "idle", "ingest"}
      /\ pc'[p] = "gc" => pc[p] = "closed"
      /\ pc'[p] = "ingest" => pc[p] = "idle" /\ job'[p] \in Jobs /\ done'[p] = {}
      /\ pc'[p] = "ingest" => \A q \in Procs : ~InGc(q)
  BY QuietFacts DEF Open, Close, IngestFails, StartIngest, Goto, cas, tables, touches, ingest,
                    GcInv, TypeOK
<1>2. WholeInv'
  BY <1>1 DEF GcInv, WholeInv, Closed, Registered
<1>3. BatchInv'
  <2>1. \A q \in Procs : writer = q => pc'[q] = pc[q] \/ pc'[q] \in {"close", "idle", "ingest"}
    BY <1>1 DEF GcInv, BatchInv, IngestPcs
  <2>2. \A q \in Procs : writer = q => pc[q] # "switch" \/ q # p
    BY <1>1
  <2> QED BY <1>1, <2>1, <2>2 DEF GcInv, BatchInv, Registered, IngestPcs
<1>4. IngestInv'
  BY <1>1 DEF GcInv, IngestInv
<1>5. TouchInv'
  BY <1>1 DEF GcInv, TouchInv
<1>6. AloneInv'
  BY <1>1 DEF GcInv, AloneInv, InGc, GcPcs, IngestPcs, Others
<1>7. WalkInv'
  BY <1>1 DEF GcInv, WalkInv, Stacked, Registered
<1> QED BY <1>2, <1>3, <1>4, <1>5, <1>6, <1>7

LEMMA PutKeeps ==
  ASSUME GcInv, NEW p \in Procs, PutBegin(p) \/ \E o \in Objects : Put(p, o)
  PROVE  (WholeInv /\ BatchInv /\ IngestInv /\ TouchInv /\ AloneInv /\ WalkInv)'
<1>1. CASE PutBegin(p)
  <2>1. /\ writer = NoProc /\ writer' = p /\ view = stored /\ pc[p] = "ingest"
        /\ UNCHANGED <<stored, view, meta, vmeta, rotten, clock, pc, job, done, touch, flush, gc>>
    BY <1>1 DEF PutBegin, Cas!Begin, GcInv, BatchInv, tables, ingest, touches
  <2>2. WholeInv' /\ TouchInv' /\ WalkInv'
    BY <2>1 DEF GcInv, WholeInv, Closed, Registered, TouchInv, WalkInv, Stacked
  <2>3. BatchInv'
    BY <2>1 DEF GcInv, BatchInv, Registered, IngestPcs
  <2>4. IngestInv'
    BY <2>1, GcAssumption DEF GcInv, IngestInv
  <2>5. \A q \in Procs : ~InGc(q)
    BY <2>1, PassFacts, GcAssumption DEF IngestPcs, InGc, GcPcs
  <2>6. AloneInv'
    BY <2>1, <2>5 DEF AloneInv, InGc
  <2> QED BY <2>2, <2>3, <2>4, <2>6
<1>2. ASSUME NEW o \in Objects, Put(p, o)
      PROVE  (WholeInv /\ BatchInv /\ IngestInv /\ TouchInv /\ AloneInv /\ WalkInv)'
  <2>1. /\ writer = p /\ pc[p] = "ingest" /\ done[p] \subseteq view
        /\ view' = view \cup {o} /\ done' = [done EXCEPT ![p] = @ \cup {o}]
        /\ o \in Trees => Children[o] \subseteq view
        /\ UNCHANGED <<stored, writer, meta, vmeta, rotten, clock, pc, job, touch, flush, gc>>
    BY <1>2 DEF Put, Cas!Add, GcInv, IngestInv, cas, tables, touches
  <2>2. WholeInv'
    BY <2>1 DEF GcInv, WholeInv, Closed, Registered
  <2>3. TouchInv' /\ WalkInv' /\ AloneInv'
    BY <2>1 DEF GcInv, TouchInv, WalkInv, Stacked, AloneInv, InGc, Registered
  <2>4. BatchInv'
    BY <2>1, GcAssumption DEF GcInv, BatchInv, Registered
  <2>5. IngestInv'
    BY <2>1 DEF GcInv, TypeOK, IngestInv
  <2> QED BY <2>2, <2>3, <2>4, <2>5
<1> QED BY <1>1, <1>2

(* A commit outside of a pass, or before a pass has written anything.      *)
LEMMA CommitKeeps ==
  ASSUME QuietPasses, GcInv, NEW p \in Procs, AutoSync(p) \/ Sync(p)
  PROVE  (WholeInv /\ BatchInv /\ IngestInv /\ TouchInv /\ AloneInv /\ WalkInv)'
<1>1. /\ UNCHANGED <<rotten, clock, job, done, touch, flush, gc, view, vmeta>>
      /\ \/ writer = p /\ writer' = NoProc /\ stored' = view /\ meta' = vmeta
         \/ writer # p /\ UNCHANGED <<stored, writer, meta>>
      /\ \A q \in Procs : q # p => pc'[q] = pc[q]
      /\ pc[p] \in {"ingest", "syncing"}
      /\ pc[p] = "ingest" => pc'[p] = "ingest"
      /\ pc[p] = "syncing" => pc'[p] \in {"idle", "gc"}
  BY DEF AutoSync, Sync, Commit, Cas!Publish, Goto, cas, tables, ingest, touches, GcInv, TypeOK
<1>2. /\ \A q \in Procs : InGc(q) => q # p /\ writer = p /\ pc[q] \in {"check", "stamp"} /\ pc[p] = "syncing"
      /\ \A q \in Procs : pc'[q] \in GcPcs => InGc(q) /\ pc'[q] = pc[q]
  <2>1. ASSUME NEW q \in Procs, InGc(q)
        PROVE  q # p /\ writer = p /\ pc[q] \in {"check", "stamp"} /\ pc[p] = "syncing"
    <3>1. q # p
      BY <1>1, <2>1 DEF InGc, GcPcs
    <3>2. writer = p /\ pc[q] \in {"check", "stamp"}
      BY <1>1, <2>1, <3>1, PassFacts, GcAssumption DEF IngestPcs
    <3>3. ~AutoSync(p)
      BY <2>1, <3>1, QuietFacts DEF AutoSync, Others
    <3> QED BY <3>1, <3>2, <3>3 DEF Sync
  <2> QED BY <1>1, <2>1 DEF InGc, GcPcs
<1>3. writer = p => stored \subseteq view
  BY <1>1 DEF GcInv, BatchInv
<1>4. WholeInv'
  BY <1>1 DEF GcInv, WholeInv, Closed, Registered
<1>5. BatchInv'
  BY <1>1, GcAssumption DEF GcInv, BatchInv, Registered
<1>6. IngestInv'
  BY <1>1, <1>3, GcAssumption DEF GcInv, IngestInv
<1>7. TouchInv'
  BY <1>1, KeyFacts DEF GcInv, TouchInv, BatchInv, Registered
<1>8. AloneInv'
  <2>1. \A q \in Procs : InGc(q) => writer' = NoProc /\ \A r \in Procs : r # q => pc'[r] \notin IngestPcs
    BY <1>1, <1>2, PassFacts DEF IngestPcs
  <2> QED BY <1>1, <1>2, <2>1 DEF GcInv, AloneInv, InGc, Others
<1>9. WalkInv'
  BY <1>1, <1>2 DEF GcInv, WalkInv, GcPcs
<1> QED BY <1>4, <1>5, <1>6, <1>7, <1>8, <1>9

-----------------------------------------------------------------------------
(* Touches, deaths and the clock.                                          *)

LEMMA FlushKeeps ==
  ASSUME GcInv, NEW p \in Procs, Flush(p)
  PROVE  (WholeInv /\ BatchInv /\ IngestInv /\ TouchInv /\ AloneInv /\ WalkInv)'
<1>1. /\ UNCHANGED <<stored, writer, view, meta, vmeta, rotten, clock, job, done, gc>>
      /\ \A q \in Procs : q # p => pc'[q] = pc[q] /\ touch'[q] = touch[q] /\ flush'[q] = flush[q]
      /\ \/ pc[p] = "sync" /\ pc'[p] = "syncing"
         \/ pc[p] = "gc" /\ pc'[p] = "flushing"
         \/ pc[p] = "close" /\ pc'[p] = "closing"
      /\ flush'[p] = touch[p] /\ touch'[p] = NoStamps
  BY DEF Flush, Goto, cas, tables, ingest, GcInv, TypeOK
<1>2. WholeInv' /\ IngestInv'
  BY <1>1 DEF GcInv, WholeInv, Closed, Registered, IngestInv
<1>3. BatchInv'
  <2>0. writer = p => pc[p] # "gc"
    BY DEF GcInv, BatchInv, IngestPcs
  <2>1. \A q \in Procs : writer = q =>
          pc'[q] = pc[q] \/ (pc'[q] \in {"syncing", "closing"} /\ pc[q] # "switch")
    BY <1>1, <2>0
  <2> QED BY <1>1, <2>1 DEF GcInv, BatchInv, Registered, IngestPcs
<1>4. TouchInv'
  <2>1. \A k \in Keys : touch'[p][k] = 0
    BY <1>1 DEF NoStamps
  <2> QED BY <1>1, <2>1 DEF GcInv, TouchInv
<1>5. AloneInv'
  BY <1>1 DEF GcInv, AloneInv, InGc, GcPcs, IngestPcs, Others
<1>6. WalkInv'
  BY <1>1 DEF GcInv, WalkInv, Stacked, Registered
<1> QED BY <1>2, <1>3, <1>4, <1>5, <1>6

(* The root is still registered, so a touch makes none whole that is not.  *)
LEMMA FlushOneKeeps ==
  ASSUME GcInv, NEW p \in Procs, NEW k \in Keys, FlushOne(p, k)
  PROVE  (WholeInv /\ BatchInv /\ IngestInv /\ TouchInv /\ AloneInv /\ WalkInv)'
<1>1. k \in Jobs /\ k # LastGc /\ meta[k] # 0 /\ flush[p][k] # 0
  BY KeyFacts DEF FlushOne, GcInv, TouchInv
<1>2. \A q \in Procs : ~InGc(q)
  BY <1>1, PassFacts
<1>3. /\ UNCHANGED <<stored, writer, view, rotten, clock, pc, job, done, touch, gc>>
      /\ flush' = [flush EXCEPT ![p][k] = 0]
  BY DEF FlushOne, cas, ingest
<1>4. /\ \A x \in Keys : vmeta'[x] = IF x = k THEN flush[p][k] ELSE vmeta[x]
      /\ \A x \in Keys : meta'[x] = meta[x] \/ (x = k /\ meta'[x] = flush[p][k])
      /\ writer # NoProc => meta' = meta
      /\ writer = NoProc => vmeta' = meta'
  BY MetaSetFacts DEF FlushOne
<1>5. k \in Registered(meta) /\ k \in Registered(vmeta)
  BY <1>1 DEF Registered, GcInv, BatchInv
<1>6. Registered(meta)' = Registered(meta) /\ Registered(vmeta)' = Registered(vmeta)
  BY <1>1, <1>4, <1>5 DEF Registered
<1>7. WholeInv'
  BY <1>3, <1>6 DEF GcInv, WholeInv, Closed
<1>8. BatchInv'
  <2>1. \A q \in Procs : pc[q] # "sweep"
    BY <1>2 DEF InGc, GcPcs
  <2>2. \A x \in Registered(meta)' : vmeta'[x] # 0
    BY <1>1, <1>4, <1>6 DEF GcInv, BatchInv, Registered
  <2> QED BY <1>3, <1>4, <2>1, <2>2 DEF GcInv, BatchInv
<1>9. IngestInv'
  BY <1>3 DEF GcInv, IngestInv
<1>10. TouchInv'
  <2>1. ASSUME NEW q \in Procs, NEW x \in Keys
        PROVE  flush'[q][x] = flush[q][x] \/ flush'[q][x] = 0
    BY <1>3 DEF GcInv, TypeOK
  <2>2. ASSUME NEW x \in Keys, meta[x] # 0 PROVE meta'[x] # 0
    BY <1>1, <1>4, <2>2
  <2> QED BY <1>3, <2>1, <2>2 DEF GcInv, TouchInv
<1>11. AloneInv' /\ WalkInv'
  BY <1>2, <1>3 DEF AloneInv, WalkInv, InGc, GcPcs
<1> QED BY <1>7, <1>8, <1>9, <1>10, <1>11

LEMMA GoneKeeps ==
  ASSUME GcInv, NEW p \in Procs, Destroy(p) \/ Kill(p)
  PROVE  (WholeInv /\ BatchInv /\ IngestInv /\ TouchInv /\ AloneInv /\ WalkInv)'
<1>1. /\ UNCHANGED <<stored, meta, rotten, clock>>
      /\ \/ writer = p /\ writer' = NoProc /\ view' = stored /\ vmeta' = meta
         \/ writer # p /\ UNCHANGED <<writer, view, vmeta>>
      /\ \A q \in Procs : q # p => /\ pc'[q] = pc[q] /\ job'[q] = job[q] /\ done'[q] = done[q]
                                   /\ touch'[q] = touch[q] /\ flush'[q] = flush[q] /\ gc'[q] = gc[q]
      /\ pc'[p] = "closed" /\ touch'[p] = NoStamps /\ flush'[p] = NoStamps
  BY DEF Destroy, Kill, Gone, Exit, Cas!Exit, SetGc, Goto, GcInv, TypeOK
<1>2. WholeInv'
  BY <1>1 DEF GcInv, WholeInv, Closed, Registered
<1>3. BatchInv'
  BY <1>1, GcAssumption DEF GcInv, BatchInv, Registered
<1>4. IngestInv'
  BY <1>1, GcAssumption DEF GcInv, IngestInv
<1>5. TouchInv'
  <2>1. \A k \in Keys : touch'[p][k] = 0 /\ flush'[p][k] = 0
    BY <1>1 DEF NoStamps
  <2> QED BY <1>1, <2>1 DEF GcInv, TouchInv
<1>6. AloneInv'
  BY <1>1, GcAssumption DEF GcInv, AloneInv, InGc, GcPcs, IngestPcs, Others
<1>7. WalkInv'
  BY <1>1 DEF GcInv, WalkInv, Stacked, Registered
<1> QED BY <1>2, <1>3, <1>4, <1>5, <1>6, <1>7

LEMMA TouchKeeps ==
  ASSUME QuietPasses, GcInv, NEW p \in Procs, NEW k \in Jobs, Touch(p, k)
  PROVE  (WholeInv /\ BatchInv /\ IngestInv /\ TouchInv /\ AloneInv /\ WalkInv)'
<1>1. /\ UNCHANGED <<stored, writer, view, meta, vmeta, rotten, clock, pc, job, done, flush, gc>>
      /\ \A q \in Procs : ~InGc(q)
  BY QuietFacts DEF Touch, cas, tables, ingest
<1>2. WholeInv' /\ BatchInv' /\ IngestInv' /\ WalkInv'
  BY <1>1 DEF GcInv, WholeInv, Closed, Registered, BatchInv, IngestInv, WalkInv, Stacked
<1>3. AloneInv'
  BY <1>1 DEF AloneInv, InGc
<1>4. TouchInv'
  <2>1. meta[k] # 0 /\ k \in Keys
    BY KeyFacts DEF Touch
  <2>2. ASSUME NEW q \in Procs, NEW x \in Keys
        PROVE  touch'[q][x] = touch[q][x] \/ x = k
    BY <2>1 DEF Touch, GcInv, TypeOK
  <2> QED BY <1>1, <2>1, <2>2 DEF GcInv, TouchInv
<1> QED BY <1>2, <1>3, <1>4

LEMMA TickKeeps ==
  ASSUME GcInv, Tick \/ UNCHANGED vars
  PROVE  (WholeInv /\ BatchInv /\ IngestInv /\ TouchInv /\ AloneInv /\ WalkInv)'
<1>1. /\ UNCHANGED <<stored, writer, view, meta, vmeta, rotten, pc, job, done, touch, flush, gc>>
      /\ clock' \in {clock, clock + 1} /\ clock \in Nat
  BY GcAssumption DEF Tick, vars, cas, tables, ingest, touches, GcInv, TypeOK, Stamps
<1>2. WholeInv' /\ IngestInv' /\ TouchInv' /\ WalkInv'
  BY <1>1 DEF GcInv, WholeInv, Closed, Registered, IngestInv, TouchInv, WalkInv, Stacked
<1>3. BatchInv'
  <2>1. clock' # 0
    BY <1>1 DEF GcInv, BatchInv
  <2> QED BY <1>1, <2>1 DEF GcInv, BatchInv, Registered
<1>4. AloneInv'
  BY <1>1 DEF GcInv, AloneInv, InGc
<1> QED BY <1>2, <1>3, <1>4

-----------------------------------------------------------------------------
(* A pass.                                                                 *)

LEMMA GcNowKeeps ==
  ASSUME QuietPasses, GcInv, NEW p \in Procs, GcNow(p)
  PROVE  (WholeInv /\ BatchInv /\ IngestInv /\ TouchInv /\ AloneInv /\ WalkInv)'
<1>1. /\ UNCHANGED <<stored, writer, view, meta, vmeta, rotten, clock, job, done, touch, flush>>
      /\ \A q \in Procs : q # p => pc'[q] = pc[q] /\ gc'[q] = gc[q]
      /\ pc[p] = "flushing" /\ pc'[p] = "check"
      /\ gc'[p].live = {} /\ gc'[p].broken = {} /\ gc'[p].stack = <<>>
  BY DEF GcNow, SetGc, NoGc, Goto, cas, tables, ingest, touches, GcInv, TypeOK
<1>2. /\ \A q \in Procs : touch[q] = NoStamps /\ flush[q] = NoStamps
      /\ \A q \in Procs : q # p => pc[q] \notin GcPcs /\ (pc[q] \in IngestPcs => writer = q)
  BY QuietFacts DEF GcNow, MayBegin, Others, GcPcs, IngestPcs
<1>3. WholeInv' /\ TouchInv'
  BY <1>1 DEF GcInv, WholeInv, Closed, Registered, TouchInv
<1>4. BatchInv'
  <2>1. writer # p
    BY <1>1 DEF GcInv, BatchInv, IngestPcs
  <2> QED BY <1>1, <2>1 DEF GcInv, BatchInv, Registered
<1>5. IngestInv'
  BY <1>1 DEF GcInv, IngestInv
<1>6. AloneInv'
  BY <1>1, <1>2 DEF AloneInv, InGc, Others, GcPcs, IngestPcs
<1>7. WalkInv'
  BY <1>1, <1>2 DEF WalkInv, GcPcs
<1> QED BY <1>3, <1>4, <1>5, <1>6, <1>7

(* What holds of a step of a pass that moves only the pass itself.         *)
LEMMA PassMoves ==
  ASSUME GcInv, NEW p \in Procs,
         pc[p] \in GcPcs \ {"sweep", "switch"},
         pc'[p] \in (GcPcs \ {"sweep", "switch"}) \cup {"idle"},
         pc[p] \in {"check", "stamp"} => pc'[p] \in {"check", "stamp", "idle"},
         UNCHANGED <<stored, writer, view, meta, vmeta, rotten, clock, job, done, touch, flush>>,
         \A q \in Procs : q # p => pc'[q] = pc[q]
  PROVE  /\ (WholeInv /\ BatchInv /\ IngestInv /\ TouchInv /\ AloneInv)'
         /\ \A q \in Procs : q # p => pc'[q] \notin GcPcs
         /\ Meta(p) = meta
<1>1. InGc(p) /\ writer # p
  BY PassFacts DEF InGc
<1>2. \A q \in Procs : q # p => pc'[q] \notin GcPcs
  BY <1>1, PassFacts DEF InGc
<1>3. WholeInv' /\ TouchInv'
  BY DEF GcInv, WholeInv, Closed, Registered, TouchInv
<1>4. BatchInv'
  BY <1>1 DEF GcInv, BatchInv, Registered
<1>5. IngestInv'
  BY DEF GcInv, IngestInv, GcPcs
<1>6. AloneInv'
  BY <1>1, <1>2 DEF GcInv, AloneInv, InGc, Others, GcPcs, IngestPcs
<1> QED BY <1>1, <1>2, <1>3, <1>4, <1>5, <1>6 DEF Meta

LEMMA CheckKeeps ==
  ASSUME GcInv, NEW p \in Procs,
         \/ GcCheck(p) \/ GcExpired(p) \/ Marked(p) \/ GcBlobs(p)
         \/ \E kind \in {"R", "B"} : GcExpire(p, kind)
  PROVE  (WholeInv /\ BatchInv /\ IngestInv /\ TouchInv /\ AloneInv /\ WalkInv)'
<1>0. gc[p] \in GcLocals /\ gc \in [Procs -> GcLocals] /\ pc \in [Procs -> Pcs]
  BY DEF GcInv, TypeOK
<1> DEFINE Moves == /\ pc[p] \in GcPcs \ {"sweep", "switch"}
                    /\ pc'[p] \in (GcPcs \ {"sweep", "switch"}) \cup {"idle"}
                    /\ pc[p] \in {"check", "stamp"} => pc'[p] \in {"check", "stamp", "idle"}
                    /\ UNCHANGED <<stored, writer, view, meta, vmeta, rotten, clock, job, done,
                                   touch, flush>>
                    /\ \A q \in Procs : q # p => pc'[q] = pc[q] /\ gc'[q] = gc[q]
           Kept == (WholeInv /\ BatchInv /\ IngestInv /\ TouchInv /\ AloneInv)'
           Only == (\A q \in Procs : q # p => pc'[q] \notin GcPcs) /\ Meta(p) = meta
<1> USE DEF Goto, SetGc, cas, tables, ingest, touches
<1>a. Moves => Kept /\ Only
  BY PassMoves
<1>1. ASSUME GcCheck(p) PROVE Kept /\ WalkInv'
  <2>1. Moves
    BY <1>0, <1>1 DEF GcCheck, GcPcs
  <2>2. WalkInv'
    BY <1>0, <1>1, <1>a, <2>1 DEF GcCheck, GcInv, WalkInv, GcPcs
  <2> QED BY <1>a, <2>1, <2>2
<1>2. ASSUME NEW kind \in {"R", "B"}, GcExpire(p, kind) PROVE Kept /\ WalkInv'
  <2>1. Moves
    BY <1>0, <1>2 DEF GcExpire, GcPcs
  <2>k. PICK K : K = {k \in KeysOf(kind) :
                       Meta(p)[k] # 0 /\ Since(gc[p].now, Meta(p)[k]) >= Ttl}
    OBVIOUS
  <2>2. PICK g : /\ g = [gc[p] EXCEPT !.kinds = @ \ {kind}, !.any = @ \/ K # {}, !.expired = K]
                 /\ gc' = [gc EXCEPT ![p] = g] /\ K \subseteq KeysOf(kind)
    BY <1>2, <2>k DEF GcExpire
  <2>g. g.expired = K /\ g.live = gc[p].live /\ g.broken = gc[p].broken /\ g.stack = gc[p].stack
    BY <1>0, <2>2 DEF GcLocals
  <2>3. /\ gc'[p].expired \subseteq RootKeys \cup BlobKeys /\ gc'[p].live = gc[p].live
        /\ gc'[p].broken = gc[p].broken /\ gc'[p].stack = gc[p].stack
        /\ pc[p] = "expire" /\ pc'[p] = "delete"
    BY <1>0, <1>2, <2>2, <2>g DEF KeysOf, GcExpire
  <2>4. WalkInv'
    BY <1>a, <2>1, <2>3 DEF GcInv, WalkInv, GcPcs
  <2> QED BY <1>a, <2>1, <2>4
<1>3. ASSUME GcExpired(p) PROVE Kept /\ WalkInv'
  <2>1. Moves
    BY <1>0, <1>3 DEF GcExpired, GcPcs
  <2>2. CASE pc'[p] # "mark"
    BY <1>0, <1>3, <1>a, <2>1, <2>2 DEF GcExpired, GcInv, WalkInv, GcPcs
  <2>3. CASE pc'[p] = "mark"
    <3>k. PICK K : K = {k \in RootKeys : Meta(p)[k] # 0}
      OBVIOUS
    <3>m. K = {k \in RootKeys : meta[k] # 0}
      BY <1>a, <2>1, <3>k
    <3>1. gc' = [gc EXCEPT ![p] = [gc[p] EXCEPT !.todo = K]]
      BY <1>0, <1>3, <2>3, <3>k DEF GcExpired
    <3>2. gc'[p].todo = K /\ gc'[p].live = {} /\ gc'[p].broken = {} /\ gc'[p].stack = <<>>
      BY <1>0, <1>3, <3>1 DEF GcExpired, GcInv, WalkInv, GcLocals
    <3>3. Elems(<<>>) = {}
      BY DEF Elems
    <3>4. K = Registered(meta) \cap RootKeys
      BY <3>m, KeyFacts DEF Registered, Keys
    <3>5. Stacked(p)' = {}
      BY <3>2, <3>3 DEF Stacked
    <3>6. Registered(meta)' = Registered(meta)
      BY <2>1 DEF Registered
    <3> QED BY <1>a, <2>1, <2>3, <3>2, <3>4, <3>5, <3>6 DEF WalkInv, GcPcs
  <2> QED BY <1>a, <2>1, <2>2, <2>3
<1>4. ASSUME Marked(p) PROVE Kept /\ WalkInv'
  <2>1. Moves
    BY <1>0, <1>4 DEF Marked, GcPcs
  <2>2. /\ pc[p] = "mark" /\ gc[p].stack = <<>> /\ gc[p].todo = {} /\ pc'[p] = "unroot"
        /\ gc' = gc /\ Stacked(p) = {}
    BY <1>0, <1>4 DEF Marked, Stacked, Elems
  <2>3. Closed(gc[p].live) /\ \A k \in Registered(meta) \cap RootKeys : k[2] \in gc[p].live
    BY <2>2 DEF Closed, GcInv, WalkInv
  <2>4. Registered(meta)' = Registered(meta)
    BY <2>1 DEF Registered
  <2>5. WalkInv'
    BY <1>a, <2>1, <2>2, <2>3, <2>4 DEF GcInv, WalkInv, GcPcs
  <2> QED BY <1>a, <2>1, <2>5
<1>5. ASSUME GcBlobs(p) PROVE Kept /\ WalkInv'
  <2>1. Moves
    BY <1>0, <1>5 DEF GcBlobs, GcPcs
  <2>2. PICK L : /\ L = {k[2] : k \in {b \in BlobKeys : meta[b] # 0}}
                 /\ gc' = [gc EXCEPT ![p] = [gc[p] EXCEPT !.live = @ \cup L]]
    BY <1>5, <1>a, <2>1 DEF GcBlobs
  <2>3. /\ pc[p] = "unroot" /\ pc'[p] = "compact"
        /\ gc'[p].live = gc[p].live \cup L /\ gc'[p].broken = {}
    BY <1>0, <1>5, <2>2 DEF GcBlobs, GcLocals
  <2>4. \A x \in L : \E k \in Registered(meta) \cap BlobKeys : x = k[2]
    BY <2>2, KeyFacts DEF Registered, Keys
  <2>5. L \subseteq stored /\ L \cap Trees = {}
    BY <2>4, GcAssumption DEF GcInv, WholeInv
  <2>6. Closed(gc'[p].live)
    BY <2>3, <2>5 DEF Closed, GcInv, WalkInv
  <2>7. \A k \in Registered(meta) : k[2] \in gc'[p].live
    BY <2>2, <2>3, KeyFacts DEF Registered, Keys, GcInv, WalkInv
  <2>8. Registered(meta)' = Registered(meta)
    BY <2>1 DEF Registered
  <2>9. WalkInv'
    BY <1>a, <2>1, <2>3, <2>5, <2>6, <2>7, <2>8 DEF GcInv, WalkInv, GcPcs
  <2> QED BY <1>a, <2>1, <2>9
<1> QED BY <1>1, <1>2, <1>3, <1>4, <1>5

(* A pass writes its stamp and its deletions each in a transaction of its  *)
(* own, for which no batch may be open.                                    *)
LEMMA StampKeeps ==
  ASSUME GcInv, NEW p \in Procs, GcStamp(p) \/ \E k \in Keys : GcDelete(p, k) \/ GcUnroot(p, k)
  PROVE  (WholeInv /\ BatchInv /\ IngestInv /\ TouchInv /\ AloneInv /\ WalkInv)'
<1>0. gc[p] \in GcLocals /\ gc \in [Procs -> GcLocals] /\ pc \in [Procs -> Pcs]
  BY DEF GcInv, TypeOK
<1>1. PICK k \in Keys, s \in Stamps :
        /\ MetaSet(p, k, s)
        /\ UNCHANGED <<stored, writer, view, rotten, clock, job, done, touch, flush>>
        /\ \A q \in Procs : q # p => pc'[q] = pc[q] /\ gc'[q] = gc[q]
        /\ \/ k = LastGc /\ pc[p] = "stamp" /\ pc'[p] = "expire"
           \/ s = 0 /\ pc[p] = "delete" /\ pc'[p] = "delete" /\ k \in gc[p].expired
        /\ gc'[p].live = gc[p].live /\ gc'[p].broken = gc[p].broken /\ gc'[p].stack = gc[p].stack
        /\ gc'[p].expired \subseteq gc[p].expired
  <2>1. ASSUME NEW k \in Keys PROVE ~GcUnroot(p, k)
    BY DEF GcUnroot, GcInv, WalkInv
  <2>2. CASE GcStamp(p)
    <3>1. PICK g : g = [gc[p] EXCEPT !.kinds = {"R", "B"}] /\ gc' = [gc EXCEPT ![p] = g]
      BY <2>2 DEF GcStamp, SetGc
    <3>2. g.live = gc[p].live /\ g.broken = gc[p].broken /\ g.stack = gc[p].stack
          /\ g.expired = gc[p].expired
      BY <1>0, <3>1 DEF GcLocals
    <3>3. LastGc \in Keys /\ gc[p].now \in Stamps
      BY <1>0 DEF Keys, GcLocals
    <3> QED BY <1>0, <2>2, <3>1, <3>2, <3>3 DEF GcStamp, Goto, cas, ingest, touches
  <2>3. ASSUME NEW k \in Keys, GcDelete(p, k)
        PROVE  /\ MetaSet(p, k, 0)
               /\ UNCHANGED <<stored, writer, view, rotten, clock, job, done, touch, flush, pc>>
               /\ \A q \in Procs : q # p => gc'[q] = gc[q]
               /\ pc[p] = "delete" /\ k \in gc[p].expired
               /\ gc'[p].live = gc[p].live /\ gc'[p].broken = gc[p].broken
               /\ gc'[p].stack = gc[p].stack /\ gc'[p].expired \subseteq gc[p].expired
    <3>1. PICK g : g = [gc[p] EXCEPT !.expired = @ \ {k}] /\ gc' = [gc EXCEPT ![p] = g]
      BY <2>3 DEF GcDelete, SetGc
    <3>2. g.live = gc[p].live /\ g.broken = gc[p].broken /\ g.stack = gc[p].stack
          /\ g.expired \subseteq gc[p].expired
      BY <1>0, <3>1 DEF GcLocals
    <3> QED BY <1>0, <2>3, <3>1, <3>2 DEF GcDelete, cas, ingest, touches
  <2>4. 0 \in Stamps
    BY GcAssumption DEF Stamps
  <2> QED BY <2>1, <2>2, <2>3, <2>4
<1>2. InGc(p) /\ writer = NoProc
  <2>1. InGc(p) /\ pc[p] \notin {"sweep", "switch"}
    BY <1>1 DEF InGc, GcPcs
  <2> QED BY <1>1, <2>1, PassFacts DEF MetaSet
<1>3. /\ \A x \in Keys : meta'[x] = meta[x] \/ (x = k /\ meta'[x] = s)
      /\ vmeta' = meta' /\ vmeta = meta /\ view = stored
  BY <1>1, <1>2, MetaSetFacts DEF GcInv, BatchInv
<1>4. Registered(meta)' \subseteq Registered(meta) /\ Registered(vmeta)' = Registered(meta)'
  BY <1>1, <1>3 DEF Registered
<1>5. WholeInv'
  BY <1>1, <1>3, <1>4 DEF GcInv, WholeInv, Closed
<1>6. BatchInv'
  <2>1. \A q \in Procs : writer' # q
    BY <1>1, <1>2, GcAssumption
  <2> QED BY <1>1, <1>2, <1>3, <2>1 DEF GcInv, BatchInv, Registered
<1>7. IngestInv'
  <2>1. pc'[p] # "ingest"
    BY <1>1
  <2> QED BY <1>1, <2>1 DEF GcInv, IngestInv
<1>8. TouchInv'
  BY <1>1, <1>2, PassFacts DEF TouchInv
<1>9. \A q \in Procs : q # p => pc'[q] \notin GcPcs /\ pc'[q] \notin IngestPcs
  BY <1>1, <1>2, PassFacts, GcAssumption DEF InGc
<1>10. AloneInv'
  BY <1>1, <1>2, <1>9 DEF GcInv, AloneInv, InGc, Others
<1>11. WalkInv'
  BY <1>1, <1>9 DEF GcInv, WalkInv, GcPcs
<1> QED BY <1>5, <1>6, <1>7, <1>8, <1>10, <1>11

LEMMA MarkRootKeeps ==
  ASSUME GcInv, NEW p \in Procs, NEW k \in RootKeys, MarkRoot(p, k)
  PROVE  (WholeInv /\ BatchInv /\ IngestInv /\ TouchInv /\ AloneInv /\ WalkInv)'
<1>0. gc[p] \in GcLocals /\ gc \in [Procs -> GcLocals]
  BY DEF GcInv, TypeOK
<1>1. PICK stack, g :
        /\ stack = IF k[2] \in gc[p].live THEN <<>> ELSE <<k[2]>>
        /\ g = [gc[p] EXCEPT !.todo = @ \ {k}, !.at = k, !.live = @ \cup {k[2]}, !.stack = stack]
        /\ gc' = [gc EXCEPT ![p] = g]
  BY DEF MarkRoot, SetGc
<1>2. /\ pc[p] = "mark" /\ gc[p].stack = <<>> /\ k \in gc[p].todo
      /\ UNCHANGED <<stored, writer, view, meta, vmeta, rotten, clock, pc, job, done, touch, flush>>
  BY DEF MarkRoot, cas, tables, ingest, touches
<1>3. /\ g.todo = gc[p].todo \ {k} /\ g.live = gc[p].live \cup {k[2]} /\ g.stack = stack
      /\ g.broken = gc[p].broken
  BY <1>0, <1>1 DEF GcLocals
<1>4. gc'[p] = g
  BY <1>0, <1>1
<1>5. /\ (WholeInv /\ BatchInv /\ IngestInv /\ TouchInv /\ AloneInv)'
      /\ \A q \in Procs : q # p => pc'[q] \notin GcPcs
  BY <1>2, PassMoves DEF GcPcs
<1>6. /\ Elems(stack) = IF k[2] \in gc[p].live THEN {} ELSE {k[2]}
      /\ Stacked(p) = {}
  BY <1>1, <1>2 DEF Elems, Stacked
<1>7. k \in Registered(meta) /\ k[2] \in stored
  BY <1>2 DEF GcInv, WalkInv, WholeInv
<1>8. /\ g.live \subseteq stored /\ g.broken = {} /\ g.todo \subseteq Registered(meta)
      /\ Elems(g.stack) \subseteq g.live
      /\ \A x \in Registered(meta) \cap RootKeys : x \in g.todo \/ x[2] \in g.live
      /\ \A t \in g.live \cap Trees : t \in Elems(g.stack) \/ Children[t] \subseteq g.live
  BY <1>2, <1>3, <1>6, <1>7 DEF GcInv, WalkInv
<1>9. Registered(meta)' = Registered(meta) /\ Stacked(p)' = Elems(g.stack)
  BY <1>2, <1>4 DEF Registered, Stacked
<1>10. WalkInv'
  BY <1>2, <1>4, <1>5, <1>8, <1>9 DEF WalkInv, GcPcs
<1> QED BY <1>5, <1>10

(* The tree on top of the stack can be read, and what it names is there.   *)
LEMMA MarkTreeKeeps ==
  ASSUME QuietPasses, GcInv, NEW p \in Procs, MarkTree(p)
  PROVE  (WholeInv /\ BatchInv /\ IngestInv /\ TouchInv /\ AloneInv /\ WalkInv)'
<1>0. gc[p] \in GcLocals /\ gc \in [Procs -> GcLocals]
  BY DEF GcInv, TypeOK
<1>1. /\ pc[p] = "mark" /\ gc[p].stack \in Seq(Trees) /\ gc[p].stack # <<>>
      /\ UNCHANGED <<stored, writer, view, meta, vmeta, rotten, clock, pc, job, done, touch, flush>>
  BY <1>0 DEF MarkTree, GcLocals, cas, tables, ingest, touches
<1>2. PICK t, rest, new :
        /\ t = gc[p].stack[Len(gc[p].stack)]
        /\ rest = SubSeq(gc[p].stack, 1, Len(gc[p].stack) - 1)
        /\ new = Children[t] \ gc[p].live
  OBVIOUS
<1>3. t \in Trees /\ rest \in Seq(Trees) /\ Stacked(p) = Elems(rest) \cup {t}
  BY <1>1, <1>2, PopElems DEF Stacked
<1>4. t \in gc[p].live /\ t \in stored \ rotten /\ new \subseteq stored
  BY <1>1, <1>2, <1>3, QuietFacts DEF GcInv, WalkInv, WholeInv, Closed, BatchInv
<1>5. PICK s \in Orderings(new \cap Trees) :
        gc' = [gc EXCEPT ![p] = [gc[p] EXCEPT !.live = @ \cup new, !.stack = rest \o s]]
  BY <1>2, <1>4 DEF MarkTree, SetGc
<1>6. PICK g, stack : /\ stack = rest \o s
                      /\ g = [gc[p] EXCEPT !.live = @ \cup new, !.stack = stack]
                      /\ gc' = [gc EXCEPT ![p] = g]
  BY <1>5
<1>7. Elems(stack) = Elems(rest) \cup (new \cap Trees)
  BY <1>3, <1>6, OrderElems, ConcatElems
<1>8. g.live = gc[p].live \cup new /\ g.stack = stack /\ g.broken = gc[p].broken /\ g.todo = gc[p].todo
  BY <1>0, <1>6 DEF GcLocals
<1>9. gc'[p] = g
  BY <1>0, <1>6
<1>10. /\ (WholeInv /\ BatchInv /\ IngestInv /\ TouchInv /\ AloneInv)'
       /\ \A q \in Procs : q # p => pc'[q] \notin GcPcs
  BY <1>1, PassMoves DEF GcPcs
<1>11. /\ g.live \subseteq stored /\ g.broken = {} /\ g.todo \subseteq Registered(meta)
       /\ Elems(g.stack) \subseteq g.live
       /\ \A x \in Registered(meta) \cap RootKeys : x \in g.todo \/ x[2] \in g.live
  BY <1>1, <1>3, <1>4, <1>7, <1>8 DEF GcInv, WalkInv
<1>12. ASSUME NEW x \in g.live \cap Trees
       PROVE  x \in Elems(g.stack) \/ Children[x] \subseteq g.live
  <2>1. CASE x \in new
    BY <1>7, <1>8, <2>1
  <2>2. CASE x = t
    BY <1>2, <1>8, <2>2
  <2>3. CASE x \in gc[p].live /\ x # t
    <3>1. x \in Stacked(p) \/ Children[x] \subseteq gc[p].live
      BY <1>1, <2>3 DEF GcInv, WalkInv
    <3> QED BY <1>3, <1>7, <1>8, <2>3, <3>1
  <2> QED BY <1>8, <2>1, <2>2, <2>3
<1>13. Registered(meta)' = Registered(meta) /\ Stacked(p)' = Elems(g.stack)
  BY <1>1, <1>9 DEF Registered, Stacked
<1>14. WalkInv'
  BY <1>1, <1>9, <1>10, <1>11, <1>12, <1>13 DEF WalkInv, GcPcs
<1> QED BY <1>10, <1>14

(* Compaction keeps the objects that were marked, which are all of those   *)
(* that a root needs.                                                      *)
LEMMA CompactKeeps ==
  ASSUME GcInv, NEW p \in Procs, GcCompact(p) \/ GcSweep(p) \/ GcSwitch(p)
  PROVE  (WholeInv /\ BatchInv /\ IngestInv /\ TouchInv /\ AloneInv /\ WalkInv)'
<1>0. gc \in [Procs -> GcLocals] /\ pc \in [Procs -> Pcs]
  BY DEF GcInv, TypeOK
<1>1. pc[p] \in {"compact", "sweep", "switch"} /\ InGc(p)
  BY DEF GcCompact, GcSweep, GcSwitch, InGc, GcPcs
<1>2. /\ UNCHANGED <<rotten, clock, job, done, touch, flush>>
      /\ \A q \in Procs : q # p => pc'[q] = pc[q] /\ gc'[q] = gc[q]
  BY <1>0 DEF GcCompact, GcSweep, GcSwitch, Goto, SetGc, ingest, touches
<1>3. /\ \A q \in Procs : q # p => pc'[q] \notin GcPcs /\ pc'[q] \notin IngestPcs
      /\ writer \in {p, NoProc}
  BY <1>1, <1>2, PassFacts, GcAssumption DEF InGc
<1>4. TouchInv'
  BY <1>1, <1>2, PassFacts DEF TouchInv
<1>5. pc'[p] \in {"sweep", "switch", "idle"}
  BY <1>0 DEF GcCompact, GcSweep, GcSwitch, Goto
<1>6. IngestInv'
  BY <1>3, <1>5 DEF IngestInv, IngestPcs
<1>7. AloneInv'
  <2>1. writer' \in {p, NoProc}
    BY <1>3 DEF GcCompact, GcSweep, GcSwitch, Commit, Cas!Begin, Cas!Collect, Cas!Publish
  <2> QED BY <1>1, <1>2, <1>3, <2>1, <1>5 DEF GcInv, AloneInv, InGc, Others, IngestPcs
<1>8. CASE GcCompact(p)
  <2>1. /\ UNCHANGED <<stored, view, meta, vmeta, gc>> /\ writer = NoProc /\ writer' = p
        /\ pc[p] = "compact" /\ pc'[p] = "sweep"
    BY <1>0, <1>8 DEF GcCompact, Cas!Begin, Goto, tables
  <2>2. WholeInv'
    BY <2>1 DEF GcInv, WholeInv, Closed, Registered
  <2>3. BatchInv'
    BY <1>2, <2>1, GcAssumption DEF GcInv, BatchInv, Registered
  <2>4. WalkInv'
    BY <1>3, <2>1 DEF GcInv, WalkInv, GcPcs, Registered
  <2> QED BY <1>4, <1>6, <1>7, <2>2, <2>3, <2>4
<1>9. CASE GcSweep(p)
  <2>1. /\ UNCHANGED <<stored, meta, vmeta, gc, writer>> /\ writer = p
        /\ view' = stored \cap gc[p].live /\ pc[p] = "sweep" /\ pc'[p] = "switch"
        /\ vmeta = meta
    BY <1>0, <1>9 DEF GcSweep, Cas!Collect, Goto, tables, GcInv, BatchInv
  <2>2. /\ view' = gc[p].live /\ Closed(gc[p].live)
        /\ \A k \in Registered(meta) : k[2] \in gc[p].live
    BY <2>1 DEF GcInv, WalkInv
  <2>3. WholeInv'
    BY <2>1, <2>2 DEF GcInv, WholeInv, Closed, Registered
  <2>4. BatchInv'
    BY <1>2, <2>1, GcAssumption DEF GcInv, BatchInv, Registered
  <2>5. WalkInv'
    BY <1>3, <2>1 DEF GcInv, WalkInv, GcPcs
  <2> QED BY <1>4, <1>6, <1>7, <2>3, <2>4, <2>5
<1>10. CASE GcSwitch(p)
  <2>1. /\ writer = p /\ writer' = NoProc /\ stored' = view /\ meta' = vmeta
        /\ UNCHANGED <<view, vmeta>> /\ pc'[p] = "idle"
    BY <1>0, <1>10 DEF GcSwitch, Commit, Cas!Publish, Goto
  <2>2. WholeInv'
    BY <2>1 DEF GcInv, WholeInv, Closed, Registered
  <2>3. BatchInv'
    BY <1>2, <2>1, GcAssumption DEF GcInv, BatchInv, Registered
  <2>4. WalkInv'
    BY <1>3, <2>1 DEF WalkInv, GcPcs
  <2> QED BY <1>4, <1>6, <1>7, <2>2, <2>3, <2>4
<1> QED BY <1>8, <1>9, <1>10

LEMMA NextKeeps ==
  ASSUME QuietPasses, GcInv, [Next]_vars
  PROVE  GcInv'
<1> DEFINE Kept == (WholeInv /\ BatchInv /\ IngestInv /\ TouchInv /\ AloneInv /\ WalkInv)'
<1>1. TypeOK'
  BY NextType DEF GcInv
<1>2. ASSUME NEW p \in Procs, Writes(p) PROVE Kept
  BY <1>2, OpenKeeps, PutKeeps, CommitKeeps, RegisterKeeps, FlushKeeps, FlushOneKeeps, GoneKeeps
     DEF Writes
<1>3. ASSUME NEW p \in Procs, Collects(p) PROVE Kept
  BY <1>3, GcNowKeeps, CheckKeeps, StampKeeps, MarkRootKeeps, MarkTreeKeeps, CompactKeeps
     DEF Collects
<1>4. ASSUME NEW p \in Procs, Kill(p) PROVE Kept
  BY <1>4, GoneKeeps
<1>5. ASSUME NEW p \in Procs, NEW k \in Jobs, Touch(p, k) PROVE Kept
  BY <1>5, TouchKeeps
<1>6. \A o \in Objects : ~Rot(o)
  BY QuietFacts DEF Rot
<1>7. ASSUME Tick \/ UNCHANGED vars PROVE Kept
  BY <1>7, TickKeeps
<1>8. Kept
  BY <1>2, <1>3, <1>4, <1>5, <1>6, <1>7 DEF Next
<1> QED BY <1>1, <1>8 DEF GcInv

LEMMA InitKeeps == Init => GcInv
<1> SUFFICES ASSUME Init PROVE GcInv
  OBVIOUS
<1>1. TypeOK
  BY GcAssumption DEF Init, TypeOK, NoStamps, NoGc, Stamps, Pcs, GcLocals
<1>2. Registered(meta) = {} /\ Registered(vmeta) = {} /\ \A k \in Keys : NoStamps[k] = 0
  BY DEF Init, Registered, NoStamps
<1>3. WholeInv
  BY <1>2 DEF Init, WholeInv, Closed
<1>4. BatchInv /\ IngestInv /\ AloneInv /\ WalkInv
  BY <1>2, GcAssumption DEF Init, BatchInv, IngestInv, AloneInv, InGc, GcPcs, WalkInv
<1>5. TouchInv
  BY <1>2 DEF Init, TouchInv
<1> QED BY <1>1, <1>3, <1>4, <1>5 DEF GcInv

-----------------------------------------------------------------------------
LEMMA WholeFacts ==
  ASSUME TypeOK, WholeInv
  PROVE  /\ \A k \in Registered(meta) : Needs(k) \subseteq stored
         /\ \A k \in Registered(vmeta) : Needs(k) \subseteq view
BY NeedsFacts DEF TypeOK, WholeInv

(* The garbage collector never takes an object from a registered root,     *)
(* however many processes there are and wherever they fail or die, as long *)
(* as a pass meets no ingest that is without a batch, no other pass and no *)
(* touch, and every tree can be read.                                      *)
THEOREM QuietRootsWhole == QuietPasses => (Spec => []RootsWhole)
<1> SUFFICES ASSUME QuietPasses PROVE Spec => []RootsWhole
  OBVIOUS
<1>1. Init => GcInv
  BY InitKeeps
<1>2. GcInv /\ [Next]_vars => GcInv'
  BY NextKeeps
<1>3. GcInv => RootsWhole
  BY WholeFacts DEF GcInv, RootsWhole
<1> QED BY <1>1, <1>2, <1>3, PTL DEF Spec

-----------------------------------------------------------------------------
(* TreeGc implements RootStore, step by step.                              *)

(* What writing a record does to the roots that are registered.            *)
LEMMA MetaSetRoots ==
  ASSUME GcInv, NEW p \in Procs, NEW k \in Keys, NEW s \in Stamps, MetaSet(p, k, s)
  PROVE  /\ k = LastGc => UNCHANGED <<Registered(meta), Registered(vmeta)>>
         /\ k # LastGc =>
              LET Now(R) == IF s = 0 THEN R \ {k} ELSE R \cup {k} IN
              \/ /\ writer = p /\ Registered(vmeta)' = Now(Registered(vmeta))
                 /\ Registered(meta)' = Registered(meta)
              \/ /\ writer = NoProc /\ Registered(meta)' = Now(Registered(meta))
                 /\ Registered(vmeta)' = Registered(meta)'
<1>1. meta \in [Keys -> Stamps] /\ vmeta \in [Keys -> Stamps] /\ (writer = NoProc => vmeta = meta)
  BY DEF GcInv, TypeOK, BatchInv
<1>2. CASE writer = p /\ vmeta' = [vmeta EXCEPT ![k] = s] /\ meta' = meta
  <2>1. \A x \in Keys : vmeta'[x] = IF x = k THEN s ELSE vmeta[x]
    BY <1>1, <1>2
  <2> QED BY <1>2, <2>1 DEF Registered
<1>3. CASE writer = NoProc /\ meta' = [meta EXCEPT ![k] = s] /\ vmeta' = meta'
  <2>1. \A x \in Keys : meta'[x] = IF x = k THEN s ELSE meta[x]
    BY <1>1, <1>3
  <2> QED BY <1>1, <1>3, <2>1 DEF Registered
<1> QED BY <1>2, <1>3 DEF MetaSet

LEMMA WritesRefines ==
  ASSUME GcInv, NEW p \in Procs, Writes(p)
  PROVE  [Roots!Next]_Roots!vars
<1> USE DEF Roots!vars
<1>1. ASSUME UNCHANGED <<stored, meta, vmeta, writer, view>> PROVE UNCHANGED Roots!vars
  BY <1>1 DEF Registered
<1>2. ASSUME Open(p) \/ Close(p) \/ IngestFails(p) \/ Flush(p) \/ \E k \in Jobs : StartIngest(p, k)
      PROVE  UNCHANGED Roots!vars
  BY <1>1, <1>2 DEF Open, Close, IngestFails, Flush, StartIngest, cas, tables
<1>3. ASSUME PutBegin(p) PROVE Roots!Begin(p)
  BY <1>3 DEF PutBegin, Cas!Begin, Roots!Begin, tables, Registered
<1>4. ASSUME NEW o \in Objects, Put(p, o) PROVE Roots!Add(p, o) \/ UNCHANGED Roots!vars
  BY <1>4 DEF Put, Cas!Add, Roots!Add, cas, tables, Registered
<1>5. ASSUME AutoSync(p) \/ Sync(p) PROVE Roots!Publish(p) \/ UNCHANGED Roots!vars
  BY <1>5 DEF AutoSync, Sync, Commit, Cas!Publish, Roots!Publish, cas, tables, Registered
<1>6. ASSUME Destroy(p) PROVE Roots!Exit(p) \/ UNCHANGED Roots!vars
  BY <1>6 DEF Destroy, Gone, Exit, Cas!Exit, Roots!Exit, Registered
<1>7. ASSUME Register(p) PROVE Roots!Register(p, job[p]) /\ job[p] \in RootKeys \cup BlobKeys
  <2>1. /\ job[p] \in Jobs /\ Needs(job[p]) \subseteq view /\ clock \in Stamps /\ clock # 0
        /\ UNCHANGED <<stored, writer, view>>
    <3>1. job[p] \in Jobs /\ done[p] \subseteq IF writer = p THEN view ELSE stored
      BY <1>7 DEF Register, GcInv, IngestInv
    <3>2. writer \in {p, NoProc} /\ (writer = NoProc => view = stored)
      BY <1>7 DEF Register, MetaSet, GcInv, BatchInv
    <3> QED BY <1>7, <3>1, <3>2 DEF Register, GcInv, TypeOK, BatchInv, cas
  <2>2. job[p] \in Keys /\ job[p] # LastGc /\ job[p] \in RootKeys \cup BlobKeys
    BY <2>1, KeyFacts
  <2>3. MetaSet(p, job[p], clock)
    BY <1>7 DEF Register
  <2> QED BY <2>1, <2>2, <2>3, MetaSetRoots DEF Roots!Register
<1>8. ASSUME NEW k \in Keys, FlushOne(p, k)
      PROVE  Roots!Register(p, k) /\ k \in RootKeys \cup BlobKeys
  <2>1. k \in Jobs /\ flush[p][k] # 0 /\ flush[p][k] \in Stamps /\ meta[k] # 0
    BY <1>8 DEF FlushOne, GcInv, TypeOK, TouchInv
  <2>2. k # LastGc /\ k \in RootKeys \cup BlobKeys
    BY <2>1, KeyFacts
  <2>3. k \in Registered(vmeta)
    BY <2>1, <2>2 DEF Registered, GcInv, BatchInv
  <2>4. Needs(k) \subseteq view
    BY <2>3, WholeFacts DEF GcInv
  <2>5. MetaSet(p, k, flush[p][k]) /\ UNCHANGED <<stored, writer, view>>
    BY <1>8 DEF FlushOne, cas
  <2> QED BY <2>1, <2>2, <2>4, <2>5, MetaSetRoots DEF Roots!Register
<1> QED BY <1>2, <1>3, <1>4, <1>5, <1>6, <1>7, <1>8 DEF Writes, Roots!Next

LEMMA CollectsRefines ==
  ASSUME GcInv, NEW p \in Procs, Collects(p)
  PROVE  [Roots!Next]_Roots!vars
<1> USE DEF Roots!vars
<1>1. ASSUME UNCHANGED <<stored, meta, vmeta, writer, view>> PROVE UNCHANGED Roots!vars
  BY <1>1 DEF Registered
<1>2. ASSUME \/ GcNow(p) \/ GcCheck(p) \/ GcExpired(p) \/ MarkTree(p) \/ Marked(p) \/ GcBlobs(p)
             \/ \E kind \in {"R", "B"} : GcExpire(p, kind)
             \/ \E k \in RootKeys : MarkRoot(p, k)
      PROVE  UNCHANGED Roots!vars
  BY <1>1, <1>2 DEF GcNow, GcCheck, GcExpired, MarkTree, Marked, GcBlobs, GcExpire, MarkRoot,
                    cas, tables
<1>3. ASSUME GcStamp(p) PROVE UNCHANGED Roots!vars
  <2>1. gc[p].now \in Stamps /\ LastGc \in Keys
    BY DEF GcInv, TypeOK, GcLocals, Keys
  <2> QED BY <1>3, <2>1, MetaSetRoots DEF GcStamp, cas
<1>4. ASSUME NEW k \in Keys, GcDelete(p, k)
      PROVE  Roots!Drop(p, k) /\ k \in RootKeys \cup BlobKeys
  <2>1. k \in RootKeys \cup BlobKeys /\ k # LastGc /\ 0 \in Stamps
    BY <1>4, KeyFacts, GcAssumption DEF GcDelete, GcInv, WalkInv, Stamps
  <2> QED BY <1>4, <2>1, MetaSetRoots DEF GcDelete, Roots!Drop, cas
<1>5. ASSUME NEW k \in Keys PROVE ~GcUnroot(p, k)
  BY DEF GcUnroot, GcInv, WalkInv
<1>6. ASSUME GcCompact(p) PROVE Roots!Begin(p)
  BY <1>6 DEF GcCompact, Cas!Begin, Roots!Begin, tables, Registered
<1>7. ASSUME GcSweep(p)
      PROVE  Roots!Sweep(p, stored \cap gc[p].live)
  <2>1. /\ writer = p /\ pc[p] = "sweep" /\ view' = stored \cap gc[p].live
        /\ UNCHANGED <<stored, writer, meta, vmeta>>
    BY <1>7 DEF GcSweep, Cas!Collect, tables
  <2>2. /\ vmeta = meta /\ gc[p].live \subseteq stored /\ Closed(gc[p].live)
        /\ \A k \in Registered(meta) : k \in Jobs /\ k[2] \in gc[p].live
    BY <2>1 DEF GcInv, BatchInv, WalkInv, WholeInv
  <2>3. \A k \in Registered(vmeta) : Needs(k) \subseteq stored \cap gc[p].live
    BY <2>2, NeedsFacts DEF GcInv, TypeOK
  <2> QED BY <2>1, <2>3 DEF Roots!Sweep, Registered
<1>8. ASSUME GcSwitch(p) PROVE Roots!Publish(p)
  BY <1>8 DEF GcSwitch, Commit, Cas!Publish, Roots!Publish, Registered
<1>9. stored \cap gc[p].live \in SUBSET stored
  OBVIOUS
<1> QED BY <1>2, <1>3, <1>4, <1>5, <1>6, <1>7, <1>8, <1>9 DEF Collects, Roots!Next

LEMMA NextRefines ==
  ASSUME GcInv, QuietPasses, [Next]_vars
  PROVE  [Roots!Next]_Roots!vars
<1>1. ASSUME NEW p \in Procs, Kill(p) PROVE [Roots!Next]_Roots!vars
  <2>1. Roots!Exit(p) \/ UNCHANGED Roots!vars
    BY <1>1 DEF Kill, Gone, Exit, Cas!Exit, Roots!Exit, Roots!vars, Registered
  <2> QED BY <2>1 DEF Roots!Next
<1>2. ASSUME NEW p \in Procs, NEW k \in Jobs, Touch(p, k) PROVE UNCHANGED Roots!vars
  BY <1>2 DEF Touch, cas, tables, Roots!vars, Registered
<1>3. \A o \in Objects : ~Rot(o)
  BY QuietFacts DEF Rot
<1>4. ASSUME Tick \/ UNCHANGED vars PROVE UNCHANGED Roots!vars
  BY <1>4 DEF Tick, vars, cas, tables, Roots!vars, Registered
<1> QED BY <1>1, <1>2, <1>3, <1>4, WritesRefines, CollectsRefines DEF Next

(* Under the same conditions the TreeStore is the abstract store of roots: *)
(* a collection keeps all that the roots it leaves need, a root appears    *)
(* when everything it needs is in place, and a batch as a whole.           *)
THEOREM QuietIsRootStore == QuietPasses => (Spec => RootSpec)
<1> SUFFICES ASSUME QuietPasses PROVE Spec => RootSpec
  OBVIOUS
<1>1. Init => GcInv
  BY InitKeeps
<1>2. GcInv /\ [Next]_vars => GcInv'
  BY NextKeeps
<1>3. Init => Roots!Init
  BY DEF Init, Roots!Init, NoStamps, Registered
<1>4. GcInv /\ [Next]_vars => [Roots!Next]_Roots!vars
  BY NextRefines
<1> QED BY <1>1, <1>2, <1>3, <1>4, PTL DEF Spec, RootSpec, Roots!Spec
=============================================================================
