-------------------------- MODULE TreeGcPassProofs --------------------------
(***************************************************************************)
(* What single steps of a pass never do: come again within the interval,   *)
(* leave what no root needs, or evict a root that is in use.               *)
(***************************************************************************)
EXTENDS TreeGcProofs

-----------------------------------------------------------------------------
(* The steps, seen from the tables and from a pass.                        *)

(* Whoever moves, a process in a pass has either moved itself, or stays    *)
(* where it was.                                                           *)
LEMMA PassStep ==
  ASSUME TypeOK, [Next]_vars, NEW q \in Procs, pc'[q] \in GcPcs
  PROVE  Collects(q) \/ (pc[q] \in GcPcs /\ pc'[q] = pc[q] /\ gc'[q] = gc[q])
<1> USE DEF GcPcs
<1>0. pc \in [Procs -> Pcs] /\ gc \in [Procs -> GcLocals]
  BY DEF TypeOK
<1>1. ASSUME NEW p \in Procs, Collects(p), p # q
      PROVE  pc'[q] = pc[q] /\ gc'[q] = gc[q]
  BY <1>0, <1>1 DEF Collects, GcNow, GcCheck, GcStamp, GcExpired, GcExpire, GcDelete, GcUnroot,
       MarkRoot, MarkTree, Marked, GcBlobs, GcCompact, GcSweep, GcSwitch, Goto, SetGc
<1>2. ASSUME NEW p \in Procs, Writes(p)
      PROVE  pc'[q] = pc[q] /\ gc'[q] = gc[q]
  <2>1. CASE Destroy(p)
    BY <1>0, <2>1 DEF Destroy, Gone, Goto, SetGc
  <2>2. CASE ~Destroy(p)
    BY <1>0, <1>2, <2>2 DEF Writes, Open, PutBegin, AutoSync, IngestFails, Register, Flush, Sync,
         Close, StartIngest, Put, FlushOne, Goto
  <2> QED BY <2>1, <2>2
<1>3. ASSUME NEW p \in Procs, Kill(p)
      PROVE  pc'[q] = pc[q] /\ gc'[q] = gc[q]
  BY <1>0, <1>3 DEF Kill, Gone, Goto, SetGc
<1>4. ASSUME NEW p \in Procs, NEW k \in Jobs, Touch(p, k)
      PROVE  pc'[q] = pc[q] /\ gc'[q] = gc[q]
  BY <1>4 DEF Touch
<1>5. ASSUME Tick \/ UNCHANGED vars \/ \E o \in Objects : Rot(o)
      PROVE  pc'[q] = pc[q] /\ gc'[q] = gc[q]
  BY <1>5 DEF Tick, vars, Rot
<1> QED BY <1>1, <1>2, <1>3, <1>4, <1>5 DEF Next

(* The tables change by a commit, an abort, a root that is registered or   *)
(* touched, the stamp of a pass, or an eviction.                           *)
LEMMA TableStep ==
  ASSUME GcInv, [Next]_vars
  PROVE  \/ meta' = meta /\ vmeta' = meta
         \/ meta' = vmeta /\ vmeta' = vmeta
         \/ meta' = meta /\ vmeta' = vmeta
         \/ \E p \in Procs : Register(p) \/ \E k \in Keys : FlushOne(p, k)
         \/ \E p \in Procs : GcStamp(p) \/ \E k \in Keys : GcDelete(p, k)
<1> USE DEF tables, cas
<1>1. ASSUME NEW p \in Procs, Writes(p), ~Register(p), \A k \in Keys : ~FlushOne(p, k)
      PROVE  \/ meta' = meta /\ vmeta' = vmeta
             \/ meta' = vmeta /\ vmeta' = vmeta
             \/ meta' = meta /\ vmeta' = meta
  BY <1>1 DEF Writes, Open, PutBegin, AutoSync, IngestFails, Flush, Sync,
         Close, StartIngest, Put, Destroy, Gone, Exit, Commit
<1>2. ASSUME NEW p \in Procs, Collects(p), ~GcStamp(p), \A k \in Keys : ~GcDelete(p, k)
      PROVE  \/ meta' = meta /\ vmeta' = vmeta
             \/ meta' = vmeta /\ vmeta' = vmeta
  <2>1. \A k \in Keys : ~GcUnroot(p, k)
    BY DEF GcUnroot, GcInv, WalkInv
  <2> QED BY <1>2, <2>1 DEF Collects, GcNow, GcCheck, GcExpired, GcExpire,
         MarkRoot, MarkTree, Marked, GcBlobs, GcCompact, GcSweep, GcSwitch, Commit
<1>3. ASSUME NEW p \in Procs, Kill(p)
      PROVE  \/ meta' = meta /\ vmeta' = vmeta
             \/ meta' = meta /\ vmeta' = meta
  BY <1>3 DEF Kill, Gone, Exit
<1>4. ASSUME NEW p \in Procs, NEW k \in Jobs, Touch(p, k)
      PROVE  meta' = meta /\ vmeta' = vmeta
  BY <1>4 DEF Touch
<1>5. ASSUME Tick \/ UNCHANGED vars \/ \E o \in Objects : Rot(o)
      PROVE  meta' = meta /\ vmeta' = vmeta
  BY <1>5 DEF Tick, vars, Rot
<1> QED BY <1>1, <1>2, <1>3, <1>4, <1>5 DEF Next

(* A difference of stamps does not wrap when the pass is the later.        *)
LEMMA SinceFacts ==
  ASSUME NEW now \in Stamps, NEW stamp \in Stamps, stamp <= now
  PROVE  Since(now, stamp) = now - stamp
<1>1. PICK d : d = now - stamp
  OBVIOUS
<1>2. d \in Nat /\ d < Word /\ Word \in Nat \ {0} /\ now + Word - stamp = d + Word
  BY <1>1, GcAssumption DEF Stamps
<1>3. (d + Word) % Word = d
  BY <1>2
<1> QED BY <1>1, <1>2, <1>3 DEF Since

LEMMA ClockStep ==
  ASSUME TypeOK, [Next]_vars
  PROVE  clock \in Nat /\ clock' \in Nat /\ (clock' = clock \/ (Tick /\ clock' = clock + 1))
<1>1. clock \in Nat
  BY GcAssumption DEF TypeOK, Stamps
<1>2. ASSUME NEW p \in Procs, Writes(p) PROVE clock' = clock
  BY <1>2 DEF Writes, Open, PutBegin, AutoSync, IngestFails, Register, Flush, Sync, Close,
              StartIngest, Put, FlushOne, Destroy, Gone
<1>3. ASSUME NEW p \in Procs, Collects(p) PROVE clock' = clock
  BY <1>3 DEF Collects, GcNow, GcCheck, GcStamp, GcExpired, GcExpire, GcDelete, GcUnroot,
       MarkRoot, MarkTree, Marked, GcBlobs, GcCompact, GcSweep, GcSwitch
<1>4. ASSUME NEW p \in Procs, Kill(p) \/ \E k \in Jobs : Touch(p, k) PROVE clock' = clock
  BY <1>4 DEF Kill, Gone, Touch
<1>5. ASSUME UNCHANGED vars \/ \E o \in Objects : Rot(o) PROVE clock' = clock
  BY <1>5 DEF vars, Rot
<1>6. Tick => clock' = clock + 1
  BY DEF Tick
<1> QED BY <1>1, <1>2, <1>3, <1>4, <1>5, <1>6 DEF Next

(* A pass keeps the time at which it began.                                *)
LEMMA NowKept ==
  ASSUME GcInv, NEW q \in Procs, Collects(q), ~GcNow(q), pc'[q] \in GcPcs
  PROVE  gc'[q].now = gc[q].now /\ InGc(q) /\ (GcCheck(q) \/ pc'[q] \notin {"check", "stamp"})
<1> USE DEF GcPcs, SetGc, Goto
<1>0. gc[q] \in GcLocals /\ gc \in [Procs -> GcLocals] /\ pc \in [Procs -> Pcs]
  BY DEF GcInv, TypeOK
<1>1. ASSUME NEW g \in GcLocals
      PROVE  /\ \A S : [g EXCEPT !.kinds = S].now = g.now
             /\ \A S, b, K : [g EXCEPT !.kinds = S, !.any = b, !.expired = K].now = g.now
             /\ \A K : [g EXCEPT !.expired = K].now = g.now
             /\ \A K : [g EXCEPT !.todo = K].now = g.now
             /\ \A K, k, L, s : [g EXCEPT !.todo = K, !.at = k, !.live = L, !.stack = s].now = g.now
             /\ \A L, s : [g EXCEPT !.live = L, !.stack = s].now = g.now
             /\ \A K, s : [g EXCEPT !.broken = K, !.stack = s].now = g.now
             /\ \A K : [g EXCEPT !.broken = K].now = g.now
             /\ \A L : [g EXCEPT !.live = L].now = g.now
  BY DEF GcLocals
<1>2. ASSUME GcCheck(q) \/ Marked(q) \/ GcCompact(q) \/ GcSweep(q) \/ GcSwitch(q)
      PROVE  gc'[q].now = gc[q].now /\ InGc(q) /\ (GcCheck(q) \/ pc'[q] \notin {"check", "stamp"})
  BY <1>0, <1>2 DEF GcCheck, Marked, GcCompact, GcSweep, GcSwitch, InGc
<1>3. CASE GcStamp(q)
  <2>1. PICK g : g = [gc[q] EXCEPT !.kinds = {"R", "B"}] /\ gc' = [gc EXCEPT ![q] = g]
    BY <1>3 DEF GcStamp
  <2>2. gc'[q] = g /\ g.now = gc[q].now
    BY <1>0, <1>1, <2>1
  <2> QED BY <1>0, <1>3, <2>2 DEF GcStamp, InGc
<1>4. CASE GcExpired(q)
  <2>1. PICK K : K = {k \in RootKeys : Meta(q)[k] # 0}
    OBVIOUS
  <2>2. PICK g : g = [gc[q] EXCEPT !.todo = K]
    OBVIOUS
  <2>3. g.now = gc[q].now
    BY <1>0, <1>1, <2>2
  <2>4. gc' = gc \/ gc' = [gc EXCEPT ![q] = g]
    BY <1>0, <1>4, <2>1, <2>2 DEF GcExpired
  <2> QED BY <1>0, <1>4, <2>3, <2>4 DEF GcExpired, InGc
<1>5. ASSUME NEW kind \in {"R", "B"}, GcExpire(q, kind)
      PROVE  gc'[q].now = gc[q].now /\ InGc(q) /\ pc'[q] \notin {"check", "stamp"}
  <2>1. PICK K : K = {k \in KeysOf(kind) :
                       Meta(q)[k] # 0 /\ Since(gc[q].now, Meta(q)[k]) >= Ttl}
    OBVIOUS
  <2>2. PICK g : /\ g = [gc[q] EXCEPT !.kinds = @ \ {kind}, !.any = @ \/ K # {}, !.expired = K]
                 /\ gc' = [gc EXCEPT ![q] = g]
    BY <1>5, <2>1 DEF GcExpire
  <2>3. gc'[q] = g /\ g.now = gc[q].now
    BY <1>0, <1>1, <2>2
  <2> QED BY <1>0, <1>5, <2>3 DEF GcExpire, InGc
<1>6. ASSUME NEW k \in Keys, GcDelete(q, k) \/ GcUnroot(q, k)
      PROVE  gc'[q].now = gc[q].now /\ InGc(q) /\ pc'[q] \notin {"check", "stamp"}
  <2>1. CASE GcDelete(q, k)
    <3>1. PICK g : g = [gc[q] EXCEPT !.expired = @ \ {k}] /\ gc' = [gc EXCEPT ![q] = g]
      BY <2>1 DEF GcDelete
    <3>2. gc'[q] = g /\ g.now = gc[q].now
      BY <1>0, <1>1, <3>1
    <3> QED BY <1>0, <2>1, <3>2 DEF GcDelete, InGc
  <2>2. CASE GcUnroot(q, k)
    BY <2>2 DEF GcUnroot, GcInv, WalkInv
  <2> QED BY <1>6, <2>1, <2>2
<1>7. ASSUME NEW k \in RootKeys, MarkRoot(q, k)
      PROVE  gc'[q].now = gc[q].now /\ InGc(q) /\ pc'[q] \notin {"check", "stamp"}
  <2>1. PICK s : s = IF k[2] \in gc[q].live THEN <<>> ELSE <<k[2]>>
    OBVIOUS
  <2>2. PICK g : /\ g = [gc[q] EXCEPT !.todo = @ \ {k}, !.at = k, !.live = @ \cup {k[2]}, !.stack = s]
                 /\ gc' = [gc EXCEPT ![q] = g]
    BY <1>7, <2>1 DEF MarkRoot
  <2>3. gc'[q] = g /\ g.now = gc[q].now
    BY <1>0, <1>1, <2>2
  <2> QED BY <1>0, <1>7, <2>3 DEF MarkRoot, InGc
<1>8. CASE MarkTree(q)
  <2>1. \/ \E L, s : gc' = [gc EXCEPT ![q] = [gc[q] EXCEPT !.live = L, !.stack = s]]
        \/ \E K, s : gc' = [gc EXCEPT ![q] = [gc[q] EXCEPT !.broken = K, !.stack = s]]
    BY <1>8, Zenon DEF MarkTree
  <2>2. \E g : g.now = gc[q].now /\ gc' = [gc EXCEPT ![q] = g]
    <3>1. ASSUME NEW L, NEW s, gc' = [gc EXCEPT ![q] = [gc[q] EXCEPT !.live = L, !.stack = s]]
          PROVE  \E g : g.now = gc[q].now /\ gc' = [gc EXCEPT ![q] = g]
      <4>1. [gc[q] EXCEPT !.live = L, !.stack = s].now = gc[q].now
        BY <1>0 DEF GcLocals
      <4> QED BY <3>1, <4>1, Zenon
    <3>2. ASSUME NEW K, NEW s, gc' = [gc EXCEPT ![q] = [gc[q] EXCEPT !.broken = K, !.stack = s]]
          PROVE  \E g : g.now = gc[q].now /\ gc' = [gc EXCEPT ![q] = g]
      <4>1. [gc[q] EXCEPT !.broken = K, !.stack = s].now = gc[q].now
        BY <1>0 DEF GcLocals
      <4> QED BY <3>2, <4>1, Zenon
    <3> QED BY <2>1, <3>1, <3>2, Zenon
  <2> QED BY <1>0, <1>8, <2>2 DEF MarkTree, InGc
<1>9. CASE GcBlobs(q)
  BY <1>0, <1>1, <1>9 DEF GcBlobs, InGc
<1> QED BY <1>2, <1>3, <1>4, <1>5, <1>6, <1>7, <1>8, <1>9 DEF Collects

-----------------------------------------------------------------------------
(* The rate of the passes.                                                 *)

LEMMA RateStep ==
  ASSUME GcInv, RateInv, [Next]_vars
  PROVE  RateInv'
<1>0. /\ meta \in [Keys -> Stamps] /\ vmeta \in [Keys -> Stamps] /\ LastGc \in Keys
      /\ pc \in [Procs -> Pcs] /\ gc \in [Procs -> GcLocals] /\ clock \in Stamps
      /\ Stamps \subseteq Nat /\ \A q \in Procs : gc[q].now \in Stamps
  BY DEF GcInv, TypeOK, Stamps, Keys, GcLocals
<1>1. clock \in Nat /\ clock' \in Nat /\ clock <= clock'
  BY ClockStep DEF GcInv
<1>2. ASSUME NEW p \in Procs, GcStamp(p) PROVE RateInv'
  <2>1. /\ pc[p] = "stamp" /\ pc'[p] = "expire" /\ InGc(p) /\ writer # p
        /\ \A q \in Procs : q # p => pc'[q] = pc[q] /\ ~InGc(q)
        /\ MetaSet(p, LastGc, gc[p].now) /\ clock' = clock
    BY <1>0, <1>2, PassFacts DEF GcStamp, Goto, InGc, GcPcs
  <2>2. meta'[LastGc] = gc[p].now /\ vmeta'[LastGc] = gc[p].now
    BY <1>0, <2>1 DEF MetaSet
  <2>3. gc'[p].now = gc[p].now
    BY <1>2, NowKept DEF Collects, GcNow, GcStamp, Goto, GcPcs, GcInv, TypeOK
  <2>4. gc[p].now <= clock
    BY <2>1 DEF RateInv
  <2> QED BY <2>1, <2>2, <2>3, <2>4 DEF RateInv, InGc, GcPcs
<1>3. ASSUME \A p \in Procs : ~GcStamp(p) PROVE RateInv'
  <2>1. meta'[LastGc] = meta[LastGc] /\ vmeta'[LastGc] = meta[LastGc]
    <3>1. ASSUME NEW p \in Procs, Register(p)
          PROVE  meta'[LastGc] = meta[LastGc] /\ vmeta'[LastGc] = vmeta[LastGc]
      <4>1. job[p] \in Keys /\ job[p] # LastGc /\ MetaSet(p, job[p], clock)
        BY <3>1, KeyFacts DEF Register, GcInv, IngestInv
      <4> QED BY <1>0, <4>1, MetaSetFacts
    <3>2. ASSUME NEW p \in Procs, NEW k \in Keys, FlushOne(p, k)
          PROVE  meta'[LastGc] = meta[LastGc] /\ vmeta'[LastGc] = vmeta[LastGc]
      <4>1. k # LastGc /\ MetaSet(p, k, flush[p][k])
        BY <3>2, KeyFacts DEF FlushOne, GcInv, TouchInv
      <4> QED BY <1>0, <4>1, MetaSetFacts
    <3>3. ASSUME NEW p \in Procs, NEW k \in Keys, GcDelete(p, k)
          PROVE  meta'[LastGc] = meta[LastGc] /\ vmeta'[LastGc] = vmeta[LastGc]
      <4>1. k # LastGc /\ MetaSet(p, k, 0)
        BY <3>3, KeyFacts DEF GcDelete, GcInv, WalkInv
      <4> QED BY <1>0, <4>1, MetaSetFacts
    <3> QED BY <1>3, <3>1, <3>2, <3>3, TableStep DEF RateInv
  <2>2. ASSUME NEW q \in Procs, pc'[q] \in GcPcs
        PROVE  /\ gc'[q].now <= clock'
               /\ pc'[q] \in {"check", "stamp"} => meta[LastGc] <= gc'[q].now
               /\ pc'[q] = "stamp" => meta[LastGc] = 0 \/ meta[LastGc] + GcInterval <= gc'[q].now
    <3>1. CASE pc[q] \in GcPcs /\ pc'[q] = pc[q] /\ gc'[q] = gc[q]
      <4>1. gc[q].now \in Nat
        BY <1>0
      <4> QED BY <1>1, <3>1, <4>1 DEF RateInv, InGc
    <3>2. CASE GcNow(q)
      <4>1. /\ pc'[q] = "check" /\ clock' = clock
            /\ gc' = [gc EXCEPT ![q] = [NoGc EXCEPT !.now = clock]]
        BY <1>0, <3>2 DEF GcNow, Goto, SetGc
      <4>2. gc'[q].now = clock
        BY <1>0, <4>1 DEF NoGc
      <4> QED BY <1>1, <4>1, <4>2 DEF RateInv
    <3>3. CASE Collects(q) /\ ~GcNow(q)
      <4>1. gc'[q].now = gc[q].now /\ InGc(q) /\ (GcCheck(q) \/ pc'[q] \notin {"check", "stamp"})
        BY <2>2, <3>3, NowKept
      <4>2. gc'[q].now <= clock'
        <5>1. gc[q].now <= clock /\ gc[q].now \in Nat
          BY <1>0, <4>1 DEF RateInv
        <5> QED BY <1>1, <4>1, <5>1
      <4>3. ASSUME GcCheck(q)
            PROVE  /\ meta[LastGc] <= gc[q].now
                   /\ meta[LastGc] = 0 \/ meta[LastGc] + GcInterval <= gc[q].now
        <5>1. /\ pc[q] = "check" /\ pc'[q] = "stamp" /\ writer # q
              /\ ~(Meta(q)[LastGc] # 0 /\ Since(gc[q].now, Meta(q)[LastGc]) < GcInterval)
          BY <1>0, <2>2, <4>1, <4>3, PassFacts DEF GcCheck, Goto, GcPcs
        <5>2. Meta(q) = meta /\ meta[LastGc] <= gc[q].now
          BY <5>1 DEF Meta, RateInv
        <5>3. Since(gc[q].now, meta[LastGc]) = gc[q].now - meta[LastGc]
          BY <1>0, <5>2, SinceFacts
        <5>4. meta[LastGc] \in Nat /\ gc[q].now \in Nat /\ GcInterval \in Nat
          BY <1>0, GcAssumption
        <5> QED BY <5>1, <5>2, <5>3, <5>4
      <4> QED BY <4>1, <4>2, <4>3
    <3> QED BY <2>2, <3>1, <3>2, <3>3, PassStep DEF GcInv
  <2>3. meta[LastGc] <= clock'
    <3>1. meta[LastGc] \in Nat /\ meta[LastGc] <= clock
      BY <1>0 DEF RateInv
    <3> QED BY <1>1, <3>1
  <2> QED BY <2>1, <2>2, <2>3 DEF RateInv, InGc, GcPcs
<1> QED BY <1>2, <1>3

(* No pass makes its first write within the interval of the last one:      *)
(* a process that is about to write found the stamp old enough, and nobody *)
(* else has stamped a pass since.                                          *)
THEOREM QuietGcRate == QuietPasses => (Spec => GcRate)
<1> SUFFICES ASSUME QuietPasses PROVE Spec => GcRate
  OBVIOUS
<1>1. Init => GcInv /\ RateInv
  <2>1. ASSUME Init PROVE RateInv
    BY <2>1, GcAssumption DEF Init, RateInv, InGc, GcPcs, NoStamps, Keys
  <2> QED BY <2>1, InitKeeps
<1>2. GcInv /\ RateInv /\ [Next]_vars => (GcInv /\ RateInv)'
  BY NextKeeps, RateStep
<1>3. GcInv /\ RateInv =>
        \A p \in Procs : pc[p] = "stamp" /\ pc'[p] = "expire" /\ meta[LastGc] # 0 =>
          gc[p].now >= meta[LastGc] + GcInterval
  <2> SUFFICES ASSUME GcInv, RateInv, NEW p \in Procs, pc[p] = "stamp", meta[LastGc] # 0
               PROVE  gc[p].now >= meta[LastGc] + GcInterval
    OBVIOUS
  <2>1. meta[LastGc] + GcInterval <= gc[p].now
    BY DEF RateInv
  <2> QED BY <2>1
<1> QED BY <1>1, <1>2, <1>3, PTL DEF Spec, GcRate

-----------------------------------------------------------------------------
(* What a pass leaves.                                                     *)

(* Once no batch of another process is open, a pass has the tables and the *)
(* store to itself.                                                        *)
LEMMA OthersStill ==
  ASSUME QuietPasses, GcInv, [Next]_vars, NEW q \in Procs, InGc(q),
         writer \in {q, NoProc}, ~Collects(q), pc'[q] # "closed"
  PROVE  UNCHANGED <<stored, writer, view, meta, vmeta>>
<1> USE DEF tables, cas
<1>0. /\ pc \in [Procs -> Pcs] /\ pc[q] \in GcPcs /\ writer \in {q, NoProc}
      /\ \A p \in Procs, k \in Keys : flush[p][k] = 0
      /\ \A p \in Procs : p # q => pc[p] \notin GcPcs /\ pc[p] \notin IngestPcs /\ writer # p
  BY PassFacts, GcAssumption DEF GcInv, TypeOK, InGc
<1>1. ASSUME NEW p \in Procs, Writes(p) PROVE UNCHANGED <<stored, writer, view, meta, vmeta>>
  <2>1. \A k \in Keys : ~FlushOne(p, k)
    BY <1>0 DEF FlushOne
  <2>2. pc[p] \notin IngestPcs
    BY <1>0 DEF GcPcs, IngestPcs
  <2>3. CASE Destroy(p)
    <3>1. p # q
      BY <1>0, <2>3 DEF Destroy, GcPcs
    <3> QED BY <1>0, <2>3, <3>1 DEF Destroy, Gone, Exit, Cas!Exit
  <2> QED BY <1>1, <2>1, <2>2, <2>3 DEF Writes, Open, PutBegin, AutoSync, IngestFails, Register,
             Flush, Sync, Close, StartIngest, Put, IngestPcs
<1>2. ASSUME NEW p \in Procs, Collects(p) PROVE UNCHANGED <<stored, writer, view, meta, vmeta>>
  <2>1. pc[p] \notin GcPcs
    BY <1>0, <1>2
  <2> QED BY <1>2, <2>1 DEF Collects, GcPcs, GcNow, GcCheck, GcStamp, GcExpired, GcExpire,
             GcDelete, GcUnroot, MarkRoot, MarkTree, Marked, GcBlobs, GcCompact, GcSweep, GcSwitch
<1>3. ASSUME NEW p \in Procs, Kill(p) PROVE UNCHANGED <<stored, writer, view, meta, vmeta>>
  <2>1. p # q
    BY <1>0, <1>3 DEF Kill, Gone, Goto
  <2> QED BY <1>0, <1>3, <2>1 DEF Kill, Gone, Exit, Cas!Exit
<1>4. ASSUME NEW p \in Procs, NEW k \in Jobs, Touch(p, k)
      PROVE  UNCHANGED <<stored, writer, view, meta, vmeta>>
  BY <1>4 DEF Touch
<1>5. ASSUME Tick \/ UNCHANGED vars \/ \E o \in Objects : Rot(o)
      PROVE  UNCHANGED <<stored, writer, view, meta, vmeta>>
  BY <1>5 DEF Tick, vars, Rot
<1> QED BY <1>1, <1>2, <1>3, <1>4, <1>5 DEF Next

(* What the collector adds to the marks is needed by a root that is left.  *)
LEMMA NeededFacts ==
  ASSUME GcInv
  PROVE  /\ \A k \in Registered(meta) : k[2] \in Needed(meta)
         /\ \A t \in Needed(meta) \cap Trees : Children[t] \subseteq Needed(meta)
<1>1. \A k \in Registered(meta) : k \in Jobs
  BY DEF GcInv, WholeInv
<1>2. \A k \in Registered(meta) : k[2] \in Needed(meta)
  BY <1>1, NeedsFacts DEF Needed
<1>3. ASSUME NEW t \in Needed(meta) \cap Trees PROVE Children[t] \subseteq Needed(meta)
  <2>1. PICK k \in Registered(meta) : t \in Needs(k)
    BY <1>3 DEF Needed
  <2>2. CASE k[1] = "R"
    <3>1. Needs(k) = Reach(k[2])
      BY <2>2 DEF Needs
    <3>2. Children[t] \subseteq Objects
      BY <1>3, GcAssumption
    <3>3. Children[t] \subseteq Reach(k[2])
      BY <1>3, <2>1, <3>1, <3>2 DEF Reach, Closed
    <3> QED BY <3>1, <3>3 DEF Needed
  <2>3. CASE k[1] # "R"
    <3>1. t = k[2] /\ k \in Jobs
      BY <1>1, <2>1, <2>3 DEF Needs
    <3>2. k \in BlobKeys
      BY <2>3, <3>1, KeyFacts
    <3> QED BY <1>3, <3>1, <3>2, GcAssumption
  <2> QED BY <2>2, <2>3
<1> QED BY <1>2, <1>3

LEMMA CleanStep ==
  ASSUME QuietPasses, GcInv, CleanInv, [Next]_vars
  PROVE  CleanInv'
<1>0. gc \in [Procs -> GcLocals] /\ pc \in [Procs -> Pcs]
  BY DEF GcInv, TypeOK
<1> SUFFICES ASSUME NEW q \in Procs,
                    pc'[q] \in {"mark", "unroot", "compact", "sweep", "switch"}
             PROVE  /\ pc'[q] # "switch" => gc'[q].live \subseteq Needed(meta)'
                    /\ pc'[q] = "switch" => writer' = q /\ view' \subseteq Needed(vmeta)'
  BY DEF CleanInv
<1> USE DEF Goto, SetGc, tables, cas
<1>1. CASE ~Collects(q)
  <2>1. InGc(q) /\ pc'[q] = pc[q] /\ gc'[q] = gc[q]
    BY <1>1, PassStep DEF InGc, GcPcs, GcInv
  <2>2. writer \in {q, NoProc}
    BY <2>1, PassFacts
  <2>3. UNCHANGED <<stored, writer, view, meta, vmeta>>
    BY <1>1, <2>1, <2>2, OthersStill
  <2> QED BY <2>1, <2>3 DEF CleanInv, Needed, Registered
<1>2. CASE GcExpired(q)
  <2>1. PICK K : K = {k \in RootKeys : Meta(q)[k] # 0}
    OBVIOUS
  <2>2. PICK g : g = [gc[q] EXCEPT !.todo = K]
    OBVIOUS
  <2>3. gc' = [gc EXCEPT ![q] = g] /\ pc[q] = "delete" /\ pc'[q] = "mark"
    BY <1>0, <1>2, <2>1, <2>2 DEF GcExpired
  <2>4. g.live = gc[q].live
    BY <1>0, <2>2 DEF GcLocals
  <2>5. gc'[q].live = {}
    BY <1>0, <2>3, <2>4 DEF GcInv, WalkInv
  <2> QED BY <2>3, <2>5
<1>3. ASSUME NEW k \in RootKeys, MarkRoot(q, k)
      PROVE  pc'[q] = "mark" /\ gc'[q].live \subseteq Needed(meta)'
  <2>1. PICK s : s = IF k[2] \in gc[q].live THEN <<>> ELSE <<k[2]>>
    OBVIOUS
  <2>2. PICK g : /\ g = [gc[q] EXCEPT !.todo = @ \ {k}, !.at = k, !.live = @ \cup {k[2]}, !.stack = s]
                 /\ gc' = [gc EXCEPT ![q] = g]
    BY <1>3, <2>1 DEF MarkRoot
  <2>3. gc'[q] = g /\ g.live = gc[q].live \cup {k[2]}
    BY <1>0, <2>2 DEF GcLocals
  <2>4. pc[q] = "mark" /\ pc' = pc /\ meta' = meta /\ k \in Registered(meta)
    BY <1>3 DEF MarkRoot, GcInv, WalkInv
  <2> QED BY <2>3, <2>4, NeededFacts DEF CleanInv, Needed, Registered
<1>4. CASE MarkTree(q)
  <2>1. /\ pc[q] = "mark" /\ pc' = pc /\ meta' = meta
        /\ gc[q].stack \in Seq(Trees) /\ gc[q].stack # <<>>
    BY <1>0, <1>4 DEF MarkTree, GcLocals
  <2>2. PICK t, new, rest : /\ t = gc[q].stack[Len(gc[q].stack)] /\ new = Children[t] \ gc[q].live
                            /\ rest = SubSeq(gc[q].stack, 1, Len(gc[q].stack) - 1)
    OBVIOUS
  <2>3. t \in Trees /\ t \in Stacked(q)
    BY <2>1, <2>2, PopElems DEF Stacked
  <2>4. t \in gc[q].live /\ t \in stored \ rotten /\ gc[q].live \subseteq Needed(meta)
    BY <2>1, <2>3, QuietFacts DEF GcInv, WalkInv, BatchInv, CleanInv
  <2>5. PICK s \in Orderings(new \cap Trees) :
          gc' = [gc EXCEPT ![q] = [gc[q] EXCEPT !.live = @ \cup new, !.stack = rest \o s]]
    BY <1>4, <2>2, <2>4 DEF MarkTree
  <2>6. PICK g, stack : /\ stack = rest \o s
                        /\ g = [gc[q] EXCEPT !.live = @ \cup new, !.stack = stack]
                        /\ gc' = [gc EXCEPT ![q] = g]
    BY <2>5
  <2>7. gc'[q] = g /\ g.live = gc[q].live \cup new
    BY <1>0, <2>6 DEF GcLocals
  <2>8. new \subseteq Needed(meta)
    BY <2>2, <2>3, <2>4, NeededFacts
  <2> QED BY <2>1, <2>4, <2>7, <2>8 DEF Needed, Registered
<1>5. CASE GcBlobs(q)
  <2>1. /\ pc[q] = "unroot" /\ pc'[q] = "compact" /\ meta' = meta /\ Meta(q) = meta
    BY <1>0, <1>5, PassFacts DEF GcBlobs, Meta, InGc, GcPcs
  <2>2. PICK L : L = {k[2] : k \in {b \in BlobKeys : meta[b] # 0}}
    OBVIOUS
  <2>3. PICK g : g = [gc[q] EXCEPT !.live = @ \cup L] /\ gc' = [gc EXCEPT ![q] = g]
    BY <1>5, <2>1, <2>2 DEF GcBlobs
  <2>4. gc'[q] = g /\ g.live = gc[q].live \cup L
    BY <1>0, <2>3 DEF GcLocals
  <2>5. L \subseteq Needed(meta)
    BY <2>2, KeyFacts, NeededFacts DEF Registered, Keys
  <2> QED BY <2>1, <2>4, <2>5 DEF CleanInv, Needed, Registered
<1>6. CASE Marked(q) \/ GcCompact(q)
  <2>1. /\ pc[q] \in {"mark", "compact"} /\ pc'[q] \in {"unroot", "sweep"}
        /\ meta' = meta /\ gc' = gc
    BY <1>0, <1>6 DEF Marked, GcCompact
  <2> QED BY <2>1 DEF CleanInv, Needed, Registered
<1>7. CASE GcSweep(q)
  <2>1. /\ writer = q /\ writer' = q /\ view' = stored \cap gc[q].live /\ pc[q] = "sweep"
        /\ vmeta' = vmeta /\ pc'[q] = "switch"
    BY <1>0, <1>7 DEF GcSweep, Cas!Collect
  <2>2. vmeta = meta /\ gc[q].live \subseteq Needed(meta)
    BY <2>1 DEF GcInv, BatchInv, CleanInv
  <2> QED BY <2>1, <2>2 DEF Needed, Registered
<1>8. ASSUME GcNow(q) \/ GcCheck(q) \/ GcStamp(q) \/ GcSwitch(q)
             \/ \E kind \in {"R", "B"} : GcExpire(q, kind)
             \/ \E k \in Keys : GcDelete(q, k) \/ GcUnroot(q, k)
      PROVE  FALSE
  <2>1. \A k \in Keys : ~GcUnroot(q, k)
    BY DEF GcUnroot, GcInv, WalkInv
  <2> QED BY <1>0, <1>8, <2>1 DEF GcNow, GcCheck, GcStamp, GcSwitch, GcExpire, GcDelete
<1> QED BY <1>1, <1>2, <1>3, <1>4, <1>5, <1>6, <1>7, <1>8 DEF Collects

(* Only its own commit ends a pass that has swept, except for a death.     *)
LEMMA SwitchStep ==
  ASSUME TypeOK, [Next]_vars, NEW q \in Procs, pc[q] = "switch", pc'[q] = "idle"
  PROVE  GcSwitch(q)
<1>0. pc \in [Procs -> Pcs]
  BY DEF TypeOK
<1>1. ASSUME NEW p \in Procs, Collects(p) PROVE GcSwitch(q)
  BY <1>0, <1>1 DEF Collects, GcNow, GcCheck, GcStamp, GcExpired, GcExpire, GcDelete, GcUnroot,
       MarkRoot, MarkTree, Marked, GcBlobs, GcCompact, GcSweep, GcSwitch, Goto
<1>2. ASSUME NEW p \in Procs, Writes(p) PROVE FALSE
  BY <1>0, <1>2 DEF Writes, Open, PutBegin, AutoSync, IngestFails, Register, Flush, Sync,
         Close, StartIngest, Put, FlushOne, Destroy, Gone, Goto
<1>3. ASSUME NEW p \in Procs, Kill(p) \/ \E k \in Jobs : Touch(p, k) PROVE FALSE
  BY <1>0, <1>3 DEF Kill, Gone, Goto, Touch
<1>4. ASSUME Tick \/ UNCHANGED vars \/ \E o \in Objects : Rot(o) PROVE FALSE
  BY <1>4 DEF Tick, vars, Rot
<1> QED BY <1>1, <1>2, <1>3, <1>4 DEF Next

(* When a pass has ended, nothing is stored but what a root that is left   *)
(* needs: the walk marks nothing else, and nothing is added until then.    *)
THEOREM QuietSweptClean == QuietPasses => (Spec => SweptClean)
<1> SUFFICES ASSUME QuietPasses PROVE Spec => SweptClean
  OBVIOUS
<1>1. Init => GcInv /\ CleanInv
  <2>1. ASSUME Init PROVE CleanInv
    BY <2>1 DEF Init, CleanInv
  <2> QED BY <2>1, InitKeeps
<1>2. GcInv /\ CleanInv /\ [Next]_vars => (GcInv /\ CleanInv)'
  BY NextKeeps, CleanStep
<1>3. GcInv /\ CleanInv /\ [Next]_vars =>
        \A p \in Procs : pc[p] = "switch" /\ pc'[p] = "idle" =>
          stored' \subseteq UNION {Needs(k) : k \in Registered(meta')}
  <2> SUFFICES ASSUME GcInv, CleanInv, [Next]_vars, NEW p \in Procs, pc[p] = "switch", pc'[p] = "idle"
               PROVE  stored' \subseteq UNION {Needs(k) : k \in Registered(meta')}
    OBVIOUS
  <2>1. GcSwitch(p)
    BY SwitchStep DEF GcInv
  <2>2. stored' = view /\ meta' = vmeta
    BY <2>1 DEF GcSwitch, Commit, Cas!Publish
  <2>3. view \subseteq Needed(vmeta)
    BY DEF CleanInv
  <2> QED BY <2>2, <2>3 DEF Needed
<1> QED BY <1>1, <1>2, <1>3, PTL DEF Spec, SweptClean

-----------------------------------------------------------------------------
(* A root in use stays.                                                    *)

LEMMA PromptFacts ==
  ASSUME PromptTouches
  PROVE  QuietPasses /\ "gcInBatch" \notin Races /\ "slow" \notin Races
BY DEF PromptTouches

LEMMA AgeStep ==
  ASSUME PromptTouches, GcInv, UseInv, AgeInv, [Next]_vars
  PROVE  AgeInv'
<1>0. /\ meta \in [Keys -> Stamps] /\ vmeta \in [Keys -> Stamps] /\ clock \in Stamps
      /\ pc \in [Procs -> Pcs] /\ gc \in [Procs -> GcLocals]
      /\ Stamps \subseteq Nat /\ Ttl \in Nat /\ \A q \in Procs : gc[q].now \in Stamps
  BY GcAssumption DEF GcInv, TypeOK, Stamps, GcLocals
<1>1. clock \in Nat /\ clock' \in Nat /\ clock <= clock'
  BY ClockStep DEF GcInv
<1> SUFFICES ASSUME NEW q \in Procs, pc'[q] \in GcPcs
             PROVE  /\ writer' \in {q, NoProc}
                    /\ gc'[q].now <= clock'
                    /\ \A k \in Keys : meta'[k] <= gc'[q].now
                    /\ pc'[q] = "delete" => \A k \in gc'[q].expired : meta'[k] + Ttl <= gc'[q].now
  BY DEF AgeInv, InGc
<1>2. CASE ~Collects(q)
  <2>1. InGc(q) /\ pc'[q] = pc[q] /\ gc'[q] = gc[q]
    BY <1>2, PassStep DEF InGc, GcInv
  <2>2. UNCHANGED <<stored, writer, view, meta, vmeta>>
    BY <1>2, <2>1, OthersStill, PromptFacts DEF AgeInv, GcPcs
  <2>3. gc[q].now <= clock /\ gc[q].now \in Nat
    BY <1>0, <2>1 DEF AgeInv
  <2>4. gc[q].now <= clock'
    BY <1>1, <2>3
  <2> QED BY <2>1, <2>2, <2>4 DEF AgeInv
<1>3. CASE GcNow(q)
  <2>1. /\ pc'[q] = "check" /\ clock' = clock /\ meta' = meta /\ writer' = writer
        /\ gc' = [gc EXCEPT ![q] = [NoGc EXCEPT !.now = clock]]
    BY <1>0, <1>3 DEF GcNow, Goto, SetGc, tables, cas
  <2>2. gc'[q].now = clock
    BY <1>0, <2>1 DEF NoGc
  <2>3. \A p \in Procs : p # q => writer # p
    BY <1>3, PromptFacts, QuietFacts DEF GcNow, MayBegin, Others
  <2>4. writer \in {q, NoProc}
    BY <2>3 DEF GcInv, TypeOK
  <2>5. ASSUME NEW k \in Keys PROVE meta[k] <= clock
    <3>1. meta[k] \in Nat /\ vmeta[k] \in Nat /\ meta[k] <= vmeta[k] /\ vmeta[k] <= clock
      BY <1>0 DEF UseInv
    <3> QED BY <1>1, <3>1
  <2> QED BY <1>1, <2>1, <2>2, <2>4, <2>5
<1>4. CASE Collects(q) /\ ~GcNow(q)
  <2>1. gc'[q].now = gc[q].now /\ InGc(q)
    BY <1>4, NowKept
  <2>2. /\ writer \in {q, NoProc} /\ gc[q].now <= clock
        /\ \A k \in Keys : meta[k] <= gc[q].now
        /\ pc[q] = "delete" => \A k \in gc[q].expired : meta[k] + Ttl <= gc[q].now
    BY <2>1 DEF AgeInv
  <2>3. gc'[q].now <= clock'
    <3>1. gc[q].now \in Nat
      BY <1>0
    <3> QED BY <1>1, <2>1, <2>2, <3>1
  <2>n. gc[q].now \in Nat /\ 0 <= gc[q].now /\ gc[q].now <= gc[q].now
    <3>1. gc[q].now \in Nat
      BY <1>0
    <3> QED BY <3>1
  <2>u. \A k \in Keys : ~GcUnroot(q, k)
    BY DEF GcUnroot, GcInv, WalkInv
  <2>4. CASE GcStamp(q)
    <3>1. /\ MetaSet(q, LastGc, gc[q].now) /\ LastGc \in Keys /\ pc'[q] = "expire" /\ writer' = writer
      BY <1>0, <2>4 DEF GcStamp, Goto, Keys, cas
    <3>2. \A k \in Keys : meta'[k] = meta[k] \/ meta'[k] = gc[q].now
      BY <3>1, MetaSetFacts
    <3>3. \A k \in Keys : meta'[k] <= gc[q].now
      BY <2>2, <2>n, <3>2
    <3> QED BY <2>1, <2>2, <2>3, <3>1, <3>3
  <2>5. ASSUME NEW d \in Keys, GcDelete(q, d)
        PROVE  /\ writer' \in {q, NoProc}
               /\ \A k \in Keys : meta'[k] <= gc'[q].now
               /\ pc'[q] = "delete" => \A k \in gc'[q].expired : meta'[k] + Ttl <= gc'[q].now
    <3>1. PICK g : g = [gc[q] EXCEPT !.expired = @ \ {d}] /\ gc' = [gc EXCEPT ![q] = g]
      BY <2>5 DEF GcDelete, SetGc
    <3>2. gc'[q] = g /\ g.expired = gc[q].expired \ {d} /\ gc[q].expired \subseteq Keys
      BY <1>0, <3>1 DEF GcLocals
    <3>3. pc[q] = "delete" /\ MetaSet(q, d, 0) /\ writer' = writer
      BY <2>5 DEF GcDelete, cas
    <3>4. \A k \in Keys : meta'[k] = meta[k] \/ (k = d /\ meta'[k] = 0)
      BY <3>3, MetaSetFacts
    <3>5. \A k \in Keys : meta'[k] <= gc[q].now
      BY <2>2, <2>n, <3>4
    <3>6. \A k \in gc[q].expired \ {d} : meta'[k] = meta[k]
      BY <3>2, <3>4
    <3> QED BY <2>1, <2>2, <3>2, <3>3, <3>5, <3>6
  <2>6. ASSUME NEW kind \in {"R", "B"}, GcExpire(q, kind)
        PROVE  /\ writer' \in {q, NoProc} /\ meta' = meta
               /\ \A k \in gc'[q].expired : meta[k] + Ttl <= gc[q].now
    <3>1. PICK K : K = {k \in KeysOf(kind) :
                         Meta(q)[k] # 0 /\ Since(gc[q].now, Meta(q)[k]) >= Ttl}
      OBVIOUS
    <3>2. PICK g : /\ g = [gc[q] EXCEPT !.kinds = @ \ {kind}, !.any = @ \/ K # {}, !.expired = K]
                   /\ gc' = [gc EXCEPT ![q] = g]
      BY <2>6, <3>1 DEF GcExpire, SetGc
    <3>3. gc'[q] = g /\ g.expired = K
      BY <1>0, <3>2 DEF GcLocals
    <3>4. pc[q] = "expire" /\ writer # q /\ meta' = meta /\ writer' = writer
      BY <2>1, <2>6, PassFacts DEF GcExpire, cas, tables
    <3>5. ASSUME NEW k \in K PROVE meta[k] + Ttl <= gc[q].now
      <4>1. k \in Keys /\ Since(gc[q].now, meta[k]) >= Ttl
        BY <3>1, <3>4 DEF Meta, KeysOf, Keys
      <4>2. meta[k] \in Stamps /\ gc[q].now \in Stamps /\ meta[k] <= gc[q].now
        BY <1>0, <2>2, <4>1
      <4>3. Since(gc[q].now, meta[k]) = gc[q].now - meta[k]
        BY <4>2, SinceFacts
      <4>4. meta[k] \in Nat /\ Ttl \in Nat
        BY <1>0, <4>2
      <4> QED BY <2>n, <4>1, <4>3, <4>4
    <3> QED BY <2>2, <3>3, <3>4, <3>5
  <2>7. ASSUME ~GcStamp(q), \A k \in Keys : ~GcDelete(q, k),
               \A kind \in {"R", "B"} : ~GcExpire(q, kind)
        PROVE  meta' = meta /\ writer' \in {q, NoProc} /\ pc'[q] # "delete"
    <3>1. CASE GcCheck(q) \/ GcExpired(q) \/ MarkTree(q) \/ Marked(q) \/ GcBlobs(q)
               \/ \E k \in RootKeys : MarkRoot(q, k)
      BY <1>0, <2>2, <3>1 DEF GcCheck, GcExpired, MarkTree, Marked, GcBlobs, MarkRoot, Goto, cas, tables
    <3>2. CASE GcCompact(q) \/ GcSweep(q)
      BY <1>0, <2>2, <3>2 DEF GcCompact, GcSweep, Cas!Begin, Cas!Collect, Goto, tables
    <3>3. CASE GcSwitch(q)
      BY <1>0, <3>3 DEF GcSwitch, Goto, GcPcs
    <3> QED BY <1>4, <2>u, <2>7, <3>1, <3>2, <3>3 DEF Collects
  <2> QED BY <2>1, <2>2, <2>3, <2>4, <2>5, <2>6, <2>7
<1> QED BY <1>2, <1>3, <1>4

(* Most steps write no stamp, at most commit some.                         *)
LEMMA UseFrame ==
  ASSUME GcInv, UseInv, UNCHANGED <<touch, flush, used, clock, vmeta>>, meta' \in {meta, vmeta},
         \A p \in Procs, k \in Keys : flush[p][k] # 0 => pc'[p] = pc[p]
  PROVE  UseInv'
<1>1. \A k \in Keys : meta[k] \in Nat /\ vmeta[k] \in Nat
  BY GcAssumption DEF GcInv, TypeOK, Stamps
<1>2. \A k \in Keys : meta'[k] <= vmeta[k]
  <2>1. \A k \in Keys : meta[k] <= vmeta[k] /\ vmeta[k] <= vmeta[k]
    BY <1>1 DEF UseInv
  <2> QED BY <2>1
<1> QED BY <1>2 DEF UseInv, Registered

LEMMA UseWrites ==
  ASSUME GcInv, UseInv, NEW p \in Procs,
         \/ Open(p) \/ PutBegin(p) \/ AutoSync(p) \/ IngestFails(p) \/ Sync(p) \/ Close(p)
         \/ \E k \in Jobs : StartIngest(p, k)
         \/ \E o \in Objects : Put(p, o)
  PROVE  UseInv'
<1>1. pc \in [Procs -> Pcs] /\ \A k \in Keys : NoStamps[k] = 0
  BY DEF GcInv, TypeOK, NoStamps
<1>2. UNCHANGED <<touch, flush, used, clock, vmeta>> /\ meta' \in {meta, vmeta}
  BY DEF Open, PutBegin, AutoSync, IngestFails, Sync, Close, StartIngest, Put, Commit, touches, tables
<1>3. \/ pc' = pc
      \/ /\ \A q \in Procs : q # p => pc'[q] = pc[q]
         /\ pc[p] \notin {"syncing", "flushing", "closing"} \/ flush[p] = NoStamps
  BY <1>1 DEF Open, PutBegin, AutoSync, IngestFails, Sync, Close, StartIngest, Put, Goto, Flushed
<1>4. \A q \in Procs, k \in Keys : flush[q][k] # 0 => pc'[q] = pc[q]
  BY <1>1, <1>3 DEF UseInv
<1> QED BY <1>2, <1>4, UseFrame

LEMMA UseCollects ==
  ASSUME GcInv, UseInv, NEW p \in Procs, Collects(p), ~GcStamp(p), \A k \in Keys : ~GcDelete(p, k)
  PROVE  UseInv'
<1>1. pc \in [Procs -> Pcs] /\ \A k \in Keys : NoStamps[k] = 0
  BY DEF GcInv, TypeOK, NoStamps
<1>u. \A k \in Keys : ~GcUnroot(p, k)
  BY DEF GcUnroot, GcInv, WalkInv
<1>2. UNCHANGED <<touch, flush, used, clock, vmeta>> /\ meta' \in {meta, vmeta}
  BY <1>u DEF Collects, GcNow, GcCheck, GcExpired, GcExpire, MarkRoot, MarkTree, Marked, GcBlobs,
       GcCompact, GcSweep, GcSwitch, Commit, touches, tables
<1>3. /\ \A q \in Procs : q # p => pc'[q] = pc[q]
      /\ GcNow(p) \/ InGc(p)
  BY <1>1, <1>u DEF Collects, GcNow, GcCheck, GcExpired, GcExpire, MarkRoot, MarkTree, Marked, GcBlobs,
       GcCompact, GcSweep, GcSwitch, Goto, InGc, GcPcs
<1>4. \A k \in Keys : flush[p][k] = 0
  BY <1>1, <1>3, PassFacts DEF GcNow, Flushed
<1>5. \A q \in Procs, k \in Keys : flush[q][k] # 0 => pc'[q] = pc[q]
  BY <1>3, <1>4
<1> QED BY <1>2, <1>5, UseFrame

LEMMA UseStamp ==
  ASSUME GcInv, UseInv, AgeInv, NEW p \in Procs, GcStamp(p) \/ \E k \in Keys : GcDelete(p, k)
  PROVE  UseInv'
<1>0. /\ \A k \in Keys : meta[k] \in Nat /\ vmeta[k] \in Nat /\ used[k] \in Nat
      /\ clock \in Nat /\ gc[p].now \in Nat
  BY GcAssumption DEF GcInv, TypeOK, Stamps, GcLocals
<1>1. /\ InGc(p) /\ writer = NoProc
      /\ \A q \in Procs, k \in Keys : touch[q][k] = 0 /\ flush[q][k] = 0
  <2>1. InGc(p) /\ pc[p] \notin {"sweep", "switch"}
    BY DEF GcStamp, GcDelete, InGc, GcPcs
  <2> QED BY <2>1, PassFacts DEF AgeInv
<1>2. UNCHANGED <<touch, flush, used, clock>>
  BY DEF GcStamp, GcDelete, touches
<1>3. PICK k \in Keys, s \in {0, gc[p].now} : MetaSet(p, k, s) /\ (s = 0 \/ k = LastGc)
  BY DEF GcStamp, GcDelete, Keys
<1>4. /\ \A x \in Keys : vmeta'[x] = IF x = k THEN s ELSE vmeta[x]
      /\ meta' = vmeta' /\ vmeta = meta
  BY <1>1, <1>3, MetaSetFacts DEF GcInv, BatchInv
<1>5. s \in Nat /\ s <= clock
  BY <1>0, <1>1 DEF AgeInv
<1>6. \A x \in Keys : meta'[x] <= vmeta'[x] /\ vmeta'[x] <= clock' /\ used'[x] <= clock'
  <2> SUFFICES ASSUME NEW x \in Keys
               PROVE  meta'[x] <= vmeta'[x] /\ vmeta'[x] <= clock' /\ used'[x] <= clock'
    OBVIOUS
  <2>1. vmeta[x] <= clock /\ used[x] <= clock
    BY DEF UseInv
  <2>2. vmeta'[x] \in Nat
    BY <1>0, <1>4, <1>5
  <2> QED BY <1>2, <1>4, <1>5, <2>1, <2>2
<1>7. \A x \in Registered(vmeta)' : used'[x] <= vmeta'[x] + TouchInterval
  <2> SUFFICES ASSUME NEW x \in Registered(vmeta)'
               PROVE  used'[x] <= vmeta'[x] + TouchInterval
    OBVIOUS
  <2>1. x # k /\ x \in Keys /\ x \in Registered(vmeta)
    BY <1>3, <1>4 DEF Registered
  <2>2. used[x] <= vmeta[x] + TouchInterval
    BY <1>1, <2>1 DEF UseInv
  <2> QED BY <1>2, <1>4, <2>1, <2>2
<1> QED BY <1>1, <1>2, <1>6, <1>7 DEF UseInv

LEMMA UseRegister ==
  ASSUME GcInv, UseInv, NEW p \in Procs, Register(p)
  PROVE  UseInv'
<1> DEFINE k == job[p]
<1>0. /\ \A x \in Keys : meta[x] \in Nat /\ vmeta[x] \in Nat /\ used[x] \in Nat
      /\ clock \in Nat /\ TouchInterval \in Nat /\ used \in [Keys -> Stamps] /\ pc \in [Procs -> Pcs]
  BY GcAssumption DEF GcInv, TypeOK, Stamps
<1>1. k \in Keys /\ MetaSet(p, k, clock) /\ used' = [used EXCEPT ![k] = clock]
      /\ UNCHANGED <<touch, flush, clock>> /\ pc[p] = "ingest"
      /\ \A q \in Procs : q # p => pc'[q] = pc[q]
  BY <1>0, KeyFacts DEF Register, GcInv, IngestInv, Goto
<1>2. /\ \A x \in Keys : vmeta'[x] = IF x = k THEN clock ELSE vmeta[x]
      /\ \A x \in Keys : meta'[x] = meta[x] \/ (x = k /\ meta'[x] = clock)
  BY <1>1, MetaSetFacts
<1>3. ASSUME NEW x \in Keys
      PROVE  meta'[x] <= vmeta'[x] /\ vmeta'[x] <= clock' /\ used'[x] <= clock'
  <2>1. meta[x] <= vmeta[x] /\ vmeta[x] <= clock /\ used[x] <= clock
    BY DEF UseInv
  <2>2. CASE x = k
    <3>1. meta[x] <= clock /\ clock <= clock
      BY <1>0, <2>1
    <3> QED BY <1>0, <1>1, <1>2, <2>1, <2>2, <3>1
  <2>3. CASE x # k
    BY <1>0, <1>1, <1>2, <2>1, <2>3
  <2> QED BY <2>2, <2>3
<1>4. ASSUME NEW x \in Registered(vmeta)'
      PROVE  \/ used'[x] <= vmeta'[x] + TouchInterval
             \/ \E q \in Procs : touch'[q][x] # 0 \/ flush'[q][x] # 0
  <2>1. CASE x = k
    <3>1. used'[x] = clock /\ vmeta'[x] = clock
      BY <1>0, <1>1, <1>2, <2>1
    <3> QED BY <1>0, <3>1
  <2>2. CASE x # k
    <3>1. x \in Registered(vmeta) /\ used'[x] = used[x] /\ vmeta'[x] = vmeta[x]
      BY <1>0, <1>1, <1>2, <2>2 DEF Registered
    <3> QED BY <1>1, <3>1 DEF UseInv
  <2> QED BY <2>1, <2>2
<1>5. \A q \in Procs, x \in Keys : flush[q][x] # 0 => pc'[q] \in {"syncing", "flushing", "closing"}
  BY <1>1 DEF UseInv
<1> QED BY <1>1, <1>3, <1>4, <1>5 DEF UseInv

LEMMA UseFlush ==
  ASSUME GcInv, UseInv, NEW p \in Procs, Flush(p)
  PROVE  UseInv'
<1>0. /\ touch \in [Procs -> [Keys -> Stamps]] /\ flush \in [Procs -> [Keys -> Stamps]]
      /\ pc \in [Procs -> Pcs] /\ \A k \in Keys : NoStamps[k] = 0
  BY DEF GcInv, TypeOK, NoStamps
<1>1. /\ UNCHANGED <<meta, vmeta, used, clock>>
      /\ pc[p] \in {"sync", "gc", "close"} /\ pc'[p] \in {"syncing", "flushing", "closing"}
      /\ \A q \in Procs : q # p => pc'[q] = pc[q]
  BY <1>0 DEF Flush, Goto, tables
<1>2. /\ \A k \in Keys : touch'[p][k] = 0 /\ flush'[p][k] = touch[p][k] /\ flush[p][k] = 0
      /\ \A q \in Procs : q # p => touch'[q] = touch[q] /\ flush'[q] = flush[q]
  BY <1>0, <1>1 DEF Flush, UseInv
<1>3. \A q \in Procs, k \in Keys :
        /\ touch'[q][k] \in {0, clock'} /\ flush'[q][k] \in {0, clock'}
        /\ flush'[q][k] # 0 => pc'[q] \in {"syncing", "flushing", "closing"}
  BY <1>1, <1>2 DEF UseInv
<1>4. \A q \in Procs, k \in Keys :
        touch[q][k] # 0 \/ flush[q][k] # 0 => touch'[q][k] # 0 \/ flush'[q][k] # 0
  BY <1>2
<1>5. \A x \in Registered(vmeta)' :
        \/ used'[x] <= vmeta'[x] + TouchInterval
        \/ \E q \in Procs : touch'[q][x] # 0 \/ flush'[q][x] # 0
  <2> SUFFICES ASSUME NEW x \in Registered(vmeta), ~(used[x] <= vmeta[x] + TouchInterval)
               PROVE  \E q \in Procs : touch'[q][x] # 0 \/ flush'[q][x] # 0
    BY <1>1 DEF Registered
  <2>1. PICK q \in Procs : touch[q][x] # 0 \/ flush[q][x] # 0
    BY DEF UseInv
  <2>2. x \in Keys
    BY DEF Registered
  <2> QED BY <1>4, <2>1, <2>2
<1> QED BY <1>1, <1>3, <1>5 DEF UseInv

LEMMA UseFlushOne ==
  ASSUME GcInv, UseInv, NEW p \in Procs, NEW k \in Keys, FlushOne(p, k)
  PROVE  UseInv'
<1>0. /\ \A x \in Keys : meta[x] \in Nat /\ vmeta[x] \in Nat /\ used[x] \in Nat
      /\ clock \in Nat /\ TouchInterval \in Nat /\ flush \in [Procs -> [Keys -> Stamps]]
  BY GcAssumption DEF GcInv, TypeOK, Stamps
<1>1. MetaSet(p, k, clock) /\ UNCHANGED <<touch, used, clock, pc>>
      /\ flush' = [flush EXCEPT ![p][k] = 0]
  <2>1. flush[p][k] = clock
    BY DEF FlushOne, UseInv
  <2> QED BY <2>1 DEF FlushOne
<1>2. /\ \A x \in Keys : vmeta'[x] = IF x = k THEN clock ELSE vmeta[x]
      /\ \A x \in Keys : meta'[x] = meta[x] \/ (x = k /\ meta'[x] = clock)
  BY <1>1, MetaSetFacts
<1>3. \A q \in Procs, x \in Keys :
        flush'[q][x] = 0 \/ (flush'[q][x] = flush[q][x])
  BY <1>0, <1>1
<1>4. \A q \in Procs, x \in Keys : x # k => flush'[q][x] = flush[q][x]
  BY <1>0, <1>1
<1>5. ASSUME NEW x \in Keys
      PROVE  meta'[x] <= vmeta'[x] /\ vmeta'[x] <= clock' /\ used'[x] <= clock'
  <2>1. meta[x] <= vmeta[x] /\ vmeta[x] <= clock /\ used[x] <= clock
    BY DEF UseInv
  <2>2. CASE x = k
    <3>1. meta[x] <= clock /\ clock <= clock
      BY <1>0, <2>1
    <3> QED BY <1>0, <1>1, <1>2, <2>1, <2>2, <3>1
  <2>3. CASE x # k
    BY <1>0, <1>1, <1>2, <2>1, <2>3
  <2> QED BY <2>2, <2>3
<1>6. ASSUME NEW x \in Registered(vmeta)'
      PROVE  \/ used'[x] <= vmeta'[x] + TouchInterval
             \/ \E q \in Procs : touch'[q][x] # 0 \/ flush'[q][x] # 0
  <2>1. CASE x = k
    <3>1. used'[x] <= clock /\ vmeta'[x] = clock /\ used'[x] \in Nat
      BY <1>0, <1>1, <1>2, <2>1 DEF UseInv
    <3> QED BY <1>0, <3>1
  <2>2. CASE x # k
    <3>1. x \in Keys /\ x \in Registered(vmeta) /\ used'[x] = used[x] /\ vmeta'[x] = vmeta[x]
      BY <1>0, <1>1, <1>2, <2>2 DEF Registered
    <3> QED BY <1>1, <1>4, <2>2, <3>1 DEF UseInv
  <2> QED BY <2>1, <2>2
<1>7. \A q \in Procs, x \in Keys :
        /\ touch'[q][x] \in {0, clock'} /\ flush'[q][x] \in {0, clock'}
        /\ flush'[q][x] # 0 => pc'[q] \in {"syncing", "flushing", "closing"}
  BY <1>1, <1>3 DEF UseInv
<1> QED BY <1>5, <1>6, <1>7 DEF UseInv

(* A death forgets the uses that it did not record.                        *)
LEMMA UseGone ==
  ASSUME GcInv, UseInv, NEW p \in Procs, Destroy(p) \/ Kill(p)
  PROVE  UseInv'
<1>0. /\ \A x \in Keys : meta[x] \in Nat /\ vmeta[x] \in Nat /\ used[x] \in Nat
      /\ clock \in Nat /\ TouchInterval \in Nat
      /\ touch \in [Procs -> [Keys -> Stamps]] /\ flush \in [Procs -> [Keys -> Stamps]]
      /\ pc \in [Procs -> Pcs] /\ \A k \in Keys : NoStamps[k] = 0
  BY GcAssumption DEF GcInv, TypeOK, Stamps, NoStamps
<1>1. /\ Gone(p) /\ meta' = meta /\ clock' = clock
      /\ vmeta' = IF writer = p THEN meta ELSE vmeta
      /\ used' = [k \in Keys |-> IF k \in Lost(p) THEN meta[k] ELSE used[k]]
  BY DEF Destroy, Kill, Gone, Exit
<1>2. /\ \A k \in Keys : touch'[p][k] = 0 /\ flush'[p][k] = 0
      /\ \A q \in Procs : q # p => touch'[q] = touch[q] /\ flush'[q] = flush[q] /\ pc'[q] = pc[q]
  BY <1>0, <1>1 DEF Gone, Goto
<1>3. ASSUME NEW x \in Keys
      PROVE  meta'[x] <= vmeta'[x] /\ vmeta'[x] <= clock' /\ used'[x] <= clock'
  <2>1. meta[x] <= vmeta[x] /\ vmeta[x] <= clock /\ used[x] <= clock
    BY DEF UseInv
  <2>2. meta[x] <= meta[x] /\ meta[x] <= clock
    BY <1>0, <2>1
  <2> QED BY <1>1, <2>1, <2>2
<1>4. ASSUME NEW x \in Registered(vmeta)'
      PROVE  \/ used'[x] <= vmeta'[x] + TouchInterval
             \/ \E q \in Procs : touch'[q][x] # 0 \/ flush'[q][x] # 0
  <2>0. x \in Keys /\ meta'[x] <= vmeta'[x]
    BY <1>3 DEF Registered
  <2>1. CASE x \in Lost(p)
    <3>1. used'[x] = meta[x] /\ meta[x] <= vmeta'[x] /\ vmeta'[x] \in Nat
      BY <1>0, <1>1, <2>0, <2>1
    <3> QED BY <1>0, <2>0, <3>1
  <2>2. CASE x \notin Lost(p)
    <3>1. /\ touch[p][x] = 0 /\ flush[p][x] = 0 /\ used'[x] = used[x]
          /\ vmeta'[x] = vmeta[x] /\ x \in Registered(vmeta)
      BY <1>1, <2>0, <2>2 DEF Lost, Registered
    <3> QED BY <1>2, <3>1 DEF UseInv
  <2> QED BY <2>1, <2>2
<1>5. \A q \in Procs, x \in Keys :
        /\ touch'[q][x] \in {0, clock'} /\ flush'[q][x] \in {0, clock'}
        /\ flush'[q][x] # 0 => pc'[q] \in {"syncing", "flushing", "closing"}
  BY <1>1, <1>2 DEF UseInv
<1> QED BY <1>3, <1>4, <1>5 DEF UseInv

LEMMA UseTouch ==
  ASSUME GcInv, UseInv, NEW p \in Procs, NEW k \in Jobs, Touch(p, k)
  PROVE  UseInv'
<1>0. /\ \A x \in Keys : meta[x] \in Stamps /\ meta[x] \in Nat /\ vmeta[x] \in Nat /\ used[x] \in Nat
      /\ clock \in Nat /\ clock \in Stamps /\ TouchInterval \in Nat /\ used \in [Keys -> Stamps]
      /\ touch \in [Procs -> [Keys -> Stamps]] /\ k \in Keys /\ clock # 0
  BY KeyFacts, GcAssumption DEF GcInv, TypeOK, Stamps, BatchInv
<1>1. /\ UNCHANGED <<meta, vmeta, clock, flush, pc>> /\ used' = [used EXCEPT ![k] = clock]
      /\ \/ touch' = touch /\ (Since(clock, meta[k]) < TouchInterval \/ touch[p][k] # 0)
         \/ touch' = [touch EXCEPT ![p][k] = clock]
  BY DEF Touch, tables
<1>2. \A q \in Procs, x \in Keys :
        /\ touch'[q][x] \in {0, clock}
        /\ touch[q][x] # 0 => touch'[q][x] # 0
  BY <1>0, <1>1 DEF UseInv
<1>3. ASSUME NEW x \in Keys
      PROVE  meta'[x] <= vmeta'[x] /\ vmeta'[x] <= clock' /\ used'[x] <= clock'
  <2>1. meta[x] <= vmeta[x] /\ vmeta[x] <= clock /\ used[x] <= clock /\ clock <= clock
    BY <1>0 DEF UseInv
  <2> QED BY <1>0, <1>1, <2>1
<1>4. \/ clock <= vmeta[k] + TouchInterval
      \/ touch'[p][k] # 0
  <2>1. CASE Since(clock, meta[k]) < TouchInterval
    <3>1. meta[k] <= vmeta[k] /\ vmeta[k] <= clock
      BY <1>0 DEF UseInv
    <3>2. meta[k] <= clock
      BY <1>0, <3>1
    <3>3. Since(clock, meta[k]) = clock - meta[k]
      BY <1>0, <3>2, SinceFacts
    <3>4. meta[k] \in Nat /\ vmeta[k] \in Nat
      BY <1>0
    <3> QED BY <1>0, <2>1, <3>1, <3>3, <3>4
  <2>2. CASE ~(Since(clock, meta[k]) < TouchInterval)
    BY <1>0, <1>1, <2>2
  <2> QED BY <2>1, <2>2
<1>5. ASSUME NEW x \in Registered(vmeta)'
      PROVE  \/ used'[x] <= vmeta'[x] + TouchInterval
             \/ \E q \in Procs : touch'[q][x] # 0 \/ flush'[q][x] # 0
  <2>1. CASE x = k
    BY <1>0, <1>1, <1>4, <2>1
  <2>2. CASE x # k
    <3>1. x \in Keys /\ x \in Registered(vmeta) /\ used'[x] = used[x] /\ vmeta'[x] = vmeta[x]
      BY <1>0, <1>1, <2>2 DEF Registered
    <3> QED BY <1>1, <1>2, <3>1 DEF UseInv
  <2> QED BY <2>1, <2>2
<1>6. \A q \in Procs, x \in Keys :
        /\ touch'[q][x] \in {0, clock'} /\ flush'[q][x] \in {0, clock'}
        /\ flush'[q][x] # 0 => pc'[q] \in {"syncing", "flushing", "closing"}
  BY <1>1, <1>2 DEF UseInv
<1> QED BY <1>3, <1>5, <1>6 DEF UseInv

LEMMA UseTick ==
  ASSUME PromptTouches, GcInv, UseInv, Tick
  PROVE  UseInv'
<1>0. /\ \A x \in Keys : meta[x] \in Nat /\ vmeta[x] \in Nat /\ used[x] \in Nat
      /\ clock \in Nat /\ \A k \in Keys : NoStamps[k] = 0
  BY GcAssumption DEF GcInv, TypeOK, Stamps, NoStamps
<1>1. /\ UNCHANGED <<meta, vmeta, used, touch, flush, pc>> /\ clock' = clock + 1
      /\ \A q \in Procs, k \in Keys : touch[q][k] = 0 /\ flush[q][k] = 0
  BY <1>0, PromptFacts DEF Tick, tables, touches
<1>2. ASSUME NEW x \in Keys
      PROVE  meta'[x] <= vmeta'[x] /\ vmeta'[x] <= clock' /\ used'[x] <= clock'
  <2>1. meta[x] <= vmeta[x] /\ vmeta[x] <= clock /\ used[x] <= clock
    BY DEF UseInv
  <2> QED BY <1>0, <1>1, <2>1
<1>3. \A x \in Registered(vmeta)' : used'[x] <= vmeta'[x] + TouchInterval
  BY <1>1 DEF UseInv, Registered
<1> QED BY <1>1, <1>2, <1>3 DEF UseInv

LEMMA UseStep ==
  ASSUME PromptTouches, GcInv, UseInv, AgeInv, [Next]_vars
  PROVE  UseInv'
<1>1. ASSUME NEW p \in Procs, Writes(p) PROVE UseInv'
  BY <1>1, UseWrites, UseRegister, UseFlush, UseFlushOne, UseGone DEF Writes
<1>2. ASSUME NEW p \in Procs, Collects(p) PROVE UseInv'
  BY <1>2, UseCollects, UseStamp
<1>3. ASSUME NEW p \in Procs, Kill(p) PROVE UseInv'
  BY <1>3, UseGone
<1>4. ASSUME NEW p \in Procs, NEW k \in Jobs, Touch(p, k) PROVE UseInv'
  BY <1>4, UseTouch
<1>5. ASSUME UNCHANGED vars \/ \E o \in Objects : Rot(o) PROVE UseInv'
  BY <1>5 DEF vars, Rot, tables, touches, UseInv, Registered
<1> QED BY <1>1, <1>2, <1>3, <1>4, <1>5, UseTick DEF Next

(* Only an eviction takes a root out of the committed table, and it takes  *)
(* one that has expired.                                                   *)
LEMMA DropStep ==
  ASSUME GcInv, UseInv, AgeInv, [Next]_vars, NEW k \in Registered(meta) \ Registered(meta')
  PROVE  used[k] + Ttl <= clock + TouchInterval
<1>0. /\ k \in Keys \ {LastGc} /\ meta[k] # 0 /\ meta'[k] = 0 /\ vmeta[k] # 0
      /\ \A x \in Keys : meta[x] \in Nat /\ used[x] \in Nat
      /\ \A p \in Procs : gc[p].now \in Nat
      /\ clock \in Nat /\ clock # 0 /\ TouchInterval \in Nat /\ Ttl \in Nat
  BY GcAssumption DEF GcInv, TypeOK, Stamps, GcLocals, BatchInv, Registered
<1>1. ASSUME NEW p \in Procs PROVE ~Register(p) /\ \A x \in Keys : ~FlushOne(p, x)
  <2>1. ~Register(p)
    <3> SUFFICES ASSUME Register(p) PROVE FALSE
      OBVIOUS
    <3>1. MetaSet(p, job[p], clock) /\ job[p] \in Keys
      BY KeyFacts DEF Register, GcInv, IngestInv
    <3> QED BY <1>0, <3>1, MetaSetFacts
  <2>2. ASSUME NEW x \in Keys, FlushOne(p, x) PROVE FALSE
    <3>1. MetaSet(p, x, flush[p][x]) /\ flush[p][x] # 0
      BY <2>2 DEF FlushOne
    <3> QED BY <1>0, <3>1, MetaSetFacts
  <2> QED BY <2>1, <2>2
<1>2. ASSUME NEW p \in Procs PROVE ~GcStamp(p)
  <2> SUFFICES ASSUME GcStamp(p) PROVE FALSE
    OBVIOUS
  <2>1. MetaSet(p, LastGc, gc[p].now) /\ LastGc \in Keys
    BY DEF GcStamp, Keys
  <2> QED BY <1>0, <2>1, MetaSetFacts
<1>3. PICK p \in Procs, x \in Keys : GcDelete(p, x)
  <2>1. ~(meta' = meta) /\ ~(meta' = vmeta)
    BY <1>0
  <2> QED BY <1>1, <1>2, <2>1, TableStep
<1>4. pc[p] = "delete" /\ x \in gc[p].expired /\ MetaSet(p, x, 0)
  BY <1>3 DEF GcDelete
<1>5. k = x
  BY <1>0, <1>4, MetaSetFacts
<1>6. InGc(p) /\ writer = NoProc /\ \A q \in Procs, y \in Keys : touch[q][y] = 0 /\ flush[q][y] = 0
  <2>1. InGc(p)
    BY <1>4 DEF InGc, GcPcs
  <2> QED BY <1>4, <2>1, PassFacts
<1>7. meta[k] + Ttl <= gc[p].now /\ gc[p].now <= clock
  BY <1>4, <1>5, <1>6 DEF AgeInv
<1>8. used[k] <= meta[k] + TouchInterval
  <2>1. vmeta = meta
    BY <1>6 DEF GcInv, BatchInv
  <2> QED BY <1>0, <1>6, <2>1 DEF UseInv, Registered
<1>9. meta[k] \in Nat /\ used[k] \in Nat /\ gc[p].now \in Nat
  BY <1>0
<1> QED BY <1>0, <1>7, <1>8, <1>9

(* A root that someone registered or touched stays for the TTL, but for    *)
(* the time in which touches are not recorded: the scan of a pass sees     *)
(* every use before it.                                                    *)
THEOREM PromptUsedKept == PromptTouches => (Spec => UsedRootsKept)
<1> SUFFICES ASSUME PromptTouches PROVE Spec => UsedRootsKept
  OBVIOUS
<1>1. Init => GcInv /\ UseInv /\ AgeInv
  <2> SUFFICES ASSUME Init PROVE GcInv /\ UseInv /\ AgeInv
    OBVIOUS
  <2>1. \A k \in Keys : NoStamps[k] = 0
    BY DEF NoStamps
  <2>2. UseInv
    BY <2>1 DEF Init, UseInv, Registered
  <2>3. AgeInv
    BY DEF Init, AgeInv, InGc, GcPcs
  <2> QED BY <2>2, <2>3, InitKeeps
<1>2. GcInv /\ UseInv /\ AgeInv /\ [Next]_vars => (GcInv /\ UseInv /\ AgeInv)'
  BY NextKeeps, UseStep, AgeStep, PromptFacts
<1>3. GcInv /\ UseInv /\ AgeInv /\ [Next]_vars =>
        \A k \in Registered(meta) \ Registered(meta') :
          \/ used[k] + Ttl <= clock + TouchInterval
          \/ Needs(k) \cap rotten # {}
  BY DropStep
<1> QED BY <1>1, <1>2, <1>3, PTL DEF Spec, UsedRootsKept
=============================================================================
