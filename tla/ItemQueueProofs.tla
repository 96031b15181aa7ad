-------------------------- MODULE ItemQueueProofs ---------------------------
(***************************************************************************)
(* ItemQueue implements SequentialIngest and keeps to its limits, for      *)
(* archives of any length and whatever these limits are.                   *)
(*                                                                         *)
(* The inductive invariant says how far each thread is: what is queued is  *)
(* the part of the archive between the entries taken and the entries       *)
(* pushed, and what each thread will report follows from where it stopped. *)
(***************************************************************************)
EXTENDS ItemQueue, WellFoundedInduction, TLAPS

Holding == cpc \in {"apply", "close", "unwind"} \/ outcome = "rejected"
Taken   == IF Holding THEN applied + 1 ELSE applied
Entries == archive.items

Types ==
  /\ archive \in Archives
  /\ items \in Seq(Item) /\ item \in Item
  /\ done \in BOOLEAN /\ closed \in BOOLEAN
  /\ perr \in {"none", "broken", "gone"}
  /\ ppc \in {"read", "push", "finish", "exited"}
  /\ cpc \in {"pop", "apply", "close", "unwind", "join", "returned"}
  /\ read \in Nat /\ applied \in Nat

(* The entries taken, then the entries queued.                             *)
InOrder ==
  /\ Taken + Len(items) <= Len(Entries)
  /\ \A i \in 1 .. Len(items) : items[i] = Entries[Taken + i]
  /\ Holding => item = Entries[Taken]
  /\ cpc \in {"close", "unwind"} => ~item.good

(* Then the entry the producer is about to push, ...                       *)
ProducerAt ==
  /\ read <= Len(Entries)
  /\ ppc = "read" => read = Taken + Len(items)
  /\ ppc = "push" => read = Taken + Len(items) + 1
  /\ ppc \in {"finish", "exited"} /\ perr # "gone" =>
       /\ Taken + Len(items) = Len(Entries)
       /\ perr = IF archive.intact THEN "none" ELSE "broken"
  /\ perr = "gone" => closed

(* ... and what has been reported.                                         *)
Reported ==
  /\ done <=> ppc = "exited"
  /\ done => err = perr
  /\ closed => cpc \in {"unwind", "returned"}
  /\ cpc = "join" => done /\ items = <<>>
  /\ outcome = "none" <=> cpc # "returned"

IInv == Types /\ InOrder /\ ProducerAt /\ Reported

-----------------------------------------------------------------------------
LEMMA ArchiveType ==
  ASSUME archive \in Archives
  PROVE  Entries \in Seq(Item) /\ archive.intact \in BOOLEAN /\ Len(Entries) \in Nat
  BY QueueAssumption DEF Entries

LEMMA Initially == Init => IInv
  <1> SUFFICES ASSUME Init PROVE IInv
    OBVIOUS
  <1>1. Entries \in Seq(Item) /\ Len(Entries) \in Nat
    BY ArchiveType DEF Init
  <1>2. NoItem \in Item
    BY DEF NoItem, Item
  <1> QED
    <2>1. Taken = 0 /\ ~Holding /\ Len(items) = 0 /\ items \in Seq(Item)
      BY DEF Init, Taken, Holding
    <2>2. Types
      BY <1>2, <2>1 DEF Init, Types
    <2>3. InOrder
      BY <1>1, <2>1 DEF Init, InOrder
    <2>4. ProducerAt
      BY <1>1, <2>1 DEF Init, ProducerAt
    <2>5. Reported
      BY DEF Init, Reported
    <2> QED
      BY <2>2, <2>3, <2>4, <2>5 DEF IInv

(* The steps of the producer, but for the push, move only the producer.    *)
LEMMA ProducerSteps ==
  ASSUME IInv, Read \/ PushWaits \/ PushFails \/ Finish PROVE IInv'
  <1>1. Entries' = Entries /\ Taken' = Taken /\ Holding' = Holding /\ items' = items /\ item' = item
    BY DEF Read, PushWaits, PushFails, Finish, queue, producer, consumer, Entries, Taken, Holding
  <1>2. Entries \in Seq(Item) /\ Len(Entries) \in Nat /\ Taken \in Nat /\ Len(items) \in Nat
    BY ArchiveType DEF IInv, Types, Taken
  <1>3. Types'
    <2>1. CASE Read
      BY <1>2, <2>1 DEF IInv, Types, Read, queue, consumer, Entries
    <2>2. CASE PushWaits
      BY <2>2 DEF IInv, Types, PushWaits, queue, producer, consumer
    <2>3. CASE PushFails
      BY <2>3 DEF IInv, Types, PushFails, queue, consumer
    <2>4. CASE Finish
      BY <2>4 DEF IInv, Types, Finish, consumer
    <2> QED
      BY <2>1, <2>2, <2>3, <2>4
  <1>4. InOrder'
    <2>1. (cpc \in {"close", "unwind"})' <=> cpc \in {"close", "unwind"}
      BY DEF Read, PushWaits, PushFails, Finish, queue, producer, consumer
    <2> QED
      BY <1>1, <2>1 DEF IInv, InOrder
  <1>5. ProducerAt'
    <2>1. CASE Read
      BY <1>1, <1>2, <2>1 DEF IInv, Types, InOrder, ProducerAt, Read, queue, consumer, Entries
    <2>2. CASE PushWaits
      BY <1>1, <2>2 DEF IInv, ProducerAt, PushWaits, queue, producer
    <2>3. CASE PushFails
      BY <1>1, <2>3 DEF IInv, ProducerAt, PushFails, queue
    <2>4. CASE Finish
      BY <1>1, <2>4 DEF IInv, ProducerAt, Finish, queue
    <2> QED
      BY <2>1, <2>2, <2>3, <2>4
  <1>6. Reported'
    BY DEF IInv, Types, Reported, Read, PushWaits, PushFails, Finish, queue, producer, consumer
  <1> QED
    BY <1>3, <1>4, <1>5, <1>6 DEF IInv

(* The entry pushed is the one that follows those queued.                  *)
LEMMA PushStep ==
  ASSUME IInv, Push PROVE IInv'
  <1>1. Entries' = Entries /\ Taken' = Taken /\ Holding' = Holding /\ item' = item
    BY DEF Push, consumer, Entries, Taken, Holding
  <1>2. Entries \in Seq(Item) /\ Len(Entries) \in Nat /\ Taken \in Nat /\ Len(items) \in Nat
    BY ArchiveType DEF IInv, Types, Taken
  <1>3. read = Taken + Len(items) + 1 /\ read <= Len(Entries) /\ read \in Nat
    BY DEF IInv, Types, ProducerAt, Push
  <1>4. Pushed = Entries[read] /\ Pushed \in Item
    BY <1>2, <1>3 DEF Pushed, Entries
  <1>5. /\ items' \in Seq(Item) /\ Len(items') = Len(items) + 1
        /\ \A i \in 1 .. Len(items) : items'[i] = items[i]
        /\ items'[Len(items) + 1] = Pushed
    BY <1>4 DEF IInv, Types, Push
  <1>6. Types'
    BY <1>5 DEF IInv, Types, Push, consumer
  <1>7. InOrder'
    <2>1. Taken + Len(items') <= Len(Entries)
      BY <1>2, <1>3, <1>5
    <2>2. ASSUME NEW i \in 1 .. Len(items') PROVE items'[i] = Entries[Taken + i]
      <3>1. CASE i \in 1 .. Len(items)
        BY <1>5, <3>1 DEF IInv, InOrder
      <3>2. CASE i = Len(items) + 1
        BY <1>2, <1>3, <1>4, <1>5, <3>2
      <3> QED
        BY <1>2, <1>5, <3>1, <3>2
    <2> QED
      BY <1>1, <2>1, <2>2 DEF IInv, InOrder, Push, consumer
  <1>8. ProducerAt'
    BY <1>1, <1>2, <1>3, <1>5 DEF IInv, ProducerAt, Push
  <1>9. Reported'
    BY DEF IInv, Types, Reported, Push, consumer
  <1> QED
    BY <1>6, <1>7, <1>8, <1>9 DEF IInv

(* The entry popped is the next of the archive.                            *)
LEMMA PopStep ==
  ASSUME IInv, Pop PROVE IInv'
  <1>1. Entries' = Entries /\ Taken = applied /\ ~Holding
    BY DEF IInv, Reported, Pop, Entries, Taken, Holding
  <1>2. Taken' = Taken + 1 /\ Holding'
    BY <1>1 DEF Pop, Taken, Holding
  <1>3. Entries \in Seq(Item) /\ Len(Entries) \in Nat /\ Taken \in Nat /\ Len(items) \in Nat
    BY ArchiveType DEF IInv, Types, Taken
  <1>4. /\ item' = items[1] /\ item' \in Item /\ items' \in Seq(Item)
        /\ Len(items) > 0 /\ Len(items') = Len(items) - 1
        /\ \A i \in 1 .. Len(items') : items'[i] = items[i + 1]
    BY DEF IInv, Types, Pop
  <1>5. Types'
    BY <1>4 DEF IInv, Types, Pop, producer
  <1>6. InOrder'
    <2>1. Taken' + Len(items') <= Len(Entries')
      BY <1>1, <1>2, <1>3, <1>4 DEF IInv, InOrder
    <2>2. ASSUME NEW i \in 1 .. Len(items') PROVE items'[i] = Entries'[Taken' + i]
      <3>1. i + 1 \in 1 .. Len(items) /\ Taken' + i = Taken + (i + 1)
        BY <1>2, <1>3, <1>4
      <3> QED
        BY <1>1, <1>4, <3>1 DEF IInv, InOrder
    <2>3. item' = Entries'[Taken']
      BY <1>1, <1>2, <1>3, <1>4 DEF IInv, InOrder
    <2>4. ~(cpc \in {"close", "unwind"})'
      BY DEF Pop
    <2> QED
      BY <2>1, <2>2, <2>3, <2>4 DEF InOrder
  <1>7. ProducerAt'
    BY <1>1, <1>2, <1>3, <1>4 DEF IInv, ProducerAt, Pop, producer
  <1>8. Reported'
    BY DEF IInv, Types, Reported, Pop, producer
  <1> QED
    BY <1>5, <1>6, <1>7, <1>8 DEF IInv

(* The other steps of the consumer leave what is taken as it is.           *)
LEMMA ConsumerSteps ==
  ASSUME IInv, PopWaits \/ PopEnd \/ Apply \/ Close \/ Unwind \/ Join PROVE IInv'
  <1>1. Entries' = Entries /\ items' = items /\ item' = item
    BY DEF PopWaits, PopEnd, Apply, Close, Unwind, Join, queue, consumer, Entries
  <1>2. Entries \in Seq(Item) /\ Len(Entries) \in Nat /\ Taken \in Nat /\ Len(items) \in Nat
    BY ArchiveType DEF IInv, Types, Taken
  <1>3. cpc = "join" => err # "gone" /\ err \in {"none", "broken", "gone"}
    BY DEF IInv, Types, ProducerAt, Reported
  <1>4. Taken' = Taken /\ (Holding' => Holding)
    BY <1>3 DEF IInv, Types, Reported, PopWaits, PopEnd, Apply, Close, Unwind, Join, consumer,
                Holding, Taken
  <1>5. Types'
    <2>1. CASE PopWaits
      BY <2>1 DEF IInv, Types, PopWaits, queue, producer, consumer
    <2>2. CASE PopEnd
      BY <2>2 DEF IInv, Types, PopEnd, queue, producer
    <2>3. CASE Apply
      BY <2>3 DEF IInv, Types, Apply, queue, producer
    <2>4. CASE Close
      BY <2>4 DEF IInv, Types, Close, producer
    <2>5. CASE Unwind \/ Join
      BY <2>5 DEF IInv, Types, Unwind, Join, queue, producer
    <2> QED
      BY <2>1, <2>2, <2>3, <2>4, <2>5
  <1>6. InOrder'
    <2>1. (cpc \in {"close", "unwind"})' => ~item.good
      BY DEF IInv, InOrder, PopWaits, PopEnd, Apply, Close, Unwind, Join, consumer
    <2> QED
      BY <1>1, <1>4, <2>1 DEF IInv, InOrder
  <1>7. ProducerAt'
    BY <1>1, <1>4 DEF IInv, ProducerAt, PopWaits, PopEnd, Apply, Close, Unwind, Join, queue, producer
  <1>8. Reported'
    BY <1>3 DEF IInv, Types, Reported, PopWaits, PopEnd, Apply, Close, Unwind, Join, queue,
           producer, consumer
  <1> QED
    BY <1>5, <1>6, <1>7, <1>8 DEF IInv

LEMMA Unchanged ==
  ASSUME IInv, WakeUp \/ UNCHANGED vars PROVE IInv'
  <1>1. UNCHANGED <<archive, queue, producer, consumer>>
    BY DEF WakeUp, vars
  <1>2. UNCHANGED <<Entries, Taken, Holding>>
    BY <1>1 DEF consumer, Entries, Taken, Holding
  <1>3. Types'
    BY <1>1 DEF queue, producer, consumer, IInv, Types
  <1>4. InOrder'
    BY <1>1, <1>2 DEF queue, producer, consumer, IInv, InOrder
  <1>5. ProducerAt'
    BY <1>1, <1>2 DEF queue, producer, consumer, IInv, ProducerAt
  <1>6. Reported'
    BY <1>1 DEF queue, producer, consumer, IInv, Reported
  <1> QED
    BY <1>3, <1>4, <1>5, <1>6 DEF IInv

LEMMA Inductive == IInv /\ [Next]_vars => IInv'
  <1> SUFFICES ASSUME IInv, [Next]_vars PROVE IInv'
    OBVIOUS
  <1>1. CASE Producer
    BY <1>1, ProducerSteps, PushStep DEF Producer
  <1>2. CASE Consumer
    BY <1>2, ConsumerSteps, PopStep DEF Consumer
  <1>3. CASE WakeUp \/ UNCHANGED vars
    BY <1>3, Unchanged
  <1> QED
    BY <1>1, <1>2, <1>3 DEF Next

LEMMA Invariance == Spec => []IInv
  BY Initially, Inductive, PTL DEF Spec

-----------------------------------------------------------------------------
LEMMA InitMaps == Init => Sequential!Init
  BY DEF Init, Sequential!Init

(* A step is one of the loop if it applies an entry or ends the call.      *)
LEMMA StepMaps ==
  ASSUME IInv, [Next]_vars PROVE [Sequential!Next]_Sequential!vars
  <1>1. Entries \in Seq(Item) /\ Len(Entries) \in Nat /\ Len(items) \in Nat /\ applied \in Nat
    BY ArchiveType DEF IInv, Types
  <1>2. CASE Apply
    <2>1. cpc = "apply" /\ outcome = "none" /\ Taken = applied + 1 /\ item = Entries[applied + 1]
      BY <1>2 DEF Apply, IInv, InOrder, Reported, Holding, Taken
    <2>2. applied < Len(Entries)
      BY <1>1, <2>1 DEF IInv, InOrder
    <2>3. CASE item.good
      <3>1. Sequential!Apply
        BY <1>2, <2>1, <2>2, <2>3 DEF Apply, consumer, Entries,
           Sequential!Apply, Sequential!More, Sequential!Entry
      <3> QED
        BY <3>1 DEF Sequential!Next
    <2>4. CASE ~item.good
      BY <1>2, <2>4 DEF Apply, Sequential!vars
    <2> QED
      BY <2>3, <2>4
  <1>3. CASE Unwind
    <2>1. cpc = "unwind" /\ outcome = "none" /\ Taken = applied + 1 /\ ~item.good
          /\ item = Entries[applied + 1]
      BY <1>3 DEF Unwind, IInv, InOrder, Reported, Holding, Taken
    <2>2. applied < Len(Entries)
      BY <1>1, <2>1 DEF IInv, InOrder
    <2>3. Sequential!Reject
      BY <1>3, <2>1, <2>2 DEF Unwind, Entries, Sequential!Reject, Sequential!More, Sequential!Entry
    <2> QED
      BY <2>3 DEF Sequential!Next
  <1>4. CASE Join
    <2>1. cpc = "join" /\ ppc = "exited" /\ outcome = "none" /\ Taken = applied
      BY <1>4 DEF Join, IInv, Reported, Holding, Taken
    <2>2. Len(items) = 0 /\ err = perr /\ perr # "gone"
      BY <2>1 DEF IInv, ProducerAt, Reported
    <2>3. applied = Len(Entries) /\ err = IF archive.intact THEN "none" ELSE "broken"
      BY <1>1, <2>1, <2>2 DEF IInv, ProducerAt
    <2>4. Sequential!End
      BY <1>1, <1>4, <2>1, <2>3 DEF Join, Entries, Sequential!End, Sequential!More
    <2> QED
      BY <2>4 DEF Sequential!Next
  <1>5. CASE Producer \/ PopWaits \/ Pop \/ PopEnd \/ Close \/ WakeUp \/ UNCHANGED vars
    BY <1>5 DEF Producer, Read, PushWaits, Push, PushFails, Finish, PopWaits, Pop, PopEnd, Close,
                WakeUp, vars, queue, producer, consumer, Sequential!vars
  <1> QED
    BY <1>2, <1>3, <1>4, <1>5 DEF Next, Consumer

(* Whatever the archive, the limits of the queue and the schedule of the   *)
(* two threads, the call applies the entries in the order of the archive   *)
(* and reports the first error in that order, as a plain loop does.        *)
THEOREM ImplementsSequential == Spec => SequentialSpec
  BY InitMaps, StepMaps, Invariance, PTL DEF Spec, SequentialSpec, Sequential!Spec

-----------------------------------------------------------------------------
(* Induction over the natural numbers, by the least counterexample.        *)
LEMMA LeastNat ==
  ASSUME NEW S \in SUBSET Nat, S # {}
  PROVE  \E n \in S : \A m \in S : n <= m
  <1> DEFINE R == {ss \in Nat \X Nat : ss[1] < ss[2]}
  <1>1. IsWellFoundedOn(R, Nat)
    BY NatLessThanWellFounded DEF OpToRel
  <1>2. \E x \in S : \A y \in S : ~ (<<y, x>> \in R)
    <2> HIDE DEF R
    <2> QED
      BY <1>1, WFMin
  <1>3. PICK n \in S : \A m \in S : ~ (<<m, n>> \in R)
    BY <1>2
  <1>4. ASSUME NEW m \in S PROVE n <= m
    <2>1. ~ (<<m, n>> \in R) /\ m \in Nat /\ n \in Nat
      BY <1>3
    <2>2. ~ (m < n)
      BY <2>1
    <2> QED
      BY <2>1, <2>2
  <1> QED
    BY <1>4

LEMMA Induct ==
  ASSUME NEW S, 0 \in S, \A n \in Nat : n \in S => n + 1 \in S
  PROVE  Nat \subseteq S
  <1> SUFFICES ASSUME Nat \ S # {} PROVE FALSE
    OBVIOUS
  <1>1. PICK n \in Nat \ S : \A m \in Nat \ S : n <= m
    BY LeastNat
  <1>2. n # 0 /\ n - 1 \in Nat /\ n - 1 \in S /\ n = (n - 1) + 1
    BY <1>1
  <1> QED
    BY <1>1, <1>2

(* There is a function that sums up the sizes of a sequence: up to any     *)
(* length, and all of these agree.                                         *)
Short(n)   == {s \in Seq(Item) : Len(s) <= n}
Sums(n, f) ==
  /\ f \in [Short(n) -> Nat]
  /\ \A s \in Short(n) : f[s] = IF s = <<>> THEN 0 ELSE Head(s).size + f[Tail(s)]

LEMMA TailIs ==
  ASSUME NEW s \in Seq(Item), s # <<>>
  PROVE  /\ Tail(s) \in Seq(Item) /\ Len(s) \in Nat \ {0} /\ Len(Tail(s)) = Len(s) - 1
         /\ Head(s) \in Item /\ Head(s).size \in Nat
  <1>1. Head(s) \in Item
    OBVIOUS
  <1> QED
    BY <1>1 DEF Item

LEMMA SumsExist == \A n \in Nat : \E f : Sums(n, f)
  <1> DEFINE S == {n \in Nat : \E f : Sums(n, f)}
  <1>1. 0 \in S
    <2> DEFINE f == [s \in Short(0) |-> 0]
    <2>1. \A s \in Short(0) : s = <<>>
      BY DEF Short
    <2>2. Sums(0, f)
      BY <2>1 DEF Sums
    <2> QED
      BY <2>2
  <1>2. ASSUME NEW n \in Nat, n \in S PROVE n + 1 \in S
    <2>1. PICK f : Sums(n, f)
      BY <1>2
    <2> DEFINE g == [s \in Short(n + 1) |-> IF s = <<>> THEN 0 ELSE Head(s).size + f[Tail(s)]]
    <2>2. ASSUME NEW s \in Short(n + 1), s # <<>>
          PROVE  /\ Tail(s) \in Short(n) /\ Tail(s) \in Short(n + 1)
                 /\ f[Tail(s)] \in Nat /\ Head(s).size \in Nat
      <3>1. s \in Seq(Item) /\ Len(s) <= n + 1
        BY DEF Short
      <3>2. Tail(s) \in Seq(Item) /\ Len(Tail(s)) <= n /\ Head(s).size \in Nat
        BY <2>2, <3>1, TailIs
      <3>3. Tail(s) \in Short(n) /\ Tail(s) \in Short(n + 1)
        BY <3>2 DEF Short
      <3> QED
        BY <2>1, <3>2, <3>3 DEF Sums
    <2>3. g \in [Short(n + 1) -> Nat]
      BY <2>2
    <2>4. ASSUME NEW s \in Short(n + 1), s # <<>> PROVE g[Tail(s)] = f[Tail(s)]
      <3>1. Tail(s) \in Short(n) /\ Tail(s) \in Short(n + 1)
        BY <2>2, <2>4
      <3>2. f[Tail(s)] = IF Tail(s) = <<>> THEN 0 ELSE Head(Tail(s)).size + f[Tail(Tail(s))]
        BY <2>1, <3>1 DEF Sums
      <3> QED
        BY <3>1, <3>2
    <2>5. Sums(n + 1, g)
      BY <2>3, <2>4 DEF Sums
    <2> QED
      BY <2>5
  <1>3. Nat \subseteq S
    <2> HIDE DEF S
    <2> QED
      BY <1>1, <1>2, Induct
  <1> QED
    BY <1>3

LEMMA SumsAgree ==
  ASSUME NEW m \in Nat, NEW k \in Nat, NEW f, NEW g, Sums(m, f), Sums(k, g)
  PROVE  \A s \in Short(m) \cap Short(k) : f[s] = g[s]
  <1> DEFINE S == {n \in Nat : \A s \in Short(n) \cap Short(m) \cap Short(k) : f[s] = g[s]}
  <1>1. 0 \in S
    BY DEF Short, Sums
  <1>2. ASSUME NEW n \in Nat, n \in S PROVE n + 1 \in S
    <2> SUFFICES ASSUME NEW s \in Short(n + 1) \cap Short(m) \cap Short(k), s # <<>>
                 PROVE  f[s] = g[s]
      BY DEF Sums
    <2>1. /\ s \in Seq(Item) /\ Len(s) <= n + 1 /\ Len(s) <= m /\ Len(s) <= k
      BY DEF Short
    <2>2. Tail(s) \in Short(n) \cap Short(m) \cap Short(k)
      BY <2>1, TailIs DEF Short
    <2>3. f[Tail(s)] = g[Tail(s)]
      BY <1>2, <2>2
    <2> QED
      BY <2>3 DEF Sums
  <1>3. Nat \subseteq S
    <2> HIDE DEF S
    <2> QED
      BY <1>1, <1>2, Induct
  <1>4. ASSUME NEW s \in Short(m) \cap Short(k) PROVE f[s] = g[s]
    <2>1. s \in Seq(Item) /\ Len(s) \in Nat
      BY DEF Short
    <2>2. Len(s) \in S /\ s \in Short(Len(s))
      BY <1>3, <2>1 DEF Short
    <2> QED
      BY <2>2
  <1> QED
    BY <1>4

LEMMA TotalIs ==
  ASSUME NEW s \in Seq(Item)
  PROVE  Total[s] = IF s = <<>> THEN 0 ELSE Head(s).size + Total[Tail(s)]
  <1> DEFINE F == [t \in Seq(Item) |-> (CHOOSE f : Sums(Len(t), f))[t]]
  <1>1. ASSUME NEW t \in Seq(Item)
        PROVE  F[t] = IF t = <<>> THEN 0 ELSE Head(t).size + F[Tail(t)]
    <2> DEFINE f == CHOOSE h : Sums(Len(t), h)
               g == CHOOSE h : Sums(Len(Tail(t)), h)
    <2>1. Len(t) \in Nat /\ Sums(Len(t), f) /\ t \in Short(Len(t)) /\ F[t] = f[t]
      BY SumsExist DEF Short
    <2>2. CASE t = <<>>
      BY <2>1, <2>2 DEF Sums
    <2>3. CASE t # <<>>
      <3>1. /\ Tail(t) \in Seq(Item) /\ Len(Tail(t)) \in Nat /\ Len(Tail(t)) <= Len(t)
        BY <2>3, TailIs
      <3>2. Sums(Len(Tail(t)), g) /\ F[Tail(t)] = g[Tail(t)]
        BY <3>1, SumsExist
      <3>3. Tail(t) \in Short(Len(t)) \cap Short(Len(Tail(t)))
        BY <3>1 DEF Short
      <3> HIDE DEF f, g, F
      <3>4. f[Tail(t)] = g[Tail(t)]
        BY <2>1, <3>1, <3>2, <3>3, SumsAgree
      <3> QED
        BY <2>1, <2>3, <3>2, <3>4 DEF Sums
    <2> QED
      BY <2>2, <2>3
  <1>2. F = [t \in Seq(Item) |-> IF t = <<>> THEN 0 ELSE Head(t).size + F[Tail(t)]]
    <2>1. F = [t \in Seq(Item) |-> F[t]]
      OBVIOUS
    <2> HIDE DEF F
    <2> QED
      BY <1>1, <2>1
  <1>3. Total = CHOOSE f : f = [t \in Seq(Item) |-> IF t = <<>> THEN 0 ELSE Head(t).size + f[Tail(t)]]
    BY DEF Total
  <1>4. Total = [t \in Seq(Item) |-> IF t = <<>> THEN 0 ELSE Head(t).size + Total[Tail(t)]]
    <2> HIDE DEF F
    <2> QED
      BY <1>2, <1>3
  <1> QED
    BY <1>4

(* The sum of a sequence is a number, and an item appended adds its size.  *)
LEMMA TotalAppends ==
  \A s \in Seq(Item) :
    Total[s] \in Nat /\ \A e \in Item : Total[Append(s, e)] = Total[s] + e.size
  <1> DEFINE Fine(s) ==
        Total[s] \in Nat /\ \A e \in Item : Total[Append(s, e)] = Total[s] + e.size
             S == {n \in Nat : \A s \in Short(n) : Fine(s)}
  <1>0. \A e \in Item : e.size \in Nat
    BY DEF Item
  <1>1. 0 \in S
    <2> SUFFICES ASSUME NEW s \in Short(0) PROVE Fine(s)
      OBVIOUS
    <2>1. s = <<>> /\ s \in Seq(Item)
      BY DEF Short
    <2>2. Total[s] = 0
      BY <2>1, TotalIs
    <2>3. ASSUME NEW e \in Item PROVE Total[Append(s, e)] = e.size
      <3>1. /\ Append(s, e) \in Seq(Item) /\ Append(s, e) # <<>>
            /\ Head(Append(s, e)) = e /\ Tail(Append(s, e)) = <<>>
        BY <2>1
      <3>2. Total[Append(s, e)] = e.size + 0
        BY <2>1, <2>2, <3>1, TotalIs
      <3> QED
        BY <1>0, <3>2
    <2> QED
      BY <1>0, <2>2, <2>3
  <1>2. ASSUME NEW n \in Nat, n \in S PROVE n + 1 \in S
    <2> SUFFICES ASSUME NEW s \in Short(n + 1) PROVE Fine(s)
      OBVIOUS
    <2>1. s \in Seq(Item) /\ Len(s) <= n + 1
      BY DEF Short
    <2>2. CASE s = <<>>
      <3>1. s \in Short(n)
        BY <2>2 DEF Short
      <3> QED
        BY <1>2, <3>1
    <2>3. CASE s # <<>>
      <3>1. Tail(s) \in Short(n) /\ Tail(s) \in Seq(Item) /\ Head(s).size \in Nat
        BY <2>1, <2>3, TailIs DEF Short
      <3>2. Fine(Tail(s))
        BY <1>2, <3>1
      <3>3. Total[s] = Head(s).size + Total[Tail(s)]
        BY <2>1, <2>3, TotalIs
      <3>4. ASSUME NEW e \in Item PROVE Total[Append(s, e)] = Total[s] + e.size
        <4>1. /\ Append(s, e) \in Seq(Item) /\ Append(s, e) # <<>>
              /\ Head(Append(s, e)) = Head(s) /\ Tail(Append(s, e)) = Append(Tail(s), e)
          BY <2>1, <2>3
        <4>2. Total[Append(s, e)] = Head(s).size + Total[Append(Tail(s), e)]
          BY <4>1, TotalIs
        <4>3. Total[Append(Tail(s), e)] = Total[Tail(s)] + e.size
          BY <3>2
        <4> QED
          BY <1>0, <3>1, <3>2, <3>3, <4>2, <4>3
      <3> QED
        BY <3>1, <3>2, <3>3, <3>4
    <2> QED
      BY <2>2, <2>3
  <1>3. Nat \subseteq S
    <2> HIDE DEF S
    <2> QED
      BY <1>1, <1>2, Induct
  <1>4. ASSUME NEW s \in Seq(Item) PROVE Fine(s)
    <2>1. Len(s) \in S /\ s \in Short(Len(s))
      BY <1>3 DEF Short
    <2> QED
      BY <2>1
  <1> QED
    BY <1>4

LEMMA PushBounded ==
  ASSUME IInv, MemoryBounded, Push PROVE MemoryBounded'
  <1>1. Entries \in Seq(Item) /\ Len(Entries) \in Nat /\ items \in Seq(Item)
    BY ArchiveType DEF IInv, Types
  <1>2. read \in Nat /\ read # 0 /\ read <= Len(Entries)
    BY <1>1 DEF IInv, Types, ProducerAt, Taken, Push
  <1>3. Pushed \in Item
    BY <1>1, <1>2 DEF Pushed, Entries
  <1>4. Total[items] \in Nat /\ Total[items'] = bytes' /\ Pushed.size \in Nat
    BY <1>1, <1>3, TotalAppends DEF Push, MemoryBounded, Item
  <1>5. Len(items) \in Nat /\ Len(items') = Len(items) + 1 /\ (items = <<>> => Len(items) = 0)
    BY <1>1, <1>3 DEF Push
  <1>6. bytes' = bytes + Pushed.size /\ (items = <<>> \/ (Len(items) < MaxItems /\ bytes' <= MaxBytes))
    BY DEF Push, Room
  <1> QED
    BY <1>4, <1>5, <1>6, QueueAssumption DEF MemoryBounded

LEMMA PopBounded ==
  ASSUME IInv, MemoryBounded, Pop PROVE MemoryBounded'
  <1>1. items \in Seq(Item) /\ items # <<>> /\ items' = Tail(items)
        /\ bytes' = bytes - Head(items).size /\ bytes = Total[items]
    BY DEF IInv, Types, Pop, MemoryBounded
  <1>2. /\ items' \in Seq(Item) /\ Len(items) \in Nat \ {0} /\ Len(items') = Len(items) - 1
        /\ Head(items).size \in Nat
    BY <1>1, TailIs
  <1>3. Total[items] = Head(items).size + Total[items'] /\ Total[items'] \in Nat
    BY <1>1, <1>2, TotalIs, TotalAppends
  <1>4. bytes' = Total[items'] /\ bytes' <= bytes /\ bytes' \in Nat /\ bytes \in Nat
    BY <1>1, <1>2, <1>3
  <1>5. Len(items') = 0 => bytes' = 0
    <2>1. Len(items') = 0 => items' = <<>>
      BY <1>2
    <2> QED
      BY <1>2, <1>4, <2>1, TotalIs
  <1> QED
    BY <1>2, <1>4, <1>5, QueueAssumption DEF MemoryBounded

(* The queue never holds more items or bytes than it may, but for a single *)
(* item that is larger than all of it; and what it counts is what it holds.*)
THEOREM MemoryIsBounded == Spec => []MemoryBounded
  <1>1. Init => MemoryBounded
    <2> SUFFICES ASSUME Init PROVE MemoryBounded
      OBVIOUS
    <2>1. items = <<>> /\ items \in Seq(Item) /\ Len(items) = 0 /\ bytes = 0
      BY DEF Init
    <2>2. Total[items] = 0
      BY <2>1, TotalIs
    <2> QED
      BY <2>1, <2>2, QueueAssumption DEF MemoryBounded
  <1>2. IInv /\ MemoryBounded /\ [Next]_vars => MemoryBounded'
    <2> SUFFICES ASSUME IInv, MemoryBounded, [Next]_vars PROVE MemoryBounded'
      OBVIOUS
    <2>1. CASE Push \/ Pop
      BY <2>1, PushBounded, PopBounded
    <2>2. CASE ~(Push \/ Pop)
      <3>1. items' = items /\ bytes' = bytes
        BY <2>2 DEF Next, Producer, Consumer, WakeUp, Read, PushWaits, PushFails, Finish, PopWaits,
                    PopEnd, Apply, Close, Unwind, Join, vars, queue
      <3> QED
        BY <3>1 DEF MemoryBounded
    <2> QED
      BY <2>1, <2>2
  <1> QED
    BY <1>1, <1>2, Invariance, PTL DEF Spec
=============================================================================
