----------------------------- MODULE ItemQueue ------------------------------
(***************************************************************************)
(* The two threads of ingest_archive, src/src/tree.cpp.  A producer reads  *)
(* archive entries into an ItemQueue, bounded by a number of items and of  *)
(* bytes; the consumer, which is the caller, applies them to the tree and  *)
(* then joins the producer.  Either side may fail.                         *)
(*                                                                         *)
(* One action is one critical section of ItemQueue::mutex, or one step     *)
(* outside of it.  A thread in cond.wait() whose predicate was false is in *)
(* "waiting" until it is notified or wakes up for no reason.               *)
(*                                                                         *)
(* An archive is a sequence of entries, each with the size of its data and *)
(* whether apply_item accepts it; "intact" tells whether reading ends with *)
(* ARCHIVE_EOF, or with an error after those entries.                      *)
(***************************************************************************)
EXTENDS Naturals, Sequences

CONSTANTS Archives, MaxItems, MaxBytes

Item == [size : Nat, good : BOOLEAN]
ASSUME QueueAssumption ==
  /\ Archives \subseteq [items : Seq(Item), intact : BOOLEAN]
  /\ MaxItems \in Nat \ {0} /\ MaxBytes \in Nat

VARIABLES
  archive,                          \* what is read; never changes
  items, bytes, done, closed, err,  \* the ItemQueue
  waiting,                          \* threads blocked on its condition variable
  ppc, read, perr,                  \* producer: entries read, what it has caught
  cpc, item, applied,               \* consumer: the entry it holds, entries applied
  outcome                           \* what ingest_archive returns or throws

queue    == <<items, bytes, done, closed, err>>
producer == <<ppc, read, perr>>
consumer == <<cpc, item, applied, outcome>>
vars     == <<archive, queue, waiting, producer, consumer>>

Threads == {"producer", "consumer"}
NoItem  == [size |-> 0, good |-> TRUE]

Init ==
  /\ archive \in Archives
  /\ items = <<>> /\ bytes = 0 /\ done = FALSE /\ closed = FALSE /\ err = "none"
  /\ waiting = {}
  /\ ppc = "read" /\ read = 0 /\ perr = "none"
  /\ cpc = "pop" /\ item = NoItem /\ applied = 0
  /\ outcome = "none"

NotifyAll == waiting' = {}
Wait(t)   == waiting' = waiting \cup {t}

-----------------------------------------------------------------------------
(* The producer.                                                           *)
Read ==
  /\ ppc = "read"
  /\ IF read < Len(archive.items)
       THEN ppc' = "push" /\ read' = read + 1 /\ perr' = perr
       ELSE /\ ppc' = "finish" /\ read' = read
            /\ perr' = IF archive.intact THEN "none" ELSE "broken"
  /\ UNCHANGED <<archive, queue, waiting, consumer>>

Pushed == archive.items[read]

(* Mutant: an item larger than the limit waits although nothing is queued. *)
RoomStrict ==
  closed \/ (Len(items) < MaxItems /\ bytes + Pushed.size <= MaxBytes)

(* Mutant: only the items are counted.                                     *)
RoomItems == closed \/ items = <<>> \/ Len(items) < MaxItems

Room ==
  \/ closed
  \/ items = <<>>
  \/ Len(items) < MaxItems /\ bytes + Pushed.size <= MaxBytes

PushWaits ==
  /\ ppc = "push" /\ "producer" \notin waiting
  /\ ~Room
  /\ Wait("producer")
  /\ UNCHANGED <<archive, queue, producer, consumer>>

Push ==
  /\ ppc = "push" /\ "producer" \notin waiting
  /\ Room /\ ~closed
  /\ bytes' = bytes + Pushed.size
  /\ items' = Append(items, Pushed)
  /\ NotifyAll
  /\ ppc' = "read"
  /\ UNCHANGED <<archive, done, closed, err, read, perr, consumer>>

(* push() throws "consumer gone", which ends the producer like an error of *)
(* the archive does.                                                       *)
PushFails ==
  /\ ppc = "push" /\ "producer" \notin waiting
  /\ Room /\ closed
  /\ ppc' = "finish" /\ perr' = "gone"
  /\ UNCHANGED <<archive, queue, waiting, read, consumer>>

Finish ==
  /\ ppc = "finish"
  /\ done' = TRUE /\ err' = perr
  /\ NotifyAll
  /\ ppc' = "exited"
  /\ UNCHANGED <<archive, items, bytes, closed, read, perr, consumer>>

-----------------------------------------------------------------------------
(* The consumer.                                                           *)
PopWaits ==
  /\ cpc = "pop" /\ "consumer" \notin waiting
  /\ items = <<>> /\ ~done
  /\ Wait("consumer")
  /\ UNCHANGED <<archive, queue, producer, consumer>>

Pop ==
  /\ cpc = "pop" /\ "consumer" \notin waiting
  /\ items # <<>>
  /\ item' = Head(items)
  /\ items' = Tail(items)
  /\ bytes' = bytes - Head(items).size
  /\ NotifyAll
  /\ cpc' = "apply"
  /\ UNCHANGED <<archive, done, closed, err, producer, applied, outcome>>

(* Mutant: an error of the producer ends the loop before the queue is      *)
(* empty.                                                                  *)
PopEndEager ==
  /\ cpc = "pop" /\ "consumer" \notin waiting
  /\ done
  /\ cpc' = "join"
  /\ UNCHANGED <<archive, queue, waiting, producer, item, applied, outcome>>

PopEnd ==
  /\ cpc = "pop" /\ "consumer" \notin waiting
  /\ items = <<>> /\ done
  /\ cpc' = "join"
  /\ UNCHANGED <<archive, queue, waiting, producer, item, applied, outcome>>

Apply ==
  /\ cpc = "apply"
  /\ IF item.good THEN cpc' = "pop" /\ applied' = applied + 1
                  ELSE cpc' = "close" /\ applied' = applied
  /\ UNCHANGED <<archive, queue, waiting, producer, item, outcome>>

Close ==
  /\ cpc = "close"
  /\ closed' = TRUE
  /\ NotifyAll
  /\ cpc' = "unwind"
  /\ UNCHANGED <<archive, items, bytes, done, err, producer, item, applied, outcome>>

(* ~jthread joins the producer before the exception leaves.                *)
Unwind ==
  /\ cpc = "unwind" /\ ppc = "exited"
  /\ cpc' = "returned" /\ outcome' = "rejected"
  /\ UNCHANGED <<archive, queue, waiting, producer, item, applied>>

Join ==
  /\ cpc = "join" /\ ppc = "exited"
  /\ cpc' = "returned"
  /\ outcome' = IF err = "none" THEN "ok" ELSE err
  /\ UNCHANGED <<archive, queue, waiting, producer, item, applied>>

-----------------------------------------------------------------------------
WakeUp ==
  /\ \E t \in waiting : waiting' = waiting \ {t}
  /\ UNCHANGED <<archive, queue, producer, consumer>>

Producer == Read \/ PushWaits \/ Push \/ PushFails \/ Finish
Consumer == PopWaits \/ Pop \/ PopEnd \/ Apply \/ Close \/ Unwind \/ Join
Next == Producer \/ Consumer \/ WakeUp

(* Both threads are scheduled; nothing is assumed of spurious wake-ups.    *)
Fairness == WF_vars(Producer) /\ WF_vars(Consumer)

Spec == Init /\ [][Next]_vars
FairSpec == Spec /\ Fairness

-----------------------------------------------------------------------------
TypeOK ==
  /\ archive \in Archives
  /\ items \in Seq(Item) /\ bytes \in Nat
  /\ done \in BOOLEAN /\ closed \in BOOLEAN
  /\ err \in {"none", "broken", "gone"} /\ perr \in {"none", "broken", "gone"}
  /\ waiting \subseteq Threads
  /\ ppc \in {"read", "push", "finish", "exited"}
  /\ cpc \in {"pop", "apply", "close", "unwind", "join", "returned"}
  /\ read \in 0 .. Len(archive.items) /\ applied \in 0 .. Len(archive.items)
  /\ item \in Item
  /\ outcome \in {"none", "ok", "broken", "rejected"}

Total[s \in Seq(Item)] == IF s = <<>> THEN 0 ELSE Head(s).size + Total[Tail(s)]

(* What is queued is accounted for, and bounded: a tarball of large files  *)
(* buffers at most kMaxBytes, or a single item that is larger.             *)
MemoryBounded ==
  /\ bytes = Total[items]
  /\ Len(items) <= MaxItems
  /\ bytes <= MaxBytes \/ Len(items) = 1

(* Seen from outside, the threads are one loop: the entries are applied in *)
(* archive order, and the first error in that order is the one reported.   *)
Sequential == INSTANCE SequentialIngest
SequentialSpec == Sequential!Spec

(* Whatever fails, and however the threads wait for each other, the call   *)
(* ends, and no thread is left behind.                                     *)
Terminates == <>[](cpc = "returned" /\ ppc = "exited")
=============================================================================
