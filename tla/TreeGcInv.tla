------------------------------ MODULE TreeGcInv ------------------------------
(***************************************************************************)
(* The inductive invariant behind RootsWhole and RootSpec of TreeGc, for   *)
(* processes whose passes run into no ingest, no other pass and no pending *)
(* touch of another process, over objects that stay readable.  Where one   *)
(* of these conditions fails, the code can lose objects of a root.         *)
(***************************************************************************)
EXTENDS TreeGc

QuietPasses == Races \cap {"ingestInGc", "twoGcs", "bulk", "held", "rot"} = {}

(* Nothing stored lacks a child, so that a root is whole once it is there. *)
WholeInv ==
  /\ Closed(stored) /\ Closed(view)
  /\ \A k \in Registered(meta) : k \in Jobs /\ k[2] \in stored
  /\ \A k \in Registered(vmeta) : k \in Jobs /\ k[2] \in view

(* The open transaction; only a pass makes it drop anything.               *)
BatchInv ==
  /\ writer = NoProc => view = stored /\ vmeta = meta
  /\ \A p \in Procs : writer = p =>
       /\ pc[p] \in IngestPcs \cup {"idle", "close", "closing", "sweep", "switch"}
       /\ pc[p] # "switch" => stored \subseteq view
       /\ pc[p] = "sweep" => view = stored /\ vmeta = meta
  /\ \A k \in Registered(meta) : vmeta[k] # 0
  /\ clock # 0 /\ ("rot" \notin Races => rotten = {})

(* What an ingest has put is there, in its batch or already committed.     *)
IngestInv ==
  \A p \in Procs : pc[p] = "ingest" =>
    /\ job[p] \in Jobs
    /\ done[p] \subseteq IF writer = p THEN view ELSE stored

(* A pending touch is of a root that is still registered.                  *)
TouchInv ==
  \A p \in Procs, k \in Keys :
    touch[p][k] # 0 \/ flush[p][k] # 0 => k \in Jobs /\ meta[k] # 0

(* A pass is alone, but for batches that began before its first write.     *)
AloneInv ==
  \A q \in Procs : InGc(q) =>
    /\ \A p \in Procs : touch[p] = NoStamps /\ flush[p] = NoStamps
    /\ \A p \in Others(q) : ~InGc(p) /\ (pc[p] \in IngestPcs => writer = p)
    /\ pc[q] \notin {"check", "stamp"} => writer \in {q, NoProc}

(* Every root is marked or still to be; what is marked is there, and so is *)
(* everything beneath it, but for the trees on the stack.                  *)
Elems(s)   == {s[i] : i \in 1 .. Len(s)}
Stacked(q) == Elems(gc[q].stack)
WalkInv ==
  \A q \in Procs :
    /\ pc[q] \in {"check", "stamp", "expire", "delete"} =>
         gc[q].live = {} /\ gc[q].broken = {} /\ gc[q].stack = <<>>
    /\ pc[q] = "delete" => gc[q].expired \subseteq RootKeys \cup BlobKeys
    /\ pc[q] \in {"mark", "unroot", "compact", "sweep"} =>
         gc[q].live \subseteq stored /\ gc[q].broken = {}
    /\ pc[q] = "mark" =>
         /\ gc[q].todo \subseteq Registered(meta)
         /\ Stacked(q) \subseteq gc[q].live
         /\ \A k \in Registered(meta) \cap RootKeys : k \in gc[q].todo \/ k[2] \in gc[q].live
         /\ \A t \in gc[q].live \cap Trees : t \in Stacked(q) \/ Children[t] \subseteq gc[q].live
    /\ pc[q] \in {"unroot", "compact", "sweep"} =>
         /\ \A k \in Registered(meta) \cap RootKeys : k[2] \in gc[q].live
         /\ Closed(gc[q].live)
    /\ pc[q] \in {"compact", "sweep"} => \A k \in Registered(meta) : k[2] \in gc[q].live

GcInv == TypeOK /\ WholeInv /\ BatchInv /\ IngestInv /\ TouchInv /\ AloneInv /\ WalkInv

-----------------------------------------------------------------------------
(* What the properties of single steps need besides.                       *)

(* The stamp of the last pass is older than the pass under way.            *)
RateInv ==
  /\ vmeta[LastGc] = meta[LastGc] /\ meta[LastGc] <= clock
  /\ \A q \in Procs :
       /\ InGc(q) => gc[q].now <= clock
       /\ pc[q] \in {"check", "stamp"} => meta[LastGc] <= gc[q].now
       /\ pc[q] = "stamp" => meta[LastGc] = 0 \/ meta[LastGc] + GcInterval <= gc[q].now

(* What is marked, and then kept, is needed by a registered root.          *)
Needed(m) == UNION {Needs(k) : k \in Registered(m)}
CleanInv ==
  \A q \in Procs :
    /\ pc[q] \in {"mark", "unroot", "compact", "sweep"} => gc[q].live \subseteq Needed(meta)
    /\ pc[q] = "switch" => writer = q /\ view \subseteq Needed(vmeta)

(* No pass begins while a batch is open, and none waits for time to pass   *)
(* with touches pending.                                                   *)
PromptTouches == QuietPasses /\ Races \cap {"gcInBatch", "slow"} = {}

(* The last use of a root is in its stamp, but for the time in which it is *)
(* not recorded, or in a touch that is as old as the clock.                *)
UseInv ==
  /\ \A k \in Keys : meta[k] <= vmeta[k] /\ vmeta[k] <= clock /\ used[k] <= clock
  /\ \A p \in Procs, k \in Keys :
       /\ touch[p][k] \in {0, clock} /\ flush[p][k] \in {0, clock}
       /\ flush[p][k] # 0 => pc[p] \in {"syncing", "flushing", "closing"}
  /\ \A k \in Registered(vmeta) :
       \/ used[k] <= vmeta[k] + TouchInterval
       \/ \E p \in Procs : touch[p][k] # 0 \/ flush[p][k] # 0

(* No stamp is younger than a pass, and what it evicts is older by the TTL.*)
AgeInv ==
  \A q \in Procs : InGc(q) =>
    /\ writer \in {q, NoProc}
    /\ gc[q].now <= clock
    /\ \A k \in Keys : meta[k] <= gc[q].now
    /\ pc[q] = "delete" => \A k \in gc[q].expired : meta[k] + Ttl <= gc[q].now
=============================================================================
