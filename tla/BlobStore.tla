----------------------------- MODULE BlobStore -----------------------------
(***************************************************************************)
(* What the pack CAS promises (src/src/pack_cas.hpp): a set of blobs that  *)
(* grows by batches and shrinks by collections.  Both appear at once, to   *)
(* every process; one at a time is under way; what was flushed outlives a  *)
(* power loss; and a lookup that found a blob returns it, whatever has     *)
(* been collected since, or gives up, but never returns anything else.     *)
(***************************************************************************)
CONSTANTS Procs, Blobs, NoProc, NoBlob

VARIABLES
  stored,  \* the blobs a lookup finds
  safe,    \* the blobs found after a power loss, unless later ones are too
  writer,  \* the process with a batch or a collection under way
  view,    \* what stored becomes when it is published
  asked    \* the blob each process found and has not got yet

vars == <<stored, safe, writer, view, asked>>

Init ==
  /\ stored = {} /\ safe = {} /\ view = {}
  /\ writer = NoProc
  /\ asked = [p \in Procs |-> NoBlob]

Begin(p) ==
  /\ writer = NoProc /\ writer' = p
  /\ UNCHANGED <<stored, safe, view, asked>>

Add(p, b) ==
  /\ writer = p
  /\ view' = view \cup {b}
  /\ UNCHANGED <<stored, safe, writer, asked>>

(* Only a process that has added nothing drops blobs.                      *)
Collect(p, keep) ==
  /\ writer = p /\ view = stored
  /\ view' = keep
  /\ UNCHANGED <<stored, safe, writer, asked>>

Publish(p) ==
  /\ writer = p /\ writer' = NoProc
  /\ stored' = view
  /\ UNCHANGED <<safe, view, asked>>

Abandon(p) ==
  /\ writer = p /\ writer' = NoProc
  /\ view' = stored
  /\ UNCHANGED <<stored, safe, asked>>

Flush ==
  /\ safe' = stored
  /\ UNCHANGED <<stored, writer, view, asked>>

Ask(p, b) ==
  /\ asked[p] = NoBlob /\ b \in stored
  /\ asked' = [asked EXCEPT ![p] = b]
  /\ UNCHANGED <<stored, safe, writer, view>>

(* Got the blob, or gave up.                                               *)
Answer(p) ==
  /\ asked[p] # NoBlob
  /\ asked' = [asked EXCEPT ![p] = NoBlob]
  /\ UNCHANGED <<stored, safe, writer, view>>

(* The process ends, or dies.                                              *)
Exit(p) ==
  /\ writer' = IF writer = p THEN NoProc ELSE writer
  /\ view' = IF writer = p THEN stored ELSE view
  /\ asked' = [asked EXCEPT ![p] = NoBlob]
  /\ UNCHANGED <<stored, safe>>

PowerLoss ==
  /\ stored' \in {stored, safe}
  /\ safe' = stored' /\ view' = stored'
  /\ writer' = NoProc
  /\ asked' = [p \in Procs |-> NoBlob]

Next ==
  \/ \E p \in Procs : \/ Begin(p) \/ Publish(p) \/ Abandon(p) \/ Answer(p) \/ Exit(p)
                      \/ \E b \in Blobs : Add(p, b) \/ Ask(p, b)
                      \/ \E keep \in SUBSET stored : Collect(p, keep)
  \/ Flush \/ PowerLoss

Spec == Init /\ [][Next]_vars
=============================================================================
