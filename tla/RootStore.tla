----------------------------- MODULE RootStore -----------------------------
(***************************************************************************)
(* What TreeStore promises (src/src/tree.hpp): objects are stored by       *)
(* batches, roots are registered only once everything they need is there,  *)
(* and a collection keeps what a registered root needs.  A root may be     *)
(* dropped at any time, by itself; when it may, is said by TreeGc.         *)
(***************************************************************************)
CONSTANTS Writers, NoWriter, Objects, Keys,
          Needs(_)   \* the objects that root k keeps alive

VARIABLES
  objs,     \* the objects a lookup finds
  roots,    \* the roots registered
  writer,   \* who has a batch or a collection under way
  vobjs,    \* what its transaction makes of objs
  vroots    \* ... and of roots

vars == <<objs, roots, writer, vobjs, vroots>>

Init ==
  /\ objs = {} /\ roots = {} /\ vobjs = {} /\ vroots = {}
  /\ writer = NoWriter

Begin(w) ==
  /\ writer = NoWriter /\ writer' = w
  /\ UNCHANGED <<objs, roots, vobjs, vroots>>

Add(w, o) ==
  /\ writer = w
  /\ vobjs' = vobjs \cup {o}
  /\ UNCHANGED <<objs, roots, writer, vroots>>

(* A root changes in the transaction that w has open, or else in one of    *)
(* its own, for which there must be no other.                              *)
Register(w, k) ==
  /\ Needs(k) \subseteq vobjs
  /\ \/ writer = w /\ vroots' = vroots \cup {k} /\ roots' = roots
     \/ writer = NoWriter /\ roots' = roots \cup {k} /\ vroots' = roots'
  /\ UNCHANGED <<objs, writer, vobjs>>

Drop(w, k) ==
  /\ \/ writer = w /\ vroots' = vroots \ {k} /\ roots' = roots
     \/ writer = NoWriter /\ roots' = roots \ {k} /\ vroots' = roots'
  /\ UNCHANGED <<objs, writer, vobjs>>

Sweep(w, keep) ==
  /\ writer = w
  /\ \A k \in vroots : Needs(k) \subseteq keep
  /\ vobjs' = keep
  /\ UNCHANGED <<objs, roots, writer, vroots>>

Publish(w) ==
  /\ writer = w /\ writer' = NoWriter
  /\ objs' = vobjs /\ roots' = vroots
  /\ UNCHANGED <<vobjs, vroots>>

(* The writer ends, or dies.                                               *)
Exit(w) ==
  /\ writer = w /\ writer' = NoWriter
  /\ vobjs' = objs /\ vroots' = roots
  /\ UNCHANGED <<objs, roots>>

Next ==
  \E w \in Writers :
    \/ Begin(w) \/ Publish(w) \/ Exit(w)
    \/ \E o \in Objects : Add(w, o)
    \/ \E k \in Keys : Register(w, k) \/ Drop(w, k)
    \/ \E keep \in SUBSET objs : Sweep(w, keep)

Spec == Init /\ [][Next]_vars
=============================================================================
