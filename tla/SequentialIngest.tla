-------------------------- MODULE SequentialIngest --------------------------
(***************************************************************************)
(* What ingest_archive of src/src/tree.cpp promises whoever calls it: the  *)
(* result of a plain loop that reads an entry and applies it, although the *)
(* reading is done by a thread of its own, entries ahead.  ItemQueue       *)
(* implements it.                                                          *)
(***************************************************************************)
EXTENDS Naturals, Sequences

CONSTANT Archives   \* see ItemQueue

VARIABLES
  archive,   \* its entries, and whether it ends well
  applied,   \* how many entries have been applied
  outcome    \* what ingest_archive returns or throws, "none" until it does

vars == <<archive, applied, outcome>>

Init == archive \in Archives /\ applied = 0 /\ outcome = "none"

More == applied < Len(archive.items)
Entry == archive.items[applied + 1]

Apply ==
  /\ outcome = "none" /\ More /\ Entry.good
  /\ applied' = applied + 1
  /\ UNCHANGED <<archive, outcome>>

Reject ==
  /\ outcome = "none" /\ More /\ ~Entry.good
  /\ outcome' = "rejected"
  /\ UNCHANGED <<archive, applied>>

End ==
  /\ outcome = "none" /\ ~More
  /\ outcome' = IF archive.intact THEN "ok" ELSE "broken"
  /\ UNCHANGED <<archive, applied>>

Next == Apply \/ Reject \/ End

Spec == Init /\ [][Next]_vars
=============================================================================
