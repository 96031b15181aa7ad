---------------------------- MODULE MCItemQueue -----------------------------
(* Instances of ItemQueue.                                                 *)
EXTENDS ItemQueue

CONSTANTS MaxLength, Sizes   \* bounds: entries of an archive, and their sizes

Contents == [size : Sizes, good : BOOLEAN]
SmallArchives ==
  [items : UNION {[1 .. n -> Contents] : n \in 0 .. MaxLength}, intact : BOOLEAN]
=============================================================================
