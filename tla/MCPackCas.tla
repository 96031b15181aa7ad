----------------------------- MODULE MCPackCas -----------------------------
(* Model checking of PackCas on small instances.                           *)
EXTENDS PackCasInv, TLC

(* Blobs are interchangeable: no action compares two of them, and the      *)
(* order in which compact copies them is nondeterministic.                 *)
Symmetry == Permutations(Blobs)
(* The cells of an inode that is gone are nobody's business: creating a    *)
(* file empties it.                                                        *)
View == <<lmdb, dir, [f \in Files |-> IF InUse(f) THEN <<data[f], dlen[f]>> ELSE <<>>],
          maps, ends, flock, pc, ogen, rd>>
=============================================================================
