---------------------------- MODULE MCEvalStore ----------------------------
(* Instances of EvalStore.                                                 *)
EXTENDS EvalStore

(* Two threads of a process, and one of another.                           *)
Eval == [t \in {"t1", "t2", "u"} |-> IF t = "u" THEN "q" ELSE "p"]

(* Two store paths of the same contents, under two names, and another one. *)
SharedObject == [p \in {"a", "b", "c"} |-> IF p = "c" THEN "o2" ELSE "o1"]
=============================================================================
