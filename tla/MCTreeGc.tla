------------------------------ MODULE MCTreeGc ------------------------------
(* Instances of TreeGc.                                                    *)
EXTENDS TreeGc

(* An archive and a blob root.                                             *)
FlatJobs  == {<<"R", "t1">>, <<"B", "f2">>}
OneTree   == [t \in {"t1"} |-> {"f1"}]
OneJob    == {<<"R", "t1">>}

(* Two archives that share a directory; a file of one is a blob root too.  *)
Shared     == [t \in {"t1", "t2", "s"} |->
                 CASE t = "t1" -> {"s", "f2"} [] t = "t2" -> {"s"} [] t = "s" -> {"f1"}]
SharedJobs == {<<"R", "t1">>, <<"R", "t2">>, <<"B", "f2">>}
=============================================================================
