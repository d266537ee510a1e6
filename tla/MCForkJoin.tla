---------------------------- MODULE MCForkJoin ------------------------------
(* Bounds for model checking ForkJoin: the numbers of threads are those of *)
(* the programs; the inputs are short, with every remainder.               *)
EXTENDS ForkJoin

MCLengths == 0 .. 7
MCWorkers == [p \in Programs |-> IF p = "sum" THEN 4 ELSE 2]

(* main has returned, or nothing can be said any more.                     *)
Terminated == main \in {"done", "undefined"} /\ UNCHANGED vars
MCSpec == Init /\ [][Next \/ Terminated]_vars
=============================================================================
