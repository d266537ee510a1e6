---------------------------- MODULE MCRwlockTree ----------------------------
(* Bounds for model checking RwlockTree: the threads make at most MaxCalls *)
(* calls, and no more inserts than there are nodes.                        *)
EXTENDS RwlockTree, TLC

CONSTANT MaxCalls

VARIABLES calls, inserts

mcvars == <<vars, calls, inserts>>

MCInit == Init /\ calls = 0 /\ inserts = 0

BoundedCall(t) ==
  /\ calls < MaxCalls
  /\ calls' = calls + 1
  /\ \E k \in Keys :
       \/ Call(t, "search", k) /\ UNCHANGED inserts
       \/ /\ inserts < Cardinality(Nodes)
          /\ inserts' = inserts + 1
          /\ Call(t, "insert", k)

Terminated == object = "destroyed" /\ UNCHANGED mcvars

MCNext ==
  \/ \E t \in Threads : BoundedCall(t) \/ (Step(t) /\ UNCHANGED <<calls, inserts>>)
  \/ (Destroy \/ DestroyTree \/ Destroyed) /\ UNCHANGED <<calls, inserts>>
  \/ Terminated

MCSpec == MCInit /\ [][MCNext]_mcvars

(* A runnable thread is eventually scheduled, one that waits for the lock  *)
(* too once it stays free.  Each caller stops calling after a while, as    *)
(* tree_writer and tree_reader do: readers could keep a writer out.        *)
FairSpec == MCSpec /\ \A t \in Threads : WF_vars(Step(t))

(* Every insert and every search returns.                                  *)
CallsReturn == <>[](\A t \in Threads : pc[t] = "idle")

Symmetry == Permutations(Threads) \cup Permutations(Nodes)
=============================================================================
