------------------------ MODULE MCActiveObjectQueue ------------------------
(* Bounds for model checking ActiveObjectQueue by itself: the clients make *)
(* at most MaxCalls calls in all, and pthread_cond_wait returns spuriously *)
(* at most MaxSpurious times.  A thread that has left try_pop with the     *)
(* mutex stops every other, so the run may end anywhere.                   *)
EXTENDS ActiveObjectQueue, TLC

CONSTANTS MaxCalls, MaxSpurious

VARIABLES calls, spurious

mcvars == <<qvars, calls, spurious>>

MCInit == QInit /\ calls = 0 /\ spurious = 0

BoundedCall(t) ==
  /\ calls < MaxCalls
  /\ calls' = calls + 1
  /\ \/ \E v \in Items : Call(t, "push", v)
     \/ \E o \in {"pop", "try_pop"} : Call(t, o, None)
  /\ UNCHANGED spurious

BoundedSpuriousWakeup(t) ==
  /\ spurious < MaxSpurious
  /\ spurious' = spurious + 1
  /\ SpuriousWakeup(t)
  /\ UNCHANGED calls

MCNext ==
  \E t \in Threads :
    \/ BoundedCall(t)
    \/ BoundedSpuriousWakeup(t)
    \/ Step(t) /\ UNCHANGED <<calls, spurious>>

MCSpec == MCInit /\ [][MCNext]_mcvars

Symmetry == Permutations(Threads) \cup Permutations(Items)
=============================================================================
