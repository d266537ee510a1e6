------------------------- MODULE MCThreadSafeQueue -------------------------
(* Bounds for model checking ThreadSafeQueue: the clients make at most     *)
(* MaxCalls calls in all, in any interleaving, and pthread_cond_wait       *)
(* returns spuriously at most MaxSpurious times.                           *)
EXTENDS ThreadSafeQueue, TLC

CONSTANTS MaxCalls, MaxSpurious

VARIABLES calls, spurious

mcvars == <<qvars, calls, spurious>>

MCInit == QInit /\ calls = 0 /\ spurious = 0

BoundedCall(t) ==
  /\ calls < MaxCalls
  /\ calls' = calls + 1
  /\ \/ \E v \in Items : Call(t, "push", v)
     \/ \E o \in Operations \ {"push"} : Call(t, o, None)
  /\ UNCHANGED spurious

BoundedSpuriousWakeup(t) ==
  /\ spurious < MaxSpurious
  /\ spurious' = spurious + 1
  /\ SpuriousWakeup(t)
  /\ UNCHANGED calls

MCNext ==
  \E t \in Threads :
    \/ BoundedCall(t)
    \/ BoundedSpuriousWakeup(t)
    \/ Step(t) /\ UNCHANGED <<calls, spurious>>

MCSpec == MCInit /\ [][MCNext]_mcvars

(* A runnable thread is eventually scheduled.  Nothing makes a client call *)
(* again, and nothing forces a spurious wakeup.                            *)
FairSpec == MCSpec /\ \A t \in Threads : WF_qvars(Step(t))

(* Every call returns, except pops that have nothing to take: once the     *)
(* clients stop calling, each thread is out of the queue or blocked in a   *)
(* pop on an empty queue, for good.                                        *)
CallsComplete ==
  <>[](\A t \in Threads : pc[t] = "idle" \/ (pc[t] = "waiting" /\ q = <<>>))

Symmetry == Permutations(Threads) \cup Permutations(Items)
=============================================================================
