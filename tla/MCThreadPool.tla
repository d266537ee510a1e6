---------------------------- MODULE MCThreadPool ----------------------------
(* Bounds for model checking ThreadPool: the pool and the set of tasks are *)
(* fixed by the .cfg, and pthread_cond_wait returns spuriously at most     *)
(* MaxSpurious times.                                                      *)
EXTENDS ThreadPool, TLC

CONSTANT MaxSpurious

VARIABLE spurious

mcvars == <<vars, spurious>>

MCThreads == {Main} \cup Workers
MCItems == Tasks \cup {Pill}

MCInit == PoolInit /\ spurious = 0

BoundedSpurious(w) ==
  /\ spurious < MaxSpurious
  /\ spurious' = spurious + 1
  /\ PoolSpurious(w)

(* The pool is gone, or the program has lost its way.                      *)
Terminated ==
  /\ main \in {"deleted", "undefined"}
  /\ UNCHANGED mcvars

MCNext ==
  \/ /\ main # "undefined"
     /\ \/ PoolStep /\ UNCHANGED spurious
        \/ \E w \in Workers : BoundedSpurious(w)
  \/ Terminated

MCSpec == MCInit /\ [][MCNext]_mcvars

(* Every thread that can take a step of its own does so eventually; tasks  *)
(* return.  Nothing makes the owner add a task or destroy the pool.        *)
OwnerStep == main # "undefined" /\ (MainStep \/ QueueStep(Main))
PoolWorkerStep(w) == main # "undefined" /\ (WorkerStep(w) \/ QueueStep(w))

Fairness ==
  /\ WF_vars(OwnerStep)
  /\ \A w \in Workers : WF_vars(PoolWorkerStep(w))

FairSpec == MCSpec /\ Fairness

(* The destructor comes back: each worker gets a pill, exits and is        *)
(* joined, however many tasks were still waiting.                          *)
DestructorReturns ==
  main = "push_pills" ~> main \in {"deleted", "undefined"}

(* A task is called although the pool is not destroyed, if there is a      *)
(* worker to call it.                                                      *)
TaskCalled ==
  \A t \in Tasks :
    t \in submitted ~> runs[t] = 1 \/ created = {} \/ main = "undefined"

Symmetry == Permutations(Tasks)
=============================================================================
