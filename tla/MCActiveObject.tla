--------------------------- MODULE MCActiveObject ---------------------------
(* Bounds for model checking ActiveObject: the senders and the messages    *)
(* are fixed by the .cfg, and pthread_cond_wait returns spuriously at most *)
(* MaxSpurious times.                                                      *)
EXTENDS ActiveObject, TLC

CONSTANT MaxSpurious

VARIABLE spurious

mcvars == <<vars, spurious>>

MCThreads == Senders \cup {Worker}
MCItems == Messages \cup {Pill}

MCInit == Init /\ spurious = 0

BoundedSpurious ==
  /\ spurious < MaxSpurious
  /\ spurious' = spurious + 1
  /\ SpuriousWakeup(Worker) /\ UNCHANGED objvars

(* The object is gone, or the program has lost its way.                    *)
Terminated ==
  /\ object \in {"deleted", "undefined"}
  /\ UNCHANGED mcvars

MCNext ==
  \/ object # "undefined" /\ ObjectStep /\ UNCHANGED spurious
  \/ object # "undefined" /\ BoundedSpurious
  \/ Terminated

MCSpec == MCInit /\ [][MCNext]_mcvars

(* Every thread that can take a step of its own does so eventually; tasks  *)
(* return.  Nobody has to send anything or to destroy the object.          *)
FairSpec ==
  /\ MCSpec
  /\ WF_vars(object # "undefined" /\ (Construct \/ Join \/ JoinGarbage))
  /\ WF_vars(object # "undefined" /\ (WorkerStep \/ QueueStep(Worker)))
  /\ \A s \in Senders : WF_vars(object # "undefined" /\ QueueStep(s))

(* The destructor comes back.                                              *)
DestructorReturns == object = "join" ~> object \in {"deleted", "undefined"}

(* What was sent is executed although nobody destroys the object.          *)
SentIsExecuted ==
  \A m \in Messages :
    m \in Sent ~> m \in Range(executed) \/ ~started \/ object = "undefined"

Symmetry == Permutations(Messages)
=============================================================================
