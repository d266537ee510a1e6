---------------------------- MODULE ActiveObject ----------------------------
(***************************************************************************)
(* ActiveObject of day2/x_active_object/active_object.h: one worker thread *)
(* runs the tasks that any thread hands to Send (LoggerAsync::message is   *)
(* such a task), in the order of the queue, until it gets an empty task    *)
(* from the destructor, which then joins it.                               *)
(***************************************************************************)
EXTENDS ActiveObjectQueue, Functions

CONSTANTS Senders,   (* the threads that call Send                         *)
          Owner,     (* the sender that owns the object                    *)
          Worker,    (* ao_worker                                          *)
          Messages,  (* the tasks, each sent at most once                  *)
          Pill       (* task_t(nullptr)                                    *)

ASSUME ObjectAssumption ==
  /\ Owner \in Senders /\ Worker \notin Senders /\ Threads = Senders \cup {Worker}
  /\ Pill \notin Messages /\ Items = Messages \cup {Pill}

VARIABLES object,     (* where the owner is in the object's life           *)
          started,    (* pthread_create has started the worker             *)
          worker,     (* where ao_worker is in ActiveObject::worker        *)
          sent,       (* per sender: what it has given to Send, in order   *)
          executed    (* the tasks the worker has called, in order         *)

objvars == <<object, started, worker, sent, executed>>
vars == <<qvars, objvars>>

Init ==
  /\ QInit
  /\ object = "construct"
  /\ started = FALSE
  /\ worker = "none"
  /\ sent = [s \in Senders |-> <<>>]
  /\ executed = <<>>

Sent == UNION {Range(sent[s]) : s \in Senders}
-----------------------------------------------------------------------------
(* Mistakes that would be easy to make; nothing below uses them.           *)

(* The destructor does not wait for the worker.                            *)
JoinAtOnce ==
  /\ object = "join"
  /\ object' = "deleted"
  /\ UNCHANGED <<qvars, started, worker, sent, executed>>

(* The worker stops as soon as the object is being destroyed.              *)
ExecuteUntilDestroyed ==
  /\ worker = "pop" /\ pc[Worker] = "idle" /\ item[Worker] # Pill
  /\ executed' = IF object = "use" THEN Append(executed, item[Worker]) ELSE executed
  /\ worker' = "loop"
  /\ UNCHANGED <<qvars, object, started, sent>>

(* The destructor forgets the empty task.                                  *)
DestroyWithoutPill ==
  /\ object = "use"
  /\ \A s \in Senders : pc[s] = "idle"
  /\ object' = "join"
  /\ UNCHANGED <<qvars, started, worker, sent, executed>>
-----------------------------------------------------------------------------
(* launch_thread starts the worker or, when pthread_create fails, returns  *)
(* as if it had: it compares the result with -1.                           *)
Construct ==
  /\ object = "construct"
  /\ object' = "use"
  /\ \/ started' = TRUE /\ worker' = "loop"
     \/ UNCHANGED <<started, worker>>
  /\ UNCHANGED <<qvars, sent, executed>>

Send(s, m) ==
  /\ object = "use"
  /\ m \notin Sent
  /\ Call(s, "push", m)
  /\ sent' = [sent EXCEPT ![s] = Append(@, m)]
  /\ UNCHANGED <<object, started, worker, executed>>

(* The destructor pushes the empty task.  As for any object, the other     *)
(* threads are done with it by then.                                       *)
Destroy ==
  /\ object = "use"
  /\ \A s \in Senders : pc[s] = "idle"
  /\ Call(Owner, "push", Pill)
  /\ object' = "join"
  /\ UNCHANGED <<started, worker, sent, executed>>

(* pthread_join(ao_worker, NULL).                                          *)
Join ==
  /\ object = "join" /\ pc[Owner] = "idle"
  /\ started /\ worker = "exited"
  /\ object' = "deleted"
  /\ UNCHANGED <<qvars, started, worker, sent, executed>>

(* ao_worker was never written: the join returns an error, or the program  *)
(* is lost.                                                                *)
JoinGarbage ==
  /\ object = "join" /\ pc[Owner] = "idle"
  /\ ~started
  /\ object' \in {"deleted", "undefined"}
  /\ UNCHANGED <<qvars, started, worker, sent, executed>>

(* mq.pop(f)                                                               *)
Fetch ==
  /\ worker = "loop"
  /\ Call(Worker, "pop", None)
  /\ worker' = "pop"
  /\ UNCHANGED <<object, started, sent, executed>>

(* f()                                                                     *)
Execute ==
  /\ worker = "pop" /\ pc[Worker] = "idle" /\ item[Worker] # Pill
  /\ executed' = Append(executed, item[Worker])
  /\ worker' = "loop"
  /\ UNCHANGED <<qvars, object, started, sent>>

(* An empty task: break, and the thread ends.                              *)
Exit ==
  /\ worker = "pop" /\ pc[Worker] = "idle" /\ item[Worker] = Pill
  /\ worker' = "exited"
  /\ UNCHANGED <<qvars, object, started, sent, executed>>

WorkerStep == Fetch \/ Execute \/ Exit
QueueStep(t) == Step(t) /\ UNCHANGED objvars

ObjectStep ==
  \/ Construct
  \/ \E s \in Senders, m \in Messages : Send(s, m)
  \/ Destroy \/ Join \/ JoinGarbage
  \/ WorkerStep
  \/ \E t \in Threads : QueueStep(t)

Next ==
  /\ object # "undefined"
  /\ ObjectStep \/ (SpuriousWakeup(Worker) /\ UNCHANGED objvars)

Spec == Init /\ [][Next]_vars
-----------------------------------------------------------------------------
(* What one thread sends is executed in the order it was sent, nothing     *)
(* skipped and nothing twice, however the senders interleave.              *)
PerSenderOrder ==
  /\ \A j, k \in 1 .. Len(executed) : executed[j] = executed[k] => j = k
  /\ \A s \in Senders : \A i, j \in 1 .. Len(sent[s]) : i < j =>
       \A k \in 1 .. Len(executed) : executed[k] = sent[s][j] =>
         \E h \in 1 .. k - 1 : executed[h] = sent[s][i]

(* The destructor returns only when everything that was sent has been      *)
(* executed and the worker is gone, if the worker was ever started.        *)
ExecutedBeforeReturn ==
  object = "deleted" /\ started => worker = "exited" /\ Range(executed) = Sent
=============================================================================
