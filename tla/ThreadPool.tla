----------------------------- MODULE ThreadPool -----------------------------
(***************************************************************************)
(* threadpool of day3/socknet/thread/threadpool.cpp (day2/ex_ThreadPool    *)
(* holds the same text) on its thread_safe_queue: the thread that owns the *)
(* pool runs the constructor, add_task and the destructor; the workers run *)
(* threadpool::worker.  The destructor pushes one empty task, the pill,    *)
(* per worker, and joins the workers in the order they were launched.      *)
(*                                                                         *)
(* The calls into the queue are those of ThreadSafeQueue, step by step.    *)
(***************************************************************************)
EXTENDS ThreadSafeQueue

CONSTANTS PoolSize,   (* pool_size_                                        *)
          Tasks,      (* the tasks the owner may add, each at most once    *)
          Pill        (* task_t(nullptr)                                   *)

Main == 0
Workers == 1..PoolSize      (* worker i runs on threads[i - 1]             *)

ASSUME PoolAssumption ==
  /\ PoolSize \in Nat
  /\ Threads = {Main} \cup Workers
  /\ Pill \notin Tasks
  /\ Items = Tasks \cup {Pill}

VARIABLES main,        (* what the owner is doing with the pool            *)
          i,           (* how far it is in the loop it runs over threads   *)
          created,     (* the workers pthread_create has started           *)
          worker,      (* per worker: where it is in threadpool::worker    *)
          submitted,   (* the tasks given to add_task                      *)
          runs         (* per task: how often it was called                *)

poolvars == <<main, i, created, worker, submitted, runs>>
vars == <<qvars, poolvars>>

MainPoints == {"construct", "use", "push_pills", "join", "deleted", "undefined"}
WorkerPoints == {"none", "loop", "pop", "run", "exited"}

PoolInit ==
  /\ QInit
  /\ main = "construct"
  /\ i = 0
  /\ created = {}
  /\ worker = [w \in Workers |-> "none"]
  /\ submitted = {}
  /\ runs = [t \in Tasks |-> 0]

(* The owner leaves one loop or phase for the next.                        *)
Phase(p) == main' = p /\ i' = 0 /\ UNCHANGED <<created, worker, submitted, runs>>
-----------------------------------------------------------------------------
(* Mistakes that would be easy to make in this class.  Nothing below uses  *)
(* them: each shows, put in the place of the right action, that a property *)
(* of the pool can fail.                                                   *)

(* ... or once too seldom.                                                 *)
PillsPushedOneShort ==
  /\ main = "push_pills" /\ i + 1 = PoolSize /\ pc[Main] = "idle"
  /\ Phase("join")
  /\ UNCHANGED qvars

(* The workers are detached instead of joined.                             *)
JoinWithoutWaiting ==
  /\ main = "join" /\ i < PoolSize
  /\ i + 1 \in created
  /\ i' = i + 1
  /\ UNCHANGED <<qvars, main, created, worker, submitted, runs>>

(* A worker stops when the pool is being destroyed, whatever it has popped.*)
WorkerExitAtOnce(w) ==
  /\ worker[w] = "pop" /\ pc[w] = "idle"
  /\ item[w] = Pill \/ main \notin {"construct", "use"}
  /\ worker' = [worker EXCEPT ![w] = "exited"]
  /\ UNCHANGED <<qvars, main, i, created, submitted, runs>>

(* A worker goes on with the task it has already called.                   *)
WorkerDoneKeepsTask(w) ==
  /\ worker[w] = "run"
  /\ worker' = [worker EXCEPT ![w] = "pop"]
  /\ UNCHANGED <<qvars, main, i, created, submitted, runs>>

(* A worker calls one task and ends.                                       *)
WorkerDoneForGood(w) ==
  /\ worker[w] = "run"
  /\ worker' = [worker EXCEPT ![w] = "exited"]
  /\ UNCHANGED <<qvars, main, i, created, submitted, runs>>
-----------------------------------------------------------------------------
(* launch_thread(&threads[i], ...).  pthread_create either starts the      *)
(* worker or returns EAGAIN; launch_thread compares the result with -1,    *)
(* so the constructor goes on in either case.                              *)
Launch ==
  /\ main = "construct" /\ i < PoolSize
  /\ i' = i + 1
  /\ \/ /\ created' = created \cup {i + 1}
        /\ worker' = [worker EXCEPT ![i + 1] = "loop"]
     \/ UNCHANGED <<created, worker>>
  /\ UNCHANGED <<qvars, main, submitted, runs>>

Constructed ==
  /\ main = "construct" /\ i = PoolSize
  /\ Phase("use")
  /\ UNCHANGED qvars

AddTask(t) ==
  /\ main = "use"
  /\ t \notin submitted
  /\ Call(Main, "push", t)
  /\ submitted' = submitted \cup {t}
  /\ UNCHANGED <<main, i, created, worker, runs>>

(* The owner, back from its last add_task, destroys the pool.              *)
Destroy ==
  /\ main = "use" /\ pc[Main] = "idle"
  /\ Phase("push_pills")
  /\ UNCHANGED qvars

PushPill ==
  /\ main = "push_pills" /\ i < PoolSize
  /\ Call(Main, "push", Pill)
  /\ i' = i + 1
  /\ UNCHANGED <<main, created, worker, submitted, runs>>

PillsPushed ==
  /\ main = "push_pills" /\ i = PoolSize /\ pc[Main] = "idle"
  /\ Phase("join")
  /\ UNCHANGED qvars

(* pthread_join(threads[i], NULL) returns once the worker has exited.      *)
Join ==
  /\ main = "join" /\ i < PoolSize
  /\ i + 1 \in created /\ worker[i + 1] = "exited"
  /\ i' = i + 1
  /\ UNCHANGED <<qvars, main, created, worker, submitted, runs>>

(* threads[i] was never written: joining what it happens to hold is        *)
(* undefined.  The call returns ESRCH, or the program is lost.             *)
JoinGarbage ==
  /\ main = "join" /\ i < PoolSize
  /\ i + 1 \notin created
  /\ \/ i' = i + 1 /\ UNCHANGED main
     \/ main' = "undefined" /\ UNCHANGED i
  /\ UNCHANGED <<qvars, created, worker, submitted, runs>>

(* delete[] threads, then the members: mtx and cond are destroyed.         *)
Delete ==
  /\ main = "join" /\ i = PoolSize
  /\ Phase("deleted")
  /\ UNCHANGED qvars

MainStep ==
  \/ Launch \/ Constructed
  \/ PushPill \/ PillsPushed \/ Join \/ JoinGarbage \/ Delete
-----------------------------------------------------------------------------
(* queue_.pop(f)                                                           *)
WorkerPop(w) ==
  /\ worker[w] = "loop"
  /\ Call(w, "pop", None)
  /\ worker' = [worker EXCEPT ![w] = "pop"]
  /\ UNCHANGED <<main, i, created, submitted, runs>>

(* f() begins.                                                             *)
WorkerRun(w) ==
  /\ worker[w] = "pop" /\ pc[w] = "idle" /\ item[w] # Pill
  /\ worker' = [worker EXCEPT ![w] = "run"]
  /\ runs' = [runs EXCEPT ![item[w]] = @ + 1]
  /\ UNCHANGED <<qvars, main, i, created, submitted>>

(* f() returns; the task f is destroyed at the end of the loop body.       *)
WorkerDone(w) ==
  /\ worker[w] = "run"
  /\ worker' = [worker EXCEPT ![w] = "loop"]
  /\ UNCHANGED <<qvars, main, i, created, submitted, runs>>

(* An empty task: break, and pthread_exit.                                 *)
WorkerExit(w) ==
  /\ worker[w] = "pop" /\ pc[w] = "idle" /\ item[w] = Pill
  /\ worker' = [worker EXCEPT ![w] = "exited"]
  /\ UNCHANGED <<qvars, main, i, created, submitted, runs>>

WorkerStep(w) ==
  WorkerPop(w) \/ WorkerRun(w) \/ WorkerDone(w) \/ WorkerExit(w)

(* A thread's step inside thread_safe_queue.                               *)
QueueStep(t) == Step(t) /\ UNCHANGED poolvars

PoolSpurious(w) == SpuriousWakeup(w) /\ UNCHANGED poolvars

PoolStep ==
  \/ MainStep
  \/ \E t \in Tasks : AddTask(t)
  \/ Destroy
  \/ \E w \in Workers : WorkerStep(w)
  \/ \E t \in Threads : QueueStep(t)

(* Nothing more is said of a program that has lost its way.                *)
PoolNext ==
  /\ main # "undefined"
  /\ PoolStep \/ \E w \in Workers : PoolSpurious(w)

PoolSpec == PoolInit /\ [][PoolNext]_vars
-----------------------------------------------------------------------------
PoolTypeOK ==
  /\ TypeOK
  /\ main \in MainPoints
  /\ i \in 0..PoolSize
  /\ created \subseteq Workers
  /\ worker \in [Workers -> WorkerPoints]
  /\ submitted \subseteq Tasks
  /\ runs \in [Tasks -> Nat]

(* The places a task, or a pill, can be in.                                *)
InPush(x) == pc[Main] \in {"lock", "put"} /\ item[Main] = x
InQueue(x) == \E k \in 1..Len(q) : q[k] = x
Taken(w) == worker[w] = "pop" /\ (pc[w] = "idle" \/ (pc[w] = "unlock" /\ depth = 1))
InHand(x) == \E w \in Workers : Taken(w) /\ item[w] = x

(* A task given to add_task is at exactly one place until it has been      *)
(* called exactly once: the pool neither drops a task nor runs one twice.  *)
OnePlace ==
  \A t \in Tasks :
    /\ t \notin submitted =>
         ~InPush(t) /\ ~InQueue(t) /\ ~InHand(t) /\ runs[t] = 0
    /\ t \in submitted =>
         \/ InPush(t) /\ ~InQueue(t) /\ ~InHand(t) /\ runs[t] = 0
         \/ InQueue(t) /\ ~InPush(t) /\ ~InHand(t) /\ runs[t] = 0
         \/ InHand(t) /\ ~InPush(t) /\ ~InQueue(t) /\ runs[t] = 0
         \/ runs[t] = 1 /\ ~InPush(t) /\ ~InQueue(t) /\ ~InHand(t)

(* A worker that has taken its pill leaves no task behind it in the queue. *)
PillsAfterTasks ==
  (\E w \in Workers : worker[w] = "exited") => \A t \in Tasks : ~InQueue(t)

(* When the destructor returns every task that was added has been called,  *)
(* provided the constructor got at least one worker started.               *)
DrainedBeforeReturn ==
  main = "deleted" /\ created # {} => \A t \in submitted : runs[t] = 1

(* When mtx, cond and threads are destroyed nobody can touch them again.   *)
NoUseAfterDestroy ==
  main = "deleted" =>
    /\ \A w \in created : worker[w] = "exited"
    /\ \A t \in Threads : pc[t] = "idle"
=============================================================================
