------------------------- MODULE ActiveObjectQueue -------------------------
(***************************************************************************)
(* thread_safe_queue<T> of day2/x_active_object/thread_safe_queue.h: a     *)
(* std::queue under a plain mutex.  Unlike the class of day3/socknet it    *)
(* signals inside the critical section, its is_empty() takes no lock, and  *)
(* try_pop returns from an empty queue without unlocking.                  *)
(*                                                                         *)
(* q is reached only with mtx held (is_empty() is called by pop and        *)
(* try_pop alone), so each critical section is one step; what other        *)
(* threads can tell apart is who holds mtx between steps, and that is      *)
(* nobody but a thread that has left try_pop with it.                      *)
(***************************************************************************)
EXTENDS Naturals, Sequences, FiniteSets

CONSTANTS Threads,   (* the threads that call the queue                    *)
          Items,     (* the values of T that are pushed                    *)
          None       (* no owner, no value                                 *)

ASSUME ThreadsAssumption == IsFiniteSet(Threads)
ASSUME NoneAssumption == None \notin Threads /\ None \notin Items

VARIABLES q,       (* std::queue<T> q                                      *)
          owner,   (* the thread that holds mtx between steps, or None     *)
          pc,      (* per thread: "idle", the function it is in, or where  *)
                   (* in pthread_cond_wait it is                           *)
          item     (* per thread: push's argument, or what was popped last *)

qvars == <<q, owner, pc, item>>

Operations == {"push", "pop", "try_pop"}
Waiting == {t \in Threads : pc[t] = "waiting"}
Goto(t, p) == pc' = [pc EXCEPT ![t] = p]
-----------------------------------------------------------------------------
(* Mistakes that would be easy to make; nothing below uses them.           *)

(* push does not signal.                                                   *)
PushSilently(t) ==
  /\ pc[t] = "push" /\ owner = None
  /\ q' = Append(q, item[t])
  /\ Goto(t, "idle")
  /\ UNCHANGED <<owner, item>>

(* back() and pop_back(): a stack.                                         *)
TakeNewest(t) ==
  /\ q # <<>>
  /\ item' = [item EXCEPT ![t] = q[Len(q)]]
  /\ q' = SubSeq(q, 1, Len(q) - 1)
  /\ Goto(t, "idle")
  /\ UNCHANGED owner
-----------------------------------------------------------------------------
QInit ==
  /\ q = <<>>
  /\ owner = None
  /\ pc = [t \in Threads |-> "idle"]
  /\ item = [t \in Threads |-> None]

Call(t, o, v) ==
  /\ pc[t] = "idle"
  /\ Goto(t, o)
  /\ item' = [item EXCEPT ![t] = v]
  /\ UNCHANGED <<q, owner>>

(* item = q.front(); q.pop(); and the unlock.                              *)
TakeFront(t) ==
  /\ q # <<>>
  /\ item' = [item EXCEPT ![t] = Head(q)]
  /\ q' = Tail(q)
  /\ Goto(t, "idle")
  /\ UNCHANGED owner

(* Lock, push, signal one waiter if there is any, unlock.                  *)
Push(t) ==
  /\ pc[t] = "push" /\ owner = None
  /\ q' = Append(q, item[t])
  /\ \/ Waiting = {} /\ Goto(t, "idle")
     \/ \E w \in Waiting : pc' = [pc EXCEPT ![t] = "idle", ![w] = "relock"]
  /\ UNCHANGED <<owner, item>>

(* Lock, or return from pthread_cond_wait with mtx; then the while test.   *)
Pop(t) ==
  /\ pc[t] \in {"pop", "relock"} /\ owner = None
  /\ \/ q = <<>> /\ Goto(t, "waiting") /\ UNCHANGED <<q, owner, item>>
     \/ TakeFront(t)

(* On an empty queue try_pop returns false and keeps mtx.                  *)
TryPop(t) ==
  /\ pc[t] = "try_pop" /\ owner = None
  /\ \/ q = <<>> /\ owner' = t /\ Goto(t, "idle") /\ UNCHANGED <<q, item>>
     \/ TakeFront(t)

SpuriousWakeup(t) ==
  /\ pc[t] = "waiting"
  /\ Goto(t, "relock")
  /\ UNCHANGED <<q, owner, item>>

Step(t) == Push(t) \/ Pop(t) \/ TryPop(t)

QNext ==
  \E t \in Threads :
    \/ \E v \in Items : Call(t, "push", v)
    \/ \E o \in {"pop", "try_pop"} : Call(t, o, None)
    \/ Step(t)
    \/ SpuriousWakeup(t)

QSpec == QInit /\ [][QNext]_qvars
-----------------------------------------------------------------------------
(* A thread that is out of the queue does not hold its mutex.              *)
LockReleased == \A t \in Threads : pc[t] = "idle" => owner # t
=============================================================================
