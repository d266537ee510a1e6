-------------------------- MODULE ThreadSafeQueue --------------------------
(***************************************************************************)
(* thread_safe_queue<T> of day3/socknet/thread/thread_safe_queue.h (the    *)
(* copy in day2/ex_ThreadPool is the same text): a std::queue guarded by a *)
(* recursive pthread mutex, with one condition variable for "not empty".   *)
(*                                                                         *)
(* Every member function locks through lock_guard, and pop and try_pop     *)
(* call the public is_empty(), which locks the same mutex once more.  The  *)
(* steps below are the points at which another thread can interleave:      *)
(* each construction and each destruction of a guard, the access made      *)
(* under it, pthread_cond_wait's release, its return, and the signal that  *)
(* push sends after its guard is gone.                                     *)
(***************************************************************************)
EXTENDS Naturals, Sequences, FiniteSets

CONSTANTS Threads,   (* the threads that call the queue                    *)
          Items,     (* the values of T that are pushed                    *)
          None       (* no owner, no value                                 *)

ASSUME ThreadsAssumption == IsFiniteSet(Threads)
ASSUME NoneAssumption == None \notin Threads /\ None \notin Items

VARIABLES q,       (* std::queue<T> q                                      *)
          owner,   (* the thread that holds mtx, or None                   *)
          depth,   (* how often the owner has locked mtx                   *)
          pc,      (* per thread: the point reached in the member function *)
          op,      (* per thread: the member function it is in             *)
          item,    (* per thread: push's argument, or what was popped      *)
          empty    (* per thread: the value is_empty() returned last       *)

qvars == <<q, owner, depth, pc, op, item, empty>>

Operations == {"push", "pop", "try_pop", "is_empty"}

Points == {"idle", "lock", "nested", "read", "take", "put", "wait",
           "waiting", "relock", "unlock", "signal"}

(* The threads blocked in pthread_cond_wait.                               *)
Waiting == {t \in Threads : pc[t] = "waiting"}

Goto(t, p) == pc' = [pc EXCEPT ![t] = p]
(* A PTHREAD_MUTEX_RECURSIVE mutex: its owner may lock it again.           *)
Acquire(t) ==
  /\ owner \in {None, t}
  /\ owner' = t
  /\ depth' = depth + 1

Release ==
  /\ depth' = depth - 1
  /\ owner' = IF depth = 1 THEN None ELSE owner
-----------------------------------------------------------------------------
(* Mistakes that would be easy to make in this class.  Nothing below uses  *)
(* them: each shows, put in the place of the right action, that a property *)
(* of this module can fail.                                                *)

(* is_empty() leaves mtx locked when it returns.                           *)
LeakingNestedUnlock(t) ==
  /\ pc[t] = "unlock" /\ depth = 2
  /\ \/ ~empty[t] /\ Goto(t, "take")
     \/ empty[t] /\ Goto(t, "wait")
  /\ UNCHANGED <<q, owner, depth, op, item, empty>>

(* pop tests is_empty() with if instead of while.                          *)
RelockWithoutLoop(t) ==
  /\ pc[t] = "relock" /\ owner = None
  /\ Acquire(t)
  /\ Goto(t, "take")
  /\ UNCHANGED <<q, op, item, empty>>

(* push signals only when it finds the queue empty.                        *)
UnlockSignalsFirstOnly(t) ==
  /\ pc[t] = "unlock" /\ depth = 1
  /\ Release
  /\ Goto(t, IF op[t] = "push" /\ Len(q) = 1 THEN "signal" ELSE "idle")
  /\ UNCHANGED <<q, op, item, empty>>

(* The item pushed last is the one that is taken.                          *)
TakeNewest(t) ==
  /\ pc[t] = "take"
  /\ item' = [item EXCEPT ![t] = q[Len(q)]]
  /\ q' = SubSeq(q, 1, Len(q) - 1)
  /\ Goto(t, "unlock")
  /\ UNCHANGED <<owner, depth, op, empty>>
-----------------------------------------------------------------------------
QInit ==
  /\ q = <<>>
  /\ owner = None
  /\ depth = 0
  /\ pc = [t \in Threads |-> "idle"]
  /\ op = [t \in Threads |-> "is_empty"]
  /\ item = [t \in Threads |-> None]
  /\ empty = [t \in Threads |-> FALSE]

(* A thread enters a member function.                                      *)
Call(t, o, v) ==
  /\ pc[t] = "idle"
  /\ Goto(t, "lock")
  /\ op' = [op EXCEPT ![t] = o]
  /\ item' = [item EXCEPT ![t] = v]
  /\ UNCHANGED <<q, owner, depth, empty>>

(* What a member function does under its own guard first.                  *)
FirstPoint == [push |-> "put", is_empty |-> "read",
               pop |-> "nested", try_pop |-> "nested"]

(* The lock_guard with which every member function begins.                 *)
LockGuard(t) ==
  /\ pc[t] = "lock"
  /\ Acquire(t)
  /\ Goto(t, FirstPoint[op[t]])
  /\ UNCHANGED <<q, op, item, empty>>

(* pop and try_pop call is_empty(), whose own guard locks once more.       *)
NestedGuard(t) ==
  /\ pc[t] = "nested"
  /\ Acquire(t)
  /\ Goto(t, "read")
  /\ UNCHANGED <<q, op, item, empty>>

ReadEmpty(t) ==
  /\ pc[t] = "read"
  /\ empty' = [empty EXCEPT ![t] = (q = <<>>)]
  /\ Goto(t, "unlock")
  /\ UNCHANGED <<q, owner, depth, op, item>>

(* is_empty() returns into pop or try_pop, and its guard is destroyed.     *)
NestedUnlock(t) ==
  /\ pc[t] = "unlock"
  /\ depth = 2
  /\ Release
  /\ \/ ~empty[t] /\ Goto(t, "take")
     \/ empty[t] /\ op[t] = "pop" /\ Goto(t, "wait")
     \/ empty[t] /\ op[t] = "try_pop" /\ Goto(t, "unlock")
  /\ UNCHANGED <<q, op, item, empty>>

(* The guard of the member function itself is destroyed: only push has     *)
(* something left to do.                                                   *)
Unlock(t) ==
  /\ pc[t] = "unlock"
  /\ depth = 1
  /\ Release
  /\ Goto(t, IF op[t] = "push" THEN "signal" ELSE "idle")
  /\ UNCHANGED <<q, op, item, empty>>

(* item = q.front(); q.pop();                                              *)
Take(t) ==
  /\ pc[t] = "take"
  /\ item' = [item EXCEPT ![t] = Head(q)]
  /\ q' = Tail(q)
  /\ Goto(t, "unlock")
  /\ UNCHANGED <<owner, depth, op, empty>>

Put(t) ==
  /\ pc[t] = "put"
  /\ q' = Append(q, item[t])
  /\ Goto(t, "unlock")
  /\ UNCHANGED <<owner, depth, op, item, empty>>

(* pthread_cond_wait gives the mutex up by one level and blocks, in one    *)
(* step as POSIX requires.                                                 *)
CondWait(t) ==
  /\ pc[t] = "wait"
  /\ Release
  /\ Goto(t, "waiting")
  /\ UNCHANGED <<q, op, item, empty>>

(* pthread_cond_signal after push's guard is destroyed: one waiter, if     *)
(* there is any, becomes ready to take the mutex back.                     *)
Signal(t) ==
  /\ pc[t] = "signal"
  /\ \/ /\ Waiting = {}
        /\ Goto(t, "idle")
     \/ \E w \in Waiting :
          pc' = [pc EXCEPT ![t] = "idle", ![w] = "relock"]
  /\ UNCHANGED <<q, owner, depth, op, item, empty>>

(* pthread_cond_wait may also return without any signal.                   *)
SpuriousWakeup(t) ==
  /\ pc[t] = "waiting"
  /\ Goto(t, "relock")
  /\ UNCHANGED <<q, owner, depth, op, item, empty>>

(* pthread_cond_wait returns with the mutex held: the while loop of pop    *)
(* calls is_empty() again.                                                 *)
Relock(t) ==
  /\ pc[t] = "relock"
  /\ owner = None
  /\ Acquire(t)
  /\ Goto(t, "nested")
  /\ UNCHANGED <<q, op, item, empty>>

(* A thread's own next step inside the member function it has called.      *)
Step(t) ==
  \/ LockGuard(t) \/ NestedGuard(t) \/ ReadEmpty(t)
  \/ NestedUnlock(t) \/ Unlock(t) \/ Take(t) \/ Put(t)
  \/ CondWait(t) \/ Signal(t) \/ Relock(t)

QNext ==
  \E t \in Threads :
    \/ \E v \in Items : Call(t, "push", v)
    \/ \E o \in Operations \ {"push"} : Call(t, o, None)
    \/ Step(t)
    \/ SpuriousWakeup(t)

QSpec == QInit /\ [][QNext]_qvars
-----------------------------------------------------------------------------
(* Every variable has its type, and mtx is never locked more than twice.   *)
TypeOK ==
  /\ q \in Seq(Items)
  /\ owner \in Threads \cup {None}
  /\ depth \in 0..2
  /\ pc \in [Threads -> Points]
  /\ op \in [Threads -> Operations]
  /\ item \in [Threads -> Items \cup {None}]
  /\ empty \in [Threads -> BOOLEAN]

(* The guards of lock_guard.h balance: a thread touches q only while it    *)
(* owns mtx, it calls pthread_cond_wait with mtx locked exactly once (so   *)
(* that the wait really gives it up), and outside the member functions and *)
(* inside pthread_cond_wait it owns nothing.                               *)
GuardDiscipline ==
  /\ (owner = None) <=> (depth = 0)
  /\ \A t \in Threads :
       /\ pc[t] \in {"idle", "lock", "waiting", "relock", "signal"} => owner # t
       /\ pc[t] \in {"nested", "take", "put", "wait"} => owner = t /\ depth = 1
       /\ pc[t] = "read" =>
            owner = t /\ depth = (IF op[t] = "is_empty" THEN 1 ELSE 2)
       /\ pc[t] = "unlock" =>
            owner = t /\ (depth = 2 => op[t] \in {"pop", "try_pop"})

(* pop and try_pop reach q.front() only on a queue that is not empty: what *)
(* is_empty() returned after the nested guard was released, and after any  *)
(* number of stolen or spurious wakeups, still holds when it is used.      *)
NonEmptyAtTake == \A t \in Threads : pc[t] = "take" => q # <<>>

(* The threads that will still take an item or wake a thread that will: a  *)
(* pusher that has not signalled yet, a popper that has not found q empty. *)
Helpers ==
  {t \in Threads :
     \/ op[t] = "push" /\ pc[t] \in {"unlock", "signal"}
     \/ op[t] = "pop" /\ pc[t] \in {"lock", "relock", "nested", "read", "take"}
     \/ op[t] = "pop" /\ pc[t] = "unlock" /\ depth = 2 /\ ~empty[t]}

(* No wakeup is lost although push signals after it has unlocked: while a  *)
(* popper is blocked, each item in q has a thread under way to deal with   *)
(* it, so no item and no blocked popper can be left facing each other.     *)
NoLostWakeup == Waiting # {} => Len(q) <= Cardinality(Helpers)
-----------------------------------------------------------------------------
(* The refinement mapping: t's operation has taken effect.                 *)
Effective(t) ==
  \/ pc[t] = "signal"
  \/ /\ pc[t] = "unlock"
     /\ \/ op[t] \in {"push", "is_empty"}
        \/ op[t] = "pop" /\ depth = 1
        \/ op[t] = "try_pop" /\ (depth = 1 \/ empty[t])

PhaseOf(t) == IF pc[t] = "idle" THEN "idle"
              ELSE IF Effective(t) THEN "done" ELSE "pending"

TookItem(t) == op[t] = "pop" \/ (op[t] = "try_pop" /\ ~empty[t])

(* The argument, the item and the bool of t's operation.                   *)
ArgOf(t) == IF PhaseOf(t) = "pending" THEN item[t] ELSE None
OutOf(t) == IF PhaseOf(t) = "done" /\ TookItem(t) THEN item[t] ELSE None
FlagOf(t) ==
  /\ PhaseOf(t) = "done"
  /\ \/ op[t] = "try_pop" /\ ~empty[t]
     \/ op[t] = "is_empty" /\ empty[t]

Abstract == INSTANCE LinearizableQueue WITH
  queue <- q,
  phase <- [t \in Threads |-> PhaseOf(t)],
  arg <- [t \in Threads |-> ArgOf(t)],
  out <- [t \in Threads |-> OutOf(t)],
  flag <- [t \in Threads |-> FlagOf(t)]

(* Every operation takes effect at one instant between its call and its    *)
(* return, in FIFO order: the class implements LinearizableQueue.          *)
Linearizable == Abstract!Spec
=============================================================================
