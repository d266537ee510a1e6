-------------------------- MODULE CounterPrograms --------------------------
(***************************************************************************)
(* Programs about mutexes and barriers: day2/08_spin/pthread_spinlock.c    *)
(* (built with the spin lock or with -DMUTEX: both exclude), the counter   *)
(* of day1/05_mutex, the mutex kinds of day2/06_mutex_type (day1 holds the *)
(* same file) and the barrier of day2/12_barrier.                          *)
(***************************************************************************)
EXTENDS Pthreads

CONSTANTS NumThreads,   (* NUM_THREADS, N                                  *)
          Iterations    (* NUM_ITER, K                                     *)

ASSUME CounterAssumption == NumThreads \in Workers /\ Iterations \in Nat \ {0}

CounterPrograms == {"spinlock", "mutex_perf"}
MutexKinds == {"mutex_normal", "mutex_errorcheck", "mutex_recursive"}
CountersMem == [counter |-> 0, seen |-> [w \in Workers |-> 0]]
BarrierMem == [waiting |-> {}]

AllAt(p) == [i \in 1 .. NumThreads |-> p]
-----------------------------------------------------------------------------
(* Mistakes that would be easy to make; nothing below uses them.           *)

(* The counter is read before the lock is taken.                           *)
ReadUnlocked(w) ==
  /\ Move(w, "loop", "read")
  /\ count[w] < Iterations
  /\ UNCHANGED <<program, process, count, mutexvars, mem>>

(* One unlock for the two locks of a recursive mutex.                      *)
ForgetSecondUnlock(w) ==
  /\ Move(w, "unlock2", "ended")
  /\ depth' = depth - 1
  /\ UNCHANGED owner

(* The barrier is made for one thread fewer than there are.                *)
BarrierForFewer(w) ==
  /\ At(w, "arrive")
  /\ IF Cardinality(mem.waiting) + 2 >= NumThreads
     THEN /\ mem' = [mem EXCEPT !.waiting = {}]
          /\ pc' = [t \in Threads |-> IF t \in mem.waiting \cup {w} THEN "passed" ELSE pc[t]]
     ELSE /\ mem' = [mem EXCEPT !.waiting = @ \cup {w}]
          /\ Goto(w, "blocked")
-----------------------------------------------------------------------------
(* counter = counter + 1, a read and a write, under the lock.              *)
LockCounter(w) ==
  /\ Lock(w, "loop", "read")
  /\ count[w] < Iterations
  /\ UNCHANGED <<program, process, count, mem>>

ReadCounter(w) ==
  /\ Move(w, "read", "write")
  /\ mem' = [mem EXCEPT !.seen[w] = mem.counter]
  /\ UNCHANGED <<program, process, count, mutexvars>>

WriteCounter(w) ==
  /\ Move(w, "write", "unlock")
  /\ mem' = [mem EXCEPT !.counter = mem.seen[w] + 1]
  /\ UNCHANGED <<program, process, count, mutexvars>>

UnlockCounter(w) ==
  /\ Unlock(w, "unlock", "loop")
  /\ count' = [count EXCEPT ![w] = @ + 1]
  /\ UNCHANGED <<program, process, mem>>

LeaveLoop(w) ==
  /\ Move(w, "loop", "ended")
  /\ count[w] = Iterations
  /\ UNCHANGED <<program, process, count, mutexvars, mem>>

CountingThread(w) ==
  \/ LockCounter(w) \/ ReadCounter(w) \/ WriteCounter(w) \/ UnlockCounter(w)
  \/ LeaveLoop(w)

SpinThread(w) == program = "spinlock" /\ CountingThread(w)
PerfWorker(w) == program = "mutex_perf" /\ CountingThread(w)

(* main creates the threads, joins them and prints the counter.            *)
CountMain ==
  \/ Setup("create")
  \/ Create(AllAt("loop"), TRUE, "join")
  \/ JoinAll(NumThreads, "print")
  \/ /\ Move(Main, "print", "return")
     /\ UNCHANGED <<program, process, count, mutexvars, mem>>
  \/ Return

SpinMain == program = "spinlock" /\ CountMain
PerfMain == program = "mutex_perf" /\ CountMain
-----------------------------------------------------------------------------
(* Lock twice, unlock twice.  The second lock of a normal mutex blocks its *)
(* owner for good, that of an error checking one returns EDEADLK and       *)
(* test_errno exits with the mutex locked.                                 *)
LockFirst(w) == Lock(w, "lock1", "lock2")

LockSecond(w) ==
  /\ program = "mutex_recursive" /\ owner = w
  /\ Move(w, "lock2", "unlock2")
  /\ depth' = depth + 1
  /\ UNCHANGED owner

LockFails(w) ==
  /\ program = "mutex_errorcheck" /\ owner = w
  /\ At(w, "lock2")
  /\ Exit("failed")

UnlockSecond(w) ==
  /\ Move(w, "unlock2", "unlock1")
  /\ depth' = depth - 1
  /\ UNCHANGED owner

UnlockFirst(w) == Unlock(w, "unlock1", "ended")

KindThread(w) ==
  /\ program \in MutexKinds
  /\ \/ /\ LockFirst(w) \/ LockSecond(w) \/ UnlockSecond(w) \/ UnlockFirst(w)
        /\ UNCHANGED <<program, process, count, mem>>
     \/ LockFails(w)

KindMain ==
  /\ program \in MutexKinds
  /\ \/ Setup("create")
     \/ Create(<<"lock1">>, TRUE, "join")
     \/ JoinAll(1, "return")
     \/ Return
-----------------------------------------------------------------------------
(* pthread_barrier_wait: the last of NUM_THREADS threads lets all go.      *)
Arrive(w) ==
  /\ At(w, "arrive")
  /\ IF Cardinality(mem.waiting) + 1 = NumThreads
     THEN /\ mem' = [mem EXCEPT !.waiting = {}]
          /\ pc' = [t \in Threads |-> IF t \in mem.waiting \cup {w} THEN "passed" ELSE pc[t]]
     ELSE /\ mem' = [mem EXCEPT !.waiting = @ \cup {w}]
          /\ Goto(w, "blocked")

BarrierWorker(w) ==
  /\ program = "barrier"
  /\ \/ Arrive(w)
     \/ Move(w, "passed", "ended") /\ UNCHANGED mem
  /\ UNCHANGED <<program, process, count, mutexvars>>

(* The barrier is destroyed once the threads are joined.                   *)
DestroyBarrier ==
  /\ Move(Main, "destroy", "return")
  /\ process' = IF mem.waiting = {} THEN process ELSE "undefined"
  /\ UNCHANGED <<program, count, mutexvars, mem>>

BarrierMain ==
  /\ program = "barrier"
  /\ \/ Setup("create")
     \/ Create(AllAt("arrive"), TRUE, "join")
     \/ JoinAll(NumThreads, "destroy")
     \/ DestroyBarrier
     \/ Return
=============================================================================
