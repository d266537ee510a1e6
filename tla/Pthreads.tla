------------------------------ MODULE Pthreads ------------------------------
(***************************************************************************)
(* What the small pthread programs of day1 and day2 have in common: one    *)
(* process, a main thread that creates the others and joins them, one      *)
(* mutex (or spin lock), and data they share.  The modules that EXTEND     *)
(* this one are the programs; PthreadPrograms composes them.               *)
(*                                                                         *)
(* The operators are the pthread calls, modelled from how the programs use *)
(* them: a call that may fail fails in some behaviour, and what POSIX      *)
(* leaves undefined ends the behaviour with process = "undefined".         *)
(***************************************************************************)
EXTENDS Naturals, Sequences, FiniteSets

CONSTANTS MaxWorkers,   (* the most threads a program creates              *)
          None          (* no owner, no value                              *)

ASSUME MaxWorkersAssumption == MaxWorkers \in Nat \ {0}

Main == 0
Workers == 1 .. MaxWorkers
Threads == {Main} \cup Workers

ASSUME NoOwnerAssumption == None \notin Threads

VARIABLES program,   (* which program this is                              *)
          process,   (* "running", or how the process ended                *)
          pc,        (* per thread: the point it has reached; "none" before*)
                     (* it is created, "joined" when its id is gone        *)
          count,     (* per thread: its loop variable i                    *)
          owner,     (* the thread that holds the program's mutex, or None *)
          depth,     (* how often it has locked it                         *)
          mem        (* the data the threads of the program share          *)

mutexvars == <<owner, depth>>
vars == <<program, process, pc, count, owner, depth, mem>>

At(t, p) == process = "running" /\ pc[t] = p
Goto(t, p) == pc' = [pc EXCEPT ![t] = p]
Move(t, p, r) == At(t, p) /\ Goto(t, r)
-----------------------------------------------------------------------------
PthreadsInit ==
  /\ process = "running"
  /\ pc = [t \in Threads |-> IF t = Main THEN "init" ELSE "none"]
  /\ count = [t \in Threads |-> 0]
  /\ owner = None
  /\ depth = 0

(* The process ends, with all its threads.                                 *)
Exit(how) ==
  /\ process' = how
  /\ UNCHANGED <<program, pc, count, mutexvars, mem>>

Return == At(Main, "return") /\ Exit("returned")

(* The calls of main before it creates threads: each is followed by        *)
(* test_errno, which exits.                                                *)
Setup(next) ==
  \/ /\ Move(Main, "init", next)
     /\ UNCHANGED <<program, process, count, mutexvars, mem>>
  \/ At(Main, "init") /\ Exit("failed")

(* The loops of main over its threads, one call a step; i is count[Main].  *)
Advance(n) ==
  /\ count' = [count EXCEPT ![Main] = IF @ + 1 = n THEN 0 ELSE @ + 1]
  /\ UNCHANGED <<program, mutexvars, mem>>

Looping(n, loop, next) == IF count[Main] + 1 = n THEN next ELSE loop

(* pthread_create of the next thread; entries are the points where the     *)
(* threads start.  A failure ends the process where the result is checked  *)
(* and leaves an id that names nobody where it is not.                     *)
Create(entries, checked, next) ==
  LET n == Len(entries)
      to == Looping(n, "create", next)
  IN \/ /\ At(Main, "create")
        /\ pc' = [pc EXCEPT ![Main] = to, ![count[Main] + 1] = entries[count[Main] + 1]]
        /\ Advance(n)
        /\ UNCHANGED process
     \/ checked /\ At(Main, "create") /\ Exit("failed")
     \/ /\ ~checked
        /\ Move(Main, "create", to)
        /\ Advance(n)
        /\ UNCHANGED process

(* pthread_join of thread w: it waits for its end and gives its id back.   *)
Join(w, p, next) ==
  \/ /\ At(Main, p)
     /\ pc[w] = "ended"
     /\ pc' = [pc EXCEPT ![w] = "joined", ![Main] = next]
     /\ UNCHANGED process
  \/ /\ At(Main, p)
     /\ pc[w] \in {"none", "joined"}
     /\ process' = "undefined"
     /\ UNCHANGED pc

JoinAll(n, next) ==
  /\ Join(count[Main] + 1, "join", Looping(n, "join", next))
  /\ Advance(n)

(* pthread_mutex_lock and unlock of a mutex that is not recursive.         *)
Lock(t, p, next) ==
  /\ Move(t, p, next)
  /\ owner = None
  /\ owner' = t
  /\ depth' = 1

Unlock(t, p, next) ==
  /\ Move(t, p, next)
  /\ owner' = None
  /\ depth' = 0
=============================================================================
