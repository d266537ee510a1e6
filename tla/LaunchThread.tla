---------------------------- MODULE LaunchThread ----------------------------
(***************************************************************************)
(* launch_thread and thread_routine of day3/socknet/thread/launch_thread.cpp*)
(* (day2/ex_ThreadPool, x_active_object, x_pthreads_future, ex_pi and      *)
(* day1/ex_TSQ carry the same text): the callable is copied to the heap,   *)
(* the copy is handed to pthread_create, and the new thread deletes it.    *)
(***************************************************************************)
EXTENDS Integers, FiniteSets

CONSTANTS Jobs,      (* the calls of launch_thread                         *)
          Errors     (* what pthread_create returns when it fails: EAGAIN  *)

ASSUME ErrorsAssumption == Errors \subseteq Nat \ {0}

VARIABLES process,   (* "running", or how the process came to its end      *)
          launch,    (* per job: how far launch_thread is                  *)
          functor,   (* per job: who has to delete the heap copy, if any   *)
          thread     (* per job: the thread that runs it                   *)

launchvars == <<process, launch, functor, thread>>

(* pthread_create failed, as line 17 sees it.                              *)
CreateFailed(err) == err = -1
-----------------------------------------------------------------------------
(* Mistakes that would be easy to make; nothing below uses them.           *)

(* The creator deletes its copy when pthread_create has returned.          *)
CreateAndDelete(j, err) ==
  /\ launch[j] = "copied"
  /\ launch' = [launch EXCEPT ![j] = "created"]
  /\ functor' = [functor EXCEPT ![j] = "deleted"]
  /\ thread' = IF err = 0 THEN [thread EXCEPT ![j] = "ready"] ELSE thread
  /\ UNCHANGED process

(* A thread that is not joined is not detached either.                     *)
ReturnUndetached(j) ==
  /\ launch[j] = "created"
  /\ launch' = [launch EXCEPT ![j] = "returned"]
  /\ UNCHANGED <<process, functor, thread>>
-----------------------------------------------------------------------------
LaunchInit ==
  /\ process = "running"
  /\ launch = [j \in Jobs |-> "idle"]
  /\ functor = [j \in Jobs |-> "none"]
  /\ thread = [j \in Jobs |-> "none"]

(* new std::function<void()>(f)                                            *)
Copy(j) ==
  /\ launch[j] = "idle"
  /\ launch' = [launch EXCEPT ![j] = "copied"]
  /\ functor' = [functor EXCEPT ![j] = "launcher"]
  /\ UNCHANGED <<process, thread>>

(* pthread_create and the test of its result.  Nobody catches the          *)
(* std::exception.                                                         *)
Create(j, err) ==
  /\ launch[j] = "copied"
  /\ thread' = IF err = 0 THEN [thread EXCEPT ![j] = "ready"] ELSE thread
  /\ functor' = [functor EXCEPT ![j] = IF err = 0 THEN "thread"
                                       ELSE IF CreateFailed(err) THEN "deleted"
                                       ELSE @]
  /\ launch' = [launch EXCEPT ![j] = "created"]
  /\ process' = IF CreateFailed(err) THEN "terminated" ELSE process

(* pthread_detach(id)                                                      *)
Detach(j) ==
  /\ launch[j] = "created" /\ thread[j] # "none"
  /\ launch' = [launch EXCEPT ![j] = "detached"]
  /\ UNCHANGED <<process, functor, thread>>

(* pthread_create has not written id: the detach of whatever it holds is   *)
(* refused, or the program is lost.                                        *)
DetachGarbage(j) ==
  /\ launch[j] = "created" /\ thread[j] = "none"
  /\ launch' = [launch EXCEPT ![j] = "detached"]
  /\ process' \in {"running", "undefined"}
  /\ UNCHANGED <<functor, thread>>

(* thread_routine, up to the call of the functor.                          *)
Begin(j) ==
  /\ thread[j] = "ready"
  /\ thread' = [thread EXCEPT ![j] = "running"]
  /\ UNCHANGED <<process, launch, functor>>

(* pthread_exit unwinds the unique_ptr, which deletes the copy.            *)
Finish(j) ==
  /\ thread[j] = "running"
  /\ thread' = [thread EXCEPT ![j] = "ended"]
  /\ functor' = [functor EXCEPT ![j] = "deleted"]
  /\ UNCHANGED <<process, launch>>
-----------------------------------------------------------------------------
(* Every variable of the launcher has its type.                            *)
LaunchTypeOK ==
  /\ process \in {"running", "exited", "terminated", "undefined"}
  /\ launch \in [Jobs -> {"idle", "copied", "created", "detached"}]
  /\ functor \in [Jobs -> {"none", "launcher", "thread", "deleted"}]
  /\ thread \in [Jobs -> {"none", "ready", "running", "ended"}]

(* A thread has the functor it calls to itself until it ends, however the  *)
(* creator and the thread interleave, and leaves no copy behind.           *)
FunctorOwned ==
  \A j \in Jobs : thread[j] # "none" =>
    functor[j] = IF thread[j] = "ended" THEN "deleted" ELSE "thread"

(* Line 17 tells success from failure: the caller is told when there is no *)
(* thread.                                                                 *)
FailureReported ==
  process = "running" =>
    \A j \in Jobs : launch[j] \in {"created", "detached"} => thread[j] # "none"
=============================================================================
