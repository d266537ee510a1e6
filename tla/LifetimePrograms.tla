-------------------------- MODULE LifetimePrograms --------------------------
(***************************************************************************)
(* Programs about what a thread leaves behind and how it is reached from   *)
(* outside: the future of day2/x_pthreads_future, cancellation             *)
(* (day2/13_cancel and its cpp_version), thread-specific data (day2/14_tss)*)
(* and signals (day2/04a_signals).                                         *)
(***************************************************************************)
EXTENDS Pthreads

CONSTANT NumStrings   (* N of 14_tss, its threads                          *)

ASSUME LifetimeAssumption == NumStrings \in Workers /\ MaxWorkers >= 3

CancelKinds == {"cancel_async", "cancel_deferred", "cancel_disabled"}

Unset == "unset"      (* what an int holds that nobody has written         *)
FutureMem == [result |-> [w \in 2 .. 3 |-> Unset], printed |-> <<>>]
CancelMem == [pending |-> FALSE, enabled |-> TRUE, async |-> FALSE,
              handlers |-> {}, cleaned |-> {}]
TssMem == [key |-> TRUE, strings |-> {}, slot |-> {}, deleted |-> {}]
SignalMem == [blocked |-> FALSE, pending |-> {}, received |-> None]

Stay == UNCHANGED <<program, process, count, mutexvars>>
-----------------------------------------------------------------------------
(* Mistakes that would be easy to make; nothing below uses them.           *)

(* The handler is pushed only when the thread says that it runs.           *)
PushHandlerLate(w) ==
  \/ Move(w, "start", "setstate") /\ UNCHANGED mem
  \/ /\ Move(w, "print", "spin")
     /\ mem' = [mem EXCEPT !.handlers = @ \cup {w}]

(* The worker signals itself instead of main_id.                           *)
KillSelf(w) ==
  /\ program = "signals"
  /\ Move(w, "start", "ended")
  /\ Stay /\ UNCHANGED mem
-----------------------------------------------------------------------------
(* The future of x_pthreads_future.  Thread 1 only says hello; threads 2   *)
(* and 3 compute the results of res and res2.  launch_thread tests the     *)
(* result of pthread_create for -1, which it never is: a failure is not    *)
(* noticed.                                                                *)
Answers == [w \in 2 .. 3 |-> IF w = 2 THEN 42 ELSE 666]

Hello == program = "future" /\ Move(1, "hello", "ended") /\ Stay /\ UNCHANGED mem

(* ptask::operator(): result = task(); done = true, which nobody reads.    *)
RunTask(w) ==
  /\ program = "future"
  /\ Move(w, "task", "ended")
  /\ mem' = [mem EXCEPT !.result[w] = Answers[w]]
  /\ Stay

Launch(w, p, entry, next) ==
  /\ At(Main, p)
  /\ \/ pc' = [pc EXCEPT ![Main] = next, ![w] = entry]
     \/ Goto(Main, next)
  /\ Stay /\ UNCHANGED mem

JoinThread(w, p, next) ==
  Join(w, p, next) /\ UNCHANGED <<program, count, mutexvars, mem>>

(* future::get joins and then reads result.                                *)
Get(w, p, next) ==
  /\ Move(Main, p, next)
  /\ mem' = [mem EXCEPT !.printed = Append(@, mem.result[w])]
  /\ Stay

(* future::~future joins again.  The id names nobody any more: the call    *)
(* returns an error, or whatever else the library makes of it.             *)
Destroy(w, p, next) ==
  \/ JoinThread(w, p, next)
  \/ Move(Main, p, next) /\ pc[w] = "joined" /\ Stay /\ UNCHANGED mem

FutureMain ==
  /\ program = "future"
  /\ \/ Launch(1, "init", "hello", "join1")
     \/ JoinThread(1, "join1", "async2")
     \/ Launch(2, "async2", "task", "async3")
     \/ Launch(3, "async3", "task", "get2")
     \/ JoinThread(2, "get2", "read2")
     \/ Get(2, "read2", "get3")
     \/ JoinThread(3, "get3", "read3")
     \/ Get(3, "read3", "destroy3")
     \/ Destroy(3, "destroy3", "destroy2")
     \/ Destroy(2, "destroy2", "return")
     \/ Return
-----------------------------------------------------------------------------
(* 13_cancel.  Each thread pushes a cleanup handler, sets its state and,   *)
(* but for the third, its type, and then runs until it is cancelled.       *)
PushHandler(w) ==
  /\ Move(w, "start", "setstate")
  /\ mem' = [mem EXCEPT !.handlers = @ \cup {w}]

SetState(w) ==
  /\ Move(w, "setstate", IF program = "cancel_disabled" THEN "sleep" ELSE "settype")
  /\ mem' = [mem EXCEPT !.enabled = program # "cancel_disabled"]

SetType(w) ==
  /\ Move(w, "settype", "print")
  /\ mem' = [mem EXCEPT !.async = program = "cancel_async"]

(* The loop of thread_02; that of thread_01 makes no call.                 *)
Loop(w) ==
  /\ \/ Move(w, "print", "spin")
     \/ program = "cancel_deferred" /\ Move(w, "spin", "testcancel")
     \/ ~mem.pending /\ Move(w, "testcancel", "spin")
  /\ UNCHANGED mem

Reenable(w) ==
  /\ Move(w, "enable", "pause")
  /\ mem' = [mem EXCEPT !.enabled = TRUE]

CancelPoints == {"print", "testcancel", "sleep", "pause", "wait", "waiting"}

Cancellable(w) ==
  mem.pending /\ mem.enabled /\ (mem.async \/ pc[w] \in CancelPoints)

(* The thread ends where it is and its handlers run.                       *)
Cancelled(w) ==
  /\ process = "running" /\ pc[w] \notin {"none", "ended", "joined"}
  /\ Cancellable(w)
  /\ Goto(w, "ended")
  /\ mem' = [mem EXCEPT !.cleaned = mem.handlers]

(* printf is not async-cancel-safe: what becomes of an asynchronous thread *)
(* that is cancelled inside it is undefined.                               *)
CancelledInPrintf(w) ==
  /\ At(w, "print") /\ mem.async
  /\ Cancellable(w)
  /\ process' = "undefined"
  /\ UNCHANGED <<program, pc, count, mutexvars, mem>>

Thread_01_02(w) ==
  /\ program \in CancelKinds
  /\ \/ PushHandler(w) /\ Stay
     \/ SetState(w) /\ Stay
     \/ SetType(w) /\ Stay
     \/ Loop(w) /\ Stay
     \/ Cancelled(w) /\ Stay
     \/ CancelledInPrintf(w)

Thread_03(w) ==
  /\ program = "cancel_disabled"
  /\ \/ Move(w, "sleep", "enable") /\ UNCHANGED mem
     \/ Reenable(w)
  /\ Stay

(* interrupt: pthread_cancel, then pthread_join.                           *)
Interrupt(p, next) ==
  /\ Move(Main, p, next)
  /\ mem' = [mem EXCEPT !.pending = TRUE]
  /\ process' = IF pc[1] = "none" THEN "undefined" ELSE process
  /\ UNCHANGED <<program, count, mutexvars>>

CancelMain ==
  /\ program \in CancelKinds
  /\ \/ Move(Main, "init", "create") /\ Stay /\ UNCHANGED mem
     \/ Create(<<"start">>, TRUE, "cancel")
     \/ Interrupt("cancel", "join")
     \/ JoinAll(1, "return")
     \/ Return

(* main is started without an argument.  It exits if argc is 0; with the   *)
(* program's name alone, argc is 1, and atoi(argv[1]) is atoi(NULL).       *)
CancelBareMain ==
  /\ program = "cancel_bare"
  /\ At(Main, "init")
  /\ Exit("failed") \/ Exit("undefined")

(* cpp_version: tf is cancelled in pthread_cond_wait, which takes the      *)
(* mutex back before the thread is unwound.  A spurious wakeup lets tf run *)
(* off its end, which has no return: still with the mutex, or undefined.   *)
TfWait(w) ==
  \/ Lock(w, "start", "wait") /\ UNCHANGED <<process, mem>>
  \/ Unlock(w, "wait", "waiting") /\ UNCHANGED <<process, mem>>
  \/ Lock(w, "relock", "fall") /\ UNCHANGED <<process, mem>>
  \/ /\ Move(w, "fall", "ended")
     /\ process' \in {"running", "undefined"}
     /\ UNCHANGED <<mutexvars, mem>>

TfCancelled(w) ==
  /\ Cancelled(w)
  /\ owner \in {None, w}
  /\ owner' = w /\ depth' = 1
  /\ UNCHANGED process

Tf(w) ==
  /\ program = "cancel_cpp"
  /\ TfWait(w) \/ TfCancelled(w)
  /\ UNCHANGED <<program, count>>

TfSpurious(w) ==
  /\ program = "cancel_cpp"
  /\ Move(w, "waiting", "relock")
  /\ Stay /\ UNCHANGED mem

CancelCppMain ==
  /\ program = "cancel_cpp"
  /\ \/ Move(Main, "init", "create") /\ Stay /\ UNCHANGED mem
     \/ Create(<<"start">>, FALSE, "cancel")
     \/ Interrupt("cancel", "join")
     \/ JoinAll(1, "return")
     \/ Return
-----------------------------------------------------------------------------
(* 14_tss: each thread copies its text and hands the copy to the key,      *)
(* whose destructor deletes it when the thread ends.                       *)
SetSpecific(w) ==
  /\ Move(w, "start", "show")
  /\ \/ mem' = [mem EXCEPT !.strings = @ \cup {w}, !.slot = @ \cup {w}]
     \/ mem' = [mem EXCEPT !.strings = @ \cup {w}]

Destruktor(w) ==
  /\ Move(w, "show", "ended")
  /\ mem' = [mem EXCEPT !.deleted = IF mem.key THEN @ \cup (mem.slot \cap {w}) ELSE @]

TssThread(w) ==
  /\ program = "tss"
  /\ SetSpecific(w) \/ Destruktor(w)
  /\ Stay

TssMain ==
  /\ program = "tss"
  /\ \/ Setup("create")
     \/ Create([i \in 1 .. NumStrings |-> "start"], TRUE, "join")
     \/ JoinAll(NumStrings, "delete")
     \/ /\ Move(Main, "delete", "return")
        /\ mem' = [mem EXCEPT !.key = FALSE]
        /\ Stay
     \/ Return
-----------------------------------------------------------------------------
(* 04a_signals: the worker sends SIGUSR1 to main.  A blocked signal stays  *)
(* pending; SIGUSR1 has no handler, so delivered it ends the process.      *)
SignalWorker(w) ==
  /\ program = "signals"
  /\ Move(w, "start", "ended")
  /\ IF mem.blocked
     THEN /\ mem' = [mem EXCEPT !.pending = @ \cup {"SIGUSR1"}]
          /\ UNCHANGED process
     ELSE process' = "killed" /\ UNCHANGED mem
  /\ UNCHANGED <<program, count, mutexvars>>

(* Anybody may send the process a SIGRTMIN.                                *)
OutsideSignal ==
  /\ program = "signals" /\ process = "running" /\ mem.blocked
  /\ mem' = [mem EXCEPT !.pending = @ \cup {"SIGRTMIN"}]
  /\ UNCHANGED pc /\ Stay

SignalMain ==
  /\ program = "signals"
  /\ \/ /\ Move(Main, "init", "create")
        /\ mem' = [mem EXCEPT !.blocked = TRUE]
        /\ Stay
     \/ At(Main, "init") /\ Exit("failed")
     \/ Create(<<"start">>, TRUE, "sigwait")
     \/ /\ Move(Main, "sigwait", "join")
        /\ \E s \in mem.pending :
             mem' = [mem EXCEPT !.pending = @ \ {s}, !.received = s]
        /\ Stay
     \/ JoinAll(1, "return")
     \/ Return
=============================================================================
