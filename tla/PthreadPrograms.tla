-------------------------- MODULE PthreadPrograms --------------------------
(***************************************************************************)
(* The pthread programs of day1 and day2 as one system: the variable       *)
(* program says which of them this behaviour is.                           *)
(***************************************************************************)
EXTENDS CounterPrograms, QueuePrograms, LifetimePrograms

Programs ==
  CounterPrograms \cup MutexKinds \cup CancelKinds
    \cup {"barrier", "prod_cons", "tsq", "future", "cancel_bare", "cancel_cpp", "tss",
          "signals"}

SharedData(p) ==
  CASE p \in CounterPrograms -> CountersMem
    [] p \in MutexKinds -> <<>>
    [] p = "barrier" -> BarrierMem
    [] p \in {"prod_cons", "tsq"} -> QueueMem
    [] p = "future" -> FutureMem
    [] p \in CancelKinds \cup {"cancel_bare", "cancel_cpp"} -> CancelMem
    [] p = "tss" -> TssMem
    [] p = "signals" -> SignalMem

Init ==
  /\ program \in Programs
  /\ mem = SharedData(program)
  /\ PthreadsInit

MainStep ==
  \/ SpinMain \/ PerfMain \/ KindMain \/ BarrierMain
  \/ ProdConsMain \/ TsqMain
  \/ FutureMain \/ CancelMain \/ CancelBareMain \/ CancelCppMain \/ TssMain \/ SignalMain

WorkerStep(w) ==
  \/ SpinThread(w) \/ PerfWorker(w) \/ KindThread(w) \/ BarrierWorker(w)
  \/ w = Producer /\ ProducerThread
  \/ w = Consumer /\ ConsumerThread
  \/ w = Producer /\ TsqProducer
  \/ w = 1 /\ Hello
  \/ w \in 2 .. 3 /\ RunTask(w)
  \/ w = 1 /\ (Thread_01_02(w) \/ Thread_03(w) \/ Tf(w) \/ SignalWorker(w))
  \/ TssThread(w)

(* What no thread does.                                                    *)
Outside == SpuriousWakeup \/ TfSpurious(1) \/ OutsideSignal

Next == MainStep \/ (\E w \in Workers : WorkerStep(w)) \/ Outside

(* A runnable thread is eventually scheduled.                              *)
Fairness == WF_vars(MainStep) /\ \A w \in Workers : WF_vars(WorkerStep(w))

Spec == Init /\ [][Next]_vars /\ Fairness
-----------------------------------------------------------------------------
(* The accesses to shared data that thread t is about to make.             *)
Reads(t) ==
  CASE program \in CounterPrograms -> IF pc[t] \in {"read", "print"} THEN {"counter"} ELSE {}
    [] program = "prod_cons" -> IF pc[t] = "look" THEN {"q"} ELSE {}
    [] program = "future" -> {w \in 2 .. 3 : pc[t] = (IF w = 2 THEN "read2" ELSE "read3")}
    [] OTHER -> {}

Writes(t) ==
  CASE program \in CounterPrograms -> IF pc[t] = "write" THEN {"counter"} ELSE {}
    [] program = "prod_cons" -> IF pc[t] \in {"push", "take"} THEN {"q"} ELSE {}
    [] program = "future" -> IF pc[t] = "task" THEN {t} ELSE {}
    [] OTHER -> {}

(* No thread is about to write what another is about to read or write: the *)
(* counters and the queue of 08_prod_cons are touched under their mutex,   *)
(* or alone after the joins, and a future's result is read after the join. *)
NoDataRace ==
  process = "running" =>
    \A t, u \in Threads : t # u => Writes(t) \cap (Reads(u) \cup Writes(u)) = {}

(* The counter programs print "ok": no increment is lost.                  *)
CounterExact ==
  program \in CounterPrograms /\ pc[Main] \in {"print", "return"} =>
    mem.counter = NumThreads * Iterations

(* future::get returns what the task computed, never the unset result.     *)
AnswersReady ==
  program = "future" => mem.printed \in {<<>>, <<42>>, <<42, 666>>}

(* What a consumer takes is what was pushed, in order, without gap and     *)
(* without repetition; in ex_TSQ as long as no push met a pop.             *)
ItemsInOrder ==
  program \in {"prod_cons", "tsq"} =>
    \A i \in 1 .. Len(mem.taken \o mem.q) :
      (mem.taken \o mem.q)[i] = IF i <= MaxItems THEN i - 1 ELSE Quit

(* No thread passes the barrier before all have arrived.                   *)
BarrierTogether ==
  program = "barrier" /\ (\E w \in Workers : pc[w] \in {"passed", "ended", "joined"}) =>
    \A w \in 1 .. NumThreads : pc[w] \in {"passed", "ended", "joined"}

(* Each program computes what its last lines say it does.                  *)
ResultExact == CounterExact /\ AnswersReady /\ ItemsInOrder /\ BarrierTogether

(* A thread that is gone holds no mutex, however it went; except in        *)
(* cpp_version, where the cancelled thread leaves m locked by a thread     *)
(* that no longer exists, every time.                                      *)
MutexesAtEnd ==
  \A t \in Threads :
    pc[t] \in {"ended", "joined"} => (owner = t <=> program = "cancel_cpp")

(* What a thread registered for its end is run when it is joined: the      *)
(* cleanup handler of a cancelled thread, wherever the request met it, and *)
(* the destructor of its thread-specific string, while the key exists.     *)
CleanedUp ==
  \A w \in Workers :
    pc[w] = "joined" =>
      /\ program \in CancelKinds => w \in mem.cleaned
      /\ program = "tss" => (w \in mem.slot => w \in mem.deleted)

(* The threads of the programs that do not see a failed pthread_create.    *)
Unchecked == [prod_cons |-> 2, cancel_cpp |-> 1, future |-> 3]

(* No program does anything undefined, and none is killed by a signal, but *)
(* for six mistakes: the exercise's unlocked queue, a thread that is       *)
(* joined or cancelled although it could not be created, the second join   *)
(* of a future, tf of cpp_version, which lacks a return, and in 13_cancel  *)
(* the cancellation that meets the asynchronous thread inside printf, and  *)
(* the argument that is used although it was not given.                    *)
WellDefined ==
  process \in {"undefined", "killed"} =>
    \/ program = "tsq"
    \/ program \in DOMAIN Unchecked /\ \E w \in 1 .. Unchecked[program] : pc[w] = "none"
    \/ program = "future" /\ \A w \in 1 .. 3 : pc[w] = "joined"
    \/ program = "cancel_cpp" /\ pc[1] = "ended"
    \/ program = "cancel_async" /\ pc[1] = "print" /\ mem.pending
    \/ program = "cancel_bare"

(* Every program whose loops end comes to an end; a normal mutex stops its *)
(* owner at the second lock for good.                                      *)
ProgramEnds ==
  program \notin {"prod_cons", "mutex_normal"} => <>(process # "running")

(* The consumer of 08_prod_cons takes whatever is pushed, although the     *)
(* signal comes after the unlock and may find nobody waiting.              *)
ItemsConsumed ==
  \A i \in 0 .. MaxItems - 1 :
    program = "prod_cons" /\ pc[Consumer] # "none" /\ count[Producer] > i
      ~> process # "running" \/ (program = "prod_cons" /\ Len(mem.taken) > i)
=============================================================================
