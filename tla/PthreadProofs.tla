--------------------------- MODULE PthreadProofs ---------------------------
(***************************************************************************)
(* PthreadPrograms proved for any number of threads, rounds and items.     *)
(* A behaviour is one program's, so the invariant has a part for each      *)
(* program, kept by that program's steps alone; what the parts share is    *)
(* how far main is with creating and joining its threads.                  *)
(***************************************************************************)
EXTENDS PthreadPrograms, FiniteSetTheorems, SequenceTheorems, TLAPS

Points ==
  {"none", "init", "create", "join", "return", "ended", "joined", "print", "destroy", "consume",
   "popping", "join1", "async2", "async3", "get2", "read2", "get3", "read3", "destroy3",
   "destroy2", "cancel", "delete", "sigwait",
   "loop", "read", "write", "unlock", "lock1", "lock2", "unlock2", "unlock1", "arrive",
   "blocked", "passed", "lock", "push", "signal", "look", "take", "waiting", "relock", "produce",
   "pushing", "hello", "task", "start", "setstate", "settype", "spin", "testcancel",
   "sleep", "enable", "pause", "wait", "fall", "show"}

PthreadTypeOK ==
  /\ program \in Programs
  /\ process \in {"running", "returned", "failed", "undefined", "killed"}
  /\ pc \in [Threads -> Points]
  /\ count \in [Threads -> Nat]
  /\ owner \in Threads \cup {None}

(* The points of main, and of the threads it may create.                   *)
Staff(n, main, points) ==
  /\ pc[Main] \in {"init", "create"} \cup main
  /\ \A w \in Workers : pc[w] \in IF w <= n THEN {"none"} \cup points ELSE {"none"}

(* Which of n threads main has created and joined; checked says that main  *)
(* has seen them start, after is where it is when it has joined them all.  *)
Forked(n, checked, after) ==
  process = "running" =>
    /\ count[Main] < n
    /\ pc[Main] \notin {"create", "join"} => count[Main] = 0
    /\ \A w \in Workers : w <= n =>
         /\ pc[Main] = "init" => pc[w] = "none"
         /\ pc[Main] = "create" /\ w > count[Main] => pc[w] = "none"
         /\ checked /\ pc[w] = "none" =>
              pc[Main] = "init" \/ (pc[Main] = "create" /\ w > count[Main])
         /\ pc[w] = "joined" <=>
              pc[Main] \in after \/ (pc[Main] = "join" /\ w <= count[Main])

Undisturbed == process \notin {"undefined", "killed"}
-----------------------------------------------------------------------------
(* The counter is the sum of what the threads have added: S[w] is what the *)
(* first w of them have.                                                   *)
Added(w) == count[w] + (IF pc[w] = "unlock" THEN 1 ELSE 0)

Summed(S) ==
  /\ S[0] = 0
  /\ \A w \in 1 .. NumThreads : S[w] = S[w - 1] + Added(w)
  /\ mem.counter = S[NumThreads]
  /\ pc[Main] = "join" => S[count[Main]] = count[Main] * Iterations

CountInv ==
  /\ Undisturbed
  /\ Staff(NumThreads, {"join", "print", "return"},
           {"loop", "read", "write", "unlock", "ended", "joined"})
  /\ Forked(NumThreads, TRUE, {"print", "return"})
  /\ mem \in [counter : Nat, seen : [Workers -> Nat]]
  /\ owner # Main
  /\ \A w \in Workers :
       /\ owner = w <=> pc[w] \in {"read", "write", "unlock"}
       /\ pc[w] = "write" => mem.seen[w] = mem.counter
       /\ pc[w] \in {"ended", "joined"} => count[w] = Iterations
       /\ pc[w] = "none" => count[w] = 0
  /\ \E S \in [0 .. NumThreads -> Nat] : Summed(S)
  /\ CounterExact

KindInv ==
  /\ Undisturbed
  /\ Staff(1, {"join", "return"}, {"lock1", "lock2", "unlock2", "unlock1", "ended", "joined"})
  /\ Forked(1, TRUE, {"return"})
  /\ owner \in {None, 1}
  /\ owner = 1 <=> pc[1] \in {"lock2", "unlock2", "unlock1"}

BarrierInv ==
  /\ Undisturbed
  /\ Staff(NumThreads, {"join", "destroy", "return"},
           {"arrive", "blocked", "passed", "ended", "joined"})
  /\ Forked(NumThreads, TRUE, {"destroy", "return"})
  /\ mem \in [waiting : SUBSET Workers]
  /\ mem.waiting = {w \in Workers : pc[w] = "blocked"}
  /\ owner = None
  /\ BarrierTogether
-----------------------------------------------------------------------------
QueueData ==
  /\ mem \in [q : Seq(Nat), taken : Seq(Nat)]
  /\ Len(mem.taken \o mem.q) = count[Producer]
  /\ ItemsInOrder

ProdConsInv ==
  /\ process \in {"running", "undefined"}
  /\ process = "undefined" => pc[Producer] = "none" \/ pc[Consumer] = "none"
  /\ Staff(2, {"join", "return"},
           {"lock", "push", "unlock", "signal", "look", "take", "waiting", "relock"})
  /\ Forked(2, FALSE, {"return"})
  /\ owner # Main
  /\ \A w \in Workers : owner = w <=> pc[w] \in {"push", "unlock", "look", "take"}
  /\ pc[Producer] = "push" => count[Producer] < MaxItems
  /\ pc[Consumer] = "take" => mem.q # <<>>
  /\ QueueData

TsqInv ==
  /\ Staff(1, {"consume", "popping", "return"}, {"produce", "pushing", "ended"})
  /\ pc[Main] \in {"init", "create"} => count[Main] = 0
  /\ owner = None
  /\ QueueData
-----------------------------------------------------------------------------
(* The points of futures.cpp's main, in their order.                       *)
BeforeJoin1 == {"init", "join1"}
BeforeJoin2 == BeforeJoin1 \cup {"async2", "async3", "get2"}
BeforeJoin3 == BeforeJoin2 \cup {"read2", "get3"}
FuturePoints == BeforeJoin3 \cup {"read3", "destroy3", "destroy2", "return"}

(* Who has been joined, and who cannot have been created yet.              *)
FutureOrder ==
  /\ Staff(3, FuturePoints, {"hello", "task", "ended", "joined"})
  /\ pc[Main] # "create"
  /\ pc[1] # "task" /\ pc[2] # "hello" /\ pc[3] # "hello"
  /\ pc[1] = "joined" <=> pc[Main] \notin BeforeJoin1
  /\ pc[2] = "joined" <=> pc[Main] \notin BeforeJoin2
  /\ pc[3] = "joined" <=> pc[Main] \notin BeforeJoin3
  /\ pc[Main] = "init" => pc[1] = "none"
  /\ pc[Main] \in {"init", "join1", "async2"} => pc[2] = "none"
  /\ pc[Main] \in {"init", "join1", "async2", "async3"} => pc[3] = "none"

(* A task that is over has left its answer.                                *)
FutureAnswers ==
  /\ mem \in [result : [2 .. 3 -> Nat \cup {Unset}], printed : Seq(Nat \cup {Unset})]
  /\ \A w \in 2 .. 3 : pc[w] \in {"ended", "joined"} => mem.result[w] = Answers[w]
  /\ pc[Main] \in BeforeJoin2 \cup {"read2"} => mem.printed = <<>>
  /\ pc[Main] \in {"get3", "read3"} => mem.printed = <<42>>
  /\ pc[Main] \in {"destroy3", "destroy2", "return"} => mem.printed = <<42, 666>>

FutureInv ==
  /\ process # "killed"
  /\ process = "undefined" =>
       (\E w \in 1 .. 3 : pc[w] = "none") \/ (\A w \in 1 .. 3 : pc[w] = "joined")
  /\ owner = None
  /\ FutureOrder
  /\ FutureAnswers

CancelData ==
  mem \in [pending : BOOLEAN, enabled : BOOLEAN, async : BOOLEAN,
           handlers : SUBSET Workers, cleaned : SUBSET Workers]

(* The handler is pushed before the thread can be cancelled, and only the  *)
(* asynchronous thread is ever cancelled inside a call that cannot bear it.*)
CancelInv ==
  /\ process # "killed"
  /\ process = "undefined" => program = "cancel_async" /\ pc[1] = "print" /\ mem.pending
  /\ mem.async => program = "cancel_async"
  /\ Staff(1, {"cancel", "join", "return"},
           {"start", "setstate", "settype", "print", "spin", "testcancel", "sleep", "enable",
            "pause", "ended", "joined"})
  /\ Forked(1, TRUE, {"return"})
  /\ owner = None
  /\ CancelData
  /\ pc[1] \notin {"none", "start"} => 1 \in mem.handlers
  /\ pc[1] \in {"none", "start", "setstate", "settype"} => ~mem.async
  /\ pc[1] \in {"ended", "joined"} => 1 \in mem.cleaned

CancelBareInv ==
  /\ process # "killed"
  /\ pc[Main] = "init" /\ \A w \in Workers : pc[w] = "none"
  /\ owner = None

CancelCppInv ==
  /\ process # "killed"
  /\ process = "undefined" => pc[1] \in {"none", "ended"}
  /\ Staff(1, {"cancel", "join", "return"},
           {"start", "wait", "waiting", "relock", "fall", "ended", "joined"})
  /\ Forked(1, FALSE, {"return"})
  /\ CancelData
  /\ owner \in {None, 1}
  /\ owner = 1 <=> pc[1] \in {"wait", "fall", "ended", "joined"}

TssInv ==
  /\ Undisturbed
  /\ Staff(NumStrings, {"join", "delete", "return"}, {"start", "show", "ended", "joined"})
  /\ Forked(NumStrings, TRUE, {"delete", "return"})
  /\ owner = None
  /\ mem \in [key : BOOLEAN, strings : SUBSET Workers, slot : SUBSET Workers,
              deleted : SUBSET Workers]
  /\ pc[Main] # "return" => mem.key
  /\ \A w \in Workers : pc[w] \in {"ended", "joined"} /\ w \in mem.slot => w \in mem.deleted

SignalInv ==
  /\ Undisturbed
  /\ Staff(1, {"sigwait", "join", "return"}, {"start", "ended", "joined"})
  /\ Forked(1, TRUE, {"return"})
  /\ owner = None
  /\ mem.blocked \in BOOLEAN
  /\ pc[Main] # "init" => mem.blocked

ProgramInv ==
  /\ program \in CounterPrograms => CountInv
  /\ program \in MutexKinds => KindInv
  /\ program = "barrier" => BarrierInv
  /\ program = "prod_cons" => ProdConsInv
  /\ program = "tsq" => TsqInv
  /\ program = "future" => FutureInv
  /\ program \in CancelKinds => CancelInv
  /\ program = "cancel_bare" => CancelBareInv
  /\ program = "cancel_cpp" => CancelCppInv
  /\ program = "tss" => TssInv
  /\ program = "signals" => SignalInv

PthreadInv == PthreadTypeOK /\ ProgramInv
-----------------------------------------------------------------------------
LEMMA Constants ==
  /\ MaxWorkers \in Nat /\ MaxWorkers >= 3
  /\ NumThreads \in Nat /\ 1 <= NumThreads /\ NumThreads <= MaxWorkers
  /\ NumStrings \in Nat /\ 1 <= NumStrings /\ NumStrings <= MaxWorkers
  /\ Iterations \in Nat /\ MaxItems \in Nat /\ NumConsumers \in Nat
  /\ Main \in Threads /\ Main \notin Workers /\ Workers \subseteq Threads
  /\ {1, 2, 3} \subseteq Workers /\ Workers \subseteq Nat \ {0}
  /\ None \notin Threads
  BY MaxWorkersAssumption, NoOwnerAssumption, CounterAssumption, QueueAssumption,
     LifetimeAssumption
     DEF Workers, Threads, Main

(* What each kind of program does in a step.                               *)
LEMMA StepOfProgram ==
  ASSUME Next
  PROVE  \/ program \in CounterPrograms /\ (CountMain \/ \E w \in Workers : CountingThread(w))
         \/ program \in MutexKinds /\ (KindMain \/ \E w \in Workers : KindThread(w))
         \/ program = "barrier" /\ (BarrierMain \/ \E w \in Workers : BarrierWorker(w))
         \/ /\ program = "prod_cons"
            /\ ProdConsMain \/ ProducerThread \/ ConsumerThread \/ SpuriousWakeup
         \/ program = "tsq" /\ (TsqMain \/ TsqProducer)
         \/ program = "future" /\ (FutureMain \/ Hello \/ \E w \in 2 .. 3 : RunTask(w))
         \/ program \in CancelKinds /\ (CancelMain \/ Thread_01_02(1) \/ Thread_03(1))
         \/ program = "cancel_bare" /\ CancelBareMain
         \/ program = "cancel_cpp" /\ (CancelCppMain \/ Tf(1) \/ TfSpurious(1))
         \/ program = "tss" /\ (TssMain \/ \E w \in Workers : TssThread(w))
         \/ program = "signals" /\ (SignalMain \/ SignalWorker(1) \/ OutsideSignal)
  <1>1. ASSUME NEW w \in Workers, WorkerStep(w)
        PROVE  \/ program \in CounterPrograms /\ CountingThread(w)
               \/ program \in MutexKinds /\ KindThread(w)
               \/ program = "barrier" /\ BarrierWorker(w)
               \/ program = "prod_cons" /\ (ProducerThread \/ ConsumerThread)
               \/ program = "tsq" /\ TsqProducer
               \/ program = "future" /\ (Hello \/ (w \in 2 .. 3 /\ RunTask(w)))
               \/ program \in CancelKinds /\ (Thread_01_02(1) \/ Thread_03(1))
               \/ program = "cancel_cpp" /\ Tf(1)
               \/ program = "tss" /\ TssThread(w)
               \/ program = "signals" /\ SignalWorker(1)
    <2>1. /\ SpinThread(w) \/ PerfWorker(w) => program \in CounterPrograms /\ CountingThread(w)
          /\ KindThread(w) => program \in MutexKinds
          /\ BarrierWorker(w) => program = "barrier"
      BY DEF SpinThread, PerfWorker, KindThread, BarrierWorker, CounterPrograms
    <2>2. /\ ProducerThread \/ ConsumerThread => program = "prod_cons"
          /\ TsqProducer => program = "tsq"
      BY DEF ProducerThread, ConsumerThread, TsqProducer
    <2>3. Hello \/ RunTask(w) => program = "future"
      BY DEF Hello, RunTask
    <2>4. /\ Thread_01_02(1) \/ Thread_03(1) => program \in CancelKinds
          /\ Tf(1) => program = "cancel_cpp"
          /\ SignalWorker(1) => program = "signals"
          /\ TssThread(w) => program = "tss"
      BY DEF Thread_01_02, Thread_03, Tf, SignalWorker, TssThread, CancelKinds
    <2> QED
      BY ONLY <1>1, <2>1, <2>2, <2>3, <2>4 DEF WorkerStep
  <1>2. ASSUME MainStep
        PROVE  \/ program \in CounterPrograms /\ CountMain
               \/ program \in MutexKinds /\ KindMain
               \/ program = "barrier" /\ BarrierMain
               \/ program = "prod_cons" /\ ProdConsMain
               \/ program = "tsq" /\ TsqMain
               \/ program = "future" /\ FutureMain
               \/ program \in CancelKinds /\ CancelMain
               \/ program = "cancel_bare" /\ CancelBareMain
               \/ program = "cancel_cpp" /\ CancelCppMain
               \/ program = "tss" /\ TssMain
               \/ program = "signals" /\ SignalMain
    <2>1. /\ SpinMain \/ PerfMain => program \in CounterPrograms /\ CountMain
          /\ KindMain => program \in MutexKinds
          /\ BarrierMain => program = "barrier"
      BY DEF SpinMain, PerfMain, KindMain, BarrierMain, CounterPrograms
    <2>2. /\ ProdConsMain => program = "prod_cons"
          /\ TsqMain => program = "tsq"
          /\ FutureMain => program = "future"
      BY DEF ProdConsMain, TsqMain, FutureMain
    <2>3. /\ CancelMain => program \in CancelKinds
          /\ CancelBareMain => program = "cancel_bare"
          /\ CancelCppMain => program = "cancel_cpp"
          /\ TssMain => program = "tss"
          /\ SignalMain => program = "signals"
      BY DEF CancelMain, CancelBareMain, CancelCppMain, TssMain, SignalMain
    <2> QED
      BY ONLY <1>2, <2>1, <2>2, <2>3 DEF MainStep
  <1>3. /\ SpuriousWakeup => program = "prod_cons"
        /\ TfSpurious(1) => program = "cancel_cpp"
        /\ OutsideSignal => program = "signals"
    BY DEF SpuriousWakeup, TfSpurious, OutsideSignal
  <1> QED
    BY <1>1, <1>2, <1>3 DEF Next, Outside
-----------------------------------------------------------------------------
(* How main comes to create its threads and to join them.                  *)
LEMMA ExitStep ==
  ASSUME PthreadTypeOK, NEW how \in {"returned", "failed"}, Exit(how)
  PROVE  /\ UNCHANGED <<program, pc, count, owner, mem>> /\ process' = how
         /\ PthreadTypeOK'
  BY DEF Exit, PthreadTypeOK, mutexvars

Creating(n, c, after, entries, e, next) ==
  /\ n \in Workers /\ c \in BOOLEAN
  /\ Forked(n, c, after) /\ {"init", "create", "join"} \cap after = {}
  /\ e \in Points \ {"none", "joined"}
  /\ Len(entries) = n /\ \A w \in 1 .. n : entries[w] = e
  /\ next \in Points \ ({"init", "create"} \cup after)
  /\ Create(entries, c, next)

LEMMA CreateStep ==
  ASSUME PthreadTypeOK, NEW n, NEW c, NEW after, NEW entries, NEW e, NEW next,
         Creating(n, c, after, entries, e, next)
  PROVE  /\ UNCHANGED <<program, owner, mem>> /\ process' \in {process, "failed"}
         /\ pc[Main] = "create" /\ pc'[Main] \in {"create", next}
         /\ pc'[Main] = next => count'[Main] = 0
         /\ \A w \in Workers :
              /\ count'[w] = count[w]
              /\ pc'[w] = pc[w] \/ (pc[w] = "none" /\ w <= n /\ pc'[w] = e)
         /\ PthreadTypeOK' /\ Forked(n, c, after)'
  <1> USE Constants DEF PthreadTypeOK, Creating
  <1> DEFINE k == count[Main]
             to == Looping(n, "create", next)
  <1>0. n \in Nat /\ k \in Nat
    OBVIOUS
  <1>1. CASE c /\ At(Main, "create") /\ Exit("failed")
    <2>1. pc[Main] = "create"
      BY <1>1 DEF At
    <2> QED
      BY <1>1, <2>1, ExitStep DEF Forked
  <1>2. ASSUME At(Main, "create"), Advance(n), UNCHANGED process,
               \/ /\ pc' = [pc EXCEPT ![Main] = to, ![k + 1] = entries[k + 1]]
               \/ ~c /\ Goto(Main, to)
        PROVE  /\ UNCHANGED <<program, owner, mem>> /\ process' \in {process, "failed"}
               /\ pc[Main] = "create" /\ pc'[Main] \in {"create", next}
               /\ pc'[Main] = next => count'[Main] = 0
               /\ \A w \in Workers :
                    /\ count'[w] = count[w]
                    /\ pc'[w] = pc[w] \/ (pc[w] = "none" /\ w <= n /\ pc'[w] = e)
               /\ PthreadTypeOK' /\ Forked(n, c, after)'
    <2>1. process = "running" /\ pc[Main] = "create" /\ k < n
      BY <1>2 DEF At, Forked
    <2>2. k + 1 \in Workers /\ k + 1 # Main /\ k + 1 \in 1 .. n
      BY <2>1, <1>0 DEF Workers, Main
    <2>3. /\ to = (IF k + 1 = n THEN next ELSE "create") /\ to \in {"create", next}
          /\ to = next <=> k + 1 = n
          /\ next # "create" /\ next \in Points /\ "create" \in Points
      <3>1. to = (IF k + 1 = n THEN next ELSE "create")
        BY DEF Looping
      <3> QED
        BY <3>1 DEF Points
    <2>4. pc[k + 1] = "none"
      BY <2>1, <2>2 DEF Forked
    <2>5. /\ pc'[Main] = to
          /\ pc'[k + 1] = e \/ (~c /\ pc'[k + 1] = "none")
          /\ \A w \in Workers \ {k + 1} : pc'[w] = pc[w]
          /\ pc' \in [Threads -> Points]
      BY <1>2, <2>2, <2>3, <2>4 DEF Goto
    <2>6. /\ count'[Main] = IF k + 1 = n THEN 0 ELSE k + 1
          /\ \A w \in Workers : count'[w] = count[w]
          /\ count' \in [Threads -> Nat]
      BY <1>2, <1>0 DEF Advance
    <2>7. PthreadTypeOK' /\ UNCHANGED <<program, owner, mem>>
      BY <1>2, <2>5, <2>6 DEF Advance, mutexvars
    <2>8. Forked(n, c, after)'
      <3>1. count'[Main] < n /\ (pc'[Main] # "create" => count'[Main] = 0)
        BY <2>1, <2>3, <2>5, <2>6, <1>0
      <3>2. ASSUME NEW w \in Workers, w <= n
            PROVE  /\ pc'[Main] = "init" => pc'[w] = "none"
                   /\ pc'[Main] = "create" /\ w > count'[Main] => pc'[w] = "none"
                   /\ c /\ pc'[w] = "none" =>
                        pc'[Main] = "init" \/ (pc'[Main] = "create" /\ w > count'[Main])
                   /\ pc'[w] = "joined" <=>
                        pc'[Main] \in after \/ (pc'[Main] = "join" /\ w <= count'[Main])
        <4>1. /\ pc[w] # "joined"
              /\ w > k => pc[w] = "none"
              /\ c /\ w <= k => pc[w] # "none"
          BY <2>1, <3>2, <1>0 DEF Forked
        <4>2. pc'[w] # "joined" /\ (c /\ w <= k + 1 => pc'[w] # "none")
              /\ (w > k + 1 => pc'[w] = "none")
          BY <4>1, <2>5, <2>2, <1>0, <3>2
        <4>3. CASE k + 1 = n
          BY <4>2, <4>3, <2>3, <2>5, <2>6, <3>2, <1>0
        <4>4. CASE k + 1 # n
          BY <4>2, <4>4, <2>3, <2>5, <2>6, <3>2, <1>0
        <4> QED
          BY <4>3, <4>4
      <3> QED
        BY <3>1, <3>2 DEF Forked
    <2> QED
      BY <1>2, <2>1, <2>2, <2>3, <2>4, <2>5, <2>6, <2>7, <2>8
  <1>3. CASE At(Main, "create") /\ Advance(n) /\ UNCHANGED process
             /\ (\/ pc' = [pc EXCEPT ![Main] = to, ![k + 1] = entries[k + 1]]
                 \/ ~c /\ Goto(Main, to))
    BY <1>2, <1>3
  <1> QED
    BY <1>1, <1>3 DEF Create, Move

(* The programs with one thread.                                           *)
CreatingOne(c, after, e, next) ==
  /\ c \in BOOLEAN
  /\ Forked(1, c, after) /\ {"init", "create", "join"} \cap after = {}
  /\ e \in Points \ {"none", "joined"} /\ next \in Points \ ({"init", "create"} \cup after)
  /\ Create(<<e>>, c, next)

LEMMA CreateOne ==
  ASSUME PthreadTypeOK, NEW c, NEW after, NEW e, NEW next, CreatingOne(c, after, e, next)
  PROVE  /\ UNCHANGED <<program, owner, mem>> /\ process' \in {process, "failed"}
         /\ pc[Main] = "create" /\ pc'[Main] \in {"create", next}
         /\ \A w \in Workers : count'[w] = count[w]
         /\ pc'[1] = pc[1] \/ (pc[1] = "none" /\ pc'[1] = e)
         /\ \A w \in Workers \ {1} : pc'[w] = pc[w]
         /\ PthreadTypeOK' /\ Forked(1, c, after)'
  <1> DEFINE n == 1
             E == <<e>>
  <1>1. n \in Workers /\ 1 .. n = {1} /\ Len(E) = n /\ E[1] = e /\ \A w \in Workers : w >= 1
    BY Constants DEF Workers
  <1>2. Creating(n, c, after, E, e, next)
    BY <1>1 DEF Creating, CreatingOne
  <1> HIDE DEF n, E
  <1>3. /\ UNCHANGED <<program, owner, mem>> /\ process' \in {process, "failed"}
        /\ pc[Main] = "create" /\ pc'[Main] \in {"create", next}
        /\ \A w \in Workers :
             /\ count'[w] = count[w]
             /\ pc'[w] = pc[w] \/ (pc[w] = "none" /\ w <= n /\ pc'[w] = e)
        /\ PthreadTypeOK' /\ Forked(n, c, after)'
    BY <1>2, CreateStep
  <1>4. \A w \in Workers : w <= 1 => w = 1
    BY Constants DEF Workers
  <1> QED
    BY <1>1, <1>3, <1>4 DEF n

Joining(n, c, after, next) ==
  /\ n \in Workers /\ c \in BOOLEAN
  /\ Forked(n, c, after) /\ {"init", "create", "join"} \cap after = {}
  /\ next \in Points \cap after
  /\ JoinAll(n, next)

LEMMA JoinStep ==
  ASSUME PthreadTypeOK, NEW n, NEW c, NEW after, NEW next, Joining(n, c, after, next)
  PROVE  /\ UNCHANGED <<program, owner, mem>>
         /\ process = "running" /\ pc[Main] = "join"
         /\ \A w \in Workers : count'[w] = count[w]
         /\ \/ /\ process' = "running"
               /\ count[Main] + 1 \in 1 .. n
               /\ pc[count[Main] + 1] = "ended" /\ pc'[count[Main] + 1] = "joined"
               /\ \A w \in Workers \ {count[Main] + 1} : pc'[w] = pc[w]
               /\ \/ pc'[Main] = "join" /\ count'[Main] = count[Main] + 1
                  \/ pc'[Main] = next /\ n = count[Main] + 1
            \/ /\ process' = "undefined" /\ UNCHANGED pc
               /\ count[Main] + 1 \in 1 .. n
               /\ ~c /\ pc[count[Main] + 1] = "none"
         /\ PthreadTypeOK' /\ Forked(n, c, after)'
  <1> USE Constants DEF PthreadTypeOK, Joining
  <1> DEFINE k == count[Main]
             to == Looping(n, "join", next)
  <1>1. process = "running" /\ pc[Main] = "join"
    BY DEF JoinAll, Join, At
  <1>2. n \in Nat /\ k \in Nat /\ k < n
    BY <1>1 DEF Forked
  <1>3. k + 1 \in Workers /\ k + 1 # Main /\ k + 1 \in 1 .. n
    BY <1>2 DEF Workers, Main
  <1>4. /\ count'[Main] = IF k + 1 = n THEN 0 ELSE k + 1
        /\ \A w \in Workers : count'[w] = count[w]
        /\ count' \in [Threads -> Nat]
        /\ UNCHANGED <<program, owner, mem>>
    BY <1>2 DEF JoinAll, Advance, mutexvars
  <1>5. \A w \in Workers : w <= n =>
          /\ c => pc[w] # "none"
          /\ pc[w] = "joined" <=> w <= k
    BY <1>1 DEF Forked
  <1>6. CASE process' = "undefined" /\ pc[k + 1] \in {"none", "joined"} /\ UNCHANGED pc
    <2>1. pc[k + 1] = "none" /\ ~c
      BY <1>6, <1>5, <1>3, <1>2
    <2> QED
      BY <1>1, <1>3, <1>4, <1>6, <2>1 DEF Forked
  <1>7. CASE UNCHANGED process /\ pc[k + 1] = "ended"
             /\ pc' = [pc EXCEPT ![k + 1] = "joined", ![Main] = to]
    <2>1. to = (IF k + 1 = n THEN next ELSE "join") /\ "join" \in Points /\ next \in Points
      <3>1. to = (IF k + 1 = n THEN next ELSE "join")
        BY DEF Looping
      <3> QED
        BY <3>1 DEF Points
    <2>2. /\ pc'[Main] = to /\ pc'[k + 1] = "joined"
          /\ \A w \in Workers \ {k + 1} : pc'[w] = pc[w]
          /\ pc' \in [Threads -> Points]
      BY <1>7, <1>3, <2>1 DEF Points
    <2>3. count'[Main] < n /\ (pc'[Main] # "join" => count'[Main] = 0)
      BY <1>2, <1>4, <2>1, <2>2
    <2>4. ASSUME NEW w \in Workers, w <= n
          PROVE  /\ c => pc'[w] # "none"
                 /\ pc'[w] = "joined" <=>
                      pc'[Main] \in after \/ (pc'[Main] = "join" /\ w <= count'[Main])
      <3>1. (c => pc'[w] # "none") /\ (pc'[w] = "joined" <=> w <= k + 1)
        BY <2>2, <1>5, <2>4, <1>2
      <3>2. CASE k + 1 = n
        BY <3>1, <3>2, <2>1, <2>2, <2>4
      <3>3. CASE k + 1 # n
        BY <3>1, <3>3, <2>1, <2>2, <1>4
      <3> QED
        BY <3>2, <3>3, <3>1
    <2>5. Forked(n, c, after)'
      <3>1. pc'[Main] \notin {"init", "create"}
        BY <2>1, <2>2
      <3> QED
        BY <2>3, <2>4, <3>1 DEF Forked
    <2> QED
      BY <1>1, <1>2, <1>3, <1>4, <1>7, <2>1, <2>2, <2>5
  <1> QED
    BY <1>6, <1>7 DEF JoinAll, Join

(* What leaves Forked alone: steps of the threads, ...                     *)
LEMMA ForkedKept ==
  ASSUME NEW n \in Workers, NEW c \in BOOLEAN, NEW after, Forked(n, c, after),
         process' = "running" => process = "running",
         pc'[Main] = pc[Main], count'[Main] = count[Main],
         \A w \in Workers :
           pc'[w] = pc[w] \/ (pc[w] \notin {"none", "joined"} /\ pc'[w] \notin {"none", "joined"})
  PROVE  Forked(n, c, after)'
  BY DEF Forked

(* ... and those of main that neither create nor join.                     *)
LEMMA ForkedMain ==
  ASSUME NEW n \in Workers, NEW c \in BOOLEAN, NEW after, Forked(n, c, after),
         {"init", "create", "join"} \cap after = {},
         process = "running", UNCHANGED count, \A w \in Workers : pc'[w] = pc[w],
         \/ pc[Main] = "init" /\ pc'[Main] = "create"
         \/ pc[Main] \notin {"init", "create", "join"} \cup after /\ pc'[Main] = "join"
         \/ pc[Main] \in after /\ pc'[Main] \in after,
         count[Main] \in Nat
  PROVE  Forked(n, c, after)'
  <1> USE Constants
  <1>0. \A w \in Workers : w \in Nat /\ w > 0
    OBVIOUS
  <1>1. CASE pc[Main] = "init" /\ pc'[Main] = "create"
    BY <1>0, <1>1 DEF Forked
  <1>2. CASE pc[Main] \notin {"init", "create", "join"} \cup after /\ pc'[Main] = "join"
    BY <1>0, <1>2 DEF Forked
  <1>3. CASE pc[Main] \in after /\ pc'[Main] \in after
    BY <1>0, <1>3 DEF Forked
  <1> QED
    BY <1>1, <1>2, <1>3

LEMMA MoveStep ==
  ASSUME PthreadTypeOK, NEW t \in Threads, NEW p, NEW r \in Points, Move(t, p, r)
  PROVE  /\ process = "running" /\ pc[t] = p
         /\ pc'[t] = r /\ \A u \in Threads \ {t} : pc'[u] = pc[u]
         /\ pc' \in [Threads -> Points]
  BY DEF PthreadTypeOK, Move, At, Goto
-----------------------------------------------------------------------------
(* In the first state no thread exists, and nothing has been counted,      *)
(* queued, cleaned or deleted.                                             *)
LEMMA InitInv == Init => PthreadInv
  <1> SUFFICES ASSUME Init PROVE PthreadInv
    OBVIOUS
  <1> USE Constants
  <1>1. /\ process = "running" /\ owner = None
        /\ pc[Main] = "init" /\ \A w \in Workers : pc[w] = "none"
        /\ \A t \in Threads : count[t] = 0
        /\ pc \in [Threads -> Points] /\ count \in [Threads -> Nat]
        /\ program \in Programs
    BY DEF Init, PthreadsInit, Points
  <1>2. PthreadTypeOK
    BY <1>1 DEF Init, PthreadsInit, PthreadTypeOK
  <1>3. \A n \in Workers : \A c \in BOOLEAN : \A S :
          "init" \notin S => Forked(n, c, S)
    BY <1>1 DEF Forked
  <1>4. \A n \in Workers : \A S, T : Staff(n, S, T)
    BY <1>1 DEF Staff
  <1>5. NumThreads \in Workers /\ NumStrings \in Workers
    BY CounterAssumption, LifetimeAssumption
  <1> USE <1>1, <1>5
  <1>6. ASSUME program \in CounterPrograms
        PROVE  CountInv
    <2>1. mem = CountersMem
      BY <1>6 DEF Init, SharedData, CounterPrograms, MutexKinds, CancelKinds
    <2> DEFINE S == [w \in 0 .. NumThreads |-> 0]
    <2>2. S \in [0 .. NumThreads -> Nat] /\ Summed(S)
      <3>1. \A w \in 1 .. NumThreads : w - 1 \in 0 .. NumThreads /\ w \in Workers
        BY DEF Workers
      <3> QED
        BY <2>1, <3>1 DEF Summed, Added, CountersMem
    <2>3. Staff(NumThreads, {"join", "print", "return"},
                {"loop", "read", "write", "unlock", "ended", "joined"})
          /\ Forked(NumThreads, TRUE, {"print", "return"})
      BY <1>3, <1>4
    <2> QED
      BY <2>1, <2>2, <2>3 DEF CountInv, Undisturbed, CountersMem, CounterExact
  <1>7. KindInv
    BY <1>3, <1>4 DEF KindInv, Undisturbed
  <1>8. ASSUME program = "barrier"
        PROVE  BarrierInv
    <2>1. mem = BarrierMem
      BY <1>8 DEF Init, SharedData, CounterPrograms, MutexKinds, CancelKinds
    <2> QED
      BY <1>3, <1>4, <2>1 DEF BarrierInv, BarrierMem, BarrierTogether, Undisturbed
  <1>9. ASSUME program \in {"prod_cons", "tsq"}
        PROVE  ProdConsInv /\ TsqInv
    <2>1. mem = QueueMem
      BY <1>9 DEF Init, SharedData, CounterPrograms, MutexKinds, CancelKinds
    <2>2. QueueData
      <3>1. <<>> \in Seq(Nat) /\ Len(<<>> \o <<>>) = 0
        BY EmptySeq
      <3> QED
        BY <2>1, <3>1 DEF QueueData, QueueMem, ItemsInOrder, Producer
    <2> QED
      BY <1>3, <1>4, <2>1, <2>2
         DEF ProdConsInv, TsqInv, QueueMem, Producer, Consumer
  <1>10. ASSUME program = "future"
         PROVE  FutureInv
    <2>1. mem = FutureMem
      BY <1>10 DEF Init, SharedData, CounterPrograms, MutexKinds, CancelKinds
    <2>2. mem \in [result : [2 .. 3 -> Nat \cup {Unset}], printed : Seq(Nat \cup {Unset})]
      BY <2>1, EmptySeq DEF FutureMem
    <2> QED
      BY <1>4, <2>1, <2>2
         DEF FutureInv, FutureOrder, FutureAnswers, FutureMem, BeforeJoin1, BeforeJoin2, BeforeJoin3, FuturePoints
  <1>11. ASSUME program \in CancelKinds \cup {"cancel_bare", "cancel_cpp"}
         PROVE  CancelInv /\ CancelBareInv /\ CancelCppInv
    <2>1. mem = CancelMem
      BY <1>11 DEF Init, SharedData, CounterPrograms, MutexKinds, CancelKinds
    <2> QED
      BY <1>3, <1>4, <2>1 DEF CancelInv, CancelBareInv, CancelCppInv, CancelData, CancelMem
  <1>12. ASSUME program = "tss"
         PROVE  TssInv
    <2>1. mem = TssMem
      BY <1>12 DEF Init, SharedData, CounterPrograms, MutexKinds, CancelKinds
    <2> QED
      BY <1>3, <1>4, <2>1 DEF TssInv, TssMem, Undisturbed
  <1>13. ASSUME program = "signals"
         PROVE  SignalInv
    <2>1. mem = SignalMem
      BY <1>13 DEF Init, SharedData, CounterPrograms, MutexKinds, CancelKinds
    <2> QED
      BY <1>3, <1>4, <2>1 DEF SignalInv, SignalMem, Undisturbed
  <1> QED
    BY <1>2, <1>6, <1>7, <1>8, <1>9, <1>10, <1>11, <1>12, <1>13 DEF PthreadInv, ProgramInv
-----------------------------------------------------------------------------
(* The counters of 05_mutex and 08_spin.                                   *)

(* Steps that leave the counter and what each thread has added.            *)
LEMMA SumKept ==
  ASSUME CountInv, \A w \in Workers : Added(w)' = Added(w), mem'.counter = mem.counter,
         \/ pc'[Main] # "join"
         \/ pc[Main] = "join" /\ pc'[Main] = "join" /\ count'[Main] = count[Main]
         \/ count'[Main] = 0
  PROVE  \E S \in [0 .. NumThreads -> Nat] : Summed(S)'
  <1>1. PICK S \in [0 .. NumThreads -> Nat] : Summed(S)
    BY DEF CountInv
  <1>2. 0 * Iterations = 0 /\ 1 .. NumThreads \subseteq Workers
    BY Constants DEF Workers
  <1>3. S[0] = 0 /\ \A w \in 1 .. NumThreads : S[w] = S[w - 1] + Added(w)'
    BY <1>1, <1>2 DEF Summed
  <1>4. mem'.counter = S[NumThreads]
    BY <1>1 DEF Summed
  <1>5. pc'[Main] = "join" => S[count'[Main]] = count'[Main] * Iterations
    BY <1>1, <1>2 DEF Summed
  <1>6. Summed(S)'
    BY <1>3, <1>4, <1>5 DEF Summed
  <1> QED
    BY <1>6

LEMMA CountMainStep ==
  ASSUME PthreadTypeOK, program \in CounterPrograms, CountInv, CountMain
  PROVE  program' = program /\ PthreadTypeOK' /\ CountInv'
  <1> USE Constants DEF mutexvars
  <1>0. NumThreads \in Workers /\ AllAt("loop") = [w \in 1 .. NumThreads |-> "loop"]
        /\ Len(AllAt("loop")) = NumThreads
    BY CounterAssumption DEF AllAt
  <1>1. ASSUME NEW how \in {"returned", "failed"}, Exit(how)
        PROVE  program' = program /\ PthreadTypeOK' /\ CountInv'
    <2>1. UNCHANGED <<program, pc, count, owner, mem>> /\ process' = how /\ PthreadTypeOK'
      BY <1>1, ExitStep
    <2> QED
      BY <2>1 DEF CountInv, Undisturbed, Staff, Forked, Summed, Added, CounterExact
  <1>2. ASSUME UNCHANGED <<program, process, count, owner, mem>>,
               Move(Main, "init", "create") \/ Move(Main, "print", "return")
        PROVE  PthreadTypeOK' /\ CountInv'
    <2>1. /\ pc' \in [Threads -> Points] /\ process = "running"
          /\ \/ pc[Main] = "init" /\ pc'[Main] = "create"
             \/ pc[Main] = "print" /\ pc'[Main] = "return"
          /\ \A w \in Workers : pc'[w] = pc[w]
      BY <1>2, MoveStep DEF Points
    <2>2. PthreadTypeOK'
      BY <1>2, <2>1 DEF PthreadTypeOK
    <2>3. Forked(NumThreads, TRUE, {"print", "return"})'
      BY <1>2, <2>1, <1>0, ForkedMain DEF CountInv, PthreadTypeOK
    <2>4. \A w \in Workers : Added(w)' = Added(w)
      BY <1>2, <2>1 DEF Added
    <2>5. \E S \in [0 .. NumThreads -> Nat] : Summed(S)'
      BY <2>4, <1>2, <2>1, SumKept
    <2> QED
      BY <1>2, <2>1, <2>2, <2>3, <2>5 DEF CountInv, Undisturbed, Staff, CounterExact
  <1>3. ASSUME Create(AllAt("loop"), TRUE, "join")
        PROVE  program' = program /\ PthreadTypeOK' /\ CountInv'
    <2>1. /\ UNCHANGED <<program, owner, mem>> /\ process' \in {process, "failed"}
          /\ pc[Main] = "create" /\ pc'[Main] \in {"create", "join"}
          /\ pc'[Main] = "join" => count'[Main] = 0
          /\ \A w \in Workers :
               /\ count'[w] = count[w]
               /\ pc'[w] = pc[w] \/ (pc[w] = "none" /\ w <= NumThreads /\ pc'[w] = "loop")
          /\ PthreadTypeOK' /\ Forked(NumThreads, TRUE, {"print", "return"})'
      <3>1. "join" \in Points \ ({"init", "create"} \cup {"print", "return"})
            /\ {"init", "create", "join"} \cap {"print", "return"} = {}
            /\ "loop" \in Points \ {"none", "joined"}
        BY DEF Points
      <3>2. Forked(NumThreads, TRUE, {"print", "return"})
        BY DEF CountInv
      <3>3. Creating(NumThreads, TRUE, {"print", "return"}, AllAt("loop"), "loop", "join")
        BY <1>3, <1>0, <3>1, <3>2 DEF Creating
      <3> QED
        BY <3>3, CreateStep
    <2>4. \A w \in Workers : Added(w)' = Added(w)
      BY <2>1 DEF Added
    <2>5. \E S \in [0 .. NumThreads -> Nat] : Summed(S)'
      BY <2>4, <2>1, SumKept
    <2> QED
      BY <2>1, <2>5 DEF CountInv, Undisturbed, Staff, CounterExact
  <1>4. ASSUME JoinAll(NumThreads, "print")
        PROVE  program' = program /\ PthreadTypeOK' /\ CountInv'
    <2> DEFINE k == count[Main]
    <2>1. /\ UNCHANGED <<program, owner, mem>>
          /\ process = "running" /\ pc[Main] = "join"
          /\ \A w \in Workers : count'[w] = count[w]
          /\ process' = "running" /\ k + 1 \in 1 .. NumThreads
          /\ pc[k + 1] = "ended" /\ pc'[k + 1] = "joined"
          /\ \A w \in Workers \ {k + 1} : pc'[w] = pc[w]
          /\ \/ pc'[Main] = "join" /\ count'[Main] = k + 1
             \/ pc'[Main] = "print" /\ NumThreads = k + 1
          /\ PthreadTypeOK' /\ Forked(NumThreads, TRUE, {"print", "return"})'
      <3>1. "print" \in Points \cap {"print", "return"}
            /\ {"init", "create", "join"} \cap {"print", "return"} = {}
        BY DEF Points
      <3>2. Forked(NumThreads, TRUE, {"print", "return"})
        BY DEF CountInv
      <3>3. Joining(NumThreads, TRUE, {"print", "return"}, "print")
        BY <1>4, <1>0, <3>1, <3>2 DEF Joining
      <3> QED
        BY <3>3, JoinStep
    <2>2. k \in Nat /\ k + 1 \in Workers
      BY <2>1 DEF PthreadTypeOK, Workers
    <2>3. \A w \in Workers : Added(w)' = Added(w)
      BY <2>1, <2>2 DEF Added
    <2>4. PICK S \in [0 .. NumThreads -> Nat] : Summed(S)
      BY DEF CountInv
    <2>5. Added(k + 1) = Iterations
      <3>1. count[k + 1] = Iterations
        BY <2>1, <2>2 DEF CountInv
      <3> QED
        BY <2>1, <3>1 DEF Added
    <2>6. S[k + 1] = k * Iterations + Iterations
      <3>1. S[k + 1] = S[(k + 1) - 1] + Added(k + 1)
        BY <2>1, <2>4 DEF Summed
      <3>2. (k + 1) - 1 = k /\ S[k] = k * Iterations
        BY <2>1, <2>2, <2>4 DEF Summed
      <3> QED
        BY <3>1, <3>2, <2>5
    <2>7. k * Iterations + Iterations = (k + 1) * Iterations
      BY <2>2
    <2>8. Summed(S)'
      <3>1. 1 .. NumThreads \subseteq Workers
        BY DEF Workers
      <3>2. S[0] = 0 /\ \A w \in 1 .. NumThreads : S[w] = S[w - 1] + Added(w)'
        BY <2>3, <2>4, <3>1 DEF Summed
      <3>3. pc'[Main] = "join" => S[count'[Main]] = count'[Main] * Iterations
        BY <2>1, <2>6, <2>7
      <3>4. mem'.counter = S[NumThreads]
        BY <2>1, <2>4 DEF Summed
      <3> QED
        BY <3>2, <3>3, <3>4 DEF Summed
    <2>9. CounterExact'
      <3>1. CASE pc'[Main] = "join"
        BY <3>1 DEF CounterExact
      <3>2. CASE pc'[Main] = "print" /\ NumThreads = k + 1
        <4>1. mem.counter = NumThreads * Iterations
          BY <3>2, <2>4, <2>6, <2>7 DEF Summed
        <4> QED
          BY <4>1, <2>1 DEF CounterExact
      <3> QED
        BY <3>1, <3>2, <2>1
    <2>10. Staff(NumThreads, {"join", "print", "return"},
                {"loop", "read", "write", "unlock", "ended", "joined"})'
      BY <2>1, <2>2 DEF CountInv, Staff
    <2>11. \A w \in Workers :
             /\ owner' = w <=> pc'[w] \in {"read", "write", "unlock"}
             /\ pc'[w] = "write" => mem'.seen[w] = mem'.counter
             /\ pc'[w] \in {"ended", "joined"} => count'[w] = Iterations
             /\ pc'[w] = "none" => count'[w] = 0
      <3>1. ASSUME NEW w \in Workers
            PROVE  /\ owner' = w <=> pc'[w] \in {"read", "write", "unlock"}
                   /\ pc'[w] = "write" => mem'.seen[w] = mem'.counter
                   /\ pc'[w] \in {"ended", "joined"} => count'[w] = Iterations
                   /\ pc'[w] = "none" => count'[w] = 0
        <4>1. CASE w = k + 1
          BY <4>1, <2>1 DEF CountInv
        <4>2. CASE w # k + 1
          BY <4>2, <2>1 DEF CountInv
        <4> QED
          BY <4>1, <4>2
      <3> QED
        BY <3>1
    <2> QED
      BY <2>1, <2>8, <2>9, <2>10, <2>11 DEF CountInv, Undisturbed
  <1> QED
    BY <1>1, <1>2, <1>3, <1>4 DEF CountMain, Setup, Return

LEMMA CountWorkerStep ==
  ASSUME PthreadTypeOK, program \in CounterPrograms, CountInv,
         NEW w \in Workers, CountingThread(w)
  PROVE  program' = program /\ PthreadTypeOK' /\ CountInv'
  <1> USE Constants DEF mutexvars
  <1> DEFINE Active == {"loop", "read", "write", "unlock"}
             Counted(v) == /\ owner = v <=> pc[v] \in {"read", "write", "unlock"}
                           /\ pc[v] = "write" => mem.seen[v] = mem.counter
                           /\ pc[v] \in {"ended", "joined"} => count[v] = Iterations
                           /\ pc[v] = "none" => count[v] = 0
  (* What is left to show is what a step says of w, the counter and the sum. *)
  <1>1. ASSUME UNCHANGED <<program, process>>, process = "running", pc[w] \in Active,
               pc'[w] \in Active \cup {"ended"}, \A u \in Threads \ {w} : pc'[u] = pc[u],
               pc' \in [Threads -> Points], count' \in [Threads -> Nat],
               \A u \in Threads \ {w} : count'[u] = count[u],
               owner' \in Threads \cup {None}, owner' # Main,
               mem' \in [counter : Nat, seen : [Workers -> Nat]],
               \A v \in Workers : Counted(v)',
               \E S \in [0 .. NumThreads -> Nat] : Summed(S)'
        PROVE  program' = program /\ PthreadTypeOK' /\ CountInv'
    <2>1. PthreadTypeOK'
      BY <1>1 DEF PthreadTypeOK
    <2>2. Staff(NumThreads, {"join", "print", "return"},
                {"loop", "read", "write", "unlock", "ended", "joined"})'
      BY <1>1 DEF CountInv, Staff
    <2>3. Forked(NumThreads, TRUE, {"print", "return"})'
      BY <1>1, CounterAssumption, ForkedKept DEF CountInv
    <2>4. w <= NumThreads
      BY <1>1 DEF CountInv, Staff
    <2>5. pc[Main] \notin {"print", "return"}
      BY <1>1, <2>4 DEF CountInv, Forked
    <2>6. CounterExact'
      BY <1>1, <2>5 DEF CounterExact
    <2> QED
      BY <1>1, <2>1, <2>2, <2>3, <2>6 DEF CountInv, Undisturbed
  <1>2. /\ mem \in [counter : Nat, seen : [Workers -> Nat]]
        /\ owner # Main /\ \A v \in Workers : Counted(v)
    BY DEF CountInv
  <1>3. CASE LockCounter(w)
    <2>1. /\ process = "running" /\ pc[w] = "loop" /\ pc'[w] = "read"
          /\ \A u \in Threads \ {w} : pc'[u] = pc[u]
          /\ pc' \in [Threads -> Points] /\ owner = None /\ owner' = w
          /\ UNCHANGED <<program, process, count, mem>>
      BY <1>3, MoveStep DEF LockCounter, Lock, Points
    <2>2. \A v \in Workers : Added(v)' = Added(v)
      BY <2>1 DEF Added
    <2>3. \E S \in [0 .. NumThreads -> Nat] : Summed(S)'
      BY <2>1, <2>2, SumKept
    <2>4. \A v \in Workers : Counted(v)'
      BY <1>2, <2>1
    <2> QED
      BY <1>1, <1>2, <2>1, <2>3, <2>4 DEF PthreadTypeOK
  <1>4. CASE ReadCounter(w)
    <2>1. /\ process = "running" /\ pc[w] = "read" /\ pc'[w] = "write"
          /\ \A u \in Threads \ {w} : pc'[u] = pc[u]
          /\ pc' \in [Threads -> Points]
          /\ UNCHANGED <<program, process, count, owner>>
          /\ mem' = [mem EXCEPT !.seen[w] = mem.counter]
      BY <1>4, MoveStep DEF ReadCounter, Points
    <2>2. /\ mem' \in [counter : Nat, seen : [Workers -> Nat]]
          /\ mem'.counter = mem.counter /\ mem'.seen[w] = mem.counter
          /\ \A v \in Workers \ {w} : mem'.seen[v] = mem.seen[v]
      BY <1>2, <2>1
    <2>3. \A v \in Workers : Added(v)' = Added(v)
      BY <2>1 DEF Added
    <2>4. \E S \in [0 .. NumThreads -> Nat] : Summed(S)'
      BY <2>1, <2>2, <2>3, SumKept
    <2>5. \A v \in Workers : Counted(v)'
      BY <1>2, <2>1, <2>2
    <2> QED
      BY <1>1, <1>2, <2>1, <2>2, <2>4, <2>5 DEF PthreadTypeOK
  <1>5. CASE WriteCounter(w)
    <2>1. /\ process = "running" /\ pc[w] = "write" /\ pc'[w] = "unlock"
          /\ \A u \in Threads \ {w} : pc'[u] = pc[u]
          /\ pc' \in [Threads -> Points]
          /\ UNCHANGED <<program, process, count, owner>>
          /\ mem' = [mem EXCEPT !.counter = mem.seen[w] + 1]
      BY <1>5, MoveStep DEF WriteCounter, Points
    <2>2. /\ mem' \in [counter : Nat, seen : [Workers -> Nat]]
          /\ mem'.counter = mem.counter + 1 /\ mem'.seen = mem.seen
      BY <1>2, <2>1
    <2>3. /\ Added(w) \in Nat /\ Added(w)' = Added(w) + 1
          /\ \A v \in Workers \ {w} : Added(v) \in Nat /\ Added(v)' = Added(v)
      BY <2>1 DEF Added, PthreadTypeOK
    <2>4. PICK S \in [0 .. NumThreads -> Nat] : Summed(S)
      BY DEF CountInv
    <2> DEFINE R == [v \in 0 .. NumThreads |-> IF v < w THEN S[v] ELSE S[v] + 1]
    <2>5. w \in 1 .. NumThreads /\ 1 .. NumThreads \subseteq Workers
      <3>1. w <= NumThreads
        BY <2>1 DEF CountInv, Staff
      <3> QED
        BY <3>1 DEF Workers
    <2>6. R \in [0 .. NumThreads -> Nat] /\ R[0] = 0
      <3>1. \A v \in 0 .. NumThreads : S[v] \in Nat /\ v \in Nat
        OBVIOUS
      <3>2. S[0] = 0 /\ 0 < w /\ 0 \in 0 .. NumThreads
        BY <2>4, <2>5 DEF Summed
      <3> QED
        BY <3>1, <3>2
    <2>7. ASSUME NEW v \in 1 .. NumThreads
          PROVE  R[v] = R[v - 1] + Added(v)'
      <3>1. /\ v \in 0 .. NumThreads /\ v - 1 \in 0 .. NumThreads /\ v \in Workers
            /\ S[v] = S[v - 1] + Added(v) /\ S[v] \in Nat /\ S[v - 1] \in Nat
            /\ v \in Nat /\ w \in Nat
        BY <2>4, <2>5 DEF Summed
      <3>2. CASE v < w
        BY <3>1, <3>2, <2>3
      <3>3. CASE v = w
        BY <3>1, <3>3, <2>3
      <3>4. CASE v > w
        BY <3>1, <3>4, <2>3
      <3> QED
        BY <3>1, <3>2, <3>3, <3>4
    <2>8. mem'.counter = R[NumThreads]
      <3>1. mem.counter = S[NumThreads] /\ NumThreads \in 0 .. NumThreads /\ ~(NumThreads < w)
        BY <2>4, <2>5 DEF Summed
      <3> QED
        BY <3>1, <2>2
    <2>9. pc'[Main] = "join" => R[count'[Main]] = count'[Main] * Iterations
      <3>1. SUFFICES ASSUME pc[Main] = "join"
                     PROVE  R[count[Main]] = count[Main] * Iterations
        BY <2>1
      <3>2. count[Main] < NumThreads /\ ~(w <= count[Main]) /\ count[Main] \in Nat
        BY <2>1, <2>5, <3>1 DEF CountInv, Forked, PthreadTypeOK
      <3>3. S[count[Main]] = count[Main] * Iterations
        BY <3>1, <2>4 DEF Summed
      <3>4. count[Main] < w /\ count[Main] \in 0 .. NumThreads
        BY <3>2
      <3> QED
        BY <3>3, <3>4
    <2> HIDE DEF R
    <2>10. Summed(R)'
      <3>1. R' = R
        BY DEF R
      <3>2. Summed(R)' <=> /\ R[0] = 0
                           /\ \A v \in 1 .. NumThreads : R[v] = R[v - 1] + Added(v)'
                           /\ mem'.counter = R[NumThreads]
                           /\ pc'[Main] = "join" => R[count'[Main]] = count'[Main] * Iterations
        BY <3>1 DEF Summed
      <3> QED
        BY <3>2, <2>6, <2>7, <2>8, <2>9
    <2>11. \A v \in Workers : Counted(v)'
      <3>1. \A v \in Workers \ {w} : pc[v] # "write"
        BY <1>2, <2>1
      <3> QED
        BY <1>2, <2>1, <2>2, <3>1
    <2>12. \E Q \in [0 .. NumThreads -> Nat] : Summed(Q)'
      BY <2>6, <2>10
    <2> QED
      BY <1>1, <1>2, <2>1, <2>2, <2>11, <2>12 DEF PthreadTypeOK
  <1>6. CASE UnlockCounter(w)
    <2>1. /\ process = "running" /\ pc[w] = "unlock" /\ pc'[w] = "loop"
          /\ \A u \in Threads \ {w} : pc'[u] = pc[u]
          /\ pc' \in [Threads -> Points] /\ owner' = None
          /\ UNCHANGED <<program, process, mem>>
          /\ count' = [count EXCEPT ![w] = @ + 1]
      BY <1>6, MoveStep DEF UnlockCounter, Unlock, Points
    <2>2. /\ count' \in [Threads -> Nat] /\ count'[w] = count[w] + 1 /\ count[w] \in Nat
          /\ \A u \in Threads \ {w} : count'[u] = count[u]
      BY <2>1 DEF PthreadTypeOK
    <2>3. \A v \in Workers : Added(v)' = Added(v)
      BY <2>1, <2>2 DEF Added
    <2>4. \E S \in [0 .. NumThreads -> Nat] : Summed(S)'
      BY <2>1, <2>2, <2>3, SumKept
    <2>5. \A v \in Workers : Counted(v)'
      BY <1>2, <2>1, <2>2
    <2> QED
      BY <1>1, <1>2, <2>1, <2>2, <2>4, <2>5
  <1>7. CASE LeaveLoop(w)
    <2>1. /\ process = "running" /\ pc[w] = "loop" /\ pc'[w] = "ended"
          /\ \A u \in Threads \ {w} : pc'[u] = pc[u]
          /\ pc' \in [Threads -> Points] /\ count[w] = Iterations
          /\ UNCHANGED <<program, process, count, owner, mem>>
      BY <1>7, MoveStep DEF LeaveLoop, Points
    <2>2. \A v \in Workers : Added(v)' = Added(v)
      BY <2>1 DEF Added
    <2>3. \E S \in [0 .. NumThreads -> Nat] : Summed(S)'
      BY <2>1, <2>2, SumKept
    <2>4. \A v \in Workers : Counted(v)'
      BY <1>2, <2>1
    <2> QED
      BY <1>1, <1>2, <2>1, <2>3, <2>4 DEF PthreadTypeOK
  <1> QED
    BY <1>3, <1>4, <1>5, <1>6, <1>7 DEF CountingThread
-----------------------------------------------------------------------------
(* The mutex kinds of 06_mutex_type.                                       *)
LEMMA KindStep ==
  ASSUME PthreadTypeOK, program \in MutexKinds, KindInv,
         KindMain \/ \E w \in Workers : KindThread(w)
  PROVE  program' = program /\ PthreadTypeOK' /\ KindInv'
  <1> USE Constants DEF mutexvars
  <1>0. 1 \in Workers /\ 1 # Main /\ \A w \in Workers : w <= 1 <=> w = 1
    BY DEF Main, Workers
  <1>1. ASSUME NEW how \in {"returned", "failed"}, Exit(how)
        PROVE  program' = program /\ PthreadTypeOK' /\ KindInv'
    <2>1. UNCHANGED <<program, pc, count, owner, mem>> /\ process' = how /\ PthreadTypeOK'
      BY <1>1, ExitStep
    <2> QED
      BY <2>1 DEF KindInv, Undisturbed, Staff, Forked
  <1>2. ASSUME UNCHANGED <<program, process, count, owner, mem>>, Move(Main, "init", "create")
        PROVE  PthreadTypeOK' /\ KindInv'
    <2>1. /\ pc' \in [Threads -> Points] /\ process = "running"
          /\ pc[Main] = "init" /\ pc'[Main] = "create"
          /\ \A w \in Workers : pc'[w] = pc[w]
      BY <1>2, MoveStep DEF Points
    <2>2. PthreadTypeOK'
      BY <1>2, <2>1 DEF PthreadTypeOK
    <2>3. Forked(1, TRUE, {"return"})'
      BY <1>2, <2>1, <1>0, ForkedMain DEF KindInv, PthreadTypeOK
    <2> QED
      BY <1>0, <1>2, <2>1, <2>2, <2>3 DEF KindInv, Undisturbed, Staff
  <1>3. ASSUME Create(<<"lock1">>, TRUE, "join")
        PROVE  program' = program /\ PthreadTypeOK' /\ KindInv'
    <2>1. CreatingOne(TRUE, {"return"}, "lock1", "join")
      BY <1>3 DEF CreatingOne, KindInv, Points
    <2>2. /\ UNCHANGED <<program, owner, mem>> /\ process' \in {process, "failed"}
          /\ pc[Main] = "create" /\ pc'[Main] \in {"create", "join"}
          /\ pc'[1] = pc[1] \/ (pc[1] = "none" /\ pc'[1] = "lock1")
          /\ \A w \in Workers \ {1} : pc'[w] = pc[w]
          /\ PthreadTypeOK' /\ Forked(1, TRUE, {"return"})'
      BY <2>1, CreateOne
    <2>3. Staff(1, {"join", "return"},
                {"lock1", "lock2", "unlock2", "unlock1", "ended", "joined"})'
      BY <1>0, <2>2 DEF KindInv, Staff
    <2> QED
      BY <2>2, <2>3 DEF KindInv, Undisturbed
  <1>4. ASSUME JoinAll(1, "return")
        PROVE  program' = program /\ PthreadTypeOK' /\ KindInv'
    <2>1. /\ UNCHANGED <<program, owner, mem>>
          /\ process' = "running"
          /\ \A w \in Workers : pc'[w] = pc[w] \/ (pc[w] = "ended" /\ pc'[w] = "joined")
          /\ pc'[Main] \in {"join", "return"}
          /\ PthreadTypeOK' /\ Forked(1, TRUE, {"return"})'
      <3>1. Joining(1, TRUE, {"return"}, "return")
        BY <1>0, <1>4 DEF Joining, KindInv, Points
      <3> QED
        BY <3>1, JoinStep
    <2> QED
      BY <1>0, <2>1 DEF KindInv, Undisturbed, Staff
  <1>5. ASSUME NEW w \in Workers, KindThread(w), ~LockFails(w)
        PROVE  program' = program /\ PthreadTypeOK' /\ KindInv'
    <2>1. /\ UNCHANGED <<program, process, count, mem>> /\ process = "running"
          /\ \A u \in Threads \ {w} : pc'[u] = pc[u]
          /\ pc' \in [Threads -> Points]
          /\ \/ pc[w] = "lock1" /\ pc'[w] = "lock2" /\ owner' = w
             \/ pc[w] = "lock2" /\ pc'[w] = "unlock2" /\ owner' = owner
             \/ pc[w] = "unlock2" /\ pc'[w] = "unlock1" /\ owner' = owner
             \/ pc[w] = "unlock1" /\ pc'[w] = "ended" /\ owner' = None
      <3>1. CASE LockFirst(w)
        BY <1>5, <3>1, MoveStep DEF KindThread, LockFirst, Lock, Points
      <3>2. CASE LockSecond(w)
        BY <1>5, <3>2, MoveStep DEF KindThread, LockSecond, Points
      <3>3. CASE UnlockSecond(w)
        BY <1>5, <3>3, MoveStep DEF KindThread, UnlockSecond, Points
      <3>4. CASE UnlockFirst(w)
        BY <1>5, <3>4, MoveStep DEF KindThread, UnlockFirst, Unlock, Points
      <3> QED
        BY <1>5, <3>1, <3>2, <3>3, <3>4 DEF KindThread
    <2>2. w = 1
      BY <2>1 DEF KindInv, Staff, Workers
    <2>3. PthreadTypeOK'
      BY <2>1 DEF PthreadTypeOK
    <2>4. Forked(1, TRUE, {"return"})'
      BY <1>0, <2>1, <2>2, ForkedKept DEF KindInv
    <2>5. Staff(1, {"join", "return"},
                {"lock1", "lock2", "unlock2", "unlock1", "ended", "joined"})'
      BY <1>0, <2>1, <2>2 DEF KindInv, Staff
    <2> QED
      BY <1>0, <2>1, <2>2, <2>3, <2>4, <2>5 DEF KindInv, Undisturbed
  <1>6. ASSUME NEW w \in Workers, KindThread(w)
        PROVE  program' = program /\ PthreadTypeOK' /\ KindInv'
    BY <1>1, <1>5, <1>6 DEF LockFails
  <1> QED
    BY <1>1, <1>2, <1>3, <1>4, <1>6 DEF KindMain, Setup, Return
-----------------------------------------------------------------------------
(* The barrier of 12_barrier.                                              *)
LEMMA ArriveStep ==
  ASSUME PthreadTypeOK, program = "barrier", BarrierInv, NEW w \in Workers,
         process = "running", Arrive(w),
         UNCHANGED <<program, process, count, mutexvars>>
  PROVE  PthreadTypeOK' /\ BarrierInv'
  <1> USE Constants DEF mutexvars
  <1> DEFINE W == mem.waiting
             Past == {"passed", "ended", "joined"}
             All == 1 .. NumThreads
  <1>1. /\ pc[w] = "arrive" /\ w \in All /\ w \notin W
        /\ W = {v \in Workers : pc[v] = "blocked"} /\ W \subseteq All
        /\ mem \in [waiting : SUBSET Workers]
        /\ \A v \in Workers : pc[v] \notin Past
    <2>1. pc[w] = "arrive" /\ w \in All
      BY DEF Arrive, At, BarrierInv, Staff, Workers
    <2>2. W = {v \in Workers : pc[v] = "blocked"} /\ mem \in [waiting : SUBSET Workers]
      BY DEF BarrierInv
    <2>3. W \subseteq All
      BY <2>2 DEF BarrierInv, Staff, Workers
    <2>4. \A v \in Workers : pc[v] \notin Past
      BY <2>1 DEF BarrierInv, BarrierTogether
    <2> QED
      BY <2>1, <2>2, <2>3, <2>4
  <1>2. pc[Main] \notin {"init", "destroy", "return"}
    BY <1>1 DEF BarrierInv, Forked
  <1>3. CASE /\ Cardinality(W) + 1 = NumThreads
             /\ mem' = [mem EXCEPT !.waiting = {}]
             /\ pc' = [t \in Threads |-> IF t \in W \cup {w} THEN "passed" ELSE pc[t]]
    <2>1. W \cup {w} = All
      <3>1. IsFiniteSet(All) /\ Cardinality(All) = NumThreads
        BY FS_Interval
      <3>2. IsFiniteSet(W) /\ Cardinality(W \cup {w}) = Cardinality(W) + 1
        BY <1>1, <3>1, FS_Subset, FS_AddElement
      <3>3. W \cup {w} \subseteq All
        BY <1>1
      <3> QED
        BY <1>3, <3>1, <3>2, <3>3, FS_Subset
    <2>2. /\ pc' \in [Threads -> Points]
          /\ \A v \in All : pc'[v] = "passed" /\ pc[v] \in {"arrive", "blocked"}
          /\ \A t \in Threads \ All : pc'[t] = pc[t]
          /\ All \subseteq Workers
      BY <1>1, <1>3, <2>1 DEF PthreadTypeOK, Points, Workers
    <2>3. mem' \in [waiting : SUBSET Workers] /\ mem'.waiting = {}
      BY <1>1, <1>3
    <2>4. pc'[Main] = pc[Main]
      BY <2>2 DEF Main
    <2>5. Forked(NumThreads, TRUE, {"destroy", "return"})'
      <3>1. \A v \in Workers : pc'[v] = pc[v]
              \/ (pc[v] \notin {"none", "joined"} /\ pc'[v] \notin {"none", "joined"})
        BY <2>2
      <3> QED
        BY <2>4, <3>1, CounterAssumption, ForkedKept DEF BarrierInv
    <2>6. Staff(NumThreads, {"join", "destroy", "return"},
                {"arrive", "blocked", "passed", "ended", "joined"})'
      BY <2>2, <2>4 DEF BarrierInv, Staff
    <2>7. \A v \in Workers : pc'[v] # "blocked"
      <3>1. \A v \in Workers \ All : pc[v] # "blocked"
        BY <1>1
      <3> QED
        BY <2>2, <3>1
    <2>8. BarrierTogether'
      BY <2>2 DEF BarrierTogether
    <2> QED
      BY <2>2, <2>3, <2>5, <2>6, <2>7, <2>8 DEF BarrierInv, Undisturbed, PthreadTypeOK
  <1>4. CASE mem' = [mem EXCEPT !.waiting = @ \cup {w}] /\ Goto(w, "blocked")
    <2>1. /\ pc' \in [Threads -> Points] /\ pc'[w] = "blocked"
          /\ \A t \in Threads \ {w} : pc'[t] = pc[t]
      BY <1>4 DEF PthreadTypeOK, Goto, Points
    <2>2. mem' \in [waiting : SUBSET Workers] /\ mem'.waiting = W \cup {w}
      BY <1>1, <1>4
    <2>3. Forked(NumThreads, TRUE, {"destroy", "return"})'
      BY <1>1, <2>1, CounterAssumption, ForkedKept DEF BarrierInv
    <2>4. Staff(NumThreads, {"join", "destroy", "return"},
                {"arrive", "blocked", "passed", "ended", "joined"})'
      BY <1>1, <2>1 DEF BarrierInv, Staff
    <2>5. mem'.waiting = {v \in Workers : pc'[v] = "blocked"}
      BY <1>1, <2>1, <2>2
    <2>6. BarrierTogether'
      BY <1>1, <2>1 DEF BarrierTogether
    <2> QED
      BY <2>1, <2>2, <2>3, <2>4, <2>5, <2>6 DEF BarrierInv, Undisturbed, PthreadTypeOK
  <1> QED
    BY <1>3, <1>4 DEF Arrive

LEMMA BarrierStep ==
  ASSUME PthreadTypeOK, program = "barrier", BarrierInv,
         BarrierMain \/ \E w \in Workers : BarrierWorker(w)
  PROVE  program' = program /\ PthreadTypeOK' /\ BarrierInv'
  <1> USE Constants DEF mutexvars
  <1> DEFINE After == {"destroy", "return"}
  <1>0. NumThreads \in Workers /\ Len(AllAt("arrive")) = NumThreads
        /\ \A w \in 1 .. NumThreads : AllAt("arrive")[w] = "arrive"
        /\ 1 .. NumThreads \subseteq Workers
    BY CounterAssumption DEF AllAt, Workers
  <1>1. ASSUME NEW how \in {"returned", "failed"}, Exit(how)
        PROVE  program' = program /\ PthreadTypeOK' /\ BarrierInv'
    <2>1. UNCHANGED <<program, pc, count, owner, mem>> /\ process' = how /\ PthreadTypeOK'
      BY <1>1, ExitStep
    <2> QED
      BY <2>1 DEF BarrierInv, Undisturbed, Staff, Forked, BarrierTogether
  <1>2. ASSUME UNCHANGED <<program, process, count, owner, mem>>, Move(Main, "init", "create")
        PROVE  PthreadTypeOK' /\ BarrierInv'
    <2>1. /\ pc' \in [Threads -> Points] /\ process = "running"
          /\ pc[Main] = "init" /\ pc'[Main] = "create"
          /\ \A w \in Workers : pc'[w] = pc[w]
      BY <1>2, MoveStep DEF Points
    <2>2. PthreadTypeOK'
      BY <1>2, <2>1 DEF PthreadTypeOK
    <2>3. Forked(NumThreads, TRUE, After)'
      BY <1>2, <2>1, <1>0, ForkedMain DEF BarrierInv, PthreadTypeOK
    <2>4. Staff(NumThreads, {"join", "destroy", "return"},
                {"arrive", "blocked", "passed", "ended", "joined"})'
      BY <2>1 DEF BarrierInv, Staff
    <2>5. mem'.waiting = {w \in Workers : pc'[w] = "blocked"}
      BY <1>2, <2>1 DEF BarrierInv
    <2>6. BarrierTogether'
      BY <1>0, <1>2, <2>1 DEF BarrierInv, BarrierTogether
    <2> QED
      BY <1>2, <2>1, <2>2, <2>3, <2>4, <2>5, <2>6 DEF BarrierInv, Undisturbed
  <1>3. ASSUME Create(AllAt("arrive"), TRUE, "join")
        PROVE  program' = program /\ PthreadTypeOK' /\ BarrierInv'
    <2>1. Creating(NumThreads, TRUE, After, AllAt("arrive"), "arrive", "join")
      BY <1>0, <1>3 DEF Creating, BarrierInv, Points
    <2>2. /\ UNCHANGED <<program, owner, mem>> /\ process' \in {process, "failed"}
          /\ pc[Main] = "create" /\ pc'[Main] \in {"create", "join"}
          /\ \A w \in Workers :
               pc'[w] = pc[w] \/ (pc[w] = "none" /\ w <= NumThreads /\ pc'[w] = "arrive")
          /\ PthreadTypeOK' /\ Forked(NumThreads, TRUE, After)'
      <3> HIDE DEF After
      <3>1. /\ UNCHANGED <<program, owner, mem>> /\ process' \in {process, "failed"}
            /\ pc[Main] = "create" /\ pc'[Main] \in {"create", "join"}
            /\ pc'[Main] = "join" => count'[Main] = 0
            /\ \A w \in Workers :
                 /\ count'[w] = count[w]
                 /\ pc'[w] = pc[w] \/ (pc[w] = "none" /\ w <= NumThreads /\ pc'[w] = "arrive")
            /\ PthreadTypeOK' /\ Forked(NumThreads, TRUE, After)'
        BY <2>1, CreateStep
      <3> QED
        BY <3>1
    <2>3. Staff(NumThreads, {"join", "destroy", "return"},
                {"arrive", "blocked", "passed", "ended", "joined"})'
      BY <2>2 DEF BarrierInv, Staff
    <2>4. mem'.waiting = {w \in Workers : pc'[w] = "blocked"}
      BY <2>2 DEF BarrierInv
    <2>5. BarrierTogether'
      <3>1. \A w \in Workers : pc'[w] = pc[w] \/ (pc[w] = "none" /\ pc'[w] = "arrive")
        BY <2>2
      <3>2. 1 .. NumThreads \subseteq Workers
        BY DEF Workers
      <3> QED
        BY <2>2, <3>1, <3>2 DEF BarrierInv, BarrierTogether
    <2> QED
      BY <2>2, <2>3, <2>4, <2>5 DEF BarrierInv, Undisturbed
  <1>4. ASSUME JoinAll(NumThreads, "destroy")
        PROVE  program' = program /\ PthreadTypeOK' /\ BarrierInv'
    <2>1. Joining(NumThreads, TRUE, After, "destroy")
      BY <1>0, <1>4 DEF Joining, BarrierInv, Points
    <2>2. /\ UNCHANGED <<program, owner, mem>>
          /\ process' = "running"
          /\ \A w \in Workers : pc'[w] = pc[w] \/ (pc[w] = "ended" /\ pc'[w] = "joined")
          /\ pc'[Main] \in {"join", "destroy"}
          /\ PthreadTypeOK' /\ Forked(NumThreads, TRUE, After)'
      BY <2>1, JoinStep
    <2>3. Staff(NumThreads, {"join", "destroy", "return"},
                {"arrive", "blocked", "passed", "ended", "joined"})'
      BY <2>2 DEF BarrierInv, Staff
    <2>4. mem'.waiting = {w \in Workers : pc'[w] = "blocked"}
      BY <2>2 DEF BarrierInv
    <2>5. BarrierTogether'
      <3>1. 1 .. NumThreads \subseteq Workers
        BY DEF Workers
      <3> QED
        BY <2>2, <3>1 DEF BarrierInv, BarrierTogether
    <2> QED
      BY <2>2, <2>3, <2>4, <2>5 DEF BarrierInv, Undisturbed
  <1>5. ASSUME DestroyBarrier
        PROVE  program' = program /\ PthreadTypeOK' /\ BarrierInv'
    <2>1. /\ pc' \in [Threads -> Points] /\ process = "running"
          /\ pc[Main] = "destroy" /\ pc'[Main] = "return"
          /\ \A w \in Workers : pc'[w] = pc[w]
          /\ UNCHANGED <<program, count, owner, mem>>
          /\ process' = IF mem.waiting = {} THEN process ELSE "undefined"
      BY <1>5, MoveStep DEF DestroyBarrier, Points
    <2>2. \A w \in Workers : pc[w] # "blocked"
      <3>1. \A w \in Workers : w <= NumThreads => pc[w] = "joined"
        BY <2>1 DEF BarrierInv, Forked
      <3>2. \A w \in Workers : ~(w <= NumThreads) => pc[w] = "none"
        BY DEF BarrierInv, Staff
      <3> QED
        BY <3>1, <3>2
    <2>3. mem.waiting = {} /\ process' = "running"
      BY <2>1, <2>2 DEF BarrierInv
    <2>4. PthreadTypeOK'
      BY <2>1, <2>3 DEF PthreadTypeOK
    <2>5. Forked(NumThreads, TRUE, After)'
      BY <2>1, <1>0, ForkedMain DEF BarrierInv, PthreadTypeOK
    <2>6. Staff(NumThreads, {"join", "destroy", "return"},
                {"arrive", "blocked", "passed", "ended", "joined"})'
      BY <2>1 DEF BarrierInv, Staff
    <2>7. mem'.waiting = {w \in Workers : pc'[w] = "blocked"}
      BY <2>1 DEF BarrierInv
    <2>8. BarrierTogether'
      BY <1>0, <2>1 DEF BarrierInv, BarrierTogether
    <2> QED
      BY <2>1, <2>3, <2>4, <2>5, <2>6, <2>7, <2>8 DEF BarrierInv, Undisturbed
  <1>6. ASSUME NEW w \in Workers, BarrierWorker(w)
        PROVE  program' = program /\ PthreadTypeOK' /\ BarrierInv'
    <2>1. CASE Arrive(w)
      BY <1>6, <2>1, ArriveStep DEF BarrierWorker, Arrive, At
    <2>2. CASE Move(w, "passed", "ended") /\ UNCHANGED mem
      <3>1. /\ pc' \in [Threads -> Points] /\ process = "running"
            /\ pc[w] = "passed" /\ pc'[w] = "ended"
            /\ \A u \in Threads \ {w} : pc'[u] = pc[u]
            /\ UNCHANGED <<program, process, count, owner, mem>>
        BY <1>6, <2>2, MoveStep DEF BarrierWorker, Points
      <3>2. PthreadTypeOK'
        BY <3>1 DEF PthreadTypeOK
      <3>3. Forked(NumThreads, TRUE, After)'
        BY <3>1, <1>0, ForkedKept DEF BarrierInv
      <3>4. Staff(NumThreads, {"join", "destroy", "return"},
                  {"arrive", "blocked", "passed", "ended", "joined"})'
        BY <3>1 DEF BarrierInv, Staff
      <3>5. mem'.waiting = {v \in Workers : pc'[v] = "blocked"}
        BY <3>1 DEF BarrierInv
      <3>6. BarrierTogether'
        BY <1>0, <3>1 DEF BarrierInv, BarrierTogether
      <3> QED
        BY <3>1, <3>2, <3>3, <3>4, <3>5, <3>6 DEF BarrierInv, Undisturbed
    <2> QED
      BY <1>6, <2>1, <2>2 DEF BarrierWorker
  <1> QED
    BY <1>1, <1>2, <1>3, <1>4, <1>5, <1>6 DEF BarrierMain, Setup, Return
-----------------------------------------------------------------------------
(* The queues of 08_prod_cons and ex_TSQ: what was taken and what is in    *)
(* the queue are the items pushed, in order.                               *)
LEMMA ConcatAt ==
  ASSUME NEW a \in Seq(Nat), NEW b \in Seq(Nat)
  PROVE  /\ Len(a) \in Nat /\ Len(b) \in Nat /\ Len(a \o b) = Len(a) + Len(b)
         /\ \A i \in Nat : 1 <= i /\ i <= Len(a) => (a \o b)[i] = a[i]
         /\ \A i \in Nat : Len(a) < i /\ i <= Len(a) + Len(b) => (a \o b)[i] = b[i - Len(a)]
  BY ConcatProperties, LenProperties

(* The item that is pushed as number i, ...                                *)
Item(i) == IF i <= MaxItems THEN i - 1 ELSE Quit

(* ... and where it is when n have been pushed: in t if it has been taken, *)
(* or else in u.                                                           *)
Numbered(t, u, n) ==
  /\ Len(t) + Len(u) = n
  /\ \A i \in Nat : 1 <= i /\ i <= Len(t) => t[i] = Item(i)
  /\ \A i \in Nat : Len(t) < i /\ i <= n => u[i - Len(t)] = Item(i)

LEMMA NumberedConcat ==
  ASSUME NEW t \in Seq(Nat), NEW u \in Seq(Nat), NEW n \in Nat
  PROVE  Numbered(t, u, n) <=>
           /\ Len(t \o u) = n
           /\ \A i \in 1 .. Len(t \o u) : (t \o u)[i] = Item(i)
  <1>1. PICK c : c = t \o u
    OBVIOUS
  <1>2. /\ Len(t) \in Nat /\ Len(u) \in Nat /\ Len(c) = Len(t) + Len(u)
        /\ \A i \in Nat : 1 <= i /\ i <= Len(t) => c[i] = t[i]
        /\ \A i \in Nat : Len(t) < i /\ i <= Len(t) + Len(u) => c[i] = u[i - Len(t)]
    BY <1>1, ConcatAt
  <1>3. ASSUME Numbered(t, u, n)
        PROVE  Len(c) = n /\ \A i \in 1 .. Len(c) : c[i] = Item(i)
    <2>1. ASSUME NEW i \in 1 .. Len(c)
          PROVE  c[i] = Item(i)
      <3>1. i \in Nat /\ 1 <= i /\ i <= n
        BY <1>2, <1>3 DEF Numbered
      <3>2. CASE i <= Len(t)
        BY <1>2, <1>3, <3>1, <3>2 DEF Numbered
      <3>3. CASE Len(t) < i
        BY <1>2, <1>3, <3>1, <3>3 DEF Numbered
      <3> QED
        BY <3>1, <3>2, <3>3, <1>2
    <2> QED
      BY <1>2, <1>3, <2>1 DEF Numbered
  <1>4. ASSUME Len(c) = n, \A i \in 1 .. Len(c) : c[i] = Item(i)
        PROVE  Numbered(t, u, n)
    <2>1. \A i \in Nat : 1 <= i /\ i <= n => c[i] = Item(i)
      BY <1>4
    <2>2. ASSUME NEW i \in Nat, 1 <= i, i <= Len(t)
          PROVE  t[i] = Item(i)
      <3>1. i <= n /\ c[i] = t[i]
        BY <1>2, <1>4, <2>2
      <3> QED
        BY <2>1, <2>2, <3>1
    <2>3. ASSUME NEW i \in Nat, Len(t) < i, i <= n
          PROVE  u[i - Len(t)] = Item(i)
      <3>1. 1 <= i /\ c[i] = u[i - Len(t)]
        BY <1>2, <1>4, <2>3
      <3> QED
        BY <2>1, <2>3, <3>1
    <2> QED
      BY <1>2, <1>4, <2>2, <2>3 DEF Numbered
  <1> QED
    BY <1>1, <1>3, <1>4

LEMMA PushKeepsOrder ==
  ASSUME PthreadTypeOK, QueueData, program \in {"prod_cons", "tsq"}, program' = program,
         mem' = [mem EXCEPT !.q = Append(@, IF count[Producer] < MaxItems
                                            THEN count[Producer] ELSE Quit)],
         count' = [count EXCEPT ![Producer] = @ + 1]
  PROVE  QueueData'
  <1>0. PICK x, u, t, n :
          /\ x = IF count[Producer] < MaxItems THEN count[Producer] ELSE Quit
          /\ u = mem.q /\ t = mem.taken /\ n = count[Producer]
    OBVIOUS
  <1>1. n \in Nat /\ count'[Producer] = n + 1 /\ x \in Nat /\ x = Item(n + 1)
    BY <1>0, Constants DEF PthreadTypeOK, Producer, Quit, Item
  <1>2. mem \in [q : Seq(Nat), taken : Seq(Nat)]
    BY DEF QueueData
  <1>3. t \in Seq(Nat) /\ u \in Seq(Nat)
    BY <1>0, <1>2
  <1>4. Numbered(t, u, n)
    <2>1. Len(t \o u) = n /\ \A i \in 1 .. Len(t \o u) : (t \o u)[i] = Item(i)
      BY <1>0 DEF QueueData, ItemsInOrder, Item
    <2> QED
      BY <1>1, <1>3, <2>1, NumberedConcat
  <1>5. PICK v : v = Append(u, x)
    OBVIOUS
  <1>6. /\ v \in Seq(Nat) /\ Len(v) = Len(u) + 1 /\ Len(u) \in Nat /\ Len(t) \in Nat
        /\ \A i \in 1 .. Len(u) : v[i] = u[i]
        /\ v[Len(u) + 1] = x
    BY <1>1, <1>3, <1>5, AppendProperties, LenProperties
  <1>7. Numbered(t, v, n + 1)
    <2>1. Len(t) + Len(u) = n /\ Len(t) + Len(v) = n + 1
      BY <1>4, <1>6 DEF Numbered
    <2>2. ASSUME NEW i \in Nat, Len(t) < i, i <= n + 1
          PROVE  v[i - Len(t)] = Item(i)
      <3>1. CASE i <= n
        <4>1. i - Len(t) \in 1 .. Len(u) /\ u[i - Len(t)] = Item(i)
          BY <2>1, <2>2, <3>1, <1>4, <1>6 DEF Numbered
        <4> QED
          BY <4>1, <1>6
      <3>2. CASE i = n + 1
        <4>1. i - Len(t) = Len(u) + 1
          BY <2>1, <3>2, <1>1, <1>6
        <4> QED
          BY <4>1, <3>2, <1>1, <1>6
      <3> QED
        BY <3>1, <3>2, <2>2, <1>1
    <2> QED
      BY <2>1, <2>2, <1>4 DEF Numbered
  <1>8. Len(t \o v) = n + 1 /\ \A i \in 1 .. Len(t \o v) : (t \o v)[i] = Item(i)
    <2>1. PICK m \in Nat : m = n + 1
      BY <1>1
    <2>2. Numbered(t, v, m)
      BY <1>7, <2>1
    <2>3. Len(t \o v) = m /\ \A i \in 1 .. Len(t \o v) : (t \o v)[i] = Item(i)
      BY <1>3, <1>6, <2>2, NumberedConcat
    <2> QED
      BY <2>1, <2>3
  <1>9. mem' \in [q : Seq(Nat), taken : Seq(Nat)] /\ mem'.q = v /\ mem'.taken = t
    <2>1. mem' = [mem EXCEPT !.q = v]
      BY <1>0, <1>5
    <2> QED
      BY <1>0, <1>2, <1>6, <2>1
  <1> QED
    BY <1>1, <1>8, <1>9 DEF QueueData, ItemsInOrder, Item

LEMMA TakeKeepsOrder ==
  ASSUME PthreadTypeOK, QueueData, program \in {"prod_cons", "tsq"}, program' = program,
         mem.q # <<>>, count'[Producer] = count[Producer],
         mem' = [mem EXCEPT !.q = Tail(@), !.taken = Append(@, Head(mem.q))]
  PROVE  QueueData'
  <1>0. PICK u, t, n : u = mem.q /\ t = mem.taken /\ n = count[Producer]
    OBVIOUS
  <1>1. n \in Nat /\ count'[Producer] = n
    BY <1>0, Constants DEF PthreadTypeOK, Producer
  <1>2. mem \in [q : Seq(Nat), taken : Seq(Nat)]
    BY DEF QueueData
  <1>3. t \in Seq(Nat) /\ u \in Seq(Nat) /\ u # <<>>
    BY <1>0, <1>2
  <1>4. Numbered(t, u, n)
    <2>1. Len(t \o u) = n /\ \A i \in 1 .. Len(t \o u) : (t \o u)[i] = Item(i)
      BY <1>0 DEF QueueData, ItemsInOrder, Item
    <2> QED
      BY <1>1, <1>3, <2>1, NumberedConcat
  <1>5. PICK h, v : h = Append(t, Head(u)) /\ v = Tail(u)
    OBVIOUS
  <1>6. /\ v \in Seq(Nat) /\ Len(v) = Len(u) - 1 /\ Len(u) \in Nat /\ Len(u) > 0
        /\ Head(u) = u[1] /\ Head(u) \in Nat /\ Len(t) \in Nat
        /\ \A i \in 1 .. Len(u) - 1 : v[i] = u[i + 1]
    BY <1>3, <1>5, HeadTailProperties, LenProperties, EmptySeq
  <1>7. /\ h \in Seq(Nat) /\ Len(h) = Len(t) + 1
        /\ \A i \in 1 .. Len(t) : h[i] = t[i]
        /\ h[Len(t) + 1] = u[1]
    BY <1>3, <1>5, <1>6, AppendProperties, LenProperties
  <1>8. Numbered(h, v, n)
    <2>1. Len(t) + Len(u) = n /\ Len(h) + Len(v) = n
      BY <1>4, <1>6, <1>7 DEF Numbered
    <2>2. ASSUME NEW i \in Nat, 1 <= i, i <= Len(h)
          PROVE  h[i] = Item(i)
      <3>1. CASE i <= Len(t)
        BY <2>2, <3>1, <1>4, <1>6, <1>7 DEF Numbered
      <3>2. CASE i = Len(t) + 1
        <4>1. i - Len(t) = 1 /\ Len(t) < i /\ i <= n
          BY <2>1, <3>2, <1>6
        <4>2. u[i - Len(t)] = Item(i)
          BY <2>2, <4>1, <1>4 DEF Numbered
        <4> QED
          BY <4>1, <4>2, <3>2, <1>7
      <3> QED
        BY <3>1, <3>2, <2>2, <1>6, <1>7
    <2>3. ASSUME NEW i \in Nat, Len(h) < i, i <= n
          PROVE  v[i - Len(h)] = Item(i)
      <3>1. /\ i - Len(h) \in 1 .. Len(u) - 1 /\ (i - Len(h)) + 1 = i - Len(t)
            /\ Len(t) < i
        BY <2>1, <2>3, <1>6, <1>7
      <3>2. u[i - Len(t)] = Item(i)
        BY <2>3, <3>1, <1>4 DEF Numbered
      <3> QED
        BY <3>1, <3>2, <1>6
    <2> QED
      BY <2>1, <2>2, <2>3 DEF Numbered
  <1>9. Len(h \o v) = n /\ \A i \in 1 .. Len(h \o v) : (h \o v)[i] = Item(i)
    BY <1>1, <1>6, <1>7, <1>8, NumberedConcat
  <1>10. mem' \in [q : Seq(Nat), taken : Seq(Nat)] /\ mem'.q = v /\ mem'.taken = h
    <2>1. mem' = [mem EXCEPT !.q = v, !.taken = h]
      BY <1>0, <1>5, <1>2
    <2> QED
      BY <1>2, <1>6, <1>7, <2>1
  <1> QED
    BY <1>1, <1>9, <1>10 DEF QueueData, ItemsInOrder, Item

LEMMA DataKept ==
  ASSUME QueueData, UNCHANGED <<program, mem>>, count'[Producer] = count[Producer]
  PROVE  QueueData'
  BY DEF QueueData, ItemsInOrder

LEMMA ProdConsMainStep ==
  ASSUME PthreadTypeOK, program = "prod_cons", ProdConsInv, ProdConsMain
  PROVE  program' = program /\ PthreadTypeOK' /\ ProdConsInv'
  <1> USE Constants DEF mutexvars
  <1> DEFINE Inside == {"lock", "push", "unlock", "signal", "look", "take", "waiting", "relock"}
  <1>0. 1 \in Workers /\ 2 \in Workers /\ Producer = 1 /\ Consumer = 2
        /\ \A w \in Workers : w <= 2 <=> w \in {1, 2}
    BY DEF Workers, Producer, Consumer
  (* Whatever main does, the threads stay where they are, start or end.    *)
  <1>1. ASSUME UNCHANGED <<program, owner, mem>>, PthreadTypeOK', Forked(2, FALSE, {"return"})',
               process' \in {"running", "undefined"},
               process' = "undefined" => UNCHANGED pc /\ (pc[1] = "none" \/ pc[2] = "none"),
               pc'[Main] \in {"create", "join", "return"},
               \A w \in Workers :
                 /\ count'[w] = count[w]
                 /\ \/ pc'[w] = pc[w]
                    \/ pc[w] = "none" /\ w <= 2 /\ pc'[w] = "lock"
        PROVE  ProdConsInv'
    <2>1. Staff(2, {"join", "return"}, Inside)'
      BY <1>1 DEF ProdConsInv, Staff
    <2>2. QueueData'
      BY <1>0, <1>1, DataKept DEF ProdConsInv
    <2>3. \A w \in Workers : owner' = w <=> pc'[w] \in {"push", "unlock", "look", "take"}
      BY <1>1 DEF ProdConsInv
    <2>4. /\ pc'[1] = "push" => count'[1] < MaxItems
          /\ pc'[2] = "take" => mem'.q # <<>>
      BY <1>0, <1>1 DEF ProdConsInv
    <2> QED
      BY <1>0, <1>1, <2>1, <2>2, <2>3, <2>4 DEF ProdConsInv
  <1>2. ASSUME UNCHANGED <<program, process, count, owner, mem>>, Move(Main, "init", "create")
        PROVE  PthreadTypeOK' /\ ProdConsInv'
    <2>1. /\ pc' \in [Threads -> Points] /\ process = "running"
          /\ pc[Main] = "init" /\ pc'[Main] = "create"
          /\ \A w \in Workers : pc'[w] = pc[w]
      BY <1>2, MoveStep DEF Points
    <2>2. PthreadTypeOK'
      BY <1>2, <2>1 DEF PthreadTypeOK
    <2>3. Forked(2, FALSE, {"return"})'
      BY <1>2, <2>1, <1>0, ForkedMain DEF ProdConsInv, PthreadTypeOK
    <2> QED
      BY <1>1, <1>2, <2>1, <2>2, <2>3
  <1>3. ASSUME Create(<<"lock", "lock">>, FALSE, "join")
        PROVE  program' = program /\ PthreadTypeOK' /\ ProdConsInv'
    <2> DEFINE n == 2
               E == <<"lock", "lock">>
               A == {"return"}
    <2>1. n \in Workers /\ Len(E) = n /\ E[1] = "lock" /\ E[2] = "lock" /\ 1 .. n = {1, 2}
      BY <1>0
    <2>2. Creating(n, FALSE, A, E, "lock", "join")
      <3>1. \A w \in 1 .. n : E[w] = "lock"
        BY <2>1
      <3>2. {"init", "create", "join"} \cap A = {} /\ "lock" \in Points \ {"none", "joined"}
            /\ "join" \in Points \ ({"init", "create"} \cup A)
        BY DEF Points
      <3>3. Forked(n, FALSE, A) /\ Create(E, FALSE, "join")
        BY <1>3 DEF ProdConsInv
      <3> HIDE DEF n, E, A
      <3> QED
        BY <2>1, <3>1, <3>2, <3>3 DEF Creating
    <2> HIDE DEF n, E, A
    <2>3. /\ UNCHANGED <<program, owner, mem>> /\ process' \in {process, "failed"}
          /\ pc[Main] = "create" /\ pc'[Main] \in {"create", "join"}
          /\ pc'[Main] = "join" => count'[Main] = 0
          /\ \A w \in Workers :
               /\ count'[w] = count[w]
               /\ pc'[w] = pc[w] \/ (pc[w] = "none" /\ w <= n /\ pc'[w] = "lock")
          /\ PthreadTypeOK' /\ Forked(n, FALSE, A)'
      BY <2>2, CreateStep
    <2>4. process' = "running"
      BY <1>3 DEF Create, At, Move
    <2> QED
      BY <1>1, <2>3, <2>4 DEF n, A
  <1>4. ASSUME JoinAll(2, "return")
        PROVE  program' = program /\ PthreadTypeOK' /\ ProdConsInv'
    <2>1. Joining(2, FALSE, {"return"}, "return")
      BY <1>0, <1>4 DEF Joining, ProdConsInv, Points
    <2>2. /\ UNCHANGED <<program, owner, mem>>
          /\ process = "running" /\ pc[Main] = "join"
          /\ \A w \in Workers : count'[w] = count[w]
          /\ PthreadTypeOK' /\ Forked(2, FALSE, {"return"})'
      BY <2>1, JoinStep
    <2>3. /\ process' = "undefined" /\ UNCHANGED pc
          /\ pc[1] = "none" \/ pc[2] = "none"
      <3>1. ~(count[Main] + 1 \in 1 .. 2 /\ pc[count[Main] + 1] = "ended")
        BY <1>0 DEF ProdConsInv, Staff
      <3>2. process' = "undefined" /\ UNCHANGED pc
            /\ count[Main] + 1 \in 1 .. 2 /\ pc[count[Main] + 1] = "none"
        BY <2>1, <3>1, JoinStep
      <3>3. count[Main] + 1 = 1 \/ count[Main] + 1 = 2
        BY <3>2 DEF PthreadTypeOK
      <3> QED
        BY <3>2, <3>3
    <2> QED
      BY <1>1, <2>2, <2>3
  <1> QED
    BY <1>2, <1>3, <1>4 DEF ProdConsMain

LEMMA ProdConsThreadStep ==
  ASSUME PthreadTypeOK, program = "prod_cons", ProdConsInv,
         ProducerThread \/ ConsumerThread \/ SpuriousWakeup
  PROVE  program' = program /\ PthreadTypeOK' /\ ProdConsInv'
  <1> USE Constants DEF mutexvars
  <1> DEFINE Inside == {"lock", "push", "unlock", "signal", "look", "take", "waiting", "relock"}
             Holding == {"push", "unlock", "look", "take"}
  <1>0. /\ 1 \in Workers /\ 2 \in Workers /\ Producer = 1 /\ Consumer = 2
        /\ \A w \in Workers : w <= 2 <=> w \in {1, 2}
        /\ \A w \in Workers \ {1, 2} : pc[w] = "none" /\ owner # w
        /\ owner # Main /\ owner \in {None, 1, 2}
        /\ owner = 1 <=> pc[1] \in Holding
        /\ owner = 2 <=> pc[2] \in Holding
        /\ pc[1] = "push" => count[1] < MaxItems
        /\ pc[2] = "take" => mem.q # <<>>
        /\ QueueData
    <2>1. 1 \in Workers /\ 2 \in Workers /\ Producer = 1 /\ Consumer = 2
          /\ \A w \in Workers : w <= 2 <=> w \in {1, 2}
      BY DEF Workers, Producer, Consumer
    <2>2. \A w \in Workers \ {1, 2} : pc[w] = "none" /\ owner # w
      BY <2>1 DEF ProdConsInv, Staff
    <2>3. owner # Main /\ owner \in {None, 1, 2}
      BY <2>2 DEF ProdConsInv, PthreadTypeOK, Threads
    <2> QED
      BY <2>1, <2>2, <2>3 DEF ProdConsInv
  (* Both threads may move: a signal moves the thread that waits.          *)
  <1>1. ASSUME UNCHANGED <<program, process>>, process = "running",
               pc' \in [Threads -> Points], \A u \in Threads \ {1, 2} : pc'[u] = pc[u],
               pc'[1] = pc[1] \/ {pc[1], pc'[1]} \subseteq Inside,
               pc'[2] = pc[2] \/ {pc[2], pc'[2]} \subseteq Inside,
               count' \in [Threads -> Nat], count'[Main] = count[Main],
               owner' \in {None, 1, 2},
               owner' = 1 <=> pc'[1] \in Holding,
               owner' = 2 <=> pc'[2] \in Holding,
               pc'[1] = "push" => count'[1] < MaxItems,
               pc'[2] = "take" => mem'.q # <<>>,
               QueueData'
        PROVE  program' = program /\ PthreadTypeOK' /\ ProdConsInv'
    <2>1. 1 # Main /\ 2 # Main /\ owner' # Main /\ owner' \in Threads \cup {None}
          /\ \A w \in Workers \ {1, 2} : w # None
      BY <1>0, <1>1 DEF Main, Threads
    <2>2. PthreadTypeOK'
      BY <1>1, <2>1 DEF PthreadTypeOK
    <2>3. \A w \in Workers :
            pc'[w] = pc[w] \/ (pc[w] \notin {"none", "joined"} /\ pc'[w] \notin {"none", "joined"})
      BY <1>1
    <2>4. Forked(2, FALSE, {"return"})'
      BY <1>0, <1>1, <2>1, <2>3, ForkedKept DEF ProdConsInv
    <2>5. Staff(2, {"join", "return"}, Inside)'
      BY <1>0, <1>1, <2>1 DEF ProdConsInv, Staff
    <2>6. \A w \in Workers : owner' = w <=> pc'[w] \in Holding
      <3>1. ASSUME NEW w \in Workers
            PROVE  owner' = w <=> pc'[w] \in Holding
        <4>1. CASE w \in {1, 2}
          BY <1>1, <4>1
        <4>2. CASE w \notin {1, 2}
          BY <1>0, <1>1, <2>1, <4>2
        <4> QED
          BY <4>1, <4>2
      <3> QED
        BY <3>1
    <2> QED
      BY <1>0, <1>1, <2>1, <2>2, <2>4, <2>5, <2>6 DEF ProdConsInv
  <1>2. CASE ProducerThread
    <2>1. ASSUME ProducerLocks
          PROVE  program' = program /\ PthreadTypeOK' /\ ProdConsInv'
      <3>1. /\ process = "running" /\ pc[1] = "lock" /\ pc'[1] = "push"
            /\ \A u \in Threads \ {1} : pc'[u] = pc[u]
            /\ pc' \in [Threads -> Points] /\ owner = None /\ owner' = 1
            /\ count[1] < MaxItems /\ UNCHANGED <<program, process, count, mem>>
        BY <1>0, <2>1, MoveStep DEF ProducerLocks, Lock, Points
      <3>2. QueueData'
        BY <1>0, <3>1, DataKept
      <3> QED
        BY <1>0, <1>1, <3>1, <3>2 DEF PthreadTypeOK
    <2>2. ASSUME ProducerPushes
          PROVE  program' = program /\ PthreadTypeOK' /\ ProdConsInv'
      <3>1. /\ process = "running" /\ pc[1] = "push" /\ pc'[1] = "unlock"
            /\ \A u \in Threads \ {1} : pc'[u] = pc[u]
            /\ pc' \in [Threads -> Points]
            /\ UNCHANGED <<program, process, owner>>
            /\ mem' = [mem EXCEPT !.q = Append(@, count[1])]
            /\ count' = [count EXCEPT ![1] = @ + 1]
        BY <1>0, <2>2, MoveStep DEF ProducerPushes, Points
      <3>2. count' \in [Threads -> Nat] /\ count'[Main] = count[Main]
        BY <1>0, <3>1 DEF PthreadTypeOK, Main
      <3>3. QueueData'
        <4>1. count[1] = IF count[1] < MaxItems THEN count[1] ELSE Quit
          BY <1>0, <3>1
        <4> QED
          BY <1>0, <3>1, <4>1, PushKeepsOrder
      <3>4. pc[2] # "take"
        BY <1>0, <3>1
      <3> QED
        BY <1>0, <1>1, <3>1, <3>2, <3>3, <3>4
    <2>3. ASSUME ProducerUnlocks
          PROVE  program' = program /\ PthreadTypeOK' /\ ProdConsInv'
      <3>1. /\ process = "running" /\ pc[1] = "unlock" /\ pc'[1] = "signal"
            /\ \A u \in Threads \ {1} : pc'[u] = pc[u]
            /\ pc' \in [Threads -> Points] /\ owner' = None
            /\ UNCHANGED <<program, process, count, mem>>
        BY <1>0, <2>3, MoveStep DEF ProducerUnlocks, Unlock, Points
      <3>2. QueueData'
        BY <1>0, <3>1, DataKept
      <3> QED
        BY <1>0, <1>1, <3>1, <3>2 DEF PthreadTypeOK
    <2>4. ASSUME ProducerSignals
          PROVE  program' = program /\ PthreadTypeOK' /\ ProdConsInv'
      <3>1. /\ process = "running" /\ pc[1] = "signal" /\ pc'[1] = "lock"
            /\ \A u \in Threads \ {1, 2} : pc'[u] = pc[u]
            /\ pc'[2] = IF pc[2] = "waiting" THEN "relock" ELSE pc[2]
            /\ pc' \in [Threads -> Points]
            /\ UNCHANGED <<program, process, count, owner, mem>>
        BY <1>0, <2>4 DEF ProducerSignals, At, PthreadTypeOK, Points
      <3>2. QueueData'
        BY <1>0, <3>1, DataKept
      <3> QED
        BY <1>0, <1>1, <3>1, <3>2 DEF PthreadTypeOK
    <2> QED
      BY <1>2, <2>1, <2>2, <2>3, <2>4 DEF ProducerThread
  <1>3. CASE ConsumerThread
    <2>1. ASSUME ConsumerLocks
          PROVE  program' = program /\ PthreadTypeOK' /\ ProdConsInv'
      <3>1. /\ process = "running" /\ pc[2] \in {"lock", "relock"} /\ pc'[2] = "look"
            /\ \A u \in Threads \ {2} : pc'[u] = pc[u]
            /\ pc' \in [Threads -> Points] /\ owner = None /\ owner' = 2
            /\ UNCHANGED <<program, process, count, mem>>
        BY <1>0, <2>1, MoveStep DEF ConsumerLocks, Lock, Points
      <3>2. QueueData'
        BY <1>0, <3>1, DataKept
      <3> QED
        BY <1>0, <1>1, <3>1, <3>2 DEF PthreadTypeOK
    <2>2. ASSUME ConsumerLooks
          PROVE  program' = program /\ PthreadTypeOK' /\ ProdConsInv'
      <3>1. /\ process = "running" /\ pc[2] = "look"
            /\ \A u \in Threads \ {2} : pc'[u] = pc[u]
            /\ pc' \in [Threads -> Points]
            /\ \/ pc'[2] = "take" /\ mem.q # <<>> /\ owner' = owner
               \/ pc'[2] = "waiting" /\ owner' = None
            /\ UNCHANGED <<program, process, count, mem>>
        BY <1>0, <2>2 DEF ConsumerLooks, At, Goto, PthreadTypeOK, Points
      <3>2. QueueData'
        BY <1>0, <3>1, DataKept
      <3> QED
        BY <1>0, <1>1, <3>1, <3>2 DEF PthreadTypeOK
    <2>3. ASSUME ConsumerTakes
          PROVE  program' = program /\ PthreadTypeOK' /\ ProdConsInv'
      <3>1. /\ process = "running" /\ pc[2] = "take" /\ pc'[2] = "unlock"
            /\ \A u \in Threads \ {2} : pc'[u] = pc[u]
            /\ pc' \in [Threads -> Points] /\ TakeFront
            /\ UNCHANGED <<program, count, owner>>
        BY <1>0, <2>3, MoveStep DEF ConsumerTakes, Points
      <3>2. /\ UNCHANGED process /\ mem.q # <<>>
            /\ mem' = [mem EXCEPT !.q = Tail(@), !.taken = Append(@, Head(mem.q))]
        BY <1>0, <3>1 DEF TakeFront
      <3>3. QueueData'
        BY <1>0, <3>1, <3>2, TakeKeepsOrder
      <3> QED
        BY <1>0, <1>1, <3>1, <3>2, <3>3 DEF PthreadTypeOK
    <2>4. ASSUME ConsumerUnlocks
          PROVE  program' = program /\ PthreadTypeOK' /\ ProdConsInv'
      <3>1. /\ process = "running" /\ pc[2] = "unlock" /\ pc'[2] = "lock"
            /\ \A u \in Threads \ {2} : pc'[u] = pc[u]
            /\ pc' \in [Threads -> Points] /\ owner' = None
            /\ UNCHANGED <<program, process, count, mem>>
        BY <1>0, <2>4, MoveStep DEF ConsumerUnlocks, Unlock, Points
      <3>2. QueueData'
        BY <1>0, <3>1, DataKept
      <3> QED
        BY <1>0, <1>1, <3>1, <3>2 DEF PthreadTypeOK
    <2> QED
      BY <1>3, <2>1, <2>2, <2>3, <2>4 DEF ConsumerThread
  <1>4. CASE SpuriousWakeup
    <2>1. /\ process = "running" /\ pc[2] = "waiting" /\ pc'[2] = "relock"
          /\ \A u \in Threads \ {2} : pc'[u] = pc[u]
          /\ pc' \in [Threads -> Points]
          /\ UNCHANGED <<program, process, count, owner, mem>>
      BY <1>0, <1>4, MoveStep DEF SpuriousWakeup, Points
    <2>2. QueueData'
      BY <1>0, <2>1, DataKept
    <2> QED
      BY <1>0, <1>1, <2>1, <2>2 DEF PthreadTypeOK
  <1> QED
    BY <1>2, <1>3, <1>4
-----------------------------------------------------------------------------
(* The exercise ex_TSQ: whatever main and the producer do to the unlocked  *)
(* queue, the items stay in order until the behaviour is undefined.        *)
LEMMA TsqStep ==
  ASSUME PthreadTypeOK, program = "tsq", TsqInv, TsqMain \/ TsqProducer
  PROVE  program' = program /\ PthreadTypeOK' /\ TsqInv'
  <1> USE Constants DEF mutexvars
  <1> DEFINE Inside == {"produce", "pushing", "ended"}
             Outer == {"consume", "popping", "return"}
  <1>0. /\ 1 \in Workers /\ 1 # Main /\ Producer = 1 /\ \A w \in Workers : w <= 1 <=> w = 1
        /\ owner = None /\ QueueData
        /\ pc[Main] \in {"init", "create"} => count[Main] = 0
        /\ \A w \in Workers \ {1} : pc[w] = "none"
    <2>1. 1 \in Workers /\ 1 # Main /\ Producer = 1 /\ \A w \in Workers : w <= 1 <=> w = 1
      BY DEF Workers, Main, Producer
    <2> QED
      BY <2>1 DEF TsqInv, Staff
  <1>1. ASSUME UNCHANGED <<program, owner>>, process' \in {process, "undefined", "returned"},
               pc' \in [Threads -> Points], \A u \in Threads \ {Main, 1} : pc'[u] = pc[u],
               pc'[Main] = pc[Main] \/ pc'[Main] \in {"create"} \cup Outer,
               pc'[1] = pc[1] \/ pc'[1] \in Inside,
               count' \in [Threads -> Nat], pc'[Main] \in {"init", "create"} => count'[Main] = 0,
               QueueData'
        PROVE  program' = program /\ PthreadTypeOK' /\ TsqInv'
    <2>1. PthreadTypeOK'
      BY <1>1 DEF PthreadTypeOK
    <2>2. Staff(1, Outer, Inside)'
      <3>1. pc'[Main] \in {"init", "create"} \cup Outer
        BY <1>1 DEF TsqInv, Staff
      <3>2. pc'[1] \in {"none"} \cup Inside
        BY <1>0, <1>1 DEF TsqInv, Staff
      <3>3. \A w \in Workers \ {1} : pc'[w] = "none"
        BY <1>0, <1>1
      <3> QED
        BY <1>0, <3>1, <3>2, <3>3 DEF Staff
    <2> QED
      BY <1>0, <1>1, <2>1, <2>2 DEF TsqInv
  (* The steps that touch neither the queue nor a loop variable.           *)
  <1>2. ASSUME UNCHANGED <<program, count, owner, mem>>, NEW t \in {Main, 1}, NEW p, NEW r,
               Move(t, p, r), process' \in {process, "undefined"},
               \/ t = Main /\ p = "init" /\ r = "create"
               \/ t = Main /\ r \in Outer
               \/ t = 1 /\ r \in Inside
        PROVE  program' = program /\ PthreadTypeOK' /\ TsqInv'
    <2>1. /\ pc' \in [Threads -> Points] /\ process = "running" /\ pc[t] = p /\ pc'[t] = r
          /\ \A u \in Threads \ {t} : pc'[u] = pc[u]
      <3>1. t \in Threads /\ r \in Points
        BY <1>0, <1>2 DEF Points
      <3> QED
        BY <1>2, <3>1, MoveStep
    <2>2. QueueData'
      BY <1>0, <1>2, DataKept
    <2>3. count' \in [Threads -> Nat]
          /\ (pc'[Main] \in {"init", "create"} => count'[Main] = 0)
      BY <1>0, <1>2, <2>1 DEF PthreadTypeOK
    <2> QED
      BY <1>0, <1>1, <1>2, <2>1, <2>2, <2>3
  <1>3. CASE TsqProducer
    <2>1. CASE Begin(Producer, "produce", "pushing", Main)
      BY <1>0, <1>2, <2>1 DEF Begin
    <2>2. CASE /\ Move(Producer, "produce", "ended")
               /\ UNCHANGED <<program, process, count, mutexvars, mem>>
      BY <1>0, <1>2, <2>2
    <2>3. CASE PushItem
      <3>1. /\ pc'[1] = "produce" /\ \A u \in Threads \ {1} : pc'[u] = pc[u]
            /\ pc' \in [Threads -> Points] /\ UNCHANGED <<program, process, owner>>
            /\ mem' = [mem EXCEPT !.q = Append(@, IF count[Producer] < MaxItems
                                                  THEN count[Producer] ELSE Quit)]
            /\ count' = [count EXCEPT ![Producer] = @ + 1]
        BY <1>0, <2>3, MoveStep DEF PushItem, Points
      <3>2. QueueData'
        BY <1>0, <3>1, PushKeepsOrder
      <3>3. count' \in [Threads -> Nat] /\ count'[Main] = count[Main]
        BY <1>0, <3>1 DEF PthreadTypeOK
      <3> QED
        BY <1>0, <1>1, <3>1, <3>2, <3>3
    <2> QED
      BY <1>3, <2>1, <2>2, <2>3 DEF TsqProducer
  <1>4. CASE TsqMain
    <2>1. CASE /\ Move(Main, "init", "create")
               /\ UNCHANGED <<program, process, count, mutexvars, mem>>
      BY <1>2, <2>1
    <2>2. CASE Begin(Main, "consume", "popping", Producer)
      BY <1>2, <2>2 DEF Begin
    <2>3. CASE Return
      <3>1. UNCHANGED <<program, pc, count, owner, mem>> /\ process' = "returned"
        BY <2>3, ExitStep DEF Return
      <3>2. QueueData'
        BY <1>0, <3>1, DataKept
      <3> QED
        BY <1>0, <1>1, <3>1, <3>2 DEF PthreadTypeOK
    <2>4. CASE Create(<<"produce">>, FALSE, "consume")
      <3>1. pc[Main] = "create" /\ count[Main] = 0
        BY <1>0, <2>4 DEF Create, At, Move
      <3>2. Len(<<"produce">>) = 1 /\ <<"produce">>[1] = "produce" /\ count[Main] + 1 = 1
        BY <3>1
      <3>3. Looping(1, "create", "consume") = "consume"
        BY <3>2 DEF Looping
      <3>4. /\ UNCHANGED <<program, process, owner, mem>>
            /\ count' = [count EXCEPT ![Main] = 0]
            /\ \/ pc' = [pc EXCEPT ![Main] = "consume", ![1] = "produce"]
               \/ pc' = [pc EXCEPT ![Main] = "consume"]
        BY <2>4, <3>1, <3>2, <3>3 DEF Create, Advance, Move, Goto
      <3>5. /\ pc' \in [Threads -> Points] /\ pc'[Main] = "consume"
            /\ pc'[1] \in {pc[1], "produce"}
            /\ \A u \in Threads \ {Main, 1} : pc'[u] = pc[u]
            /\ count' \in [Threads -> Nat] /\ count'[Producer] = count[Producer]
        BY <1>0, <3>4 DEF PthreadTypeOK, Points
      <3>6. QueueData'
        BY <1>0, <3>4, <3>5, DataKept
      <3> QED
        BY <1>0, <1>1, <3>4, <3>5, <3>6
    <2>5. CASE PopItem
      <3>1. /\ UNCHANGED <<program, owner>> /\ TakeFront
            /\ pc'[Main] \in Outer /\ \A u \in Threads \ {Main} : pc'[u] = pc[u]
            /\ pc' \in [Threads -> Points]
        <4>1. Goto(Main, "return") \/ Goto(Main, "consume")
          BY <2>5 DEF PopItem
        <4> QED
          BY <2>5, <4>1 DEF PopItem, Goto, PthreadTypeOK, Points
      <3>2. count' \in [Threads -> Nat] /\ count'[Producer] = count[Producer]
        BY <1>0, <2>5 DEF PopItem, PthreadTypeOK
      <3>3. process' \in {process, "undefined"} /\ QueueData'
        <4>1. CASE mem.q = <<>>
          <5>1. process' = "undefined" /\ UNCHANGED mem
            BY <3>1, <4>1 DEF TakeFront
          <5> QED
            BY <1>0, <3>1, <3>2, <5>1, DataKept
        <4>2. CASE mem.q # <<>>
          <5>1. /\ UNCHANGED process
                /\ mem' = [mem EXCEPT !.q = Tail(@), !.taken = Append(@, Head(mem.q))]
            BY <3>1, <4>2 DEF TakeFront
          <5> QED
            BY <1>0, <3>1, <3>2, <4>2, <5>1, TakeKeepsOrder
        <4> QED
          BY <4>1, <4>2
      <3> QED
        BY <1>0, <1>1, <3>1, <3>2, <3>3
    <2> QED
      BY <1>4, <2>1, <2>2, <2>3, <2>4, <2>5 DEF TsqMain
  <1> QED
    BY <1>3, <1>4
-----------------------------------------------------------------------------
(* The future of x_pthreads_future.                                        *)
LEMMA FutureThreadStep ==
  ASSUME PthreadTypeOK, program = "future", FutureInv, Hello \/ \E w \in 2 .. 3 : RunTask(w)
  PROVE  program' = program /\ PthreadTypeOK' /\ FutureInv'
  <1> USE Constants DEF mutexvars, Stay
  <1>0. {1, 2, 3} \subseteq Workers /\ Main \notin {1, 2, 3} /\ 2 .. 3 = {2, 3}
        /\ 1 .. 3 = {1, 2, 3}
    OBVIOUS
  <1>1. CASE Hello
    <2>1. /\ process = "running" /\ pc[1] = "hello" /\ pc'[1] = "ended"
          /\ \A u \in Threads \ {1} : pc'[u] = pc[u]
          /\ pc' \in [Threads -> Points]
          /\ UNCHANGED <<program, process, count, owner, mem>>
      BY <1>0, <1>1, MoveStep DEF Hello, Points
    <2>2. FutureOrder'
      BY <1>0, <2>1 DEF FutureInv, FutureOrder, Staff
    <2>3. FutureAnswers'
      BY <1>0, <2>1 DEF FutureInv, FutureAnswers
    <2> QED
      BY <2>1, <2>2, <2>3 DEF FutureInv, PthreadTypeOK
  <1>2. ASSUME NEW w \in 2 .. 3, RunTask(w)
        PROVE  program' = program /\ PthreadTypeOK' /\ FutureInv'
    <2>1. /\ process = "running" /\ pc[w] = "task" /\ pc'[w] = "ended"
          /\ \A u \in Threads \ {w} : pc'[u] = pc[u]
          /\ pc' \in [Threads -> Points]
          /\ UNCHANGED <<program, process, count, owner>>
          /\ mem' = [mem EXCEPT !.result[w] = Answers[w]]
      BY <1>0, <1>2, MoveStep DEF RunTask, Points
    <2>2. FutureOrder'
      BY <1>0, <1>2, <2>1 DEF FutureInv, FutureOrder, Staff
    <2>3. FutureAnswers'
      <3>1. Answers[w] \in Nat
        BY <1>2 DEF Answers
      <3>2. mem \in [result : [2 .. 3 -> Nat \cup {Unset}], printed : Seq(Nat \cup {Unset})]
        BY DEF FutureInv, FutureAnswers
      <3>3. /\ mem' \in [result : [2 .. 3 -> Nat \cup {Unset}], printed : Seq(Nat \cup {Unset})]
            /\ mem'.printed = mem.printed /\ mem'.result[w] = Answers[w]
            /\ \A u \in 2 .. 3 : u # w => mem'.result[u] = mem.result[u]
        BY <2>1, <3>1, <3>2
      <3> QED
        BY <1>0, <1>2, <2>1, <3>3 DEF FutureInv, FutureAnswers
    <2> QED
      BY <2>1, <2>2, <2>3 DEF FutureInv, PthreadTypeOK
  <1> QED
    BY <1>1, <1>2

LEMMA AnswersAppended ==
  Append(<<>>, 42) = <<42>> /\ Append(<<42>>, 666) = <<42, 666>>
  <1>1. /\ <<42>> \in Seq(Nat) /\ <<42, 666>> \in Seq(Nat) /\ 42 \in Nat /\ 666 \in Nat
        /\ Len(<<42>>) = 1 /\ Len(<<42, 666>>) = 2
    OBVIOUS
  <1>2. Append(<<>>, 42) = <<42>>
    <2>1. PICK u : u = Append(<<>>, 42)
      OBVIOUS
    <2>2. /\ u \in Seq(Nat) /\ Len(u) = 1 /\ u[1] = 42
      BY <1>1, <2>1, EmptySeq, AppendProperties
    <2>3. PICK v : v = <<42>>
      OBVIOUS
    <2>4. u \in Seq(Nat) /\ v \in Seq(Nat) /\ Len(u) = Len(v) /\ \A i \in 1 .. Len(u) : u[i] = v[i]
      BY <1>1, <2>2, <2>3
    <2>5. u = v
      BY <2>4, SeqEqual
    <2> QED
      BY <2>1, <2>3, <2>5
  <1>3. Append(<<42>>, 666) = <<42, 666>>
    <2>1. PICK u : u = Append(<<42>>, 666)
      OBVIOUS
    <2>2. /\ u \in Seq(Nat) /\ Len(u) = 2 /\ u[1] = 42 /\ u[2] = 666
      BY <1>1, <2>1, AppendProperties
    <2>3. PICK v : v = <<42, 666>>
      OBVIOUS
    <2>4. u \in Seq(Nat) /\ v \in Seq(Nat) /\ Len(u) = Len(v) /\ \A i \in 1 .. Len(u) : u[i] = v[i]
      BY <1>1, <2>2, <2>3
    <2>5. u = v
      BY <2>4, SeqEqual
    <2> QED
      BY <2>1, <2>3, <2>5
  <1> QED
    BY <1>2, <1>3

LEMMA FutureMainStep ==
  ASSUME PthreadTypeOK, program = "future", FutureInv, FutureMain
  PROVE  program' = program /\ PthreadTypeOK' /\ FutureInv'
  <1> USE Constants DEF mutexvars, Stay
  <1>0. /\ {1, 2, 3} \subseteq Workers /\ Main \notin {1, 2, 3} /\ 2 .. 3 = {2, 3}
        /\ 1 .. 3 = {1, 2, 3}
        /\ pc \in [Threads -> Points]
        /\ owner = None /\ FutureOrder /\ FutureAnswers
    BY DEF FutureInv, PthreadTypeOK
  <1>1. ASSUME UNCHANGED <<program, process, count, owner, mem>>, process = "running",
               pc' \in [Threads -> Points], FutureOrder', FutureAnswers'
        PROVE  program' = program /\ PthreadTypeOK' /\ FutureInv'
    BY <1>1 DEF PthreadTypeOK, FutureInv
  (* A thread is created, or not, before the results of any are read.      *)
  <1>2. ASSUME NEW w \in 1 .. 3, NEW p, NEW entry, NEW next, Launch(w, p, entry, next),
               \/ w = 1 /\ p = "init" /\ entry = "hello" /\ next = "join1"
               \/ w = 2 /\ p = "async2" /\ entry = "task" /\ next = "async3"
               \/ w = 3 /\ p = "async3" /\ entry = "task" /\ next = "get2"
        PROVE  program' = program /\ PthreadTypeOK' /\ FutureInv'
    <2>1. /\ process = "running" /\ pc[Main] = p /\ pc'[Main] = next
          /\ pc'[w] \in {pc[w], entry}
          /\ \A u \in Threads \ {Main, w} : pc'[u] = pc[u]
          /\ UNCHANGED <<program, process, count, owner, mem>>
          /\ pc' \in [Threads -> Points]
      BY <1>0, <1>2 DEF Launch, At, Goto, Points
    <2>2. FutureOrder'
      BY <1>0, <1>2, <2>1
         DEF FutureOrder, Staff, FuturePoints, BeforeJoin1, BeforeJoin2, BeforeJoin3
    <2>3. FutureAnswers'
      BY <1>0, <1>2, <2>1 DEF FutureOrder, FutureAnswers, BeforeJoin1, BeforeJoin2
    <2> QED
      BY <1>1, <2>1, <2>2, <2>3
  <1>3. ASSUME NEW w \in 1 .. 3, NEW p, NEW next, JoinThread(w, p, next),
               \/ w = 1 /\ p = "join1" /\ next = "async2"
               \/ w = 2 /\ p = "get2" /\ next = "read2"
               \/ w = 3 /\ p = "get3" /\ next = "read3"
               \/ w = 3 /\ p = "destroy3" /\ next = "destroy2"
               \/ w = 2 /\ p = "destroy2" /\ next = "return"
        PROVE  program' = program /\ PthreadTypeOK' /\ FutureInv'
    <2>1. process = "running" /\ pc[Main] = p /\ UNCHANGED <<program, count, owner, mem>>
      BY <1>3 DEF JoinThread, Join, At
    <2>2. CASE /\ pc[w] = "ended" /\ UNCHANGED process
               /\ pc' = [pc EXCEPT ![w] = "joined", ![Main] = next]
      <3>1. /\ p \in {"join1", "get2", "get3"}
            /\ pc'[Main] = next /\ pc'[w] = "joined"
            /\ \A u \in Threads \ {Main, w} : pc'[u] = pc[u]
            /\ pc' \in [Threads -> Points]
        BY <1>0, <1>3, <2>1, <2>2
           DEF Points, FutureOrder, BeforeJoin1, BeforeJoin2, BeforeJoin3
      <3>2. FutureOrder'
        BY <1>0, <1>3, <2>1, <3>1
           DEF FutureOrder, Staff, FuturePoints, BeforeJoin1, BeforeJoin2, BeforeJoin3
      <3>3. FutureAnswers'
        BY <1>0, <1>3, <2>1, <2>2, <3>1
           DEF FutureOrder, FutureAnswers, BeforeJoin1, BeforeJoin2
      <3> QED
        BY <1>1, <2>1, <2>2, <3>1, <3>2, <3>3
    <2>3. CASE pc[w] \in {"none", "joined"} /\ process' = "undefined" /\ UNCHANGED pc
      <3>1. (\E v \in 1 .. 3 : pc[v] = "none") \/ (\A v \in 1 .. 3 : pc[v] = "joined")
        BY <1>0, <1>3, <2>1, <2>3
           DEF FutureOrder, BeforeJoin1, BeforeJoin2, BeforeJoin3
      <3>2. FutureOrder' /\ FutureAnswers'
        BY <1>0, <2>1, <2>3 DEF FutureOrder, FutureAnswers, Staff
      <3> QED
        BY <2>1, <2>3, <3>1, <3>2 DEF FutureInv, PthreadTypeOK
    <2> QED
      BY <1>3, <2>2, <2>3 DEF JoinThread, Join
  (* get() reads what the task has left, as the task is over.              *)
  <1>4. ASSUME NEW w \in 2 .. 3, NEW p, NEW next, Get(w, p, next),
               \/ w = 2 /\ p = "read2" /\ next = "get3"
               \/ w = 3 /\ p = "read3" /\ next = "destroy3"
        PROVE  program' = program /\ PthreadTypeOK' /\ FutureInv'
    <2>1. /\ process = "running" /\ pc[Main] = p /\ pc'[Main] = next
          /\ \A u \in Threads \ {Main} : pc'[u] = pc[u]
          /\ pc' \in [Threads -> Points]
          /\ UNCHANGED <<program, process, count, owner>>
          /\ mem' = [mem EXCEPT !.printed = Append(@, mem.result[w])]
      BY <1>0, <1>4, MoveStep DEF Get, Points
    <2>2. FutureOrder'
      BY <1>0, <1>4, <2>1
         DEF FutureOrder, Staff, FuturePoints, BeforeJoin1, BeforeJoin2, BeforeJoin3
    <2>3. FutureAnswers'
      <3>1. pc[w] = "joined" /\ mem.result[w] = IF w = 2 THEN 42 ELSE 666
        BY <1>0, <1>4, <2>1
           DEF FutureOrder, FutureAnswers, Answers, BeforeJoin1, BeforeJoin2, BeforeJoin3
      <3>2. mem \in [result : [2 .. 3 -> Nat \cup {Unset}], printed : Seq(Nat \cup {Unset})]
        BY <1>0 DEF FutureAnswers
      <3>3. /\ mem'.result = mem.result
            /\ mem'.printed = Append(mem.printed, mem.result[w])
            /\ mem' \in [result : [2 .. 3 -> Nat \cup {Unset}], printed : Seq(Nat \cup {Unset})]
        BY <1>4, <2>1, <3>2, AppendProperties
      <3>4. mem'.printed = IF w = 2 THEN <<42>> ELSE <<42, 666>>
        <4>1. mem.printed = IF w = 2 THEN <<>> ELSE <<42>>
          <5>1. CASE w = 2
            <6>1. mem.printed = <<>>
              BY <1>0, <1>4, <2>1, <5>1 DEF FutureAnswers
            <6> QED
              BY <5>1, <6>1
          <5>2. CASE w = 3
            <6>1. mem.printed = <<42>>
              BY <1>0, <1>4, <2>1, <5>2 DEF FutureAnswers
            <6> QED
              BY <5>2, <6>1
          <5> QED
            BY <1>0, <5>1, <5>2
        <4>2. Append(<<>>, 42) = <<42>> /\ Append(<<42>>, 666) = <<42, 666>>
          BY AnswersAppended
        <4> QED
          BY <3>1, <3>3, <4>1, <4>2
      <3> QED
        BY <1>0, <1>4, <2>1, <3>3, <3>4 DEF FutureAnswers, BeforeJoin1, BeforeJoin2
    <2> QED
      BY <2>1, <2>2, <2>3 DEF PthreadTypeOK, FutureInv
  (* The destructors' second joins, when the library forgives them.        *)
  <1>5. ASSUME NEW w \in 1 .. 3, NEW p, NEW next,
               Move(Main, p, next), UNCHANGED <<program, process, count, owner, mem>>,
               \/ w = 3 /\ p = "destroy3" /\ next = "destroy2"
               \/ w = 2 /\ p = "destroy2" /\ next = "return"
        PROVE  program' = program /\ PthreadTypeOK' /\ FutureInv'
    <2>1. /\ process = "running" /\ pc[Main] = p /\ pc'[Main] = next
          /\ \A u \in Threads \ {Main} : pc'[u] = pc[u]
          /\ pc' \in [Threads -> Points]
      BY <1>0, <1>5, MoveStep DEF Points
    <2>2. FutureOrder'
      BY <1>0, <1>5, <2>1
         DEF FutureOrder, Staff, FuturePoints, BeforeJoin1, BeforeJoin2, BeforeJoin3
    <2>3. FutureAnswers'
      BY <1>0, <1>5, <2>1 DEF FutureAnswers, BeforeJoin1, BeforeJoin2
    <2> QED
      BY <1>1, <1>5, <2>1, <2>2, <2>3
  <1>6. CASE Return
    <2>1. UNCHANGED <<program, pc, count, owner, mem>> /\ process' = "returned" /\ PthreadTypeOK'
      BY <1>6, ExitStep DEF Return
    <2>2. FutureOrder' /\ FutureAnswers'
      BY <1>0, <2>1 DEF FutureOrder, FutureAnswers, Staff
    <2> QED
      BY <1>0, <2>1, <2>2 DEF FutureInv
  <1>7. ASSUME Launch(1, "init", "hello", "join1") \/ Launch(2, "async2", "task", "async3")
                 \/ Launch(3, "async3", "task", "get2")
        PROVE  program' = program /\ PthreadTypeOK' /\ FutureInv'
    BY <1>0, <1>2, <1>7
  <1>8. ASSUME JoinThread(1, "join1", "async2") \/ JoinThread(2, "get2", "read2")
                 \/ JoinThread(3, "get3", "read3")
        PROVE  program' = program /\ PthreadTypeOK' /\ FutureInv'
    BY <1>0, <1>3, <1>8
  <1>9. ASSUME Get(2, "read2", "get3") \/ Get(3, "read3", "destroy3")
        PROVE  program' = program /\ PthreadTypeOK' /\ FutureInv'
    BY <1>0, <1>4, <1>9
  <1>10. ASSUME Destroy(3, "destroy3", "destroy2") \/ Destroy(2, "destroy2", "return")
         PROVE  program' = program /\ PthreadTypeOK' /\ FutureInv'
    BY <1>0, <1>3, <1>5, <1>10 DEF Destroy
  <1> QED
    BY <1>6, <1>7, <1>8, <1>9, <1>10 DEF FutureMain
-----------------------------------------------------------------------------
(* 13_cancel: a thread that can be cancelled has pushed its handler.       *)
LEMMA CancelStep ==
  ASSUME PthreadTypeOK, program \in CancelKinds, CancelInv,
         CancelMain \/ Thread_01_02(1) \/ Thread_03(1)
  PROVE  program' = program /\ PthreadTypeOK' /\ CancelInv'
  <1> USE Constants DEF mutexvars, Stay
  <1> DEFINE Inside == {"start", "setstate", "settype", "print", "spin", "testcancel", "sleep",
                        "enable", "pause", "ended", "joined"}
             Outer == {"cancel", "join", "return"}
  <1>0. /\ 1 \in Workers /\ 1 # Main /\ \A w \in Workers : w <= 1 <=> w = 1
        /\ owner = None /\ CancelData /\ Forked(1, TRUE, {"return"})
        /\ process = "running" /\ (mem.async => program = "cancel_async")
        /\ pc[1] \notin {"none", "start"} => 1 \in mem.handlers
        /\ pc[1] \in {"none", "start", "setstate", "settype"} => ~mem.async
        /\ pc[1] \in {"ended", "joined"} => 1 \in mem.cleaned
        /\ pc[1] \in {"none"} \cup Inside /\ pc[Main] \in {"init", "create"} \cup Outer
        /\ \A w \in Workers \ {1} : pc[w] = "none"
    <2>1. 1 \in Workers /\ 1 # Main /\ \A w \in Workers : w <= 1 <=> w = 1
      BY DEF Main, Workers
    <2>2. process = "running"
      BY DEF CancelMain, Return, Create, Interrupt, JoinAll, Join, Thread_01_02, PushHandler,
         SetState, SetType, Loop, Cancelled, CancelledInPrintf, Thread_03, Reenable, Move, At
    <2> QED
      BY <2>1, <2>2 DEF CancelInv, Staff
  <1>1. ASSUME UNCHANGED <<program, owner>>,
               \/ process' \in {"running", "returned", "failed"}
               \/ /\ process' = "undefined"
                  /\ program = "cancel_async" /\ pc'[1] = "print" /\ mem'.pending,
               mem'.async => program = "cancel_async",
               PthreadTypeOK', Forked(1, TRUE, {"return"})', CancelData',
               \A w \in Workers \ {1} : pc'[w] = pc[w],
               pc'[Main] \in {"init", "create"} \cup Outer, pc'[1] \in {"none"} \cup Inside,
               pc'[1] \notin {"none", "start"} => 1 \in mem'.handlers,
               pc'[1] \in {"none", "start", "setstate", "settype"} => ~mem'.async,
               pc'[1] \in {"ended", "joined"} => 1 \in mem'.cleaned
        PROVE  program' = program /\ PthreadTypeOK' /\ CancelInv'
    <2>1. Staff(1, Outer, Inside)'
      BY <1>0, <1>1 DEF Staff
    <2> QED
      BY <1>0, <1>1, <2>1 DEF CancelInv
  <1>2. CASE CancelMain
    <2>1. ASSUME NEW how \in {"returned", "failed"}, Exit(how)
          PROVE  program' = program /\ PthreadTypeOK' /\ CancelInv'
      <3>1. UNCHANGED <<program, pc, count, owner, mem>> /\ process' = how /\ PthreadTypeOK'
        BY <2>1, ExitStep
      <3> QED
        BY <1>0, <1>1, <3>1 DEF Forked, CancelData
    <2>2. ASSUME UNCHANGED <<program, count, owner>>, process' = process, NEW p, NEW r,
                 Move(Main, p, r), mem' \in {mem, [mem EXCEPT !.pending = TRUE]},
                 (p = "init" /\ r = "create") \/ (p = "cancel" /\ r = "join")
          PROVE  program' = program /\ PthreadTypeOK' /\ CancelInv'
      <3>1. /\ pc' \in [Threads -> Points] /\ process = "running"
            /\ pc[Main] = p /\ pc'[Main] = r
            /\ \A w \in Workers : pc'[w] = pc[w]
        <4>1. r \in Points
          BY <2>2 DEF Points
        <4> QED
          BY <2>2, <4>1, MoveStep
      <3>2. PthreadTypeOK'
        BY <2>2, <3>1 DEF PthreadTypeOK
      <3>3. Forked(1, TRUE, {"return"})'
        BY <1>0, <2>2, <3>1, ForkedMain DEF PthreadTypeOK
      <3>4. /\ CancelData' /\ mem'.handlers = mem.handlers /\ mem'.async = mem.async
            /\ mem'.cleaned = mem.cleaned
        BY <1>0, <2>2 DEF CancelData
      <3> QED
        BY <1>0, <1>1, <2>2, <3>1, <3>2, <3>3, <3>4
    <2>3. ASSUME Create(<<"start">>, TRUE, "cancel")
          PROVE  program' = program /\ PthreadTypeOK' /\ CancelInv'
      <3>1. CreatingOne(TRUE, {"return"}, "start", "cancel")
        BY <1>0, <2>3 DEF CreatingOne, Points
      <3>2. /\ UNCHANGED <<program, owner, mem>> /\ process' \in {process, "failed"}
            /\ pc[Main] = "create" /\ pc'[Main] \in {"create", "cancel"}
            /\ pc'[1] = pc[1] \/ (pc[1] = "none" /\ pc'[1] = "start")
            /\ \A w \in Workers \ {1} : pc'[w] = pc[w]
            /\ PthreadTypeOK' /\ Forked(1, TRUE, {"return"})'
        BY <3>1, CreateOne
      <3>3. CancelData'
        BY <1>0, <3>2 DEF CancelData
      <3> QED
        BY <1>0, <1>1, <3>2, <3>3
    <2>4. ASSUME JoinAll(1, "return")
          PROVE  program' = program /\ PthreadTypeOK' /\ CancelInv'
      <3>1. /\ UNCHANGED <<program, owner, mem>>
            /\ process' = "running" /\ process = "running"
            /\ \A w \in Workers : pc'[w] = pc[w] \/ (pc[w] = "ended" /\ pc'[w] = "joined")
            /\ pc'[Main] \in {"join", "return"}
            /\ PthreadTypeOK' /\ Forked(1, TRUE, {"return"})'
        <4>1. Joining(1, TRUE, {"return"}, "return")
          BY <1>0, <2>4 DEF Joining, Points
        <4> QED
          BY <4>1, JoinStep
      <3>2. CancelData' /\ \A w \in Workers \ {1} : pc'[w] = pc[w]
        BY <1>0, <3>1 DEF CancelData
      <3> QED
        BY <1>0, <1>1, <3>1, <3>2
    <2>5. ASSUME Interrupt("cancel", "join")
          PROVE  program' = program /\ PthreadTypeOK' /\ CancelInv'
      <3>1. pc[1] # "none"
        BY <1>0, <2>5 DEF Interrupt, Move, At, Forked
      <3> QED
        BY <2>2, <2>5, <3>1 DEF Interrupt
    <2>6. ASSUME Move(Main, "init", "create"), Stay, UNCHANGED mem
          PROVE  program' = program /\ PthreadTypeOK' /\ CancelInv'
      BY <2>2, <2>6
    <2> QED
      BY <1>2, <2>1, <2>3, <2>4, <2>5, <2>6 DEF CancelMain, Return
  (* The steps of the thread: where it goes, and what it does to mem.      *)
  <1>3. ASSUME Stay, process = "running", pc[1] \notin {"none", "ended", "joined"}, NEW r,
               Goto(1, r), r \in Inside \ {"start", "joined"},
               CancelData', 1 \in mem'.handlers,
               mem'.async => program = "cancel_async",
               r \in {"setstate", "settype"} => ~mem'.async,
               r = "ended" => 1 \in mem'.cleaned
        PROVE  program' = program /\ PthreadTypeOK' /\ CancelInv'
    <2>1. /\ pc' \in [Threads -> Points] /\ pc'[1] = r
          /\ \A u \in Threads \ {1} : pc'[u] = pc[u]
      BY <1>0, <1>3 DEF Goto, PthreadTypeOK, Points
    <2>2. PthreadTypeOK'
      BY <1>3, <2>1 DEF PthreadTypeOK
    <2>3. Forked(1, TRUE, {"return"})'
      <3>1. \A w \in Workers :
              pc'[w] = pc[w]
                \/ (pc[w] \notin {"none", "joined"} /\ pc'[w] \notin {"none", "joined"})
        BY <1>0, <1>3, <2>1
      <3> QED
        BY <1>0, <1>3, <2>1, <3>1, ForkedKept
    <2> QED
      BY <1>0, <1>1, <1>3, <2>1, <2>2, <2>3
  <1>4. CASE Thread_01_02(1)
    <2>1. CASE PushHandler(1) /\ Stay
      <3>1. /\ process = "running" /\ pc[1] = "start" /\ Goto(1, "setstate")
            /\ mem' = [mem EXCEPT !.handlers = @ \cup {1}]
        BY <2>1 DEF PushHandler, Move, At
      <3>2. CancelData' /\ 1 \in mem'.handlers /\ ~mem'.async
        BY <1>0, <3>1 DEF CancelData
      <3> QED
        BY <1>3, <2>1, <3>1, <3>2
    <2>2. CASE SetState(1) /\ Stay
      <3>1. /\ process = "running" /\ pc[1] = "setstate"
            /\ Goto(1, "sleep") \/ Goto(1, "settype")
            /\ mem' = [mem EXCEPT !.enabled = program # "cancel_disabled"]
        BY <2>2 DEF SetState, Move, At
      <3>2. CancelData' /\ 1 \in mem'.handlers /\ ~mem'.async
        BY <1>0, <3>1 DEF CancelData
      <3> QED
        BY <1>3, <2>2, <3>1, <3>2
    <2>3. CASE SetType(1) /\ Stay
      <3>1. /\ process = "running" /\ pc[1] = "settype" /\ Goto(1, "print")
            /\ mem' = [mem EXCEPT !.async = program = "cancel_async"]
        BY <2>3 DEF SetType, Move, At
      <3>2. CancelData' /\ 1 \in mem'.handlers /\ (mem'.async => program = "cancel_async")
        BY <1>0, <3>1 DEF CancelData
      <3> QED
        BY <1>3, <2>3, <3>1, <3>2
    <2>4. CASE Loop(1) /\ Stay
      <3>1. /\ process = "running" /\ pc[1] \in {"print", "spin", "testcancel"}
            /\ Goto(1, "spin") \/ Goto(1, "testcancel")
            /\ UNCHANGED mem
        BY <2>4 DEF Loop, Move, At
      <3>2. CancelData' /\ 1 \in mem'.handlers /\ (mem'.async => program = "cancel_async")
        BY <1>0, <3>1 DEF CancelData
      <3> QED
        BY <1>3, <2>4, <3>1, <3>2
    <2>5. CASE Cancelled(1) /\ Stay
      <3>1. /\ process = "running" /\ pc[1] \notin {"none", "ended", "joined"}
            /\ Goto(1, "ended")
            /\ mem' = [mem EXCEPT !.cleaned = mem.handlers]
            /\ mem.async \/ pc[1] \in CancelPoints
        BY <2>5 DEF Cancelled, Cancellable
      <3>2. 1 \in mem.handlers
        BY <1>0, <3>1 DEF CancelPoints
      <3>3. /\ CancelData' /\ 1 \in mem'.handlers /\ 1 \in mem'.cleaned
            /\ mem'.async = mem.async
        BY <1>0, <3>1, <3>2 DEF CancelData
      <3> QED
        BY <1>0, <1>3, <2>5, <3>1, <3>3
    <2>6. CASE CancelledInPrintf(1)
      <3>1. /\ pc[1] = "print" /\ mem.async /\ mem.pending /\ process' = "undefined"
            /\ UNCHANGED <<program, pc, count, owner, mem>>
        BY <2>6 DEF CancelledInPrintf, Cancellable, At
      <3>2. PthreadTypeOK' /\ Forked(1, TRUE, {"return"})' /\ CancelData'
        BY <1>0, <3>1 DEF PthreadTypeOK, Forked, CancelData
      <3> QED
        BY <1>0, <1>1, <3>1, <3>2
    <2> QED
      BY <1>4, <2>1, <2>2, <2>3, <2>4, <2>5, <2>6 DEF Thread_01_02
  <1>5. CASE Thread_03(1)
    <2>1. /\ process = "running" /\ Stay
          /\ \/ pc[1] = "sleep" /\ Goto(1, "enable") /\ UNCHANGED mem
             \/ pc[1] = "enable" /\ Goto(1, "pause") /\ mem' = [mem EXCEPT !.enabled = TRUE]
      BY <1>5 DEF Thread_03, Reenable, Move, At
    <2>2. CancelData' /\ 1 \in mem'.handlers /\ (mem'.async => program = "cancel_async")
      BY <1>0, <2>1 DEF CancelData
    <2> QED
      BY <1>3, <2>1, <2>2
  <1> QED
    BY <1>2, <1>4, <1>5
(* 13_cancel without an argument ends before it has created a thread.      *)
LEMMA CancelBareStep ==
  ASSUME PthreadTypeOK, program = "cancel_bare", CancelBareInv, CancelBareMain
  PROVE  program' = program /\ PthreadTypeOK' /\ CancelBareInv'
  <1>1. UNCHANGED <<program, pc, count, owner>> /\ process' \in {"failed", "undefined"}
    BY DEF CancelBareMain, Exit, mutexvars
  <1> QED
    BY <1>1 DEF PthreadTypeOK, CancelBareInv
-----------------------------------------------------------------------------
(* 13_cancel's cpp_version: the cancelled thread dies with its mutex.      *)
LEMMA CancelCppStep ==
  ASSUME PthreadTypeOK, program = "cancel_cpp", CancelCppInv,
         CancelCppMain \/ Tf(1) \/ TfSpurious(1)
  PROVE  program' = program /\ PthreadTypeOK' /\ CancelCppInv'
  <1> USE Constants DEF mutexvars, Stay
  <1> DEFINE Inside == {"start", "wait", "waiting", "relock", "fall", "ended", "joined"}
             Outer == {"cancel", "join", "return"}
             Holding == {"wait", "fall", "ended", "joined"}
  <1>0. /\ 1 \in Workers /\ 1 # Main /\ \A w \in Workers : w <= 1 <=> w = 1
        /\ owner \in {None, 1} /\ CancelData /\ Forked(1, FALSE, {"return"})
        /\ owner = 1 <=> pc[1] \in Holding
        /\ process # "killed" /\ (process = "undefined" => pc[1] \in {"none", "ended"})
        /\ pc[1] \in {"none"} \cup Inside /\ pc[Main] \in {"init", "create"} \cup Outer
        /\ \A w \in Workers \ {1} : pc[w] = "none"
        /\ None # 1
    <2>1. 1 \in Workers /\ 1 # Main /\ \A w \in Workers : w <= 1 <=> w = 1
      BY DEF Main, Workers
    <2> QED
      BY <2>1 DEF CancelCppInv, Staff
  <1>1. ASSUME UNCHANGED program, process' \in {process, "returned", "undefined"},
               process' = "undefined" => pc'[1] \in {"none", "ended"},
               PthreadTypeOK', Forked(1, FALSE, {"return"})', CancelData',
               \A w \in Workers \ {1} : pc'[w] = pc[w],
               pc'[Main] \in {"init", "create"} \cup Outer, pc'[1] \in {"none"} \cup Inside,
               owner' \in {None, 1}, owner' = 1 <=> pc'[1] \in Holding
        PROVE  program' = program /\ PthreadTypeOK' /\ CancelCppInv'
    <2>1. Staff(1, Outer, Inside)'
      BY <1>0, <1>1 DEF Staff
    <2> QED
      BY <1>0, <1>1, <2>1 DEF CancelCppInv
  <1>2. CASE CancelCppMain
    <2>1. CASE Return
      <3>1. /\ UNCHANGED <<program, pc, count, owner, mem>> /\ process' = "returned"
            /\ PthreadTypeOK'
        BY <2>1, ExitStep DEF Return
      <3> QED
        BY <1>0, <1>1, <3>1 DEF Forked, CancelData
    <2>2. ASSUME UNCHANGED <<program, count, owner>>, NEW p, NEW r, Move(Main, p, r),
                 \/ process' = process
                 \/ process' = "undefined" /\ pc[1] = "none",
                 mem' \in {mem, [mem EXCEPT !.pending = TRUE]},
                 (p = "init" /\ r = "create") \/ (p = "cancel" /\ r = "join")
          PROVE  program' = program /\ PthreadTypeOK' /\ CancelCppInv'
      <3>1. /\ pc' \in [Threads -> Points] /\ process = "running"
            /\ pc[Main] = p /\ pc'[Main] = r
            /\ \A w \in Workers : pc'[w] = pc[w]
        <4>1. r \in Points
          BY <2>2 DEF Points
        <4> QED
          BY <2>2, <4>1, MoveStep
      <3>2. PthreadTypeOK'
        BY <2>2, <3>1 DEF PthreadTypeOK
      <3>3. Forked(1, FALSE, {"return"})'
        BY <1>0, <2>2, <3>1, ForkedMain DEF PthreadTypeOK
      <3>4. CancelData'
        BY <1>0, <2>2 DEF CancelData
      <3> QED
        BY <1>0, <1>1, <2>2, <3>1, <3>2, <3>3, <3>4
    <2>3. CASE Create(<<"start">>, FALSE, "cancel")
      <3>1. CreatingOne(FALSE, {"return"}, "start", "cancel")
        BY <1>0, <2>3 DEF CreatingOne, Points
      <3>2. /\ UNCHANGED <<program, owner, mem>>
            /\ pc[Main] = "create" /\ pc'[Main] \in {"create", "cancel"}
            /\ pc'[1] = pc[1] \/ (pc[1] = "none" /\ pc'[1] = "start")
            /\ \A w \in Workers \ {1} : pc'[w] = pc[w]
            /\ PthreadTypeOK' /\ Forked(1, FALSE, {"return"})'
        BY <3>1, CreateOne
      <3>3. process' = process /\ process = "running" /\ CancelData'
        BY <1>0, <2>3, <3>2 DEF CancelData, Create, Move, At
      <3> QED
        BY <1>0, <1>1, <3>2, <3>3
    <2>4. CASE JoinAll(1, "return")
      <3>1. Joining(1, FALSE, {"return"}, "return")
        BY <1>0, <2>4 DEF Joining, Points
      <3>2. /\ UNCHANGED <<program, owner, mem>>
            /\ process = "running" /\ pc[Main] = "join"
            /\ \/ /\ process' = "running"
                  /\ count[Main] + 1 \in 1 .. 1
                  /\ pc[count[Main] + 1] = "ended" /\ pc'[count[Main] + 1] = "joined"
                  /\ \A w \in Workers \ {count[Main] + 1} : pc'[w] = pc[w]
                  /\ pc'[Main] \in {"join", "return"}
               \/ /\ process' = "undefined" /\ UNCHANGED pc
                  /\ count[Main] + 1 \in 1 .. 1
                  /\ pc[count[Main] + 1] = "none"
            /\ PthreadTypeOK' /\ Forked(1, FALSE, {"return"})'
        BY <3>1, JoinStep
      <3>3. count[Main] + 1 = 1 /\ CancelData'
        BY <1>0, <3>2 DEF CancelData, PthreadTypeOK
      <3> QED
        BY <1>0, <1>1, <3>2, <3>3
    <2>5. CASE Interrupt("cancel", "join")
      BY <2>2, <2>5 DEF Interrupt
    <2>6. CASE Move(Main, "init", "create") /\ Stay /\ UNCHANGED mem
      BY <2>2, <2>6
    <2> QED
      BY <1>2, <2>1, <2>3, <2>4, <2>5, <2>6 DEF CancelCppMain
  (* The steps of the thread.                                              *)
  <1>3. ASSUME UNCHANGED <<program, count>>, process = "running",
               pc[1] \notin {"none", "ended", "joined"}, NEW r, Goto(1, r), r \in Inside \ {"joined"},
               process' = "running" \/ (process' = "undefined" /\ r = "ended"),
               CancelData', owner' = IF r \in Holding THEN 1 ELSE None
        PROVE  program' = program /\ PthreadTypeOK' /\ CancelCppInv'
    <2>1. /\ pc' \in [Threads -> Points] /\ pc'[1] = r
          /\ \A u \in Threads \ {1} : pc'[u] = pc[u]
      BY <1>0, <1>3 DEF Goto, PthreadTypeOK, Points
    <2>2. PthreadTypeOK'
      BY <1>0, <1>3, <2>1 DEF PthreadTypeOK
    <2>3. Forked(1, FALSE, {"return"})'
      <3>1. \A w \in Workers :
              pc'[w] = pc[w]
                \/ (pc[w] \notin {"none", "joined"} /\ pc'[w] \notin {"none", "joined"})
        BY <1>0, <1>3, <2>1
      <3> QED
        BY <1>0, <1>3, <2>1, <3>1, ForkedKept
    <2> QED
      BY <1>0, <1>1, <1>3, <2>1, <2>2, <2>3
  <1>4. CASE Tf(1)
    <2>1. CASE TfWait(1)
      <3>1. /\ UNCHANGED <<program, count, mem>> /\ process = "running"
            /\ \/ pc[1] = "start" /\ Goto(1, "wait") /\ owner' = 1 /\ process' = "running"
               \/ pc[1] = "wait" /\ Goto(1, "waiting") /\ owner' = None /\ process' = "running"
               \/ pc[1] = "relock" /\ Goto(1, "fall") /\ owner' = 1 /\ process' = "running"
               \/ /\ pc[1] = "fall" /\ Goto(1, "ended") /\ owner' = owner
                  /\ process' \in {"running", "undefined"}
        BY <1>4, <2>1 DEF Tf, TfWait, Lock, Unlock, Move, At
      <3>2. CancelData' /\ (pc[1] = "fall" => owner = 1)
        BY <1>0, <3>1 DEF CancelData
      <3> QED
        BY <1>3, <3>1, <3>2
    <2>2. CASE TfCancelled(1)
      <3>1. /\ UNCHANGED <<program, count>> /\ process = "running" /\ process' = "running"
            /\ pc[1] \notin {"none", "ended", "joined"} /\ Goto(1, "ended") /\ owner' = 1
            /\ mem' = [mem EXCEPT !.cleaned = mem.handlers]
        BY <1>4, <2>2 DEF Tf, TfCancelled, Cancelled
      <3>2. CancelData'
        BY <1>0, <3>1 DEF CancelData
      <3> QED
        BY <1>3, <3>1, <3>2
    <2> QED
      BY <1>4, <2>1, <2>2 DEF Tf
  <1>5. CASE TfSpurious(1)
    <2>1. /\ process = "running" /\ pc[1] = "waiting" /\ Goto(1, "relock")
          /\ UNCHANGED <<program, process, count, owner, mem>>
      BY <1>5 DEF TfSpurious, Move, At
    <2>2. CancelData' /\ owner = None
      BY <1>0, <2>1 DEF CancelData
    <2> QED
      BY <1>3, <2>1, <2>2
  <1> QED
    BY <1>2, <1>4, <1>5
-----------------------------------------------------------------------------
(* 14_tss: the key exists until all threads are joined.                    *)
LEMMA TssStep ==
  ASSUME PthreadTypeOK, program = "tss", TssInv, TssMain \/ \E w \in Workers : TssThread(w)
  PROVE  program' = program /\ PthreadTypeOK' /\ TssInv'
  <1> USE Constants DEF mutexvars, Stay
  <1> DEFINE Inside == {"start", "show", "ended", "joined"}
             Outer == {"join", "delete", "return"}
             After == {"delete", "return"}
             Kept(w) == pc[w] \in {"ended", "joined"} /\ w \in mem.slot => w \in mem.deleted
             TssData == mem \in [key : BOOLEAN, strings : SUBSET Workers,
                                 slot : SUBSET Workers, deleted : SUBSET Workers]
  <1>0. /\ NumStrings \in Workers /\ owner = None /\ TssData /\ Undisturbed
        /\ Forked(NumStrings, TRUE, After) /\ Staff(NumStrings, Outer, Inside)
        /\ pc[Main] # "return" => mem.key
        /\ \A w \in Workers : Kept(w)
    BY LifetimeAssumption DEF TssInv
  <1>1. ASSUME NEW how \in {"returned", "failed"}, Exit(how)
        PROVE  program' = program /\ PthreadTypeOK' /\ TssInv'
    <2>1. UNCHANGED <<program, pc, count, owner, mem>> /\ process' = how /\ PthreadTypeOK'
      BY <1>1, ExitStep
    <2> QED
      BY <2>1 DEF TssInv, Undisturbed, Staff, Forked
  <1>2. ASSUME Setup("create")
        PROVE  program' = program /\ PthreadTypeOK' /\ TssInv'
    <2>1. CASE /\ Move(Main, "init", "create")
               /\ UNCHANGED <<program, process, count, mutexvars, mem>>
      <3>1. /\ pc' \in [Threads -> Points] /\ process = "running"
            /\ pc[Main] = "init" /\ pc'[Main] = "create"
            /\ \A w \in Workers : pc'[w] = pc[w]
        BY <2>1, MoveStep DEF Points
      <3>2. PthreadTypeOK'
        BY <2>1, <3>1 DEF PthreadTypeOK
      <3>3. Forked(NumStrings, TRUE, After)'
        BY <1>0, <2>1, <3>1, ForkedMain DEF PthreadTypeOK
      <3>4. Staff(NumStrings, Outer, Inside)'
        BY <1>0, <3>1 DEF Staff
      <3> QED
        BY <1>0, <2>1, <3>1, <3>2, <3>3, <3>4 DEF TssInv, Undisturbed
    <2> QED
      BY <1>1, <1>2, <2>1 DEF Setup
  <1>3. ASSUME Create([i \in 1 .. NumStrings |-> "start"], TRUE, "join")
        PROVE  program' = program /\ PthreadTypeOK' /\ TssInv'
    <2> DEFINE E == [i \in 1 .. NumStrings |-> "start"]
    <2>1. Creating(NumStrings, TRUE, After, E, "start", "join")
      <3>1. Len(E) = NumStrings
        BY DEF Workers
      <3>2. \A w \in 1 .. NumStrings : E[w] = "start"
        OBVIOUS
      <3>3. {"init", "create", "join"} \cap After = {} /\ "start" \in Points \ {"none", "joined"}
            /\ "join" \in Points \ ({"init", "create"} \cup After)
        BY DEF Points
      <3>4. Forked(NumStrings, TRUE, After) /\ Create(E, TRUE, "join")
        BY <1>0, <1>3
      <3> HIDE DEF E, After
      <3> QED
        BY <1>0, <3>1, <3>2, <3>3, <3>4 DEF Creating
    <2> HIDE DEF E, After
    <2>2. /\ UNCHANGED <<program, owner, mem>> /\ process' \in {process, "failed"}
          /\ pc[Main] = "create" /\ pc'[Main] \in {"create", "join"}
          /\ pc'[Main] = "join" => count'[Main] = 0
          /\ \A w \in Workers :
               /\ count'[w] = count[w]
               /\ pc'[w] = pc[w] \/ (pc[w] = "none" /\ w <= NumStrings /\ pc'[w] = "start")
          /\ PthreadTypeOK' /\ Forked(NumStrings, TRUE, After)'
      BY <2>1, CreateStep
    <2>3. Staff(NumStrings, Outer, Inside)'
      BY <1>0, <2>2 DEF Staff
    <2>4. \A w \in Workers : Kept(w)'
      BY <1>0, <2>2
    <2> QED
      BY <1>0, <2>2, <2>3, <2>4 DEF TssInv, Undisturbed, After
  <1>4. ASSUME JoinAll(NumStrings, "delete")
        PROVE  program' = program /\ PthreadTypeOK' /\ TssInv'
    <2>1. Joining(NumStrings, TRUE, After, "delete")
      BY <1>0, <1>4 DEF Joining, Points
    <2>2. /\ UNCHANGED <<program, owner, mem>>
          /\ process' = "running" /\ process = "running"
          /\ pc[Main] = "join" /\ pc'[Main] \in {"join", "delete"}
          /\ \A w \in Workers : pc'[w] = pc[w] \/ (pc[w] = "ended" /\ pc'[w] = "joined")
          /\ PthreadTypeOK' /\ Forked(NumStrings, TRUE, After)'
      BY <2>1, JoinStep
    <2>3. Staff(NumStrings, Outer, Inside)'
      BY <1>0, <2>2 DEF Staff
    <2>4. \A w \in Workers : Kept(w)'
      BY <1>0, <2>2
    <2> QED
      BY <1>0, <2>2, <2>3, <2>4 DEF TssInv, Undisturbed
  (* The key is deleted when nobody is left who would need it.             *)
  <1>5. ASSUME Move(Main, "delete", "return"), mem' = [mem EXCEPT !.key = FALSE], Stay
        PROVE  program' = program /\ PthreadTypeOK' /\ TssInv'
    <2>1. /\ pc' \in [Threads -> Points] /\ process = "running"
          /\ pc[Main] = "delete" /\ pc'[Main] = "return"
          /\ \A w \in Workers : pc'[w] = pc[w]
      BY <1>5, MoveStep DEF Points
    <2>2. PthreadTypeOK'
      BY <1>5, <2>1 DEF PthreadTypeOK
    <2>3. Forked(NumStrings, TRUE, After)'
      BY <1>0, <1>5, <2>1, ForkedMain DEF PthreadTypeOK
    <2>4. Staff(NumStrings, Outer, Inside)'
      BY <1>0, <2>1 DEF Staff
    <2>5. TssData' /\ mem'.slot = mem.slot /\ mem'.deleted = mem.deleted
      BY <1>0, <1>5
    <2>6. \A w \in Workers : Kept(w)'
      BY <1>0, <2>1, <2>5
    <2> QED
      BY <1>0, <1>5, <2>1, <2>2, <2>3, <2>4, <2>5, <2>6 DEF TssInv, Undisturbed
  <1>6. ASSUME NEW w \in Workers, TssThread(w)
        PROVE  program' = program /\ PthreadTypeOK' /\ TssInv'
    <2>1. /\ UNCHANGED <<program, process, count, owner>> /\ process = "running"
          /\ pc' \in [Threads -> Points]
          /\ \A u \in Threads \ {w} : pc'[u] = pc[u]
          /\ \/ /\ pc[w] = "start" /\ pc'[w] = "show"
                /\ \/ mem' = [mem EXCEPT !.strings = @ \cup {w}, !.slot = @ \cup {w}]
                   \/ mem' = [mem EXCEPT !.strings = @ \cup {w}]
             \/ /\ pc[w] = "show" /\ pc'[w] = "ended"
                /\ mem' = [mem EXCEPT !.deleted = IF mem.key THEN @ \cup (mem.slot \cap {w}) ELSE @]
      <3>1. CASE SetSpecific(w)
        <4>1. Move(w, "start", "show") /\ "show" \in Points
          BY <3>1 DEF SetSpecific, Points
        <4>2. \/ mem' = [mem EXCEPT !.strings = @ \cup {w}, !.slot = @ \cup {w}]
              \/ mem' = [mem EXCEPT !.strings = @ \cup {w}]
          BY <3>1 DEF SetSpecific
        <4>3. /\ process = "running" /\ pc' \in [Threads -> Points]
              /\ \A u \in Threads \ {w} : pc'[u] = pc[u]
              /\ pc[w] = "start" /\ pc'[w] = "show"
          BY <4>1, MoveStep
        <4> QED
          BY <1>6, <4>2, <4>3 DEF TssThread
      <3>2. CASE Destruktor(w)
        BY <1>6, <3>2, MoveStep DEF TssThread, Destruktor, Points
      <3> QED
        BY <1>6, <3>1, <3>2 DEF TssThread
    <2>2. PthreadTypeOK' /\ Main # w
      BY <2>1 DEF PthreadTypeOK
    <2>3. Forked(NumStrings, TRUE, After)'
      <3>1. \A u \in Workers :
              pc'[u] = pc[u]
                \/ (pc[u] \notin {"none", "joined"} /\ pc'[u] \notin {"none", "joined"})
        BY <2>1
      <3> QED
        BY <1>0, <2>1, <2>2, <3>1, ForkedKept
    <2>4. Staff(NumStrings, Outer, Inside)'
      BY <1>0, <2>1, <2>2 DEF Staff
    <2>5. mem.key /\ pc[Main] # "return"
      <3>1. w <= NumStrings
        BY <1>0, <2>1 DEF Staff
      <3> QED
        BY <1>0, <2>1, <3>1 DEF Forked
    <2>6. TssData' /\ mem'.key /\ \A u \in Workers : Kept(u)'
      <3>1. CASE pc[w] = "start"
        <4>1. /\ TssData' /\ mem'.key /\ mem'.deleted = mem.deleted /\ pc'[w] = "show"
              /\ mem'.slot \in {mem.slot, mem.slot \cup {w}}
          <5>1. CASE mem' = [mem EXCEPT !.strings = @ \cup {w}, !.slot = @ \cup {w}]
            BY <1>0, <2>1, <2>5, <3>1, <5>1
          <5>2. CASE mem' = [mem EXCEPT !.strings = @ \cup {w}]
            BY <1>0, <2>1, <2>5, <3>1, <5>2
          <5> QED
            BY <2>1, <3>1, <5>1, <5>2
        <4> QED
          BY <1>0, <2>1, <4>1
      <3>2. CASE pc[w] = "show"
        <4>1. /\ mem' = [mem EXCEPT !.deleted = @ \cup (mem.slot \cap {w})]
          BY <2>1, <2>5, <3>2
        <4>2. /\ TssData' /\ mem'.key /\ mem'.slot = mem.slot
              /\ mem'.deleted = mem.deleted \cup (mem.slot \cap {w})
          BY <1>0, <2>5, <4>1
        <4> QED
          BY <1>0, <2>1, <4>2
      <3> QED
        BY <2>1, <3>1, <3>2
    <2> QED
      BY <1>0, <2>1, <2>2, <2>3, <2>4, <2>6 DEF TssInv, Undisturbed
  <1> QED
    BY <1>1, <1>2, <1>3, <1>4, <1>5, <1>6 DEF TssMain, Return
-----------------------------------------------------------------------------
(* 04a_signals: the signals are blocked before the thread exists that      *)
(* sends one.                                                              *)
LEMMA SignalStep ==
  ASSUME PthreadTypeOK, program = "signals", SignalInv,
         SignalMain \/ SignalWorker(1) \/ OutsideSignal
  PROVE  program' = program /\ PthreadTypeOK' /\ SignalInv'
  <1> USE Constants DEF mutexvars, Stay
  <1> DEFINE Inside == {"start", "ended", "joined"}
             Outer == {"sigwait", "join", "return"}
  <1>0. /\ 1 \in Workers /\ 1 # Main /\ \A w \in Workers : w <= 1 <=> w = 1
        /\ owner = None /\ Forked(1, TRUE, {"return"}) /\ Undisturbed
        /\ mem.blocked \in BOOLEAN /\ (pc[Main] # "init" => mem.blocked)
        /\ pc[1] \in {"none"} \cup Inside /\ pc[Main] \in {"init", "create"} \cup Outer
        /\ \A w \in Workers \ {1} : pc[w] = "none"
    <2>1. 1 \in Workers /\ 1 # Main /\ \A w \in Workers : w <= 1 <=> w = 1
      BY DEF Main, Workers
    <2> QED
      BY <2>1 DEF SignalInv, Staff
  <1>1. ASSUME UNCHANGED <<program, owner>>, process' \in {process, "returned", "failed"},
               PthreadTypeOK', Forked(1, TRUE, {"return"})',
               \A w \in Workers \ {1} : pc'[w] = pc[w],
               pc'[Main] \in {"init", "create"} \cup Outer, pc'[1] \in {"none"} \cup Inside,
               mem'.blocked \in BOOLEAN, pc'[Main] # "init" => mem'.blocked
        PROVE  program' = program /\ PthreadTypeOK' /\ SignalInv'
    <2>1. Staff(1, Outer, Inside)'
      BY <1>0, <1>1 DEF Staff
    <2> QED
      BY <1>0, <1>1, <2>1 DEF SignalInv, Undisturbed
  <1>2. ASSUME NEW how \in {"returned", "failed"}, Exit(how)
        PROVE  program' = program /\ PthreadTypeOK' /\ SignalInv'
    <2>1. UNCHANGED <<program, pc, count, owner, mem>> /\ process' = how /\ PthreadTypeOK'
      BY <1>2, ExitStep
    <2> QED
      BY <1>0, <1>1, <2>1 DEF Forked
  <1>3. ASSUME NEW p, NEW r, Move(Main, p, r), Stay, mem'.blocked \in BOOLEAN, mem'.blocked,
               (p = "init" /\ r = "create") \/ (p = "sigwait" /\ r = "join")
        PROVE  program' = program /\ PthreadTypeOK' /\ SignalInv'
    <2>1. /\ pc' \in [Threads -> Points] /\ process = "running"
          /\ pc[Main] = p /\ pc'[Main] = r
          /\ \A w \in Workers : pc'[w] = pc[w]
      <3>1. r \in Points
        BY <1>3 DEF Points
      <3> QED
        BY <1>3, <3>1, MoveStep
    <2>2. PthreadTypeOK'
      BY <1>3, <2>1 DEF PthreadTypeOK
    <2>3. Forked(1, TRUE, {"return"})'
      BY <1>0, <1>3, <2>1, ForkedMain DEF PthreadTypeOK
    <2> QED
      BY <1>0, <1>1, <1>3, <2>1, <2>2, <2>3
  <1>4. CASE SignalMain
    <2>1. CASE Move(Main, "init", "create") /\ mem' = [mem EXCEPT !.blocked = TRUE] /\ Stay
      <3>1. mem'.blocked = TRUE
        BY <1>0, <2>1
      <3> QED
        BY <1>3, <2>1, <3>1
    <2>2. CASE /\ Move(Main, "sigwait", "join") /\ Stay
               /\ \E s \in mem.pending :
                    mem' = [mem EXCEPT !.pending = @ \ {s}, !.received = s]
      <3>1. mem'.blocked = mem.blocked /\ pc[Main] = "sigwait"
        BY <2>2 DEF Move, At
      <3> QED
        BY <1>0, <1>3, <2>2, <3>1
    <2>3. CASE Create(<<"start">>, TRUE, "sigwait")
      <3>1. CreatingOne(TRUE, {"return"}, "start", "sigwait")
        BY <1>0, <2>3 DEF CreatingOne, Points
      <3>2. /\ UNCHANGED <<program, owner, mem>> /\ process' \in {process, "failed"}
            /\ pc[Main] = "create" /\ pc'[Main] \in {"create", "sigwait"}
            /\ pc'[1] = pc[1] \/ (pc[1] = "none" /\ pc'[1] = "start")
            /\ \A w \in Workers \ {1} : pc'[w] = pc[w]
            /\ PthreadTypeOK' /\ Forked(1, TRUE, {"return"})'
        BY <3>1, CreateOne
      <3> QED
        BY <1>0, <1>1, <3>2
    <2>4. CASE JoinAll(1, "return")
      <3>1. /\ UNCHANGED <<program, owner, mem>>
            /\ process' = "running" /\ process = "running" /\ pc[Main] = "join"
            /\ \A w \in Workers : pc'[w] = pc[w] \/ (pc[w] = "ended" /\ pc'[w] = "joined")
            /\ pc'[Main] \in {"join", "return"}
            /\ PthreadTypeOK' /\ Forked(1, TRUE, {"return"})'
        <4>1. Joining(1, TRUE, {"return"}, "return")
          BY <1>0, <2>4 DEF Joining, Points
        <4> QED
          BY <4>1, JoinStep
      <3>2. \A w \in Workers \ {1} : pc'[w] = pc[w]
        BY <1>0, <3>1
      <3> QED
        BY <1>0, <1>1, <3>1, <3>2
    <2> QED
      BY <1>2, <1>4, <2>1, <2>2, <2>3, <2>4 DEF SignalMain, Return
  <1>5. CASE SignalWorker(1)
    <2>1. /\ process = "running" /\ pc[1] = "start" /\ pc'[1] = "ended"
          /\ \A u \in Threads \ {1} : pc'[u] = pc[u]
          /\ pc' \in [Threads -> Points] /\ UNCHANGED <<program, count, owner>>
      BY <1>0, <1>5, MoveStep DEF SignalWorker, Points
    <2>2. mem.blocked
      BY <1>0, <2>1 DEF Forked
    <2>3. UNCHANGED process /\ mem' = [mem EXCEPT !.pending = @ \cup {"SIGUSR1"}]
      BY <1>5, <2>2 DEF SignalWorker
    <2>4. mem'.blocked = mem.blocked
      BY <2>3
    <2>5. PthreadTypeOK'
      BY <2>1, <2>3 DEF PthreadTypeOK
    <2>6. Forked(1, TRUE, {"return"})'
      <3>1. \A u \in Workers :
              pc'[u] = pc[u]
                \/ (pc[u] \notin {"none", "joined"} /\ pc'[u] \notin {"none", "joined"})
        BY <2>1
      <3> QED
        BY <1>0, <2>1, <2>3, <3>1, ForkedKept
    <2> QED
      BY <1>0, <1>1, <2>1, <2>2, <2>3, <2>4, <2>5, <2>6
  <1>6. CASE OutsideSignal
    <2>1. /\ UNCHANGED <<program, process, pc, count, owner>>
          /\ mem' = [mem EXCEPT !.pending = @ \cup {"SIGRTMIN"}]
      BY <1>6 DEF OutsideSignal
    <2>2. mem'.blocked = mem.blocked
      BY <2>1
    <2>3. PthreadTypeOK' /\ Forked(1, TRUE, {"return"})'
      BY <1>0, <2>1 DEF PthreadTypeOK, Forked
    <2> QED
      BY <1>0, <1>1, <2>1, <2>2, <2>3
  <1> QED
    BY <1>4, <1>5, <1>6
-----------------------------------------------------------------------------
(* Every step is a step of the program that this behaviour is.             *)
LEMMA NextInv == PthreadInv /\ [Next]_vars => PthreadInv'
  <1> SUFFICES ASSUME PthreadInv, [Next]_vars
               PROVE  PthreadInv'
    OBVIOUS
  <1> DEFINE OwnPart == program' = program /\ PthreadTypeOK' /\ ProgramInv'
  <1>0. PthreadTypeOK /\ ProgramInv
    BY DEF PthreadInv
  <1>1. CASE UNCHANGED vars
    <2>1. UNCHANGED <<program, process, pc, count, owner, mem>>
      BY <1>1 DEF vars
    <2>2. PthreadTypeOK'
      BY <1>0, <2>1 DEF PthreadTypeOK
    <2>3. /\ \A n, S, T : Staff(n, S, T) => Staff(n, S, T)'
          /\ \A n, c, S : Forked(n, c, S) => Forked(n, c, S)'
          /\ Undisturbed => Undisturbed'
      BY <2>1 DEF Staff, Forked, Undisturbed
    <2>4. CountInv => CountInv'
      <3>1. \A S : Summed(S) => Summed(S)'
        BY <2>1 DEF Summed, Added
      <3>2. CounterExact => CounterExact'
        BY <2>1 DEF CounterExact
      <3> QED
        BY <2>1, <2>3, <3>1, <3>2 DEF CountInv
    <2>5. (KindInv => KindInv') /\ (BarrierInv => BarrierInv')
      BY <2>1, <2>3 DEF KindInv, BarrierInv, BarrierTogether
    <2>6. (ProdConsInv => ProdConsInv') /\ (TsqInv => TsqInv')
      <3>1. QueueData => QueueData'
        BY <2>1, DataKept
      <3> QED
        BY <2>1, <2>3, <3>1 DEF ProdConsInv, TsqInv
    <2>7. FutureInv => FutureInv'
      BY <2>1, <2>3 DEF FutureInv, FutureOrder, FutureAnswers
    <2>8. /\ CancelInv => CancelInv'
          /\ (CancelBareInv => CancelBareInv') /\ (CancelCppInv => CancelCppInv')
      BY <1>1, <2>1, <2>3 DEF CancelInv, CancelBareInv, CancelCppInv, CancelData, vars
    <2>9. (TssInv => TssInv') /\ (SignalInv => SignalInv')
      BY <2>1, <2>3 DEF TssInv, SignalInv
    <2> QED
      BY <1>0, <2>1, <2>2, <2>4, <2>5, <2>6, <2>7, <2>8, <2>9 DEF ProgramInv, PthreadInv
  <1>2. CASE Next
    <2>1. CASE program \in CounterPrograms /\ (CountMain \/ \E w \in Workers : CountingThread(w))
      <3>1. program' = program /\ PthreadTypeOK' /\ CountInv'
        BY <1>0, <2>1, CountMainStep, CountWorkerStep DEF ProgramInv
      <3> QED
        BY <2>1, <3>1
           DEF ProgramInv, PthreadInv, CounterPrograms, MutexKinds, CancelKinds
    <2>2. CASE program \in MutexKinds /\ (KindMain \/ \E w \in Workers : KindThread(w))
      <3>1. program' = program /\ PthreadTypeOK' /\ KindInv'
        BY <1>0, <2>2, KindStep DEF ProgramInv
      <3> QED
        BY <2>2, <3>1
           DEF ProgramInv, PthreadInv, CounterPrograms, MutexKinds, CancelKinds
    <2>3. CASE program = "barrier" /\ (BarrierMain \/ \E w \in Workers : BarrierWorker(w))
      <3>1. program' = program /\ PthreadTypeOK' /\ BarrierInv'
        BY <1>0, <2>3, BarrierStep DEF ProgramInv
      <3> QED
        BY <2>3, <3>1
           DEF ProgramInv, PthreadInv, CounterPrograms, MutexKinds, CancelKinds
    <2>4. CASE /\ program = "prod_cons"
               /\ ProdConsMain \/ ProducerThread \/ ConsumerThread \/ SpuriousWakeup
      <3>1. program' = program /\ PthreadTypeOK' /\ ProdConsInv'
        BY <1>0, <2>4, ProdConsMainStep, ProdConsThreadStep DEF ProgramInv
      <3> QED
        BY <2>4, <3>1
           DEF ProgramInv, PthreadInv, CounterPrograms, MutexKinds, CancelKinds
    <2>5. CASE program = "tsq" /\ (TsqMain \/ TsqProducer)
      <3>1. program' = program /\ PthreadTypeOK' /\ TsqInv'
        BY <1>0, <2>5, TsqStep DEF ProgramInv
      <3> QED
        BY <2>5, <3>1
           DEF ProgramInv, PthreadInv, CounterPrograms, MutexKinds, CancelKinds
    <2>6. CASE program = "future" /\ (FutureMain \/ Hello \/ \E w \in 2 .. 3 : RunTask(w))
      <3>1. program' = program /\ PthreadTypeOK' /\ FutureInv'
        BY <1>0, <2>6, FutureMainStep, FutureThreadStep DEF ProgramInv
      <3> QED
        BY <2>6, <3>1
           DEF ProgramInv, PthreadInv, CounterPrograms, MutexKinds, CancelKinds
    <2>7. CASE program \in CancelKinds /\ (CancelMain \/ Thread_01_02(1) \/ Thread_03(1))
      <3>1. program' = program /\ PthreadTypeOK' /\ CancelInv'
        BY <1>0, <2>7, CancelStep DEF ProgramInv
      <3> QED
        BY <2>7, <3>1
           DEF ProgramInv, PthreadInv, CounterPrograms, MutexKinds, CancelKinds
    <2>8. CASE program = "cancel_cpp" /\ (CancelCppMain \/ Tf(1) \/ TfSpurious(1))
      <3>1. program' = program /\ PthreadTypeOK' /\ CancelCppInv'
        BY <1>0, <2>8, CancelCppStep DEF ProgramInv
      <3> QED
        BY <2>8, <3>1
           DEF ProgramInv, PthreadInv, CounterPrograms, MutexKinds, CancelKinds
    <2>9. CASE program = "tss" /\ (TssMain \/ \E w \in Workers : TssThread(w))
      <3>1. program' = program /\ PthreadTypeOK' /\ TssInv'
        BY <1>0, <2>9, TssStep DEF ProgramInv
      <3> QED
        BY <2>9, <3>1
           DEF ProgramInv, PthreadInv, CounterPrograms, MutexKinds, CancelKinds
    <2>10. CASE program = "signals" /\ (SignalMain \/ SignalWorker(1) \/ OutsideSignal)
      <3>1. program' = program /\ PthreadTypeOK' /\ SignalInv'
        BY <1>0, <2>10, SignalStep DEF ProgramInv
      <3> QED
        BY <2>10, <3>1
           DEF ProgramInv, PthreadInv, CounterPrograms, MutexKinds, CancelKinds
    <2>11. CASE program = "cancel_bare" /\ CancelBareMain
      <3>1. program' = program /\ PthreadTypeOK' /\ CancelBareInv'
        BY <1>0, <2>11, CancelBareStep DEF ProgramInv
      <3> QED
        BY <2>11, <3>1
           DEF ProgramInv, PthreadInv, CounterPrograms, MutexKinds, CancelKinds
    <2> QED
      BY <1>2, <2>1, <2>2, <2>3, <2>4, <2>5, <2>6, <2>7, <2>8, <2>9, <2>10, <2>11, StepOfProgram
  <1> QED
    BY <1>1, <1>2
-----------------------------------------------------------------------------
(* What the invariant says of each program.                                *)
LEMMA ProgramCases ==
  ASSUME PthreadInv
  PROVE  \/ program \in CounterPrograms /\ CountInv
         \/ program \in MutexKinds /\ KindInv
         \/ program = "barrier" /\ BarrierInv
         \/ program = "prod_cons" /\ ProdConsInv
         \/ program = "tsq" /\ TsqInv
         \/ program = "future" /\ FutureInv
         \/ program \in CancelKinds /\ CancelInv
         \/ program = "cancel_bare" /\ CancelBareInv
         \/ program = "cancel_cpp" /\ CancelCppInv
         \/ program = "tss" /\ TssInv
         \/ program = "signals" /\ SignalInv
  BY DEF PthreadInv, PthreadTypeOK, ProgramInv, Programs

LEMMA InvNoDataRace == PthreadInv => NoDataRace
  <1> SUFFICES ASSUME PthreadInv, process = "running", NEW t \in Threads, NEW u \in Threads, t # u
               PROVE  Writes(t) \cap (Reads(u) \cup Writes(u)) = {}
    BY DEF NoDataRace
  <1> USE Constants
  <1>0. /\ program \in CounterPrograms => CountInv
        /\ program = "prod_cons" => ProdConsInv
        /\ program = "future" => FutureInv
        /\ Threads = {Main} \cup Workers
    BY DEF PthreadInv, ProgramInv, Threads
  <1>1. CASE program \in CounterPrograms
    <2>1. /\ Writes(t) = IF pc[t] = "write" THEN {"counter"} ELSE {}
          /\ Writes(u) = IF pc[u] = "write" THEN {"counter"} ELSE {}
          /\ Reads(u) = IF pc[u] \in {"read", "print"} THEN {"counter"} ELSE {}
      BY <1>1 DEF Writes, Reads, CounterPrograms
    <2>2. SUFFICES ASSUME pc[t] = "write"
                   PROVE  pc[u] \notin {"read", "print", "write"}
      BY <2>1
    <2>3. t \in Workers /\ t <= NumThreads /\ owner = t
      BY <1>0, <1>1, <2>2 DEF CountInv, Staff
    <2>4. CASE u = Main
      BY <1>0, <1>1, <2>2, <2>3, <2>4 DEF CountInv, Staff, Forked
    <2>5. CASE u \in Workers
      BY <1>0, <1>1, <2>3, <2>5 DEF CountInv, Staff
    <2> QED
      BY <1>0, <2>4, <2>5
  <1>2. CASE program = "prod_cons"
    <2>1. /\ Writes(t) = IF pc[t] \in {"push", "take"} THEN {"q"} ELSE {}
          /\ Writes(u) = IF pc[u] \in {"push", "take"} THEN {"q"} ELSE {}
          /\ Reads(u) = IF pc[u] = "look" THEN {"q"} ELSE {}
      BY <1>2 DEF Writes, Reads, CounterPrograms
    <2>2. SUFFICES ASSUME pc[t] \in {"push", "take"}
                   PROVE  pc[u] \notin {"look", "push", "take"}
      BY <2>1
    <2>3. t \in Workers /\ owner = t
      BY <1>0, <1>2, <2>2 DEF ProdConsInv, Staff
    <2> QED
      BY <1>0, <1>2, <2>3 DEF ProdConsInv, Staff
  <1>3. CASE program = "future"
    <2>1. /\ Writes(t) = IF pc[t] = "task" THEN {t} ELSE {}
          /\ Writes(u) = IF pc[u] = "task" THEN {u} ELSE {}
          /\ Reads(u) = {w \in 2 .. 3 : pc[u] = (IF w = 2 THEN "read2" ELSE "read3")}
      BY <1>3 DEF Writes, Reads, CounterPrograms
    <2>2. SUFFICES ASSUME pc[t] = "task", t \in 2 .. 3,
                          pc[u] = (IF t = 2 THEN "read2" ELSE "read3")
                   PROVE  FALSE
      BY <2>1
    <2>3. u = Main
      BY <1>0, <1>3, <2>2 DEF FutureInv, FutureOrder, Staff
    <2>4. CASE t = 2
      BY <1>0, <1>3, <2>2, <2>3, <2>4
         DEF FutureInv, FutureOrder, BeforeJoin2, BeforeJoin1
    <2>5. CASE t = 3
      BY <1>0, <1>3, <2>2, <2>3, <2>5
         DEF FutureInv, FutureOrder, BeforeJoin3, BeforeJoin2, BeforeJoin1
    <2> QED
      BY <2>2, <2>4, <2>5
  <1>4. CASE program \notin CounterPrograms \cup {"prod_cons", "future"}
    BY <1>4 DEF Writes, Reads
  <1> QED
    BY <1>1, <1>2, <1>3, <1>4

LEMMA InvResultExact == PthreadInv => ResultExact
  <1> SUFFICES ASSUME PthreadInv
               PROVE  ResultExact
    OBVIOUS
  <1>1. CounterExact
    BY DEF PthreadInv, ProgramInv, CountInv, CounterExact
  <1>2. AnswersReady
    <2>1. ASSUME program = "future"
          PROVE  mem.printed \in {<<>>, <<42>>, <<42, 666>>}
      <3>1. FutureOrder /\ FutureAnswers
        BY <2>1 DEF PthreadInv, ProgramInv, FutureInv
      <3>2. pc[Main] \in FuturePoints
        BY <3>1 DEF FutureOrder, Staff, FuturePoints, BeforeJoin3, BeforeJoin2, BeforeJoin1
      <3>3. \/ pc[Main] \in BeforeJoin2 \cup {"read2"} \/ pc[Main] \in {"get3", "read3"}
            \/ pc[Main] \in {"destroy3", "destroy2", "return"}
        BY <3>2 DEF FuturePoints, BeforeJoin3
      <3> QED
        BY <3>1, <3>3 DEF FutureAnswers
    <2> QED
      BY <2>1 DEF AnswersReady
  <1>3. ItemsInOrder
    BY DEF PthreadInv, ProgramInv, ProdConsInv, TsqInv, QueueData, ItemsInOrder
  <1>4. BarrierTogether
    BY DEF PthreadInv, ProgramInv, BarrierInv, BarrierTogether
  <1> QED
    BY <1>1, <1>2, <1>3, <1>4 DEF ResultExact

LEMMA InvMutexesAtEnd == PthreadInv => MutexesAtEnd
  <1> SUFFICES ASSUME PthreadInv, NEW t \in Threads, pc[t] \in {"ended", "joined"}
               PROVE  owner = t <=> program = "cancel_cpp"
    BY DEF MutexesAtEnd
  <1> USE Constants DEF Staff
  <1>0. t # None /\ Threads = {Main} \cup Workers
    BY DEF Threads
  <1>1. CASE program \in CounterPrograms /\ CountInv
    BY <1>0, <1>1 DEF CountInv, CounterPrograms
  <1>2. CASE program \in MutexKinds /\ KindInv
    BY <1>0, <1>2 DEF KindInv, MutexKinds
  <1>3. CASE program = "barrier" /\ BarrierInv
    BY <1>0, <1>3 DEF BarrierInv
  <1>4. CASE program = "prod_cons" /\ ProdConsInv
    BY <1>0, <1>4 DEF ProdConsInv
  <1>5. CASE program = "tsq" /\ TsqInv
    BY <1>0, <1>5 DEF TsqInv
  <1>6. CASE program = "future" /\ FutureInv
    BY <1>0, <1>6 DEF FutureInv
  <1>7. CASE program \in CancelKinds /\ CancelInv
    BY <1>0, <1>7 DEF CancelInv, CancelKinds
  <1>8. CASE program = "cancel_cpp" /\ CancelCppInv
    <2>1. t \in Workers /\ t <= 1
      BY <1>0, <1>8 DEF CancelCppInv
    <2>2. t = 1
      BY <2>1 DEF Workers
    <2> QED
      BY <1>8, <2>2 DEF CancelCppInv
  <1>9. CASE program = "tss" /\ TssInv
    BY <1>0, <1>9 DEF TssInv
  <1>10. CASE program = "signals" /\ SignalInv
    BY <1>0, <1>10 DEF SignalInv
  <1>11. CASE program = "cancel_bare" /\ CancelBareInv
    BY <1>0, <1>11 DEF CancelBareInv
  <1> QED
    BY <1>1, <1>2, <1>3, <1>4, <1>5, <1>6, <1>7, <1>8, <1>9, <1>10, <1>11, ProgramCases

LEMMA InvCleanedUp == PthreadInv => CleanedUp
  <1> SUFFICES ASSUME PthreadInv, NEW w \in Workers, pc[w] = "joined"
               PROVE  /\ program \in CancelKinds => w \in mem.cleaned
                      /\ program = "tss" => (w \in mem.slot => w \in mem.deleted)
    BY DEF CleanedUp
  <1>1. ASSUME program \in CancelKinds
        PROVE  w \in mem.cleaned
    <2>1. CancelInv
      BY <1>1 DEF PthreadInv, ProgramInv
    <2>2. w <= 1
      BY <2>1 DEF CancelInv, Staff
    <2>3. w = 1
      BY <2>2, Constants DEF Workers
    <2> QED
      BY <2>1, <2>3 DEF CancelInv
  <1>2. ASSUME program = "tss", w \in mem.slot
        PROVE  w \in mem.deleted
    BY <1>2 DEF PthreadInv, ProgramInv, TssInv
  <1> QED
    BY <1>1, <1>2

LEMMA InvWellDefined == PthreadInv => WellDefined
  <1> SUFFICES ASSUME PthreadInv, process \in {"undefined", "killed"}
               PROVE  \/ program = "tsq"
                      \/ /\ program \in DOMAIN Unchecked
                         /\ \E w \in 1 .. Unchecked[program] : pc[w] = "none"
                      \/ program = "future" /\ \A w \in 1 .. 3 : pc[w] = "joined"
                      \/ program = "cancel_cpp" /\ pc[1] = "ended"
                      \/ program = "cancel_async" /\ pc[1] = "print" /\ mem.pending
                      \/ program = "cancel_bare"
    BY DEF WellDefined
  <1>1. CASE Undisturbed
    BY <1>1 DEF Undisturbed
  <1>2. CASE program = "prod_cons" /\ ProdConsInv
    <2>1. program \in DOMAIN Unchecked /\ Unchecked[program] = 2
      BY <1>2 DEF Unchecked
    <2>2. pc[1] = "none" \/ pc[2] = "none"
      BY <1>2 DEF ProdConsInv, Producer, Consumer
    <2> QED
      BY <2>1, <2>2
  <1>3. CASE program = "future" /\ FutureInv
    <2>1. program \in DOMAIN Unchecked /\ Unchecked[program] = 3
      BY <1>3 DEF Unchecked
    <2> QED
      BY <1>3, <2>1 DEF FutureInv
  <1>4. CASE program = "cancel_cpp" /\ CancelCppInv
    <2>1. program \in DOMAIN Unchecked /\ Unchecked[program] = 1
      BY <1>4 DEF Unchecked
    <2>2. pc[1] \in {"none", "ended"}
      BY <1>4 DEF CancelCppInv
    <2> QED
      BY <1>4, <2>1, <2>2
  <1> QED
    BY <1>1, <1>2, <1>3, <1>4, ProgramCases
       DEF CountInv, KindInv, BarrierInv, CancelInv, TssInv, SignalInv
-----------------------------------------------------------------------------
LEMMA InvAlways == Spec => []PthreadInv
  BY InitInv, NextInv, PTL DEF Spec

(* Type correctness of the pthread programs: each thread is at a point of  *)
(* its own code, the process runs or has ended in a known way, and the     *)
(* mutex is held by a thread or by nobody.                                 *)
THEOREM PthreadTypeCorrect == Spec => []PthreadTypeOK
  <1>1. PthreadInv => PthreadTypeOK
    BY DEF PthreadInv
  <1> QED
    BY <1>1, InvAlways, PTL

(* The counter of 05_mutex and 08_spin, the queue of 08_prod_cons and the  *)
(* results of x_pthreads_future are never touched by two threads at once   *)
(* when one of them writes, for any number of threads and rounds.          *)
THEOREM PthreadNoDataRace == Spec => []NoDataRace
  BY InvNoDataRace, InvAlways, PTL

(* The counter programs print threads times rounds, future::get returns    *)
(* what the task computed, the consumers take the items in order without   *)
(* gap or repetition, and nobody passes the barrier before all have come.  *)
THEOREM PthreadResultExact == Spec => []ResultExact
  BY InvResultExact, InvAlways, PTL

(* A thread that has ended or been cancelled holds no mutex, except the    *)
(* one of 13_cancel's cpp_version, which always does.                      *)
THEOREM PthreadMutexesAtEnd == Spec => []MutexesAtEnd
  BY InvMutexesAtEnd, InvAlways, PTL

(* The cleanup handler of 13_cancel has run when the cancelled thread is   *)
(* joined, and the destructor of 14_tss has deleted each string whose      *)
(* thread is joined, as main deletes the key only afterwards.              *)
THEOREM PthreadCleanedUp == Spec => []CleanedUp
  BY InvCleanedUp, InvAlways, PTL

(* The programs do nothing undefined and are not killed by a signal, but   *)
(* for the unchecked pthread_create calls, the second join of              *)
(* future::~future, tf's missing return, the unlocked queue of ex_TSQ and, *)
(* in 13_cancel, the asynchronous cancellation inside printf and the       *)
(* argument that main takes for given.                                     *)
THEOREM PthreadWellDefined == Spec => []WellDefined
  BY InvWellDefined, InvAlways, PTL
=============================================================================
