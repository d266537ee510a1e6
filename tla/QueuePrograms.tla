--------------------------- MODULE QueuePrograms ---------------------------
(***************************************************************************)
(* Programs that hand numbers from one thread to another through a         *)
(* std::queue<int>: day1/08_prod_cons, with a mutex and a condition        *)
(* variable, and the exercise day1/ex_TSQ, whose thread_safe_queue has no  *)
(* lock yet.                                                               *)
(***************************************************************************)
EXTENDS Pthreads

CONSTANTS MaxItems,       (* the producers push 0 .. MaxItems - 1: a bound *)
                          (* for the endless loop of 08_prod_cons,         *)
                          (* NUM_ITERATIONS in ex_TSQ                      *)
          NumConsumers    (* NUM_CONSUMERS of ex_TSQ                       *)

ASSUME QueueAssumption == MaxItems \in Nat /\ NumConsumers \in Nat \ {0}

Producer == 1
Consumer == 2

Quit == MaxItems          (* what ex_TSQ pushes as -1                      *)

QueueMem == [q |-> <<>>, taken |-> <<>>]
-----------------------------------------------------------------------------
(* Mistakes that would be easy to make; nothing below uses them.           *)

(* if (q.size() == 0) pthread_cond_wait(...): no second look.              *)
LockAndTake ==
  /\ Lock(Consumer, "lock", "look") \/ Lock(Consumer, "relock", "take")
  /\ UNCHANGED <<program, process, count, mem>>

(* The producer wakes nobody.                                              *)
PushOnly ==
  /\ Move(Producer, "signal", "lock")
  /\ UNCHANGED <<program, process, count, mutexvars, mem>>
-----------------------------------------------------------------------------
(* q.front() and q.pop(), which are undefined on an empty queue.           *)
TakeFront ==
  IF mem.q = <<>>
  THEN process' = "undefined" /\ UNCHANGED mem
  ELSE /\ mem' = [mem EXCEPT !.q = Tail(@), !.taken = Append(@, Head(mem.q))]
       /\ UNCHANGED process

(* th_producent: lock, q.push(i++), unlock, and signal without the mutex.  *)
ProducerLocks ==
  /\ Lock(Producer, "lock", "push")
  /\ count[Producer] < MaxItems
  /\ UNCHANGED <<program, process, count, mem>>

ProducerPushes ==
  /\ Move(Producer, "push", "unlock")
  /\ mem' = [mem EXCEPT !.q = Append(@, count[Producer])]
  /\ count' = [count EXCEPT ![Producer] = @ + 1]
  /\ UNCHANGED <<program, process, mutexvars>>

ProducerUnlocks ==
  /\ Unlock(Producer, "unlock", "signal")
  /\ UNCHANGED <<program, process, count, mem>>

ProducerSignals ==
  /\ At(Producer, "signal")
  /\ pc' = [pc EXCEPT ![Producer] = "lock",
                      ![Consumer] = IF @ = "waiting" THEN "relock" ELSE @]
  /\ UNCHANGED <<program, process, count, mutexvars, mem>>

(* th_consumer: lock; while the queue is empty, wait; take; unlock.        *)
ConsumerLocks ==
  /\ Lock(Consumer, "lock", "look") \/ Lock(Consumer, "relock", "look")
  /\ UNCHANGED <<program, process, count, mem>>

ConsumerLooks ==
  /\ At(Consumer, "look")
  /\ \/ mem.q # <<>> /\ Goto(Consumer, "take") /\ UNCHANGED mutexvars
     \/ mem.q = <<>> /\ Goto(Consumer, "waiting") /\ owner' = None /\ depth' = 0
  /\ UNCHANGED <<program, process, count, mem>>

ConsumerTakes ==
  /\ Move(Consumer, "take", "unlock")
  /\ TakeFront
  /\ UNCHANGED <<program, count, mutexvars>>

ConsumerUnlocks ==
  /\ Unlock(Consumer, "unlock", "lock")
  /\ UNCHANGED <<program, process, count, mem>>

(* pthread_cond_wait may return although nobody has signalled.             *)
SpuriousWakeup ==
  /\ program = "prod_cons"
  /\ Move(Consumer, "waiting", "relock")
  /\ UNCHANGED <<program, process, count, mutexvars, mem>>

ProducerThread ==
  /\ program = "prod_cons"
  /\ ProducerLocks \/ ProducerPushes \/ ProducerUnlocks \/ ProducerSignals

ConsumerThread ==
  /\ program = "prod_cons"
  /\ ConsumerLocks \/ ConsumerLooks \/ ConsumerTakes \/ ConsumerUnlocks

(* main checks no result and joins two threads that never end.             *)
ProdConsMain ==
  /\ program = "prod_cons"
  /\ \/ /\ Move(Main, "init", "create")
        /\ UNCHANGED <<program, process, count, mutexvars, mem>>
     \/ Create(<<"lock", "lock">>, FALSE, "join")
     \/ JoinAll(2, "return")
-----------------------------------------------------------------------------
(* ex_TSQ: push and pop of an unlocked std::queue.  An operation has a     *)
(* beginning and an end; to begin one while the other thread is inside is  *)
(* a data race.                                                            *)
Begin(t, p, inside, others) ==
  /\ Move(t, p, inside)
  /\ process' = IF pc[others] \in {"pushing", "popping"} THEN "undefined" ELSE process
  /\ UNCHANGED <<program, count, mutexvars, mem>>

(* producer: the items, and then one -1 for each consumer.                 *)
PushItem ==
  /\ Move(Producer, "pushing", "produce")
  /\ mem' = [mem EXCEPT !.q = Append(@, IF count[Producer] < MaxItems
                                        THEN count[Producer] ELSE Quit)]
  /\ count' = [count EXCEPT ![Producer] = @ + 1]
  /\ UNCHANGED <<program, process, mutexvars>>

TsqProducer ==
  /\ program = "tsq"
  /\ \/ /\ count[Producer] < MaxItems + NumConsumers
        /\ Begin(Producer, "produce", "pushing", Main)
     \/ PushItem
     \/ /\ count[Producer] = MaxItems + NumConsumers
        /\ Move(Producer, "produce", "ended")
        /\ UNCHANGED <<program, process, count, mutexvars, mem>>

(* consumer pops until it gets -1; main calls it NUM_CONSUMERS times.      *)
PopItem ==
  /\ At(Main, "popping")
  /\ TakeFront
  /\ LET quits == count[Main] + 1
         quit == mem.q # <<>> /\ Head(mem.q) = Quit
     IN /\ count' = IF quit THEN [count EXCEPT ![Main] = quits] ELSE count
        /\ Goto(Main, IF quit /\ quits = NumConsumers THEN "return" ELSE "consume")
  /\ UNCHANGED <<program, mutexvars>>

(* main pushes 10 and pops it again, starts the producer, whose launch is  *)
(* not checked, consumes, and returns without joining.                     *)
TsqMain ==
  /\ program = "tsq"
  /\ \/ /\ Move(Main, "init", "create")
        /\ UNCHANGED <<program, process, count, mutexvars, mem>>
     \/ Create(<<"produce">>, FALSE, "consume")
     \/ Begin(Main, "consume", "popping", Producer)
     \/ PopItem
     \/ Return
=============================================================================
