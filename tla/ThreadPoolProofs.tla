-------------------------- MODULE ThreadPoolProofs --------------------------
(***************************************************************************)
(* Proofs about ThreadSafeQueue and about ThreadPool.                      *)
(*                                                                         *)
(* The queue comes first: its invariants, and that it implements           *)
(* LinearizableQueue.  Nothing there cites the pool's assumption: it is    *)
(* proved for every set of threads and of items.  The pool drives the      *)
(* queue only through Call, Step and SpuriousWakeup, so what is proved of  *)
(* the queue holds in the pool, for every pool size and set of tasks.      *)
(***************************************************************************)
EXTENDS ThreadPool, FiniteSetTheorems, TLAPS

(* Which member function a thread can be in at each point, and that a push *)
(* carries an item.                                                        *)
OpAtPoint ==
  \A t \in Threads :
    /\ pc[t] \in {"wait", "waiting", "relock"} => op[t] = "pop"
    /\ pc[t] \in {"put", "signal"} => op[t] = "push"
    /\ pc[t] \in {"nested", "take"} => op[t] \in {"pop", "try_pop"}
    /\ pc[t] = "read" => op[t] # "push"
    /\ pc[t] \in {"lock", "put"} /\ op[t] = "push" => item[t] \in Items

(* What a thread knows of q from is_empty() stays true while it holds mtx. *)
EmptyAccurate ==
  \A t \in Threads :
    /\ pc[t] = "take" => q # <<>> /\ ~empty[t]
    /\ pc[t] = "wait" => q = <<>>
    /\ pc[t] = "unlock" /\ depth = 2 => (empty[t] <=> q = <<>>)

QInv == TypeOK /\ GuardDiscipline /\ OpAtPoint /\ EmptyAccurate

LEMMA QInitInv == QInit => QInv
  BY NoneAssumption DEF QInit, QInv, TypeOK, GuardDiscipline, OpAtPoint, EmptyAccurate,
     Points, Operations

LEMMA QStepInv ==
  ASSUME QInv, NEW t \in Threads, Step(t)
  PROVE QInv'
  <1> USE NoneAssumption DEF QInv, TypeOK, GuardDiscipline, OpAtPoint, EmptyAccurate,
       Points, Operations, Goto
  <1>1. CASE LockGuard(t)
    BY <1>1 DEF LockGuard, Acquire, FirstPoint
  <1>2. CASE NestedGuard(t)
    BY <1>2 DEF NestedGuard, Acquire
  <1>3. CASE ReadEmpty(t)
    <2>1. /\ empty' \in [Threads -> BOOLEAN]
          /\ empty'[t] <=> q = <<>>
          /\ \A u \in Threads \ {t} : empty'[u] <=> empty[u]
      BY <1>3, ZenonT(30) DEF ReadEmpty
    <2>2. \A u \in Threads : pc'[u] = (IF u = t THEN "unlock" ELSE pc[u])
      BY <1>3 DEF ReadEmpty
    <2>3. pc[t] = "read" /\ UNCHANGED <<q, owner, depth, op, item>> /\ pc' \in [Threads -> Points]
      BY <1>3 DEF ReadEmpty
    <2>4. TypeOK' /\ GuardDiscipline' /\ OpAtPoint'
      BY <2>1, <2>2, <2>3
    <2>5. EmptyAccurate'
      BY <2>1, <2>2, <2>3
    <2> QED
      BY <2>4, <2>5
  <1>4. CASE Unlock(t)
    BY <1>4 DEF Unlock, Release
  <1>4a. CASE NestedUnlock(t)
    BY <1>4a DEF NestedUnlock, Release
  <1>5. CASE Take(t)
    BY <1>5 DEF Take
  <1>6. CASE Put(t)
    BY <1>6 DEF Put
  <1>7. CASE CondWait(t)
    BY <1>7 DEF CondWait, Release
  <1>8. CASE Signal(t)
    BY <1>8 DEF Signal, Waiting
  <1>9. CASE Relock(t)
    BY <1>9 DEF Relock, Acquire
  <1> QED
    BY <1>1, <1>2, <1>3, <1>4, <1>4a, <1>5, <1>6, <1>7, <1>8, <1>9 DEF Step
LEMMA QNextInv == QInv /\ [QNext]_qvars => QInv'
  <1> SUFFICES ASSUME QInv, [QNext]_qvars PROVE QInv'
    OBVIOUS
  <1>1. ASSUME NEW t \in Threads, Step(t) PROVE QInv'
    BY <1>1, QStepInv
  <1>2. ASSUME NEW t \in Threads, NEW v \in Items, Call(t, "push", v) PROVE QInv'
    BY <1>2, NoneAssumption DEF Call, Goto, QInv, TypeOK, GuardDiscipline, OpAtPoint,
       EmptyAccurate, Points, Operations
  <1>3. ASSUME NEW t \in Threads, NEW o \in Operations \ {"push"}, Call(t, o, None)
        PROVE QInv'
    BY <1>3, NoneAssumption DEF Call, Goto, QInv, TypeOK, GuardDiscipline, OpAtPoint,
       EmptyAccurate, Points, Operations
  <1>4. ASSUME NEW t \in Threads, SpuriousWakeup(t) PROVE QInv'
    BY <1>4 DEF SpuriousWakeup, Goto, QInv, TypeOK, GuardDiscipline, OpAtPoint,
       EmptyAccurate, Points, Operations
  <1>5. CASE UNCHANGED qvars
    BY <1>5 DEF qvars, QInv, TypeOK, GuardDiscipline, OpAtPoint, EmptyAccurate
  <1> QED
    BY <1>1, <1>2, <1>3, <1>4, <1>5 DEF QNext

THEOREM QInvariance == QSpec => []QInv
  BY QInitInv, QNextInv, PTL DEF QSpec

(* Every variable of the queue keeps its type, and the recursive mutex is  *)
(* never locked more than twice: the nesting of lock_guard in pop and      *)
(* try_pop is the deepest there is.                                        *)
THEOREM QTypeCorrect == QSpec => []TypeOK
  <1>1. QInv => TypeOK
    BY DEF QInv
  <1> QED
    BY <1>1, QInvariance, PTL

(* q is touched under mtx only, and pthread_cond_wait is called with mtx   *)
(* locked exactly once, so that waiting always lets the other threads in.  *)
THEOREM QGuardDiscipline == QSpec => []GuardDiscipline
  <1>1. QInv => GuardDiscipline
    BY DEF QInv
  <1> QED
    BY <1>1, QInvariance, PTL

(* No front() or pop() on an empty std::queue in pop or try_pop.           *)
THEOREM QNonEmptyAtTake == QSpec => []NonEmptyAtTake
  <1>1. QInv => NonEmptyAtTake
    BY DEF QInv, EmptyAccurate, NonEmptyAtTake
  <1> QED
    BY <1>1, QInvariance, PTL
-----------------------------------------------------------------------------
LEMMA HelpersFinite ==
  /\ IsFiniteSet(Helpers) /\ Cardinality(Helpers) \in Nat
  /\ IsFiniteSet(Helpers') /\ Cardinality(Helpers') \in Nat
  BY ThreadsAssumption, FS_Subset, FS_CardinalityType DEF Helpers

(* A step that loses no helper, adds no item and blocks no thread is safe. *)
LEMMA WakeupKept ==
  ASSUME QInv, NoLostWakeup, QInv',
         Helpers \subseteq Helpers', Waiting' \subseteq Waiting,
         q' = q
  PROVE NoLostWakeup'
  <1>1. Cardinality(Helpers) <= Cardinality(Helpers')
    BY HelpersFinite, FS_Subset
  <1>2. Len(q) \in Nat
    BY DEF QInv, TypeOK
  <1> QED
    BY <1>1, <1>2, HelpersFinite DEF NoLostWakeup

LEMMA QStepWakeup ==
  ASSUME QInv, NoLostWakeup, QInv', NEW t \in Threads, Step(t)
  PROVE NoLostWakeup'
  <1> USE DEF QInv, TypeOK, GuardDiscipline, OpAtPoint, EmptyAccurate, Goto
  <1>1. CASE LockGuard(t)
    <2>1. Helpers \subseteq Helpers' /\ Waiting' \subseteq Waiting /\ q' = q
      BY <1>1 DEF LockGuard, FirstPoint, Acquire, Helpers, Waiting, Operations
    <2> QED
      BY <2>1, WakeupKept
  <1>2. CASE NestedGuard(t)
    <2>1. Helpers \subseteq Helpers' /\ Waiting' \subseteq Waiting /\ q' = q
      BY <1>2 DEF NestedGuard, Acquire, Helpers, Waiting
    <2> QED
      BY <2>1, WakeupKept
  <1>3. CASE ReadEmpty(t)
    <2>1. CASE q = <<>>
      <3>1. q' = <<>>
        BY <1>3, <2>1 DEF ReadEmpty
      <3> QED
        BY <3>1, HelpersFinite DEF NoLostWakeup
    <2>2. CASE q # <<>>
      <3>1. ~empty'[t] /\ \A u \in Threads \ {t} : empty'[u] <=> empty[u]
        BY <1>3, <2>2, ZenonT(30) DEF ReadEmpty
      <3>2. Helpers \subseteq Helpers' /\ Waiting' \subseteq Waiting /\ q' = q
        BY <1>3, <3>1 DEF ReadEmpty, Helpers, Waiting
      <3> QED
        BY <3>2, WakeupKept
    <2> QED
      BY <2>1, <2>2
  <1>4. CASE NestedUnlock(t)
    <2>1. Helpers \subseteq Helpers' /\ Waiting' \subseteq Waiting /\ q' = q
      BY <1>4 DEF NestedUnlock, Release, Helpers, Waiting
    <2> QED
      BY <2>1, WakeupKept
  <1>5. CASE Unlock(t)
    <2>1. Helpers \subseteq Helpers' /\ Waiting' \subseteq Waiting /\ q' = q
      BY <1>5 DEF Unlock, Release, Helpers, Waiting
    <2> QED
      BY <2>1, WakeupKept
  <1>6. CASE Take(t)
    <2>1. Waiting' = Waiting /\ Len(q') = Len(q) - 1 /\ Len(q) \in Nat
      BY <1>6 DEF Take, Waiting
    <2>2. Helpers \ {t} \subseteq Helpers'
      BY <1>6 DEF Take, Helpers
    <2>3. IsFiniteSet(Helpers \ {t}) /\ Cardinality(Helpers \ {t}) \in Nat
      BY HelpersFinite, FS_Subset, FS_CardinalityType
    <2>4. Cardinality(Helpers) <= Cardinality(Helpers \ {t}) + 1
      <3>1. CASE t \in Helpers
        <4>1. Cardinality(Helpers \ {t}) = Cardinality(Helpers) - 1
          BY <3>1, HelpersFinite, FS_RemoveElement
        <4> QED
          BY <2>3, <4>1, HelpersFinite
      <3>2. CASE t \notin Helpers
        <4>1. Cardinality(Helpers \ {t}) = Cardinality(Helpers)
          BY <3>2, HelpersFinite, FS_RemoveElement
        <4> QED
          BY <4>1, HelpersFinite
      <3> QED
        BY <3>1, <3>2
    <2>5. Cardinality(Helpers \ {t}) <= Cardinality(Helpers')
      BY <2>2, HelpersFinite, FS_Subset
    <2> QED
      BY <2>1, <2>3, <2>4, <2>5, HelpersFinite DEF NoLostWakeup
  <1>7. CASE Put(t)
    <2>1. Waiting' = Waiting /\ Len(q') = Len(q) + 1 /\ Len(q) \in Nat
      BY <1>7 DEF Put, Waiting
    <2>2. t \notin Helpers /\ Helpers \cup {t} \subseteq Helpers'
      BY <1>7 DEF Put, Helpers
    <2>3. /\ IsFiniteSet(Helpers \cup {t})
          /\ Cardinality(Helpers \cup {t}) = Cardinality(Helpers) + 1
      BY <2>2, HelpersFinite, FS_AddElement
    <2>4. Cardinality(Helpers \cup {t}) <= Cardinality(Helpers')
      BY <2>2, HelpersFinite, FS_Subset
    <2> QED
      BY <2>1, <2>3, <2>4, HelpersFinite DEF NoLostWakeup
  <1>8. CASE CondWait(t)
    <2>1. q' = <<>>
      BY <1>8 DEF CondWait
    <2> QED
      BY <2>1, HelpersFinite DEF NoLostWakeup
  <1>9. CASE Signal(t)
    <2>1. CASE Waiting = {} /\ Goto(t, "idle")
      <3>1. Waiting' = {}
        BY <1>9, <2>1 DEF Waiting
      <3> QED
        BY <3>1 DEF NoLostWakeup
    <2>2. ASSUME NEW w \in Waiting, pc' = [pc EXCEPT ![t] = "idle", ![w] = "relock"]
          PROVE NoLostWakeup'
      <3>1. w # t /\ w \in Threads /\ w \notin Helpers /\ t \in Helpers
        BY <1>9, <2>2 DEF Signal, Waiting, Helpers
      <3>2. (Helpers \ {t}) \cup {w} \subseteq Helpers'
        BY <1>9, <2>2, <3>1 DEF Signal, Waiting, Helpers
      <3>3. /\ IsFiniteSet(Helpers \ {t})
            /\ Cardinality(Helpers \ {t}) = Cardinality(Helpers) - 1
        BY <3>1, HelpersFinite, FS_RemoveElement
      <3>4. /\ IsFiniteSet((Helpers \ {t}) \cup {w})
            /\ Cardinality((Helpers \ {t}) \cup {w}) = Cardinality(Helpers \ {t}) + 1
        BY <3>1, <3>3, FS_AddElement
      <3>5. Cardinality((Helpers \ {t}) \cup {w}) <= Cardinality(Helpers')
        BY <3>2, HelpersFinite, FS_Subset
      <3>6. q' = q /\ Len(q) \in Nat /\ Waiting # {}
        BY <1>9, <2>2 DEF Signal
      <3> QED
        BY <3>3, <3>4, <3>5, <3>6, HelpersFinite DEF NoLostWakeup
    <2> QED
      BY <1>9, <2>1, <2>2 DEF Signal
  <1>10. CASE Relock(t)
    <2>1. Helpers \subseteq Helpers' /\ Waiting' \subseteq Waiting /\ q' = q
      BY <1>10 DEF Relock, Acquire, Helpers, Waiting
    <2> QED
      BY <2>1, WakeupKept
  <1> QED
    BY <1>1, <1>2, <1>3, <1>4, <1>5, <1>6, <1>7, <1>8, <1>9, <1>10 DEF Step

LEMMA QNextWakeup ==
  ASSUME QInv, NoLostWakeup, QInv', [QNext]_qvars
  PROVE NoLostWakeup'
  <1>1. ASSUME NEW t \in Threads, Step(t) PROVE NoLostWakeup'
    BY <1>1, QStepWakeup
  <1>2. ASSUME NEW t \in Threads, NEW o \in Operations, NEW v, Call(t, o, v)
        PROVE NoLostWakeup'
    <2>1. Helpers \subseteq Helpers' /\ Waiting' \subseteq Waiting /\ q' = q
      BY <1>2 DEF Call, Goto, Helpers, Waiting, QInv, TypeOK
    <2> QED
      BY <2>1, WakeupKept
  <1>3. ASSUME NEW t \in Threads, SpuriousWakeup(t) PROVE NoLostWakeup'
    <2>1. Helpers \subseteq Helpers' /\ Waiting' \subseteq Waiting /\ q' = q
      BY <1>3 DEF SpuriousWakeup, Goto, Helpers, Waiting, QInv, TypeOK
    <2> QED
      BY <2>1, WakeupKept
  <1>4. CASE UNCHANGED qvars
    <2>1. Helpers \subseteq Helpers' /\ Waiting' \subseteq Waiting /\ q' = q
      BY <1>4 DEF qvars, Helpers, Waiting
    <2> QED
      BY <2>1, WakeupKept
  <1> QED
    BY <1>1, <1>2, <1>3, <1>4 DEF QNext, Operations

(* push may signal after it has let go of mtx: while a pop is blocked,     *)
(* every item in q has a thread that will take it or wake the popper.      *)
THEOREM QNoLostWakeup == QSpec => []NoLostWakeup
  <1>1. QInit => NoLostWakeup
    BY DEF QInit, NoLostWakeup, Waiting
  <1> QED
    BY <1>1, QInvariance, QNextWakeup, PTL DEF QSpec
-----------------------------------------------------------------------------
(* The operation of thread t takes effect at Put(t), at Take(t), or at the *)
(* ReadEmpty(t) after which is_empty or an unsuccessful try_pop has its    *)
(* answer.                                                                 *)

(* What the abstract queue sees of thread u stays as it is.                *)
SameView(u) ==
  /\ PhaseOf(u)' = PhaseOf(u)
  /\ ArgOf(u)' = ArgOf(u)
  /\ OutOf(u)' = OutOf(u)
  /\ FlagOf(u)' = FlagOf(u)

LEMMA AbstractStutter ==
  ASSUME \A u \in Threads : SameView(u), UNCHANGED <<q, op>>
  PROVE  UNCHANGED Abstract!vars
  <1>1. [u \in Threads |-> PhaseOf(u)]' = [u \in Threads |-> PhaseOf(u)]
    BY DEF SameView
  <1>2. [u \in Threads |-> ArgOf(u)]' = [u \in Threads |-> ArgOf(u)]
    BY DEF SameView
  <1>3. [u \in Threads |-> OutOf(u)]' = [u \in Threads |-> OutOf(u)]
    BY DEF SameView
  <1>4. [u \in Threads |-> FlagOf(u)]' = [u \in Threads |-> FlagOf(u)]
    BY DEF SameView
  <1> QED
    BY <1>1, <1>2, <1>3, <1>4 DEF Abstract!vars

(* If only t's view changes, the mapped functions change at t only.        *)
LEMMA AbstractStep ==
  ASSUME NEW t \in Threads, \A u \in Threads \ {t} : SameView(u)
  PROVE  /\ [u \in Threads |-> PhaseOf(u)]' =
              [[u \in Threads |-> PhaseOf(u)] EXCEPT ![t] = PhaseOf(t)']
         /\ [u \in Threads |-> ArgOf(u)]' =
              [[u \in Threads |-> ArgOf(u)] EXCEPT ![t] = ArgOf(t)']
         /\ [u \in Threads |-> OutOf(u)]' =
              [[u \in Threads |-> OutOf(u)] EXCEPT ![t] = OutOf(t)']
         /\ [u \in Threads |-> FlagOf(u)]' =
              [[u \in Threads |-> FlagOf(u)] EXCEPT ![t] = FlagOf(t)']
  <1>1. [u \in Threads |-> PhaseOf(u)]' =
          [[u \in Threads |-> PhaseOf(u)] EXCEPT ![t] = PhaseOf(t)']
    BY DEF SameView
  <1>2. [u \in Threads |-> ArgOf(u)]' =
          [[u \in Threads |-> ArgOf(u)] EXCEPT ![t] = ArgOf(t)']
    BY DEF SameView
  <1>3. [u \in Threads |-> OutOf(u)]' =
          [[u \in Threads |-> OutOf(u)] EXCEPT ![t] = OutOf(t)']
    BY DEF SameView
  <1>4. [u \in Threads |-> FlagOf(u)]' =
          [[u \in Threads |-> FlagOf(u)] EXCEPT ![t] = FlagOf(t)']
    BY DEF SameView
  <1> QED
    BY <1>1, <1>2, <1>3, <1>4

(* A step of t changes nothing the abstract queue sees of the others.      *)
LEMMA OthersKeepView ==
  ASSUME QInv, NEW t \in Threads,
         \/ Step(t)
         \/ SpuriousWakeup(t)
         \/ \E o \in Operations, v \in Items \cup {None} : Call(t, o, v),
         NEW u \in Threads \ {t}
  PROVE  SameView(u)
  <1>1. /\ op'[u] = op[u] /\ item'[u] = item[u] /\ (empty'[u] <=> empty[u])
        /\ pc'[u] = pc[u] \/ (pc[u] = "waiting" /\ pc'[u] = "relock")
        /\ pc[u] = "unlock" => depth' = depth
    <2> USE NoneAssumption
        DEF QInv, TypeOK, GuardDiscipline, Goto, Acquire, Release
    <2>1. CASE LockGuard(t)
      BY <2>1 DEF LockGuard
    <2>2. CASE NestedGuard(t)
      BY <2>2 DEF NestedGuard
    <2>3. CASE ReadEmpty(t)
      <3>1. empty'[u] <=> empty[u]
        BY <2>3, ZenonT(30) DEF ReadEmpty
      <3> QED
        BY <2>3, <3>1 DEF ReadEmpty
    <2>4. CASE NestedUnlock(t)
      BY <2>4 DEF NestedUnlock
    <2>5. CASE Unlock(t)
      BY <2>5 DEF Unlock
    <2>6. CASE Take(t)
      BY <2>6 DEF Take
    <2>7. CASE Put(t)
      BY <2>7 DEF Put
    <2>8. CASE CondWait(t)
      BY <2>8 DEF CondWait
    <2>9. CASE Signal(t)
      BY <2>9 DEF Signal, Waiting
    <2>10. CASE Relock(t)
      BY <2>10 DEF Relock
    <2>11. CASE SpuriousWakeup(t)
      BY <2>11 DEF SpuriousWakeup
    <2>12. CASE \E o \in Operations, v \in Items \cup {None} : Call(t, o, v)
      BY <2>12 DEF Call
    <2> QED
      BY <2>1, <2>2, <2>3, <2>4, <2>5, <2>6, <2>7, <2>8, <2>9, <2>10, <2>11, <2>12
      DEF Step
  <1>2. Effective(u)' <=> Effective(u)
    BY <1>1 DEF Effective
  <1>3. PhaseOf(u)' = PhaseOf(u)
    BY <1>1, <1>2 DEF PhaseOf
  <1>4. TookItem(u)' <=> TookItem(u)
    BY <1>1 DEF TookItem
  <1> QED
    BY <1>1, <1>3, <1>4 DEF SameView, ArgOf, OutOf, FlagOf
-----------------------------------------------------------------------------
(* The steps at which t's operation is called, takes effect and returns.   *)
LEMMA CallSimulates ==
  ASSUME QInv, NEW t \in Threads, NEW o \in Operations, NEW v \in Items \cup {None},
         Call(t, o, v)
  PROVE  Abstract!Invoke(t, o, v)
  <1>1. /\ PhaseOf(t) = "idle" /\ PhaseOf(t)' = "pending"
        /\ ArgOf(t)' = v
        /\ OutOf(t) = None /\ OutOf(t)' = None
        /\ FlagOf(t) = FALSE /\ FlagOf(t)' = FALSE
        /\ op' = [op EXCEPT ![t] = o] /\ q' = q
    BY DEF Call, Goto, QInv, TypeOK, PhaseOf, Effective, ArgOf, OutOf, FlagOf
  <1>2. \A u \in Threads \ {t} : SameView(u)
    BY OthersKeepView
  <1>3. /\ [u \in Threads |-> OutOf(u)]' = [u \in Threads |-> OutOf(u)]
        /\ [u \in Threads |-> FlagOf(u)]' = [u \in Threads |-> FlagOf(u)]
    BY <1>1, <1>2 DEF SameView
  <1> QED
    BY <1>1, <1>2, <1>3, AbstractStep DEF Abstract!Invoke

LEMMA EffectSimulates ==
  ASSUME QInv, NEW t \in Threads,
         \A u \in Threads \ {t} : SameView(u),
         PhaseOf(t) = "pending", PhaseOf(t)' = "done", ArgOf(t)' = None, op' = op,
         \/ /\ op[t] = "push" /\ q' = Append(q, ArgOf(t))
            /\ OutOf(t)' = OutOf(t) /\ FlagOf(t)' = FlagOf(t)
         \/ /\ op[t] \in {"pop", "try_pop"} /\ q # <<>> /\ q' = Tail(q)
            /\ OutOf(t)' = Head(q) /\ FlagOf(t)' = (op[t] = "try_pop")
         \/ /\ op[t] = "try_pop" /\ q = <<>> /\ q' = q
            /\ OutOf(t)' = OutOf(t) /\ FlagOf(t)' = FlagOf(t)
         \/ /\ op[t] = "is_empty" /\ q' = q
            /\ OutOf(t)' = OutOf(t) /\ FlagOf(t)' = (q = <<>>)
  PROVE  Abstract!Effect(t)
  <1>1. OutOf(t)' = OutOf(t)
          => [u \in Threads |-> OutOf(u)]' = [u \in Threads |-> OutOf(u)]
    BY DEF SameView
  <1>2. FlagOf(t)' = FlagOf(t)
          => [u \in Threads |-> FlagOf(u)]' = [u \in Threads |-> FlagOf(u)]
    BY DEF SameView
  <1>3. [u \in Threads |-> ArgOf(u)][t] = ArgOf(t)
    OBVIOUS
  <1> QED
    BY <1>1, <1>2, <1>3, AbstractStep DEF Abstract!Effect

LEMMA ReturnSimulates ==
  ASSUME QInv, NEW t \in Threads,
         \A u \in Threads \ {t} : SameView(u),
         PhaseOf(t) = "done", PhaseOf(t)' = "idle", UNCHANGED <<q, op>>
  PROVE  Abstract!Return(t)
  <1>1. /\ ArgOf(t) = None /\ ArgOf(t)' = None
        /\ OutOf(t)' = None /\ FlagOf(t)' = FALSE
    BY DEF ArgOf, OutOf, FlagOf
  <1>2. [u \in Threads |-> ArgOf(u)]' = [u \in Threads |-> ArgOf(u)]
    BY <1>1 DEF SameView
  <1> QED
    BY <1>1, <1>2, AbstractStep DEF Abstract!Return
-----------------------------------------------------------------------------
LEMMA StepSimulates ==
  ASSUME QInv, NEW t \in Threads, Step(t)
  PROVE  [Abstract!Next]_(Abstract!vars)
  <1> USE DEF QInv, TypeOK, GuardDiscipline, OpAtPoint, EmptyAccurate, Goto, Acquire,
          Release, Operations, Points
  <1>0. \A u \in Threads \ {t} : SameView(u)
    BY OthersKeepView
  <1>1. CASE LockGuard(t)
    <2>1. SameView(t) /\ UNCHANGED <<q, op>>
      BY <1>1 DEF LockGuard, FirstPoint, SameView, PhaseOf, Effective, ArgOf, OutOf, FlagOf, TookItem
    <2> QED
      BY <2>1, <1>0, AbstractStutter
  <1>2. CASE NestedGuard(t)
    <2>1. SameView(t) /\ UNCHANGED <<q, op>>
      BY <1>2 DEF NestedGuard, SameView, PhaseOf, Effective, ArgOf, OutOf, FlagOf, TookItem
    <2> QED
      BY <2>1, <1>0, AbstractStutter
  <1>3. CASE ReadEmpty(t)
    <2>1. /\ empty'[t] <=> q = <<>>
          /\ pc[t] = "read" /\ pc'[t] = "unlock" /\ UNCHANGED <<q, depth, op, item>>
      <3>1. empty'[t] <=> q = <<>>
        BY <1>3, ZenonT(30) DEF ReadEmpty
      <3> QED
        BY <1>3, <3>1 DEF ReadEmpty
    <2>2. CASE op[t] = "pop" \/ (op[t] = "try_pop" /\ q # <<>>)
      <3>1. SameView(t)
        BY <2>1, <2>2 DEF SameView, PhaseOf, Effective, ArgOf, OutOf, FlagOf, TookItem
      <3> QED
        BY <1>0, <2>1, <3>1, AbstractStutter
    <2>3. CASE op[t] = "try_pop" /\ q = <<>>
      <3>1. /\ PhaseOf(t) = "pending" /\ PhaseOf(t)' = "done" /\ ArgOf(t)' = None
            /\ OutOf(t)' = OutOf(t) /\ FlagOf(t)' = FlagOf(t)
        BY <2>1, <2>3 DEF PhaseOf, Effective, ArgOf, OutOf, FlagOf, TookItem
      <3>2. Abstract!Effect(t)
        BY <1>0, <2>1, <2>3, <3>1, EffectSimulates
      <3> QED
        BY <3>2 DEF Abstract!Next
    <2>4. CASE op[t] = "is_empty"
      <3>1. /\ PhaseOf(t) = "pending" /\ PhaseOf(t)' = "done" /\ ArgOf(t)' = None
            /\ OutOf(t)' = OutOf(t) /\ FlagOf(t)' = (q = <<>>)
        BY <2>1, <2>4 DEF PhaseOf, Effective, ArgOf, OutOf, FlagOf, TookItem
      <3>2. Abstract!Effect(t)
        BY <1>0, <2>1, <2>4, <3>1, EffectSimulates
      <3> QED
        BY <3>2 DEF Abstract!Next
    <2> QED
      BY <2>1, <2>2, <2>3, <2>4
  <1>4. CASE NestedUnlock(t)
    <2>1. SameView(t) /\ UNCHANGED <<q, op>>
      BY <1>4 DEF NestedUnlock, SameView, PhaseOf, Effective, ArgOf, OutOf, FlagOf, TookItem
    <2> QED
      BY <2>1, <1>0, AbstractStutter
  <1>5. CASE Unlock(t)
    <2>1. CASE op[t] = "push"
      <3>1. SameView(t) /\ UNCHANGED <<q, op>>
        BY <1>5, <2>1 DEF Unlock, SameView, PhaseOf, Effective, ArgOf, OutOf, FlagOf, TookItem
      <3> QED
        BY <1>0, <3>1, AbstractStutter
    <2>2. CASE op[t] # "push"
      <3>1. PhaseOf(t) = "done" /\ PhaseOf(t)' = "idle" /\ UNCHANGED <<q, op>>
        BY <1>5, <2>2 DEF Unlock, PhaseOf, Effective
      <3>2. Abstract!Return(t)
        BY <1>0, <3>1, ReturnSimulates
      <3> QED
        BY <3>2 DEF Abstract!Next
    <2> QED
      BY <2>1, <2>2
  <1>6. CASE Take(t)
    <2>1. /\ PhaseOf(t) = "pending" /\ PhaseOf(t)' = "done" /\ ArgOf(t)' = None
          /\ OutOf(t)' = Head(q) /\ FlagOf(t)' = (op[t] = "try_pop")
          /\ op[t] \in {"pop", "try_pop"} /\ q # <<>> /\ q' = Tail(q) /\ op' = op
      BY <1>6 DEF Take, PhaseOf, Effective, ArgOf, OutOf, FlagOf, TookItem
    <2>2. Abstract!Effect(t)
      BY <1>0, <2>1, EffectSimulates
    <2> QED
      BY <2>2 DEF Abstract!Next
  <1>7. CASE Put(t)
    <2>1. /\ PhaseOf(t) = "pending" /\ PhaseOf(t)' = "done" /\ ArgOf(t)' = None
          /\ OutOf(t)' = OutOf(t) /\ FlagOf(t)' = FlagOf(t)
          /\ op[t] = "push" /\ q' = Append(q, ArgOf(t)) /\ op' = op
      BY <1>7 DEF Put, PhaseOf, Effective, ArgOf, OutOf, FlagOf, TookItem
    <2>2. Abstract!Effect(t)
      BY <1>0, <2>1, EffectSimulates
    <2> QED
      BY <2>2 DEF Abstract!Next
  <1>8. CASE CondWait(t)
    <2>1. SameView(t) /\ UNCHANGED <<q, op>>
      BY <1>8 DEF CondWait, SameView, PhaseOf, Effective, ArgOf, OutOf, FlagOf, TookItem
    <2> QED
      BY <2>1, <1>0, AbstractStutter
  <1>9. CASE Signal(t)
    <2>1. PhaseOf(t) = "done" /\ PhaseOf(t)' = "idle" /\ UNCHANGED <<q, op>>
      BY <1>9 DEF Signal, Waiting, PhaseOf, Effective
    <2>2. Abstract!Return(t)
      BY <1>0, <2>1, ReturnSimulates
    <2> QED
      BY <2>2 DEF Abstract!Next
  <1>10. CASE Relock(t)
    <2>1. SameView(t) /\ UNCHANGED <<q, op>>
      BY <1>10 DEF Relock, SameView, PhaseOf, Effective, ArgOf, OutOf, FlagOf, TookItem
    <2> QED
      BY <2>1, <1>0, AbstractStutter
  <1> QED
    BY <1>1, <1>2, <1>3, <1>4, <1>5, <1>6, <1>7, <1>8, <1>9, <1>10 DEF Step

LEMMA NextSimulates ==
  ASSUME QInv, [QNext]_qvars
  PROVE  [Abstract!Next]_(Abstract!vars)
  <1>1. ASSUME NEW t \in Threads, Step(t) PROVE [Abstract!Next]_(Abstract!vars)
    BY <1>1, StepSimulates
  <1>2. ASSUME NEW t \in Threads, NEW v \in Items, Call(t, "push", v)
        PROVE  Abstract!Next
    BY <1>2, CallSimulates DEF Abstract!Next, Operations
  <1>3. ASSUME NEW t \in Threads, NEW o \in Operations \ {"push"}, Call(t, o, None)
        PROVE  Abstract!Next
    BY <1>3, CallSimulates DEF Abstract!Next, Abstract!Operations, Operations
  <1>4. ASSUME NEW t \in Threads, SpuriousWakeup(t)
        PROVE  UNCHANGED Abstract!vars
    <2>1. SameView(t) /\ UNCHANGED <<q, op>>
      BY <1>4 DEF SpuriousWakeup, Goto, QInv, TypeOK, SameView, PhaseOf, Effective, ArgOf, OutOf, FlagOf, TookItem
    <2>2. \A u \in Threads \ {t} : SameView(u)
      BY <1>4, OthersKeepView
    <2> QED
      BY <2>1, <2>2, AbstractStutter
  <1>5. CASE UNCHANGED qvars
    <2>1. \A u \in Threads : SameView(u)
      BY <1>5 DEF qvars, SameView, PhaseOf, Effective, ArgOf, OutOf, FlagOf, TookItem
    <2> QED
      BY <1>5, <2>1, AbstractStutter DEF qvars
  <1> QED
    BY <1>1, <1>2, <1>3, <1>4, <1>5 DEF QNext

LEMMA InitSimulates == QInit => Abstract!Init
  BY DEF QInit, Abstract!Init, Abstract!Operations, PhaseOf, Effective, ArgOf, OutOf, FlagOf, TookItem

(* thread_safe_queue<T> is linearizable: whatever the threads do, each     *)
(* push, pop, try_pop and is_empty takes effect at one instant between its *)
(* call and its return, on a FIFO queue.                                   *)
THEOREM QLinearizable == QSpec => Linearizable
  BY InitSimulates, NextSimulates, QInvariance, PTL DEF QSpec, Linearizable, Abstract!Spec
-----------------------------------------------------------------------------
(* The pool.                                                               *)

(* The owner: where it can be inside push, and with which argument.        *)
OwnerInv ==
  /\ pc[Main] # "idle" => main \in {"use", "push_pills"} /\ op[Main] = "push"
  /\ main = "use" /\ pc[Main] \in {"lock", "put"} => item[Main] \in submitted
  /\ main = "push_pills" /\ pc[Main] \in {"lock", "put"} => item[Main] = Pill
  /\ main = "construct" => created \subseteq 1..i

(* The workers: only a started worker runs, it enters the queue only for   *)
(* pop, what pop has handed it is an item, and joined workers are gone.    *)
WorkerInv ==
  /\ \A w \in Workers :
       /\ worker[w] = "none" <=> w \notin created
       /\ worker[w] # "pop" => pc[w] = "idle"
       /\ worker[w] = "pop" => op[w] = "pop"
       /\ Taken(w) => item[w] \in Items
  /\ \A w \in created :
       /\ main = "join" /\ w <= i => worker[w] = "exited"
       /\ main = "deleted" => worker[w] = "exited"

(* Pills: there are none before the destructor runs, in the queue they are *)
(* behind every task, and when one has been taken no task is left there.   *)
HasPill(w) == worker[w] = "exited" \/ (Taken(w) /\ item[w] = Pill)

PillInv ==
  /\ main \in {"construct", "use"} => ~InQueue(Pill) /\ \A w \in Workers : ~HasPill(w)
  /\ \A j, k \in 1..Len(q) : j < k /\ q[j] = Pill => q[k] = Pill
  /\ \A w \in Workers : HasPill(w) => \A k \in 1..Len(q) : q[k] = Pill

(* A task is in the queue once, and in the hands of one worker.            *)
OnceInv ==
  /\ \A j, k \in 1..Len(q) : j # k /\ q[j] = q[k] => q[j] = Pill
  /\ \A v, w \in Workers : v # w /\ Taken(v) /\ Taken(w) /\ item[v] = item[w]
       => item[v] = Pill

PoolInv == /\ QInv /\ PoolTypeOK /\ OwnerInv /\ WorkerInv /\ PillInv /\ OnceInv
           /\ OnePlace
-----------------------------------------------------------------------------
LEMMA MainNotWorker == Main \in Threads /\ Workers \subseteq Threads /\ Main \notin Workers
  BY PoolAssumption DEF Main, Workers

(* What every step of the queue but Take and Put leaves alone.             *)
Quiet ==
  /\ UNCHANGED <<q, item, op>>
  /\ pc[Main] = "idle" => pc'[Main] = "idle"
  /\ pc'[Main] \in {"lock", "put"} <=> pc[Main] \in {"lock", "put"}
  /\ \A w \in Workers : /\ Taken(w)' <=> Taken(w)
                        /\ pc[w] = "idle" => pc'[w] = "idle"

LEMMA QuietStep ==
  ASSUME PoolInv, NEW t \in Threads, Step(t), ~Take(t), ~Put(t), UNCHANGED poolvars
  PROVE  Quiet
  <1> USE MainNotWorker, NoneAssumption, PoolAssumption
      DEF PoolInv, QInv, TypeOK, GuardDiscipline, OwnerInv, WorkerInv, Goto, Acquire,
          Release, Quiet, Taken, poolvars
  <1>1. CASE LockGuard(t)
    BY <1>1 DEF LockGuard, FirstPoint
  <1>2. CASE NestedGuard(t)
    BY <1>2 DEF NestedGuard
  <1>3. CASE ReadEmpty(t)
    BY <1>3 DEF ReadEmpty
  <1>4. CASE NestedUnlock(t)
    BY <1>4 DEF NestedUnlock
  <1>5. CASE Unlock(t)
    BY <1>5 DEF Unlock
  <1>6. CASE CondWait(t)
    BY <1>6 DEF CondWait
  <1>7. CASE Signal(t)
    BY <1>7 DEF Signal, Waiting, OpAtPoint
  <1>8. CASE Relock(t)
    BY <1>8 DEF Relock
  <1> QED
    BY <1>1, <1>2, <1>3, <1>4, <1>5, <1>6, <1>7, <1>8 DEF Step

LEMMA QuietWakeup ==
  ASSUME PoolInv, NEW w \in Workers, SpuriousWakeup(w), UNCHANGED poolvars
  PROVE  Quiet
  BY MainNotWorker DEF PoolInv, QInv, TypeOK, SpuriousWakeup, Goto, Quiet, Taken, poolvars

LEMMA QuietKeeps ==
  ASSUME PoolInv, Quiet, UNCHANGED poolvars
  PROVE  OwnerInv' /\ WorkerInv' /\ PillInv' /\ OnceInv' /\ OnePlace'
  <1> USE DEF PoolInv, Quiet, poolvars
  <1>1. OwnerInv'
    BY DEF OwnerInv
  <1>2. WorkerInv'
    BY DEF WorkerInv
  <1>3. PillInv'
    BY DEF PillInv, HasPill, InQueue
  <1>4. OnceInv'
    BY DEF OnceInv
  <1>5. OnePlace'
    BY DEF OnePlace, InPush, InQueue, InHand
  <1> QED
    BY <1>1, <1>2, <1>3, <1>4, <1>5
-----------------------------------------------------------------------------
(* The queue as a sequence of places.                                      *)
LEMMA TailPlaces ==
  ASSUME NEW S, NEW s \in Seq(S), s # <<>>
  PROVE  /\ Len(s) \in Nat /\ Len(s) > 0 /\ Head(s) = s[1]
         /\ Len(Tail(s)) = Len(s) - 1
         /\ \A k \in 1..Len(Tail(s)) : k + 1 \in 1..Len(s) /\ Tail(s)[k] = s[k + 1]
  OBVIOUS

LEMMA AppendPlaces ==
  ASSUME NEW S, NEW s \in Seq(S), NEW x \in S
  PROVE  /\ Len(s) \in Nat /\ Len(Append(s, x)) = Len(s) + 1
         /\ \A k \in 1..Len(s) : Append(s, x)[k] = s[k]
         /\ Append(s, x)[Len(s) + 1] = x
  OBVIOUS

LEMMA TakeKeeps ==
  ASSUME PoolInv, NEW t \in Threads, Take(t), UNCHANGED poolvars
  PROVE  OwnerInv' /\ WorkerInv' /\ PillInv' /\ OnceInv' /\ OnePlace'
  <1> USE DEF PoolInv, poolvars
  <1>1. /\ t \in Workers /\ worker[t] = "pop" /\ pc[t] = "take" /\ pc'[t] = "unlock"
        /\ depth = 1 /\ op[t] = "pop" /\ q # <<>> /\ q \in Seq(Items)
        /\ UNCHANGED <<depth, op>>
    BY MainNotWorker, PoolAssumption
    DEF Take, Goto, QInv, TypeOK, GuardDiscipline, OpAtPoint, EmptyAccurate, OwnerInv,
        WorkerInv, Main
  <1>2. /\ item'[t] = q[1] /\ q' = Tail(q) /\ q[1] \in Items
        /\ \A u \in Threads \ {t} : item'[u] = item[u] /\ pc'[u] = pc[u]
    BY <1>1, TailPlaces DEF Take, Goto, QInv, TypeOK
  <1>3. ~Taken(t) /\ Taken(t)' /\ \A w \in Workers \ {t} : Taken(w)' <=> Taken(w)
    BY <1>1, <1>2, MainNotWorker DEF Taken
  <1>4. /\ Len(q) \in Nat /\ Len(q) > 0 /\ Len(q') = Len(q) - 1
        /\ \A k \in 1..Len(q') : k + 1 \in 1..Len(q) /\ q'[k] = q[k + 1]
        /\ \A k \in 1..Len(q) : k # 1 => k - 1 \in 1..Len(q') /\ q'[k - 1] = q[k]
    BY <1>1, <1>2, TailPlaces
  <1>5. OwnerInv'
    BY <1>1, <1>2, MainNotWorker DEF OwnerInv
  <1>6. WorkerInv'
    BY <1>1, <1>2, <1>3, MainNotWorker DEF WorkerInv
  <1>7. PillInv'
    BY <1>1, <1>2, <1>3, <1>4, MainNotWorker DEF PillInv, HasPill, InQueue
  <1>8. /\ q[1] \in Tasks \/ q[1] = Pill
        /\ InQueue(q[1])
    BY <1>2, <1>4, PoolAssumption DEF InQueue
  <1>9. q[1] \in Tasks => ~InHand(q[1]) /\ ~InPush(q[1])
    BY <1>8 DEF OnePlace
  <1>10. OnceInv'
    <2>1. ASSUME NEW j \in 1..Len(q'), NEW k \in 1..Len(q'), j # k, q'[j] = q'[k]
          PROVE  q'[j] = Pill
      <3>1. j + 1 \in 1..Len(q) /\ k + 1 \in 1..Len(q) /\ j + 1 # k + 1
        BY <1>4, <2>1
      <3>2. q[j + 1] = q[k + 1] => q[j + 1] = Pill
        BY <3>1 DEF OnceInv
      <3> QED
        BY <1>4, <2>1, <3>2
    <2>2. \A w \in Workers \ {t} : Taken(w) /\ item[w] = q[1] => q[1] = Pill
      BY <1>8, <1>9 DEF InHand
    <2> QED
      BY <1>1, <1>2, <1>3, <2>1, <2>2, MainNotWorker DEF OnceInv
  <1>11. OnePlace'
    <2>1. ASSUME NEW x \in Tasks
          PROVE  /\ InPush(x)' <=> InPush(x)
                 /\ InHand(x)' <=> InHand(x) \/ x = q[1]
                 /\ InQueue(x)' <=> InQueue(x) /\ x # q[1]
      <3>1. InPush(x)' <=> InPush(x)
        BY <1>1, <1>2, MainNotWorker DEF InPush
      <3>2. InHand(x)' <=> InHand(x) \/ x = q[1]
        BY <1>1, <1>2, <1>3, MainNotWorker DEF InHand
      <3>3. InQueue(x)' => InQueue(x) /\ x # q[1]
        BY <1>4, PoolAssumption DEF InQueue, OnceInv
      <3>4. InQueue(x) /\ x # q[1] => InQueue(x)'
        BY <1>4 DEF InQueue
      <3> QED
        BY <3>1, <3>2, <3>3, <3>4
    <2> QED
      BY <1>8, <1>9, <2>1 DEF OnePlace
  <1> QED
    BY <1>5, <1>6, <1>7, <1>10, <1>11

LEMMA PutKeeps ==
  ASSUME PoolInv, NEW t \in Threads, Put(t), UNCHANGED poolvars
  PROVE  OwnerInv' /\ WorkerInv' /\ PillInv' /\ OnceInv' /\ OnePlace'
  <1> USE DEF PoolInv, poolvars
  <1>1. /\ t = Main /\ pc[t] = "put" /\ pc'[t] = "unlock" /\ op[t] = "push"
        /\ main \in {"use", "push_pills"} /\ q \in Seq(Items) /\ item[t] \in Items
        /\ UNCHANGED <<depth, op, item>>
    BY MainNotWorker, PoolAssumption
    DEF Put, Goto, QInv, TypeOK, OpAtPoint, OwnerInv, WorkerInv, Main
  <1>2. /\ q' = Append(q, item[Main])
        /\ \A u \in Workers : pc'[u] = pc[u]
    BY <1>1, MainNotWorker DEF Put, Goto, QInv, TypeOK
  <1>3. \A w \in Workers : Taken(w)' <=> Taken(w)
    BY <1>1, <1>2 DEF Taken
  <1>4. /\ Len(q) \in Nat /\ Len(q') = Len(q) + 1 /\ q'[Len(q) + 1] = item[Main]
        /\ \A k \in 1..Len(q) : q'[k] = q[k]
    BY <1>1, <1>2, AppendPlaces
  <1>5. OwnerInv'
    BY <1>1, MainNotWorker DEF OwnerInv
  <1>6. WorkerInv'
    BY <1>1, <1>2, <1>3, MainNotWorker DEF WorkerInv
  <1>7. PillInv'
    <2>1. CASE main = "use"
      <3>1. \A w \in Workers : ~HasPill(w)'
        BY <1>1, <1>3, <2>1, MainNotWorker DEF PillInv, HasPill
      <3>2. item[Main] # Pill /\ \A k \in 1..Len(q') : q'[k] # Pill
        BY <1>1, <1>4, <2>1, PoolAssumption DEF OwnerInv, PoolTypeOK, PillInv, InQueue
      <3> QED
        BY <2>1, <3>1, <3>2 DEF PillInv, InQueue
    <2>2. CASE main = "push_pills"
      <3>1. item[Main] = Pill
        BY <1>1, <2>2 DEF OwnerInv
      <3>2. \A w \in Workers : HasPill(w)' => HasPill(w)
        BY <1>1, <1>3, MainNotWorker DEF HasPill
      <3>3. \A k \in 1..Len(q') : (k \in 1..Len(q) /\ q'[k] = q[k]) \/ q'[k] = Pill
        BY <1>4, <3>1
      <3> QED
        BY <1>4, <2>2, <3>2, <3>3 DEF PillInv, InQueue
    <2> QED
      BY <1>1, <2>1, <2>2
  <1>8. item[Main] \in Tasks => ~InQueue(item[Main]) /\ ~InHand(item[Main])
    BY <1>1 DEF OnePlace, InPush
  <1>9. OnceInv'
    BY <1>1, <1>3, <1>4, <1>8, PoolAssumption DEF OnceInv, InQueue
  <1>10. OnePlace'
    <2>1. ASSUME NEW x \in Tasks
          PROVE  /\ InPush(x) <=> x = item[Main]
                 /\ ~InPush(x)'
                 /\ InHand(x)' <=> InHand(x)
                 /\ InQueue(x)' <=> InQueue(x) \/ x = item[Main]
      <3>1. (InPush(x) <=> x = item[Main]) /\ ~InPush(x)'
        BY <1>1 DEF InPush
      <3>2. InHand(x)' <=> InHand(x)
        BY <1>1, <1>3 DEF InHand
      <3>3. InQueue(x)' => InQueue(x) \/ x = item[Main]
        BY <1>4 DEF InQueue
      <3>4. InQueue(x) \/ x = item[Main] => InQueue(x)'
        BY <1>4 DEF InQueue
      <3> QED
        BY <3>1, <3>2, <3>3, <3>4
    <2> QED
      BY <1>8, <2>1 DEF OnePlace
  <1> QED
    BY <1>5, <1>6, <1>7, <1>9, <1>10
-----------------------------------------------------------------------------
(* The owner's and the workers' steps outside the queue.                   *)
PoolParts == PoolTypeOK /\ OwnerInv /\ WorkerInv /\ PillInv /\ OnceInv /\ OnePlace

LEMMA MainKeeps ==
  ASSUME PoolInv, MainStep \/ Destroy, ~PushPill
  PROVE  PoolParts'
  <1> USE PoolAssumption, MainNotWorker DEF PoolInv, PoolParts, qvars
  <1>1. CASE Launch
    <2>1. /\ i + 1 \in Workers /\ i' = i + 1 /\ main = "construct"
          /\ UNCHANGED <<qvars, main, submitted, runs>>
          /\ \/ created' = created \cup {i + 1} /\ worker' = [worker EXCEPT ![i + 1] = "loop"]
             \/ UNCHANGED <<created, worker>>
      BY <1>1 DEF Launch, PoolTypeOK, Workers
    <2>2. i + 1 \notin created /\ worker[i + 1] = "none" /\ i \in 0..PoolSize
      BY <2>1 DEF OwnerInv, WorkerInv, PoolTypeOK
    <2>3. PoolTypeOK'
      <3>1. TypeOK'
        BY <2>1 DEF TypeOK, PoolTypeOK
      <3>2. i' \in 0..PoolSize
        BY <2>1, <2>2 DEF Workers
      <3>3. created' \subseteq Workers /\ worker' \in [Workers -> WorkerPoints]
        BY <2>1 DEF PoolTypeOK, WorkerPoints
      <3> QED
        BY <2>1, <3>1, <3>2, <3>3 DEF PoolTypeOK
    <2>4. OwnerInv'
      <3>1. created \subseteq 1..i
        BY <2>1 DEF OwnerInv
      <3>2. \A w \in created' : w \in created \/ w = i + 1
        BY <2>1
      <3>3. ASSUME NEW w \in created' PROVE w \in 1..(i + 1)
        <4>1. CASE w \in created
          <5>1. w \in 1..i /\ i \in Nat
            BY <2>2, <3>1, <4>1
          <5> QED
            BY <5>1
        <4>2. CASE w = i + 1
          BY <2>2, <4>2
        <4> QED
          BY <3>2, <4>1, <4>2
      <3>4. created' \subseteq 1..i'
        BY <2>1, <3>3
      <3> QED
        BY <2>1, <3>4 DEF OwnerInv
    <2>5. \A w \in Workers : Taken(w)' <=> Taken(w)
      BY <2>1, <2>2 DEF Taken, PoolTypeOK
    <2>6. WorkerInv'
      BY <2>1, <2>2, <2>5 DEF WorkerInv, PoolTypeOK
    <2>7. PillInv'
      BY <2>1, <2>2, <2>5 DEF PillInv, HasPill, InQueue, PoolTypeOK
    <2>8. OnceInv' /\ OnePlace'
      BY <2>1, <2>5 DEF OnceInv, OnePlace, InQueue, InPush, InHand
    <2> QED
      BY <2>3, <2>4, <2>6, <2>7, <2>8
  <1>2. CASE Constructed
    <2>1. PoolTypeOK'
      BY <1>2, PoolAssumption DEF Constructed, Phase, PoolTypeOK, TypeOK, MainPoints, WorkerPoints
    <2>2. OwnerInv'
      BY <1>2 DEF Constructed, Phase, OwnerInv, PoolTypeOK
    <2>3. WorkerInv'
      BY <1>2 DEF Constructed, Phase, WorkerInv, PoolTypeOK, Taken, Workers
    <2>4. PillInv' /\ OnceInv' /\ OnePlace'
      BY <1>2
      DEF Constructed, Phase, PillInv, OnceInv, OnePlace, HasPill, Taken, InQueue, InPush, InHand
    <2> QED
      BY <2>1, <2>2, <2>3, <2>4
  <1>3. CASE Destroy
    <2>1. PoolTypeOK'
      BY <1>3, PoolAssumption DEF Destroy, Phase, PoolTypeOK, TypeOK, MainPoints, WorkerPoints
    <2>2. OwnerInv'
      BY <1>3 DEF Destroy, Phase, OwnerInv, PoolTypeOK
    <2>3. WorkerInv'
      BY <1>3 DEF Destroy, Phase, WorkerInv, PoolTypeOK, Taken, Workers
    <2>4. PillInv' /\ OnceInv' /\ OnePlace'
      BY <1>3
      DEF Destroy, Phase, PillInv, OnceInv, OnePlace, HasPill, Taken, InQueue, InPush, InHand
    <2> QED
      BY <2>1, <2>2, <2>3, <2>4
  <1>4. CASE PillsPushed
    <2>1. PoolTypeOK'
      BY <1>4, PoolAssumption DEF PillsPushed, Phase, PoolTypeOK, TypeOK, MainPoints, WorkerPoints
    <2>2. OwnerInv'
      BY <1>4 DEF PillsPushed, Phase, OwnerInv, PoolTypeOK
    <2>3. WorkerInv'
      BY <1>4 DEF PillsPushed, Phase, WorkerInv, PoolTypeOK, Taken, Workers
    <2>4. PillInv' /\ OnceInv' /\ OnePlace'
      BY <1>4
      DEF PillsPushed, Phase, PillInv, OnceInv, OnePlace, HasPill, Taken, InQueue, InPush, InHand
    <2> QED
      BY <2>1, <2>2, <2>3, <2>4
  <1>5. CASE Join
    <2>1. PoolTypeOK'
      BY <1>5, PoolAssumption DEF Join, Phase, PoolTypeOK, TypeOK, MainPoints, WorkerPoints
    <2>2. OwnerInv'
      BY <1>5 DEF Join, Phase, OwnerInv, PoolTypeOK
    <2>3. WorkerInv'
      BY <1>5 DEF Join, Phase, WorkerInv, PoolTypeOK, Taken, Workers
    <2>4. PillInv' /\ OnceInv' /\ OnePlace'
      BY <1>5
      DEF Join, Phase, PillInv, OnceInv, OnePlace, HasPill, Taken, InQueue, InPush, InHand
    <2> QED
      BY <2>1, <2>2, <2>3, <2>4
  <1>6. CASE JoinGarbage
    <2>1. PoolTypeOK'
      BY <1>6, PoolAssumption DEF JoinGarbage, Phase, PoolTypeOK, TypeOK, MainPoints, WorkerPoints
    <2>2. OwnerInv'
      BY <1>6 DEF JoinGarbage, Phase, OwnerInv, PoolTypeOK
    <2>3. WorkerInv'
      BY <1>6 DEF JoinGarbage, Phase, WorkerInv, PoolTypeOK, Taken, Workers
    <2>4. PillInv' /\ OnceInv' /\ OnePlace'
      BY <1>6
      DEF JoinGarbage, Phase, PillInv, OnceInv, OnePlace, HasPill, Taken, InQueue, InPush, InHand
    <2> QED
      BY <2>1, <2>2, <2>3, <2>4
  <1>7. CASE Delete
    <2>1. PoolTypeOK'
      BY <1>7, PoolAssumption DEF Delete, Phase, PoolTypeOK, TypeOK, MainPoints, WorkerPoints
    <2>2. OwnerInv'
      BY <1>7 DEF Delete, Phase, OwnerInv, PoolTypeOK
    <2>3. WorkerInv'
      BY <1>7 DEF Delete, Phase, WorkerInv, PoolTypeOK, Taken, Workers
    <2>4. PillInv' /\ OnceInv' /\ OnePlace'
      BY <1>7
      DEF Delete, Phase, PillInv, OnceInv, OnePlace, HasPill, Taken, InQueue, InPush, InHand
    <2> QED
      BY <2>1, <2>2, <2>3, <2>4
  <1> QED
    BY <1>1, <1>2, <1>3, <1>4, <1>5, <1>6, <1>7 DEF MainStep

LEMMA AddTaskKeeps ==
  ASSUME PoolInv, NEW t \in Tasks, AddTask(t), TypeOK'
  PROVE  PoolParts'
  <1> USE PoolAssumption, MainNotWorker DEF PoolInv, PoolParts
  <1>1. /\ main = "use" /\ t \notin submitted /\ submitted' = submitted \cup {t}
        /\ UNCHANGED <<main, i, created, worker, runs, q, depth>>
        /\ pc[Main] = "idle" /\ pc'[Main] = "lock" /\ op'[Main] = "push" /\ item'[Main] = t
        /\ \A w \in Workers : pc'[w] = pc[w] /\ item'[w] = item[w] /\ op'[w] = op[w]
    BY DEF AddTask, Call, Goto, QInv, TypeOK
  <1>2. \A w \in Workers : Taken(w)' <=> Taken(w)
    BY <1>1 DEF Taken
  <1>3. PoolTypeOK' /\ OwnerInv' /\ WorkerInv'
    BY <1>1, <1>2 DEF PoolTypeOK, OwnerInv, WorkerInv
  <1>4. PillInv' /\ OnceInv'
    BY <1>1, <1>2 DEF PillInv, OnceInv, HasPill, InQueue
  <1>5. OnePlace'
    BY <1>1, <1>2 DEF OnePlace, InPush, InQueue, InHand
  <1> QED
    BY <1>3, <1>4, <1>5

LEMMA PushPillKeeps ==
  ASSUME PoolInv, PushPill, TypeOK'
  PROVE  PoolParts'
  <1> USE PoolAssumption, MainNotWorker DEF PoolInv, PoolParts
  <1>1. /\ main = "push_pills" /\ i < PoolSize /\ i' = i + 1
        /\ UNCHANGED <<main, created, worker, submitted, runs, q, depth>>
        /\ pc[Main] = "idle" /\ pc'[Main] = "lock" /\ op'[Main] = "push" /\ item'[Main] = Pill
        /\ \A w \in Workers : pc'[w] = pc[w] /\ item'[w] = item[w] /\ op'[w] = op[w]
    BY DEF PushPill, Call, Goto, QInv, TypeOK
  <1>2. \A w \in Workers : Taken(w)' <=> Taken(w)
    BY <1>1 DEF Taken
  <1>3. PoolTypeOK' /\ OwnerInv' /\ WorkerInv'
    BY <1>1, <1>2 DEF PoolTypeOK, OwnerInv, WorkerInv
  <1>4. PillInv' /\ OnceInv'
    BY <1>1, <1>2 DEF PillInv, OnceInv, HasPill, InQueue
  <1>5. OnePlace'
    BY <1>1, <1>2 DEF OnePlace, InPush, InQueue, InHand
  <1> QED
    BY <1>3, <1>4, <1>5

LEMMA WorkerKeeps ==
  ASSUME PoolInv, NEW w \in Workers, WorkerStep(w), TypeOK'
  PROVE  PoolParts'
  <1> USE PoolAssumption, MainNotWorker DEF PoolInv, PoolParts
  <1>1. CASE WorkerPop(w)
    <2>1. /\ worker[w] = "loop" /\ worker' = [worker EXCEPT ![w] = "pop"]
          /\ UNCHANGED <<main, i, created, submitted, runs, q, depth>>
          /\ pc[w] = "idle" /\ pc'[w] = "lock" /\ op'[w] = "pop"
          /\ \A u \in Threads \ {w} : pc'[u] = pc[u] /\ item'[u] = item[u] /\ op'[u] = op[u]
      BY <1>1 DEF WorkerPop, Call, Goto, QInv, TypeOK
    <2>2. \A v \in Workers : Taken(v)' <=> Taken(v)
      BY <2>1 DEF Taken, PoolTypeOK
    <2>3. PoolTypeOK' /\ OwnerInv' /\ WorkerInv'
      BY <2>1, <2>2 DEF PoolTypeOK, OwnerInv, WorkerInv, WorkerPoints, Taken
    <2>4. PillInv' /\ OnceInv'
      BY <2>1, <2>2 DEF PillInv, OnceInv, HasPill, InQueue, PoolTypeOK, Taken
    <2>5. OnePlace'
      BY <2>1, <2>2 DEF OnePlace, InPush, InQueue, InHand, Taken
    <2> QED
      BY <2>3, <2>4, <2>5
  <1>2. CASE WorkerRun(w)
    <2>1. /\ worker[w] = "pop" /\ pc[w] = "idle" /\ item[w] # Pill
          /\ worker' = [worker EXCEPT ![w] = "run"]
          /\ runs' = [runs EXCEPT ![item[w]] = @ + 1]
          /\ UNCHANGED <<main, i, created, submitted, q, owner, depth, pc, op, item, empty>>
      BY <1>2 DEF WorkerRun, qvars
    <2>2. /\ Taken(w) /\ ~Taken(w)'
          /\ \A v \in Workers \ {w} : Taken(v)' <=> Taken(v)
      BY <2>1 DEF Taken, PoolTypeOK
    <2>3. item[w] \in Tasks
      BY <2>1, <2>2 DEF WorkerInv
    <2>4. PoolTypeOK' /\ OwnerInv' /\ WorkerInv'
      BY <2>1, <2>2, <2>3 DEF PoolTypeOK, TypeOK, OwnerInv, WorkerInv, WorkerPoints
    <2>5. PillInv' /\ OnceInv'
      BY <2>1, <2>2 DEF PillInv, OnceInv, HasPill, InQueue, PoolTypeOK
    <2>6. OnePlace'
      <3>1. ASSUME NEW x \in Tasks
            PROVE  /\ InPush(x)' <=> InPush(x)
                   /\ InQueue(x)' <=> InQueue(x)
                   /\ InHand(x)' <=> InHand(x) /\ x # item[w]
                   /\ InHand(item[w])
                   /\ runs'[x] = IF x = item[w] THEN runs[x] + 1 ELSE runs[x]
        BY <2>1, <2>2 DEF InPush, InQueue, InHand, OnceInv, PoolTypeOK
      <3> QED
        BY <2>1, <2>3, <3>1 DEF OnePlace
    <2> QED
      BY <2>4, <2>5, <2>6
  <1>3. CASE WorkerDone(w)
    <2>1. /\ worker[w] = "run" /\ worker' = [worker EXCEPT ![w] = "loop"]
          /\ UNCHANGED <<main, i, created, submitted, runs, q, owner, depth, pc, op, item, empty>>
      BY <1>3 DEF WorkerDone, qvars
    <2>2. \A v \in Workers : Taken(v)' <=> Taken(v)
      BY <2>1 DEF Taken, PoolTypeOK
    <2>3. PoolTypeOK' /\ OwnerInv' /\ WorkerInv'
      BY <2>1, <2>2 DEF PoolTypeOK, TypeOK, OwnerInv, WorkerInv, WorkerPoints
    <2>4. PillInv' /\ OnceInv'
      BY <2>1, <2>2 DEF PillInv, OnceInv, HasPill, InQueue, PoolTypeOK
    <2>5. OnePlace'
      BY <2>1, <2>2 DEF OnePlace, InPush, InQueue, InHand
    <2> QED
      BY <2>3, <2>4, <2>5
  <1>4. CASE WorkerExit(w)
    <2>1. /\ worker[w] = "pop" /\ pc[w] = "idle" /\ item[w] = Pill
          /\ worker' = [worker EXCEPT ![w] = "exited"]
          /\ UNCHANGED <<main, i, created, submitted, runs, q, owner, depth, pc, op, item, empty>>
      BY <1>4 DEF WorkerExit, qvars
    <2>2. /\ Taken(w) /\ ~Taken(w)'
          /\ \A v \in Workers \ {w} : Taken(v)' <=> Taken(v)
      BY <2>1 DEF Taken, PoolTypeOK
    <2>3. PoolTypeOK' /\ OwnerInv' /\ WorkerInv'
      BY <2>1, <2>2 DEF PoolTypeOK, TypeOK, OwnerInv, WorkerInv, WorkerPoints
    <2>4. PillInv' /\ OnceInv'
      BY <2>1, <2>2 DEF PillInv, OnceInv, HasPill, InQueue, PoolTypeOK
    <2>5. OnePlace'
      BY <2>1, <2>2 DEF OnePlace, InPush, InQueue, InHand
    <2> QED
      BY <2>3, <2>4, <2>5
  <1> QED
    BY <1>1, <1>2, <1>3, <1>4 DEF WorkerStep
-----------------------------------------------------------------------------
(* The pool uses the queue as its interface allows.                        *)
LEMMA PoolStepIsQueueStep ==
  ASSUME PoolTypeOK, [PoolNext]_vars
  PROVE  [QNext]_qvars
  <1> USE PoolAssumption, MainNotWorker
  <1>1. ASSUME NEW t \in Tasks, AddTask(t) PROVE QNext
    BY <1>1 DEF AddTask, QNext
  <1>2. ASSUME PushPill PROVE QNext
    BY <1>2 DEF PushPill, QNext
  <1>3. ASSUME NEW w \in Workers, WorkerStep(w) PROVE QNext \/ UNCHANGED qvars
    <2>1. CASE WorkerPop(w)
      BY <2>1 DEF WorkerPop, QNext, Operations
    <2>2. CASE WorkerRun(w) \/ WorkerDone(w) \/ WorkerExit(w)
      BY <2>2 DEF WorkerRun, WorkerDone, WorkerExit
    <2> QED
      BY <1>3, <2>1, <2>2 DEF WorkerStep
  <1>4. ASSUME MainStep \/ Destroy, ~PushPill PROVE UNCHANGED qvars
    BY <1>4 DEF MainStep, Destroy, Launch, Constructed, PillsPushed, Join, JoinGarbage, Delete
  <1>5. ASSUME NEW t \in Threads, QueueStep(t) PROVE QNext
    BY <1>5 DEF QueueStep, QNext
  <1>6. ASSUME NEW w \in Workers, PoolSpurious(w) PROVE QNext
    BY <1>6 DEF PoolSpurious, QNext
  <1>7. CASE UNCHANGED vars
    BY <1>7 DEF vars
  <1> QED
    BY <1>1, <1>2, <1>3, <1>4, <1>5, <1>6, <1>7 DEF PoolNext, PoolStep

LEMMA PoolInitInv == PoolInit => PoolInv
  <1> SUFFICES ASSUME PoolInit PROVE PoolInv
    OBVIOUS
  <1> USE PoolAssumption, MainNotWorker, NoneAssumption
  <1>1. QInv
    BY QInitInv DEF PoolInit
  <1>2. PoolTypeOK
    BY <1>1 DEF QInv, PoolInit, PoolTypeOK, MainPoints, WorkerPoints
  <1>3. OwnerInv /\ WorkerInv /\ PillInv /\ OnceInv /\ OnePlace
    BY DEF PoolInit, QInit, OwnerInv, WorkerInv, PillInv, OnceInv, OnePlace, HasPill,
       Taken, InQueue, InPush, InHand
  <1> QED
    BY <1>1, <1>2, <1>3 DEF PoolInv

LEMMA PoolNextInv == PoolInv /\ [PoolNext]_vars => PoolInv'
  <1> SUFFICES ASSUME PoolInv, [PoolNext]_vars PROVE PoolInv'
    OBVIOUS
  <1>1. QInv' /\ TypeOK'
    BY PoolStepIsQueueStep, QNextInv DEF PoolInv, QInv
  <1>2. ASSUME PoolParts' PROVE PoolInv'
    BY <1>1, <1>2 DEF PoolInv, PoolParts
  <1>3. ASSUME OwnerInv' /\ WorkerInv' /\ PillInv' /\ OnceInv' /\ OnePlace', UNCHANGED poolvars
        PROVE  PoolInv'
    BY <1>1, <1>3 DEF PoolInv, PoolTypeOK, poolvars
  <1>4. CASE MainStep \/ Destroy
    BY <1>1, <1>2, <1>4, MainKeeps, PushPillKeeps
  <1>5. CASE \E t \in Tasks : AddTask(t)
    BY <1>1, <1>2, <1>5, AddTaskKeeps
  <1>6. CASE \E w \in Workers : WorkerStep(w)
    BY <1>1, <1>2, <1>6, WorkerKeeps
  <1>7. CASE \E t \in Threads : QueueStep(t)
    <2>1. PICK t \in Threads : Step(t) /\ UNCHANGED poolvars
      BY <1>7 DEF QueueStep
    <2>2. CASE Take(t)
      BY <1>3, <2>1, <2>2, TakeKeeps
    <2>3. CASE Put(t)
      BY <1>3, <2>1, <2>3, PutKeeps
    <2>4. CASE ~Take(t) /\ ~Put(t)
      BY <1>3, <2>1, <2>4, QuietStep, QuietKeeps
    <2> QED
      BY <2>2, <2>3, <2>4
  <1>8. CASE \E w \in Workers : PoolSpurious(w)
    <2>1. PICK w \in Workers : SpuriousWakeup(w) /\ UNCHANGED poolvars
      BY <1>8 DEF PoolSpurious
    <2> QED
      BY <1>3, <2>1, QuietWakeup, QuietKeeps
  <1>9. CASE UNCHANGED vars
    <2>1. Quiet /\ UNCHANGED poolvars
      BY <1>9 DEF vars, qvars, poolvars, Quiet, Taken
    <2> QED
      BY <1>3, <2>1, QuietKeeps
  <1> QED
    BY <1>4, <1>5, <1>6, <1>7, <1>8, <1>9 DEF PoolNext, PoolStep

THEOREM PoolInvariance == PoolSpec => []PoolInv
  BY PoolInitInv, PoolNextInv, PTL DEF PoolSpec

(* Every variable of the pool and of its queue keeps its type.             *)
THEOREM PoolTypeCorrect == PoolSpec => []PoolTypeOK
  <1>1. PoolInv => PoolTypeOK
    BY DEF PoolInv
  <1> QED
    BY <1>1, PoolInvariance, PTL

(* The pool uses thread_safe_queue as ThreadSafeQueue lets a client use    *)
(* it, so every theorem about QSpec is a theorem about the pool's queue.   *)
THEOREM PoolUsesQueue == PoolSpec => QSpec
  <1>1. PoolInit => QInit
    BY DEF PoolInit
  <1> QED
    BY <1>1, PoolStepIsQueueStep, PoolTypeCorrect, PTL DEF PoolSpec, QSpec

(* add_task to completion: a task is at exactly one place, and called at   *)
(* most once, whatever the threads do and however many of them started.    *)
THEOREM PoolOnePlace == PoolSpec => []OnePlace
  <1>1. PoolInv => OnePlace
    BY DEF PoolInv
  <1> QED
    BY <1>1, PoolInvariance, PTL

(* A worker stops only after the last task has been taken from the queue.  *)
THEOREM PoolPillsAfterTasks == PoolSpec => []PillsAfterTasks
  <1>1. PoolInv => PillsAfterTasks
    BY PoolAssumption DEF PoolInv, PillInv, HasPill, PillsAfterTasks, InQueue
  <1> QED
    BY <1>1, PoolInvariance, PTL

(* ~threadpool() returns with every task called, given one worker.         *)
THEOREM PoolDrained == PoolSpec => []DrainedBeforeReturn
  <1>1. ASSUME PoolInv, main = "deleted", created # {}, NEW t \in submitted
        PROVE  runs[t] = 1
    <2>1. t \in Tasks
      BY <1>1 DEF PoolInv, PoolTypeOK
    <2>2. \A w \in Workers : ~Taken(w)
      BY <1>1 DEF PoolInv, PoolTypeOK, WorkerInv, Taken
    <2>3. ~InPush(t)
      BY <1>1 DEF PoolInv, OwnerInv, InPush
    <2>4. PICK w \in Workers : worker[w] = "exited"
      BY <1>1 DEF PoolInv, PoolTypeOK, WorkerInv
    <2>5. ~InQueue(t)
      BY <1>1, <2>1, <2>4, PoolAssumption DEF PoolInv, PillInv, HasPill, InQueue
    <2> QED
      BY <1>1, <2>1, <2>2, <2>3, <2>5 DEF PoolInv, OnePlace, InHand
  <1>2. PoolInv => DrainedBeforeReturn
    BY <1>1 DEF DrainedBeforeReturn
  <1> QED
    BY <1>2, PoolInvariance, PTL

(* mtx, cond and threads are destroyed when no thread is left to use them. *)
THEOREM PoolNoUseAfterDestroy == PoolSpec => []NoUseAfterDestroy
  <1>1. PoolInv => NoUseAfterDestroy
    BY PoolAssumption, MainNotWorker
    DEF PoolInv, PoolTypeOK, OwnerInv, WorkerInv, NoUseAfterDestroy
  <1> QED
    BY <1>1, PoolInvariance, PTL
=============================================================================
