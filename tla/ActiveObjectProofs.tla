------------------------- MODULE ActiveObjectProofs -------------------------
(***************************************************************************)
(* ActiveObject proved for any number of senders and tasks: what one       *)
(* thread sends is executed in its order, and the destructor returns when  *)
(* everything has been executed.  Both follow from the line a task passes  *)
(* along, which only Push makes longer: what has been executed, then what  *)
(* the worker has in hand, then the queue.                                 *)
(***************************************************************************)
EXTENDS ActiveObject, SequenceTheorems, TLAPS

ObjectTypeOK ==
  /\ q \in Seq(Items) /\ owner = None
  /\ pc \in [Threads -> {"idle", "push", "pop", "waiting", "relock"}]
  /\ item \in [Threads -> Items \cup {None}]
  /\ object \in {"construct", "use", "join", "deleted", "undefined"}
  /\ started \in BOOLEAN
  /\ worker \in {"none", "loop", "pop", "exited"}
  /\ sent \in [Senders -> Seq(Messages)]
  /\ executed \in Seq(Messages)

(* Where the threads can be: only the worker pops, and only the owner      *)
(* pushes once the object is being destroyed, the empty task.              *)
Places ==
  /\ \A s \in Senders :
       /\ pc[s] \in {"idle", "push"}
       /\ pc[s] = "push" =>
            \/ object = "use" /\ item[s] \in Messages
            \/ object = "join" /\ s = Owner /\ item[s] = Pill
  /\ pc[Worker] # "push" /\ (worker # "pop" => pc[Worker] = "idle")
  /\ worker = "pop" /\ pc[Worker] = "idle" => item[Worker] \in Items
  /\ worker = "exited" => item[Worker] = Pill
  /\ started <=> worker # "none"
  /\ object = "construct" => ~started
  /\ object = "deleted" /\ started => worker = "exited"

(* What the worker has popped and not executed; the empty task stays with  *)
(* it.                                                                     *)
Hand == IF worker \in {"pop", "exited"} /\ pc[Worker] = "idle" THEN <<item[Worker]>> ELSE <<>>
Line == (executed \o Hand) \o q

(* No task is sent twice.                                                  *)
SentOnce ==
  \A s, r \in Senders : \A i \in 1 .. Len(sent[s]), j \in 1 .. Len(sent[r]) :
    sent[s][i] = sent[r][j] => s = r /\ i = j

(* What is in the line was sent, and is in it once.                        *)
InLine ==
  /\ \A k \in 1 .. Len(Line) :
       Line[k] # Pill => \E s \in Senders : \E i \in 1 .. Len(sent[s]) : Line[k] = sent[s][i]
  /\ \A h, k \in 1 .. Len(Line) : Line[h] = Line[k] => h = k

(* What was sent is in the line, but for a sender's last, which it may     *)
(* still be pushing.                                                       *)
Pushing(s) ==
  pc[s] = "push" =>
    /\ \A k \in 1 .. Len(Line) : Line[k] # item[s]
    /\ item[s] # Pill => sent[s] # <<>> /\ item[s] = sent[s][Len(sent[s])]

Arrived(s) ==
  \A i \in 1 .. Len(sent[s]) :
    \/ \E k \in 1 .. Len(Line) : Line[k] = sent[s][i]
    \/ pc[s] = "push" /\ i = Len(sent[s]) /\ item[s] = sent[s][i]

(* A sender's tasks are in the line in its order.                          *)
InOrder(s) ==
  \A i, j \in 1 .. Len(sent[s]) : i < j =>
    \A k \in 1 .. Len(Line) : Line[k] = sent[s][j] =>
      \E h \in 1 .. k - 1 : Line[h] = sent[s][i]

(* The empty task is the last.                                             *)
PillLast ==
  \A k \in 1 .. Len(Line) : Line[k] = Pill =>
    k = Len(Line) /\ object \notin {"construct", "use"} /\ pc[Owner] = "idle"

LineInv ==
  /\ SentOnce /\ InLine /\ PillLast
  /\ \A s \in Senders : Pushing(s) /\ Arrived(s) /\ InOrder(s)

ObjectInv == ObjectTypeOK /\ Places /\ LineInv
-----------------------------------------------------------------------------
LEMMA InitInv == Init => ObjectInv
  <1> SUFFICES ASSUME Init PROVE ObjectInv
    OBVIOUS
  <1>1. Line = <<>>
    BY DEF Init, QInit, Line, Hand
  <1>2. ObjectTypeOK
    BY EmptySeq DEF Init, QInit, ObjectTypeOK
  <1>3. Places
    BY ObjectAssumption DEF Init, QInit, Places
  <1>4. Len(Line) = 0 /\ \A s \in Senders : sent[s] = <<>> /\ Len(sent[s]) = 0
    BY <1>1, EmptySeq DEF Init
  <1>5. \A s \in Senders : pc[s] = "idle"
    BY ObjectAssumption DEF Init, QInit
  <1>6. LineInv
    BY <1>4, <1>5 DEF LineInv, SentOnce, InLine, PillLast, Pushing, Arrived, InOrder
  <1> QED
    BY <1>2, <1>3, <1>6 DEF ObjectInv

(* The line is made of tasks, and begins with what has been executed.      *)
LEMMA LineType ==
  ASSUME ObjectTypeOK, Places
  PROVE  /\ Hand \in Seq(Items) /\ executed \in Seq(Items) /\ Line \in Seq(Items)
         /\ Len(Line) = Len(executed) + Len(Hand) + Len(q)
         /\ \A k \in 1 .. Len(executed) : Line[k] = executed[k]
         /\ Hand # <<>> => Line[Len(executed) + 1] = item[Worker]
  <1>1. Hand \in Seq(Items)
    <2>1. <<>> \in Seq(Items) /\ \A i \in Items : <<i>> \in Seq(Items)
      BY EmptySeq
    <2> QED
      BY <2>1, ObjectAssumption DEF ObjectTypeOK, Places, Hand
  <1>2. executed \in Seq(Items)
    BY ObjectAssumption DEF ObjectTypeOK
  <1> DEFINE Front == executed \o Hand
  <1>3. /\ Front \in Seq(Items) /\ Len(Front) = Len(executed) + Len(Hand)
        /\ \A i \in 1 .. Len(executed) + Len(Hand) :
             Front[i] = IF i <= Len(executed) THEN executed[i] ELSE Hand[i - Len(executed)]
    BY <1>1, <1>2, ConcatProperties
  <1>4. q \in Seq(Items)
    BY DEF ObjectTypeOK
  <1>5. /\ Line \in Seq(Items) /\ Len(Line) = Len(Front) + Len(q)
        /\ \A i \in 1 .. Len(Front) + Len(q) :
             Line[i] = IF i <= Len(Front) THEN Front[i] ELSE q[i - Len(Front)]
    <2> HIDE DEF Front
    <2>1. Line = Front \o q
      BY DEF Line, Front
    <2> QED
      BY <2>1, <1>3, <1>4, ConcatProperties
  <1>6. Len(executed) \in Nat /\ Len(Hand) \in Nat /\ Len(q) \in Nat
    BY <1>1, <1>2, <1>4, LenProperties
  <1>7. Hand # <<>> => Len(Hand) = 1 /\ Hand[1] = item[Worker]
    BY DEF Hand
  <1> HIDE DEF Front
  <1> QED
    BY <1>1, <1>2, <1>3, <1>5, <1>6, <1>7
-----------------------------------------------------------------------------
(* Popping the front and handing it on leave a line as it was.             *)
LEMMA FrontMoves ==
  ASSUME NEW S, NEW s \in Seq(S), NEW t \in Seq(S), t # <<>>
  PROVE  (s \o <<Head(t)>>) \o Tail(t) = s \o t
  <1>1. Head(t) \in S /\ Tail(t) \in Seq(S) /\ <<Head(t)>> \in Seq(S)
    BY HeadTailProperties
  <1>2. <<Head(t)>> \o Tail(t) = t
    <2>1. Len(t) \in Nat \ {0} /\ t \in [1 .. Len(t) -> S]
      BY EmptySeq, LenProperties
    <2>2. /\ <<Head(t)>> \o Tail(t) \in Seq(S)
          /\ Len(<<Head(t)>> \o Tail(t)) = Len(t)
          /\ \A i \in 1 .. Len(t) : (<<Head(t)>> \o Tail(t))[i] = t[i]
      <3>1. Len(Tail(t)) = Len(t) - 1 /\ \A i \in 1 .. Len(t) - 1 : Tail(t)[i] = t[i + 1]
        BY HeadTailProperties
      <3>2. Len(<<Head(t)>>) = 1 /\ <<Head(t)>>[1] = t[1]
        BY <2>1
      <3>3. /\ <<Head(t)>> \o Tail(t) \in Seq(S)
            /\ Len(<<Head(t)>> \o Tail(t)) = 1 + Len(Tail(t))
            /\ \A i \in 1 .. 1 + Len(Tail(t)) :
                 (<<Head(t)>> \o Tail(t))[i] = IF i <= 1 THEN <<Head(t)>>[i] ELSE Tail(t)[i - 1]
        BY <1>1, <3>2, ConcatProperties
      <3> QED
        BY <2>1, <3>1, <3>2, <3>3
    <2> QED
      BY <2>2, SeqEqual
  <1> QED
    BY <1>1, <1>2, ConcatAssociative

LEMMA Executed ==
  ASSUME NEW S, NEW s \in Seq(S), NEW x \in S
  PROVE  Append(s, x) \o <<>> = s \o <<x>>
  BY AppendIsConcat, AppendProperties, ConcatEmptySeq

LEMMA Arrives ==
  ASSUME NEW S, NEW s \in Seq(S), NEW t \in Seq(S), NEW x \in S
  PROVE  s \o Append(t, x) = Append(s \o t, x)
  <1>1. <<x>> \in Seq(S) /\ s \o t \in Seq(S)
    BY ConcatProperties
  <1> QED
    BY <1>1, AppendIsConcat, ConcatAssociative
-----------------------------------------------------------------------------
(* Only a sender pushes, only the worker pops, and nobody calls try_pop.   *)
LEMMA WhoSteps ==
  ASSUME ObjectTypeOK, Places, NEW t \in Threads, Step(t)
  PROVE  \/ t \in Senders /\ item[t] \in Items /\ Push(t)
         \/ t = Worker /\ worker = "pop" /\ Pop(t)
  <1>1. t \in Senders => pc[t] \in {"idle", "push"} /\ (pc[t] = "push" => item[t] \in Items)
    BY ObjectAssumption DEF Places
  <1>2. t = Worker => pc[t] # "push" /\ (worker # "pop" => pc[t] = "idle")
    BY DEF Places
  <1>3. t \in Senders \/ t = Worker
    BY ObjectAssumption
  <1>4. pc[t] # "try_pop"
    BY DEF ObjectTypeOK
  <1> QED
    BY <1>1, <1>2, <1>3, <1>4 DEF Step, Push, Pop, TryPop

(* What a step of the queue does to the line's parts and the threads.      *)
LEMMA PushDoes ==
  ASSUME ObjectTypeOK, Places, NEW t \in Senders, Push(t)
  PROVE  /\ pc[t] = "push" /\ q' = Append(q, item[t]) /\ item' = item /\ owner' = owner
         /\ pc'[t] = "idle" /\ \A s \in Senders \ {t} : pc'[s] = pc[s]
         /\ pc' \in [Threads -> {"idle", "push", "pop", "waiting", "relock"}]
         /\ \/ pc'[Worker] = pc[Worker]
            \/ pc[Worker] = "waiting" /\ pc'[Worker] = "relock"
  <1>1. Worker \notin Senders /\ Senders \subseteq Threads /\ Worker \in Threads
    BY ObjectAssumption
  <1>2. Waiting \subseteq {Worker}
    BY ObjectAssumption DEF Waiting, Places
  <1>3. CASE Waiting = {} /\ Goto(t, "idle")
    BY <1>1, <1>3 DEF Push, Goto, ObjectTypeOK
  <1>4. CASE pc' = [pc EXCEPT ![t] = "idle", ![Worker] = "relock"] /\ Worker \in Waiting
    BY <1>1, <1>4 DEF Push, Waiting, ObjectTypeOK
  <1> QED
    BY <1>2, <1>3, <1>4 DEF Push

LEMMA PlacesInv ==
  ASSUME ObjectTypeOK, Places, [Next]_vars
  PROVE  ObjectTypeOK' /\ Places'
  <1> USE DEF ObjectTypeOK, Places, qvars, Call, Goto
  <1>0. /\ Owner \in Senders /\ Worker \notin Senders /\ Worker \in Threads
        /\ Senders \subseteq Threads /\ Messages \subseteq Items /\ Pill \in Items
        /\ Pill \notin Messages
    BY ObjectAssumption
  <1>1. CASE Construct
    <2>1. pc[Worker] = "idle" /\ \A s \in Senders : pc[s] = "idle"
      BY <1>0, <1>1 DEF Construct
    <2>2. CASE started' = TRUE /\ worker' = "loop"
      BY <1>0, <1>1, <2>1, <2>2 DEF Construct
    <2>3. CASE UNCHANGED <<started, worker>>
      BY <1>0, <1>1, <2>1, <2>3 DEF Construct
    <2> QED
      BY <1>1, <2>2, <2>3 DEF Construct
  <1>2. ASSUME NEW s \in Senders, NEW m \in Messages, Send(s, m)
        PROVE  ObjectTypeOK' /\ Places'
    <2>1. Append(sent[s], m) \in Seq(Messages)
      BY AppendProperties
    <2> QED
      BY <1>0, <1>2, <2>1 DEF Send
  <1>3. CASE Destroy
    <2>1. /\ pc' = [pc EXCEPT ![Owner] = "push"] /\ item' = [item EXCEPT ![Owner] = Pill]
          /\ object = "use" /\ object' = "join" /\ \A s \in Senders : pc[s] = "idle"
          /\ UNCHANGED <<q, owner, started, worker, sent, executed>>
      BY <1>3 DEF Destroy
    <2>2. ObjectTypeOK'
      BY <1>0, <2>1
    <2>3. Places'
      BY <1>0, <2>1
    <2> QED
      BY <2>2, <2>3
  <1>4. CASE Join \/ JoinGarbage
    BY <1>0, <1>4 DEF Join, JoinGarbage
  <1>5. CASE Fetch
    BY <1>0, <1>5 DEF Fetch
  <1>6. CASE Execute
    <2>1. Append(executed, item[Worker]) \in Seq(Messages)
      <3>1. item[Worker] \in Messages
        BY <1>6, ObjectAssumption DEF Execute
      <3> QED
        BY <3>1, AppendProperties
    <2> QED
      BY <1>0, <1>6, <2>1 DEF Execute
  <1>7. CASE Exit
    BY <1>0, <1>7 DEF Exit
  <1>8. ASSUME NEW t \in Senders, Push(t), item[t] \in Items, UNCHANGED objvars
        PROVE  ObjectTypeOK' /\ Places'
    <2>1. Append(q, item[t]) \in Seq(Items)
      BY <1>8, AppendProperties
    <2>2. /\ pc[t] = "push" /\ q' = Append(q, item[t]) /\ item' = item /\ owner' = owner
          /\ pc'[t] = "idle" /\ \A s \in Senders \ {t} : pc'[s] = pc[s]
          /\ pc' \in [Threads -> {"idle", "push", "pop", "waiting", "relock"}]
          /\ \/ pc'[Worker] = pc[Worker]
             \/ pc[Worker] = "waiting" /\ pc'[Worker] = "relock"
      BY <1>8, PushDoes
    <2> QED
      BY <1>0, <1>8, <2>1, <2>2 DEF objvars
  <1>9. CASE Pop(Worker) /\ worker = "pop" /\ UNCHANGED objvars
    <2>1. q # <<>> => Head(q) \in Items /\ Tail(q) \in Seq(Items)
      BY HeadTailProperties
    <2> QED
      BY <1>0, <1>9, <2>1 DEF Pop, TakeFront, objvars
  <1>10. CASE SpuriousWakeup(Worker) /\ UNCHANGED objvars
    BY <1>0, <1>10 DEF SpuriousWakeup, objvars
  <1>11. CASE UNCHANGED vars
    BY <1>11 DEF vars, objvars
  <1>12. ASSUME NEW t \in Threads, QueueStep(t)
         PROVE  ObjectTypeOK' /\ Places'
    BY <1>8, <1>9, <1>12, WhoSteps DEF QueueStep
  <1> QED
    BY <1>1, <1>2, <1>3, <1>4, <1>5, <1>6, <1>7, <1>10, <1>11, <1>12
    DEF Next, ObjectStep, WorkerStep
-----------------------------------------------------------------------------
(* A step that leaves the line and the senders alone.                      *)
LEMMA KeepInv ==
  ASSUME ObjectInv, Line' = Line, sent' = sent,
         \A s \in Senders : pc'[s] = pc[s] /\ item'[s] = item[s],
         object' \in {"construct", "use"} => object \in {"construct", "use"}
  PROVE  LineInv'
  <1>1. SentOnce' /\ InLine'
    BY DEF ObjectInv, LineInv, SentOnce, InLine
  <1>2. PillLast'
    BY ObjectAssumption DEF ObjectInv, LineInv, PillLast
  <1>3. \A s \in Senders : Pushing(s)' /\ Arrived(s)' /\ InOrder(s)'
    BY DEF ObjectInv, LineInv, Pushing, Arrived, InOrder
  <1> QED
    BY <1>1, <1>2, <1>3 DEF LineInv

(* A task is sent: new, and not yet in the line.                           *)
LEMMA SendInv ==
  ASSUME ObjectInv, NEW s \in Senders, NEW m \in Messages, Send(s, m)
  PROVE  LineInv'
  <1> USE DEF ObjectInv, LineInv
  <1>1. /\ object = "use" /\ object' = "use" /\ m # Pill /\ q' = q /\ executed' = executed
        /\ worker' = worker /\ pc[s] = "idle"
        /\ \A r \in Threads \ {s} : pc'[r] = pc[r] /\ item'[r] = item[r]
        /\ pc'[s] = "push" /\ item'[s] = m
    BY ObjectAssumption DEF Send, Call, Goto, ObjectTypeOK
  <1>2. Line' = Line
    BY <1>1, ObjectAssumption DEF Line, Hand
  <1>3. /\ \A r \in Senders \ {s} : sent'[r] = sent[r]
        /\ Len(sent[s]) \in Nat /\ Len(sent'[s]) = Len(sent[s]) + 1
        /\ \A i \in 1 .. Len(sent[s]) : sent'[s][i] = sent[s][i]
        /\ sent'[s][Len(sent[s]) + 1] = m /\ sent'[s] # <<>>
    <2>1. sent[s] \in Seq(Messages) /\ sent' = [sent EXCEPT ![s] = Append(@, m)]
      BY DEF Send, ObjectTypeOK
    <2>2. sent'[s] = Append(sent[s], m) /\ \A r \in Senders \ {s} : sent'[r] = sent[r]
      BY <2>1 DEF ObjectTypeOK
    <2> QED
      BY <2>1, <2>2, AppendProperties, LenProperties
  <1>4. \A r \in Senders : \A i \in 1 .. Len(sent[r]) : sent[r][i] # m
    <2>1. \A r \in Senders : Range(sent[r]) \subseteq Sent
      BY DEF Sent
    <2>2. \A r \in Senders : \A i \in 1 .. Len(sent[r]) : sent[r][i] \in Range(sent[r])
      BY LenProperties DEF Range, ObjectTypeOK
    <2> QED
      BY <2>1, <2>2 DEF Send
  <1>5. \A k \in 1 .. Len(Line) : Line[k] # m
    BY <1>1, <1>4 DEF InLine
  <1>6. SentOnce'
    <2>1. \A r \in Senders : Len(sent[r]) \in Nat
      BY LenProperties DEF ObjectTypeOK
    <2> SUFFICES ASSUME NEW r \in Senders, NEW u \in Senders,
                        NEW i \in 1 .. Len(sent'[r]), NEW j \in 1 .. Len(sent'[u]),
                        sent'[r][i] = sent'[u][j]
                 PROVE  r = u /\ i = j
      BY DEF SentOnce
    <2>2. CASE i \in 1 .. Len(sent[r]) /\ j \in 1 .. Len(sent[u])
      BY <1>3, <2>2 DEF SentOnce
    <2>3. CASE r = s /\ i = Len(sent[s]) + 1
      BY <1>3, <1>4, <2>1, <2>3
    <2>4. CASE u = s /\ j = Len(sent[s]) + 1
      BY <1>3, <1>4, <2>1, <2>4
    <2> QED
      BY <1>3, <2>1, <2>2, <2>3, <2>4
  <1>7. InLine'
    <2>1. ASSUME NEW k \in 1 .. Len(Line), Line[k] # Pill
          PROVE  \E r \in Senders : \E i \in 1 .. Len(sent'[r]) : Line[k] = sent'[r][i]
      <3>1. PICK r \in Senders : \E i \in 1 .. Len(sent[r]) : Line[k] = sent[r][i]
        BY <2>1 DEF InLine
      <3>2. PICK i \in 1 .. Len(sent[r]) : Line[k] = sent[r][i]
        BY <3>1
      <3>3. i \in 1 .. Len(sent'[r]) /\ sent'[r][i] = sent[r][i]
        BY <1>3
      <3> QED
        BY <3>2, <3>3
    <2> QED
      BY <1>2, <2>1 DEF InLine
  <1>8. PillLast'
    BY <1>1, <1>2 DEF PillLast
  <1>9. Pushing(s)' /\ Arrived(s)' /\ InOrder(s)'
    <2>1. Pushing(s)'
      BY <1>1, <1>2, <1>3, <1>5 DEF Pushing
    <2>2. Arrived(s)'
      BY <1>1, <1>2, <1>3 DEF Arrived
    <2>3. InOrder(s)'
      <3> SUFFICES ASSUME NEW i \in 1 .. Len(sent'[s]), NEW j \in 1 .. Len(sent'[s]), i < j,
                          NEW k \in 1 .. Len(Line), Line[k] = sent'[s][j]
                   PROVE  \E h \in 1 .. k - 1 : Line[h] = sent'[s][i]
        BY <1>2 DEF InOrder
      <3>1. j \in 1 .. Len(sent[s]) /\ i \in 1 .. Len(sent[s])
        BY <1>3, <1>5
      <3>2. \E h \in 1 .. k - 1 : Line[h] = sent[s][i]
        BY <1>3, <3>1 DEF InOrder
      <3> QED
        BY <1>3, <3>1, <3>2
    <2> QED
      BY <2>1, <2>2, <2>3
  <1>10. ASSUME NEW r \in Senders \ {s}
         PROVE  Pushing(r)' /\ Arrived(r)' /\ InOrder(r)'
    <2>1. sent'[r] = sent[r] /\ pc'[r] = pc[r] /\ item'[r] = item[r]
      BY <1>1, <1>3, ObjectAssumption
    <2>2. Pushing(r)' /\ Arrived(r)'
      BY <1>2, <2>1 DEF Pushing, Arrived
    <2>3. InOrder(r)'
      BY <1>2, <2>1 DEF InOrder
    <2> QED
      BY <2>2, <2>3
  <1> QED
    BY <1>6, <1>7, <1>8, <1>9, <1>10

(* The destructor is about to push the empty task: it is not in the line.  *)
LEMMA DestroyInv ==
  ASSUME ObjectInv, Destroy
  PROVE  LineInv'
  <1> USE DEF ObjectInv, LineInv
  <1>1. /\ object = "use" /\ object' = "join" /\ UNCHANGED <<q, executed, worker, sent>>
        /\ \A r \in Threads \ {Owner} : pc'[r] = pc[r] /\ item'[r] = item[r]
        /\ pc'[Owner] = "push" /\ item'[Owner] = Pill /\ pc[Owner] = "idle"
    BY ObjectAssumption DEF Destroy, Call, Goto, ObjectTypeOK
  <1>2. Line' = Line
    BY <1>1, ObjectAssumption DEF Line, Hand
  <1>3. \A k \in 1 .. Len(Line) : Line[k] # Pill
    BY <1>1 DEF PillLast
  <1>4. SentOnce' /\ InLine' /\ PillLast'
    BY <1>1, <1>2, <1>3 DEF SentOnce, InLine, PillLast
  <1>5. Pushing(Owner)' /\ Arrived(Owner)' /\ InOrder(Owner)'
    BY <1>1, <1>2, <1>3, ObjectAssumption DEF Pushing, Arrived, InOrder
  <1>6. ASSUME NEW r \in Senders \ {Owner}
        PROVE  Pushing(r)' /\ Arrived(r)' /\ InOrder(r)'
    BY <1>1, <1>2, ObjectAssumption DEF Pushing, Arrived, InOrder
  <1> QED
    BY <1>4, <1>5, <1>6

(* What arrives is new in the line, and its sender's last.                 *)
LEMMA PushInv ==
  ASSUME ObjectInv, NEW t \in Senders, item[t] \in Items, Push(t), UNCHANGED objvars
  PROVE  LineInv'
  <1> USE DEF ObjectInv, LineInv
  <1> DEFINE n == Len(Line)
  <1>1. /\ pc[t] = "push" /\ q' = Append(q, item[t]) /\ item' = item
        /\ pc'[t] = "idle" /\ \A s \in Senders \ {t} : pc'[s] = pc[s]
        /\ \/ pc'[Worker] = pc[Worker]
           \/ pc[Worker] = "waiting" /\ pc'[Worker] = "relock"
    BY PushDoes
  <1>2. UNCHANGED <<object, worker, sent, executed>>
    BY DEF objvars
  <1>3. Line' = Append(Line, item[t])
    <2>1. Hand' = Hand
      BY <1>1, <1>2 DEF Hand
    <2>2. executed \o Hand \in Seq(Items) /\ q \in Seq(Items)
      BY LineType, ConcatProperties DEF ObjectTypeOK
    <2> QED
      BY <1>1, <1>2, <2>1, <2>2, Arrives DEF Line
  <1>4. /\ n \in Nat /\ Len(Line') = n + 1 /\ Line'[n + 1] = item[t]
        /\ \A k \in 1 .. n : Line'[k] = Line[k]
    BY <1>3, LineType, AppendProperties, LenProperties
  <1> HIDE DEF n
  <1>5. \A k \in 1 .. n : Line[k] # item[t]
    BY <1>1 DEF Pushing, n
  <1>6. \A s \in Senders : Len(sent[s]) \in Nat
    BY LenProperties DEF ObjectTypeOK
  <1>7. item[t] # Pill => sent[t] # <<>> /\ Len(sent[t]) \in 1 .. Len(sent[t])
                          /\ item[t] = sent[t][Len(sent[t])]
    <2>1. item[t] # Pill => sent[t] # <<>> /\ item[t] = sent[t][Len(sent[t])]
      BY <1>1 DEF Pushing
    <2> QED
      BY <2>1, EmptySeq DEF ObjectTypeOK
  <1>8. InLine'
    <2>1. ASSUME NEW k \in 1 .. n + 1, Line'[k] # Pill
          PROVE  \E s \in Senders : \E i \in 1 .. Len(sent[s]) : Line'[k] = sent[s][i]
      <3>1. CASE k \in 1 .. n
        BY <1>4, <2>1, <3>1 DEF InLine, n
      <3>2. CASE k = n + 1
        BY <1>4, <1>7, <2>1, <3>2
      <3> QED
        BY <1>4, <3>1, <3>2
    <2>2. ASSUME NEW h \in 1 .. n + 1, NEW k \in 1 .. n + 1, Line'[h] = Line'[k]
          PROVE  h = k
      <3>1. CASE h \in 1 .. n /\ k \in 1 .. n
        BY <1>4, <2>2, <3>1 DEF InLine, n
      <3>2. CASE h = n + 1 \/ k = n + 1
        BY <1>4, <1>5, <2>2, <3>2
      <3> QED
        BY <1>4, <3>1, <3>2
    <2> QED
      BY <1>2, <1>4, <2>1, <2>2 DEF InLine
  <1>9. PillLast'
    <2>1. \A k \in 1 .. n : Line[k] # Pill
      <3>1. ASSUME NEW k \in 1 .. n, Line[k] = Pill
            PROVE  FALSE
        <4>1. object \notin {"construct", "use"} /\ pc[Owner] = "idle"
          BY <3>1 DEF PillLast, n
        <4>2. t = Owner
          BY <1>1, <4>1 DEF Places
        <4> QED
          BY <1>1, <4>1, <4>2
      <3> QED
        BY <3>1
    <2>2. item[t] = Pill => object = "join" /\ t = Owner
      BY <1>1, ObjectAssumption DEF Places
    <2> QED
      BY <1>1, <1>2, <1>4, <2>1, <2>2 DEF PillLast
  <1>10. SentOnce'
    BY <1>2 DEF SentOnce
  <1>11. ASSUME NEW s \in Senders
         PROVE  Pushing(s)' /\ Arrived(s)' /\ InOrder(s)'
    <2>1. Pushing(s)'
      <3>1. CASE s = t
        BY <1>1, <3>1 DEF Pushing
      <3>2. CASE s # t /\ pc[s] = "push"
        <4>1. item[s] # item[t]
          <5>1. object = "use" /\ item[s] \in Messages /\ item[t] \in Messages
            BY <1>1, <3>2 DEF Places
          <5>2. sent[s] # <<>> /\ item[s] = sent[s][Len(sent[s])]
            BY <3>2, <5>1, ObjectAssumption DEF Pushing
          <5>3. Len(sent[s]) \in 1 .. Len(sent[s])
            BY <5>2, EmptySeq DEF ObjectTypeOK
          <5> QED
            BY <1>7, <3>2, <5>1, <5>2, <5>3, ObjectAssumption DEF SentOnce
        <4>2. \A k \in 1 .. n : Line[k] # item[s]
          BY <3>2 DEF Pushing, n
        <4>3. item[s] # Pill => sent[s] # <<>> /\ item[s] = sent[s][Len(sent[s])]
          BY <3>2 DEF Pushing
        <4> QED
          BY <1>1, <1>2, <1>4, <4>1, <4>2, <4>3 DEF Pushing
      <3>3. CASE s # t /\ pc[s] # "push"
        BY <1>1, <3>3 DEF Pushing
      <3> QED
        BY <3>1, <3>2, <3>3
    <2>2. Arrived(s)'
      <3> SUFFICES ASSUME NEW i \in 1 .. Len(sent[s])
                   PROVE  \/ \E k \in 1 .. n + 1 : Line'[k] = sent[s][i]
                          \/ pc'[s] = "push" /\ i = Len(sent[s]) /\ item[s] = sent[s][i]
        BY <1>1, <1>2, <1>4 DEF Arrived
      <3>1. CASE \E k \in 1 .. n : Line[k] = sent[s][i]
        BY <1>4, <3>1
      <3>2. CASE pc[s] = "push" /\ i = Len(sent[s]) /\ item[s] = sent[s][i]
        <4>1. CASE s = t
          BY <1>4, <3>2, <4>1
        <4>2. CASE s # t
          BY <1>1, <3>2, <4>2
        <4> QED
          BY <4>1, <4>2
      <3> QED
        BY <3>1, <3>2 DEF Arrived, n
    <2>3. InOrder(s)'
      <3> SUFFICES ASSUME NEW i \in 1 .. Len(sent[s]), NEW j \in 1 .. Len(sent[s]), i < j,
                          NEW k \in 1 .. n + 1, Line'[k] = sent[s][j]
                   PROVE  \E h \in 1 .. k - 1 : Line'[h] = sent[s][i]
        BY <1>2, <1>4 DEF InOrder
      <3>1. CASE k \in 1 .. n
        <4>1. PICK h \in 1 .. k - 1 : Line[h] = sent[s][i]
          BY <1>4, <3>1 DEF InOrder, n
        <4>2. h \in 1 .. n
          BY <1>4, <3>1
        <4> QED
          BY <1>4, <4>1, <4>2
      <3>2. CASE k = n + 1
        <4>1. i # Len(sent[s])
          BY <1>6
        <4>2. PICK h \in 1 .. n : Line[h] = sent[s][i]
          BY <4>1 DEF Arrived, n
        <4> QED
          BY <1>4, <3>2, <4>2
      <3> QED
        BY <1>4, <3>1, <3>2
    <2> QED
      BY <2>1, <2>2, <2>3
  <1> QED
    BY <1>8, <1>9, <1>10, <1>11
-----------------------------------------------------------------------------
(* Every other step leaves the line as it was: a pop moves the front of    *)
(* the queue into the worker's hand, and what it executes was there.       *)
LEMMA PopInv ==
  ASSUME ObjectInv, Pop(Worker), worker = "pop", UNCHANGED objvars
  PROVE  LineInv'
  <1> USE DEF ObjectInv
  <1>1. UNCHANGED <<object, worker, sent, executed>>
    BY DEF objvars
  <1>2. pc[Worker] \in {"pop", "relock"} /\ Hand = <<>>
    BY DEF Pop, Hand
  <1>3. \A s \in Senders : pc'[s] = pc[s] /\ item'[s] = item[s]
    BY ObjectAssumption DEF Pop, TakeFront, Goto, ObjectTypeOK
  <1>4. Line' = Line
    <2>1. CASE q = <<>> /\ Goto(Worker, "waiting") /\ UNCHANGED <<q, owner, item>>
      <3>1. Hand' = <<>>
        BY <2>1, ObjectAssumption DEF Hand, Goto, ObjectTypeOK
      <3> QED
        BY <1>1, <1>2, <2>1, <3>1 DEF Line
    <2>2. CASE TakeFront(Worker)
      <3>1. q # <<>> /\ q' = Tail(q) /\ Hand' = <<Head(q)>>
        BY <1>1, <2>2, ObjectAssumption DEF TakeFront, Goto, Hand, ObjectTypeOK
      <3>2. executed \in Seq(Items) /\ executed \o <<>> = executed
        BY LineType, ConcatEmptySeq
      <3> QED
        BY <1>1, <1>2, <3>1, <3>2, FrontMoves DEF Line, ObjectTypeOK
    <2> QED
      BY <2>1, <2>2 DEF Pop
  <1> QED
    BY <1>1, <1>3, <1>4, KeepInv

LEMMA ExecuteInv ==
  ASSUME ObjectInv, Execute
  PROVE  LineInv'
  <1> USE DEF ObjectInv
  <1>1. Hand = <<item[Worker]>> /\ Hand' = <<>> /\ item[Worker] \in Items
    BY DEF Execute, Hand, Places
  <1>2. (executed \o Hand)' = executed \o Hand
    BY <1>1, LineType, Executed DEF Execute
  <1>3. Line' = Line
    BY <1>2 DEF Line, Execute, qvars
  <1> QED
    BY <1>3, KeepInv DEF Execute, qvars

LEMMA NextInv == ObjectInv /\ [Next]_vars => ObjectInv'
  <1> SUFFICES ASSUME ObjectInv, [Next]_vars PROVE ObjectInv'
    OBVIOUS
  <1>0. ObjectTypeOK' /\ Places'
    BY PlacesInv DEF ObjectInv
  <1> SUFFICES LineInv'
    BY <1>0 DEF ObjectInv
  <1>1. CASE Construct
    <2>1. Line' = Line
      BY <1>1 DEF Construct, Line, Hand, qvars, ObjectInv, Places
    <2> QED
      BY <1>1, <2>1, KeepInv DEF Construct, qvars
  <1>2. CASE Join \/ JoinGarbage
    <2>1. UNCHANGED <<qvars, started, worker, sent, executed>>
          /\ object' \notin {"construct", "use"}
      BY <1>2 DEF Join, JoinGarbage
    <2>2. Line' = Line
      BY <2>1 DEF Line, Hand, qvars
    <2> QED
      BY <2>1, <2>2, KeepInv DEF qvars
  <1>3. CASE Fetch
    <2>1. \A s \in Senders : pc'[s] = pc[s] /\ item'[s] = item[s]
      BY <1>3, ObjectAssumption DEF Fetch, Call, Goto, ObjectInv, ObjectTypeOK
    <2>2. Hand' = <<>> /\ Hand = <<>>
      BY <1>3, ObjectAssumption DEF Fetch, Call, Goto, Hand, ObjectInv, ObjectTypeOK
    <2>3. Line' = Line
      BY <1>3, <2>2 DEF Fetch, Call, Line
    <2> QED
      BY <1>3, <2>1, <2>3, KeepInv DEF Fetch
  <1>4. CASE Exit
    <2>1. Line' = Line
      BY <1>4 DEF Exit, Line, Hand, qvars
    <2> QED
      BY <1>4, <2>1, KeepInv DEF Exit, qvars
  <1>5. CASE SpuriousWakeup(Worker) /\ UNCHANGED objvars
    <2>1. \A s \in Senders : pc'[s] = pc[s] /\ item'[s] = item[s]
      BY <1>5, ObjectAssumption DEF SpuriousWakeup, Goto, ObjectInv, ObjectTypeOK
    <2>2. Line' = Line
      BY <1>5, ObjectAssumption
      DEF SpuriousWakeup, Goto, Line, Hand, objvars, ObjectInv, ObjectTypeOK
    <2> QED
      BY <1>5, <2>1, <2>2, KeepInv DEF objvars
  <1>6. CASE UNCHANGED vars
    <2>1. Line' = Line
      BY <1>6 DEF vars, qvars, objvars, Line, Hand
    <2> QED
      BY <1>6, <2>1, KeepInv DEF vars, qvars, objvars
  <1>7. ASSUME NEW t \in Threads, QueueStep(t)
        PROVE  LineInv'
    BY <1>7, WhoSteps, PushInv, PopInv DEF QueueStep, ObjectInv
  <1> QED
    BY <1>1, <1>2, <1>3, <1>4, <1>5, <1>6, <1>7, SendInv, DestroyInv, ExecuteInv
    DEF Next, ObjectStep, WorkerStep
-----------------------------------------------------------------------------
LEMMA ObjectInvariant == Spec => []ObjectInv
  BY InitInv, NextInv, PTL DEF Spec

(* Every thread is in a function it may be in, the mutex is free between   *)
(* steps, and the queue holds tasks.                                       *)
THEOREM ObjectTypeCorrect == Spec => []ObjectTypeOK
  <1>1. ObjectInv => ObjectTypeOK
    BY DEF ObjectInv
  <1> QED
    BY ObjectInvariant, <1>1, PTL

(* What is executed is the beginning of the line, so it keeps the line's   *)
(* order.                                                                  *)
THEOREM ObjectPerSenderOrder == Spec => []PerSenderOrder
  <1>1. ASSUME ObjectInv
        PROVE  PerSenderOrder
    <2>1. /\ Len(executed) \in Nat /\ Len(Line) \in Nat /\ Len(executed) <= Len(Line)
          /\ \A k \in 1 .. Len(executed) : Line[k] = executed[k]
      <3>1. ObjectTypeOK /\ Places
        BY <1>1 DEF ObjectInv
      <3>2. Len(Hand) \in Nat /\ Len(q) \in Nat /\ Len(executed) \in Nat
        BY <3>1, LineType, LenProperties DEF ObjectTypeOK
      <3> QED
        BY <3>1, <3>2, LineType
    <2>2. \A j, k \in 1 .. Len(executed) : executed[j] = executed[k] => j = k
      BY <1>1, <2>1 DEF ObjectInv, LineInv, InLine
    <2>3. ASSUME NEW s \in Senders, NEW i \in 1 .. Len(sent[s]), NEW j \in 1 .. Len(sent[s]),
                 i < j, NEW k \in 1 .. Len(executed), executed[k] = sent[s][j]
          PROVE  \E h \in 1 .. k - 1 : executed[h] = sent[s][i]
      <3>1. PICK h \in 1 .. k - 1 : Line[h] = sent[s][i]
        BY <1>1, <2>1, <2>3 DEF ObjectInv, LineInv, InOrder
      <3>2. executed[h] = sent[s][i]
        BY <2>1, <3>1
      <3> QED
        BY <3>2
    <2> QED
      BY <2>2, <2>3 DEF PerSenderOrder
  <1> QED
    BY ObjectInvariant, <1>1, PTL

(* When the join returns the worker has the empty task in hand.  It is the *)
(* last of the line, so all that was sent is before it: executed.          *)
THEOREM ObjectExecutedBeforeReturn == Spec => []ExecutedBeforeReturn
  <1>1. ASSUME ObjectInv, object = "deleted", started
        PROVE  worker = "exited" /\ Range(executed) = Sent
    <2> DEFINE n == Len(executed)
    <2>1. worker = "exited" /\ item[Worker] = Pill /\ pc[Worker] = "idle"
      BY <1>1 DEF ObjectInv, Places
    <2>2. Hand = <<Pill>> /\ Hand # <<>> /\ Len(Hand) = 1
      BY <2>1 DEF Hand
    <2>3. /\ n \in Nat /\ Len(Line) \in Nat /\ n + 1 <= Len(Line)
          /\ \A k \in 1 .. n : Line[k] = executed[k]
          /\ Line[n + 1] = Pill /\ executed \in Seq(Messages)
      <3>1. ObjectTypeOK /\ Places
        BY <1>1 DEF ObjectInv
      <3>2. Len(q) \in Nat /\ Len(executed) \in Nat
        BY <3>1, LenProperties DEF ObjectTypeOK
      <3> QED
        BY <2>1, <2>2, <3>1, <3>2, LineType DEF ObjectTypeOK
    <2> HIDE DEF n
    <2>4. Len(Line) = n + 1
      BY <1>1, <2>3 DEF ObjectInv, LineInv, PillLast
    <2>5. DOMAIN executed = 1 .. n /\ \A k \in 1 .. n : executed[k] # Pill
      BY <2>3, LenProperties, ElementOfSeq, ObjectAssumption DEF n
    <2>6. \A s \in Senders : DOMAIN sent[s] = 1 .. Len(sent[s])
                             /\ \A i \in 1 .. Len(sent[s]) : sent[s][i] # Pill
      BY <1>1, LenProperties, ElementOfSeq, ObjectAssumption DEF ObjectInv, ObjectTypeOK
    <2>7. ASSUME NEW m \in Range(executed)
          PROVE  m \in Sent
      <3>1. PICK k \in 1 .. n : m = executed[k]
        BY <2>5 DEF Range
      <3>a. k \in 1 .. Len(Line) /\ Line[k] # Pill
        BY <2>3, <2>4, <2>5
      <3>2. PICK s \in Senders : \E i \in 1 .. Len(sent[s]) : Line[k] = sent[s][i]
        BY <1>1, <3>a DEF ObjectInv, LineInv, InLine
      <3>3. m \in Range(sent[s])
        BY <2>3, <2>6, <3>1, <3>2 DEF Range
      <3> QED
        BY <3>3 DEF Sent
    <2>8. ASSUME NEW m \in Sent
          PROVE  m \in Range(executed)
      <3>1. PICK s \in Senders : m \in Range(sent[s])
        BY DEF Sent
      <3>2. PICK i \in 1 .. Len(sent[s]) : m = sent[s][i]
        BY <2>6, <3>1 DEF Range
      <3>3. pc[s] # "push"
        BY <1>1 DEF ObjectInv, Places
      <3>4. PICK k \in 1 .. Len(Line) : Line[k] = m
        BY <1>1, <3>2, <3>3 DEF ObjectInv, LineInv, Arrived
      <3>5. k \in 1 .. n
        BY <2>3, <2>4, <2>6, <3>2, <3>4
      <3> QED
        BY <2>3, <2>5, <3>4, <3>5 DEF Range
    <2> QED
      BY <2>1, <2>7, <2>8
  <1>2. ObjectInv => ExecutedBeforeReturn
    BY <1>1 DEF ExecutedBeforeReturn
  <1> QED
    BY ObjectInvariant, <1>2, PTL
=============================================================================
