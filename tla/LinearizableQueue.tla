------------------------- MODULE LinearizableQueue -------------------------
(***************************************************************************)
(* What thread_safe_queue<T> promises its callers: every operation of      *)
(* every thread takes effect at one instant between its call and its       *)
(* return, on one FIFO queue.  A pop may take effect only when there is    *)
(* something to take; the other operations never wait.  The mutex, the     *)
(* condition variable and the scheduling are not visible here.             *)
(***************************************************************************)
EXTENDS Sequences

CONSTANTS Threads,   (* the threads that call the queue                    *)
          Items,     (* the values of T that are pushed                    *)
          None       (* no value                                           *)

VARIABLES queue,   (* the contents, oldest first                           *)
          phase,   (* per thread: "idle", "pending" or "done"              *)
          op,      (* per thread: the operation called last                *)
          arg,     (* per thread: the argument of a push                   *)
          out,     (* per thread: the item a finished pop or try_pop gives *)
          flag     (* per thread: the bool of a finished try_pop, is_empty *)

vars == <<queue, phase, op, arg, out, flag>>

Operations == {"push", "pop", "try_pop", "is_empty"}

Init ==
  /\ queue = <<>>
  /\ phase = [t \in Threads |-> "idle"]
  /\ op \in [Threads -> Operations]
  /\ arg = [t \in Threads |-> None]
  /\ out = [t \in Threads |-> None]
  /\ flag = [t \in Threads |-> FALSE]

Invoke(t, o, v) ==
  /\ phase[t] = "idle"
  /\ phase' = [phase EXCEPT ![t] = "pending"]
  /\ op' = [op EXCEPT ![t] = o]
  /\ arg' = [arg EXCEPT ![t] = v]
  /\ UNCHANGED <<queue, out, flag>>

(* The instant at which t's operation takes effect.                        *)
Effect(t) ==
  /\ phase[t] = "pending"
  /\ phase' = [phase EXCEPT ![t] = "done"]
  /\ arg' = [arg EXCEPT ![t] = None]
  /\ \/ /\ op[t] = "push"
        /\ queue' = Append(queue, arg[t])
        /\ UNCHANGED <<out, flag>>
     \/ /\ op[t] \in {"pop", "try_pop"}
        /\ queue # <<>>
        /\ queue' = Tail(queue)
        /\ out' = [out EXCEPT ![t] = Head(queue)]
        /\ flag' = [flag EXCEPT ![t] = (op[t] = "try_pop")]
     \/ /\ op[t] = "try_pop"
        /\ queue = <<>>
        /\ UNCHANGED <<queue, out, flag>>
     \/ /\ op[t] = "is_empty"
        /\ flag' = [flag EXCEPT ![t] = (queue = <<>>)]
        /\ UNCHANGED <<queue, out>>
  /\ UNCHANGED op

Return(t) ==
  /\ phase[t] = "done"
  /\ phase' = [phase EXCEPT ![t] = "idle"]
  /\ out' = [out EXCEPT ![t] = None]
  /\ flag' = [flag EXCEPT ![t] = FALSE]
  /\ UNCHANGED <<queue, op, arg>>

Next ==
  \E t \in Threads :
    \/ \E v \in Items : Invoke(t, "push", v)
    \/ \E o \in Operations \ {"push"} : Invoke(t, o, None)
    \/ Effect(t)
    \/ Return(t)

Spec == Init /\ [][Next]_vars
=============================================================================
