--------------------------- MODULE LinearizableSet ---------------------------
(***************************************************************************)
(* What btree promises its callers: a set that only grows, each insert and *)
(* each search taking effect at one instant between call and return, until *)
(* the object is destroyed with no call in progress.  The tree, its nodes  *)
(* and the read-write lock are not visible here.                           *)
(***************************************************************************)
CONSTANTS Threads,   (* the threads that call the tree                     *)
          Keys,      (* the keys                                           *)
          Null       (* no key                                             *)

VARIABLES keys,    (* the set                                              *)
          alive,   (* the object exists                                    *)
          phase,   (* per thread: "idle", "pending" or "done"              *)
          op,      (* per thread: the operation called last                *)
          arg,     (* per thread: its key                                  *)
          found    (* per thread: what a finished search says              *)

vars == <<keys, alive, phase, op, arg, found>>

Init ==
  /\ keys = {}
  /\ alive = TRUE
  /\ phase = [t \in Threads |-> "idle"]
  /\ op \in [Threads -> {"insert", "search"}]
  /\ arg = [t \in Threads |-> Null]
  /\ found = [t \in Threads |-> FALSE]

Invoke(t, o, k) ==
  /\ alive /\ phase[t] = "idle"
  /\ phase' = [phase EXCEPT ![t] = "pending"]
  /\ op' = [op EXCEPT ![t] = o]
  /\ arg' = [arg EXCEPT ![t] = k]
  /\ found' = [found EXCEPT ![t] = FALSE]
  /\ UNCHANGED <<keys, alive>>

(* The instant at which t's operation takes effect.                        *)
Effect(t) ==
  /\ phase[t] = "pending"
  /\ phase' = [phase EXCEPT ![t] = "done"]
  /\ \/ op[t] = "insert" /\ keys' = keys \cup {arg[t]} /\ UNCHANGED found
     \/ op[t] = "search" /\ found' = [found EXCEPT ![t] = arg[t] \in keys] /\ UNCHANGED keys
  /\ UNCHANGED <<alive, op, arg>>

Return(t) ==
  /\ phase[t] = "done"
  /\ phase' = [phase EXCEPT ![t] = "idle"]
  /\ UNCHANGED <<keys, alive, op, arg, found>>

Destroy ==
  /\ alive
  /\ \A t \in Threads : phase[t] = "idle"
  /\ alive' = FALSE /\ keys' = {}
  /\ UNCHANGED <<phase, op, arg, found>>

Next ==
  \/ \E t \in Threads :
       \/ \E o \in {"insert", "search"}, k \in Keys : Invoke(t, o, k)
       \/ Effect(t)
       \/ Return(t)
  \/ Destroy

Spec == Init /\ [][Next]_vars
=============================================================================
