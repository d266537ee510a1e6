----------------------------- MODULE RwlockTree -----------------------------
(***************************************************************************)
(* btree of day2/07a_rwlock_tree/pthread_rwlock.cpp: a binary search tree  *)
(* in the heap under a read-write lock.  A search walks the nodes one by   *)
(* one beside other searches; an insert walks to a null pointer, stores a  *)
(* new node there and fills in the node's fields afterwards.               *)
(***************************************************************************)
EXTENDS Integers, FiniteSets

CONSTANTS Threads,   (* the threads that call the tree                     *)
          Keys,      (* the ints they use                                  *)
          Nodes,     (* the heap: addresses that new can return            *)
          Null,      (* NULL                                               *)
          Unset      (* what a field holds before it is written            *)

ASSUME KeysAssumption == Keys \subseteq Int
ASSUME NullAssumption == {Null, Unset} \cap (Nodes \cup Threads \cup Keys) = {} /\ Null # Unset

(* What a pointer to a node can be, and what is at a node's address.       *)
Pointers == Nodes \cup {Null}
Cells == [key : Keys \cup {Unset}, left : Pointers \cup {Unset}, right : Pointers \cup {Unset}]

ASSUME CellsAssumption == Null \notin Cells

VARIABLES root,      (* btree::root                                        *)
          heap,      (* per address: the node there, or Null               *)
          writer,    (* rw_lock: the thread that has it for writing, ...   *)
          readers,   (* ... and those that have it for reading             *)
          doomed,    (* subtrees that destroy_tree has yet to visit        *)
          object,    (* the life of the btree                              *)
          pc, op, key, found,   (* per thread: the call it is in           *)
          leaf       (* per thread: the node its recursion is at           *)

lockvars == <<writer, readers>>
treevars == <<root, heap>>
callvars == <<op, key, found>>
vars == <<treevars, lockvars, doomed, object, pc, callvars, leaf>>

Allocated == {n \in Nodes : heap[n] # Null}
Goto(t, p) == pc' = [pc EXCEPT ![t] = p]

(* The pointer of node n that leads towards k.                             *)
Child(k, n) == IF k < heap[n].key THEN heap[n].left ELSE heap[n].right

(* Memory from new, and a pointer to it stored where leaf is null, or in   *)
(* the node leaf on the side of k.                                         *)
Blank == [key |-> Unset, left |-> Unset, right |-> Unset]

Store(n, k, l) ==
  LET new == [heap EXCEPT ![n] = Blank]
  IN  IF l = Null
      THEN root' = n /\ heap' = new
      ELSE /\ heap' = IF k < heap[l].key THEN [new EXCEPT ![l].left = n]
                                          ELSE [new EXCEPT ![l].right = n]
           /\ UNCHANGED root
-----------------------------------------------------------------------------
(* Mistakes that would be easy to make; nothing below uses them.           *)

(* search() does without the lock: readers change nothing.                 *)
SearchUnlocked(t) ==
  /\ pc[t] = "lock" /\ op[t] = "search"
  /\ leaf' = [leaf EXCEPT ![t] = root]
  /\ Goto(t, "search")
  /\ UNCHANGED <<treevars, lockvars, doomed, object, callvars>>

(* The new node takes the place of the subtree that was there.             *)
LinkAnywhere(t) ==
  /\ pc[t] = "insert"
  /\ \E n \in Nodes \ Allocated :
       Store(n, key[t], leaf[t]) /\ leaf' = [leaf EXCEPT ![t] = n]
  /\ Goto(t, "fill")
  /\ UNCHANGED <<lockvars, doomed, object, callvars>>

(* search() returns at once when it has found the key.                     *)
UnlockUnlessFound(t) ==
  /\ pc[t] = "unlock"
  /\ writer' = IF writer = t THEN Null ELSE writer
  /\ readers' = IF found[t] THEN readers ELSE readers \ {t}
  /\ Goto(t, "idle")
  /\ UNCHANGED <<treevars, doomed, object, callvars, leaf>>
-----------------------------------------------------------------------------
Init ==
  /\ root = Null
  /\ heap = [n \in Nodes |-> Null]
  /\ writer = Null /\ readers = {}
  /\ doomed = {}
  /\ object = "alive"
  /\ pc = [t \in Threads |-> "idle"]
  /\ op = [t \in Threads |-> "insert"]
  /\ key = [t \in Threads |-> Null]
  /\ found = [t \in Threads |-> FALSE]
  /\ leaf = [t \in Threads |-> Null]

Call(t, o, k) ==
  /\ object = "alive" /\ pc[t] = "idle"
  /\ op' = [op EXCEPT ![t] = o]
  /\ key' = [key EXCEPT ![t] = k]
  /\ found' = [found EXCEPT ![t] = FALSE]
  /\ Goto(t, "lock")
  /\ UNCHANGED <<treevars, lockvars, doomed, object, leaf>>

(* pthread_rwlock_wrlock, and the start at the root.                       *)
WriteLock(t) ==
  /\ pc[t] = "lock" /\ op[t] = "insert"
  /\ writer = Null /\ readers = {}
  /\ writer' = t
  /\ leaf' = [leaf EXCEPT ![t] = root]
  /\ Goto(t, "insert")
  /\ UNCHANGED <<treevars, readers, doomed, object, callvars>>

(* pthread_rwlock_rdlock, which lets a reader pass waiting writers.        *)
ReadLock(t) ==
  /\ pc[t] = "lock" /\ op[t] = "search"
  /\ writer = Null
  /\ readers' = readers \cup {t}
  /\ leaf' = [leaf EXCEPT ![t] = root]
  /\ Goto(t, "search")
  /\ UNCHANGED <<treevars, writer, doomed, object, callvars>>

(* insert(key, leaf->left) or insert(key, leaf->right)                     *)
Descend(t) ==
  /\ pc[t] = "insert" /\ leaf[t] # Null
  /\ Child(key[t], leaf[t]) # Null
  /\ leaf' = [leaf EXCEPT ![t] = Child(key[t], @)]
  /\ UNCHANGED <<treevars, lockvars, doomed, object, pc, callvars>>

(* leaf->left = new node, or the right one, or the root.                   *)
Link(t) ==
  /\ pc[t] = "insert"
  /\ leaf[t] # Null => Child(key[t], leaf[t]) = Null
  /\ \E n \in Nodes \ Allocated :
       Store(n, key[t], leaf[t]) /\ leaf' = [leaf EXCEPT ![t] = n]
  /\ Goto(t, "fill")
  /\ UNCHANGED <<lockvars, doomed, object, callvars>>

(* The new node's key_value, left and right.                               *)
Fill(t) ==
  /\ pc[t] = "fill"
  /\ heap' = [heap EXCEPT ![leaf[t]] = [key |-> key[t], left |-> Null, right |-> Null]]
  /\ Goto(t, "unlock")
  /\ UNCHANGED <<root, lockvars, doomed, object, callvars, leaf>>

(* search(key, leaf) ends at a null pointer or at the key, ...             *)
Decide(t, result) ==
  /\ found' = [found EXCEPT ![t] = result]
  /\ Goto(t, "unlock")
  /\ UNCHANGED leaf

(* ... and goes one level down otherwise.                                  *)
Search(t) ==
  /\ pc[t] = "search"
  /\ \/ leaf[t] = Null /\ Decide(t, FALSE)
     \/ leaf[t] # Null /\ heap[leaf[t]].key = key[t] /\ Decide(t, TRUE)
     \/ /\ leaf[t] # Null /\ heap[leaf[t]].key # key[t]
        /\ leaf' = [leaf EXCEPT ![t] = Child(key[t], @)]
        /\ UNCHANGED <<pc, found>>
  /\ UNCHANGED <<treevars, lockvars, doomed, object, op, key>>

Unlock(t) ==
  /\ pc[t] = "unlock"
  /\ writer' = IF writer = t THEN Null ELSE writer
  /\ readers' = readers \ {t}
  /\ Goto(t, "idle")
  /\ UNCHANGED <<treevars, doomed, object, callvars, leaf>>

(* ~btree, when the threads have been joined; the lock is free then.       *)
Destroy ==
  /\ object = "alive" /\ \A t \in Threads : pc[t] = "idle"
  /\ writer = Null /\ readers = {}
  /\ object' = "destroying"
  /\ doomed' = {root} \ {Null}
  /\ UNCHANGED <<treevars, lockvars, pc, callvars, leaf>>

(* destroy_tree(leaf): its subtrees are visited, and it is deleted.        *)
DestroyTree ==
  /\ object = "destroying"
  /\ \E n \in doomed :
       /\ doomed' = ((doomed \ {n}) \cup {heap[n].left, heap[n].right}) \ {Null}
       /\ heap' = [heap EXCEPT ![n] = Null]
  /\ UNCHANGED <<root, lockvars, object, pc, callvars, leaf>>

Destroyed ==
  /\ object = "destroying" /\ doomed = {}
  /\ object' = "destroyed"
  /\ UNCHANGED <<treevars, lockvars, doomed, pc, callvars, leaf>>

Step(t) ==
  \/ WriteLock(t) \/ Descend(t) \/ Link(t) \/ Fill(t)
  \/ ReadLock(t) \/ Search(t)
  \/ Unlock(t)

Next ==
  \/ \E t \in Threads :
       Step(t) \/ \E o \in {"insert", "search"}, k \in Keys : Call(t, o, k)
  \/ Destroy \/ DestroyTree \/ Destroyed

Spec == Init /\ [][Next]_vars
-----------------------------------------------------------------------------
(* No search stands at a node whose fields have not been written.          *)
NoRawRead ==
  \A t \in Threads : pc[t] = "search" /\ leaf[t] # Null =>
    leaf[t] \in Allocated /\ heap[leaf[t]].key # Unset

(* The destructor deletes each node that insert created, and none twice.   *)
EveryNodeDeleted ==
  /\ doomed \subseteq Allocated
  /\ object = "destroyed" => Allocated = {}

(* The calls take effect at one instant each on one set: an insert when it *)
(* fills in its node, a search when it decides on its result.              *)
Contents == IF object = "alive" THEN {heap[n].key : n \in Allocated} \ {Unset} ELSE {}
PhaseOf(t) == IF pc[t] = "idle" THEN "idle" ELSE IF pc[t] = "unlock" THEN "done" ELSE "pending"

KeySet == INSTANCE LinearizableSet WITH
  keys <- Contents, alive <- object = "alive", phase <- [t \in Threads |-> PhaseOf(t)], arg <- key
Linearizable == KeySet!Spec
=============================================================================
