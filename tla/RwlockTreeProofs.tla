-------------------------- MODULE RwlockTreeProofs --------------------------
(***************************************************************************)
(* RwlockTree proved for any number of threads, keys and nodes: no search  *)
(* meets a node that has not been written, the destructor deletes every    *)
(* node, and the tree implements LinearizableSet.                          *)
(*                                                                         *)
(* What holds the proof together is the relation "n is above m, or is m".  *)
(* It is not part of the model: the invariant says that there is a         *)
(* relation with the properties such an order has, and each step that      *)
(* changes the tree says how the next one comes from it.                   *)
(***************************************************************************)
EXTENDS RwlockTree, TLAPS

TreeTypeOK ==
  /\ root \in Pointers
  /\ heap \in [Nodes -> Cells \cup {Null}]
  /\ writer \in Threads \cup {Null} /\ readers \in SUBSET Threads
  /\ doomed \in SUBSET Nodes
  /\ object \in {"alive", "destroying", "destroyed"}
  /\ pc \in [Threads -> {"idle", "lock", "insert", "fill", "search", "unlock"}]
  /\ op \in [Threads -> {"insert", "search"}]
  /\ key \in [Threads -> Keys \cup {Null}]
  /\ found \in [Threads -> BOOLEAN]
  /\ leaf \in [Threads -> Pointers]

(* Whoever is in the tree has the lock its operation needs, and holds it   *)
(* until it unlocks; the destructor finds everybody gone.                  *)
LockInv ==
  /\ \A t \in Threads :
       /\ pc[t] \in {"insert", "fill"} => op[t] = "insert"
       /\ pc[t] = "search" => op[t] = "search"
       /\ writer = t <=> pc[t] \in {"insert", "fill", "unlock"} /\ op[t] = "insert"
       /\ t \in readers <=> pc[t] \in {"search", "unlock"} /\ op[t] = "search"
       /\ pc[t] # "idle" => key[t] \in Keys /\ object = "alive"
  /\ writer # Null => readers = {}

(* A node's fields are written, or the writer is about to write them.      *)
Filled(n) == heap[n].key \in Keys /\ heap[n].left \in Pointers /\ heap[n].right \in Pointers

NodesInv ==
  /\ \A n \in Allocated : Filled(n) \/ \E t \in Threads : pc[t] = "fill" /\ leaf[t] = n
  /\ \A t \in Threads :
       /\ pc[t] = "fill" => leaf[t] \in Allocated /\ heap[leaf[t]] = Blank
       /\ pc[t] \in {"insert", "search"} /\ leaf[t] # Null => leaf[t] \in Allocated

Kids(n) == {heap[n].left, heap[n].right} \cap Nodes

(* An order of the nodes: each is above its children and what they are     *)
(* above, and no two branches meet.                                        *)
Order(B) ==
  /\ B \subseteq Allocated \X Allocated
  /\ \A n, m \in Allocated :
       <<n, m>> \in B <=> n = m \/ \E c \in Kids(n) : <<c, m>> \in B
  /\ \A n, m, p \in Allocated :
       /\ <<n, m>> \in B /\ <<m, p>> \in B => <<n, p>> \in B
       /\ <<n, p>> \in B /\ <<m, p>> \in B => <<n, m>> \in B \/ <<m, n>> \in B
  /\ \A n \in Allocated :
       /\ Kids(n) \subseteq Allocated
       /\ \A c \in Kids(n) : <<c, n>> \notin B
       /\ \A m \in Allocated : ~(<<heap[n].left, m>> \in B /\ <<heap[n].right, m>> \in B)

(* Smaller keys to the left, the others to the right.                      *)
Sorted(B) ==
  \A n, m \in Allocated : Filled(n) /\ Filled(m) =>
    /\ <<heap[n].left, m>> \in B => heap[m].key < heap[n].key
    /\ <<heap[n].right, m>> \in B => ~(heap[m].key < heap[n].key)

(* All hang at the root, or at one of the nodes the destructor has left.   *)
Hanging(B) ==
  /\ object = "alive" =>
       /\ doomed = {}
       /\ root = Null => Allocated = {}
       /\ root # Null => root \in Allocated /\ \A m \in Allocated : <<root, m>> \in B
  /\ object # "alive" =>
       /\ doomed \subseteq Allocated
       /\ \A m \in Allocated : \E d \in doomed : <<d, m>> \in B
       /\ \A d, e \in doomed : \A m \in Allocated :
            <<d, m>> \in B /\ <<e, m>> \in B => d = e
  /\ object = "destroyed" => doomed = {}

(* The walk of an insert has gone the way its key goes, ...                *)
Walk(t, B) ==
  pc[t] \in {"insert", "fill"} =>
    /\ leaf[t] = Null => root = Null
    /\ \A a \in Allocated : a # leaf[t] /\ <<a, leaf[t]>> \in B =>
         /\ <<heap[a].left, leaf[t]>> \in B => key[t] < heap[a].key
         /\ <<heap[a].right, leaf[t]>> \in B => ~(key[t] < heap[a].key)

(* ... and a search has what it looks for below it, if it is anywhere.     *)
Seek(t, B) ==
  pc[t] = "search" =>
    \A m \in Allocated : heap[m].key = key[t] => leaf[t] # Null /\ <<leaf[t], m>> \in B

Shape(B) ==
  /\ Order(B) /\ Sorted(B) /\ Hanging(B)
  /\ \A t \in Threads : Walk(t, B) /\ Seek(t, B)

TreeInv ==
  /\ TreeTypeOK /\ LockInv /\ NodesInv
  /\ \E B \in SUBSET (Nodes \X Nodes) : Shape(B)
-----------------------------------------------------------------------------
LEMMA InitInv == Init => TreeInv
  <1> SUFFICES ASSUME Init PROVE TreeInv
    OBVIOUS
  <1>1. Allocated = {}
    BY DEF Init, Allocated
  <1>2. TreeTypeOK /\ LockInv
    BY NullAssumption DEF Init, TreeTypeOK, LockInv, Pointers
  <1>3. NodesInv
    BY <1>1 DEF Init, NodesInv
  <1>4. Shape({})
    BY <1>1 DEF Init, Shape, Order, Sorted, Hanging, Walk, Seek
  <1> QED
    BY <1>2, <1>3, <1>4 DEF TreeInv

(* While a thread walks, and once all have gone, every node is written.    *)
LEMMA AllFilled ==
  ASSUME TreeTypeOK, LockInv, NodesInv,
         object # "alive" \/ \E t \in Threads : pc[t] \in {"insert", "search"}
  PROVE  \A n \in Allocated : Filled(n)
  <1>1. ASSUME NEW u \in Threads, pc[u] = "fill"
        PROVE  FALSE
    BY <1>1, NullAssumption DEF TreeTypeOK, LockInv
  <1> QED
    BY <1>1 DEF NodesInv

LEMMA NodeTypes ==
  ASSUME TreeTypeOK, NEW n \in Allocated
  PROVE  /\ n \in Nodes /\ n # Null /\ heap[n] \in Cells
         /\ heap[n].left \in Pointers \cup {Unset} /\ heap[n].right \in Pointers \cup {Unset}
         /\ heap[n].key \in Keys \cup {Unset}
  BY NullAssumption DEF TreeTypeOK, Allocated, Cells

(* The step down: along a pointer of a node that is written.               *)
LEMMA ChildIs ==
  ASSUME TreeTypeOK, NodesInv, NEW n \in Allocated, Filled(n), NEW k \in Keys
  PROVE  /\ Child(k, n) \in Pointers
         /\ k < heap[n].key => Child(k, n) = heap[n].left
         /\ ~(k < heap[n].key) => Child(k, n) = heap[n].right
  BY DEF Filled, Child

LEMMA TypesInv ==
  ASSUME TreeTypeOK, LockInv, NodesInv, doomed \subseteq Allocated, [Next]_vars
  PROVE  TreeTypeOK' /\ LockInv'
  <1> USE NullAssumption DEF TreeTypeOK, LockInv, Goto, treevars, lockvars, callvars
  <1>a. Blank \in Cells
    BY DEF Blank, Cells
  <1>1. ASSUME NEW t \in Threads, NEW o \in {"insert", "search"}, NEW k \in Keys, Call(t, o, k)
        PROVE  TreeTypeOK' /\ LockInv'
    BY <1>1 DEF Call
  <1>2. ASSUME NEW t \in Threads, WriteLock(t)
        PROVE  TreeTypeOK' /\ LockInv'
    BY <1>2 DEF WriteLock
  <1>3. ASSUME NEW t \in Threads, ReadLock(t)
        PROVE  TreeTypeOK' /\ LockInv'
    BY <1>3 DEF ReadLock
  <1>4. ASSUME NEW t \in Threads, Descend(t)
        PROVE  TreeTypeOK' /\ LockInv'
    <2>1. Child(key[t], leaf[t]) \in Pointers
      BY <1>4, AllFilled, ChildIs DEF Descend, NodesInv
    <2> QED
      BY <1>4, <2>1 DEF Descend
  <1>5. ASSUME NEW t \in Threads, Link(t)
        PROVE  TreeTypeOK' /\ LockInv'
    <2>1. PICK n \in Nodes \ Allocated :
            Store(n, key[t], leaf[t]) /\ leaf' = [leaf EXCEPT ![t] = n]
      BY <1>5 DEF Link
    <2>2. heap' \in [Nodes -> Cells \cup {Null}] /\ root' \in Pointers
      <3>1. CASE leaf[t] = Null
        BY <1>a, <2>1, <3>1 DEF Store, Pointers
      <3>2. CASE leaf[t] # Null
        <4>1. leaf[t] \in Allocated /\ leaf[t] # n
          BY <1>5, <2>1, <3>2 DEF Link, NodesInv
        <4>2. heap[leaf[t]] \in Cells /\ n \in Pointers
          BY <4>1, NodeTypes DEF Pointers
        <4> DEFINE new == [heap EXCEPT ![n] = Blank]
        <4>3. new \in [Nodes -> Cells \cup {Null}] /\ new[leaf[t]] = heap[leaf[t]]
          BY <1>a, <4>1
        <4>4. [new[leaf[t]] EXCEPT !.left = n] \in Cells /\ [new[leaf[t]] EXCEPT !.right = n] \in Cells
          BY <4>2, <4>3 DEF Cells
        <4>5. \/ heap' = [new EXCEPT ![leaf[t]].left = n]
              \/ heap' = [new EXCEPT ![leaf[t]].right = n]
          BY <2>1, <3>2 DEF Store
        <4>6. root' \in Pointers
          BY <2>1, <3>2 DEF Store
        <4> HIDE DEF new
        <4> QED
          BY <4>3, <4>4, <4>5, <4>6
      <3> QED
        BY <3>1, <3>2
    <2>3. leaf' \in [Threads -> Pointers] /\ pc' = [pc EXCEPT ![t] = "fill"]
      BY <1>5, <2>1 DEF Link, Pointers
    <2>4. UNCHANGED <<lockvars, doomed, object, callvars>>
      BY <1>5 DEF Link
    <2> QED
      BY <1>5, <2>2, <2>3, <2>4 DEF Link
  <1>6. ASSUME NEW t \in Threads, Fill(t)
        PROVE  TreeTypeOK' /\ LockInv'
    <2>1. [key |-> key[t], left |-> Null, right |-> Null] \in Cells
      BY <1>6 DEF Fill, Cells, Pointers
    <2> QED
      BY <1>6, <2>1 DEF Fill
  <1>7. ASSUME NEW t \in Threads, Search(t)
        PROVE  TreeTypeOK' /\ LockInv'
    <2>1. leaf[t] # Null => Child(key[t], leaf[t]) \in Pointers
      BY <1>7, AllFilled, ChildIs DEF Search, NodesInv
    <2>2. CASE leaf[t] # Null /\ heap[leaf[t]].key # key[t]
      <3>1. leaf' \in [Threads -> Pointers]
        BY <1>7, <2>1, <2>2 DEF Search, Decide
      <3>2. UNCHANGED <<pc, found, op, key>>
        BY <1>7, <2>2 DEF Search, Decide
      <3>3. UNCHANGED <<treevars, lockvars, doomed, object>>
        BY <1>7 DEF Search
      <3> QED
        BY <3>1, <3>2, <3>3
    <2>3. CASE ~(leaf[t] # Null /\ heap[leaf[t]].key # key[t])
      <3>1. found' \in [Threads -> BOOLEAN]
        BY <1>7, <2>3 DEF Search, Decide
      <3>2. pc' = [pc EXCEPT ![t] = "unlock"] /\ leaf' = leaf
        BY <1>7, <2>3 DEF Search, Decide
      <3> QED
        BY <1>7, <3>1, <3>2 DEF Search
    <2> QED
      BY <2>2, <2>3
  <1>8. ASSUME NEW t \in Threads, Unlock(t)
        PROVE  TreeTypeOK' /\ LockInv'
    BY <1>8 DEF Unlock
  <1>9. CASE Destroy
    BY <1>9 DEF Destroy, Pointers
  <1>10. CASE DestroyTree
    <2>1. \A n \in Allocated : Filled(n)
      BY <1>10, AllFilled DEF DestroyTree
    <2>2. doomed' \in SUBSET Nodes
      BY <1>10, <2>1 DEF DestroyTree, Filled, Pointers
    <2>3. heap' \in [Nodes -> Cells \cup {Null}]
      BY <1>10 DEF DestroyTree
    <2> QED
      BY <1>10, <2>2, <2>3 DEF DestroyTree
  <1>11. CASE Destroyed
    BY <1>11 DEF Destroyed
  <1>12. CASE UNCHANGED vars
    BY <1>12 DEF vars
  <1> QED
    BY <1>1, <1>2, <1>3, <1>4, <1>5, <1>6, <1>7, <1>8, <1>9, <1>10, <1>11, <1>12 DEF Next, Step
-----------------------------------------------------------------------------
LEMMA Below ==
  ASSUME NEW B, Order(B), NEW n \in Allocated
  PROVE  <<n, n>> \in B /\ \A c \in Kids(n) : c \in Allocated /\ c # n /\ <<n, c>> \in B
  <1>1. <<n, n>> \in B
    BY DEF Order
  <1>2. ASSUME NEW c \in Kids(n)
        PROVE  c \in Allocated /\ <<c, c>> \in B /\ <<c, n>> \notin B
    BY <1>2 DEF Order
  <1>3. ASSUME NEW c \in Kids(n)
        PROVE  <<n, c>> \in B
    BY <1>2, <1>3 DEF Order
  <1> QED
    BY <1>1, <1>2, <1>3

LEMMA Antisymmetric ==
  ASSUME NEW B, Order(B), NEW n \in Allocated, NEW m \in Allocated,
         <<n, m>> \in B, <<m, n>> \in B
  PROVE  n = m
  <1> SUFFICES ASSUME n # m PROVE FALSE
    OBVIOUS
  <1>1. PICK c \in Kids(n) : <<c, m>> \in B
    BY DEF Order
  <1>2. c \in Allocated /\ <<c, n>> \notin B
    BY DEF Order
  <1> QED
    BY <1>1, <1>2 DEF Order

(* Two children above the same node are one child.                         *)
LEMMA OneBranch ==
  ASSUME NEW B, Order(B), NEW n \in Allocated, NEW m \in Allocated,
         NEW c \in Kids(n), NEW d \in Kids(n), <<c, m>> \in B, <<d, m>> \in B
  PROVE  c = d
  BY DEF Order, Kids

(* What is above a child is the child, its parent, or above the parent.    *)
LEMMA AboveChild ==
  ASSUME NEW B, Order(B), NEW n \in Allocated, NEW c \in Kids(n),
         NEW a \in Allocated, <<a, c>> \in B, a # c
  PROVE  <<a, n>> \in B
  <1> SUFFICES ASSUME <<a, n>> \notin B PROVE FALSE
    OBVIOUS
  <1>1. c \in Allocated /\ <<n, c>> \in B /\ <<c, c>> \in B
    BY Below
  <1>2. <<n, a>> \in B /\ n # a
    BY <1>1, Below DEF Order
  <1>3. PICK d \in Kids(n) : <<d, a>> \in B
    BY <1>2 DEF Order
  <1>4. d \in Allocated
    BY Below
  <1>5. <<d, c>> \in B
    BY <1>1, <1>3, <1>4 DEF Order
  <1>6. d = c
    BY <1>1, <1>5, OneBranch
  <1> QED
    BY <1>1, <1>3, <1>6, Antisymmetric

(* Going down does not change sides.                                       *)
LEMMA SameSide ==
  ASSUME NEW B, Order(B), NEW a \in Allocated, NEW n \in Allocated, NEW c \in Allocated,
         a # n, <<a, n>> \in B, <<n, c>> \in B,
         NEW d \in {heap[a].left, heap[a].right}, <<d, c>> \in B
  PROVE  <<d, n>> \in B
  <1>1. PICK e \in Kids(a) : <<e, n>> \in B
    BY DEF Order
  <1>2. e \in Allocated /\ <<e, c>> \in B
    BY <1>1 DEF Order
  <1>3. d \in Kids(a)
    BY DEF Order, Kids, Allocated
  <1> QED
    BY <1>1, <1>2, <1>3, OneBranch

LEMMA SameTree ==
  ASSUME NEW B, Order(B), Sorted(B), Hanging(B), UNCHANGED <<root, heap, doomed, object>>
  PROVE  Order(B)' /\ Sorted(B)' /\ Hanging(B)'
  <1>1. Allocated' = Allocated
    BY DEF Allocated
  <1>2. Order(B)'
    BY <1>1 DEF Order, Kids
  <1>3. Sorted(B)'
    BY <1>1 DEF Sorted, Filled
  <1> QED
    BY <1>1, <1>2, <1>3 DEF Hanging

(* The parts of the invariant about the tree, with the order at hand.      *)
Inv(B) == TreeTypeOK /\ LockInv /\ NodesInv /\ Shape(B)

LEMMA NothingDoomed ==
  ASSUME NEW B, Inv(B)
  PROVE  doomed \subseteq Allocated
  BY DEF Inv, Shape, Hanging

(* The steps that leave the tree alone.                                    *)
LEMMA WalkersInv ==
  ASSUME NEW B, Inv(B), UNCHANGED <<root, heap, doomed, object>>, NEW t \in Threads,
         \A u \in Threads \ {t} : UNCHANGED <<pc[u], key[u], leaf[u]>>,
         pc'[t] # "fill" /\ pc[t] # "fill",
         pc'[t] \in {"insert", "search"} /\ leaf'[t] # Null => leaf'[t] \in Allocated,
         Walk(t, B)', Seek(t, B)'
  PROVE  NodesInv' /\ Shape(B)'
  <1> USE DEF Inv, Shape
  <1>1. Allocated' = Allocated
    BY DEF Allocated
  <1>2. NodesInv'
    <2>1. ASSUME NEW n \in Allocated
          PROVE  Filled(n)' \/ \E u \in Threads : pc'[u] = "fill" /\ leaf'[u] = n
      BY DEF NodesInv, Filled
    <2>2. ASSUME NEW u \in Threads
          PROVE  /\ pc'[u] = "fill" => leaf'[u] \in Allocated /\ heap'[leaf'[u]] = Blank
                 /\ pc'[u] \in {"insert", "search"} /\ leaf'[u] # Null => leaf'[u] \in Allocated
      BY DEF NodesInv
    <2> QED
      BY <1>1, <2>1, <2>2 DEF NodesInv
  <1>3. ASSUME NEW u \in Threads
        PROVE  Walk(u, B)' /\ Seek(u, B)'
    <2>1. CASE u = t
      BY <2>1
    <2>2. CASE u # t
      BY <1>1, <2>2 DEF Walk, Seek
    <2> QED
      BY <2>1, <2>2
  <1> QED
    BY <1>2, <1>3, SameTree

LEMMA CallInv ==
  ASSUME NEW B, Inv(B), NEW t \in Threads, NEW o \in {"insert", "search"}, NEW k \in Keys,
         Call(t, o, k)
  PROVE  NodesInv' /\ Shape(B)'
  <1>1. pc[t] = "idle" /\ pc'[t] = "lock" /\ \A u \in Threads \ {t} : UNCHANGED <<pc[u], key[u], leaf[u]>>
    BY DEF Call, Goto, Inv, TreeTypeOK
  <1>2. Walk(t, B)' /\ Seek(t, B)'
    BY <1>1 DEF Walk, Seek
  <1> QED
    BY <1>1, <1>2, WalkersInv DEF Call, treevars

LEMMA WriteLockInv ==
  ASSUME NEW B, Inv(B), NEW t \in Threads, WriteLock(t)
  PROVE  NodesInv' /\ Shape(B)'
  <1> USE DEF Inv, Shape
  <1>1. /\ pc[t] = "lock" /\ pc'[t] = "insert" /\ leaf'[t] = root
        /\ \A u \in Threads \ {t} : UNCHANGED <<pc[u], key[u], leaf[u]>>
        /\ UNCHANGED <<root, heap, doomed, object, key>>
    BY DEF WriteLock, Goto, TreeTypeOK, treevars, callvars
  <1>2. object = "alive"
    BY <1>1 DEF LockInv
  <1>3. \A a \in Allocated : root # Null /\ <<a, root>> \in B => a = root
    BY <1>2, Antisymmetric DEF Hanging
  <1>4. root = Null => Allocated = {}
    BY <1>2 DEF Hanging
  <1>5. Allocated' = Allocated
    BY <1>1 DEF Allocated
  <1>6. Walk(t, B)' /\ Seek(t, B)'
    BY <1>1, <1>3, <1>4, <1>5 DEF Walk, Seek
  <1> QED
    BY <1>1, <1>2, <1>6, WalkersInv DEF Hanging

LEMMA ReadLockInv ==
  ASSUME NEW B, Inv(B), NEW t \in Threads, ReadLock(t)
  PROVE  NodesInv' /\ Shape(B)'
  <1> USE DEF Inv, Shape
  <1>1. /\ pc[t] = "lock" /\ pc'[t] = "search" /\ leaf'[t] = root
        /\ \A u \in Threads \ {t} : UNCHANGED <<pc[u], key[u], leaf[u]>>
        /\ UNCHANGED <<root, heap, doomed, object, key>>
    BY DEF ReadLock, Goto, TreeTypeOK, treevars, callvars
  <1>2. object = "alive"
    BY <1>1 DEF LockInv
  <1>3. Allocated' = Allocated
    BY <1>1 DEF Allocated
  <1>4. Walk(t, B)' /\ Seek(t, B)'
    BY <1>1, <1>2, <1>3 DEF Walk, Seek, Hanging
  <1> QED
    BY <1>1, <1>2, <1>4, WalkersInv DEF Hanging

LEMMA UnlockInv ==
  ASSUME NEW B, Inv(B), NEW t \in Threads, Unlock(t)
  PROVE  NodesInv' /\ Shape(B)'
  <1>1. /\ pc[t] = "unlock" /\ pc'[t] = "idle"
        /\ \A u \in Threads \ {t} : UNCHANGED <<pc[u], key[u], leaf[u]>>
        /\ UNCHANGED <<root, heap, doomed, object>>
    BY DEF Unlock, Goto, Inv, TreeTypeOK, treevars, callvars
  <1>2. Walk(t, B)' /\ Seek(t, B)'
    BY <1>1 DEF Walk, Seek
  <1> QED
    BY <1>1, <1>2, WalkersInv

LEMMA DescendInv ==
  ASSUME NEW B, Inv(B), NEW t \in Threads, Descend(t)
  PROVE  NodesInv' /\ Shape(B)'
  <1> USE DEF Inv, Shape
  <1> DEFINE n == leaf[t]
             c == Child(key[t], n)
  <1>1. /\ pc[t] = "insert" /\ pc'[t] = "insert" /\ n # Null /\ c # Null /\ leaf'[t] = c
        /\ \A u \in Threads \ {t} : UNCHANGED <<pc[u], key[u], leaf[u]>>
        /\ UNCHANGED <<root, heap, doomed, object, key>>
    BY DEF Descend, TreeTypeOK, treevars, callvars
  <1>2. n \in Allocated /\ Filled(n) /\ key[t] \in Keys
    BY <1>1, AllFilled DEF NodesInv, LockInv
  <1>3. /\ c \in Kids(n)
        /\ key[t] < heap[n].key => c = heap[n].left
        /\ ~(key[t] < heap[n].key) => c = heap[n].right
    BY <1>1, <1>2, ChildIs DEF Kids, Pointers
  <1>4. c \in Allocated /\ <<n, c>> \in B /\ <<c, c>> \in B
    BY <1>2, <1>3, Below
  <1> HIDE DEF n, c
  <1>5. ASSUME NEW a \in Allocated, a # c, <<a, c>> \in B
        PROVE  /\ <<heap[a].left, c>> \in B => key[t] < heap[a].key
               /\ <<heap[a].right, c>> \in B => ~(key[t] < heap[a].key)
    <2>1. <<a, n>> \in B
      BY <1>2, <1>3, <1>5, AboveChild
    <2>2. CASE a = n
      BY <1>2, <1>3, <1>4, <2>2 DEF Order
    <2>3. CASE a # n
      <3>1. /\ <<heap[a].left, n>> \in B => key[t] < heap[a].key
            /\ <<heap[a].right, n>> \in B => ~(key[t] < heap[a].key)
        BY <1>1, <2>1, <2>3 DEF Walk, n
      <3>2. ASSUME NEW d \in {heap[a].left, heap[a].right}, <<d, c>> \in B
            PROVE  <<d, n>> \in B
        BY <1>2, <1>4, <2>1, <2>3, <3>2, SameSide
      <3> QED
        BY <3>1, <3>2
    <2> QED
      BY <2>2, <2>3
  <1>6. Allocated' = Allocated
    BY <1>1 DEF Allocated
  <1>7. Walk(t, B)' /\ Seek(t, B)'
    BY <1>1, <1>5, <1>6 DEF Walk, Seek
  <1> QED
    BY <1>1, <1>4, <1>7, WalkersInv

(* What a search reads below its node tells where the key can be.          *)
LEMMA SeekStep ==
  ASSUME NEW B, Inv(B), NEW t \in Threads, pc[t] = "search", leaf[t] # Null,
         heap[leaf[t]].key # key[t]
  PROVE  /\ Child(key[t], leaf[t]) # Null => Child(key[t], leaf[t]) \in Allocated
         /\ \A m \in Allocated : heap[m].key = key[t] =>
               /\ Child(key[t], leaf[t]) # Null
               /\ <<Child(key[t], leaf[t]), m>> \in B
  <1> USE DEF Inv, Shape
  <1> DEFINE n == leaf[t]
             c == Child(key[t], n)
  <1>1. n \in Allocated /\ key[t] \in Keys
    BY DEF NodesInv, LockInv
  <1>2. \A m \in Allocated : Filled(m)
    BY AllFilled
  <1>3. /\ c \in Pointers
        /\ key[t] < heap[n].key => c = heap[n].left
        /\ ~(key[t] < heap[n].key) => c = heap[n].right
    BY <1>1, <1>2, ChildIs
  <1>4. c # Null => c \in Allocated
    BY <1>1, <1>3, Below DEF Kids, Pointers
  <1>5. ASSUME NEW m \in Allocated, heap[m].key = key[t]
        PROVE  c # Null /\ <<c, m>> \in B
    <2>1. <<n, m>> \in B /\ n # m
      BY <1>5 DEF Seek
    <2>2. PICK d \in Kids(n) : <<d, m>> \in B
      BY <1>1, <2>1 DEF Order
    <2>3. d \in Nodes /\ (d = heap[n].left \/ d = heap[n].right)
      BY DEF Kids
    <2>4. /\ d = heap[n].left => key[t] < heap[n].key
          /\ d = heap[n].right => ~(key[t] < heap[n].key)
      BY <1>1, <1>2, <1>5, <2>2 DEF Sorted
    <2>5. d = c
      BY <1>3, <2>3, <2>4
    <2> QED
      BY <2>2, <2>3, <2>5, NullAssumption
  <1> QED
    BY <1>4, <1>5

LEMMA SearchInv ==
  ASSUME NEW B, Inv(B), NEW t \in Threads, Search(t)
  PROVE  NodesInv' /\ Shape(B)'
  <1> USE DEF Inv, Shape
  <1>1. /\ pc[t] = "search" /\ \A u \in Threads \ {t} : UNCHANGED <<pc[u], key[u], leaf[u]>>
        /\ UNCHANGED <<root, heap, doomed, object, key>>
    BY DEF Search, Decide, Goto, TreeTypeOK, treevars
  <1>2. Allocated' = Allocated
    BY <1>1 DEF Allocated
  <1>3. CASE leaf[t] # Null /\ heap[leaf[t]].key # key[t]
    <2> DEFINE c == Child(key[t], leaf[t])
    <2>a. leaf' = [leaf EXCEPT ![t] = c] /\ UNCHANGED pc
      BY <1>3 DEF Search
    <2>1. pc'[t] = "search" /\ leaf'[t] = c
      <3> HIDE DEF c
      <3> QED
        BY <1>1, <2>a DEF TreeTypeOK
    <2>2. leaf'[t] # Null => leaf'[t] \in Allocated
      BY <1>1, <1>3, <2>1, SeekStep
    <2>3. Walk(t, B)'
      BY <2>1 DEF Walk
    <2>4. Seek(t, B)'
      BY <1>1, <1>2, <1>3, <2>1, SeekStep DEF Seek
    <2> QED
      BY <1>1, <2>1, <2>2, <2>3, <2>4, WalkersInv
  <1>4. CASE ~(leaf[t] # Null /\ heap[leaf[t]].key # key[t])
    <2>1. pc'[t] = "unlock"
      BY <1>4 DEF Search, Decide, Goto, TreeTypeOK
    <2>2. Walk(t, B)' /\ Seek(t, B)'
      BY <2>1 DEF Walk, Seek
    <2> QED
      BY <1>1, <2>1, <2>2, WalkersInv
  <1> QED
    BY <1>3, <1>4
-----------------------------------------------------------------------------
(* The insert: alone in the tree, it hangs a new node n below y.           *)
LEMMA Alone ==
  ASSUME NEW B, Inv(B), NEW t \in Threads, pc[t] \in {"insert", "fill"}
  PROVE  /\ object = "alive" /\ key[t] \in Keys
         /\ \A u \in Threads \ {t} : pc[u] \notin {"insert", "fill", "search"}
  <1>1. writer = t /\ readers = {} /\ object = "alive" /\ key[t] \in Keys
    BY NullAssumption DEF Inv, LockInv
  <1>2. ASSUME NEW u \in Threads \ {t}
        PROVE  pc[u] \notin {"insert", "fill", "search"}
    BY <1>1, <1>2 DEF Inv, LockInv
  <1> QED
    BY <1>1, <1>2

(* What hanging n at y does to the nodes, k being the key to insert.       *)
Hung(n, y, k) ==
  /\ n \in Nodes \ Allocated /\ y \in Allocated /\ Filled(y)
  /\ Allocated' = Allocated \cup {n}
  /\ heap'[n] = Blank
  /\ \A a \in Allocated : heap'[a].key = heap[a].key /\ (a # y => heap'[a] = heap[a])
  /\ \/ /\ k < heap[y].key
        /\ heap[y].left = Null /\ heap'[y].left = n /\ heap'[y].right = heap[y].right
     \/ /\ ~(k < heap[y].key)
        /\ heap[y].right = Null /\ heap'[y].right = n /\ heap'[y].left = heap[y].left

LEMMA LinkHangs ==
  ASSUME NEW B, Inv(B), NEW t \in Threads, Link(t), leaf[t] # Null
  PROVE  \E n \in Nodes \ Allocated :
           Hung(n, leaf[t], key[t]) /\ leaf' = [leaf EXCEPT ![t] = n] /\ root' = root
  <1> USE DEF Inv
  <1> DEFINE y == leaf[t]
  <1>1. PICK n \in Nodes \ Allocated :
          Store(n, key[t], leaf[t]) /\ leaf' = [leaf EXCEPT ![t] = n]
    BY DEF Link
  <1>2. y \in Allocated /\ Filled(y) /\ key[t] \in Keys /\ Child(key[t], y) = Null
    BY AllFilled DEF Link, NodesInv, LockInv
  <1>3. n # y /\ y \in Nodes /\ heap[y] \in Cells /\ Blank # Null
    BY <1>1, <1>2, NodeTypes, CellsAssumption DEF Blank, Cells
  <1> DEFINE new == [heap EXCEPT ![n] = Blank]
  <1>4. /\ new \in [Nodes -> Cells \cup {Null}] /\ new[y] = heap[y] /\ new[n] = Blank
        /\ \A a \in Nodes \ {n} : new[a] = heap[a]
    BY <1>3 DEF TreeTypeOK, Blank, Cells
  <1>5. /\ key[t] < heap[y].key => heap' = [new EXCEPT ![y].left = n]
        /\ ~(key[t] < heap[y].key) => heap' = [new EXCEPT ![y].right = n]
        /\ root' = root
    BY <1>1 DEF Store
  <1> HIDE DEF new, y
  <1>6. /\ [new[y] EXCEPT !.left = n].key = heap[y].key /\ [new[y] EXCEPT !.right = n].key = heap[y].key
        /\ [new[y] EXCEPT !.left = n].left = n /\ [new[y] EXCEPT !.left = n].right = heap[y].right
        /\ [new[y] EXCEPT !.right = n].right = n /\ [new[y] EXCEPT !.right = n].left = heap[y].left
        /\ [new[y] EXCEPT !.left = n] \in Cells /\ [new[y] EXCEPT !.right = n] \in Cells
    BY <1>3, <1>4 DEF Cells, Pointers
  <1>7. /\ key[t] < heap[y].key => heap' = [new EXCEPT ![y] = [new[y] EXCEPT !.left = n]]
        /\ ~(key[t] < heap[y].key) => heap' = [new EXCEPT ![y] = [new[y] EXCEPT !.right = n]]
    BY <1>5
  <1>8. /\ heap'[n] = Blank
        /\ \A a \in Nodes \ {n, y} : heap'[a] = heap[a]
        /\ key[t] < heap[y].key => heap'[y] = [new[y] EXCEPT !.left = n]
        /\ ~(key[t] < heap[y].key) => heap'[y] = [new[y] EXCEPT !.right = n]
    BY <1>3, <1>4, <1>7
  <1>9. Allocated' = Allocated \cup {n}
    BY <1>1, <1>2, <1>3, <1>6, <1>8, CellsAssumption DEF Allocated
  <1>10. \A a \in Allocated : heap'[a].key = heap[a].key /\ (a # y => heap'[a] = heap[a])
    BY <1>1, <1>6, <1>8 DEF Allocated
  <1>11. /\ key[t] < heap[y].key => heap[y].left = Null
         /\ ~(key[t] < heap[y].key) => heap[y].right = Null
    BY <1>2 DEF Child
  <1>12. Hung(n, y, key[t])
    BY <1>1, <1>2, <1>6, <1>8, <1>9, <1>10, <1>11 DEF Hung
  <1> QED
    BY <1>1, <1>5, <1>12 DEF y

(* The order with n below y and below all that is above y.                 *)
Extended(B, n, y) == B \cup (({a \in Allocated : <<a, y>> \in B} \cup {n}) \X {n})

LEMMA ExtendedIs ==
  ASSUME NEW B, Order(B), NEW n \in Nodes \ Allocated, NEW y, NEW a, NEW m
  PROVE  /\ <<a, m>> \in Extended(B, n, y) <=>
               <<a, m>> \in B \/ (m = n /\ (a = n \/ (a \in Allocated /\ <<a, y>> \in B)))
         /\ <<a, m>> \in B => a \in Allocated /\ m \in Allocated
  <1>1. <<a, m>> \in B => a \in Allocated /\ m \in Allocated
    BY DEF Order
  <1> QED
    BY <1>1 DEF Extended

LEMMA HungKids ==
  ASSUME TreeTypeOK, NEW n, NEW y, NEW k, Hung(n, y, k)
  PROVE  /\ Kids(n)' = {} /\ Kids(y)' = Kids(y) \cup {n}
         /\ \A a \in Allocated \ {y} : Kids(a)' = Kids(a)
  <1>1. n # y /\ Unset \notin Nodes /\ Null \notin Nodes
    BY NullAssumption DEF Hung
  <1>2. Kids(n)' = {}
    BY <1>1 DEF Hung, Blank, Kids
  <1>3. Kids(y)' = Kids(y) \cup {n}
    BY <1>1 DEF Hung, Kids
  <1>4. \A a \in Allocated \ {y} : Kids(a)' = Kids(a)
    BY DEF Hung, Kids
  <1> QED
    BY <1>2, <1>3, <1>4

LEMMA LinkOrder ==
  ASSUME TreeTypeOK, NEW B, Order(B), NEW n \in Nodes \ Allocated, NEW y \in Allocated,
         NEW k, Hung(n, y, k), NEW C, C = Extended(B, n, y)
  PROVE  Order(C)'
  <1>1. ASSUME NEW a, NEW m
        PROVE  /\ <<a, m>> \in C <=>
                     <<a, m>> \in B \/ (m = n /\ (a = n \/ (a \in Allocated /\ <<a, y>> \in B)))
               /\ <<a, m>> \in B => a \in Allocated /\ m \in Allocated
    BY ExtendedIs
  <1>2. Allocated' = Allocated \cup {n}
    BY DEF Hung
  <1>3. C \subseteq Allocated' \X Allocated'
    BY <1>2 DEF Extended, Order
  <1>4. /\ Kids(n)' = {} /\ Kids(y)' = Kids(y) \cup {n}
        /\ \A a \in Allocated \ {y} : Kids(a)' = Kids(a)
    BY HungKids
  <1>5. ASSUME NEW a \in Allocated', NEW m \in Allocated'
        PROVE  <<a, m>> \in C <=> (a = m \/ \E c \in Kids(a)' : <<c, m>> \in C)
    <2>1. CASE a = n
      BY <1>1, <1>4, <1>5, <2>1, <1>2
    <2>2. CASE a # n /\ m = n
      <3>1. <<a, m>> \in C <=> <<a, y>> \in B
        BY <1>1, <1>2, <2>2
      <3>2. <<a, y>> \in B <=> (a = y \/ \E c \in Kids(a) : <<c, y>> \in B)
        BY <1>2, <2>2 DEF Order
      <3>3. \A c \in Kids(a) : <<c, m>> \in C <=> <<c, y>> \in B
        BY <1>1, <1>2, <2>2 DEF Order
      <3>4. CASE a = y
        BY <1>1, <1>4, <2>2, <3>1, <3>2, <3>4
      <3>5. CASE a # y
        BY <1>2, <1>4, <2>2, <3>1, <3>2, <3>3, <3>5
      <3> QED
        BY <3>4, <3>5
    <2>3. CASE a # n /\ m # n
      <3>1. a \in Allocated /\ m \in Allocated
        BY <1>2, <2>3
      <3>2. <<a, m>> \in B <=> (a = m \/ \E c \in Kids(a) : <<c, m>> \in B)
        BY <3>1 DEF Order
      <3>3. \A c : <<c, m>> \in C <=> <<c, m>> \in B
        BY <1>1, <2>3
      <3>4. <<n, m>> \notin B
        BY <1>1
      <3> QED
        BY <1>4, <3>1, <3>2, <3>3, <3>4
    <2> QED
      BY <2>1, <2>2, <2>3
  <1>6. ASSUME NEW a \in Allocated', NEW m \in Allocated', NEW p \in Allocated'
        PROVE  /\ <<a, m>> \in C /\ <<m, p>> \in C => <<a, p>> \in C
               /\ <<a, p>> \in C /\ <<m, p>> \in C => <<a, m>> \in C \/ <<m, a>> \in C
    <2>a. \A u, v, w : <<u, v>> \in B /\ <<v, w>> \in B => <<u, w>> \in B
      BY <1>1 DEF Order
    <2>b. \A u, v, w \in Allocated :
            <<u, w>> \in B /\ <<v, w>> \in B => <<u, v>> \in B \/ <<v, u>> \in B
      BY DEF Order
    <2>1. ASSUME NEW u, NEW v
          PROVE  /\ v # n => (<<u, v>> \in C <=> <<u, v>> \in B)
                 /\ v = n => (<<u, v>> \in C <=> (u = n \/ <<u, y>> \in B))
                 /\ <<u, v>> \in B => u \in Allocated /\ v \in Allocated
      BY <1>1
    <2>2. CASE p = n
      <3>1. <<a, p>> \in C <=> (a = n \/ <<a, y>> \in B)
        BY <2>1, <2>2
      <3>2. <<m, p>> \in C <=> (m = n \/ <<m, y>> \in B)
        BY <2>1, <2>2
      <3>3. CASE m = n
        BY <2>1, <2>2, <3>3, <3>1
      <3>4. CASE m # n
        <4>1. <<a, m>> \in C <=> <<a, m>> \in B
          BY <2>1, <3>4
        <4>2. a # n => (<<m, a>> \in C <=> <<m, a>> \in B)
          BY <2>1
        <4>3. <<a, m>> \in B => a # n
          BY <2>1
        <4>4. a = n => (<<m, a>> \in C <=> <<m, y>> \in B)
          BY <2>1, <3>4
        <4>5. <<a, m>> \in B /\ <<m, y>> \in B => <<a, y>> \in B
          BY <2>a
        <4>6. <<a, y>> \in B /\ <<m, y>> \in B => <<a, m>> \in B \/ <<m, a>> \in B
          BY <2>1, <2>b
        <4> QED
          BY <3>1, <3>2, <3>4, <4>1, <4>2, <4>3, <4>4, <4>5, <4>6
      <3> QED
        BY <3>3, <3>4
    <2>3. CASE p # n
      <3>1. /\ <<a, p>> \in C <=> <<a, p>> \in B
            /\ <<m, p>> \in C <=> <<m, p>> \in B
        BY <2>1, <2>3
      <3>2. /\ <<a, p>> \in B => a \in Allocated /\ a # n
            /\ <<m, p>> \in B => m \in Allocated /\ m # n
        BY <2>1
      <3>3. m # n => (<<a, m>> \in C <=> <<a, m>> \in B)
        BY <2>1
      <3>4. a # n => (<<m, a>> \in C <=> <<m, a>> \in B)
        BY <2>1
      <3>5. <<a, m>> \in B /\ <<m, p>> \in B => <<a, p>> \in B
        BY <2>a
      <3>6. <<a, p>> \in B /\ <<m, p>> \in B => <<a, m>> \in B \/ <<m, a>> \in B
        BY <2>1, <2>b
      <3> QED
        BY <3>1, <3>2, <3>3, <3>4, <3>5, <3>6
    <2> QED
      BY <2>2, <2>3
  <1>7. ASSUME NEW a \in Allocated'
        PROVE  Kids(a)' \subseteq Allocated' /\ \A c \in Kids(a)' : <<c, a>> \notin C
    <2>1. CASE a = n
      BY <1>4, <2>1
    <2>2. CASE a # n
      <3>1. a \in Allocated /\ Kids(a) \subseteq Allocated /\ \A c \in Kids(a) : <<c, a>> \notin B
        BY <1>2, <2>2 DEF Order
      <3>2. Kids(a)' \subseteq Kids(a) \cup {n}
        BY <1>4, <3>1
      <3> QED
        BY <1>1, <1>2, <2>2, <3>1, <3>2
    <2> QED
      BY <2>1, <2>2
  <1>8. ASSUME NEW a \in Allocated', NEW m \in Allocated'
        PROVE  ~(<<heap'[a].left, m>> \in C /\ <<heap'[a].right, m>> \in C)
    <2>1. CASE a = n
      <3>1. heap'[a].left = Unset /\ Unset \notin Nodes
        BY <2>1, NullAssumption DEF Hung, Blank
      <3> QED
        BY <1>1, <3>1 DEF Allocated
    <2>2. CASE a = y
      <3>1. /\ n # y /\ Null \notin Nodes
            /\ \A c \in Kids(y) : <<c, y>> \notin B /\ c # n
        BY NullAssumption DEF Order
      <3>2. \A d \in {heap[y].left, heap[y].right} : <<d, y>> \notin B
        BY <1>1, <3>1 DEF Kids, Allocated
      <3>3. \/ heap'[y].left = n /\ heap'[y].right = heap[y].right
            \/ heap'[y].right = n /\ heap'[y].left = heap[y].left
        BY DEF Hung
      <3>4. \A d \in {heap[y].left, heap[y].right} : d # n
        BY <3>1, <1>1, NullAssumption DEF Kids
      <3> QED
        BY <1>1, <2>2, <3>1, <3>2, <3>3, <3>4
    <2>3. CASE a # n /\ a # y
      <3>1. a \in Allocated /\ heap'[a] = heap[a]
        BY <1>2, <2>3 DEF Hung
      <3>2. \A x \in Allocated : ~(<<heap[a].left, x>> \in B /\ <<heap[a].right, x>> \in B)
        BY <3>1 DEF Order
      <3>3. heap[a].left # n /\ heap[a].right # n
        BY <3>1 DEF Order, Kids
      <3> QED
        BY <1>1, <1>2, <3>1, <3>2, <3>3
    <2> QED
      BY <2>1, <2>2, <2>3
  <1> QED
    BY <1>3, <1>5, <1>6, <1>7, <1>8 DEF Order

LEMMA LinkBelowInv ==
  ASSUME NEW B, Inv(B), NEW t \in Threads, Link(t), leaf[t] # Null
  PROVE  NodesInv' /\ (\E C \in SUBSET (Nodes \X Nodes) : Shape(C))'
  <1> USE DEF Inv, Shape
  <1> DEFINE y == leaf[t]
             k == key[t]
  <1>1. PICK n \in Nodes \ Allocated :
          Hung(n, y, k) /\ leaf' = [leaf EXCEPT ![t] = n] /\ root' = root
    BY LinkHangs
  <1>2. PICK C : C = Extended(B, n, y)
    OBVIOUS
  <1>3. /\ pc[t] = "insert" /\ pc'[t] = "fill" /\ leaf'[t] = n
        /\ \A u \in Threads \ {t} : UNCHANGED <<pc[u], key[u], leaf[u]>>
        /\ UNCHANGED <<doomed, object, key>>
    BY <1>1 DEF Link, Goto, TreeTypeOK, callvars
  <1>4. y \in Allocated /\ Allocated' = Allocated \cup {n} /\ n \in Nodes
    BY <1>1 DEF Hung
  <1>5. object = "alive" /\ \A u \in Threads \ {t} : pc[u] \notin {"insert", "fill", "search"}
    BY <1>3, Alone
  <1>6. \A a \in Allocated : Filled(a)
    BY <1>3, AllFilled
  <1>h. /\ heap'[n] = Blank
        /\ \A a \in Allocated : heap'[a].key = heap[a].key /\ (a # y => heap'[a] = heap[a])
        /\ \/ /\ k < heap[y].key
              /\ heap[y].left = Null /\ heap'[y].left = n /\ heap'[y].right = heap[y].right
           \/ /\ ~(k < heap[y].key)
              /\ heap[y].right = Null /\ heap'[y].right = n /\ heap'[y].left = heap[y].left
    BY <1>1 DEF Hung
  <1> HIDE DEF y, k
  <1>7. ASSUME NEW a, NEW m
        PROVE  /\ m # n => (<<a, m>> \in C <=> <<a, m>> \in B)
               /\ m = n => (<<a, m>> \in C <=> (a = n \/ (a \in Allocated /\ <<a, y>> \in B)))
               /\ <<a, m>> \in B => a \in Allocated /\ m \in Allocated
    BY <1>2, ExtendedIs
  <1>8. Order(C)'
    BY <1>1, <1>2, <1>4, LinkOrder
  <1>9. Sorted(C)'
    <2> SUFFICES ASSUME NEW a \in Allocated', NEW m \in Allocated', Filled(a)', Filled(m)'
                 PROVE  /\ <<heap'[a].left, m>> \in C => heap'[m].key < heap'[a].key
                        /\ <<heap'[a].right, m>> \in C => ~(heap'[m].key < heap'[a].key)
      BY DEF Sorted
    <2>1. a # n /\ m # n
      BY <1>h, NullAssumption DEF Filled, Blank
    <2>2. a \in Allocated /\ m \in Allocated
      BY <1>4, <2>1
    <2>3. heap'[a].key = heap[a].key /\ heap'[m].key = heap[m].key
      BY <1>h, <2>2
    <2>4. <<n, m>> \notin C
      BY <1>1, <1>7, <2>1
    <2>5. /\ <<heap'[a].left, m>> \in C => <<heap[a].left, m>> \in B
          /\ <<heap'[a].right, m>> \in C => <<heap[a].right, m>> \in B
      <3>1. CASE a = y
        BY <1>h, <1>7, <2>1, <2>4, <3>1
      <3>2. CASE a # y
        BY <1>h, <1>7, <2>1, <2>2, <3>2
      <3> QED
        BY <3>1, <3>2
    <2> QED
      BY <1>6, <2>2, <2>3, <2>5 DEF Sorted
  <1>10. Hanging(C)'
    <2>1. root # Null /\ root \in Allocated /\ \A m \in Allocated : <<root, m>> \in B
      BY <1>4, <1>5 DEF Hanging
    <2>2. \A m \in Allocated' : <<root, m>> \in C
      BY <1>4, <1>7, <2>1
    <2> QED
      BY <1>1, <1>3, <1>4, <1>5, <2>1, <2>2 DEF Hanging
  <1>11. ASSUME NEW a \in Allocated', a # n, <<a, n>> \in C
         PROVE  /\ <<heap'[a].left, n>> \in C => k < heap'[a].key
                /\ <<heap'[a].right, n>> \in C => ~(k < heap'[a].key)
    <2>1. a \in Allocated /\ <<a, y>> \in B
      BY <1>4, <1>7, <1>11
    <2>2. CASE a = y
      <3>1. \A d \in {heap[y].left, heap[y].right} : d # n /\ <<d, y>> \notin B
        <4> SUFFICES ASSUME NEW d \in {heap[y].left, heap[y].right}
                     PROVE  d # n /\ <<d, y>> \notin B
          OBVIOUS
        <4>1. d \in Kids(y) \/ d \notin Nodes
          BY DEF Kids
        <4>2. CASE d \in Kids(y)
          BY <1>1, <1>4, <4>2 DEF Order
        <4>3. CASE d \notin Nodes
          BY <1>1, <1>7, <4>3 DEF Allocated
        <4> QED
          BY <4>1, <4>2, <4>3
      <3>2. \A d \in {heap[y].left, heap[y].right} : <<d, n>> \notin C
        BY <1>7, <3>1
      <3> QED
        BY <1>h, <1>4, <2>2, <3>2
    <2>3. CASE a # y
      <3>1. heap'[a] = heap[a] /\ heap[a].left # n /\ heap[a].right # n
        BY <1>1, <1>h, <2>1, <2>3 DEF Order, Kids
      <3>2. /\ <<heap[a].left, y>> \in B => k < heap[a].key
            /\ <<heap[a].right, y>> \in B => ~(k < heap[a].key)
        BY <1>3, <2>1, <2>3 DEF Walk, y, k
      <3> QED
        BY <1>7, <3>1, <3>2
    <2> QED
      BY <2>2, <2>3
  <1>12. ASSUME NEW u \in Threads
         PROVE  Walk(u, C)' /\ Seek(u, C)'
    <2>1. CASE u = t
      <3>1. n # Null
        BY <1>4, NullAssumption
      <3> QED
        BY <1>3, <1>11, <2>1, <3>1 DEF Walk, Seek, k
    <2>2. CASE u # t
      BY <1>3, <1>5, <2>2 DEF Walk, Seek
    <2> QED
      BY <2>1, <2>2
  <1>13. NodesInv'
    <2>1. ASSUME NEW a \in Allocated', a # n
          PROVE  Filled(a)'
      BY <1>4, <1>6, <1>h, <2>1 DEF Filled, Pointers
    <2> QED
      BY <1>3, <1>4, <1>5, <1>h, <2>1 DEF NodesInv
  <1>14. C \in SUBSET (Nodes \X Nodes)
    BY <1>8 DEF Order, Allocated
  <1> QED
    BY <1>8, <1>9, <1>10, <1>12, <1>13, <1>14

(* The first node.                                                         *)
LEMMA LinkRootInv ==
  ASSUME NEW B, Inv(B), NEW t \in Threads, Link(t), leaf[t] = Null
  PROVE  NodesInv' /\ (\E C \in SUBSET (Nodes \X Nodes) : Shape(C))'
  <1> USE DEF Inv, Shape
  <1>1. PICK n \in Nodes \ Allocated :
          Store(n, key[t], leaf[t]) /\ leaf' = [leaf EXCEPT ![t] = n]
    BY DEF Link
  <1>2. root' = n /\ heap' = [heap EXCEPT ![n] = Blank]
    BY <1>1 DEF Store
  <1>3. /\ pc[t] = "insert" /\ pc'[t] = "fill" /\ leaf'[t] = n
        /\ \A u \in Threads \ {t} : UNCHANGED <<pc[u], key[u], leaf[u]>>
        /\ UNCHANGED <<doomed, object, key>>
    BY <1>1 DEF Link, Goto, TreeTypeOK, callvars
  <1>4. object = "alive" /\ \A u \in Threads \ {t} : pc[u] \notin {"insert", "fill", "search"}
    BY <1>3, Alone
  <1>5. Allocated = {}
    BY <1>3, <1>4 DEF Walk, Hanging
  <1>6. heap'[n] = Blank /\ Blank # Null /\ n \in Nodes /\ n # Null /\ Unset \notin Nodes
    BY <1>2, NullAssumption, CellsAssumption DEF TreeTypeOK, Blank, Cells
  <1>7. Allocated' = {n}
    BY <1>1, <1>2, <1>5, <1>6 DEF Allocated, TreeTypeOK
  <1>8. NodesInv'
    BY <1>3, <1>4, <1>6, <1>7 DEF NodesInv
  <1> DEFINE C == {n} \X {n}
  <1>9. \A a, m : <<a, m>> \in C <=> a = n /\ m = n
    OBVIOUS
  <1>10. C \in SUBSET (Nodes \X Nodes) /\ C \subseteq {n} \X {n}
    BY <1>6
  <1> HIDE DEF C
  <1>11. heap'[n].left = Unset /\ heap'[n].right = Unset /\ heap'[n].key = Unset
    BY <1>6 DEF Blank
  <1>12. Kids(n)' = {}
    BY <1>6, <1>11 DEF Kids
  <1>13. Order(C)'
    BY <1>6, <1>7, <1>9, <1>10, <1>11, <1>12 DEF Order
  <1>14. Sorted(C)'
    BY <1>7, <1>11, NullAssumption DEF Sorted, Filled
  <1>15. Hanging(C)'
    BY <1>2, <1>3, <1>4, <1>6, <1>7, <1>9 DEF Hanging
  <1>16. ASSUME NEW u \in Threads
         PROVE  Walk(u, C)' /\ Seek(u, C)'
    BY <1>3, <1>4, <1>6, <1>7 DEF Walk, Seek
  <1> QED
    BY <1>8, <1>10, <1>13, <1>14, <1>15, <1>16

(* The new node gets its key: the walk has put it on the right sides.      *)
LEMMA FillInv ==
  ASSUME NEW B, Inv(B), NEW t \in Threads, Fill(t)
  PROVE  NodesInv' /\ Shape(B)'
  <1> USE DEF Inv, Shape
  <1> DEFINE n == leaf[t]
  <1>1. /\ pc[t] = "fill" /\ pc'[t] = "unlock"
        /\ heap' = [heap EXCEPT ![n] = [key |-> key[t], left |-> Null, right |-> Null]]
        /\ \A u \in Threads \ {t} : UNCHANGED <<pc[u], key[u], leaf[u]>>
        /\ UNCHANGED <<root, doomed, object, key, leaf>>
    BY DEF Fill, Goto, TreeTypeOK, callvars
  <1>2. /\ object = "alive" /\ key[t] \in Keys
        /\ \A u \in Threads \ {t} : pc[u] \notin {"insert", "fill", "search"}
    BY <1>1, Alone
  <1>3. n \in Allocated /\ heap[n] = Blank /\ n \in Nodes
    BY <1>1 DEF NodesInv, Allocated
  <1> HIDE DEF n
  <1>4. [key |-> key[t], left |-> Null, right |-> Null] \in Cells
    BY <1>2 DEF Cells, Pointers
  <1>5. /\ heap'[n] = [key |-> key[t], left |-> Null, right |-> Null] /\ heap'[n] # Null
        /\ \A a \in Nodes \ {n} : heap'[a] = heap[a]
    BY <1>1, <1>3, <1>4, CellsAssumption DEF TreeTypeOK
  <1>6. Allocated' = Allocated
    BY <1>3, <1>5 DEF Allocated
  <1>7. /\ heap'[n].key = key[t] /\ heap'[n].left = Null /\ heap'[n].right = Null
        /\ heap[n].left = Unset /\ heap[n].right = Unset
        /\ Unset \notin Nodes /\ Null \notin Nodes
    BY <1>3, <1>5, NullAssumption DEF Blank
  <1>8. \A a \in Allocated : Kids(a)' = Kids(a)
    BY <1>5, <1>7 DEF Kids, Allocated
  <1>9. \A m : <<Null, m>> \notin B /\ <<Unset, m>> \notin B
    BY <1>7 DEF Order, Allocated
  <1>10. \A a \in Allocated \ {n} : heap'[a] = heap[a]
    BY <1>5 DEF Allocated
  <1>11. Order(B)'
    <2>1. \A a, m \in Allocated' : ~(<<heap'[a].left, m>> \in B /\ <<heap'[a].right, m>> \in B)
      <3> TAKE a, m \in Allocated'
      <3>1. CASE a = n
        BY <1>7, <1>9, <3>1
      <3>2. CASE a # n
        <4>1. a \in Allocated /\ m \in Allocated /\ heap'[a] = heap[a]
          BY <1>6, <1>10, <3>2
        <4> QED
          BY <4>1 DEF Order
      <3> QED
        BY <3>1, <3>2
    <2>2. \A a, m \in Allocated' : <<a, m>> \in B <=> (a = m \/ \E c \in Kids(a)' : <<c, m>> \in B)
      <3> TAKE a, m \in Allocated'
      <3>1. a \in Allocated /\ m \in Allocated /\ Kids(a)' = Kids(a)
        BY <1>6, <1>8
      <3>2. <<a, m>> \in B <=> (a = m \/ \E c \in Kids(a) : <<c, m>> \in B)
        BY <3>1 DEF Order
      <3> QED
        BY <3>1, <3>2
    <2>3. \A a \in Allocated' : Kids(a)' \subseteq Allocated' /\ \A c \in Kids(a)' : <<c, a>> \notin B
      BY <1>6, <1>8 DEF Order
    <2>4. /\ B \subseteq Allocated' \X Allocated'
          /\ \A a, m, p \in Allocated' :
               /\ <<a, m>> \in B /\ <<m, p>> \in B => <<a, p>> \in B
               /\ <<a, p>> \in B /\ <<m, p>> \in B => <<a, m>> \in B \/ <<m, a>> \in B
      BY <1>6 DEF Order
    <2> QED
      BY <2>1, <2>2, <2>3, <2>4 DEF Order
  <1>12. Sorted(B)'
    <2> SUFFICES ASSUME NEW a \in Allocated', NEW m \in Allocated', Filled(a)', Filled(m)'
                 PROVE  /\ <<heap'[a].left, m>> \in B => heap'[m].key < heap'[a].key
                        /\ <<heap'[a].right, m>> \in B => ~(heap'[m].key < heap'[a].key)
      BY DEF Sorted
    <2>1. CASE a = n
      BY <1>7, <1>9, <2>1
    <2>2. CASE a # n /\ m = n
      <3>1. heap'[a] = heap[a] /\ heap'[m].key = key[t] /\ a \in Allocated
        BY <1>6, <1>7, <1>10, <2>2
      <3>2. <<heap[a].left, n>> \in B \/ <<heap[a].right, n>> \in B => <<a, n>> \in B
        <4>1. \A d : <<d, n>> \in B => d \in Nodes
          BY DEF Order, Allocated
        <4>2. \A d \in Kids(a) : <<d, n>> \in B => <<a, n>> \in B
          BY <1>3, <3>1 DEF Order
        <4> QED
          BY <4>1, <4>2 DEF Kids
      <3>3. /\ <<a, n>> \in B /\ <<heap[a].left, n>> \in B => key[t] < heap[a].key
            /\ <<a, n>> \in B /\ <<heap[a].right, n>> \in B => ~(key[t] < heap[a].key)
        BY <1>1, <2>2, <3>1 DEF Walk, n
      <3>4. /\ <<heap[a].left, n>> \in B => key[t] < heap[a].key
            /\ <<heap[a].right, n>> \in B => ~(key[t] < heap[a].key)
        BY <3>2, <3>3
      <3> QED
        BY <2>2, <3>1, <3>4
    <2>3. CASE a # n /\ m # n
      <3>1. heap'[a] = heap[a] /\ heap'[m] = heap[m] /\ a \in Allocated /\ m \in Allocated
        BY <1>6, <1>10, <2>3
      <3> QED
        BY <3>1 DEF Sorted, Filled
    <2> QED
      BY <2>1, <2>2, <2>3
  <1>13. Hanging(B)'
    BY <1>1, <1>6 DEF Hanging
  <1>14. ASSUME NEW u \in Threads
         PROVE  Walk(u, B)' /\ Seek(u, B)'
    BY <1>1, <1>2 DEF Walk, Seek
  <1>15. NodesInv'
    <2>1. \A a \in Allocated' : Filled(a)'
      <3>1. \A a \in Allocated \ {n} : Filled(a)
        BY <1>1, <1>2 DEF NodesInv, n
      <3> QED
        BY <1>2, <1>6, <1>7, <1>10, <3>1 DEF Filled, Pointers
    <2> QED
      BY <1>1, <1>2, <2>1 DEF NodesInv
  <1> QED
    BY <1>11, <1>12, <1>13, <1>14, <1>15
-----------------------------------------------------------------------------
(* The destructor.                                                         *)
LEMMA Gone ==
  ASSUME NEW B, Inv(B), object # "alive"
  PROVE  /\ \A n \in Allocated : Filled(n)
         /\ \A t \in Threads : pc[t] = "idle"
  BY AllFilled DEF Inv, LockInv

LEMMA DestroyInv ==
  ASSUME NEW B, Inv(B), Destroy
  PROVE  NodesInv' /\ Shape(B)'
  <1> USE DEF Inv, Shape
  <1>1. /\ object = "alive" /\ object' = "destroying" /\ doomed' = {root} \ {Null}
        /\ UNCHANGED <<root, heap, pc, key, leaf>>
    BY DEF Destroy, treevars, callvars
  <1>2. \A t \in Threads : pc[t] = "idle"
    BY DEF Destroy
  <1>3. Allocated' = Allocated
    BY <1>1 DEF Allocated
  <1>4. NodesInv'
    BY <1>1, <1>2, <1>3 DEF NodesInv, Filled
  <1>5. Order(B)' /\ Sorted(B)'
    BY <1>1, <1>3 DEF Order, Sorted, Kids, Filled
  <1>6. Hanging(B)'
    BY <1>1, <1>3 DEF Hanging
  <1>7. \A t \in Threads : Walk(t, B)' /\ Seek(t, B)'
    BY <1>1, <1>2 DEF Walk, Seek
  <1> QED
    BY <1>4, <1>5, <1>6, <1>7

LEMMA DestroyedInv ==
  ASSUME NEW B, Inv(B), Destroyed
  PROVE  NodesInv' /\ Shape(B)'
  <1> USE DEF Inv, Shape
  <1>1. /\ object = "destroying" /\ object' = "destroyed" /\ doomed = {}
        /\ UNCHANGED <<root, heap, doomed, pc, key, leaf>>
    BY DEF Destroyed, treevars, callvars
  <1>2. Allocated' = Allocated
    BY <1>1 DEF Allocated
  <1>3. NodesInv'
    BY <1>1, <1>2 DEF NodesInv, Filled
  <1>4. Order(B)' /\ Sorted(B)'
    BY <1>1, <1>2 DEF Order, Sorted, Kids, Filled
  <1>5. Hanging(B)'
    BY <1>1, <1>2 DEF Hanging
  <1>6. \A t \in Threads : Walk(t, B)' /\ Seek(t, B)'
    BY <1>1, <1>2 DEF Walk, Seek
  <1> QED
    BY <1>3, <1>4, <1>5, <1>6

(* A node that is to be deleted is no other node's child: the one it hangs *)
(* under would be above it as well.                                        *)
LEMMA DoomedTop ==
  ASSUME NEW B, Inv(B), object # "alive", NEW n \in doomed, NEW m \in Allocated
  PROVE  n \notin Kids(m)
  <1> USE DEF Inv, Shape
  <1> SUFFICES ASSUME n \in Kids(m) PROVE FALSE
    OBVIOUS
  <1>1. n \in Allocated /\ <<n, n>> \in B /\ <<m, n>> \in B /\ m # n
    BY Below DEF Hanging
  <1>2. PICK d \in doomed : <<d, m>> \in B
    BY DEF Hanging
  <1>3. d \in Allocated /\ <<d, n>> \in B
    BY <1>1, <1>2 DEF Hanging, Order
  <1>4. d = n
    BY <1>1, <1>3 DEF Hanging
  <1> QED
    BY <1>1, <1>2, <1>4, Antisymmetric

LEMMA DestroyTreeInv ==
  ASSUME NEW B, Inv(B), DestroyTree
  PROVE  NodesInv' /\ (\E C \in SUBSET (Nodes \X Nodes) : Shape(C))'
  <1> USE DEF Inv, Shape
  <1>1. PICK n \in doomed :
          /\ doomed' = ((doomed \ {n}) \cup {heap[n].left, heap[n].right}) \ {Null}
          /\ heap' = [heap EXCEPT ![n] = Null]
    BY DEF DestroyTree
  <1>2. object = "destroying" /\ UNCHANGED <<root, object, pc, key, leaf>>
    BY DEF DestroyTree, callvars
  <1>3. (\A a \in Allocated : Filled(a)) /\ \A t \in Threads : pc[t] = "idle"
    BY <1>2, Gone
  <1>4. n \in Allocated /\ doomed \subseteq Allocated
    BY <1>2 DEF Hanging
  <1>5. Allocated' = Allocated \ {n} /\ \A a \in Allocated' : heap'[a] = heap[a]
    BY <1>1, <1>4 DEF Allocated, TreeTypeOK
  <1>6. doomed' = (doomed \ {n}) \cup Kids(n)
    BY <1>1, <1>3, <1>4, NullAssumption DEF Filled, Kids, Pointers, Allocated
  <1>7. \A a \in Allocated : n \notin Kids(a) /\ Kids(a) \subseteq Allocated
    BY <1>2, DoomedTop DEF Order
  <1>8. \A a \in Allocated' : Kids(a)' = Kids(a)
    BY <1>5 DEF Kids
  <1> DEFINE C == B \cap ((Allocated \ {n}) \X (Allocated \ {n}))
  <1>9. ASSUME NEW a, NEW m
        PROVE  <<a, m>> \in C <=> (<<a, m>> \in B /\ a # n /\ m # n)
    BY DEF Order
  <1>10. C \in SUBSET (Nodes \X Nodes) /\ C \subseteq Allocated' \X Allocated'
    BY <1>5 DEF Allocated
  <1>p. PICK D : D = C
    OBVIOUS
  <1> HIDE DEF C
  <1>11. Order(D)'
    <2>1. \A a, m \in Allocated' : <<a, m>> \in C <=> (a = m \/ \E c \in Kids(a)' : <<c, m>> \in C)
      <3> TAKE a, m \in Allocated'
      <3>1. a \in Allocated /\ m \in Allocated /\ a # n /\ m # n /\ Kids(a)' = Kids(a)
        BY <1>5, <1>8
      <3>2. <<a, m>> \in B <=> (a = m \/ \E c \in Kids(a) : <<c, m>> \in B)
        BY <3>1 DEF Order
      <3>3. \A c \in Kids(a) : <<c, m>> \in C <=> <<c, m>> \in B
        BY <1>7, <1>9, <3>1
      <3> QED
        BY <1>9, <3>1, <3>2, <3>3
    <2>2. \A a \in Allocated' : Kids(a)' \subseteq Allocated' /\ \A c \in Kids(a)' : <<c, a>> \notin C
      BY <1>5, <1>7, <1>8, <1>9 DEF Order
    <2>3. \A a, m, p \in Allocated' :
            /\ <<a, m>> \in C /\ <<m, p>> \in C => <<a, p>> \in C
            /\ <<a, p>> \in C /\ <<m, p>> \in C => <<a, m>> \in C \/ <<m, a>> \in C
      <3> TAKE a, m, p \in Allocated'
      <3>1. a \in Allocated \ {n} /\ m \in Allocated \ {n} /\ p \in Allocated \ {n}
        BY <1>5
      <3>2. /\ <<a, m>> \in B /\ <<m, p>> \in B => <<a, p>> \in B
            /\ <<a, p>> \in B /\ <<m, p>> \in B => <<a, m>> \in B \/ <<m, a>> \in B
        BY <3>1 DEF Order
      <3> QED
        BY <1>9, <3>1, <3>2
    <2>4. \A a, m \in Allocated' : ~(<<heap'[a].left, m>> \in C /\ <<heap'[a].right, m>> \in C)
      <3> TAKE a, m \in Allocated'
      <3>1. a \in Allocated /\ m \in Allocated /\ heap'[a] = heap[a]
        BY <1>5
      <3>2. ~(<<heap[a].left, m>> \in B /\ <<heap[a].right, m>> \in B)
        BY <3>1 DEF Order
      <3> QED
        BY <1>9, <3>1, <3>2
    <2> QED
      BY <1>p, <1>10, <2>1, <2>2, <2>3, <2>4 DEF Order
  <1>12. Sorted(D)'
    BY <1>p, <1>5, <1>9 DEF Sorted, Filled
  <1>13. Hanging(D)'
    <2>1. doomed' \subseteq Allocated'
      BY <1>4, <1>5, <1>6, <1>7
    <2>2. ASSUME NEW m \in Allocated'
          PROVE  \E d \in doomed' : <<d, m>> \in C
      <3>1. m \in Allocated /\ m # n
        BY <1>5
      <3>2. PICK d \in doomed : <<d, m>> \in B
        BY <1>2, <3>1 DEF Hanging
      <3>3. CASE d # n
        BY <1>6, <1>9, <3>1, <3>2, <3>3
      <3>4. CASE d = n
        <4>1. PICK c \in Kids(n) : <<c, m>> \in B
          BY <1>4, <3>1, <3>2, <3>4 DEF Order
        <4> QED
          BY <1>4, <1>6, <1>7, <1>9, <3>1, <4>1
      <3> QED
        BY <3>3, <3>4
    <2>3. ASSUME NEW d \in doomed', NEW e \in doomed', NEW m \in Allocated',
                 <<d, m>> \in C, <<e, m>> \in C
          PROVE  d = e
      <3>1. m \in Allocated /\ <<d, m>> \in B /\ <<e, m>> \in B
        BY <1>5, <1>9, <2>3
      <3>2. \A c \in Kids(n) : <<c, m>> \in B => <<n, m>> \in B
        BY <1>4, <3>1 DEF Order
      <3>3. \A f \in doomed : <<n, m>> \in B /\ <<f, m>> \in B => f = n
        BY <1>2, <3>1 DEF Hanging
      <3>4. CASE d \in Kids(n) /\ e \in Kids(n)
        BY <1>4, <3>1, <3>4, OneBranch
      <3>5. CASE d \in doomed \ {n} /\ e \in doomed \ {n}
        BY <1>2, <3>1, <3>5 DEF Hanging
      <3> QED
        BY <1>6, <3>1, <3>2, <3>3, <3>4, <3>5
    <2> QED
      BY <1>p, <1>2, <2>1, <2>2, <2>3 DEF Hanging
  <1>14. \A t \in Threads : Walk(t, D)' /\ Seek(t, D)'
    BY <1>2, <1>3 DEF Walk, Seek
  <1>15. NodesInv'
    BY <1>2, <1>3, <1>5 DEF NodesInv, Filled
  <1> QED
    BY <1>p, <1>10, <1>11, <1>12, <1>13, <1>14, <1>15
-----------------------------------------------------------------------------
LEMMA NextInv == TreeInv /\ [Next]_vars => TreeInv'
  <1> SUFFICES ASSUME TreeInv, [Next]_vars PROVE TreeInv'
    OBVIOUS
  <1>1. PICK B \in SUBSET (Nodes \X Nodes) : Inv(B)
    BY DEF TreeInv, Inv
  <1>2. TreeTypeOK' /\ LockInv'
    BY <1>1, TypesInv, NothingDoomed DEF Inv
  <1> SUFFICES NodesInv' /\ (\E C \in SUBSET (Nodes \X Nodes) : Shape(C))'
    BY <1>2 DEF TreeInv
  <1>3. (NodesInv' /\ Shape(B)') => (NodesInv' /\ (\E C \in SUBSET (Nodes \X Nodes) : Shape(C))')
    OBVIOUS
  <1>4. ASSUME NEW t \in Threads, NEW o \in {"insert", "search"}, NEW k \in Keys, Call(t, o, k)
        PROVE  NodesInv' /\ Shape(B)'
    BY <1>1, <1>4, CallInv
  <1>5. ASSUME NEW t \in Threads, WriteLock(t) \/ ReadLock(t) \/ Unlock(t) \/ Descend(t) \/ Search(t) \/ Fill(t)
        PROVE  NodesInv' /\ Shape(B)'
    BY <1>1, <1>5, WriteLockInv, ReadLockInv, UnlockInv, DescendInv, SearchInv, FillInv
  <1>6. ASSUME NEW t \in Threads, Link(t)
        PROVE  NodesInv' /\ (\E C \in SUBSET (Nodes \X Nodes) : Shape(C))'
    BY <1>1, <1>6, LinkBelowInv, LinkRootInv
  <1>7. CASE Destroy \/ Destroyed
    BY <1>1, <1>3, <1>7, DestroyInv, DestroyedInv
  <1>8. CASE DestroyTree
    BY <1>1, <1>8, DestroyTreeInv
  <1>9. CASE UNCHANGED vars
    <2>1. UNCHANGED <<root, heap, doomed, object, pc, key, leaf>>
      BY <1>9 DEF vars, treevars, callvars
    <2>2. Allocated' = Allocated
      BY <2>1 DEF Allocated
    <2>3. NodesInv'
      BY <1>1, <2>1, <2>2 DEF Inv, NodesInv, Filled
    <2>4. \A t \in Threads : Walk(t, B)' /\ Seek(t, B)'
      BY <1>1, <2>1, <2>2 DEF Inv, Shape, Walk, Seek
    <2> QED
      BY <1>1, <1>3, <2>1, <2>3, <2>4, SameTree DEF Inv, Shape
  <1> QED
    BY <1>3, <1>4, <1>5, <1>6, <1>7, <1>8, <1>9 DEF Next, Step

LEMMA TreeInvariant == Spec => []TreeInv
  BY InitInv, NextInv, PTL DEF Spec

(* Every variable of the tree, its lock and its callers keeps its type:    *)
(* insert and search are never at anything but a node's address or null,   *)
(* whatever pointer they follow.                                           *)
THEOREM TreeTypeCorrect == Spec => []TreeTypeOK
  <1>1. TreeInv => TreeTypeOK
    BY DEF TreeInv
  <1> QED
    BY TreeInvariant, <1>1, PTL

(* A search never stands at a node whose fields insert has not written     *)
(* yet: the write lock covers both the link and the fill.                  *)
THEOREM TreeNoRawRead == Spec => []NoRawRead
  <1>1. TreeInv => NoRawRead
    <2> SUFFICES ASSUME TreeInv, NEW t \in Threads, pc[t] = "search", leaf[t] # Null
                 PROVE  leaf[t] \in Allocated /\ heap[leaf[t]].key # Unset
      BY DEF NoRawRead
    <2>1. leaf[t] \in Allocated
      BY DEF TreeInv, NodesInv
    <2>2. Filled(leaf[t])
      BY <2>1, AllFilled DEF TreeInv
    <2> QED
      BY <2>1, <2>2, NullAssumption DEF Filled
  <1> QED
    BY TreeInvariant, <1>1, PTL

(* destroy_tree deletes every node that was ever linked, each of them      *)
(* while it is still allocated.                                            *)
THEOREM TreeEveryNodeDeleted == Spec => []EveryNodeDeleted
  <1>1. TreeInv => EveryNodeDeleted
    <2> SUFFICES ASSUME TreeInv PROVE EveryNodeDeleted
      OBVIOUS
    <2>1. PICK B : Inv(B)
      BY DEF TreeInv, Inv
    <2> QED
      BY <2>1 DEF EveryNodeDeleted, Inv, Shape, Hanging
  <1> QED
    BY TreeInvariant, <1>1, PTL
-----------------------------------------------------------------------------
(* The refinement: what the set's caller sees of each step.                *)
LEMMA PhaseStep ==
  ASSUME TreeTypeOK, NEW t \in Threads, \A u \in Threads \ {t} : pc'[u] = pc[u]
  PROVE  [u \in Threads |-> PhaseOf(u)]' = [[u \in Threads |-> PhaseOf(u)] EXCEPT ![t] = PhaseOf(t)']
  <1>1. \A u \in Threads \ {t} : PhaseOf(u)' = PhaseOf(u)
    BY DEF PhaseOf
  <1> QED
    BY <1>1

LEMMA PhaseStutter ==
  ASSUME \A u \in Threads : PhaseOf(u)' = PhaseOf(u), UNCHANGED <<Contents, object, op, key, found>>
  PROVE  UNCHANGED KeySet!vars
  <1>1. [u \in Threads |-> PhaseOf(u)]' = [u \in Threads |-> PhaseOf(u)]
    OBVIOUS
  <1>2. (object = "alive")' = (object = "alive")
    OBVIOUS
  <1> QED
    BY <1>1, <1>2 DEF KeySet!vars

LEMMA SameContents ==
  ASSUME UNCHANGED <<heap, object>>
  PROVE  Contents' = Contents
  BY DEF Contents, Allocated

LEMMA CallSimulates ==
  ASSUME NEW B, Inv(B), NEW t \in Threads, NEW o \in {"insert", "search"}, NEW k \in Keys,
         Call(t, o, k)
  PROVE  KeySet!Invoke(t, o, k)
  <1>1. /\ pc[t] = "idle" /\ pc'[t] = "lock" /\ object = "alive"
        /\ \A u \in Threads \ {t} : pc'[u] = pc[u]
        /\ UNCHANGED <<heap, object>>
    BY DEF Call, Goto, Inv, TreeTypeOK, treevars
  <1>2. PhaseOf(t) = "idle" /\ PhaseOf(t)' = "pending"
    BY <1>1 DEF PhaseOf
  <1>3. [u \in Threads |-> PhaseOf(u)]' = [[u \in Threads |-> PhaseOf(u)] EXCEPT ![t] = "pending"]
    BY <1>1, <1>2, PhaseStep DEF Inv
  <1>4. Contents' = Contents
    BY <1>1, SameContents
  <1>5. [u \in Threads |-> PhaseOf(u)][t] = "idle" /\ (object = "alive")' = (object = "alive")
    BY <1>1, <1>2
  <1> QED
    BY <1>1, <1>3, <1>4, <1>5 DEF KeySet!Invoke, Call

(* The new node is not yet in the set, ...                                 *)
LEMMA LinkStutters ==
  ASSUME NEW B, Inv(B), NEW t \in Threads, Link(t)
  PROVE  UNCHANGED KeySet!vars
  <1>1. /\ pc[t] = "insert" /\ pc'[t] = "fill"
        /\ \A u \in Threads \ {t} : pc'[u] = pc[u]
        /\ UNCHANGED <<object, op, key, found>>
    BY DEF Link, Goto, Inv, TreeTypeOK, callvars
  <1>2. \A u \in Threads : PhaseOf(u)' = PhaseOf(u)
    BY <1>1 DEF PhaseOf
  <1>3. PICK n \in Nodes \ Allocated :
          /\ Allocated' = Allocated \cup {n} /\ heap'[n] = Blank
          /\ \A a \in Allocated : heap'[a].key = heap[a].key
    <2>1. CASE leaf[t] # Null
      BY <2>1, LinkHangs DEF Hung
    <2>2. CASE leaf[t] = Null
      <3>1. PICK n \in Nodes \ Allocated : heap' = [heap EXCEPT ![n] = Blank]
        BY <2>2 DEF Link, Store
      <3>2. Blank # Null
        BY CellsAssumption DEF Blank, Cells
      <3>3. heap'[n] = Blank /\ \A a \in Nodes \ {n} : heap'[a] = heap[a]
        BY <3>1 DEF Inv, TreeTypeOK
      <3> QED
        BY <3>2, <3>3 DEF Allocated
    <2> QED
      BY <2>1, <2>2
  <1>4. heap'[n].key = Unset
    BY <1>3 DEF Blank
  <1>5. {heap'[a].key : a \in Allocated'} \ {Unset} = {heap[a].key : a \in Allocated} \ {Unset}
    BY <1>3, <1>4
  <1>6. Contents' = Contents
    BY <1>1, <1>5 DEF Contents
  <1> QED
    BY <1>1, <1>2, <1>6, PhaseStutter

(* ... until it is filled in.                                              *)
LEMMA FillSimulates ==
  ASSUME NEW B, Inv(B), NEW t \in Threads, Fill(t)
  PROVE  KeySet!Effect(t)
  <1> USE DEF Inv
  <1> DEFINE n == leaf[t]
             filled == [key |-> key[t], left |-> Null, right |-> Null]
  <1>1. /\ pc[t] = "fill" /\ pc'[t] = "unlock" /\ op[t] = "insert" /\ object = "alive"
        /\ \A u \in Threads \ {t} : pc'[u] = pc[u]
        /\ heap' = [heap EXCEPT ![n] = filled]
        /\ UNCHANGED <<object, op, key, found>>
    BY DEF Fill, Goto, TreeTypeOK, LockInv, callvars
  <1>2. n \in Allocated /\ n \in Nodes /\ heap[n].key = Unset /\ key[t] \in Keys
    BY <1>1 DEF NodesInv, Allocated, Blank, LockInv
  <1>3. filled \in Cells
    BY <1>2 DEF Cells, Pointers
  <1>4. filled # Null /\ filled.key = key[t]
    BY <1>3, CellsAssumption
  <1> HIDE DEF n, filled
  <1>5. heap'[n] = filled /\ \A a \in Nodes \ {n} : heap'[a] = heap[a]
    BY <1>1, <1>2 DEF TreeTypeOK
  <1>6. Allocated' = Allocated
    BY <1>2, <1>4, <1>5 DEF Allocated
  <1>7. heap'[n].key = key[t] /\ \A a \in Allocated \ {n} : heap'[a].key = heap[a].key
    BY <1>4, <1>5 DEF Allocated
  <1>8. {heap'[a].key : a \in Allocated'} \ {Unset} = ({heap[a].key : a \in Allocated} \ {Unset}) \cup {key[t]}
    BY <1>2, <1>6, <1>7, NullAssumption
  <1>9. Contents' = Contents \cup {key[t]}
    BY <1>1, <1>8 DEF Contents
  <1>10. PhaseOf(t) = "pending" /\ PhaseOf(t)' = "done"
    BY <1>1 DEF PhaseOf
  <1>11. [u \in Threads |-> PhaseOf(u)]' = [[u \in Threads |-> PhaseOf(u)] EXCEPT ![t] = "done"]
    BY <1>1, <1>10, PhaseStep
  <1>12. [u \in Threads |-> PhaseOf(u)][t] = "pending" /\ (object = "alive")' = (object = "alive")
    BY <1>1, <1>10
  <1> QED
    BY <1>1, <1>9, <1>11, <1>12 DEF KeySet!Effect

(* A search decides on what is true of the set: its node has the key, or   *)
(* no node is left that could have it.                                     *)
LEMMA SearchSimulates ==
  ASSUME NEW B, Inv(B), NEW t \in Threads, Search(t)
  PROVE  KeySet!Effect(t) \/ UNCHANGED KeySet!vars
  <1> USE DEF Inv
  <1>1. /\ pc[t] = "search" /\ op[t] = "search" /\ object = "alive" /\ key[t] \in Keys
        /\ UNCHANGED <<heap, object, op, key>>
    BY DEF Search, LockInv, treevars
  <1>2. Contents' = Contents
    BY <1>1, SameContents
  <1>3. CASE leaf[t] # Null /\ heap[leaf[t]].key # key[t]
    <2>1. UNCHANGED <<pc, found>>
      BY <1>3 DEF Search, Decide
    <2>2. \A u \in Threads : PhaseOf(u)' = PhaseOf(u)
      BY <2>1 DEF PhaseOf
    <2> QED
      BY <1>1, <1>2, <2>1, <2>2, PhaseStutter
  <1>4. CASE ~(leaf[t] # Null /\ heap[leaf[t]].key # key[t])
    <2>1. pc' = [pc EXCEPT ![t] = "unlock"]
      BY <1>4 DEF Search, Decide, Goto
    <2>2. pc'[t] = "unlock" /\ \A u \in Threads \ {t} : pc'[u] = pc[u]
      BY <2>1 DEF TreeTypeOK
    <2>3. PhaseOf(t) = "pending" /\ PhaseOf(t)' = "done"
      BY <1>1, <2>2 DEF PhaseOf
    <2>4. [u \in Threads |-> PhaseOf(u)]' = [[u \in Threads |-> PhaseOf(u)] EXCEPT ![t] = "done"]
      BY <2>2, <2>3, PhaseStep
    <2>5. [u \in Threads |-> PhaseOf(u)][t] = "pending" /\ (object = "alive")' = (object = "alive")
      BY <1>1, <2>3
    <2>6. found' = [found EXCEPT ![t] = key[t] \in Contents]
      <3>1. CASE leaf[t] = Null
        <4>1. \A m \in Allocated : heap[m].key # key[t]
          BY <1>1, <3>1 DEF Shape, Seek
        <4>2. (key[t] \in Contents) = FALSE
          BY <1>1, <4>1 DEF Contents
        <4>3. found' = [found EXCEPT ![t] = FALSE]
          BY <3>1 DEF Search, Decide
        <4> QED
          BY <4>2, <4>3
      <3>2. CASE leaf[t] # Null
        <4>1. leaf[t] \in Allocated /\ heap[leaf[t]].key = key[t] /\ key[t] # Unset
          BY <1>1, <1>4, <3>2, NullAssumption DEF NodesInv
        <4>2. (key[t] \in Contents) = TRUE
          BY <1>1, <4>1 DEF Contents
        <4>3. found' = [found EXCEPT ![t] = TRUE]
          BY <1>4, <3>2 DEF Search, Decide
        <4> QED
          BY <4>2, <4>3
      <3> QED
        BY <3>1, <3>2
    <2> QED
      BY <1>1, <1>2, <2>4, <2>5, <2>6 DEF KeySet!Effect
  <1> QED
    BY <1>3, <1>4

LEMMA UnlockSimulates ==
  ASSUME NEW B, Inv(B), NEW t \in Threads, Unlock(t)
  PROVE  KeySet!Return(t)
  <1>1. /\ pc[t] = "unlock" /\ pc'[t] = "idle"
        /\ \A u \in Threads \ {t} : pc'[u] = pc[u]
        /\ UNCHANGED <<heap, object, op, key, found>>
    BY DEF Unlock, Goto, Inv, TreeTypeOK, treevars, callvars
  <1>2. PhaseOf(t) = "done" /\ PhaseOf(t)' = "idle"
    BY <1>1 DEF PhaseOf
  <1>3. [u \in Threads |-> PhaseOf(u)]' = [[u \in Threads |-> PhaseOf(u)] EXCEPT ![t] = "idle"]
    BY <1>1, <1>2, PhaseStep DEF Inv
  <1>4. [u \in Threads |-> PhaseOf(u)][t] = "done" /\ (object = "alive")' = (object = "alive")
    BY <1>1, <1>2
  <1> QED
    BY <1>1, <1>3, <1>4, SameContents DEF KeySet!Return

LEMMA DestroySimulates ==
  ASSUME NEW B, Inv(B), Destroy
  PROVE  KeySet!Destroy
  <1>1. /\ object = "alive" /\ object' = "destroying" /\ \A t \in Threads : pc[t] = "idle"
        /\ UNCHANGED <<pc, op, key, found>>
    BY DEF Destroy, callvars
  <1>2. \A t \in Threads : PhaseOf(t) = "idle" /\ PhaseOf(t)' = PhaseOf(t)
    BY <1>1 DEF PhaseOf
  <1>3. [t \in Threads |-> PhaseOf(t)]' = [t \in Threads |-> PhaseOf(t)]
    BY <1>2
  <1>4. \A t \in Threads : [u \in Threads |-> PhaseOf(u)][t] = "idle"
    BY <1>2
  <1>5. Contents' = {} /\ (object = "alive")' = FALSE
    BY <1>1 DEF Contents
  <1> QED
    BY <1>1, <1>3, <1>4, <1>5 DEF KeySet!Destroy

(* The steps that the set's caller does not see.                           *)
LEMMA OtherStepsStutter ==
  ASSUME NEW B, Inv(B),
         \/ \E t \in Threads : WriteLock(t) \/ ReadLock(t) \/ Descend(t)
         \/ DestroyTree \/ Destroyed \/ UNCHANGED vars
  PROVE  UNCHANGED KeySet!vars
  <1> USE DEF Inv
  <1>1. ASSUME NEW t \in Threads, WriteLock(t) \/ ReadLock(t)
        PROVE  UNCHANGED KeySet!vars
    <2>1. /\ pc[t] = "lock" /\ pc'[t] \in {"insert", "search"}
          /\ \A u \in Threads \ {t} : pc'[u] = pc[u]
          /\ UNCHANGED <<heap, object, op, key, found>>
      BY <1>1 DEF WriteLock, ReadLock, Goto, TreeTypeOK, treevars, callvars
    <2>2. \A u \in Threads : PhaseOf(u)' = PhaseOf(u)
      BY <2>1 DEF PhaseOf
    <2> QED
      BY <2>1, <2>2, SameContents, PhaseStutter
  <1>2. ASSUME NEW t \in Threads, Descend(t)
        PROVE  UNCHANGED KeySet!vars
    <2>1. UNCHANGED <<heap, object, pc, op, key, found>>
      BY <1>2 DEF Descend, treevars, callvars
    <2>2. \A u \in Threads : PhaseOf(u)' = PhaseOf(u)
      BY <2>1 DEF PhaseOf
    <2> QED
      BY <2>1, <2>2, SameContents, PhaseStutter
  <1>3. CASE DestroyTree \/ Destroyed
    <2>1. object # "alive" /\ object' # "alive" /\ UNCHANGED <<pc, op, key, found>>
      BY <1>3 DEF DestroyTree, Destroyed, callvars
    <2>2. \A u \in Threads : PhaseOf(u)' = PhaseOf(u)
      BY <2>1 DEF PhaseOf
    <2>3. [u \in Threads |-> PhaseOf(u)]' = [u \in Threads |-> PhaseOf(u)]
      BY <2>2
    <2>4. Contents' = Contents /\ (object = "alive")' = (object = "alive")
      BY <2>1 DEF Contents
    <2> QED
      BY <2>1, <2>3, <2>4 DEF KeySet!vars
  <1>4. CASE UNCHANGED vars
    <2>1. UNCHANGED <<heap, object, pc, op, key, found>>
      BY <1>4 DEF vars, treevars, callvars
    <2>2. \A u \in Threads : PhaseOf(u)' = PhaseOf(u)
      BY <2>1 DEF PhaseOf
    <2> QED
      BY <2>1, <2>2, SameContents, PhaseStutter
  <1> QED
    BY <1>1, <1>2, <1>3, <1>4

LEMMA InitSimulates == Init => KeySet!Init
  <1> SUFFICES ASSUME Init PROVE KeySet!Init
    OBVIOUS
  <1>1. Allocated = {}
    BY DEF Init, Allocated
  <1>2. Contents = {} /\ (object = "alive") = TRUE
    BY <1>1 DEF Contents, Init
  <1>3. [t \in Threads |-> PhaseOf(t)] = [t \in Threads |-> "idle"]
    BY DEF Init, PhaseOf
  <1> QED
    BY <1>2, <1>3 DEF Init, KeySet!Init

LEMMA NextSimulates == TreeInv /\ [Next]_vars => [KeySet!Next]_KeySet!vars
  <1> SUFFICES ASSUME TreeInv, [Next]_vars PROVE [KeySet!Next]_KeySet!vars
    OBVIOUS
  <1>1. PICK B : Inv(B)
    BY DEF TreeInv, Inv
  <1>2. ASSUME NEW t \in Threads, NEW o \in {"insert", "search"}, NEW k \in Keys, Call(t, o, k)
        PROVE  KeySet!Next
    BY <1>1, <1>2, CallSimulates DEF KeySet!Next
  <1>3. ASSUME NEW t \in Threads, Fill(t) \/ Search(t) \/ Unlock(t)
        PROVE  [KeySet!Next]_KeySet!vars
    BY <1>1, <1>3, FillSimulates, SearchSimulates, UnlockSimulates DEF KeySet!Next
  <1>4. ASSUME NEW t \in Threads, Link(t)
        PROVE  UNCHANGED KeySet!vars
    BY <1>1, <1>4, LinkStutters
  <1>5. CASE Destroy
    BY <1>1, <1>5, DestroySimulates DEF KeySet!Next
  <1>6. CASE \/ \E t \in Threads : WriteLock(t) \/ ReadLock(t) \/ Descend(t)
             \/ DestroyTree \/ Destroyed \/ UNCHANGED vars
    BY <1>1, <1>6, OtherStepsStutter
  <1> QED
    BY <1>2, <1>3, <1>4, <1>5, <1>6 DEF Next, Step

(* The tree under its read-write lock implements a set: whatever the       *)
(* interleaving, each insert and each search takes effect at one instant   *)
(* between its call and its return, and a search answers what was true at  *)
(* that instant.                                                           *)
THEOREM TreeIsLinearizable == Spec => Linearizable
  BY InitSimulates, NextSimulates, TreeInvariant, PTL DEF Spec, Linearizable, KeySet!Spec
=============================================================================
