--------------------------- MODULE ForkJoinProofs ---------------------------
(***************************************************************************)
(* Proofs about the programs that split their input among threads, and     *)
(* about the files of the one that works on pictures.                      *)
(*                                                                         *)
(* ForkJoin, for inputs of every length and for any number of threads: the *)
(* blocks are disjoint and cover what they should, no item is counted      *)
(* twice, and the result has every item that was given to a thread.        *)
(*                                                                         *)
(* PixelMaps, for pictures of every size: what WritePPM has written of a   *)
(* picture, after each turn of its loops, and that ReadPPM reads it back.  *)
(***************************************************************************)
EXTENDS ForkJoin, PixelMaps, SequenceTheorems, TLAPS

(* A division rounds down.                                                 *)
LEMMA DivisionBound == \A n \in Nat \ {0}, l \in Nat : l \div n \in Nat /\ n * (l \div n) <= l
  BY SMTT(20)

(* Blocks of one size lie one behind the other.                            *)
LEMMA BlocksInOrder == \A t, u, b \in Nat : t < u => t * b + b <= u * b
  BY SMTT(20)

(* Each number below n * b is in one of n blocks of size b.                *)
LEMMA BlockOfNumber ==
  ASSUME NEW n \in Nat \ {0}, NEW b \in Nat, NEW k \in Nat, k < n * b
  PROVE  \E t \in 0 .. n - 1 : t * b <= k /\ k < t * b + b
<1>1. b > 0
  BY SMTT(20)
<1> DEFINE q == k \div b
<1>2. q \in Nat /\ q * b <= k /\ k < q * b + b
  BY <1>1, SMTT(20)
<1>3. q \in 0 .. n - 1
  BY <1>1, <1>2, SMTT(20)
<1> HIDE DEF q
<1> QED
  BY <1>2, <1>3

(* Where the block of thread t begins and ends.                            *)
Low(t) == t * Block
High(t) == IF program = "sum" /\ t = N - 1 THEN len ELSE t * Block + Block
InputOK == program \in Programs /\ len \in Lengths

(* The blocks of the three programs: ranges of the input, in order and     *)
(* disjoint, which together are the items below Covered.                   *)
LEMMA Blocks ==
  ASSUME InputOK
  PROVE  /\ N \in Nat \ {0} /\ len \in Nat /\ Block \in Nat
         /\ Covered \in Nat /\ Covered <= len
         /\ \A t \in 0 .. N : Low(t) \in 0 .. len
         /\ \A t \in Threads : /\ High(t) \in Low(t) .. Covered
                               /\ Low(t + 1) = Low(t) + Block
                               /\ ~(program = "sum" /\ t = N - 1) => High(t) = Low(t) + Block
         /\ \A t, u \in Threads : t < u => High(t) <= Low(u)
         /\ \A k \in Items : k < Covered =>
              \E t \in Threads : Low(t) <= k /\ k < High(t)
<1> DEFINE n == N  b == Block
<1>1. n \in Nat \ {0} /\ len \in Nat
  BY LengthsAssumption, WorkersAssumption DEF InputOK, N
<1>2. b \in Nat /\ n * b <= len
  BY <1>1, DivisionBound DEF Block
<1> HIDE DEF n, b
<1>3. n * b \in Nat
  BY <1>1, <1>2, SMTT(20)
<1>4. \A t \in Nat : t * b \in Nat /\ (t + 1) * b = t * b + b
  BY <1>2, SMTT(20)
<1>5. \A t \in 0 .. n : t * b <= n * b
  BY <1>1, <1>2, <1>4, BlocksInOrder
<1>6. \A t \in 0 .. n - 1 : t * b + b <= n * b
  BY <1>1, <1>2, BlocksInOrder
<1>7. \A t, u \in 0 .. n - 1 : t < u => t * b + b <= u * b
  BY <1>1, <1>2, BlocksInOrder
<1>8. \A k \in Items : k < n * b => \E t \in 0 .. n - 1 : t * b <= k /\ k < t * b + b
  <2> SUFFICES ASSUME NEW k \in Items, k < n * b
               PROVE  \E t \in 0 .. n - 1 : t * b <= k /\ k < t * b + b
    OBVIOUS
  <2>1. k \in Nat
    BY <1>1 DEF Items
  <2> QED
    BY <1>1, <1>2, <2>1, BlockOfNumber
<1>a. Covered \in Nat /\ Covered <= len /\ n * b <= Covered
  BY <1>1, <1>2, <1>3 DEF Covered, n, b
<1>b. \A t \in 0 .. n : Low(t) \in 0 .. len
  BY <1>1, <1>2, <1>3, <1>4, <1>5 DEF Low, b
<1>c. \A t \in Threads : /\ High(t) \in Low(t) .. Covered
                         /\ Low(t + 1) = Low(t) + b
                         /\ ~(program = "sum" /\ t = n - 1) => High(t) = Low(t) + b
  <2> SUFFICES ASSUME NEW t \in Threads
               PROVE  /\ High(t) \in Low(t) .. Covered
                      /\ Low(t + 1) = Low(t) + b
                      /\ ~(program = "sum" /\ t = n - 1) => High(t) = Low(t) + b
    OBVIOUS
  <2>1. t \in 0 .. n - 1 /\ t \in 0 .. n /\ t \in Nat
    BY <1>1 DEF Threads, n
  <2>2. Low(t) = t * b /\ Low(t + 1) = (t + 1) * b
    BY DEF Low, b
  <2>3. CASE program = "sum" /\ t = n - 1
    <3>1. High(t) = len /\ Covered = len
      BY <2>3 DEF High, Covered, n
    <3> QED
      BY <1>1, <1>2, <1>4, <1>b, <2>1, <2>2, <2>3, <3>1
  <2>4. CASE ~(program = "sum" /\ t = n - 1)
    <3>1. High(t) = t * b + b
      BY <2>4 DEF High, n, b
    <3> QED
      BY <1>2, <1>3, <1>4, <1>6, <1>a, <2>1, <2>2, <2>4, <3>1
  <2> QED
    BY <2>3, <2>4
<1>d. \A t, u \in Threads : t < u => High(t) <= Low(u)
  <2> SUFFICES ASSUME NEW t \in Threads, NEW u \in Threads, t < u
               PROVE  High(t) <= Low(u)
    OBVIOUS
  <2>1. t \in 0 .. n - 1 /\ u \in 0 .. n - 1 /\ t # n - 1
    BY <1>1 DEF Threads, n
  <2>2. High(t) = t * b + b /\ Low(u) = u * b
    BY <2>1 DEF High, Low, n, b
  <2> QED
    BY <1>7, <2>1, <2>2
<1>e. \A k \in Items : k < Covered => \E t \in Threads : Low(t) <= k /\ k < High(t)
  <2> SUFFICES ASSUME NEW k \in Items, k < Covered
               PROVE  \E t \in Threads : Low(t) <= k /\ k < High(t)
    OBVIOUS
  <2>1. Threads = 0 .. n - 1 /\ k \in Nat /\ k < len
    BY <1>1 DEF Threads, n, Items
  <2>2. CASE k < n * b
    <3>1. PICK t \in 0 .. n - 1 : t * b <= k /\ k < t * b + b
      BY <1>8, <2>2
    <3>2. Low(t) = t * b /\ (High(t) = len \/ High(t) = t * b + b)
      BY DEF Low, High, b
    <3> QED
      BY <2>1, <3>1, <3>2
  <2>3. CASE ~(k < n * b)
    <3>1. program = "sum"
      BY <2>3 DEF Covered, n, b
    <3>2. n - 1 \in Threads /\ High(n - 1) = len /\ Low(n - 1) = (n - 1) * b
      BY <1>1, <2>1, <3>1 DEF High, Low, n, b
    <3>3. (n - 1) * b \in Nat /\ (n - 1) * b <= n * b
      BY <1>1, <1>4, <1>5
    <3> QED
      BY <1>1, <1>3, <2>1, <2>3, <3>2, <3>3
  <2> QED
    BY <2>2, <2>3
<1> QED
  BY <1>1, <1>2, <1>a, <1>b, <1>c, <1>d, <1>e DEF n, b
-----------------------------------------------------------------------------
(* Where main can be.                                                      *)
Phase ==
  /\ main = "partition" => /\ program # "darts" /\ next = Low(i)
                           /\ i <= IF program = "sum" THEN N - 1 ELSE N
  /\ main = "create" => i <= N
  /\ main = "join" /\ program # "darts" => i <= N

(* What is left of a thread's block.                                       *)
Ranges ==
  \A t \in Threads :
    /\ main = "partition" /\ t >= i => range[t].start = 0 /\ range[t].end = 0
    /\ main = "partition" /\ t < i => range[t].start = Low(t) /\ range[t].end = High(t)
    /\ main # "partition" => range[t].start \in Low(t) .. High(t) /\ range[t].end = High(t)

(* A thread runs after the partition, ends with its block, and has ended   *)
(* when it has been joined.                                                *)
Joined(t) == main = "done" \/ (main = "join" /\ t < i)
Threading ==
  \A t \in Threads :
    /\ main = "partition" => thread[t] = "none"
    /\ thread[t] = "ended" => range[t].start = High(t)
    /\ Joined(t) => thread[t] # "running"

(* A thread has counted what its range has left behind.                    *)
Counted ==
  \A t \in Threads, k \in Items :
    /\ partial[t][k] \in {0, 1}
    /\ partial[t][k] = 1 => Low(t) <= k /\ k < range[t].start
    /\ program # "darts" /\ Low(t) <= k /\ k < range[t].start => partial[t][k] = 1

(* The total has what the threads found that have been added up.           *)
Added(t) ==
  main = "done" \/ (main = "join" /\ t < IF program = "darts" THEN i - N ELSE i)
Totalled ==
  main # "undefined" => \A k \in Items :
    /\ total[k] \in {0, 1}
    /\ total[k] = 1 <=> \E t \in Threads : Added(t) /\ partial[t][k] = 1

FInv == ForkTypeOK /\ Phase /\ Ranges /\ Threading /\ Counted /\ Totalled

(* The input stays the same, and with it everything computed from it.      *)
LEMMA SameInput ==
  ASSUME UNCHANGED <<program, len>>
  PROVE  /\ N' = N /\ Block' = Block /\ Items' = Items /\ Threads' = Threads
         /\ \A t : Low(t)' = Low(t) /\ High(t)' = High(t)
  BY DEF N, Block, Items, Threads, Low, High

(* Before anything is counted the invariant holds.                         *)
LEMMA FInit == Init => FInv
<1> SUFFICES ASSUME Init
             PROVE  FInv
  OBVIOUS
<1>0. InputOK
  BY DEF Init, InputOK
<1>1. ForkTypeOK
  BY <1>0, Blocks DEF Init, ForkTypeOK, Span, Nothing, Threads, Low, High
<1>2. Phase
  BY <1>0, Blocks DEF Init, Phase, Low
<1>3. Ranges
  BY <1>0, Blocks DEF Init, Ranges, Span, Low, High, Threads
<1>4. Threading
  BY DEF Init, Threading, Joined
<1>5. Counted
  BY <1>0, <1>3, Blocks DEF Init, Counted, Span, Nothing, Threads, Items, Low
<1>6. Totalled
  BY DEF Init, Totalled, Added, Nothing
<1> QED
  BY <1>1, <1>2, <1>3, <1>4, <1>5, <1>6 DEF FInv

(* Two threads have no item in common.                                     *)
LEMMA OwnItems ==
  ASSUME ForkTypeOK, Ranges, Counted, NEW k \in Items,
         NEW t \in Threads, partial[t][k] = 1, NEW u \in Threads, partial[u][k] = 1
  PROVE  t = u
<1>0. InputOK
  BY DEF ForkTypeOK, InputOK
<1>1. N \in Nat /\ len \in Nat /\ k \in Nat /\ t \in Int /\ u \in Int
  BY <1>0, Blocks DEF Items, Threads
<1>2. \A v \in Threads : v \in Int /\ Low(v) \in Int /\ High(v) \in Int /\ Low(v) <= High(v)
  BY <1>0, Blocks DEF Threads
<1>3. \A v \in Threads : range[v].start <= High(v) \/ range[v].start = 0
  BY <1>1, <1>2 DEF ForkTypeOK, Ranges
<1>4. \A v \in Threads : partial[v][k] = 1 => Low(v) <= k /\ k < High(v)
  BY <1>1, <1>2, <1>3 DEF ForkTypeOK, Counted
<1> QED
  BY <1>0, <1>1, <1>2, <1>4, Blocks

(* The next block is given away.                                           *)
LEMMA PartitionBlockStep ==
  ASSUME FInv, PartitionBlock
  PROVE  FInv'
<1> USE DEF FInv, PartitionBlock, Span
<1>0. InputOK /\ UNCHANGED <<program, len>>
  BY DEF ForkTypeOK, InputOK
<1>a. N \in Nat \ {0} /\ len \in Nat /\ Block \in Nat
  BY <1>0, Blocks
<1>b. /\ N' = N /\ Block' = Block /\ Items' = Items /\ Threads' = Threads
      /\ \A u : Low(u)' = Low(u) /\ High(u)' = High(u)
  BY <1>0, SameInput
<1>c. /\ i \in Threads /\ i \in Nat /\ next = Low(i) /\ Low(i) \in 0 .. len
      /\ next + Block = Low(i + 1) /\ Low(i + 1) \in 0 .. len
      /\ High(i) = Low(i + 1) /\ main' = "partition"
  <2>1. i \in Threads /\ i \in 0 .. N /\ i + 1 \in 0 .. N /\ next = Low(i)
    BY <1>a DEF ForkTypeOK, Phase, Threads
  <2>2. ~(program = "sum" /\ i = N - 1)
    BY <1>a, <2>1
  <2>3. Low(i + 1) = Low(i) + Block /\ High(i) = Low(i) + Block
    BY <1>0, <2>1, <2>2, Blocks
  <2>4. Low(i) \in 0 .. len /\ Low(i + 1) \in 0 .. len
    BY <1>0, <2>1, Blocks
  <2> QED
    BY <2>1, <2>3, <2>4 DEF ForkTypeOK
<1>1. ForkTypeOK'
  BY <1>a, <1>b, <1>c DEF ForkTypeOK
<1>2. Phase'
  BY <1>a, <1>b, <1>c DEF ForkTypeOK, Phase
<1>3. Ranges'
  <2>1. range' = [range EXCEPT ![i] = [start |-> Low(i), end |-> High(i)]]
    BY <1>c
  <2> QED
    BY <1>a, <1>b, <1>c, <2>1 DEF ForkTypeOK, Ranges, Threads
<1>4. Threading'
  BY <1>a, <1>b DEF ForkTypeOK, Phase, Ranges, Threading, Joined, Threads
<1>5. Counted'
  <2>1. i \in Threads /\ thread[i] = "none" /\ next = Low(i)
    BY <1>a DEF ForkTypeOK, Phase, Threading, Threads
  <2>2. \A k \in Items : partial[i][k] = 0 /\ k >= 0
    BY <1>a, <2>1 DEF ForkTypeOK, Ranges, Counted, Items
  <2> QED
    BY <1>a, <1>b, <2>1, <2>2 DEF ForkTypeOK, Counted, Items
<1>6. Totalled'
  BY <1>a, <1>b DEF ForkTypeOK, Phase, Threading, Joined, Counted, Totalled, Added, Threads
<1> QED
  BY <1>1, <1>2, <1>3, <1>4, <1>5, <1>6

(* The last block of the sum takes the remainder.                          *)
LEMMA PartitionLastStep ==
  ASSUME FInv, PartitionLast
  PROVE  FInv'
<1> USE DEF FInv, PartitionLast, Span
<1>0. InputOK /\ UNCHANGED <<program, len>>
  BY DEF ForkTypeOK, InputOK
<1>a. N \in Nat \ {0} /\ len \in Nat /\ Block \in Nat
  BY <1>0, Blocks
<1>b. /\ N' = N /\ Block' = Block /\ Items' = Items /\ Threads' = Threads
      /\ \A u : Low(u)' = Low(u) /\ High(u)' = High(u)
  BY <1>0, SameInput
<1>1. ForkTypeOK'
  <2>1. i \in Threads
    BY <1>a DEF ForkTypeOK, Threads
  <2> QED
    BY <1>a, <1>b, <2>1 DEF ForkTypeOK, Threads
<1>2. Phase'
  BY <1>0, <1>a, <1>b, Blocks DEF ForkTypeOK, Phase, Threads
<1>3. Ranges'
  <2>1. i \in Threads /\ next = Low(i) /\ High(i) = len
    BY <1>a DEF ForkTypeOK, Phase, Threads, High
  <2>2. Low(i) <= High(i)
    BY <1>0, <2>1, Blocks
  <2>3. \A t \in Threads : Low(t) <= High(t) /\ Low(t) \in Int /\ High(t) \in Int
    BY <1>0, Blocks DEF Threads
  <2>4. \A t \in Threads : t # i => t < i
    BY <1>a DEF Threads
  <2> QED
    BY <1>a, <1>b, <2>1, <2>2, <2>3, <2>4 DEF ForkTypeOK, Ranges
<1>4. Threading'
  BY <1>a, <1>b DEF ForkTypeOK, Phase, Ranges, Threading, Joined, Threads
<1>5. Counted'
  <2>1. i \in Threads /\ next = Low(i)
    BY <1>a DEF ForkTypeOK, Phase, Threads
  <2>2. \A k \in Items : partial[i][k] = 0 /\ k >= 0
    BY <1>a, <2>1 DEF ForkTypeOK, Ranges, Counted, Items
  <2>3. /\ UNCHANGED <<program, partial>> /\ range'[i].start = Low(i)
        /\ \A t \in Threads \ {i} : range'[t] = range[t]
    BY <2>1 DEF ForkTypeOK
  <2>4. ASSUME NEW t \in Threads, NEW k \in Items
        PROVE  /\ partial[t][k] \in {0, 1}
               /\ partial[t][k] = 1 => Low(t) <= k /\ k < range'[t].start
               /\ program # "darts" /\ Low(t) <= k /\ k < range'[t].start => partial[t][k] = 1
    <3>1. CASE t = i
      <4>1. partial[t][k] = 0 /\ ~(Low(t) <= k /\ k < Low(t))
        BY <1>0, <2>2, <3>1, Blocks DEF Threads, Items
      <4> QED
        BY <2>3, <3>1, <4>1
    <3>2. CASE t # i
      <4>1. range'[t] = range[t]
        BY <2>3, <3>2
      <4> QED
        BY <4>1 DEF Counted
    <3> QED
      BY <3>1, <3>2
  <2> QED
    BY <1>b, <2>3, <2>4 DEF Counted
<1>6. Totalled'
  BY <1>a, <1>b DEF ForkTypeOK, Phase, Threading, Joined, Counted, Totalled, Added, Threads
<1> QED
  BY <1>1, <1>2, <1>3, <1>4, <1>5, <1>6

(* The remaining rows are given to nobody.                                 *)
LEMMA PartitionPastEndStep ==
  ASSUME FInv, PartitionPastEnd
  PROVE  FInv'
<1> USE DEF FInv, PartitionPastEnd
<1>0. InputOK /\ UNCHANGED <<program, len>>
  BY DEF ForkTypeOK, InputOK
<1>a. N \in Nat \ {0} /\ len \in Nat /\ Block \in Nat
  BY <1>0, Blocks
<1>b. /\ N' = N /\ Block' = Block /\ Items' = Items /\ Threads' = Threads
      /\ \A u : Low(u)' = Low(u) /\ High(u)' = High(u)
  BY <1>0, SameInput
<1>1. ForkTypeOK'
  BY <1>a, <1>b DEF ForkTypeOK, Phase, Threads
<1>2. Phase'
  BY <1>0, <1>a, <1>b, Blocks DEF ForkTypeOK, Phase, Threads
<1>3. Ranges'
  BY <1>0, <1>a, <1>b, Blocks DEF ForkTypeOK, Phase, Ranges, Threads
<1>4. Threading'
  BY <1>a, <1>b DEF ForkTypeOK, Phase, Ranges, Threading, Joined, Threads
<1>5. Counted'
  BY <1>a, <1>b DEF ForkTypeOK, Phase, Ranges, Counted, Threads, Items
<1>6. Totalled'
  BY <1>a, <1>b DEF ForkTypeOK, Phase, Threading, Joined, Counted, Totalled, Added, Threads
<1> QED
  BY <1>1, <1>2, <1>3, <1>4, <1>5, <1>6

(* A thread is started, or is not.                                         *)
LEMMA CreateStep ==
  ASSUME FInv, Create
  PROVE  FInv'
<1> USE DEF FInv, Create
<1>0. InputOK /\ UNCHANGED <<program, len>>
  BY DEF ForkTypeOK, InputOK
<1>a. N \in Nat \ {0} /\ len \in Nat /\ Block \in Nat
  BY <1>0, Blocks
<1>b. /\ N' = N /\ Block' = Block /\ Items' = Items /\ Threads' = Threads
      /\ \A u : Low(u)' = Low(u) /\ High(u)' = High(u)
  BY <1>0, SameInput
<1>1. ForkTypeOK'
  BY <1>a, <1>b DEF ForkTypeOK, Phase, Threads
<1>2. Phase'
  BY <1>0, <1>a, <1>b, Blocks DEF ForkTypeOK, Phase, Threads
<1>3. Ranges'
  BY <1>0, <1>a, <1>b, Blocks DEF ForkTypeOK, Phase, Ranges, Threads
<1>4. Threading'
  BY <1>a, <1>b DEF ForkTypeOK, Phase, Ranges, Threading, Joined, Threads
<1>5. Counted'
  BY <1>a, <1>b DEF ForkTypeOK, Phase, Ranges, Counted, Threads, Items
<1>6. Totalled'
  BY <1>a, <1>b DEF ForkTypeOK, Phase, Threading, Joined, Counted, Totalled, Added, Threads
<1> QED
  BY <1>1, <1>2, <1>3, <1>4, <1>5, <1>6

(* The joins begin.                                                        *)
LEMMA AllCreatedStep ==
  ASSUME FInv, AllCreated
  PROVE  FInv'
<1> USE DEF FInv, AllCreated
<1>0. InputOK /\ UNCHANGED <<program, len>>
  BY DEF ForkTypeOK, InputOK
<1>a. N \in Nat \ {0} /\ len \in Nat /\ Block \in Nat
  BY <1>0, Blocks
<1>b. /\ N' = N /\ Block' = Block /\ Items' = Items /\ Threads' = Threads
      /\ \A u : Low(u)' = Low(u) /\ High(u)' = High(u)
  BY <1>0, SameInput
<1>1. ForkTypeOK'
  BY <1>a, <1>b DEF ForkTypeOK, Phase, Threads
<1>2. Phase'
  BY <1>0, <1>a, <1>b, Blocks DEF ForkTypeOK, Phase, Threads
<1>3. Ranges'
  BY <1>0, <1>a, <1>b, Blocks DEF ForkTypeOK, Phase, Ranges, Threads
<1>4. Threading'
  BY <1>a, <1>b DEF ForkTypeOK, Phase, Ranges, Threading, Joined, Threads
<1>5. Counted'
  BY <1>a, <1>b DEF ForkTypeOK, Phase, Ranges, Counted, Threads, Items
<1>6. Totalled'
  BY <1>a, <1>b DEF ForkTypeOK, Phase, Threading, Joined, Counted, Totalled, Added, Threads
<1> QED
  BY <1>1, <1>2, <1>3, <1>4, <1>5, <1>6

(* A thread counts an item of its block.                                   *)
LEMMA CountStep ==
  ASSUME FInv, NEW t \in Threads, Count(t)
  PROVE  FInv'
<1> USE DEF FInv, Count
<1>0. InputOK /\ UNCHANGED <<program, len>>
  BY DEF ForkTypeOK, InputOK
<1>a. N \in Nat \ {0} /\ len \in Nat /\ Block \in Nat
  BY <1>0, Blocks
<1>b. /\ N' = N /\ Block' = Block /\ Items' = Items /\ Threads' = Threads
      /\ \A u : Low(u)' = Low(u) /\ High(u)' = High(u)
  BY <1>0, SameInput
<1> DEFINE s == range[t].start
<1>c. s \in Items /\ s \in Int /\ Low(t) <= s /\ s < High(t) /\ main # "partition"
  <2>1. main # "partition"
    BY DEF Threading
  <2>2. Low(t) \in Int /\ High(t) \in Int /\ High(t) <= len
    BY <1>0, Blocks DEF Threads
  <2> QED
    BY <1>a, <2>1, <2>2 DEF ForkTypeOK, Ranges, Items
<1>d. PICK c \in {0, 1} : /\ partial' = [partial EXCEPT ![t][s] = c]
                          /\ program # "darts" => c = 1
  <2>1. PICK c \in {0, 1} : /\ partial' = [partial EXCEPT ![t][s] = partial[t][s] + c]
                            /\ program # "darts" => c = 1
    OBVIOUS
  <2>2. partial[t][s] = 0
    BY <1>c DEF Counted
  <2>3. partial[t][s] + c = c
    BY <2>2
  <2> QED
    BY <2>1, <2>3
<1>e. range' = [range EXCEPT ![t].start = s + 1]
  OBVIOUS
<1> HIDE DEF s
<1>1. ForkTypeOK'
  <2>1. range' \in [Threads -> [start : 0 .. len, end : 0 .. len]]
    <3>1. s + 1 \in 0 .. len
      BY <1>a, <1>c DEF Items
    <3>2. [range[t] EXCEPT !.start = s + 1] \in [start : 0 .. len, end : 0 .. len]
      BY <3>1 DEF ForkTypeOK
    <3> QED
      BY <1>e, <3>2 DEF ForkTypeOK
  <2>2. partial' \in [Threads -> [Items -> Nat]]
    <3>1. [partial[t] EXCEPT ![s] = c] \in [Items -> Nat]
      BY <1>c DEF ForkTypeOK
    <3> QED
      BY <1>d, <3>1 DEF ForkTypeOK
  <2> QED
    BY <1>b, <2>1, <2>2 DEF ForkTypeOK
<1>2. Phase'
  BY <1>0, <1>a, <1>b, Blocks DEF ForkTypeOK, Phase, Threads
<1>3. Ranges'
  <2>1. Low(t) \in Int /\ High(t) \in Int
    BY <1>0, Blocks DEF Threads
  <2>2. \A u \in Threads : /\ range'[u].end = range[u].end
                           /\ range'[u].start = IF u = t THEN s + 1 ELSE range[u].start
    BY <1>e DEF ForkTypeOK
  <2> QED
    BY <1>b, <1>c, <2>1, <2>2 DEF ForkTypeOK, Ranges, s
<1>4. Threading'
  BY <1>a, <1>b DEF ForkTypeOK, Phase, Ranges, Threading, Joined, Threads
<1>5. Counted'
  <2>1. \A u \in Threads, k \in Items :
          /\ partial'[u][k] = IF u = t /\ k = s THEN c ELSE partial[u][k]
          /\ range'[u].start = IF u = t THEN s + 1 ELSE range[u].start
    BY <1>c, <1>d, <1>e DEF ForkTypeOK
  <2>2. \A k \in Items : k \in Int
    BY <1>a DEF Items
  <2> QED
    BY <1>0, <1>b, <1>c, <1>d, <2>1, <2>2 DEF Counted, s
<1>6. Totalled'
  BY <1>a, <1>b DEF ForkTypeOK, Phase, Threading, Joined, Counted, Totalled, Added, Threads
<1> QED
  BY <1>1, <1>2, <1>3, <1>4, <1>5, <1>6

(* A thread has counted its block.                                         *)
LEMMA ExitStep ==
  ASSUME FInv, NEW t \in Threads, Exit(t)
  PROVE  FInv'
<1> USE DEF FInv, Exit
<1>0. InputOK /\ UNCHANGED <<program, len>>
  BY DEF ForkTypeOK, InputOK
<1>a. N \in Nat \ {0} /\ len \in Nat /\ Block \in Nat
  BY <1>0, Blocks
<1>b. /\ N' = N /\ Block' = Block /\ Items' = Items /\ Threads' = Threads
      /\ \A u : Low(u)' = Low(u) /\ High(u)' = High(u)
  BY <1>0, SameInput
<1>1. ForkTypeOK'
  BY <1>a, <1>b DEF ForkTypeOK, Phase, Threads
<1>2. Phase'
  BY <1>0, <1>a, <1>b, Blocks DEF ForkTypeOK, Phase, Threads
<1>3. Ranges'
  <2>1. main # "partition" /\ (main' = main \/ main' = "undefined")
    BY DEF Threading
  <2> QED
    BY <1>b, <2>1 DEF Ranges
<1>4. Threading'
  BY <1>a, <1>b DEF ForkTypeOK, Phase, Ranges, Threading, Joined, Threads
<1>5. Counted'
  BY <1>a, <1>b DEF ForkTypeOK, Phase, Ranges, Counted, Threads, Items
<1>6. Totalled'
  BY <1>a, <1>b DEF ForkTypeOK, Phase, Threading, Joined, Counted, Totalled, Added, Threads
<1> QED
  BY <1>1, <1>2, <1>3, <1>4, <1>5, <1>6

(* What a thread found is added, unless it is added at the end.            *)
LEMMA JoinStep ==
  ASSUME FInv, Join \/ JoinGarbage
  PROVE  FInv'
<1> USE DEF FInv, Join, Add, Plus, JoinGarbage
<1>0. InputOK /\ UNCHANGED <<program, len>>
  BY DEF ForkTypeOK, InputOK
<1>a. N \in Nat \ {0} /\ len \in Nat /\ Block \in Nat
  BY <1>0, Blocks
<1>b. /\ N' = N /\ Block' = Block /\ Items' = Items /\ Threads' = Threads
      /\ \A u : Low(u)' = Low(u) /\ High(u)' = High(u)
  BY <1>0, SameInput
<1>c. i \in Threads /\ i \in Nat /\ i < N /\ thread[i] # "running" /\ main = "join"
  BY <1>a DEF ForkTypeOK, Threads
<1>d. \A k \in Items : total[k] \in {0, 1} /\ partial[i][k] \in {0, 1}
  BY <1>c DEF Counted, Totalled
<1>e. /\ program = "darts" => total' = total
      /\ program # "darts" => total' = [k \in Items |-> total[k] + partial[i][k]]
      /\ main' \in {"join", "undefined"} /\ i' = i + 1
      /\ UNCHANGED <<program, len, next, range, thread, partial>>
  OBVIOUS
<1>1. ForkTypeOK'
  <2>1. total' \in [Items -> Nat]
    BY <1>d, <1>e DEF ForkTypeOK
  <2>2. i' \in 0 .. 2 * N
    BY <1>a, <1>c, <1>e
  <2> QED
    BY <1>b, <1>e, <2>1, <2>2 DEF ForkTypeOK
<1>2. Phase'
  BY <1>a, <1>b, <1>c, <1>e DEF ForkTypeOK, Phase
<1>3. Ranges'
  BY <1>b, <1>c, <1>e DEF Ranges
<1>4. Threading'
  BY <1>a, <1>b, <1>c, <1>e DEF Threading, Joined, Threads
<1>5. Counted'
  BY <1>b, <1>e DEF Counted
<1>6. Totalled'
  <2> SUFFICES ASSUME main' = "join", NEW k \in Items
               PROVE  /\ total'[k] \in {0, 1}
                      /\ total'[k] = 1 <=> \E t \in Threads : Added(t)' /\ partial'[t][k] = 1
    BY <1>b, <1>e DEF Totalled
  <2>0. total[k] = 1 <=> \E t \in Threads : Added(t) /\ partial[t][k] = 1
    BY <1>c DEF Totalled
  <2>1. CASE program = "darts"
    <3>1. \A t \in Threads : ~Added(t)'
      BY <1>a, <1>b, <1>c, <1>e, <2>1 DEF Added, Threads
    <3>2. \A t \in Threads : ~Added(t)
      BY <1>a, <1>c, <2>1 DEF Added, Threads
    <3> QED
      BY <1>d, <1>e, <2>0, <2>1, <3>1, <3>2
  <2>2. CASE program # "darts"
    <3>1. \A t \in Threads : (Added(t) <=> t < i) /\ (Added(t)' <=> t < i \/ t = i)
      BY <1>c, <1>e, <2>2 DEF Added, Threads
    <3>2. total'[k] = total[k] + partial[i][k]
      BY <1>e, <2>2
    <3>3. CASE partial[i][k] = 1
      <4>1. \A t \in Threads : partial[t][k] = 1 => t = i
        BY <1>c, <3>3, OwnItems
      <4>2. total[k] = 0
        BY <1>c, <1>d, <2>0, <3>1, <4>1 DEF Threads
      <4> QED
        BY <1>c, <1>e, <3>1, <3>2, <3>3, <4>2
    <3>4. CASE partial[i][k] = 0
      BY <1>c, <1>d, <1>e, <2>0, <3>1, <3>2, <3>4
    <3> QED
      BY <1>c, <1>d, <3>3, <3>4
  <2> QED
    BY <2>1, <2>2
<1> QED
  BY <1>1, <1>2, <1>3, <1>4, <1>5, <1>6

(* The program may be lost in a join.                                      *)
LEMMA JoinUndefinedStep ==
  ASSUME FInv, JoinUndefined
  PROVE  FInv'
<1> USE DEF FInv, JoinUndefined
<1>0. InputOK /\ UNCHANGED <<program, len>>
  BY DEF ForkTypeOK, InputOK
<1>a. N \in Nat \ {0} /\ len \in Nat /\ Block \in Nat
  BY <1>0, Blocks
<1>b. /\ N' = N /\ Block' = Block /\ Items' = Items /\ Threads' = Threads
      /\ \A u : Low(u)' = Low(u) /\ High(u)' = High(u)
  BY <1>0, SameInput
<1>1. ForkTypeOK'
  BY <1>a, <1>b DEF ForkTypeOK, Phase, Threads
<1>2. Phase'
  BY <1>0, <1>a, <1>b, Blocks DEF ForkTypeOK, Phase, Threads
<1>3. Ranges'
  BY <1>0, <1>a, <1>b, Blocks DEF ForkTypeOK, Phase, Ranges, Threads
<1>4. Threading'
  BY <1>a, <1>b DEF ForkTypeOK, Phase, Ranges, Threading, Joined, Threads
<1>5. Counted'
  BY <1>a, <1>b DEF ForkTypeOK, Phase, Ranges, Counted, Threads, Items
<1>6. Totalled'
  BY <1>a, <1>b DEF ForkTypeOK, Phase, Threading, Joined, Counted, Totalled, Added, Threads
<1> QED
  BY <1>1, <1>2, <1>3, <1>4, <1>5, <1>6

(* The hits are added up.                                                  *)
LEMMA AccumulateStep ==
  ASSUME FInv, Accumulate
  PROVE  FInv'
<1> USE DEF FInv, Accumulate, Plus
<1>0. InputOK /\ UNCHANGED <<program, len>>
  BY DEF ForkTypeOK, InputOK
<1>a. N \in Nat \ {0} /\ len \in Nat /\ Block \in Nat
  BY <1>0, Blocks
<1>b. /\ N' = N /\ Block' = Block /\ Items' = Items /\ Threads' = Threads
      /\ \A u : Low(u)' = Low(u) /\ High(u)' = High(u)
  BY <1>0, SameInput
<1>c. /\ i - N \in Threads /\ i \in Nat /\ program = "darts" /\ main = "join"
      /\ i' = i + 1 /\ main' = "join"
  BY <1>a DEF ForkTypeOK, Threads
<1>d. \A k \in Items : total[k] \in {0, 1} /\ partial[i - N][k] \in {0, 1}
  BY <1>c DEF Counted, Totalled
<1>e. total' = [k \in Items |-> total[k] + partial[i - N][k]]
  OBVIOUS
<1>1. ForkTypeOK'
  BY <1>a, <1>b DEF ForkTypeOK, Phase, Threads
<1>2. Phase'
  BY <1>0, <1>a, <1>b, Blocks DEF ForkTypeOK, Phase, Threads
<1>3. Ranges'
  BY <1>0, <1>a, <1>b, Blocks DEF ForkTypeOK, Phase, Ranges, Threads
<1>4. Threading'
  BY <1>a, <1>b DEF ForkTypeOK, Phase, Ranges, Threading, Joined, Threads
<1>5. Counted'
  BY <1>a, <1>b DEF ForkTypeOK, Phase, Ranges, Counted, Threads, Items
<1>6. Totalled'
  <2> SUFFICES ASSUME NEW k \in Items
               PROVE  /\ total'[k] \in {0, 1}
                      /\ total'[k] = 1 <=> \E t \in Threads : Added(t)' /\ partial'[t][k] = 1
    BY <1>b DEF Totalled
  <2>0. total[k] = 1 <=> \E t \in Threads : Added(t) /\ partial[t][k] = 1
    BY <1>c DEF Totalled
  <2>1. \A t \in Threads : (Added(t) <=> t < i - N) /\ (Added(t)' <=> t < i - N \/ t = i - N)
    BY <1>a, <1>b, <1>c DEF Added, Threads
  <2>2. total'[k] = total[k] + partial[i - N][k] /\ partial' = partial
    BY <1>e
  <2>3. CASE partial[i - N][k] = 1
    <3>1. \A t \in Threads : partial[t][k] = 1 => t = i - N
      BY <1>c, <2>3, OwnItems
    <3>2. total[k] = 0
      BY <1>a, <1>c, <1>d, <2>0, <2>1, <3>1 DEF Threads
    <3> QED
      BY <1>c, <2>1, <2>2, <2>3, <3>2
  <2>4. CASE partial[i - N][k] = 0
    BY <1>c, <1>d, <2>0, <2>1, <2>2, <2>4
  <2> QED
    BY <1>d, <2>3, <2>4
<1> QED
  BY <1>1, <1>2, <1>3, <1>4, <1>5, <1>6

(* main prints the result.                                                 *)
LEMMA FinishStep ==
  ASSUME FInv, Finish
  PROVE  FInv'
<1> USE DEF FInv, Finish
<1>0. InputOK /\ UNCHANGED <<program, len>>
  BY DEF ForkTypeOK, InputOK
<1>a. N \in Nat \ {0} /\ len \in Nat /\ Block \in Nat
  BY <1>0, Blocks
<1>b. /\ N' = N /\ Block' = Block /\ Items' = Items /\ Threads' = Threads
      /\ \A u : Low(u)' = Low(u) /\ High(u)' = High(u)
  BY <1>0, SameInput
<1>1. ForkTypeOK'
  BY <1>a, <1>b DEF ForkTypeOK, Phase, Threads
<1>2. Phase'
  BY <1>0, <1>a, <1>b, Blocks DEF ForkTypeOK, Phase, Threads
<1>3. Ranges'
  BY <1>0, <1>a, <1>b, Blocks DEF ForkTypeOK, Phase, Ranges, Threads
<1>4. Threading'
  BY <1>a, <1>b DEF ForkTypeOK, Phase, Ranges, Threading, Joined, Threads
<1>5. Counted'
  BY <1>a, <1>b DEF ForkTypeOK, Phase, Ranges, Counted, Threads, Items
<1>6. Totalled'
  BY <1>a, <1>b DEF ForkTypeOK, Phase, Threading, Joined, Counted, Totalled, Added, Threads
<1> QED
  BY <1>1, <1>2, <1>3, <1>4, <1>5, <1>6

(* Every step keeps the invariant.                                         *)
LEMMA FStep == FInv /\ [Next]_vars => FInv'
<1> SUFFICES ASSUME FInv, [Next]_vars
             PROVE  FInv'
  OBVIOUS
<1>1. CASE MainStep
  BY <1>1, PartitionBlockStep, PartitionLastStep, PartitionPastEndStep, CreateStep, AllCreatedStep,
     JoinStep, JoinUndefinedStep, AccumulateStep, FinishStep DEF MainStep
<1>2. CASE \E t \in Threads : ThreadStep(t)
  BY <1>2, CountStep, ExitStep DEF ThreadStep
<1>3. CASE UNCHANGED vars
  <2>1. UNCHANGED <<program, len>>
    BY <1>3 DEF vars
  <2>2. ForkTypeOK' /\ Phase' /\ Ranges'
    BY <1>3, <2>1, SameInput DEF FInv, vars, ForkTypeOK, Phase, Ranges
  <2>3. Threading' /\ Counted' /\ Totalled'
    BY <1>3, <2>1, SameInput DEF FInv, vars, Threading, Joined, Counted, Totalled, Added
  <2> QED
    BY <2>2, <2>3 DEF FInv
<1> QED
  BY <1>1, <1>2, <1>3 DEF Next

(* The invariant holds throughout.                                         *)
THEOREM ForkInvariance == Spec => []FInv
  BY FInit, FStep, PTL DEF Spec

(* Types of the loop counters, the ranges and the results.                 *)
THEOREM ForkTypeCorrect == Spec => []ForkTypeOK
<1>1. FInv => ForkTypeOK
  BY DEF FInv
<1> QED
  BY <1>1, ForkInvariance, PTL

(* An item of the table, a row or a dart is counted by one thread, once,   *)
(* for every length of the input and every number of threads.              *)
THEOREM ForkCountedOnce == Spec => []CountedOnce
<1>1. FInv => CountedOnce
  <2> SUFFICES ASSUME FInv, NEW k \in Items, NEW t \in Threads
               PROVE  /\ partial[t][k] <= 1 /\ (Pending(t, k) => partial[t][k] = 0)
                      /\ \A u \in Threads \ {t} : ~(Has(t, k) /\ Has(u, k))
    BY DEF CountedOnce
  <2>0. InputOK
    BY DEF FInv, ForkTypeOK, InputOK
  <2>1. N \in Nat /\ len \in Nat /\ k \in Nat
    BY <2>0, Blocks DEF Items
  <2>2. \A v \in Threads : v \in Int /\ Low(v) \in Int /\ High(v) \in Int /\ Low(v) <= High(v)
    BY <2>0, Blocks DEF Threads
  <2>3. \A v \in Threads : partial[v][k] \in {0, 1} /\ range[v].start \in Nat /\ range[v].end \in Nat
    BY <2>1 DEF FInv, Counted, ForkTypeOK
  <2>4. \A v \in Threads : Pending(v, k) => Low(v) <= k /\ k < High(v) /\ partial[v][k] = 0
    BY <2>1, <2>2, <2>3 DEF FInv, Ranges, Counted, Pending, ForkTypeOK
  <2>5. \A v \in Threads : partial[v][k] = 1 => Low(v) <= k /\ k < High(v)
    BY <2>1, <2>2, <2>3 DEF FInv, Ranges, Counted, ForkTypeOK
  <2>6. \A v \in Threads : Has(v, k) => Low(v) <= k /\ k < High(v)
    BY <2>3, <2>4, <2>5 DEF Has
  <2>7. \A v, u \in Threads : v < u => High(v) <= Low(u)
    BY <2>0, Blocks
  <2> QED
    BY <2>1, <2>2, <2>3, <2>4, <2>6, <2>7
<1> QED
  BY <1>1, ForkInvariance, PTL

(* When main is done the result has each item that was given to a thread,  *)
(* once; everything for the sum, all but the remainder for the others.     *)
THEOREM ForkResultComplete == Spec => []ResultComplete
<1>1. FInv => ResultComplete
  <2> SUFFICES ASSUME FInv, main = "done", NEW k \in Items
               PROVE  /\ total[k] \in {0, 1} /\ (k >= Covered => total[k] = 0)
                      /\ ((\A t \in Threads : thread[t] = "ended") /\ program # "darts" /\ k < Covered
                           => total[k] = 1)
    BY DEF ResultComplete
  <2>0. InputOK
    BY DEF FInv, ForkTypeOK, InputOK
  <2>1. len \in Nat /\ k \in Nat /\ Covered \in Nat
    BY <2>0, Blocks DEF Items
  <2>2. \A t \in Threads : Low(t) \in Int /\ High(t) \in Int /\ High(t) <= Covered
    BY <2>0, Blocks DEF Threads
  <2>3. /\ total[k] \in {0, 1}
        /\ total[k] = 1 <=> \E t \in Threads : partial[t][k] = 1
    BY DEF FInv, Totalled, Added
  <2>4. \A t \in Threads : partial[t][k] = 1 => k < Covered
    BY <2>1, <2>2 DEF FInv, Ranges, Counted
  <2>5. ASSUME \A t \in Threads : thread[t] = "ended", program # "darts", k < Covered
        PROVE  total[k] = 1
    <3>1. PICK t \in Threads : Low(t) <= k /\ k < High(t)
      BY <2>0, <2>5, Blocks
    <3>2. range[t].start = High(t)
      BY <2>5 DEF FInv, Threading
    <3> QED
      BY <2>3, <2>5, <3>1, <3>2 DEF FInv, Counted
  <2> QED
    BY <2>1, <2>3, <2>4, <2>5
<1> QED
  BY <1>1, ForkInvariance, PTL
-----------------------------------------------------------------------------
(* The k-th pixel of a picture has a row and a column.                     *)
LEMMA PlaceOf ==
  ASSUME NEW w \in Nat, NEW h \in Nat, NEW k \in 1 .. w * h
  PROVE  /\ w > 0
         /\ (k - 1) \div w \in 0 .. h - 1 /\ (k - 1) % w \in 0 .. w - 1
         /\ k = ((k - 1) \div w) * w + ((k - 1) % w) + 1
<1>1. w > 0
  BY SMTT(20)
<1> DEFINE q == (k - 1) \div w  r == (k - 1) % w
<1>2. q \in Nat /\ r \in 0 .. w - 1 /\ k = q * w + r + 1
  BY <1>1, SMTT(20)
<1>3. q < h
  <2> HIDE DEF q, r
  <2> QED
    BY <1>1, <1>2, SMTT(20)
<1> QED
  BY <1>1, <1>2, <1>3

(* And a row and a column have a pixel.                                    *)
LEMMA PixelAt ==
  ASSUME NEW w \in Nat, NEW h \in Nat, NEW y \in 0 .. h - 1, NEW x \in 0 .. w - 1
  PROVE  /\ y * w + x + 1 \in 1 .. w * h
         /\ (y * w + x) \div w = y /\ (y * w + x) % w = x
<1>1. (y * w + x) \div w = y /\ (y * w + x) % w = x
  BY SMTT(30)
<1>2. y * w + x + 1 \in 1 .. w * h
  BY SMTT(30)
<1> QED
  BY <1>1, <1>2

(* An earlier row ends before a later one begins.                          *)
LEMMA RowsInOrder == \A y, z, s \in Nat : y < z => y * s + s <= z * s
  BY SMTT(20)

Bytes == 0 .. 255
Colours == Bytes \X Bytes \X Bytes
PictureOK(p) ==
  /\ p.width \in Nat /\ p.height \in Int /\ Rows(p) \in Nat
  /\ p.pixels \in Seq(Colours)
  /\ Len(p.pixels) = p.width * Rows(p)

(* The pictures of the model are good ones.                                *)
LEMMA GoodPictures == \A p \in Pictures : PictureOK(p)
  BY PicturesAssumption DEF PictureOK, Colours, Bytes, Rows

(* The loops stay within the array, upright and upside down.               *)
LEMMA InPicture ==
  ASSUME NEW p, PictureOK(p), NEW y \in 0 .. Rows(p) - 1, NEW x \in 0 .. p.width - 1
  PROVE  At(p, y, x) \in Colours
<1> DEFINE z == IF p.height < 0 THEN Rows(p) - 1 - y ELSE y
<1>1. z \in 0 .. Rows(p) - 1 /\ Rows(p) \in Nat /\ p.width \in Nat
  BY DEF PictureOK
<1> HIDE DEF z
<1>2. z * p.width + x + 1 \in 1 .. p.width * Rows(p)
  BY <1>1, PixelAt
<1>3. p.pixels[z * p.width + x + 1] \in Colours
  BY <1>2, ElementOfSeq DEF PictureOK
<1> QED
  BY <1>3 DEF At, z

(* What is written for a colour are bytes.                                 *)
LEMMA ColourBytes ==
  ASSUME NEW c \in Colours
  PROVE  /\ c = <<c[1], c[2], c[3]>> /\ c[1] \in Bytes /\ c[2] \in Bytes /\ c[3] \in Bytes
         /\ Mean(c) \in Bytes /\ Dark(c) \in {0, 1}
<1>1. c = <<c[1], c[2], c[3]>> /\ c[1] \in Bytes /\ c[2] \in Bytes /\ c[3] \in Bytes
  BY DEF Colours
<1>2. Mean(c) \in Bytes
  <2> DEFINE r == c[1]  g == c[2]  b == c[3]
  <2>1. r \in 0 .. 255 /\ g \in 0 .. 255 /\ b \in 0 .. 255
    BY <1>1 DEF Bytes
  <2> HIDE DEF r, g, b
  <2>2. (r + g + b) \div 3 \in 0 .. 255
    BY <2>1, SMTT(20)
  <2> QED
    BY <2>2 DEF Mean, Bytes, r, g, b
<1> QED
  BY <1>1, <1>2 DEF Dark

(* A body that does not begin with white space is read from its beginning. *)
LEMMA NothingSkipped ==
  ASSUME NEW s \in Seq(Bytes), s # <<>>, s[1] \notin Space
  PROVE  SkipSpace(s) = s
<1> DEFINE I == {j \in 1 .. Len(s) : s[j] \notin Space}
<1>1. 1 \in I /\ \A j \in I : 1 <= j /\ j \in Int
  BY EmptySeq
<1>2. Min(I) = 1
  <2> HIDE DEF I
  <2> QED
    BY <1>1 DEF Min
<1>3. SubSeq(s, 1, Len(s)) = s
  OBVIOUS
<1>4. SkipSpace(s) = IF Min(I) = 0 THEN <<>> ELSE SubSeq(s, Min(I), Len(s))
  BY <1>1, <1>2 DEF SkipSpace, SelectInSeq
<1> HIDE DEF I
<1> QED
  BY <1>2, <1>3, <1>4
-----------------------------------------------------------------------------
(* The byte of eight bits, the first one leftmost.                         *)
ByteVal(d) == 128 * d[0] + 64 * d[1] + 32 * d[2] + 16 * d[3] + 8 * d[4] + 4 * d[5] + 2 * d[6] + d[7]

(* Shifting the bits in one after the other makes the byte; padding with   *)
(* zeros does if the bits that are left are zeros; and a bit test finds    *)
(* each bit again.                                                         *)
LEMMA EightBits ==
  ASSUME NEW d \in [0 .. 7 -> {0, 1}]
  PROVE  /\ ByteVal(d) \in Bytes
         /\ ByteVal(d) \div 256 = 0 /\ ByteVal(d) \div 2 ^ 0 = ByteVal(d)
         /\ \A n \in 0 .. 7 :
              /\ ByteVal(d) \div 2 ^ (8 - n) \in 0 .. 127
              /\ ((ByteVal(d) \div 2 ^ (8 - n)) * 2 + d[n]) % 256 = ByteVal(d) \div 2 ^ (7 - n)
              /\ (ByteVal(d) \div 2 ^ (7 - n)) % 2 = d[n]
              /\ (\A k \in n .. 7 : d[k] = 0) =>
                   ((ByteVal(d) \div 2 ^ (8 - n)) * 2 ^ (8 - n)) % 256 = ByteVal(d)
<1>0. /\ d[0] \in {0, 1} /\ d[1] \in {0, 1} /\ d[2] \in {0, 1} /\ d[3] \in {0, 1}
      /\ d[4] \in {0, 1} /\ d[5] \in {0, 1} /\ d[6] \in {0, 1} /\ d[7] \in {0, 1}
  OBVIOUS
<1> DEFINE b == ByteVal(d)
<1>1. /\ b \in Bytes /\ b \div 256 = 0 /\ b \div 1 = b
      /\ b \div 128 \in 0 .. 127 /\ b \div 64 \in 0 .. 127 /\ b \div 32 \in 0 .. 127 /\ b \div 16 \in 0 .. 127
      /\ b \div 8 \in 0 .. 127 /\ b \div 4 \in 0 .. 127 /\ b \div 2 \in 0 .. 127
  BY <1>0, SMTT(20) DEF ByteVal, Bytes
<1>2. /\ d[0] % 256 = b \div 128 /\ ((b \div 128) * 2 + d[1]) % 256 = b \div 64
      /\ ((b \div 64) * 2 + d[2]) % 256 = b \div 32 /\ ((b \div 32) * 2 + d[3]) % 256 = b \div 16
      /\ ((b \div 16) * 2 + d[4]) % 256 = b \div 8 /\ ((b \div 8) * 2 + d[5]) % 256 = b \div 4
      /\ ((b \div 4) * 2 + d[6]) % 256 = b \div 2 /\ ((b \div 2) * 2 + d[7]) % 256 = b
  BY <1>0, SMTT(20) DEF ByteVal
<1>3. /\ (b \div 128) % 2 = d[0] /\ (b \div 64) % 2 = d[1] /\ (b \div 32) % 2 = d[2] /\ (b \div 16) % 2 = d[3]
      /\ (b \div 8) % 2 = d[4] /\ (b \div 4) % 2 = d[5] /\ (b \div 2) % 2 = d[6] /\ b % 2 = d[7]
  BY <1>0, SMTT(20) DEF ByteVal
<1>4. /\ 2 ^ 0 = 1 /\ 2 ^ 1 = 2 /\ 2 ^ 2 = 4 /\ 2 ^ 3 = 8 /\ 2 ^ 4 = 16 /\ 2 ^ 5 = 32
      /\ 2 ^ 6 = 64 /\ 2 ^ 7 = 128 /\ 2 ^ 8 = 256
  BY SMT
<1> HIDE DEF b
<1>5. ASSUME NEW n \in 0 .. 7
      PROVE  /\ b \div 2 ^ (8 - n) \in 0 .. 127
             /\ ((b \div 2 ^ (8 - n)) * 2 + d[n]) % 256 = b \div 2 ^ (7 - n)
             /\ (b \div 2 ^ (7 - n)) % 2 = d[n]
  <2>1. CASE n = 0
    BY <1>0, <1>1, <1>2, <1>3, <1>4, <2>1
  <2>2. CASE n = 1
    BY <1>0, <1>1, <1>2, <1>3, <1>4, <2>2
  <2>3. CASE n = 2
    BY <1>0, <1>1, <1>2, <1>3, <1>4, <2>3
  <2>4. CASE n = 3
    BY <1>0, <1>1, <1>2, <1>3, <1>4, <2>4
  <2>5. CASE n = 4
    BY <1>0, <1>1, <1>2, <1>3, <1>4, <2>5
  <2>6. CASE n = 5
    BY <1>0, <1>1, <1>2, <1>3, <1>4, <2>6
  <2>7. CASE n = 6
    BY <1>0, <1>1, <1>2, <1>3, <1>4, <2>7
  <2>8. CASE n = 7
    BY <1>0, <1>1, <1>2, <1>3, <1>4, <2>8
  <2> QED
    BY <2>1, <2>2, <2>3, <2>4, <2>5, <2>6, <2>7, <2>8
<1>6. ASSUME NEW n \in 0 .. 7, \A k \in n .. 7 : d[k] = 0
      PROVE  ((b \div 2 ^ (8 - n)) * 2 ^ (8 - n)) % 256 = b
  <2>1. CASE n = 0
    BY <1>0, <1>1, <1>2, <1>3, <1>4, <1>6, <2>1 DEF b, ByteVal
  <2>2. CASE n = 1
    BY <1>0, <1>1, <1>2, <1>3, <1>4, <1>6, <2>2 DEF b, ByteVal
  <2>3. CASE n = 2
    BY <1>0, <1>1, <1>2, <1>3, <1>4, <1>6, <2>3 DEF b, ByteVal
  <2>4. CASE n = 3
    BY <1>0, <1>1, <1>2, <1>3, <1>4, <1>6, <2>4 DEF b, ByteVal
  <2>5. CASE n = 4
    BY <1>0, <1>1, <1>2, <1>3, <1>4, <1>6, <2>5 DEF b, ByteVal
  <2>6. CASE n = 5
    BY <1>0, <1>1, <1>2, <1>3, <1>4, <1>6, <2>6 DEF b, ByteVal
  <2>7. CASE n = 6
    BY <1>0, <1>1, <1>2, <1>3, <1>4, <1>6, <2>7 DEF b, ByteVal
  <2>8. CASE n = 7
    BY <1>0, <1>1, <1>2, <1>3, <1>4, <1>6, <2>8 DEF b, ByteVal
  <2> QED
    BY <2>1, <2>2, <2>3, <2>4, <2>5, <2>6, <2>7, <2>8
<1> QED
  BY <1>1, <1>4, <1>5, <1>6 DEF b
-----------------------------------------------------------------------------
(* A row of a raw PBM: its bits, zeros behind its end, and its bytes.      *)
Bit(p, y, x) == IF x < p.width THEN Dark(At(p, y, x)) ELSE 0
EightOf(p, y, q) == [k \in 0 .. 7 |-> Bit(p, y, 8 * q + k)]
ByteOf(p, y, q) == ByteVal(EightOf(p, y, q))
RowBytes(p) == (p.width + 7) \div 8

(* What the body of a file has of the k-th pixel, or of byte q of row y.   *)
HoldsPixel(p, m, b, k) ==
  LET c == Scan(p)[k]
  IN /\ m \in {PPM_ASCII, PPM_RAW} =>
          3 * k <= Len(b) /\ b[3 * k - 2] = c[1] /\ b[3 * k - 1] = c[2] /\ b[3 * k] = c[3]
     /\ m \in {PGM_ASCII, PGM_RAW} => k <= Len(b) /\ b[k] = Mean(c)
     /\ m = PBM_ASCII => k <= Len(b) /\ b[k] = Dark(c)
HoldsByte(p, b, y, q) ==
  y * RowBytes(p) + q + 1 <= Len(b) /\ b[y * RowBytes(p) + q + 1] = ByteOf(p, y, q)

(* The whole picture is in the body.                                       *)
Complete(p, m, n, b) ==
  /\ \A k \in 1 .. Len(p.pixels) : HoldsPixel(p, m, b, k)
  /\ m = PBM_RAW /\ n >= 0 /\ n % 8 = 0 =>
       \A y \in 0 .. Rows(p) - 1, q \in 0 .. RowBytes(p) - 1 : HoldsByte(p, b, y, q)

-----------------------------------------------------------------------------
(* The k-th pixel of the loops is the one at its row and column.           *)
LEMMA ScanAt ==
  ASSUME NEW p, PictureOK(p), NEW y \in 0 .. Rows(p) - 1, NEW x \in 0 .. p.width - 1
  PROVE  /\ y * p.width + x + 1 \in 1 .. Len(p.pixels)
         /\ Scan(p)[y * p.width + x + 1] = At(p, y, x)
<1> DEFINE w == p.width  k == y * w + x + 1
<1>1. w \in Nat /\ Rows(p) \in Nat /\ Len(p.pixels) = w * Rows(p)
  BY DEF PictureOK
<1>2. k \in 1 .. w * Rows(p) /\ (y * w + x) \div w = y /\ (y * w + x) % w = x
  BY <1>1, PixelAt
<1>3. k - 1 = y * w + x
  <2>1. y * w \in Int
    BY <1>1
  <2> QED
    BY <1>1, <2>1
<1> QED
  BY <1>1, <1>2, <1>3 DEF Scan

(* And every pixel of the picture is such a one.                           *)
LEMMA ScanPlace ==
  ASSUME NEW p, PictureOK(p), NEW k \in 1 .. Len(p.pixels)
  PROVE  /\ p.width > 0
         /\ (k - 1) \div p.width \in 0 .. Rows(p) - 1 /\ (k - 1) % p.width \in 0 .. p.width - 1
         /\ Scan(p)[k] = At(p, (k - 1) \div p.width, (k - 1) % p.width)
         /\ Scan(p)[k] \in Colours
<1>1. p.width \in Nat /\ Rows(p) \in Nat /\ Len(p.pixels) = p.width * Rows(p)
  BY DEF PictureOK
<1>2. /\ p.width > 0
      /\ (k - 1) \div p.width \in 0 .. Rows(p) - 1 /\ (k - 1) % p.width \in 0 .. p.width - 1
  BY <1>1, PlaceOf
<1>3. Scan(p)[k] = At(p, (k - 1) \div p.width, (k - 1) % p.width)
  BY DEF Scan
<1> QED
  BY <1>2, <1>3, InPicture

(* What is printed later changes nothing of what was printed before.       *)
LEMMA PrintedStays ==
  ASSUME NEW p, NEW m, NEW b \in Seq(Bytes), NEW s \in Seq(Bytes)
  PROVE  /\ b \o s \in Seq(Bytes) /\ Len(b \o s) = Len(b) + Len(s)
         /\ \A k \in Nat \ {0} : HoldsPixel(p, m, b, k) => HoldsPixel(p, m, b \o s, k)
         /\ \A y, q \in Nat : RowBytes(p) \in Nat /\ HoldsByte(p, b, y, q) => HoldsByte(p, b \o s, y, q)
<1>1. /\ b \o s \in Seq(Bytes) /\ Len(b \o s) = Len(b) + Len(s) /\ Len(b) \in Nat /\ Len(s) \in Nat
      /\ \A j \in 1 .. Len(b) : (b \o s)[j] = b[j]
  BY ConcatProperties, LenProperties
<1> DEFINE t == b \o s
<1> HIDE DEF t
<1>2. /\ Len(t) \in Nat /\ Len(b) <= Len(t) /\ Len(b) \in Nat
      /\ \A j \in 1 .. Len(b) : t[j] = b[j]
  BY <1>1 DEF t
<1>3. ASSUME NEW k \in Nat \ {0}, HoldsPixel(p, m, b, k)
      PROVE  HoldsPixel(p, m, t, k)
  <2>1. 3 * k <= Len(b) => t[3 * k - 2] = b[3 * k - 2] /\ t[3 * k - 1] = b[3 * k - 1] /\ t[3 * k] = b[3 * k]
    BY <1>2
  <2>2. k <= Len(b) => t[k] = b[k]
    BY <1>2
  <2>3. (3 * k <= Len(b) => 3 * k <= Len(t)) /\ (k <= Len(b) => k <= Len(t))
    BY <1>2
  <2> QED
    BY <1>3, <2>1, <2>2, <2>3 DEF HoldsPixel
<1>4. ASSUME NEW y \in Nat, NEW q \in Nat, RowBytes(p) \in Nat, HoldsByte(p, b, y, q)
      PROVE  HoldsByte(p, t, y, q)
  <2>1. y * RowBytes(p) \in Nat
    BY <1>4
  <2>2. y * RowBytes(p) + q + 1 \in 1 .. Len(b)
    BY <1>2, <1>4, <2>1 DEF HoldsByte
  <2> QED
    BY <1>2, <1>4, <2>2 DEF HoldsByte
<1> QED
  BY <1>1, <1>3, <1>4 DEF t

(* The bits of a byte of a row are bits.                                   *)
LEMMA RowBits ==
  ASSUME NEW p, PictureOK(p), NEW y \in 0 .. Rows(p) - 1, NEW q \in Nat
  PROVE  /\ EightOf(p, y, q) \in [0 .. 7 -> {0, 1}]
         /\ ByteOf(p, y, q) \in Bytes
<1>1. ASSUME NEW k \in 0 .. 7
      PROVE  Bit(p, y, 8 * q + k) \in {0, 1}
  <2>1. CASE 8 * q + k < p.width
    <3>1. 8 * q + k \in 0 .. p.width - 1
      BY <2>1 DEF PictureOK
    <3> QED
      BY <2>1, <3>1, InPicture, ColourBytes DEF Bit
  <2>2. CASE ~(8 * q + k < p.width)
    BY <2>2 DEF Bit
  <2> QED
    BY <2>1, <2>2
<1>2. EightOf(p, y, q) \in [0 .. 7 -> {0, 1}]
  BY <1>1 DEF EightOf
<1> QED
  BY <1>2, EightBits DEF ByteOf

(* The bytes of a row: as many as it takes.                                *)
LEMMA BytesOfRow ==
  ASSUME NEW p, PictureOK(p)
  PROVE  /\ RowBytes(p) \in Nat
         /\ \A x \in 0 .. p.width - 1 :
              /\ x \div 8 \in 0 .. RowBytes(p) - 1 /\ x % 8 \in 0 .. 7 /\ x = 8 * (x \div 8) + (x % 8)
              /\ x + 1 = p.width => RowBytes(p) = x \div 8 + 1
              /\ x % 8 = 7 => (x + 1) \div 8 = x \div 8 + 1 /\ (x + 1) % 8 = 0
              /\ x % 8 # 7 => (x + 1) \div 8 = x \div 8 /\ (x + 1) % 8 = (x % 8) + 1
<1> DEFINE w == p.width
<1>1. w \in Nat
  BY DEF PictureOK
<1> HIDE DEF w
<1>2. (w + 7) \div 8 \in Nat
  BY <1>1, SMTT(20)
<1>3. ASSUME NEW x \in 0 .. w - 1
      PROVE  /\ x \div 8 \in 0 .. ((w + 7) \div 8) - 1 /\ x % 8 \in 0 .. 7 /\ x = 8 * (x \div 8) + (x % 8)
             /\ x + 1 = w => (w + 7) \div 8 = x \div 8 + 1
             /\ x % 8 = 7 => (x + 1) \div 8 = x \div 8 + 1 /\ (x + 1) % 8 = 0
             /\ x % 8 # 7 => (x + 1) \div 8 = x \div 8 /\ (x + 1) % 8 = (x % 8) + 1
  BY <1>1, SMTT(30)
<1> QED
  BY <1>2, <1>3 DEF w, RowBytes
-----------------------------------------------------------------------------
FileType == [letter : {"P", "p", "Q"}, digit : Int, max : Int, width : Nat, height : Nat, body : Seq(Bytes)]
IsFileOf(f, p, m) == f \in FileType /\ f.digit = m /\ f.width = p.width /\ f.height = Rows(p)

(* ReadPPM makes of a bit what the format keeps of the pixel.              *)
LEMMA ReadBit ==
  ASSUME NEW p, PictureOK(p), NEW f, IsFileOf(f, p, PBM_RAW), NEW k \in 1 .. Len(p.pixels),
         \A y \in 0 .. Rows(p) - 1, q \in 0 .. RowBytes(p) - 1 : HoldsByte(p, f.body, y, q)
  PROVE  Pixel(f, k) = Kept(PBM_RAW, Scan(p)[k])
<1> DEFINE x == (k - 1) % p.width
           y == (k - 1) \div p.width
           c == Scan(p)[k]
           d == EightOf(p, y, x \div 8)
           j0 == y * RowBytes(p) + (x \div 8) + 1
<1>1. /\ y \in 0 .. Rows(p) - 1 /\ x \in 0 .. p.width - 1
      /\ c = At(p, y, x) /\ c \in Colours
  BY ScanPlace
<1> HIDE DEF x, y, c
<1>2. /\ x \div 8 \in 0 .. RowBytes(p) - 1 /\ x % 8 \in 0 .. 7 /\ x = 8 * (x \div 8) + (x % 8)
      /\ x \div 8 \in Nat /\ y \in Nat
  BY <1>1, BytesOfRow
<1>3. j0 <= Len(f.body) /\ f.body[j0] = ByteVal(d)
  BY <1>1, <1>2 DEF HoldsByte, ByteOf
<1>4. d \in [0 .. 7 -> {0, 1}]
  BY <1>1, <1>2, RowBits
<1>5. d[x % 8] = Dark(c)
  <2>1. d[x % 8] = Bit(p, y, x)
    BY <1>2 DEF EightOf
  <2>2. x < p.width
    BY <1>1 DEF PictureOK
  <2> QED
    BY <1>1, <2>1, <2>2 DEF Bit
<1>6. Byte(f.body, j0) = ByteVal(d)
  BY <1>3 DEF Byte
<1> HIDE DEF d
<1>7. (ByteVal(d) \div 2 ^ (7 - (x % 8))) % 2 = Dark(c)
  BY <1>2, <1>4, <1>5, EightBits
<1>8. Pixel(f, k) = Grey(IF (Byte(f.body, j0) \div 2 ^ (7 - (x % 8))) % 2 = 1 THEN 0 ELSE 255)
  BY DEF Pixel, IsFileOf, RowBytes, x, y, PBM_RAW, PBM_ASCII, PGM_RAW, PGM_ASCII, PPM_RAW, PPM_ASCII
<1> DEFINE g == IF Dark(c) = 1 THEN 0 ELSE 255
<1>9. Pixel(f, k) = Grey(g)
  BY <1>6, <1>7, <1>8
<1>10. g = 255 * (1 - Dark(c))
  BY <1>1, ColourBytes
<1>11. Kept(PBM_RAW, c) = Grey(255 * (1 - Dark(c)))
  BY DEF Kept, PBM_RAW, PBM_ASCII, PGM_RAW, PGM_ASCII, PPM_RAW, PPM_ASCII
<1> QED
  BY <1>9, <1>10, <1>11 DEF c

(* And in the other formats of the numbers of a pixel.                     *)
LEMMA ReadNumbers ==
  ASSUME NEW p, PictureOK(p), NEW m \in {PBM_ASCII, PGM_ASCII, PPM_ASCII, PGM_RAW, PPM_RAW},
         NEW f, IsFileOf(f, p, m), NEW k \in 1 .. Len(p.pixels), HoldsPixel(p, m, f.body, k),
         RawMode(m) => f.body[1] \notin Space
  PROVE  Pixel(f, k) = Kept(m, Scan(p)[k])
<1> DEFINE c == Scan(p)[k]  b == f.body
<1>1. c \in Colours /\ c = <<c[1], c[2], c[3]>>
  BY ScanPlace, ColourBytes
<1>2. k \in Nat /\ k > 0
  BY DEF PictureOK
<1>3. b \in Seq(Bytes) /\ f.digit = m
  BY DEF IsFileOf, FileType
<1> HIDE DEF c, b
<1>4. CASE m = PPM_ASCII
  <2>1. b[3 * k - 2] = c[1] /\ b[3 * k - 1] = c[2] /\ b[3 * k] = c[3]
    BY <1>4 DEF HoldsPixel, c, b
  <2>2. Pixel(f, k) = <<b[3 * k - 2], b[3 * k - 1], b[3 * k]>>
    BY <1>3, <1>4 DEF Pixel, RawMode, HasMax, b, PBM_RAW, PBM_ASCII, PGM_RAW, PGM_ASCII, PPM_RAW, PPM_ASCII
  <2>3. Kept(m, c) = c
    BY <1>4 DEF Kept, PBM_RAW, PBM_ASCII, PGM_RAW, PGM_ASCII, PPM_RAW, PPM_ASCII
  <2> QED
    BY <1>1, <2>1, <2>2, <2>3 DEF c
<1>5. CASE m = PGM_ASCII
  <2>1. b[k] = Mean(c)
    BY <1>5 DEF HoldsPixel, c, b
  <2>2. Pixel(f, k) = Grey(b[k])
    BY <1>3, <1>5 DEF Pixel, RawMode, HasMax, b, PBM_RAW, PBM_ASCII, PGM_RAW, PGM_ASCII, PPM_RAW, PPM_ASCII
  <2>3. Kept(m, c) = Grey(Mean(c))
    BY <1>5 DEF Kept, PBM_RAW, PBM_ASCII, PGM_RAW, PGM_ASCII, PPM_RAW, PPM_ASCII
  <2> QED
    BY <2>1, <2>2, <2>3 DEF c
<1>6. CASE m = PBM_ASCII
  <2>1. b[k] = Dark(c)
    BY <1>6 DEF HoldsPixel, c, b
  <2>2. Pixel(f, k) = Grey(255 * b[k])
    BY <1>3, <1>6 DEF Pixel, RawMode, HasMax, b, PBM_RAW, PBM_ASCII, PGM_RAW, PGM_ASCII, PPM_RAW, PPM_ASCII
  <2>3. Kept(m, c) = Grey(255 * Dark(c))
    BY <1>6 DEF Kept, PBM_RAW, PBM_ASCII, PGM_RAW, PGM_ASCII, PPM_RAW, PPM_ASCII
  <2> QED
    BY <2>1, <2>2, <2>3 DEF c
<1>7. ASSUME m \in {PGM_RAW, PPM_RAW}, b # <<>>
      PROVE  SkipSpace(b) = b
  BY <1>3, <1>7, NothingSkipped DEF RawMode, b
<1>8. CASE m = PGM_RAW
  <2>1. k <= Len(b) /\ b[k] = Mean(c)
    BY <1>8 DEF HoldsPixel, c, b
  <2>2. SkipSpace(b) = b
    BY <1>2, <1>3, <1>7, <1>8, <2>1
  <2>3. Pixel(f, k) = Grey(Byte(SkipSpace(b), k))
    BY <1>3, <1>8 DEF Pixel, RawMode, HasMax, b, PBM_RAW, PBM_ASCII, PGM_RAW, PGM_ASCII, PPM_RAW, PPM_ASCII
  <2>4. Kept(m, c) = Grey(Mean(c))
    BY <1>8 DEF Kept, PBM_RAW, PBM_ASCII, PGM_RAW, PGM_ASCII, PPM_RAW, PPM_ASCII
  <2> QED
    BY <2>1, <2>2, <2>3, <2>4 DEF c, Byte
<1>9. CASE m = PPM_RAW
  <2>1. 3 * k <= Len(b) /\ b[3 * k - 2] = c[1] /\ b[3 * k - 1] = c[2] /\ b[3 * k] = c[3]
    BY <1>9 DEF HoldsPixel, c, b
  <2>2. SkipSpace(b) = b
    BY <1>2, <1>3, <1>7, <1>9, <2>1
  <2>3. Pixel(f, k) = <<Byte(SkipSpace(b), 3 * k - 2), Byte(SkipSpace(b), 3 * k - 1), Byte(SkipSpace(b), 3 * k)>>
    BY <1>3, <1>9 DEF Pixel, RawMode, HasMax, b, PBM_RAW, PBM_ASCII, PGM_RAW, PGM_ASCII, PPM_RAW, PPM_ASCII
  <2>4. Kept(m, c) = c
    BY <1>9 DEF Kept, PBM_RAW, PBM_ASCII, PGM_RAW, PGM_ASCII, PPM_RAW, PPM_ASCII
  <2>5. Byte(b, 3 * k - 2) = c[1] /\ Byte(b, 3 * k - 1) = c[2] /\ Byte(b, 3 * k) = c[3]
    <3>1. Len(b) \in Nat /\ 3 * k - 2 <= Len(b) /\ 3 * k - 1 <= Len(b)
      BY <1>2, <1>3, <2>1
    <3> QED
      BY <2>1, <3>1 DEF Byte
  <2> QED
    BY <1>1, <2>2, <2>3, <2>4, <2>5 DEF c
<1> QED
  BY <1>4, <1>5, <1>6, <1>8, <1>9
-----------------------------------------------------------------------------
(* The part of it that the loops have passed is.                           *)
Collected(p, y, x) == IF x % 8 = 0 THEN 0 ELSE ByteOf(p, y, x \div 8) \div 2 ^ (8 - (x % 8))
PixelsDone == row * picture.width + column
WrittenPixels ==
  /\ mode \in {PPM_ASCII, PPM_RAW} => Len(file.body) = 3 * PixelsDone
  /\ mode \in {PGM_ASCII, PGM_RAW, PBM_ASCII} => Len(file.body) = PixelsDone
  /\ \A k \in 1 .. PixelsDone : HoldsPixel(picture, mode, file.body, k)
WrittenBytes ==
  LET q0 == column \div 8
  IN /\ Len(file.body) = row * RowBytes(picture) + q0
     /\ \A y \in 0 .. row, q \in 0 .. RowBytes(picture) - 1 :
          y < row \/ (y = row /\ q < q0) => HoldsByte(picture, file.body, y, q)
     /\ counter >= 0 /\ counter % 8 = column % 8
     /\ bw = Collected(picture, row, column)

Written == {"GFXIO_OK", "edited", "read"}
Outcomes == {"none", "GFXIO_UNSUPPORTED", "GFXIO_OPENERROR", "writing", "exited"} \cup Written

LoopsOK ==
  /\ row \in 0 .. Rows(picture) /\ column \in Nat
  /\ column = 0 \/ (row < Rows(picture) /\ column < picture.width)
  /\ counter \in Int /\ bw \in Bytes
  /\ outcome = "none" => row = 0 /\ column = 0 /\ bw = 0
PixelInv ==
  /\ picture \in Pictures /\ mode \in Int /\ unset \in Int /\ outcome \in Outcomes
  /\ LoopsOK
  /\ outcome \in Written \cup {"writing"} => IsFileOf(file, picture, mode)
  /\ outcome = "writing" =>
       /\ WrittenPixels
       /\ mode = PBM_RAW /\ unset >= 0 /\ unset % 8 = 0 => WrittenBytes
  /\ outcome \in Written => Complete(picture, mode, unset, file.body)
  /\ RoundTrip
-----------------------------------------------------------------------------
(* Nothing is written at first.                                            *)
LEMMA PixelsInit == PixelInit => PixelInv
<1> SUFFICES ASSUME PixelInit
             PROVE  PixelInv
  OBVIOUS
<1>1. PictureOK(picture)
  BY GoodPictures DEF PixelInit
<1>2. LoopsOK
  BY <1>1 DEF PixelInit, LoopsOK, PictureOK, Bytes
<1> QED
  BY <1>2 DEF PixelInit, PixelInv, Outcomes, Written, RoundTrip

(* WritePPM refuses, cannot open the file, or writes a header.             *)
LEMMA WritePPMStep == ASSUME NEW m \in Modes PROVE PixelInv /\ WritePPM(m) => PixelInv'
<1> SUFFICES ASSUME PixelInv, WritePPM(m)
             PROVE  PixelInv'
  OBVIOUS
<1>1. /\ picture \in Pictures /\ PictureOK(picture) /\ row = 0 /\ column = 0 /\ bw = 0
      /\ UNCHANGED <<picture, row, column, bw, read>> /\ mode' = m /\ m \in Int
      /\ counter' = unset' /\ unset' \in Int
  BY GoodPictures, UnsetAssumption, ModesAssumption DEF PixelInv, LoopsOK, WritePPM
<1>2. LoopsOK'
  BY <1>1 DEF LoopsOK, PixelInv, PictureOK, Rows, WritePPM, Bytes
<1>3. CASE outcome' \in {"GFXIO_UNSUPPORTED", "GFXIO_OPENERROR"}
  BY <1>1, <1>2, <1>3 DEF PixelInv, Outcomes, Written, RoundTrip
<1>4. CASE outcome' = "writing"
  <2>1. file' = [letter |-> "P", digit |-> m, max |-> 255,
                 width |-> picture.width, height |-> Rows(picture), body |-> <<>>]
    BY <1>4 DEF WritePPM
  <2>2. file'.body = <<>> /\ Len(file'.body) = 0
    BY <2>1
  <2>3. IsFileOf(file, picture, mode)'
    <3>1. <<>> \in Seq(Bytes) /\ Rows(picture) \in Nat /\ picture.width \in Nat
      BY <1>1, EmptySeq DEF PictureOK
    <3>2. file' \in FileType
      BY <1>1, <2>1, <3>1 DEF FileType
    <3>3. Rows(picture)' = Rows(picture)
      BY <1>1 DEF Rows
    <3> QED
      BY <1>1, <2>1, <3>2, <3>3 DEF IsFileOf, Rows
  <2>4. PixelsDone' = 0
    BY <1>1 DEF PixelsDone, PictureOK
  <2>5. WrittenPixels'
    BY <2>2, <2>4 DEF WrittenPixels
  <2>6. ASSUME unset' >= 0, unset' % 8 = 0
        PROVE  WrittenBytes'
    <3>1. RowBytes(picture)' \in Nat
      BY <1>1, BytesOfRow DEF RowBytes
    <3>2. column' \div 8 = 0 /\ column' % 8 = 0 /\ row' = 0 /\ row' * RowBytes(picture)' = 0
      BY <1>1, <3>1
    <3>3. counter' >= 0 /\ counter' % 8 = 0 /\ bw' = 0
      BY <1>1, <2>6
    <3>4. ASSUME NEW y \in 0 .. row', NEW q \in 0 .. RowBytes(picture)' - 1
          PROVE  ~(y < row' \/ (y = row' /\ q < column' \div 8))
      BY <3>1, <3>2
    <3>5. Len(file'.body) = row' * RowBytes(picture)' + (column' \div 8)
      BY <2>2, <3>2
    <3> QED
      BY <3>2, <3>3, <3>4, <3>5 DEF WrittenBytes, Collected
  <2> QED
    BY <1>1, <1>2, <1>4, <2>3, <2>5, <2>6 DEF PixelInv, Outcomes, Written, RoundTrip
<1> QED
  BY <1>3, <1>4 DEF WritePPM

(* The picture is written when the loops are through, but for the newline. *)
LEMMA WriteEndStep == PixelInv /\ WriteEnd => PixelInv'
<1> SUFFICES ASSUME PixelInv, WriteEnd
             PROVE  PixelInv'
  OBVIOUS
<1> DEFINE p == picture  b == file.body  s == IF RawMode(mode) THEN <<Newline>> ELSE <<>>
<1>1. /\ p \in Pictures /\ PictureOK(p) /\ LoopsOK /\ IsFileOf(file, p, mode) /\ outcome' = "GFXIO_OK"
      /\ WrittenPixels
      /\ mode = PBM_RAW /\ unset >= 0 /\ unset % 8 = 0 => WrittenBytes
      /\ UNCHANGED <<picture, mode, unset, row, column, counter, bw, read>>
  BY GoodPictures DEF PixelInv, WriteEnd, loopVars
<1>2. LoopsOK'
  BY <1>1 DEF LoopsOK, Rows
<1>3. b \in Seq(Bytes) /\ s \in Seq(Bytes)
  <2>1. <<Newline>> \in Seq(Bytes) /\ <<>> \in Seq(Bytes)
    BY EmptySeq DEF Newline, Bytes
  <2> QED
    BY <1>1, <2>1 DEF IsFileOf, FileType
<1>4. file' = [file EXCEPT !.body = b \o s]
  <2>1. CASE RawMode(mode)
    BY <2>1 DEF WriteEnd, Emit
  <2>2. CASE ~RawMode(mode)
    <3>1. b \o s = b
      BY <1>3, <2>2, ConcatEmptySeq
    <3>2. file' = file
      BY <2>2 DEF WriteEnd
    <3> QED
      BY <1>1, <3>1, <3>2 DEF IsFileOf, FileType
  <2> QED
    BY <2>1, <2>2
<1> HIDE DEF s
<1>5. IsFileOf(file, p, mode)' /\ file'.body = b \o s
  BY <1>1, <1>3, <1>4, PrintedStays DEF IsFileOf, FileType, Rows
<1>6. PixelsDone = Len(p.pixels)
  <2> DEFINE w == p.width  h == Rows(p)
  <2>1. w \in Nat /\ h \in Nat /\ Len(p.pixels) = w * h
    BY <1>1 DEF PictureOK
  <2>2. row \in Nat /\ column = 0 /\ (row = h \/ w = 0)
    BY <1>1, <2>1 DEF LoopsOK, WriteEnd
  <2> HIDE DEF w, h
  <2>3. row * w + column = w * h
    BY <2>1, <2>2, SMTT(20)
  <2> QED
    BY <2>1, <2>3 DEF PixelsDone, w
<1>7. ASSUME NEW k \in 1 .. Len(p.pixels)
      PROVE  HoldsPixel(p, mode, b \o s, k)
  <2>1. k \in Nat \ {0} /\ HoldsPixel(p, mode, b, k)
    BY <1>1, <1>6, <1>7 DEF WrittenPixels, PictureOK
  <2> QED
    BY <1>3, <2>1, PrintedStays
<1>8. ASSUME mode = PBM_RAW, unset >= 0, unset % 8 = 0,
             NEW y \in 0 .. Rows(p) - 1, NEW q \in 0 .. RowBytes(p) - 1
      PROVE  HoldsByte(p, b \o s, y, q)
  <2>1. y \in Nat /\ q \in Nat /\ RowBytes(p) \in Nat /\ y \in 0 .. row /\ y < row
    <3>1. p.width # 0
      BY <1>8 DEF RowBytes
    <3> QED
      BY <1>1, <1>8, <3>1, BytesOfRow DEF WriteEnd, PictureOK
  <2>2. HoldsByte(p, b, y, q)
    BY <1>1, <1>8, <2>1 DEF WrittenBytes
  <2> QED
    BY <1>3, <2>1, <2>2, PrintedStays
<1>9. Complete(picture, mode, unset, file.body)'
  <2>1. Complete(p, mode, unset, b \o s)
    BY <1>7, <1>8 DEF Complete
  <2> QED
    BY <1>1, <1>5, <2>1
<1> QED
  BY <1>1, <1>2, <1>5, <1>9 DEF PixelInv, Outcomes, Written, RoundTrip

(* Where the inner loop stands before and after a turn.                    *)
Turn(c) ==
  /\ picture \in Pictures /\ PictureOK(picture) /\ IsFileOf(file, picture, mode)
  /\ row \in 0 .. Rows(picture) - 1 /\ column \in 0 .. picture.width - 1
  /\ c = At(picture, row, column) /\ c \in Colours
  /\ PixelsDone \in Nat /\ PixelsDone + 1 \in 1 .. Len(picture.pixels)
  /\ Scan(picture)[PixelsDone + 1] = c
  /\ PixelsDone' = PixelsDone + 1

(* Every turn of the loops is at a pixel of the picture, the next one.      *)
LEMMA OneTurn == PixelInv /\ WritePixel => Turn(At(picture, row, column)) /\ LoopsOK'
<1> SUFFICES ASSUME PixelInv, WritePixel
             PROVE  Turn(At(picture, row, column)) /\ LoopsOK'
  OBVIOUS
<1> DEFINE w == picture.width  h == Rows(picture)
<1>1. /\ picture \in Pictures /\ PictureOK(picture) /\ IsFileOf(file, picture, mode)
      /\ w \in Nat /\ h \in Nat /\ UNCHANGED picture
  BY GoodPictures DEF PixelInv, WritePixel, PictureOK
<1>2. row \in 0 .. h - 1 /\ column \in 0 .. w - 1
  BY <1>1 DEF PixelInv, LoopsOK, WritePixel
<1>3. /\ At(picture, row, column) \in Colours
      /\ row * w + column + 1 \in 1 .. Len(picture.pixels)
      /\ Scan(picture)[row * w + column + 1] = At(picture, row, column)
  BY <1>1, <1>2, InPicture, ScanAt
<1>4. PixelsDone \in Nat /\ PixelsDone' = PixelsDone + 1
  <2>1. \/ row' = row + 1 /\ column' = 0 /\ column + 1 = w
        \/ row' = row /\ column' = column + 1
    BY DEF WritePixel
  <2>2. PixelsDone = row * w + column /\ PixelsDone' = row' * w + column'
    BY <1>1 DEF PixelsDone
  <2> HIDE DEF w, h
  <2>3. row * w + column \in Nat /\ row' * w + column' = row * w + column + 1
    BY <1>1, <1>2, <2>1, SMTT(20)
  <2> QED
    BY <2>2, <2>3
<1>5. LoopsOK'
  <2>1. /\ outcome = "writing" /\ outcome' = "writing" /\ counter \in Int /\ bw \in Bytes
        /\ \/ row' = row + 1 /\ column' = 0
           \/ row' = row /\ column' = column + 1 /\ column + 1 # w
    BY DEF WritePixel, PixelInv, LoopsOK
  <2>2. counter' \in Int /\ bw' \in Bytes
    <3> DEFINE dark == Dark(At(picture, row, column))
    <3>1. dark \in {0, 1}
      BY <1>3, ColourBytes
    <3> HIDE DEF dark
    <3>2. (bw * 2 + dark) % 256 \in Bytes /\ 0 \in Bytes
      BY <2>1, <3>1 DEF Bytes
    <3>3. counter + 1 \in Int
      BY <2>1
    <3>4. /\ counter' \in {counter, counter + 1, 0}
          /\ bw' \in {bw, (bw * 2 + dark) % 256, 0}
      BY DEF WritePixel, Pack, dark
    <3> QED
      BY <2>1, <3>2, <3>3, <3>4
  <2>3. Rows(picture)' = h /\ picture'.width = w
    BY <1>1 DEF Rows
  <2> HIDE DEF w, h
  <2> QED
    BY <1>1, <1>2, <2>1, <2>2, <2>3 DEF LoopsOK
<1> QED
  BY <1>1, <1>2, <1>3, <1>4, <1>5 DEF Turn, PixelsDone

(* The formats that print each pixel for itself.                           *)
LEMMA PrintStep == PixelInv /\ WritePixel /\ mode # PBM_RAW => PixelInv'
<1> SUFFICES ASSUME PixelInv, WritePixel, mode # PBM_RAW
             PROVE  PixelInv'
  OBVIOUS
<1> DEFINE p == picture  b == file.body  c == At(picture, row, column)  s == Printed(c)  n == PixelsDone
<1>1. Turn(c) /\ LoopsOK'
  BY OneTurn
<1>2. /\ outcome = "writing" /\ UNCHANGED <<picture, mode, unset, outcome, read>>
      /\ file' = [file EXCEPT !.body = b \o s] /\ WrittenPixels
  BY DEF WritePixel, Emit, PixelInv
<1> HIDE DEF c
<1>3. /\ s \in Seq(Bytes)
      /\ mode \in {PPM_ASCII, PPM_RAW} => Len(s) = 3 /\ s[1] = c[1] /\ s[2] = c[2] /\ s[3] = c[3]
      /\ mode \in {PGM_ASCII, PGM_RAW} => Len(s) = 1 /\ s[1] = Mean(c)
      /\ mode = PBM_ASCII => Len(s) = 1 /\ s[1] = Dark(c)
  <2>1. c[1] \in Bytes /\ c[2] \in Bytes /\ c[3] \in Bytes /\ Mean(c) \in Bytes /\ Dark(c) \in Bytes
    BY <1>1, ColourBytes DEF Turn, Bytes
  <2>2. CASE mode \in {PPM_ASCII, PPM_RAW}
    <3>1. s = <<c[1], c[2], c[3]>>
      BY <2>2 DEF Printed, PBM_RAW, PBM_ASCII, PGM_RAW, PGM_ASCII, PPM_RAW, PPM_ASCII
    <3> HIDE DEF s
    <3> QED
      BY <2>1, <2>2, <3>1 DEF PBM_RAW, PBM_ASCII, PGM_RAW, PGM_ASCII, PPM_RAW, PPM_ASCII
  <2>3. CASE mode \in {PGM_ASCII, PGM_RAW}
    <3>1. s = <<Mean(c)>>
      BY <2>3 DEF Printed, PBM_RAW, PBM_ASCII, PGM_RAW, PGM_ASCII, PPM_RAW, PPM_ASCII
    <3> HIDE DEF s
    <3> QED
      BY <2>1, <2>3, <3>1 DEF PBM_RAW, PBM_ASCII, PGM_RAW, PGM_ASCII, PPM_RAW, PPM_ASCII
  <2>4. CASE mode = PBM_ASCII
    <3>1. s = <<Dark(c)>>
      BY <2>4 DEF Printed, PBM_RAW, PBM_ASCII, PGM_RAW, PGM_ASCII, PPM_RAW, PPM_ASCII
    <3> HIDE DEF s
    <3> QED
      BY <2>1, <2>4, <3>1 DEF PBM_RAW, PBM_ASCII, PGM_RAW, PGM_ASCII, PPM_RAW, PPM_ASCII
  <2>5. CASE mode \notin {PPM_ASCII, PPM_RAW, PGM_ASCII, PGM_RAW, PBM_ASCII}
    <3>1. s = <<>>
      BY <2>5 DEF Printed
    <3> QED
      BY <2>5, <3>1, EmptySeq
  <2> QED
    BY <2>2, <2>3, <2>4, <2>5
<1> HIDE DEF s
<1>4. b \in Seq(Bytes)
  BY <1>1 DEF Turn, IsFileOf, FileType
<1>5. IsFileOf(file, p, mode)' /\ file'.body = b \o s
  BY <1>1, <1>2, <1>3, <1>4, PrintedStays DEF Turn, IsFileOf, FileType, Rows
<1>6. /\ mode \in {PPM_ASCII, PPM_RAW} => Len(b) = 3 * n
      /\ mode \in {PGM_ASCII, PGM_RAW, PBM_ASCII} => Len(b) = n
      /\ \A k \in 1 .. n : HoldsPixel(p, mode, b, k)
  BY <1>2 DEF WrittenPixels
<1>7. n \in Nat /\ Scan(p)[n + 1] = c /\ n' = n + 1 /\ p' = p /\ mode' = mode
  BY <1>1, <1>2 DEF Turn
<1> HIDE DEF b, n
<1>8. /\ Len(b \o s) = Len(b) + Len(s) /\ Len(b) \in Nat
      /\ \A j \in 1 .. Len(s) : (b \o s)[Len(b) + j] = s[j]
  BY <1>3, <1>4, ConcatProperties, LenProperties
<1> DEFINE t == b \o s
<1> HIDE DEF t
<1>9. HoldsPixel(p, mode, t, n + 1)
  <2>1. CASE mode \in {PPM_ASCII, PPM_RAW}
    <3>1. Len(b) = 3 * n /\ Len(s) = 3
      BY <1>3, <1>6, <2>1
    <3>2. Len(t) = Len(b) + 3 /\ t[Len(b) + 1] = c[1] /\ t[Len(b) + 2] = c[2] /\ t[Len(b) + 3] = c[3]
      BY <1>3, <1>8, <2>1, <3>1 DEF t
    <3>3. 3 * (n + 1) = Len(b) + 3 /\ 3 * (n + 1) - 1 = Len(b) + 2 /\ 3 * (n + 1) - 2 = Len(b) + 1
      BY <1>7, <3>1
    <3>4. 3 * (n + 1) <= Len(t)
      BY <1>8, <3>2, <3>3
    <3> QED
      BY <1>7, <2>1, <3>2, <3>3, <3>4
         DEF HoldsPixel, PBM_RAW, PBM_ASCII, PGM_RAW, PGM_ASCII, PPM_RAW, PPM_ASCII
  <2>2. CASE mode \in {PGM_ASCII, PGM_RAW, PBM_ASCII}
    <3>1. Len(b) = n /\ Len(s) = 1
      BY <1>3, <1>6, <2>2
    <3>2. n + 1 <= Len(t) /\ t[n + 1] = s[1]
      BY <1>7, <1>8, <3>1 DEF t
    <3> QED
      BY <1>3, <1>7, <2>2, <3>2
         DEF HoldsPixel, PBM_RAW, PBM_ASCII, PGM_RAW, PGM_ASCII, PPM_RAW, PPM_ASCII
  <2> QED
    BY <2>1, <2>2 DEF HoldsPixel
<1>10. WrittenPixels'
  <2>1. ASSUME NEW k \in 1 .. n + 1
        PROVE  HoldsPixel(p, mode, t, k)
    <3>1. CASE k \in 1 .. n
      <4>1. k \in Nat \ {0} /\ HoldsPixel(p, mode, b, k)
        BY <1>6, <1>7, <3>1
      <4> QED
        BY <1>3, <1>4, <4>1, PrintedStays DEF t
    <3>2. CASE k = n + 1
      BY <1>9, <3>2
    <3> QED
      BY <1>7, <3>1, <3>2
  <2>2. /\ mode \in {PPM_ASCII, PPM_RAW} => Len(t) = 3 * (n + 1)
        /\ mode \in {PGM_ASCII, PGM_RAW, PBM_ASCII} => Len(t) = n + 1
    <3>1. Len(t) = Len(b) + Len(s) /\ Len(b) \in Nat
      BY <1>8 DEF t
    <3>2. CASE mode \in {PPM_ASCII, PPM_RAW}
      <4>1. Len(b) = 3 * n /\ Len(s) = 3
        BY <1>3, <1>6, <3>2
      <4>2. mode \notin {PGM_ASCII, PGM_RAW, PBM_ASCII}
        BY <3>2 DEF PBM_ASCII, PGM_RAW, PGM_ASCII, PPM_RAW, PPM_ASCII
      <4> QED
        BY <1>7, <3>1, <4>1, <4>2
    <3>3. CASE mode \notin {PPM_ASCII, PPM_RAW}
      BY <1>3, <1>6, <1>7, <3>1, <3>3
    <3> QED
      BY <3>2, <3>3
  <2>3. file'.body = t
    BY <1>5 DEF t
  <2>4. PixelsDone' = n + 1
    BY <1>7 DEF n
  <2> QED
    BY <1>7, <2>1, <2>2, <2>3, <2>4 DEF WrittenPixels
<1> QED
  BY <1>1, <1>2, <1>5, <1>10 DEF PixelInv, Turn, Outcomes, Written, RoundTrip

(* A byte that is printed joins those before it.                           *)
LEMMA ByteAppended ==
  ASSUME NEW p, PictureOK(p), NEW b \in Seq(Bytes), NEW y0 \in Nat, NEW q0 \in 0 .. RowBytes(p) - 1,
         NEW e \in Bytes, e = ByteOf(p, y0, q0),
         Len(b) = y0 * RowBytes(p) + q0,
         \A y \in 0 .. y0, q \in 0 .. RowBytes(p) - 1 :
           y < y0 \/ (y = y0 /\ q < q0) => HoldsByte(p, b, y, q)
  PROVE  /\ b \o <<e>> \in Seq(Bytes) /\ Len(b \o <<e>>) = y0 * RowBytes(p) + q0 + 1
         /\ \A y \in 0 .. y0, q \in 0 .. RowBytes(p) - 1 :
              y < y0 \/ (y = y0 /\ q < q0 + 1) => HoldsByte(p, b \o <<e>>, y, q)
<1> DEFINE t == b \o <<e>>
<1>1. RowBytes(p) \in Nat /\ y0 * RowBytes(p) \in Nat
  BY BytesOfRow
<1>2. <<e>> \in Seq(Bytes) /\ Len(<<e>>) = 1 /\ <<e>>[1] = e
  OBVIOUS
<1>3. t \in Seq(Bytes) /\ Len(t) = Len(b) + 1 /\ t[Len(b) + 1] = e
  <2> DEFINE s == <<e>>
  <2> HIDE DEF s
  <2>1. s \in Seq(Bytes) /\ Len(s) = 1 /\ s[1] = e
    BY <1>2 DEF s
  <2>2. /\ b \o s \in Seq(Bytes) /\ Len(b \o s) = Len(b) + 1
        /\ \A j \in 1 .. Len(b) + 1 : (b \o s)[j] = IF j <= Len(b) THEN b[j] ELSE s[j - Len(b)]
    <3>1. /\ b \o s \in Seq(Bytes) /\ Len(b \o s) = Len(b) + Len(s)
          /\ \A j \in 1 .. Len(b) + Len(s) : (b \o s)[j] = IF j <= Len(b) THEN b[j] ELSE s[j - Len(b)]
      BY <2>1, ConcatProperties, Zenon
    <3> QED
      BY <2>1, <3>1
  <2>3. Len(b) \in Nat
    BY LenProperties
  <2>4. Len(b) + 1 \in 1 .. Len(b) + 1 /\ ~(Len(b) + 1 <= Len(b)) /\ Len(b) + 1 - Len(b) = 1
    BY <2>3
  <2>5. (b \o s)[Len(b) + 1] = e
    BY <2>1, <2>2, <2>4
  <2> QED
    BY <2>2, <2>5 DEF s
<1> HIDE DEF t
<1>4. HoldsByte(p, t, y0, q0)
  BY <1>1, <1>3 DEF HoldsByte
<1>5. ASSUME NEW y \in 0 .. y0, NEW q \in 0 .. RowBytes(p) - 1, y < y0 \/ (y = y0 /\ q < q0 + 1)
      PROVE  HoldsByte(p, t, y, q)
  <2>1. CASE y = y0 /\ q = q0
    BY <1>4, <2>1
  <2>2. CASE ~(y = y0 /\ q = q0)
    <3>1. HoldsByte(p, b, y, q)
      BY <1>1, <1>5, <2>2
    <3>2. y \in Nat /\ q \in Nat
      BY <1>1
    <3> QED
      BY <1>1, <1>2, <3>1, <3>2, PrintedStays DEF t
  <2> QED
    BY <2>1, <2>2
<1> QED
  BY <1>1, <1>3, <1>5 DEF t

(* The bits of raw PBM: the byte that is collected is the byte of the row. *)
LEMMA PackedBits ==
  ASSUME NEW p, PictureOK(p), NEW y \in 0 .. Rows(p) - 1, NEW x \in 0 .. p.width - 1
  PROVE  LET e == (Collected(p, y, x) * 2 + Dark(At(p, y, x))) % 256
         IN /\ e = ByteOf(p, y, x \div 8) \div 2 ^ (8 - ((x % 8) + 1))
            /\ x % 8 = 7 => e = ByteOf(p, y, x \div 8)
            /\ x % 8 # 7 /\ x + 1 = p.width =>
                 (e * 2 ^ (8 - ((x % 8) + 1))) % 256 = ByteOf(p, y, x \div 8)
<1> DEFINE q == x \div 8
           n == x % 8
           d == EightOf(p, y, q)
           B == ByteOf(p, y, q)
           v == Collected(p, y, x)
           e == (v * 2 + Dark(At(p, y, x))) % 256
<1>1. q \in Nat /\ n \in 0 .. 7 /\ x = 8 * q + n /\ p.width \in Nat
  BY BytesOfRow DEF PictureOK
<1> HIDE DEF q, n
<1>2. d \in [0 .. 7 -> {0, 1}]
  BY <1>1, RowBits
<1>3. B = ByteVal(d)
  BY DEF ByteOf
<1>4. d[n] = Dark(At(p, y, x))
  <2>1. d[n] = Bit(p, y, x)
    BY <1>1 DEF EightOf
  <2> QED
    BY <1>1, <2>1 DEF Bit
<1>5. ASSUME x + 1 = p.width, NEW k \in n + 1 .. 7
      PROVE  d[k] = 0
  BY <1>1, <1>5 DEF Bit, EightOf
<1> HIDE DEF d, B
<1>6. v = B \div 2 ^ (8 - n)
  <2>1. CASE n = 0
    <3>1. 2 ^ (8 - n) = 256
      BY <2>1
    <3>2. B \div 256 = 0
      BY <1>2, <1>3, EightBits
    <3> QED
      BY <2>1, <3>1, <3>2 DEF n, Collected
  <2> QED
    BY <2>1 DEF n, q, B, Collected
<1>7. e = B \div 2 ^ (7 - n)
  BY <1>1, <1>2, <1>3, <1>4, <1>6, EightBits
<1>8. 8 - (n + 1) = 7 - n
  BY <1>1
<1> HIDE DEF e, v
<1>9. e = B \div 2 ^ (8 - (n + 1))
  BY <1>7, <1>8
<1>10. n = 7 => e = B
  <2>1. n = 7 => 7 - n = 0
    OBVIOUS
  <2> QED
    BY <1>2, <1>3, <1>7, <2>1, EightBits
<1>11. n # 7 /\ x + 1 = p.width => (e * 2 ^ (8 - (n + 1))) % 256 = B
  <2> SUFFICES ASSUME n # 7, x + 1 = p.width
               PROVE  (e * 2 ^ (8 - (n + 1))) % 256 = B
    OBVIOUS
  <2>1. n + 1 \in 0 .. 7
    BY <1>1
  <2>2. \A k \in n + 1 .. 7 : d[k] = 0
    BY <1>5
  <2> QED
    BY <1>2, <1>3, <1>9, <2>1, <2>2, EightBits
<1> QED
  BY <1>9, <1>10, <1>11 DEF e, v, n, q, B

(* Raw PBM.  Only the unset i can spoil it.                                *)
LEMMA PackStep == PixelInv /\ WritePixel /\ mode = PBM_RAW => PixelInv'
<1> SUFFICES ASSUME PixelInv, WritePixel, mode = PBM_RAW
             PROVE  PixelInv'
  OBVIOUS
<1> DEFINE p == picture  b == file.body  c == At(picture, row, column)
           e == (bw * 2 + Dark(c)) % 256
           f == (e * 2 ^ (8 - Rem8(counter + 1))) % 256
<1>1. Turn(c) /\ LoopsOK'
  BY OneTurn
<1>2. /\ outcome = "writing" /\ UNCHANGED <<picture, mode, unset, outcome, read>>
      /\ Pack(c) /\ counter \in Int /\ bw \in Bytes
      /\ unset >= 0 /\ unset % 8 = 0 => WrittenBytes
  BY DEF WritePixel, PixelInv, LoopsOK
<1>3. PictureOK(p) /\ b \in Seq(Bytes) /\ c \in Colours /\ Dark(c) \in {0, 1}
  BY <1>1, ColourBytes DEF Turn, IsFileOf, FileType
<1>4. /\ e \in Bytes
      /\ f \in Bytes
  <2> DEFINE dark == Dark(c)
  <2>0. bw \in 0 .. 255 /\ dark \in {0, 1}
    BY <1>2, <1>3 DEF Bytes
  <2> HIDE DEF dark
  <2>1. e \in Bytes
    <3>1. (bw * 2 + dark) % 256 \in 0 .. 255
      BY <2>0
    <3> QED
      BY <3>1 DEF Bytes, dark
  <2>2. 2 ^ (8 - Rem8(counter + 1)) \in Int
    <3>1. 8 - Rem8(counter + 1) \in Nat
      BY <1>2 DEF Rem8
    <3> QED
      BY <3>1
  <2> DEFINE z == 2 ^ (8 - Rem8(counter + 1))
  <2> HIDE DEF e, z
  <2>3. (e * z) % 256 \in 0 .. 255
    <3>1. e \in Int /\ z \in Int
      BY <2>1, <2>2 DEF Bytes, z
    <3>2. e * z \in Int
      BY <3>1
    <3> QED
      BY <3>2
  <2> QED
    BY <2>1, <2>3 DEF Bytes, z
<1>5. IsFileOf(file, p, mode)' /\ (file' = file \/ \E v \in Bytes : file' = [file EXCEPT !.body = b \o <<v>>])
  <2>1. file' = file \/ \E v \in Bytes : file' = [file EXCEPT !.body = b \o <<v>>]
    BY <1>2, <1>4 DEF Pack, Emit
  <2>2. ASSUME NEW v \in Bytes
        PROVE  b \o <<v>> \in Seq(Bytes)
    <3>1. <<v>> \in Seq(Bytes)
      OBVIOUS
    <3> QED
      BY <1>3, <3>1, PrintedStays
  <2> QED
    BY <1>1, <1>2, <2>1, <2>2 DEF Turn, IsFileOf, FileType, Rows
<1>6. WrittenPixels'
  BY <1>2 DEF WrittenPixels, HoldsPixel, PBM_RAW, PBM_ASCII, PGM_RAW, PGM_ASCII, PPM_RAW, PPM_ASCII
<1>7. ASSUME WrittenBytes
      PROVE  WrittenBytes'
  <2> DEFINE q0 == column \div 8  n == column % 8  B == ByteOf(p, row, q0)
  <2>1. /\ row \in 0 .. Rows(p) - 1 /\ row \in Nat /\ column \in 0 .. p.width - 1 /\ column \in Nat
        /\ q0 \in 0 .. RowBytes(p) - 1 /\ q0 \in Nat /\ n \in 0 .. 7 /\ RowBytes(p) \in Nat /\ p.width \in Nat
        /\ column + 1 = p.width => RowBytes(p) = q0 + 1
        /\ n = 7 => (column + 1) \div 8 = q0 + 1 /\ (column + 1) % 8 = 0
        /\ n # 7 => (column + 1) \div 8 = q0 /\ (column + 1) % 8 = n + 1
    BY <1>1, <1>3, BytesOfRow DEF Turn, PictureOK
  <2>2. B \in Bytes
    BY <1>3, <2>1, RowBits
  <2>3. /\ Len(b) = row * RowBytes(p) + q0
        /\ \A y \in 0 .. row, q \in 0 .. RowBytes(p) - 1 :
             y < row \/ (y = row /\ q < q0) => HoldsByte(p, b, y, q)
        /\ counter >= 0 /\ counter % 8 = n /\ bw = Collected(p, row, column)
    BY <1>7 DEF WrittenBytes
  <2>4. /\ e = B \div 2 ^ (8 - (n + 1))
        /\ n = 7 => e = B
        /\ n # 7 /\ column + 1 = p.width => (e * 2 ^ (8 - (n + 1))) % 256 = B
    <3> DEFINE v == Collected(p, row, column)
               e1 == (v * 2 + Dark(c)) % 256
    <3>1. /\ e1 = B \div 2 ^ (8 - (n + 1))
          /\ n = 7 => e1 = B
          /\ n # 7 /\ column + 1 = p.width => (e1 * 2 ^ (8 - (n + 1))) % 256 = B
      BY <1>3, <2>1, PackedBits
    <3>2. e = e1
      BY <2>3
    <3> HIDE DEF e, e1, B, n
    <3> QED
      BY <3>1, <3>2
  <2>5. /\ b \o <<B>> \in Seq(Bytes) /\ Len(b \o <<B>>) = row * RowBytes(p) + q0 + 1
        /\ \A y \in 0 .. row, q \in 0 .. RowBytes(p) - 1 :
             y < row \/ (y = row /\ q < q0 + 1) => HoldsByte(p, b \o <<B>>, y, q)
    BY <1>3, <2>1, <2>2, <2>3, ByteAppended
  <2> HIDE DEF q0, n, B, c
  <2>6. /\ counter + 1 >= 0
        /\ n = 7 => (counter + 1) % 8 = 0
        /\ n # 7 => (counter + 1) % 8 = n + 1 /\ (counter + 1) % 8 # 0 /\ Rem8(counter + 1) = n + 1
    <3>1. counter \in Nat /\ counter + 1 \in Nat /\ n \in 0 .. 7 /\ counter % 8 = n
      BY <1>2, <2>1, <2>3
    <3>2. /\ n = 7 => (counter + 1) % 8 = 0
          /\ n # 7 => (counter + 1) % 8 = n + 1 /\ n + 1 # 0
      BY <3>1, SMTT(20)
    <3> QED
      BY <3>1, <3>2 DEF Rem8
  <2>7. row * RowBytes(p) \in Nat /\ (row + 1) * RowBytes(p) = row * RowBytes(p) + RowBytes(p)
    BY <2>1, SMTT(20)
  <2>8. ASSUME file'.body = b \o <<B>>, bw' = 0, counter' >= 0, counter' % 8 = 0,
               n = 7 \/ column + 1 = p.width
        PROVE  WrittenBytes'
    <3> DEFINE t == b \o <<B>>
    <3>0. file'.body = t /\ Len(t) = row * RowBytes(p) + q0 + 1
      BY <2>5, <2>8
    <3>1. \A y \in 0 .. row, q \in 0 .. RowBytes(p) - 1 :
            y < row \/ (y = row /\ q < q0 + 1) => HoldsByte(p, t, y, q)
      BY <2>5
    <3> HIDE DEF t
    <3>2. CASE column + 1 = p.width
      <4>1. row' = row + 1 /\ column' = 0 /\ p' = p /\ RowBytes(p) = q0 + 1
        BY <1>2, <2>1, <3>2 DEF WritePixel
      <4>2. ASSUME NEW y \in 0 .. row + 1, NEW q \in 0 .. RowBytes(p) - 1, y < row + 1 \/ (y = row + 1 /\ q < 0)
            PROVE  HoldsByte(p, t, y, q)
        <5>1. y \in 0 .. row /\ (y < row \/ (y = row /\ q < q0 + 1))
          BY <2>1, <4>1, <4>2
        <5> QED
          BY <3>1, <5>1
      <4>3. column' \div 8 = 0 /\ column' % 8 = 0
        BY <4>1
      <4>4. Len(t) = (row + 1) * RowBytes(p) + 0
        BY <2>1, <2>7, <3>0, <4>1
      <4> QED
        BY <2>8, <3>0, <4>1, <4>2, <4>3, <4>4 DEF WrittenBytes, Collected
    <3>3. CASE column + 1 # p.width
      <4>1. row' = row /\ column' = column + 1 /\ p' = p
        BY <1>2, <3>3 DEF WritePixel
      <4>2. column' \div 8 = q0 + 1 /\ column' % 8 = 0
        BY <2>1, <2>8, <3>3, <4>1
      <4>3. Len(t) = row * RowBytes(p) + (q0 + 1)
        BY <2>1, <2>7, <3>0
      <4> QED
        BY <2>8, <3>0, <3>1, <4>1, <4>2, <4>3 DEF WrittenBytes, Collected
    <3> QED
      BY <3>2, <3>3
  <2>9. CASE n = 7 \/ column + 1 = p.width
    <3>1. file' = [file EXCEPT !.body = b \o <<B>>] /\ bw' = 0 /\ counter' \in {0, counter + 1}
      <4>1. CASE n = 7
        BY <1>2, <2>4, <2>6, <4>1 DEF Pack, Emit
      <4>2. CASE n # 7
        BY <1>2, <2>4, <2>6, <2>9, <4>2 DEF Pack, Emit
      <4> QED
        BY <4>1, <4>2
    <3>2. counter' >= 0 /\ counter' % 8 = 0
      <4>1. CASE n = 7
        BY <1>2, <2>6, <3>1, <4>1
      <4>2. CASE n # 7
        BY <1>2, <2>6, <2>9, <4>2 DEF Pack
      <4> QED
        BY <4>1, <4>2
    <3>3. file'.body = b \o <<B>>
      BY <1>1, <3>1 DEF Turn, IsFileOf, FileType
    <3> QED
      BY <2>8, <2>9, <3>1, <3>2, <3>3
  <2>10. CASE n # 7 /\ column + 1 # p.width
    <3>1. file' = file /\ bw' = e /\ counter' = counter + 1
      BY <1>2, <2>6, <2>10 DEF Pack
    <3>2. row' = row /\ column' = column + 1
      BY <2>10 DEF WritePixel
    <3>3. column' \div 8 = q0 /\ column' % 8 = n + 1 /\ n + 1 # 0
      BY <2>1, <2>10, <3>2
    <3>4. bw' = ByteOf(p, row, q0) \div 2 ^ (8 - (n + 1))
      BY <2>4, <3>1 DEF B
    <3> QED
      BY <1>2, <2>3, <2>6, <2>10, <3>1, <3>2, <3>3, <3>4 DEF WrittenBytes, Collected
  <2> QED
    BY <2>9, <2>10
<1> QED
  BY <1>1, <1>2, <1>5, <1>6, <1>7 DEF PixelInv, Turn, Outcomes, Written, RoundTrip

(* Another header does not touch the body.                                 *)
LEMMA OtherHeaderStep == PixelInv /\ OtherHeader => PixelInv'
<1> SUFFICES ASSUME PixelInv, OtherHeader
             PROVE  PixelInv'
  OBVIOUS
<1>1. /\ picture \in Pictures /\ LoopsOK /\ IsFileOf(file, picture, mode)
      /\ Complete(picture, mode, unset, file.body)
      /\ outcome' = "edited" /\ UNCHANGED <<picture, mode, unset, row, column, counter, bw, read>>
  BY DEF PixelInv, OtherHeader, Written, loopVars
<1>2. LoopsOK'
  BY <1>1 DEF LoopsOK, Rows
<1>3. IsFileOf(file, picture, mode)' /\ file'.body = file.body
  <2>1. PICK l \in {"P", "p", "Q"}, x \in {0, 100, 255, 256} : file' = [file EXCEPT !.letter = l, !.max = x]
    BY DEF OtherHeader
  <2>2. file \in FileType /\ l \in {"P", "p", "Q"} /\ x \in Int
    BY <1>1 DEF IsFileOf
  <2> DEFINE g == [file EXCEPT !.letter = l]
  <2>3. g \in FileType /\ \A n \in {"digit", "max", "width", "height", "body"} : g[n] = file[n]
    BY <2>2 DEF FileType
  <2> HIDE DEF g
  <2> DEFINE h == [g EXCEPT !.max = x]
  <2>4. h \in FileType /\ \A n \in {"digit", "width", "height", "body"} : h[n] = g[n]
    BY <2>2, <2>3 DEF FileType
  <2>5. file' = h
    BY <2>1, <2>2 DEF g, FileType
  <2> HIDE DEF h
  <2>6. file' \in FileType /\ \A n \in {"digit", "width", "height", "body"} : file'[n] = file[n]
    BY <2>3, <2>4, <2>5
  <2>7. Rows(picture)' = Rows(picture)
    BY <1>1
  <2> QED
    BY <1>1, <2>6, <2>7 DEF IsFileOf
<1>4. Complete(picture, mode, unset, file.body)'
  BY <1>1, <1>3
<1> QED
  BY <1>1, <1>2, <1>3, <1>4 DEF PixelInv, Outcomes, Written, RoundTrip

(* ReadPPM makes a picture of the file, or stops the program.              *)
LEMMA ReadPPMStep == PixelInv /\ ReadPPM => PixelInv'
<1> SUFFICES ASSUME PixelInv, ReadPPM
             PROVE  PixelInv'
  OBVIOUS
<1> DEFINE p == picture
<1>1. /\ p \in Pictures /\ PictureOK(p) /\ LoopsOK /\ IsFileOf(file, p, mode)
      /\ Complete(p, mode, unset, file.body)
      /\ UNCHANGED <<picture, mode, unset, row, column, counter, bw, file>>
  BY GoodPictures DEF PixelInv, ReadPPM, Written, loopVars
<1>2. LoopsOK'
  BY <1>1 DEF LoopsOK, Rows, ReadPPM
<1>3. CASE outcome' = "exited"
  BY <1>1, <1>2, <1>3 DEF PixelInv, Outcomes, Written, RoundTrip
<1>4. CASE outcome' = "read"
  <2>1. /\ ~Refused(file)
        /\ read' = [width |-> file.width, height |-> file.height,
                    pixels |-> [k \in 1 .. file.width * file.height |-> Pixel(file, k)]]
    BY <1>4 DEF ReadPPM
  <2>2. mode \in {PBM_ASCII, PGM_ASCII, PPM_ASCII, PBM_RAW, PGM_RAW, PPM_RAW}
    <3>1. mode \in 1 .. 6
      BY <1>1, <2>1 DEF Refused, IsValidMode, IsFileOf
    <3> QED
      BY <3>1 DEF PBM_RAW, PBM_ASCII, PGM_RAW, PGM_ASCII, PPM_RAW, PPM_ASCII
  <2>3. ASSUME ~(RawMode(mode) /\ HasMax(mode) /\ file.body[1] \in Space),
               ~(mode = PBM_RAW /\ (unset < 0 \/ unset % 8 # 0)),
               NEW k \in 1 .. Len(p.pixels)
        PROVE  Pixel(file, k) = Kept(mode, Scan(p)[k])
    <3>1. HoldsPixel(p, mode, file.body, k)
      BY <1>1, <2>3 DEF Complete
    <3>2. CASE mode = PBM_RAW
      <4>1. \A y \in 0 .. Rows(p) - 1, q \in 0 .. RowBytes(p) - 1 : HoldsByte(p, file.body, y, q)
        <5>1. unset >= 0 /\ unset % 8 = 0
          BY <2>3, <3>2 DEF PixelInv
        <5> QED
          BY <1>1, <3>2, <5>1 DEF Complete
      <4> QED
        BY <1>1, <3>2, <4>1, ReadBit
    <3>3. CASE mode # PBM_RAW
      <4>1. mode \in {PBM_ASCII, PGM_ASCII, PPM_ASCII, PGM_RAW, PPM_RAW}
        BY <2>2, <3>3
      <4>2. RawMode(mode) => file.body[1] \notin Space
        BY <2>3, <4>1 DEF RawMode, HasMax, PBM_RAW, PBM_ASCII, PGM_RAW, PGM_ASCII, PPM_RAW, PPM_ASCII
      <4> QED
        BY <1>1, <3>1, <4>1, <4>2, ReadNumbers
    <3> QED
      BY <3>2, <3>3
  <2>4. RoundTrip'
    <3>1. file.width * file.height = Len(p.pixels) /\ file.width = p.width /\ file.height = Rows(p)
      BY <1>1 DEF IsFileOf, PictureOK
    <3>2. CASE RawMode(mode) /\ HasMax(mode) /\ file.body[1] \in Space
      BY <1>1, <3>2 DEF RoundTrip
    <3>3. CASE mode = PBM_RAW /\ (unset < 0 \/ unset % 8 # 0)
      BY <1>1, <3>3 DEF RoundTrip
    <3>4. CASE /\ ~(RawMode(mode) /\ HasMax(mode) /\ file.body[1] \in Space)
               /\ ~(mode = PBM_RAW /\ (unset < 0 \/ unset % 8 # 0))
      <4>1. read'.width = p.width /\ read'.height = Rows(p)
        BY <2>1, <3>1
      <4>2. read'.pixels = [k \in 1 .. Len(p.pixels) |-> Kept(mode, Scan(p)[k])]
        <5>1. read'.pixels = [k \in 1 .. Len(p.pixels) |-> Pixel(file, k)]
          BY <2>1, <3>1
        <5> QED
          BY <2>3, <3>4, <5>1
      <4>3. Rows(picture)' = Rows(p) /\ Scan(picture)' = Scan(p)
        BY <1>1
      <4> QED
        BY <1>1, <4>1, <4>2, <4>3 DEF RoundTrip
    <3> QED
      BY <3>2, <3>3, <3>4
  <2>5. Complete(picture, mode, unset, file.body)' /\ IsFileOf(file, picture, mode)'
    BY <1>1
  <2> QED
    BY <1>1, <1>2, <1>4, <2>4, <2>5 DEF PixelInv, Outcomes, Written
<1> QED
  BY <1>3, <1>4 DEF ReadPPM

(* Every step keeps the invariant.                                         *)
LEMMA PixelsStep == PixelInv /\ [PixelNext]_pixelVars => PixelInv'
<1> SUFFICES ASSUME PixelInv, [PixelNext]_pixelVars
             PROVE  PixelInv'
  OBVIOUS
<1>1. CASE \E m \in Modes : WritePPM(m)
  BY <1>1, WritePPMStep
<1>2. CASE WritePixel
  BY <1>2, PrintStep, PackStep
<1>3. CASE WriteEnd
  BY <1>3, WriteEndStep
<1>4. CASE OtherHeader
  BY <1>4, OtherHeaderStep
<1>5. CASE ReadPPM
  BY <1>5, ReadPPMStep
<1>6. CASE UNCHANGED pixelVars
  BY <1>6 DEF PixelInv, pixelVars, loopVars, LoopsOK, WrittenPixels, WrittenBytes, PixelsDone, RoundTrip,
              Rows, Scan, At
<1> QED
  BY <1>1, <1>2, <1>3, <1>4, <1>5, <1>6 DEF PixelNext

(* What is so whenever a picture is written, is in a file or has been read.*)
THEOREM PixelInvariance == PixelSpec => []PixelInv
  BY PixelsInit, PixelsStep, PTL DEF PixelSpec

(* ReadPPM reads back what WritePPM wrote, for pictures of every size and  *)
(* colour, upright and upside down, in every format, but for the two cases *)
(* that RoundTrip names.                                                   *)
THEOREM PixelsRoundTrip == PixelSpec => []RoundTrip
<1>1. PixelInv => RoundTrip
  BY DEF PixelInv
<1> QED
  BY <1>1, PixelInvariance, PTL
=============================================================================
