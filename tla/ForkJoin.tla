------------------------------ MODULE ForkJoin ------------------------------
(***************************************************************************)
(* The programs that split an input among threads and add up what the      *)
(* threads found:                                                          *)
(*   "sum"        day1/ex_accumulate/multithread_sum.cpp                   *)
(*   "histogram"  day1/ex_histogram/modify_image.cpp, main_threaded        *)
(*   "darts"      day2/ex_pi/pthreads/pi.cpp, calculate_threaded           *)
(* An item is a number of the table, a row of the image or a dart.  What a *)
(* thread found is how often it counted each item: a sum, a histogram and  *)
(* a number of hits are all functions of that.                             *)
(***************************************************************************)
EXTENDS Integers

CONSTANTS Lengths,     (* the sizes of the input                           *)
          Workers      (* per program: how many threads it starts          *)

Programs == {"sum", "histogram", "darts"}
ASSUME LengthsAssumption == Lengths \subseteq Nat
ASSUME WorkersAssumption == Workers \in [Programs -> Nat \ {0}]

VARIABLES program, len,
          main,        (* where main is                                    *)
          i,           (* its loop counter                                 *)
          next,        (* block_start, or start                            *)
          range,       (* per thread: the items it has still to count      *)
          thread,      (* per thread: "none", "running" or "ended"         *)
          partial,     (* per thread: how often it counted each item       *)
          total        (* how often the result counts each item            *)

vars == <<program, len, main, i, next, range, thread, partial, total>>

N == Workers[program]
Threads == 0 .. N - 1
Items == 0 .. len - 1
Block == len \div N
Nothing == [k \in Items |-> 0]
Plus(f, g) == [k \in Items |-> f[k] + g[k]]
Span(from, to) == [start |-> from, end |-> to]

(* darts() gets num_darts/num_threads from the loop that launches it; the  *)
(* other two fill a table of ranges first.                                 *)
Init ==
  /\ program \in Programs /\ len \in Lengths
  /\ main = IF program = "darts" THEN "create" ELSE "partition"
  /\ i = 0 /\ next = 0
  /\ range = [t \in Threads |-> IF program = "darts" THEN Span(t * Block, t * Block + Block)
                                                     ELSE Span(0, 0)]
  /\ thread = [t \in Threads |-> "none"]
  /\ partial = [t \in Threads |-> Nothing]
  /\ total = Nothing
-----------------------------------------------------------------------------
(* Mistakes that would be easy to make; nothing below uses them.           *)

(* A block includes the first item of the next one.                        *)
PartitionOverlapping ==
  /\ main = "partition" /\ i < IF program = "sum" THEN N - 1 ELSE N
  /\ range' = [range EXCEPT ![i] = Span(next, next + Block + 1)]
  /\ next' = next + Block /\ i' = i + 1
  /\ UNCHANGED <<program, len, main, thread, partial, total>>

(* The last block is as long as the others.                                *)
PartitionLastShort ==
  /\ main = "partition" /\ program = "sum" /\ i = N - 1
  /\ range' = [range EXCEPT ![i] = Span(next, next + Block)]
  /\ main' = "create" /\ i' = 0
  /\ UNCHANGED <<program, len, next, thread, partial, total>>
-----------------------------------------------------------------------------
(* ranges[i], parameters[i]: all blocks but the last of "sum", which gets  *)
(* the remainder.                                                          *)
PartitionBlock ==
  /\ main = "partition" /\ i < IF program = "sum" THEN N - 1 ELSE N
  /\ range' = [range EXCEPT ![i] = Span(next, next + Block)]
  /\ next' = next + Block /\ i' = i + 1
  /\ UNCHANGED <<program, len, main, thread, partial, total>>

PartitionLast ==
  /\ main = "partition" /\ program = "sum" /\ i = N - 1
  /\ range' = [range EXCEPT ![i] = Span(next, len)]
  /\ main' = "create" /\ i' = 0
  /\ UNCHANGED <<program, len, next, thread, partial, total>>

(* parameters[i].to_y = height, when i is one past the last element: the   *)
(* remaining rows go to nobody, and the write to nobody knows where.       *)
PartitionPastEnd ==
  /\ main = "partition" /\ program = "histogram" /\ i = N
  /\ main' \in {"create", "undefined"} /\ i' = 0
  /\ UNCHANGED <<program, len, next, range, thread, partial, total>>

(* pthread_create; nobody looks at a failure (launch_thread looks for -1). *)
Create ==
  /\ main = "create" /\ i < N
  /\ \E created \in {"running", "none"} : thread' = [thread EXCEPT ![i] = created]
  /\ i' = i + 1
  /\ UNCHANGED <<program, len, main, next, range, partial, total>>

AllCreated ==
  /\ main = "create" /\ i = N
  /\ main' = "join" /\ i' = 0
  /\ UNCHANGED <<program, len, next, range, thread, partial, total>>

(* A thread counts the next item of its range.  The threads of "darts"     *)
(* draw from one generator without a lock: a dart hits or not.             *)
Count(t) ==
  /\ thread[t] = "running" /\ range[t].start < range[t].end
  /\ range' = [range EXCEPT ![t].start = @ + 1]
  /\ \E c \in IF program = "darts" THEN {0, 1} ELSE {1} :
       partial' = [partial EXCEPT ![t][range[t].start] = @ + c]
  /\ UNCHANGED <<program, len, main, i, next, thread, total>>

(* A histogram thread runs past the end of a function that should return.  *)
Exit(t) ==
  /\ thread[t] = "running" /\ range[t].start >= range[t].end
  /\ thread' = [thread EXCEPT ![t] = "ended"]
  /\ main' \in IF program = "histogram" THEN {main, "undefined"} ELSE {main}
  /\ UNCHANGED <<program, len, i, next, range, partial, total>>

(* pthread_join, and the addition, which "darts" leaves for the end.  The  *)
(* histograms are added up to index 256, one past the end.                 *)
Add(t) ==
  /\ total' = IF program = "darts" THEN total ELSE Plus(total, partial[t])
  /\ main' \in IF program = "histogram" THEN {"join", "undefined"} ELSE {"join"}

Join ==
  /\ main = "join" /\ i < N /\ thread[i] = "ended"
  /\ Add(i) /\ i' = i + 1
  /\ UNCHANGED <<program, len, next, range, thread, partial>>

(* The id of a thread that was not created was never written: an error     *)
(* nobody looks at, or the end of the program.                             *)
JoinGarbage ==
  /\ main = "join" /\ i < N /\ thread[i] = "none"
  /\ Add(i) /\ i' = i + 1
  /\ UNCHANGED <<program, len, next, range, thread, partial>>

JoinUndefined ==
  /\ main = "join" /\ i < N /\ thread[i] = "none"
  /\ main' = "undefined"
  /\ UNCHANGED <<program, len, i, next, range, thread, partial, total>>

(* std::accumulate over the results of "darts".                            *)
Accumulate ==
  /\ main = "join" /\ program = "darts" /\ i \in N .. 2 * N - 1
  /\ total' = Plus(total, partial[i - N]) /\ i' = i + 1
  /\ UNCHANGED <<program, len, main, next, range, thread, partial>>

Finish ==
  /\ main = "join" /\ i = IF program = "darts" THEN 2 * N ELSE N
  /\ main' = "done"
  /\ UNCHANGED <<program, len, i, next, range, thread, partial, total>>

MainStep ==
  \/ PartitionBlock \/ PartitionLast \/ PartitionPastEnd
  \/ Create \/ AllCreated \/ Join \/ JoinGarbage \/ JoinUndefined \/ Accumulate \/ Finish
ThreadStep(t) == main # "undefined" /\ (Count(t) \/ Exit(t))

Next == MainStep \/ \E t \in Threads : ThreadStep(t)
Spec == Init /\ [][Next]_vars
-----------------------------------------------------------------------------
(* Every variable has its type.                                            *)
ForkTypeOK ==
  /\ program \in Programs /\ len \in Lengths
  /\ main \in {"partition", "create", "join", "done", "undefined"}
  /\ i \in 0 .. 2 * N /\ next \in 0 .. len
  /\ range \in [Threads -> [start : 0 .. len, end : 0 .. len]]
  /\ thread \in [Threads -> {"none", "running", "ended"}]
  /\ partial \in [Threads -> [Items -> Nat]]
  /\ total \in [Items -> Nat]

Pending(t, k) == range[t].start <= k /\ k < range[t].end
Has(t, k) == Pending(t, k) \/ partial[t][k] > 0

(* No item is counted twice, or by two threads: an item that one thread    *)
(* has counted, or has still to count, no other thread has.                *)
CountedOnce ==
  \A k \in Items : \A t \in Threads :
    /\ partial[t][k] <= 1 /\ (Pending(t, k) => partial[t][k] = 0)
    /\ \A u \in Threads \ {t} : ~(Has(t, k) /\ Has(u, k))

(* The items that are given to a thread.                                   *)
Covered == IF program = "sum" THEN len ELSE N * Block

(* The result has every item that was given to a thread, once, and nothing *)
(* else, if all threads could be created: for "sum" that is everything,    *)
(* the other two leave the remainder out.  Of the darts it has those that  *)
(* hit.                                                                    *)
ResultComplete ==
  main = "done" => \A k \in Items :
    /\ total[k] \in {0, 1} /\ (k >= Covered => total[k] = 0)
    /\ ((\A t \in Threads : thread[t] = "ended") /\ program # "darts" /\ k < Covered
         => total[k] = 1)
=============================================================================
