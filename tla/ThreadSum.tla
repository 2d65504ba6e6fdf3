----------------------------- MODULE ThreadSum -----------------------------
(***************************************************************************)
(* The sum by threads of Assignment3-2/thread.c.  Thread i of the lower    *)
(* half adds up the results of threads 2i and 2i + 1, which main joins     *)
(* before it creates thread i; those of the upper half add up a pair of    *)
(* numbers from temp.txt.  main and the threads interleave.                *)
(***************************************************************************)
EXTENDS Integers, Sequences, FiniteSets, Functions

CONSTANTS
  MAX_PROCESSES,
  Inputs           \* what temp.txt may hold: sequences of at least 2 * MAX_PROCESSES numbers

\* What the sizes and the inputs have to be.
SizeAssumption ==
  /\ MAX_PROCESSES \in Nat \ {0}
  /\ \A f \in Inputs : f \in Seq(Int) /\ Len(f) >= 2 * MAX_PROCESSES

Tids == 1 .. 2 * MAX_PROCESSES - 1
UNSET == -1000000   \* marks a word that was never written

VARIABLES
  file,      \* temp.txt as it is read
  next,      \* numbers of it that were read
  i,         \* main's loop variable: the thread to create
  pc,        \* what main does next: "leaf", "join1", "join2", "create", "result", "done"
  nums,      \* thread -> its argument: num1, num2 and the word after the struct
  heap,      \* the arguments that are allocated
  thread,    \* thread -> where it is
  sum,       \* thread -> its result
  lines,     \* lines appended to temp.txt
  printed    \* what main prints

vars == <<file, next, i, pc, nums, heap, thread, sum, lines, printed>>

Init ==
  /\ file \in Inputs
  /\ next = 0
  /\ i = MAX_PROCESSES /\ pc = "leaf"
  /\ nums = [t \in Tids |-> [num1 |-> UNSET, num2 |-> UNSET, past |-> UNSET]]
  /\ heap = {}
  /\ thread = [t \in Tids |-> "none"]
  /\ sum = [t \in Tids |-> UNSET]
  /\ lines = 0
  /\ printed = UNSET

----------------------------------------------------------------------------
(* main                                                                    *)

MoreLeaves == i + 1 < 2 * MAX_PROCESSES

\* malloc, fscanf and pthread_create, for the threads of the upper half.
CreateLeaf ==
  /\ pc = "leaf"
  /\ nums' = [nums EXCEPT ![i].num1 = file[next + 1], ![i].num2 = file[next + 2]]
  /\ next' = next + 2
  /\ heap' = heap \cup {i}
  /\ thread' = [thread EXCEPT ![i] = "start"]
  /\ IF MoreLeaves
     THEN i' = i + 1 /\ UNCHANGED pc
     ELSE i' = MAX_PROCESSES - 1 /\ pc' = IF i' > 0 THEN "join1" ELSE "result"
  /\ UNCHANGED <<file, sum, lines, printed>>

\* pthread_join returns when thread t has exited, and ends its life.
Join(t) == thread[t] = "exited" /\ thread' = [thread EXCEPT ![t] = "joined"]

\* The upper half of a result that pthread_join stores as 8 bytes.
High(v) == IF v < 0 THEN -1 ELSE 0

\* Faulty variant: the second number is joined first.
Stored_Swapped(n, k, v) ==
  IF k = 1 THEN [n EXCEPT !.num2 = v, !.past = High(v)]
           ELSE [n EXCEPT !.num1 = v, !.num2 = High(v)]

\* The 8 bytes of the first result go to num1 and num2, those of the second to
\* num2 and the word after the struct.
Stored(n, k, v) ==
  IF k = 1 THEN [n EXCEPT !.num1 = v, !.num2 = High(v)]
           ELSE [n EXCEPT !.num2 = v, !.past = High(v)]

\* Faulty variant: the left child is joined twice.
Right_Left == 2 * i

Left  == 2 * i
Right == 2 * i + 1

Join1 ==
  /\ pc = "join1" /\ pc' = "join2"
  /\ Join(Left)
  /\ heap' = heap \cup {i}
  /\ nums' = [nums EXCEPT ![i] = Stored(@, 1, sum[Left])]
  /\ UNCHANGED <<file, next, i, sum, lines, printed>>

Join2 ==
  /\ pc = "join2" /\ pc' = "create"
  /\ Join(Right)
  /\ nums' = [nums EXCEPT ![i] = Stored(@, 2, sum[Right])]
  /\ UNCHANGED <<file, next, i, heap, sum, lines, printed>>

Create ==
  /\ pc = "create"
  /\ thread' = [thread EXCEPT ![i] = "start"]
  /\ i' = i - 1
  /\ pc' = IF i' > 0 THEN "join1" ELSE "result"
  /\ UNCHANGED <<file, next, nums, heap, sum, lines, printed>>

\* main joins the last thread, closes the files and prints.  The 8 bytes of this
\* join go to main's sum and 4 bytes past it; sum itself, the low half, is what
\* main prints, and what lies past it is left out.
Result ==
  /\ pc = "result" /\ pc' = "done"
  /\ Join(1)
  /\ printed' = sum[1]
  /\ UNCHANGED <<file, next, i, nums, heap, sum, lines>>

----------------------------------------------------------------------------
(* thread_func                                                             *)

Add(t) ==
  /\ thread[t] = "start"
  /\ thread' = [thread EXCEPT ![t] = "added"]
  /\ sum' = [sum EXCEPT ![t] = nums[t].num1 + nums[t].num2]
  /\ UNCHANGED <<file, next, i, pc, nums, heap, lines, printed>>

\* fprintf locks the stream.
Output(t) ==
  /\ thread[t] = "added"
  /\ thread' = [thread EXCEPT ![t] = "printed"]
  /\ lines' = lines + 1
  /\ UNCHANGED <<file, next, i, pc, nums, heap, sum, printed>>

\* Faulty variant: the argument is not freed.
Freed_Not(t) == heap

Freed(t) == heap \ {t}

Exit(t) ==
  /\ thread[t] = "printed"
  /\ thread' = [thread EXCEPT ![t] = "exited"]
  /\ heap' = Freed(t)
  /\ UNCHANGED <<file, next, i, pc, nums, sum, lines, printed>>

Thread(t) == Add(t) \/ Output(t) \/ Exit(t)
main == CreateLeaf \/ Join1 \/ Join2 \/ Create \/ Result

\* The program has ended.
Ended == pc = "done" /\ UNCHANGED vars

Next == main \/ (\E t \in Tids : Thread(t)) \/ Ended

Spec == Init /\ [][Next]_vars

\* The kernel schedules main and every thread.
Fairness == WF_vars(main) /\ \A t \in Tids : WF_vars(Thread(t))
FairSpec == Spec /\ Fairness

----------------------------------------------------------------------------
(* Properties.                                                             *)

Leaves == MAX_PROCESSES .. 2 * MAX_PROCESSES - 1

\* The leaves below thread t: halving their number leads to it.
Below(t) == {l \in Leaves : \E k \in 0 .. MAX_PROCESSES : l \div (2 ^ k) = t}

Total(S) == FoldFunctionOnSet(+, 0,
              [l \in Leaves |-> file[2 * (l - MAX_PROCESSES) + 1] + file[2 * (l - MAX_PROCESSES) + 2]], S)

\* The result of every thread is the sum of all numbers below it in the tree,
\* although each pthread_join stores 8 bytes into an int: the second store
\* repairs what the first one did to num2.
SubtreeSums ==
  \A t \in Tids : thread[t] \notin {"none", "start"} => sum[t] = Total(Below(t))

\* An argument is allocated exactly while its thread may read it, or while main
\* fills it in: it is neither read after its free, nor freed twice, nor leaked.
\* When main closes the stream and prints, no thread is left that could write to
\* it, every thread was joined, and the value is the sum of all numbers.
ArgumentsOwned ==
  /\ heap = {t \in Tids : thread[t] \in {"start", "added", "printed"}}
            \cup (IF pc \in {"join2", "create"} THEN {i} ELSE {})
  /\ pc = "done" => /\ \A t \in Tids : thread[t] = "joined"
                    /\ lines = 2 * MAX_PROCESSES - 1
                    /\ printed = Total(Leaves)

\* No join waits for a thread that was not created or was joined before.
Ends == <>(pc = "done")
=============================================================================
