------------------------------ MODULE ForkSum ------------------------------
(***************************************************************************)
(* The sum by processes of Assignment3-2/fork.c.  main puts pairs of       *)
(* numbers into pipes and forks process 0; every process forks children    *)
(* that own the other indices, adds up its pair and the exit values of its *)
(* children, and exits with the sum.                                       *)
(***************************************************************************)
EXTENDS Integers, Sequences, FiniteSets, FiniteSetsExt, Functions

CONSTANTS
  Levels,        \* log2(MAX_PROCESSES)
  Inputs,        \* what temp.txt may hold: sequences of at least 2 * MAX_PROCESSES numbers
  MaxFailures,   \* how many calls of fork may fail
  Garbage        \* what main's exit_value may hold when it was never written

MAX_PROCESSES == 2 ^ Levels
StatusRange   == 256   \* values of an exit status

\* What the sizes and the inputs have to be.
SizeAssumption ==
  /\ Levels \in Nat /\ MaxFailures \in Nat
  /\ \A f \in Inputs : f \in Seq(Nat) /\ Len(f) >= 2 * MAX_PROCESSES

Procs == 0 .. MAX_PROCESSES - 1
MAIN  == -1
NOBODY == -2

VARIABLES
  file,        \* temp.txt as it is read
  pipes,       \* index -> numbers in the pipe
  pc,          \* process -> where it is
  level,       \* process -> its loop variable i
  sum,         \* process -> its variable sum
  parent,      \* process -> who forked it
  buffered,    \* process -> lines in its copy of the stream f_temp_w
  lines,       \* lines appended to temp.txt
  failures,    \* calls of fork that failed
  printed      \* what main prints

vars == <<file, pipes, pc, level, sum, parent, buffered, lines, failures, printed>>

\* main has opened the files and written to the pipes; it is about to fork.
Init ==
  /\ file \in Inputs
  /\ pipes = [p \in Procs |-> <<file[2 * p + 1], file[2 * p + 2]>>]
  /\ pc = [p \in Procs \cup {MAIN} |-> IF p = MAIN THEN "fork" ELSE "none"]
  /\ level = [p \in Procs |-> 0]
  /\ sum = [p \in Procs |-> 0]
  /\ parent = [p \in Procs |-> NOBODY]
  /\ buffered = [p \in Procs |-> 0]
  /\ lines = 0 /\ failures = 0
  /\ printed = NOBODY

----------------------------------------------------------------------------
\* main forks process 0; if that fails, main takes itself for the parent.
ForkRoot ==
  /\ pc[MAIN] = "fork"
  /\ pc' = [pc EXCEPT ![MAIN] = "wait", ![0] = "fork"]
  /\ parent' = [parent EXCEPT ![0] = MAIN]
  /\ UNCHANGED <<file, pipes, level, sum, buffered, lines, failures, printed>>

ForkRootFails ==
  /\ pc[MAIN] = "fork" /\ failures < MaxFailures
  /\ pc' = [pc EXCEPT ![MAIN] = "wait"]
  /\ failures' = failures + 1
  /\ UNCHANGED <<file, pipes, level, sum, parent, buffered, lines, printed>>

\* The index of the child that p forks at its level.
Child(p) == p + 2 ^ level[p]

MoreLevels(p) == level[p] < Levels

\* Process p forks.  The child goes on with the loop at the next level.
Fork(p) ==
  /\ pc[p] = "fork" /\ MoreLevels(p)
  /\ LET c == Child(p)
     IN  /\ pc' = [pc EXCEPT ![c] = "fork"]
         /\ parent' = [parent EXCEPT ![c] = p]
         /\ level' = [level EXCEPT ![p] = @ + 1, ![c] = level[p] + 1]
         /\ buffered' = [buffered EXCEPT ![c] = buffered[p]]
  /\ UNCHANGED <<file, pipes, sum, lines, failures, printed>>

\* fork returns -1, which p takes for the process number of a child.
ForkFails(p) ==
  /\ pc[p] = "fork" /\ MoreLevels(p) /\ failures < MaxFailures
  /\ level' = [level EXCEPT ![p] = @ + 1]
  /\ failures' = failures + 1
  /\ UNCHANGED <<file, pipes, pc, sum, parent, buffered, lines, printed>>

\* Faulty variant: the loop variable is taken for the index.
PipeOf_Level(p) == level[p]

PipeOf(p) == p

\* num1 and num2 as main read them last; every process inherits them.
Inherited == <<file[2 * MAX_PROCESSES - 1], file[2 * MAX_PROCESSES]>>

\* What process p finds in num1 and num2 after its two reads.  main has closed
\* the write end of every pipe, and its copies did not exist yet: read does not
\* wait at an empty pipe, it returns 0 and leaves the variable as it was.
Numbers(p) == IF pipes[PipeOf(p)] = <<>> THEN Inherited ELSE pipes[PipeOf(p)]

\* Process p reads its two numbers.
Read(p) ==
  /\ pc[p] = "fork" /\ ~MoreLevels(p)
  /\ sum' = [sum EXCEPT ![p] = Numbers(p)[1] + Numbers(p)[2]]
  /\ pipes' = [pipes EXCEPT ![PipeOf(p)] = <<>>]
  /\ buffered' = [buffered EXCEPT ![p] = @ + 1]
  /\ pc' = [pc EXCEPT ![p] = "wait"]
  /\ UNCHANGED <<file, level, parent, lines, failures, printed>>

Children(p) == {c \in Procs : parent[c] = p}

\* wait returns the status of a child that has exited.
Wait(p) ==
  /\ pc[p] = "wait"
  /\ \E c \in Children(p) :
        /\ pc[c] = "zombie"
        /\ sum' = [sum EXCEPT ![p] = @ + sum[c]]
        /\ pc' = [pc EXCEPT ![c] = "gone"]
        /\ parent' = [parent EXCEPT ![c] = NOBODY]
  /\ buffered' = [buffered EXCEPT ![p] = @ + 1]
  /\ UNCHANGED <<file, pipes, level, lines, failures, printed>>

\* wait returns -1.
NoChild(p) == Children(p) = {}

Flushed(p) == lines + buffered[p]

\* The process has no child (left): it exits.  The status keeps the low byte
\* of the sum, and the stream is flushed.
Exit(p) ==
  /\ pc[p] = "wait" /\ NoChild(p)
  /\ sum' = [sum EXCEPT ![p] = @ % StatusRange]
  /\ lines' = Flushed(p)
  /\ buffered' = [buffered EXCEPT ![p] = 0]
  /\ pc' = [pc EXCEPT ![p] = "zombie"]
  /\ UNCHANGED <<file, pipes, level, parent, failures, printed>>

\* main waits for process 0 and prints its status; if there is none, what it
\* prints was never written.
main ==
  /\ pc[MAIN] = "wait"
  /\ \/ /\ Children(MAIN) = {}
        /\ printed' \in Garbage
        /\ pc' = [pc EXCEPT ![MAIN] = "done"]
        /\ UNCHANGED parent
     \/ /\ pc[0] = "zombie" /\ parent[0] = MAIN
        /\ printed' = sum[0]
        /\ parent' = [parent EXCEPT ![0] = NOBODY]
        /\ pc' = [pc EXCEPT ![MAIN] = "done", ![0] = "gone"]
  /\ UNCHANGED <<file, pipes, level, sum, buffered, lines, failures>>

Process(p) == Fork(p) \/ ForkFails(p) \/ Read(p) \/ Wait(p) \/ Exit(p)

\* The program has ended.
Ended == pc[MAIN] = "done" /\ UNCHANGED vars

Next == ForkRoot \/ ForkRootFails \/ main \/ (\E p \in Procs : Process(p)) \/ Ended

Spec == Init /\ [][Next]_vars

----------------------------------------------------------------------------
(* Properties.                                                             *)

Created == {p \in Procs : pc[p] # "none"}

Pair(p) == file[2 * p + 1] + file[2 * p + 2]
Total(S) == FoldFunctionOnSet(+, 0, [p \in Procs |-> Pair(p)], S)

\* At every moment the sums that are not yet handed on, with the numbers that are
\* still in the pipes of the processes there are, make up all of their numbers,
\* up to the width of an exit status; and that is what main prints.  So every
\* process reads its own pair: a read at a pipe that another process has emptied
\* would go unnoticed and add the pair of the last index once more.  If no fork
\* fails, these are all numbers.  When main prints, every process has exited and
\* was waited for, and each has appended one line for its pair and one for each
\* child: none of the lines was lost with a buffer or copied by a fork.
NothingLost ==
  LET unread == {p \in Procs : pc[p] = "fork"}
      holding == {p \in Procs : pc[p] \in {"wait", "zombie"}}
      now == IF pc[MAIN] = "done" THEN printed
             ELSE Total(unread) + FoldFunctionOnSet(+, 0, sum, holding)
  IN  Created # {} => /\ now % StatusRange = Total(Created) % StatusRange
                      /\ pc[MAIN] = "done" =>
                           /\ failures = 0 => Created = Procs
                           /\ \A p \in Created : pc[p] = "gone"
                           /\ lines = 2 * Cardinality(Created) - 1

\* "my sum + child's sum" (line 60), passed on by "exit process and pass value"
\* (line 63): the value of fork is the sum of the numbers.
FullSum == pc[MAIN] = "done" /\ failures = 0 => printed = Total(Procs)
=============================================================================
