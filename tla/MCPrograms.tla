----------------------------- MODULE MCPrograms -----------------------------
(***************************************************************************)
(* The user-space programs of Assignment3-2, 3-3 and 4-2 side by side: the *)
(* sums by processes and by threads, and the two simulators.  They share   *)
(* nothing, so one of them runs and the others stay where they begin.      *)
(***************************************************************************)
EXTENDS MCScheduler

CONSTANTS
  Pages, MaxFrames, MaxString,     \* the page replacement simulator
  Levels, MaxFailures, Garbage,    \* the sum by processes
  ThreadCount                      \* MAX_PROCESSES of thread.c

VARIABLES
  program,
  max, string, p_alg, p_i, q, delete_idx, bit_queue, evict, page_fault, faults,
  f_file, pipes, f_pc, level, f_sum, parent, buffered, f_lines, failures, f_printed,
  t_file, next, t_i, t_pc, nums, heap, thread, t_sum, t_lines, t_printed

pvars == <<max, string, p_alg, p_i, q, delete_idx, bit_queue, evict, page_fault, faults>>
fvars == <<f_file, pipes, f_pc, level, f_sum, parent, buffered, f_lines, failures, f_printed>>
tvars == <<t_file, next, t_i, t_pc, nums, heap, thread, t_sum, t_lines, t_printed>>

\* temp.txt as numgen.c writes it, and with numbers so large that small trees
\* exceed an exit status too.
ForkInputs == {[k \in 1 .. 2 ^ (Levels + 1) |-> k], [k \in 1 .. 2 ^ (Levels + 1) |-> 60 + k]}

\* temp.txt as numgen.c writes it, and with negative numbers, whose upper half
\* is not 0.
ThreadInputs == {[k \in 1 .. 2 * ThreadCount |-> k], [k \in 1 .. 2 * ThreadCount |-> 3 - k]}

P == INSTANCE MCPageReplacement WITH alg <- p_alg, i <- p_i

F == INSTANCE ForkSum WITH
       Inputs <- ForkInputs, file <- f_file, pc <- f_pc, sum <- f_sum, lines <- f_lines,
       printed <- f_printed

T == INSTANCE ThreadSum WITH
       MAX_PROCESSES <- ThreadCount, Inputs <- ThreadInputs, file <- t_file, i <- t_i, pc <- t_pc,
       sum <- t_sum, lines <- t_lines, printed <- t_printed

ASSUME ProgramsAssumption == P!SizeAssumption /\ F!SizeAssumption /\ T!SizeAssumption

ProgramsInit ==
  /\ program \in {"scheduler", "paging", "fork", "thread"}
  /\ program # "scheduler" => list = [k \in {0} |-> Process(1, 0, 1)] /\ alg = "FCFS"
  /\ program # "paging" => max = 1 /\ string = <<>>
  /\ Init /\ P!Init /\ F!Init /\ T!Init
  /\ program # "fork" => f_file[1] = 1
  /\ program # "thread" => t_file[1] = 1

\* The two simulators end; the sums say so themselves.
Finished ==
  /\ \/ program = "scheduler" /\ pc = "done"
     \/ program = "paging" /\ p_alg = "done"
  /\ UNCHANGED <<vars, pvars>>

ProgramsNext ==
  \/ program = "scheduler" /\ Next /\ UNCHANGED <<pvars, fvars, tvars, program>>
  \/ program = "paging" /\ P!Next /\ UNCHANGED <<vars, fvars, tvars, program>>
  \/ program = "fork" /\ F!Next /\ UNCHANGED <<vars, pvars, tvars, program>>
  \/ program = "thread" /\ T!Next /\ UNCHANGED <<vars, pvars, fvars, program>>
  \/ Finished /\ UNCHANGED <<fvars, tvars, program>>

ProgramsSpec ==
  /\ ProgramsInit /\ [][ProgramsNext]_<<vars, pvars, fvars, tvars, program>>
  /\ WF_vars(program = "scheduler" /\ Next)
  /\ WF_tvars(program = "thread" /\ T!main)
  /\ \A t \in T!Tids : WF_tvars(program = "thread" /\ T!Thread(t))

\* Every simulation loop of cpu_scheduler.c ends.
SchedulerEnds == program = "scheduler" => Ends

\* See MCPageReplacement: no choice of evictions gives fewer page faults than OPT.
OPTOptimal == P!OPTOptimal

\* See MCPageReplacement: FIFO, LRU and CLOCK fault as their definitions say.
FaultsAsDefined == P!FaultsAsDefined

\* See ForkSum: what main prints is made of the numbers of all processes there were.
NothingLost == F!NothingLost

\* See ThreadSum: every thread's result is the sum of the numbers below it.
SubtreeSums == T!SubtreeSums

\* See ThreadSum: an argument is allocated exactly while it may be read.
ArgumentsOwned == T!ArgumentsOwned

\* No pthread_join of thread.c waits for ever.
ThreadEnds == program = "thread" => T!Ends
=============================================================================
