---------------------------- MODULE CpuScheduler ----------------------------
(***************************************************************************)
(* The CPU scheduling simulator of Assignment3-3/cpu_scheduler.c: FCFS,    *)
(* SJF, SRTF and RR over a list of processes.  One step is one iteration   *)
(* of a simulation loop, that is, one millisecond of simulated time.       *)
(***************************************************************************)
EXTENDS Integers, Sequences, FiniteSets, FiniteSetsExt, Functions

CONSTANTS
  MaxLen,       \* most processes in the input file
  Arrivals,     \* arrival times in the input file
  Bursts,       \* burst times in the input file
  Slices,       \* time slices given to RR
  MaxTime       \* bound on the simulated time

ASSUME InputAssumption ==
  /\ MaxLen \in Nat
  /\ Arrivals \subseteq Nat
  /\ Bursts \subseteq Nat \ {0}
  /\ Slices \subseteq Nat
  /\ MaxTime \in Nat

VARIABLES
  alg,            \* the algorithm named on the command line
  time_slice,     \* RR: its argument
  list,           \* index -> process
  time,
  running,        \* index of the running process, or NONE
  fin_cnt,        \* number of finished processes
  context_switch,
  queue, head,    \* RR: everything pushed so far (tail is its length), next to pop
  cur_slice,      \* RR: what is left of the time slice
  prev_run,       \* RR: the process that ran last
  gantt,          \* the chart: the pid that ran, or IDLE, for each millisecond
  report,         \* the sums that main prints as averages
  pc

input == <<alg, time_slice>>
rr    == <<queue, head, cur_slice, prev_run>>
vars  == <<input, list, time, running, fin_cnt, context_switch, rr, gantt, report, pc>>

NONE == -1
IDLE == 0

Index == DOMAIN list
len   == Cardinality(Index)

SumOf(f) == FoldFunction(+, 0, f)

\* What init_list makes of a line of the input file.
Process(pid, arrival, burst) ==
  [pid |-> pid, arrival |-> arrival, burst |-> burst, remain |-> burst,
   start |-> 0, finish |-> 0, end |-> 0, waiting |-> 0, turnaround |-> 0, response |-> 0]

\* prev_run of RR is not initialised: it may hold the index of a process.
Init ==
  /\ \E n \in 1 .. MaxLen :
        /\ \E a \in [0 .. n - 1 -> Arrivals], b \in [0 .. n - 1 -> Bursts] :
              list = [i \in 0 .. n - 1 |-> Process(i + 1, a[i], b[i])]
        /\ \/ alg \in {"FCFS", "SJF", "SRTF"} /\ time_slice = 0 /\ prev_run = NONE
           \/ alg = "RR" /\ time_slice \in Slices /\ prev_run \in NONE .. n - 1
  /\ time = 0 /\ running = NONE /\ fin_cnt = 0 /\ context_switch = 0
  /\ queue = <<>> /\ head = 1 /\ cur_slice = 0
  /\ gantt = <<>>
  /\ report = <<>>
  /\ pc = IF alg = "FCFS" THEN "sort" ELSE "tick"

----------------------------------------------------------------------------
(* Parts the four loops have in common.                                    *)

Ticking == pc = "tick" /\ fin_cnt < len

Exited == running # NONE /\ list[running].remain = 0

\* The list after the running process, if it has exited, was marked.
Marked == IF Exited THEN [list EXCEPT ![running].finish = time, ![running].end = 1] ELSE list

\* The process that holds the CPU when a process is looked for.
Holder == IF Exited THEN NONE ELSE running

Counted == IF Exited THEN fin_cnt + 1 ELSE fin_cnt

\* Faulty variant: the process that arrives just now is overlooked.
Runnable_Later == {i \in Index : Marked[i].arrival < time /\ Marked[i].end = 0}

Runnable == {i \in Index : Marked[i].arrival <= time /\ Marked[i].end = 0}

\* What an ascending scan for a strictly smaller key finds in S.
Least(i, S, key) ==
  i \in S /\ \A j \in S : key[i] < key[j] \/ (key[i] = key[j] /\ i <= j)

Started(l, i) == [l EXCEPT ![i].start = time]

\* Process i of list l runs for this millisecond.
Execute(l, i) ==
  /\ list' = [l EXCEPT ![i].remain = @ - 1]
  /\ running' = i
  /\ gantt' = Append(gantt, l[i].pid)

\* No process runs; the blank is printed unless all have finished.
Rest(l) ==
  /\ list' = l
  /\ running' = NONE
  /\ gantt' = IF Counted < len THEN Append(gantt, IDLE) ELSE gantt

\* Every iteration: what happens to the counters.
Tick ==
  /\ Ticking
  /\ time < MaxTime
  /\ time' = time + 1
  /\ fin_cnt' = Counted
  /\ UNCHANGED <<input, report, pc>>

----------------------------------------------------------------------------
(* FCFS                                                                    *)

\* Where the insertion sort puts process i.
Rank(i) == Cardinality({j \in Index : \/ list[j].arrival < list[i].arrival
                                      \/ list[j].arrival = list[i].arrival /\ j < i})

Sort ==
  /\ pc = "sort" /\ pc' = "tick"
  /\ list' = [k \in Index |-> list[CHOOSE i \in Index : Rank(i) = k]]
  /\ UNCHANGED <<input, time, running, fin_cnt, context_switch, rr, gantt, report>>

FCFS ==
  /\ alg = "FCFS"
  /\ Tick
  /\ \/ Holder # NONE /\ Execute(list, running)
     \/ /\ Holder = NONE
        /\ \E i \in Index : Least(i, Runnable, [j \in Index |-> 0])
                            /\ Execute(Started(Marked, i), i)
     \/ Holder = NONE /\ Runnable = {} /\ Rest(Marked)
  /\ UNCHANGED <<context_switch, rr>>

----------------------------------------------------------------------------
(* SJF                                                                     *)

SJF ==
  /\ alg = "SJF"
  /\ Tick
  /\ \/ Holder # NONE /\ Execute(list, running)
     \/ /\ Holder = NONE
        /\ \E i \in Index : Least(i, Runnable, [j \in Index |-> Marked[j].burst])
                            /\ Execute(Started(Marked, i), i)
     \/ Holder = NONE /\ Runnable = {} /\ Rest(Marked)
  /\ UNCHANGED <<context_switch, rr>>

----------------------------------------------------------------------------
(* SRTF                                                                    *)

\* Faulty variant: every dispatch is taken for the first.
FirstRun_Always(l, i) == Started(l, i)

FirstRun(l, i) == IF l[i].burst = l[i].remain THEN Started(l, i) ELSE l

\* Faulty variant: the shortest burst is looked for, not the shortest rest.
Urgency_Burst == [j \in Index |-> Marked[j].burst]

Urgency == [j \in Index |-> Marked[j].remain]

Switch(i) == context_switch' = IF Holder # i THEN context_switch + 1 ELSE context_switch

SRTF ==
  /\ alg = "SRTF"
  /\ Tick
  /\ \/ \E i \in Index : /\ Least(i, Runnable, Urgency)
                         /\ Switch(i)
                         /\ Execute(FirstRun(Marked, i), i)
     \/ Runnable = {} /\ Rest(Marked) /\ UNCHANGED context_switch
  /\ UNCHANGED rr

----------------------------------------------------------------------------
(* RR                                                                      *)

\* Faulty variant: the time slice is never used up.
Expired_Never == FALSE

Expired == running # NONE /\ ~Exited /\ cur_slice = 0

\* The processes of S, as an ascending scan meets them.
Ascending(S) == [k \in 1 .. Cardinality(S) |-> CHOOSE i \in S : Cardinality({j \in S : j < i}) = k - 1]

\* Faulty variant: the clock is advanced before the arrivals are looked at.
Pushed_Missed ==
  queue \o Ascending({i \in Index : list[i].arrival = time + 1})
        \o (IF Expired THEN <<running>> ELSE <<>>)

\* The queue after the arrivals of this millisecond and the process whose
\* time slice has expired were pushed.
Pushed ==
  queue \o Ascending({i \in Index : list[i].arrival = time})
        \o (IF Expired THEN <<running>> ELSE <<>>)

RR ==
  /\ alg = "RR"
  /\ Tick
  /\ queue' = Pushed
  /\ \/ /\ Holder # NONE /\ ~Expired
        /\ Execute(list, running)
        /\ cur_slice' = cur_slice - 1
        /\ prev_run' = running
        /\ UNCHANGED <<head, context_switch>>
     \/ /\ Holder = NONE \/ Expired
        /\ head > Len(Pushed)
        /\ Rest(Marked)
        /\ cur_slice' = time_slice
        /\ UNCHANGED <<head, prev_run, context_switch>>
     \/ /\ Holder = NONE \/ Expired
        /\ head <= Len(Pushed)
        /\ Execute(FirstRun(Marked, Pushed[head]), Pushed[head])
        /\ head' = head + 1
        /\ cur_slice' = time_slice - 1
        /\ prev_run' = Pushed[head]
        /\ context_switch' = IF prev_run # Pushed[head] THEN context_switch + 1 ELSE context_switch

----------------------------------------------------------------------------
(* The end of each function, and main.                                     *)

\* Waiting, response and turnaround times; FCFS and SJF return the number of
\* processes as that of context switches.
Calculate ==
  /\ pc = "tick" /\ fin_cnt >= len
  /\ pc' = "main"
  /\ list' = [i \in Index |-> [list[i] EXCEPT
        !.waiting = IF alg \in {"FCFS", "SJF"} THEN list[i].start - list[i].arrival
                    ELSE list[i].finish - list[i].arrival - list[i].burst,
        !.response = list[i].start - list[i].arrival,
        !.turnaround = list[i].finish - list[i].arrival]]
  /\ context_switch' = IF alg \in {"FCFS", "SJF"} THEN len ELSE context_switch
  /\ UNCHANGED <<input, time, running, fin_cnt, rr, gantt, report>>

\* main adds up what it prints the averages and the utilisation of.
main ==
  /\ pc = "main" /\ pc' = "done"
  /\ report' = [turnaround |-> SumOf([i \in Index |-> list[i].turnaround]),
                waiting    |-> SumOf([i \in Index |-> list[i].waiting]),
                response   |-> SumOf([i \in Index |-> list[i].response]),
                burst      |-> SumOf([i \in Index |-> list[i].burst]),
                max_finish |-> Max({0} \cup {list[i].finish : i \in Index})]
  /\ UNCHANGED <<input, list, time, running, fin_cnt, context_switch, rr, gantt>>

Next == Sort \/ FCFS \/ SJF \/ SRTF \/ RR \/ Calculate \/ main

Spec == Init /\ [][Next]_vars

\* The simulation runs on its own.
FairSpec == Spec /\ WF_vars(Next)
----------------------------------------------------------------------------
(* Properties.                                                             *)

Time == 0 .. MaxTime

\* The milliseconds in which process i had the CPU.
Slots(i) == {t \in 1 .. Len(gantt) : gantt[t] = list[i].pid}

\* The processes by pid, whatever order FCFS has sorted them to.
Left == [p \in {list[i].pid : i \in Index} |-> list[CHOOSE i \in Index : list[i].pid = p].remain]
Arrival == [p \in {list[i].pid : i \in Index} |-> list[CHOOSE i \in Index : list[i].pid = p].arrival]

Abstract == INSTANCE WorkConserving WITH left <- Left, arrival <- Arrival, clock <- Len(gantt)

\* All four algorithms share out one CPU: in each millisecond one process that
\* has arrived and is not done runs, and the CPU idles only when there is none.
ImplementsWorkConserving == Abstract!WCSpec

\* How often the CPU was given to a process that did not have it.
Dispatches == Cardinality({t \in 1 .. Len(gantt) :
                             gantt[t] # IDLE /\ (t = 1 \/ gantt[t - 1] # gantt[t])})

\* What is reported is what the chart shows: a process responds when it first
\* runs, turns around when it last ran, and waits while others run in between,
\* though FCFS and SJF compute waiting from the start and SRTF and RR from the
\* finish; the last finish is the length of the chart; and the context switches
\* are the times the CPU was given to another process (for FCFS and SJF, which
\* return the number of processes, this says that none is preempted), of which
\* RR may miss the first, as prev_run has no first value.
ReportedTimes ==
  pc = "done" =>
    /\ \A i \in Index :
          /\ list[i].response   = Min(Slots(i)) - 1 - list[i].arrival
          /\ list[i].turnaround = Max(Slots(i)) - list[i].arrival
          /\ list[i].waiting    = Cardinality((list[i].arrival + 1 .. Max(Slots(i))) \ Slots(i))
    /\ report.waiting = report.turnaround - report.burst
    /\ report.max_finish = Len(gantt)
    /\ alg # "RR" => context_switch = Dispatches
    /\ alg = "RR" => context_switch \in {Dispatches - 1, Dispatches}

\* Among the processes that wait when SJF or FCFS picks one, none has a smaller
\* burst (SJF) or an earlier place in the input among the earliest (FCFS).
InOrder ==
  \A i, j \in Index :
     Slots(i) # {} /\ list[j].arrival < Min(Slots(i)) /\ (Slots(j) # {} => Min(Slots(i)) < Min(Slots(j)))
     => /\ alg = "SJF" => list[i].burst <= list[j].burst
        /\ alg = "FCFS" => \/ list[i].arrival < list[j].arrival
                           \/ list[i].arrival = list[j].arrival /\ list[i].pid <= list[j].pid

\* Since when process i has been waiting for the CPU.
WaitingSince(i) == Max({list[i].arrival} \cup Slots(i))

\* With RR no process waits longer than one time slice of each other process.
RRFair ==
  alg = "RR" /\ time_slice > 0 => \A i \in Index :
     list[i].end = 0 /\ list[i].remain > 0 /\ list[i].arrival < Len(gantt)
     => Len(gantt) - WaitingSince(i) <= (len - 1) * time_slice

\* The array of RR's queue is never reused: it has to hold one place for each
\* time slice that the processes need, and that is enough (MAX_SIZE is 1000).
QueueBound ==
  alg = "RR" /\ time_slice > 0 =>
     Len(queue) <= SumOf([i \in Index |-> (list[i].burst + time_slice - 1) \div time_slice])

\* Who runs next is who the algorithm promises: the order of FCFS and SJF, the
\* turns of RR, and no more turns in RR's queue than its array has to hold.
InTurn == InOrder /\ RRFair /\ QueueBound

\* Every simulation comes to an end, within the time bound.
Ends == <>(pc = "done")
=============================================================================
