---------------------------- MODULE MCScheduler ----------------------------
(* Instances of CpuScheduler for TLC, with a reference for SRTF.           *)
EXTENDS CpuScheduler

Pids == DOMAIN Left
Burst == [p \in Pids |-> list[CHOOSE i \in Index : list[i].pid = p].burst]

\* The least total turnaround time over all ways to share out the CPU: in each
\* millisecond every process that has arrived and is not done adds one.
LeastTurnaround ==
  LET least[left \in [Pids -> Bursts \cup {0}], t \in Time] ==
        LET ready == {p \in Pids : Arrival[p] <= t /\ left[p] > 0}
        IN  CASE \A p \in Pids : left[p] = 0 -> 0
              [] ready = {} /\ \E p \in Pids : left[p] > 0 -> least[left, t + 1]
              [] ready # {} -> Cardinality(ready)
                    + Min({least[[left EXCEPT ![p] = @ - 1], t + 1] : p \in ready})
  IN  least[Burst, 0]

\* SRTF does what it is known for: no schedule, preemptive or not, has a smaller
\* total, and so average, turnaround time than the one the simulator finds.
SRTFOptimal == pc = "done" /\ alg = "SRTF" => report.turnaround = LeastTurnaround
=============================================================================
