-------------------------- MODULE MCPageReplacement --------------------------
(* Instances of PageReplacement for TLC, with reference definitions.       *)
EXTENDS PageReplacement

\* The least number of faults from reference k on, when the pages of set S are
\* in the frames, over everything that could be evicted.
LeastFaults ==
  LET least[k \in 1 .. len + 1, S \in SUBSET Pages] ==
        CASE k > len -> 0
          [] k <= len /\ string[k] \in S -> least[k + 1, S]
          [] k <= len /\ string[k] \notin S /\ Cardinality(S) < max ->
               1 + least[k + 1, S \cup {string[k]}]
          [] k <= len /\ string[k] \notin S /\ Cardinality(S) = max ->
               1 + Min({least[k + 1, (S \ {p}) \cup {string[k]}] : p \in S})
  IN  least[1, {}]

\* No choice of evictions gives fewer page faults than OPT.
OPTOptimal == alg = "done" => faults[1] = LeastFaults

\* The pages that fault under FIFO, in order: those not among the last max.
Loads ==
  LET loads[k \in 0 .. len] ==
        IF k = 0 THEN <<>>
        ELSE LET l == loads[k - 1]
             IN  IF \E n \in 1 .. Len(l) : n > Len(l) - max /\ l[n] = string[k]
                 THEN l ELSE Append(l, string[k])
  IN  loads[len]

\* FIFO keeps a page for the next max - 1 faults, no matter how it is used.
FIFOFaults == alg = "done" => faults[2] = Len(Loads)

\* Second chance on a queue of pages and bits, oldest first: pages with a bit of
\* 1 at the front go to the back with a bit of 0, then the front is evicted.
Marks(s) == Min({k \in 0 .. Len(s) - 1 : s[k + 1].bit = 0} \cup {Len(s)})
Rotated(s) == SubSeq(s, Marks(s) + 1, Len(s))
              \o [k \in 1 .. Marks(s) |-> [s[k] EXCEPT !.bit = 0]]
Chances ==
  LET run[k \in 0 .. len] ==
        IF k = 0 THEN [queue |-> <<>>, faults |-> 0]
        ELSE LET s == run[k - 1].queue
                 n == run[k - 1].faults
                 new == [page |-> string[k], bit |-> 0]
             IN  CASE \E j \in 1 .. Len(s) : s[j].page = string[k] ->
                        [queue |-> [j \in 1 .. Len(s) |-> IF s[j].page = string[k]
                                                          THEN [s[j] EXCEPT !.bit = 1] ELSE s[j]],
                         faults |-> n]
                   [] Len(s) < max -> [queue |-> Append(s, new), faults |-> n + 1]
                   [] OTHER -> [queue |-> Append(Tail(Rotated(s)), new), faults |-> n + 1]
  IN  run[len]

\* The hand of CLOCK, moving over pages that stay where they are, faults exactly
\* when the second-chance queue does.
ClockIsSecondChance == alg = "done" => faults[4] = Chances.faults

\* The number of faults of the three algorithms that cannot look ahead is what
\* their definitions over the whole string of references give, however the code
\* keeps recency, age and use bits in its queue.
FaultsAsDefined == FIFOFaults /\ LRUFaults /\ ClockIsSecondChance
=============================================================================
