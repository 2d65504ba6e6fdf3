------------------------- MODULE CpuSchedulerProofs -------------------------
(***************************************************************************)
(* A proof about module CpuScheduler, for every input file, every time     *)
(* slice and every length of the simulation: FCFS, SJF, SRTF and RR are    *)
(* refinements of module WorkConserving.                                   *)
(***************************************************************************)
EXTENDS CpuScheduler, FiniteSetTheorems, TLAPS

Processes ==
  [pid : Nat, arrival : Nat, burst : Nat, remain : Nat, start : Int, finish : Int,
   end : {0, 1}, waiting : Int, turnaround : Int, response : Int]

SchedTypes ==
  /\ \E n \in Nat : list \in [0 .. n - 1 -> Processes]
  /\ alg \in {"FCFS", "SJF", "SRTF", "RR"}
  /\ time \in Nat
  /\ running \in Index \cup {NONE}
  /\ gantt \in Seq(Nat)

Named == \A i, j \in Index : list[i].pid = list[j].pid => i = j

(***************************************************************************)
(* The marks tell who is done: at the top of an iteration, all that have   *)
(* nothing left to do but the process that ran last, which is marked in    *)
(* this iteration; fin_cnt counts the marks; and the chart is as long as   *)
(* the simulation, until the last process is marked.                       *)
(***************************************************************************)
Progress ==
  /\ fin_cnt = Cardinality({i \in Index : list[i].end = 1})
  /\ fin_cnt < len => Len(gantt) = time
  /\ \A i \in Index :
        /\ list[i].end = 1 => list[i].remain = 0 /\ i # running /\ list[i].arrival < time
        /\ list[i].remain = 0 => list[i].end = 1 \/ i = running
  /\ running # NONE => list[running].arrival < time

Waiting == {i \in Index : list[i].arrival < time /\ list[i].end = 0 /\ i # running}

(* From place h on, q holds each element of W once. *)
Holds(q, h, W) ==
  /\ q \in Seq(Int) /\ h \in 1 .. Len(q) + 1
  /\ \A k \in h .. Len(q) : q[k] \in W
  /\ \A k, l \in h .. Len(q) : q[k] = q[l] => k = l
  /\ \A i \in W : \E k \in h .. Len(q) : q[k] = i

SchedInv ==
  /\ SchedTypes /\ Named /\ Progress
  /\ alg = "RR" => Holds(queue, head, Waiting)
  /\ pc = "sort" => alg = "FCFS" /\ running = NONE /\ time = 0

-----------------------------------------------------------------------------
(* Ranks.                                                                  *)

(* R is a strict total order of S. *)
Orders(R, S) ==
  /\ \A x \in S : <<x, x>> \notin R
  /\ \A x, y \in S : x = y \/ <<x, y>> \in R \/ <<y, x>> \in R
  /\ \A x, y, z \in S : <<x, y>> \in R /\ <<y, z>> \in R => <<x, z>> \in R

(* rank is how many come before, in that order. *)
Ranking(rank, R, S) ==
  rank \in [S -> Nat] /\ \A x \in S : rank[x] = Cardinality({y \in S : <<y, x>> \in R})

(* Every rank is taken once. *)
Ranked(rank, S) ==
  /\ Cardinality(S) \in Nat
  /\ \A x \in S : rank[x] \in 0 .. Cardinality(S) - 1
  /\ \A x, y \in S : rank[x] = rank[y] => x = y
  /\ \A k \in 0 .. Cardinality(S) - 1 : \E x \in S : rank[x] = k

\* In a finite set with a strict total order R every rank is taken once.
LEMMA Ranks ==
  ASSUME NEW S, IsFiniteSet(S), NEW R, Orders(R, S), NEW rank, Ranking(rank, R, S)
  PROVE  Ranked(rank, S)
<1> DEFINE Below(x) == {y \in S : <<y, x>> \in R}
<1>1. \A T \in SUBSET S : IsFiniteSet(T) /\ Cardinality(T) \in Nat /\ Cardinality(T) <= Cardinality(S)
  BY FS_Subset, FS_CardinalityType, Zenon
<1>2. Cardinality(S) \in Nat /\ \A x \in S : rank[x] \in Nat
  BY <1>1, Zenon DEF Ranking
<1>3. \A x \in S : Below(x) \in SUBSET S /\ rank[x] = Cardinality(Below(x))
  BY Zenon DEF Ranking
<1>4. \A x \in S : rank[x] \in 0 .. Cardinality(S) - 1
  <2> SUFFICES ASSUME NEW x \in S PROVE rank[x] < Cardinality(S)
    BY <1>2
  <2>1. Cardinality(Below(x)) <= Cardinality(S) /\ Below(x) # S
    BY <1>1, <1>3, Zenon DEF Orders
  <2>2. Cardinality(S) = Cardinality(Below(x)) => S = Below(x)
    BY <1>3, FS_Subset, Zenon
  <2> QED
    BY <1>2, <1>3, <2>1, <2>2
<1>5. ASSUME NEW x \in S, NEW y \in S, <<x, y>> \in R
      PROVE  rank[x] < rank[y]
  <2>1. Below(x) \in SUBSET Below(y) /\ x \in Below(y) /\ x \notin Below(x)
    BY <1>5, Zenon DEF Orders
  <2>2. IsFiniteSet(Below(y))
    BY <1>1, <1>3, Zenon
  <2>3. /\ Cardinality(Below(x)) <= Cardinality(Below(y))
        /\ Cardinality(Below(y)) = Cardinality(Below(x)) => Below(y) = Below(x)
    BY <2>1, <2>2, FS_Subset, Zenon
  <2> QED
    BY <1>2, <1>3, <2>1, <2>3
<1>6. ASSUME NEW x \in S, NEW y \in S, rank[x] = rank[y]
      PROVE  x = y
  <2>1. ~(rank[x] < rank[y]) /\ ~(rank[y] < rank[x])
    BY <1>2, <1>6
  <2> QED
    BY <1>5, <2>1, Zenon DEF Orders
<1>7. rank \in Injection(S, 0 .. Cardinality(S) - 1)
  BY <1>4, <1>6, Zenon DEF Injection, IsInjective, Ranking
<1>8. IsFiniteSet(0 .. Cardinality(S) - 1) /\ Cardinality(0 .. Cardinality(S) - 1) = Cardinality(S)
  <2>1. PICK n \in Nat : n = Cardinality(S)
    BY <1>2, Zenon
  <2>2. IsFiniteSet(0 .. n - 1) /\ Cardinality(0 .. n - 1) = IF 0 > n - 1 THEN 0 ELSE n - 1 - 0 + 1
    BY FS_Interval
  <2> QED
    BY <2>1, <2>2
<1>9. rank \in Surjection(S, 0 .. Cardinality(S) - 1)
  BY <1>7, <1>8, FS_Injection, Zenon
<1> QED
  BY <1>2, <1>4, <1>6, <1>9, Zenon DEF Surjection, Ranked

\* An ascending scan of a finite set of numbers meets each of them once.
LEMMA Scan ==
  ASSUME NEW S \in SUBSET Int, IsFiniteSet(S)
  PROVE  Holds(Ascending(S), 1, S)
<1>1. PICK R : R = {p \in S \X S : p[1] < p[2]}
  BY Zenon
<1>2. \A x, y \in S : <<x, y>> \in R <=> x < y
  BY <1>1, Zenon
<1>3. PICK rank : rank = [x \in S |-> Cardinality({y \in S : <<y, x>> \in R})]
  BY Zenon
<1>4. Ranking(rank, R, S) /\ \A x \in S : rank[x] = Cardinality({y \in S : y < x})
  <2> SUFFICES ASSUME NEW x \in S
               PROVE  rank[x] \in Nat /\ rank[x] = Cardinality({y \in S : y < x})
    BY <1>3, Zenon DEF Ranking
  <2>1. {y \in S : <<y, x>> \in R} = {y \in S : y < x}
    BY <1>2, Zenon
  <2>2. Cardinality({y \in S : y < x}) \in Nat
    BY FS_Subset, FS_CardinalityType, Zenon
  <2> QED
    BY <1>3, <2>1, <2>2, Zenon
<1>5. Ranked(rank, S)
  <2>1. \A x \in S : <<x, x>> \notin R
    BY <1>2
  <2>2. \A x, y \in S : x = y \/ <<x, y>> \in R \/ <<y, x>> \in R
    <3>1. \A x, y \in Int : x = y \/ x < y \/ y < x
      OBVIOUS
    <3> QED
      BY <1>2, <3>1, Zenon
  <2>3. \A x, y, z \in S : <<x, y>> \in R /\ <<y, z>> \in R => <<x, z>> \in R
    BY <1>2
  <2> QED
    <3>1. Orders(R, S)
      BY <2>1, <2>2, <2>3, Zenon DEF Orders
    <3> QED
      BY <1>4, <3>1, Ranks, Zenon
<1>6. PICK a : a = Ascending(S)
  BY Zenon
<1>7. a = [k \in 1 .. Cardinality(S) |-> CHOOSE i \in S : Cardinality({j \in S : j < i}) = k - 1]
  BY <1>6, Zenon DEF Ascending
<1>8. \A k \in 1 .. Cardinality(S) : a[k] \in S /\ rank[a[k]] = k - 1
  <2> SUFFICES ASSUME NEW k \in 1 .. Cardinality(S) PROVE a[k] \in S /\ rank[a[k]] = k - 1
    BY Zenon
  <2>1. k - 1 \in 0 .. Cardinality(S) - 1
    BY <1>5 DEF Ranked
  <2>2. PICK x \in S : rank[x] = k - 1
    BY <1>5, <2>1, Zenon DEF Ranked
  <2>3. Cardinality({j \in S : j < x}) = k - 1
    BY <1>4, <2>2, Zenon
  <2>4. a[k] = CHOOSE i \in S : Cardinality({j \in S : j < i}) = k - 1
    BY <1>7, Zenon
  <2>5. a[k] \in S /\ Cardinality({j \in S : j < a[k]}) = k - 1
    BY <2>3, <2>4, Zenon
  <2> QED
    BY <1>4, <2>5, Zenon
<1>9. a \in Seq(Int) /\ Len(a) = Cardinality(S)
  <2>1. a \in [1 .. Cardinality(S) -> S]
    BY <1>7, <1>8, Zenon
  <2>2. a \in [1 .. Cardinality(S) -> Int]
    BY <2>1, Zenon
  <2> QED
    BY <1>5, <2>2 DEF Ranked
<1>10. \A k, l \in 1 .. Cardinality(S) : a[k] = a[l] => k = l
  BY <1>5, <1>8 DEF Ranked
<1>11. \A i \in S : \E k \in 1 .. Cardinality(S) : a[k] = i
  <2> SUFFICES ASSUME NEW i \in S PROVE \E k \in 1 .. Cardinality(S) : a[k] = i
    BY Zenon
  <2>1. rank[i] + 1 \in 1 .. Cardinality(S) /\ rank[i] \in Int
    BY <1>5 DEF Ranked
  <2>2. a[rank[i] + 1] \in S /\ rank[a[rank[i] + 1]] = rank[i]
    BY <1>8, <2>1
  <2> QED
    BY <1>5, <2>1, <2>2, Zenon DEF Ranked
<1>12. 1 \in 1 .. Len(a) + 1 /\ \A k \in 1 .. Len(a) : a[k] \in S
  BY <1>5, <1>8, <1>9 DEF Ranked
<1>13. Holds(a, 1, S)
  BY <1>9, <1>10, <1>11, <1>12, Zenon DEF Holds
<1> QED
  BY <1>6, <1>13, Zenon

\* To push what is not yet there.
LEMMA Push ==
  ASSUME NEW q, NEW h, NEW W, Holds(q, h, W),
         NEW s, NEW V, Holds(s, 1, V), W \cap V = {}
  PROVE  Holds(q \o s, h, W \cup V) /\ Len(q \o s) = Len(q) + Len(s)
<1>1. q \in Seq(Int) /\ s \in Seq(Int) /\ Len(q) \in Nat /\ Len(s) \in Nat /\ h \in 1 .. Len(q) + 1
  BY DEF Holds
<1>2. PICK z : z = q \o s
  BY Zenon
<1>3. /\ z \in Seq(Int) /\ Len(z) = Len(q) + Len(s)
      /\ \A i \in 1 .. Len(q) + Len(s) : z[i] = IF i <= Len(q) THEN q[i] ELSE s[i - Len(q)]
  <2>1. \A S : \A s1, s2 \in Seq(S) :
          /\ s1 \o s2 \in Seq(S)
          /\ Len(s1 \o s2) = Len(s1) + Len(s2)
          /\ \A i \in 1 .. Len(s1) + Len(s2) : (s1 \o s2)[i] = IF i <= Len(s1) THEN s1[i] ELSE s2[i - Len(s1)]
    OBVIOUS
  <2>2. q \in Seq(Int) /\ s \in Seq(Int)
    BY <1>1, Zenon
  <2> QED
    BY <1>2, <2>1, <2>2, Zenon
<1>4. \A k \in h .. Len(q) : z[k] = q[k] /\ k \in h .. Len(z)
  <2> SUFFICES ASSUME NEW k \in h .. Len(q)
               PROVE  z[k] = q[k] /\ k \in h .. Len(z)
    BY Zenon
  <2>1. k \in 1 .. Len(q) + Len(s) /\ k <= Len(q) /\ k \in h .. Len(q) + Len(s)
    BY <1>1
  <2> QED
    BY <1>3, <2>1, Zenon
<1>5. \A k \in 1 .. Len(s) : z[k + Len(q)] = s[k] /\ k + Len(q) \in h .. Len(z)
  <2> SUFFICES ASSUME NEW k \in 1 .. Len(s)
               PROVE  z[k + Len(q)] = s[k] /\ k + Len(q) \in h .. Len(z)
    BY Zenon
  <2>1. k + Len(q) \in 1 .. Len(q) + Len(s) /\ ~(k + Len(q) <= Len(q)) /\ (k + Len(q)) - Len(q) = k
    BY <1>1
  <2>2. z[k + Len(q)] = s[(k + Len(q)) - Len(q)]
    BY <1>3, <2>1, Zenon
  <2> QED
    BY <1>1, <1>3, <2>1, <2>2
<1>6. ASSUME NEW k \in h .. Len(z)
      PROVE  \/ k \in h .. Len(q) /\ z[k] = q[k] /\ z[k] \in W
             \/ k - Len(q) \in 1 .. Len(s) /\ z[k] = s[k - Len(q)] /\ z[k] \in V
  <2>1. CASE k <= Len(q)
    <3>1. k \in h .. Len(q) /\ z[k] = q[k]
      BY <1>1, <1>3, <1>4, <2>1
    <3> QED
      BY <3>1, Zenon DEF Holds
  <2>2. CASE k > Len(q)
    <3>1. PICK j \in 1 .. Len(s) : k = j + Len(q)
      <4>1. k - Len(q) \in 1 .. Len(s) /\ k = (k - Len(q)) + Len(q)
        BY <1>1, <1>3, <2>2
      <4> QED
        BY <4>1, Zenon
    <3>2. z[k] = s[j] /\ k - Len(q) = j
      BY <1>1, <1>5, <3>1
    <3> QED
      BY <3>2, Zenon DEF Holds
  <2> QED
    BY <1>1, <1>3, <2>1, <2>2
<1>7. \A k, l \in h .. Len(z) : z[k] = z[l] => k = l
  <2> SUFFICES ASSUME NEW k \in h .. Len(z), NEW l \in h .. Len(z), z[k] = z[l]
               PROVE  k = l
    BY Zenon
  <2>1. CASE z[k] \in W
    <3>1. k \in h .. Len(q) /\ l \in h .. Len(q) /\ q[k] = q[l]
      BY <1>6, <2>1, Zenon
    <3> QED
      BY <3>1, Zenon DEF Holds
  <2>2. CASE z[k] \in V
    <3>1. k - Len(q) \in 1 .. Len(s) /\ l - Len(q) \in 1 .. Len(s) /\ s[k - Len(q)] = s[l - Len(q)]
      BY <1>6, <2>2, Zenon
    <3>2. k - Len(q) = l - Len(q)
      BY <3>1, Zenon DEF Holds
    <3> QED
      BY <1>1, <1>3, <3>2
  <2> QED
    BY <1>6, <2>1, <2>2, Zenon
<1>8. \A i \in W \cup V : \E k \in h .. Len(z) : z[k] = i
  <2> SUFFICES ASSUME NEW i \in W \cup V PROVE \E k \in h .. Len(z) : z[k] = i
    BY Zenon
  <2>1. CASE i \in W
    <3>1. PICK k \in h .. Len(q) : q[k] = i
      BY <2>1, Zenon DEF Holds
    <3> QED
      BY <1>4, <3>1, Zenon
  <2>2. CASE i \in V
    <3>1. PICK k \in 1 .. Len(s) : s[k] = i
      BY <2>2, Zenon DEF Holds
    <3> QED
      BY <1>5, <3>1, Zenon
  <2> QED
    BY <2>1, <2>2, Zenon
<1>9. h \in 1 .. Len(z) + 1 /\ \A k \in h .. Len(z) : z[k] \in W \cup V
  BY <1>1, <1>3, <1>6
<1>10. Holds(z, h, W \cup V)
  BY <1>3, <1>7, <1>8, <1>9, Zenon DEF Holds
<1> QED
  BY <1>2, <1>3, <1>10, Zenon

\* To push one or nothing.
LEMMA PushOne ==
  /\ Holds(<<>>, 1, {})
  /\ \A i \in Int : Holds(<<i>>, 1, {i})
  BY DEF Holds

-----------------------------------------------------------------------------
(* One iteration.                                                          *)

\* The list is finite, and it counts.
LEMMA ListFacts ==
  ASSUME SchedTypes
  PROVE  /\ list \in [Index -> Processes] /\ Index \in SUBSET Nat /\ NONE \notin Index
         /\ IsFiniteSet(Index) /\ len \in Nat
         /\ \A S \in SUBSET Index : /\ IsFiniteSet(S) /\ Cardinality(S) \in Nat
                                    /\ Cardinality(S) <= len
                                    /\ Cardinality(S) = len => S = Index
<1>1. PICK n \in Nat : list \in [0 .. n - 1 -> Processes]
  BY Zenon DEF SchedTypes
<1>2. Index = 0 .. n - 1
  BY <1>1, Zenon DEF Index
<1>3. IsFiniteSet(Index)
  BY <1>2, FS_Interval
<1>4. len \in Nat
  BY <1>3, FS_CardinalityType, Zenon DEF len
<1>5. \A S \in SUBSET Index : /\ IsFiniteSet(S) /\ Cardinality(S) \in Nat
                              /\ Cardinality(S) <= len
                              /\ Cardinality(S) = len => S = Index
  BY <1>3, FS_Subset, FS_CardinalityType, Zenon DEF len
<1>6. Index \in SUBSET Nat /\ NONE \notin Index
  BY <1>2 DEF NONE
<1>7. list \in [Index -> Processes]
  BY <1>1, <1>2, Zenon
<1> QED
  BY <1>3, <1>4, <1>5, <1>6, <1>7, Zenon

(* List l differs from the list at the top of the iteration in the times and in the mark. *)
Keeps(l) ==
  /\ l \in [Index -> Processes]
  /\ \A i \in Index : /\ l[i].pid = list[i].pid /\ l[i].arrival = list[i].arrival
                      /\ l[i].remain = list[i].remain
                      /\ l[i].end = IF list[i].remain = 0 THEN 1 ELSE 0

\* Once the process that ran last is marked, those that are not are those that
\* have something left to do.
LEMMA MarkedFacts ==
  ASSUME SchedTypes, Progress
  PROVE  Keeps(Marked)
<1>1. list \in [Index -> Processes] /\ NONE \notin Index /\ time \in Nat /\ running \in Index \cup {NONE}
  BY ListFacts, Zenon DEF SchedTypes
<1>2. \A i \in Index : list[i].end \in {0, 1}
  BY <1>1, Zenon DEF Processes
<1>3. CASE ~Exited
  BY <1>1, <1>2, <1>3, Zenon DEF Marked, Keeps, Progress, Exited
<1>4. CASE Exited
  <2>1. running \in Index /\ list[running].remain = 0
    BY <1>1, <1>4, Zenon DEF Exited
  <2>2. Marked = [list EXCEPT ![running] = [list[running] EXCEPT !.finish = time, !.end = 1]]
    BY <1>1, <1>4, <2>1, Zenon DEF Marked, Processes
  <2>3. PICK r : r = [list[running] EXCEPT !.finish = time, !.end = 1]
    BY Zenon
  <2>4. /\ r \in Processes /\ r.end = 1
        /\ r.pid = list[running].pid /\ r.arrival = list[running].arrival /\ r.remain = list[running].remain
    <3>1. PICK o \in Processes : o = list[running]
      BY <1>1, <2>1, Zenon
    <3>2. r = [o EXCEPT !.finish = time, !.end = 1] /\ time \in Int
      BY <1>1, <2>3, <3>1
    <3>3. /\ r \in Processes /\ r.end = 1
          /\ r.pid = o.pid /\ r.arrival = o.arrival /\ r.remain = o.remain
      BY <3>2, Zenon DEF Processes
    <3> QED
      BY <3>1, <3>3, Zenon
  <2>5. Marked \in [Index -> Processes] /\ \A i \in Index : Marked[i] = IF i = running THEN r ELSE list[i]
    BY <1>1, <2>1, <2>2, <2>3, <2>4, Zenon
  <2> QED
    BY <1>1, <1>2, <2>1, <2>4, <2>5 DEF Keeps, Progress
<1> QED
  BY <1>3, <1>4, Zenon

\* fin_cnt goes on to count the marks.
LEMMA CountedFacts ==
  ASSUME SchedTypes, Progress
  PROVE  Counted = Cardinality({i \in Index : list[i].remain = 0})
<1>1. list \in [Index -> Processes] /\ NONE \notin Index /\ time \in Nat /\ running \in Index \cup {NONE}
  BY ListFacts, Zenon DEF SchedTypes
<1>2. \A i \in Index : list[i].end \in {0, 1}
  BY <1>1, Zenon DEF Processes
<1>3. CASE ~Exited
  <2>1. {i \in Index : list[i].remain = 0} = {i \in Index : list[i].end = 1}
    BY <1>1, <1>3, Zenon DEF Progress, Exited
  <2> QED
    BY <1>3, <2>1, Zenon DEF Counted, Progress
<1>4. CASE Exited
  <2>1. running \in Index /\ list[running].remain = 0
    BY <1>1, <1>4, Zenon DEF Exited
  <2>2. PICK E : E = {i \in Index : list[i].end = 1}
    BY Zenon
  <2>3. {i \in Index : list[i].remain = 0} = E \cup {running} /\ running \notin E
    BY <2>1, <2>2, Zenon DEF Progress
  <2>4. IsFiniteSet(E)
    BY <2>2, ListFacts, Zenon
  <2>5. Cardinality(E \cup {running}) = Cardinality(E) + 1
    BY <2>3, <2>4, FS_AddElement, Zenon
  <2> QED
    BY <1>4, <2>2, <2>3, <2>5, Zenon DEF Counted, Progress
<1> QED
  BY <1>3, <1>4, Zenon

(* What every iteration comes to: process i runs, or none can. *)
Runs(i) ==
  /\ i \in Index /\ list[i].arrival <= time /\ list[i].remain > 0
  /\ \E l : Keeps(l) /\ list' = [l EXCEPT ![i].remain = @ - 1]
  /\ running' = i
  /\ gantt' = Append(gantt, list[i].pid)

Idles ==
  /\ \A i \in Index : list[i].arrival <= time => list[i].remain = 0
  /\ Keeps(list')
  /\ running' = NONE
  /\ gantt' = IF Counted < len THEN Append(gantt, IDLE) ELSE gantt

\* Who is dispatched runs, whatever is noted of its start.
LEMMA Dispatched ==
  ASSUME SchedTypes, Progress, NEW i \in Index, list[i].arrival <= time, Marked[i].end = 0,
         \/ Execute(Started(Marked, i), i) \/ Execute(FirstRun(Marked, i), i)
  PROVE  Runs(i)
<1>1. Keeps(Marked) /\ time \in Nat
  BY MarkedFacts, Zenon DEF SchedTypes
<1>2. Marked \in [Index -> Processes]
  BY <1>1, Zenon DEF Keeps
<1>3. Keeps(Started(Marked, i))
  <2>1. PICK r : r = [Marked[i] EXCEPT !.start = time]
    BY Zenon
  <2>2. /\ r \in Processes /\ r.end = Marked[i].end
        /\ r.pid = Marked[i].pid /\ r.arrival = Marked[i].arrival /\ r.remain = Marked[i].remain
    BY <1>1, <1>2, <2>1 DEF Processes
  <2>3. Started(Marked, i) = [Marked EXCEPT ![i] = r]
    BY <1>2, <2>1, Zenon DEF Started
  <2>4. /\ Started(Marked, i) \in [Index -> Processes]
        /\ \A j \in Index : Started(Marked, i)[j] = IF j = i THEN r ELSE Marked[j]
    BY <1>2, <2>2, <2>3, Zenon
  <2> QED
    BY <1>1, <2>2, <2>4 DEF Keeps
<1>4. list[i].remain > 0
  <2>1. list[i].remain \in Nat
    BY ListFacts, Zenon DEF Processes
  <2> QED
    BY <1>1, <2>1 DEF Keeps
<1>5. \A l : Keeps(l) => l[i].pid = list[i].pid
  BY Zenon DEF Keeps
<1>6. CASE Execute(Started(Marked, i), i)
  BY <1>3, <1>4, <1>5, <1>6, Zenon DEF Execute, Runs
<1>7. CASE Execute(FirstRun(Marked, i), i)
  <2>1. Keeps(FirstRun(Marked, i))
    BY <1>1, <1>3, Zenon DEF FirstRun
  <2> QED
    BY <1>4, <1>5, <1>7, <2>1, Zenon DEF Execute, Runs
<1> QED
  BY <1>6, <1>7, Zenon

\* Who has the CPU and is not done may keep it.
LEMMA KeepsCpu ==
  ASSUME SchedTypes, Progress, Holder # NONE, Execute(list, running)
  PROVE  Runs(running)
<1>1. running # NONE /\ ~Exited
  BY Zenon DEF Holder
<1>2. Marked = list
  BY <1>1, Zenon DEF Marked
<1>3. Keeps(list)
  BY <1>2, MarkedFacts, Zenon
<1>4. running \in Index /\ list[running].arrival < time /\ list[running].remain # 0
  BY <1>1, Zenon DEF SchedTypes, Progress, Exited
<1>5. list[running].remain \in Nat /\ list[running].arrival \in Nat /\ time \in Nat
  BY <1>4, ListFacts, Zenon DEF SchedTypes, Processes
<1>6. list[running].arrival <= time /\ list[running].remain > 0
  BY <1>4, <1>5
<1>7. /\ list' = [list EXCEPT ![running].remain = @ - 1]
      /\ running' = running /\ gantt' = Append(gantt, list[running].pid)
  BY Zenon DEF Execute
<1>8. \E l : Keeps(l) /\ list' = [l EXCEPT ![running].remain = @ - 1]
  BY <1>3, <1>7, Zenon
<1> QED
  BY <1>4, <1>6, <1>7, <1>8, Zenon DEF Runs

\* With no process to choose the CPU idles.
LEMMA NoneRuns ==
  ASSUME SchedTypes, Progress, Rest(Marked), Runnable = {}
  PROVE  Idles
<1>1. Keeps(Marked)
  BY MarkedFacts, Zenon
<1>2. \A i \in Index : list[i].arrival <= time => list[i].remain = 0
  BY <1>1, Zenon DEF Runnable, Keeps
<1> QED
  BY <1>1, <1>2, Zenon DEF Rest, Idles

(* Who has to be in RR's queue once all were pushed. *)
Due == {i \in Index : list[i].arrival <= time /\ list[i].remain > 0 /\ (i # running \/ Expired)}

\* The queue of RR after the arrivals of this millisecond and the process whose
\* time slice has expired were pushed holds each process that is due, once.
LEMMA PushedHolds ==
  ASSUME SchedInv, alg = "RR"
  PROVE  Holds(Pushed, head, Due)
<1>1. /\ SchedTypes /\ Progress /\ Holds(queue, head, Waiting)
      /\ time \in Nat /\ running \in Index \cup {NONE}
  BY Zenon DEF SchedInv, SchedTypes
<1>2. \A i \in Index : list[i].arrival \in Nat /\ list[i].remain \in Nat /\ list[i].end \in {0, 1}
  BY <1>1, ListFacts, Zenon DEF Processes
<1>3. PICK N : N = {i \in Index : list[i].arrival = time}
  BY Zenon
<1>4. Holds(Ascending(N), 1, N)
  <2>1. N \in SUBSET Index
    BY <1>3, Zenon
  <2>2. N \in SUBSET Int /\ IsFiniteSet(N)
    BY <1>1, <2>1, ListFacts
  <2> QED
    BY <2>2, Scan, Zenon
<1>5. Waiting \cap N = {}
  BY <1>1, <1>2, <1>3 DEF Waiting
<1>6. Holds(queue \o Ascending(N), head, Waiting \cup N)
  BY <1>1, <1>4, <1>5, Push, Zenon
<1>7. \A i \in Index : i \in Waiting \cup N <=> list[i].arrival <= time /\ list[i].remain > 0 /\ i # running
  <2> SUFFICES ASSUME NEW i \in Index
               PROVE  i \in Waiting \cup N <=> list[i].arrival <= time /\ list[i].remain > 0 /\ i # running
    BY Zenon
  <2>1. /\ list[i].end = 1 => list[i].remain = 0 /\ list[i].arrival < time
        /\ list[i].remain = 0 => list[i].end = 1 \/ i = running
        /\ i = running => list[i].arrival < time
    BY <1>1, ListFacts, Zenon DEF Progress
  <2> QED
    BY <1>1, <1>2, <1>3, <2>1 DEF Waiting
<1>8. CASE Expired
  <2>1. running \in Index /\ running \in Int /\ list[running].remain # 0
    BY <1>1, <1>8, ListFacts DEF Expired, Exited
  <2>2. list[running].arrival < time
    BY <1>1, <1>8, Zenon DEF Expired, Progress
  <2>3. (Waiting \cup N) \cap {running} = {}
    BY <1>2, <1>3, <2>1, <2>2 DEF Waiting
  <2>4. Holds(<<running>>, 1, {running})
    BY <2>1, PushOne, Zenon
  <2>5. Holds(queue \o Ascending(N) \o <<running>>, head, (Waiting \cup N) \cup {running})
    BY <1>6, <2>3, <2>4, Push, Zenon
  <2>6. (Waiting \cup N) \cup {running} = Due
    <3>1. Waiting \cup N \in SUBSET Index
      BY <1>3, Zenon DEF Waiting
    <3>2. list[running].arrival <= time /\ list[running].remain > 0
      BY <1>1, <1>2, <2>1, <2>2
    <3> QED
      BY <1>7, <1>8, <2>1, <3>1, <3>2, Zenon DEF Due
  <2> QED
    BY <1>3, <1>8, <2>5, <2>6, Zenon DEF Pushed
<1>9. CASE ~Expired
  <2>1. Holds(queue \o Ascending(N) \o <<>>, head, (Waiting \cup N) \cup {})
    BY <1>6, PushOne, Push, Zenon
  <2>2. (Waiting \cup N) \cup {} = Due
    <3>1. Waiting \cup N \in SUBSET Index
      BY <1>3, Zenon DEF Waiting
    <3> QED
      BY <1>7, <1>9, <3>1, Zenon DEF Due
  <2> QED
    BY <1>3, <1>9, <2>1, <2>2, Zenon DEF Pushed
<1> QED
  BY <1>8, <1>9, Zenon

(* Who waits after the iteration. *)
WaitingNext == {j \in Index : list[j].arrival <= time /\ list[j].remain > 0 /\ j # running'}

\* An iteration of RR.
LEMMA StepRR ==
  ASSUME SchedInv, RR
  PROVE  /\ Idles \/ \E i \in Index : Runs(i)
         /\ Holds(queue', head', WaitingNext)
<1>1. SchedTypes /\ Progress /\ alg = "RR" /\ queue' = Pushed
  BY Zenon DEF SchedInv, RR
<1>2. PICK q : q = Pushed
  BY Zenon
<1>3. Holds(q, head, Due)
  BY <1>1, <1>2, PushedHolds, Zenon
<1>4. q \in Seq(Int) /\ Len(q) \in Nat /\ head \in Nat /\ head \in 1 .. Len(q) + 1
  BY <1>3 DEF Holds
<1>5. ASSUME Holder = NONE \/ Expired
      PROVE  Due = {i \in Index : list[i].arrival <= time /\ list[i].remain > 0}
  <2>1. \A i \in Index : list[i].remain > 0 /\ ~Expired => i # running
    BY <1>1, <1>5, ListFacts DEF Holder, Exited
  <2> QED
    BY <2>1, Zenon DEF Due
<1>6. CASE /\ Holder # NONE /\ ~Expired
           /\ Execute(list, running) /\ UNCHANGED head
  <2>1. Runs(running) /\ running \in Index
    BY <1>1, <1>6, KeepsCpu, Zenon DEF Runs
  <2>2. running' = running
    BY <1>6, Zenon DEF Execute
  <2>3. WaitingNext = Due
    BY <1>6, <2>2, Zenon DEF WaitingNext, Due
  <2> QED
    BY <1>1, <1>2, <1>3, <1>6, <2>1, <2>3, Zenon
<1>7. CASE /\ Holder = NONE \/ Expired
           /\ head > Len(Pushed) /\ Rest(Marked) /\ UNCHANGED head
  <2>1. Due = {}
    BY <1>2, <1>3, <1>4, <1>7 DEF Holds
  <2>2. Runnable = {}
    <3>1. Keeps(Marked)
      BY <1>1, MarkedFacts, Zenon
    <3>2. \A i \in Index : list[i].remain \in Nat
      BY <1>1, ListFacts, Zenon DEF Processes
    <3> QED
      BY <1>5, <1>7, <2>1, <3>1, <3>2 DEF Runnable, Keeps
  <2>3. Idles
    BY <1>1, <1>7, <2>2, NoneRuns, Zenon
  <2>4. WaitingNext = Due
    BY <1>5, <1>7, <2>1, Zenon DEF WaitingNext
  <2> QED
    BY <1>1, <1>2, <1>3, <1>7, <2>3, <2>4, Zenon
<1>8. CASE /\ Holder = NONE \/ Expired
           /\ head <= Len(Pushed)
           /\ Execute(FirstRun(Marked, Pushed[head]), Pushed[head])
           /\ head' = head + 1
  <2>1. PICK i : i = Pushed[head]
    BY Zenon
  <2>2. head \in head .. Len(q) /\ q[head] = i
    BY <1>2, <1>4, <1>8, <2>1
  <2>3. i \in Due
    BY <1>3, <2>2, Zenon DEF Holds
  <2>4. i \in Index /\ list[i].arrival <= time /\ list[i].remain > 0
    BY <2>3, Zenon DEF Due
  <2>5. Marked[i].end = 0
    <3>1. list[i].remain # 0
      BY <1>1, <2>4, ListFacts DEF Processes
    <3> QED
      BY <1>1, <2>4, <3>1, MarkedFacts, Zenon DEF Keeps
  <2>6. Execute(FirstRun(Marked, i), i)
    BY <1>8, <2>1, Zenon
  <2>7. Runs(i)
    BY <1>1, <2>4, <2>5, <2>6, Dispatched, Zenon
  <2>8. WaitingNext = Due \ {i}
    BY <1>5, <1>8, <2>7, Zenon DEF WaitingNext, Runs
  <2>9. Holds(q, head + 1, Due \ {i})
    <3>1. head + 1 \in 1 .. Len(q) + 1
      BY <1>4, <2>2
    <3>2. \A k \in head + 1 .. Len(q) : k \in head .. Len(q) /\ k # head
      BY <1>4
    <3>3. \A k \in head + 1 .. Len(q) : q[k] \in Due \ {i}
      BY <1>3, <2>2, <3>2, Zenon DEF Holds
    <3>4. \A k, l \in head + 1 .. Len(q) : q[k] = q[l] => k = l
      BY <1>3, <3>2, Zenon DEF Holds
    <3>5. \A k \in head .. Len(q) : k # head => k \in head + 1 .. Len(q)
      BY <1>4
    <3>6. \A j \in Due \ {i} : \E k \in head + 1 .. Len(q) : q[k] = j
      BY <1>3, <2>2, <3>5, Zenon DEF Holds
    <3> QED
      BY <1>4, <3>1, <3>3, <3>4, <3>6, Zenon DEF Holds
  <2> QED
    BY <1>1, <1>2, <1>8, <2>4, <2>7, <2>8, <2>9, Zenon
<1> QED
  BY <1>6, <1>7, <1>8, Zenon DEF RR

\* An iteration of FCFS, SJF or SRTF.
LEMMA StepOthers ==
  ASSUME SchedInv, FCFS \/ SJF \/ SRTF
  PROVE  Idles \/ \E i \in Index : Runs(i)
<1>1. SchedTypes /\ Progress
  BY Zenon DEF SchedInv
<1>2. ASSUME Holder # NONE, Execute(list, running)
      PROVE  \E i \in Index : Runs(i)
  BY <1>1, <1>2, KeepsCpu, Zenon DEF Runs
<1>3. ASSUME NEW i \in Index, i \in Runnable,
             Execute(Started(Marked, i), i) \/ Execute(FirstRun(Marked, i), i)
      PROVE  Runs(i)
  <2>1. Keeps(Marked)
    BY <1>1, MarkedFacts, Zenon
  <2>2. list[i].arrival <= time /\ Marked[i].end = 0
    BY <1>3, <2>1, Zenon DEF Runnable, Keeps
  <2> QED
    BY <1>1, <1>3, <2>2, Dispatched, Zenon
<1>4. ASSUME Runnable = {}, Rest(Marked)
      PROVE  Idles
  BY <1>1, <1>4, NoneRuns, Zenon
<1>5. CASE FCFS
  BY <1>2, <1>3, <1>4, <1>5, Zenon DEF FCFS, Least
<1>6. CASE SJF
  BY <1>2, <1>3, <1>4, <1>6, Zenon DEF SJF, Least
<1>7. CASE SRTF
  BY <1>3, <1>4, <1>7, Zenon DEF SRTF, Least
<1> QED
  BY <1>5, <1>6, <1>7, Zenon

(* What the iteration leaves of the list. *)
Ran(left) ==
  /\ list' \in [Index -> Processes] /\ Index' = Index
  /\ \A j \in Index : /\ list'[j].pid = list[j].pid /\ list'[j].arrival = list[j].arrival
                      /\ list'[j].remain = left[j]
                      /\ list'[j].end = IF list[j].remain = 0 THEN 1 ELSE 0

Remain == [j \in Index |-> list[j].remain]

\* The list after a process ran, and after none did.
LEMMA RanFacts ==
  ASSUME SchedTypes
  PROVE  /\ Idles => Ran(Remain)
         /\ \A i \in Index : Runs(i) => Ran([Remain EXCEPT ![i] = @ - 1])
<1>1. ASSUME Idles PROVE Ran(Remain)
  BY <1>1, Zenon DEF Idles, Keeps, Ran, Remain, Index
<1>2. ASSUME NEW i \in Index, Runs(i)
      PROVE  Ran([Remain EXCEPT ![i] = @ - 1])
  <2>1. PICK l : Keeps(l) /\ list' = [l EXCEPT ![i].remain = @ - 1]
    BY <1>2, Zenon DEF Runs
  <2>2. l \in [Index -> Processes] /\ l[i].remain = list[i].remain
    BY <2>1, Zenon DEF Keeps
  <2>3. PICK o \in Processes : o = l[i]
    BY <2>2, Zenon
  <2>4. PICK r : r = [o EXCEPT !.remain = @ - 1]
    BY Zenon
  <2>5. o.remain \in Nat /\ o.remain > 0
    BY <1>2, <2>2, <2>3, Zenon DEF Runs, Processes
  <2>6. /\ r \in Processes /\ r.remain = o.remain - 1
        /\ r.pid = o.pid /\ r.arrival = o.arrival /\ r.end = o.end
    BY <2>4, <2>5 DEF Processes
  <2>7. list' = [l EXCEPT ![i] = r]
    BY <2>1, <2>2, <2>3, <2>4, Zenon
  <2>8. list' \in [Index -> Processes] /\ \A j \in Index : list'[j] = IF j = i THEN r ELSE l[j]
    BY <2>2, <2>6, <2>7, Zenon
  <2>9. Index' = Index
    BY <2>8, Zenon DEF Index
  <2>10. \A j \in Index : [Remain EXCEPT ![i] = @ - 1][j] = IF j = i THEN list[i].remain - 1 ELSE list[j].remain
    BY Zenon DEF Remain
  <2>11. \A j \in Index : /\ l[j].pid = list[j].pid /\ l[j].arrival = list[j].arrival
                          /\ l[j].remain = list[j].remain
                          /\ l[j].end = IF list[j].remain = 0 THEN 1 ELSE 0
    BY <2>1, Zenon DEF Keeps
  <2> QED
    BY <2>3, <2>6, <2>8, <2>9, <2>10, <2>11 DEF Ran
<1> QED
  BY <1>1, <1>2, Zenon

\* An iteration keeps the invariant, but for what it has to do to the queue.
LEMMA TickKeeps ==
  ASSUME SchedInv, Tick, Idles \/ \E i \in Index : Runs(i)
  PROVE  SchedTypes' /\ Named' /\ Progress' /\ Waiting' = WaitingNext
<1>1. SchedTypes /\ Named /\ Progress
  BY Zenon DEF SchedInv
<1>2. PICK left : /\ Ran(left)
                  /\ \A j \in Index : list[j].remain = 0 => left[j] = 0
                  /\ \A j \in Index : left[j] = 0 => list[j].remain = 0 \/ j = running'
                  /\ running' \in Index \cup {NONE}
                  /\ running' # NONE => list[running'].arrival <= time /\ list[running'].remain # 0
  <2>1. CASE Idles
    BY <1>1, <2>1, RanFacts, Zenon DEF Idles, Remain
  <2>2. CASE \E i \in Index : Runs(i)
    <3>1. PICK i \in Index : Runs(i)
      BY <2>2, Zenon
    <3>2. list[i].arrival <= time /\ list[i].remain > 0 /\ running' = i /\ list[i].remain \in Nat
      BY <1>1, <3>1, ListFacts, Zenon DEF Runs, Processes
    <3>3. PICK w : w = [Remain EXCEPT ![i] = @ - 1]
      BY Zenon
    <3>4. \A j \in Index : w[j] = IF j = i THEN list[i].remain - 1 ELSE list[j].remain
      BY <3>3, Zenon DEF Remain
    <3>5. Ran(w)
      BY <1>1, <3>1, <3>3, RanFacts, Zenon
    <3>6. /\ \A j \in Index : list[j].remain = 0 => w[j] = 0
          /\ \A j \in Index : w[j] = 0 => list[j].remain = 0 \/ j = running'
      BY <3>2, <3>4
    <3>7. running' \in Index \cup {NONE} /\ list[running'].arrival <= time /\ list[running'].remain # 0
      BY <3>2
    <3> QED
      BY <3>5, <3>6, <3>7, Zenon
  <2> QED
    BY <2>1, <2>2, Zenon
<1>3. /\ list' \in [Index -> Processes] /\ Index' = Index
      /\ \A j \in Index : /\ list'[j].pid = list[j].pid /\ list'[j].arrival = list[j].arrival
                          /\ list'[j].remain = left[j]
                          /\ list'[j].end = IF list[j].remain = 0 THEN 1 ELSE 0
  BY <1>2, Zenon DEF Ran
<1>4. /\ time \in Nat /\ time' = time + 1 /\ fin_cnt' = Counted /\ alg' = alg /\ fin_cnt < len
      /\ \A j \in Index : list[j].arrival \in Nat /\ list[j].remain \in Nat
  BY <1>1, ListFacts, Zenon DEF Tick, Ticking, input, SchedTypes, Processes
<1>5. /\ gantt \in Seq(Nat) /\ gantt' \in Seq(Nat) /\ Len(gantt) = time
      /\ Counted < len => Len(gantt') = Len(gantt) + 1
  <2>1. gantt \in Seq(Nat) /\ Len(gantt) = time
    BY <1>1, <1>4, Zenon DEF SchedTypes, Progress
  <2>2. \A i \in Index : list[i].pid \in Nat
    BY <1>1, ListFacts, Zenon DEF Processes
  <2>3. (gantt' = gantt /\ ~(Counted < len)) \/ \E p \in Nat : gantt' = Append(gantt, p)
    BY <2>2, Zenon DEF Idles, Runs, IDLE
  <2>4. CASE \E p \in Nat : gantt' = Append(gantt, p)
    BY <2>1, <2>4
  <2>5. CASE gantt' = gantt /\ ~(Counted < len)
    BY <2>1, <2>5, Zenon
  <2> QED
    BY <2>3, <2>4, <2>5, Zenon
<1>6. SchedTypes'
  <2>1. \E n \in Nat : Index = 0 .. n - 1
    BY <1>1, Zenon DEF SchedTypes, Index
  <2> QED
    <3>1. \E n \in Nat : list' \in [0 .. n - 1 -> Processes]
      BY <1>3, <2>1, Zenon
    <3> QED
      BY <1>1, <1>2, <1>3, <1>4, <1>5, <3>1 DEF SchedTypes
<1>7. Named'
  BY <1>1, <1>3 DEF Named
<1>8. Progress'
  <2>1. (fin_cnt = Cardinality({i \in Index : list[i].end = 1}))'
    <3>1. {i \in Index : list[i].remain = 0} = {i \in Index : list'[i].end = 1}
      BY <1>3
    <3>2. Counted = Cardinality({i \in Index : list'[i].end = 1})
      BY <1>1, <3>1, CountedFacts, Zenon
    <3> QED
      BY <1>3, <1>4, <3>2, Zenon
  <2>2. (fin_cnt < len => Len(gantt) = time)'
    BY <1>3, <1>4, <1>5, Zenon DEF len
  <2>3. \A i \in Index : list[i].remain = 0 => list[i].arrival < time
    <3>1. \A i \in Index : list[i].remain = 0 => list[i].end = 1 \/ i = running
      BY <1>1, Zenon DEF Progress
    <3>2. running # NONE => list[running].arrival < time
      BY <1>1, Zenon DEF Progress
    <3>3. \A i \in Index : list[i].end = 1 => list[i].arrival < time
      BY <1>1, Zenon DEF Progress
    <3> QED
      BY <1>1, <3>1, <3>2, <3>3, ListFacts, Zenon
  <2>4. \A i \in Index :
           /\ list'[i].end = 1 => list'[i].remain = 0 /\ i # running' /\ list'[i].arrival < time'
           /\ list'[i].remain = 0 => list'[i].end = 1 \/ i = running'
    <3> SUFFICES ASSUME NEW i \in Index
                 PROVE  /\ list'[i].end = 1 => list'[i].remain = 0 /\ i # running' /\ list'[i].arrival < time'
                        /\ list'[i].remain = 0 => list'[i].end = 1 \/ i = running'
      BY Zenon
    <3>1. list[i].remain = 0 => left[i] = 0 /\ i # running' /\ list[i].arrival < time + 1
      BY <1>1, <1>2, <1>4, <2>3, ListFacts
    <3>2. left[i] = 0 => list[i].remain = 0 \/ i = running'
      BY <1>2, Zenon
    <3> QED
      BY <1>3, <1>4, <3>1, <3>2
  <2>5. running' # NONE => list'[running'].arrival < time'
    BY <1>2, <1>3, <1>4
  <2> QED
    BY <1>3, <2>1, <2>2, <2>4, <2>5, Zenon DEF Progress
<1>9. Waiting' = WaitingNext
  BY <1>3, <1>4 DEF Waiting, WaitingNext
<1> QED
  BY <1>6, <1>7, <1>8, <1>9, Zenon

-----------------------------------------------------------------------------
(* The other steps.                                                        *)

\* The insertion sort of FCFS loses no process and doubles none.
LEMMA Sorted ==
  ASSUME SchedTypes, Sort
  PROVE  \E g \in [Index -> Index] :
            /\ list' = [k \in Index |-> list[g[k]]]
            /\ \A k, l \in Index : g[k] = g[l] => k = l
            /\ \A i \in Index : \E k \in Index : g[k] = i
<1>1. PICK n \in Nat : list \in [0 .. n - 1 -> Processes]
  BY Zenon DEF SchedTypes
<1>2. Index = 0 .. n - 1 /\ IsFiniteSet(Index)
  BY <1>1, ListFacts, Zenon DEF Index
<1>3. Cardinality(Index) = n
  BY <1>2, FS_Interval
<1>4. \A i \in Index : i \in Int /\ list[i].arrival \in Int
  BY <1>1, <1>2 DEF Processes
<1>5. PICK R : R = {p \in Index \X Index : \/ list[p[1]].arrival < list[p[2]].arrival
                                           \/ list[p[1]].arrival = list[p[2]].arrival /\ p[1] < p[2]}
  BY Zenon
<1>6. \A i, j \in Index : <<j, i>> \in R <=> (\/ list[j].arrival < list[i].arrival
                                              \/ list[j].arrival = list[i].arrival /\ j < i)
  BY <1>5, Zenon
<1>7. Orders(R, Index)
  <2>1. \A x \in Index : <<x, x>> \notin R
    BY <1>4, <1>6
  <2>2. ASSUME NEW x \in Index, NEW y \in Index
        PROVE  x = y \/ <<x, y>> \in R \/ <<y, x>> \in R
    <3>1. PICK a \in Int, b \in Int : a = list[x].arrival /\ b = list[y].arrival
      BY <1>4, Zenon
    <3>2. x = y \/ a < b \/ (a = b /\ x < y) \/ b < a \/ (b = a /\ y < x)
      BY <1>4
    <3> QED
      BY <1>6, <3>1, <3>2, Zenon
  <2>3. ASSUME NEW x \in Index, NEW y \in Index, NEW z \in Index, <<x, y>> \in R, <<y, z>> \in R
        PROVE  <<x, z>> \in R
    <3>1. PICK a \in Int, b \in Int, c \in Int : a = list[x].arrival /\ b = list[y].arrival /\ c = list[z].arrival
      BY <1>4, Zenon
    <3>2. (a < b \/ (a = b /\ x < y)) /\ (b < c \/ (b = c /\ y < z))
      BY <1>6, <2>3, <3>1, Zenon
    <3>3. a < c \/ (a = c /\ x < z)
      BY <1>4, <3>2
    <3> QED
      BY <1>6, <3>1, <3>3, Zenon
  <2> QED
    BY <2>1, <2>2, <2>3, Zenon DEF Orders
<1>8. PICK rank : rank = [i \in Index |-> Rank(i)]
  BY Zenon
<1>9. \A i \in Index : rank[i] = Rank(i)
  BY <1>8, Zenon
<1>10. Ranking(rank, R, Index)
  <2> SUFFICES ASSUME NEW i \in Index
               PROVE  Rank(i) \in Nat /\ Rank(i) = Cardinality({j \in Index : <<j, i>> \in R})
    BY <1>8, Zenon DEF Ranking
  <2>1. PICK B : B = {j \in Index : <<j, i>> \in R}
    BY Zenon
  <2>2. B = {j \in Index : \/ list[j].arrival < list[i].arrival
                           \/ list[j].arrival = list[i].arrival /\ j < i}
    BY <1>6, <2>1, Zenon
  <2>3. Cardinality(B) \in Nat
    BY <2>1, ListFacts, Zenon
  <2> QED
    BY <2>1, <2>2, <2>3, Zenon DEF Rank
<1>11. Ranked(rank, Index)
  BY <1>2, <1>7, <1>10, Ranks, Zenon
<1>12. PICK g : g = [k \in Index |-> CHOOSE i \in Index : Rank(i) = k]
  BY Zenon
<1>13. \A k \in Index : g[k] \in Index /\ rank[g[k]] = k
  <2> SUFFICES ASSUME NEW k \in Index PROVE g[k] \in Index /\ rank[g[k]] = k
    BY Zenon
  <2>1. \E i \in Index : rank[i] = k
    BY <1>2, <1>3, <1>11, Zenon DEF Ranked
  <2>2. \E i \in Index : Rank(i) = k
    BY <1>9, <2>1, Zenon
  <2>3. g[k] = CHOOSE i \in Index : Rank(i) = k
    BY <1>12, Zenon
  <2>4. g[k] \in Index /\ Rank(g[k]) = k
    BY <2>2, <2>3, Zenon
  <2> QED
    BY <1>9, <2>4, Zenon
<1>14. \A i \in Index : rank[i] \in Index
  BY <1>2, <1>3, <1>11, Zenon DEF Ranked
<1>15. \A i \in Index : g[rank[i]] = i
  BY <1>11, <1>13, <1>14, Zenon DEF Ranked
<1>16. list' = [k \in Index |-> list[g[k]]]
  BY <1>12 DEF Sort
<1>17. g \in [Index -> Index]
  BY <1>12, <1>13, Zenon
<1>18. \A k, l \in Index : g[k] = g[l] => k = l
  BY <1>13, Zenon
<1>19. \A i \in Index : \E k \in Index : g[k] = i
  BY <1>14, <1>15, Zenon
<1> QED
  BY <1>16, <1>17, <1>18, <1>19, Zenon

\* What is calculated in the end changes nothing else.
LEMMA Calculated ==
  ASSUME SchedTypes, Calculate
  PROVE  /\ list' \in [Index -> Processes] /\ Index' = Index
         /\ \A i \in Index : /\ list'[i].pid = list[i].pid /\ list'[i].arrival = list[i].arrival
                             /\ list'[i].remain = list[i].remain /\ list'[i].end = list[i].end
<1>1. list \in [Index -> Processes]
  BY ListFacts, Zenon
<1>2. PICK w : w = [i \in Index |-> IF alg \in {"FCFS", "SJF"} THEN list[i].start - list[i].arrival
                                    ELSE list[i].finish - list[i].arrival - list[i].burst]
  BY Zenon
<1>3. list' = [i \in Index |-> [list[i] EXCEPT !.waiting = w[i],
                                               !.response = list[i].start - list[i].arrival,
                                               !.turnaround = list[i].finish - list[i].arrival]]
  BY <1>2, Zenon DEF Calculate
<1>4. ASSUME NEW i \in Index
      PROVE  /\ list'[i] \in Processes
             /\ list'[i].pid = list[i].pid /\ list'[i].arrival = list[i].arrival
             /\ list'[i].remain = list[i].remain /\ list'[i].end = list[i].end
  <2>1. PICK o \in Processes : o = list[i]
    BY <1>1, Zenon
  <2>2. o.start \in Int /\ o.finish \in Int /\ o.arrival \in Int /\ o.burst \in Int
    BY DEF Processes
  <2>3. w[i] \in Int /\ o.start - o.arrival \in Int /\ o.finish - o.arrival \in Int
    BY <1>2, <2>1, <2>2
  <2>4. PICK r : r = [o EXCEPT !.waiting = w[i], !.response = o.start - o.arrival, !.turnaround = o.finish - o.arrival]
    BY Zenon
  <2>5. /\ r \in Processes /\ r.pid = o.pid /\ r.arrival = o.arrival
        /\ r.remain = o.remain /\ r.end = o.end
    BY <2>3, <2>4, Zenon DEF Processes
  <2>6. list'[i] = r
    BY <1>3, <2>1, <2>4, Zenon
  <2> QED
    BY <2>1, <2>5, <2>6, Zenon
<1>5. list' \in [Index -> Processes]
  BY <1>3, <1>4, Zenon
<1>6. Index' = Index
  BY <1>5, Zenon DEF Index
<1> QED
  BY <1>4, <1>5, <1>6, Zenon

\* A step that leaves alone what the invariant is about.
LEMMA Elsewhere ==
  ASSUME SchedInv, UNCHANGED <<alg, time, running, fin_cnt, queue, head, gantt>>,
         pc' = "sort" => pc = "sort",
         list' \in [Index -> Processes], Index' = Index,
         \A i \in Index : /\ list'[i].pid = list[i].pid /\ list'[i].arrival = list[i].arrival
                          /\ list'[i].remain = list[i].remain /\ list'[i].end = list[i].end
  PROVE  SchedInv'
<1>1. SchedTypes'
  <2>1. \E n \in Nat : Index = 0 .. n - 1
    BY Zenon DEF SchedInv, SchedTypes, Index
  <2>2. \E n \in Nat : list' \in [0 .. n - 1 -> Processes]
    BY <2>1, Zenon
  <2> QED
    BY <2>2, Zenon DEF SchedInv, SchedTypes
<1>2. Named'
  BY DEF SchedInv, Named
<1>3. Progress'
  <2>1. {i \in Index : list[i].end = 1} = {i \in Index' : list'[i].end = 1}
    BY Zenon
  <2>2. len' = len
    BY Zenon DEF len
  <2>3. running' # NONE => running' \in Index
    BY Zenon DEF SchedInv, SchedTypes
  <2> QED
    BY <2>1, <2>2, <2>3, Zenon DEF SchedInv, Progress
<1>4. Waiting' = Waiting
  BY Zenon DEF Waiting
<1> QED
  BY <1>1, <1>2, <1>3, <1>4, Zenon DEF SchedInv

\* At the beginning nobody has run, and nobody is done.
LEMMA InitSchedInv ==
  Init => SchedInv
<1> SUFFICES ASSUME Init PROVE SchedInv
  BY Zenon
<1>0. PICK n \in 1 .. MaxLen : \E a \in [0 .. n - 1 -> Arrivals], b \in [0 .. n - 1 -> Bursts] :
         list = [i \in 0 .. n - 1 |-> Process(i + 1, a[i], b[i])]
  BY Zenon DEF Init
<1>1. PICK a \in [0 .. n - 1 -> Arrivals], b \in [0 .. n - 1 -> Bursts] :
         list = [i \in 0 .. n - 1 |-> Process(i + 1, a[i], b[i])]
  BY <1>0, Zenon
<1>2. n \in Nat /\ Index = 0 .. n - 1
  BY <1>1, InputAssumption DEF Index
<1>3. ASSUME NEW i \in Index
      PROVE  /\ list[i] \in Processes /\ list[i].pid = i + 1
             /\ list[i].end = 0 /\ list[i].remain # 0
  <2>1. PICK x, y : x = a[i] /\ y = b[i]
    BY Zenon
  <2>2. x \in Nat /\ y \in Nat /\ y # 0 /\ i + 1 \in Nat
    BY <1>2, <1>3, <2>1, InputAssumption
  <2>3. list[i] = Process(i + 1, x, y)
    BY <1>1, <1>2, <2>1, Zenon
  <2> QED
    BY <2>2, <2>3 DEF Process, Processes
<1>4. list \in [0 .. n - 1 -> Processes]
  BY <1>1, <1>2, <1>3, Zenon
<1>5. /\ time = 0 /\ running = NONE /\ fin_cnt = 0 /\ gantt = <<>> /\ queue = <<>> /\ head = 1
      /\ alg \in {"FCFS", "SJF", "SRTF", "RR"} /\ (pc = "sort" => alg = "FCFS")
  BY Zenon DEF Init
<1>6. SchedTypes
  BY <1>2, <1>4, <1>5 DEF SchedTypes
<1>7. Named
  BY <1>2, <1>3 DEF Named
<1>8. Progress
  <2>1. {i \in Index : list[i].end = 1} = {}
    BY <1>3
  <2>2. Cardinality({i \in Index : list[i].end = 1}) = 0
    BY <2>1, FS_EmptySet, Zenon
  <2> QED
    BY <1>3, <1>5, <2>2 DEF Progress
<1>9. Waiting = {}
  BY <1>3, <1>5, <1>6, ListFacts DEF Waiting, Processes
<1>10. Holds(queue, head, Waiting)
  BY <1>5, <1>9, PushOne, Zenon
<1> QED
  BY <1>5, <1>6, <1>7, <1>8, <1>10, Zenon DEF SchedInv

\* The sort takes place before anything happened.
LEMMA SortKeeps ==
  ASSUME SchedInv, Sort
  PROVE  SchedInv'
<1>1. /\ SchedTypes /\ Named /\ Progress /\ alg = "FCFS" /\ running = NONE /\ time = 0
      /\ pc' = "tick" /\ UNCHANGED <<alg, time, running, fin_cnt, gantt>>
  BY Zenon DEF SchedInv, Sort, input
<1>2. PICK g \in [Index -> Index] :
            /\ list' = [k \in Index |-> list[g[k]]]
            /\ \A k, l \in Index : g[k] = g[l] => k = l
            /\ \A i \in Index : \E k \in Index : g[k] = i
  BY <1>1, Sorted, Zenon
<1>3. /\ list' \in [Index -> Processes] /\ Index' = Index
      /\ \A k \in Index : list'[k] = list[g[k]] /\ g[k] \in Index
  BY <1>1, <1>2, ListFacts, Zenon DEF Index
<1>4. SchedTypes'
  <2>1. \E n \in Nat : Index = 0 .. n - 1
    BY <1>1, Zenon DEF SchedTypes, Index
  <2>2. \E n \in Nat : list' \in [0 .. n - 1 -> Processes]
    BY <1>3, <2>1, Zenon
  <2> QED
    BY <1>1, <2>2, Zenon DEF SchedTypes
<1>5. Named'
  BY <1>1, <1>2, <1>3 DEF Named
<1>6. \A i \in Index : list[i].end # 1 /\ list[i].remain # 0
  <2>1. \A i \in Index : ~(list[i].arrival < 0) /\ i # NONE
    BY <1>1, ListFacts DEF Processes
  <2> QED
    BY <1>1, <2>1, Zenon DEF Progress
<1>7. {i \in Index : list[i].end = 1} = {} /\ {i \in Index' : list'[i].end = 1} = {}
  BY <1>3, <1>6
<1>8. Progress'
  <2>1. len' = len
    BY <1>3, Zenon DEF len
  <2>2. fin_cnt' = Cardinality({i \in Index' : list'[i].end = 1})
    BY <1>1, <1>7, Zenon DEF Progress
  <2>3. (fin_cnt < len => Len(gantt) = time)'
    BY <1>1, <2>1, Zenon DEF Progress
  <2>4. \A i \in Index' : list'[i].end # 1 /\ list'[i].remain # 0
    BY <1>3, <1>6
  <2> QED
    BY <1>1, <2>2, <2>3, <2>4, Zenon DEF Progress
<1> QED
  BY <1>1, <1>4, <1>5, <1>8, Zenon DEF SchedInv

\* Every step keeps the invariant.
LEMMA StepSchedInv ==
  SchedInv /\ [Next]_vars => SchedInv'
<1> SUFFICES ASSUME SchedInv, [Next]_vars
             PROVE  SchedInv'
  BY Zenon
<1>1. SchedTypes /\ list \in [Index -> Processes]
  BY ListFacts, Zenon DEF SchedInv
<1>2. CASE UNCHANGED vars
  <2>1. UNCHANGED <<alg, list, time, running, fin_cnt, queue, head, gantt, pc>>
    BY <1>2, Zenon DEF vars, input, rr
  <2>2. Index' = Index
    BY <2>1, Zenon DEF Index
  <2> QED
    BY <1>1, <2>1, <2>2, Elsewhere, Zenon
<1>3. CASE main
  <2>1. UNCHANGED <<alg, list, time, running, fin_cnt, queue, head, gantt>> /\ pc' = "done"
    BY <1>3, Zenon DEF main, input, rr
  <2>2. Index' = Index
    BY <2>1, Zenon DEF Index
  <2> QED
    BY <1>1, <2>1, <2>2, Elsewhere, Zenon
<1>4. CASE Calculate
  <2>1. UNCHANGED <<alg, time, running, fin_cnt, queue, head, gantt>> /\ pc' = "main"
    BY <1>4, Zenon DEF Calculate, input, rr
  <2> QED
    BY <1>1, <1>4, <2>1, Calculated, Elsewhere, Zenon
<1>5. CASE Sort
  BY <1>5, SortKeeps, Zenon
<1>6. CASE FCFS \/ SJF \/ SRTF
  <2>1. Tick /\ alg # "RR"
    BY <1>6, Zenon DEF FCFS, SJF, SRTF
  <2>2. SchedTypes' /\ Named' /\ Progress'
    BY <1>6, <2>1, StepOthers, TickKeeps, Zenon
  <2>3. alg' = alg /\ pc' = "tick"
    BY <2>1, Zenon DEF Tick, Ticking, input
  <2> QED
    BY <2>1, <2>2, <2>3, Zenon DEF SchedInv
<1>7. CASE RR
  <2>1. Tick
    BY <1>7, Zenon DEF RR
  <2>2. SchedTypes' /\ Named' /\ Progress' /\ Waiting' = WaitingNext
    BY <1>7, <2>1, StepRR, TickKeeps, Zenon
  <2>3. Holds(queue', head', Waiting')
    BY <1>7, <2>2, StepRR, Zenon
  <2>4. pc' = "tick"
    BY <2>1, Zenon DEF Tick, Ticking
  <2> QED
    BY <2>2, <2>3, <2>4, Zenon DEF SchedInv
<1> QED
  BY <1>2, <1>3, <1>4, <1>5, <1>6, <1>7, Zenon DEF Next

-----------------------------------------------------------------------------
(* The refinement.                                                         *)

NamedIn(l) == \A i, j \in DOMAIN l : l[i].pid = l[j].pid => i = j

PidsOf(l) == {l[i].pid : i \in DOMAIN l}

LeftOf(l) == [p \in PidsOf(l) |-> l[CHOOSE i \in DOMAIN l : l[i].pid = p].remain]

ArrivalOf(l) == [p \in PidsOf(l) |-> l[CHOOSE i \in DOMAIN l : l[i].pid = p].arrival]

\* Left and Arrival are functions of the pids.
LEMMA OfPids ==
  ASSUME NEW l
  PROVE  /\ DOMAIN LeftOf(l) = PidsOf(l) /\ LeftOf(l) = [p \in PidsOf(l) |-> LeftOf(l)[p]]
         /\ DOMAIN ArrivalOf(l) = PidsOf(l) /\ ArrivalOf(l) = [p \in PidsOf(l) |-> ArrivalOf(l)[p]]
<1>1. DOMAIN LeftOf(l) = PidsOf(l) /\ LeftOf(l) = [p \in PidsOf(l) |-> LeftOf(l)[p]]
  BY DEF LeftOf
<1>2. DOMAIN ArrivalOf(l) = PidsOf(l) /\ ArrivalOf(l) = [p \in PidsOf(l) |-> ArrivalOf(l)[p]]
  BY DEF ArrivalOf
<1> QED
  BY <1>1, <1>2, Zenon

\* Left and Arrival say of a pid what the list says of the process.
LEMMA ByPid ==
  ASSUME NEW l, NamedIn(l)
  PROVE  \A i \in DOMAIN l : LeftOf(l)[l[i].pid] = l[i].remain /\ ArrivalOf(l)[l[i].pid] = l[i].arrival
<1>1. ASSUME NEW i \in DOMAIN l
      PROVE  (CHOOSE j \in DOMAIN l : l[j].pid = l[i].pid) = i
  BY Zenon DEF NamedIn
<1>2. \A i \in DOMAIN l : l[i].pid \in PidsOf(l)
  BY Zenon DEF PidsOf
<1>3. \A i \in DOMAIN l : LeftOf(l)[l[i].pid] = l[i].remain
  BY <1>1, <1>2, Zenon DEF LeftOf
<1>4. \A i \in DOMAIN l : ArrivalOf(l)[l[i].pid] = l[i].arrival
  BY <1>1, <1>2, Zenon DEF ArrivalOf
<1> QED
  BY <1>3, <1>4, Zenon

\* The same for the lists of two states.
LEMMA Mapped ==
  /\ Left = LeftOf(list) /\ Left' = LeftOf(list')
  /\ Arrival = ArrivalOf(list) /\ Arrival' = ArrivalOf(list')
  /\ (Named => NamedIn(list)) /\ (Named' => NamedIn(list'))
  BY Zenon DEF Left, Arrival, Index, LeftOf, ArrivalOf, PidsOf, Named, NamedIn

\* When the processes stay what they are, but for their places in the list, so
\* do the pids.
LEMMA SamePids ==
  ASSUME NEW l, NEW m, NamedIn(l), NamedIn(m), NEW g \in [DOMAIN m -> DOMAIN l],
         \A i \in DOMAIN l : \E k \in DOMAIN m : g[k] = i,
         \A k \in DOMAIN m : m[k].pid = l[g[k]].pid /\ m[k].arrival = l[g[k]].arrival
  PROVE  /\ PidsOf(m) = PidsOf(l) /\ ArrivalOf(m) = ArrivalOf(l)
         /\ (\A k \in DOMAIN m : m[k].remain = l[g[k]].remain) => LeftOf(m) = LeftOf(l)
<1>1. PidsOf(m) = PidsOf(l)
  BY DEF PidsOf
<1>2. \A p \in PidsOf(m) : \E k \in DOMAIN m : p = m[k].pid
  BY Zenon DEF PidsOf
<1>3. ArrivalOf(m) = ArrivalOf(l)
  <2>1. \A p \in PidsOf(m) : ArrivalOf(m)[p] = ArrivalOf(l)[p]
    <3> SUFFICES ASSUME NEW p \in PidsOf(m) PROVE ArrivalOf(m)[p] = ArrivalOf(l)[p]
      BY Zenon
    <3>1. PICK k \in DOMAIN m : p = m[k].pid
      BY <1>2, Zenon
    <3>2. g[k] \in DOMAIN l /\ p = l[g[k]].pid
      BY <3>1, Zenon
    <3>3. ArrivalOf(m)[p] = m[k].arrival
      BY <3>1, ByPid, Zenon
    <3>4. ArrivalOf(l)[p] = l[g[k]].arrival
      BY <3>2, ByPid, Zenon
    <3> QED
      BY <3>3, <3>4, Zenon
  <2> QED
    BY <1>1, <2>1, OfPids, Zenon
<1>4. ASSUME \A k \in DOMAIN m : m[k].remain = l[g[k]].remain
      PROVE  LeftOf(m) = LeftOf(l)
  <2>1. \A p \in PidsOf(m) : LeftOf(m)[p] = LeftOf(l)[p]
    <3> SUFFICES ASSUME NEW p \in PidsOf(m) PROVE LeftOf(m)[p] = LeftOf(l)[p]
      BY Zenon
    <3>1. PICK k \in DOMAIN m : p = m[k].pid
      BY <1>2, Zenon
    <3>2. g[k] \in DOMAIN l /\ p = l[g[k]].pid
      BY <3>1, Zenon
    <3>3. LeftOf(m)[p] = m[k].remain
      BY <3>1, ByPid, Zenon
    <3>4. LeftOf(l)[p] = l[g[k]].remain
      BY <3>2, ByPid, Zenon
    <3> QED
      BY <1>4, <3>3, <3>4, Zenon
  <2> QED
    BY <1>1, <2>1, OfPids, Zenon
<1> QED
  BY <1>1, <1>3, <1>4, Zenon

\* A step that only sorts the list, or that changes times and marks in it.
LEMMA Stutters ==
  ASSUME Named, Named', NEW g \in [Index' -> Index],
         \A i \in Index : \E k \in Index' : g[k] = i,
         \A k \in Index' : /\ list'[k].pid = list[g[k]].pid /\ list'[k].arrival = list[g[k]].arrival
                           /\ list'[k].remain = list[g[k]].remain
  PROVE  UNCHANGED <<Left, Arrival>>
<1>1. PICK l, m : l = list /\ m = list'
  BY Zenon
<1>2. Index = DOMAIN l /\ Index' = DOMAIN m
  BY <1>1, Zenon DEF Index
<1>3. NamedIn(l) /\ NamedIn(m)
  BY <1>1, Mapped, Zenon
<1>4. ArrivalOf(m) = ArrivalOf(l) /\ LeftOf(m) = LeftOf(l)
  BY <1>1, <1>2, <1>3, SamePids
<1> QED
  BY <1>1, <1>4, Mapped, Zenon

\* An iteration in which process i runs is a step of WorkConserving.
LEMMA RunsWC ==
  ASSUME SchedInv, SchedInv', Tick, NEW i \in Index, Runs(i)
  PROVE  Abstract!WCNext
<1>1. /\ SchedTypes /\ Progress /\ Named /\ Named' /\ fin_cnt < len
      /\ gantt \in Seq(Nat) /\ Len(gantt) = time
  BY Zenon DEF SchedInv, SchedTypes, Progress, Tick, Ticking
<1>2. PICK l, m : l = list /\ m = list'
  BY Zenon
<1>3. Ran([Remain EXCEPT ![i] = @ - 1])
  BY <1>1, RanFacts, Zenon
<1>4. /\ Index = DOMAIN l /\ Index = DOMAIN m
      /\ \A j \in Index : /\ m[j].pid = l[j].pid /\ m[j].arrival = l[j].arrival
                          /\ m[j].remain = IF j = i THEN l[j].remain - 1 ELSE l[j].remain
  BY <1>2, <1>3, Zenon DEF Ran, Remain, Index
<1>5. NamedIn(l) /\ NamedIn(m)
  BY <1>1, <1>2, Mapped, Zenon
<1>6. PidsOf(m) = PidsOf(l) /\ ArrivalOf(m) = ArrivalOf(l)
  <2>1. PICK g : g = [k \in Index |-> k]
    BY Zenon
  <2>2. /\ g \in [DOMAIN m -> DOMAIN l] /\ \A j \in DOMAIN l : \E k \in DOMAIN m : g[k] = j
        /\ \A k \in DOMAIN m : m[k].pid = l[g[k]].pid /\ m[k].arrival = l[g[k]].arrival
    BY <1>4, <2>1, Zenon
  <2> QED
    BY <1>5, <2>2, SamePids, Zenon
<1>7. PICK p : p = l[i].pid
  BY Zenon
<1>8. p \in PidsOf(l) /\ LeftOf(l)[p] = l[i].remain /\ ArrivalOf(l)[p] = l[i].arrival
  BY <1>4, <1>5, <1>7, ByPid, Zenon DEF PidsOf
<1>9. LeftOf(m) = [LeftOf(l) EXCEPT ![p] = @ - 1]
  <2>1. \A r \in PidsOf(m) : LeftOf(m)[r] = IF r = p THEN LeftOf(l)[p] - 1 ELSE LeftOf(l)[r]
    <3> SUFFICES ASSUME NEW r \in PidsOf(m)
                 PROVE  LeftOf(m)[r] = IF r = p THEN LeftOf(l)[p] - 1 ELSE LeftOf(l)[r]
      BY Zenon
    <3>1. PICK k \in DOMAIN m : r = m[k].pid
      BY Zenon DEF PidsOf
    <3>2. k \in DOMAIN l /\ r = l[k].pid /\ LeftOf(m)[r] = m[k].remain /\ LeftOf(l)[r] = l[k].remain
      <4>1. k \in DOMAIN l /\ r = l[k].pid
        BY <1>4, <3>1, Zenon
      <4>2. LeftOf(m)[r] = m[k].remain
        BY <1>5, <3>1, ByPid, Zenon
      <4>3. LeftOf(l)[r] = l[k].remain
        BY <1>5, <4>1, ByPid, Zenon
      <4> QED
        BY <4>1, <4>2, <4>3, Zenon
    <3>3. r = p <=> k = i
      BY <1>4, <1>5, <1>7, <3>2, Zenon DEF NamedIn
    <3> QED
      BY <1>4, <1>8, <3>2, <3>3, Zenon
  <2>2. /\ DOMAIN LeftOf(l) = PidsOf(l) /\ LeftOf(l) = [r \in PidsOf(l) |-> LeftOf(l)[r]]
        /\ LeftOf(m) = [r \in PidsOf(m) |-> LeftOf(m)[r]]
    BY OfPids, Zenon
  <2>3. [LeftOf(l) EXCEPT ![p] = @ - 1] = [r \in PidsOf(l) |-> IF r = p THEN LeftOf(l)[p] - 1 ELSE LeftOf(l)[r]]
    BY <2>2, Zenon
  <2> QED
    BY <1>6, <2>1, <2>2, <2>3, Zenon
<1>10. p \in DOMAIN Left /\ Arrival[p] <= Len(gantt) /\ Left[p] > 0
  BY <1>1, <1>2, <1>8, Mapped, OfPids, Zenon DEF Runs
<1>11. Len(gantt') = Len(gantt) + 1
  <2>1. list[i].pid \in Nat
    BY <1>1, ListFacts, Zenon DEF Processes
  <2> QED
    BY <1>1, <2>1 DEF Runs
<1>12. Arrival' = Arrival /\ Left' = [Left EXCEPT ![p] = @ - 1]
  BY <1>2, <1>6, <1>9, Mapped, Zenon
<1> QED
  BY <1>10, <1>11, <1>12, Zenon DEF Abstract!WCNext, Abstract!Ready

\* An iteration in which none can run is a step of WorkConserving, or it only
\* marks the last process, which the chart does not show.
LEMMA IdlesWC ==
  ASSUME SchedInv, SchedInv', Tick, Idles
  PROVE  Abstract!WCNext \/ UNCHANGED <<Left, Arrival, Len(gantt)>>
<1>1. /\ SchedTypes /\ Progress /\ Named /\ Named' /\ fin_cnt < len
      /\ gantt \in Seq(Nat) /\ Len(gantt) = time
  BY Zenon DEF SchedInv, SchedTypes, Progress, Tick, Ticking
<1>2. Ran(Remain)
  BY <1>1, RanFacts, Zenon
<1>3. UNCHANGED <<Left, Arrival>>
  <2>1. PICK g : g = [k \in Index |-> k]
    BY Zenon
  <2>2. Index' = Index /\ g \in [Index' -> Index] /\ \A i \in Index : \E k \in Index' : g[k] = i
    BY <1>2, <2>1, Zenon DEF Ran
  <2>3. \A k \in Index' : /\ list'[k].pid = list[g[k]].pid /\ list'[k].arrival = list[g[k]].arrival
                          /\ list'[k].remain = list[g[k]].remain
    BY <1>2, <2>1, <2>2, Zenon DEF Ran, Remain
  <2> QED
    BY <1>1, <2>2, <2>3, Stutters, Zenon
<1>4. CASE ~(Counted < len)
  BY <1>3, <1>4, Zenon DEF Idles
<1>5. CASE Counted < len
  <2>1. Len(gantt') = Len(gantt) + 1
    BY <1>1, <1>5 DEF Idles, IDLE
  <2>2. \A i \in Index : list[i].pid \in DOMAIN Left /\ Left[list[i].pid] = list[i].remain
                         /\ Arrival[list[i].pid] = list[i].arrival
    <3>1. DOMAIN Left = PidsOf(list) /\ Index = DOMAIN list
      BY Mapped, OfPids, Zenon DEF Index
    <3>2. \A i \in Index : list[i].pid \in PidsOf(list)
      BY <3>1, Zenon DEF PidsOf
    <3> QED
      BY <1>1, <3>1, <3>2, Mapped, ByPid, Zenon
  <2>3. \A p \in DOMAIN Left : \E i \in Index : p = list[i].pid
    BY Zenon DEF Left
  <2>4. \E p \in DOMAIN Left : Left[p] > 0
    <3>1. {i \in Index : list[i].remain = 0} # Index
      <4>1. Counted = Cardinality({i \in Index : list[i].remain = 0})
        BY <1>1, CountedFacts, Zenon
      <4>2. len \in Nat /\ len = Cardinality(Index)
        BY <1>1, ListFacts, Zenon DEF len
      <4>3. Counted # len
        BY <1>5, <4>2
      <4> QED
        BY <4>1, <4>2, <4>3, Zenon
    <3>2. PICK i \in Index : list[i].remain # 0
      BY <3>1, Zenon
    <3>3. list[i].remain > 0
      BY <1>1, <3>2, ListFacts DEF Processes
    <3> QED
      BY <2>2, <3>3, Zenon
  <2>5. {p \in DOMAIN Left : Arrival[p] <= Len(gantt) /\ Left[p] > 0} = {}
    <3> SUFFICES ASSUME NEW p \in DOMAIN Left, Arrival[p] <= Len(gantt), Left[p] > 0
                 PROVE  FALSE
      BY Zenon
    <3>1. PICK i \in Index : p = list[i].pid
      BY <2>3, Zenon
    <3>2. list[i].arrival <= time /\ list[i].remain > 0
      BY <1>1, <2>2, <3>1, Zenon
    <3>3. list[i].remain = 0
      BY <3>2, Zenon DEF Idles
    <3> QED
      BY <3>2, <3>3
  <2> QED
    BY <1>3, <2>1, <2>4, <2>5, Zenon DEF Abstract!WCNext, Abstract!Ready
<1> QED
  BY <1>4, <1>5, Zenon

\* Every step of the simulator is a step of WorkConserving or none at all.
LEMMA StepWC ==
  SchedInv /\ SchedInv' /\ [Next]_vars => [Abstract!WCNext]_(Abstract!wcvars)
<1> SUFFICES ASSUME SchedInv, SchedInv', [Next]_vars
             PROVE  Abstract!WCNext \/ UNCHANGED <<Left, Arrival, Len(gantt)>>
  BY Zenon DEF Abstract!wcvars
<1>1. SchedTypes /\ Named /\ Named'
  BY Zenon DEF SchedInv
<1>2. CASE UNCHANGED vars \/ main
  <2>1. list' = list /\ gantt' = gantt
    BY <1>2, Zenon DEF vars, main
  <2>2. Left' = Left /\ Arrival' = Arrival
    BY <2>1, Mapped, Zenon
  <2> QED
    BY <2>1, <2>2, Zenon
<1>3. CASE Calculate
  <2>1. PICK g : g = [k \in Index |-> k]
    BY Zenon
  <2>2. Index' = Index /\ g \in [Index' -> Index] /\ \A i \in Index : \E k \in Index' : g[k] = i
    BY <1>1, <1>3, <2>1, Calculated, Zenon
  <2>3. \A k \in Index' : /\ list'[k].pid = list[g[k]].pid /\ list'[k].arrival = list[g[k]].arrival
                          /\ list'[k].remain = list[g[k]].remain
    BY <1>1, <1>3, <2>1, <2>2, Calculated, Zenon
  <2>4. UNCHANGED <<Left, Arrival>>
    BY <1>1, <2>2, <2>3, Stutters, Zenon
  <2> QED
    BY <1>3, <2>4, Zenon DEF Calculate
<1>4. CASE Sort
  <2>1. PICK g \in [Index -> Index] :
            /\ list' = [k \in Index |-> list[g[k]]]
            /\ \A k, l \in Index : g[k] = g[l] => k = l
            /\ \A i \in Index : \E k \in Index : g[k] = i
    BY <1>1, <1>4, Sorted, Zenon
  <2>2. Index' = Index
    BY <2>1, Zenon DEF Index
  <2>3. \A k \in Index' : list'[k] = list[g[k]]
    BY <2>1, <2>2, Zenon
  <2>4. UNCHANGED <<Left, Arrival>>
    BY <1>1, <2>1, <2>2, <2>3, Stutters, Zenon
  <2> QED
    BY <1>4, <2>4, Zenon DEF Sort
<1>5. CASE FCFS \/ SJF \/ SRTF \/ RR
  <2>1. Tick
    BY <1>5, Zenon DEF FCFS, SJF, SRTF, RR
  <2>2. Idles \/ \E i \in Index : Runs(i)
    BY <1>5, StepOthers, StepRR, Zenon
  <2> QED
    BY <2>1, <2>2, RunsWC, IdlesWC, Zenon
<1> QED
  BY <1>2, <1>3, <1>4, <1>5, Zenon DEF Next

-----------------------------------------------------------------------------

\* For every input file and every time slice, FCFS, SJF, SRTF and RR share out
\* one CPU as they should: in each millisecond of the chart one process that has
\* arrived and is not done runs, and the CPU idles only when there is none.  So
\* no process is lost in the queue of RR or by the sort of FCFS, none runs
\* longer than its burst, and the clock does not stop in a gap.
THEOREM SchedulersWorkConserving ==
  Spec => ImplementsWorkConserving
<1>1. Init => Abstract!WCInit
  BY Zenon DEF Init, Abstract!WCInit
<1>2. Spec => []SchedInv
  BY InitSchedInv, StepSchedInv, PTL DEF Spec
<1> QED
  BY <1>1, <1>2, StepWC, PTL DEF Spec, ImplementsWorkConserving, Abstract!WCSpec
=============================================================================
