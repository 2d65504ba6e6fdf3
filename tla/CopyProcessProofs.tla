-------------------------- MODULE CopyProcessProofs --------------------------
(***************************************************************************)
(* Proofs about module CopyProcess, for every number of callers, all       *)
(* limits, requests and signals: by how much callers of copy_process that  *)
(* overtake each other can exceed max_threads and RLIMIT_NPROC; that no    *)
(* signal is lost between a parent and its child; and that the labels      *)
(* give back exactly what was taken.                                       *)
(***************************************************************************)
EXTENDS CopyProcess, FiniteSetTheorems, SequenceTheorems, TLAPS

(* Callers that have passed the check of max_threads and raise nr_threads if nothing fails. *)
Past == {f \in Forkers : pc[f] = "publish" \/ (pc[f] = "step" /\ at[f] > 4)}

(* Callers between the check of RLIMIT_NPROC and copy_creds, which counts the process. *)
Passing == {f \in Forkers : pc[f] = "step" /\ at[f] = 3}

CTypes ==
  /\ DOMAIN pc = Forkers
  /\ DOMAIN at = Forkers
  /\ nr_threads \in Int
  /\ processes \in Int

(***************************************************************************)
(* LimitsNearlyKept is not inductive: the callers on the way to the        *)
(* counters must be counted already.                                       *)
(***************************************************************************)
LimitInv ==
  /\ CTypes
  /\ nr_threads + Cardinality(Past) <= max_threads + Cardinality(Forkers) - 1
  /\ processes + Cardinality(Passing) <= NPROC + Cardinality(Forkers) - 1

\* A function on 1..n is a sequence of length n.
LEMMA FunctionIsSeq ==
  ASSUME NEW s, NEW T, NEW n \in Nat, s = [i \in 1..n |-> s[i]], \A i \in 1..n : s[i] \in T
  PROVE  s \in Seq(T)
  BY IsASeq

(* How many steps give the new task an identity. *)
Ids(c) == IF "PIDFD" \in c THEN 6 ELSE 3

\* The steps of a request are those of the three parts, one after the other.
LEMMA StepsAre ==
  ASSUME NEW c
  PROVE  /\ Len(Steps(c)) = 19 + Ids(c)
         /\ \A i \in 1..10 : Steps(c)[i] = Setup(c)[i]
         /\ \A i \in 11..19 : Steps(c)[i] = Copies(c)[i - 10]
         /\ \A i \in 20..(19 + Ids(c)) : Steps(c)[i] = Identity(c)[i - 19]
<1> DEFINE n == Ids(c)
           T == {Setup(c)[i] : i \in 1..10} \cup {Copies(c)[i] : i \in 1..9} \cup {Identity(c)[i] : i \in 1..n}
<1>1. Len(Setup(c)) = 10 /\ Setup(c) \in Seq(T)
  <2>1. Len(Setup(c)) = 10 /\ Setup(c) = [i \in 1..10 |-> Setup(c)[i]]
    BY DEF Setup
  <2>2. \A i \in 1..10 : Setup(c)[i] \in T
    BY Zenon
  <2> HIDE DEF T
  <2> QED
    BY <2>1, <2>2, FunctionIsSeq, Zenon
<1>2. Len(Copies(c)) = 9 /\ Copies(c) \in Seq(T)
  <2>1. Len(Copies(c)) = 9 /\ Copies(c) = [i \in 1..9 |-> Copies(c)[i]]
    BY DEF Copies
  <2>2. \A i \in 1..9 : Copies(c)[i] \in T
    BY Zenon
  <2> HIDE DEF T
  <2> QED
    BY <2>1, <2>2, FunctionIsSeq, Zenon
<1>3. Len(Identity(c)) = n /\ Identity(c) \in Seq(T) /\ n \in Nat /\ n >= 3
  <2>1. Len(Identity(c)) = n /\ Identity(c) = [i \in 1..n |-> Identity(c)[i]]
    <3>1. CASE "PIDFD" \in c
      BY <3>1 DEF Identity, Ids
    <3>2. CASE "PIDFD" \notin c
      BY <3>2 DEF Identity, Ids
    <3> QED
      BY <3>1, <3>2, Zenon
  <2>2. \A i \in 1..n : Identity(c)[i] \in T
    BY Zenon
  <2>3. n \in Nat /\ n >= 3
    BY DEF Ids
  <2> HIDE DEF T, n
  <2> QED
    BY <2>1, <2>2, <2>3, FunctionIsSeq, Zenon
<1> HIDE DEF T, n
<1> DEFINE first == Setup(c) \o Copies(c)
<1>4. first \in Seq(T) /\ Len(first) = 19
      /\ \A i \in 1..19 : first[i] = IF i <= 10 THEN Setup(c)[i] ELSE Copies(c)[i - 10]
  <2>1. /\ first \in Seq(T) /\ Len(first) = Len(Setup(c)) + Len(Copies(c))
        /\ \A i \in 1..(Len(Setup(c)) + Len(Copies(c))) :
             first[i] = IF i <= Len(Setup(c)) THEN Setup(c)[i] ELSE Copies(c)[i - Len(Setup(c))]
    BY <1>1, <1>2, ConcatProperties, Zenon
  <2> HIDE DEF first
  <2>2. Len(Setup(c)) + Len(Copies(c)) = 19
    BY <1>1, <1>2
  <2> QED
    BY <1>1, <2>1, <2>2, Zenon
<1>5. Steps(c) = first \o Identity(c)
  BY Zenon DEF Steps
<1> HIDE DEF first
<1>6. Len(Steps(c)) = 19 + n
      /\ \A i \in 1..(19 + n) : Steps(c)[i] = IF i <= 19 THEN first[i] ELSE Identity(c)[i - 19]
  <2> DEFINE all == first \o Identity(c)
  <2>1. /\ Len(all) = Len(first) + Len(Identity(c))
        /\ \A i \in 1..(Len(first) + Len(Identity(c))) :
             all[i] = IF i <= Len(first) THEN first[i] ELSE Identity(c)[i - Len(first)]
    BY <1>3, <1>4, ConcatProperties, Zenon
  <2> HIDE DEF all
  <2>2. Steps(c) = all
    BY <1>5, Zenon DEF all
  <2> QED
    BY <1>3, <1>4, <2>1, <2>2, Zenon
<1>7. ASSUME NEW i \in 1..10 PROVE Steps(c)[i] = Setup(c)[i]
  <2>1. i \in 1..19 /\ i \in 1..(19 + n) /\ i <= 19 /\ i <= 10
    BY <1>3
  <2>2. Steps(c)[i] = first[i]
    BY <1>6, <2>1, Zenon
  <2>3. first[i] = Setup(c)[i]
    BY <1>4, <2>1, Zenon
  <2> QED
    BY <2>2, <2>3, Zenon
<1>8. ASSUME NEW i \in 11..19 PROVE Steps(c)[i] = Copies(c)[i - 10]
  <2>1. i \in 1..19 /\ i \in 1..(19 + n) /\ i <= 19 /\ ~(i <= 10)
    BY <1>3
  <2>2. Steps(c)[i] = first[i]
    BY <1>6, <2>1, Zenon
  <2>3. first[i] = Copies(c)[i - 10]
    BY <1>4, <2>1, Zenon
  <2> QED
    BY <2>2, <2>3, Zenon
<1>9. ASSUME NEW i \in 20..(19 + n) PROVE Steps(c)[i] = Identity(c)[i - 19]
  <2>1. i \in 1..(19 + n) /\ ~(i <= 19)
    BY <1>3
  <2> QED
    BY <1>6, <2>1, Zenon
<1> QED
  BY <1>6, <1>7, <1>8, <1>9, Zenon DEF n

\* A step belongs to one of the three parts.
LEMMA StepParts ==
  ASSUME NEW c, NEW i \in 1..Len(Steps(c))
  PROVE  \/ i \in 1..10 /\ Steps(c)[i] = Setup(c)[i]
         \/ i \in 11..19 /\ Steps(c)[i] = Copies(c)[i - 10]
         \/ i \in 20..(19 + Ids(c)) /\ Steps(c)[i] = Identity(c)[i - 19]
<1>1. Len(Steps(c)) = 19 + Ids(c) /\ Ids(c) \in Nat
  BY StepsAre, Zenon DEF Ids
<1>2. i \in 1..10 \/ i \in 11..19 \/ i \in 20..(19 + Ids(c))
  BY <1>1
<1>3. ASSUME i \in 1..10 PROVE Steps(c)[i] = Setup(c)[i]
  BY <1>3, StepsAre, Zenon
<1>4. ASSUME i \in 11..19 PROVE Steps(c)[i] = Copies(c)[i - 10]
  BY <1>4, StepsAre, Zenon
<1>5. ASSUME i \in 20..(19 + Ids(c)) PROVE Steps(c)[i] = Identity(c)[i - 19]
  BY <1>5, StepsAre, Zenon
<1> QED
  BY <1>2, <1>3, <1>4, <1>5, Zenon

\* Which steps check a limit and which one counts the process.
LEMMA StepFacts ==
  ASSUME NEW c
  PROVE  /\ Len(Steps(c)) \in Nat /\ Len(Steps(c)) > 4
         /\ Steps(c)[2].does = "rlimit"
         /\ Steps(c)[4].does = "max_threads"
         /\ \A i \in 1..Len(Steps(c)) : "count" \in Steps(c)[i].takes => i = 3
<1>1. Ids(c) \in {3, 6} /\ Len(Steps(c)) = 19 + Ids(c)
  BY StepsAre, Zenon DEF Ids
<1>2. Steps(c)[2].does = "rlimit" /\ Steps(c)[4].does = "max_threads"
  <2>1. Steps(c)[2] = Setup(c)[2] /\ Steps(c)[4] = Setup(c)[4]
    BY StepsAre
  <2> QED
    BY <2>1 DEF Setup, S
<1>3. ASSUME NEW i \in 1..10, i # 3 PROVE "count" \notin Steps(c)[i].takes
  <2>1. i = 1 \/ i = 2 \/ i = 4 \/ i = 5 \/ i = 6 \/ i = 7 \/ i = 8 \/ i = 9 \/ i = 10
    BY <1>3
  <2>2. "count" \notin Setup(c)[i].takes
    BY <2>1 DEF Setup, S
  <2> QED
    BY <2>2, StepsAre, Zenon
<1>4. ASSUME NEW i \in 11..19 PROVE "count" \notin Steps(c)[i].takes
  <2>1. PICK j : j = i - 10
    BY Zenon
  <2>2. j = 1 \/ j = 2 \/ j = 3 \/ j = 4 \/ j = 5 \/ j = 6 \/ j = 7 \/ j = 8 \/ j = 9
    BY <2>1
  <2>3. "count" \notin Copies(c)[j].takes
    BY <2>2 DEF Copies, S
  <2> QED
    BY <2>1, <2>3, StepsAre, Zenon
<1>5. ASSUME NEW i \in 20..(19 + Ids(c)) PROVE "count" \notin Steps(c)[i].takes
  <2>1. PICK j : j = i - 19
    BY Zenon
  <2>2. "count" \notin Identity(c)[j].takes
    <3>1. CASE "PIDFD" \in c
      <4>1. j = 1 \/ j = 2 \/ j = 3 \/ j = 4 \/ j = 5 \/ j = 6
        BY <2>1, <3>1 DEF Ids
      <4> QED
        BY <3>1, <4>1 DEF Identity, S
    <3>2. CASE "PIDFD" \notin c
      <4>1. j = 1 \/ j = 2 \/ j = 3
        BY <2>1, <3>2 DEF Ids
      <4> QED
        BY <3>2, <4>1 DEF Identity, S
    <3> QED
      BY <3>1, <3>2, Zenon
  <2> QED
    BY <2>1, <2>2, StepsAre, Zenon
<1>6. ASSUME NEW i \in 1..Len(Steps(c)), i # 3 PROVE "count" \notin Steps(c)[i].takes
  <2>1. i \in 1..10 \/ i \in 11..19 \/ i \in 20..(19 + Ids(c))
    BY <1>1
  <2> QED
    BY <1>3, <1>4, <1>5, <1>6, <2>1, Zenon
<1> QED
  BY <1>1, <1>2, <1>6

\* The sets of callers on the way are finite and no larger than Forkers.
LEMMA WayFinite ==
  ASSUME NEW W \in SUBSET Forkers, NEW V \in SUBSET Forkers, NEW f \in Forkers
  PROVE  /\ Cardinality(Forkers) \in Nat /\ Cardinality(Forkers) > 0
         /\ Cardinality(W) \in Nat /\ Cardinality(W) <= Cardinality(Forkers)
         /\ V \subseteq W => Cardinality(V) <= Cardinality(W)
         /\ V \subseteq W \ {f} /\ f \in W => Cardinality(V) + 1 <= Cardinality(W)
<1>1. IsFiniteSet(Forkers) /\ Cardinality(Forkers) \in Nat /\ Cardinality(Forkers) # 0
  BY ForkAssumption, FS_CardinalityType, FS_EmptySet, Zenon
<1>2. IsFiniteSet(W) /\ Cardinality(W) <= Cardinality(Forkers)
  BY <1>1, FS_Subset, Zenon
<1>3. Cardinality(W) \in Nat
  BY <1>2, FS_CardinalityType, Zenon
<1>4. ASSUME V \subseteq W PROVE Cardinality(V) <= Cardinality(W)
  BY <1>2, <1>4, FS_Subset, Zenon
<1>5. ASSUME V \subseteq W \ {f}, f \in W PROVE Cardinality(V) + 1 <= Cardinality(W)
  <2>1. IsFiniteSet(W \ {f}) /\ Cardinality(W \ {f}) = Cardinality(W) - 1
    BY <1>2, <1>5, FS_RemoveElement, Zenon
  <2>2. Cardinality(V) <= Cardinality(W \ {f}) /\ Cardinality(V) \in Nat
    BY <1>5, <2>1, FS_Subset, FS_CardinalityType, Zenon
  <2> QED
    BY <1>3, <2>1, <2>2
<1> QED
  BY <1>1, <1>2, <1>3, <1>4, <1>5

\* All callers begin outside copy_process.
LEMMA InitLimitInv == Init => LimitInv
<1> SUFFICES ASSUME Init PROVE LimitInv
  BY Zenon
<1>1. Past = {} /\ Passing = {}
  BY Zenon DEF Init, Past, Passing
<1>2. PICK f \in Forkers : TRUE
  BY ForkAssumption, Zenon
<1>3. Cardinality(Forkers) \in Nat /\ Cardinality(Forkers) > 0
  BY <1>2, WayFinite, Zenon
<1>4. CTypes
  BY <1>3 DEF Init, CTypes
<1> QED
  BY <1>1, <1>3, <1>4, FS_EmptySet, ForkAssumption DEF Init, LimitInv

\* A step after which no more callers are on the way to a counter.
LEMMA NoMoreOnTheWay ==
  ASSUME LimitInv, CTypes', nr_threads' = nr_threads, processes' <= processes,
         Past' \subseteq Past, Passing' \subseteq Passing
  PROVE  LimitInv'
<1>1. PICK f \in Forkers : TRUE
  BY ForkAssumption, Zenon
<1>2. Past \in SUBSET Forkers /\ Past' \in SUBSET Forkers /\ Passing \in SUBSET Forkers /\ Passing' \in SUBSET Forkers
  BY Zenon DEF Past, Passing
<1>3. /\ Cardinality(Past') <= Cardinality(Past) /\ Cardinality(Past') \in Nat /\ Cardinality(Past) \in Nat
      /\ Cardinality(Passing') <= Cardinality(Passing) /\ Cardinality(Passing') \in Nat
      /\ Cardinality(Passing) \in Nat /\ Cardinality(Forkers) \in Nat
  BY <1>1, <1>2, WayFinite, Zenon
<1> QED
  BY <1>3, ForkAssumption DEF LimitInv, CTypes

\* A caller goes to a step or label at which it is on the way to no counter.
LEMMA Elsewhere ==
  ASSUME LimitInv, NEW f \in Forkers, NEW l, NEW i, Goto(f, l, i),
         l # "publish", l = "step" => i = 1,
         nr_threads' = nr_threads, processes' \in Int, processes' <= processes
  PROVE  LimitInv'
<1> USE DEF LimitInv, CTypes, Goto
<1>1. CTypes'
  BY Zenon
<1>2. Past' \subseteq Past
  BY DEF Past
<1>3. Passing' \subseteq Passing
  BY DEF Passing
<1> QED
  BY <1>1, <1>2, <1>3, NoMoreOnTheWay, Zenon

\* Fewer are on the way, and as many more are counted at most.
LEMMA SumKept ==
  ASSUME NEW x \in Int, NEW y \in Int, NEW a \in Nat, NEW b \in Nat, NEW l \in Int, NEW k \in Nat,
         x + a <= l + k - 1, y + b <= x + a
  PROVE  y + b <= l + k - 1
  OBVIOUS

\* The steps of copy_process, the only ones that lead to a counter.
LEMMA StepLimit ==
  ASSUME LimitInv, NEW f \in Forkers, Step(f), at[f] \in 1..Len(Steps(flags[f]))
  PROVE  LimitInv'
<1> DEFINE s == Steps(flags[f])[at[f]]
           n == Len(Steps(flags[f]))
<1>1. /\ n \in Nat /\ n > 4
      /\ at[f] = 2 => s.does = "rlimit"
      /\ at[f] = 4 => s.does = "max_threads"
      /\ "count" \in s.takes => at[f] = 3
  BY StepFacts, Zenon
<1>2. /\ pc[f] = "step" /\ Allowed(s)
      /\ processes' = IF "count" \in s.takes THEN processes + 1 ELSE processes
      /\ IF at[f] = n THEN Goto(f, "publish", 1) ELSE Goto(f, "step", at[f] + 1)
      /\ nr_threads' = nr_threads
  BY Zenon DEF Step
<1> HIDE DEF s, n
<1>3. /\ at[f] \in Nat /\ nr_threads \in Int /\ processes \in Int
      /\ DOMAIN pc = Forkers /\ DOMAIN at = Forkers
  BY <1>1 DEF LimitInv, CTypes
<1>4. CTypes'
  BY <1>1, <1>2, <1>3 DEF CTypes, Goto
<1>5. \A g \in Forkers \ {f} : pc'[g] = pc[g] /\ at'[g] = at[g]
  BY <1>2, <1>3, Zenon DEF Goto
<1>6. pc'[f] = (IF at[f] = n THEN "publish" ELSE "step") /\ at'[f] = (IF at[f] = n THEN 1 ELSE at[f] + 1)
  BY <1>2, <1>3, Zenon DEF Goto
<1>7. /\ Past \in SUBSET Forkers /\ Past' \in SUBSET Forkers
      /\ Passing \in SUBSET Forkers /\ Passing' \in SUBSET Forkers
  BY Zenon DEF Past, Passing
<1>8. /\ Cardinality(Forkers) \in Nat
      /\ Cardinality(Past) \in Nat /\ Cardinality(Past') \in Nat /\ Cardinality(Past') <= Cardinality(Forkers)
      /\ Cardinality(Passing) \in Nat /\ Cardinality(Passing') \in Nat
      /\ Cardinality(Passing') <= Cardinality(Forkers)
      /\ Past' \subseteq Past => Cardinality(Past') <= Cardinality(Past)
      /\ Passing' \subseteq Passing => Cardinality(Passing') <= Cardinality(Passing)
      /\ Passing' \subseteq Passing \ {f} /\ f \in Passing => Cardinality(Passing') + 1 <= Cardinality(Passing)
  BY <1>7, WayFinite, Zenon
<1>9. \A g \in Forkers \ {f} : (g \in Past' => g \in Past) /\ (g \in Passing' => g \in Passing)
  BY <1>5, Zenon DEF Past, Passing
<1>10. nr_threads' + Cardinality(Past') <= max_threads + Cardinality(Forkers) - 1
  <2>1. CASE at[f] = 4
    <3>1. nr_threads < max_threads
      BY <1>1, <1>2, <1>3, <2>1, ForkAssumption DEF Allowed, TooManyThreads
    <3> QED
      BY <1>2, <1>3, <1>8, <3>1, ForkAssumption
  <2>2. CASE at[f] # 4
    <3>1. Past' \subseteq Past
      <4>1. pc[f] = "step"
        BY <1>2, Zenon
      <4>2. f \in Past' => f \in Past
        BY <1>1, <1>3, <1>6, <2>2, <4>1 DEF Past
      <4> QED
        BY <1>7, <1>9, <4>2, Zenon
    <3> QED
      <4>1. Cardinality(Past') <= Cardinality(Past)
        BY <1>8, <3>1, Zenon
      <4>2. /\ nr_threads \in Int /\ nr_threads' = nr_threads /\ max_threads \in Int
            /\ Cardinality(Forkers) \in Nat /\ Cardinality(Past) \in Nat /\ Cardinality(Past') \in Nat
        BY <1>2, <1>3, <1>8, ForkAssumption
      <4>3. nr_threads' + Cardinality(Past') <= nr_threads + Cardinality(Past)
        BY <4>1, <4>2
      <4>4. nr_threads + Cardinality(Past) <= max_threads + Cardinality(Forkers) - 1
        BY Zenon DEF LimitInv
      <4> QED
        BY <4>2, <4>3, <4>4, SumKept, Zenon
  <2> QED
    BY <2>1, <2>2, Zenon
<1>11. processes' + Cardinality(Passing') <= NPROC + Cardinality(Forkers) - 1
  <2>1. CASE at[f] = 2
    <3>1. processes < NPROC /\ processes' = processes
      BY <1>1, <1>2, <1>3, <2>1, ForkAssumption DEF Allowed, TooManyProcesses
    <3> QED
      BY <1>3, <1>8, <3>1, ForkAssumption
  <2>2. CASE at[f] = 3
    <3>1. Passing' \subseteq Passing \ {f} /\ f \in Passing
      <4>1. f \in Passing
        BY <1>2, <2>2, Zenon DEF Passing
      <4>2. f \notin Passing'
        BY <1>6, <2>2 DEF Passing
      <4> QED
        BY <1>7, <1>9, <4>1, <4>2, Zenon
    <3>2. processes' <= processes + 1 /\ processes' \in Int
      BY <1>2, <1>3
    <3>3. Cardinality(Passing') + 1 <= Cardinality(Passing)
      BY <1>8, <3>1, Zenon
    <3>4. processes + Cardinality(Passing) <= NPROC + Cardinality(Forkers) - 1
      BY Zenon DEF LimitInv
    <3> QED
      <4>1. processes' + Cardinality(Passing') <= processes + Cardinality(Passing)
        BY <1>3, <1>8, <3>2, <3>3
      <4>2. /\ processes \in Int /\ processes' \in Int /\ NPROC \in Int /\ Cardinality(Forkers) \in Nat
            /\ Cardinality(Passing) \in Nat /\ Cardinality(Passing') \in Nat
        BY <1>3, <1>8, <3>2, ForkAssumption
      <4> QED
        BY <3>4, <4>1, <4>2, SumKept, Zenon
  <2>3. CASE at[f] \notin {2, 3}
    <3>1. Passing' \subseteq Passing
      <4>1. f \notin Passing'
        BY <1>3, <1>6, <2>3 DEF Passing
      <4> QED
        BY <1>7, <1>9, <4>1, Zenon
    <3>2. processes' = processes
      BY <1>1, <1>2, <2>3, Zenon
    <3> QED
      <4>1. Cardinality(Passing') <= Cardinality(Passing)
        BY <1>8, <3>1, Zenon
      <4>2. /\ processes \in Int /\ processes' \in Int /\ NPROC \in Int /\ Cardinality(Forkers) \in Nat
            /\ Cardinality(Passing) \in Nat /\ Cardinality(Passing') \in Nat
        BY <1>3, <1>8, <3>2, ForkAssumption
      <4>3. processes' + Cardinality(Passing') <= processes + Cardinality(Passing)
        BY <3>2, <4>1, <4>2
      <4>4. processes + Cardinality(Passing) <= NPROC + Cardinality(Forkers) - 1
        BY Zenon DEF LimitInv
      <4> QED
        BY <4>2, <4>3, <4>4, SumKept, Zenon
  <2> QED
    BY <2>1, <2>2, <2>3, Zenon
<1> QED
  BY <1>4, <1>10, <1>11, Zenon DEF LimitInv

\* The publication raises nr_threads and takes the caller off the way.
LEMMA PublishLimit ==
  ASSUME LimitInv, NEW f \in Forkers, Publish(f)
  PROVE  LimitInv'
<1>1. pc[f] = "publish" /\ Goto(f, "finish", 1) /\ nr_threads' = nr_threads + 1 /\ processes' = processes
  BY Zenon DEF Publish
<1>2. CTypes'
  BY <1>1 DEF LimitInv, CTypes, Goto
<1>3. f \in Past /\ Past' \subseteq Past \ {f} /\ Passing' \subseteq Passing
  BY <1>1, Zenon DEF LimitInv, CTypes, Goto, Past, Passing
<1>4. Past \in SUBSET Forkers /\ Past' \in SUBSET Forkers /\ Passing \in SUBSET Forkers /\ Passing' \in SUBSET Forkers
  BY Zenon DEF Past, Passing
<1>5. /\ Cardinality(Past') + 1 <= Cardinality(Past) /\ Cardinality(Past') \in Nat /\ Cardinality(Past) \in Nat
      /\ Cardinality(Passing') <= Cardinality(Passing) /\ Cardinality(Passing') \in Nat
      /\ Cardinality(Passing) \in Nat /\ Cardinality(Forkers) \in Nat
  BY <1>3, <1>4, WayFinite, Zenon
<1> QED
  BY <1>1, <1>2, <1>5, ForkAssumption DEF LimitInv, CTypes

(* A caller at a step is at one that its request has. *)
InRange ==
  /\ DOMAIN flags = Forkers
  /\ \A f \in Forkers : pc[f] = "step" => at[f] \in 1..Len(Steps(flags[f]))

\* A caller stays within the steps of its request.
LEMMA RangeKept ==
  ASSUME CTypes, InRange, NEW f \in Forkers, NEW l, NEW i, Goto(f, l, i),
         DOMAIN flags' = Forkers, \A g \in Forkers \ {f} : flags'[g] = flags[g],
         l = "step" => i \in 1..Len(Steps(flags'[f]))
  PROVE  InRange'
<1>1. \A g \in Forkers \ {f} : pc'[g] = pc[g] /\ at'[g] = at[g]
  BY Zenon DEF Goto, CTypes
<1>2. pc'[f] = l /\ at'[f] = i
  BY Zenon DEF Goto, CTypes
<1> QED
  BY <1>1, <1>2, Zenon DEF InRange

\* A call is refused or begins outside the steps.
LEMMA CallLimit ==
  ASSUME LimitInv, InRange, NEW f \in Forkers, NEW c, Call(f, c)
  PROVE  LimitInv' /\ InRange'
<1>1. nr_threads' = nr_threads /\ processes' = processes
  BY Zenon DEF Call, counts
<1>2. CASE UNCHANGED <<pc, at, flags>>
  BY <1>1, <1>2, Zenon DEF LimitInv, CTypes, InRange, Past, Passing
<1>3. CASE Goto(f, "list", 1) /\ flags' = [flags EXCEPT ![f] = c]
  <2>1. LimitInv'
    BY <1>1, <1>3, Elsewhere DEF LimitInv, CTypes
  <2>2. InRange'
    BY <1>3, RangeKept, Zenon DEF LimitInv, InRange
  <2> QED
    BY <2>1, <2>2, Zenon
<1> QED
  BY <1>2, <1>3, Zenon DEF Call

\* Every step keeps both.
LEMMA NextLimitInv == LimitInv /\ InRange /\ [Next]_vars => LimitInv' /\ InRange'
<1> SUFFICES ASSUME LimitInv, InRange, [Next]_vars PROVE LimitInv' /\ InRange'
  BY Zenon
<1> USE DEF counts
<1>1. ASSUME UNCHANGED <<pc, at, flags, nr_threads, processes>> PROVE LimitInv' /\ InRange'
  BY <1>1, Zenon DEF LimitInv, CTypes, InRange, Past, Passing
<1>2. CTypes /\ DOMAIN flags = Forkers /\ processes \in Int
  BY Zenon DEF LimitInv, CTypes, InRange
<1>3. ASSUME NEW f \in Forkers, List(f) PROVE LimitInv' /\ InRange'
  BY <1>2, <1>3, Elsewhere, RangeKept DEF List
<1>4. ASSUME NEW f \in Forkers, CheckSignals(f) PROVE LimitInv' /\ InRange'
  <2>1. CASE SignalPending(f)
    BY <1>2, <1>4, <2>1, Elsewhere, RangeKept DEF CheckSignals
  <2>2. CASE ~SignalPending(f)
    <3>1. 1 \in 1..Len(Steps(flags[f]))
      BY StepFacts
    <3> QED
      BY <1>2, <1>4, <2>2, <3>1, Elsewhere, RangeKept DEF CheckSignals
  <2> QED
    BY <2>1, <2>2, Zenon
<1>5. ASSUME NEW f \in Forkers, Step(f) PROVE LimitInv' /\ InRange'
  <2>1. pc[f] = "step" /\ at[f] \in 1..Len(Steps(flags[f])) /\ flags' = flags
    BY <1>5, Zenon DEF Step, InRange
  <2>2. LimitInv'
    BY <1>5, <2>1, StepLimit, Zenon
  <2>3. CASE Goto(f, "publish", 1)
    BY <1>2, <2>1, <2>2, <2>3, RangeKept, Zenon
  <2>4. CASE at[f] # Len(Steps(flags[f])) /\ Goto(f, "step", at[f] + 1)
    <3>1. at[f] + 1 \in 1..Len(Steps(flags[f]))
      BY <2>1, <2>4, StepFacts
    <3> QED
      BY <1>2, <2>1, <2>2, <2>4, <3>1, RangeKept, Zenon
  <2> QED
    BY <1>5, <2>3, <2>4, Zenon DEF Step
<1>6. ASSUME NEW f \in Forkers, Fail(f) PROVE LimitInv' /\ InRange'
  <2>1. PICK i : Goto(f, "undo", i)
    BY <1>6, Zenon DEF Fail
  <2> QED
    BY <1>2, <1>6, <2>1, Elsewhere, RangeKept DEF Fail
<1>7. ASSUME NEW f \in Forkers, PublishFails(f) PROVE LimitInv' /\ InRange'
  BY <1>2, <1>7, Elsewhere, RangeKept DEF PublishFails
<1>8. ASSUME NEW f \in Forkers, Publish(f) PROVE LimitInv' /\ InRange'
  BY <1>2, <1>8, PublishLimit, RangeKept, Zenon DEF Publish
<1>9. ASSUME NEW f \in Forkers, Finish(f) PROVE LimitInv' /\ InRange'
  BY <1>2, <1>9, Elsewhere, RangeKept DEF Finish
<1>10. ASSUME NEW f \in Forkers, Undo(f) PROVE LimitInv' /\ InRange'
  <2>1. nr_threads' = nr_threads /\ processes' \in Int /\ processes' <= processes
    BY <1>2, <1>10 DEF Undo
  <2>2. \/ \E i : Goto(f, "undo", i) /\ flags' = flags
        \/ Goto(f, "user", 1) /\ flags' = [flags EXCEPT ![f] = {}]
    BY <1>10, Zenon DEF Undo
  <2> QED
    BY <1>2, <2>1, <2>2, Elsewhere, RangeKept, Zenon
<1>11. ASSUME NEW f \in Forkers, Handle(f) \/ Kill(f) PROVE LimitInv' /\ InRange'
  BY <1>1, <1>11, Zenon DEF Handle, Kill
<1>12. ASSUME NEW s, SendSignal(s) PROVE LimitInv' /\ InRange'
  BY <1>1, <1>12, Zenon DEF SendSignal
<1>13. CASE UNCHANGED vars
  BY <1>1, <1>13, Zenon DEF vars
<1> QED
  BY <1>3, <1>4, <1>5, <1>6, <1>7, <1>8, <1>9, <1>10, <1>11, <1>12, <1>13, CallLimit, Zenon DEF Next

\* The checks in copy_process that come "too late" (fork.c:1913) let the limits
\* be exceeded by at most one for each other caller, for every number of callers
\* and all limits: LimitsNearlyKept holds always.
THEOREM LimitsExceededLittle == Spec => []LimitsNearlyKept
<1>1. Init => InRange
  BY Zenon DEF Init, InRange
<1>2. LimitInv => LimitsNearlyKept
  <2> SUFFICES ASSUME LimitInv PROVE LimitsNearlyKept
    BY Zenon
  <2>1. PICK f \in Forkers : TRUE
    BY ForkAssumption, Zenon
  <2>2. Past \in SUBSET Forkers /\ Passing \in SUBSET Forkers
    BY Zenon DEF Past, Passing
  <2>3. Cardinality(Past) \in Nat /\ Cardinality(Passing) \in Nat /\ Cardinality(Forkers) \in Nat
    BY <2>1, <2>2, WayFinite, Zenon
  <2> QED
    BY <2>3, ForkAssumption DEF LimitInv, CTypes, LimitsNearlyKept
<1> QED
  BY <1>1, <1>2, InitLimitInv, NextLimitInv, PTL DEF Spec

-----------------------------------------------------------------------------
(* The signals that a fork collects for the child *)

(***************************************************************************)
(* A caller that makes a process is on the list from the check for pending *)
(* signals on, so that what is sent is collected; what came earlier makes  *)
(* the check fail.                                                         *)
(***************************************************************************)
Collecting(f) ==
  "THREAD" \notin flags[f] =>
    /\ pc[f] \in {"signals", "step", "publish"} => f \in multiprocess
    /\ pc[f] = "signals" /\ f \notin sigpending => sent[f] \subseteq delayed[f]
    /\ pc[f] \in {"step", "publish"} => sent[f] \subseteq delayed[f]
    /\ pc[f] = "finish" => sent[f] \subseteq child_pending[f]

SignalTypes ==
  /\ DOMAIN pc = Forkers /\ DOMAIN flags = Forkers /\ DOMAIN sent = Forkers
  /\ DOMAIN delayed = Forkers /\ DOMAIN child_pending = Forkers

SignalInv == SignalTypes /\ \A f \in Forkers : Collecting(f)

\* A step of a caller does not touch what the others collect.
LEMMA OthersCollect ==
  ASSUME SignalInv, NEW f \in Forkers, SignalTypes', Collecting(f)',
         \A g \in Forkers \ {f} : /\ pc'[g] = pc[g] /\ flags'[g] = flags[g] /\ sent'[g] = sent[g]
                                  /\ delayed'[g] = delayed[g] /\ child_pending'[g] = child_pending[g]
                                  /\ g \in multiprocess => g \in multiprocess'
                                  /\ g \in sigpending => g \in sigpending'
  PROVE  SignalInv'
  BY Zenon DEF SignalInv, Collecting

\* The steps inside copy_process.
LEMMA CallerCollects ==
  ASSUME SignalInv, NEW f \in Forkers,
         \/ \E c : Call(f, c)
         \/ List(f) \/ CheckSignals(f) \/ Step(f) \/ Fail(f) \/ PublishFails(f) \/ Publish(f) \/ Finish(f) \/ Undo(f)
  PROVE  SignalInv'
<1> USE DEF SignalInv, SignalTypes, Collecting, Goto, sigs, counts
<1>1. ASSUME NEW c, Call(f, c) PROVE SignalInv'
  BY <1>1, OthersCollect, Zenon DEF Call
<1>2. CASE List(f)
  BY <1>2, OthersCollect, Zenon DEF List
<1>3. CASE CheckSignals(f)
  BY <1>3, OthersCollect, Zenon DEF CheckSignals, SignalPending
<1>4. CASE Step(f)
  BY <1>4, OthersCollect, Zenon DEF Step
<1>5. CASE Fail(f)
  BY <1>5, OthersCollect, Zenon DEF Fail
<1>6. CASE PublishFails(f)
  BY <1>6, OthersCollect, Zenon DEF PublishFails
<1>7. CASE Publish(f)
  BY <1>7, OthersCollect, Zenon DEF Publish
<1>8. CASE Finish(f)
  BY <1>8, OthersCollect, Zenon DEF Finish
<1>9. CASE Undo(f)
  <2>1. /\ pc'[f] \in {"undo", "user"} /\ sigpending' = sigpending
        /\ \A g \in Forkers \ {f} : /\ pc'[g] = pc[g] /\ flags'[g] = flags[g] /\ sent'[g] = sent[g]
                                    /\ delayed'[g] = delayed[g] /\ child_pending'[g] = child_pending[g]
                                    /\ g \in multiprocess => g \in multiprocess'
    <3>1. CASE Ladder(flags[f])[at[f]].label = "fork_out"
      <4>1. /\ pc' = [pc EXCEPT ![f] = "user"] /\ multiprocess' = multiprocess \ {f}
            /\ flags' = [flags EXCEPT ![f] = {}] /\ sent' = [sent EXCEPT ![f] = {}]
            /\ delayed' = [delayed EXCEPT ![f] = {}] /\ UNCHANGED <<sigpending, child_pending>>
        BY <1>9, <3>1, Zenon DEF Undo
      <4> QED
        BY <4>1, Zenon
    <3>2. CASE Ladder(flags[f])[at[f]].label # "fork_out"
      BY <1>9, <3>2, Zenon DEF Undo
    <3> QED
      BY <3>1, <3>2, Zenon
  <2>2. SignalTypes'
    BY <1>9, Zenon DEF Undo
  <2> QED
    BY <2>1, <2>2, OthersCollect, Zenon
<1> QED
  BY <1>1, <1>2, <1>3, <1>4, <1>5, <1>6, <1>7, <1>8, <1>9, Zenon

\* A signal goes to all who are listed, and is handled outside copy_process only.
LEMMA StepSignalInv == SignalInv /\ [Next]_vars => SignalInv'
<1> SUFFICES ASSUME SignalInv, [Next]_vars PROVE SignalInv'
  BY Zenon
<1>1. ASSUME NEW s, SendSignal(s) PROVE SignalInv'
  BY <1>1, Zenon DEF SendSignal, SignalInv, SignalTypes, Collecting
<1>2. ASSUME NEW f \in Forkers, Handle(f) PROVE SignalInv'
  BY <1>2, Zenon DEF Handle, SignalInv, SignalTypes, Collecting
<1>3. ASSUME NEW f \in Forkers, Kill(f) PROVE SignalInv'
  BY <1>3, Zenon DEF Kill, SignalInv, SignalTypes, Collecting
<1>4. CASE UNCHANGED vars
  BY <1>4, Zenon DEF vars, sigs, SignalInv, SignalTypes, Collecting
<1> QED
  BY <1>1, <1>2, <1>3, <1>4, CallerCollects, Zenon DEF Next

\* A new process has every signal pending that was sent to several processes since
\* its parent began the fork, for any number of callers, requests and signals.
THEOREM SignalsNotLost == Spec => []SignalsReachChild
<1>1. Init => SignalInv
  BY Zenon DEF Init, SignalInv, SignalTypes, Collecting
<1>2. SignalInv => SignalsReachChild
  BY Zenon DEF SignalInv, Collecting, SignalsReachChild
<1> QED
  BY <1>1, <1>2, StepSignalInv, PTL DEF Spec

-----------------------------------------------------------------------------
(* What is taken and given back *)

(* The rung of the ladder that gives a resource back. *)
RungOf ==
  [cgroup |-> 1, threadgroup |-> 2, pidfile |-> 3, fd |-> 3, pid |-> 4, thread |-> 5, io |-> 6,
   namespaces |-> 7, mm |-> 8, signal |-> 9, sighand |-> 10, fs |-> 11, files |-> 12, semundo |-> 13,
   security |-> 14, audit |-> 15, perf |-> 16, policy |-> 17, delayacct |-> 18, count |-> 19, creds |-> 19,
   stack |-> 20, task |-> 20]

(* What a request takes in all. *)
Wanted(c) ==
  {r \in DOMAIN RungOf : /\ r \in {"pidfile", "fd"} => "PIDFD" \in c
                         /\ r = "io" => "IO" \in c
                         /\ r = "signal" => "THREAD" \notin c}

(* What the labels from rung p on give back. *)
From(c, p) == {r \in Wanted(c) : RungOf[r] >= p}

(* The rung that gives back what was taken before step i. *)
RungBefore(c, i) ==
  IF i <= 20 THEN <<21, 20, 20, 19, 19, 18, 17, 17, 16, 15, 14, 13, 12, 11, 10, 9, 8, 7, 6, 5>>[i]
  ELSE IF "PIDFD" \in c THEN <<4, 4, 3, 3, 2, 1>>[i - 20] ELSE <<4, 2, 1>>[i - 20]

(* A descriptor without a file is on no rung. *)
Had(c, i) == From(c, RungBefore(c, i)) \cup (IF "PIDFD" \in c /\ i = 22 THEN {"fd"} ELSE {})

Filter(f) == IF seccomp[f] THEN {"filter"} ELSE {}

Holding(f) ==
  /\ pc[f] \in {"user", "list", "signals"} => own[f] = {}
  /\ pc[f] = "step" => at[f] \in 1..Len(Steps(flags[f])) /\ own[f] = Had(flags[f], at[f])
  /\ pc[f] = "publish" => own[f] = From(flags[f], 1)
  /\ pc[f] = "finish" => "count" \notin own[f]
  /\ pc[f] = "undo" => at[f] \in 1..21 /\ own[f] = From(flags[f], at[f]) \cup Filter(f)
  /\ seccomp[f] => pc[f] = "undo" /\ at[f] # 21
  /\ pc[f] \in {"user", "finish"} => f \notin multiprocess

Counting == {f \in Forkers : "count" \in own[f]}

HoldTypes ==
  /\ DOMAIN pc = Forkers /\ DOMAIN flags = Forkers /\ DOMAIN at = Forkers /\ DOMAIN own = Forkers
  /\ seccomp \in [Forkers -> BOOLEAN]
  /\ processes \in Int /\ children \in Int

HoldInv ==
  /\ HoldTypes
  /\ \A f \in Forkers : Holding(f)
  /\ processes = Cardinality(Forkers) + children + Cardinality(Counting)

\* Each rung gives back the resources that are its own.
LEMMA RungGives ==
  ASSUME NEW c, NEW p \in 1..21
  PROVE  Ladder(c)[p].gives = {r \in Wanted(c) : RungOf[r] = p}
  BY DEF Ladder, L, Wanted, RungOf

\* Every resource has a rung, and the last label gives nothing back.
LEMMA RungType == \A r \in DOMAIN RungOf : RungOf[r] \in 1..20
  BY DEF RungOf

\* The ladder has 21 labels, and the last one is fork_out.
LEMMA LadderLength ==
  ASSUME NEW c
  PROVE  DOMAIN Ladder(c) = 1..21 /\ Len(Ladder(c)) = 21
  BY DEF Ladder

\* No two rungs have the same label.
LEMMA LabelsDiffer ==
  ASSUME NEW c, NEW p \in 1..21, NEW q \in 1..21, Ladder(c)[p].label = Ladder(c)[q].label
  PROVE  p = q
  BY DEF Ladder, L

\* The rungs that are jumped to from outside the ladder, and the two that end it.
LEMMA Rungs ==
  ASSUME NEW c
  PROVE  /\ Ladder(c)[1].label = "cancel_cgroup" /\ Ladder(c)[4].label = "free_pid"
         /\ \A p \in 1..21 : /\ Ladder(c)[p].label = "fork_out" <=> p = 21
                             /\ Ladder(c)[p].label = "free" <=> p = 20
                             /\ "count" \in Ladder(c)[p].gives <=> p = 19
  BY DEF Ladder, L

\* What a step of the setup takes is what the rungs between its label and the
\* next step's give back.
LEMMA SetupTakes ==
  ASSUME NEW c, NEW i \in 1..10
  PROVE  Had(c, i) \cup Setup(c)[i].takes = Had(c, i + 1)
  BY DEF Setup, S, Had, From, RungBefore, Wanted, RungOf

\* So it is for the copies,
LEMMA CopyTakes ==
  ASSUME NEW c, NEW i \in 11..19
  PROVE  Had(c, i) \cup Copies(c)[i - 10].takes = Had(c, i + 1)
  BY DEF Copies, S, Had, From, RungBefore, Wanted, RungOf

\* for the identity of the task,
LEMMA IdentityTakes ==
  ASSUME NEW c, NEW i \in 20..(19 + Ids(c))
  PROVE  Had(c, i) \cup Identity(c)[i - 19].takes = Had(c, i + 1)
  BY DEF Identity, Ids, S, Had, From, RungBefore, Wanted, RungOf

\* and so for every step.
LEMMA StepTakes ==
  ASSUME NEW c, NEW i \in 1..Len(Steps(c))
  PROVE  Had(c, i) \cup Steps(c)[i].takes = Had(c, i + 1)
<1>1. CASE i \in 1..10 /\ Steps(c)[i] = Setup(c)[i]
  BY <1>1, SetupTakes, Zenon
<1>2. CASE i \in 11..19 /\ Steps(c)[i] = Copies(c)[i - 10]
  BY <1>2, CopyTakes, Zenon
<1>3. CASE i \in 20..(19 + Ids(c)) /\ Steps(c)[i] = Identity(c)[i - 19]
  BY <1>3, IdentityTakes, Zenon
<1> QED
  BY <1>1, <1>2, <1>3, StepParts, Zenon

\* A step of the setup that fails jumps to the rung of what was taken before it.
LEMMA SetupFails ==
  ASSUME NEW c, NEW i \in 1..10
  PROVE  /\ Setup(c)[i].fails \in {"never", Ladder(c)[RungBefore(c, i)].label}
         /\ Setup(c)[i].fails # "put_unused_fd" /\ RungBefore(c, i) \in 1..21
  BY DEF Setup, S, Ladder, L, RungBefore

\* So it is for the copies,
LEMMA CopiesFail ==
  ASSUME NEW c, NEW i \in 11..19
  PROVE  /\ Copies(c)[i - 10].fails = Ladder(c)[RungBefore(c, i)].label
         /\ Copies(c)[i - 10].fails # "put_unused_fd" /\ RungBefore(c, i) \in 1..21
  BY DEF Copies, S, Ladder, L, RungBefore

\* and for the identity, but for the descriptor that has no file yet.
LEMMA IdentityFails ==
  ASSUME NEW c, NEW i \in 20..(19 + Ids(c))
  PROVE  /\ Identity(c)[i - 19].fails = "put_unused_fd" <=> ("PIDFD" \in c /\ i = 22)
         /\ Identity(c)[i - 19].fails \in {"never", "put_unused_fd", Ladder(c)[RungBefore(c, i)].label}
         /\ RungBefore(c, i) \in 1..21
<1>1. CASE "PIDFD" \in c
  <2>1. i = 20 \/ i = 21 \/ i = 22 \/ i = 23 \/ i = 24 \/ i = 25
    BY <1>1 DEF Ids
  <2> QED
    BY <1>1, <2>1 DEF Identity, S, Ladder, L, RungBefore
<1>2. CASE "PIDFD" \notin c
  <2>1. i = 20 \/ i = 21 \/ i = 22
    BY <1>2 DEF Ids
  <2> QED
    BY <1>2, <2>1 DEF Identity, S, Ladder, L, RungBefore
<1> QED
  BY <1>1, <1>2, Zenon

\* A jump to the label of a rung ends at that rung.
LEMMA LabelAtRung ==
  ASSUME NEW c, NEW p \in 1..21, NEW label, label = Ladder(c)[p].label
  PROVE  LabelAt(c, label) = p
<1>1. \A q \in DOMAIN Ladder(c) : Ladder(c)[q].label = label <=> q = p
  BY LadderLength, LabelsDiffer, Zenon
<1>2. p \in DOMAIN Ladder(c)
  BY LadderLength, Zenon
<1> QED
  BY <1>1, <1>2, Zenon DEF LabelAt

\* A step that fails leaves what the rungs from its label on give back.
LEMMA StepFails ==
  ASSUME NEW c, NEW i \in 1..Len(Steps(c)), NEW label, label = Steps(c)[i].fails, label # "never"
  PROVE  /\ label = "put_unused_fd" => Had(c, i) \ {"fd"} = From(c, 4)
         /\ label # "put_unused_fd" => /\ LabelAt(c, label) \in 1..21
                                       /\ Had(c, i) = From(c, LabelAt(c, label))
<1>1. /\ label = "put_unused_fd" <=> ("PIDFD" \in c /\ i = 22)
      /\ label \in {"put_unused_fd", Ladder(c)[RungBefore(c, i)].label}
      /\ RungBefore(c, i) \in 1..21
  <2>1. CASE i \in 1..10 /\ Steps(c)[i] = Setup(c)[i]
    <3>1. /\ Setup(c)[i].fails \in {"never", Ladder(c)[RungBefore(c, i)].label}
          /\ Setup(c)[i].fails # "put_unused_fd" /\ RungBefore(c, i) \in 1..21
      BY <2>1, SetupFails, Zenon
    <3>2. i # 22
      BY <2>1
    <3> QED
      BY <2>1, <3>1, <3>2, Zenon
  <2>2. CASE i \in 11..19 /\ Steps(c)[i] = Copies(c)[i - 10]
    <3>1. /\ Copies(c)[i - 10].fails = Ladder(c)[RungBefore(c, i)].label
          /\ Copies(c)[i - 10].fails # "put_unused_fd" /\ RungBefore(c, i) \in 1..21
      BY <2>2, CopiesFail, Zenon
    <3>2. i # 22
      BY <2>2
    <3> QED
      BY <2>2, <3>1, <3>2, Zenon
  <2>3. CASE i \in 20..(19 + Ids(c)) /\ Steps(c)[i] = Identity(c)[i - 19]
    BY <2>3, IdentityFails
  <2> QED
    BY <2>1, <2>2, <2>3, StepParts, Zenon
<1>2. CASE label = "put_unused_fd"
  <2>1. RungBefore(c, i) = 4 /\ Had(c, i) = From(c, 4) \cup {"fd"}
    BY <1>1, <1>2 DEF Had, RungBefore
  <2>2. "fd" \notin From(c, 4)
    BY DEF From, RungOf
  <2> QED
    BY <1>2, <2>1, <2>2, Zenon
<1>3. CASE label # "put_unused_fd"
  <2>1. LabelAt(c, label) = RungBefore(c, i)
    BY <1>1, <1>3, LabelAtRung, Zenon
  <2> QED
    BY <1>1, <1>3, <2>1, Zenon DEF Had
<1> QED
  BY <1>2, <1>3, Zenon

\* Before the first step nothing is held, and after the last one everything.
LEMMA FirstAndLast ==
  ASSUME NEW c
  PROVE  Had(c, 1) = {} /\ Had(c, Len(Steps(c)) + 1) = From(c, 1) /\ From(c, 21) = {}
<1>1. Len(Steps(c)) = 19 + Ids(c)
  BY StepsAre, Zenon
<1> QED
  BY <1>1, RungType DEF Had, From, RungBefore, Ids, Wanted

\* The user's count is given back at rung 19 or before.
LEMMA CountGiven == \A c : "count" \in From(c, 19) /\ "count" \in From(c, 1)
  BY DEF From, Wanted, RungOf

\* A label leaves what the next ones give back.
LEMMA RungLeaves ==
  ASSUME NEW c, NEW p \in 1..21
  PROVE  From(c, p) \ Ladder(c)[p].gives = From(c, p + 1)
<1>1. \A r \in Wanted(c) : RungOf[r] \in 1..20
  BY RungType, Zenon DEF Wanted
<1> QED
  BY <1>1, RungGives DEF From

\* What the labels from rung p on give back, taken together.
LEMMA FromIsRemaining ==
  ASSUME NEW f, at[f] \in 1..21
  PROVE  Remaining(f) = From(flags[f], at[f])
<1>1. \A r \in Wanted(flags[f]) : RungOf[r] \in 1..20
  BY RungType, Zenon DEF Wanted
<1>2. Remaining(f) = UNION {Ladder(flags[f])[i].gives : i \in at[f]..21}
  BY LadderLength, Zenon DEF Remaining
<1>3. ASSUME NEW r \in From(flags[f], at[f]) PROVE r \in Remaining(f)
  <2>1. RungOf[r] \in at[f]..21 /\ r \in Ladder(flags[f])[RungOf[r]].gives
    BY <1>1, <1>3, RungGives DEF From
  <2> QED
    BY <1>2, <2>1, Zenon
<1>4. ASSUME NEW r \in Remaining(f) PROVE r \in From(flags[f], at[f])
  <2>1. PICK i \in at[f]..21 : r \in Ladder(flags[f])[i].gives
    BY <1>2, Zenon
  <2> QED
    BY <1>1, <2>1, RungGives DEF From
<1> QED
  BY <1>3, <1>4, Zenon

\* What one caller holds changes the number of those who are counted by one at most.
LEMMA CountingMoves ==
  ASSUME NEW f \in Forkers, \A g \in Forkers \ {f} : own'[g] = own[g]
  PROVE  /\ Cardinality(Counting) \in Nat /\ Cardinality(Counting)' \in Nat
         /\ ("count" \in own'[f] <=> "count" \in own[f]) => Cardinality(Counting)' = Cardinality(Counting)
         /\ "count" \in own'[f] /\ "count" \notin own[f] => Cardinality(Counting)' = Cardinality(Counting) + 1
         /\ "count" \notin own'[f] /\ "count" \in own[f] => Cardinality(Counting)' = Cardinality(Counting) - 1
<1>1. IsFiniteSet(Counting) /\ IsFiniteSet(Counting')
  BY ForkAssumption, FS_Subset, Zenon DEF Counting
<1>2. Cardinality(Counting) \in Nat /\ Cardinality(Counting)' \in Nat
  BY <1>1, FS_CardinalityType, Zenon
<1>3. ASSUME "count" \in own'[f] <=> "count" \in own[f] PROVE Counting' = Counting
  BY <1>3 DEF Counting
<1>4. ASSUME "count" \in own'[f], "count" \notin own[f]
      PROVE  Cardinality(Counting)' = Cardinality(Counting) + 1
  <2>1. Counting' = Counting \cup {f} /\ f \notin Counting
    BY <1>4 DEF Counting
  <2> QED
    BY <1>1, <2>1, FS_AddElement, Zenon
<1>5. ASSUME "count" \notin own'[f], "count" \in own[f]
      PROVE  Cardinality(Counting)' = Cardinality(Counting) - 1
  <2>1. Counting' = Counting \ {f} /\ f \in Counting
    BY <1>5 DEF Counting
  <2> QED
    BY <1>1, <2>1, FS_RemoveElement, Zenon
<1> QED
  BY <1>2, <1>3, <1>4, <1>5, Zenon

(* A step of caller f leaves the others alone. *)
OnlyCaller(f) ==
  /\ \A g \in Forkers \ {f} : /\ pc'[g] = pc[g] /\ flags'[g] = flags[g] /\ at'[g] = at[g]
                              /\ own'[g] = own[g] /\ seccomp'[g] = seccomp[g]
  /\ multiprocess' \subseteq multiprocess \cup {f}

\* It is enough to look at the caller and at what it adds to the counts.
LEMMA OthersHold ==
  ASSUME HoldInv, NEW f \in Forkers, OnlyCaller(f), HoldTypes', Holding(f)',
         \/ /\ "count" \in own'[f] <=> "count" \in own[f]
            /\ processes' = processes /\ children' = children
         \/ /\ "count" \in own'[f] /\ "count" \notin own[f]
            /\ processes' = processes + 1 /\ children' = children
         \/ /\ "count" \notin own'[f] /\ "count" \in own[f]
            /\ processes' - children' = processes - children - 1
  PROVE  HoldInv'
<1>1. ASSUME NEW g \in Forkers \ {f} PROVE Holding(g)'
  BY <1>1 DEF HoldInv, Holding, OnlyCaller, Filter
<1>2. /\ processes \in Int /\ children \in Int /\ processes' \in Int /\ children' \in Int
      /\ Cardinality(Forkers) \in Int
      /\ processes = Cardinality(Forkers) + children + Cardinality(Counting)
  <2>1. Cardinality(Forkers) \in Int
    BY ForkAssumption, FS_CardinalityType
  <2>2. processes \in Int /\ children \in Int /\ processes' \in Int /\ children' \in Int
    BY Zenon DEF HoldInv, HoldTypes
  <2> QED
    BY <2>1, <2>2, Zenon DEF HoldInv
<1>3. \A g \in Forkers \ {f} : own'[g] = own[g]
  BY Zenon DEF OnlyCaller
<1>4. Cardinality(Counting) \in Nat /\ Cardinality(Counting)' \in Nat
  BY <1>3, CountingMoves, Zenon
<1>5. processes' = Cardinality(Forkers) + children' + Cardinality(Counting)'
  BY <1>2, <1>3, <1>4, CountingMoves
<1> QED
  BY <1>1, <1>5, Zenon DEF HoldInv

\* A caller at a label holds what the labels from there on give back.
LEMMA AtLabel ==
  ASSUME NEW f, NEW p \in 1..21, pc'[f] = "undo", at'[f] = p, seccomp'[f] => p # 21,
         own'[f] = From(flags'[f], p) \cup Filter(f)'
  PROVE  Holding(f)'
  BY Zenon DEF Holding

\* The steps before anything is taken.
LEMMA BeginHolds ==
  ASSUME HoldInv, NEW f \in Forkers, (\E c : Call(f, c)) \/ List(f) \/ CheckSignals(f)
  PROVE  HoldInv'
<1> USE DEF sigs, counts, Goto
<1>1. HoldTypes /\ Holding(f)
  BY Zenon DEF HoldInv
<1>2. ASSUME NEW c, Call(f, c) PROVE HoldInv'
  <2>1. OnlyCaller(f) /\ HoldTypes'
    BY <1>1, <1>2, Zenon DEF Call, OnlyCaller, HoldTypes
  <2>2. Holding(f)'
    BY <1>1, <1>2, Zenon DEF Call, HoldTypes, Holding, Filter
  <2> QED
    BY <1>2, <2>1, <2>2, OthersHold, Zenon DEF Call
<1>3. CASE List(f)
  <2>1. OnlyCaller(f) /\ HoldTypes'
    BY <1>1, <1>3, Zenon DEF List, OnlyCaller, HoldTypes
  <2>2. Holding(f)'
    BY <1>1, <1>3, Zenon DEF List, HoldTypes, Holding, Filter
  <2> QED
    BY <1>3, <2>1, <2>2, OthersHold, Zenon DEF List
<1>4. CASE CheckSignals(f)
  <2>1. OnlyCaller(f) /\ HoldTypes' /\ UNCHANGED <<own, seccomp, flags, processes, children>>
    BY <1>1, <1>4, Zenon DEF CheckSignals, OnlyCaller, HoldTypes
  <2>2. own[f] = {} /\ ~seccomp[f]
    BY <1>1, <1>4, Zenon DEF CheckSignals, Holding
  <2>3. CASE SignalPending(f)
    <3>1. LabelAt(flags[f], "fork_out") = 21
      BY Rungs, LabelAtRung
    <3>2. pc'[f] = "undo" /\ at'[f] = 21
      BY <1>1, <1>4, <2>3, <3>1, Zenon DEF CheckSignals, HoldTypes
    <3>3. From(flags[f], 21) = {}
      BY FirstAndLast, Zenon
    <3>4. own'[f] = From(flags'[f], 21) \cup Filter(f)' /\ ~seccomp'[f]
      BY <2>1, <2>2, <3>3, Zenon DEF Filter
    <3>5. 21 \in 1..21
      OBVIOUS
    <3>6. Holding(f)'
      BY <3>2, <3>4, <3>5, AtLabel, Zenon
    <3> QED
      BY <2>1, <3>6, OthersHold, Zenon
  <2>4. CASE ~SignalPending(f)
    <3>1. pc'[f] = "step" /\ at'[f] = 1
      BY <1>1, <1>4, <2>4, Zenon DEF CheckSignals, HoldTypes
    <3>2. Had(flags[f], 1) = {} /\ 1 \in 1..Len(Steps(flags[f]))
      BY FirstAndLast, StepFacts
    <3> QED
      BY <2>1, <2>2, <3>1, <3>2, OthersHold, Zenon DEF Holding, Filter
  <2> QED
    BY <2>3, <2>4, Zenon
<1> QED
  BY <1>2, <1>3, <1>4, Zenon

\* A step that succeeds takes what the next failure gives back in addition.
LEMMA StepHolds ==
  ASSUME HoldInv, NEW f \in Forkers, Step(f)
  PROVE  HoldInv'
<1> USE DEF sigs, Goto
<1>1. HoldTypes /\ Holding(f)
  BY Zenon DEF HoldInv
<1>2. PICK c, i : c = flags[f] /\ i = at[f]
  BY Zenon
<1>3. pc[f] = "step" /\ i \in 1..Len(Steps(c)) /\ own[f] = Had(c, i) /\ ~seccomp[f]
  BY <1>1, <1>2, Zenon DEF Step, Holding
<1>4. /\ own'[f] = own[f] \cup Steps(c)[i].takes
      /\ processes' = IF "count" \in Steps(c)[i].takes THEN processes + 1 ELSE processes
      /\ UNCHANGED <<flags, seccomp, children, multiprocess>>
  BY <1>1, <1>2, Zenon DEF Step, HoldTypes
<1>5. OnlyCaller(f) /\ HoldTypes'
  BY <1>1, <1>4 DEF Step, OnlyCaller, HoldTypes
<1>6. own'[f] = Had(c, i + 1)
  BY <1>3, <1>4, StepTakes, Zenon
<1>7. Holding(f)'
  <2>1. CASE i = Len(Steps(c))
    <3>1. pc'[f] = "publish" /\ Had(c, i + 1) = From(c, 1)
      BY <1>1, <1>2, <2>1, FirstAndLast, Zenon DEF Step, HoldTypes
    <3> QED
      BY <1>2, <1>3, <1>4, <1>6, <3>1, Zenon DEF Holding
  <2>2. CASE i # Len(Steps(c))
    <3>1. pc'[f] = "step" /\ at'[f] = i + 1
      BY <1>1, <1>2, <2>2, Zenon DEF Step, HoldTypes
    <3>2. i + 1 \in 1..Len(Steps(c))
      BY <1>3, <2>2, StepFacts
    <3> QED
      BY <1>2, <1>3, <1>4, <1>6, <3>1, <3>2, Zenon DEF Holding
  <2> QED
    BY <2>1, <2>2, Zenon
<1>8. CASE "count" \in Steps(c)[i].takes
  <2>1. i = 3
    BY <1>3, <1>8, StepFacts, Zenon
  <2>2. "count" \notin Had(c, 3)
    BY DEF Had, From, RungBefore, RungOf
  <2> QED
    BY <1>3, <1>4, <1>5, <1>7, <1>8, <2>1, <2>2, OthersHold, Zenon
<1>9. CASE "count" \notin Steps(c)[i].takes
  BY <1>4, <1>5, <1>7, <1>9, OthersHold, Zenon
<1> QED
  BY <1>8, <1>9, Zenon

\* A step that fails jumps to the label that gives back what was taken.
LEMMA FailHolds ==
  ASSUME HoldInv, NEW f \in Forkers, Fail(f)
  PROVE  HoldInv'
<1> USE DEF sigs, counts, Goto
<1>1. HoldTypes /\ Holding(f)
  BY Zenon DEF HoldInv
<1>2. PICK c, i, label : c = flags[f] /\ i = at[f] /\ label = Steps(c)[i].fails
  BY Zenon
<1>3. pc[f] = "step" /\ i \in 1..Len(Steps(c)) /\ own[f] = Had(c, i) /\ ~seccomp[f] /\ label # "never"
  BY <1>1, <1>2, Zenon DEF Fail, Holding
<1>4. UNCHANGED <<flags, seccomp, children, processes, multiprocess>>
  BY Zenon DEF Fail
<1>5. /\ label = "put_unused_fd" => Had(c, i) \ {"fd"} = From(c, 4)
      /\ label # "put_unused_fd" => /\ LabelAt(c, label) \in 1..21
                                    /\ Had(c, i) = From(c, LabelAt(c, label))
  <2>1. i \in 1..Len(Steps(c)) /\ label = Steps(c)[i].fails /\ label # "never"
    BY <1>2, <1>3, Zenon
  <2> QED
    BY <2>1, StepFails, Zenon
<1>6. CASE label = "put_unused_fd"
  <2>1. LabelAt(c, "free_pid") = 4
    BY Rungs, LabelAtRung
  <2>2. pc'[f] = "undo" /\ at'[f] = 4 /\ own'[f] = own[f] \ {"fd"}
    BY <1>1, <1>2, <1>6, <2>1, Zenon DEF Fail, HoldTypes
  <2>3. own'[f] = From(c, 4)
    BY <1>3, <1>6, <1>5, <2>2, Zenon
  <2>4. OnlyCaller(f) /\ HoldTypes'
    BY <1>1, <1>2, <1>4, <1>6, Zenon DEF Fail, OnlyCaller, HoldTypes
  <2>5. Holding(f)'
    <3>1. own'[f] = From(flags'[f], 4) \cup Filter(f)' /\ ~seccomp'[f]
      BY <1>2, <1>3, <1>4, <2>3, Zenon DEF Filter
    <3>2. 4 \in 1..21
      OBVIOUS
    <3> QED
      BY <2>2, <3>1, <3>2, AtLabel, Zenon
  <2> QED
    BY <1>4, <2>2, <2>4, <2>5, OthersHold, Zenon
<1>7. CASE label # "put_unused_fd"
  <2>1. PICK p : p = LabelAt(c, label)
    BY Zenon
  <2>2. p \in 1..21 /\ own[f] = From(c, p)
    BY <1>3, <1>7, <1>5, <2>1, Zenon
  <2>3. pc'[f] = "undo" /\ at'[f] = p /\ own' = own
    BY <1>1, <1>2, <1>7, <2>1, Zenon DEF Fail, HoldTypes
  <2>4. OnlyCaller(f) /\ HoldTypes'
    BY <1>1, <1>2, <1>4, <1>7, Zenon DEF Fail, OnlyCaller, HoldTypes
  <2>5. Holding(f)'
    <3>1. own'[f] = From(flags'[f], p) \cup Filter(f)' /\ ~seccomp'[f]
      BY <1>2, <1>3, <1>4, <2>2, <2>3, Zenon DEF Filter
    <3> QED
      BY <2>2, <2>3, <3>1, AtLabel, Zenon
  <2> QED
    BY <1>4, <2>3, <2>4, <2>5, OthersHold, Zenon
<1> QED
  BY <1>6, <1>7, Zenon

\* The task is published with all that was taken, or all of it is given back.
LEMMA PublishHolds ==
  ASSUME HoldInv, NEW f \in Forkers, PublishFails(f) \/ Publish(f) \/ Finish(f)
  PROVE  HoldInv'
<1> USE DEF sigs, counts, Goto
<1>1. HoldTypes /\ Holding(f)
  BY Zenon DEF HoldInv
<1>2. CASE PublishFails(f)
  <2>1. LabelAt(flags[f], "cancel_cgroup") = 1
    BY Rungs, LabelAtRung
  <2>2. pc'[f] = "undo" /\ at'[f] = 1 /\ UNCHANGED <<flags, processes, children, multiprocess>>
    BY <1>1, <1>2, <2>1, Zenon DEF PublishFails, HoldTypes
  <2>3. own[f] = From(flags[f], 1)
    BY <1>1, <1>2, Zenon DEF PublishFails, Holding
  <2>4. seccomp' \in [Forkers -> BOOLEAN] /\ own'[f] = own[f] \cup Filter(f)'
    BY <1>1, <1>2, Zenon DEF PublishFails, HoldTypes, Filter
  <2>5. OnlyCaller(f) /\ HoldTypes'
    BY <1>1, <1>2, <2>4, Zenon DEF PublishFails, OnlyCaller, HoldTypes
  <2>6. Holding(f)'
    <3>1. own'[f] = From(flags'[f], 1) \cup Filter(f)'
      BY <2>2, <2>3, <2>4, Zenon
    <3>2. 1 \in 1..21 /\ 1 # 21
      OBVIOUS
    <3> QED
      BY <2>2, <3>1, <3>2, AtLabel, Zenon
  <2>7. "count" \in own'[f] <=> "count" \in own[f]
    BY <2>4, Zenon DEF Filter
  <2> QED
    BY <2>2, <2>5, <2>6, <2>7, OthersHold, Zenon
<1>3. CASE Publish(f)
  <2>1. /\ pc'[f] = "finish" /\ processes' = processes /\ children' = children + 1
        /\ seccomp' = seccomp /\ own'[f] \subseteq {"threadgroup", "pidfile", "fd"} /\ f \notin multiprocess'
    BY <1>1, <1>3, Zenon DEF Publish, HoldTypes
  <2>2. OnlyCaller(f) /\ HoldTypes'
    BY <1>1, <1>3 DEF Publish, OnlyCaller, HoldTypes
  <2>3. own[f] = From(flags[f], 1) /\ ~seccomp[f]
    BY <1>1, <1>3, Zenon DEF Publish, Holding
  <2>4. "count" \in own[f] /\ "count" \notin own'[f]
    BY <2>1, <2>3, CountGiven, Zenon
  <2>5. Holding(f)'
    BY <2>1, <2>3, <2>4, Zenon DEF Holding
  <2>6. processes' - children' = processes - children - 1
    BY <1>1, <2>1 DEF HoldTypes
  <2> QED
    BY <2>2, <2>4, <2>5, <2>6, OthersHold, Zenon
<1>4. CASE Finish(f)
  <2>1. OnlyCaller(f) /\ HoldTypes' /\ UNCHANGED <<processes, children, seccomp, multiprocess>>
    BY <1>1, <1>4, Zenon DEF Finish, OnlyCaller, HoldTypes
  <2>2. pc'[f] = "user" /\ own'[f] = {} /\ pc[f] = "finish"
    BY <1>1, <1>4, Zenon DEF Finish, HoldTypes
  <2>3. Holding(f)' /\ "count" \notin own[f]
    BY <1>1, <2>1, <2>2, Zenon DEF Holding
  <2> QED
    BY <2>1, <2>2, <2>3, OthersHold, Zenon
<1> QED
  BY <1>2, <1>3, <1>4, Zenon

\* A label gives back what is its own, and the label "free" the filter as well.
LEMMA UndoHolds ==
  ASSUME HoldInv, NEW f \in Forkers, Undo(f)
  PROVE  HoldInv'
<1> USE DEF Goto
<1>1. HoldTypes /\ Holding(f)
  BY Zenon DEF HoldInv
<1>2. PICK c, p : c = flags[f] /\ p = at[f]
  BY Zenon
<1>3. /\ pc[f] = "undo" /\ p \in 1..21 /\ own[f] = From(c, p) \cup Filter(f) /\ (seccomp[f] => p # 21)
      /\ seccomp[f] \in BOOLEAN
  BY <1>1, <1>2, Zenon DEF Undo, Holding, HoldTypes
<1> DEFINE l == Ladder(c)[p]
<1>4. (l.label = "free" <=> p = 20) /\ (l.label = "fork_out" <=> p = 21) /\ ("count" \in l.gives <=> p = 19)
  BY <1>3, Rungs
<1>5. /\ own'[f] = own[f] \ (l.gives \cup IF p = 20 /\ seccomp[f] THEN {"filter"} ELSE {})
      /\ processes' = IF p = 19 THEN processes - 1 ELSE processes
      /\ seccomp'[f] = IF p = 20 THEN FALSE ELSE seccomp[f]
      /\ children' = children
  BY <1>1, <1>2, <1>4, Zenon DEF Undo, HoldTypes
<1>6. /\ p # 21 => pc'[f] = "undo" /\ at'[f] = p + 1 /\ UNCHANGED <<flags, multiprocess>>
      /\ p = 21 => pc'[f] = "user" /\ f \notin multiprocess' /\ multiprocess' \subseteq multiprocess
  BY <1>1, <1>2, <1>4, Zenon DEF Undo, HoldTypes
<1>7. HoldTypes'
  <2>1. seccomp' \in [Forkers -> BOOLEAN] /\ DOMAIN own' = Forkers /\ DOMAIN pc' = Forkers /\ DOMAIN at' = Forkers
    BY <1>1, Zenon DEF Undo, HoldTypes
  <2>2. DOMAIN flags' = Forkers
    BY <1>1, Zenon DEF Undo, HoldTypes
  <2>3. processes' \in Int /\ children' \in Int
    <3>1. processes \in Int /\ children \in Int
      BY <1>1, Zenon DEF HoldTypes
    <3>2. processes' = processes \/ processes' = processes - 1
      BY <1>5, Zenon
    <3> QED
      BY <1>5, <3>1, <3>2
  <2> QED
    BY <2>1, <2>2, <2>3, Zenon DEF HoldTypes
<1>8. OnlyCaller(f)
  <2>1. \A g \in Forkers \ {f} : pc'[g] = pc[g] /\ at'[g] = at[g] /\ flags'[g] = flags[g]
    BY <1>1, Zenon DEF Undo, HoldTypes
  <2>2. \A g \in Forkers \ {f} : own'[g] = own[g] /\ seccomp'[g] = seccomp[g]
    BY <1>1, Zenon DEF Undo, HoldTypes
  <2> QED
    BY <1>6, <2>1, <2>2, Zenon DEF OnlyCaller
<1>9. From(c, p) \ l.gives = From(c, p + 1) /\ "filter" \notin l.gives /\ "filter" \notin From(c, p)
  <2>1. "filter" \notin Wanted(c)
    BY Zenon DEF Wanted, RungOf
  <2> QED
    <3>1. From(c, p) \ Ladder(c)[p].gives = From(c, p + 1)
      BY <1>3, RungLeaves, Zenon
    <3>2. Ladder(c)[p].gives = {r \in Wanted(c) : RungOf[r] = p}
      BY <1>3, RungGives, Zenon
    <3>3. From(c, p) \subseteq Wanted(c)
      BY Zenon DEF From
    <3> QED
      BY <2>1, <3>1, <3>2, <3>3, Zenon
<1>10. own'[f] = From(c, p + 1) \cup Filter(f)'
  <2>1. CASE p = 20
    BY <1>3, <1>5, <1>9, <2>1, Zenon DEF Filter
  <2>2. CASE p # 20
    BY <1>3, <1>5, <1>9, <2>2, Zenon DEF Filter
  <2> QED
    BY <2>1, <2>2, Zenon
<1>11. Holding(f)'
  <2>1. CASE p = 21
    <3>1. own'[f] = {}
      <4>1. From(c, 21) = {} /\ ~seccomp[f]
        BY <1>3, <2>1, FirstAndLast, Zenon
      <4> QED
        BY <1>3, <1>5, <2>1, <4>1, Zenon DEF Filter
    <3>2. ~seccomp'[f]
      BY <1>3, <1>5, <2>1, Zenon
    <3> QED
      BY <1>6, <2>1, <3>1, <3>2, Zenon DEF Holding
  <2>2. CASE p # 21
    <3>1. p + 1 \in 1..21 /\ (seccomp'[f] => p + 1 # 21)
      BY <1>3, <1>5, <2>2
    <3> QED
      BY <1>2, <1>6, <1>10, <2>2, <3>1, Zenon DEF Holding
  <2> QED
    BY <2>1, <2>2, Zenon
<1>12. CASE p = 19
  <2>1. "count" \in own[f]
    BY <1>3, <1>12, CountGiven, Zenon
  <2>2. "count" \notin own'[f]
    BY <1>4, <1>5, <1>12, Zenon
  <2>3. processes' - children' = processes - children - 1
    BY <1>1, <1>5, <1>12 DEF HoldTypes
  <2> QED
    BY <1>7, <1>8, <1>11, <2>1, <2>2, <2>3, OthersHold, Zenon
<1>13. CASE p # 19
  <2>1. "count" \in own'[f] <=> "count" \in own[f]
    BY <1>4, <1>5, <1>13, Zenon
  <2> QED
    BY <1>5, <1>7, <1>8, <1>11, <1>13, <2>1, OthersHold, Zenon
<1> QED
  BY <1>12, <1>13, Zenon

\* Every step keeps account of what is held.
LEMMA StepHoldInv == HoldInv /\ [Next]_vars => HoldInv'
<1> SUFFICES ASSUME HoldInv, [Next]_vars PROVE HoldInv'
  BY Zenon
<1>1. ASSUME UNCHANGED <<pc, flags, at, own, seccomp, multiprocess, processes, children>> PROVE HoldInv'
  BY <1>1, Zenon DEF HoldInv, HoldTypes, Holding, Filter, Counting
<1>2. ASSUME NEW f \in Forkers, Handle(f) \/ Kill(f) PROVE HoldInv'
  BY <1>1, <1>2, Zenon DEF Handle, Kill, counts
<1>3. ASSUME NEW s, SendSignal(s) PROVE HoldInv'
  BY <1>1, <1>3, Zenon DEF SendSignal, counts
<1>4. CASE UNCHANGED vars
  BY <1>1, <1>4, Zenon DEF vars, sigs, counts
<1> QED
  BY <1>2, <1>3, <1>4, BeginHolds, StepHolds, FailHolds, PublishHolds, UndoHolds, Zenon DEF Next

\* A fork that fails, at whatever step and however many others are at work, gives
\* back exactly what it took, and the process count of the user is that of the
\* tasks that exist or are being made.
THEOREM LadderAlwaysExact == Spec => []LadderExact
<1>1. Init => HoldInv
  <2> SUFFICES ASSUME Init PROVE HoldInv
    BY Zenon
  <2>1. Counting = {}
    BY Zenon DEF Init, Counting
  <2>2. Cardinality(Counting) = 0 /\ Cardinality(Forkers) \in Nat
    BY <2>1, ForkAssumption, FS_EmptySet, FS_CardinalityType, Zenon
  <2>3. HoldTypes /\ processes = Cardinality(Forkers) + children + Cardinality(Counting)
    BY <2>2 DEF Init, HoldTypes
  <2>4. \A f \in Forkers : Holding(f)
    BY Zenon DEF Init, Holding
  <2> QED
    BY <2>3, <2>4, Zenon DEF HoldInv
<1>2. HoldInv => LadderExact
  <2> SUFFICES ASSUME HoldInv PROVE LadderExact
    BY Zenon
  <2>1. ASSUME NEW f \in Forkers, pc[f] = "undo"
        PROVE  own[f] = Remaining(f) \cup (IF seccomp[f] THEN {"filter"} ELSE {})
    <3>1. at[f] \in 1..21 /\ own[f] = From(flags[f], at[f]) \cup Filter(f)
      BY <2>1, Zenon DEF HoldInv, Holding
    <3>2. Remaining(f) = From(flags[f], at[f])
      BY <3>1, FromIsRemaining, Zenon
    <3> QED
      BY <3>1, <3>2, Zenon DEF Filter
  <2>2. ASSUME NEW f \in Forkers, pc[f] = "user" PROVE own[f] = {} /\ f \notin multiprocess
    BY <2>2, Zenon DEF HoldInv, Holding
  <2>3. processes = Cardinality(Forkers) + children + Cardinality({f \in Forkers : "count" \in own[f]})
    BY Zenon DEF HoldInv, Counting
  <2> QED
    BY <2>1, <2>2, <2>3, Zenon DEF LadderExact
<1> QED
  BY <1>1, <1>2, StepHoldInv, PTL DEF Spec
=============================================================================
