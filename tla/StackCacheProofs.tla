-------------------------- MODULE StackCacheProofs ---------------------------
(***************************************************************************)
(* Proofs about module StackCache, for every number of tasks, stacks, CPUs *)
(* and slots: no stack is ever given to two tasks, and none is lost; what  *)
(* is charged and accounted is what the tasks that exist use.              *)
(***************************************************************************)
EXTENDS StackCache, FiniteSetTheorems, TLAPS

(* The steps of a task_struct. *)
Steps == {"free", "alloc"} \cup Holding

(* Types, as far as ownership needs them. *)
Types ==
  /\ cached_stacks \in [Slots -> Stacks \cup {None}]
  /\ heap \subseteq Stacks
  /\ stack \in [Tasks -> Stacks \cup {None}]
  /\ pc \in [Tasks -> Steps]
  /\ slot \in [Tasks -> Nat \ {0}]

(***************************************************************************)
(* OneOwner says who owns a stack, not when a task does: a task at a step  *)
(* that releases its stack must have one, and one that takes a stack must  *)
(* not.                                                                    *)
(***************************************************************************)
HasStack == \A t \in Tasks : pc[t] \in Holding <=> stack[t] # None

StackInv == Types /\ HasStack /\ OneOwner

\* At the start all stacks are with the allocator.
LEMMA InitStackInv == Init => StackInv
  BY StackAssumption DEF Init, StackInv, Types, HasStack, OneOwner, Steps, Holding, Slots

\* A step that moves no stack and dirties none keeps the invariant, if the task
\* it is about holds a stack after the step just when it did before.
LEMMA NothingMoves ==
  ASSUME StackInv, NEW t \in Tasks, NEW l \in Steps, NEW n \in Nat \ {0},
         UNCHANGED <<cached_stacks, heap, stack, dirty>>, Goto(t, l, n),
         l \in Holding <=> pc[t] \in Holding,
         l \in {"charge", "dup"} => pc[t] \in {"charge", "dup"}
  PROVE  StackInv'
<1> USE DEF StackInv, Goto
<1>1. Types' /\ HasStack'
  BY Zenon DEF Types, HasStack
<1>2. OneOwner'
  BY DEF Types, OneOwner
<1> QED
  BY <1>1, <1>2, Zenon

\* A task that takes a stack from where no task can see it owns it alone.
LEMMA TaskTakes ==
  ASSUME StackInv, NEW t \in Tasks, NEW s \in Stacks,
         pc[t] = "alloc", Goto(t, "charge", 1),
         stack' = [stack EXCEPT ![t] = s], dirty' = dirty \ {s},
         \/ s \in heap /\ heap' = heap \ {s} /\ UNCHANGED cached_stacks
         \/ \E i \in Slots : /\ cached_stacks[i] = s
                             /\ cached_stacks' = [cached_stacks EXCEPT ![i] = None]
                             /\ UNCHANGED heap
  PROVE  StackInv'
<1> USE DEF StackInv, Goto
<1>0. s # None /\ stack[t] = None
  BY StackAssumption, Zenon DEF HasStack, Holding
<1>1. Types' /\ HasStack'
  BY <1>0 DEF Types, HasStack, Holding, Steps
<1>2. \A u \in Tasks : stack[u] # s
  BY <1>0 DEF OneOwner
<1>3. \A u \in Tasks : stack'[u] = (IF u = t THEN s ELSE stack[u])
  BY Zenon DEF Types
<1>4. \A u \in Tasks \ {t} : pc'[u] = pc[u]
  BY Zenon DEF Types
<1>5. (\A u, v \in Tasks : stack[u] # None /\ stack[u] = stack[v] => u = v)'
  BY <1>2, <1>3 DEF OneOwner
<1>6. (\A u \in Tasks : pc[u] \in {"charge", "dup"} => stack[u] \notin dirty)'
  BY <1>3, <1>4 DEF OneOwner
<1>7. CASE s \in heap /\ heap' = heap \ {s} /\ UNCHANGED cached_stacks
  <2>1. (\A u \in Tasks, i \in Slots : stack[u] # None => stack[u] # cached_stacks[i])'
    BY <1>3, <1>7 DEF OneOwner
  <2>2. (\A u \in Tasks : stack[u] \notin heap)'
    BY <1>2, <1>3, <1>7, Zenon DEF OneOwner
  <2>3. (\A r \in Stacks \ heap : (\E u \in Tasks : stack[u] = r)
                                  \/ (\E i \in Slots : cached_stacks[i] = r))'
    BY <1>0, <1>3, <1>7, StackAssumption DEF OneOwner
  <2> QED
    BY <1>1, <1>5, <1>6, <1>7, <2>1, <2>2, <2>3 DEF OneOwner
<1>8. CASE \E i \in Slots : /\ cached_stacks[i] = s
                            /\ cached_stacks' = [cached_stacks EXCEPT ![i] = None]
                            /\ UNCHANGED heap
  <2> PICK i \in Slots : /\ cached_stacks[i] = s
                         /\ cached_stacks' = [cached_stacks EXCEPT ![i] = None]
                         /\ UNCHANGED heap
    BY <1>8, Zenon
  <2>1. \A j \in Slots : cached_stacks'[j] = (IF j = i THEN None ELSE cached_stacks[j])
    BY Zenon DEF Types
  <2>2. \A j \in Slots : cached_stacks'[j] # s
    BY <1>0, <2>1 DEF OneOwner
  <2>3. (\A u \in Tasks, j \in Slots : stack[u] # None => stack[u] # cached_stacks[j])'
    BY <1>3, <2>1, <2>2 DEF OneOwner
  <2>4. (\A j, k \in Slots : cached_stacks[j] # None /\ cached_stacks[j] = cached_stacks[k] => j = k)'
    BY <2>1 DEF OneOwner
  <2>5. None \notin heap
    BY StackAssumption, Zenon DEF Types
  <2>6. (\A u \in Tasks : stack[u] \notin heap)' /\ (\A j \in Slots : cached_stacks[j] \notin heap)'
    BY <1>3, <2>1, <2>5 DEF OneOwner
  <2>7. (\A r \in Stacks \ heap : (\E u \in Tasks : stack[u] = r)
                                  \/ (\E j \in Slots : cached_stacks[j] = r))'
    <3> SUFFICES ASSUME NEW r \in Stacks \ heap
                 PROVE  (\E u \in Tasks : stack'[u] = r) \/ (\E j \in Slots : cached_stacks'[j] = r)
      BY Zenon
    <3>1. CASE r = s
      BY <1>3, <3>1, Zenon
    <3>2. CASE r # s /\ \E u \in Tasks : stack[u] = r
      BY <1>0, <1>3, <3>2, StackAssumption, Zenon
    <3>3. CASE r # s /\ \E j \in Slots : cached_stacks[j] = r
      BY <2>1, <3>3, Zenon
    <3> QED
      BY <3>1, <3>2, <3>3, Zenon DEF OneOwner
  <2> QED
    BY <1>1, <1>5, <1>6, <2>3, <2>4, <2>6, <2>7, Zenon DEF OneOwner
<1> QED
  BY <1>7, <1>8, Zenon

\* A task that gives its stack to an empty slot or to the allocator, and forgets
\* it in the same step, leaves it with one owner.
LEMMA TaskGives ==
  ASSUME StackInv, NEW t \in Tasks, pc[t] = "put", Leave(t), UNCHANGED dirty,
         \/ heap' = heap \cup {stack[t]} /\ UNCHANGED cached_stacks
         \/ \E i \in Slots : /\ cached_stacks[i] = None
                             /\ cached_stacks' = [cached_stacks EXCEPT ![i] = stack[t]]
                             /\ UNCHANGED heap
  PROVE  StackInv'
<1> USE DEF StackInv, Goto, Leave
<1> DEFINE s == stack[t]
<1>0. s # None /\ s \in Stacks
  BY Zenon DEF HasStack, Holding, Types
<1>1. Types' /\ HasStack'
  BY <1>0 DEF Types, HasStack, Holding, Steps
<1>2. \A u \in Tasks : stack'[u] = (IF u = t THEN None ELSE stack[u])
  BY Zenon DEF Types
<1>3. \A u \in Tasks : pc'[u] = (IF u = t THEN "free" ELSE pc[u])
  BY Zenon DEF Types
<1>4. \A u \in Tasks : stack'[u] # s
  BY <1>0, <1>2 DEF OneOwner
<1>5. (\A u, v \in Tasks : stack[u] # None /\ stack[u] = stack[v] => u = v)'
  BY <1>2 DEF OneOwner
<1>6. (\A u \in Tasks : pc[u] \in {"charge", "dup"} => stack[u] \notin dirty)'
  BY <1>2, <1>3 DEF OneOwner
<1>7. \A i \in Slots : cached_stacks[i] # s
  BY <1>0, Zenon DEF OneOwner
<1>8. None \notin heap /\ s \notin heap
  BY StackAssumption, Zenon DEF Types, OneOwner
<1> HIDE DEF s
<1>9. \A r \in Stacks \ heap : r = s \/ (\E u \in Tasks : stack'[u] = r) \/ (\E i \in Slots : cached_stacks[i] = r)
  BY <1>2, Zenon DEF OneOwner, s
<1>10. CASE heap' = heap \cup {s} /\ UNCHANGED cached_stacks
  <2>1. (\A u \in Tasks : stack[u] \notin heap)'
    BY <1>0, <1>2, <1>4, <1>8, <1>10 DEF OneOwner
  <2>2. (\A i \in Slots : cached_stacks[i] \notin heap)'
    BY <1>7, <1>10, Zenon DEF OneOwner
  <2>3. (\A u \in Tasks, i \in Slots : stack[u] # None => stack[u] # cached_stacks[i])'
    BY <1>2, <1>10 DEF OneOwner
  <2>4. (\A r \in Stacks \ heap : (\E u \in Tasks : stack[u] = r) \/ (\E i \in Slots : cached_stacks[i] = r))'
    BY <1>9, <1>10, Zenon
  <2> QED
    BY <1>1, <1>5, <1>6, <1>10, <2>1, <2>2, <2>3, <2>4 DEF OneOwner
<1>11. CASE \E i \in Slots : /\ cached_stacks[i] = None
                             /\ cached_stacks' = [cached_stacks EXCEPT ![i] = s]
                             /\ UNCHANGED heap
  <2> PICK i \in Slots : /\ cached_stacks[i] = None
                         /\ cached_stacks' = [cached_stacks EXCEPT ![i] = s]
                         /\ UNCHANGED heap
    BY <1>11, Zenon
  <2>1. \A j \in Slots : cached_stacks'[j] = (IF j = i THEN s ELSE cached_stacks[j])
    BY Zenon DEF Types
  <2>2. (\A j, k \in Slots : cached_stacks[j] # None /\ cached_stacks[j] = cached_stacks[k] => j = k)'
    BY <1>7, <2>1 DEF OneOwner
  <2>3. (\A u \in Tasks, j \in Slots : stack[u] # None => stack[u] # cached_stacks[j])'
    BY <1>2, <1>4, <2>1 DEF OneOwner
  <2>4. (\A u \in Tasks : stack[u] \notin heap)' /\ (\A j \in Slots : cached_stacks[j] \notin heap)'
    BY <1>2, <1>8, <2>1 DEF OneOwner
  <2>5. (\A r \in Stacks \ heap : (\E u \in Tasks : stack[u] = r) \/ (\E j \in Slots : cached_stacks[j] = r))'
    <3> SUFFICES ASSUME NEW r \in Stacks \ heap
                 PROVE  (\E u \in Tasks : stack'[u] = r) \/ (\E j \in Slots : cached_stacks'[j] = r)
      BY Zenon
    <3>1. CASE r = s
      BY <2>1, <3>1, Zenon
    <3>2. CASE \E j \in Slots : cached_stacks[j] = r
      BY <2>1, <3>2, StackAssumption, Zenon
    <3> QED
      BY <1>9, <3>1, <3>2, Zenon
  <2> QED
    BY <1>1, <1>5, <1>6, <2>2, <2>3, <2>4, <2>5, Zenon DEF OneOwner
<1> QED
  BY <1>10, <1>11, Zenon DEF s

\* The stacks that a CPU leaves in its cache go back to the allocator.
LEMMA CacheEmptied ==
  ASSUME StackInv, NEW i \in Slots, cached_stacks[i] # None,
         heap' = heap \cup {cached_stacks[i]},
         cached_stacks' = [cached_stacks EXCEPT ![i] = None],
         UNCHANGED <<stack, pc, slot, dirty>>
  PROVE  StackInv'
<1> USE DEF StackInv
<1> DEFINE s == cached_stacks[i]
<1>0. s \in Stacks /\ s # None /\ None \notin heap
  BY StackAssumption, Zenon DEF Types
<1>1. Types' /\ HasStack'
  BY <1>0, Zenon DEF Types, HasStack
<1>2. \A j \in Slots : cached_stacks'[j] = (IF j = i THEN None ELSE cached_stacks[j])
  BY Zenon DEF Types
<1>3. (\A j, k \in Slots : cached_stacks[j] # None /\ cached_stacks[j] = cached_stacks[k] => j = k)'
  BY <1>2 DEF OneOwner
<1>4. (\A u \in Tasks, j \in Slots : stack[u] # None => stack[u] # cached_stacks[j])'
  BY <1>2 DEF OneOwner
<1>5. \A u \in Tasks : stack[u] # s
  BY <1>0, Zenon DEF OneOwner
<1>6. \A j \in Slots : cached_stacks'[j] # s
  BY <1>0, <1>2 DEF OneOwner
<1>7. (\A u \in Tasks : stack[u] \notin heap)' /\ (\A j \in Slots : cached_stacks[j] \notin heap)'
  BY <1>0, <1>2, <1>5, <1>6 DEF OneOwner
<1>8. (\A r \in Stacks \ heap : (\E u \in Tasks : stack[u] = r) \/ (\E j \in Slots : cached_stacks[j] = r))'
  BY <1>2 DEF OneOwner
<1> QED
  BY <1>1, <1>3, <1>4, <1>7, <1>8 DEF OneOwner

\* A task becomes one that runs on its stack, which nobody else has.
LEMMA TaskStarts ==
  ASSUME StackInv, NEW t \in Tasks, pc[t] = "dup", Goto(t, "running", 1),
         UNCHANGED <<cached_stacks, heap, stack>>, dirty' = dirty \cup {stack[t]}
  PROVE  StackInv'
<1> USE DEF StackInv, Goto
<1>1. Types' /\ HasStack'
  BY DEF Types, HasStack, Holding, Steps
<1>2. \A u \in Tasks : pc'[u] = (IF u = t THEN "running" ELSE pc[u])
  BY Zenon DEF Types
<1>3. stack[t] # None
  BY Zenon DEF HasStack, Holding
<1>4. (\A u \in Tasks : pc[u] \in {"charge", "dup"} => stack[u] \notin dirty)'
  BY <1>2, <1>3 DEF OneOwner
<1> QED
  BY <1>1, <1>4 DEF OneOwner

\* Every step keeps the invariant.
LEMMA StepStackInv == StackInv /\ [Next]_vars => StackInv'
<1> SUFFICES ASSUME StackInv, [Next]_vars PROVE StackInv'
  BY Zenon
<1>1. ASSUME UNCHANGED <<cached_stacks, heap, stack, pc, slot, dirty>> PROVE StackInv'
  BY <1>1, Zenon DEF StackInv, Types, HasStack, OneOwner
<1>2. \A t \in Tasks : slot[t] \in Nat \ {0} /\ slot[t] + 1 \in Nat \ {0} /\ stack[t] \in Stacks \cup {None}
  BY DEF StackInv, Types
<1>3. ASSUME NEW t \in Tasks, dup_task_struct(t) PROVE StackInv'
  BY <1>3, NothingMoves DEF dup_task_struct, Steps, Holding
<1>4. ASSUME NEW t \in Tasks, Vmalloc(t) PROVE StackInv'
  <2>1. CASE \E s \in heap : /\ heap' = heap \ {s}
                             /\ stack' = [stack EXCEPT ![t] = s]
                             /\ dirty' = dirty \ {s}
                             /\ Goto(t, "charge", 1)
    BY <1>4, <2>1, TaskTakes, Zenon DEF Vmalloc, StackInv, Types
  <2>2. CASE Goto(t, "free", 1) /\ UNCHANGED <<heap, stack, dirty>>
    BY <1>4, <2>2, NothingMoves DEF Vmalloc, Steps, Holding
  <2> QED
    BY <1>4, <2>1, <2>2, Zenon DEF Vmalloc
<1>5. ASSUME NEW t \in Tasks, memcg_charge_kernel_stack(t) PROVE StackInv'
  BY <1>5, NothingMoves DEF memcg_charge_kernel_stack, Steps, Holding
<1>6. ASSUME NEW t \in Tasks, NEW p \in Tasks, arch_dup_task_struct(t, p) PROVE StackInv'
  <2>1. stack' = stack
    BY <1>6, Zenon DEF arch_dup_task_struct, StackAfterDup, StackInv, Types
  <2>2. CASE Goto(t, "running", 1) /\ dirty' = dirty \cup {stack[t]}
    BY <1>6, <2>1, <2>2, TaskStarts, Zenon DEF arch_dup_task_struct
  <2>3. CASE Goto(t, "put", 1) /\ UNCHANGED dirty
    BY <1>6, <2>1, <2>3, NothingMoves DEF arch_dup_task_struct, Steps, Holding
  <2> QED
    BY <1>6, <2>2, <2>3, Zenon DEF arch_dup_task_struct
<1>7. ASSUME NEW t \in Tasks, Boot(t) PROVE StackInv'
  BY <1>7, TaskStarts, Zenon DEF Boot
<1>8. ASSUME NEW t \in Tasks, Die(t) PROVE StackInv'
  BY <1>8, NothingMoves DEF Die, Steps, Holding
<1>9. ASSUME NEW t \in Tasks, get_task_stack(t) PROVE StackInv'
  BY <1>1, <1>9, Zenon DEF get_task_stack
<1>10. ASSUME NEW t \in Tasks, put_task_stack(t) PROVE StackInv'
  <2>1. CASE Goto(t, "account", 1)
    BY <1>10, <2>1, NothingMoves DEF put_task_stack, Steps, Holding
  <2>2. CASE UNCHANGED <<pc, slot>>
    BY <1>1, <1>10, <2>2, Zenon DEF put_task_stack
  <2> QED
    BY <1>10, <2>1, <2>2, Zenon DEF put_task_stack
<1>11. ASSUME NEW t \in Tasks, account_kernel_stack(t) PROVE StackInv'
  BY <1>11, NothingMoves DEF account_kernel_stack, Steps, Holding
<1>12. ASSUME NEW t \in Tasks, vfree_atomic(t) PROVE StackInv'
  BY <1>12, TaskGives, Zenon DEF vfree_atomic
<1>13. ASSUME NEW t \in Tasks, NEW c \in Cpus, TakeCached(t, c) PROVE StackInv'
  <2> DEFINE i == <<c, slot[t]>>
  <2>1. i \in Slots
    BY <1>2, <1>13, StackAssumption DEF TakeCached, Slots
  <2>2. cached_stacks[i] \in Stacks \cup {None}
    BY <2>1, Zenon DEF StackInv, Types
  <2>3. CASE cached_stacks[i] = None
    BY <1>2, <1>13, <2>3, NothingMoves, Zenon DEF TakeCached, Steps, Holding
  <2>4. CASE cached_stacks[i] # None
    BY <1>13, <2>1, <2>2, <2>4, TaskTakes, Zenon DEF TakeCached
  <2> QED
    BY <2>3, <2>4, Zenon
<1>14. ASSUME NEW t \in Tasks, NEW c \in Cpus, PutCached(t, c) PROVE StackInv'
  <2> DEFINE i == <<c, slot[t]>>
  <2>1. i \in Slots
    BY <1>2, <1>14, StackAssumption DEF PutCached, Slots
  <2>2. CASE cached_stacks[i] # None
    BY <1>2, <1>14, <2>2, NothingMoves, Zenon DEF PutCached, Steps, Holding
  <2>3. CASE cached_stacks[i] = None
    BY <1>14, <2>1, <2>3, TaskGives, Zenon DEF PutCached
  <2> QED
    BY <2>2, <2>3, Zenon
<1>15. ASSUME NEW c \in Cpus, CpuDown(c) \/ CpuUp(c) PROVE StackInv'
  BY <1>1, <1>15, Zenon DEF CpuDown, CpuUp
<1>16. ASSUME NEW c \in Cpus, NEW i \in 1..NR_CACHED_STACKS, free_vm_stack_cache(c, i) PROVE StackInv'
  BY <1>16, CacheEmptied, Zenon DEF free_vm_stack_cache, Slots
<1>17. CASE UNCHANGED vars
  BY <1>1, <1>17, Zenon DEF vars
<1> QED
  BY <1>3, <1>4, <1>5, <1>6, <1>7, <1>8, <1>9, <1>10, <1>11, <1>12, <1>13, <1>14, <1>15, <1>16, <1>17, Zenon DEF Next

\* No stack is lost or has two owners, and no new task finds another's data on
\* its stack: OneOwner holds always, for every number of CPUs, slots, tasks and
\* stacks, although alloc_thread_stack_node and free_thread_stack take no lock.
THEOREM StacksOwned == Spec => []OneOwner
<1>1. StackInv => OneOwner
  BY Zenon DEF StackInv
<1> QED
  BY <1>1, InitStackInv, StepStackInv, PTL DEF Spec

-----------------------------------------------------------------------------

(* A task that has been made and not been released, and the steps it is at. *)
MadeSteps == {"running", "dead", "account"}

Made == {t \in Tasks : pc[t] \in MadeSteps}

ATypes == charged \in [Stacks -> Nat] /\ accounted \in Int

(* Accounted is inductive beside StackInv: a release has a stack to uncharge. *)
AccountInv == ATypes /\ Accounted

\* Nothing is charged or accounted before the first fork.
LEMMA InitAccountInv == Init => AccountInv
<1> SUFFICES ASSUME Init PROVE AccountInv
  BY Zenon
<1>1. {t \in Tasks : pc[t] \in {"running", "dead", "account"}} = {}
  BY Zenon DEF Init
<1>2. ATypes /\ accounted = 0 /\ \A s \in Stacks : ~(charged[s] > 0)
  BY DEF Init, ATypes
<1> QED
  BY <1>1, <1>2, FS_EmptySet, Zenon DEF AccountInv, Accounted

\* How the number of made tasks changes when one task goes to another step.
LEMMA MadeChanges ==
  ASSUME StackInv, NEW t \in Tasks, NEW l \in Steps, NEW n \in Nat, Goto(t, l, n)
  PROVE  /\ Cardinality(Made) \in Nat
         /\ Cardinality(Made') = IF l \in MadeSteps
                                 THEN IF pc[t] \in MadeSteps THEN Cardinality(Made) ELSE Cardinality(Made) + 1
                                 ELSE IF pc[t] \in MadeSteps THEN Cardinality(Made) - 1 ELSE Cardinality(Made)
<1>1. IsFiniteSet(Made) /\ Cardinality(Made) \in Nat
  BY StackAssumption, FS_Subset, FS_CardinalityType, Zenon DEF Made
<1>2. \A u \in Tasks : pc'[u] = IF u = t THEN l ELSE pc[u]
  BY Zenon DEF Goto, StackInv, Types
<1>3. CASE l \in MadeSteps
  <2>1. Made' = Made \cup {t}
    BY <1>2, <1>3, Zenon DEF Made
  <2> QED
    BY <1>1, <1>3, <2>1, FS_AddElement, Zenon DEF Made
<1>4. CASE l \notin MadeSteps
  <2>1. Made' = Made \ {t}
    BY <1>2, <1>4, Zenon DEF Made
  <2> QED
    BY <1>1, <1>4, <2>1, FS_RemoveElement DEF Made
<1> QED
  BY <1>3, <1>4, Zenon

\* A step that makes and releases no task keeps the number.
LEMMA NumberStays ==
  ASSUME StackInv, AccountInv, NEW t \in Tasks, NEW l \in Steps, NEW n \in Nat, Goto(t, l, n),
         l \in MadeSteps <=> pc[t] \in MadeSteps, accounted' = accounted
  PROVE  accounted' \in Int /\ accounted' = Cardinality(Made')
<1>1. accounted \in Int /\ accounted = Cardinality(Made)
  BY Zenon DEF AccountInv, ATypes, Accounted, Made, MadeSteps
<1> QED
  BY <1>1, MadeChanges, Zenon

\* A step that makes a task counts it.
LEMMA NumberGrows ==
  ASSUME StackInv, AccountInv, NEW t \in Tasks, Goto(t, "running", 1),
         pc[t] = "dup", accounted' = accounted + 1
  PROVE  accounted' \in Int /\ accounted' = Cardinality(Made')
<1>1. accounted \in Int /\ accounted = Cardinality(Made)
  BY Zenon DEF AccountInv, ATypes, Accounted, Made, MadeSteps
<1>2. "running" \in Steps /\ "running" \in MadeSteps /\ pc[t] \notin MadeSteps
  BY Zenon DEF Steps, Holding, MadeSteps
<1>3. Cardinality(Made') = Cardinality(Made) + 1
  BY <1>2, MadeChanges, Zenon
<1> QED
  BY <1>1, <1>3

\* A step that charges nothing and takes no task's stack away keeps the charges
\* with the tasks.
LEMMA ChargesStay ==
  ASSUME AccountInv, UNCHANGED charged,
         \A t \in Tasks : stack[t] \in Stacks => stack'[t] = stack[t]
  PROVE  charged' \in [Stacks -> Nat] /\ \A s \in Stacks : charged'[s] > 0 => \E t \in Tasks : stack'[t] = s
  BY Zenon DEF AccountInv, ATypes, Accounted

\* A task that gives up its stack has uncharged it before.
LEMMA ChargesEnd ==
  ASSUME StackInv, AccountInv, NEW t \in Tasks, Uncharge(t), pc[t] = "put",
         \A u \in Tasks \ {t} : stack'[u] = stack[u]
  PROVE  charged' \in [Stacks -> Nat] /\ \A s \in Stacks : charged'[s] > 0 => \E u \in Tasks : stack'[u] = s
<1>1. stack[t] \in Stacks
  BY Zenon DEF StackInv, Types, HasStack, Holding
<1>2. charged' \in [Stacks -> Nat] /\ \A s \in Stacks : charged'[s] = IF s = stack[t] THEN 0 ELSE charged[s]
  BY <1>1, Zenon DEF Uncharge, AccountInv, ATypes
<1>3. ASSUME NEW s \in Stacks, charged'[s] > 0 PROVE \E u \in Tasks : stack'[u] = s
  <2>1. s # stack[t] /\ charged[s] > 0
    BY <1>2, <1>3
  <2>2. PICK u \in Tasks : stack[u] = s
    BY <2>1, Zenon DEF AccountInv, Accounted
  <2> QED
    BY <2>1, <2>2, Zenon
<1> QED
  BY <1>2, <1>3, Zenon

\* Every step keeps the accounts.
LEMMA StepAccountInv == StackInv /\ AccountInv /\ [Next]_vars => AccountInv'
<1> SUFFICES ASSUME StackInv, AccountInv, [Next]_vars PROVE AccountInv'
  BY Zenon
<1> DEFINE Number == accounted' \in Int /\ accounted' = Cardinality(Made')
           Charges == charged' \in [Stacks -> Nat] /\ \A s \in Stacks : charged'[s] > 0 => \E t \in Tasks : stack'[t] = s
<1>1. ASSUME Number, Charges PROVE AccountInv'
  BY <1>1, Zenon DEF AccountInv, ATypes, Accounted, Made, MadeSteps
<1> HIDE DEF Number, Charges
<1>2. ASSUME UNCHANGED <<pc, accounted>> PROVE Number
  BY <1>2, Zenon DEF Number, AccountInv, ATypes, Accounted, Made, MadeSteps
<1>3. ASSUME NEW t \in Tasks, NEW l \in Steps, NEW n \in Nat, Goto(t, l, n),
             l \in MadeSteps <=> pc[t] \in MadeSteps, accounted' = accounted
      PROVE  Number
  BY <1>3, NumberStays, Zenon DEF Number
<1>4. ASSUME UNCHANGED charged, \A t \in Tasks : stack[t] \in Stacks => stack'[t] = stack[t]
      PROVE  Charges
  BY <1>4, ChargesStay, Zenon DEF Charges
<1>5. \A t \in Tasks : slot[t] \in Nat /\ slot[t] + 1 \in Nat
  BY DEF StackInv, Types
<1>6. Steps = {"free", "alloc", "charge", "dup", "running", "dead", "account", "put"}
  BY Zenon DEF Steps, Holding
<1>7. ASSUME NEW t \in Tasks, dup_task_struct(t) PROVE AccountInv'
  <2>1. Number
    BY <1>3, <1>6, <1>7, Zenon DEF dup_task_struct, MadeSteps
  <2> QED
    BY <1>1, <1>4, <1>7, <2>1, Zenon DEF dup_task_struct
<1>8. ASSUME NEW t \in Tasks, Vmalloc(t) \/ \E c \in Cpus : TakeCached(t, c) PROVE AccountInv'
  <2>1. stack[t] = None /\ None \notin Stacks
    BY <1>8, StackAssumption, Zenon DEF Vmalloc, TakeCached, StackInv, HasStack, Types, Holding
  <2>2. \A u \in Tasks \ {t} : stack'[u] = stack[u]
    BY <1>8, Zenon DEF Vmalloc, TakeCached, StackInv, Types
  <2>3. Charges
    BY <1>4, <1>8, <2>1, <2>2, Zenon DEF Vmalloc, TakeCached
  <2>4. \E l \in {"alloc", "charge", "free"}, n \in Nat : Goto(t, l, n)
    BY <1>5, <1>8, Zenon DEF Vmalloc, TakeCached
  <2>5. pc[t] = "alloc" /\ accounted' = accounted
    BY <1>8, Zenon DEF Vmalloc, TakeCached
  <2>6. Number
    BY <1>3, <1>6, <2>4, <2>5, Zenon DEF MadeSteps
  <2> QED
    BY <1>1, <2>3, <2>6, Zenon
<1>9. ASSUME NEW t \in Tasks, memcg_charge_kernel_stack(t) PROVE AccountInv'
  <2>1. stack[t] \in Stacks
    BY <1>9, Zenon DEF memcg_charge_kernel_stack, StackInv, Types, HasStack, Holding
  <2>2. PICK m \in 0..Pages : charged' = [charged EXCEPT ![stack[t]] = m] /\ Goto(t, IF m = Pages THEN "dup" ELSE "put", 1)
    BY <1>9, Zenon DEF memcg_charge_kernel_stack
  <2>3. m \in Nat
    BY StackAssumption
  <2>4. Charges
    BY <1>9, <2>1, <2>2, <2>3, Zenon DEF memcg_charge_kernel_stack, Charges, AccountInv, ATypes, Accounted
  <2>5. Number
    BY <1>3, <1>6, <1>9, <2>2, Zenon DEF memcg_charge_kernel_stack, MadeSteps
  <2> QED
    BY <1>1, <2>4, <2>5, Zenon
<1>10. ASSUME NEW t \in Tasks, Boot(t) \/ \E p \in Tasks : arch_dup_task_struct(t, p) PROVE AccountInv'
  <2>1. Charges
    BY <1>4, <1>10, Zenon DEF Boot, arch_dup_task_struct, StackAfterDup, StackInv, Types
  <2>2. CASE Goto(t, "running", 1) /\ accounted' = accounted + 1
    BY <1>1, <1>10, <2>1, <2>2, NumberGrows, Zenon DEF Boot, arch_dup_task_struct, Number
  <2>3. CASE Goto(t, "put", 1) /\ accounted' = accounted
    <3>1. Number
      BY <1>3, <1>6, <1>10, <2>3, Zenon DEF Boot, arch_dup_task_struct, MadeSteps
    <3> QED
      BY <1>1, <2>1, <3>1, Zenon
  <2> QED
    BY <1>10, <2>2, <2>3, Zenon DEF Boot, arch_dup_task_struct
<1>11. ASSUME NEW t \in Tasks, Die(t) \/ get_task_stack(t) \/ put_task_stack(t) PROVE AccountInv'
  <2>1. Charges
    BY <1>4, <1>11, Zenon DEF Die, get_task_stack, put_task_stack
  <2>2. Number
    BY <1>2, <1>3, <1>6, <1>11, Zenon DEF Die, get_task_stack, put_task_stack, MadeSteps
  <2> QED
    BY <1>1, <2>1, <2>2, Zenon
<1>12. ASSUME NEW t \in Tasks, account_kernel_stack(t) PROVE AccountInv'
  <2>1. Charges
    BY <1>4, <1>12, Zenon DEF account_kernel_stack
  <2>2. accounted \in Int /\ accounted = Cardinality(Made)
    BY Zenon DEF AccountInv, ATypes, Accounted, Made, MadeSteps
  <2>3. "put" \in Steps /\ "put" \notin MadeSteps /\ pc[t] \in MadeSteps
    BY <1>12, Zenon DEF account_kernel_stack, Steps, Holding, MadeSteps
  <2>4. Cardinality(Made') = Cardinality(Made) - 1
    BY <1>12, <2>3, MadeChanges, Zenon DEF account_kernel_stack
  <2> QED
    BY <1>1, <1>12, <2>1, <2>2, <2>4 DEF account_kernel_stack, Number
<1>13. ASSUME NEW t \in Tasks, vfree_atomic(t) \/ \E c \in Cpus : PutCached(t, c) PROVE AccountInv'
  <2>1. Uncharge(t) /\ pc[t] = "put" /\ accounted' = accounted
    BY <1>13, Zenon DEF vfree_atomic, PutCached
  <2>2. \A u \in Tasks \ {t} : stack'[u] = stack[u]
    BY <1>13, Zenon DEF vfree_atomic, PutCached, Leave, StackInv, Types
  <2>3. Charges
    BY <2>1, <2>2, ChargesEnd, Zenon DEF Charges
  <2>4. \E l \in {"put", "free"}, n \in Nat : Goto(t, l, n)
    BY <1>5, <1>13, Zenon DEF vfree_atomic, PutCached, Leave
  <2>5. Number
    BY <1>3, <1>6, <2>1, <2>4, Zenon DEF MadeSteps
  <2> QED
    BY <1>1, <2>3, <2>5, Zenon
<1>14. ASSUME UNCHANGED <<stack, pc, charged, accounted>> PROVE AccountInv'
  BY <1>1, <1>2, <1>4, <1>14, Zenon
<1>15. ASSUME NEW c \in Cpus, CpuDown(c) \/ CpuUp(c) \/ \E i \in 1..NR_CACHED_STACKS : free_vm_stack_cache(c, i)
       PROVE  AccountInv'
  BY <1>14, <1>15, Zenon DEF CpuDown, CpuUp, free_vm_stack_cache
<1>16. CASE UNCHANGED vars
  BY <1>14, <1>16, Zenon DEF vars
<1> QED
  BY <1>7, <1>8, <1>9, <1>10, <1>11, <1>12, <1>13, <1>15, <1>16, Zenon DEF Next

\* A stack in a cache or with the allocator has no page charged, and the number
\* of kernel stacks reported is the number of tasks made and not yet released:
\* Accounted holds always, whichever step of dup_task_struct fails.
THEOREM StacksAccounted == Spec => []Accounted
<1>1. AccountInv => Accounted
  BY Zenon DEF AccountInv
<1> QED
  BY <1>1, InitStackInv, StepStackInv, InitAccountInv, StepAccountInv, PTL DEF Spec
=============================================================================
