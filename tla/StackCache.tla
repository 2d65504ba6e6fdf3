------------------------------ MODULE StackCache -----------------------------
(***************************************************************************)
(* Kernel stacks in fork.c (CONFIG_VMAP_STACK): every CPU keeps a few      *)
(* stacks of dead tasks for the next fork.  The cache has no lock: a slot  *)
(* is taken with this_cpu_xchg and filled with this_cpu_cmpxchg, and a     *)
(* task may move to another CPU, and interrupts may free stacks, between   *)
(* two slots.  dup_task_struct takes a stack, charges its pages and copies *)
(* the parent over the new task; put_task_stack gives the stack back when  *)
(* its last user is done.                                                  *)
(***************************************************************************)
EXTENDS Integers, FiniteSets

CONSTANTS Tasks,              \* task_structs
          Stacks,             \* pieces of memory for stacks
          Cpus,
          NR_CACHED_STACKS,   \* slots of each CPU
          Pages,              \* pages of a stack
          None                \* NULL

ASSUME StackAssumption == /\ NR_CACHED_STACKS \in Nat
                          /\ Pages \in Nat
                          /\ None \notin Stacks
                          /\ IsFiniteSet(Tasks)

Slots == Cpus \X (1..NR_CACHED_STACKS)

VARIABLES cached_stacks,   \* what each slot holds
          online,          \* the CPUs that run
          heap,            \* stacks that are not allocated
          stack,           \* tsk->stack, tsk->stack_vm_area
          pc,              \* what happens to each task_struct
          slot,            \* the next slot to look at
          charged,         \* pages of each stack that are charged
          accounted,       \* stacks counted in NR_KERNEL_STACK_KB
          refcount,        \* tsk->stack_refcount
          dirty            \* stacks with data of a task on them

vars == <<cached_stacks, online, heap, stack, pc, slot, charged, accounted, refcount, dirty>>

Init ==
  /\ cached_stacks = [s \in Slots |-> None]
  /\ online = Cpus
  /\ heap = Stacks
  /\ stack = [t \in Tasks |-> None]
  /\ pc = [t \in Tasks |-> "free"]
  /\ slot = [t \in Tasks |-> 1]
  /\ charged = [s \in Stacks |-> 0]
  /\ accounted = 0
  /\ refcount = [t \in Tasks |-> 0]
  /\ dirty = {}

Goto(t, l, i) == pc' = [pc EXCEPT ![t] = l] /\ slot' = [slot EXCEPT ![t] = i]

(* alloc_task_struct_node in dup_task_struct *)
dup_task_struct(t) ==
  /\ pc[t] = "free"
  /\ Goto(t, "alloc", 1)
  /\ UNCHANGED <<cached_stacks, online, heap, stack, charged, accounted, refcount, dirty>>

(* One round of the loop in alloc_thread_stack_node, on the CPU it is on now. *)
TakeCached(t, c) ==
  /\ pc[t] = "alloc" /\ slot[t] <= NR_CACHED_STACKS /\ c \in online
  /\ LET s == cached_stacks[<<c, slot[t]>>] IN
     IF s = None
     THEN Goto(t, "alloc", slot[t] + 1) /\ UNCHANGED <<cached_stacks, stack, dirty>>
     ELSE /\ cached_stacks' = [cached_stacks EXCEPT ![<<c, slot[t]>>] = None]
          /\ stack' = [stack EXCEPT ![t] = s]
          /\ dirty' = dirty \ {s}
          /\ Goto(t, "charge", 1)
  /\ UNCHANGED <<online, heap, charged, accounted, refcount>>

(* __vmalloc_node_range, which returns zeroed memory, or fails. *)
Vmalloc(t) ==
  /\ pc[t] = "alloc" /\ slot[t] > NR_CACHED_STACKS
  /\ \/ \E s \in heap : /\ heap' = heap \ {s}
                        /\ stack' = [stack EXCEPT ![t] = s]
                        /\ dirty' = dirty \ {s}
                        /\ Goto(t, "charge", 1)
     \/ Goto(t, "free", 1) /\ UNCHANGED <<heap, stack, dirty>>
  /\ UNCHANGED <<cached_stacks, online, charged, accounted, refcount>>

(* memcg_charge_kernel_stack: it stops at the first page it cannot charge. *)
memcg_charge_kernel_stack(t) ==
  /\ pc[t] = "charge"
  /\ \E n \in 0..Pages : /\ charged' = [charged EXCEPT ![stack[t]] = n]
                         /\ Goto(t, IF n = Pages THEN "dup" ELSE "put", 1)
  /\ UNCHANGED <<cached_stacks, online, heap, stack, accounted, refcount, dirty>>

\* Faulty variant: the copied pointer is not set again.
StackAfterDup_Parent(t, p) == stack[p]

(***************************************************************************)
(* arch_dup_task_struct copies the parent over the task, its stack fields  *)
(* included; the fields are set again before anything else, also when the  *)
(* copy failed.  The accounting ends a successful dup_task_struct.         *)
(***************************************************************************)
StackAfterDup(t, p) == stack[t]

arch_dup_task_struct(t, p) ==
  /\ pc[t] = "dup" /\ pc[p] = "running"
  /\ stack' = [stack EXCEPT ![t] = StackAfterDup(t, p)]
  /\ \/ /\ Goto(t, "running", 1)
        /\ refcount' = [refcount EXCEPT ![t] = 1]
        /\ accounted' = accounted + 1
        /\ dirty' = dirty \cup {stack[t]}
     \/ Goto(t, "put", 1) /\ UNCHANGED <<refcount, accounted, dirty>>
  /\ UNCHANGED <<cached_stacks, online, heap, charged>>

(* The first task has no parent here. *)
Boot(t) ==
  /\ pc[t] = "dup" /\ \A u \in Tasks : pc[u] \notin {"running", "dead", "account"}
  /\ Goto(t, "running", 1)
  /\ refcount' = [refcount EXCEPT ![t] = 1]
  /\ accounted' = accounted + 1
  /\ dirty' = dirty \cup {stack[t]}
  /\ UNCHANGED <<cached_stacks, online, heap, stack, charged>>

(* External: the task has run for the last time (TASK_DEAD). *)
Die(t) ==
  /\ pc[t] = "running"
  /\ \E u \in Tasks \ {t} : pc[u] = "running"
  /\ Goto(t, "dead", 1)
  /\ UNCHANGED <<cached_stacks, online, heap, stack, charged, accounted, refcount, dirty>>

(* External: try_get_task_stack of somebody who looks at the stack. *)
get_task_stack(t) ==
  /\ pc[t] \in {"running", "dead"} /\ refcount[t] = 1
  /\ refcount' = [refcount EXCEPT ![t] = @ + 1]
  /\ UNCHANGED <<cached_stacks, online, heap, stack, pc, slot, charged, accounted, dirty>>

(* The last put releases; a dead task is put by the scheduler and by who looked. *)
put_task_stack(t) ==
  /\ \/ pc[t] = "running" /\ refcount[t] > 1
     \/ pc[t] = "dead" /\ refcount[t] > 0
  /\ refcount' = [refcount EXCEPT ![t] = @ - 1]
  /\ IF refcount[t] = 1 THEN Goto(t, "account", 1) ELSE UNCHANGED <<pc, slot>>
  /\ UNCHANGED <<cached_stacks, online, heap, stack, charged, accounted, dirty>>

(* release_task_stack *)
account_kernel_stack(t) ==
  /\ pc[t] = "account"
  /\ accounted' = accounted - 1
  /\ Goto(t, "put", 1)
  /\ UNCHANGED <<cached_stacks, online, heap, stack, charged, refcount, dirty>>

\* Faulty variant: the pages stay charged.
Uncharge_Keep(t) == UNCHANGED charged

(* free_thread_stack: the pages are uncharged, then the first empty slot is looked for. *)
Uncharge(t) == charged' = [charged EXCEPT ![stack[t]] = 0]

(* The pointer in the task is not used again: it is cleared in the same step. *)
Leave(t) == stack' = [stack EXCEPT ![t] = None] /\ Goto(t, "free", 1)

PutCached(t, c) ==
  /\ pc[t] = "put" /\ slot[t] <= NR_CACHED_STACKS /\ c \in online
  /\ Uncharge(t)
  /\ IF cached_stacks[<<c, slot[t]>>] # None
     THEN Goto(t, "put", slot[t] + 1) /\ UNCHANGED <<cached_stacks, stack>>
     ELSE /\ cached_stacks' = [cached_stacks EXCEPT ![<<c, slot[t]>>] = stack[t]]
          /\ Leave(t)
  /\ UNCHANGED <<online, heap, accounted, refcount, dirty>>

vfree_atomic(t) ==
  /\ pc[t] = "put" /\ slot[t] > NR_CACHED_STACKS
  /\ Uncharge(t)
  /\ heap' = heap \cup {stack[t]}
  /\ Leave(t)
  /\ UNCHANGED <<cached_stacks, online, accounted, refcount, dirty>>

(* CPU hotplug: the callback of fork_init runs when the CPU has gone. *)
CpuDown(c) ==
  /\ c \in online /\ online # {c}
  /\ online' = online \ {c}
  /\ UNCHANGED <<cached_stacks, heap, stack, pc, slot, charged, accounted, refcount, dirty>>

free_vm_stack_cache(c, i) ==
  /\ c \notin online
  /\ cached_stacks[<<c, i>>] # None
  /\ heap' = heap \cup {cached_stacks[<<c, i>>]}
  /\ cached_stacks' = [cached_stacks EXCEPT ![<<c, i>>] = None]
  /\ UNCHANGED <<online, stack, pc, slot, charged, accounted, refcount, dirty>>

CpuUp(c) ==
  /\ c \notin online
  /\ \A i \in 1..NR_CACHED_STACKS : cached_stacks[<<c, i>>] = None
  /\ online' = online \cup {c}
  /\ UNCHANGED <<cached_stacks, heap, stack, pc, slot, charged, accounted, refcount, dirty>>

Next ==
  \/ \E t \in Tasks : \/ dup_task_struct(t) \/ Vmalloc(t) \/ memcg_charge_kernel_stack(t)
                      \/ \E p \in Tasks : arch_dup_task_struct(t, p)
                      \/ Boot(t) \/ Die(t)
                      \/ get_task_stack(t) \/ put_task_stack(t)
                      \/ account_kernel_stack(t) \/ vfree_atomic(t)
                      \/ \E c \in Cpus : TakeCached(t, c) \/ PutCached(t, c)
  \/ \E c \in Cpus : CpuDown(c) \/ CpuUp(c) \/ \E i \in 1..NR_CACHED_STACKS : free_vm_stack_cache(c, i)

Spec == Init /\ [][Next]_vars

-----------------------------------------------------------------------------

Holding == {"charge", "dup", "running", "dead", "account", "put"}

\* Every stack is at one place: with one task, in one slot of one CPU's cache or
\* with the allocator.  None is lost and none is given out twice, however tasks
\* move between CPUs inside the two loops and CPUs come and go; and a new task
\* finds nothing on its stack that another one left there.
OneOwner ==
  /\ \A t, u \in Tasks : stack[t] # None /\ stack[t] = stack[u] => t = u
  /\ \A i, j \in Slots : cached_stacks[i] # None /\ cached_stacks[i] = cached_stacks[j] => i = j
  /\ \A t \in Tasks, i \in Slots : stack[t] # None => stack[t] # cached_stacks[i]
  /\ \A t \in Tasks : stack[t] \notin heap
  /\ \A i \in Slots : cached_stacks[i] \notin heap
  /\ \A s \in Stacks \ heap : (\E t \in Tasks : stack[t] = s) \/ (\E i \in Slots : cached_stacks[i] = s)
  /\ \A t \in Tasks : pc[t] \in {"charge", "dup"} => stack[t] \notin dirty

\* What is charged and accounted belongs to tasks that exist: a stack in the
\* cache or with the allocator has no charged page, and NR_KERNEL_STACK counts
\* the tasks that have been made and not been released.
Accounted ==
  /\ \A s \in Stacks : charged[s] > 0 => \E t \in Tasks : stack[t] = s
  /\ accounted = Cardinality({t \in Tasks : pc[t] \in {"running", "dead", "account"}})
=============================================================================
