----------------------------- MODULE VforkProofs -----------------------------
(***************************************************************************)
(* Proofs about module Vfork, for every number of vforking parents: the    *)
(* completion in the parent's frame is never used after the frame is gone, *)
(* nor the child's task_struct without a reference, and a parent that is   *)
(* not killed stays out of its memory until the child has done with it.    *)
(***************************************************************************)
EXTENDS Vfork, TLAPS

(* The parent has a reference to the child of its own. *)
Refers == {"wake", "wait", "lock", "clear", "put"}

PTypes ==
  /\ ppc \in [Kids -> {"user", "setup", "returned", "gone"} \cup Refers]
  /\ cpc \in [Kids -> {"none", "new", "run", "tid", "check", "lock", "complete", "leave", "zombie", "gone"}]
  /\ lock \in [Kids -> {"free", "parent", "child"}]
  /\ vfork_done \in [Kids -> BOOLEAN]
  /\ done \in [Kids -> BOOLEAN]
  /\ usage \in [Kids -> Int]

(***************************************************************************)
(* VforkSafe is about single steps.  What makes it hold over time: the     *)
(* references are counted; the child points to the completion only while   *)
(* the parent waits on it and it is not done; each side holds the lock     *)
(* exactly in its critical section.                                        *)
(***************************************************************************)
Phases(c) ==
  /\ cpc[c] = "none" => ppc[c] \in {"user", "gone"}
  /\ ppc[c] = "user" => cpc[c] = "none"
  /\ cpc[c] = "new" <=> ppc[c] \in {"setup", "wake"}

Counted(c) ==
  usage[c] = (IF cpc[c] \in {"none", "gone"} THEN 0 ELSE 1) + (IF ppc[c] \in Refers THEN 1 ELSE 0)

Pointing(c) == vfork_done[c] => ppc[c] \in {"wake", "wait", "lock", "clear"} /\ ~done[c]

Locking(c) ==
  /\ lock[c] = "child" <=> cpc[c] = "complete"
  /\ lock[c] = "parent" <=> ppc[c] = "clear"

VforkInv == PTypes /\ \A c \in Kids : Phases(c) /\ Counted(c) /\ Pointing(c) /\ Locking(c)

\* Before the first vfork nobody refers to anything.
LEMMA InitVforkInv == Init => VforkInv
  BY DEF Init, VforkInv, PTypes, Phases, Counted, Pointing, Locking, Refers

\* What the invariant says of a child is not touched by a step of another one.
LEMMA Others ==
  ASSUME VforkInv, PTypes', NEW c \in Kids,
         \A d \in Kids \ {c} : /\ ppc'[d] = ppc[d] /\ cpc'[d] = cpc[d] /\ lock'[d] = lock[d]
                               /\ vfork_done'[d] = vfork_done[d] /\ done'[d] = done[d] /\ usage'[d] = usage[d],
         Phases(c)', Counted(c)', Pointing(c)', Locking(c)'
  PROVE  VforkInv'
<1>1. ASSUME NEW d \in Kids PROVE (Phases(d) /\ Counted(d) /\ Pointing(d) /\ Locking(d))'
  <2>1. CASE d = c
    BY <2>1, Zenon
  <2>2. CASE d # c
    BY <2>2 DEF VforkInv, Phases, Counted, Pointing, Locking
  <2> QED
    BY <2>1, <2>2, Zenon
<1> QED
  BY <1>1, Zenon DEF VforkInv

\* The steps of the parent, of copy_process and of who kills it.
LEMMA ParentVforkInv ==
  ASSUME VforkInv, NEW c \in Kids,
         \/ \E cleartid \in BOOLEAN : copy_process(c, cleartid)
         \/ ParentStep(c) \/ Kill(c) \/ ParentExits(c)
  PROVE  VforkInv'
<1> USE DEF VforkInv, PTypes, Refers, Parent, Child, parent, child
<1> DEFINE Post == (Phases(c) /\ Counted(c) /\ Pointing(c) /\ Locking(c))'
           Frame == \A d \in Kids \ {c} :
                      /\ ppc'[d] = ppc[d] /\ cpc'[d] = cpc[d] /\ lock'[d] = lock[d]
                      /\ vfork_done'[d] = vfork_done[d] /\ done'[d] = done[d] /\ usage'[d] = usage[d]
<1>1. CASE \E cleartid \in BOOLEAN : copy_process(c, cleartid)
  <2>1. PTypes' /\ Frame
    BY <1>1 DEF copy_process
  <2>2. Post
    BY <1>1 DEF copy_process, Phases, Counted, Pointing, Locking
  <2> QED
    BY <2>1, <2>2, Others, Zenon
<1>2. CASE SetUp(c)
  <2>1. PTypes' /\ Frame
    BY <1>2 DEF SetUp
  <2>2. Post
    BY <1>2 DEF SetUp, Phases, Counted, Pointing, Locking
  <2> QED
    BY <2>1, <2>2, Others, Zenon
<1>3. CASE wake_up_new_task(c)
  <2>1. PTypes' /\ Frame
    BY <1>3, Zenon DEF wake_up_new_task
  <2>2. Post
    BY <1>3, Zenon DEF wake_up_new_task, Phases, Counted, Pointing, Locking
  <2> QED
    BY <2>1, <2>2, Others, Zenon
<1>4. CASE Completed(c) \/ Killed(c) \/ PutChild(c)
  <2>1. PTypes' /\ Frame
    BY <1>4 DEF Completed, Killed, PutChild
  <2>2. Post
    BY <1>4 DEF Completed, Killed, PutChild, Phases, Counted, Pointing, Locking
  <2> QED
    BY <2>1, <2>2, Others, Zenon
<1>5. CASE ParentLock(c) \/ ParentClear(c)
  <2>1. PTypes' /\ Frame
    BY <1>5, Zenon DEF ParentLock, ParentClear
  <2>2. Post
    BY <1>5 DEF ParentLock, ParentClear, Phases, Counted, Pointing, Locking
  <2> QED
    BY <2>1, <2>2, Others, Zenon
<1>6. CASE Kill(c) \/ ParentExits(c)
  <2>1. PTypes' /\ Frame
    BY <1>6, Zenon DEF Kill, ParentExits
  <2>2. Post
    BY <1>6 DEF Kill, ParentExits, Phases, Counted, Pointing, Locking
  <2> QED
    BY <2>1, <2>2, Others, Zenon
<1> QED
  BY <1>1, <1>2, <1>3, <1>4, <1>5, <1>6, Zenon DEF ParentStep, wait_for_vfork_done

\* The steps of the child and of who reaps it.
LEMMA ChildVforkInv ==
  ASSUME VforkInv, NEW c \in Kids, ChildStep(c) \/ Reap(c)
  PROVE  VforkInv'
<1> USE DEF VforkInv, PTypes, Refers, Child, parent
<1> DEFINE Post == (Phases(c) /\ Counted(c) /\ Pointing(c) /\ Locking(c))'
           Frame == \A d \in Kids \ {c} :
                      /\ ppc'[d] = ppc[d] /\ cpc'[d] = cpc[d] /\ lock'[d] = lock[d]
                      /\ vfork_done'[d] = vfork_done[d] /\ done'[d] = done[d] /\ usage'[d] = usage[d]
<1>1. CASE \/ \E exit \in BOOLEAN : mm_release(c, exit)
           \/ \E coredump \in BOOLEAN : (coredump => exits[c]) /\ ClearTid(c, coredump)
  <2>1. PTypes' /\ Frame
    BY <1>1 DEF mm_release, ClearTid
  <2>2. Post
    BY <1>1 DEF mm_release, ClearTid, Phases, Counted, Pointing, Locking
  <2> QED
    BY <2>1, <2>2, Others, Zenon
<1>2. CASE CheckVfork(c)
  <2>1. PTypes' /\ Frame
    BY <1>2, Zenon DEF CheckVfork
  <2>2. Post
    BY <1>2, Zenon DEF CheckVfork, Phases, Counted, Pointing, Locking
  <2> QED
    BY <2>1, <2>2, Others, Zenon
<1>3. CASE ChildLock(c)
  <2>1. PTypes' /\ Frame
    BY <1>3, Zenon DEF ChildLock
  <2>2. Post
    BY <1>3, Zenon DEF ChildLock, Phases, Counted, Pointing, Locking
  <2> QED
    BY <2>1, <2>2, Others, Zenon
<1>4. CASE complete_vfork_done(c)
  <2>1. PTypes' /\ Frame
    BY <1>4, Zenon DEF complete_vfork_done, MustComplete
  <2>2. Post
    BY <1>4, Zenon DEF complete_vfork_done, MustComplete, Phases, Counted, Pointing, Locking
  <2> QED
    BY <2>1, <2>2, Others, Zenon
<1>5. CASE LeaveMm(c) \/ Reap(c)
  <2>1. PTypes' /\ Frame
    BY <1>5 DEF LeaveMm, Reap
  <2>2. Post
    BY <1>5 DEF LeaveMm, Reap, Phases, Counted, Pointing, Locking
  <2> QED
    BY <2>1, <2>2, Others, Zenon
<1> QED
  BY <1>1, <1>2, <1>3, <1>4, <1>5, Zenon DEF ChildStep

\* Every step keeps the invariant.
LEMMA StepVforkInv == VforkInv /\ [Next]_vars => VforkInv'
<1> SUFFICES ASSUME VforkInv, [Next]_vars PROVE VforkInv'
  BY Zenon
<1>1. CASE UNCHANGED vars
  BY <1>1, Zenon DEF vars, parent, child, VforkInv, PTypes, Phases, Counted, Pointing, Locking
<1>2. CASE \E c \in Kids : \/ \E cleartid \in BOOLEAN : copy_process(c, cleartid)
                           \/ ParentStep(c) \/ Kill(c) \/ ParentExits(c)
  BY <1>2, ParentVforkInv, Zenon
<1>3. CASE \E c \in Kids : ChildStep(c) \/ Reap(c)
  BY <1>3, ChildVforkInv, Zenon
<1> QED
  BY <1>1, <1>2, <1>3, Zenon DEF Next, Ended

\* The completion and the child's task_struct are only used while they exist,
\* for every number of parents and children: VforkSafe holds always.
THEOREM VforkAlwaysSafe == Spec => []VforkSafe
<1>1. VforkInv => VforkSafe
  <2> SUFFICES ASSUME VforkInv, NEW c \in Kids
               PROVE  /\ MustComplete(c) => ppc[c] \in {"wait", "lock"} /\ ~done[c]
                      /\ ppc[c] \in {"setup", "wake", "wait", "lock", "clear", "put"} => usage[c] > 0
                      /\ ~(ppc[c] = "clear" /\ cpc[c] = "complete")
    BY Zenon DEF VforkSafe
  <2> USE DEF VforkInv, PTypes
  <2>1. ~(ppc[c] = "clear" /\ cpc[c] = "complete")
    BY Zenon DEF Locking
  <2>2. ASSUME MustComplete(c) PROVE ppc[c] \in {"wait", "lock"} /\ ~done[c]
    <3>1. cpc[c] = "complete" /\ vfork_done[c]
      BY <2>2, Zenon DEF MustComplete
    <3> QED
      BY <2>1, <3>1, Zenon DEF Phases, Pointing
  <2>3. ASSUME ppc[c] \in {"setup", "wake", "wait", "lock", "clear", "put"} PROVE usage[c] > 0
    BY <2>3 DEF Phases, Counted, Refers
  <2> QED
    BY <2>1, <2>2, <2>3, Zenon
<1> QED
  BY <1>1, InitVforkInv, StepVforkInv, PTL DEF Spec

-----------------------------------------------------------------------------

STypes ==
  /\ killed \in [Kids -> BOOLEAN]
  /\ inmm \in [Kids -> BOOLEAN]
  /\ clear_child_tid \in [Kids -> BOOLEAN]
  /\ word \in [Kids -> BOOLEAN]
  /\ dumped \in [Kids -> BOOLEAN]
  /\ mm_users \in [Kids -> Int]

(***************************************************************************)
(* Why a parent stays suspended: it gets past the wait killed or with the  *)
(* completion done; the child clears its word before it looks for the      *)
(* completion, and while its parent lives the count of users tells it to;  *)
(* and once it is done the child is past the point where it used the       *)
(* memory, and does not come back to it.                                   *)
(***************************************************************************)
Users(c) ==
  mm_users[c] = (IF ppc[c] = "gone" THEN 0 ELSE 1) + (IF inmm[c] THEN 1 ELSE 0)

Cleared(c) ==
  /\ cpc[c] = "none" => ~inmm[c]
  /\ clear_child_tid[c] => inmm[c]
  /\ word[c] => clear_child_tid[c] \/ dumped[c] \/ killed[c]

Suspended(c) ==
  /\ ppc[c] \in {"lock", "clear", "gone"} => killed[c]
  /\ ppc[c] \in {"put", "returned"} => killed[c] \/ done[c]
  /\ cpc[c] \in {"check", "lock", "complete", "leave", "zombie", "gone"} => ~clear_child_tid[c]
  /\ done[c] => /\ cpc[c] \in {"leave", "run", "tid", "check", "zombie", "gone"}
                /\ ~clear_child_tid[c]
                /\ cpc[c] \in {"run", "tid"} => ~inmm[c]

SuspendInv == STypes /\ \A c \in Kids : Suspended(c) /\ Users(c) /\ Cleared(c)

\* Before the first vfork no completion is done and no parent is past its wait.
LEMMA InitSuspendInv == Init => SuspendInv
  BY DEF Init, SuspendInv, STypes, Suspended, Users, Cleared

\* A step of one child and its parent leaves what is said of the others alone.
LEMMA OthersSuspended ==
  ASSUME SuspendInv, STypes', NEW c \in Kids,
         \A d \in Kids \ {c} : /\ ppc'[d] = ppc[d] /\ cpc'[d] = cpc[d] /\ done'[d] = done[d]
                               /\ killed'[d] = killed[d] /\ inmm'[d] = inmm[d]
                               /\ clear_child_tid'[d] = clear_child_tid[d] /\ word'[d] = word[d]
                               /\ dumped'[d] = dumped[d] /\ mm_users'[d] = mm_users[d],
         Suspended(c)', Users(c)', Cleared(c)'
  PROVE  SuspendInv'
<1>1. ASSUME NEW d \in Kids \ {c} PROVE (Suspended(d) /\ Users(d) /\ Cleared(d))'
  BY <1>1 DEF SuspendInv, Suspended, Users, Cleared
<1> QED
  BY <1>1, Zenon DEF SuspendInv

\* The steps of the parent: it gets past the wait only as Suspended says.
LEMMA ParentSuspendInv ==
  ASSUME VforkInv, SuspendInv, NEW c \in Kids,
         \/ \E cleartid \in BOOLEAN : copy_process(c, cleartid)
         \/ ParentStep(c) \/ Kill(c) \/ ParentExits(c)
  PROVE  SuspendInv'
<1> USE DEF VforkInv, PTypes, SuspendInv, STypes, Parent, Child, parent, child
<1> DEFINE Frame == \A d \in Kids \ {c} :
                      /\ ppc'[d] = ppc[d] /\ cpc'[d] = cpc[d] /\ done'[d] = done[d]
                      /\ killed'[d] = killed[d] /\ inmm'[d] = inmm[d]
                      /\ clear_child_tid'[d] = clear_child_tid[d] /\ word'[d] = word[d]
                      /\ dumped'[d] = dumped[d] /\ mm_users'[d] = mm_users[d]
<1>1. CASE \E cleartid \in BOOLEAN : copy_process(c, cleartid)
  <2>1. STypes' /\ Frame
    BY <1>1 DEF copy_process
  <2>2. Suspended(c)'
    BY <1>1 DEF copy_process, Suspended
  <2>3. (Users(c) /\ Cleared(c))'
    BY <1>1 DEF copy_process, Users, Cleared
  <2> QED
    BY <2>1, <2>2, <2>3, OthersSuspended, Zenon
<1>2. CASE SetUp(c) \/ wake_up_new_task(c)
  <2>1. STypes' /\ Frame
    BY <1>2 DEF SetUp, wake_up_new_task
  <2>2. Suspended(c)'
    BY <1>2 DEF SetUp, wake_up_new_task, Suspended, Phases
  <2>3. (Users(c) /\ Cleared(c))'
    BY <1>2 DEF SetUp, wake_up_new_task, Users, Cleared
  <2> QED
    BY <2>1, <2>2, <2>3, OthersSuspended, Zenon
<1>3. CASE wait_for_vfork_done(c)
  <2>1. STypes' /\ Frame
    BY <1>3, Zenon DEF wait_for_vfork_done, Completed, Killed, ParentLock, ParentClear, PutChild
  <2>2. Suspended(c)'
    BY <1>3 DEF wait_for_vfork_done, Completed, Killed, ParentLock, ParentClear, PutChild, Suspended
  <2>3. (Users(c) /\ Cleared(c))'
    BY <1>3 DEF wait_for_vfork_done, Completed, Killed, ParentLock, ParentClear, PutChild, Users, Cleared
  <2> QED
    BY <2>1, <2>2, <2>3, OthersSuspended, Zenon
<1>4. CASE Kill(c) \/ ParentExits(c)
  <2>0. mm_users' \in [Kids -> Int]
    BY <1>4 DEF Kill, ParentExits
  <2>1. STypes' /\ Frame
    BY <1>4, <2>0, Zenon DEF Kill, ParentExits
  <2>2. Suspended(c)'
    BY <1>4 DEF Kill, ParentExits, Suspended
  <2>3. (Users(c) /\ Cleared(c))'
    BY <1>4 DEF Kill, ParentExits, Users, Cleared
  <2> QED
    BY <2>1, <2>2, <2>3, OthersSuspended, Zenon
<1> QED
  BY <1>1, <1>2, <1>3, <1>4, Zenon DEF ParentStep

\* The steps of the child: it completes after the word is cleared, and a child
\* that has completed finds no completion again and leaves.
LEMMA ChildSuspendInv ==
  ASSUME VforkInv, SuspendInv, NEW c \in Kids, ChildStep(c) \/ Reap(c)
  PROVE  SuspendInv'
<1> USE DEF VforkInv, PTypes, SuspendInv, STypes, Child, parent
<1> DEFINE Frame == \A d \in Kids \ {c} :
                      /\ ppc'[d] = ppc[d] /\ cpc'[d] = cpc[d] /\ done'[d] = done[d]
                      /\ killed'[d] = killed[d] /\ inmm'[d] = inmm[d]
                      /\ clear_child_tid'[d] = clear_child_tid[d] /\ word'[d] = word[d]
                      /\ dumped'[d] = dumped[d] /\ mm_users'[d] = mm_users[d]
<1>1. CASE \/ \E exit \in BOOLEAN : mm_release(c, exit)
           \/ \E coredump \in BOOLEAN : (coredump => exits[c]) /\ ClearTid(c, coredump)
  <2>1. STypes' /\ Frame
    BY <1>1, Zenon DEF mm_release, ClearTid
  <2>2. Suspended(c)'
    BY <1>1 DEF mm_release, ClearTid, Suspended
  <2>3. (Users(c) /\ Cleared(c))'
    BY <1>1 DEF mm_release, ClearTid, Suspended, Users, Cleared
  <2> QED
    BY <2>1, <2>2, <2>3, OthersSuspended, Zenon
<1>2. CASE CheckVfork(c)
  <2>1. STypes' /\ Frame
    BY <1>2, Zenon DEF CheckVfork
  <2>2. Suspended(c)'
    BY <1>2, Zenon DEF CheckVfork, Suspended, Pointing
  <2>3. (Users(c) /\ Cleared(c))'
    BY <1>2 DEF CheckVfork, Users, Cleared
  <2> QED
    BY <2>1, <2>2, <2>3, OthersSuspended, Zenon
<1>3. CASE ChildLock(c)
  <2>1. STypes' /\ Frame
    BY <1>3, Zenon DEF ChildLock
  <2>2. Suspended(c)'
    BY <1>3, Zenon DEF ChildLock, Suspended
  <2>3. (Users(c) /\ Cleared(c))'
    BY <1>3 DEF ChildLock, Users, Cleared
  <2> QED
    BY <2>1, <2>2, <2>3, OthersSuspended, Zenon
<1>4. CASE complete_vfork_done(c)
  <2>1. STypes' /\ Frame
    BY <1>4, Zenon DEF complete_vfork_done, MustComplete
  <2>2. Suspended(c)'
    BY <1>4, Zenon DEF complete_vfork_done, MustComplete, Suspended
  <2>3. (Users(c) /\ Cleared(c))'
    BY <1>4 DEF complete_vfork_done, MustComplete, Users, Cleared
  <2> QED
    BY <2>1, <2>2, <2>3, OthersSuspended, Zenon
<1>5. CASE LeaveMm(c)
  <2>0. mm_users' = [mm_users EXCEPT ![c] = IF inmm[c] THEN @ - 1 ELSE @]
    BY <1>5, Zenon DEF LeaveMm
  <2>1. mm_users' \in [Kids -> Int]
    BY <2>0
  <2>2. STypes' /\ Frame
    BY <1>5, <2>1, Zenon DEF LeaveMm
  <2>3. Suspended(c)'
    BY <1>5 DEF LeaveMm, Suspended
  <2>4. Users(c)'
    <3>1. ppc' = ppc /\ inmm'[c] = FALSE
      BY <1>5, Zenon DEF LeaveMm
    <3>2. mm_users'[c] = IF inmm[c] THEN mm_users[c] - 1 ELSE mm_users[c]
      BY <2>0
    <3> QED
      BY <3>1, <3>2 DEF Users
  <2>5. Cleared(c)'
    BY <1>5, Zenon DEF LeaveMm, Suspended, Cleared
  <2> QED
    BY <2>2, <2>3, <2>4, <2>5, OthersSuspended, Zenon
<1>6. CASE Reap(c)
  <2>1. STypes' /\ Frame
    BY <1>6, Zenon DEF Reap
  <2>2. Suspended(c)'
    BY <1>6 DEF Reap, Suspended
  <2>3. (Users(c) /\ Cleared(c))'
    BY <1>6, Zenon DEF Reap, Users, Cleared
  <2> QED
    BY <2>1, <2>2, <2>3, OthersSuspended, Zenon
<1> QED
  BY <1>1, <1>2, <1>3, <1>4, <1>5, <1>6, Zenon DEF ChildStep

\* Every step keeps both invariants.
LEMMA StepSuspendInv == VforkInv /\ SuspendInv /\ [Next]_vars => SuspendInv'
<1> SUFFICES ASSUME VforkInv, SuspendInv, [Next]_vars PROVE SuspendInv'
  BY Zenon
<1>1. CASE UNCHANGED vars
  BY <1>1, Zenon DEF vars, parent, child, SuspendInv, STypes, Suspended, Users, Cleared
<1>2. CASE \E c \in Kids : \/ \E cleartid \in BOOLEAN : copy_process(c, cleartid)
                           \/ ParentStep(c) \/ Kill(c) \/ ParentExits(c)
  BY <1>2, ParentSuspendInv, Zenon
<1>3. CASE \E c \in Kids : ChildStep(c) \/ Reap(c)
  BY <1>3, ChildSuspendInv, Zenon
<1> QED
  BY <1>1, <1>2, <1>3, Zenon DEF Next, Ended

\* A parent that nobody killed is back in user mode only when the child is out
\* of its memory or past its last use of it, with its word there cleared:
\* ParentSuspended holds always, for every number of parents.
THEOREM ParentStaysSuspended == Spec => []ParentSuspended
<1>1. SuspendInv => ParentSuspended
  BY Zenon DEF SuspendInv, Suspended, Cleared, ParentSuspended
<1> QED
  BY <1>1, InitVforkInv, StepVforkInv, InitSuspendInv, StepSuspendInv, PTL DEF Spec
=============================================================================
