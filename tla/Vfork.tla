-------------------------------- MODULE Vfork --------------------------------
(***************************************************************************)
(* vfork in fork.c: the parent gives the child its address space and waits *)
(* on a completion in its own stack frame until the child calls exec or    *)
(* exits, unless it is killed first.  Both sides use the child's           *)
(* task_struct: the child's pointer to the completion is read once without *)
(* and once with the child's lock.  Each child has a parent of its own,    *)
(* named by the child.                                                     *)
(***************************************************************************)
EXTENDS Integers

CONSTANT Kids     \* the children, each with the parent that makes it

VARIABLES ppc,               \* what the parent does
          cpc,               \* what the child does
          exits,             \* the child leaves its memory to exit, not to exec
          lock,              \* who holds alloc_lock of the child
          vfork_done,        \* the child points to the completion
          done,              \* the completion is done
          killed,            \* the parent has a fatal signal pending
          usage,             \* references to the child's task_struct
          mm_users,          \* tasks that use the parent's memory
          inmm,              \* the child uses it
          clear_child_tid,   \* the child has a word to clear there
          word,              \* that word is still to be cleared
          dumped             \* history: the child died with a core dump

parent == <<ppc, done, killed>>
child == <<cpc, exits, inmm, clear_child_tid, word, dumped>>
vars == <<parent, child, lock, vfork_done, usage, mm_users>>

Init ==
  /\ ppc = [c \in Kids |-> "user"]
  /\ cpc = [c \in Kids |-> "none"]
  /\ exits = [c \in Kids |-> FALSE]
  /\ lock = [c \in Kids |-> "free"]
  /\ vfork_done = [c \in Kids |-> FALSE]
  /\ done = [c \in Kids |-> FALSE]
  /\ killed = [c \in Kids |-> FALSE]
  /\ usage = [c \in Kids |-> 0]
  /\ mm_users = [c \in Kids |-> 1]
  /\ inmm = [c \in Kids |-> FALSE]
  /\ clear_child_tid = [c \in Kids |-> FALSE]
  /\ word = [c \in Kids |-> FALSE]
  /\ dumped = [c \in Kids |-> FALSE]

Parent(c, l) == ppc' = [ppc EXCEPT ![c] = l]

Child(c, l) == cpc' = [cpc EXCEPT ![c] = l]

(* copy_process with CLONE_VM and CLONE_VFORK, and possibly CLONE_CHILD_CLEARTID. *)
copy_process(c, cleartid) ==
  /\ ppc[c] = "user" /\ cpc[c] = "none" /\ ~killed[c]
  /\ Child(c, "new")
  /\ vfork_done' = [vfork_done EXCEPT ![c] = FALSE]
  /\ usage' = [usage EXCEPT ![c] = 1]
  /\ mm_users' = [mm_users EXCEPT ![c] = @ + 1]
  /\ inmm' = [inmm EXCEPT ![c] = TRUE]
  /\ clear_child_tid' = [clear_child_tid EXCEPT ![c] = cleartid]
  /\ word' = [word EXCEPT ![c] = cleartid]
  /\ Parent(c, "setup")
  /\ UNCHANGED <<exits, dumped, lock, done, killed>>

\* Faulty variant: no reference to the child is taken.
SetUp_NoRef(c) ==
  /\ ppc[c] = "setup"
  /\ vfork_done' = [vfork_done EXCEPT ![c] = TRUE]
  /\ done' = [done EXCEPT ![c] = FALSE]
  /\ Parent(c, "wake")
  /\ UNCHANGED <<killed, child, lock, usage, mm_users>>

(* p->vfork_done = &vfork; init_completion(&vfork); get_task_struct(p) *)
SetUp(c) ==
  /\ ppc[c] = "setup"
  /\ vfork_done' = [vfork_done EXCEPT ![c] = TRUE]
  /\ done' = [done EXCEPT ![c] = FALSE]
  /\ usage' = [usage EXCEPT ![c] = @ + 1]
  /\ Parent(c, "wake")
  /\ UNCHANGED <<killed, child, lock, mm_users>>

wake_up_new_task(c) ==
  /\ ppc[c] = "wake"
  /\ Child(c, "run")
  /\ Parent(c, "wait")
  /\ UNCHANGED <<done, killed, exits, inmm, clear_child_tid, word, dumped, lock, vfork_done, usage, mm_users>>

(* wait_for_completion_killable *)
Completed(c) ==
  /\ ppc[c] = "wait" /\ done[c]
  /\ Parent(c, "put")
  /\ UNCHANGED <<done, killed, child, lock, vfork_done, usage, mm_users>>

Killed(c) ==
  /\ ppc[c] = "wait" /\ ~done[c] /\ killed[c]
  /\ Parent(c, "lock")
  /\ UNCHANGED <<done, killed, child, lock, vfork_done, usage, mm_users>>

ParentLock(c) ==
  /\ ppc[c] = "lock" /\ lock[c] = "free"
  /\ lock' = [lock EXCEPT ![c] = "parent"]
  /\ Parent(c, "clear")
  /\ UNCHANGED <<done, killed, child, vfork_done, usage, mm_users>>

ParentClear(c) ==
  /\ ppc[c] = "clear"
  /\ vfork_done' = [vfork_done EXCEPT ![c] = FALSE]
  /\ lock' = [lock EXCEPT ![c] = "free"]
  /\ Parent(c, "put")
  /\ UNCHANGED <<done, killed, child, usage, mm_users>>

(* put_task_struct(child), and the return that ends the life of the completion. *)
PutChild(c) ==
  /\ ppc[c] = "put"
  /\ usage' = [usage EXCEPT ![c] = @ - 1]
  /\ Parent(c, "returned")
  /\ UNCHANGED <<done, killed, child, lock, vfork_done, mm_users>>

(* External: SIGKILL; a killed parent leaves its memory once it is out of vfork. *)
Kill(c) ==
  /\ ppc[c] # "gone" /\ ~killed[c]
  /\ killed' = [killed EXCEPT ![c] = TRUE]
  /\ UNCHANGED <<ppc, done, child, lock, vfork_done, usage, mm_users>>

ParentExits(c) ==
  /\ ppc[c] \in {"user", "returned"} /\ killed[c]
  /\ mm_users' = [mm_users EXCEPT ![c] = @ - 1]
  /\ Parent(c, "gone")
  /\ UNCHANGED <<done, killed, child, lock, vfork_done, usage>>

-----------------------------------------------------------------------------

\* Faulty variant: clear_child_tid is skipped.
mm_release_NoTid(c, exit) ==
  /\ cpc[c] = "run"
  /\ exits' = [exits EXCEPT ![c] = exit]
  /\ Child(c, "check")
  /\ UNCHANGED <<parent, inmm, clear_child_tid, word, dumped, lock, vfork_done, usage, mm_users>>

(* exec_mm_release or exit_mm_release begins. *)
mm_release(c, exit) ==
  /\ cpc[c] = "run"
  /\ exits' = [exits EXCEPT ![c] = exit]
  /\ Child(c, "tid")
  /\ UNCHANGED <<parent, inmm, clear_child_tid, word, dumped, lock, vfork_done, usage, mm_users>>

(* The word is cleared, and its waiter woken, if somebody is left who could see it. *)
ClearTid(c, coredump) ==
  /\ cpc[c] = "tid"
  /\ word' = [word EXCEPT ![c] = @ /\ ~(clear_child_tid[c] /\ ~coredump /\ mm_users[c] > 1)]
  /\ clear_child_tid' = [clear_child_tid EXCEPT ![c] = FALSE]
  /\ dumped' = [dumped EXCEPT ![c] = @ \/ coredump]
  /\ Child(c, "check")
  /\ UNCHANGED <<parent, exits, inmm, lock, vfork_done, usage, mm_users>>

(* if (tsk->vfork_done) *)
CheckVfork(c) ==
  /\ cpc[c] = "check"
  /\ Child(c, IF vfork_done[c] THEN "lock" ELSE "leave")
  /\ UNCHANGED <<parent, exits, inmm, clear_child_tid, word, dumped, lock, vfork_done, usage, mm_users>>

ChildLock(c) ==
  /\ cpc[c] = "lock" /\ lock[c] = "free"
  /\ lock' = [lock EXCEPT ![c] = "child"]
  /\ Child(c, "complete")
  /\ UNCHANGED <<parent, exits, inmm, clear_child_tid, word, dumped, vfork_done, usage, mm_users>>

(* vfork = tsk->vfork_done, now under the lock: whether complete() will be called. *)
MustComplete(c) == cpc[c] = "complete" /\ vfork_done[c]

\* Faulty variant: complete is not called.
complete_vfork_done_Silent(c) ==
  /\ cpc[c] = "complete"
  /\ vfork_done' = [vfork_done EXCEPT ![c] = FALSE]
  /\ lock' = [lock EXCEPT ![c] = "free"]
  /\ Child(c, "leave")
  /\ UNCHANGED <<parent, exits, inmm, clear_child_tid, word, dumped, usage, mm_users>>

complete_vfork_done(c) ==
  /\ cpc[c] = "complete"
  /\ done' = [done EXCEPT ![c] = @ \/ MustComplete(c)]
  /\ vfork_done' = [vfork_done EXCEPT ![c] = FALSE]
  /\ lock' = [lock EXCEPT ![c] = "free"]
  /\ Child(c, "leave")
  /\ UNCHANGED <<ppc, killed, exits, inmm, clear_child_tid, word, dumped, usage, mm_users>>

(* The child drops the memory; after exec it runs in its own. *)
LeaveMm(c) ==
  /\ cpc[c] = "leave"
  /\ inmm' = [inmm EXCEPT ![c] = FALSE]
  /\ mm_users' = [mm_users EXCEPT ![c] = IF inmm[c] THEN @ - 1 ELSE @]
  /\ Child(c, IF exits[c] THEN "zombie" ELSE "run")
  /\ UNCHANGED <<parent, exits, clear_child_tid, word, dumped, lock, vfork_done, usage>>

(* External: the child is reaped and its own reference dropped. *)
Reap(c) ==
  /\ cpc[c] = "zombie"
  /\ usage' = [usage EXCEPT ![c] = @ - 1]
  /\ Child(c, "gone")
  /\ UNCHANGED <<parent, exits, inmm, clear_child_tid, word, dumped, lock, vfork_done, mm_users>>

wait_for_vfork_done(c) == Completed(c) \/ Killed(c) \/ ParentLock(c) \/ ParentClear(c) \/ PutChild(c)

ChildStep(c) == \/ \E exit \in BOOLEAN : mm_release(c, exit)
                \/ \E coredump \in BOOLEAN : (coredump => exits[c]) /\ ClearTid(c, coredump)
                \/ CheckVfork(c) \/ ChildLock(c) \/ complete_vfork_done(c) \/ LeaveMm(c)

ParentStep(c) == SetUp(c) \/ wake_up_new_task(c) \/ wait_for_vfork_done(c)

(* Everything has ended. *)
Ended == (\A c \in Kids : ppc[c] = "gone" /\ cpc[c] \in {"none", "gone"}) /\ UNCHANGED vars

Next ==
  \/ \E c \in Kids : \/ \E cleartid \in BOOLEAN : copy_process(c, cleartid)
                     \/ ParentStep(c) \/ Kill(c) \/ ParentExits(c)
                     \/ ChildStep(c) \/ Reap(c)
  \/ Ended

(* Both tasks are scheduled, and the child does not keep the memory for ever. *)
Fairness == \A c \in Kids : WF_vars(ParentStep(c)) /\ WF_vars(ChildStep(c))

Spec == Init /\ [][Next]_vars

FairSpec == Spec /\ Fairness

-----------------------------------------------------------------------------

\* complete() is called only on a completion whose frame still exists, and not
\* twice; the parent touches the child's task_struct (its lock, its pointer, its
\* reference) only while it holds a reference; and lock holders exclude each
\* other.
VforkSafe ==
  \A c \in Kids :
    /\ MustComplete(c) => ppc[c] \in {"wait", "lock"} /\ ~done[c]
    /\ ppc[c] \in {"setup", "wake", "wait", "lock", "clear", "put"} => usage[c] > 0
    /\ ~(ppc[c] = "clear" /\ cpc[c] = "complete")

\* A parent that was not killed is back in user mode only when the child has
\* done with its memory: the child writes no more to the frames they share, and
\* a word it was to clear there is cleared, unless it dumped core.
ParentSuspended ==
  \A c \in Kids :
    ppc[c] \in {"put", "returned", "gone"} /\ ~killed[c] =>
      /\ cpc[c] \in {"leave", "run", "tid", "check", "zombie", "gone"}
      /\ ~clear_child_tid[c]
      /\ word[c] => dumped[c]
      /\ cpc[c] \in {"run", "tid"} => ~inmm[c]

\* A parent in vfork goes on in the end: the child completes, or the kill does.
ParentResumes ==
  \A c \in Kids : (ppc[c] = "wait") ~> (ppc[c] \in {"returned", "gone"})
=============================================================================
