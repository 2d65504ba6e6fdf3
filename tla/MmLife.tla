-------------------------------- MODULE MmLife -------------------------------
(***************************************************************************)
(* The life of one mm_struct in fork.c.  mm_users counts who uses the      *)
(* memory (tasks, and observers that called get_task_mm); all of them      *)
(* together hold one of the references in mm_count, which keep the         *)
(* structure.  Lazy kernel threads and the oom_mm of a signal_struct hold  *)
(* the others.  The last user tears the memory down, at once or in a work  *)
(* item; the last reference frees the structure, at once or in a work item *)
(* that uses the same field.  Observers also take the executable file.     *)
(***************************************************************************)
EXTENDS Integers, FiniteSets

CONSTANTS Tasks,       \* tasks that may run in this memory; the first is First
          First,
          Observers,   \* /proc, ptrace and the like
          Kthreads,    \* kernel threads that borrow the mm
          Files        \* executables; the first is FirstFile
CONSTANT  FirstFile

None == "none"

(* What the model assumes of its constants. *)
MmAssumption == First \in Tasks /\ FirstFile \in Files /\ None \notin Files

VARIABLES mm_users, mm_count,
          task,       \* "new", "in" (task->mm is set), "leaving" (cleared), "out"
          lock,       \* who holds each task's alloc_lock
          observer,   \* what each observer has or does
          seen,       \* the file pointer it has read
          lazy,       \* kernel threads with this active_mm
          oom_mm,     \* signal->oom_mm: "none", "set", "gone"
          tear,       \* how far __mmput is: "no", "unmap", "exe", "drop", "done"
          mapped,     \* the memory exists
          exe_file,   \* mm->exe_file
          f_count,    \* references to each file
          closed,     \* files whose last reference is gone
          work,       \* async_put_work: "none", "mmput", "mmdrop"
          freed       \* the mm_struct is freed

files == <<exe_file, f_count, closed>>
vars == <<mm_users, mm_count, task, lock, observer, seen, lazy, oom_mm, tear, mapped, files, work,
          freed>>

Init ==
  /\ mm_users = 1 /\ mm_count = 1
  /\ task = [t \in Tasks |-> IF t = First THEN "in" ELSE "new"]
  /\ lock = [t \in Tasks |-> None]
  /\ observer = [o \in Observers |-> "idle"]
  /\ seen = [o \in Observers |-> None]
  /\ lazy = {}
  /\ oom_mm = "none"
  /\ tear = "no" /\ mapped = TRUE
  /\ exe_file = FirstFile
  /\ f_count = [f \in Files |-> IF f = FirstFile THEN 1 ELSE 0]
  /\ closed = {}
  /\ work = "none" /\ freed = FALSE

(* mmput, or mmput_async: the last user tears down itself or leaves it to a worker. *)
Put(async) ==
  /\ mm_users' = mm_users - 1
  /\ tear' = IF mm_users = 1 /\ ~async THEN "unmap" ELSE tear
  /\ work' = IF mm_users = 1 /\ async THEN "mmput" ELSE work

mmput == Put(FALSE)

\* Faulty variant: the work is not scheduled.
mmput_async_Unscheduled == mm_users' = mm_users - 1 /\ UNCHANGED <<tear, work>>

mmput_async == Put(TRUE)

(* mmdrop: __mmdrop frees the page directory and the structure. *)
mmdrop ==
  /\ mm_count' = mm_count - 1
  /\ freed' = (mm_count = 1)

(* copy_mm with CLONE_VM *)
copy_mm(p, t) ==
  /\ task[p] = "in" /\ task[t] = "new"
  /\ mm_users' = mm_users + 1
  /\ task' = [task EXCEPT ![t] = "in"]
  /\ UNCHANGED <<mm_count, lock, observer, seen, lazy, oom_mm, tear, mapped, files, work, freed>>

(* External: exit_mm clears task->mm under the lock, then calls mmput. *)
ClearMm(t) ==
  /\ task[t] = "in" /\ lock[t] = None
  /\ task' = [task EXCEPT ![t] = "leaving"]
  /\ UNCHANGED <<mm_users, mm_count, lock, observer, seen, lazy, oom_mm, tear, mapped, files,
                 work, freed>>

ExitMm(t) ==
  /\ task[t] = "leaving"
  /\ task' = [task EXCEPT ![t] = "out"]
  /\ mmput
  /\ UNCHANGED <<mm_count, lock, observer, seen, lazy, oom_mm, mapped, files, freed>>

(* get_task_mm: the pointer and the count under the task's lock.  No task   *)
(* here has PF_KTHREAD: kernel threads borrow the mm and do not adopt it.   *)
get_task_mm(o, t) ==
  /\ observer[o] = "idle" /\ lock[t] = None
  /\ task[t] = "in"
  /\ mm_users' = mm_users + 1
  /\ observer' = [observer EXCEPT ![o] = "mm"]
  /\ UNCHANGED <<mm_count, task, lock, seen, lazy, oom_mm, tear, mapped, files, work, freed>>

(* The observer is done (mmput, also in mm_access when it may not look), or in an interrupt. *)
PutMm(o, async) ==
  /\ observer[o] = "mm"
  /\ observer' = [observer EXCEPT ![o] = "idle"]
  /\ IF async THEN mmput_async ELSE mmput
  /\ UNCHANGED <<mm_count, task, lock, seen, lazy, oom_mm, mapped, files, freed>>

(* get_task_exe_file: get_mm_exe_file reads the pointer under RCU ... *)
ReadExe(o, t) ==
  /\ observer[o] = "idle" /\ lock[t] = None
  /\ task[t] = "in"
  /\ lock' = [lock EXCEPT ![t] = o]
  /\ seen' = [seen EXCEPT ![o] = exe_file]
  /\ observer' = [observer EXCEPT ![o] = "exe"]
  /\ UNCHANGED <<mm_users, mm_count, task, lazy, oom_mm, tear, mapped, files, work, freed>>

\* Faulty variant: a file whose last reference is gone is taken.
GetFile_Always(f) == TRUE

(* ... and get_file_rcu takes a reference unless the last one is gone. *)
GetFile(f) == f_count[f] > 0

GetExe(o, t) ==
  /\ observer[o] = "exe" /\ lock[t] = o
  /\ lock' = [lock EXCEPT ![t] = None]
  /\ IF seen[o] # None /\ GetFile(seen[o])
     THEN /\ f_count' = [f_count EXCEPT ![seen[o]] = @ + 1]
          /\ observer' = [observer EXCEPT ![o] = "file"]
          /\ UNCHANGED seen
     ELSE /\ observer' = [observer EXCEPT ![o] = "idle"]
          /\ seen' = [seen EXCEPT ![o] = None]
          /\ UNCHANGED f_count
  /\ UNCHANGED <<mm_users, mm_count, task, lazy, oom_mm, tear, mapped, exe_file, closed, work,
                 freed>>

Close(f) == closed' = IF f_count[f] = 1 THEN closed \cup {f} ELSE closed

fput(o) ==
  /\ observer[o] = "file"
  /\ f_count' = [f_count EXCEPT ![seen[o]] = @ - 1]
  /\ Close(seen[o])
  /\ observer' = [observer EXCEPT ![o] = "idle"]
  /\ seen' = [seen EXCEPT ![o] = None]
  /\ UNCHANGED <<mm_users, mm_count, task, lock, lazy, oom_mm, tear, mapped, exe_file, work,
                 freed>>

(* External: prctl(PR_SET_MM_EXE_FILE) exchanges the pointer. *)
SetExe(t, f) ==
  /\ task[t] = "in" /\ f # exe_file /\ f_count[f] = 0 /\ f \notin closed
  /\ f_count' = [f_count EXCEPT ![f] = 1, ![exe_file] = @ - 1]
  /\ Close(exe_file)
  /\ exe_file' = f
  /\ UNCHANGED <<mm_users, mm_count, task, lock, observer, seen, lazy, oom_mm, tear, mapped,
                 work, freed>>

(* External: mmgrab of a kernel thread that runs with the memory of the task before it. *)
Borrow(k) ==
  /\ k \notin lazy
  /\ \E t \in Tasks : task[t] = "in"
  /\ mm_count' = mm_count + 1
  /\ lazy' = lazy \cup {k}
  /\ UNCHANGED <<mm_users, task, lock, observer, seen, oom_mm, tear, mapped, files, work, freed>>

GiveBack(k) ==
  /\ k \in lazy
  /\ lazy' = lazy \ {k}
  /\ mmdrop
  /\ UNCHANGED <<mm_users, task, lock, observer, seen, oom_mm, tear, mapped, files, work>>

(* External: the OOM killer remembers the memory of its victim. *)
MarkVictim(t) ==
  /\ oom_mm = "none" /\ task[t] = "in"
  /\ oom_mm' = "set"
  /\ mm_count' = mm_count + 1
  /\ UNCHANGED <<mm_users, task, lock, observer, seen, lazy, tear, mapped, files, work, freed>>

(* free_signal_struct, when all threads are gone: mmdrop_async *)
free_signal_struct ==
  /\ oom_mm = "set" /\ \A t \in Tasks : task[t] \in {"new", "out"}
  /\ oom_mm' = "gone"
  /\ mm_count' = mm_count - 1
  /\ work' = IF mm_count = 1 THEN "mmdrop" ELSE work
  /\ UNCHANGED <<mm_users, task, lock, observer, seen, lazy, tear, mapped, files, freed>>

(* The worker takes the item off the queue before it runs it. *)
mmput_async_fn ==
  /\ work = "mmput"
  /\ work' = "none"
  /\ tear' = "unmap"
  /\ UNCHANGED <<mm_users, mm_count, task, lock, observer, seen, lazy, oom_mm, mapped, files,
                 freed>>

mmdrop_async_fn ==
  /\ work = "mmdrop"
  /\ work' = "none"
  /\ freed' = TRUE
  /\ UNCHANGED <<mm_users, mm_count, task, lock, observer, seen, lazy, oom_mm, tear, mapped,
                 files>>

(* __mmput *)
exit_mmap ==
  /\ tear = "unmap"
  /\ mapped' = FALSE
  /\ tear' = "exe"
  /\ UNCHANGED <<mm_users, mm_count, task, lock, observer, seen, lazy, oom_mm, files, work,
                 freed>>

(* set_mm_exe_file(mm, NULL) *)
set_mm_exe_file ==
  /\ tear = "exe"
  /\ f_count' = [f_count EXCEPT ![exe_file] = @ - 1]
  /\ Close(exe_file)
  /\ exe_file' = None
  /\ tear' = "drop"
  /\ UNCHANGED <<mm_users, mm_count, task, lock, observer, seen, lazy, oom_mm, mapped, work,
                 freed>>

DropUsers ==
  /\ tear = "drop"
  /\ tear' = "done"
  /\ mmdrop
  /\ UNCHANGED <<mm_users, task, lock, observer, seen, lazy, oom_mm, mapped, files, work>>

Teardown == exit_mmap \/ set_mm_exe_file \/ DropUsers

Worker == mmput_async_fn \/ mmdrop_async_fn

Leaving == \/ \E t \in Tasks : ClearMm(t) \/ ExitMm(t)
           \/ \E o \in Observers : \/ \E async \in BOOLEAN : PutMm(o, async)
                                   \/ \E t \in Tasks : GetExe(o, t)
                                   \/ fput(o)
           \/ \E k \in Kthreads : GiveBack(k)
           \/ free_signal_struct

(* The structure is freed; its field oom_mm, its readers and its file are done. *)
Ended == freed /\ (\A o \in Observers : observer[o] = "idle") /\ UNCHANGED vars

Next ==
  \/ \E p, t \in Tasks : copy_mm(p, t)
  \/ \E o \in Observers, t \in Tasks : get_task_mm(o, t) \/ ReadExe(o, t)
  \/ \E t \in Tasks, f \in Files : SetExe(t, f)
  \/ \E k \in Kthreads : Borrow(k)
  \/ \E t \in Tasks : MarkVictim(t)
  \/ Leaving \/ Worker \/ Teardown
  \/ Ended

(***************************************************************************)
(* Who is in the kernel goes on, and everybody stops using the memory some *)
(* day: tasks exit, observers put what they hold, kernel threads switch to *)
(* another task.                                                           *)
(***************************************************************************)
Fairness ==
  /\ WF_vars(Worker) /\ WF_vars(Teardown) /\ WF_vars(free_signal_struct)
  /\ \A t \in Tasks : SF_vars(ClearMm(t)) /\ WF_vars(ExitMm(t))
  /\ \A o \in Observers : /\ WF_vars(\E async \in BOOLEAN : PutMm(o, async))
                          /\ WF_vars(fput(o) \/ \E t \in Tasks : GetExe(o, t))
  /\ \A k \in Kthreads : WF_vars(GiveBack(k))

Spec == Init /\ [][Next]_vars

FairSpec == Spec /\ Fairness

-----------------------------------------------------------------------------

Users == Cardinality({t \in Tasks : task[t] \in {"in", "leaving"}})
         + Cardinality({o \in Observers : observer[o] = "mm"})

Grabbed == Cardinality(lazy) + (IF oom_mm = "set" THEN 1 ELSE 0) + (IF tear = "done" THEN 0 ELSE 1)

\* Nobody uses what is gone: the memory exists while a task or an observer uses
\* it, the structure while a lazy thread, an oom_mm or the teardown needs it, a
\* file while an observer holds it; the counts are those of the holders, so the
\* teardown and the free happen once; and the work item is not queued again for
\* mmdrop while it is queued for mmput.
MmSafe ==
  /\ mm_users = Users /\ mm_count = Grabbed
  /\ Users > 0 => mapped /\ tear = "no" /\ work # "mmput"
  /\ Grabbed > 0 => ~freed
  /\ work = "mmdrop" => tear = "done" /\ mm_count = 0 /\ ~freed
  /\ \A f \in Files : f_count[f] = Cardinality({o \in Observers : observer[o] = "file" /\ seen[o] = f})
                                   + (IF exe_file = f THEN 1 ELSE 0)
  /\ \A o \in Observers : /\ observer[o] = "exe" => ~freed
                          /\ observer[o] = "file" => seen[o] \notin closed

\* The memory is not leaked: whichever of the ways each holder takes, the
\* structure is freed in the end and the executable with it.
EventuallyFreed == <>(freed /\ \A f \in Files : f_count[f] = 0)
=============================================================================
