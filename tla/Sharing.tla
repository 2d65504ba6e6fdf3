------------------------------- MODULE Sharing -------------------------------
(***************************************************************************)
(* What tasks share: fs_struct, files_struct and sighand_struct, each with *)
(* a count of its users.  fork.c shares or copies them in copy_process     *)
(* (copy_files, copy_fs, copy_sighand, copy_signal) and takes them apart   *)
(* again in ksys_unshare and unshare_files; execve, exit and the kernel's  *)
(* allocation are external.  Counts are read without a lock, and another   *)
(* task may exit, clone or unshare between two steps.                      *)
(***************************************************************************)
EXTENDS Integers, FiniteSets, FiniteSetsExt

CONSTANTS Tasks, Objects,
          Clones,      \* flags a clone may pass
          Unshares     \* flags an unshare may pass

Kinds == {"files", "fs", "sighand"}

None == 0

ASSUME ShareAssumption ==
  /\ IsFiniteSet(Tasks)
  /\ Objects \subseteq Nat \ {0} /\ Objects # {}
  /\ \A f \in Clones : "THREAD" \in f => "SIGHAND" \in f

VARIABLES pc, flags, child,
          ref,       \* tsk->files, fs and sighand
          got,       \* the ones a task has a reference to
          users,     \* the count of an object; 0 for memory that is free
          new,       \* new_fs and new_fd of unshare, and the displaced files of execve
          group,     \* thread group
          in_exec    \* fs_structs with in_exec set

vars == <<pc, flags, child, ref, got, users, new, group, in_exec>>

NoRefs == [k \in Kinds |-> None]

Init ==
  \E t \in Tasks, files \in {None, Min(Objects)} :
    /\ pc = [u \in Tasks |-> IF u = t THEN "user" ELSE "none"]
    /\ ref = [u \in Tasks |-> IF u = t THEN [k \in Kinds |-> IF k = "files" THEN files ELSE Min(Objects)]
                              ELSE NoRefs]
    /\ got = [u \in Tasks |-> IF u = t THEN Kinds ELSE {}]
    /\ users = [k \in Kinds |-> [o \in Objects |-> IF o = ref[t][k] THEN 1 ELSE 0]]
    /\ flags = [u \in Tasks |-> {}]
    /\ child = [u \in Tasks |-> u]
    /\ new = [u \in Tasks |-> NoRefs]
    /\ group = [u \in Tasks |-> u]
    /\ in_exec = {}

Go(t, l) == pc' = [pc EXCEPT ![t] = l]

Free(k) == {o \in Objects : users[k][o] = 0}

(* Fresh memory of the kind; which one it is makes no difference. *)
Alloc(k) == Min(Free(k))

(* The users of an object, with n more. *)
Count(us, k, o, n) == IF o = None THEN us ELSE [us EXCEPT ![k][o] = @ + n]

-----------------------------------------------------------------------------
(* clone *)

(* dup_task_struct: the child has the parent's pointers and no reference yet.  The id of a *)
(* group is not given out again while the group has a thread.                              *)
clone(t, c, f) ==
  /\ pc[t] = "user" /\ pc[c] = "none" /\ \A u \in Tasks \ {c} : group[u] # c
  /\ pc' = [pc EXCEPT ![t] = "copy_files", ![c] = "new"]
  /\ child' = [child EXCEPT ![t] = c]
  /\ flags' = [flags EXCEPT ![t] = f]
  /\ ref' = [ref EXCEPT ![c] = ref[t]]
  /\ group' = [group EXCEPT ![c] = IF "THREAD" \in f THEN group[t] ELSE c]
  /\ UNCHANGED <<got, users, new, in_exec>>

ShareIt(t, k) ==
  /\ users' = Count(users, k, ref[t][k], 1)
  /\ got' = [got EXCEPT ![child[t]] = @ \cup {k}]
  /\ UNCHANGED ref

CopyIt(t, k) ==
  /\ Free(k) # {}
  /\ users' = Count(users, k, Alloc(k), 1)
  /\ ref' = [ref EXCEPT ![child[t]][k] = Alloc(k)]
  /\ got' = [got EXCEPT ![child[t]] = @ \cup {k}]

CopyFails(t) == Go(t, "undo") /\ UNCHANGED <<users, ref, got>>

copy_files(t) ==
  /\ pc[t] = "copy_files"
  /\ IF "FILES" \in flags[t] \/ ref[t]["files"] = None
     THEN ShareIt(t, "files") /\ Go(t, "copy_fs")
     ELSE \/ CopyIt(t, "files") /\ Go(t, "copy_fs")
          \/ CopyFails(t)
  /\ UNCHANGED <<flags, child, new, group, in_exec>>

\* Faulty variant: in_exec is not looked at.
copy_fs_Unchecked(t) ==
  /\ pc[t] = "copy_fs"
  /\ IF "FS" \in flags[t]
     THEN ShareIt(t, "fs") /\ Go(t, "copy_sighand")
     ELSE \/ CopyIt(t, "fs") /\ Go(t, "copy_sighand")
          \/ CopyFails(t)
  /\ UNCHANGED <<flags, child, new, group, in_exec>>

copy_fs(t) ==
  /\ pc[t] = "copy_fs"
  /\ IF "FS" \in flags[t]
     THEN IF ref[t]["fs"] \in in_exec THEN CopyFails(t)
          ELSE ShareIt(t, "fs") /\ Go(t, "copy_sighand")
     ELSE \/ CopyIt(t, "fs") /\ Go(t, "copy_sighand")
          \/ CopyFails(t)
  /\ UNCHANGED <<flags, child, new, group, in_exec>>

copy_sighand(t) ==
  /\ pc[t] = "copy_sighand"
  /\ IF "SIGHAND" \in flags[t]
     THEN ShareIt(t, "sighand") /\ Go(t, "copy_signal")
     ELSE \/ CopyIt(t, "sighand") /\ Go(t, "copy_signal")
          \/ CopyFails(t)
  /\ UNCHANGED <<flags, child, new, group, in_exec>>

(* A new signal_struct unless it is a thread; later steps of copy_process may fail too. *)
copy_signal(t) ==
  /\ pc[t] = "copy_signal"
  /\ \/ Go(t, "undo") /\ UNCHANGED <<child, flags>>
     \/ /\ pc' = [pc EXCEPT ![t] = "user", ![child[t]] = "user"]
        /\ child' = [child EXCEPT ![t] = t]
        /\ flags' = [flags EXCEPT ![t] = {}]
  /\ UNCHANGED <<ref, got, users, new, group, in_exec>>

Drop(us, u, ks) ==
  [k \in Kinds |-> [o \in Objects |-> us[k][o] - IF k \in ks /\ ref[u][k] = o THEN 1 ELSE 0]]

(* The labels of copy_process: exit_files, exit_fs and __cleanup_sighand for what was taken. *)
Undo(t) ==
  /\ pc[t] = "undo"
  /\ users' = Drop(users, child[t], got[child[t]])
  /\ got' = [got EXCEPT ![child[t]] = {}]
  /\ ref' = [ref EXCEPT ![child[t]] = NoRefs]
  /\ pc' = [pc EXCEPT ![t] = "user", ![child[t]] = "none"]
  /\ child' = [child EXCEPT ![t] = t]
  /\ flags' = [flags EXCEPT ![t] = {}]
  /\ group' = [group EXCEPT ![child[t]] = child[t]]
  /\ UNCHANGED <<new, in_exec>>

-----------------------------------------------------------------------------
(* unshare *)

Threads(t) == {u \in Tasks : group[u] = group[t] /\ pc[u] \notin {"none", "new"}}

Implied(f) ==
  LET user == IF "NEWUSER" \in f THEN {"THREAD", "FS"} ELSE {}
      vm   == IF "VM" \in f THEN {"SIGHAND"} ELSE {}
      sig  == IF "SIGHAND" \in f \cup vm THEN {"THREAD"} ELSE {}
      ns   == IF "NEWNS" \in f THEN {"FS"} ELSE {}
  IN f \cup user \cup vm \cup sig \cup ns

(* Nothing may be shared that unshare cannot take apart; whether the address space is used by *)
(* another task (current_is_single_threaded) is external.                                      *)
check_unshare_flags(t, f) ==
  /\ f \cap {"THREAD", "SIGHAND", "VM"} # {} => Threads(t) = {t}
  /\ f \cap {"SIGHAND", "VM"} # {} => users["sighand"][ref[t]["sighand"]] <= 1

ksys_unshare(t, f) ==
  /\ pc[t] = "user"
  /\ \/ /\ check_unshare_flags(t, Implied(f))
        /\ flags' = [flags EXCEPT ![t] = Implied(f)]
        /\ Go(t, "unshare_fs")
     \/ /\ ~check_unshare_flags(t, Implied(f)) \/ "VM" \in f
        /\ UNCHANGED <<flags, pc>>
  /\ UNCHANGED <<child, ref, got, users, new, group, in_exec>>

(* A copy the task does not use yet. *)
TakeCopy(t, k) ==
  /\ Free(k) # {}
  /\ users' = Count(users, k, Alloc(k), 1)
  /\ new' = [new EXCEPT ![t][k] = Alloc(k)]

unshare_fs(t) ==
  /\ pc[t] = "unshare_fs"
  /\ IF "FS" \in flags[t] /\ users["fs"][ref[t]["fs"]] # 1
     THEN \/ TakeCopy(t, "fs") /\ Go(t, "unshare_fd")
          \/ Go(t, "cleanup") /\ UNCHANGED <<users, new>>
     ELSE Go(t, "unshare_fd") /\ UNCHANGED <<users, new>>
  /\ UNCHANGED <<flags, child, ref, got, group, in_exec>>

SharesFiles(t) == ref[t]["files"] # None /\ users["files"][ref[t]["files"]] > 1

unshare_fd(t) ==
  /\ pc[t] = "unshare_fd"
  /\ IF "FILES" \in flags[t] /\ SharesFiles(t)
     THEN \/ TakeCopy(t, "files") /\ Go(t, "namespaces")
          \/ Go(t, "cleanup") /\ UNCHANGED <<users, new>>
     ELSE Go(t, "namespaces") /\ UNCHANGED <<users, new>>
  /\ UNCHANGED <<flags, child, ref, got, group, in_exec>>

(* unshare_userns and unshare_nsproxy_namespaces, which fail or not. *)
Namespaces(t) ==
  /\ pc[t] = "namespaces"
  /\ \/ Go(t, "commit")
     \/ flags[t] \cap {"NEWUSER", "NEWNS"} # {} /\ Go(t, "cleanup")
  /\ UNCHANGED <<flags, child, ref, got, users, new, group, in_exec>>

\* Faulty variant: the old files are forgotten.
Commit_Forget(t) ==
  /\ pc[t] = "commit"
  /\ LET fs == new[t]["fs"]
         fd == new[t]["files"]
     IN /\ ref' = [ref EXCEPT ![t]["fs"] = IF fs # None THEN fs ELSE @,
                              ![t]["files"] = IF fd # None THEN fd ELSE @]
        /\ users' = IF fs = None THEN users ELSE Count(users, "fs", ref[t]["fs"], -1)
        /\ new' = [new EXCEPT ![t] = NoRefs]
  /\ Go(t, "unshared")
  /\ UNCHANGED <<flags, child, got, group, in_exec>>

(* Under task_lock.  The old fs is freed by this task only if it was its last user; the old *)
(* files are put in any case.                                                               *)
Commit(t) ==
  /\ pc[t] = "commit"
  /\ LET fs == new[t]["fs"]
         fd == new[t]["files"]
     IN /\ ref' = [ref EXCEPT ![t]["fs"] = IF fs # None THEN fs ELSE @,
                              ![t]["files"] = IF fd # None THEN fd ELSE @]
        /\ users' = IF fs = None THEN users ELSE Count(users, "fs", ref[t]["fs"], -1)
        /\ new' = [new EXCEPT ![t]["fs"] = None,
                              ![t]["files"] = IF fd # None THEN ref[t]["files"] ELSE None]
  /\ Go(t, "unshared")
  /\ UNCHANGED <<flags, child, got, group, in_exec>>

(* put_files_struct and free_fs_struct of what is left in new_fd and new_fs. *)
Cleanup(t) ==
  /\ pc[t] \in {"unshared", "cleanup"}
  /\ users' = Count(Count(users, "files", new[t]["files"], -1), "fs", new[t]["fs"], -1)
  /\ new' = [new EXCEPT ![t] = NoRefs]
  /\ flags' = [flags EXCEPT ![t] = {}]
  /\ Go(t, "user")
  /\ UNCHANGED <<child, ref, got, group, in_exec>>

-----------------------------------------------------------------------------
(* execve *)

unshare_files(t) ==
  /\ pc[t] = "user"
  /\ IF SharesFiles(t)
     THEN \/ TakeCopy(t, "files") /\ Go(t, "swap")
          \/ UNCHANGED <<pc, users, new>>
     ELSE Go(t, "exec") /\ UNCHANGED <<users, new>>
  /\ UNCHANGED <<flags, child, ref, got, group, in_exec>>

(* displaced = task->files; task->files = copy *)
unshare_files_Swap(t) ==
  /\ pc[t] = "swap"
  /\ ref' = [ref EXCEPT ![t]["files"] = new[t]["files"]]
  /\ new' = [new EXCEPT ![t]["files"] = ref[t]["files"]]
  /\ Go(t, "exec")
  /\ UNCHANGED <<flags, child, got, users, group, in_exec>>

(* External.  One thread of the group at a time; no user of the fs may be outside the group. *)
check_unsafe_exec(t) ==
  /\ pc[t] = "exec"
  /\ \A u \in Threads(t) : pc[u] \notin {"execing", "execing_alone"}
  /\ LET fs == ref[t]["fs"]
         n == Cardinality({u \in Threads(t) : ref[u]["fs"] = fs})
     IN IF users["fs"][fs] > n THEN Go(t, "execing") /\ UNCHANGED in_exec
        ELSE Go(t, "execing_alone") /\ in_exec' = in_exec \cup {fs}
  /\ UNCHANGED <<flags, child, ref, got, users, new, group>>

(* External.  It succeeds once the other threads are gone, or fails and takes its files back. *)
ExecEnds(t) ==
  /\ pc[t] \in {"execing", "execing_alone"}
  /\ in_exec' = in_exec \ {ref[t]["fs"]}
  /\ \/ /\ Threads(t) = {t} /\ UNCHANGED ref
        /\ users' = Count(users, "files", new[t]["files"], -1)
     \/ IF new[t]["files"] = None THEN UNCHANGED <<ref, users>>
        ELSE /\ ref' = [ref EXCEPT ![t]["files"] = new[t]["files"]]
             /\ users' = Count(users, "files", ref[t]["files"], -1)
  /\ new' = [new EXCEPT ![t] = NoRefs]
  /\ Go(t, "user")
  /\ UNCHANGED <<flags, child, got, group>>

(* External.  exit_files, exit_fs and __cleanup_sighand; one task stays. *)
do_exit(t) ==
  /\ pc[t] = "user"
  /\ \E u \in Tasks \ {t} : pc[u] = "user"
  /\ users' = Drop(users, t, Kinds)
  /\ got' = [got EXCEPT ![t] = {}]
  /\ ref' = [ref EXCEPT ![t] = NoRefs]
  /\ group' = [group EXCEPT ![t] = t]
  /\ Go(t, "none")
  /\ UNCHANGED <<flags, child, new, in_exec>>

Next ==
  \E t \in Tasks :
    \/ \E c \in Tasks, f \in Clones : clone(t, c, f)
    \/ copy_files(t) \/ copy_fs(t) \/ copy_sighand(t) \/ copy_signal(t) \/ Undo(t)
    \/ \E f \in Unshares : ksys_unshare(t, f)
    \/ unshare_fs(t) \/ unshare_fd(t) \/ Namespaces(t) \/ Commit(t) \/ Cleanup(t)
    \/ unshare_files(t) \/ unshare_files_Swap(t) \/ check_unsafe_exec(t) \/ ExecEnds(t)
    \/ do_exit(t)

Spec == Init /\ [][Next]_vars

-----------------------------------------------------------------------------

Users(k, o) == {t \in Tasks : k \in got[t] /\ ref[t][k] = o}

Keeping(k, o) == {t \in Tasks : new[t][k] = o}

\* However clones, unshares, execs and exits interleave and fail, the count of
\* every fs_struct, files_struct and sighand_struct is the number of tasks that
\* refer to it and of system calls that still hold it: nothing is freed while it
\* is in use, nothing stays behind without a user, and nothing is put twice.
CountsExact ==
  \A k \in Kinds, o \in Objects :
    users[k][o] = Cardinality(Users(k, o)) + Cardinality(Keeping(k, o))

\* A task that got its own gets it: when unshare succeeds, no other task uses the
\* caller's fs (or files, or sighand) if its flags ask for that, although the
\* counts are read without a lock ("in the worst case we'll do useless copy"),
\* and after check_unsafe_exec found the fs used by one thread group only, no
\* task outside that group comes to use it until the exec ends (in_exec).
PrivateWhenPromised ==
  \A t \in Tasks :
    /\ pc[t] = "unshared" =>
         /\ "FS" \in flags[t] => Users("fs", ref[t]["fs"]) = {t}
         /\ "FILES" \in flags[t] /\ ref[t]["files"] # None => Users("files", ref[t]["files"]) = {t}
         /\ "SIGHAND" \in flags[t] => Users("sighand", ref[t]["sighand"]) = {t}
    /\ pc[t] = "execing_alone" =>
         \A u \in Users("fs", ref[t]["fs"]) : group[u] = group[t]
=============================================================================
