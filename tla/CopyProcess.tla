----------------------------- MODULE CopyProcess -----------------------------
(***************************************************************************)
(* copy_process of the kernel that Assignment 3-1 builds: the checks, the  *)
(* steps that take resources for the new task, the publication under       *)
(* tasklist_lock and siglock, and the ladder of labels that gives the      *)
(* resources back.  The callers are threads of one process; they fork at   *)
(* the same time, signals are sent to them, and any step may fail.  A      *)
(* resource is a name: the task's copy, or its reference, of that kind.    *)
(***************************************************************************)
EXTENDS Integers, Sequences, FiniteSets, FiniteSetsExt

CONSTANTS Forkers,        \* threads of one process that call copy_process
          Requests,       \* sets of clone flags they ask for
          Signals,        \* signals sent to several processes at once
          Blocked,        \* signals that the callers block
          max_threads, NPROC,
          MaxForks        \* bound: calls of copy_process

ASSUME ForkAssumption ==
  /\ IsFiniteSet(Forkers) /\ Forkers # {}
  /\ max_threads \in Nat /\ NPROC \in Nat
  /\ Cardinality(Forkers) <= max_threads /\ Cardinality(Forkers) <= NPROC
  /\ MaxForks \in Nat

VARIABLES pc, flags, at,      \* where each caller is: the step, or the label
          own,                \* what it has taken for the new task
          seccomp,            \* the new task points to a seccomp filter
          nr_threads, processes, total_forks,
          group_threads,      \* signal->nr_threads, live and sigcnt
          multiprocess,       \* callers whose delayed signals are on the list
          delayed,            \* the signals collected for each
          pending,            \* signals the process has not handled
          sigpending,         \* threads with TIF_SIGPENDING set
          killed,             \* callers with a fatal signal pending
          child_pending,      \* signals pending in the new process
          sent,               \* history: what was sent since the caller was listed
          children, calls     \* history: tasks made; calls, for the bound

sigs == <<multiprocess, delayed, pending, sigpending, killed, child_pending, sent>>
counts == <<nr_threads, processes, total_forks, group_threads, children>>
vars == <<pc, flags, at, own, seccomp, sigs, counts, calls>>

Init ==
  /\ pc = [f \in Forkers |-> "user"]
  /\ flags = [f \in Forkers |-> {}]
  /\ at = [f \in Forkers |-> 1]
  /\ own = [f \in Forkers |-> {}]
  /\ seccomp = [f \in Forkers |-> FALSE]
  /\ nr_threads = Cardinality(Forkers)
  /\ processes = Cardinality(Forkers)
  /\ total_forks = 0
  /\ group_threads = Cardinality(Forkers)
  /\ multiprocess = {}
  /\ delayed = [f \in Forkers |-> {}]
  /\ pending = {}
  /\ sigpending = {}
  /\ killed = {}
  /\ child_pending = [f \in Forkers |-> {}]
  /\ sent = [f \in Forkers |-> {}]
  /\ children = 0
  /\ calls = 0

-----------------------------------------------------------------------------

(* The combinations that are refused before anything is taken.  Among the   *)
(* flags, "UNKILLABLE" stands for a caller that is the init of a container, *)
(* and "OTHERPID" for one whose children get another pid namespace.         *)
Refused(c) ==
  \/ {"NEWNS", "FS"} \subseteq c
  \/ {"NEWUSER", "FS"} \subseteq c
  \/ "THREAD" \in c /\ "SIGHAND" \notin c
  \/ "SIGHAND" \in c /\ "VM" \notin c
  \/ {"PARENT", "UNKILLABLE"} \subseteq c
  \/ "THREAD" \in c /\ c \cap {"NEWUSER", "NEWPID", "OTHERPID"} # {}
  \/ "PIDFD" \in c /\ c \cap {"DETACHED", "THREAD"} # {}

(* What a step does, what it takes, and the label it goes to when it fails. *)
S(does, takes, fails) == [does |-> does, takes |-> takes, fails |-> fails]

Setup(c) ==
  <<S("dup_task_struct", {"task", "stack"}, "fork_out"),
    S("rlimit", {}, "free"),
    S("copy_creds", {"count", "creds"}, "free"),
    S("max_threads", {}, "cleanup_count"),
    S("delayacct_tsk_init", {"delayacct"}, "never"),
    S("mpol_dup", {"policy"}, "cleanup_threadgroup_lock"),
    S("sched_fork", {}, "cleanup_policy"),
    S("perf_event_init_task", {"perf"}, "cleanup_policy"),
    S("audit_alloc", {"audit"}, "cleanup_perf"),
    S("security_task_alloc", {"security"}, "cleanup_audit")>>

\* Faulty variant: a failing copy_files goes to the label of the next step.
Copies_Late(c) ==
  <<S("copy_semundo", {"semundo"}, "cleanup_security"),
    S("copy_files", {"files"}, "cleanup_files"),
    S("copy_fs", {"fs"}, "cleanup_files"),
    S("copy_sighand", {"sighand"}, "cleanup_fs"),
    S("copy_signal", IF "THREAD" \in c THEN {} ELSE {"signal"}, "cleanup_sighand"),
    S("copy_mm", {"mm"}, "cleanup_signal"),
    S("copy_namespaces", {"namespaces"}, "cleanup_mm"),
    S("copy_io", IF "IO" \in c THEN {"io"} ELSE {}, "cleanup_namespaces"),
    S("copy_thread_tls", {"thread"}, "cleanup_io")>>

(* "IO" stands for a task that gets an io_context: the parent's with CLONE_IO, *)
(* or its own if the parent's has a priority.                                 *)
Copies(c) ==
  <<S("copy_semundo", {"semundo"}, "cleanup_security"),
    S("copy_files", {"files"}, "cleanup_semundo"),
    S("copy_fs", {"fs"}, "cleanup_files"),
    S("copy_sighand", {"sighand"}, "cleanup_fs"),
    S("copy_signal", IF "THREAD" \in c THEN {} ELSE {"signal"}, "cleanup_sighand"),
    S("copy_mm", {"mm"}, "cleanup_signal"),
    S("copy_namespaces", {"namespaces"}, "cleanup_mm"),
    S("copy_io", IF "IO" \in c THEN {"io"} ELSE {}, "cleanup_namespaces"),
    S("copy_thread_tls", {"thread"}, "cleanup_io")>>

Identity(c) ==
  IF "PIDFD" \in c
  THEN <<S("alloc_pid", {"pid"}, "cleanup_thread"),
         S("get_unused_fd_flags", {"fd"}, "free_pid"),
         S("anon_inode_getfile", {"pidfile"}, "put_unused_fd"),
         S("put_user", {}, "put_pidfd"),
         S("cgroup_threadgroup_change_begin", {"threadgroup"}, "never"),
         S("cgroup_can_fork", {"cgroup"}, "change_end")>>
  ELSE <<S("alloc_pid", {"pid"}, "cleanup_thread"),
         S("cgroup_threadgroup_change_begin", {"threadgroup"}, "never"),
         S("cgroup_can_fork", {"cgroup"}, "change_end")>>

Steps(c) == Setup(c) \o Copies(c) \o Identity(c)

(* The labels from the last to the first, with what the code behind each gives back. *)
L(label, gives) == [label |-> label, gives |-> gives]

Ladder(c) ==
  <<L("cancel_cgroup", {"cgroup"}),
    L("change_end", {"threadgroup"}),
    L("put_pidfd", IF "PIDFD" \in c THEN {"pidfile", "fd"} ELSE {}),
    L("free_pid", {"pid"}),
    L("cleanup_thread", {"thread"}),
    L("cleanup_io", IF "IO" \in c THEN {"io"} ELSE {}),
    L("cleanup_namespaces", {"namespaces"}),
    L("cleanup_mm", {"mm"}),
    L("cleanup_signal", IF "THREAD" \in c THEN {} ELSE {"signal"}),
    L("cleanup_sighand", {"sighand"}),
    L("cleanup_fs", {"fs"}),
    L("cleanup_files", {"files"}),
    L("cleanup_semundo", {"semundo"}),
    L("cleanup_security", {"security"}),
    L("cleanup_audit", {"audit"}),
    L("cleanup_perf", {"perf"}),
    L("cleanup_policy", {"policy"}),
    L("cleanup_threadgroup_lock", {"delayacct"}),
    L("cleanup_count", {"count", "creds"}),
    L("free", {"stack", "task"}),
    L("fork_out", {})>>

LabelAt(c, label) == LET l == Ladder(c) IN CHOOSE i \in DOMAIN l : l[i].label = label

Goto(f, label, i) == pc' = [pc EXCEPT ![f] = label] /\ at' = [at EXCEPT ![f] = i]

-----------------------------------------------------------------------------

Call(f, c) ==
  /\ pc[f] = "user" /\ f \notin killed
  /\ calls < MaxForks
  /\ calls' = calls + 1
  /\ IF Refused(c) THEN UNCHANGED <<pc, at, flags>>
     ELSE Goto(f, "list", 1) /\ flags' = [flags EXCEPT ![f] = c]
  /\ UNCHANGED <<own, seccomp, sigs, counts>>

(* hlist_add_head and recalc_sigpending, under siglock: a signal that is   *)
(* blocked may stay pending throughout the fork.                           *)
List(f) ==
  /\ pc[f] = "list"
  /\ multiprocess' = IF "THREAD" \in flags[f] THEN multiprocess ELSE multiprocess \cup {f}
  /\ delayed' = [delayed EXCEPT ![f] = {}]
  /\ sent' = [sent EXCEPT ![f] = pending \ Blocked]
  /\ sigpending' = IF pending \ Blocked # {} \/ f \in killed THEN sigpending \cup {f} ELSE sigpending \ {f}
  /\ Goto(f, "signals", 1)
  /\ UNCHANGED <<flags, own, seccomp, pending, killed, child_pending, counts, calls>>

\* Faulty variant: only fatal signals are looked for.
SignalPending_Fatal(f) == f \in killed

(* signal_pending(current): the call starts again when they are handled. *)
SignalPending(f) == f \in sigpending

CheckSignals(f) ==
  /\ pc[f] = "signals"
  /\ IF SignalPending(f)
     THEN Goto(f, "undo", LabelAt(flags[f], "fork_out"))
     ELSE Goto(f, "step", 1)
  /\ UNCHANGED <<flags, own, seccomp, sigs, counts, calls>>

TooManyProcesses == processes >= NPROC

\* Faulty variant: off by one.
TooManyThreads_Late == nr_threads > max_threads

TooManyThreads == nr_threads >= max_threads

Allowed(s) ==
  /\ s.does = "rlimit" => ~TooManyProcesses
  /\ s.does = "max_threads" => ~TooManyThreads

(* A step succeeds.  dup_task_struct clears the filter pointer it has copied. *)
Step(f) ==
  /\ pc[f] = "step"
  /\ LET s == Steps(flags[f])[at[f]] IN
     /\ Allowed(s)
     /\ own' = [own EXCEPT ![f] = @ \cup s.takes]
     /\ processes' = IF "count" \in s.takes THEN processes + 1 ELSE processes
     /\ IF at[f] = Len(Steps(flags[f])) THEN Goto(f, "publish", 1) ELSE Goto(f, "step", at[f] + 1)
  /\ UNCHANGED <<flags, seccomp, sigs, nr_threads, total_forks, group_threads, children, calls>>

(* A step fails; without a file, the descriptor is given back on the spot. *)
Fail(f) ==
  /\ pc[f] = "step"
  /\ LET s == Steps(flags[f])[at[f]] IN
     /\ s.fails # "never"
     /\ s.does = "rlimit" => TooManyProcesses
     /\ s.does = "max_threads" => TooManyThreads
     /\ IF s.fails = "put_unused_fd"
        THEN /\ own' = [own EXCEPT ![f] = @ \ {"fd"}]
             /\ Goto(f, "undo", LabelAt(flags[f], "free_pid"))
        ELSE /\ UNCHANGED own
             /\ Goto(f, "undo", LabelAt(flags[f], s.fails))
  /\ UNCHANGED <<flags, seccomp, sigs, counts, calls>>

(***************************************************************************)
(* Under tasklist_lock and siglock: copy_seccomp takes a reference; a      *)
(* dying pid namespace or a fatal signal ends the call.                    *)
(***************************************************************************)
PublishFails(f) ==
  /\ pc[f] = "publish"
  /\ \E filter \in BOOLEAN : /\ seccomp' = [seccomp EXCEPT ![f] = filter]
                             /\ own' = [own EXCEPT ![f] = IF filter THEN @ \cup {"filter"} ELSE @]
  /\ Goto(f, "undo", LabelAt(flags[f], "cancel_cgroup"))
  /\ UNCHANGED <<flags, sigs, counts, calls>>

Publish(f) ==
  /\ pc[f] = "publish"
  /\ f \notin killed
  /\ nr_threads' = nr_threads + 1
  /\ total_forks' = total_forks + 1
  /\ children' = children + 1
  /\ IF "THREAD" \in flags[f]
     THEN group_threads' = group_threads + 1 /\ UNCHANGED child_pending
     ELSE child_pending' = [child_pending EXCEPT ![f] = delayed[f]] /\ UNCHANGED group_threads
  /\ multiprocess' = multiprocess \ {f}
  /\ own' = [own EXCEPT ![f] = @ \cap {"threadgroup", "pidfile", "fd"}]
  /\ Goto(f, "finish", 1)
  /\ UNCHANGED <<flags, seccomp, delayed, pending, sigpending, killed, sent, processes, calls>>

(* fd_install, cgroup_post_fork, cgroup_threadgroup_change_end, copy_oom_score_adj *)
Finish(f) ==
  /\ pc[f] = "finish"
  /\ own' = [own EXCEPT ![f] = {}]
  /\ child_pending' = [child_pending EXCEPT ![f] = {}]
  /\ sent' = [sent EXCEPT ![f] = {}]
  /\ delayed' = [delayed EXCEPT ![f] = {}]
  /\ Goto(f, "user", 1)
  /\ flags' = [flags EXCEPT ![f] = {}]
  /\ UNCHANGED <<seccomp, multiprocess, pending, sigpending, killed, counts, calls>>

(* One label: what it gives back, then the next one. *)
Undo(f) ==
  /\ pc[f] = "undo"
  /\ LET l == Ladder(flags[f])[at[f]] IN
     /\ own' = [own EXCEPT ![f] = @ \ (l.gives \cup IF l.label = "free" /\ seccomp[f]
                                                    THEN {"filter"} ELSE {})]
     /\ processes' = IF "count" \in l.gives THEN processes - 1 ELSE processes
     /\ seccomp' = [seccomp EXCEPT ![f] = IF l.label = "free" THEN FALSE ELSE @]
     /\ IF l.label # "fork_out"
        THEN Goto(f, "undo", at[f] + 1) /\ UNCHANGED <<multiprocess, flags, sent, delayed>>
        ELSE /\ Goto(f, "user", 1)
             /\ multiprocess' = multiprocess \ {f}
             /\ flags' = [flags EXCEPT ![f] = {}]
             /\ sent' = [sent EXCEPT ![f] = {}]
             /\ delayed' = [delayed EXCEPT ![f] = {}]
  /\ UNCHANGED <<pending, sigpending, killed, child_pending, nr_threads, total_forks,
                 group_threads, children, calls>>

-----------------------------------------------------------------------------

(* External: send_signal to this process among several; one thread is to    *)
(* take it, unless it is blocked.                                           *)
SendSignal(s) ==
  /\ pending' = pending \cup {s}
  /\ IF s \in Blocked THEN UNCHANGED sigpending
     ELSE \E f \in Forkers : sigpending' = sigpending \cup {f}
  /\ delayed' = [f \in Forkers |-> IF f \in multiprocess THEN delayed[f] \cup {s} ELSE delayed[f]]
  /\ sent' = [f \in Forkers |-> IF pc[f] \in {"signals", "step", "publish"}
                                THEN sent[f] \cup {s} ELSE sent[f]]
  /\ UNCHANGED <<pc, flags, at, own, seccomp, multiprocess, killed, child_pending, counts, calls>>

(* External: a thread on its way to user mode handles what is pending. *)
Handle(f) ==
  /\ pc[f] = "user" /\ f \in sigpending /\ f \notin killed
  /\ pending' = pending \cap Blocked
  /\ sigpending' = sigpending \ {f}
  /\ UNCHANGED <<pc, flags, at, own, seccomp, multiprocess, delayed, killed, child_pending, sent,
                 counts, calls>>

(* External: SIGKILL for a thread. *)
Kill(f) ==
  /\ f \notin killed
  /\ killed' = killed \cup {f}
  /\ sigpending' = sigpending \cup {f}
  /\ UNCHANGED <<pc, flags, at, own, seccomp, multiprocess, delayed, pending, child_pending, sent,
                 counts, calls>>

Next ==
  \/ \E f \in Forkers : \/ \E c \in Requests : Call(f, c)
                        \/ List(f) \/ CheckSignals(f)
                        \/ Step(f) \/ Fail(f)
                        \/ PublishFails(f) \/ Publish(f) \/ Finish(f)
                        \/ Undo(f)
                        \/ Handle(f) \/ Kill(f)
  \/ \E s \in Signals : SendSignal(s)

Spec == Init /\ [][Next]_vars

-----------------------------------------------------------------------------

Remaining(f) ==
  LET l == Ladder(flags[f]) IN UNION {l[i].gives : i \in at[f]..Len(l)}

\* A fork that fails gives back exactly what it took: at every label the
\* resources held are those that the labels from there on release (and the
\* seccomp filter if the task points to one), so that none is leaked and none
\* released twice, whichever step failed; and the process count of the user
\* is that of the tasks that exist or are being made.
LadderExact ==
  /\ \A f \in Forkers :
       /\ pc[f] = "undo" => own[f] = Remaining(f) \cup (IF seccomp[f] THEN {"filter"} ELSE {})
       /\ pc[f] = "user" => own[f] = {} /\ f \notin multiprocess
  /\ processes = Cardinality(Forkers) + children
                 + Cardinality({f \in Forkers : "count" \in own[f]})

\* The checks of max_threads and RLIMIT_NPROC come long before the counts they
\* read are raised: callers that overtake each other exceed the limits, but
\* only by one for each other caller.
LimitsNearlyKept ==
  /\ nr_threads <= max_threads + Cardinality(Forkers) - 1
  /\ processes <= NPROC + Cardinality(Forkers) - 1

\* Signals sent to several processes are neither lost nor split by a fork: a
\* new process has every signal pending that was sent since its parent began
\* the fork, until it can be sent signals itself, and no signal that the parent
\* does not block was waiting to be handled by it then.
SignalsReachChild ==
  \A f \in Forkers : pc[f] = "finish" /\ "THREAD" \notin flags[f] => sent[f] \subseteq child_pending[f]
=============================================================================
