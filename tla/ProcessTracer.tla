---------------------------- MODULE ProcessTracer ----------------------------
(***************************************************************************)
(* The process tree of Assignment 3-1: the steps of _do_fork that make a   *)
(* new task visible, count the fork and start the task; process_tracer,    *)
(* which prints a task's count and walks the lists of its siblings and of  *)
(* its children without a lock; and walk_process_tree, which walks the     *)
(* tree under tasklist_lock.  Exit and reaping are the kernel's (external).*)
(***************************************************************************)
EXTENDS Integers, Sequences, FiniteSets, SequencesExt

CONSTANTS Tasks,      \* task_structs; a task that was reaped is not used again
          Root        \* the first process: the reaper of orphans

None == 0    \* a NULL pointer

(* The head of a task's list of children, where a walk of the list ends. *)
HeadOf(h) == -h

(* What the model assumes of its constants. *)
TreeAssumption == Root \in Tasks /\ Tasks \subseteq Nat \ {None}

VARIABLES state,        \* "none", "new" (TASK_NEW), "running", "zombie", "reaped"
          real_parent, group_leader, children,
          fork_count,   \* the counter that the assignment adds to task_struct
          pc,           \* the step of _do_fork each task is at
          made,         \* the task it is making
          forks,        \* history: the forks each task has made
          tracer,       \* process_tracer at work
          walk          \* walk_process_tree at work

tree == <<state, real_parent, group_leader, children>>
vars == <<tree, fork_count, pc, made, forks, tracer, walk>>

IdleTracer == [at |-> "idle", task |-> None, pos |-> None, siblings |-> << >>,
               childs |-> << >>, had |-> << >>, stray |-> FALSE]

IdleWalk == [at |-> "idle", top |-> None, leader |-> None, parent |-> None,
             child |-> None, visited |-> << >>, entered |-> {}, stopped |-> FALSE]

Init ==
  /\ state = [t \in Tasks |-> IF t = Root THEN "running" ELSE "none"]
  /\ real_parent = [t \in Tasks |-> None]
  /\ group_leader = [t \in Tasks |-> t]
  /\ children = [t \in Tasks |-> << >>]
  /\ fork_count = [t \in Tasks |-> 0]
  /\ pc = [t \in Tasks |-> "user"]
  /\ made = [t \in Tasks |-> None]
  /\ forks = [t \in Tasks |-> 0]
  /\ tracer = IdleTracer
  /\ walk = IdleWalk

(* The tree changes under tasklist_lock, held for writing. *)
TasklistLock == walk.at = "idle"

(***************************************************************************)
(* The end of copy_process.  The new task is a copy of current, fork_count *)
(* included, and becomes visible here.  The first process has no sibling:  *)
(* CLONE_PARENT is refused to it and to its threads.                       *)
(***************************************************************************)
copy_process(p, t, kind) ==
  /\ state[p] = "running" /\ pc[p] = "user"
  /\ state[t] = "none" /\ \A u \in Tasks : state[u] = "none" => t <= u
  /\ TasklistLock
  /\ kind = "parent" => group_leader[p] # Root
  /\ LET parent == IF kind \in {"parent", "thread"} THEN real_parent[p] ELSE p IN
     /\ real_parent' = [real_parent EXCEPT ![t] = parent]
     /\ group_leader' = [group_leader EXCEPT ![t] = IF kind = "thread" THEN group_leader[p] ELSE t]
     /\ children' = IF kind = "thread" THEN children
                    ELSE [children EXCEPT ![parent] = Append(@, t)]
  /\ state' = [state EXCEPT ![t] = "new"]
  /\ fork_count' = [fork_count EXCEPT ![t] = fork_count[p]]
  /\ made' = [made EXCEPT ![p] = t]
  /\ pc' = [pc EXCEPT ![p] = "count"]
  /\ forks' = [forks EXCEPT ![p] = @ + 1]
  /\ UNCHANGED <<tracer, walk>>

\* Faulty variant: the child keeps its parent's count.
CountFork_Inherit(p) ==
  /\ pc[p] = "count"
  /\ fork_count' = [fork_count EXCEPT ![p] = @ + 1]
  /\ pc' = [pc EXCEPT ![p] = "wake"]
  /\ UNCHANGED <<tree, made, forks, tracer, walk>>

(* current->fork_count++; p->fork_count = 0 *)
CountFork(p) ==
  /\ pc[p] = "count"
  /\ fork_count' = [fork_count EXCEPT ![p] = @ + 1, ![made[p]] = 0]
  /\ pc' = [pc EXCEPT ![p] = "wake"]
  /\ UNCHANGED <<tree, made, forks, tracer, walk>>

wake_up_new_task(p) ==
  /\ pc[p] = "wake"
  /\ state' = [state EXCEPT ![made[p]] = "running"]
  /\ pc' = [pc EXCEPT ![p] = "user"]
  /\ made' = [made EXCEPT ![p] = None]
  /\ UNCHANGED <<real_parent, group_leader, children, fork_count, forks, tracer, walk>>

(***************************************************************************)
(* External: a task ends; its children go to the end of the list of its    *)
(* thread group's leader or, after the last thread, of Root.  The last     *)
(* thread to go is the leader.                                             *)
(***************************************************************************)
Reaper(p) == IF group_leader[p] = p THEN Root ELSE group_leader[p]

(* process_tracer points to a task that is freed, to a list that is moved   *)
(* away from it, or to the head of a list that is no longer the one it is   *)
(* comparing with.                                                          *)
ExitStrays(p) ==
  \/ tracer.task = p /\ (tracer.at = "childs" \/ group_leader[p] # p)
  \/ tracer.at = "siblings" /\ tracer.pos = HeadOf(p)

Exit(p) ==
  /\ state[p] = "running" /\ pc[p] = "user" /\ p # Root
  /\ TasklistLock
  /\ \A t \in Tasks \ {p} : group_leader[t] = p => state[t] \in {"none", "reaped"}
  /\ state' = [state EXCEPT ![p] = IF group_leader[p] = p THEN "zombie" ELSE "reaped"]
  /\ real_parent' = [t \in Tasks |-> IF real_parent[t] = p THEN Reaper(p) ELSE real_parent[t]]
  /\ children' = [children EXCEPT ![Reaper(p)] = @ \o children[p], ![p] = << >>]
  /\ tracer' = [tracer EXCEPT !.stray = @ \/ ExitStrays(p)]
  /\ UNCHANGED <<group_leader, fork_count, pc, made, forks, walk>>

(* External: wait() in the parent; list_del_init makes the entry point to itself. *)
Reap(p) ==
  /\ state[p] = "zombie"
  /\ TasklistLock
  /\ state' = [state EXCEPT ![p] = "reaped"]
  /\ children' = [children EXCEPT ![real_parent[p]] = SelectSeq(@, LAMBDA t : t # p)]
  /\ tracer' = [tracer EXCEPT !.stray = @ \/ p \in {tracer.task, tracer.pos}]
  /\ UNCHANGED <<real_parent, group_leader, fork_count, pc, made, forks, walk>>

-----------------------------------------------------------------------------

First(h) == IF children[h] = << >> THEN HeadOf(h) ELSE children[h][1]

(* The list an entry is on: None if it was removed. *)
ListOf(t) == IF \E h \in Tasks : t \in ToSet(children[h])
             THEN CHOOSE h \in Tasks : t \in ToSet(children[h]) ELSE None

(* tmp_ptr->sibling.next *)
NextEntry(t) ==
  LET h == ListOf(t) IN
  IF h = None THEN t
  ELSE LET i == CHOOSE i \in DOMAIN children[h] : children[h][i] = t
       IN IF i = Len(children[h]) THEN HeadOf(h) ELSE children[h][i + 1]

Others(t) == SelectSeq(children[real_parent[t]], LAMBDA u : u # t)

(* pid_task.  The parent of the first process is not in the model. *)
process_tracer(t) ==
  /\ tracer.at = "idle"
  /\ state[t] \notin {"none", "reaped"} /\ real_parent[t] # None
  /\ tracer' = [IdleTracer EXCEPT !.at = "found", !.task = t]
  /\ UNCHANGED <<tree, fork_count, pc, made, forks, walk>>

(* The lines that print the task itself, and the start of the first loop. *)
TraceSiblings ==
  /\ tracer.at = "found"
  /\ tracer' = [tracer EXCEPT !.at = "siblings", !.pos = First(real_parent[tracer.task]),
                              !.had = Others(tracer.task)]
  /\ UNCHANGED <<tree, fork_count, pc, made, forks, walk>>

\* Faulty variant: the task itself is listed.
Siblings_Itself(w) ==
  [w EXCEPT !.siblings = IF w.stray THEN @ ELSE Append(@, w.pos)]

(* What a call prints that has gone astray is not recorded. *)
Siblings(w) ==
  [w EXCEPT !.siblings = IF w.pos = w.task \/ w.stray THEN @ ELSE Append(@, w.pos)]

Childs(w) == [w EXCEPT !.childs = IF w.stray THEN @ ELSE Append(@, w.pos)]

(* One round of a list_for_each_entry. *)
TraceSibling ==
  /\ tracer.at = "siblings" /\ tracer.pos > None
  /\ tracer' = [Siblings(tracer) EXCEPT !.pos = NextEntry(tracer.pos)]
  /\ UNCHANGED <<tree, fork_count, pc, made, forks, walk>>

TraceChild ==
  /\ tracer.at = "childs" /\ tracer.pos > None
  /\ tracer' = [Childs(tracer) EXCEPT !.pos = NextEntry(tracer.pos)]
  /\ UNCHANGED <<tree, fork_count, pc, made, forks, walk>>

(* The head that a loop compares with, in every round anew. *)
EndOf(w) == HeadOf(IF w.at = "siblings" THEN real_parent[w.task] ELSE w.task)

TraceChildren ==
  /\ tracer.at = "siblings" /\ tracer.pos = EndOf(tracer)
  /\ tracer' = [tracer EXCEPT !.at = "childs", !.pos = First(tracer.task),
                              !.had = children[tracer.task]]
  /\ UNCHANGED <<tree, fork_count, pc, made, forks, walk>>

TraceReturn ==
  /\ tracer.at = "childs" /\ tracer.pos = EndOf(tracer)
  /\ tracer' = IdleTracer
  /\ UNCHANGED <<tree, fork_count, pc, made, forks, walk>>

(* Another list's head is taken for a task, or freed memory is read. *)
TraceLost ==
  /\ tracer.at \in {"found", "siblings", "childs"}
  /\ tracer.stray \/ (tracer.pos < None /\ tracer.pos # EndOf(tracer))
  /\ tracer' = [tracer EXCEPT !.at = "lost"]
  /\ UNCHANGED <<tree, fork_count, pc, made, forks, walk>>

Tracing == \/ TraceSiblings \/ TraceSibling \/ TraceChildren
           \/ TraceChild \/ TraceReturn \/ TraceLost

-----------------------------------------------------------------------------

Threads(l) == {t \in Tasks : group_leader[t] = l /\ state[t] \notin {"none", "reaped"}}

(* for_each_thread: the leader, then the others in the order they were made. *)
FirstThread(l) == l

NextThread(l, t) ==
  LET later == {u \in Threads(l) \ {l} : t = l \/ u > t}
  IN IF later = {} THEN None ELSE CHOOSE u \in later : \A v \in later : u <= v

walk_process_tree(top) ==
  /\ walk.at = "idle"
  /\ state[top] \notin {"none", "reaped"}
  /\ LET l == group_leader[top]
     IN walk' = [IdleWalk EXCEPT !.at = "walk", !.top = l, !.leader = l, !.parent = FirstThread(l),
                                 !.child = First(FirstThread(l))]
  /\ UNCHANGED <<tree, fork_count, pc, made, forks, tracer>>

(* The visitor's answer: stop, go down into the child, or go on. *)
Visit(res) ==
  /\ walk.at = "walk" /\ walk.child > None
  /\ LET c == walk.child
         w == [walk EXCEPT !.visited = Append(@, c)]
     IN walk' = CASE res < 0 -> [w EXCEPT !.at = "out", !.stopped = TRUE]
                  [] res > 0 -> [w EXCEPT !.leader = c, !.parent = FirstThread(c),
                                          !.child = First(FirstThread(c)), !.entered = @ \cup {c}]
                  [] OTHER -> [w EXCEPT !.child = NextEntry(c)]
  /\ UNCHANGED <<tree, fork_count, pc, made, forks, tracer>>

\* Faulty variant: the walk goes back to the leader, not to the thread that forked.
Up_Leader(w) ==
  [w EXCEPT !.parent = group_leader[real_parent[w.leader]], !.child = NextEntry(w.leader),
            !.leader = group_leader[real_parent[w.leader]]]

(* The children of this thread are done: the next thread, or back up. *)
Up(w) ==
  [w EXCEPT !.parent = real_parent[w.leader], !.child = NextEntry(w.leader),
            !.leader = group_leader[real_parent[w.leader]]]

Across ==
  /\ walk.at = "walk" /\ walk.child < None
  /\ LET t == NextThread(walk.leader, walk.parent)
     IN walk' = CASE t # None -> [walk EXCEPT !.parent = t, !.child = First(t)]
                  [] t = None /\ walk.leader # walk.top -> Up(walk)
                  [] OTHER -> [walk EXCEPT !.at = "out"]
  /\ UNCHANGED <<tree, fork_count, pc, made, forks, tracer>>

WalkReturn ==
  /\ walk.at = "out"
  /\ walk' = IdleWalk
  /\ UNCHANGED <<tree, fork_count, pc, made, forks, tracer>>

Kernel(p) == CountFork(p) \/ wake_up_new_task(p)

Next ==
  \/ \E p, t \in Tasks, kind \in {"fork", "parent", "thread"} : copy_process(p, t, kind)
  \/ \E p \in Tasks : Kernel(p) \/ Exit(p) \/ Reap(p)
  \/ \E t \in Tasks : process_tracer(t) \/ walk_process_tree(t)
  \/ Tracing
  \/ \E res \in {-1, 0, 1} : Visit(res)
  \/ Across
  \/ WalkReturn

Spec == Init /\ [][Next]_vars

-----------------------------------------------------------------------------

\* fork_count, which process_tracer may print at any moment, is the number of
\* forks a task has made, whoever its parent is and however often that one
\* forked before, except inside _do_fork: until the line that counts, the parent
\* lacks this fork and the child that can be found already has its parent's count.
ForkCountExact ==
  \A t \in Tasks :
    LET makers == {p \in Tasks : pc[p] = "count" /\ made[p] = t}
    IN fork_count[t] = IF makers # {} THEN forks[CHOOSE p \in makers : TRUE] - 1
                       ELSE IF pc[t] = "count" THEN forks[t] - 1 ELSE forks[t]

\* Although process_tracer takes no lock, each of its loops ends at the head it
\* looks for and has printed then, in their order and none twice, all relatives
\* that were there when it began and have not been reaped, and nobody who is no
\* relative, whoever forks, exits, is reaped or is handed to another parent
\* meanwhile.  The exceptions are these: the task that is traced or the one the
\* loop is at is reaped, the former exits in the second loop, or the parent
\* exits when the first loop has come to the head of its list.
RelativesListed ==
  LET w == tracer
      Left(l) == SelectSeq(l, LAMBDA t : state[t] # "reaped")
      Listed(printed, now) ==
        /\ SelectSeq(Left(printed), LAMBDA t : t \in ToSet(w.had)) = Left(w.had)
        /\ IsInjective(Left(printed))
        /\ ToSet(Left(printed)) \subseteq ToSet(now)
  IN w.at \in {"siblings", "childs"} /\ w.pos < None /\ ~w.stray =>
       /\ w.pos = EndOf(w)
       /\ w.at = "siblings" => Listed(w.siblings, Others(w.task))
       /\ w.at = "childs" => Listed(w.childs, children[w.task])

\* walk_process_tree shows every visitor each task at most once and, if it is
\* not stopped, all children of all threads of the tasks it was let into.
WalkComplete ==
  LET w == walk IN
  w.at = "out" =>
    /\ IsInjective(w.visited)
    /\ ~w.stopped => ToSet(w.visited)
         = UNION {ToSet(children[t]) : t \in UNION {Threads(l) : l \in {w.top} \cup w.entered}}
=============================================================================
