----------------------------- MODULE MCReports ------------------------------
(***************************************************************************)
(* The three reports on processes side by side: the file in /proc, the     *)
(* system call that prints a task's relatives, with the walk of the        *)
(* process tree, and the one that prints its areas.  They share no         *)
(* variable, so one of them moves and the others stay where they begin.    *)
(***************************************************************************)
EXTENDS MCProcInfo

CONSTANTS TreeTasks, Root,            \* the process tree
          Areas, File, MaxChanges     \* the areas

VARIABLES report,
          state, real_parent, group_leader, children, fork_count, t_pc, made, forks, tracer, walk,
          task, mm, mmap, unlinked, v_pc, vm, printed, changes, began, stay, stray

Tree == INSTANCE ProcessTracer WITH Tasks <- TreeTasks, pc <- t_pc
Varea == INSTANCE FileVarea WITH pc <- v_pc

tvars == <<state, real_parent, group_leader, children, fork_count, t_pc, made, forks, tracer, walk>>
avars == <<task, mm, mmap, unlinked, v_pc, vm, printed, changes, began, stay, stray>>

ASSUME ReportsAssumption == Tree!TreeAssumption /\ Varea!FileAssumption

(* An area of each kind. *)
MCFile == [a |-> "none", b |-> "short", c |-> "long"]

ReportsInit ==
  /\ report \in {"proc", "tree", "areas"}
  /\ Init /\ Tree!Init /\ Varea!Init
  /\ report # "areas" => ~task /\ ~mm

ReportsNext ==
  \/ report = "proc" /\ Next /\ UNCHANGED <<tvars, avars, report>>
  \/ report = "tree" /\ Tree!Next /\ UNCHANGED <<vars, avars, report>>
  \/ report = "areas" /\ Varea!Next /\ UNCHANGED <<vars, tvars, report>>

ReportsSpec == ReportsInit /\ [][ReportsNext]_<<vars, tvars, avars, report>>

(* walk_process_tree changes nothing that process_tracer reads: they are    *)
(* explored one at a time.                                                  *)
Explored == tracer.at = "idle" \/ walk.at = "idle"

\* See ProcessTracer: fork_count is the number of forks a task has made.
ForkCountExact == Tree!ForkCountExact

\* See ProcessTracer: the relatives that are not reaped are printed, each once.
RelativesListed == Tree!RelativesListed

\* See ProcessTracer: walk_process_tree visits what it was let into, nothing twice.
WalkComplete == Tree!WalkComplete

\* See FileVarea: the areas that stay are printed, each once and in their order.
StayingListed == Varea!StayingListed
=============================================================================
