----------------------------- MODULE MCHooking ------------------------------
(***************************************************************************)
(* The system call table, as modules come and go, and a trace of I/O, with *)
(* ftracehooking and iotracehooking loaded, side by side: they share no    *)
(* variable, so one of them moves and the other one stays where it begins. *)
(***************************************************************************)
EXTENDS MCSyscallTable, TLC

CONSTANTS Pids, Results, MaxCalls

VARIABLES scene, cur_pid, stats, pc, io_call, ret, tmp, at, made, clean, calls

Io == INSTANCE IoTrace WITH call <- io_call

iovars == <<cur_pid, stats, pc, io_call, ret, tmp, at, made, clean, calls>>

ASSUME TraceAssumption == Io!IoAssumption

(* Bytes, and an error. *)
MCResults == {-1, 2}

HookingInit == scene \in {"table", "trace"} /\ Init /\ Io!Init

HookingNext ==
  \/ scene = "table" /\ Next /\ UNCHANGED <<iovars, scene>>
  \/ scene = "trace" /\ Io!Next /\ UNCHANGED <<vars, scene>>

HookingSpec == HookingInit /\ [][HookingNext]_<<vars, iovars, scene>>

OneCaller == \E p \in Callers : \A o \in Callers \ {p} : call[o] = NoCall

(* With the module that leaves the page writable only one caller is about.  *)
(* The first step that is not orderly is the last one explored, unless only *)
(* that module, one other and one caller are there.                         *)
Explored ==
  /\ state["os_ftracehooking"] # "out" => OneCaller
  /\ orderly \/ (OneCaller /\ \A m \in Modules \ PageModules : state[m] = "out")

(* The callers are alike. *)
Symmetry == Permutations(Callers)

\* See IoTrace: a trace counts exactly the calls of its process.
TraceExact == Io!TraceExact
=============================================================================
