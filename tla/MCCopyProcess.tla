---------------------------- MODULE MCCopyProcess ---------------------------
(* CopyProcess for two threads that fork, clone and make threads. *)
EXTENDS CopyProcess, TLC

Pthread == {"VM", "FS", "FILES", "SIGHAND", "THREAD"}

(* A thread, a process with an io_context and a pidfd, and requests that are refused. *)
MCRequests == {Pthread, {"IO", "PIDFD"}, {"THREAD"}, {"PARENT", "UNKILLABLE"}}

(* One call of any kind with any signals, two while no signal is blocked,   *)
(* and a third as long as only processes are made and there are no signals. *)
Explored ==
  /\ calls <= 1 \/ pending \cap Blocked = {}
  /\ calls <= 2 \/ (pending = {} /\ killed = {} /\ \A f \in Forkers : "THREAD" \notin flags[f])

(* The threads are alike. *)
Symmetry == Permutations(Forkers)
=============================================================================
