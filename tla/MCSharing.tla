----------------------------- MODULE MCSharing ------------------------------
(* Sharing for three tasks; objects for every task and for every copy in the making. *)
EXTENDS Sharing, TLC

Symmetry == Permutations(Tasks)

(* Objects are told apart only by who refers to them. *)
Shape(k) ==
  {<<users[k][o], {t \in Tasks : ref[t][k] = o}, {t \in Tasks : new[t][k] = o}, k = "fs" /\ o \in in_exec>> :
     o \in Objects}

View == <<pc, flags, child, got, group, Shape("files"), Shape("fs"), Shape("sighand")>>

MCClones == {{}, {"FS"}, {"FILES", "SIGHAND"}, {"FS", "FILES", "SIGHAND", "THREAD"}}

MCUnshares == {{"FS", "FILES"}, {"VM", "NEWNS"}}
=============================================================================
