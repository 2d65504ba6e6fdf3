----------------------------- MODULE MCProcInfo -----------------------------
(* ProcInfo with two processes, a thread and a buffer that has to grow. *)
EXTENDS ProcInfo, TLC

(* Programs are alike. *)
Symmetry == Permutations(Readers)

MCTasks == <<1, 12>>

(* "12" with the newline of echo and without it, a word, a negative number, *)
(* and one that becomes the number of the thread when it is cut to an int.  *)
MCInputs == {<<1, 2, NL>>, <<1, 2>>, <<Other, NL>>, <<Minus, 1, NL>>, <<Plus, 1, 1, 3, NL>>}
=============================================================================
