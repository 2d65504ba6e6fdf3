----------------------------- MODULE MCForkSum -----------------------------
(* Instances of ForkSum for TLC.                                           *)
EXTENDS ForkSum

\* temp.txt as numgen.c writes it, and with numbers so large that small trees
\* exceed an exit status too.
Numgen == [k \in 1 .. 2 * MAX_PROCESSES |-> k]
Larger == [k \in 1 .. 2 * MAX_PROCESSES |-> 60 + k]
SmallInputs == {Numgen, Larger}
=============================================================================
