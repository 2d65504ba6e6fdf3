--------------------------- MODULE WorkConserving ---------------------------
(***************************************************************************)
(* What every CPU scheduler does, whatever its policy: one CPU, shared in  *)
(* milliseconds among the processes that have arrived, and never idle      *)
(* while one of them has something left to do.                             *)
(***************************************************************************)
EXTENDS Integers

VARIABLES
  left,     \* process -> milliseconds it still needs
  arrival,  \* process -> when it arrives
  clock

wcvars == <<left, arrival, clock>>

Ready == {p \in DOMAIN left : arrival[p] <= clock /\ left[p] > 0}

WCInit == clock = 0

WCNext ==
  /\ clock' = clock + 1
  /\ UNCHANGED arrival
  /\ \/ \E p \in Ready : left' = [left EXCEPT ![p] = @ - 1]
     \/ Ready = {} /\ (\E p \in DOMAIN left : left[p] > 0) /\ UNCHANGED left

WCSpec == WCInit /\ [][WCNext]_wcvars
=============================================================================
