----------------------------- MODULE MCIoTrace ------------------------------
(* IoTrace for two processes. *)
EXTENDS IoTrace

(* Bytes, and an error. *)
MCResults == {-1, 2}
=============================================================================
