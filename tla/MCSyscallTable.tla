--------------------------- MODULE MCSyscallTable ---------------------------
(* SyscallTable with all five modules, or with two of them. *)
EXTENDS SyscallTable

MCModules == ModuleNames

(* Two modules that hook the same entry. *)
TwoModules == {"ftracehooking", "Process_tracer"}

(* The one that leaves the page writable, and another one. *)
PageModules == {"os_ftracehooking", "ftracehooking"}
=============================================================================
