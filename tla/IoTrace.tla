------------------------------- MODULE IoTrace -------------------------------
(***************************************************************************)
(* The I/O tracer of Assignment 2-3 once both modules are loaded:          *)
(* os_ftrace starts and finishes the tracing of one process, and five      *)
(* hooked system calls count what the traced process does.  The counters   *)
(* are plain global variables: an increment is a read and a write, and     *)
(* other processes run in between.                                         *)
(***************************************************************************)
EXTENDS Integers, FiniteSets, Sequences

CONSTANTS Pids,        \* processes
          Results,     \* what a read or a write may return: bytes, or an error below 0
          MaxCalls     \* bound: traced calls that one behaviour makes

(* What the constants have to be: 0 stands for no process. *)
IoAssumption == /\ Pids \subseteq Nat \ {0}
                /\ Results \subseteq Int
                /\ MaxCalls \in Nat

CountFirst == {"openat", "close", "lseek"}    \* counted before the real call

CountAfter == {"read", "write"}               \* counted when it has returned

Kinds == CountFirst \cup CountAfter

(* read_b, write_b, o_cnt, c_cnt, r_cnt, w_cnt, l_cnt, as my_ftrace sets them to 0. *)
Counters == <<"read_b", "write_b", "openat", "close", "read", "write", "lseek">>

Bytes(k) == IF k = "read" THEN "read_b" ELSE "write_b"

(* The counters that a call of kind k changes. *)
Of(k) == IF k \in CountAfter THEN {k, Bytes(k)} ELSE {k}

Nothing == [cnt |-> 0, bytes |-> 0, errors |-> 0]

VARIABLES cur_pid,    \* the traced process
          stats,      \* the counters
          pc,         \* where each process is
          call,       \* the call it makes
          ret,        \* what the real call returned
          tmp,        \* the counter as it read it, or the argument of os_ftrace
          at,         \* the counter that my_ftrace sets to 0 next
          made,       \* history: what the traced process did, of these kinds, since its trace started
          clean,      \* history: the kinds of calls that only this trace has counted
          calls       \* the number of calls, for the bound

vars == <<cur_pid, stats, pc, call, ret, tmp, at, made, clean, calls>>

Init ==
  /\ cur_pid = 0
  /\ stats = [c \in {Counters[n] : n \in DOMAIN Counters} |-> 0]
  /\ pc = [p \in Pids |-> "user"]
  /\ call = [p \in Pids |-> "none"]
  /\ ret = [p \in Pids |-> 0]
  /\ tmp = [p \in Pids |-> 0]
  /\ at = [p \in Pids |-> 1]
  /\ made = [k \in Kinds |-> Nothing]
  /\ clean = {}
  /\ calls = 0

Goto(p, l) == pc' = [pc EXCEPT ![p] = l]

(***************************************************************************)
(* my_ftrace.  The seven counters are set to 0 one after the other, and    *)
(* cur_pid changes afterwards: the process that was traced before, and     *)
(* another caller of os_ftrace, run in between.                            *)
(***************************************************************************)
my_ftrace_Start(p, di) ==
  /\ pc[p] = "user"
  /\ tmp' = [tmp EXCEPT ![p] = di]
  /\ Goto(p, "reset")
  /\ UNCHANGED <<cur_pid, stats, call, ret, at, made, clean, calls>>

my_ftrace_Reset(p) ==
  /\ pc[p] = "reset" /\ at[p] <= Len(Counters)
  /\ LET c == Counters[at[p]] IN
     /\ stats' = [stats EXCEPT ![c] = 0]
     /\ clean' = {k \in clean : c \notin Of(k)}
     /\ made' = [k \in Kinds |-> IF c \in Of(k) THEN Nothing ELSE made[k]]
  /\ at' = [at EXCEPT ![p] = @ + 1]
  /\ UNCHANGED <<cur_pid, pc, call, ret, tmp, calls>>

(* Process q goes on to change a counter of kind k, for what it saw before. *)
Underway(q, k) ==
  \/ pc[q] \in {"count", "store", "add", "sum"} /\ call[q] = k
  \/ pc[q] = "reset" /\ \E n \in at[q] .. Len(Counters) : Counters[n] \in Of(k)

(* Process q is in a call of kind k, and has been counted, or not, for an earlier trace. *)
Inside(q, k) == pc[q] \notin {"user", "reset", "started"} /\ call[q] = k

my_ftrace_Pid(p) ==
  /\ pc[p] = "reset" /\ at[p] > Len(Counters)
  /\ cur_pid' = tmp[p]
  /\ clean' = {k \in Kinds : /\ \A c \in Of(k) : stats[c] = 0
                             /\ \A q \in Pids : ~Underway(q, k)
                             /\ ~Inside(tmp[p], k)}
  /\ made' = [k \in Kinds |-> Nothing]
  /\ at' = [at EXCEPT ![p] = 1]
  /\ tmp' = [tmp EXCEPT ![p] = 0]
  /\ Goto(p, "started")
  /\ UNCHANGED <<stats, call, ret, calls>>

(* os_ftrace(0) prints the counters; the process stays the traced one. *)
my_ftrace_End(p) ==
  /\ pc[p] = "user"
  /\ UNCHANGED vars

(* What a call that returns r adds to m: an error transfers nothing. *)
Done(m, r) == [cnt |-> m.cnt + 1,
               bytes |-> m.bytes + (IF r > 0 THEN r ELSE 0),
               errors |-> m.errors + (IF r < 0 THEN r ELSE 0)]

(* The system call returns to the program; its local variables are gone. *)
Return(p) ==
  /\ pc[p] \in {"started", "return"}
  /\ Goto(p, "user")
  /\ made' = IF cur_pid = p /\ call[p] \in clean
             THEN [made EXCEPT ![call[p]] = Done(@, ret[p])] ELSE made
  /\ call' = [call EXCEPT ![p] = "none"]
  /\ ret' = [ret EXCEPT ![p] = 0]
  /\ tmp' = [tmp EXCEPT ![p] = 0]
  /\ UNCHANGED <<cur_pid, stats, at, clean, calls>>

(* A process calls one of the five hooked functions. *)
Enter(p, k) ==
  /\ pc[p] = "user"
  /\ calls < MaxCalls
  /\ calls' = calls + 1
  /\ call' = [call EXCEPT ![p] = k]
  /\ Goto(p, IF k \in CountFirst THEN "check" ELSE "real")
  /\ UNCHANGED <<cur_pid, stats, ret, tmp, at, made, clean>>

(* The real function; it may take any time, and read and write may fail. *)
Real(p) ==
  /\ pc[p] = "real"
  /\ IF call[p] \in CountAfter
     THEN \E r \in Results : ret' = [ret EXCEPT ![p] = r]
     ELSE UNCHANGED ret
  /\ Goto(p, IF call[p] \in CountAfter THEN "check" ELSE "return")
  /\ UNCHANGED <<cur_pid, stats, call, tmp, at, made, clean, calls>>

(* Where a process goes when the counting is over. *)
Over(p) == IF call[p] \in CountFirst THEN "real" ELSE "return"

\* Faulty variant: every process is counted.
Traced_Any(p) == cur_pid # 0

Traced(p) == cur_pid = p

Check(p) ==
  /\ pc[p] = "check"
  /\ Goto(p, IF Traced(p) THEN "count" ELSE Over(p))
  /\ UNCHANGED <<cur_pid, stats, call, ret, tmp, at, made, clean, calls>>

(* o_cnt++, c_cnt++, r_cnt++, w_cnt++, l_cnt++ *)
Load(p) ==
  /\ pc[p] = "count"
  /\ tmp' = [tmp EXCEPT ![p] = stats[call[p]]]
  /\ Goto(p, "store")
  /\ UNCHANGED <<cur_pid, stats, call, ret, at, made, clean, calls>>

Store(p) ==
  /\ pc[p] = "store"
  /\ stats' = [stats EXCEPT ![call[p]] = tmp[p] + 1]
  /\ Goto(p, IF call[p] \in CountAfter THEN "add" ELSE Over(p))
  /\ tmp' = [tmp EXCEPT ![p] = 0]
  /\ UNCHANGED <<cur_pid, call, ret, at, made, clean, calls>>

(* read_b += read_return, write_b += write_return *)
LoadBytes(p) ==
  /\ pc[p] = "add"
  /\ tmp' = [tmp EXCEPT ![p] = stats[Bytes(call[p])]]
  /\ Goto(p, "sum")
  /\ UNCHANGED <<cur_pid, stats, call, ret, at, made, clean, calls>>

StoreBytes(p) ==
  /\ pc[p] = "sum"
  /\ stats' = [stats EXCEPT ![Bytes(call[p])] = tmp[p] + ret[p]]
  /\ Goto(p, Over(p))
  /\ tmp' = [tmp EXCEPT ![p] = 0]
  /\ UNCHANGED <<cur_pid, call, ret, at, made, clean, calls>>

Hooked(p) == Real(p) \/ Check(p) \/ Load(p) \/ Store(p) \/ LoadBytes(p) \/ StoreBytes(p)

my_ftrace(p) == \/ \E di \in Pids : my_ftrace_Start(p, di)
                \/ my_ftrace_Reset(p) \/ my_ftrace_Pid(p) \/ my_ftrace_End(p)

Next == \E p \in Pids : \/ my_ftrace(p)
                        \/ \E k \in Kinds : Enter(p, k)
                        \/ Hooked(p)
                        \/ Return(p)

Spec == Init /\ [][Next]_vars

-----------------------------------------------------------------------------

\* What os_ftrace(0) prints is what the traced process did.  It is so for every
\* kind of call that nobody else was about to count, or to set to 0, when cur_pid
\* changed, and that no other os_ftrace has begun to set to 0 since: what another
\* process is in the middle of spoils the counters of its own call, and no other.
\* The byte counters hold the bytes and, added to them, the error numbers.
TraceExact ==
  \A p \in Pids : cur_pid = p /\ pc[p] = "user" =>
    \A k \in clean : /\ stats[k] = made[k].cnt
                     /\ k \in CountAfter => stats[Bytes(k)] = made[k].bytes + made[k].errors

\* "store read bytes" (iotracehooking.c:32) and "store written bytes" (line 42):
\* the byte counters hold the bytes that the traced process has read and written.
BytesCounted ==
  \A p \in Pids : cur_pid = p /\ pc[p] = "user" =>
    \A k \in clean \cap CountAfter : stats[Bytes(k)] = made[k].bytes
=============================================================================
