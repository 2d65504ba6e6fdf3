---------------------------- MODULE SyscallTable ----------------------------
(***************************************************************************)
(* The kernel modules of Assignments 2-2, 2-3, 3-1 and 4-1 replace entries *)
(* of the system call table, save what they found, and write it back when  *)
(* they are unloaded.  hooking_init and hooking_exit of each module are    *)
(* the sequence of their accesses to the table and to the protection of    *)
(* its page; every access is one step, because nothing keeps two modules   *)
(* from being loaded at once or a process from calling in between.         *)
(***************************************************************************)
EXTENDS Integers, Sequences, SequencesExt

CONSTANTS Modules,    \* the modules that may be loaded, by the name of their file
          Callers     \* processes that make system calls

ModuleNames == {"os_ftracehooking", "ftracehooking", "iotracehooking",
                "Process_tracer", "file_varea"}

ASSUME ModulesAssumption == Modules \subseteq ModuleNames

Files == {"openat", "close", "read", "write", "lseek"}

Entries == Files \cup {"os_ftrace"}

KERNEL == "kernel"      \* the functions that the table holds at boot

NULL == "null"          \* a static pointer before it is assigned

GONE == "gone"          \* a pointer to a function of a module that was unloaded

(* The accesses that the two functions of each module make, in order. *)

Step(op, e) == [op |-> op, entry |-> e]

make_rw == <<Step("make_rw", NULL)>>

make_ro == <<Step("make_ro", NULL)>>

Hook(e) == <<Step("save", e), Step("replace", e)>>

Restore(e) == <<Step("restore", e)>>

os_ftracehooking_init == make_rw \o Hook("os_ftrace")

os_ftracehooking_exit == Restore("os_ftrace") \o make_ro

\* Faulty variant: the page is left writable.
ftracehooking_init_Open == make_rw \o Hook("os_ftrace")

ftracehooking_init == make_rw \o Hook("os_ftrace") \o make_ro

ftracehooking_exit == make_rw \o Restore("os_ftrace") \o make_ro

iotracehooking_init ==
  make_rw \o Hook("openat") \o Hook("close") \o Hook("read")
          \o Hook("write") \o Hook("lseek") \o make_ro

\* Faulty variant: lseek is not restored.
iotracehooking_exit_Four ==
  make_rw \o Restore("openat") \o Restore("close") \o Restore("read")
          \o Restore("write") \o make_ro

iotracehooking_exit ==
  make_rw \o Restore("openat") \o Restore("close") \o Restore("read")
          \o Restore("write") \o Restore("lseek") \o make_ro

Process_tracer_init == make_rw \o Hook("os_ftrace") \o make_ro

Process_tracer_exit == make_rw \o Restore("os_ftrace") \o make_ro

file_varea_init == make_rw \o Hook("os_ftrace") \o make_ro

file_varea_exit == make_rw \o Restore("os_ftrace") \o make_ro

hooking_init ==
  [os_ftracehooking |-> os_ftracehooking_init, ftracehooking |-> ftracehooking_init,
   iotracehooking |-> iotracehooking_init, Process_tracer |-> Process_tracer_init,
   file_varea |-> file_varea_init]

hooking_exit ==
  [os_ftracehooking |-> os_ftracehooking_exit, ftracehooking |-> ftracehooking_exit,
   iotracehooking |-> iotracehooking_exit, Process_tracer |-> Process_tracer_exit,
   file_varea |-> file_varea_exit]

(* ftracehooking.h: iotracehooking uses symbols that ftracehooking exports. *)
Needs(m) == IF m = "iotracehooking" THEN {"ftracehooking"} ELSE {}

(* Only the handlers of iotracehooking go on to what they replaced. *)
Forwards(m) == m = "iotracehooking"

VARIABLES table,      \* sys_call_table: whose function each entry is
          writable,   \* _PAGE_RW of its page
          real,       \* the pointers real_* of each module
          state,      \* of each module: out, init, live, exit, oops
          todo,       \* what is left of its hooking_init or hooking_exit
          call,       \* of each process: entry, functions it is inside, on its way back
          order,      \* history: the loaded modules, in the order of loading
          orderly,    \* history: modules were so far loaded and unloaded as they must be
          covered,    \* history: a module was loaded since os_ftracehooking was
          caught      \* history: processes that were inside a module when it went

history == <<order, orderly, covered, caught>>
vars == <<table, writable, real, state, todo, call, history>>

Busy == {m \in Modules : state[m] \in {"init", "exit"}}

Inside(m) == {p \in Callers : \E i \in DOMAIN call[p].stack : call[p].stack[i] = m}

Present(f) == f \notin {NULL, GONE}

NoCall == [entry |-> NULL, stack |-> <<>>, back |-> FALSE]

Init ==
  /\ table = [e \in Entries |-> KERNEL]
  /\ writable = FALSE
  /\ real = [m \in Modules |-> [e \in Entries |-> NULL]]
  /\ state = [m \in Modules |-> "out"]
  /\ todo = [m \in Modules |-> <<>>]
  /\ call = [p \in Callers |-> NoCall]
  /\ order = <<>>
  /\ orderly = TRUE
  /\ covered = FALSE
  /\ caught = {}

(* Loading.  It is orderly to load one module at a time. *)
insmod(m) ==
  /\ state[m] = "out"
  /\ \A d \in Needs(m) : d \in Modules /\ state[d] = "live"
  /\ state' = [state EXCEPT ![m] = "init"]
  /\ todo' = [todo EXCEPT ![m] = hooking_init[m]]
  /\ order' = Append(order, m)
  /\ orderly' = (orderly /\ Busy = {})
  /\ covered' = Contains(order, "os_ftracehooking")
  /\ UNCHANGED <<table, writable, real, call, caught>>

(* Unloading.  It is orderly to unload the module that was loaded last, alone. *)
rmmod(m) ==
  /\ state[m] = "live"
  /\ \A d \in Modules : m \in Needs(d) => state[d] = "out"
  /\ state' = [state EXCEPT ![m] = "exit"]
  /\ todo' = [todo EXCEPT ![m] = hooking_exit[m]]
  /\ orderly' = (orderly /\ Busy = {} /\ m = Last(order))
  /\ UNCHANGED <<table, writable, real, call, order, covered, caught>>

(* A write to the table while its page is read-only ends the loader. *)
Fault(m) ==
  /\ state' = [state EXCEPT ![m] = "oops"]
  /\ UNCHANGED <<table, writable, real, todo, call, history>>

Write(m, e, f) ==
  IF writable
  THEN /\ table' = [table EXCEPT ![e] = f]
       /\ todo' = [todo EXCEPT ![m] = Tail(@)]
       /\ UNCHANGED <<writable, real, state, call, history>>
  ELSE Fault(m)

SetPage(m, rw) ==
  /\ writable' = rw
  /\ todo' = [todo EXCEPT ![m] = Tail(@)]
  /\ UNCHANGED <<table, real, state, call, history>>

Save(m, e) ==
  /\ real' = [real EXCEPT ![m][e] = table[e]]
  /\ todo' = [todo EXCEPT ![m] = Tail(@)]
  /\ UNCHANGED <<table, writable, state, call, history>>

(* One access of the module's hooking_init or hooking_exit. *)
Access(m) ==
  /\ m \in Busy
  /\ todo[m] # <<>>
  /\ LET s == Head(todo[m]) IN
       \/ s.op = "make_rw" /\ SetPage(m, TRUE)
       \/ s.op = "make_ro" /\ SetPage(m, FALSE)
       \/ s.op = "save" /\ Save(m, s.entry)
       \/ s.op = "replace" /\ Write(m, s.entry, m)
       \/ s.op = "restore" /\ Write(m, s.entry, real[m][s.entry])

Loaded(m) ==
  /\ state[m] = "init" /\ todo[m] = <<>>
  /\ state' = [state EXCEPT ![m] = "live"]
  /\ UNCHANGED <<table, writable, real, todo, call, history>>

(***************************************************************************)
(* After hooking_exit the module's memory is freed, and what still points  *)
(* to its functions points nowhere.                                        *)
(***************************************************************************)
Unloaded(m) ==
  LET left(f) == IF f = m THEN GONE ELSE f IN
  /\ state[m] = "exit" /\ todo[m] = <<>>
  /\ state' = [state EXCEPT ![m] = "out"]
  /\ order' = SelectSeq(order, LAMBDA n : n # m)
  /\ covered' = (covered /\ m # "os_ftracehooking")
  /\ caught' = caught \cup Inside(m)
  /\ table' = [e \in Entries |-> left(table[e])]
  /\ real' = [n \in Modules |-> IF n = m THEN [e \in Entries |-> NULL]
                                ELSE [e \in Entries |-> left(real[n][e])]]
  /\ call' = [p \in Callers |->
                 [call[p] EXCEPT !.stack = [i \in DOMAIN @ |-> left(@[i])]]]
  /\ UNCHANGED <<writable, todo, orderly>>

(* A system call: the entry point jumps to what the table holds. *)
Call(p, e) ==
  /\ call[p] = NoCall
  /\ call' = [call EXCEPT ![p] = [entry |-> e, stack |-> <<table[e]>>,
                                  back |-> ~Forwards(table[e])]]
  /\ UNCHANGED <<table, writable, real, state, todo, history>>

(* ftrace_openat, ... call the function behind real_openat, ... *)
Forward(p) ==
  LET f == real[Last(call[p].stack)][call[p].entry] IN
  /\ call[p] # NoCall /\ ~call[p].back /\ Present(Last(call[p].stack))
  /\ call' = [call EXCEPT ![p].stack = Append(@, f), ![p].back = ~Forwards(f)]
  /\ UNCHANGED <<table, writable, real, state, todo, history>>

Return(p) ==
  /\ call[p].back /\ Present(Last(call[p].stack))
  /\ call' = [call EXCEPT ![p] = IF Len(@.stack) = 1 THEN NoCall
                                 ELSE [@ EXCEPT !.stack = Front(@)]]
  /\ caught' = IF Len(call[p].stack) = 1 THEN caught \ {p} ELSE caught
  /\ UNCHANGED <<table, writable, real, state, todo, order, orderly, covered>>

(* A process that runs into nothing is killed. *)
Crash(p) ==
  /\ call[p] # NoCall /\ ~Present(Last(call[p].stack))
  /\ call' = [call EXCEPT ![p] = NoCall]
  /\ caught' = caught \ {p}
  /\ UNCHANGED <<table, writable, real, state, todo, order, orderly, covered>>

Next ==
  \/ \E m \in Modules : insmod(m) \/ rmmod(m) \/ Access(m) \/ Loaded(m) \/ Unloaded(m)
  \/ \E p \in Callers : \/ \E e \in Entries : Call(p, e)
                        \/ Forward(p)
                        \/ Return(p)
                        \/ Crash(p)

Spec == Init /\ [][Next]_vars

-----------------------------------------------------------------------------

(* The modules that hold entry e now, the first loaded first. *)
Holders(e) ==
  LET hooked(m) == /\ \E i \in DOMAIN hooking_init[m] : hooking_init[m][i] = Step("replace", e)
                   /\ Step("replace", e) \notin Range(todo[m])
                   /\ state[m] = "exit" => Step("restore", e) \in Range(todo[m])
  IN  <<KERNEL>> \o SelectSeq(order, hooked)

\* While modules are loaded and unloaded one at a time, the last one first,
\* every entry is the function of the last module that hooked it and has not
\* restored it, whose real_* pointer is the one before, down to the kernel's own
\* function.  So the only system calls that reach or return into a module that
\* is gone are those that were inside it when it went; and the only write to
\* the table that meets a read-only page is that of os_ftracehooking when it is
\* unloaded after another module has come and gone and protected the page.
ChainsIntact ==
  orderly =>
    /\ \A m \in Modules : state[m] = "oops" => m = "os_ftracehooking" /\ covered
    /\ \A e \in Entries :
         LET h == Holders(e) IN
         /\ table[e] = Last(h)
         /\ \A i \in 2 .. Len(h) : real[h[i]][e] = h[i - 1]
    /\ \A p \in Callers \ caught : \A i \in DOMAIN call[p].stack : Present(call[p].stack[i])

\* The page of the table is writable only while some hooking_init or
\* hooking_exit is at work, or os_ftracehooking is loaded, in whatever order
\* and with whatever overlap modules come and go, and also after one of them
\* has faulted on a read-only page.
ProtectedAgain ==
  writable => Busy # {} \/ \E m \in Modules : m = "os_ftracehooking" /\ state[m] = "live"

\* "restore the real one": once every module is unloaded, each entry is the
\* kernel's own function again.
RealOnesRestored ==
  (\A m \in Modules : state[m] = "out") => \A e \in Entries : table[e] = KERNEL
=============================================================================
