------------------------- MODULE SyscallTableProofs -------------------------
(***************************************************************************)
(* A proof about module SyscallTable, for every set of modules and callers *)
(* and for every order and overlap of loading and unloading: the page of   *)
(* the system call table does not stay writable.                           *)
(***************************************************************************)
EXTENDS SyscallTable, SequenceTheorems, TLAPS

Protect == Step("make_ro", NULL)

Accesses == [op : {"make_rw", "make_ro", "save", "replace", "restore"}, entry : Entries \cup {NULL}]

(* The page is protected at the end of what is left to do. *)
Closing(s) == s # <<>> => s[Len(s)] = Protect

PageTypes ==
  /\ DOMAIN state = Modules
  /\ todo \in [Modules -> Seq(Accesses)]

(***************************************************************************)
(* ProtectedAgain is not inductive: who opened the page must still have    *)
(* the access before it that closes the page.                              *)
(***************************************************************************)
Closes(m) ==
  \/ state[m] \in {"init", "exit"} /\ todo[m] # <<>> /\ todo[m][Len(todo[m])] = Protect
  \/ m = "os_ftracehooking" /\ state[m] \in {"init", "live"}

PageInv ==
  /\ PageTypes
  /\ \A m \in Modules : state[m] = "exit" \/ (state[m] = "init" /\ m # "os_ftracehooking") => Closing(todo[m])
  /\ writable => \E m \in Modules : Closes(m)

-----------------------------------------------------------------------------

\* An access is one of the five.
LEMMA AccessTypes ==
  /\ make_rw \in Seq(Accesses) /\ make_ro \in Seq(Accesses) /\ Len(make_ro) = 1 /\ make_ro[1] = Protect
  /\ \A e \in Entries : Hook(e) \in Seq(Accesses) /\ Restore(e) \in Seq(Accesses)
  BY DEF make_rw, make_ro, Protect, Step, Accesses, Hook, Restore

\* What ends with make_ro protects the page at its end.
LEMMA EndsClosed ==
  ASSUME NEW s \in Seq(Accesses)
  PROVE  s \o make_ro \in Seq(Accesses) /\ s \o make_ro # <<>> /\ Closing(s \o make_ro)
<1>1. make_ro \in Seq(Accesses) /\ Len(make_ro) = 1 /\ make_ro[1] = Protect
  BY AccessTypes, Zenon
<1>2. /\ s \o make_ro \in Seq(Accesses)
      /\ Len(s \o make_ro) = Len(s) + Len(make_ro)
      /\ \A i \in 1 .. Len(s) + Len(make_ro) :
           (s \o make_ro)[i] = IF i <= Len(s) THEN s[i] ELSE make_ro[i - Len(s)]
  <2>1. \A S : \A s1, s2 \in Seq(S) :
          /\ s1 \o s2 \in Seq(S)
          /\ Len(s1 \o s2) = Len(s1) + Len(s2)
          /\ \A i \in 1 .. Len(s1) + Len(s2) : (s1 \o s2)[i] = IF i <= Len(s1) THEN s1[i] ELSE s2[i - Len(s1)]
    BY ConcatProperties, Zenon
  <2> QED
    BY <1>1, <2>1, Zenon
<1>3. PICK z : z = s \o make_ro
  BY Zenon
<1>4. z \in Seq(Accesses) /\ Len(z) = Len(s) + 1 /\ z[Len(s) + 1] = Protect
  BY <1>1, <1>2, <1>3
<1> QED
  BY <1>3, <1>4 DEF Closing

\* The functions of the modules end with make_ro, except one.
LEMMA Scripts ==
  ASSUME NEW m \in ModuleNames
  PROVE  /\ hooking_init[m] \in Seq(Accesses) /\ hooking_exit[m] \in Seq(Accesses)
         /\ m # "os_ftracehooking" => Closing(hooking_init[m])
         /\ hooking_exit[m] # <<>> /\ Closing(hooking_exit[m])
<1>1. \A e \in Files \cup {"os_ftrace"} : e \in Entries
  BY Zenon DEF Entries
<1>2. /\ os_ftracehooking_init \in Seq(Accesses)
      /\ os_ftracehooking_exit \in Seq(Accesses) /\ os_ftracehooking_exit # <<>> /\ Closing(os_ftracehooking_exit)
  BY <1>1, AccessTypes, EndsClosed DEF os_ftracehooking_init, os_ftracehooking_exit
<1>3. \A e \in Entries : /\ make_rw \o Hook(e) \in Seq(Accesses)
                         /\ make_rw \o Restore(e) \in Seq(Accesses)
  BY AccessTypes
<1>4. /\ ftracehooking_init \in Seq(Accesses) /\ Closing(ftracehooking_init)
      /\ ftracehooking_exit \in Seq(Accesses) /\ ftracehooking_exit # <<>> /\ Closing(ftracehooking_exit)
  BY <1>1, <1>3, EndsClosed, Zenon DEF ftracehooking_init, ftracehooking_exit
<1>5. /\ Process_tracer_init \in Seq(Accesses) /\ Closing(Process_tracer_init)
      /\ Process_tracer_exit \in Seq(Accesses) /\ Process_tracer_exit # <<>> /\ Closing(Process_tracer_exit)
  BY <1>1, <1>3, EndsClosed, Zenon DEF Process_tracer_init, Process_tracer_exit
<1>6. /\ file_varea_init \in Seq(Accesses) /\ Closing(file_varea_init)
      /\ file_varea_exit \in Seq(Accesses) /\ file_varea_exit # <<>> /\ Closing(file_varea_exit)
  BY <1>1, <1>3, EndsClosed, Zenon DEF file_varea_init, file_varea_exit
<1>7. /\ iotracehooking_init \in Seq(Accesses) /\ Closing(iotracehooking_init)
      /\ iotracehooking_exit \in Seq(Accesses) /\ iotracehooking_exit # <<>> /\ Closing(iotracehooking_exit)
  <2>1. {"openat", "close", "read", "write", "lseek"} \subseteq Entries
    BY <1>1, Zenon DEF Files
  <2>2. make_rw \o Hook("openat") \o Hook("close") \o Hook("read") \o Hook("write") \o Hook("lseek") \in Seq(Accesses)
    BY <2>1, AccessTypes
  <2>3. make_rw \o Restore("openat") \o Restore("close") \o Restore("read") \o Restore("write") \o Restore("lseek")
          \in Seq(Accesses)
    BY <2>1, AccessTypes
  <2> QED
    BY <2>2, <2>3, EndsClosed, Zenon DEF iotracehooking_init, iotracehooking_exit
<1> QED
  BY <1>2, <1>4, <1>5, <1>6, <1>7 DEF ModuleNames, hooking_init, hooking_exit

\* Taking the first of several accesses leaves the last one.
LEMMA TailCloses ==
  ASSUME NEW s \in Seq(Accesses), s # <<>>, Closing(s), s[1] # Protect
  PROVE  Tail(s) \in Seq(Accesses) /\ Tail(s) # <<>> /\ Closing(Tail(s))
<1>1. Len(s) # 1
  BY Zenon DEF Closing
<1>2. Len(s) \in Nat /\ Len(s) > 1
  BY <1>1
<1>3. /\ Tail(s) \in Seq(Accesses) /\ Len(Tail(s)) = Len(s) - 1
      /\ \A i \in 1 .. Len(s) - 1 : Tail(s)[i] = s[i + 1]
  BY HeadTailProperties, Zenon
<1> QED
  BY <1>2, <1>3 DEF Closing

\* At the beginning the page is protected.
LEMMA InitPageInv ==
  Init => PageInv
  BY DEF Init, PageInv, PageTypes

\* No step leaves the page writable with nobody to protect it again.
LEMMA StepPageInv ==
  PageInv /\ [Next]_vars => PageInv'
<1> SUFFICES ASSUME PageInv, [Next]_vars
             PROVE  PageInv'
  BY Zenon
<1>1. ASSUME UNCHANGED <<writable, state, todo>>
      PROVE  PageInv'
  BY <1>1, Zenon DEF PageInv, PageTypes, Closes
<1>2. CASE UNCHANGED vars
  BY <1>1, <1>2, Zenon DEF vars
<1>3. ASSUME NEW p \in Callers, (\E e \in Entries : Call(p, e)) \/ Forward(p) \/ Return(p) \/ Crash(p)
      PROVE  PageInv'
  BY <1>1, <1>3, Zenon DEF Call, Forward, Return, Crash
<1>4. ASSUME NEW m \in Modules, insmod(m) PROVE PageInv'
  <2>1. hooking_init[m] \in Seq(Accesses) /\ (m # "os_ftracehooking" => Closing(hooking_init[m]))
    BY Scripts, ModulesAssumption, Zenon
  <2>2. \A n \in Modules : Closes(n) => Closes(n)'
    BY <1>4, Zenon DEF insmod, Closes, PageInv, PageTypes
  <2> QED
    BY <1>4, <2>1, <2>2, Zenon DEF insmod, PageInv, PageTypes
<1>5. ASSUME NEW m \in Modules, rmmod(m) PROVE PageInv'
  <2>1. hooking_exit[m] \in Seq(Accesses) /\ hooking_exit[m] # <<>> /\ Closing(hooking_exit[m])
    BY Scripts, ModulesAssumption, Zenon
  <2>2. \A n \in Modules : Closes(n) => Closes(n)'
    BY <1>5, <2>1, Zenon DEF rmmod, Closes, PageInv, PageTypes, Closing
  <2> QED
    BY <1>5, <2>1, <2>2, Zenon DEF rmmod, PageInv, PageTypes
<1>6. ASSUME NEW m \in Modules, Loaded(m) PROVE PageInv'
  <2>1. \A n \in Modules : Closes(n) => Closes(n)'
    BY <1>6, Zenon DEF Loaded, Closes, PageInv, PageTypes
  <2> QED
    BY <1>6, <2>1, Zenon DEF Loaded, PageInv, PageTypes
<1>7. ASSUME NEW m \in Modules, Unloaded(m) PROVE PageInv'
  <2>1. /\ state[m] = "exit" /\ todo[m] = <<>>
        /\ state' = [state EXCEPT ![m] = "out"] /\ UNCHANGED <<writable, todo>>
    BY <1>7, Zenon DEF Unloaded
  <2>2. \A n \in Modules : Closes(n) => Closes(n)'
    BY <2>1, Zenon DEF Closes, PageInv, PageTypes
  <2> QED
    BY <2>1, <2>2, Zenon DEF PageInv, PageTypes
<1>8. ASSUME NEW m \in Modules, Access(m) PROVE PageInv'
  <2>1. m \in Busy /\ todo[m] # <<>> /\ todo[m] \in Seq(Accesses) /\ Head(todo[m]) = todo[m][1]
        /\ Head(todo[m]) \in Accesses
    BY <1>8 DEF Access, PageInv, PageTypes
  <2>2. CASE ~writable /\ Fault(m)
    BY <2>2, Zenon DEF Fault, PageInv, PageTypes
  <2>3. CASE Head(todo[m]).op = "make_ro" /\ SetPage(m, FALSE)
    <3>1. Tail(todo[m]) \in Seq(Accesses) /\ (Closing(todo[m]) => Closing(Tail(todo[m])))
      <4>1. /\ Tail(todo[m]) \in Seq(Accesses) /\ Len(Tail(todo[m])) = Len(todo[m]) - 1
            /\ \A i \in 1 .. Len(todo[m]) - 1 : Tail(todo[m])[i] = todo[m][i + 1]
        BY <2>1, HeadTailProperties, Zenon
      <4> QED
        BY <2>1, <4>1 DEF Closing
    <3> QED
      BY <2>3, <3>1, Zenon DEF SetPage, PageInv, PageTypes
  <2>4. CASE /\ Head(todo[m]).op # "make_ro"
             /\ todo' = [todo EXCEPT ![m] = Tail(@)] /\ UNCHANGED state
             /\ writable' \in {writable, TRUE}
    <3>1. todo[m][1] # Protect
      BY <2>1, <2>4 DEF Protect, Step
    <3>2. /\ Tail(todo[m]) \in Seq(Accesses)
          /\ Closing(todo[m]) => Tail(todo[m]) # <<>> /\ Closing(Tail(todo[m]))
      BY <2>1, <3>1, TailCloses
    <3>3. Closes(m)'
      BY <2>1, <2>4, <3>2, Zenon DEF Closes, PageInv, PageTypes, Closing, Busy
    <3> QED
      BY <2>4, <3>2, <3>3, Zenon DEF PageInv, PageTypes
  <2> QED
    BY <1>8, <2>2, <2>3, <2>4, Zenon DEF Access, SetPage, Save, Write
<1> QED
  BY <1>2, <1>3, <1>4, <1>5, <1>6, <1>7, <1>8, Zenon DEF Next

-----------------------------------------------------------------------------

\* However modules are loaded and unloaded, one after the other or at the same
\* time, the page of the table is writable only while a hooking_init or
\* hooking_exit is at work, or os_ftracehooking, whose hooking_init does not
\* call make_ro, is loaded; a fault of another module leaves it protected.
THEOREM PageProtectedAgain ==
  Spec => []ProtectedAgain
<1>1. PageInv => ProtectedAgain
  BY Zenon DEF PageInv, ProtectedAgain, Closes, Busy
<1> QED
  BY <1>1, InitPageInv, StepPageInv, PTL DEF Spec
=============================================================================
