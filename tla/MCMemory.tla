------------------------------ MODULE MCMemory ------------------------------
(***************************************************************************)
(* Three parts of fork.c about a task's memory side by side: the vfork     *)
(* handshake, the life of an mm_struct and the copy of one.  They share no *)
(* variable, so one of them moves and the others stay where they begin.    *)
(***************************************************************************)
EXTENDS Vfork, Sequences

CONSTANTS Tasks, First, Observers, Kthreads, Exes, FirstFile,   \* the life
          Lists, Files                                          \* the copy

VARIABLES part,
          m_users, mm_count, task, m_lock, observer, seen, lazy, oom_mm, tear, mapped, exe_file,
          m_f_count, closed, work, freed,
          pc, mmap, i, new, total_vm, tmp, charge, held, committed, f_count, i_writecount,
          i_mmap_writable, areas, policies, modules

Mm == INSTANCE MmLife WITH mm_users <- m_users, lock <- m_lock, f_count <- m_f_count, Files <- Exes
Dup == INSTANCE DupMmap

mvars == <<m_users, mm_count, task, m_lock, observer, seen, lazy, oom_mm, tear, mapped, exe_file,
           m_f_count, closed, work, freed>>
dvars == <<pc, mmap, i, new, total_vm, tmp, charge, held, committed, f_count, i_writecount,
           i_mmap_writable, areas, policies, modules>>

ASSUME MemoryAssumption == Mm!MmAssumption /\ Dup!AreaAssumption

A(flags, pages, file) == [flags |-> flags, pages |-> pages, file |-> file]

Code == A({"DENYWRITE"}, 3, "exe")

Data == A({"ACCOUNT"}, 2, "exe")

Heap == A({"ACCOUNT"}, 1, "none")

Shared == A({"SHARED"}, 2, "lib")

Device == A({"DONTCOPY", "SHARED"}, 4, "lib")

Wiped == A({"ACCOUNT", "WIPEONFORK"}, 1, "none")

(* All lists of up to three of these areas. *)
MCLists == UNION {[1..n -> {Code, Data, Heap, Shared, Device, Wiped}] : n \in 1..3}

MemoryInit ==
  /\ part \in {"vfork", "life", "copy"}
  /\ Init /\ Mm!Init /\ Dup!Init
  /\ part # "copy" => mmap = <<Heap>>

MemoryNext ==
  \/ part = "vfork" /\ Next /\ UNCHANGED <<mvars, dvars, part>>
  \/ part = "life" /\ Mm!Next /\ UNCHANGED <<vars, dvars, part>>
  \/ part = "copy" /\ Dup!Next /\ UNCHANGED <<vars, mvars, part>>

MemorySpec == /\ MemoryInit /\ [][MemoryNext]_<<vars, mvars, dvars, part>>
              /\ part = "vfork" => Fairness
              /\ part = "life" => Mm!Fairness

\* See MmLife: nobody uses what is gone.
MmSafe == Mm!MmSafe

\* See MmLife: the memory and the structure are released in the end.
EventuallyFreed == part = "life" => Mm!EventuallyFreed

\* See Vfork: the parent goes on in the end.
VforkEnds == part = "vfork" => ParentResumes

\* See DupMmap: dup_mm succeeds altogether or leaves no trace.
AllOrNothing == Dup!AllOrNothing
=============================================================================
