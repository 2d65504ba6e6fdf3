------------------------------ MODULE FileVarea ------------------------------
(***************************************************************************)
(* file_varea of Assignment 4-1: the system call that prints the areas of  *)
(* a process.  It finds the task, follows mm->mmap to the first area and   *)
(* then vm_next, and takes neither a reference to the task or the mm nor   *)
(* its mmap_sem, so the process may map, unmap or exit, and be reaped,     *)
(* between any two reads.                                                  *)
(***************************************************************************)
EXTENDS Integers, Sequences, SequencesExt

CONSTANTS Areas,
          File,       \* the file of an area: "none", or a path of a length
          MaxChanges  \* bound: changes of the process during a call

(* What the model assumes of its constants. *)
FileAssumption == File \in [Areas -> {"none", "short", "long"}]

None == "none"

VARIABLES task,       \* there is a task_struct for the pid
          mm,         \* it has an address space (a kernel thread, or one that exits, has not)
          mmap,       \* its list of areas
          unlinked,   \* the area that is on the list and whose vm_next is not set yet
          pc, vm,     \* the call: the area it is at
          printed,    \* what it has printed, as long as it has not gone astray
          changes,    \* history: how often the process changed since the call began
          began,      \* history: the areas when the call came to mm->mmap
          stay,       \* history: those of them that are still there
          stray       \* history: what the call points to was freed or was not ready

history == <<changes, began, stay, stray>>
vars == <<task, mm, mmap, unlinked, pc, vm, printed, history>>

Init ==
  /\ task \in BOOLEAN
  /\ mm \in BOOLEAN /\ (mm => task)
  /\ mmap \in {l \in SeqOf(Areas, 3) : IsInjective(l)} /\ (~mm => mmap = << >>)
  /\ unlinked = None
  /\ pc = "user" /\ vm = None /\ printed = << >>
  /\ changes = 0 /\ began = << >> /\ stay = {} /\ stray = FALSE

process == <<task, mm, mmap, unlinked>>

(* pid_task, and the title. *)
file_varea ==
  /\ pc = "user"
  /\ pc' = IF task THEN "found" ELSE "error"
  /\ UNCHANGED <<process, vm, printed, history>>

(* Memory that was freed is read: it faults, or holds any pointer. *)
FollowFreed(l) ==
  /\ stray' = TRUE
  /\ \/ pc' = "oops" /\ UNCHANGED vm
     \/ pc' = l /\ vm' \in Areas \cup {None}

(* vm = pcb->mm->mmap; no address space means a NULL pointer. *)
FirstArea ==
  /\ pc = "found"
  /\ began' = mmap /\ stay' = Range(mmap)
  /\ \/ ~task /\ FollowFreed("walk")
     \/ task /\ ~mm /\ pc' = "oops" /\ UNCHANGED <<vm, stray>>
     \/ /\ task /\ mm /\ pc' = "walk"
        /\ vm' = IF mmap = << >> THEN None ELSE mmap[1]
        /\ UNCHANGED stray
  /\ UNCHANGED <<process, printed, changes>>

(* d_path fills 100 bytes at most; printk shows an error pointer as "(efault)". *)
file_name(a) == CASE File[a] = "none"  -> "no file"
                  [] File[a] = "short" -> "path"
                  [] File[a] = "long"  -> "(efault)"

\* Faulty variant: areas without a file are left out.
PrintArea_Files ==
  /\ pc = "walk" /\ vm \in Range(mmap)
  /\ printed' = IF stray \/ File[vm] = "none" THEN printed ELSE Append(printed, <<vm, file_name(vm)>>)
  /\ pc' = "next"
  /\ UNCHANGED <<process, vm, history>>

PrintArea ==
  /\ pc = "walk" /\ vm \in Range(mmap)
  /\ printed' = IF stray THEN printed ELSE Append(printed, <<vm, file_name(vm)>>)
  /\ pc' = "next"
  /\ UNCHANGED <<process, vm, history>>

(* The area is gone: what is in its memory is printed, or faults. *)
PrintFreed ==
  /\ pc = "walk" /\ vm # None /\ vm \notin Range(mmap)
  /\ pc' \in {"oops", "next"}
  /\ UNCHANGED <<process, vm, printed, history>>

After(a) == LET n == CHOOSE k \in DOMAIN mmap : mmap[k] = a IN
            IF n = Len(mmap) \/ a = unlinked THEN None ELSE mmap[n + 1]

(* vm = vm->vm_next *)
NextArea ==
  /\ pc = "next"
  /\ \/ vm \notin Range(mmap) /\ FollowFreed("walk")
     \/ /\ vm \in Range(mmap)
        /\ vm' = After(vm) /\ pc' = "walk"
        /\ stray' = (stray \/ vm = unlinked)
  /\ UNCHANGED <<process, printed, changes, began, stay>>

PrintEnd ==
  /\ pc = "walk" /\ vm = None
  /\ pc' = "returned"
  /\ UNCHANGED <<process, vm, printed, history>>

(* The caller goes on. *)
Leave ==
  /\ pc \in {"error", "returned", "oops"}
  /\ pc' = "user" /\ printed' = << >> /\ vm' = None
  /\ changes' = 0 /\ began' = << >> /\ stay' = {} /\ stray' = FALSE
  /\ UNCHANGED process

(***************************************************************************)
(* External: the process maps, unmaps, exits and is reaped.  A new area is *)
(* put behind its predecessor first, and gets its own vm_next afterwards;  *)
(* mmap_sem keeps other changes away in between.                           *)
(***************************************************************************)
Change ==
  /\ IF pc = "user" THEN UNCHANGED changes
     ELSE changes < MaxChanges /\ changes' = changes + 1
  /\ UNCHANGED <<pc, vm, printed, began>>

Map ==
  /\ mm /\ unlinked = None
  /\ \E a \in Areas \ Range(mmap), n \in 1..(Len(mmap) + 1) :
       mmap' = InsertAt(mmap, n, a) /\ unlinked' = a
  /\ Change /\ UNCHANGED <<task, mm, stay, stray>>

Link ==
  /\ unlinked # None /\ unlinked' = None
  /\ UNCHANGED <<task, mm, mmap, pc, vm, printed, history>>

(* The areas of S are freed, one of which the call may be at. *)
Free(S) ==
  /\ stay' = stay \ S
  /\ stray' = (stray \/ (pc \in {"walk", "next"} /\ vm \in S))

Unmap ==
  /\ mm /\ unlinked = None
  /\ \E n \in DOMAIN mmap : mmap' = RemoveAt(mmap, n) /\ Free({mmap[n]})
  /\ Change /\ UNCHANGED <<task, mm, unlinked>>

Exit ==
  /\ mm /\ unlinked = None
  /\ mm' = FALSE /\ mmap' = << >> /\ Free(Range(mmap))
  /\ Change /\ UNCHANGED <<task, unlinked>>

Reap ==
  /\ task /\ ~mm /\ task' = FALSE
  /\ Change /\ UNCHANGED <<mm, mmap, unlinked, stay, stray>>

Walk == FirstArea \/ PrintArea \/ PrintFreed \/ NextArea \/ PrintEnd

Next == file_varea \/ Walk \/ Leave \/ Map \/ Link \/ Unmap \/ Exit \/ Reap

Spec == Init /\ [][Next]_vars

-----------------------------------------------------------------------------

(* An area that has no file is said to have none; a path that fits is printed. *)
RightName(a, n) == /\ n = "no file" <=> File[a] = "none"
                   /\ n = "path" <=> File[a] = "short"

\* Although file_varea takes no lock, the areas that stay mapped from mm->mmap to
\* the end are printed, each once, in the order of the list and with the right
\* name, whatever is mapped and unmapped around them.  The exceptions are these:
\* the area that the call is at is freed, or it is a new one whose vm_next is
\* not set, or the task is reaped between the lookup and the use of its mm.  And
\* apart from them the call faults only for a task that has no address space.
StayingListed ==
  ~stray =>
    /\ pc = "returned" =>
         LET areas == [n \in DOMAIN printed |-> printed[n][1]]
             Staying(l) == SelectSeq(l, LAMBDA a : a \in stay)
         IN Staying(areas) = Staying(began)
    /\ \A n \in DOMAIN printed : RightName(printed[n][1], printed[n][2])
    /\ pc = "oops" => ~mm
=============================================================================
