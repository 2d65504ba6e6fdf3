------------------------------- MODULE DupMmap -------------------------------
(***************************************************************************)
(* dup_mm of fork.c: a new mm_struct, and dup_mmap, which copies the list  *)
(* of memory areas area by area.  Anything may fail on the way, and the    *)
(* caller may be killed; what was done for the area in work is undone by   *)
(* the labels of dup_mmap, and what was linked before by the mmput at      *)
(* free_pt.  The parent's binary format is a module, and every area has a  *)
(* policy; the parent's list cannot change while its mmap_sem is held.     *)
(***************************************************************************)
EXTENDS Integers, Sequences, FiniteSets, SequencesExt, FiniteSetsExt

CONSTANTS Lists,     \* lists of areas the parent may have
          Files

None == "none"

(* What the model assumes of its constants. *)
AreaAssumption ==
  \A l \in Lists : \A i \in DOMAIN l :
    /\ l[i].flags \subseteq {"DONTCOPY", "ACCOUNT", "WIPEONFORK", "DENYWRITE", "SHARED"}
    /\ l[i].pages \in Nat
    /\ l[i].file \in Files \cup {None}

VARIABLES pc,          \* the step of dup_mm and dup_mmap
          mmap,        \* the parent's list
          i,           \* the area it copies, mpnt
          new,         \* the child's list
          total_vm,
          tmp,         \* what the area in work holds
          charge,      \* pages accounted for it
          held,        \* locks and the pieces of the new mm
          committed,   \* pages accounted in the system
          f_count, i_writecount, i_mmap_writable,
          areas, policies, modules

sys == <<committed, f_count, i_writecount, i_mmap_writable, areas, policies, modules>>
vars == <<pc, mmap, i, new, total_vm, tmp, charge, held, sys>>

Pages(l) == FoldLeft(LAMBDA n, a : n + a.pages, 0, l)

With(l, flag) == SelectSeq(l, LAMBDA a : flag \in a.flags)

Of(l, f) == SelectSeq(l, LAMBDA a : a.file = f)

(***************************************************************************)
(* What the lists of a number of processes account for.                    *)
(***************************************************************************)
Holds(ls) ==
  /\ committed = Pages(With(ls, "ACCOUNT"))
  /\ f_count = [f \in Files |-> Len(Of(ls, f))]
  /\ i_writecount = [f \in Files |-> 0 - Len(With(Of(ls, f), "DENYWRITE"))]
  /\ i_mmap_writable = [f \in Files |-> Len(With(Of(ls, f), "SHARED"))]
  /\ areas = Len(ls)
  /\ policies = Len(ls)

Init ==
  /\ mmap \in Lists
  /\ pc = "user" /\ i = 1 /\ new = << >> /\ total_vm = 0
  /\ tmp = {} /\ charge = 0 /\ held = {}
  /\ Holds(mmap)
  /\ modules = 1

(* The page directory and the context of the new mm; either may fail, and then nothing is kept. *)
mm_init ==
  \/ pc' = "dup_mmap" /\ held' = {"mm", "pgd", "context"}
  \/ pc' = "failed" /\ UNCHANGED held

Locks == {"oldsem", "sem", "uprobe"}

(* allocate_mm, which may fail too; the copy of the parent's mm brings its total_vm. *)
dup_mm ==
  /\ pc = "user"
  /\ mm_init
  /\ total_vm' = IF pc' = "failed" THEN 0 ELSE Pages(mmap)
  /\ UNCHANGED <<mmap, i, new, tmp, charge, sys>>

(* uprobe_start_dup_mmap, which fail_uprobe_end ends; the two locks, the    *)
(* executable, ksm_fork and khugepaged_fork.                                *)
dup_mmap ==
  /\ pc = "dup_mmap"
  /\ \/ pc' = "free_pt" /\ UNCHANGED <<held, total_vm>>      \* down_write_killable
     \/ /\ held' = held \cup Locks \cup {"exe_file"}
        /\ total_vm' = Pages(mmap)
        /\ \/ pc' = "loop"
           \/ pc' = "out_fail"
  /\ UNCHANGED <<mmap, i, new, tmp, charge, sys>>

mpnt == mmap[i]

SkipArea ==
  /\ pc = "loop" /\ i <= Len(mmap) /\ "DONTCOPY" \in mpnt.flags
  /\ total_vm' = total_vm - mpnt.pages
  /\ i' = i + 1
  /\ UNCHANGED <<pc, mmap, new, tmp, charge, held, sys>>

(* A fatal signal, or security_vm_enough_memory_mm, which accounts the pages. *)
StartArea ==
  /\ pc = "loop" /\ i <= Len(mmap) /\ "DONTCOPY" \notin mpnt.flags
  /\ LET len == IF "ACCOUNT" \in mpnt.flags THEN mpnt.pages ELSE 0 IN
     \/ pc' = "out_fail" /\ charge' = 0 /\ UNCHANGED committed
     \/ pc' = "fail_nomem" /\ charge' = 0 /\ len > 0 /\ UNCHANGED committed
     \/ pc' = "vma" /\ charge' = len /\ committed' = committed + len
  /\ UNCHANGED <<mmap, i, new, total_vm, tmp, held, f_count, i_writecount, i_mmap_writable, areas,
                 policies, modules>>

vm_area_dup ==
  /\ pc = "vma"
  /\ \/ pc' = "policy" /\ areas' = areas + 1 /\ tmp' = {"area"}
     \/ pc' = "fail_nomem" /\ UNCHANGED <<areas, tmp>>
  /\ UNCHANGED <<mmap, i, new, total_vm, charge, held, committed, f_count, i_writecount,
                 i_mmap_writable, policies, modules>>

vma_dup_policy ==
  /\ pc = "policy"
  /\ \/ pc' = "anon" /\ policies' = policies + 1 /\ tmp' = tmp \cup {"policy"}
     \/ pc' = "fail_nomem_policy" /\ UNCHANGED <<policies, tmp>>
  /\ UNCHANGED <<mmap, i, new, total_vm, charge, held, committed, f_count, i_writecount,
                 i_mmap_writable, areas, modules>>

(* dup_userfaultfd, anon_vma_prepare or anon_vma_fork *)
AnonVma ==
  /\ pc = "anon"
  /\ pc' \in {"link", "fail_nomem_anon_vma_fork"}
  /\ UNCHANGED <<mmap, i, new, total_vm, tmp, charge, held, sys>>

Add(count, f, n) == IF f = None THEN count ELSE [count EXCEPT ![f] = @ + n]

Is(flag) == IF flag \in mpnt.flags THEN 1 ELSE 0

(* get_file and the counts of the file; then the area is linked and its pages are copied. *)
LinkArea ==
  /\ pc = "link"
  /\ f_count' = Add(f_count, mpnt.file, 1)
  /\ i_writecount' = Add(i_writecount, mpnt.file, 0 - Is("DENYWRITE"))
  /\ i_mmap_writable' = Add(i_mmap_writable, mpnt.file, Is("SHARED"))
  /\ new' = Append(new, mpnt)
  /\ tmp' = {}
  /\ charge' = 0
  /\ \/ pc' = "loop" /\ i' = i + 1
     \/ pc' = "out_fail" /\ "WIPEONFORK" \notin mpnt.flags /\ UNCHANGED i      \* copy_page_range
  /\ UNCHANGED <<mmap, total_vm, held, committed, areas, policies, modules>>

\* Faulty variant: the accounted pages are not given back.
UndoArea_KeepCharge ==
  /\ pc \in {"fail_nomem_anon_vma_fork", "fail_nomem_policy", "fail_nomem"}
  /\ policies' = IF pc = "fail_nomem_anon_vma_fork" THEN policies - 1 ELSE policies
  /\ areas' = IF pc # "fail_nomem" THEN areas - 1 ELSE areas
  /\ tmp' = {} /\ charge' = 0
  /\ pc' = "out_fail"
  /\ UNCHANGED <<mmap, i, new, total_vm, held, committed, f_count, i_writecount, i_mmap_writable, modules>>

(* The labels, each falling into the next. *)
UndoArea ==
  /\ pc \in {"fail_nomem_anon_vma_fork", "fail_nomem_policy", "fail_nomem"}
  /\ policies' = IF pc = "fail_nomem_anon_vma_fork" THEN policies - 1 ELSE policies
  /\ areas' = IF pc # "fail_nomem" THEN areas - 1 ELSE areas
  /\ committed' = committed - charge
  /\ tmp' = {} /\ charge' = 0
  /\ pc' = "out_fail"
  /\ UNCHANGED <<mmap, i, new, total_vm, held, f_count, i_writecount, i_mmap_writable, modules>>

(* out: arch_dup_mmap may still fail. *)
Out ==
  /\ \/ pc = "out_fail" /\ pc' = "free_pt"
     \/ pc = "loop" /\ i > Len(mmap) /\ pc' \in {"binfmt", "free_pt"}
  /\ held' = held \ Locks
  /\ UNCHANGED <<mmap, i, new, total_vm, tmp, charge, sys>>

try_module_get ==
  /\ pc = "binfmt"
  /\ \/ pc' = "done" /\ modules' = modules + 1
     \/ pc' = "free_pt" /\ UNCHANGED modules
  /\ UNCHANGED <<mmap, i, new, total_vm, tmp, charge, held, committed, f_count, i_writecount,
                 i_mmap_writable, areas, policies>>

(* What unmapping a list gives back (exit_mmap, external). *)
Unmap(l) ==
  /\ committed' = committed - Pages(With(l, "ACCOUNT"))
  /\ f_count' = [f \in Files |-> f_count[f] - Len(Of(l, f))]
  /\ i_writecount' = [f \in Files |-> i_writecount[f] + Len(With(Of(l, f), "DENYWRITE"))]
  /\ i_mmap_writable' = [f \in Files |-> i_mmap_writable[f] - Len(With(Of(l, f), "SHARED"))]
  /\ areas' = areas - Len(l)
  /\ policies' = policies - Len(l)

(* free_pt: binfmt is cleared, so that mmput does not put a module it has not got. *)
free_pt ==
  /\ pc = "free_pt"
  /\ Unmap(new)
  /\ new' = << >>
  /\ total_vm' = 0
  /\ held' = held \cap Locks
  /\ pc' = "failed"
  /\ UNCHANGED <<mmap, i, tmp, charge, modules>>

(* The child exits: mmput with the module it holds. *)
ChildExits ==
  /\ pc = "done"
  /\ Unmap(new)
  /\ modules' = modules - 1
  /\ new' = << >> /\ total_vm' = 0 /\ held' = held \cap Locks /\ i' = 1
  /\ pc' = "user"
  /\ UNCHANGED <<mmap, tmp, charge>>

Retry ==
  /\ pc = "failed"
  /\ pc' = "user" /\ i' = 1
  /\ UNCHANGED <<mmap, new, total_vm, tmp, charge, held, sys>>

Next == \/ dup_mm \/ dup_mmap \/ SkipArea \/ StartArea \/ vm_area_dup \/ vma_dup_policy \/ AnonVma
        \/ LinkArea \/ UndoArea \/ Out \/ try_module_get \/ free_pt \/ ChildExits \/ Retry

Spec == Init /\ [][Next]_vars

-----------------------------------------------------------------------------

Copied(l) == SelectSeq(l, LAMBDA a : "DONTCOPY" \notin a.flags)

\* dup_mm succeeds altogether or leaves no trace: if it fails, wherever, all
\* pages that are accounted, all counts of files, policies and modules are those
\* of the parent alone; if it succeeds, they are those of both lists, the child
\* has the parent's areas without those marked DONTCOPY, in their order, total_vm
\* is the sum of its areas, and no lock is held.
AllOrNothing ==
  /\ pc \in {"user", "failed"} => Holds(mmap) /\ modules = 1 /\ held = {}
  /\ pc = "done" => /\ new = Copied(mmap)
                    /\ Holds(mmap \o new) /\ modules = 2
                    /\ total_vm = Pages(new)
                    /\ held \cap Locks = {}
=============================================================================
