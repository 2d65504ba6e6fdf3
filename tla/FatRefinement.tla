---------------------------- MODULE FatRefinement ----------------------------
(***************************************************************************)
(* Module Fat implements module FileSystem.  A command of fat.c takes      *)
(* effect, in the abstract file system, when it has found its file: the    *)
(* refinement mapping completes a write, a read or a delete that is under  *)
(* way by what the loops still have to do.                                 *)
(***************************************************************************)
EXTENDS Fat, FiniteSets

\* The text in the blocks from b on.
TextFrom(b) ==
  LET from[k \in 0 .. BLOCK_SIZE, c \in Blocks] ==
        IF k = 0 \/ FAT[c] < 0 THEN Disk[c] ELSE Disk[c] \o from[k - 1, FAT[c]]
  IN  from[BLOCK_SIZE, b]

LastBlock(b) ==
  LET last[k \in 0 .. BLOCK_SIZE, c \in Blocks] ==
        IF k = 0 \/ FAT[c] < 0 THEN c ELSE last[k - 1, FAT[c]]
  IN  last[BLOCK_SIZE, b]

\* The part of the content still to be written that there is room for.
Room == BYTES * Cardinality(FreeBlocks) + BYTES - Len(Disk[LastBlock(block)])
Fits == Clean(SubSeq(content, 1, IF Room < Len(content) THEN Room ELSE Len(content)))

Writing == pc \in {"seek", "fill"}

\* The files of the abstract file system.
TextOf(i) == TextFrom(File_entries[i].start) \o IF Writing /\ file = i THEN Fits ELSE <<>>
Visible   == {i \in Entries : Used(i) /\ ~(pc = "delete" /\ file = i)}
Files ==
  [n \in {File_entries[i].file_name : i \in Visible} |->
     TextOf(CHOOSE i \in Visible : File_entries[i].file_name = n)]

\* What the running command is going to have printed.
Answer ==
  CASE Writing -> Reply(IF Len(content) <= Room THEN "written" ELSE "no free block, partial write")
    [] pc = "read"   -> Text(reply.text \o TextFrom(block))
    [] pc = "delete" -> Reply("deleted")
    [] OTHER -> reply

Abstract == INSTANCE FileSystem WITH files <- Files, ready <- pc = "main", answer <- Answer

\* Every run of fat.c does what the abstract file system does: a write appends
\* exactly what fits, with newlines as spaces, and touches no other file; a
\* read prints what was written; sizes add up; blocks given back by delete can
\* be used again; create fails only when entries or blocks have run out.
ImplementsFileSystem == Abstract!FSSpec
=============================================================================
