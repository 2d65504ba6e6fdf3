-------------------------------- MODULE Fat --------------------------------
(***************************************************************************)
(* The in-memory FAT file system of Assignment5-2/fat.c: the table of file *)
(* entries, the file allocation table and the disk blocks, and the five    *)
(* commands that work on them.                                             *)
(*                                                                         *)
(* One run of the program is: load, one command, save.  A command is run   *)
(* by one process on its own memory, so its steps cannot interleave with   *)
(* another command; every iteration of a loop of the code that follows the *)
(* chain of a file is one step here, and pc says which loop is running.    *)
(* What load_file_system reads back of a saved image is stated by Reload;  *)
(* module FatStore models the three files and checks that statement.       *)
(***************************************************************************)
EXTENDS Integers, Sequences

CONSTANTS
  ENTRY,        \* number of file entries
  BLOCK_SIZE,   \* number of blocks
  BYTES,        \* bytes a block holds
  Names,        \* the file names given on the command line
  FileNames,    \* everything a file_name field can hold
  Chars,        \* the characters of the contents
  Newline, Space,
  Contents,     \* the contents given to "write"
  Blank,        \* an entry of zeroed memory
  Stale         \* what an unused entry can hold after load_file_system

Entries == 0 .. ENTRY - 1
Blocks  == 0 .. BLOCK_SIZE - 1

Entry == [file_name : FileNames, start : Int, file_size : Int, use : {0, 1}]

ASSUME SizesAssumption ==
  /\ ENTRY \in Nat \ {0}
  /\ BLOCK_SIZE \in Nat \ {0}
  /\ BYTES \in Nat \ {0}

ASSUME InputsAssumption ==
  /\ Names \subseteq FileNames
  /\ Newline \in Chars /\ Space \in Chars /\ Newline # Space
  /\ Contents \subseteq Seq(Chars)
  /\ Blank \in Entry /\ Blank.use = 0
  /\ Stale \subseteq {e \in Entry : e.use = 0}

VARIABLES
  File_entries, \* entry number -> file entry
  FAT,          \* block -> next block, LAST or FREE
  Disk,         \* block -> the characters it holds
  pc,           \* the part of the program being executed
  file,         \* entry of the file being worked on
  block,        \* block the command has reached
  content,      \* what is left to write
  reply         \* what the command has printed

mem    == <<File_entries, FAT, Disk>>
locals == <<file, block, content>>
vars   == <<mem, pc, locals, reply>>

FREE == -2
LAST == -1

Reply(msg)  == [msg |-> msg]
Text(s)     == [msg |-> "content", text |-> s]
Listing(fs) == [msg |-> "list", files |-> fs]

Used(i)     == File_entries[i].use = 1
Holds(i, n) == Used(i) /\ File_entries[i].file_name = n

\* The first element the code's ascending scan over S meets.
First(x, S) == x \in S /\ \A y \in S : x <= y

FreeEntries == {i \in Entries : ~Used(i)}

\* Faulty variant: every negative cell of the FAT is taken for a free block.
FreeBlocks_Negative == {b \in Blocks : FAT[b] < 0}

FreeBlocks  == {b \in Blocks : FAT[b] = FREE}

----------------------------------------------------------------------------
(* The state of a process that found no saved state: "Starting fresh".     *)
Init ==
  /\ File_entries = [i \in Entries |-> Blank]
  /\ FAT  = [b \in Blocks |-> FREE]
  /\ Disk = [b \in Blocks |-> <<>>]
  /\ pc = "main"
  /\ file = 0 /\ block = 0 /\ content = <<>>
  /\ reply = Reply("none")

\* The command returns after printing r; main goes on to save.
Return(r) ==
  /\ pc' = "save"
  /\ reply' = r
  /\ file' = 0 /\ block' = 0 /\ content' = <<>>

\* A command found its file in entry i and goes through its chain in loop l.
Walk(l, i, c) ==
  /\ pc' = l
  /\ file' = i
  /\ block' = File_entries[i].start
  /\ content' = c
  /\ reply' = Text(<<>>)

NotFound(n) == \A i \in Entries : ~Holds(i, n)

Lookup(i, n) == First(i, {j \in Entries : Holds(j, n)})

create_file(name) ==
  /\ pc = "main"
  /\ \/ /\ ~NotFound(name)
        /\ Return(Reply("already exist"))
        /\ UNCHANGED mem
     \/ /\ NotFound(name)
        /\ FreeEntries = {}
        /\ Return(Reply("full of file entries"))
        /\ UNCHANGED mem
     \/ /\ NotFound(name)
        /\ FreeEntries # {}
        /\ FreeBlocks = {}
        /\ Return(Reply("no free block"))
        /\ UNCHANGED mem
     \/ /\ NotFound(name)
        /\ \E free \in Entries, fBlock \in Blocks :
              /\ First(free, FreeEntries)
              /\ First(fBlock, FreeBlocks)
              /\ File_entries' = [File_entries EXCEPT ![free] =
                    [file_name |-> name, start |-> fBlock, file_size |-> 0, use |-> 1]]
              /\ FAT'  = [FAT EXCEPT ![fBlock] = LAST]
              /\ Disk' = [Disk EXCEPT ![fBlock] = <<>>]
        /\ Return(Reply("created"))

write_file(name, c) ==
  /\ pc = "main"
  /\ \/ NotFound(name) /\ Return(Reply("does not exist"))
     \/ \E i \in Entries : Lookup(i, name) /\ Walk("seek", i, c)
  /\ UNCHANGED mem

read_file(name) ==
  /\ pc = "main"
  /\ \/ NotFound(name) /\ Return(Reply("does not exist"))
     \/ \E i \in Entries : Lookup(i, name) /\ Walk("read", i, <<>>)
  /\ UNCHANGED mem

delete_file(name) ==
  /\ pc = "main"
  /\ \/ NotFound(name) /\ Return(Reply("does not exist"))
     \/ \E i \in Entries : Lookup(i, name) /\ Walk("delete", i, <<>>)
  /\ UNCHANGED mem

list_files ==
  /\ pc = "main"
  /\ Return(Listing({<<File_entries[i].file_name, File_entries[i].file_size>> :
                       i \in {j \in Entries : Used(j)}}))
  /\ UNCHANGED mem

\* No such command, or the wrong number of arguments: main still saves.
wrong_command ==
  /\ pc = "main"
  /\ Return(Reply("wrong command or wrong argument"))
  /\ UNCHANGED mem

----------------------------------------------------------------------------
(* write_file: find the last block, then fill block after block.           *)

\* Faulty variant: the loop does not advance.
SeekLast_Stuck ==
  /\ pc = "seek"
  /\ FAT[block] < 0 /\ pc' = "fill"
  /\ UNCHANGED <<mem, file, block, content, reply>>

SeekLast ==
  /\ pc = "seek"
  /\ \/ FAT[block] >= 0 /\ block' = FAT[block] /\ UNCHANGED pc
     \/ FAT[block] < 0 /\ pc' = "fill" /\ UNCHANGED block
  /\ UNCHANGED <<mem, file, content, reply>>

\* Faulty variant: newlines are stored as they are.
Clean_Not(s) == s

\* A newline is stored as a space.
Clean(s) == [k \in 1 .. Len(s) |-> IF s[k] = Newline THEN Space ELSE s[k]]

\* How many characters of the rest of the content go into the block.
Taken == IF BYTES - Len(Disk[block]) < Len(content)
         THEN BYTES - Len(Disk[block])
         ELSE Len(content)

Put == Disk[block] \o Clean(SubSeq(content, 1, Taken))

Rest == SubSeq(content, Taken + 1, Len(content))

\* The size of the file after the characters that fit were counted.
Grown == [File_entries EXCEPT ![file].file_size = @ + Taken]

\* The FAT after nBlock was appended to the chain.
Linked(nBlock) == [FAT EXCEPT ![block] = nBlock, ![nBlock] = LAST]

WriteDone ==
  /\ pc = "fill"
  /\ content = <<>>
  /\ Return(Reply("written"))
  /\ UNCHANGED mem

FillBlock ==
  /\ pc = "fill"
  /\ content # <<>>
  /\ File_entries' = Grown
  /\ \/ /\ Rest = <<>>
        /\ Disk' = [Disk EXCEPT ![block] = Put]
        /\ content' = <<>>
        /\ UNCHANGED <<FAT, pc, file, block, reply>>
     \/ /\ Rest # <<>>
        /\ FreeBlocks = {}
        /\ Disk' = [Disk EXCEPT ![block] = Put]
        /\ Return(Reply("no free block, partial write"))
        /\ UNCHANGED FAT
     \/ /\ Rest # <<>>
        /\ \E nBlock \in Blocks :
              /\ First(nBlock, FreeBlocks)
              /\ FAT'  = Linked(nBlock)
              /\ Disk' = [Disk EXCEPT ![block] = Put, ![nBlock] = <<>>]
              /\ block' = nBlock
        /\ content' = Rest
        /\ UNCHANGED <<pc, file, reply>>

----------------------------------------------------------------------------
(* read_file and delete_file: one step for each block of the chain.        *)

ReadBlock ==
  /\ pc = "read"
  /\ \/ /\ FAT[block] >= 0
        /\ reply' = Text(reply.text \o Disk[block])
        /\ block' = FAT[block]
        /\ UNCHANGED <<pc, file, content>>
     \/ /\ FAT[block] < 0
        /\ Return(Text(reply.text \o Disk[block]))
  /\ UNCHANGED mem

\* Faulty variant: the last block of the chain is not given back.
DeleteBlock_KeepLast ==
  /\ pc = "delete"
  /\ \/ /\ FAT[block] >= 0
        /\ FAT' = [FAT EXCEPT ![block] = FREE]
        /\ block' = FAT[block]
        /\ UNCHANGED <<File_entries, pc, file, content, reply>>
     \/ /\ FAT[block] < 0
        /\ File_entries' = [File_entries EXCEPT ![file].use = 0]
        /\ Return(Reply("deleted"))
        /\ UNCHANGED FAT
  /\ UNCHANGED Disk

DeleteBlock ==
  /\ pc = "delete"
  /\ FAT' = [FAT EXCEPT ![block] = FREE]
  /\ \/ /\ FAT[block] >= 0
        /\ block' = FAT[block]
        /\ UNCHANGED <<File_entries, pc, file, content, reply>>
     \/ /\ FAT[block] < 0
        /\ File_entries' = [File_entries EXCEPT ![file].use = 0]
        /\ Return(Reply("deleted"))
  /\ UNCHANGED Disk

----------------------------------------------------------------------------
(* The process saves and exits, and the next one loads.  Entries in use,   *)
(* the FAT and the blocks come back as they were.  An entry that is not in *)
(* use stays unused; its other fields may come back as anything, because   *)
(* fscanf does not read an entry with an empty name back into its fields.  *)
Reload ==
  /\ pc = "save"
  /\ pc' = "main"
  /\ File_entries' \in [Entries -> Stale \cup {File_entries[j] : j \in Entries}]
  /\ \A i \in Entries :
        File_entries[i].use = 1 \/ File_entries'[i].use = 1
           => File_entries'[i] = File_entries[i]
  /\ reply' = Reply("none")
  /\ UNCHANGED <<FAT, Disk, locals>>

Command ==
  \/ \E n \in Names : \/ create_file(n)
                      \/ read_file(n)
                      \/ delete_file(n)
                      \/ \E c \in Contents : write_file(n, c)
  \/ list_files
  \/ wrong_command

Step == SeekLast \/ FillBlock \/ WriteDone \/ ReadBlock \/ DeleteBlock

Next == Command \/ Step \/ Reload

Spec == Init /\ [][Next]_vars

\* A process that has started a command is not suspended for ever.
FairSpec == Spec /\ WF_vars(Step)
----------------------------------------------------------------------------
(* Properties.                                                             *)

\* The type invariant: cells of the FAT are FREE, LAST or a block, and the entry
\* and the block that a command is at are in their tables.
TypeOK ==
  /\ File_entries \in [Entries -> Entry]
  /\ FAT \in [Blocks -> FREE .. BLOCK_SIZE - 1]
  /\ Disk \in [Blocks -> Seq(Chars)]
  /\ pc \in {"main", "seek", "fill", "read", "delete", "save"}
  /\ file \in Entries
  /\ block \in Blocks
  /\ content \in Seq(Chars)
  /\ pc = "read" => reply.text \in Seq(Chars)

\* The first block of the file in entry i; while delete_file gives the
\* blocks back, the first one that is still allocated.
Root(i) == IF pc = "delete" /\ file = i THEN block ELSE File_entries[i].start

\* The blocks reached from b through the FAT: the smallest set that holds b
\* and the successor of each of its members.
Closed(S) == \A c \in S : FAT[c] >= 0 => FAT[c] \in S
Chain(b)  == {c \in Blocks : \A S \in SUBSET Blocks : b \in S /\ Closed(S) => c \in S}

\* No two files have the same name, so that every command finds the one file
\* of that name (create_file's duplicate check, fat.c lines 33-39).
NamesUnique ==
  \A i, j \in Entries : Used(i) /\ Holds(j, File_entries[i].file_name) => i = j

\* Every block is either free or in the chain of exactly one file: no command
\* leaks a block, shares one between two files or frees one that is in use.
BlocksPartitioned ==
  \A b \in Blocks :
     /\ FAT[b] # FREE <=> \E i \in Entries : Used(i) /\ b \in Chain(Root(i))
     /\ \A i, j \in Entries :
           Used(i) /\ Used(j) /\ b \in Chain(Root(i)) /\ b \in Chain(Root(j)) => i = j

\* No set of blocks is linked in a loop, so the loops of write_file, read_file
\* and delete_file that follow FAT[block] come to a last block.
NoLoop == \A S \in SUBSET Blocks : S # {} => \E b \in S : FAT[b] \notin S

\* The block a command has reached belongs to the file the command is about:
\* write_file never appends to, and read_file never prints, another file.
CursorInChain ==
  pc \in {"seek", "fill", "read", "delete"} =>
     Used(file) /\ block \in Chain(Root(file))

\* Only the last block of a chain has room, and no block holds more than
\* BYTES characters (the terminating zero of Disk[block] stays in bounds).
OnlyLastHasRoom ==
  \A b \in Blocks : /\ Len(Disk[b]) <= BYTES
                    /\ FAT[b] >= 0 => Len(Disk[b]) = BYTES

\* A command that has started comes to an end.
CommandsEnd == pc \in {"seek", "fill", "read", "delete"} ~> pc = "save"
----------------------------------------------------------------------------
(* The inductive invariant: facts about single cells of the tables, which  *)
(* every step preserves and from which the properties above follow.        *)

RootsAllocated == \A i \in Entries : Used(i) => Root(i) \in Blocks /\ FAT[Root(i)] # FREE
RootsDistinct  == \A i, j \in Entries : Used(i) /\ Used(j) /\ Root(i) = Root(j) => i = j
RootsUnlinked  == \A i \in Entries : Used(i) => \A b \in Blocks : FAT[b] # Root(i)
LinksAllocated == \A b \in Blocks : FAT[b] >= 0 => FAT[FAT[b]] # FREE
LinksDistinct  == \A b, c \in Blocks : FAT[b] >= 0 /\ FAT[b] = FAT[c] => b = c
AllocatedKnown ==
  \A b \in Blocks : FAT[b] # FREE => \/ \E i \in Entries : Used(i) /\ Root(i) = b
                                     \/ \E c \in Blocks : FAT[c] = b

\* Every set of blocks has one whose predecessor is not in the set.
NoRing == \A S \in SUBSET Blocks : S # {} => \E b \in S : \A c \in S : FAT[c] # b

\* The command's file exists, and write_file fills a last block.
AtWork == /\ pc \in {"seek", "fill", "read", "delete"} => Used(file)
          /\ pc \in {"seek", "fill", "read"} => FAT[block] # FREE
          /\ pc = "fill" => FAT[block] = LAST

\* The inductive invariant: the tables agree cell by cell with one another
\* and with the command that create_file, write_file or delete_file is in.
IInv ==
  /\ TypeOK
  /\ NamesUnique
  /\ RootsAllocated /\ RootsDistinct /\ RootsUnlinked
  /\ LinksAllocated /\ LinksDistinct
  /\ AllocatedKnown
  /\ NoRing /\ NoLoop
  /\ AtWork
  /\ OnlyLastHasRoom
============================================================================
