----------------------------- MODULE FileSystem -----------------------------
(***************************************************************************)
(* What Assignment5-2/fat.c promises its user, with no entry, block or FAT *)
(* in sight: a set of named texts, and commands that are atomic.  The only *)
(* trace of the implementation is how much fits: ENTRY files, and          *)
(* BLOCK_SIZE blocks of BYTES characters of which every file holds at      *)
(* least one.                                                              *)
(***************************************************************************)
EXTENDS Integers, Sequences, FiniteSets, FiniteSetsExt, SequencesExt

CONSTANTS ENTRY, BLOCK_SIZE, BYTES, Names, Newline, Space, Contents

VARIABLES
  files,    \* name -> text, for the files that exist
  ready,    \* a new run of the program may start
  answer    \* what the last command has printed

fsvars == <<files, ready, answer>>

Exists(n) == n \in DOMAIN files

\* The blocks of a text: an empty file has one, a full last block no spare.
BlocksOf(s) == IF s = <<>> THEN 1 ELSE (Len(s) + BYTES - 1) \div BYTES

BlocksLeft == BLOCK_SIZE - MapThenSumSet(LAMBDA n : BlocksOf(files[n]), DOMAIN files)

\* How many characters can still be appended to the file.
Room(n) == BYTES * (BLOCK_SIZE - MapThenSumSet(LAMBDA k : BlocksOf(files[k]), DOMAIN files \ {n}))
           - Len(files[n])

\* What is stored of a text: newlines become spaces.
Stored(s) == ReplaceAll(s, Newline, Space)

FSInit == files = [n \in {} |-> <<>>] /\ ready = TRUE /\ answer = [msg |-> "none"]

\* A command that prints a and leaves files fs.
Does(a, fs) == ready /\ ready' = FALSE /\ answer' = a /\ files' = fs

Create(n) ==
  LET msg == CASE Exists(n) -> "already exist"
               [] ~Exists(n) /\ Cardinality(DOMAIN files) = ENTRY -> "full of file entries"
               [] ~Exists(n) /\ Cardinality(DOMAIN files) < ENTRY /\ BlocksLeft = 0 -> "no free block"
               [] OTHER -> "created"
  IN  Does([msg |-> msg], IF msg = "created" THEN [k \in DOMAIN files \cup {n} |->
                                                     IF k = n THEN <<>> ELSE files[k]]
                                             ELSE files)

Write(n, c) ==
  \/ ~Exists(n) /\ Does([msg |-> "does not exist"], files)
  \/ /\ Exists(n) /\ Len(c) <= Room(n)
     /\ Does([msg |-> "written"], [files EXCEPT ![n] = @ \o Stored(c)])
  \/ /\ Exists(n) /\ Len(c) > Room(n)
     /\ Does([msg |-> "no free block, partial write"],
             [files EXCEPT ![n] = @ \o Stored(SubSeq(c, 1, Room(n)))])

Read(n) ==
  \/ ~Exists(n) /\ Does([msg |-> "does not exist"], files)
  \/ Exists(n) /\ Does([msg |-> "content", text |-> files[n]], files)

Delete(n) ==
  \/ ~Exists(n) /\ Does([msg |-> "does not exist"], files)
  \/ Exists(n) /\ Does([msg |-> "deleted"], [k \in DOMAIN files \ {n} |-> files[k]])

List == Does([msg |-> "list", files |-> {<<n, Len(files[n])>> : n \in DOMAIN files}], files)

Wrong == Does([msg |-> "wrong command or wrong argument"], files)

\* The next run of the program finds the files the last one left.
Again == ~ready /\ ready' = TRUE /\ answer' = [msg |-> "none"] /\ UNCHANGED files

FSNext ==
  \/ \E n \in Names : Create(n) \/ Read(n) \/ Delete(n) \/ \E c \in Contents : Write(n, c)
  \/ List
  \/ Wrong
  \/ Again

FSSpec == FSInit /\ [][FSNext]_fsvars
=============================================================================
