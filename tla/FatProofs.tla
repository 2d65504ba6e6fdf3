------------------------------ MODULE FatProofs ------------------------------
(***************************************************************************)
(* Proofs about the in-memory file system of module Fat, for every number  *)
(* of entries, blocks and bytes per block and for all names and contents.  *)
(***************************************************************************)
EXTENDS Fat, SequenceTheorems, TLAPS

\* The fields of an entry and the cells of the tables have their types.
LEMMA Types ==
  ASSUME TypeOK
  PROVE  /\ \A i \in Entries : File_entries[i] \in Entry
         /\ \A b \in Blocks : FAT[b] \in Int /\ FAT[b] >= FREE
                              /\ (FAT[b] >= 0 => FAT[b] \in Blocks)
         /\ \A b \in Blocks : Disk[b] \in Seq(Chars) /\ Len(Disk[b]) \in Nat
  BY SizesAssumption DEF TypeOK, Blocks, FREE

\* The fresh file system satisfies the inductive invariant.
LEMMA InitIInv == Init => IInv
<1> SUFFICES ASSUME Init PROVE IInv
  BY Zenon
<1> USE DEF Init, FREE, LAST, Used, Holds
<1>1. TypeOK
  BY SizesAssumption, InputsAssumption DEF TypeOK, Entries, Blocks, Reply
<1>2. \A i \in Entries : ~Used(i)
  BY InputsAssumption
<1>3. \A b \in Blocks : FAT[b] \notin Blocks
  BY DEF Blocks
<1>4. NoRing /\ NoLoop
  BY <1>3, Zenon DEF NoRing, NoLoop
<1> QED
  BY <1>1, <1>2, <1>3, <1>4, SizesAssumption
  DEF IInv, NamesUnique, RootsAllocated, RootsDistinct, RootsUnlinked, LinksAllocated,
      LinksDistinct, AllocatedKnown, AtWork, OnlyLastHasRoom, Blocks

\* A step that leaves the tables and every root alone, and stays at or goes
\* to a point of the program where AtWork holds, preserves the invariant.
LEMMA SameTables ==
  ASSUME IInv, UNCHANGED mem, TypeOK', AtWork',
         \A i \in Entries : Used(i) => Root(i)' = Root(i)
  PROVE  IInv'
<1> USE DEF IInv, mem
<1>1. \A i \in Entries : Used(i)' = Used(i)
  BY Zenon DEF Used
<1>2. NamesUnique'
  BY <1>1, Zenon DEF NamesUnique, Holds, Used
<1>3. RootsAllocated' /\ RootsDistinct' /\ RootsUnlinked'
  BY <1>1, Zenon DEF RootsAllocated, RootsDistinct, RootsUnlinked
<1>4. LinksAllocated' /\ LinksDistinct' /\ NoRing' /\ NoLoop'
  BY DEF LinksAllocated, LinksDistinct, NoRing, NoLoop
<1>5. AllocatedKnown'
  BY <1>1, Zenon DEF AllocatedKnown
<1>6. OnlyLastHasRoom'
  BY Zenon DEF OnlyLastHasRoom
<1> QED
  BY <1>2, <1>3, <1>4, <1>5, <1>6, Zenon

\* Cells that do not link to a block take no part in a ring or a loop.
LEMMA CellUnlinked ==
  ASSUME TypeOK, NoRing, NoLoop, NEW b \in Blocks, NEW v \in {FREE, LAST},
         FAT' = [FAT EXCEPT ![b] = v]
  PROVE  NoRing' /\ NoLoop'
<1>0. \A c \in Blocks : FAT'[c] = FAT[c] \/ FAT'[c] \notin Blocks
  BY DEF TypeOK, FREE, LAST, Blocks
<1>1. NoRing'
  BY <1>0 DEF NoRing
<1>2. NoLoop'
  BY <1>0, Zenon DEF NoLoop
<1> QED
  BY <1>1, <1>2, Zenon

\* The commands that end at once, or that find their file and start walking.
LEMMA StartIInv ==
  ASSUME IInv, UNCHANGED mem, pc = "main",
         \/ \E r : Return(r)
         \/ \E l \in {"seek", "read", "delete"}, i \in Entries, n \in Names, c \in Contents \cup {<<>>} :
               Lookup(i, n) /\ Walk(l, i, c)
  PROVE  IInv'
<1> USE DEF IInv, mem
<1>1. CASE \E r : Return(r)
  <2>1. TypeOK' /\ AtWork'
    BY <1>1, SizesAssumption DEF TypeOK, AtWork, Return, Entries, Blocks
  <2>2. \A i \in Entries : Root(i)' = Root(i)
    BY <1>1, Zenon DEF Return, Root
  <2> QED
    BY <2>1, <2>2, SameTables, Zenon
<1>2. ASSUME NEW l \in {"seek", "read", "delete"}, NEW i \in Entries, NEW n \in Names,
             NEW c \in Contents \cup {<<>>}, Lookup(i, n), Walk(l, i, c)
      PROVE  IInv'
  <2>1. Used(i) /\ Root(i) = File_entries[i].start
    BY <1>2, Zenon DEF Lookup, First, Holds, Root
  <2>2. File_entries[i].start \in Blocks /\ FAT[File_entries[i].start] # FREE
    BY <2>1, Zenon DEF RootsAllocated
  <2>3. c \in Seq(Chars)
    <3>1. <<>> \in Seq(Chars)
      OBVIOUS
    <3> QED
      BY <3>1, InputsAssumption, Zenon
  <2>4. TypeOK'
    BY <1>2, <2>2, <2>3 DEF TypeOK, Walk, Text
  <2>5. AtWork'
    BY <1>2, <2>1, <2>2, Zenon DEF AtWork, Walk, Used
  <2>6. \A j \in Entries : Root(j)' = Root(j)
    BY <1>2, <2>1, Zenon DEF Walk, Root
  <2> QED
    BY <2>4, <2>5, <2>6, SameTables, Zenon
<1> QED
  BY <1>1, <1>2, Zenon

\* create_file takes a free block for a free entry.
LEMMA CreateIInv ==
  ASSUME IInv, NEW n \in Names, create_file(n)
  PROVE  IInv'
<1> USE DEF IInv
<1>1. CASE UNCHANGED mem
  BY <1>1, StartIInv, Zenon DEF create_file, Return
<1>2. ASSUME NEW e \in Entries, NEW b \in Blocks, NotFound(n),
             First(e, FreeEntries), First(b, FreeBlocks),
             File_entries' = [File_entries EXCEPT ![e] =
                [file_name |-> n, start |-> b, file_size |-> 0, use |-> 1]],
             FAT' = [FAT EXCEPT ![b] = LAST],
             Disk' = [Disk EXCEPT ![b] = <<>>],
             Return(Reply("created"))
      PROVE  IInv'
  <2>0. /\ pc = "main" /\ pc' = "save"
        /\ ~Used(e) /\ FAT[b] = FREE /\ FAT'[b] = LAST
        /\ \A c \in Blocks : c # b => FAT'[c] = FAT[c]
    BY <1>2 DEF create_file, Return, First, FreeEntries, FreeBlocks, TypeOK
  <2>1. TypeOK'
    <3>1. File_entries' \in [Entries -> Entry]
      BY <1>2, InputsAssumption, SMTT(30) DEF TypeOK, Entry, Blocks
    <3>2. FAT' \in [Blocks -> FREE..BLOCK_SIZE - 1]
      BY <1>2, SizesAssumption DEF TypeOK, FREE, LAST
    <3>3. <<>> \in Seq(Chars)
      OBVIOUS
    <3>4. Disk' \in [Blocks -> Seq(Chars)]
      BY <1>2, <3>3, Zenon DEF TypeOK
    <3> QED
      BY <1>2, <3>1, <3>2, <3>3, <3>4, SizesAssumption, SMTT(30) DEF TypeOK, Return, Entries, Blocks
  <2>2. /\ Used(e)' /\ Root(e)' = b
        /\ \A j \in Entries : j # e =>
              /\ Used(j)' = Used(j)
              /\ Root(j)' = Root(j)
              /\ File_entries'[j] = File_entries[j]
    BY <1>2, <2>0, Zenon DEF Used, Root, TypeOK
  <2>3. NamesUnique'
    BY <1>2, <2>2 DEF NamesUnique, NotFound, Holds, Used, TypeOK
  <2>4. \A j \in Entries : Used(j) => Root(j) # b
    BY <2>0, Zenon DEF RootsAllocated
  <2>5. \A c \in Blocks : FAT[c] # b
    BY <2>0 DEF LinksAllocated, Blocks
  <2>6. RootsAllocated' /\ RootsDistinct' /\ RootsUnlinked'
    BY <2>0, <2>2, <2>4, <2>5 DEF RootsAllocated, RootsDistinct, RootsUnlinked, FREE, LAST, Blocks
  <2>7. LinksAllocated' /\ LinksDistinct'
    BY <2>0, <2>5, Types DEF LinksAllocated, LinksDistinct, LAST, FREE
  <2>8. AllocatedKnown'
    BY <2>0, <2>2, SMTT(30) DEF AllocatedKnown, FREE, LAST, Blocks
  <2>9. NoRing' /\ NoLoop'
    BY <1>2, CellUnlinked, Zenon
  <2>10. AtWork'
    BY <2>0, Zenon DEF AtWork
  <2>11. OnlyLastHasRoom'
    BY <1>2, <2>0, SizesAssumption, SMTT(30) DEF OnlyLastHasRoom, TypeOK, LAST
  <2> QED
    BY <2>1, <2>3, <2>6, <2>7, <2>8, <2>9, <2>10, <2>11, Zenon
<1> QED
  BY <1>1, <1>2, Zenon DEF create_file

\* The loops that only follow a chain leave the tables alone.
LEMMA FollowIInv ==
  ASSUME IInv, SeekLast \/ WriteDone \/ ReadBlock
  PROVE  IInv'
<1> USE DEF IInv
<1>1. FAT[block] >= 0 => FAT[block] \in Blocks /\ FAT[FAT[block]] # FREE
  BY Types, Zenon DEF LinksAllocated, TypeOK
<1>2. UNCHANGED mem
  BY Zenon DEF SeekLast, WriteDone, ReadBlock
<1>3. TypeOK'
  <2>1. CASE SeekLast
    BY <2>1, <1>1, Zenon DEF TypeOK, SeekLast, mem
  <2>2. CASE WriteDone
    BY <2>2, SizesAssumption DEF TypeOK, WriteDone, Return, mem, Entries, Blocks
  <2>3. CASE ReadBlock
    <3>1. reply.text \o Disk[block] \in Seq(Chars)
      BY <2>3 DEF TypeOK, ReadBlock
    <3>2. <<>> \in Seq(Chars)
      OBVIOUS
    <3>3. /\ block' \in Blocks /\ file' \in Entries /\ content' \in Seq(Chars)
          /\ pc' \in {"read", "save"} /\ reply' = Text(reply.text \o Disk[block])
      <4>1. 0 \in Entries /\ 0 \in Blocks
        BY SizesAssumption DEF Entries, Blocks
      <4> QED
        BY <2>3, <3>2, <4>1, <1>1, Zenon DEF TypeOK, ReadBlock, Return
    <3> QED
      BY <1>2, <3>1, <3>3, Zenon DEF TypeOK, Text, mem
  <2> QED
    BY <2>1, <2>2, <2>3, Zenon
<1>4. AtWork'
  BY <1>1, Types DEF SeekLast, WriteDone, ReadBlock, Return, AtWork, mem, Used, FREE, LAST, TypeOK
<1>5. \A i \in Entries : Root(i)' = Root(i)
  BY Zenon DEF SeekLast, WriteDone, ReadBlock, Return, Root, mem
<1> QED
  BY <1>2, <1>3, <1>4, <1>5, SameTables, Zenon

\* delete_file gives a block back: the next block becomes the file's first.
LEMMA DeleteIInv ==
  ASSUME IInv, DeleteBlock
  PROVE  IInv'
<1> USE DEF IInv
<1>0. /\ pc = "delete" /\ Used(file) /\ Root(file) = block
      /\ FAT' = [FAT EXCEPT ![block] = FREE] /\ FAT'[block] = FREE
      /\ \A b \in Blocks : b # block => FAT'[b] = FAT[b]
      /\ block \in Blocks /\ file \in Entries
      /\ FAT[block] # FREE
      /\ \A b \in Blocks : FAT[b] # block
  BY Zenon DEF DeleteBlock, AtWork, TypeOK, Root, RootsAllocated, RootsUnlinked
<1>1. NoRing' /\ NoLoop'
  BY <1>0, CellUnlinked, Zenon
<1>2. LinksAllocated' /\ LinksDistinct'
  BY <1>0, Types DEF LinksAllocated, LinksDistinct, FREE
<1>3. OnlyLastHasRoom'
  BY <1>0, Types DEF DeleteBlock, OnlyLastHasRoom, FREE
<1>4. CASE FAT[block] >= 0
  <2>1. /\ block' = FAT[block] /\ UNCHANGED <<File_entries, pc, file, content, reply>>
        /\ FAT[block] \in Blocks /\ FAT[block] # block /\ FAT[FAT[block]] # FREE
    BY <1>0, <1>4, Types DEF DeleteBlock, LinksAllocated, LAST, FREE
  <2>2. TypeOK'
    BY <1>0, <2>1, SizesAssumption DEF DeleteBlock, TypeOK, FREE
  <2>3. NamesUnique' /\ AtWork'
    BY <1>0, <2>1, Zenon DEF NamesUnique, Holds, Used, AtWork
  <2>4. /\ Root(file)' = FAT[block]
        /\ \A j \in Entries : j # file => Root(j)' = Root(j)
        /\ \A j \in Entries : Used(j)' = Used(j)
    BY <1>0, <2>1, Zenon DEF Root, Used
  <2>5. RootsAllocated' /\ RootsDistinct'
    BY <1>0, <2>1, <2>4 DEF RootsAllocated, RootsDistinct, RootsUnlinked
  <2>6. RootsUnlinked'
    <3>1. \A b \in Blocks : FAT'[b] # FAT[block]
      BY <1>0, <1>4, <2>1 DEF LinksDistinct, FREE
    <3>2. \A j \in Entries, b \in Blocks : Used(j) /\ j # file => FAT'[b] # Root(j)
      BY <1>0 DEF RootsUnlinked, RootsAllocated, FREE, Blocks
    <3> QED
      BY <2>1, <2>4, <3>1, <3>2, Zenon DEF RootsUnlinked
  <2>7. AllocatedKnown'
    BY <1>0, <2>1, <2>4 DEF AllocatedKnown
  <2> QED
    BY <1>1, <1>2, <1>3, <2>2, <2>3, <2>5, <2>6, <2>7, Zenon
<1>5. CASE FAT[block] < 0
  <2>1. /\ File_entries' = [File_entries EXCEPT ![file].use = 0]
        /\ pc' = "save" /\ file' = 0 /\ block' = 0 /\ content' = <<>>
    BY <1>0, <1>5, Types DEF DeleteBlock, Return
  <2>2. TypeOK'
    <3>1. File_entries' \in [Entries -> Entry]
      BY <2>1, Zenon DEF TypeOK, Entry
    <3>2. <<>> \in Seq(Chars)
      OBVIOUS
    <3> QED
      BY <1>0, <2>1, <3>1, <3>2, SizesAssumption DEF DeleteBlock, TypeOK, FREE, Entries, Blocks
  <2>3. /\ \A j \in Entries : j = file => ~Used(j)'
        /\ \A j \in Entries : j # file =>
              /\ File_entries'[j] = File_entries[j]
              /\ Used(j)' = Used(j) /\ Root(j)' = Root(j)
    <3>1. File_entries[file] \in Entry
      BY <1>0, Types, Zenon
    <3>2. File_entries'[file].use = 0
      BY <1>0, <2>1, <3>1, Zenon DEF TypeOK, Entry
    <3>3. \A j \in Entries : j # file => File_entries'[j] = File_entries[j]
      BY <1>0, <2>1, Zenon DEF TypeOK
    <3> QED
      BY <1>0, <2>1, <3>2, <3>3 DEF Root, Used
  <2>4. NamesUnique' /\ AtWork'
    BY <1>0, <2>1, <2>3 DEF NamesUnique, Holds, AtWork
  <2>5. RootsAllocated' /\ RootsDistinct'
    BY <1>0, <2>3 DEF RootsAllocated, RootsDistinct
  <2>6. RootsUnlinked'
    BY <1>0, <2>3 DEF RootsUnlinked, RootsAllocated, FREE, Blocks
  <2>7. AllocatedKnown'
    BY <1>0, <1>5, <2>3 DEF AllocatedKnown, Blocks
  <2> QED
    BY <1>1, <1>2, <1>3, <2>2, <2>4, <2>5, <2>6, <2>7, Zenon
<1> QED
  BY <1>0, <1>4, <1>5, Types

\* What write_file puts into a block: never more than fits, and the block is
\* full when some of the content is left.
LEMMA Filling ==
  ASSUME TypeOK, OnlyLastHasRoom, content # <<>>
  PROVE  /\ Put \in Seq(Chars) /\ Len(Put) <= BYTES
         /\ Rest \in Seq(Chars)
         /\ Rest # <<>> => Len(Put) = BYTES
         /\ Taken \in Int
<1> DEFINE l == Len(Disk[block])
<1>1. /\ Disk[block] \in Seq(Chars) /\ l \in Nat /\ l <= BYTES
      /\ content \in Seq(Chars) /\ Len(content) \in Nat /\ BYTES \in Nat
  BY Types, SizesAssumption, LenProperties, Zenon DEF TypeOK, OnlyLastHasRoom
<1>2. /\ Taken \in Nat /\ Taken <= Len(content) /\ l + Taken <= BYTES
      /\ Taken < Len(content) => l + Taken = BYTES
  <2> DEFINE r == Len(content)
  <2>1. Taken = IF BYTES - l < r THEN BYTES - l ELSE r
    BY Zenon DEF Taken
  <2>2. r \in Nat /\ l \in Nat /\ BYTES \in Nat /\ l <= BYTES
    BY <1>1, Zenon
  <2> HIDE DEF r, l
  <2>3. /\ Taken \in Nat /\ Taken <= r /\ l + Taken <= BYTES
        /\ Taken < r => l + Taken = BYTES
    BY <2>1, <2>2
  <2> QED
    BY <2>3, Zenon DEF r
<1>3. SubSeq(content, 1, Taken) \in Seq(Chars) /\ Len(SubSeq(content, 1, Taken)) = Taken
  BY <1>1, <1>2, SubSeqProperties
<1>4. Clean(SubSeq(content, 1, Taken)) \in Seq(Chars) /\ Len(Clean(SubSeq(content, 1, Taken))) = Taken
  <2> DEFINE s == SubSeq(content, 1, Taken)
  <2>0. s \in Seq(Chars) /\ Len(s) = Taken
    BY <1>3, Zenon
  <2> HIDE DEF s
  <2>1. \A k \in 1 .. Len(s) : s[k] \in Chars
    BY <2>0, ElementOfSeq, Zenon
  <2>2. Clean(s) \in [1 .. Taken -> Chars]
    BY <2>0, <2>1, InputsAssumption, Zenon DEF Clean
  <2>3. Clean(s) \in Seq(Chars) /\ Len(Clean(s)) = Taken
    BY <2>2, <1>2
  <2> QED
    BY <2>3, Zenon DEF s
<1>5. Put \in Seq(Chars) /\ Len(Put) = l + Taken
  <2> DEFINE c == Clean(SubSeq(content, 1, Taken))
             d == Disk[block]
  <2>1. c \in Seq(Chars) /\ Len(c) = Taken
    BY <1>4, Zenon
  <2>2. d \in Seq(Chars) /\ Len(d) = l
    BY <1>1, Zenon
  <2>3. Put = d \o c
    BY Zenon DEF Put
  <2> HIDE DEF c, d, l
  <2>4. d \o c \in Seq(Chars) /\ Len(d \o c) = Len(d) + Len(c)
    BY <2>1, <2>2, ConcatProperties, Zenon
  <2> QED
    BY <2>1, <2>2, <2>3, <2>4, Zenon
<1>6. Rest \in Seq(Chars) /\ (Rest # <<>> => Taken < Len(content))
  BY <1>1, <1>2, SubSeqProperties, EmptySeq DEF Rest
<1> QED
  BY <1>1, <1>2, <1>5, <1>6

\* The growing size changes nothing else of the entries.
LEMMA Growing ==
  ASSUME TypeOK, OnlyLastHasRoom, content # <<>>
  PROVE  /\ Grown \in [Entries -> Entry]
         /\ \A j \in Entries : /\ Grown[j].use = File_entries[j].use
                               /\ Grown[j].start = File_entries[j].start
                               /\ Grown[j].file_name = File_entries[j].file_name
<1>1. Taken \in Int
  BY Filling, Zenon
<1>2. File_entries \in [Entries -> Entry] /\ file \in Entries
  BY Zenon DEF TypeOK
<1>3. File_entries[file].file_size + Taken \in Int
  BY <1>1, <1>2 DEF Entry
<1> DEFINE v == File_entries[file].file_size + Taken
<1>4. Grown = [File_entries EXCEPT ![file] = [@ EXCEPT !.file_size = v]]
  BY Zenon DEF Grown
<1>5. v \in Int
  BY <1>3, Zenon
<1> HIDE DEF v
<1> QED
  BY <1>2, <1>4, <1>5, Zenon DEF Entry

\* Appending a free block to a chain closes no loop and no ring.
LEMMA LinkAcyclic ==
  ASSUME TypeOK, NoRing, NoLoop, NEW n \in Blocks, n # block, FAT' = Linked(n)
  PROVE  NoRing' /\ NoLoop'
<1>1. /\ FAT'[block] = n /\ FAT'[n] = LAST
      /\ \A c \in Blocks : c # block /\ c # n => FAT'[c] = FAT[c]
      /\ LAST \notin Blocks
  BY DEF TypeOK, Linked, LAST, Blocks
<1>2. ASSUME NEW S \in SUBSET Blocks, S # {}
      PROVE  \E b \in S : \A c \in S : FAT'[c] # b
  <2>1. CASE S \ {n} = {}
    BY <2>1, <1>1, <1>2
  <2>2. CASE S \ {n} # {}
    <3>1. PICK b \in S \ {n} : \A c \in S \ {n} : FAT[c] # b
      BY <2>2, Zenon DEF NoRing
    <3> QED
      BY <3>1, <1>1
  <2> QED
    BY <2>1, <2>2, Zenon
<1>3. ASSUME NEW S \in SUBSET Blocks, S # {}
      PROVE  \E b \in S : FAT'[b] \notin S
  <2>1. PICK b \in S : FAT[b] \notin S
    BY <1>3, Zenon DEF NoLoop
  <2>2. CASE n \in S
    BY <2>2, <1>1, Zenon
  <2>3. CASE n \notin S
    BY <2>1, <2>3, <1>1, Zenon
  <2> QED
    BY <2>2, <2>3, Zenon
<1> QED
  BY <1>2, <1>3, Zenon DEF NoRing, NoLoop

\* A block of write_file: the last block is filled and, when some of the
\* content is left, a free block is appended.
LEMMA FillIInv ==
  ASSUME IInv, FillBlock
  PROVE  IInv'
<1> USE DEF IInv
<1>0. /\ pc = "fill" /\ content # <<>> /\ File_entries' = Grown
      /\ block \in Blocks /\ FAT[block] = LAST /\ Used(file)
  BY Zenon DEF FillBlock, AtWork, TypeOK
<1>1. /\ Put \in Seq(Chars) /\ Len(Put) <= BYTES
      /\ Rest \in Seq(Chars)
      /\ Rest # <<>> => Len(Put) = BYTES
  BY <1>0, Filling, Zenon
<1>2. /\ File_entries' \in [Entries -> Entry]
      /\ \A j \in Entries : /\ File_entries'[j].use = File_entries[j].use
                            /\ File_entries'[j].start = File_entries[j].start
                            /\ File_entries'[j].file_name = File_entries[j].file_name
  BY <1>0, Growing, Zenon
<1>3. NamesUnique'
  BY <1>2 DEF NamesUnique, Holds, Used
<1>4. <<>> \in Seq(Chars) /\ Len(<<>>) = 0 /\ 0 \in Blocks /\ 0 \in Entries
  BY SizesAssumption DEF Blocks, Entries
<1>5. ASSUME UNCHANGED FAT, Disk' = [Disk EXCEPT ![block] = Put],
             \/ content' = <<>> /\ UNCHANGED <<pc, file, block, reply>>
             \/ Return(Reply("no free block, partial write"))
      PROVE  IInv'
  <2>1. TypeOK'
    BY <1>0, <1>1, <1>2, <1>4, <1>5, Zenon DEF TypeOK, Return
  <2>2. /\ \A j \in Entries : Used(j)' = Used(j) /\ Root(j)' = Root(j)
        /\ pc' # "delete"
    BY <1>0, <1>2, <1>5, Zenon DEF Used, Root, Return
  <2>3. RootsAllocated' /\ RootsDistinct' /\ RootsUnlinked'
    BY <1>5, <2>2, Zenon DEF RootsAllocated, RootsDistinct, RootsUnlinked
  <2>4. LinksAllocated' /\ LinksDistinct' /\ NoRing' /\ NoLoop'
    <3>1. FAT' = FAT
      BY <1>5, Zenon
    <3> QED
      BY <3>1 DEF LinksAllocated, LinksDistinct, NoRing, NoLoop
  <2>5. AllocatedKnown'
    BY <1>5, <2>2, Zenon DEF AllocatedKnown
  <2>6. AtWork'
    BY <1>0, <1>2, <1>5, Zenon DEF AtWork, Return, Used, TypeOK
  <2>7. OnlyLastHasRoom'
    <3>1. Disk'[block] = Put /\ \A c \in Blocks : c # block => Disk'[c] = Disk[c]
      BY <1>0, <1>5, Zenon DEF TypeOK
    <3>2. FAT' = FAT
      BY <1>5, Zenon
    <3>3. ~(FAT[block] >= 0)
      BY <1>0 DEF LAST
    <3> QED
      BY <1>1, <3>1, <3>2, <3>3, Zenon DEF OnlyLastHasRoom
  <2> QED
    BY <1>3, <2>1, <2>3, <2>4, <2>5, <2>6, <2>7, Zenon
<1>6. ASSUME NEW n \in Blocks, First(n, FreeBlocks), Rest # <<>>, FAT' = Linked(n),
             Disk' = [Disk EXCEPT ![block] = Put, ![n] = <<>>],
             block' = n, content' = Rest, UNCHANGED <<pc, file, reply>>
      PROVE  IInv'
  <2>0. /\ FAT[n] = FREE /\ n # block
        /\ FAT'[block] = n /\ FAT'[n] = LAST
        /\ \A c \in Blocks : c # block /\ c # n => FAT'[c] = FAT[c]
    BY <1>0, <1>6 DEF First, FreeBlocks, Linked, TypeOK, FREE, LAST
  <2>1. TypeOK'
    <3>1. FAT' \in [Blocks -> FREE .. BLOCK_SIZE - 1]
      <4>1. n \in FREE .. BLOCK_SIZE - 1 /\ LAST \in FREE .. BLOCK_SIZE - 1
        BY SizesAssumption DEF FREE, LAST, Blocks
      <4> QED
        BY <1>6, <4>1, Zenon DEF Linked, TypeOK
    <3>2. Disk' \in [Blocks -> Seq(Chars)]
      BY <1>1, <1>4, <1>6, Zenon DEF TypeOK
    <3> QED
      BY <1>0, <1>1, <1>2, <1>6, <3>1, <3>2, Zenon DEF TypeOK
  <2>2. \A j \in Entries : Used(j)' = Used(j) /\ Root(j)' = Root(j)
    BY <1>0, <1>2, <1>6, Zenon DEF Used, Root
  <2>3. \A j \in Entries : Used(j) => Root(j) # n
    BY <2>0, Zenon DEF RootsAllocated
  <2>4. \A c \in Blocks : FAT[c] # n
    BY <2>0 DEF LinksAllocated, Blocks
  <2>5. RootsAllocated' /\ RootsDistinct'
    BY <1>6, <2>0, <2>2, <2>3 DEF RootsAllocated, RootsDistinct, FREE, LAST, Blocks
  <2>6. RootsUnlinked'
    BY <2>0, <2>2, <2>3 DEF RootsUnlinked, RootsAllocated, LAST, Blocks
  <2>7. LinksAllocated' /\ LinksDistinct'
    BY <1>0, <2>0, <2>4, Types DEF LinksAllocated, LinksDistinct, LAST, FREE
  <2>8. AllocatedKnown'
    BY <1>0, <2>0, <2>2 DEF AllocatedKnown, FREE, LAST, Blocks
  <2>9. NoRing' /\ NoLoop'
    BY <1>6, <2>0, LinkAcyclic, Zenon
  <2>10. AtWork'
    BY <1>0, <1>2, <1>6, <2>0, Zenon DEF AtWork, Used, TypeOK, FREE, LAST
  <2>11. OnlyLastHasRoom'
    <3>1. Disk'[n] = <<>> /\ Disk'[block] = Put
      BY <1>0, <1>6, <2>0, Zenon DEF TypeOK
    <3>2. \A c \in Blocks : c # block /\ c # n => Disk'[c] = Disk[c]
      BY <1>6, Zenon DEF TypeOK
    <3> QED
      <4>1. Len(Disk'[n]) <= BYTES /\ ~(FAT'[n] >= 0)
        BY <1>4, <2>0, <3>1, SizesAssumption DEF LAST
      <4>2. Len(Disk'[block]) = BYTES /\ BYTES <= BYTES
        BY <1>1, <1>6, <3>1, SizesAssumption, Zenon
      <4> QED
        BY <2>0, <3>2, <4>1, <4>2 DEF OnlyLastHasRoom
  <2> QED
    BY <1>3, <2>1, <2>5, <2>6, <2>7, <2>8, <2>9, <2>10, <2>11, Zenon
<1> QED
  BY <1>5, <1>6, Zenon DEF FillBlock

\* Saving and loading leaves every file, the FAT and the blocks as they were.
LEMMA ReloadIInv ==
  ASSUME IInv, Reload
  PROVE  IInv'
<1> USE DEF IInv
<1>1. File_entries' \in [Entries -> Entry]
  BY InputsAssumption DEF Reload, TypeOK
<1>2. \A i \in Entries : /\ Used(i)' <=> Used(i)
                         /\ Used(i) => File_entries'[i] = File_entries[i] /\ Root(i)' = Root(i)
  BY Zenon DEF Reload, Used, Root
<1>3. UNCHANGED <<FAT, Disk, locals>> /\ pc' = "main" /\ pc = "save"
  BY Zenon DEF Reload
<1>4. TypeOK' /\ AtWork'
  BY <1>1, <1>3, Zenon DEF TypeOK, AtWork, locals
<1>5. NamesUnique'
  BY <1>2, Zenon DEF NamesUnique, Holds
<1>6. RootsAllocated' /\ RootsDistinct' /\ RootsUnlinked'
  BY <1>2, <1>3, Zenon DEF RootsAllocated, RootsDistinct, RootsUnlinked
<1>7. LinksAllocated' /\ LinksDistinct' /\ NoRing' /\ NoLoop' /\ OnlyLastHasRoom'
  BY <1>3 DEF LinksAllocated, LinksDistinct, NoRing, NoLoop, OnlyLastHasRoom
<1>8. AllocatedKnown'
  BY <1>2, <1>3 DEF AllocatedKnown
<1> QED
  BY <1>4, <1>5, <1>6, <1>7, <1>8, Zenon

\* Every step of the program preserves the inductive invariant.
LEMMA NextIInv == IInv /\ [Next]_vars => IInv'
<1> SUFFICES ASSUME IInv, [Next]_vars PROVE IInv'
  BY Zenon
<1>1. ASSUME NEW n \in Names, create_file(n) PROVE IInv'
  BY <1>1, CreateIInv, Zenon
<1>2. ASSUME NEW n \in Names, NEW c \in Contents, write_file(n, c) PROVE IInv'
  BY <1>2, StartIInv, Zenon DEF write_file
<1>3. ASSUME NEW n \in Names, read_file(n) \/ delete_file(n) PROVE IInv'
  BY <1>3, StartIInv, Zenon DEF read_file, delete_file
<1>4. CASE list_files \/ wrong_command
  BY <1>4, StartIInv, Zenon DEF list_files, wrong_command
<1>5. CASE Step
  BY <1>5, FollowIInv, FillIInv, DeleteIInv, Zenon DEF Step
<1>6. CASE Reload
  BY <1>6, ReloadIInv, Zenon
<1>7. CASE UNCHANGED vars
  <2>1. UNCHANGED mem /\ UNCHANGED <<pc, file, block, content, reply>>
    BY <1>7, Zenon DEF vars, locals
  <2>2. TypeOK' /\ AtWork' /\ \A i \in Entries : Root(i)' = Root(i)
    BY <2>1, Zenon DEF IInv, TypeOK, AtWork, Root, Used, mem
  <2> QED
    BY <2>1, <2>2, SameTables, Zenon
<1> QED
  BY <1>1, <1>2, <1>3, <1>4, <1>5, <1>6, <1>7, Zenon DEF Next, Command

----------------------------------------------------------------------------
(* What the cell-by-cell facts say about whole chains.                     *)

\* A block is in its own chain, and a chain holds its members' successors.
LEMMA ChainClosed ==
  ASSUME TypeOK, NEW r \in Blocks
  PROVE  /\ r \in Chain(r) /\ Chain(r) \in SUBSET Blocks /\ Closed(Chain(r))
         /\ \A S \in SUBSET Blocks : r \in S /\ Closed(S) => Chain(r) \subseteq S
<1>1. r \in Chain(r) /\ Chain(r) \in SUBSET Blocks
  BY Zenon DEF Chain
<1>2. ASSUME NEW c \in Chain(r), FAT[c] >= 0
      PROVE  FAT[c] \in Chain(r)
  <2>1. FAT[c] \in Blocks
    BY <1>1, <1>2, Types, Zenon
  <2>2. ASSUME NEW S \in SUBSET Blocks, r \in S, Closed(S)
        PROVE  FAT[c] \in S
    <3>1. c \in S
      BY <2>2, Zenon DEF Chain
    <3> QED
      BY <1>2, <2>2, <3>1, Zenon DEF Closed
  <2> QED
    BY <2>1, <2>2, Zenon DEF Chain
<1>3. \A S \in SUBSET Blocks : r \in S /\ Closed(S) => Chain(r) \subseteq S
  BY Zenon DEF Chain
<1> QED
  BY <1>1, <1>2, <1>3, Zenon DEF Closed

\* The chains of two files have no block in common.
LEMMA ChainsDisjoint ==
  ASSUME IInv, NEW i \in Entries, NEW j \in Entries, Used(i), Used(j), i # j
  PROVE  Chain(Root(i)) \cap Chain(Root(j)) = {}
<1> DEFINE ri == Root(i)
           rj == Root(j)
           D  == Chain(ri) \ Chain(rj)
<1>0. /\ ri \in Blocks /\ rj \in Blocks /\ ri # rj
      /\ \A b \in Blocks : FAT[b] # ri /\ FAT[b] # rj
  BY Zenon DEF IInv, RootsAllocated, RootsDistinct, RootsUnlinked
<1>1. TypeOK /\ LinksDistinct
  BY Zenon DEF IInv
<1> HIDE DEF ri, rj
<1>2. ri \notin Chain(rj)
  <2>1. rj \in Blocks \ {ri} /\ Closed(Blocks \ {ri})
    BY <1>0, <1>1, Types, Zenon DEF Closed
  <2> QED
    BY <1>0, <1>1, <2>1, ChainClosed, Zenon
<1>3. ASSUME NEW c \in D, FAT[c] >= 0
      PROVE  FAT[c] \in D
  <2>1. c \in Blocks /\ FAT[c] \in Chain(ri) /\ FAT[c] \in Blocks
    BY <1>0, <1>1, <1>3, ChainClosed, Types, Zenon DEF Closed
  <2>2. CASE FAT[c] \in Chain(rj)
    <3> DEFINE S == Chain(rj) \ {FAT[c]}
    <3>1. rj \in S /\ S \in SUBSET Blocks
      BY <1>0, <1>1, <2>1, ChainClosed, Zenon
    <3>2. Closed(S)
      BY <1>0, <1>1, <1>3, <2>1, ChainClosed, Zenon DEF Closed, LinksDistinct
    <3> QED
      BY <1>0, <1>1, <2>1, <2>2, <3>1, <3>2, ChainClosed, Zenon
  <2> QED
    BY <2>1, <2>2, Zenon
<1>4. Closed(D) /\ ri \in D /\ D \in SUBSET Blocks
  BY <1>0, <1>1, <1>2, <1>3, ChainClosed, Zenon DEF Closed
<1>5. Chain(ri) \subseteq D
  BY <1>0, <1>1, <1>4, ChainClosed, Zenon
<1> QED
  BY <1>5, Zenon DEF ri, rj

\* An allocated block is in the chain of a file.
LEMMA AllocatedInChain ==
  ASSUME IInv, NEW b \in Blocks, FAT[b] # FREE
  PROVE  \E i \in Entries : Used(i) /\ b \in Chain(Root(i))
<1> DEFINE Lost == {c \in Blocks : FAT[c] # FREE
                       /\ \A i \in Entries : Used(i) => c \notin Chain(Root(i))}
<1>0. /\ TypeOK
      /\ \A i \in Entries : Used(i) => Root(i) \in Blocks
  BY Zenon DEF IInv, RootsAllocated
<1>1. SUFFICES ASSUME Lost # {} PROVE FALSE
  BY Zenon
<1>2. PICK c \in Lost : \A d \in Lost : FAT[d] # c
  <2>1. Lost \in SUBSET Blocks
    BY Zenon
  <2> HIDE DEF Lost
  <2> QED
    BY <1>1, <2>1, Zenon DEF IInv, NoRing
<1>3. \A i \in Entries : Used(i) => Root(i) # c
  BY <1>0, <1>2, ChainClosed, Zenon
<1>4. PICK d \in Blocks : FAT[d] = c
  BY <1>2, <1>3, Zenon DEF IInv, AllocatedKnown
<1>5. FAT[d] # FREE /\ FAT[d] >= 0
  BY <1>2, <1>4 DEF FREE, Blocks
<1>6. PICK i \in Entries : Used(i) /\ d \in Chain(Root(i))
  BY <1>2, <1>4, <1>5, Zenon
<1>7. c \in Chain(Root(i))
  BY <1>0, <1>4, <1>5, <1>6, ChainClosed, Zenon DEF Closed
<1> QED
  BY <1>2, <1>6, <1>7, Zenon

\* A block in the chain of a file is allocated.
LEMMA ChainAllocated ==
  ASSUME IInv, NEW i \in Entries, Used(i)
  PROVE  \A b \in Chain(Root(i)) : FAT[b] # FREE
<1> DEFINE A == {b \in Blocks : FAT[b] # FREE}
<1>1. TypeOK /\ Root(i) \in A
  BY Zenon DEF IInv, RootsAllocated
<1>2. Closed(A)
  BY <1>1, Types, Zenon DEF Closed, IInv, LinksAllocated
<1> QED
  BY <1>1, <1>2, ChainClosed, Zenon

\* The cell-by-cell facts make every block free or in exactly one chain.
LEMMA IInvPartition == IInv => BlocksPartitioned
  BY ChainAllocated, AllocatedInChain, ChainsDisjoint, Zenon DEF BlocksPartitioned

\* The loops stay in the chain they started in; the block that write_file
\* appends belongs to it.
LEMMA CursorStep == IInv /\ CursorInChain /\ [Next]_vars => CursorInChain'
<1> SUFFICES ASSUME IInv, CursorInChain, [Next]_vars,
                    pc' \in {"seek", "fill", "read", "delete"}
             PROVE  Used(file)' /\ (block \in Chain(Root(file)))'
  BY Zenon DEF CursorInChain
<1>0. IInv'
  BY NextIInv, Zenon
<1>1. /\ TypeOK /\ TypeOK' /\ Used(file)' /\ RootsAllocated'
      /\ pc' = "delete" => Root(file)' = block'
  BY <1>0, Zenon DEF IInv, AtWork, Root
<1>2. Root(file)' \in Blocks
  BY <1>1, Zenon DEF RootsAllocated, TypeOK
<1>3. CASE Root(file)' = block'
  <2>1. (block \in Chain(block))'
    BY <1>1, Zenon DEF Chain, TypeOK
  <2> QED
    BY <1>1, <1>3, <2>1, Zenon DEF Chain
<1>4. ASSUME pc \in {"seek", "fill", "read"}, UNCHANGED file, Root(file)' = Root(file),
             \A S \in SUBSET Blocks : Closed(S)' => Closed(S) /\ (block \in S => block' \in S)
      PROVE  (block \in Chain(Root(file)))'
  <2>1. block \in Chain(Root(file))
    BY <1>4, Zenon DEF CursorInChain
  <2>2. \A S \in SUBSET Blocks : Root(file) \in S /\ Closed(S) => block \in S
    BY <2>1, Zenon DEF Chain
  <2>3. \A S \in SUBSET Blocks : Root(file)' \in S /\ Closed(S)' => block' \in S
    BY <1>4, <2>2, Zenon
  <2> QED
    BY <1>1, <2>3, Zenon DEF Chain, TypeOK
<1>5. CASE SeekLast
  <2>1. \A S \in SUBSET Blocks : Closed(S)' => Closed(S)
    BY <1>5, Zenon DEF SeekLast, Closed, mem
  <2>2. \A S \in SUBSET Blocks : Closed(S) /\ block \in S => block' \in S
    BY <1>5, Zenon DEF SeekLast, Closed
  <2>3. UNCHANGED file /\ Root(file)' = Root(file) /\ pc = "seek"
    BY <1>5, Zenon DEF SeekLast, Root, mem
  <2> QED
    BY <1>1, <1>4, <2>1, <2>2, <2>3, Zenon
<1>6. CASE ReadBlock
  <2>1. \A S \in SUBSET Blocks : Closed(S)' => Closed(S)
    BY <1>6, Zenon DEF ReadBlock, Closed, mem
  <2>2. \A S \in SUBSET Blocks : Closed(S) /\ block \in S => block' \in S
    BY <1>6, Zenon DEF ReadBlock, Closed, Return
  <2>3. UNCHANGED file /\ Root(file)' = Root(file) /\ pc = "read"
    BY <1>6, Zenon DEF ReadBlock, Root, mem, Return
  <2> QED
    BY <1>1, <1>4, <2>1, <2>2, <2>3, Zenon
<1>7. CASE FillBlock
  <2>1. /\ pc = "fill" /\ UNCHANGED file /\ content # <<>> /\ File_entries' = Grown /\ pc' = "fill"
        /\ \/ FAT' = FAT /\ block' = block
           \/ \E n \in Blocks : FAT[n] = FREE /\ FAT' = Linked(n) /\ block' = n
    BY <1>7, Zenon DEF FillBlock, Return, First, FreeBlocks
  <2>2. Root(file)' = Root(file)
    BY <1>1, <2>1, Growing, Zenon DEF Root, IInv, TypeOK
  <2>3. CASE FAT' = FAT /\ block' = block
    BY <1>1, <1>4, <2>1, <2>2, <2>3, Zenon DEF Closed
  <2>4. ASSUME NEW n \in Blocks, FAT[n] = FREE, FAT' = Linked(n), block' = n
        PROVE  (block \in Chain(Root(file)))'
    <3>1. /\ block \in Blocks /\ FAT[block] = LAST /\ FAT'[block] = n /\ n >= 0
          /\ \A c \in Blocks : FAT[c] >= 0 => FAT'[c] = FAT[c]
      BY <2>1, <2>4 DEF IInv, AtWork, TypeOK, Linked, FREE, LAST, Blocks
    <3>2. \A S \in SUBSET Blocks : Closed(S)' => Closed(S) /\ (block \in S => block' \in S)
      BY <2>4, <3>1, Zenon DEF Closed
    <3> QED
      BY <1>4, <2>1, <2>2, <3>2, Zenon
  <2> QED
    BY <1>1, <2>1, <2>3, <2>4, Zenon
<1>8. CASE DeleteBlock
  BY <1>1, <1>3, <1>8, Zenon DEF DeleteBlock, Return
<1>9. CASE WriteDone \/ Reload
  BY <1>9, Zenon DEF WriteDone, Reload, Return
<1>10. CASE Command
  <2>1. \E i \in Entries, n \in Names, l \in {"seek", "read", "delete"}, c \in Contents \cup {<<>>} :
           Walk(l, i, c) /\ UNCHANGED mem
    BY <1>10, Zenon DEF Command, create_file, write_file, read_file, delete_file,
                 list_files, wrong_command, Return
  <2>2. Root(file)' = block'
    BY <2>1, Zenon DEF Walk, Root, mem
  <2> QED
    BY <1>1, <1>3, <2>2, Zenon
<1>11. CASE UNCHANGED vars
  BY <1>11, Zenon DEF CursorInChain, vars, locals, mem, Used, Chain, Closed, Root
<1> QED
  BY <1>1, <1>5, <1>6, <1>7, <1>8, <1>9, <1>10, <1>11, Zenon DEF Next, Step

----------------------------------------------------------------------------
(* The theorems, for any number of entries and blocks and any block size.  *)

\* The inductive invariant holds in every state of fat.c: whatever commands
\* are run, the entries, the FAT and the blocks agree cell by cell.
THEOREM Invariance == Spec => []IInv
  BY InitIInv, NextIInv, PTL DEF Spec

\* Every variable of fat.c keeps its type; in particular no loop of a command
\* follows the FAT out of the block table.
THEOREM TypeCorrect == Spec => []TypeOK
<1>1. IInv => TypeOK
  BY Zenon DEF IInv
<1> QED
  BY <1>1, Invariance, PTL

\* create_file never makes two files of one name.
THEOREM UniqueNames == Spec => []NamesUnique
<1>1. IInv => NamesUnique
  BY Zenon DEF IInv
<1> QED
  BY <1>1, Invariance, PTL

\* No sequence of create_file, write_file and delete_file leaks a block or
\* lets two files share one.
THEOREM Partition == Spec => []BlocksPartitioned
  BY IInvPartition, Invariance, PTL

\* The links that write_file makes never close a loop, so that each loop over
\* a chain visits a block at most once.
THEOREM LoopFree == Spec => []NoLoop
<1>1. IInv => NoLoop
  BY Zenon DEF IInv
<1> QED
  BY <1>1, Invariance, PTL

\* No block is overfilled, and write_file leaves room in last blocks only.
THEOREM BlocksFilled == Spec => []OnlyLastHasRoom
<1>1. IInv => OnlyLastHasRoom
  BY Zenon DEF IInv
<1> QED
  BY <1>1, Invariance, PTL

\* write_file, read_file and delete_file touch blocks of their own file only.
THEOREM OwnBlocks == Spec => []CursorInChain
<1>1. Init => CursorInChain
  BY Zenon DEF Init, CursorInChain
<1> QED
  BY <1>1, CursorStep, Invariance, PTL DEF Spec
=============================================================================
