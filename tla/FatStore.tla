------------------------------ MODULE FatStore ------------------------------
(***************************************************************************)
(* How fat.c keeps the file system between two runs of the program: the    *)
(* three host files File_entry, FAT and Disk, which save_file_system       *)
(* writes and load_file_system parses, and what a crash or a failing fopen *)
(* makes of them.                                                          *)
(*                                                                         *)
(* A file name is the sequence of its words, because that is all that      *)
(* fscanf's %s tells apart.  File_entry and FAT are sequences of the words *)
(* printed to them, Disk is a sequence of characters.                      *)
(***************************************************************************)
EXTENDS Fat, FiniteSets, SequencesExt, TLC

CONSTANT MaxFaults   \* how many times the program is killed or an fopen fails

VARIABLES
  host,     \* the host files that exist -> their contents
  printed,  \* open stream -> what is printed to it and may not be on disk yet
  image,    \* the tables as they were when File_entry was last opened to save
  faults    \* crashes and failures so far

svars == <<vars, host, printed, image, faults>>

Tables == [entries |-> File_entries, fat |-> FAT, disk |-> Disk]

StoreInit ==
  /\ Init
  /\ host = <<>>
  /\ printed = <<>>
  /\ image = Tables
  /\ faults = 0

\* Something goes wrong, which it does at most MaxFaults times.
Fault == faults < MaxFaults /\ faults' = faults + 1

\* A step of a command, on the memory of the process.
InMemory == (Command \/ Step) /\ UNCHANGED <<host, printed, image, faults>>

\* The process ends; its memory is gone.
Exit ==
  /\ pc' = "exit"
  /\ File_entries' = [i \in Entries |-> Blank]
  /\ FAT' = [b \in Blocks |-> 0]
  /\ Disk' = [b \in Blocks |-> <<>>]
  /\ printed' = <<>>
  /\ file' = 0 /\ block' = 0 /\ content' = <<>>

----------------------------------------------------------------------------
(* save_file_system                                                        *)

\* fopen(f, "w")
Truncate(f) == (f :> <<>>) @@ host

\* save_file_system gives up: "disk is damaged".
Damaged == Fault /\ Exit /\ UNCHANGED <<reply, host, image>>

Open(f, here, next) ==
  /\ pc = here
  /\ \/ /\ host' = Truncate(f)
        /\ pc' = next
        /\ image' = IF f = "File_entry" THEN Tables ELSE image
        /\ UNCHANGED <<mem, locals, reply, printed, faults>>
     \/ Damaged

\* Faulty variant: the start block is printed before the size.
Line_StartFirst(e) == e.file_name \o <<ToString(e.start), ToString(e.file_size), ToString(e.use)>>

Line(e) == e.file_name \o <<ToString(e.file_size), ToString(e.start), ToString(e.use)>>

Printout(f) ==
  CASE f = "File_entry" -> FlattenSeq([i \in 1 .. ENTRY |-> Line(File_entries[i - 1])])
    [] f = "FAT"        -> [b \in 1 .. BLOCK_SIZE |-> ToString(FAT[b - 1])]
    [] f = "Disk"       -> FlattenSeq([b \in 1 .. BLOCK_SIZE |-> Append(Disk[b - 1], Newline)])

Output(f, here, next) ==
  /\ pc = here /\ pc' = next
  /\ printed' = (f :> Printout(f)) @@ printed
  /\ UNCHANGED <<mem, locals, reply, host, image, faults>>

\* fclose passes on everything that was printed.
Close(f, here, next) ==
  /\ pc = here /\ pc' = next
  /\ host' = (f :> printed[f]) @@ host
  /\ printed' = Restrict(printed, DOMAIN printed \ {f})
  /\ UNCHANGED <<mem, locals, reply, image, faults>>

\* Faulty variant: each file is opened, written and closed before the next.
save_file_system_OneByOne ==
  \/ Open("File_entry", "save", "print File_entry")
  \/ Output("File_entry", "print File_entry", "close File_entry")
  \/ Close("File_entry", "close File_entry", "open FAT")
  \/ Open("FAT", "open FAT", "print FAT")
  \/ Output("FAT", "print FAT", "close FAT")
  \/ Close("FAT", "close FAT", "open Disk")
  \/ Open("Disk", "open Disk", "print Disk")
  \/ Output("Disk", "print Disk", "close Disk")
  \/ Close("Disk", "close Disk", "saved")

save_file_system ==
  \/ Open("File_entry", "save", "open FAT")
  \/ Open("FAT", "open FAT", "open Disk")
  \/ Open("Disk", "open Disk", "print File_entry")
  \/ Output("File_entry", "print File_entry", "print FAT")
  \/ Output("FAT", "print FAT", "print Disk")
  \/ Output("Disk", "print Disk", "close File_entry")
  \/ Close("File_entry", "close File_entry", "close FAT")
  \/ Close("FAT", "close FAT", "close Disk")
  \/ Close("Disk", "close Disk", "saved")

main_returns == pc = "saved" /\ Exit /\ UNCHANGED <<reply, host, image, faults>>

\* What can have reached the host file f: of an open stream, the C library
\* has passed on some part from the beginning.
Reached(f) == IF f \in DOMAIN printed
              THEN {SubSeq(printed[f], 1, k) : k \in 0 .. Len(printed[f])}
              ELSE {host[f]}

\* The process is killed.
Crash ==
  /\ Fault
  /\ pc # "exit"
  /\ \E cut \in [DOMAIN host -> UNION {Reached(f) : f \in DOMAIN host}] :
        /\ \A f \in DOMAIN host : cut[f] \in Reached(f)
        /\ host' = cut
  /\ Exit
  /\ reply' = Reply("none")
  /\ UNCHANGED image

----------------------------------------------------------------------------
(* load_file_system                                                        *)

\* The numbers the program prints, and the word for a number.  A command adds at
\* most the capacity of the disk to a size that a crash may have left too large.
Capacity == BLOCK_SIZE * BYTES
Numbers == -2 .. 2 * Capacity
IsNumber(w) == \E n \in Numbers : ToString(n) = w
Number(w)   == CHOOSE n \in Numbers : ToString(n) = w

\* fscanf("%s %d %d %d"): the words of one entry, up to the first one that is
\* not a number where a number is due; what is not read stays zero.
Scanned(ws) ==
  CHOOSE k \in 0 .. 4 :
     /\ k <= Len(ws)
     /\ \A i \in 2 .. k : IsNumber(ws[i])
     /\ k < 4 /\ k < Len(ws) /\ k > 0 => ~IsNumber(ws[k + 1])
     /\ k = 0 => ws = <<>>
ScanEntry(ws) ==
  LET k == Scanned(ws) IN
  [file_name |-> IF k >= 1 THEN <<ws[1]>> ELSE Blank.file_name,
   file_size |-> IF k >= 2 THEN Number(ws[2]) ELSE 0,
   start     |-> IF k >= 3 THEN Number(ws[3]) ELSE 0,
   use       |-> IF k >= 4 THEN Number(ws[4]) ELSE 0]

\* The words that are left for entry i and the entries after it.
WordsFor(ws, i) ==
  LET left[k \in 0 .. ENTRY] ==
        IF k = 0 THEN ws ELSE SubSeq(left[k - 1], Scanned(left[k - 1]) + 1, Len(left[k - 1]))
  IN  left[i]

\* fgets takes a line, newline included, but at most BYTES + 1 characters;
\* the last character is dropped, whatever it is.
LineLength(cs) ==
  CHOOSE k \in 0 .. BYTES + 1 :
     /\ k <= Len(cs)
     /\ \A i \in 1 .. k - 1 : cs[i] # Newline
     /\ k = BYTES + 1 \/ k = Len(cs) \/ (k > 0 /\ cs[k] = Newline)
CharsFor(cs, b) ==
  LET left[k \in 0 .. BLOCK_SIZE] ==
        IF k = 0 THEN cs ELSE SubSeq(left[k - 1], LineLength(left[k - 1]) + 1, Len(left[k - 1]))
  IN  left[b]

\* "No saved state found. Starting fresh."
Fresh ==
  /\ \/ "File_entry" \notin DOMAIN host /\ UNCHANGED faults
     \/ "File_entry" \in DOMAIN host /\ Fault
  /\ File_entries' = [i \in Entries |-> Blank]
  /\ FAT' = [b \in Blocks |-> FREE]
  /\ Disk' = [b \in Blocks |-> <<>>]

Parse ==
  /\ DOMAIN host = {"File_entry", "FAT", "Disk"}
  /\ File_entries' = [i \in Entries |-> ScanEntry(WordsFor(host["File_entry"], i))]
  /\ FAT' = [b \in Blocks |-> IF b < Len(host["FAT"]) THEN Number(host["FAT"][b + 1]) ELSE 0]
  /\ Disk' = [b \in Blocks |-> LET l == CharsFor(host["Disk"], b)
                               IN  SubSeq(l, 1, LineLength(l) - 1)]
  /\ UNCHANGED faults

\* The next run of the program.
load_file_system ==
  /\ pc = "exit"
  /\ Fresh \/ Parse
  /\ pc' = "main"
  /\ reply' = Reply("none")
  /\ UNCHANGED <<locals, host, printed, image>>

\* FAT or Disk cannot be opened: main returns without saving.
load_fails ==
  /\ pc = "exit"
  /\ "File_entry" \in DOMAIN host
  /\ \/ {"FAT", "Disk"} \subseteq DOMAIN host /\ Fault
     \/ ~({"FAT", "Disk"} \subseteq DOMAIN host) /\ UNCHANGED faults
  /\ reply' = Reply("files are not loaded")
  /\ UNCHANGED <<mem, pc, locals, host, printed, image>>

StoreNext == InMemory \/ save_file_system \/ main_returns \/ Crash \/ load_file_system \/ load_fails

StoreSpec == StoreInit /\ [][StoreNext]_svars
----------------------------------------------------------------------------
(* Properties.                                                             *)

Running == pc \in {"main", "seek", "fill", "read", "delete", "save"}

Kept == INSTANCE Fat WITH
  File_entries <- IF pc = "exit" THEN image.entries ELSE File_entries,
  FAT  <- IF pc = "exit" THEN image.fat ELSE FAT,
  Disk <- IF pc = "exit" THEN image.disk ELSE Disk,
  pc   <- IF Running THEN pc ELSE "save"

\* As long as nothing goes wrong, saving and loading is the Reload step of
\* module Fat: every file, every cell of the FAT and every block come back as
\* they were, and no unused entry comes back in use.
ImplementsFat == Kept!Init /\ [][faults' = 0 => [Kept!Next]_(Kept!vars)]_svars

\* A file that a run finds was in the table that was last being saved, in the
\* same entry, with the same name, size and first block: a crash can lose files
\* but never revives, renames or moves one.  And its first block is never marked
\* free, so that the next create or write does not take it: File_entry is filled
\* only after FAT was truncated.  (Said of a run that saved a sound file system.)
SurvivorsSound ==
  [][load_file_system =>
       /\ \A i \in Entries : Used(i)' => File_entries'[i] = image.entries[i]
       /\ (\A i \in Entries : image.entries[i].use = 1 => image.fat[image.entries[i].start] # FREE)
          => \A i \in Entries : Used(i)' => FAT'[File_entries'[i].start] # FREE]_svars

\* When a command starts, a block that belongs to no file is marked free ("free
\* space: -2", fat.c line 22).  This holds until a fault hits save_file_system.
FreeSpaceMarked ==
  pc = "main" => \A b \in Blocks : FAT[b] = FREE \/ \E i \in Entries : Used(i) /\ b \in Chain(Root(i))
=============================================================================
