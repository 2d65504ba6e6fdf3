------------------------------- MODULE ProcInfo ------------------------------
(***************************************************************************)
(* /proc/proc_2020202034/processInfo of Assignment 5-1.  A program opens    *)
(* the file, writes a pid to it to select a process, or reads it for a     *)
(* report on that process or, if there is none, on all of them.            *)
(* is_processed and cur_proc are shared by everyone who has the file open; *)
(* the report is built piece by piece in a kernel buffer that doubles when *)
(* it is full.  The report is longer than its reader asked for when it     *)
(* does not fit: the code does not look at the length, and neither does    *)
(* the model.  The list of processes does not change here.                 *)
(***************************************************************************)
EXTENDS Integers, Sequences, FiniteSets

CONSTANTS Readers,     \* programs that use the file
          Tasks,       \* the pids of the processes, in the order of the kernel's list
          ThreadIds,   \* the numbers of further threads, which a lookup finds too
          Inputs,      \* what programs write: characters, 0..9 and the four below
          INT_SPAN,    \* the number of values of an int
          BUF_SIZE,    \* the first size of the buffer
          HeadLen,     \* length of the two title lines
          IdLens,      \* lengths that the numbers of a process may take
          StateLen,    \* length of a state
          NameLen,     \* length of a name
          MaxOpens,    \* bound: how often others open the file while a program has it open
          MaxFails     \* bound: allocations that fail

NL == 10      \* the newline

Other == 11   \* any character that is no digit, sign or newline

Minus == 12

Plus == 13

(***************************************************************************)
(* What is written is not empty, fits buf[50] and is in the range of a     *)
(* long.  The pieces are formatted in buf[512]; the titles and one process *)
(* fit in the first buffer, even if one piece appears twice.               *)
(***************************************************************************)
ASSUME ProcAssumption ==
  /\ Tasks \in Seq(Nat \ {0})
  /\ ThreadIds \subseteq Nat \ {0}
  /\ Inputs \subseteq Seq(0..13) /\ \A text \in Inputs : Len(text) \in 1..50
  /\ INT_SPAN \in Nat \ {0}
  /\ {BUF_SIZE, HeadLen, StateLen, NameLen, MaxOpens, MaxFails} \subseteq Nat
  /\ IdLens \subseteq Nat
  /\ HeadLen < BUF_SIZE /\ StateLen < BUF_SIZE /\ NameLen < BUF_SIZE
  /\ \A n \in IdLens : /\ HeadLen + n + StateLen + NameLen < BUF_SIZE
                        /\ HeadLen + n + n + NameLen < BUF_SIZE

VARIABLES cur_proc,       \* the selected pid
          is_processed,   \* whether a report has been delivered since the last open
          pc,             \* what each reader does
          whole,          \* it reports on all processes (the branch with size checks)
          todo,           \* the pieces it has still to write
          buf,            \* the piece it has formatted last: its kind and its length
          buffer,         \* the pieces it has written
          used,           \* strlen(buffer)
          buf_size,       \* the size of the buffer
          selected,       \* cur_proc as it was tested, then the number that was looked up
          got,            \* how many reports it received since it opened the file
          others,         \* history: how often others opened the file since it did
          served,         \* history: another one received a report since it opened the file
          failed,         \* history: an allocation failed
          fails           \* the allocations that failed, for the bound

shared == <<cur_proc, is_processed>>
local == <<whole, todo, buf, buffer, used, buf_size, selected>>
history == <<got, others, served, failed>>
vars == <<shared, pc, local, history, fails>>

(* A piece of the report: a process and "head", "ids", "state", "name" or "none". *)
Blank == [pid |-> 0, what |-> "none"]

Init ==
  /\ cur_proc = -1
  /\ is_processed = 0
  /\ pc = [r \in Readers |-> "closed"]
  /\ whole = [r \in Readers |-> FALSE]
  /\ todo = [r \in Readers |-> << >>]
  /\ buf = [r \in Readers |-> [piece |-> Blank, len |-> 0]]
  /\ buffer = [r \in Readers |-> << >>]
  /\ used = [r \in Readers |-> 0]
  /\ buf_size = [r \in Readers |-> 0]
  /\ selected = [r \in Readers |-> 0]
  /\ got = [r \in Readers |-> 0]
  /\ others = [r \in Readers |-> 0]
  /\ served = [r \in Readers |-> FALSE]
  /\ failed = [r \in Readers |-> FALSE]
  /\ fails = 0

\* Faulty variant: is_processed is not reset.
my_open_Stale(r) ==
  /\ pc[r] = "closed"
  /\ \A q \in Readers : others[q] < MaxOpens
  /\ pc' = [pc EXCEPT ![r] = "open"]
  /\ others' = [q \in Readers |-> IF pc[q] = "closed" THEN 0 ELSE others[q] + 1]
  /\ UNCHANGED <<shared, local, got, served, failed, fails>>

my_open(r) ==
  /\ pc[r] = "closed"
  /\ \A q \in Readers : others[q] < MaxOpens
  /\ is_processed' = 0
  /\ pc' = [pc EXCEPT ![r] = "open"]
  /\ others' = [q \in Readers |-> IF pc[q] = "closed" THEN 0 ELSE others[q] + 1]
  /\ UNCHANGED <<cur_proc, local, got, served, failed, fails>>

release(r) ==
  /\ pc[r] \in {"open", "eof"}
  /\ pc' = [pc EXCEPT ![r] = "closed"]
  /\ got' = [got EXCEPT ![r] = 0]
  /\ others' = [others EXCEPT ![r] = 0]
  /\ served' = [served EXCEPT ![r] = FALSE]
  /\ failed' = [failed EXCEPT ![r] = FALSE]
  /\ UNCHANGED <<shared, local, fails>>

(* A read that delivers nothing: the program takes it for the end of the file. *)
my_read_Eof(r) ==
  /\ pc[r] = "open"
  /\ is_processed # 0
  /\ pc' = [pc EXCEPT ![r] = "eof"]
  /\ UNCHANGED <<shared, local, history, fails>>

(* The locals of my_read are gone when it returns. *)
Leave(r) ==
  /\ whole' = [whole EXCEPT ![r] = FALSE]
  /\ todo' = [todo EXCEPT ![r] = << >>]
  /\ buf' = [buf EXCEPT ![r] = [piece |-> Blank, len |-> 0]]
  /\ buffer' = [buffer EXCEPT ![r] = << >>]
  /\ used' = [used EXCEPT ![r] = 0]
  /\ buf_size' = [buf_size EXCEPT ![r] = 0]
  /\ selected' = [selected EXCEPT ![r] = 0]

GiveUp(r) ==
  /\ fails < MaxFails
  /\ fails' = fails + 1
  /\ failed' = [failed EXCEPT ![r] = TRUE]
  /\ pc' = [pc EXCEPT ![r] = "eof"]
  /\ Leave(r)
  /\ UNCHANGED <<shared, got, others, served>>

my_read_NoMemory(r) ==
  /\ pc[r] = "open"
  /\ is_processed = 0
  /\ GiveUp(r)

Row(pid) == <<[pid |-> pid, what |-> "ids"], [pid |-> pid, what |-> "state"],
              [pid |-> pid, what |-> "name"]>>

(* One row of three pieces after the other. *)
Rows == [i \in 1..3 * Len(Tasks) |-> Row(Tasks[(i + 2) \div 3])[1 + ((i + 2) % 3)]]

(* pid_task: NULL unless the number belongs to a process or a thread. *)
Exists(nr) == nr \in ThreadIds \/ \E i \in DOMAIN Tasks : Tasks[i] = nr

Report(nr) == IF Exists(nr) THEN Row(nr) ELSE Rows

(* The buffer is allocated, and cur_proc tested. *)
my_read_Start(r) ==
  /\ pc[r] = "open"
  /\ is_processed = 0
  /\ pc' = [pc EXCEPT ![r] = "look"]
  /\ selected' = [selected EXCEPT ![r] = cur_proc]
  /\ UNCHANGED <<shared, whole, todo, buf, buffer, used, buf_size, history, fails>>

(* What find_vpid is asked for: cur_proc is read again, and its type is int. *)
LookedUp(r) == IF selected[r] <= 0 THEN 0 ELSE cur_proc % INT_SPAN

(* The process is looked up and the titles are written. *)
my_read_Look(r) ==
  /\ pc[r] = "look"
  /\ pc' = [pc EXCEPT ![r] = "format"]
  /\ selected' = [selected EXCEPT ![r] = LookedUp(r)]
  /\ whole' = [whole EXCEPT ![r] = ~Exists(LookedUp(r))]
  /\ todo' = [todo EXCEPT ![r] = Report(LookedUp(r))]
  /\ buf' = [buf EXCEPT ![r] = [piece |-> [pid |-> 0, what |-> "head"], len |-> 0]]
  /\ buffer' = [buffer EXCEPT ![r] = << >>]
  /\ used' = [used EXCEPT ![r] = HeadLen]
  /\ buf_size' = [buf_size EXCEPT ![r] = BUF_SIZE]
  /\ UNCHANGED <<shared, history, fails>>

(***************************************************************************)
(* sprintf of the next piece.  The chain of tests for the state names the  *)
(* states it knows; a task in any other (TASK_NEW, TASK_WAKING) leaves in  *)
(* buf what was formatted before.                                          *)
(***************************************************************************)
Formatted(r, piece) ==
  CASE piece.what = "ids" -> {[piece |-> piece, len |-> n] : n \in IdLens}
    [] piece.what = "state" -> {[piece |-> piece, len |-> StateLen], buf[r]}
    [] OTHER -> {[piece |-> piece, len |-> NameLen]}

\* Faulty variant: no room is kept for the terminating NUL.
Fits_Edge(r, len) == len <= buf_size[r] - used[r]

Fits(r, len) == len < buf_size[r] - used[r]

(* sprintf and strcat of the next piece. *)
Write(r, b) ==
  /\ buf' = [buf EXCEPT ![r] = b]
  /\ buffer' = [buffer EXCEPT ![r] = Append(@, b.piece)]
  /\ used' = [used EXCEPT ![r] = @ + b.len]
  /\ todo' = [todo EXCEPT ![r] = Tail(@)]
  /\ UNCHANGED <<shared, pc, whole, selected, history, fails>>

my_read_Append(r) ==
  /\ pc[r] = "format" /\ todo[r] # << >>
  /\ \E b \in Formatted(r, Head(todo[r])) :
       /\ whole[r] => Fits(r, b.len)
       /\ Write(r, b)
  /\ UNCHANGED buf_size

my_read_Grow(r) ==
  /\ pc[r] = "format" /\ todo[r] # << >> /\ whole[r]
  /\ \E b \in Formatted(r, Head(todo[r])) :
       /\ ~Fits(r, b.len)
       /\ Write(r, b)
  /\ buf_size' = [buf_size EXCEPT ![r] = 2 * @]

(* krealloc fails: the read returns 0 and the old buffer is not freed. *)
my_read_GrowFails(r) ==
  /\ pc[r] = "format" /\ todo[r] # << >> /\ whole[r]
  /\ \E b \in Formatted(r, Head(todo[r])) : ~Fits(r, b.len)
  /\ GiveUp(r)

my_read_Deliver(r) ==
  /\ pc[r] = "format"
  /\ todo[r] = << >>
  /\ got' = [got EXCEPT ![r] = @ + 1]
  /\ served' = [q \in Readers |-> served[q] \/ (q # r /\ pc[q] # "closed")]
  /\ is_processed' = is_processed + 1
  /\ pc' = [pc EXCEPT ![r] = "open"]
  /\ Leave(r)
  /\ UNCHANGED <<cur_proc, others, failed, fails>>

my_read(r) == \/ my_read_Eof(r)
              \/ my_read_NoMemory(r)
              \/ my_read_Start(r)
              \/ my_read_Look(r)
              \/ my_read_Append(r)
              \/ my_read_Grow(r)
              \/ my_read_GrowFails(r)
              \/ my_read_Deliver(r)

(* kstrtol: at most one sign, digits, and at most one newline behind them. *)
Number(s) ==
  LET first == IF s # << >> /\ s[1] \in {Minus, Plus} THEN 1 ELSE 0
      last == IF s # << >> /\ s[Len(s)] = NL THEN Len(s) - 1 ELSE Len(s)
      value[i \in first..last] == IF i = first THEN 0 ELSE 10 * value[i - 1] + s[i]
  IN [ok |-> last > first /\ \A i \in first + 1..last : s[i] \in 0..9,
      value |-> IF first = 1 /\ s[1] = Minus THEN -value[last] ELSE value[last]]

(* The last character is overwritten; what is no number leaves cur_proc as it is. *)
my_write(r, text) ==
  /\ pc[r] \in {"open", "eof"}
  /\ LET n == Number(SubSeq(text, 1, Len(text) - 1))
     IN cur_proc' = IF n.ok THEN n.value ELSE cur_proc
  /\ UNCHANGED <<is_processed, pc, local, history, fails>>

Next == \E r \in Readers : \/ my_open(r) \/ my_read(r) \/ release(r)
                           \/ \E text \in Inputs : my_write(r, text)

Spec == Init /\ [][Next]_vars

-----------------------------------------------------------------------------

\* The string in the buffer of my_read ends before the buffer does, its NUL
\* included, at every strcat: also in the branch for one process, which checks
\* nothing, and for a state that has no name.
NoOverflow ==
  \A r \in Readers : pc[r] = "format" => used[r] + 1 <= buf_size[r]

(* The pieces of a report, of which a state without a name repeats the one before it. *)
Like(pieces, all) ==
  /\ Len(pieces) = Len(all)
  /\ \A i \in 1..Len(all) : \/ pieces[i] = all[i]
                            \/ all[i].what = "state" /\ i > 1 /\ pieces[i] = pieces[i - 1]

\* What a program gets that opens the file and reads to its end, although all of
\* them share is_processed and cur_proc: every report that is delivered is
\* complete, in order and on the one process that was looked up, whoever selects
\* another process meanwhile; a report comes again only if somebody else has
\* opened the file, at most once for each time; and if the file is found empty,
\* an allocation failed or another program has received a report since this one
\* opened the file.  So who has the file to itself receives exactly one report.
ReadersServed ==
  \A r \in Readers :
    /\ pc[r] = "format" /\ todo[r] = << >> => Like(buffer[r], Report(selected[r]))
    /\ got[r] <= 1 + others[r]
    /\ pc[r] = "eof" /\ got[r] = 0 => failed[r] \/ served[r]
=============================================================================
