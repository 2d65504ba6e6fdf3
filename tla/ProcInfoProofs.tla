--------------------------- MODULE ProcInfoProofs ----------------------------
(***************************************************************************)
(* Proofs about module ProcInfo, for every list of processes, every number *)
(* of readers and all lengths that ProcAssumption allows: my_read never    *)
(* writes past the end of its buffer, and every report that it delivers is *)
(* complete and in order and comes as often as the sharing of is_processed *)
(* allows.                                                                 *)
(***************************************************************************)
EXTENDS ProcInfo, SequenceTheorems, TLAPS

LTypes ==
  /\ pc \in [Readers -> {"closed", "open", "look", "format", "eof"}]
  /\ whole \in [Readers -> BOOLEAN]
  /\ DOMAIN todo = Readers
  /\ DOMAIN buf = Readers
  /\ \A r \in Readers : buf[r].len \in Nat
  /\ used \in [Readers -> Nat]
  /\ buf_size \in [Readers -> Nat]

(***************************************************************************)
(* In the branch for all processes every piece is shorter than the buffer  *)
(* was at first, so that doubling it makes room.  The branch for one       *)
(* process never asks for room: there the length is known piece by piece,  *)
(* the state being the one that may repeat the numbers.                    *)
(***************************************************************************)
AllFit(r) ==
  /\ used[r] < buf_size[r]
  /\ buf_size[r] >= BUF_SIZE
  /\ buf[r].len < BUF_SIZE

OneFits(r) ==
  /\ buf_size[r] = BUF_SIZE
  /\ \E pid \in Nat :
       \/ todo[r] = Row(pid) /\ used[r] = HeadLen
       \/ /\ todo[r] = Tail(Row(pid))
          /\ buf[r].len \in IdLens /\ used[r] = HeadLen + buf[r].len
       \/ todo[r] = Tail(Tail(Row(pid))) /\ used[r] + NameLen < BUF_SIZE
       \/ todo[r] = << >> /\ used[r] < BUF_SIZE

BufferFits(r) == pc[r] = "format" => IF whole[r] THEN AllFit(r) ELSE OneFits(r)

ReadInv == LTypes /\ \A r \in Readers : BufferFits(r)

\* Nobody reads at first.
LEMMA InitReadInv == Init => ReadInv
  BY ProcAssumption DEF Init, ReadInv, LTypes, BufferFits

\* A step leaves what it does not touch as it was.
LEMMA OtherReaders ==
  ASSUME ReadInv, LTypes', NEW r \in Readers, BufferFits(r)',
         \A q \in Readers \ {r} : /\ pc'[q] = pc[q] /\ whole'[q] = whole[q] /\ todo'[q] = todo[q]
                                  /\ buf'[q] = buf[q] /\ used'[q] = used[q] /\ buf_size'[q] = buf_size[q]
  PROVE  ReadInv'
<1>1. ASSUME NEW q \in Readers PROVE BufferFits(q)'
  <2>1. CASE q = r
    BY <2>1, Zenon
  <2>2. CASE q # r
    BY <2>2, Zenon DEF ReadInv, BufferFits, AllFit, OneFits
  <2> QED
    BY <2>1, <2>2, Zenon
<1> QED
  BY <1>1, Zenon DEF ReadInv

\* The pieces of a row, one after the other.
LEMMA RowPieces ==
  ASSUME NEW pid \in Nat
  PROVE  /\ Head(Row(pid)).what = "ids"
         /\ Head(Tail(Row(pid))).what = "state"
         /\ Head(Tail(Tail(Row(pid)))).what = "name"
         /\ Tail(Tail(Tail(Row(pid)))) = << >>
<1>1. Tail(Row(pid)) = <<[pid |-> pid, what |-> "state"], [pid |-> pid, what |-> "name"]>>
  BY DEF Row
<1>2. Tail(Tail(Row(pid))) = <<[pid |-> pid, what |-> "name"]>>
  BY DEF Row
<1> QED
  BY <1>1, <1>2 DEF Row

\* The lengths of the next piece: a number, a state that may repeat the piece
\* before it, or a name.
LEMMA PieceLength ==
  ASSUME ReadInv, NEW r \in Readers, NEW piece, NEW b \in Formatted(r, piece)
  PROVE  /\ b.len \in Nat
         /\ buf[r].len < BUF_SIZE => b.len < BUF_SIZE
         /\ piece.what = "ids" => b.len \in IdLens
         /\ piece.what = "state" => b.len \in {StateLen, buf[r].len}
         /\ piece.what = "name" => b.len = NameLen
<1> USE ProcAssumption DEF ReadInv, LTypes
<1>1. CASE piece.what = "ids"
  <2>1. PICK n \in IdLens : b = [piece |-> piece, len |-> n]
    BY <1>1, Zenon DEF Formatted
  <2>2. n \in Nat /\ n < BUF_SIZE
    OBVIOUS
  <2> QED
    BY <1>1, <2>1, <2>2, Zenon
<1>2. CASE piece.what = "state"
  <2>1. b = [piece |-> piece, len |-> StateLen] \/ b = buf[r]
    BY <1>2, Zenon DEF Formatted
  <2> QED
    BY <1>2, <2>1
<1>3. CASE piece.what \notin {"ids", "state"}
  <2>1. b = [piece |-> piece, len |-> NameLen]
    BY <1>3, Zenon DEF Formatted
  <2> QED
    BY <1>3, <2>1, Zenon
<1> QED
  BY <1>1, <1>2, <1>3, Zenon

\* strcat into a buffer that is large enough or has been doubled.
LEMMA WriteAll ==
  ASSUME ReadInv, NEW r \in Readers, pc[r] = "format", whole[r],
         NEW b \in Formatted(r, Head(todo[r])), Write(r, b),
         \/ Fits(r, b.len) /\ UNCHANGED buf_size
         \/ ~Fits(r, b.len) /\ buf_size' = [buf_size EXCEPT ![r] = 2 * @]
  PROVE  ReadInv'
<1> USE DEF ReadInv, LTypes
<1>1. b.len \in Nat /\ b.len < BUF_SIZE /\ AllFit(r)
  BY PieceLength, Zenon DEF BufferFits, AllFit
<1>2. LTypes'
  <2>1. buf_size' \in [Readers -> Nat]
    BY DEF Fits
  <2>2. used' \in [Readers -> Nat] /\ DOMAIN todo' = Readers /\ DOMAIN buf' = Readers
    BY <1>1 DEF Write
  <2>3. \A q \in Readers : buf'[q].len \in Nat
    BY <1>1, Zenon DEF Write
  <2> QED
    BY <2>1, <2>2, <2>3, Zenon DEF Write
<1>3. used'[r] = used[r] + b.len /\ buf'[r] = b /\ pc' = pc /\ whole' = whole
  BY Zenon DEF Write
<1>4. AllFit(r)'
  <2>1. CASE Fits(r, b.len) /\ UNCHANGED buf_size
    BY <1>1, <1>3, <2>1, ProcAssumption DEF AllFit, Fits
  <2>2. CASE buf_size' = [buf_size EXCEPT ![r] = 2 * @]
    <3>1. buf_size'[r] = 2 * buf_size[r]
      BY <2>2, Zenon
    <3>2. used[r] \in Nat /\ buf_size[r] \in Nat /\ BUF_SIZE \in Nat
      BY ProcAssumption, Zenon
    <3>3. used[r] < buf_size[r] /\ buf_size[r] >= BUF_SIZE
      BY <1>1, Zenon DEF AllFit
    <3>4. used[r] + b.len < 2 * buf_size[r] /\ 2 * buf_size[r] >= BUF_SIZE
      BY <1>1, <3>2, <3>3
    <3> QED
      BY <1>1, <1>3, <3>1, <3>4, Zenon DEF AllFit
  <2> QED
    BY <2>1, <2>2, Zenon
<1>5. BufferFits(r)'
  BY <1>3, <1>4, Zenon DEF BufferFits
<1> QED
  BY <1>2, <1>5, OtherReaders, Zenon DEF Write

\* strcat in the branch for one process, where nothing is checked.
LEMMA WriteOne ==
  ASSUME ReadInv, NEW r \in Readers, pc[r] = "format", ~whole[r], todo[r] # << >>,
         NEW b \in Formatted(r, Head(todo[r])), Write(r, b), UNCHANGED buf_size
  PROVE  ReadInv'
<1> USE DEF ReadInv, LTypes
<1>1. b.len \in Nat
  BY PieceLength, Zenon
<1>2. LTypes'
  BY <1>1 DEF Write
<1>3. /\ used'[r] = used[r] + b.len /\ buf'[r] = b /\ todo'[r] = Tail(todo[r])
      /\ pc' = pc /\ whole' = whole /\ buf_size'[r] = buf_size[r]
  BY Zenon DEF Write
<1>4. OneFits(r)
  BY Zenon DEF BufferFits
<1>5. PICK pid \in Nat :
        \/ todo[r] = Row(pid) /\ used[r] = HeadLen
        \/ /\ todo[r] = Tail(Row(pid))
           /\ buf[r].len \in IdLens /\ used[r] = HeadLen + buf[r].len
        \/ todo[r] = Tail(Tail(Row(pid))) /\ used[r] + NameLen < BUF_SIZE
        \/ todo[r] = << >> /\ used[r] < BUF_SIZE
  BY <1>4, Zenon DEF OneFits
<1>6. OneFits(r)'
  <2>1. CASE todo[r] = Row(pid) /\ used[r] = HeadLen
    <3>0. Head(todo[r]).what = "ids"
      BY <2>1, RowPieces, Zenon
    <3>1. b.len \in IdLens
      BY <3>0, PieceLength, Zenon
    <3>2. todo'[r] = Tail(Row(pid)) /\ used'[r] = HeadLen + buf'[r].len
      BY <1>3, <2>1, Zenon
    <3> QED
      BY <1>3, <1>4, <3>1, <3>2, Zenon DEF OneFits
  <2>2. CASE todo[r] = Tail(Row(pid)) /\ buf[r].len \in IdLens /\ used[r] = HeadLen + buf[r].len
    <3>0. Head(todo[r]).what = "state"
      BY <2>2, RowPieces, Zenon
    <3>1. b.len \in {StateLen, buf[r].len}
      BY <3>0, PieceLength, Zenon
    <3>2. todo'[r] = Tail(Tail(Row(pid))) /\ used'[r] = HeadLen + buf[r].len + b.len
      BY <1>1, <1>3, <2>2, ProcAssumption, Zenon
    <3>3. used'[r] + NameLen < BUF_SIZE
      BY <2>2, <3>1, <3>2, ProcAssumption, Zenon
    <3> QED
      BY <1>3, <1>4, <3>2, <3>3, Zenon DEF OneFits
  <2>3. CASE todo[r] = Tail(Tail(Row(pid))) /\ used[r] + NameLen < BUF_SIZE
    <3>0. Head(todo[r]).what = "name"
      BY <2>3, RowPieces, Zenon
    <3>1. b.len = NameLen
      BY <3>0, PieceLength, Zenon
    <3>2. todo'[r] = << >> /\ used'[r] < BUF_SIZE
      BY <1>3, <2>3, <3>1, RowPieces, Zenon
    <3> QED
      BY <1>3, <1>4, <3>2, Zenon DEF OneFits
  <2> QED
    BY <1>5, <2>1, <2>2, <2>3, Zenon
<1>7. BufferFits(r)'
  BY <1>3, <1>6, Zenon DEF BufferFits
<1> QED
  BY <1>2, <1>7, OtherReaders, Zenon DEF Write

\* What a lookup finds is a positive number.
LEMMA FoundNat == ASSUME NEW nr, Exists(nr) PROVE nr \in Nat
<1>1. \A i \in DOMAIN Tasks : Tasks[i] \in Nat
  BY ProcAssumption, ElementOfSeq
<1> QED
  BY <1>1, ProcAssumption, Zenon DEF Exists

\* The process is looked up and the titles are in the buffer.
LEMMA LookFits ==
  ASSUME ReadInv, NEW r \in Readers, my_read_Look(r)
  PROVE  ReadInv'
<1> DEFINE nr == LookedUp(r)
<1> HIDE DEF nr
<1> USE DEF ReadInv, LTypes
<1>1. LTypes'
  BY ProcAssumption, Zenon DEF my_read_Look
<1>2. /\ whole'[r] = ~Exists(nr) /\ todo'[r] = Report(nr) /\ used'[r] = HeadLen
      /\ buf_size'[r] = BUF_SIZE /\ buf'[r].len = 0
  BY Zenon DEF my_read_Look, nr
<1>3. CASE Exists(nr)
  <2>1. nr \in Nat
    BY <1>3, FoundNat, Zenon
  <2>2. todo'[r] = Row(nr)
    BY <1>2, <1>3, Zenon DEF Report
  <2>3. OneFits(r)'
    BY <1>2, <2>1, <2>2, Zenon DEF OneFits
  <2> QED
    BY <1>1, <1>2, <1>3, <2>3, OtherReaders, Zenon DEF my_read_Look, BufferFits
<1>4. CASE ~Exists(nr)
  <2>1. AllFit(r)'
    BY <1>2, ProcAssumption DEF AllFit
  <2> QED
    BY <1>1, <1>2, <1>4, <2>1, OtherReaders, Zenon DEF my_read_Look, BufferFits
<1> QED
  BY <1>3, <1>4, Zenon

\* A step after which the reader is in no call has nothing to fit.
LEMMA NotReading ==
  ASSUME ReadInv, NEW r \in Readers, NEW l \in {"closed", "open", "look", "eof"},
         pc' = [pc EXCEPT ![r] = l],
         Leave(r) \/ UNCHANGED <<whole, todo, buf, used, buf_size>>
  PROVE  ReadInv'
<1> USE DEF ReadInv, LTypes
<1>1. LTypes'
  <2>1. CASE UNCHANGED <<whole, todo, buf, used, buf_size>>
    BY <2>1, Zenon
  <2>2. CASE Leave(r)
    <3>1. /\ pc' \in [Readers -> {"closed", "open", "look", "format", "eof"}] /\ whole' \in [Readers -> BOOLEAN]
          /\ used' \in [Readers -> Nat] /\ buf_size' \in [Readers -> Nat]
      BY <2>2, Zenon DEF Leave
    <3>2. DOMAIN todo' = Readers /\ DOMAIN buf' = Readers
      BY <2>2, Zenon DEF Leave
    <3>3. \A q \in Readers : buf'[q].len \in Nat
      BY <2>2, Zenon DEF Leave
    <3> QED
      BY <3>1, <3>2, <3>3, Zenon
  <2> QED
    BY <2>1, <2>2, Zenon
<1>2. BufferFits(r)'
  BY Zenon DEF BufferFits
<1> QED
  BY <1>1, <1>2, OtherReaders, Zenon DEF Leave

\* Every step keeps the invariant.
LEMMA StepReadInv == ReadInv /\ [Next]_vars => ReadInv'
<1> SUFFICES ASSUME ReadInv, [Next]_vars PROVE ReadInv'
  BY Zenon
<1>1. ASSUME UNCHANGED <<pc, local>> PROVE ReadInv'
  BY <1>1, Zenon DEF local, ReadInv, LTypes, BufferFits, AllFit, OneFits
<1>2. ASSUME NEW r \in Readers, my_open(r) \/ release(r) \/ my_read_Start(r) PROVE ReadInv'
  BY <1>2, NotReading, Zenon DEF my_open, release, my_read_Start, local
<1>3. ASSUME NEW r \in Readers, my_read_Eof(r) \/ my_read_NoMemory(r) \/ my_read_GrowFails(r) \/ my_read_Deliver(r)
      PROVE  ReadInv'
  BY <1>3, NotReading, Zenon DEF my_read_Eof, my_read_NoMemory, my_read_GrowFails, my_read_Deliver, GiveUp, local
<1>4. ASSUME NEW r \in Readers, my_read_Append(r) PROVE ReadInv'
  <2>1. PICK b \in Formatted(r, Head(todo[r])) : (whole[r] => Fits(r, b.len)) /\ Write(r, b)
    BY <1>4, Zenon DEF my_read_Append
  <2>2. CASE whole[r]
    BY <1>4, <2>1, <2>2, WriteAll, Zenon DEF my_read_Append
  <2>3. CASE ~whole[r]
    BY <1>4, <2>1, <2>3, WriteOne, Zenon DEF my_read_Append
  <2> QED
    BY <2>2, <2>3, Zenon
<1>5. ASSUME NEW r \in Readers, my_read_Grow(r) PROVE ReadInv'
  BY <1>5, WriteAll, Zenon DEF my_read_Grow
<1>6. ASSUME NEW r \in Readers, NEW text, my_write(r, text) PROVE ReadInv'
  BY <1>1, <1>6, Zenon DEF my_write
<1>7. CASE UNCHANGED vars
  BY <1>1, <1>7, Zenon DEF vars
<1> QED
  BY <1>2, <1>3, <1>4, <1>5, <1>6, <1>7, LookFits, Zenon DEF Next, my_read

\* The buffer of my_read is large enough for every list of processes and every
\* interleaving of readers and writers: NoOverflow holds always.
THEOREM BufferLargeEnough == Spec => []NoOverflow
<1>1. ReadInv => NoOverflow
  <2> SUFFICES ASSUME ReadInv, NEW r \in Readers, pc[r] = "format"
               PROVE  used[r] + 1 <= buf_size[r]
    BY Zenon DEF NoOverflow
  <2> USE ProcAssumption DEF ReadInv, LTypes
  <2>1. CASE whole[r]
    BY <2>1 DEF BufferFits, AllFit
  <2>2. CASE ~whole[r]
    <3>1. OneFits(r)
      BY <2>2, Zenon DEF BufferFits
    <3>2. ASSUME NEW n \in IdLens PROVE HeadLen + n < BUF_SIZE
      <4>1. /\ HeadLen \in Nat /\ n \in Nat /\ StateLen \in Nat /\ NameLen \in Nat
            /\ BUF_SIZE \in Nat /\ HeadLen + n + StateLen + NameLen < BUF_SIZE
        BY ProcAssumption, Zenon
      <4> HIDE ProcAssumption DEF ReadInv, LTypes
      <4> QED
        BY <4>1
    <3>3. used[r] < BUF_SIZE
      BY <3>1, <3>2 DEF OneFits
    <3> QED
      BY <3>1, <3>3 DEF OneFits
  <2> QED
    BY <2>1, <2>2, Zenon
<1> QED
  BY <1>1, InitReadInv, StepReadInv, PTL DEF Spec

-----------------------------------------------------------------------------

Pieces == [pid : Nat, what : {"ids", "state", "name"}]

HTypes ==
  /\ is_processed \in Nat
  /\ DOMAIN buffer = Readers /\ DOMAIN selected = Readers
  /\ got \in [Readers -> Nat]
  /\ others \in [Readers -> Nat]
  /\ served \in [Readers -> BOOLEAN]
  /\ failed \in [Readers -> BOOLEAN]

(***************************************************************************)
(* ReadersServed speaks of the moments at which a report is complete and   *)
(* at which the file has ended.  On the way there: as long as nothing has  *)
(* been delivered since the last open, a reader has received no more       *)
(* reports than others have opened the file, and once something has been,  *)
(* a reader without a report knows that another one received it; what is   *)
(* in the buffer is like the first pieces of the report, what is to do is  *)
(* the rest, and buf holds the last piece that was written.                *)
(***************************************************************************)
Counted(r) ==
  /\ pc[r] = "closed" => got[r] = 0
  /\ got[r] <= 1 + others[r]
  /\ pc[r] \in {"look", "format"} \/ (pc[r] = "open" /\ is_processed = 0) => got[r] <= others[r]
  /\ pc[r] = "open" /\ is_processed # 0 /\ got[r] = 0 => served[r]
  /\ pc[r] = "eof" /\ got[r] = 0 => failed[r] \/ served[r]

Same(piece, i, pieces, all) ==
  \/ piece = all[i]
  \/ all[i].what = "state" /\ i > 1 /\ piece = pieces[i - 1]

Written(done, rest, last, all) ==
  /\ done \in Seq(Pieces) /\ rest \in Seq(Pieces)
  /\ Len(done) + Len(rest) = Len(all)
  /\ \A i \in 1..Len(rest) : rest[i] = all[Len(done) + i]
  /\ \A i \in 1..Len(done) : Same(done[i], i, done, all)
  /\ Len(done) > 0 => last = done[Len(done)]

WrittenBy(r) == pc[r] = "format" => Written(buffer[r], todo[r], buf[r].piece, Report(selected[r]))

ServedInv == LTypes /\ HTypes /\ \A r \in Readers : Counted(r) /\ WrittenBy(r)

\* Where the piece i of n rows stands.
LEMMA Third ==
  ASSUME NEW n \in Nat, NEW i \in 1..3 * n
  PROVE  (i + 2) \div 3 \in 1..n /\ 1 + ((i + 2) % 3) \in 1..3
<1>1. i + 2 \in Nat
  OBVIOUS
<1>2. (i + 2) \div 3 \in Int /\ (i + 2) % 3 \in 0..2 /\ i + 2 = 3 * ((i + 2) \div 3) + ((i + 2) % 3)
  BY <1>1
<1>3. ASSUME NEW q \in Int, NEW m \in 0..2, i + 2 = 3 * q + m PROVE q \in 1..n /\ 1 + m \in 1..3
  BY <1>3
<1> QED
  BY <1>2, <1>3, Zenon

\* The report on one process, and on all of them, is a sequence of pieces.
LEMMA ReportType ==
  ASSUME NEW pid
  PROVE  Report(pid) \in Seq(Pieces)
<1>1. ASSUME NEW n \in Nat PROVE Row(n) \in Seq(Pieces) /\ \A j \in 1..3 : Row(n)[j] \in Pieces
  BY DEF Row, Pieces
<1>2. CASE Exists(pid)
  <2>1. pid \in Nat
    BY <1>2, FoundNat, Zenon
  <2> QED
    BY <1>1, <1>2, <2>1, Zenon DEF Report
<1>3. CASE ~Exists(pid)
  <2>1. Len(Tasks) \in Nat /\ \A j \in 1..Len(Tasks) : Tasks[j] \in Nat
    BY ProcAssumption, ElementOfSeq
  <2>2. ASSUME NEW i \in 1..3 * Len(Tasks)
        PROVE  Row(Tasks[(i + 2) \div 3])[1 + ((i + 2) % 3)] \in Pieces
    <3>1. (i + 2) \div 3 \in 1..Len(Tasks)
      BY <2>1, Third, Zenon
    <3>2. 1 + ((i + 2) % 3) \in 1..3
      BY <2>1, Third, Zenon
    <3> QED
      BY <1>1, <2>1, <3>1, <3>2, Zenon
  <2>3. 3 * Len(Tasks) \in Nat
    BY <2>1
  <2>4. Rows \in Seq(Pieces)
    BY <2>2, <2>3 DEF Rows
  <2> QED
    BY <1>3, <2>4, Zenon DEF Report
<1> QED
  BY <1>2, <1>3, Zenon

\* No report begins with a state.
LEMMA ReportFirst ==
  ASSUME NEW nr, Len(Report(nr)) > 0
  PROVE  Report(nr)[1].what # "state"
<1>1. \A n : Row(n)[1].what = "ids"
  BY DEF Row
<1>2. CASE Exists(nr)
  BY <1>1, <1>2, Zenon DEF Report
<1>3. CASE ~Exists(nr)
  <2>1. Report(nr) = Rows
    BY <1>3, Zenon DEF Report
  <2>2. Len(Tasks) \in Nat
    BY ProcAssumption
  <2>3. Len(Rows) = 3 * Len(Tasks)
    BY <2>2 DEF Rows
  <2>4. 1 \in 1..3 * Len(Tasks)
    BY <2>1, <2>2, <2>3
  <2>5. (1 + 2) \div 3 = 1 /\ 1 + ((1 + 2) % 3) = 1
    OBVIOUS
  <2>6. Rows[1] = Row(Tasks[(1 + 2) \div 3])[1 + ((1 + 2) % 3)]
    BY <2>4, Zenon DEF Rows
  <2>7. Rows[1] = Row(Tasks[1])[1]
    BY <2>5, <2>6, Zenon
  <2> QED
    BY <1>1, <2>1, <2>7, Zenon
<1> QED
  BY <1>2, <1>3, Zenon

\* The next piece, or once more the last one in place of a state, goes from what
\* is to do to what is done.
LEMMA WriteLike ==
  ASSUME NEW done, NEW rest, NEW last, NEW all \in Seq(Pieces), NEW piece,
         Written(done, rest, last, all), rest # << >>, Len(all) > 0 => all[1].what # "state",
         piece = Head(rest) \/ (Head(rest).what = "state" /\ piece = last)
  PROVE  Written(Append(done, piece), Tail(rest), piece, all)
<1> DEFINE n == Len(done)
<1>1. /\ done \in Seq(Pieces) /\ rest \in Seq(Pieces) /\ n + Len(rest) = Len(all)
      /\ n \in Nat /\ Len(rest) \in Nat \ {0} /\ Len(all) \in Nat
  BY DEF Written
<1>2. Head(rest) = all[n + 1] /\ n + 1 \in 1..Len(all)
  BY <1>1 DEF Written
<1>3. all[n + 1] \in Pieces
  BY <1>2, ElementOfSeq, Zenon
<1>4. piece \in Pieces /\ Same(piece, n + 1, done, all)
  <2>1. CASE piece = Head(rest)
    <3>1. piece = all[n + 1]
      BY <1>2, <2>1, Zenon
    <3>2. Same(piece, n + 1, done, all)
      BY <3>1 DEF Same
    <3> QED
      BY <1>3, <3>1, <3>2, Zenon
  <2>2. CASE Head(rest).what = "state" /\ piece = last
    <3>1. n # 0
      BY <1>1, <1>2, <2>2
    <3>2. last = done[n] /\ n \in 1..n /\ n + 1 > 1 /\ (n + 1) - 1 = n
      BY <1>1, <3>1 DEF Written
    <3>3. last \in Pieces
      BY <1>1, <3>2, ElementOfSeq, Zenon
    <3> QED
      BY <1>2, <2>2, <3>2, <3>3, Zenon DEF Same
  <2> QED
    BY <2>1, <2>2, Zenon
<1> DEFINE d == Append(done, piece)
           t == Tail(rest)
<1>5. /\ d \in Seq(Pieces) /\ Len(d) = n + 1 /\ d[n + 1] = piece
      /\ \A i \in 1..n : d[i] = done[i]
  BY <1>1, <1>4, AppendProperties
<1>6. /\ t \in Seq(Pieces) /\ Len(t) = Len(rest) - 1
      /\ \A i \in 1..Len(t) : t[i] = rest[i + 1]
  BY <1>1, HeadTailProperties
<1> HIDE DEF d, t
<1>7. ASSUME NEW i \in 1..Len(d) PROVE Same(d[i], i, d, all)
  <2>1. CASE i \in 1..n
    <3>1. Same(done[i], i, done, all) /\ d[i] = done[i]
      BY <1>5, <2>1, Zenon DEF Written
    <3>2. i > 1 => i - 1 \in 1..n
      BY <1>1, <2>1
    <3>3. i > 1 => d[i - 1] = done[i - 1]
      BY <1>5, <3>2, Zenon
    <3> QED
      BY <3>1, <3>3, Zenon DEF Same
  <2>2. CASE i = n + 1
    <3>1. n + 1 > 1 => d[(n + 1) - 1] = done[(n + 1) - 1]
      BY <1>1, <1>5
    <3> QED
      BY <1>4, <1>5, <2>2, <3>1, Zenon DEF Same
  <2> QED
    BY <1>1, <1>5, <2>1, <2>2
<1>8. ASSUME NEW i \in 1..Len(t) PROVE t[i] = all[Len(d) + i]
  <2>1. i + 1 \in 1..Len(rest) /\ n + (i + 1) = Len(d) + i
    BY <1>1, <1>5, <1>6
  <2>2. rest[i + 1] = all[n + (i + 1)]
    BY <2>1, Zenon DEF Written
  <2> QED
    BY <1>6, <2>1, <2>2, Zenon
<1>9. Len(d) + Len(t) = Len(all)
  <2>1. ASSUME NEW a \in Nat, NEW c \in Nat \ {0} PROVE (a + 1) + (c - 1) = a + c
    OBVIOUS
  <2> QED
    BY <1>1, <1>5, <1>6, <2>1, Zenon
<1>10. Len(d) > 0 => piece = d[Len(d)]
  BY <1>5
<1>11. Written(d, t, piece, all)
  BY <1>5, <1>6, <1>7, <1>8, <1>9, <1>10, Zenon DEF Written
<1> QED
  BY <1>11, Zenon DEF d, t

\* At first every file is closed.
LEMMA InitServedInv == Init => ServedInv
<1> SUFFICES ASSUME Init PROVE ServedInv
  BY Zenon
<1>1. LTypes
  BY InitReadInv, Zenon DEF ReadInv
<1>2. HTypes
  BY DEF Init, HTypes
<1>3. \A r \in Readers : Counted(r) /\ WrittenBy(r)
  BY DEF Init, Counted, WrittenBy
<1> QED
  BY <1>1, <1>2, <1>3, Zenon DEF ServedInv

\* A step of one reader that neither resets is_processed nor delivers says
\* nothing new of the others.
LEMMA OthersServed ==
  ASSUME ServedInv, LTypes', HTypes', NEW r \in Readers, UNCHANGED is_processed,
         \A q \in Readers \ {r} :
           /\ pc'[q] = pc[q] /\ got'[q] = got[q] /\ others'[q] = others[q]
           /\ served'[q] = served[q] /\ failed'[q] = failed[q]
           /\ buffer'[q] = buffer[q] /\ todo'[q] = todo[q] /\ buf'[q] = buf[q]
           /\ selected'[q] = selected[q],
         Counted(r)', WrittenBy(r)'
  PROVE  ServedInv'
<1>1. ASSUME NEW q \in Readers, q # r PROVE Counted(q)' /\ WrittenBy(q)'
  BY <1>1, Zenon DEF ServedInv, Counted, WrittenBy
<1> QED
  BY <1>1, Zenon DEF ServedInv

\* A piece is written: the next one, or once more the one before it.
LEMMA WriteServed ==
  ASSUME ServedInv, LTypes', NEW r \in Readers, pc[r] = "format", todo[r] # << >>,
         NEW b \in Formatted(r, Head(todo[r])), Write(r, b)
  PROVE  ServedInv'
<1> USE DEF ServedInv, LTypes, HTypes
<1>1. HTypes' /\ UNCHANGED <<pc, history, selected, is_processed>>
  BY Zenon DEF Write, shared, history
<1>2. /\ buffer'[r] = Append(buffer[r], b.piece) /\ todo'[r] = Tail(todo[r]) /\ buf'[r] = b
      /\ \A q \in Readers \ {r} : buffer'[q] = buffer[q] /\ todo'[q] = todo[q] /\ buf'[q] = buf[q]
  BY Zenon DEF Write
<1>3. b.piece = Head(todo[r]) \/ (Head(todo[r]).what = "state" /\ b.piece = buf[r].piece)
  <2> DEFINE piece == Head(todo[r])
  <2> HIDE DEF piece
  <2>1. CASE piece.what = "ids"
    <3>1. PICK n \in IdLens : b = [piece |-> piece, len |-> n]
      BY <2>1, Zenon DEF Formatted, piece
    <3> QED
      BY <3>1, Zenon DEF piece
  <2>2. CASE piece.what = "state"
    <3>1. b = [piece |-> piece, len |-> StateLen] \/ b = buf[r]
      BY <2>2, Zenon DEF Formatted, piece
    <3>2. b.piece = piece \/ b.piece = buf[r].piece
      BY <3>1
    <3> QED
      BY <2>2, <3>2, Zenon DEF piece
  <2>3. CASE piece.what \notin {"ids", "state"}
    <3>1. b = [piece |-> piece, len |-> NameLen]
      BY <2>3, Zenon DEF Formatted, piece
    <3> QED
      BY <3>1, Zenon DEF piece
  <2> QED
    BY <2>1, <2>2, <2>3, Zenon
<1>4. Written(buffer[r], todo[r], buf[r].piece, Report(selected[r]))
  BY Zenon DEF WrittenBy
<1>5. Written(Append(buffer[r], b.piece), Tail(todo[r]), b.piece, Report(selected[r]))
  BY <1>3, <1>4, ReportType, ReportFirst, WriteLike, Zenon
<1>6. WrittenBy(r)'
  BY <1>1, <1>2, <1>5, Zenon DEF WrittenBy
<1>7. Counted(r)'
  BY <1>1, Zenon DEF Counted, history
<1> QED
  BY <1>1, <1>2, <1>6, <1>7, OthersServed, Zenon DEF history

\* Every step keeps the invariant.
LEMMA StepServedInv == ReadInv' /\ ServedInv /\ [Next]_vars => ServedInv'
<1> SUFFICES ASSUME ReadInv', ServedInv, [Next]_vars PROVE ServedInv'
  BY Zenon
<1>0. LTypes'
  BY Zenon DEF ReadInv
<1> USE DEF ServedInv, HTypes, LTypes
<1>1. ASSUME NEW r \in Readers, my_open(r) PROVE ServedInv'
  <2>1. others' = [q \in Readers |-> IF pc[q] = "closed" THEN 0 ELSE others[q] + 1]
    BY <1>1, Zenon DEF my_open
  <2>2. others' \in [Readers -> Nat] /\ is_processed' = 0
    BY <1>1, <2>1 DEF my_open
  <2>3. UNCHANGED <<got, served, failed, local>>
    BY <1>1, Zenon DEF my_open
  <2>4. HTypes'
    BY <2>2, <2>3, SMT DEF local
  <2>5. ASSUME NEW q \in Readers PROVE Counted(q)'
    <3>1. CASE q = r
      <4>1. got'[q] = 0 /\ others'[q] = 0 /\ pc'[q] = "open"
        BY <1>1, <2>1, <2>3, <3>1, Zenon DEF my_open, Counted
      <4> QED
        BY <2>2, <4>1 DEF Counted
    <3>2. CASE q # r
      <4>1. pc'[q] = pc[q] /\ got'[q] = got[q] /\ served'[q] = served[q] /\ failed'[q] = failed[q]
        BY <1>1, <2>3, <3>2, Zenon DEF my_open
      <4>2. CASE pc[q] = "closed"
        BY <2>1, <4>1, <4>2 DEF Counted
      <4>3. CASE pc[q] # "closed"
        <5>1. others'[q] = others[q] + 1
          BY <2>1, <4>3, Zenon
        <5>2. got[q] <= 1 + others[q] /\ (pc[q] = "eof" /\ got[q] = 0 => failed[q] \/ served[q])
          BY Zenon DEF Counted
        <5>3. got[q] \in Nat /\ others[q] \in Nat
          BY Zenon
        <5>4. got[q] <= others'[q] /\ got[q] <= 1 + others'[q]
          BY <5>1, <5>2, <5>3
        <5> QED
          BY <2>2, <4>1, <4>3, <5>2, <5>4, Zenon DEF Counted
      <4> QED
        BY <4>2, <4>3, Zenon
    <3> QED
      BY <3>1, <3>2, Zenon
  <2>6. \A q \in Readers : WrittenBy(q)'
    BY <1>1, <2>3, Zenon DEF my_open, WrittenBy, local
  <2> QED
    BY <1>0, <2>4, <2>5, <2>6, Zenon
<1>2. ASSUME NEW r \in Readers, release(r) PROVE ServedInv'
  <2>1. HTypes' /\ pc'[r] = "closed" /\ got'[r] = 0 /\ others'[r] = 0 /\ UNCHANGED is_processed
    <3>1. others' \in [Readers -> Nat] /\ got' \in [Readers -> Nat] /\ got'[r] = 0 /\ others'[r] = 0
      BY <1>2 DEF release
    <3>2. /\ served' \in [Readers -> BOOLEAN] /\ failed' \in [Readers -> BOOLEAN]
          /\ UNCHANGED <<is_processed, local>> /\ pc'[r] = "closed"
      BY <1>2, Zenon DEF release, shared
    <3> QED
      BY <3>1, <3>2, Zenon DEF local
  <2>2. Counted(r)' /\ WrittenBy(r)'
    BY <2>1 DEF Counted, WrittenBy
  <2> QED
    BY <1>0, <1>2, <2>1, <2>2, OthersServed, Zenon DEF release, local
<1>3. ASSUME NEW r \in Readers, my_read_Eof(r) PROVE ServedInv'
  <2>1. HTypes' /\ pc[r] = "open" /\ pc'[r] = "eof" /\ UNCHANGED <<history, local, is_processed>> /\ is_processed # 0
    BY <1>3, Zenon DEF my_read_Eof, shared, local, history
  <2>2. Counted(r)' /\ WrittenBy(r)'
    BY <2>1, Zenon DEF Counted, WrittenBy, history
  <2> QED
    BY <1>0, <1>3, <2>1, <2>2, OthersServed, Zenon DEF my_read_Eof, history, local
<1>4. ASSUME NEW r \in Readers, my_read_NoMemory(r) \/ my_read_GrowFails(r) PROVE ServedInv'
  <2>1. GiveUp(r) /\ pc[r] # "closed"
    BY <1>4, Zenon DEF my_read_NoMemory, my_read_GrowFails
  <2>2. /\ HTypes' /\ pc'[r] = "eof" /\ failed'[r] /\ UNCHANGED <<got, others, served, is_processed>>
    BY <2>1, Zenon DEF GiveUp, Leave, shared
  <2>3. Counted(r)' /\ WrittenBy(r)'
    BY <2>2, Zenon DEF Counted, WrittenBy
  <2> QED
    BY <1>0, <2>1, <2>2, <2>3, OthersServed, Zenon DEF GiveUp, Leave
<1>5. ASSUME NEW r \in Readers, my_read_Start(r) PROVE ServedInv'
  <2>1. /\ HTypes' /\ pc[r] = "open" /\ pc'[r] = "look" /\ is_processed = 0
        /\ UNCHANGED <<history, is_processed>>
    BY <1>5, Zenon DEF my_read_Start, shared, history
  <2>2. Counted(r)' /\ WrittenBy(r)'
    BY <2>1, Zenon DEF Counted, WrittenBy, history
  <2> QED
    BY <1>0, <1>5, <2>1, <2>2, OthersServed, Zenon DEF my_read_Start, history
<1>6. ASSUME NEW r \in Readers, my_read_Look(r) PROVE ServedInv'
  <2>1. /\ HTypes' /\ pc[r] = "look" /\ pc'[r] = "format" /\ UNCHANGED <<history, is_processed>>
    BY <1>6, Zenon DEF my_read_Look, shared, history
  <2>2. /\ buffer'[r] = << >> /\ todo'[r] = Report(LookedUp(r)) /\ selected'[r] = LookedUp(r)
    BY <1>6, Zenon DEF my_read_Look
  <2>3. ASSUME NEW all \in Seq(Pieces), NEW last PROVE Written(<< >>, all, last, all)
    BY DEF Written
  <2>4. WrittenBy(r)'
    BY <2>1, <2>2, <2>3, ReportType, Zenon DEF WrittenBy
  <2>5. Counted(r)'
    BY <2>1, Zenon DEF Counted, history
  <2> QED
    BY <1>0, <1>6, <2>1, <2>4, <2>5, OthersServed, Zenon DEF my_read_Look, history
<1>7. ASSUME NEW r \in Readers, my_read_Append(r) \/ my_read_Grow(r) PROVE ServedInv'
  BY <1>0, <1>7, WriteServed, Zenon DEF my_read_Append, my_read_Grow
<1>8. ASSUME NEW r \in Readers, my_read_Deliver(r) PROVE ServedInv'
  <2>1. /\ is_processed' = is_processed + 1 /\ pc[r] = "format" /\ pc' = [pc EXCEPT ![r] = "open"]
        /\ got' = [got EXCEPT ![r] = @ + 1] /\ UNCHANGED <<others, failed>>
        /\ served' = [q \in Readers |-> served[q] \/ (q # r /\ pc[q] # "closed")]
        /\ Leave(r)
    BY <1>8, Zenon DEF my_read_Deliver
  <2>2. is_processed' \in Nat /\ is_processed' # 0 /\ got' \in [Readers -> Nat] /\ got'[r] = got[r] + 1
    BY <2>1
  <2>3. HTypes'
    BY <2>1, <2>2, Zenon DEF Leave
  <2>4. ASSUME NEW q \in Readers PROVE Counted(q)'
    <3>1. CASE q = r
      <4>1. pc'[q] = "open" /\ got[q] <= others[q] /\ got'[q] = got[q] + 1 /\ others'[q] = others[q]
        BY <2>1, <2>2, <3>1, Zenon DEF Counted
      <4>2. got[q] \in Nat /\ others[q] \in Nat
        BY Zenon
      <4>3. got'[q] <= 1 + others'[q] /\ got'[q] # 0
        BY <4>1, <4>2
      <4> QED
        BY <2>2, <4>1, <4>3, Zenon DEF Counted
    <3>2. CASE q # r
      <4>1. /\ pc'[q] = pc[q] /\ got'[q] = got[q] /\ others'[q] = others[q] /\ failed'[q] = failed[q]
            /\ served'[q] = (served[q] \/ pc[q] # "closed")
        BY <2>1, <3>2, Zenon
      <4> QED
        BY <2>2, <4>1, Zenon DEF Counted
    <3> QED
      BY <3>1, <3>2, Zenon
  <2>5. ASSUME NEW q \in Readers PROVE WrittenBy(q)'
    <3>1. CASE q = r
      BY <2>1, <3>1, Zenon DEF WrittenBy
    <3>2. CASE q # r
      BY <2>1, <3>2, Zenon DEF WrittenBy, Leave
    <3> QED
      BY <3>1, <3>2, Zenon
  <2> QED
    BY <1>0, <2>3, <2>4, <2>5, Zenon
<1>9. ASSUME UNCHANGED <<is_processed, pc, local, history>> PROVE ServedInv'
  BY <1>0, <1>9, Zenon DEF local, history, Counted, WrittenBy
<1>10. ASSUME NEW r \in Readers, NEW text, my_write(r, text) PROVE ServedInv'
  BY <1>9, <1>10, Zenon DEF my_write
<1>11. CASE UNCHANGED vars
  BY <1>9, <1>11, Zenon DEF vars, shared
<1> QED
  BY <1>1, <1>2, <1>3, <1>4, <1>5, <1>6, <1>7, <1>8, <1>10, <1>11, Zenon DEF Next, my_read

\* Whoever opens, reads, writes and closes the file, in any order and number, and
\* for every list of processes: each delivered report is the whole report on what
\* was looked up, no reader gets more of them than opens of others allow, and an
\* empty file is found only by one whose report another one has taken, or after
\* a failed allocation.  ReadersServed holds always.
THEOREM EveryReaderServed == Spec => []ReadersServed
<1>1. ServedInv => ReadersServed
  <2> SUFFICES ASSUME ServedInv, NEW r \in Readers
               PROVE  /\ pc[r] = "format" /\ todo[r] = << >> => Like(buffer[r], Report(selected[r]))
                      /\ got[r] <= 1 + others[r]
                      /\ pc[r] = "eof" /\ got[r] = 0 => failed[r] \/ served[r]
    BY Zenon DEF ReadersServed
  <2>1. ASSUME NEW done, NEW last, NEW all \in Seq(Pieces), Written(done, << >>, last, all)
        PROVE  Like(done, all)
    <3>1. Len(done) = Len(all)
      BY <2>1 DEF Written
    <3> QED
      BY <2>1, <3>1, Zenon DEF Written, Like, Same
  <2>2. pc[r] = "format" /\ todo[r] = << >> => Like(buffer[r], Report(selected[r]))
    BY <2>1, ReportType, Zenon DEF ServedInv, WrittenBy
  <2> QED
    BY <2>2, Zenon DEF ServedInv, Counted
<1> QED
  BY <1>1, InitReadInv, StepReadInv, InitServedInv, StepServedInv, PTL DEF Spec
=============================================================================
