--------------------------- MODULE PageReplacement ---------------------------
(***************************************************************************)
(* The page replacement simulator of Assignment4-2: main runs OPT, FIFO,   *)
(* LRU and CLOCK, one after the other, on the same reference string.  One  *)
(* step is one page reference.  A queue of the code, arr[0 .. tail - 1],   *)
(* is a sequence here; indices are those of the code.                      *)
(***************************************************************************)
EXTENDS Integers, Sequences, FiniteSets, SequencesExt

CONSTANTS
  Pages,       \* page numbers in the reference string
  MaxFrames,   \* most page frames
  MaxString    \* longest reference string

\* There is a page frame.
SizeAssumption == MaxFrames \in Nat \ {0} /\ MaxString \in Nat

VARIABLES
  max,         \* number of page frames
  string,      \* the reference string
  alg,         \* the algorithm that main is running
  i,           \* next reference, from 0
  q,           \* pages in the frames
  delete_idx,  \* OPT: the frame that the last scan visited last; -1 before one did
  bit_queue,   \* CLOCK: the use bits
  evict,       \* CLOCK: the hand
  page_fault,  \* page faults of this algorithm
  faults       \* page faults printed so far: of OPT, FIFO, LRU, CLOCK, in order

frames == <<q, delete_idx, bit_queue, evict>>
vars   == <<max, string, alg, i, frames, page_fault, faults>>

len == Len(string)

\* init of the next algorithm's queues.
Emptied == q' = <<>> /\ delete_idx' = -1 /\ bit_queue' = <<>> /\ evict' = 0

\* Each algorithm starts with empty frames.
Init ==
  /\ max \in 1 .. MaxFrames
  /\ string \in UNION {[1 .. n -> Pages] : n \in 0 .. MaxString}
  /\ alg = "OPT"
  /\ i = 0 /\ q = <<>> /\ delete_idx = -1 /\ bit_queue = <<>> /\ evict = 0 /\ page_fault = 0
  /\ faults = <<>>

----------------------------------------------------------------------------
(* The queue.                                                              *)

push(s, num, idx) == InsertAt(s, idx + 1, num)

pop(s, idx) == RemoveAt(s, idx + 1)

isFull == Len(q) = max

page == string[i + 1]

isHere(p) == \E k \in 1 .. Len(q) : q[k] = p

\* The index at which isHere finds page p.
IndexOf(p) == (CHOOSE k \in 1 .. Len(q) : q[k] = p /\ \A j \in 1 .. k - 1 : q[j] # p) - 1

Reference(a) == alg = a /\ i < len /\ i' = i + 1 /\ UNCHANGED <<max, string, alg, faults>>

Hit   == isHere(page) /\ UNCHANGED page_fault
Fault == ~isHere(page) /\ page_fault' = page_fault + 1

----------------------------------------------------------------------------
(* OPT                                                                     *)

\* The references after this one that ask for the page at idx.
Uses(idx) == {j \in i + 1 .. len - 1 : string[j + 1] = q[idx + 1]}

NeverUsed == {idx \in 0 .. max - 1 : Uses(idx) = {}}

Used == 0 .. max - 1 \ NeverUsed

\* Faulty variant: the page that is used again first is taken.
Farthest_First ==
  CHOOSE idx \in Used :
     \A k \in Used \ {idx} : \E j \in Uses(idx) : \A m \in Uses(k) : j < m

\* The page whose first use is last: the last one that the scan visits anew.
Farthest ==
  CHOOSE idx \in Used :
     \A k \in Used \ {idx} : \E j \in Uses(k) : \A m \in Uses(idx) : j < m

OPT ==
  /\ Reference("OPT")
  /\ \/ Hit /\ UNCHANGED <<q, delete_idx>>
     \/ Fault /\ ~isFull /\ q' = push(q, page, Len(q)) /\ UNCHANGED delete_idx
     \/ /\ Fault /\ isFull
        /\ delete_idx' = IF Used # {} THEN Farthest ELSE delete_idx
        /\ LET idx == IF NeverUsed # {} THEN Min(NeverUsed) ELSE delete_idx'
           IN  q' = push(pop(q, idx), page, max - 1)
  /\ UNCHANGED <<bit_queue, evict>>

----------------------------------------------------------------------------
(* FIFO and LRU                                                            *)

\* Both evict the page at the front.
Oldest == 0

FIFO ==
  /\ Reference("FIFO")
  /\ \/ Hit /\ UNCHANGED q
     \/ Fault /\ ~isFull /\ q' = push(q, page, Len(q))
     \/ Fault /\ isFull /\ q' = push(pop(q, Oldest), page, max - 1)
  /\ UNCHANGED <<delete_idx, bit_queue, evict>>

\* A page that is used again moves to the back.
Renewed == push(pop(q, IndexOf(page)), page, Len(q) - 1)

LRU ==
  /\ Reference("LRU")
  /\ \/ Hit /\ q' = Renewed
     \/ Fault /\ ~isFull /\ q' = push(q, page, Len(q))
     \/ Fault /\ isFull /\ q' = push(pop(q, Oldest), page, max - 1)
  /\ UNCHANGED <<delete_idx, bit_queue, evict>>

----------------------------------------------------------------------------
(* CLOCK                                                                   *)

\* The k-th frame that the hand comes to.
Place(k) == (evict + k) % max

\* How many frames with a use bit of 1 the hand passes; all of them, and it is
\* back where it started.
Passed == Min({k \in 0 .. max - 1 : bit_queue[Place(k) + 1] = 0} \cup {max})

Cleared == [n \in 1 .. max |->
              IF \E k \in 0 .. Passed - 1 : Place(k) + 1 = n THEN 0 ELSE bit_queue[n]]

\* Faulty variant: the hand stays at the new page.
Hand_Stays(idx, s) == IF idx = -1 THEN 0 ELSE idx

\* Where the hand goes after page idx was loaded into the frames s.
Hand(idx, s) == IF idx = Len(s) - 1 THEN 0 ELSE idx + 1

CLOCK ==
  /\ Reference("CLOCK") /\ UNCHANGED delete_idx
  /\ \/ /\ Hit
        /\ bit_queue' = [bit_queue EXCEPT ![IndexOf(page) + 1] = 1]
        /\ UNCHANGED <<q, evict>>
     \/ /\ Fault /\ ~isFull
        /\ q' = push(q, page, Len(q))
        /\ bit_queue' = push(bit_queue, 0, Len(q))
        /\ evict' = Hand(-1, q')
     \/ /\ Fault /\ isFull
        /\ LET idx == Place(Passed)
           IN  /\ q' = push(pop(q, idx), page, idx)
               /\ bit_queue' = push(pop(Cleared, idx), 0, idx)
               /\ evict' = Hand(idx, q')

----------------------------------------------------------------------------
(* The algorithm prints its page faults, and main goes on to the next one. *)
Following == [OPT |-> "FIFO", FIFO |-> "LRU", LRU |-> "CLOCK", CLOCK |-> "done"]

Printed ==
  /\ alg # "done" /\ i = len
  /\ faults' = faults \o <<page_fault>>
  /\ alg' = Following[alg]
  /\ i' = 0 /\ page_fault' = 0
  /\ Emptied
  /\ UNCHANGED <<max, string>>

Next == OPT \/ FIFO \/ LRU \/ CLOCK \/ Printed

Spec == Init /\ [][Next]_vars
----------------------------------------------------------------------------
(* Properties.                                                             *)

\* The pages between reference k and the one before it to the same page.
Between(k) ==
  LET before == {j \in 1 .. k - 1 : string[j] = string[k]}
  IN  {string[j] : j \in Max(before) + 1 .. k - 1}

\* LRU faults exactly at the references whose page was not used before, or was
\* last used so long ago that max other pages were used since.
LRUFaults ==
  alg = "done" => faults[3] =
    Cardinality({k \in 1 .. len : \/ \A j \in 1 .. k - 1 : string[j] # string[k]
                                  \/ /\ \E j \in 1 .. k - 1 : string[j] = string[k]
                                     /\ Cardinality(Between(k)) >= max})
=============================================================================
