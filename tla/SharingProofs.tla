---------------------------- MODULE SharingProofs ----------------------------
(***************************************************************************)
(* Proofs about module Sharing, for every number of tasks and objects and  *)
(* for all sets of flags: the counts of fs_struct, files_struct and        *)
(* sighand_struct are exact, and who was promised one of its own has it.   *)
(***************************************************************************)
EXTENDS Sharing, FiniteSetTheorems, WellFoundedInduction, TLAPS

(* A parent inside copy_process. *)
Copying == {"copy_files", "copy_fs", "copy_sighand", "copy_signal", "undo"}

(* Inside ksys_unshare, before the end. *)
Unsharing == {"unshare_fs", "unshare_fd", "namespaces", "commit", "unshared"}

Execing == {"execing", "execing_alone"}

Labels == {"none", "new", "user", "cleanup", "swap", "exec"} \cup Copying \cup Unsharing \cup Execing

Refs == [Kinds -> Objects \cup {None}]

Types ==
  /\ pc \in [Tasks -> Labels]
  /\ DOMAIN flags = Tasks /\ DOMAIN group = Tasks
  /\ child \in [Tasks -> Tasks]
  /\ ref \in [Tasks -> Refs]
  /\ new \in [Tasks -> Refs]
  /\ got \in [Tasks -> SUBSET Kinds]
  /\ users \in [Kinds -> [Objects -> Int]]

(***************************************************************************)
(* What a task has at each step.  A running task has a reference to all    *)
(* it points to; a child in the making has the parent's pointers and       *)
(* references to the kinds that were done; copies that are not used yet    *)
(* exist only inside unshare and execve.                                   *)
(***************************************************************************)
Holding(t) ==
  /\ pc[t] = "none" => got[t] = {}
  /\ pc[t] \notin {"none", "new"} => got[t] = Kinds
  /\ pc[t] # "none" => ref[t]["fs"] # None /\ ref[t]["sighand"] # None

Making(t) ==
  pc[t] \in Copying =>
    /\ child[t] # t /\ pc[child[t]] = "new"
    /\ \A k \in Kinds \ got[child[t]] : ref[child[t]][k] = ref[t][k]
    /\ pc[t] = "copy_files" => got[child[t]] = {}
    /\ pc[t] = "copy_fs" => got[child[t]] = {"files"}
    /\ pc[t] = "copy_sighand" => got[child[t]] = {"files", "fs"}
    /\ pc[t] = "copy_signal" => got[child[t]] = Kinds

Copies(t) ==
  /\ new[t]["sighand"] = None
  /\ new[t]["fs"] # None => pc[t] \in {"unshare_fd", "namespaces", "commit", "cleanup"}
  /\ new[t]["files"] # None => pc[t] \in {"namespaces", "commit", "unshared", "cleanup", "swap", "exec"} \cup Execing

OwnChild == \A t, u \in Tasks : pc[t] \in Copying /\ pc[u] \in Copying /\ child[t] = child[u] => t = u

StepInv == Types /\ OwnChild /\ \A t \in Tasks : Holding(t) /\ Making(t) /\ Copies(t)

(***************************************************************************)
(* Why a promise is kept: nobody but t refers to the object or keeps it,   *)
(* and a task gets at an object that is in use only from one that uses it. *)
(***************************************************************************)
Claims(u, k, o) == (k \in got[u] /\ ref[u][k] = o) \/ new[u][k] = o

Owns(t, k, o) == \A u \in Tasks : Claims(u, k, o) => u = t

(* What t will use when the unshare ends. *)
Future(t, k) == IF new[t][k] # None THEN new[t][k] ELSE ref[t][k]

Promise(t) ==
  /\ pc[t] \in Unsharing \ {"unshare_fs"} /\ "FS" \in flags[t] => Owns(t, "fs", Future(t, "fs"))
  /\ pc[t] \in {"namespaces", "commit"} /\ "FILES" \in flags[t] /\ Future(t, "files") # None =>
       Owns(t, "files", Future(t, "files"))
  /\ pc[t] = "unshared" /\ "FILES" \in flags[t] /\ ref[t]["files"] # None => Owns(t, "files", ref[t]["files"])
  /\ pc[t] \in Unsharing /\ "SIGHAND" \in flags[t] => Owns(t, "sighand", ref[t]["sighand"])

(* Only threads of the group use the fs, and in_exec keeps others away. *)
ExecAlone(t) ==
  pc[t] = "execing_alone" =>
    /\ ref[t]["fs"] \in in_exec
    /\ \A u \in Tasks : Claims(u, "fs", ref[t]["fs"]) => group[u] = group[t] /\ new[u]["fs"] # ref[t]["fs"]

OneExec == \A t, u \in Tasks : pc[t] \in Execing /\ pc[u] \in Execing /\ group[t] = group[u] => t = u

PromiseInv == OneExec /\ \A t \in Tasks : Promise(t) /\ ExecAlone(t)

-----------------------------------------------------------------------------
(* Allocation and counting *)

\* A set of objects that is not empty has a smallest one, and Min finds it.
LEMMA MinIn ==
  ASSUME NEW S \in SUBSET Objects, S # {}
  PROVE  Min(S) \in S
<1>1. S \subseteq Nat
  BY ShareAssumption, Zenon
<1>2. PICK x \in S : \A y \in S : ~(<<y, x>> \in OpToRel(<, Nat))
  BY <1>1, NatLessThanWellFounded, WFMin, Zenon
<1>3. \A y \in S : x =< y
  <2> SUFFICES ASSUME NEW y \in S PROVE x =< y
    BY Zenon
  <2>1. <<y, x>> \in Nat \X Nat
    BY <1>1, Zenon
  <2>2. ~(<<y, x>>[1] < <<y, x>>[2])
    BY <1>2, <2>1, Zenon DEF OpToRel
  <2> QED
    BY <1>1, <2>2
<1> QED
  BY <1>3, Zenon DEF Min

\* What is allocated was free.
LEMMA AllocFree ==
  ASSUME NEW k \in Kinds, Free(k) # {}
  PROVE  Alloc(k) \in Objects /\ Alloc(k) # None /\ users[k][Alloc(k)] = 0
<1>1. Alloc(k) \in Free(k)
  BY MinIn, Zenon DEF Alloc, Free
<1> QED
  BY <1>1, ShareAssumption, Zenon DEF Free, None

\* A set that changes in one element at most.
LEMMA OneMoves ==
  ASSUME NEW S, NEW R, NEW x, IsFiniteSet(S), R \ {x} = S \ {x}
  PROVE  /\ Cardinality(S) \in Nat /\ Cardinality(R) \in Nat
         /\ Cardinality(R) = Cardinality(S) + (IF x \in R THEN 1 ELSE 0) - (IF x \in S THEN 1 ELSE 0)
<1> DEFINE T == S \ {x}
<1>1. /\ IsFiniteSet(T) /\ Cardinality(S) \in Nat /\ Cardinality(T) \in Nat
      /\ Cardinality(T) = Cardinality(S) - (IF x \in S THEN 1 ELSE 0)
  BY FS_RemoveElement, FS_CardinalityType
<1>2. R = IF x \in R THEN T \cup {x} ELSE T
  BY Zenon
<1>3. Cardinality(R) = Cardinality(T) + (IF x \in R THEN 1 ELSE 0)
  <2>1. CASE x \in R
    <3>1. R = T \cup {x} /\ x \notin T
      BY <2>1, Zenon
    <3>2. Cardinality(T \cup {x}) = Cardinality(T) + 1
      BY <1>1, <3>1, FS_AddElement, Zenon
    <3> QED
      BY <2>1, <3>1, <3>2, Zenon
  <2>2. CASE x \notin R
    BY <1>1, <1>2, <2>2
  <2> QED
    BY <2>1, <2>2, Zenon
<1> HIDE DEF T
<1> QED
  BY <1>1, <1>3

(* How often x is counted for the object. *)
Held(x, k, o) == (IF k \in got[x] /\ ref[x][k] = o THEN 1 ELSE 0) + (IF new[x][k] = o THEN 1 ELSE 0)

\* The counts stay exact over a step that changes what one task holds, when the
\* count of every object changes as that task's share in it does.
LEMMA CountMoves ==
  ASSUME Types, CountsExact, NEW x \in Tasks,
         \A u \in Tasks \ {x} : got'[u] = got[u] /\ ref'[u] = ref[u] /\ new'[u] = new[u],
         \A k \in Kinds, o \in Objects : users'[k][o] = users[k][o] + Held(x, k, o)' - Held(x, k, o)
  PROVE  CountsExact'
<1> SUFFICES ASSUME NEW k \in Kinds, NEW o \in Objects
             PROVE  users'[k][o] = Cardinality(Users(k, o)') + Cardinality(Keeping(k, o)')
  BY Zenon DEF CountsExact
<1>1. IsFiniteSet(Users(k, o)) /\ IsFiniteSet(Keeping(k, o))
  BY ShareAssumption, FS_Subset, Zenon DEF Users, Keeping
<1>2. Users(k, o)' \ {x} = Users(k, o) \ {x} /\ Keeping(k, o)' \ {x} = Keeping(k, o) \ {x}
  BY Zenon DEF Users, Keeping
<1>3. /\ Cardinality(Users(k, o)) \in Nat /\ Cardinality(Users(k, o)') \in Nat
      /\ Cardinality(Users(k, o)') = Cardinality(Users(k, o)) + (IF x \in Users(k, o)' THEN 1 ELSE 0)
                                       - (IF x \in Users(k, o) THEN 1 ELSE 0)
  BY <1>1, <1>2, OneMoves
<1>4. /\ Cardinality(Keeping(k, o)) \in Nat /\ Cardinality(Keeping(k, o)') \in Nat
      /\ Cardinality(Keeping(k, o)') = Cardinality(Keeping(k, o)) + (IF x \in Keeping(k, o)' THEN 1 ELSE 0)
                                         - (IF x \in Keeping(k, o) THEN 1 ELSE 0)
  BY <1>1, <1>2, OneMoves
<1>5. /\ x \in Users(k, o) <=> k \in got[x] /\ ref[x][k] = o
      /\ x \in Users(k, o)' <=> k \in got'[x] /\ ref'[x][k] = o
      /\ x \in Keeping(k, o) <=> new[x][k] = o
      /\ x \in Keeping(k, o)' <=> new'[x][k] = o
  BY Zenon DEF Users, Keeping
<1>6. users[k][o] = Cardinality(Users(k, o)) + Cardinality(Keeping(k, o))
  BY Zenon DEF CountsExact
<1>7. users'[k][o] = users[k][o] + Held(x, k, o)' - Held(x, k, o)
  BY Zenon
<1> QED
  BY <1>3, <1>4, <1>5, <1>6, <1>7 DEF Held

\* An object that is not counted is claimed by nobody.
LEMMA UncountedUnclaimed ==
  ASSUME Types, CountsExact, NEW k \in Kinds, NEW o \in Objects, users[k][o] = 0, NEW u \in Tasks
  PROVE  ~Claims(u, k, o)
<1>1. IsFiniteSet(Users(k, o)) /\ IsFiniteSet(Keeping(k, o))
  BY ShareAssumption, FS_Subset, Zenon DEF Users, Keeping
<1>2. Cardinality(Users(k, o)) = 0 /\ Cardinality(Keeping(k, o)) = 0
  BY <1>1, FS_CardinalityType DEF CountsExact
<1>3. Users(k, o) = {} /\ Keeping(k, o) = {}
  BY <1>1, <1>2, FS_EmptySet, Zenon
<1> QED
  BY <1>3, Zenon DEF Claims, Users, Keeping

\* An object with one user is claimed by nobody else.
LEMMA CountedOnceOwned ==
  ASSUME Types, CountsExact, NEW k \in Kinds, NEW o \in Objects, users[k][o] <= 1,
         NEW t \in Tasks, t \in Users(k, o)
  PROVE  Owns(t, k, o)
<1>1. IsFiniteSet(Users(k, o)) /\ IsFiniteSet(Keeping(k, o))
  BY ShareAssumption, FS_Subset, Zenon DEF Users, Keeping
<1>2. Cardinality(Users(k, o)) \in Nat /\ Cardinality(Keeping(k, o)) \in Nat
  BY <1>1, FS_CardinalityType, Zenon
<1>3. Cardinality(Users(k, o)) # 0
  BY <1>1, FS_EmptySet, Zenon
<1>4. Cardinality(Users(k, o)) = 1 /\ Cardinality(Keeping(k, o)) = 0
  BY <1>2, <1>3 DEF CountsExact
<1>5. Users(k, o) = {t} /\ Keeping(k, o) = {}
  BY <1>1, <1>4, FS_Singleton, FS_EmptySet
<1> QED
  BY <1>5, Zenon DEF Owns, Claims, Users, Keeping

-----------------------------------------------------------------------------
(* What a task has at each step *)

\* The first task has what it points to.
LEMMA InitStepInv == Init => StepInv
<1> SUFFICES ASSUME Init PROVE StepInv
  BY Zenon
<1>1. Min(Objects) \in Objects /\ Min(Objects) # None
  BY MinIn, ShareAssumption, Zenon DEF None
<1>2. PICK t \in Tasks, files \in {None, Min(Objects)} :
        /\ pc = [u \in Tasks |-> IF u = t THEN "user" ELSE "none"]
        /\ ref = [u \in Tasks |-> IF u = t THEN [k \in Kinds |-> IF k = "files" THEN files ELSE Min(Objects)]
                                  ELSE NoRefs]
        /\ got = [u \in Tasks |-> IF u = t THEN Kinds ELSE {}]
        /\ users = [k \in Kinds |-> [o \in Objects |-> IF o = ref[t][k] THEN 1 ELSE 0]]
        /\ flags = [u \in Tasks |-> {}]
        /\ child = [u \in Tasks |-> u]
        /\ new = [u \in Tasks |-> NoRefs]
        /\ group = [u \in Tasks |-> u]
  BY Zenon DEF Init
<1>3. NoRefs \in Refs /\ [k \in Kinds |-> IF k = "files" THEN files ELSE Min(Objects)] \in Refs
  BY <1>1, Zenon DEF NoRefs, Refs
<1>4. Types
  <2>1. pc \in [Tasks -> Labels]
    BY <1>2, Zenon DEF Labels
  <2>2. ref \in [Tasks -> Refs] /\ new \in [Tasks -> Refs]
    BY <1>2, <1>3, Zenon
  <2>3. users \in [Kinds -> [Objects -> Int]]
    BY <1>2
  <2> QED
    BY <1>2, <2>1, <2>2, <2>3, Zenon DEF Types
<1>5. OwnChild /\ \A u \in Tasks : Making(u)
  BY <1>2, Zenon DEF OwnChild, Making, Copying
<1>6. \A u \in Tasks : Holding(u) /\ Copies(u)
  BY <1>1, <1>2, Zenon DEF Holding, Copies, NoRefs, Kinds
<1> QED
  BY <1>4, <1>5, <1>6, Zenon DEF StepInv

\* A step of a task that makes no child is about that task alone.
LEMMA OwnStep ==
  ASSUME StepInv, Types', NEW t \in Tasks, pc[t] \notin Copying \cup {"none", "new"},
         pc'[t] \notin Copying \cup {"new"}, UNCHANGED child,
         \A u \in Tasks \ {t} : /\ pc'[u] = pc[u] /\ ref'[u] = ref[u] /\ new'[u] = new[u] /\ got'[u] = got[u],
         Holding(t)', Copies(t)'
  PROVE  StepInv'
<1>1. ASSUME NEW u \in Tasks PROVE (Holding(u) /\ Copies(u))'
  BY DEF StepInv, Holding, Copies
<1>2. ASSUME NEW u \in Tasks PROVE Making(u)'
  <2>1. CASE u = t
    BY <2>1, Zenon DEF Making
  <2>2. CASE u # t /\ pc[u] \in Copying
    <3>1. child[u] \in Tasks /\ child[u] # t
      BY <2>2 DEF StepInv, Making, Types
    <3> QED
      BY <2>2, <3>1 DEF StepInv, Making
  <2>3. CASE u # t /\ pc[u] \notin Copying
    BY <2>3, Zenon DEF Making
  <2> QED
    BY <2>1, <2>2, <2>3, Zenon
<1>3. OwnChild'
  BY Zenon DEF StepInv, OwnChild
<1> QED
  BY <1>1, <1>2, <1>3, Zenon DEF StepInv

\* A step of copy_process that stays in it changes the child in the making.
LEMMA CopyStep ==
  ASSUME StepInv, Types', NEW t \in Tasks, pc[t] \in Copying, NEW l \in Copying, Go(t, l),
         UNCHANGED <<child, new>>,
         \A u \in Tasks \ {child[t]} : ref'[u] = ref[u] /\ got'[u] = got[u],
         ref'[child[t]]["fs"] # None /\ ref'[child[t]]["sighand"] # None,
         Making(t)'
  PROVE  StepInv'
<1> DEFINE c == child[t]
<1>1. c \in Tasks /\ c # t /\ pc[c] = "new"
  BY Zenon DEF StepInv, Types, Making
<1>2. pc'[t] = l /\ \A u \in Tasks \ {t} : pc'[u] = pc[u]
  BY Zenon DEF StepInv, Types, Go
<1>3. l \notin {"none", "new"} /\ pc[t] \notin {"none", "new"}
  BY Zenon DEF Copying
<1>4. ASSUME NEW u \in Tasks PROVE Holding(u)'
  <2>1. CASE u = c
    BY <1>1, <1>2, <2>1, Zenon DEF Holding
  <2>2. CASE u # c
    BY <1>2, <1>3, <2>2, Zenon DEF StepInv, Holding
  <2> QED
    BY <2>1, <2>2, Zenon
<1>5. ASSUME NEW u \in Tasks PROVE Copies(u)'
  <2>1. CASE u = t
    BY <1>2, <2>1, Zenon DEF StepInv, Copies, Copying, Execing
  <2>2. CASE u # t
    BY <1>2, <2>2, Zenon DEF StepInv, Copies
  <2> QED
    BY <2>1, <2>2, Zenon
<1>6. ASSUME NEW u \in Tasks PROVE Making(u)'
  <2>1. CASE u = t
    BY <2>1, Zenon
  <2>2. CASE u # t /\ pc[u] \in Copying
    <3>1. child[u] \in Tasks /\ child[u] # c /\ child[u] # t
      BY <1>3, <2>2 DEF StepInv, Making, Types, OwnChild
    <3>2. u # c
      BY <1>1, <2>2, Zenon DEF Copying
    <3> QED
      BY <1>2, <2>2, <3>1, <3>2 DEF StepInv, Making
  <2>3. CASE u # t /\ pc[u] \notin Copying
    BY <1>2, <2>3, Zenon DEF Making
  <2> QED
    BY <2>1, <2>2, <2>3, Zenon
<1>7. OwnChild'
  BY <1>2, Zenon DEF StepInv, OwnChild
<1> QED
  BY <1>4, <1>5, <1>6, <1>7, Zenon DEF StepInv

\* A child that ends to be made, because it is done or given up, leaves its
\* parent as an ordinary task.
LEMMA MadeStep ==
  ASSUME StepInv, Types', NEW t \in Tasks, pc[t] \in Copying, NEW l \in {"none", "user"},
         NEW c, c = child[t], pc' = [pc EXCEPT ![t] = "user", ![c] = l], child' = [child EXCEPT ![t] = t],
         UNCHANGED new,
         \A u \in Tasks \ {c} : ref'[u] = ref[u] /\ got'[u] = got[u],
         Holding(c)'
  PROVE  StepInv'
<1>1. c \in Tasks /\ c # t /\ pc[c] = "new"
  BY Zenon DEF StepInv, Types, Making
<1>2. pc'[t] = "user" /\ pc'[c] = l /\ \A u \in Tasks \ {t, c} : pc'[u] = pc[u]
  BY <1>1, Zenon DEF StepInv, Types
<1>3. \A u \in Tasks \ {t} : child'[u] = child[u]
  BY Zenon DEF StepInv, Types
<1>4. pc[t] \notin {"none", "new"}
  BY Zenon DEF Copying
<1>5. ASSUME NEW u \in Tasks PROVE Holding(u)'
  <2>1. CASE u = t
    BY <1>1, <1>2, <1>4, <2>1, Zenon DEF StepInv, Holding
  <2>2. CASE u \notin {t, c}
    BY <1>2, <2>2, Zenon DEF StepInv, Holding
  <2> QED
    BY <2>1, <2>2, Zenon
<1>6. ASSUME NEW u \in Tasks PROVE Copies(u)'
  <2>1. CASE u \in {t, c}
    BY <1>1, <1>2, <2>1, Zenon DEF StepInv, Copies, Copying, Execing
  <2>2. CASE u \notin {t, c}
    BY <1>2, <2>2, Zenon DEF StepInv, Copies
  <2> QED
    BY <2>1, <2>2, Zenon
<1>7. ASSUME NEW u \in Tasks PROVE Making(u)'
  <2>1. CASE u \in {t, c}
    BY <1>2, <2>1, Zenon DEF Making, Copying
  <2>2. CASE u \notin {t, c} /\ pc[u] \in Copying
    <3>1. child[u] \in Tasks /\ child[u] # c /\ child[u] # t
      BY <1>4, <2>2 DEF StepInv, Making, Types, OwnChild
    <3>2. /\ pc'[u] = pc[u] /\ child'[u] = child[u] /\ pc'[child[u]] = pc[child[u]] /\ got'[child[u]] = got[child[u]]
          /\ ref'[u] = ref[u] /\ ref'[child[u]] = ref[child[u]]
      BY <1>2, <1>3, <2>2, <3>1, Zenon
    <3> QED
      BY <2>2, <3>2 DEF StepInv, Making
  <2>3. CASE u \notin {t, c} /\ pc[u] \notin Copying
    BY <1>2, <2>3, Zenon DEF Making
  <2> QED
    BY <2>1, <2>2, <2>3, Zenon
<1>8. OwnChild'
  BY <1>2, <1>3 DEF StepInv, OwnChild, Copying
<1> QED
  BY <1>5, <1>6, <1>7, <1>8, Zenon DEF StepInv

\* A child begins to be made from a task_struct that nobody uses.
LEMMA CloneStep ==
  ASSUME StepInv, NEW t \in Tasks, NEW c \in Tasks, NEW f, clone(t, c, f)
  PROVE  StepInv'
<1>1. t # c /\ pc[t] = "user" /\ pc[c] = "none"
  BY Zenon DEF clone
<1>2. /\ pc'[t] = "copy_files" /\ pc'[c] = "new" /\ \A u \in Tasks \ {t, c} : pc'[u] = pc[u]
      /\ child'[t] = c /\ \A u \in Tasks \ {t} : child'[u] = child[u]
      /\ ref'[c] = ref[t] /\ \A u \in Tasks \ {c} : ref'[u] = ref[u]
      /\ got' = got /\ new' = new
  BY <1>1, Zenon DEF clone, StepInv, Types
<1>3. Types'
  BY <1>1, Zenon DEF clone, StepInv, Types, Labels, Copying
<1>4. ASSUME NEW u \in Tasks PROVE Holding(u)'
  BY <1>1, <1>2 DEF StepInv, Holding
<1>5. ASSUME NEW u \in Tasks PROVE Copies(u)'
  BY <1>1, <1>2, Zenon DEF StepInv, Copies, Execing
<1>6. ASSUME NEW u \in Tasks PROVE Making(u)'
  <2>1. CASE u = t
    BY <1>1, <1>2, <2>1 DEF StepInv, Holding, Making
  <2>2. CASE u # t /\ pc[u] \in Copying
    <3>1. child[u] \in Tasks /\ child[u] # c /\ child[u] # t /\ u # c
      BY <1>1, <2>2, Zenon DEF StepInv, Making, Types, Copying
    <3> QED
      BY <1>2, <2>2, <3>1 DEF StepInv, Making
  <2>3. CASE u # t /\ pc[u] \notin Copying
    BY <1>2, <2>3, Zenon DEF Making, Copying
  <2> QED
    BY <2>1, <2>2, <2>3, Zenon
<1>7. OwnChild'
  BY <1>1, <1>2 DEF StepInv, OwnChild, Making, Copying
<1> QED
  BY <1>3, <1>4, <1>5, <1>6, <1>7, Zenon DEF StepInv

-----------------------------------------------------------------------------
(* The counts *)

CountType == [Kinds -> [Objects -> Int]]

\* Count changes the count of one object.
LEMMA CountOne ==
  ASSUME NEW us \in CountType, NEW k \in Kinds, NEW o \in Objects \cup {None}, NEW n \in Int
  PROVE  /\ Count(us, k, o, n) \in CountType
         /\ \A j \in Kinds, q \in Objects : Count(us, k, o, n)[j][q] = us[j][q] + IF j = k /\ q = o THEN n ELSE 0
<1>1. CASE o = None
  BY <1>1, ShareAssumption DEF Count, CountType, None
<1>2. CASE o \in Objects /\ o # None
  <2>1. Count(us, k, o, n) = [us EXCEPT ![k][o] = @ + n]
    BY <1>2, Zenon DEF Count
  <2> QED
    BY <1>2, <2>1 DEF CountType
<1> QED
  BY <1>1, <1>2, Zenon

\* The files are put.
LEMMA PutFiles ==
  ASSUME NEW us \in CountType, NEW o \in Objects \cup {None}
  PROVE  /\ Count(us, "files", o, -1) \in CountType
         /\ \A j \in Kinds, q \in Objects :
              Count(us, "files", o, -1)[j][q] = us[j][q] + IF j = "files" /\ q = o THEN -1 ELSE 0
<1>1. "files" \in Kinds /\ -1 \in Int
  BY DEF Kinds
<1> QED
  BY <1>1, CountOne

\* Drop takes one user from each object that the task refers to.
LEMMA DropAll ==
  ASSUME Types, NEW u \in Tasks, NEW ks
  PROVE  /\ Drop(users, u, ks) \in CountType
         /\ \A k \in Kinds, o \in Objects :
              Drop(users, u, ks)[k][o] = users[k][o] - IF k \in ks /\ ref[u][k] = o THEN 1 ELSE 0
  BY DEF Types, Drop, CountType

\* None is no object.
LEMMA NoneIsNone == None \notin Objects
  BY ShareAssumption, Zenon DEF None

\* A step that moves no reference.
LEMMA CountSame ==
  ASSUME CountsExact, UNCHANGED <<ref, got, users, new>>
  PROVE  CountsExact'
  BY Zenon DEF CountsExact, Users, Keeping

\* copy_files, copy_fs or copy_sighand gives the child one more reference, to what
\* the parent has or to a copy.
LEMMA TakeStep ==
  ASSUME StepInv, CountsExact, NEW t \in Tasks, NEW k \in Kinds, NEW l \in Copying,
         \/ pc[t] = "copy_files" /\ k = "files" /\ l = "copy_fs"
         \/ pc[t] = "copy_fs" /\ k = "fs" /\ l = "copy_sighand"
         \/ pc[t] = "copy_sighand" /\ k = "sighand" /\ l = "copy_signal",
         Go(t, l), ShareIt(t, k) \/ CopyIt(t, k), UNCHANGED <<flags, child, new, group>>
  PROVE  StepInv' /\ CountsExact'
<1>1. PICK c : c = child[t]
  BY Zenon
<1>2. pc[t] \in Copying
  BY Zenon DEF Copying
<1>3. /\ c \in Tasks /\ c # t /\ k \notin got[c] /\ ref[c] \in Refs /\ ref[t] \in Refs
      /\ \A j \in Kinds \ got[c] : ref[c][j] = ref[t][j]
      /\ ref[c]["fs"] # None /\ ref[c]["sighand"] # None
      /\ ref[t]["fs"] # None /\ ref[t]["sighand"] # None
  BY <1>1, <1>2 DEF StepInv, Types, Making, Holding, Copying
<1>4. Types
  BY Zenon DEF StepInv
<1>5. got'[c] = got[c] \cup {k} /\ \A u \in Tasks \ {c} : got'[u] = got[u]
  BY <1>1, <1>3, <1>4, Zenon DEF Types, ShareIt, CopyIt
<1>6. PICK o \in Objects \cup {None} :
        /\ users' = Count(users, k, o, 1)
        /\ ref' = [ref EXCEPT ![c][k] = o]
        /\ k # "files" => o # None
  <2>1. CASE ShareIt(t, k)
    <3>1. ref[t][k] \in Objects \cup {None} /\ ref[c][k] = ref[t][k] /\ (k # "files" => ref[t][k] # None)
      BY <1>3, Zenon DEF Refs, Kinds
    <3>2. ref = [ref EXCEPT ![c][k] = ref[t][k]]
      BY <1>3, <1>4, <3>1, Zenon DEF Types, Refs
    <3> QED
      BY <2>1, <3>1, <3>2, Zenon DEF ShareIt
  <2>2. CASE CopyIt(t, k)
    BY <1>1, <2>2, AllocFree, Zenon DEF CopyIt
  <2> QED
    BY <2>1, <2>2, Zenon
<1>7. /\ ref' \in [Tasks -> Refs] /\ ref'[c][k] = o /\ \A j \in Kinds \ {k} : ref'[c][j] = ref[c][j]
      /\ \A u \in Tasks \ {c} : ref'[u] = ref[u]
  BY <1>3, <1>4, <1>6, Zenon DEF Types, Refs
<1>8. /\ users' \in CountType
      /\ \A j \in Kinds, q \in Objects : users'[j][q] = users[j][q] + IF j = k /\ q = o THEN 1 ELSE 0
  <2>1. users \in CountType
    BY <1>4, Zenon DEF Types, CountType
  <2> QED
    BY <1>6, <2>1, CountOne
<1>9. got' \in [Tasks -> SUBSET Kinds]
  BY <1>1, <1>3, <1>4 DEF Types, ShareIt, CopyIt
<1>10. Types'
  BY <1>4, <1>7, <1>8, <1>9, Zenon DEF Types, Go, Labels, CountType
<1>11. pc'[t] = l /\ pc'[c] = pc[c]
  BY <1>3, <1>4, Zenon DEF Types, Go
<1>12. Making(t)'
  <2>1. Making(t)
    BY Zenon DEF StepInv
  <2>2. child'[t] = c
    BY <1>1, Zenon
  <2>3. \A j \in Kinds \ got'[c] : ref'[c][j] = ref'[t][j]
    BY <1>3, <1>5, <1>7, Zenon
  <2>4. /\ l = "copy_fs" => got'[c] = {"files"}
        /\ l = "copy_sighand" => got'[c] = {"files", "fs"}
        /\ l = "copy_signal" => got'[c] = Kinds
        /\ l # "copy_files"
    BY <1>1, <1>2, <1>5, <2>1, Zenon DEF Making, Kinds
  <2> QED
    BY <1>1, <1>2, <1>3, <1>11, <2>1, <2>2, <2>3, <2>4 DEF Making
<1>13. ref'[c]["fs"] # None /\ ref'[c]["sighand"] # None
  BY <1>3, <1>6, <1>7, Zenon DEF Kinds
<1>14. StepInv'
  BY <1>1, <1>2, <1>5, <1>7, <1>10, <1>12, <1>13, CopyStep, Zenon
<1>15. ASSUME NEW j \in Kinds, NEW q \in Objects
       PROVE  users'[j][q] = users[j][q] + Held(c, j, q)' - Held(c, j, q)
  <2>1. Held(c, j, q)' - Held(c, j, q) = IF j = k /\ q = o THEN 1 ELSE 0
    BY <1>3, <1>5, <1>7 DEF Held
  <2>2. users[j][q] \in Int /\ Held(c, j, q)' \in Int /\ Held(c, j, q) \in Int
    BY <1>4 DEF Types, Held
  <2> QED
    BY <1>8, <2>1, <2>2, Zenon
<1>16. CountsExact'
  BY <1>3, <1>4, <1>5, <1>7, <1>15, CountMoves, Zenon
<1> QED
  BY <1>14, <1>16, Zenon

\* A copy that fails leaves the child as it is.
LEMMA FailStep ==
  ASSUME StepInv, CountsExact, NEW t \in Tasks, pc[t] \in Copying, CopyFails(t),
         UNCHANGED <<flags, child, new, group>>
  PROVE  StepInv' /\ CountsExact'
<1>1. Types'
  BY Zenon DEF StepInv, Types, CopyFails, Go, Labels, Copying
<1>2. "undo" \in Copying /\ Go(t, "undo") /\ UNCHANGED <<users, ref, got>>
  BY Zenon DEF Copying, CopyFails
<1>3. child[t] \in Tasks /\ pc'[t] = "undo" /\ (child[t] # t => pc'[child[t]] = pc[child[t]])
  BY <1>2, Zenon DEF StepInv, Types, Go
<1>4. Making(t)'
  BY <1>2, <1>3, Zenon DEF StepInv, Making
<1>5. ref'[child[t]]["fs"] # None /\ ref'[child[t]]["sighand"] # None
  BY <1>2, <1>3, Zenon DEF StepInv, Making, Holding
<1>6. StepInv'
  BY <1>1, <1>2, <1>4, <1>5, CopyStep, Zenon
<1> QED
  BY <1>2, <1>6, CountSame, Zenon

\* The child is done, or copy_process fails later.
LEMMA SignalStep ==
  ASSUME StepInv, CountsExact, NEW t \in Tasks, copy_signal(t)
  PROVE  StepInv' /\ CountsExact'
<1>1. pc[t] = "copy_signal" /\ pc[t] \in Copying /\ UNCHANGED <<ref, got, users, new, group>>
  BY Zenon DEF copy_signal, Copying
<1>2. CASE Go(t, "undo") /\ UNCHANGED <<child, flags>>
  BY <1>1, <1>2, FailStep, Zenon DEF CopyFails
<1>3. CASE /\ pc' = [pc EXCEPT ![t] = "user", ![child[t]] = "user"]
           /\ child' = [child EXCEPT ![t] = t]
           /\ flags' = [flags EXCEPT ![t] = {}]
  <2>1. PICK c : c = child[t]
    BY Zenon
  <2>2. c \in Tasks /\ c # t /\ pc[c] = "new" /\ got[c] = Kinds
    BY <1>1, <2>1, Zenon DEF StepInv, Making, Types
  <2>3. Types'
    BY <1>1, <1>3, Zenon DEF StepInv, Types, Labels
  <2>4. pc'[c] = "user"
    BY <1>3, <2>1, <2>2, Zenon DEF StepInv, Types
  <2>5. Holding(c)'
    BY <1>1, <2>2, <2>4, Zenon DEF StepInv, Holding
  <2>6. StepInv'
    BY <1>1, <1>3, <2>1, <2>3, <2>5, MadeStep, Zenon
  <2> QED
    BY <1>1, <2>6, CountSame, Zenon
<1> QED
  BY <1>2, <1>3, Zenon DEF copy_signal

\* What the child had got is given back.
LEMMA UndoStep ==
  ASSUME StepInv, CountsExact, NEW t \in Tasks, Undo(t)
  PROVE  StepInv' /\ CountsExact'
<1>1. PICK c : c = child[t]
  BY Zenon
<1>2. pc[t] \in Copying /\ c \in Tasks /\ c # t /\ Types
  BY <1>1, Zenon DEF Undo, StepInv, Making, Types, Copying
<1>3. /\ users' = Drop(users, c, got[c]) /\ got' = [got EXCEPT ![c] = {}] /\ ref' = [ref EXCEPT ![c] = NoRefs]
      /\ pc' = [pc EXCEPT ![t] = "user", ![c] = "none"] /\ child' = [child EXCEPT ![t] = t] /\ new' = new
  BY <1>1, Zenon DEF Undo
<1>4. /\ users' \in CountType
      /\ \A k \in Kinds, o \in Objects :
           users'[k][o] = users[k][o] - IF k \in got[c] /\ ref[c][k] = o THEN 1 ELSE 0
  BY <1>2, <1>3, DropAll
<1>5. got'[c] = {} /\ \A u \in Tasks \ {c} : got'[u] = got[u] /\ ref'[u] = ref[u] /\ new'[u] = new[u]
  BY <1>2, <1>3, Zenon DEF Types
<1>6. Types'
  <2>1. NoRefs \in Refs
    BY Zenon DEF NoRefs, Refs
  <2> QED
    BY <1>2, <1>3, <1>4, <2>1 DEF Types, Undo, Labels, CountType
<1>7. pc'[c] = "none"
  BY <1>2, <1>3, Zenon DEF Types
<1>8. Holding(c)'
  BY <1>5, <1>7, Zenon DEF Holding
<1>9. StepInv'
  BY <1>1, <1>2, <1>3, <1>5, <1>6, <1>8, MadeStep, Zenon
<1>10. \A k \in Kinds, o \in Objects : users'[k][o] = users[k][o] + Held(c, k, o)' - Held(c, k, o)
  BY <1>2, <1>3, <1>4, <1>5 DEF Held, Types
<1>11. CountsExact'
  BY <1>2, <1>5, <1>10, CountMoves, Zenon
<1> QED
  BY <1>9, <1>11, Zenon

\* A system call that moves no reference: only the step and the flags change.
LEMMA PlainStep ==
  ASSUME StepInv, CountsExact, NEW t \in Tasks, NEW l \in Labels \ (Copying \cup {"none", "new"}),
         pc[t] \notin Copying \cup {"none", "new"},
         Go(t, l), UNCHANGED <<child, ref, got, users, new, group>>, DOMAIN flags' = Tasks,
         new[t]["fs"] # None => l \in {"unshare_fd", "namespaces", "commit", "cleanup"},
         new[t]["files"] # None => l \in {"namespaces", "commit", "unshared", "cleanup", "swap", "exec"} \cup Execing
  PROVE  StepInv' /\ CountsExact'
<1>1. Types' /\ pc'[t] = l /\ \A u \in Tasks \ {t} : pc'[u] = pc[u]
  BY Zenon DEF StepInv, Types, Go
<1>2. Holding(t)' /\ Copies(t)'
  BY <1>1, Zenon DEF StepInv, Holding, Copies
<1>3. StepInv'
  BY <1>1, <1>2, OwnStep, Zenon
<1> QED
  BY <1>3, CountSame, Zenon

\* unshare_fs, unshare_fd and unshare_files take a copy that is not used yet.
LEMMA TakeCopyStep ==
  ASSUME StepInv, CountsExact, NEW t \in Tasks, NEW k \in Kinds, NEW l \in Labels,
         \/ pc[t] = "unshare_fs" /\ k = "fs" /\ l = "unshare_fd"
         \/ pc[t] = "unshare_fd" /\ k = "files" /\ l = "namespaces"
         \/ pc[t] = "user" /\ k = "files" /\ l = "swap",
         TakeCopy(t, k), Go(t, l), UNCHANGED <<flags, child, ref, got, group>>
  PROVE  StepInv' /\ CountsExact'
<1>1. Types /\ Copies(t) /\ Holding(t) /\ users \in CountType
  BY Zenon DEF StepInv, Types, CountType
<1>2. PICK o : o = Alloc(k)
  BY Zenon
<1>3. o \in Objects /\ o # None /\ users' = Count(users, k, o, 1) /\ new' = [new EXCEPT ![t][k] = o]
  BY <1>2, AllocFree, Zenon DEF TakeCopy
<1>4. /\ users' \in CountType
      /\ \A j \in Kinds, q \in Objects : users'[j][q] = users[j][q] + IF j = k /\ q = o THEN 1 ELSE 0
  BY <1>1, <1>3, CountOne
<1>5. /\ new' \in [Tasks -> Refs] /\ new'[t][k] = o /\ \A j \in Kinds \ {k} : new'[t][j] = new[t][j]
      /\ \A u \in Tasks \ {t} : new'[u] = new[u]
  BY <1>1, <1>3, Zenon DEF Types, Refs
<1>6. new[t][k] = None
  BY <1>1 DEF Copies, Execing
<1>7. pc'[t] = l /\ \A u \in Tasks \ {t} : pc'[u] = pc[u]
  BY <1>1, Zenon DEF Types, Go
<1>8. Types'
  BY <1>1, <1>4, <1>5, Zenon DEF Types, Go, CountType
<1>9. Holding(t)' /\ Copies(t)'
  BY <1>1, <1>5, <1>7, Zenon DEF Holding, Copies, Kinds, Execing
<1>10. StepInv'
  BY <1>5, <1>7, <1>8, <1>9, OwnStep, Zenon DEF Copying
<1>11. \A j \in Kinds, q \in Objects : users'[j][q] = users[j][q] + Held(t, j, q)' - Held(t, j, q)
  BY <1>1, <1>3, <1>4, <1>5, <1>6, NoneIsNone DEF Held, CountType
<1>12. CountsExact'
  BY <1>1, <1>5, <1>11, CountMoves, Zenon
<1> QED
  BY <1>10, <1>12, Zenon

\* The copies become what the task uses.
LEMMA CommitStep ==
  ASSUME StepInv, CountsExact, NEW t \in Tasks, Commit(t)
  PROVE  StepInv' /\ CountsExact'
<1>1. Types /\ Copies(t) /\ Holding(t) /\ users \in CountType /\ got[t] = Kinds
  BY Zenon DEF StepInv, Types, CountType, Holding, Commit
<1>2. PICK fs, fd, ofs, ofd : fs = new[t]["fs"] /\ fd = new[t]["files"] /\ ofs = ref[t]["fs"] /\ ofd = ref[t]["files"]
  BY Zenon
<1>3. {fs, fd, ofs, ofd} \subseteq Objects \cup {None}
  BY <1>1, <1>2 DEF Types, Refs, Kinds
<1>4. /\ ref' = [ref EXCEPT ![t]["fs"] = IF fs # None THEN fs ELSE ofs, ![t]["files"] = IF fd # None THEN fd ELSE ofd]
      /\ new' = [new EXCEPT ![t]["fs"] = None, ![t]["files"] = IF fd # None THEN ofd ELSE None]
      /\ users' = IF fs = None THEN users ELSE Count(users, "fs", ofs, -1)
      /\ Go(t, "unshared") /\ UNCHANGED <<flags, child, got, group>>
  BY <1>1, <1>2, Zenon DEF Commit, Types, Refs, Kinds
<1>5. /\ users' \in CountType
      /\ \A j \in Kinds, q \in Objects :
           users'[j][q] = users[j][q] + IF fs # None /\ j = "fs" /\ q = ofs THEN -1 ELSE 0
  <2>1. CASE fs = None
    BY <1>1, <1>4, <2>1 DEF CountType
  <2>2. CASE fs # None
    <3>1. "fs" \in Kinds /\ -1 \in Int
      BY DEF Kinds
    <3> QED
      BY <1>1, <1>3, <1>4, <2>2, <3>1, CountOne
  <2> QED
    BY <2>1, <2>2, Zenon
<1>6. /\ ref' \in [Tasks -> Refs] /\ new' \in [Tasks -> Refs]
      /\ \A u \in Tasks \ {t} : ref'[u] = ref[u] /\ new'[u] = new[u]
  BY <1>1, <1>3, <1>4, Zenon DEF Types, Refs
<1>7. /\ ref'[t]["fs"] = (IF fs # None THEN fs ELSE ofs) /\ ref'[t]["files"] = (IF fd # None THEN fd ELSE ofd)
      /\ new'[t]["fs"] = None /\ new'[t]["files"] = (IF fd # None THEN ofd ELSE None)
      /\ ref'[t]["sighand"] = ref[t]["sighand"] /\ new'[t]["sighand"] = new[t]["sighand"]
  BY <1>1, <1>4, Zenon DEF Types, Refs, Kinds
<1>8. pc'[t] = "unshared" /\ \A u \in Tasks \ {t} : pc'[u] = pc[u]
  BY <1>1, <1>4, Zenon DEF Types, Go
<1>9. Types'
  BY <1>1, <1>4, <1>5, <1>6, Zenon DEF Types, Go, CountType, Labels, Unsharing
<1>10. Holding(t)' /\ Copies(t)'
  BY <1>1, <1>2, <1>4, <1>7, <1>8, Zenon DEF Holding, Copies, Commit
<1>11. StepInv'
  BY <1>4, <1>6, <1>8, <1>9, <1>10, OwnStep, Zenon DEF Copying, Commit
<1>12. \A j \in Kinds, q \in Objects : users'[j][q] = users[j][q] + Held(t, j, q)' - Held(t, j, q)
  <2>1. \A j \in Kinds, q \in Objects : users[j][q] \in Int /\ q # None
    BY <1>1, NoneIsNone, Zenon DEF CountType
  <2>2. ASSUME NEW q \in Objects PROVE Held(t, "fs", q)' - Held(t, "fs", q) = IF fs # None /\ q = ofs THEN -1 ELSE 0
    <3>1. "fs" \in got[t] /\ got' = got /\ q # None
      BY <1>1, <1>4, <2>1, Zenon DEF Kinds
    <3>2. Held(t, "fs", q) = (IF ofs = q THEN 1 ELSE 0) + (IF fs = q THEN 1 ELSE 0)
      BY <1>2, <3>1, Zenon DEF Held
    <3>3. Held(t, "fs", q)' = IF fs # None THEN (IF fs = q THEN 1 ELSE 0) ELSE (IF ofs = q THEN 1 ELSE 0)
      BY <1>7, <3>1 DEF Held
    <3> QED
      BY <3>1, <3>2, <3>3
  <2>3. ASSUME NEW q \in Objects PROVE Held(t, "files", q)' - Held(t, "files", q) = 0
    <3>1. "files" \in got[t] /\ got' = got /\ q # None
      BY <1>1, <1>4, <2>1, Zenon DEF Kinds
    <3>2. Held(t, "files", q) = (IF ofd = q THEN 1 ELSE 0) + (IF fd = q THEN 1 ELSE 0)
      BY <1>2, <3>1, Zenon DEF Held
    <3>3. Held(t, "files", q)' = IF fd # None THEN (IF fd = q THEN 1 ELSE 0) + (IF ofd = q THEN 1 ELSE 0)
                                 ELSE (IF ofd = q THEN 1 ELSE 0)
      BY <1>7, <3>1 DEF Held
    <3> QED
      BY <3>1, <3>2, <3>3
  <2>4. ASSUME NEW q \in Objects PROVE Held(t, "sighand", q)' - Held(t, "sighand", q) = 0
    <3>1. got' = got
      BY <1>4, Zenon
    <3>2. Held(t, "sighand", q)' = Held(t, "sighand", q) /\ Held(t, "sighand", q) \in Int
      BY <1>7, <3>1 DEF Held
    <3> QED
      BY <3>2
  <2>5. \A j \in Kinds, q \in Objects : Held(t, j, q) \in Int /\ Held(t, j, q)' \in Int
    BY DEF Held
  <2> QED
    BY <1>5, <2>1, <2>2, <2>3, <2>4, <2>5 DEF Kinds
<1>13. CountsExact'
  BY <1>1, <1>4, <1>6, <1>12, CountMoves, Zenon
<1> QED
  BY <1>11, <1>13, Zenon

\* What is left in new_fs and new_fd is put.
LEMMA CleanupStep ==
  ASSUME StepInv, CountsExact, NEW t \in Tasks, Cleanup(t)
  PROVE  StepInv' /\ CountsExact'
<1>1. Types /\ Copies(t) /\ Holding(t) /\ users \in CountType
  BY Zenon DEF StepInv, Types, CountType
<1>2. PICK fs, fd : fs = new[t]["fs"] /\ fd = new[t]["files"]
  BY Zenon
<1>3. fs \in Objects \cup {None} /\ fd \in Objects \cup {None} /\ "fs" \in Kinds /\ "files" \in Kinds /\ -1 \in Int
  BY <1>1, <1>2 DEF Types, Refs, Kinds
<1>4. PICK us : us = Count(users, "files", fd, -1)
  BY Zenon
<1>5. /\ us \in CountType
      /\ \A j \in Kinds, q \in Objects : us[j][q] = users[j][q] + IF j = "files" /\ q = fd THEN -1 ELSE 0
  <2>1. users \in CountType /\ fd \in Objects \cup {None}
    BY <1>1, <1>3, Zenon
  <2> QED
    BY <1>4, <2>1, PutFiles
<1>6. users' = Count(us, "fs", fs, -1)
  BY <1>2, <1>4, Zenon DEF Cleanup
<1>7. /\ users' \in CountType
      /\ \A j \in Kinds, q \in Objects : users'[j][q] = us[j][q] + IF j = "fs" /\ q = fs THEN -1 ELSE 0
  <2>1. us \in CountType /\ fs \in Objects \cup {None} /\ "fs" \in Kinds /\ -1 \in Int
    BY <1>3, <1>5, Zenon
  <2> QED
    BY <1>6, <2>1, CountOne
<1>8. /\ new' \in [Tasks -> Refs] /\ \A j \in Kinds : new'[t][j] = None
      /\ \A u \in Tasks \ {t} : new'[u] = new[u]
  BY <1>1, Zenon DEF Types, Refs, Cleanup, NoRefs
<1>9. pc'[t] = "user" /\ \A u \in Tasks \ {t} : pc'[u] = pc[u]
  BY <1>1, Zenon DEF Types, Go, Cleanup
<1>10. Types'
  BY <1>1, <1>7, <1>8, Zenon DEF Types, Go, Cleanup, CountType, Labels
<1>11. Holding(t)' /\ Copies(t)'
  BY <1>1, <1>8, <1>9, Zenon DEF Holding, Copies, Cleanup, Kinds
<1>12. StepInv'
  BY <1>8, <1>9, <1>10, <1>11, OwnStep, Zenon DEF Copying, Cleanup
<1>13. \A j \in Kinds, q \in Objects : users'[j][q] = users[j][q] + Held(t, j, q)' - Held(t, j, q)
  <2> SUFFICES ASSUME NEW j \in Kinds, NEW q \in Objects
               PROVE  users'[j][q] = users[j][q] + Held(t, j, q)' - Held(t, j, q)
    BY Zenon
  <2>1. users[j][q] \in Int /\ q # None /\ got' = got /\ ref' = ref
    BY <1>1, NoneIsNone, Zenon DEF CountType, Cleanup
  <2>2. Held(t, j, q)' - Held(t, j, q) = IF new[t][j] = q THEN -1 ELSE 0
    BY <1>8, <2>1 DEF Held
  <2>3. Held(t, j, q) \in Int /\ Held(t, j, q)' \in Int
    BY DEF Held
  <2>4. users'[j][q] = users[j][q] + IF new[t][j] = q THEN -1 ELSE 0
    BY <1>1, <1>2, <1>5, <1>7, <2>1 DEF Copies, Kinds
  <2> QED
    BY <2>1, <2>2, <2>3, <2>4, Zenon
<1>14. CountsExact'
  BY <1>1, <1>8, <1>13, CountMoves, Zenon DEF Cleanup
<1> QED
  BY <1>12, <1>14, Zenon

\* execve puts its copy in the task's place and keeps what was there.
LEMMA SwapStep ==
  ASSUME StepInv, CountsExact, NEW t \in Tasks, unshare_files_Swap(t)
  PROVE  StepInv' /\ CountsExact'
<1>1. Types /\ Copies(t) /\ Holding(t) /\ users \in CountType /\ pc[t] = "swap" /\ got[t] = Kinds
  BY Zenon DEF StepInv, Types, CountType, unshare_files_Swap, Holding
<1>2. /\ ref' = [ref EXCEPT ![t]["files"] = new[t]["files"]]
      /\ new' = [new EXCEPT ![t]["files"] = ref[t]["files"]]
      /\ Go(t, "exec") /\ UNCHANGED <<flags, child, got, users, group>>
  BY Zenon DEF unshare_files_Swap
<1>3. /\ ref' \in [Tasks -> Refs] /\ new' \in [Tasks -> Refs]
      /\ ref'[t]["files"] = new[t]["files"] /\ new'[t]["files"] = ref[t]["files"]
      /\ \A j \in Kinds \ {"files"} : ref'[t][j] = ref[t][j] /\ new'[t][j] = new[t][j]
      /\ \A u \in Tasks \ {t} : ref'[u] = ref[u] /\ new'[u] = new[u]
  BY <1>1, <1>2 DEF Types, Refs, Kinds
<1>4. pc'[t] = "exec" /\ \A u \in Tasks \ {t} : pc'[u] = pc[u]
  BY <1>1, <1>2, Zenon DEF Types, Go
<1>5. Types'
  BY <1>1, <1>2, <1>3, Zenon DEF Types, Go, Labels
<1>6. Holding(t)' /\ Copies(t)'
  BY <1>1, <1>2, <1>3, <1>4, Zenon DEF Holding, Copies, Kinds
<1>7. StepInv'
  BY <1>1, <1>2, <1>3, <1>4, <1>5, <1>6, OwnStep, Zenon DEF Copying
<1>8. \A j \in Kinds, q \in Objects : Held(t, j, q)' = Held(t, j, q) /\ Held(t, j, q) \in Int /\ users[j][q] \in Int
  BY <1>1, <1>2, <1>3 DEF Held, CountType
<1>9. CountsExact'
  BY <1>1, <1>2, <1>3, <1>8, CountMoves
<1> QED
  BY <1>7, <1>9, Zenon

\* execve ends: the files that were displaced are put, or taken back.
LEMMA ExecEndsStep ==
  ASSUME StepInv, CountsExact, NEW t \in Tasks, ExecEnds(t)
  PROVE  StepInv' /\ CountsExact'
<1>1. Types /\ Copies(t) /\ Holding(t) /\ users \in CountType /\ got[t] = Kinds /\ new[t]["fs"] = None
  BY Zenon DEF StepInv, Types, CountType, ExecEnds, Holding, Copies
<1>2. PICK fd, ofd : fd = new[t]["files"] /\ ofd = ref[t]["files"]
  BY Zenon
<1>3. fd \in Objects \cup {None} /\ ofd \in Objects \cup {None} /\ "files" \in Kinds /\ -1 \in Int
  BY <1>1, <1>2 DEF Types, Refs, Kinds
<1>4. /\ new' = [new EXCEPT ![t] = NoRefs] /\ Go(t, "user") /\ UNCHANGED <<flags, child, got, group>>
  BY Zenon DEF ExecEnds
<1>5. PICK o \in {fd, ofd} :
        /\ users' = Count(users, "files", o, -1)
        /\ ref' = [ref EXCEPT ![t]["files"] = IF o = fd THEN ofd ELSE fd]
        /\ fd = None => o = fd
  <2>1. ref = [ref EXCEPT ![t]["files"] = ofd]
    BY <1>1, <1>2, Zenon DEF Types, Refs
  <2>2. CASE Threads(t) = {t} /\ UNCHANGED ref /\ users' = Count(users, "files", new[t]["files"], -1)
    BY <1>2, <2>1, <2>2, Zenon
  <2>3. CASE new[t]["files"] = None /\ UNCHANGED <<ref, users>>
    <3>1. users' = Count(users, "files", fd, -1)
      BY <1>2, <2>3, Zenon DEF Count
    <3> QED
      BY <1>2, <2>1, <2>3, <3>1, Zenon
  <2>4. CASE new[t]["files"] # None /\ ref' = [ref EXCEPT ![t]["files"] = new[t]["files"]]
             /\ users' = Count(users, "files", ref[t]["files"], -1)
    BY <1>2, <2>4, Zenon
  <2> QED
    BY <2>2, <2>3, <2>4, Zenon DEF ExecEnds
<1>6. /\ users' \in CountType
      /\ \A j \in Kinds, q \in Objects : users'[j][q] = users[j][q] + IF j = "files" /\ q = o THEN -1 ELSE 0
  <2>1. o \in Objects \cup {None} /\ users' = Count(users, "files", o, -1)
    BY <1>3, <1>5, Zenon
  <2> QED
    BY <1>1, <2>1, PutFiles
<1>7. /\ ref' \in [Tasks -> Refs] /\ new' \in [Tasks -> Refs]
      /\ ref'[t]["files"] = (IF o = fd THEN ofd ELSE fd)
      /\ \A j \in Kinds \ {"files"} : ref'[t][j] = ref[t][j]
      /\ \A j \in Kinds : new'[t][j] = None
      /\ \A u \in Tasks \ {t} : ref'[u] = ref[u] /\ new'[u] = new[u]
  BY <1>1, <1>3, <1>4, <1>5, Zenon DEF Types, Refs, NoRefs
<1>8. pc'[t] = "user" /\ \A u \in Tasks \ {t} : pc'[u] = pc[u]
  BY <1>1, <1>4, Zenon DEF Types, Go
<1>9. Types'
  BY <1>1, <1>4, <1>6, <1>7, Zenon DEF Types, Go, CountType, Labels
<1>10. Holding(t)' /\ Copies(t)'
  BY <1>1, <1>4, <1>7, <1>8, Zenon DEF Holding, Copies, ExecEnds, Kinds
<1>11. StepInv'
  BY <1>4, <1>7, <1>8, <1>9, <1>10, OwnStep, Zenon DEF Copying, ExecEnds
<1>12. \A j \in Kinds, q \in Objects : users'[j][q] = users[j][q] + Held(t, j, q)' - Held(t, j, q)
  <2> SUFFICES ASSUME NEW j \in Kinds, NEW q \in Objects
               PROVE  users'[j][q] = users[j][q] + Held(t, j, q)' - Held(t, j, q)
    BY Zenon
  <2>1. users[j][q] \in Int /\ q # None /\ got' = got /\ j \in got[t]
    BY <1>1, <1>4, NoneIsNone, Zenon DEF CountType
  <2>2. CASE j = "files"
    <3>1. Held(t, j, q) = (IF ofd = q THEN 1 ELSE 0) + (IF fd = q THEN 1 ELSE 0)
      BY <1>2, <2>1, <2>2, Zenon DEF Held
    <3>2. Held(t, j, q)' = IF (IF o = fd THEN ofd ELSE fd) = q THEN 1 ELSE 0
      BY <1>7, <2>1, <2>2 DEF Held
    <3> QED
      BY <1>5, <1>6, <2>1, <2>2, <3>1, <3>2
  <2>3. CASE j # "files"
    <3>1. new[t][j] = None
      BY <1>1, <2>3, Zenon DEF Copies, Kinds
    <3>2. Held(t, j, q)' = Held(t, j, q) /\ Held(t, j, q) \in Int
      BY <1>7, <2>1, <2>3, <3>1 DEF Held
    <3> QED
      BY <1>6, <2>1, <2>3, <3>2
  <2> QED
    BY <2>2, <2>3, Zenon
<1>13. CountsExact'
  BY <1>1, <1>4, <1>7, <1>12, CountMoves, Zenon
<1> QED
  BY <1>11, <1>13, Zenon

\* A task that exits gives back all it refers to.
LEMMA ExitStep ==
  ASSUME StepInv, CountsExact, NEW t \in Tasks, do_exit(t)
  PROVE  StepInv' /\ CountsExact'
<1>1. Types /\ Copies(t) /\ pc[t] = "user" /\ got[t] = Kinds
  BY Zenon DEF StepInv, Holding, do_exit
<1>2. /\ users' = Drop(users, t, Kinds) /\ got' = [got EXCEPT ![t] = {}] /\ ref' = [ref EXCEPT ![t] = NoRefs]
      /\ Go(t, "none") /\ UNCHANGED <<flags, child, new>>
  BY Zenon DEF do_exit
<1>3. /\ users' \in CountType
      /\ \A k \in Kinds, o \in Objects : users'[k][o] = users[k][o] - IF k \in Kinds /\ ref[t][k] = o THEN 1 ELSE 0
  BY <1>1, <1>2, DropAll
<1>4. NoRefs \in Refs
  BY Zenon DEF NoRefs, Refs
<1>5. Types'
  BY <1>1, <1>2, <1>3, <1>4 DEF Types, Go, Labels, CountType, do_exit
<1>6. /\ got'[t] = {} /\ pc'[t] = "none"
      /\ \A u \in Tasks \ {t} : pc'[u] = pc[u] /\ got'[u] = got[u] /\ ref'[u] = ref[u] /\ new'[u] = new[u]
  BY <1>1, <1>2, Zenon DEF Types, Go
<1>7. Holding(t)' /\ Copies(t)'
  BY <1>1, <1>2, <1>6, Zenon DEF Holding, Copies, Execing
<1>8. StepInv'
  BY <1>1, <1>2, <1>5, <1>6, <1>7, OwnStep, Zenon DEF Copying
<1>9. \A k \in Kinds, o \in Objects : users'[k][o] = users[k][o] + Held(t, k, o)' - Held(t, k, o)
  BY <1>1, <1>2, <1>3, <1>6 DEF Held, Types
<1>10. CountsExact'
  BY <1>1, <1>6, <1>9, CountMoves, Zenon
<1> QED
  BY <1>8, <1>10, Zenon

\* At the start each object of the first task has one user.
LEMMA InitCounts == Init => CountsExact
<1> SUFFICES ASSUME Init, NEW k \in Kinds, NEW o \in Objects
             PROVE  users[k][o] = Cardinality(Users(k, o)) + Cardinality(Keeping(k, o))
  BY Zenon DEF CountsExact
<1>1. PICK t \in Tasks :
        /\ got = [u \in Tasks |-> IF u = t THEN Kinds ELSE {}]
        /\ users = [j \in Kinds |-> [q \in Objects |-> IF q = ref[t][j] THEN 1 ELSE 0]]
        /\ new = [u \in Tasks |-> NoRefs]
  BY Zenon DEF Init
<1>2. Keeping(k, o) = {}
  BY <1>1, NoneIsNone, Zenon DEF Keeping, NoRefs
<1>3. Users(k, o) = IF o = ref[t][k] THEN {t} ELSE {}
  BY <1>1, Zenon DEF Users
<1>4. users[k][o] = IF o = ref[t][k] THEN 1 ELSE 0
  BY <1>1, Zenon
<1>5. Cardinality({}) = 0 /\ Cardinality({t}) = 1
  BY FS_EmptySet, FS_Singleton, Zenon
<1> QED
  BY <1>2, <1>3, <1>4, <1>5

CountInv == StepInv /\ CountsExact

\* Every step keeps the counts.
LEMMA StepCountInv == CountInv /\ [Next]_vars => CountInv'
<1> SUFFICES ASSUME StepInv, CountsExact, [Next]_vars PROVE StepInv' /\ CountsExact'
  BY Zenon DEF CountInv
<1>1. ASSUME NEW t \in Tasks, NEW c \in Tasks, NEW f, clone(t, c, f) PROVE StepInv' /\ CountsExact'
  <2>1. c # t /\ got[c] = {} /\ Types
    BY <1>1, Zenon DEF clone, StepInv, Holding
  <2>2. /\ UNCHANGED <<got, users, new>> /\ \A u \in Tasks \ {c} : ref'[u] = ref[u]
    BY <1>1, <2>1, Zenon DEF clone, Types
  <2>3. \A k \in Kinds, o \in Objects : users'[k][o] = users[k][o] + Held(c, k, o)' - Held(c, k, o)
    BY <2>1, <2>2 DEF Held, Types
  <2>4. CountsExact'
    BY <2>1, <2>2, <2>3, CountMoves, Zenon
  <2> QED
    BY <1>1, <2>4, CloneStep, Zenon
<1>2. ASSUME NEW t \in Tasks, copy_files(t) \/ copy_fs(t) \/ copy_sighand(t) PROVE StepInv' /\ CountsExact'
  <2>1. pc[t] \in Copying /\ UNCHANGED <<flags, child, new, group>>
    BY <1>2, Zenon DEF copy_files, copy_fs, copy_sighand, Copying
  <2>2. CASE CopyFails(t)
    BY <2>1, <2>2, FailStep, Zenon
  <2>3. CASE pc[t] = "copy_files" /\ (ShareIt(t, "files") \/ CopyIt(t, "files")) /\ Go(t, "copy_fs")
    BY <2>1, <2>3, TakeStep, Zenon DEF Kinds, Copying
  <2>4. CASE pc[t] = "copy_fs" /\ (ShareIt(t, "fs") \/ CopyIt(t, "fs")) /\ Go(t, "copy_sighand")
    BY <2>1, <2>4, TakeStep, Zenon DEF Kinds, Copying
  <2>5. CASE pc[t] = "copy_sighand" /\ (ShareIt(t, "sighand") \/ CopyIt(t, "sighand")) /\ Go(t, "copy_signal")
    BY <2>1, <2>5, TakeStep, Zenon DEF Kinds, Copying
  <2> QED
    BY <1>2, <2>2, <2>3, <2>4, <2>5, Zenon DEF copy_files, copy_fs, copy_sighand
<1>3. ASSUME NEW t \in Tasks, NEW f, ksys_unshare(t, f) PROVE StepInv' /\ CountsExact'
  <2>1. /\ pc[t] = "user" /\ UNCHANGED <<child, ref, got, users, new, group>> /\ DOMAIN flags' = Tasks
        /\ Go(t, "unshare_fs") \/ Go(t, "user")
    BY <1>3, Zenon DEF ksys_unshare, Go, StepInv, Types
  <2>2. new[t]["fs"] = None /\ new[t]["files"] = None
    BY <2>1, Zenon DEF StepInv, Copies, Execing
  <2> QED
    BY <2>1, <2>2, PlainStep, Zenon DEF Labels, Copying, Unsharing
<1>4. ASSUME NEW t \in Tasks, unshare_fs(t) PROVE StepInv' /\ CountsExact'
  <2>1. pc[t] = "unshare_fs" /\ UNCHANGED <<flags, child, ref, got, group>> /\ DOMAIN flags' = Tasks
    BY <1>4, Zenon DEF unshare_fs, StepInv, Types
  <2>2. new[t]["fs"] = None /\ new[t]["files"] = None
    BY <2>1, Zenon DEF StepInv, Copies, Execing
  <2>3. CASE TakeCopy(t, "fs") /\ Go(t, "unshare_fd")
    BY <2>1, <2>3, TakeCopyStep, Zenon DEF Kinds, Labels, Unsharing
  <2>4. CASE (Go(t, "cleanup") \/ Go(t, "unshare_fd")) /\ UNCHANGED <<users, new>>
    BY <2>1, <2>2, <2>4, PlainStep, Zenon DEF Labels, Copying, Unsharing
  <2> QED
    BY <1>4, <2>3, <2>4, Zenon DEF unshare_fs
<1>5. ASSUME NEW t \in Tasks, unshare_fd(t) PROVE StepInv' /\ CountsExact'
  <2>1. pc[t] = "unshare_fd" /\ UNCHANGED <<flags, child, ref, got, group>> /\ DOMAIN flags' = Tasks
    BY <1>5, Zenon DEF unshare_fd, StepInv, Types
  <2>2. new[t]["files"] = None
    BY <2>1, Zenon DEF StepInv, Copies, Execing
  <2>3. CASE TakeCopy(t, "files") /\ Go(t, "namespaces")
    BY <2>1, <2>3, TakeCopyStep, Zenon DEF Kinds, Labels, Unsharing
  <2>4. CASE (Go(t, "cleanup") \/ Go(t, "namespaces")) /\ UNCHANGED <<users, new>>
    BY <2>1, <2>2, <2>4, PlainStep, Zenon DEF Labels, Copying, Unsharing
  <2> QED
    BY <1>5, <2>3, <2>4, Zenon DEF unshare_fd
<1>6. ASSUME NEW t \in Tasks, Namespaces(t) PROVE StepInv' /\ CountsExact'
  <2>1. /\ pc[t] = "namespaces" /\ UNCHANGED <<flags, child, ref, got, users, new, group>> /\ DOMAIN flags' = Tasks
        /\ Go(t, "commit") \/ Go(t, "cleanup")
    BY <1>6, Zenon DEF Namespaces, StepInv, Types
  <2> QED
    BY <2>1, PlainStep, Zenon DEF Labels, Copying, Unsharing
<1>7. ASSUME NEW t \in Tasks, unshare_files(t) PROVE StepInv' /\ CountsExact'
  <2>1. pc[t] = "user" /\ UNCHANGED <<flags, child, ref, got, group>> /\ DOMAIN flags' = Tasks
    BY <1>7, Zenon DEF unshare_files, StepInv, Types
  <2>2. new[t]["fs"] = None /\ new[t]["files"] = None
    BY <2>1, Zenon DEF StepInv, Copies, Execing
  <2>3. CASE TakeCopy(t, "files") /\ Go(t, "swap")
    BY <2>1, <2>3, TakeCopyStep, Zenon DEF Kinds, Labels
  <2>4. CASE (Go(t, "exec") \/ UNCHANGED pc) /\ UNCHANGED <<users, new>>
    <3>1. Go(t, "exec") \/ Go(t, "user")
      BY <2>1, <2>4, Zenon DEF Go, StepInv, Types
    <3> QED
      BY <2>1, <2>2, <2>4, <3>1, PlainStep, Zenon DEF Labels, Copying
  <2> QED
    BY <1>7, <2>3, <2>4, Zenon DEF unshare_files
<1>8. ASSUME NEW t \in Tasks, check_unsafe_exec(t) PROVE StepInv' /\ CountsExact'
  <2>1. /\ pc[t] = "exec" /\ UNCHANGED <<flags, child, ref, got, users, new, group>> /\ DOMAIN flags' = Tasks
        /\ Go(t, "execing") \/ Go(t, "execing_alone")
    BY <1>8, Zenon DEF check_unsafe_exec, StepInv, Types
  <2>2. new[t]["fs"] = None
    BY <2>1, Zenon DEF StepInv, Copies
  <2> QED
    BY <2>1, <2>2, PlainStep, Zenon DEF Labels, Copying, Execing
<1>9. CASE UNCHANGED vars
  <2>1. StepInv'
    BY <1>9 DEF vars, StepInv, Types, OwnChild, Holding, Making, Copies
  <2> QED
    BY <1>9, <2>1, CountSame, Zenon DEF vars
<1> QED
  BY <1>1, <1>2, <1>3, <1>4, <1>5, <1>6, <1>7, <1>8, <1>9, SignalStep, UndoStep, CommitStep, CleanupStep,
     SwapStep, ExecEndsStep, ExitStep, Zenon DEF Next

\* The count of every fs_struct, files_struct and sighand_struct is at all times
\* the number of its users, however copy_process, ksys_unshare, execve and exit
\* interleave and at whichever step they fail: CountsExact holds always, for
\* every number of tasks and objects.
THEOREM CountsStayExact == Spec => []CountsExact
<1>1. Init => CountInv
  BY InitStepInv, InitCounts, Zenon DEF CountInv
<1>2. CountInv => CountsExact
  BY Zenon DEF CountInv
<1> QED
  BY <1>1, <1>2, StepCountInv, PTL DEF Spec

-----------------------------------------------------------------------------
(* The promises *)

(* How a task comes to an object: it had it, it is fresh, or its parent uses it. *)
Inherited(k, o) == \E t \in Tasks : pc[t] \in Copying /\ Claims(t, k, o) /\ (k = "fs" => o \notin in_exec)

\* What an assignment to one field of one task changes.
LEMMA OneField ==
  ASSUME NEW r \in [Tasks -> Refs], NEW t \in Tasks, NEW j \in Kinds, NEW v, NEW q,
         q = [r EXCEPT ![t][j] = v], NEW k \in Kinds
  PROVE  q[t][k] = IF k = j THEN v ELSE r[t][k]
  BY Zenon DEF Refs

\* A task that is not in the making has an fs_struct and a sighand_struct.
LEMMA TaskHas ==
  ASSUME StepInv, NEW t \in Tasks, pc[t] \notin {"none", "new"}
  PROVE  got[t] = Kinds /\ ref[t]["fs"] # None /\ ref[t]["sighand"] # None
  BY Zenon DEF StepInv, Holding

\* It is a user of whatever it points to.
LEMMA TaskUses ==
  ASSUME StepInv, NEW t \in Tasks, pc[t] \notin {"none", "new"}, NEW k \in Kinds, NEW o, o = ref[t][k], o # None
  PROVE  o \in Objects /\ got[t] = Kinds /\ t \in Users(k, o) /\ Claims(t, k, o)
<1>1. got[t] = Kinds
  BY TaskHas, Zenon
<1>2. ref[t][k] \in Objects \cup {None}
  BY DEF StepInv, Types, Refs
<1> QED
  BY <1>1, <1>2, Zenon DEF Users, Claims

\* Inside copy_process a child comes to what its parent uses, or to a fresh copy.
LEMMA CopyGain ==
  ASSUME StepInv, NEW t \in Tasks, copy_files(t) \/ copy_fs(t) \/ copy_sighand(t),
         NEW u \in Tasks, NEW k \in Kinds, NEW o \in Objects, Claims(u, k, o)'
  PROVE  Claims(u, k, o) \/ users[k][o] = 0 \/ Inherited(k, o)
<1>1. PICK c : c = child[t]
  BY Zenon
<1>2. Types /\ c \in Tasks /\ c # t /\ pc[t] \in Copying /\ got[t] = Kinds /\ new' = new
  BY <1>1, Zenon DEF StepInv, Types, Making, Holding, Copying, copy_files, copy_fs, copy_sighand
<1>3. CASE CopyFails(t)
  BY <1>2, <1>3, Zenon DEF CopyFails, Claims
<1>4. ASSUME NEW j \in Kinds, ShareIt(t, j), j = "fs" => ref[t]["fs"] \notin in_exec
      PROVE  Claims(u, k, o) \/ Inherited(k, o)
  <2>1. /\ got'[c] = got[c] \cup {j} /\ ref' = ref /\ \A v \in Tasks \ {c} : got'[v] = got[v]
    BY <1>1, <1>2, <1>4, Zenon DEF ShareIt, Types
  <2>2. CASE ~(u = c /\ k = j /\ j \notin got[c])
    BY <1>2, <2>1, <2>2, Zenon DEF Claims
  <2>3. CASE u = c /\ k = j /\ j \notin got[c]
    <3>1. ref[c][j] = ref[t][j]
      BY <1>1, <1>2, <2>3 DEF StepInv, Making
    <3>2. ref'[u][k] = o \/ new[u][k] = o
      BY <1>2, Zenon DEF Claims
    <3>3. Claims(u, k, o) \/ ref[t][k] = o
      BY <2>1, <2>3, <3>1, <3>2, Zenon DEF Claims
    <3>4. ref[t][k] = o => Claims(t, k, o)
      BY <1>2, Zenon DEF Claims
    <3> QED
      BY <1>2, <1>4, <2>3, <3>3, <3>4, Zenon DEF Inherited
  <2> QED
    BY <2>2, <2>3, Zenon
<1>5. ASSUME NEW j \in Kinds, CopyIt(t, j)
      PROVE  Claims(u, k, o) \/ users[k][o] = 0
  <2>1. /\ got'[c] = got[c] \cup {j} /\ \A v \in Tasks \ {c} : got'[v] = got[v] /\ ref'[v] = ref[v]
        /\ ref'[c][j] = Alloc(j) /\ \A i \in Kinds \ {j} : ref'[c][i] = ref[c][i]
    BY <1>1, <1>2, <1>5, Zenon DEF CopyIt, Types, Refs
  <2>2. users[j][Alloc(j)] = 0
    BY <1>5, AllocFree, Zenon DEF CopyIt
  <2> QED
    BY <1>2, <2>1, <2>2 DEF Claims
<1> QED
  BY <1>3, <1>4, <1>5, Zenon DEF copy_files, copy_fs, copy_sighand, Kinds

\* A copy that unshare or execve takes is fresh.
LEMMA FreshGain ==
  ASSUME StepInv, NEW t \in Tasks, NEW j \in Kinds, TakeCopy(t, j), UNCHANGED <<ref, got>>,
         NEW u \in Tasks, NEW k \in Kinds, NEW o \in Objects
  PROVE  /\ Claims(u, k, o)' => Claims(u, k, o) \/ users[k][o] = 0
         /\ new'[u][k] = o => new[u][k] = o \/ users[k][o] = 0
<1>1. /\ new'[t][j] = Alloc(j) /\ \A i \in Kinds \ {j} : new'[t][i] = new[t][i]
      /\ \A v \in Tasks \ {t} : new'[v] = new[v]
  BY Zenon DEF StepInv, Types, Refs, TakeCopy
<1>2. users[j][Alloc(j)] = 0
  BY AllocFree, Zenon DEF TakeCopy
<1> QED
  BY <1>1, <1>2, Zenon DEF Claims

\* The steps that move references between the fields of one task give it nothing.
LEMMA MoveGain ==
  ASSUME StepInv, NEW t \in Tasks,
         Commit(t) \/ Cleanup(t) \/ unshare_files_Swap(t) \/ ExecEnds(t) \/ do_exit(t),
         NEW u \in Tasks, NEW k \in Kinds, NEW o \in Objects
  PROVE  /\ Claims(u, k, o)' => Claims(u, k, o)
         /\ k = "fs" /\ new'[u][k] = o => new[u][k] = o
<1>1. Types /\ got[t] = Kinds /\ Copies(t)
  BY Zenon DEF StepInv, Holding, Commit, Cleanup, unshare_files_Swap, ExecEnds, do_exit
<1>2. \A v \in Tasks \ {t} : got'[v] = got[v] /\ ref'[v] = ref[v] /\ new'[v] = new[v]
  BY <1>1 DEF Types, Commit, Cleanup, unshare_files_Swap, ExecEnds, do_exit
<1>3. k \in got[t] /\ k \in Kinds /\ o # None
  BY <1>1, NoneIsNone, Zenon
<1>4. CASE u # t
  <2>1. got'[u] = got[u] /\ ref'[u] = ref[u] /\ new'[u] = new[u]
    BY <1>2, <1>4, Zenon
  <2> QED
    BY <2>1, Zenon DEF Claims
<1>5. CASE u = t /\ Commit(t)
  <2>1. /\ ref'[t][k] \in {ref[t][k], new[t][k]}
        /\ new'[t][k] \in {None, ref[t][k], new[t][k]}
        /\ k = "fs" => new'[t][k] = None
    BY <1>1, <1>5, Zenon DEF Commit, Types, Refs, Kinds
  <2> QED
    BY <1>3, <1>5, <2>1, Zenon DEF Claims
<1>6. CASE u = t /\ Cleanup(t)
  <2>1. ref' = ref /\ got' = got /\ new'[t][k] = None
    BY <1>1, <1>6, Zenon DEF Cleanup, Types, NoRefs
  <2> QED
    BY <1>3, <1>6, <2>1, Zenon DEF Claims
<1>7. CASE u = t /\ unshare_files_Swap(t)
  <2>1. /\ ref'[t][k] \in {ref[t][k], new[t][k]} /\ new'[t][k] \in {ref[t][k], new[t][k]}
        /\ k = "fs" => new'[t][k] = new[t][k]
    BY <1>1, <1>7, Zenon DEF unshare_files_Swap, Types, Refs, Kinds
  <2> QED
    BY <1>3, <1>7, <2>1, Zenon DEF Claims
<1>8. CASE u = t /\ ExecEnds(t)
  <2>1. ref'[t][k] \in {ref[t][k], new[t][k]} /\ new'[t][k] = None
    <3>1. /\ new' = [new EXCEPT ![t] = NoRefs]
          /\ ref' = ref \/ ref' = [ref EXCEPT ![t]["files"] = new[t]["files"]]
      BY <1>8, Zenon DEF ExecEnds
    <3>2. new'[t][k] = None
      BY <1>1, <3>1, Zenon DEF Types, NoRefs
    <3>3. ref \in [Tasks -> Refs] /\ "files" \in Kinds
      BY <1>1, Zenon DEF Types, Kinds
    <3>4. ref'[t][k] \in {ref[t][k], new[t][k]}
      <4>1. CASE ref' = ref
        BY <4>1, Zenon
      <4>2. CASE ref' = [ref EXCEPT ![t]["files"] = new[t]["files"]]
        <5>1. ref'[t][k] = IF k = "files" THEN new[t]["files"] ELSE ref[t][k]
          BY <3>3, <4>2, Zenon DEF Refs
        <5> QED
          BY <5>1, Zenon
      <4> QED
        BY <3>1, <4>1, <4>2, Zenon
    <3> QED
      BY <3>2, <3>4, Zenon
  <2> QED
    BY <1>3, <1>8, <2>1, Zenon DEF Claims
<1>9. CASE u = t /\ do_exit(t)
  <2>1. got'[t] = {} /\ new' = new
    BY <1>1, <1>9, Zenon DEF do_exit, Types
  <2> QED
    BY <1>9, <2>1, Zenon DEF Claims
<1> QED
  BY <1>4, <1>5, <1>6, <1>7, <1>8, <1>9, Zenon

\* Nobody comes to an object that is in use except from one who uses it, and a
\* copy of an fs_struct that is not used yet is fresh when it is taken.
LEMMA NoGain ==
  ASSUME StepInv, [Next]_vars, NEW u \in Tasks, NEW k \in Kinds, NEW o \in Objects
  PROVE  /\ Claims(u, k, o)' => Claims(u, k, o) \/ users[k][o] = 0 \/ Inherited(k, o)
         /\ k = "fs" /\ new'[u][k] = o => new[u][k] = o \/ users[k][o] = 0
<1>1. ASSUME UNCHANGED <<ref, got, new>>
      PROVE  (Claims(u, k, o)' => Claims(u, k, o)) /\ (new'[u][k] = o => new[u][k] = o)
  BY <1>1, Zenon DEF Claims
<1>2. ASSUME NEW t \in Tasks, NEW c \in Tasks, NEW f, clone(t, c, f)
      PROVE  (Claims(u, k, o)' => Claims(u, k, o)) /\ (new'[u][k] = o => new[u][k] = o)
  BY <1>2, Zenon DEF clone, Claims, StepInv, Types, Holding
<1>3. ASSUME NEW t \in Tasks, copy_files(t) \/ copy_fs(t) \/ copy_sighand(t)
      PROVE  /\ Claims(u, k, o)' => Claims(u, k, o) \/ users[k][o] = 0 \/ Inherited(k, o)
             /\ new'[u][k] = o => new[u][k] = o
  <2>1. new' = new
    BY <1>3, Zenon DEF copy_files, copy_fs, copy_sighand
  <2> QED
    BY <1>3, <2>1, CopyGain, Zenon
<1>4. ASSUME NEW t \in Tasks, Undo(t)
      PROVE  (Claims(u, k, o)' => Claims(u, k, o)) /\ (new'[u][k] = o => new[u][k] = o)
  <2>1. got'[child[t]] = {} /\ new' = new /\ \A v \in Tasks \ {child[t]} : got'[v] = got[v] /\ ref'[v] = ref[v]
    BY <1>4, Zenon DEF Undo, StepInv, Types
  <2> QED
    BY <2>1, Zenon DEF Claims
<1>5. ASSUME NEW t \in Tasks, unshare_fs(t) \/ unshare_fd(t) \/ unshare_files(t)
      PROVE  /\ Claims(u, k, o)' => Claims(u, k, o) \/ users[k][o] = 0
             /\ new'[u][k] = o => new[u][k] = o \/ users[k][o] = 0
  BY <1>1, <1>5, FreshGain, Zenon DEF unshare_fs, unshare_fd, unshare_files, Kinds
<1>6. ASSUME NEW t \in Tasks, \/ copy_signal(t) \/ Namespaces(t) \/ check_unsafe_exec(t)
                              \/ \E f \in Unshares : ksys_unshare(t, f)
      PROVE  UNCHANGED <<ref, got, new>>
  BY <1>6, Zenon DEF copy_signal, Namespaces, check_unsafe_exec, ksys_unshare
<1>7. CASE UNCHANGED vars
  BY <1>1, <1>7, Zenon DEF vars
<1> QED
  BY <1>1, <1>2, <1>3, <1>4, <1>5, <1>6, <1>7, MoveGain, Zenon DEF Next

\* What a task owns nobody takes, as long as it does not give it to a child.
LEMMA OwnsStays ==
  ASSUME CountInv, [Next]_vars, NEW t \in Tasks, NEW k \in Kinds, NEW o \in Objects,
         Owns(t, k, o), Claims(t, k, o), pc[t] \notin Copying
  PROVE  Owns(t, k, o)'
<1> SUFFICES ASSUME NEW u \in Tasks, Claims(u, k, o)' PROVE u = t
  BY Zenon DEF Owns
<1>1. Claims(u, k, o) \/ users[k][o] = 0 \/ Inherited(k, o)
  BY NoGain, Zenon DEF CountInv
<1>2. users[k][o] # 0
  BY UncountedUnclaimed, Zenon DEF CountInv, StepInv
<1>3. ~Inherited(k, o)
  BY Zenon DEF Inherited, Owns
<1> QED
  BY <1>1, <1>2, <1>3, Zenon DEF Owns

(* A step that is not t's leaves it where it is. *)
Stays(t) ==
  /\ pc'[t] = pc[t] /\ flags'[t] = flags[t] /\ ref'[t] = ref[t] /\ new'[t] = new[t] /\ group'[t] = group[t]
  /\ got'[t] = got[t]

(* The steps of t inside ksys_unshare. *)
UnshareStep(t) ==
  \/ \E f \in Unshares : ksys_unshare(t, f)
  \/ unshare_fs(t) \/ unshare_fd(t) \/ Namespaces(t) \/ Commit(t)

\* A task comes to a step of ksys_unshare or execve only by a step of its own.
LEMMA Moves ==
  ASSUME StepInv, [Next]_vars, NEW t \in Tasks, pc'[t] \in Unsharing \cup Execing
  PROVE  \/ Stays(t)
         \/ UnshareStep(t) /\ pc'[t] \in Unsharing
         \/ check_unsafe_exec(t)
<1> USE DEF StepInv, Types, Stays, Unsharing, Execing
<1>1. ASSUME NEW x \in Tasks, NEW c \in Tasks, NEW f, clone(x, c, f) PROVE Stays(t)
  BY <1>1, Zenon DEF clone
<1>2. ASSUME NEW x \in Tasks, copy_files(x) \/ copy_fs(x) \/ copy_sighand(x) PROVE Stays(t)
  <2>1. PICK c : c = child[x]
    BY Zenon
  <2>2. pc[c] = "new" /\ c \in Tasks /\ x # c
    BY <1>2, <2>1, Zenon DEF Making, Copying, copy_files, copy_fs, copy_sighand
  <2> HIDE DEF StepInv
  <2>3. /\ pc'[x] \notin Unsharing \cup Execing
        /\ \A u \in Tasks \ {x} : pc'[u] = pc[u]
        /\ flags' = flags /\ new' = new /\ group' = group
        /\ \A u \in Tasks \ {c} : ref'[u] = ref[u] /\ got'[u] = got[u]
    BY <1>2, <2>1, <2>2, Zenon DEF StepInv, copy_files, copy_fs, copy_sighand, ShareIt, CopyIt, CopyFails, Go
  <2> QED
    BY <2>2, <2>3, Zenon
<1>3. ASSUME NEW x \in Tasks, copy_signal(x) \/ Undo(x) PROVE Stays(t)
  <2>1. PICK c : c = child[x]
    BY Zenon
  <2>2. pc[c] = "new" /\ c \in Tasks /\ x # c
    BY <1>3, <2>1, Zenon DEF Making, Copying, copy_signal, Undo
  <2> HIDE DEF StepInv
  <2>3. /\ pc'[x] \notin Unsharing \cup Execing /\ pc'[c] \notin Unsharing \cup Execing
        /\ \A u \in Tasks \ {x, c} : pc'[u] = pc[u] /\ flags'[u] = flags[u] /\ group'[u] = group[u]
        /\ new' = new /\ \A u \in Tasks \ {c} : ref'[u] = ref[u] /\ got'[u] = got[u]
    BY <1>3, <2>1, <2>2 DEF StepInv, copy_signal, Undo, Go
  <2> QED
    BY <2>3, Zenon
<1>4. ASSUME NEW x \in Tasks, UnshareStep(x) PROVE Stays(t) \/ (x = t /\ pc'[t] \in Unsharing)
  <2> HIDE DEF StepInv, Types, Stays, Unsharing, Execing
  <2>1. Types
    BY Zenon DEF StepInv
  <2>2. CASE x # t
    <3>1. pc'[t] = pc[t] /\ new'[t] = new[t] /\ ref'[t] = ref[t]
      <4>1. CASE \E f \in Unshares : ksys_unshare(x, f)
        BY <2>1, <2>2, <4>1, Zenon DEF Types, ksys_unshare, Go
      <4>2. CASE unshare_fs(x)
        BY <2>1, <2>2, <4>2, Zenon DEF Types, unshare_fs, TakeCopy, Go
      <4>3. CASE unshare_fd(x)
        BY <2>1, <2>2, <4>3, Zenon DEF Types, unshare_fd, TakeCopy, Go
      <4>4. CASE Namespaces(x) \/ Commit(x)
        BY <2>1, <2>2, <4>4, Zenon DEF Types, Namespaces, Commit, Go
      <4> QED
        BY <1>4, <4>1, <4>2, <4>3, <4>4, Zenon DEF UnshareStep
    <3>2. flags'[t] = flags[t] /\ group' = group /\ got' = got
      <4>1. ASSUME NEW f, ksys_unshare(x, f) PROVE flags'[t] = flags[t] /\ group' = group /\ got' = got
        BY <2>1, <2>2, <4>1, Zenon DEF Types, ksys_unshare
      <4>2. CASE unshare_fs(x) \/ unshare_fd(x) \/ Namespaces(x) \/ Commit(x)
        BY <4>2, Zenon DEF unshare_fs, unshare_fd, Namespaces, Commit
      <4> QED
        BY <1>4, <4>1, <4>2, Zenon DEF UnshareStep
    <3> QED
      BY <3>1, <3>2, Zenon DEF Stays
  <2>3. CASE x = t
    <3>1. CASE \E f \in Unshares : ksys_unshare(x, f)
      <4>1. PICK f : ksys_unshare(x, f)
        BY <3>1, Zenon
      <4>2. pc'[t] = "unshare_fs" \/ UNCHANGED <<pc, flags>>
        BY <2>1, <2>3, <4>1, Zenon DEF Types, ksys_unshare, Go
      <4>3. UNCHANGED <<ref, new, group, got>>
        BY <4>1, Zenon DEF ksys_unshare
      <4> QED
        BY <2>3, <4>2, <4>3, Zenon DEF Stays, Unsharing
    <3>2. CASE unshare_fs(x) \/ unshare_fd(x) \/ Namespaces(x) \/ Commit(x)
      <4>1. pc'[t] \in {"unshare_fd", "namespaces", "commit", "unshared", "cleanup"}
        BY <2>1, <2>3, <3>2, Zenon DEF Types, unshare_fs, unshare_fd, Namespaces, Commit, Go
      <4> QED
        BY <2>3, <4>1, Zenon DEF Unsharing, Execing
    <3> QED
      BY <1>4, <3>1, <3>2, Zenon DEF UnshareStep
  <2> QED
    BY <2>2, <2>3, Zenon
<1>5. ASSUME NEW x \in Tasks, Cleanup(x) \/ unshare_files(x) \/ unshare_files_Swap(x) \/ ExecEnds(x) \/ do_exit(x)
      PROVE  Stays(t)
  BY <1>5 DEF Cleanup, unshare_files, unshare_files_Swap, ExecEnds, do_exit, TakeCopy, Go
<1>6. ASSUME NEW x \in Tasks, check_unsafe_exec(x) PROVE Stays(t) \/ x = t
  BY <1>6, Zenon DEF check_unsafe_exec, Go
<1>7. CASE UNCHANGED vars
  BY <1>7, Zenon DEF vars
<1> HIDE DEF StepInv, Types, Stays
<1> QED
  BY <1>1, <1>2, <1>3, <1>4, <1>5, <1>6, <1>7, Zenon DEF Next, UnshareStep

\* What t will use when the unshare ends is an object that t has a claim to.
LEMMA FutureClaimed ==
  ASSUME StepInv, NEW t \in Tasks, pc[t] \in Unsharing, NEW k \in Kinds, NEW o, o = Future(t, k), o # None
  PROVE  o \in Objects /\ Claims(t, k, o)
<1>1. got[t] = Kinds /\ ref[t][k] \in Objects \cup {None} /\ new[t][k] \in Objects \cup {None}
  BY DEF StepInv, Types, Refs, Holding, Unsharing
<1> QED
  BY <1>1, Zenon DEF Future, Claims

\* The fs_struct and the sighand_struct of a task inside ksys_unshare are objects.
LEMMA FutureThere ==
  ASSUME StepInv, NEW t \in Tasks, pc[t] \in Unsharing
  PROVE  /\ Future(t, "fs") # None /\ ref[t]["sighand"] # None
         /\ Future(t, "sighand") = ref[t]["sighand"]
         /\ pc[t] = "unshared" => Future(t, "fs") = ref[t]["fs"]
         /\ pc[t] = "unshare_fs" => Future(t, "fs") = ref[t]["fs"]
         /\ pc[t] \in {"unshare_fs", "unshare_fd"} => Future(t, "files") = ref[t]["files"]
  BY Zenon DEF StepInv, Holding, Copies, Future, Unsharing, Execing

\* Nobody else claims a fresh copy.
LEMMA FreshOwned ==
  ASSUME CountInv, NEW t \in Tasks, NEW k \in Kinds, TakeCopy(t, k), UNCHANGED <<ref, got>>,
         NEW o, o = Alloc(k)
  PROVE  o \in Objects /\ new'[t][k] = o /\ Owns(t, k, o)'
<1>1. Types /\ o \in Objects /\ users[k][o] = 0
  BY AllocFree, Zenon DEF CountInv, StepInv, TakeCopy
<1>2. new'[t][k] = o /\ \A u \in Tasks \ {t} : new'[u] = new[u]
  BY <1>1, Zenon DEF Types, Refs, TakeCopy
<1>3. \A u \in Tasks : ~Claims(u, k, o)
  BY <1>1, UncountedUnclaimed, Zenon DEF CountInv
<1> QED
  BY <1>1, <1>2, <1>3, Zenon DEF Owns, Claims

\* What t owns and will use when the unshare ends stays its own.
LEMMA FutureStays ==
  ASSUME CountInv, [Next]_vars, NEW t \in Tasks, pc[t] \in Unsharing, NEW k \in Kinds, NEW o,
         o = Future(t, k), o # None, Owns(t, k, o)
  PROVE  Owns(t, k, o)'
<1>1. o \in Objects /\ Claims(t, k, o) /\ pc[t] \notin Copying
  BY FutureClaimed, Zenon DEF CountInv, Unsharing, Copying
<1> QED
  BY <1>1, OwnsStays, Zenon

\* Between the steps of its own nothing is taken from a task inside ksys_unshare.
LEMMA PromiseStays ==
  ASSUME CountInv, [Next]_vars, NEW t \in Tasks, Promise(t), Stays(t)
  PROVE  Promise(t)'
<1>1. StepInv
  BY Zenon DEF CountInv
<1>2. ASSUME pc[t] \in Unsharing \ {"unshare_fs"}, "FS" \in flags[t] PROVE Owns(t, "fs", Future(t, "fs"))'
  <2>1. PICK o : o = Future(t, "fs")
    BY Zenon
  <2>2. o # None /\ Owns(t, "fs", o) /\ "fs" \in Kinds
    BY <1>1, <1>2, <2>1, FutureThere, Zenon DEF Promise, Kinds
  <2>3. Owns(t, "fs", o)'
    BY <1>2, <2>1, <2>2, FutureStays, Zenon
  <2> QED
    BY <2>1, <2>3, Zenon DEF Stays, Future
<1>3. ASSUME pc[t] \in {"namespaces", "commit"}, "FILES" \in flags[t], Future(t, "files") # None
      PROVE  Owns(t, "files", Future(t, "files"))'
  <2>1. PICK o : o = Future(t, "files")
    BY Zenon
  <2>2. o # None /\ Owns(t, "files", o) /\ "files" \in Kinds /\ pc[t] \in Unsharing
    BY <1>3, <2>1, Zenon DEF Promise, Kinds, Unsharing
  <2>3. Owns(t, "files", o)'
    BY <2>1, <2>2, FutureStays, Zenon
  <2> QED
    BY <2>1, <2>3, Zenon DEF Stays, Future
<1>4. ASSUME pc[t] = "unshared", "FILES" \in flags[t], ref[t]["files"] # None
      PROVE  Owns(t, "files", ref[t]["files"])'
  <2>1. PICK o : o = ref[t]["files"]
    BY Zenon
  <2>2. o \in Objects /\ Owns(t, "files", o) /\ Claims(t, "files", o) /\ "files" \in Kinds /\ pc[t] \notin Copying
    BY <1>1, <1>4, <2>1 DEF Promise, Kinds, StepInv, Types, Refs, Holding, Claims, Copying
  <2>3. Owns(t, "files", o)'
    BY <2>2, OwnsStays, Zenon
  <2> QED
    BY <2>1, <2>3, Zenon DEF Stays
<1>5. ASSUME pc[t] \in Unsharing, "SIGHAND" \in flags[t] PROVE Owns(t, "sighand", ref[t]["sighand"])'
  <2>1. PICK o : o = ref[t]["sighand"]
    BY Zenon
  <2>2. o = Future(t, "sighand") /\ o # None /\ Owns(t, "sighand", o) /\ "sighand" \in Kinds
    BY <1>1, <1>5, <2>1, FutureThere, Zenon DEF Promise, Kinds
  <2>3. Owns(t, "sighand", o)'
    BY <1>5, <2>2, FutureStays, Zenon
  <2> QED
    BY <2>1, <2>3, Zenon DEF Stays
<1>6. pc'[t] = pc[t] /\ flags'[t] = flags[t] /\ ref'[t] = ref[t] /\ Future(t, "files")' = Future(t, "files")
  BY Zenon DEF Stays, Future
<1> QED
  BY <1>2, <1>3, <1>4, <1>5, <1>6, Zenon DEF Promise

\* unshare_fs finds the fs to be the task's own or takes a copy.
LEMMA FsPromised ==
  ASSUME CountInv, NEW t \in Tasks, unshare_fs(t), pc'[t] = "unshare_fd", "FS" \in flags[t]
  PROVE  Owns(t, "fs", Future(t, "fs"))'
<1>1. /\ StepInv /\ Types /\ "fs" \in Kinds /\ pc[t] = "unshare_fs" /\ pc[t] \in Unsharing /\ UNCHANGED <<ref, got>>
  BY Zenon DEF CountInv, StepInv, Kinds, Unsharing, unshare_fs
<1>2. CASE TakeCopy(t, "fs")
  <2>1. PICK o : o = Alloc("fs")
    BY Zenon
  <2>2. o \in Objects /\ new'[t]["fs"] = o /\ Owns(t, "fs", o)'
    BY <1>1, <1>2, <2>1, FreshOwned, Zenon
  <2> QED
    BY <2>2, NoneIsNone, Zenon DEF Future
<1>3. CASE users["fs"][ref[t]["fs"]] = 1 /\ UNCHANGED new
  <2>1. PICK o : o = ref[t]["fs"]
    BY Zenon
  <2>2. o \in Objects /\ t \in Users("fs", o) /\ Future(t, "fs") = o
    <3>1. o # None /\ Future(t, "fs") = o
      BY <1>1, <2>1, FutureThere, Zenon
    <3>2. pc[t] \notin {"none", "new"}
      BY <1>1, Zenon
    <3> QED
      BY <1>1, <2>1, <3>1, <3>2, TaskUses, Zenon
  <2>3. Owns(t, "fs", o)
    <3>1. users["fs"][o] <= 1
      BY <1>3, <2>1
    <3> QED
      BY <1>1, <2>2, <3>1, CountedOnceOwned, Zenon DEF CountInv
  <2> QED
    BY <1>1, <1>3, <2>2, <2>3, Zenon DEF Owns, Claims, Future
<1>4. TakeCopy(t, "fs") \/ (users["fs"][ref[t]["fs"]] = 1 /\ UNCHANGED new)
  BY <1>1, Zenon DEF unshare_fs, Go, Types
<1> QED
  BY <1>2, <1>3, <1>4, Zenon

\* unshare_fd finds the files to be the task's own or takes a copy.
LEMMA FilesPromised ==
  ASSUME CountInv, NEW t \in Tasks, unshare_fd(t), pc'[t] = "namespaces", "FILES" \in flags[t],
         Future(t, "files")' # None
  PROVE  Owns(t, "files", Future(t, "files"))'
<1>1. /\ StepInv /\ Types /\ "files" \in Kinds /\ pc[t] = "unshare_fd" /\ pc[t] \in Unsharing /\ UNCHANGED <<ref, got>>
  BY Zenon DEF CountInv, StepInv, Kinds, Unsharing, unshare_fd
<1>2. CASE TakeCopy(t, "files")
  <2>1. PICK o : o = Alloc("files")
    BY Zenon
  <2>2. o \in Objects /\ new'[t]["files"] = o /\ Owns(t, "files", o)'
    BY <1>1, <1>2, <2>1, FreshOwned, Zenon
  <2> QED
    BY <2>2, NoneIsNone, Zenon DEF Future
<1>3. CASE ~SharesFiles(t) /\ UNCHANGED new
  <2>1. PICK o : o = ref[t]["files"]
    BY Zenon
  <2>2. Future(t, "files") = o /\ o # None
    BY <1>1, <1>3, <2>1, FutureThere, Zenon DEF Future
  <2>3. o \in Objects /\ t \in Users("files", o)
    <3>1. pc[t] \notin {"none", "new"}
      BY <1>1, Zenon
    <3> QED
      BY <1>1, <2>1, <2>2, <3>1, TaskUses, Zenon
  <2>4. users["files"][o] \in Int
    BY <1>1, <2>3, Zenon DEF Types
  <2>5. users["files"][o] <= 1
    BY <1>3, <2>1, <2>2, <2>4 DEF SharesFiles
  <2>6. Owns(t, "files", o)
    BY <1>1, <2>3, <2>5, CountedOnceOwned, Zenon DEF CountInv
  <2> QED
    BY <1>1, <1>3, <2>2, <2>6, Zenon DEF Owns, Claims, Future
<1>4. TakeCopy(t, "files") \/ (~SharesFiles(t) /\ UNCHANGED new)
  BY <1>1, Zenon DEF unshare_fd, Go, Types
<1> QED
  BY <1>2, <1>3, <1>4, Zenon

\* ksys_unshare lets nobody pass whose sighand another task uses.
LEMMA SighandPromised ==
  ASSUME CountInv, NEW t \in Tasks, NEW f, ksys_unshare(t, f), pc'[t] = "unshare_fs", "SIGHAND" \in flags'[t]
  PROVE  Owns(t, "sighand", ref[t]["sighand"])'
<1>1. StepInv /\ Types /\ "sighand" \in Kinds /\ pc[t] = "user" /\ UNCHANGED <<ref, got, new>>
  BY Zenon DEF CountInv, StepInv, Kinds, ksys_unshare
<1>2. check_unshare_flags(t, Implied(f)) /\ "SIGHAND" \in Implied(f)
  BY <1>1, Zenon DEF ksys_unshare, Types
<1>3. PICK o : o = ref[t]["sighand"]
  BY Zenon
<1>4. users["sighand"][o] <= 1
  BY <1>2, <1>3, Zenon DEF check_unshare_flags
<1>5. o \in Objects /\ t \in Users("sighand", o)
  <2>1. pc[t] \notin {"none", "new"}
    BY <1>1, Zenon
  <2>2. o # None
    BY <1>1, <1>3, <2>1, TaskHas, Zenon
  <2> QED
    BY <1>1, <1>3, <2>1, <2>2, TaskUses, Zenon
<1>6. Owns(t, "sighand", o)
  BY <1>1, <1>4, <1>5, CountedOnceOwned, Zenon DEF CountInv
<1> QED
  BY <1>1, <1>3, <1>6, Zenon DEF Owns, Claims

\* The steps of ksys_unshare make the promises and keep them.
LEMMA PromiseUnshare ==
  ASSUME CountInv, [Next]_vars, NEW t \in Tasks, Promise(t), UnshareStep(t), pc'[t] \in Unsharing
  PROVE  Promise(t)'
<1>1. StepInv /\ Types
  BY Zenon DEF CountInv, StepInv
<1>2. ASSUME NEW f, ksys_unshare(t, f) PROVE Promise(t)'
  <2>1. pc'[t] = "unshare_fs"
    BY <1>1, <1>2, Zenon DEF ksys_unshare, Types, Go, Unsharing
  <2> QED
    BY <1>2, <2>1, SighandPromised, Zenon DEF Promise, Unsharing
<1> DEFINE Later == unshare_fs(t) \/ unshare_fd(t) \/ Namespaces(t) \/ Commit(t)
<1>3. ASSUME Later PROVE pc[t] \in Unsharing /\ flags' = flags /\ ref'[t]["sighand"] = ref[t]["sighand"]
  <2>1. pc[t] \in Unsharing /\ flags' = flags
    BY <1>3, Zenon DEF unshare_fs, unshare_fd, Namespaces, Commit, Unsharing
  <2>2. CASE Commit(t)
    <3>1. ref'[t]["sighand"] = ref[t]["sighand"]
      BY <1>1, <2>2, Zenon DEF Types, Refs, Kinds, Commit
    <3> QED
      BY <2>1, <3>1, Zenon
  <2>3. CASE unshare_fs(t) \/ unshare_fd(t) \/ Namespaces(t)
    BY <2>1, <2>3, Zenon DEF unshare_fs, unshare_fd, Namespaces
  <2> QED
    BY <1>3, <2>2, <2>3, Zenon
<1>4. ASSUME Later, "SIGHAND" \in flags[t] PROVE Owns(t, "sighand", ref[t]["sighand"])'
  <2>1. PICK o : o = ref[t]["sighand"]
    BY Zenon
  <2>2. o = Future(t, "sighand") /\ o # None /\ Owns(t, "sighand", o) /\ "sighand" \in Kinds
    BY <1>1, <1>3, <1>4, <2>1, FutureThere, Zenon DEF Promise, Kinds
  <2>3. Owns(t, "sighand", o)'
    BY <1>3, <1>4, <2>2, FutureStays, Zenon
  <2> QED
    BY <1>3, <1>4, <2>1, <2>3, Zenon
<1>5. ASSUME unshare_fd(t) \/ Namespaces(t) \/ Commit(t), "FS" \in flags[t]
      PROVE  Owns(t, "fs", Future(t, "fs"))'
  <2>1. PICK o : o = Future(t, "fs")
    BY Zenon
  <2>2. Future(t, "fs")' = o
    <3>1. CASE unshare_fd(t)
      <4>1. ref' = ref /\ (new' = new \/ new' = [new EXCEPT ![t]["files"] = Alloc("files")])
        BY <3>1, Zenon DEF unshare_fd, TakeCopy
      <4>2. new \in [Tasks -> Refs] /\ "files" \in Kinds /\ "fs" \in Kinds
        BY <1>1, Zenon DEF Types, Kinds
      <4>3. new'[t]["fs"] = new[t]["fs"]
        BY <4>1, <4>2, OneField
      <4> QED
        BY <2>1, <4>1, <4>3, Zenon DEF Future
    <3>2. CASE Namespaces(t)
      BY <2>1, <3>2, Zenon DEF Future, Namespaces
    <3>3. CASE Commit(t)
      BY <1>1, <2>1, <3>3, Zenon DEF Future, Types, Refs, Kinds, Commit
    <3> QED
      BY <1>5, <3>1, <3>2, <3>3, Zenon
  <2>3. pc[t] \in Unsharing /\ pc[t] # "unshare_fs"
    BY <1>5, Zenon DEF unshare_fd, Namespaces, Commit, Unsharing
  <2>4. o # None /\ Owns(t, "fs", o) /\ "fs" \in Kinds
    BY <1>1, <1>5, <2>1, <2>3, FutureThere, Zenon DEF Promise, Kinds
  <2>5. Owns(t, "fs", o)'
    BY <2>1, <2>3, <2>4, FutureStays, Zenon
  <2> QED
    BY <2>2, <2>5, Zenon
<1>6. ASSUME Namespaces(t) \/ Commit(t), "FILES" \in flags[t], NEW o, o = Future(t, "files"), o # None
      PROVE  Owns(t, "files", o)'
  <2>1. pc[t] \in {"namespaces", "commit"} /\ pc[t] \in Unsharing /\ "files" \in Kinds
    BY <1>6, Zenon DEF Namespaces, Commit, Unsharing, Kinds
  <2>2. Owns(t, "files", o)
    BY <1>6, <2>1, Zenon DEF Promise
  <2> QED
    BY <1>6, <2>1, <2>2, FutureStays, Zenon
<1>7. CASE unshare_fs(t)
  <2>1. pc'[t] = "unshare_fd" /\ flags' = flags
    BY <1>1, <1>7, Zenon DEF unshare_fs, Types, Go, Unsharing
  <2> QED
    BY <1>4, <1>7, <2>1, FsPromised, Zenon DEF Promise
<1>8. CASE unshare_fd(t)
  <2>1. pc'[t] = "namespaces" /\ flags' = flags
    BY <1>1, <1>8, Zenon DEF unshare_fd, Types, Go, Unsharing
  <2> QED
    BY <1>4, <1>5, <1>8, <2>1, FilesPromised, Zenon DEF Promise
<1>9. CASE Namespaces(t)
  <2>1. pc'[t] = "commit" /\ flags' = flags /\ Future(t, "files")' = Future(t, "files")
    BY <1>1, <1>9, Zenon DEF Namespaces, Types, Go, Unsharing, Future
  <2> QED
    BY <1>4, <1>5, <1>6, <1>9, <2>1, Zenon DEF Promise
<1>10. CASE Commit(t)
  <2>1. pc'[t] = "unshared" /\ flags' = flags /\ ref'[t]["files"] = Future(t, "files")
    BY <1>1, <1>10, Zenon DEF Commit, Types, Refs, Kinds, Go, Future
  <2> QED
    BY <1>4, <1>5, <1>6, <1>10, <2>1, Zenon DEF Promise
<1> QED
  BY <1>2, <1>7, <1>8, <1>9, <1>10, Zenon DEF UnshareStep

\* check_unsafe_exec counts: when the count is not larger than the number of
\* threads of the group that use the fs, nobody else uses or keeps it.
LEMMA ExecCounts ==
  ASSUME CountInv, NEW t \in Tasks, check_unsafe_exec(t), pc'[t] = "execing_alone"
  PROVE  ExecAlone(t)'
<1>1. StepInv /\ Types /\ "fs" \in Kinds /\ pc[t] = "exec" /\ UNCHANGED <<ref, got, new, group>>
  BY Zenon DEF CountInv, StepInv, Kinds, check_unsafe_exec
<1>2. PICK o : o = ref[t]["fs"]
  BY Zenon
<1>3. o \in Objects
  <2>1. pc[t] \notin {"none", "new"}
    BY <1>1, Zenon
  <2>2. o # None
    BY <1>1, <1>2, <2>1, TaskHas, Zenon
  <2> QED
    BY <1>1, <1>2, <2>1, <2>2, TaskUses, Zenon
<1> DEFINE S == {u \in Threads(t) : ref[u]["fs"] = o}
           U == Users("fs", o)
           K == Keeping("fs", o)
<1>4. ~(users["fs"][o] > Cardinality(S)) /\ o \in in_exec'
  BY <1>1, <1>2, Zenon DEF check_unsafe_exec, Go, Types
<1>5. S \subseteq U
  BY <1>1, Zenon DEF Threads, StepInv, Holding, Users
<1>6. IsFiniteSet(U) /\ IsFiniteSet(K)
  BY ShareAssumption, FS_Subset, Zenon DEF Users, Keeping
<1>7. /\ IsFiniteSet(S) /\ Cardinality(S) <= Cardinality(U) /\ (Cardinality(S) = Cardinality(U) => S = U)
  BY <1>5, <1>6, FS_Subset, Zenon
<1>8. Cardinality(S) \in Nat /\ Cardinality(U) \in Nat /\ Cardinality(K) \in Nat
  BY <1>6, <1>7, FS_CardinalityType, Zenon
<1>9. users["fs"][o] = Cardinality(U) + Cardinality(K)
  BY <1>1, <1>3, Zenon DEF CountInv, CountsExact
<1>10. Cardinality(S) = Cardinality(U) /\ Cardinality(K) = 0
  <2> HIDE DEF S, U, K
  <2> QED
    BY <1>4, <1>7, <1>8, <1>9
<1>11. S = U /\ K = {}
  BY <1>6, <1>7, <1>10, FS_EmptySet, Zenon
<1>12. \A u \in Tasks : Claims(u, "fs", o) => group[u] = group[t] /\ new[u]["fs"] # o
  BY <1>11, Zenon DEF Claims, Users, Keeping, Threads
<1> QED
  BY <1>1, <1>2, <1>4, <1>12, Zenon DEF ExecAlone, Claims

\* The group of a task that goes on using an fs_struct stays what it is.
LEMMA GroupStays ==
  ASSUME StepInv, [Next]_vars, NEW u \in Tasks, NEW o \in Objects, Claims(u, "fs", o), Claims(u, "fs", o)'
  PROVE  group'[u] = group[u]
<1>1. Types /\ o # None /\ "fs" \in Kinds
  BY NoneIsNone, Zenon DEF StepInv, Kinds
<1>2. ASSUME NEW t \in Tasks, NEW c \in Tasks, NEW f, clone(t, c, f) PROVE group'[u] = group[u]
  <2>1. u # c
    BY <1>1, <1>2, Zenon DEF clone, StepInv, Holding, Copies, Claims, Execing
  <2> QED
    BY <1>1, <1>2, <2>1, Zenon DEF clone, Types
<1>3. ASSUME NEW t \in Tasks, Undo(t) PROVE group'[u] = group[u]
  <2>1. PICK c : c = child[t]
    BY Zenon
  <2>2. c \in Tasks /\ pc[c] = "new" /\ got'[c] = {} /\ new' = new
    BY <1>1, <1>3, <2>1, Zenon DEF Undo, StepInv, Types, Making, Copying
  <2>3. new[c]["fs"] = None
    BY <2>2, Zenon DEF StepInv, Copies
  <2>4. u # c
    BY <1>1, <2>2, <2>3, Zenon DEF Claims
  <2> QED
    BY <1>1, <1>3, <2>1, <2>4, Zenon DEF Undo, Types
<1>4. ASSUME NEW t \in Tasks, do_exit(t) PROVE group'[u] = group[u]
  <2>1. got'[t] = {} /\ new' = new /\ new[t]["fs"] = None
    BY <1>1, <1>4, Zenon DEF do_exit, Types, StepInv, Copies
  <2>2. u # t
    BY <1>1, <2>1, Zenon DEF Claims
  <2> QED
    BY <1>1, <1>4, <2>2, Zenon DEF do_exit, Types
<1>5. ASSUME NEW t \in Tasks,
             \/ copy_files(t) \/ copy_fs(t) \/ copy_sighand(t) \/ copy_signal(t)
             \/ UnshareStep(t) \/ Cleanup(t)
             \/ unshare_files(t) \/ unshare_files_Swap(t) \/ check_unsafe_exec(t) \/ ExecEnds(t)
      PROVE  group' = group
  BY <1>5, Zenon DEF copy_files, copy_fs, copy_sighand, copy_signal, UnshareStep, ksys_unshare, unshare_fs, unshare_fd,
              Namespaces, Commit, Cleanup, unshare_files, unshare_files_Swap, check_unsafe_exec, ExecEnds
<1>6. CASE UNCHANGED vars
  BY <1>6, Zenon DEF vars
<1> QED
  BY <1>2, <1>3, <1>4, <1>5, <1>6, Zenon DEF Next, UnshareStep

\* A step that clears in_exec of an fs_struct is the end of an execve on it.
LEMMA ClearsInExec ==
  ASSUME [Next]_vars, NEW o, o \in in_exec, o \notin in_exec'
  PROVE  \E x \in Tasks : ExecEnds(x) /\ ref[x]["fs"] = o
<1>1. ASSUME NEW t \in Tasks,
             \/ \E c \in Tasks, f \in Clones : clone(t, c, f)
             \/ copy_files(t) \/ copy_fs(t) \/ copy_sighand(t) \/ copy_signal(t) \/ Undo(t)
             \/ UnshareStep(t) \/ Cleanup(t) \/ unshare_files(t) \/ unshare_files_Swap(t) \/ do_exit(t)
      PROVE  in_exec' = in_exec
  BY <1>1, Zenon DEF clone, copy_files, copy_fs, copy_sighand, copy_signal, Undo, UnshareStep, ksys_unshare, unshare_fs,
              unshare_fd, Namespaces, Commit, Cleanup, unshare_files, unshare_files_Swap, do_exit
<1>2. ASSUME NEW t \in Tasks, check_unsafe_exec(t) PROVE in_exec \subseteq in_exec'
  BY <1>2, Zenon DEF check_unsafe_exec
<1>3. ASSUME NEW t \in Tasks, ExecEnds(t) PROVE ref[t]["fs"] = o
  BY <1>3, Zenon DEF ExecEnds
<1>4. ~UNCHANGED vars
  BY Zenon DEF vars
<1> QED
  BY <1>1, <1>2, <1>3, <1>4, Zenon DEF Next, UnshareStep

\* While the execve goes on, in_exec keeps every other group away from the fs.
LEMMA ExecStays ==
  ASSUME CountInv, PromiseInv, [Next]_vars, NEW t \in Tasks, Stays(t)
  PROVE  ExecAlone(t)'
<1> SUFFICES ASSUME pc[t] = "execing_alone" PROVE ExecAlone(t)'
  BY Zenon DEF ExecAlone, Stays
<1>1. StepInv /\ Types /\ "fs" \in Kinds
  BY Zenon DEF CountInv, StepInv, Kinds
<1>2. PICK o : o = ref[t]["fs"]
  BY Zenon
<1>3. o \in Objects /\ Claims(t, "fs", o) /\ o \in in_exec
  <2>1. o \in Objects /\ got[t] = Kinds
    <3>1. pc[t] \notin {"none", "new"}
      BY Zenon
    <3>2. o # None
      BY <1>1, <1>2, <3>1, TaskHas, Zenon
    <3> QED
      BY <1>1, <1>2, <3>1, <3>2, TaskUses, Zenon
  <2>2. Claims(t, "fs", o)
    BY <1>1, <1>2, <2>1, Zenon DEF Claims
  <2>3. o \in in_exec
    BY <1>2, Zenon DEF PromiseInv, ExecAlone
  <2> QED
    BY <2>1, <2>2, <2>3, Zenon
<1>4. \A u \in Tasks : Claims(u, "fs", o) => group[u] = group[t] /\ new[u]["fs"] # o
  BY <1>2, Zenon DEF PromiseInv, ExecAlone
<1>5. o \in in_exec'
  <2> SUFFICES ASSUME o \notin in_exec' PROVE FALSE
    BY Zenon
  <2>1. PICK x \in Tasks : ExecEnds(x) /\ ref[x]["fs"] = o
    BY <1>3, ClearsInExec, Zenon
  <2>2. pc[x] \in Execing /\ Claims(x, "fs", o) /\ pc'[x] = "user"
    BY <1>1, <2>1, Zenon DEF ExecEnds, Execing, Go, Types, StepInv, Holding, Claims
  <2>3. x = t
    BY <1>4, <2>2, Zenon DEF PromiseInv, OneExec, Execing
  <2> QED
    BY <2>2, <2>3, Zenon DEF Stays
<1>6. users["fs"][o] # 0
  BY <1>1, <1>3, UncountedUnclaimed, Zenon DEF CountInv
<1>7. ASSUME NEW u \in Tasks, Claims(u, "fs", o)' PROVE group'[u] = group'[t] /\ new'[u]["fs"] # o
  <2>1. Claims(u, "fs", o)
    BY <1>1, <1>3, <1>6, <1>7, NoGain, Zenon DEF Inherited
  <2>2. group'[u] = group[u]
    BY <1>1, <1>3, <1>7, <2>1, GroupStays, Zenon
  <2>3. new'[u]["fs"] # o
    BY <1>1, <1>3, <1>4, <1>6, <2>1, NoGain, Zenon
  <2> QED
    BY <1>4, <2>1, <2>2, <2>3, Zenon DEF Stays
<1> QED
  BY <1>2, <1>5, <1>7, Zenon DEF ExecAlone, Stays

\* One thread of a group at a time is in execve.
LEMMA OneExecStays ==
  ASSUME StepInv, OneExec, [Next]_vars
  PROVE  OneExec'
<1> SUFFICES ASSUME NEW t \in Tasks, NEW u \in Tasks, pc'[t] \in Execing, pc'[u] \in Execing, group'[t] = group'[u], t # u
             PROVE  FALSE
  BY Zenon DEF OneExec
<1>1. ASSUME NEW x \in Tasks, NEW y \in Tasks, x # y, check_unsafe_exec(x), pc'[y] \in Execing
      PROVE  group'[x] # group'[y]
  <2>1. pc[y] \in Execing /\ group' = group
    BY <1>1, Zenon DEF check_unsafe_exec, Go, StepInv, Types
  <2>2. y \notin Threads(x)
    BY <1>1, <2>1, Zenon DEF check_unsafe_exec, Execing
  <2> QED
    BY <2>1, <2>2, Zenon DEF Threads, Execing
<1>2. ~check_unsafe_exec(t) /\ ~check_unsafe_exec(u)
  BY <1>1, Zenon
<1>3. Stays(t) /\ Stays(u)
  BY <1>2, Moves, Zenon DEF Unsharing, Execing
<1> QED
  BY <1>3, Zenon DEF OneExec, Stays

\* Every step keeps the promises.
LEMMA StepPromiseInv ==
  ASSUME CountInv, PromiseInv, [Next]_vars
  PROVE  PromiseInv'
<1>1. OneExec'
  BY OneExecStays, Zenon DEF CountInv, PromiseInv
<1>2. ASSUME NEW t \in Tasks PROVE Promise(t)' /\ ExecAlone(t)'
  <2>1. Promise(t) /\ StepInv
    BY Zenon DEF CountInv, PromiseInv
  <2>2. CASE Stays(t)
    BY <2>1, <2>2, PromiseStays, ExecStays, Zenon
  <2>3. CASE pc'[t] \notin Unsharing \cup Execing
    BY <2>3, Zenon DEF Promise, ExecAlone, Unsharing, Execing
  <2>4. CASE UnshareStep(t) /\ pc'[t] \in Unsharing
    <3>1. Promise(t)'
      BY <2>1, <2>4, PromiseUnshare, Zenon
    <3>2. ExecAlone(t)'
      BY <2>4, Zenon DEF ExecAlone, Unsharing
    <3> QED
      BY <3>1, <3>2, Zenon
  <2>5. CASE check_unsafe_exec(t)
    <3>1. pc'[t] \in Execing
      BY <2>1, <2>5, Zenon DEF check_unsafe_exec, Go, StepInv, Types, Execing
    <3>2. Promise(t)'
      BY <3>1, Zenon DEF Promise, Unsharing, Execing
    <3>3. ExecAlone(t)'
      BY <2>5, ExecCounts, Zenon DEF ExecAlone
    <3> QED
      BY <3>2, <3>3, Zenon
  <2> QED
    BY <2>1, <2>2, <2>3, <2>4, <2>5, Moves, Zenon
<1> QED
  BY <1>1, <1>2, Zenon DEF PromiseInv

\* Nothing is promised at the start.
LEMMA InitPromiseInv == Init => PromiseInv
<1> SUFFICES ASSUME Init PROVE PromiseInv
  BY Zenon
<1>1. \A t \in Tasks : pc[t] \in {"user", "none"}
  BY DEF Init
<1> QED
  BY <1>1, Zenon DEF PromiseInv, OneExec, Promise, ExecAlone, Unsharing, Execing

\* Who owns an object that it uses is its only user.
LEMMA OnlyUser ==
  ASSUME StepInv, NEW t \in Tasks, pc[t] = "unshared", NEW k \in Kinds, NEW o, o = ref[t][k], Owns(t, k, o)
  PROVE  Users(k, o) = {t}
<1>1. t \in Users(k, o)
  BY Zenon DEF StepInv, Holding, Users
<1> QED
  BY <1>1, Zenon DEF Owns, Claims, Users

\* For any number of tasks and any interleaving of clone, unshare, execve and exit,
\* with counts that are read without a lock: when ksys_unshare succeeds nobody else
\* uses the fs, files or sighand it was asked to unshare, and while an execve goes
\* on that check_unsafe_exec found alone on its fs, no other group gets at the fs.
THEOREM PromisesKept == Spec => []PrivateWhenPromised
<1>1. Init => CountInv /\ PromiseInv
  BY InitStepInv, InitCounts, InitPromiseInv, Zenon DEF CountInv
<1>2. CountInv /\ PromiseInv /\ [Next]_vars => (CountInv /\ PromiseInv)'
  BY StepCountInv, StepPromiseInv, Zenon
<1>3. CountInv /\ PromiseInv => PrivateWhenPromised
  <2> SUFFICES ASSUME StepInv, PromiseInv, NEW t \in Tasks
               PROVE  /\ pc[t] = "unshared" =>
                           /\ "FS" \in flags[t] => Users("fs", ref[t]["fs"]) = {t}
                           /\ "FILES" \in flags[t] /\ ref[t]["files"] # None => Users("files", ref[t]["files"]) = {t}
                           /\ "SIGHAND" \in flags[t] => Users("sighand", ref[t]["sighand"]) = {t}
                      /\ pc[t] = "execing_alone" =>
                           \A u \in Users("fs", ref[t]["fs"]) : group[u] = group[t]
    BY Zenon DEF CountInv, PrivateWhenPromised
  <2>1. Promise(t) /\ ExecAlone(t)
    BY Zenon DEF PromiseInv
  <2>2. ASSUME pc[t] = "unshared", "FS" \in flags[t] PROVE Users("fs", ref[t]["fs"]) = {t}
    <3>1. Future(t, "fs") = ref[t]["fs"]
      BY <2>2, FutureThere, Zenon DEF Unsharing
    <3> QED
      BY <2>1, <2>2, <3>1, OnlyUser, Zenon DEF Promise, Unsharing, Kinds
  <2>3. ASSUME pc[t] = "unshared", "FILES" \in flags[t], ref[t]["files"] # None
        PROVE  Users("files", ref[t]["files"]) = {t}
    BY <2>1, <2>3, OnlyUser, Zenon DEF Promise, Kinds
  <2>4. ASSUME pc[t] = "unshared", "SIGHAND" \in flags[t] PROVE Users("sighand", ref[t]["sighand"]) = {t}
    BY <2>1, <2>4, OnlyUser, Zenon DEF Promise, Unsharing, Kinds
  <2>5. ASSUME pc[t] = "execing_alone", NEW u \in Users("fs", ref[t]["fs"]) PROVE group[u] = group[t]
    BY <2>1, <2>5, Zenon DEF ExecAlone, Users, Claims
  <2> QED
    BY <2>2, <2>3, <2>4, <2>5, Zenon
<1> QED
  BY <1>1, <1>2, <1>3, PTL DEF Spec
=============================================================================
