# School_OS: models, checks and proofs

This directory is the verification development of the School_OS repository: the
solutions to ten operating-systems assignments, each a small C program, a
loadable Linux kernel module, or a changed file of the Linux kernel.

TLA+ modules model the programs, TLC checks them on small instances, and TLAPS
proves central safety properties of eight of them, and one refinement, for
every size.
`PROJECT.json` lists the components, the runs, which lines of the source every
definition stands for, the hazards and the theorems.

## 1. The system and its parts

| Part | Source | What is hard |
| --- | --- | --- |
| FAT file system | `Assignment5-2/fat.c` | chains must stay disjoint and loop-free; full tables; partial writes; parsing what was printed; a crash while saving |
| CPU scheduler simulator | `Assignment3-3/cpu_scheduler.c` | ties, idle gaps, arrival at the end of a time slice, context-switch accounting |
| Page replacement simulator | `Assignment4-2/page_replacement_simulator.c` | OPT must be optimal, LRU must follow recency |
| Sums by processes and by threads | `Assignment3-2/fork.c`, `thread.c`, `numgen.c` | one pipe for each process, 8-bit exit status, failing fork; reading children only after the joins |
| System call hooking | `Assignment2-1` to `2-3`, `3-1`, `4-1` | modules hook the same entry; loads and unloads in any order; calls in flight |
| I/O tracer | `Assignment2-3/ftracehooking.c`, `iotracehooking.c` | counters shared by all processes, start and end while calls are in flight |
| Process information in /proc | `Assignment5-1/proc_info.c` | two variables shared by all readers; a buffer that grows |
| Fork counter and process tracer | `Assignment3-1/fork.c`, `Process_tracer.c` | a task is visible before its counter is set; lists walked without a lock |
| Memory area listing | `Assignment4-1/file_varea.c` | areas of another process walked without a lock |
| Process creation in the kernel | `Assignment3-1/fork.c` | some twenty steps that may fail, unlocked caches and counts, asynchronous release, tasks that exit or are killed meanwhile |

The hooking modules rewrite the same entries of one system call table;
`ftracehooking.c` and `iotracehooking.c` share the counters of a trace; the
process tracer reads the field that `_do_fork` writes.  The other programs share
nothing.

## 2. Modules

| Module | Models | Kind |
| --- | --- | --- |
| `FileSystem` | what the FAT commands promise: named texts, atomic commands | abstract specification |
| `Fat` | the five commands of `fat.c` on entries, FAT and blocks | component |
| `FatRefinement` | the refinement mapping from `Fat` to `FileSystem` | composition |
| `FatStore` | `save_file_system`, `load_file_system`, the host files, crashes; extends `Fat` | composition |
| `WorkConserving` | what every scheduler promises | abstract specification |
| `CpuScheduler`, `PageReplacement` | the two simulators | components |
| `ForkSum`, `ThreadSum` | the two sums | components |
| `SyscallTable` | all hooking modules on one table, with processes that call | composition |
| `IoTrace` | `my_ftrace` and the five hooked calls | composition |
| `ProcInfo` | `my_open`, `my_read`, `my_write` | component |
| `ProcessTracer` | the end of a fork, `process_tracer`, `walk_process_tree` | composition |
| `FileVarea` | `file_varea` | component |
| `CopyProcess` | `copy_process`: steps, labels, limits, delayed signals | component |
| `StackCache` | kernel stacks: cache, charging, release | component |
| `Vfork` | `wait_for_vfork_done`, `mm_release`, `complete_vfork_done` | component |
| `MmLife` | `mm_users`, `mm_count`, executable, asynchronous release | component |
| `DupMmap` | `dup_mm`, `dup_mmap` | component |
| `Sharing` | `copy_fs`, `copy_files`, `copy_sighand`, `ksys_unshare`, `unshare_files` | component |
| `FatProofs`, `CpuSchedulerProofs`, `SyscallTableProofs`, `ProcInfoProofs`, `CopyProcessProofs`, `StackCacheProofs`, `VforkProofs`, `SharingProofs` | theorems and proofs | proofs |
| `MCFat`, `MCFatStore`, `MCCopyProcess`, `MCStackCache`, `MCSharing`, `MCScheduler`, `MCPageReplacement`, `MCForkSum`, `MCSyscallTable`, `MCIoTrace`, `MCProcInfo` | values of the constants, reference definitions | instances |
| `MCPrograms`, `MCHooking`, `MCReports`, `MCMemory` | components side by side (section 3) | instances |

Operators whose comment begins with *Faulty variant* are plausible bugs.  No
specification uses them; `PROJECT.json` pairs each with the property that it
breaks, which shows that the property depends on the code.

### Fat

`File_entries`, `FAT` and `Disk` are the arrays of the code; `pc`, `file`,
`block` and `content` are the locals of the running command and `reply` is what
it has printed.  A block is the sequence of characters before its terminating
zero.  `create_file`, `write_file`, `read_file`, `delete_file` and `list_files`
are the parts of the functions up to their loops; `SeekLast`, `FillBlock`,
`ReadBlock` and `DeleteBlock` are one iteration of the loops, so that a chain
with a loop would be a behaviour that does not end.  One run of the program is
load, one command, save; `Reload` states what survives from one run to the
next: all but the fields of unused entries, which come back as any member of
`Stale`.  That is a claim about the two functions that `FatStore` checks.

`FatRefinement` maps this to `FileSystem`.  A command takes effect when it has
found its file, so the mapping completes what the loops still have to do: the
text that will fit, the text still to be printed, the file being deleted gone.

### FatStore

`host` holds the three host files as sequences of tokens, `printed` what the
saving process has written to each, `image` the tables that were last being
saved.  `save_file_system` opens (and truncates) the files one after the other,
prints and closes; `Crash` may strike at any of these steps and leave any prefix
of what was printed.  `load_file_system` parses what it finds, with the rules of
`fscanf`: `%s` skips blanks and stops at one, so an entry with an empty name
makes the words that follow shift by one.

### CpuScheduler

One step is one iteration of a simulation loop, one millisecond.  `gantt` is the
printed chart; the properties compare everything that is reported with it.  The
queue of RR keeps everything ever pushed, as the array of the code does.
`prev_run` starts with any value that it could hold uninitialised: an index, or
none.

### PageReplacement

One step is one reference.  The queue of the code is a sequence; the scans of
OPT and CLOCK are stated as what they find.  `delete_idx` is a variable, as it is
in the code: a scan that finds no future use leaves it as it was.  `faults` collects what the four
algorithms print for the same string.

### ForkSum and ThreadSum

In `ForkSum` every process has its place in the program, its level in the loop
of forks, its sum and its own copy of the stream buffer; `Wait` and `Exit` are
the kernel's rules for zombies and 8-bit statuses.  `fork` may fail
(`MaxFailures`), which the code takes for the parent's branch.  main closes the
write ends of the pipes before it forks, so a read never waits: at an empty pipe
it returns and leaves the numbers that the process inherited (`Numbers`).  In `ThreadSum`
main's loops and the statements of `thread_func` interleave; `Stored` is the
8-byte store of `pthread_join` into the two ints of `struct nums`.

### SyscallTable and IoTrace

`hooking_init` and `hooking_exit` of each module are sequences of accesses: set
the protection of the page, save an entry, replace it, restore it.  Each access
is a step, so modules overlap each other and the calls of processes.  A call
carries the stack of functions it is inside; unloading turns every pointer to
the module into `GONE`, and a write to a read-only page is a fault.  `orderly`
remembers whether modules were loaded and unloaded one at a time and last in,
first out: the discipline the modules need and do not check.  `caught` are the
processes that were inside a module when it went, and `covered` says that a module
was loaded on top of `os_ftracehooking`, which relies on the page staying writable.

In `IoTrace` the counters are set to 0 one after the other, `cur_pid` is set
after them, and an increment is a load and a store.  `clean` is the set of kinds
of calls of which nothing else was on its way into the counters when the trace
started, and `made` what the traced process did since, of these kinds.

### ProcInfo, FileVarea and ProcessTracer

`ProcInfo` keeps the locals of each `my_read`; a piece of the report is a kind
and a length.  A state that the chain of tests does not know leaves `buf` as it
was.  `my_read` reads `cur_proc` twice, to test it and to look it up (`my_read_Start`,
`my_read_Look`), the second time as an int; the lookup finds threads too, and if
it finds nothing the report is on all processes.  `my_write` overwrites the last
character and parses as `kstrtol` does; the texts written fit its array.  `FileVarea` and `ProcessTracer` let the observed
process change between any two steps of a walk.  An entry removed by
`list_del_init` points to itself, which `NextEntry` says; an area that was freed
is followed to anywhere, and a new one is on the list before its own `vm_next` is
set (`Map`, `Link`).  `stray` marks a call that points to what is gone, moved or
not ready; the properties name these cases and are about all others.
`walk_process_tree` holds `tasklist_lock`, so nothing
changes the tree under it (`TasklistLock`).

### Process creation

`CopyProcess` lists the steps of `copy_process` with what each takes and the
label it goes to when it fails, and the labels with what each gives back; any
step may fail, signals arrive at any time, blocked or not, and several threads are
inside at once.  The limit on processes is that of an ordinary user; the exemption of the
super-user is left out.  In `StackCache` each slot is looked at in a step of its
own, on whatever CPU the task is then.  `Vfork` reads `vfork_done` once without
and once with the lock, as the code does; `word` is the user's word that
`clear_child_tid` points to, and `dumped` the core dump that leaves it alone.  `MmLife` splits `__mmput` so that
readers of the executable come in between.  `DupMmap` copies one area per round
and may fail at each call.  `Sharing` counts the users of each object and lets
other tasks clone, unshare, exec and exit between the unlocked reads and the
commit; the id of a thread group is not given out again while the group has a
thread.

## 3. Runs

Components that share no variable are checked *side by side*: an `MC` module
extends one and instantiates the others, a variable (`program`, `scene`,
`report`, `part`) chosen in the initial state says which of them moves, and the
others stay in one initial state.  The states of such a run are the states of its
parts one after the other, and a property of a part means what it means alone.

| Run | Instance | What it shows | Distinct states |
| --- | --- | --- | --- |
| `fat` | 2 entries, 3 blocks of 2 bytes, 3 names | blocks partitioned among files, commands end; the invariant of the proofs; `Fat` implements `FileSystem` | 167,453 |
| `fat_store` | 3 entries, 2 blocks of 2 bytes, one crash or failing `fopen` | without a fault, saving and loading implement `Reload`; with one, no file is revived, renamed or moved | 511,042 |
| `programs` | up to 3 processes, slices 0 to 2; strings of up to 6 references to 4 pages, 1 to 3 frames; 8 processes, up to 2 failing forks; 6 leaves, 11 threads | reported times, order, optimality of SRTF, work conservation, termination; OPT is optimal, all agree with their definitions; no number is lost but by failing forks and statuses; subtree sums, ownership of arguments, all threads end | 594,056 |
| `hooking` | 5 modules, 2 callers; 2 processes, 3 traced calls | chains of hooks intact, only calls inside a module when it goes reach what is gone, only `os_ftracehooking` faults; the page is protected again; a trace counts exactly the calls of its process | 1,796,614 |
| `reports` | 2 readers, 2 processes and a buffer that must grow; up to 4 tasks; 3 areas | no overflow, every reader is served; fork counts, relatives that are listed, complete walks; areas that are listed | 240,341 |
| `copy_process` | 2 threads, 4 kinds of request, 2 signals, one of which is blocked, up to 3 calls | labels give back what was taken; signals reach the child; limits exceeded by one at most for each other caller | 440,639 |
| `stack_cache` | 3 tasks, 4 stacks of 2 pages, 2 CPUs with 2 slots | one owner; charges match | 17,444 |
| `sharing` | 3 tasks | counts exact; what is promised private is private | about 390,000 |
| `memory` | 1 parent and child; 3 tasks, 2 observers, 1 kernel thread; lists of up to 3 areas of 6 kinds | no dangling completion, the parent is suspended and resumes; nothing used after release, all released in the end; the copy is all or nothing | 50,788 |

**Bounds.**  Three blocks and two files are the least with which a chain can
have a middle block, two chains can compete for the free blocks and entries and
blocks can run out independently; contents are empty or go over
the end of a block, and full disks cut them anywhere.  `fat_store` has three entries
so that a file can come after two unused ones, the case in which the words of
`fscanf` shift twice.  `MaxFaults` is 1, and `Sound` stops the exploration when
the file system that a crash left is damaged: its chains can be loops and its
texts and sizes grow without bound.  Three processes make ties, preemption and a
queue longer than one; the arrivals leave an idle gap; `MaxTime` is above the
longest schedule (`SchedulerEnds` would fail otherwise).  Six references to four
pages in up to three frames let CLOCK go round and OPT choose twice.  The inputs
of the sums are the numbers of `numgen.c` and, because small trees stay below
256, larger numbers for `ForkSum`; negative numbers for `ThreadSum`, whose upper
halves are not 0.  In `hooking`, `Explored` ends the exploration at the first step
that is not orderly, where `ChainsIntact` promises nothing, unless only
`os_ftracehooking`, `ftracehooking` and one caller are about: `ProtectedAgain` is
checked for them in any order.  Where `os_ftracehooking` takes part at all, there
is one caller; `Symmetry` exchanges callers.  In `copy_process` a third call
is left out unless no signal is pending and only processes are being made; three
calls are what exceeding a limit by more than one would take; and a blocked signal
comes with one call at most.  In `reports`, `Explored` keeps
`process_tracer` and `walk_process_tree` apart, for the walk changes
nothing that the tracer reads.  `MaxCalls`,
`MaxOpens`, `MaxFails`, `MaxForks` and `MaxChanges` bound how often something
happens; each is large enough for two operations to overlap, and the first two
and `MaxForks` for another one after them.  Four tasks are a parent, a thread of
it, a child and a grandchild; a reaped task is not used again.  Three tasks, four
stacks and two slots fill a cache and empty it.  Parents and children of vfork
meet in pairs only.  `sharing` identifies states that differ only in the names of
objects (`View`) or tasks (`Symmetry`); which of them is met first varies, and
the number of states with it.

**Deadlock** is checked except where the bound on calls ends a behaviour
(`copy_process`).  `Finished` is the end of the simulators and `Ended` that of the
sums, `Vfork` and `MmLife`, so that a deadlock there is somebody who waits for ever.

**Fairness** is assumed of the part that moves.  `Fat`: `WF(Step)`, a process in a
command is not suspended for ever; users need not start commands.
`CpuScheduler`: `WF(Next)`, the loop runs.  `ThreadSum`: weak fairness of main and
of every thread, the kernel's scheduler.
`Vfork`: weak fairness of parent and child, which includes that the child calls
exec or exits some day: a child that does neither suspends its parent for ever by
design; nobody has to be killed.  `MmLife`: workers and tasks in the kernel go on,
and every user leaves the memory some day; strong fairness for a task that clears
its `mm`, since readers take its lock again and again.

**Disagreements.**  Three runs find their property violated: the code does not do
what a comment of it says.  `PROJECT.json` quotes the lines under `findings`.

| Run | What happens |
| --- | --- |
| `fork_status` | an exit status has 8 bits: the printed value is not the sum (64 for `numgen.c`, where `thread.c` prints 8256) |
| `syscall_order` | modules unloaded in the order of loading leave an entry into a module that is gone |
| `trace_bytes` | a read or write that fails adds its negative error number to the bytes that the trace reports |

**Limits of the properties.**  The models contain more that a reader of a
property should know of; each is the reason for a hypothesis in it.

- `ImplementsFat` is about names without blanks: `%s` ends at a blank, and a name
  with one does not come back.  After a crash while saving, `SurvivorsSound` does
  not say that blocks of no file are marked free: all three files are truncated
  before one is written.
- `ReportedTimes` allows RR one context switch less: `prev_run` is read before it
  is written.
- `ChainsIntact` is about modules unloaded last in, first out; `syscall_order`
  shows what happens otherwise.  Even so a call that is inside a module when it is
  unloaded returns into code that is gone, and `os_ftracehooking` faults when it is
  unloaded after another module was loaded on top of it.  The property says that
  nothing else goes wrong.
- `TraceExact` is about the kinds of calls that are `clean`: an increment under way
  survives the reset of its counter, and a call that began in one trace is counted
  in another.  That spoils the counters of its own kind for one trace and no
  others.  What the bytes count is the results of the calls, errors included
  (`trace_bytes`), and counting goes on after `os_ftrace(0)`, which leaves
  `cur_pid`.
- `ReadersServed` allows what the shared `is_processed` causes: a report that comes
  again after another program's open, and an empty file after another program's
  report.  A state that the chain of tests does not name repeats the piece before.
- `ForkCountExact` states the window inside `_do_fork` too: a new task is visible
  with its parent's count until the line that counts, and `process_tracer` may
  print that.
- `RelativesListed` and `StayingListed` hold although the lists change under the
  walks, but not when the entry the walk stands on is removed, the list is moved
  away from the walk, or what it follows is not ready: neither walk takes the lock
  that would prevent it.  A task without `mm` is a fault.

## 4. Proofs

### fat.c

`FatProofs` proves, for every number of entries, blocks and bytes per block, all
names and all contents, from `SizesAssumption` (the sizes are positive) and
`InputsAssumption` (newline and space are different characters, unused entries
are unused):

| Theorem | Property |
| --- | --- |
| `Invariance` | `IInv` is an invariant of `Spec` |
| `TypeCorrect` | `TypeOK` |
| `UniqueNames` | `NamesUnique` |
| `Partition` | `BlocksPartitioned`: every block is free or in the chain of exactly one file |
| `LoopFree` | `NoLoop` |
| `BlocksFilled` | `OnlyLastHasRoom` |
| `OwnBlocks` | `CursorInChain` |

`BlocksPartitioned` is about chains, sets that are defined by closure, and is
not inductive: nothing in it forbids two cells with the same successor in a
loop of blocks that no file reaches.  `IInv` replaces it with facts about single
cells: the first blocks of files are allocated, distinct and nobody's successor;
successors are allocated and distinct; every allocated block is a first block or
a successor; every set of blocks has one whose predecessor is outside (`NoRing`)
and one whose successor is outside (`NoLoop`).  Each is preserved by changing
one cell at a time, one lemma per action (`CreateIInv`, `FollowIInv`,
`DeleteIInv`, `FillIInv`, `ReloadIInv`).  While `delete_file` is at work, `Root`
is the first block that it has not yet freed, which makes the invariant hold
between its iterations too.

`Partition` then follows without induction over chains.  A chain is the least
closed set with the first block; `ChainClosed` shows that it is closed.
`ChainsDisjoint`: what is in the first of two chains and not in the second has
the first one's first block, and is closed, because a successor that is in the
second chain has its only predecessor there too; so it is the whole first chain.
`AllocatedInChain`:
of the allocated blocks in no chain one has no predecessor among them, so it
would be the first block of a file or the successor of a block in a chain, and
in that chain.

### cpu_scheduler.c

`CpuSchedulerProofs` proves `SchedulersWorkConserving`: for every input file,
every time slice (0 included) and every bound on the time, `CpuScheduler` with any
of its four algorithms implements `WorkConserving` (`ImplementsWorkConserving`).
It assumes what `InputAssumption` says: arrivals and slices are natural numbers
and bursts are positive.  `Init` gives the processes of the input file different ids.

The refinement mapping gives each process what `remain` says and takes the
length of the chart for the clock.  `SchedInv` is what the steps need: the marks
`end` are those of the processes with nothing left, except for the one that ran
last, which is marked in the next iteration; `fin_cnt` counts the marks; the
chart is as long as the simulation until all are marked; and, for RR, the queue
from `head` on holds each process that waits exactly once (`Holds`).  The last is
why RR is never idle while somebody waits, and why it never runs anybody who has
ended.  `PushedHolds` shows it of the arrivals of a millisecond and of a process
whose slice has expired, `Sorted` that the insertion sort of FCFS loses no process
and doubles none; both rest on `Ranks`: in a finite total order every rank is taken
exactly once.  `StepRR` and `StepOthers` reduce an iteration to one process that
runs or none.  The first is a step of `WorkConserving` (`RunsWC`), the second too
(`IdlesWC`) unless it only marks the last process; that iteration, the sort and the
calculation at the end are stuttering steps (`Stutters`).

### The kernel modules

| Theorem | Property | For every | Invariant |
| --- | --- | --- | --- |
| `PageProtectedAgain` | `ProtectedAgain` | set of the modules, set of callers, order and overlap (`ModulesAssumption`) | `PageInv`: what is left of every `hooking_init` and `hooking_exit` ends with `make_ro`, except the `hooking_init` of `os_ftracehooking`; whoever opened the page still has that access before it |
| `BufferLargeEnough` | `NoOverflow` | set of readers, tasks, and lengths within `ProcAssumption` (titles and one row fit the first buffer) | `ReadInv`: with all processes every piece is shorter than the first buffer, so one doubling is enough; with one process, what is left to write fits |
| `EveryReaderServed` | `ReadersServed` | the same | `ServedInv`: while `is_processed` is 0 a reader has had no more reports than opens of others, and if it is not 0 somebody has had one; what is written and what is left to write are together the report on what was looked up |

### fork.c

| Theorem | Property | For every | Invariant |
| --- | --- | --- | --- |
| `LimitsExceededLittle` | `LimitsNearlyKept` | finite set of callers within the limits, and all requests (`ForkAssumption`) | `LimitInv`: callers between a check and its counter are counted already |
| `SignalsNotLost` | `SignalsReachChild` | the same, and all sets of signals | `SignalInv`: a caller that is still to look for signals, or has looked, is on the list `multiprocess`, and its `delayed` has what was sent |
| `LadderAlwaysExact` | `LadderExact` | the same | `HoldInv`: before each step a caller holds exactly what the label to which that step fails, and those after it, give back; the user's count is that of the tasks and of the callers that hold it |
| `StacksOwned` | `OneOwner` | finite set of tasks, number of stacks, CPUs, slots and pages (`StackAssumption`) | `StackInv`: also, a task holds a stack exactly at the steps that use or release one |
| `StacksAccounted` | `Accounted` | the same | `AccountInv`, beside `StackInv`: a release has a stack to uncharge |
| `VforkAlwaysSafe` | `VforkSafe` | set of pairs | `VforkInv`: references are counted; the child points to the completion only while the parent waits on it and it is not done; each side holds the lock exactly in its critical section |
| `ParentStaysSuspended` | `ParentSuspended` | the same | `SuspendInv`: a parent gets past the wait killed or with the completion done, and once it is done the child is out of the memory and does not come back, and has cleared its word if others use the memory and it dumped no core |
| `CountsStayExact` | `CountsExact` | finite set of tasks, set of objects that is not empty, and sets of flags in which `THREAD` comes with `SIGHAND` (`ShareAssumption`) | `CountInv`: also, which references and copies a task has at each step (`StepInv`), and no two parents are making the same child |
| `PromisesKept` | `PrivateWhenPromised` | the same | `PromiseInv`, beside `CountInv`: from the moment a count of one was read, or a copy made, nobody else refers to the object or keeps it; who executes alone has `in_exec` set, and its group has no other exec |

Each is a lemma per group of actions, on top of a lemma that a step about one
task, pair or reader leaves the others alone.  `StepFacts` first proves
which steps of `copy_process` check a limit and which one counts, for every
request; `RungGives` and the lemmas after it do the same for the labels.  In
`SharingProofs`, `CountMoves` reduces the exactness of all counts to one task: a
count changes by what the one task that moved has taken or dropped.
`PromisesKept` needs the counts: an unlocked read of 1 proves that nobody else
has the object only because the counts are exact, and a task gets at an object in
use only from one that uses it, so what is private stays private until the owner
gives it away.

The assumptions are those of the code: sets of tasks are finite because
`max_threads` is; `Objects # {}` says that the first task has a `files_struct` and
so on; `copy_process` refuses `CLONE_THREAD` without `CLONE_SIGHAND`.

### Only model-checked

- Liveness (`CommandsEnd`, `SchedulerEnds`, `ThreadEnds`, `VforkEnds`,
  `EventuallyFreed`): it needs fairness and `ENABLED`.
- What a recursive definition computes for every input: `ImplementsFileSystem` and
  `ImplementsFat` (texts put together along chains, parsers), `ReportedTimes` and
  the other results of the simulators (sums and optima over a whole chart or
  string), the sums of `ForkSum` and `ThreadSum`, the counts of a trace.  They need
  induction over data.
- `ChainsIntact`, whose invariant is about the order of a stack of modules at every
  point of every overlap; crashes (`SurvivorsSound`); `MmLife`, `DupMmap`,
  `FileVarea` and `ProcessTracer`.  Nothing in principle prevents a proof of these.

## 5. Not modelled

- In `fork.c`: the entry points (`fork`, `clone`, `clone3`, ...), which fill in
  and check one record; set-up at boot and the sizing of `max_threads`, whose
  result is a constant of `CopyProcess`; slab constructors; `check_mm`; fields of
  `task_struct` that are only initialised; namespaces and credentials, which are
  steps that may fail; the variants without `CONFIG_VMAP_STACK`.
- `sched.h` declares types; the one field the assignment adds is in
  `ProcessTracer`.  `test.c` makes one system call, and `Process_tracer.mod.c` is
  generated.
- `ProcInfo` keeps the list of processes fixed during a read, and copies to and
  from user memory succeed.  The file name that `ftrace_openat` copies, addresses
  and the text of messages are left out.
- Two runs of `fat.c` at the same time on the same host files.
- Formatting and parsing of command lines, clocks, and averages as floating point
  (their sums are modelled).
- Inputs that the programs do not expect are excluded by the named assumptions: a
  burst of 0, no page frames, too few numbers in `temp.txt`.
