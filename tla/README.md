# TLA+ models of L1VM

L1VM is a virtual machine with its own assembler, compiler and tools. This
directory holds TLA+ modules translated from its sources, the TLC instances
that check them, and proofs that TLAPS checks. Paths are relative to the
repository root.

## 1. The system: inventory

| Component | Sources | State it keeps | Operations | Hard behaviour | What makes it correct |
|---|---|---|---|---|---|
| POSIX threads of the standard VM | `vm/main.c` | `threaddata[]` (status, stacks, exit request), `data_mutex`, `global_mutex[]`, `retcode`, the code and data blocks | INTR1 0-7, 15-17, 255, INTR0 255, fatal exits, `main()` | a start in three critical sections, polling join, cleanup without the children, errors that leave state behind | one thread per core and per stack, join waits for everybody and returns, nothing used after free |
| L1VMS scheduler | `vm/main-scheduler.c` | `cpu[]` of each POSIX thread: status, registers, `ep`, countdown | INTR1 18-23, `task_scheduler`, `SCHEXE_NEXT` | preemption after every instruction, stop and exit of a vcpu while others run | round robin order, no lost or repeated instruction, no starvation |
| Interpreter | `vm/main.c`, `vm/main-scheduler.c` | registers, `ep`, `jumpoffs[]`, jump stack, stack pointer | the opcodes | limits of the jump stack and the stack, lengths of instructions written down in several places | execution stays on instructions, calls return where they came from |
| Typed stack | `include/stack.h`, `vm/main.c` | bytes between `sp_bottom` and `sp_top`, a type tag per element | push and pop of byte, int64, double | boundary arithmetic, mixed types | last in first out with types, inside the bounds |
| Module table | `vm/main.c`, `vm/main-scheduler.c` | `modules[]`: used, handle, functions | load, set function, call, free | a load that fails half way, functions that outlive their module | a call reaches a function of a loaded module |
| Local data | `vm/main.c` | `threaddata[].data`, `.local_data[]`, `local_data_ind`, `data` | INTR1 8-14 | reuse by a later thread, nesting | accesses go to a live block, no block is lost |
| Object loader | `vm/load-object.c` | code, data, `data_info[]` | `load_object` | truncated or malformed objects | sizes agree with what was read |
| Bounds table | `lib-func/memory_bounds.c` | `data_info[]` | `memory_bounds` | off by one at the end of a variable | an access stays in its variable |
| Message module | `vm/modules/message/message.c` | message slots, `msg_lock` | init, set, get, search, delete, free | handles reserved in one critical section and filled in another, failures in between | a message is delivered once, its string is freed once |
| Vector database | `vm/modules/vector-db/src`, `vm/modules/vecdb` | records and a map from ids to slots under an rwlock, the file and `<path>.tmp`; the text index: a hash table of terms with postings, references of each slot, totals | open, put, get, delete, flush, compact, close; `text_index_add`, `text_index_remove`, search | saves that are interrupted, pointers used after the unlock, tombstones, a table that grows under references | the path always holds a whole file, what was saved is what is loaded, a search finds the texts that are there |
| Memory modules | `vm/modules/mem`, `vm/modules/mem-obj` | tables of blocks | alloc, free, get, set | handles chosen without a lock | a handle belongs to one owner |
| File and network modules | `vm/modules/file`, `vm/modules/net`, `mqtt`, `process` | tables of handles | open, read, write, close | the same, plus the outside world | a handle belongs to one owner |
| Other modules | `vm/modules/*` | small or none | wrappers of libraries | - | out of scope, mostly library calls |
| Compiler | `comp/*.c` | `regi[]`, `save_regi[]`, `call_set`; `if_comp[]`, `while_comp[]`, `for_comp[]`, `switch_comp[]` | the statements of a function body | what a register holds where paths meet, pops emitted long after their pushes, nested blocks that share a table | what is emitted does what the source says, registers hold what they are taken for, calls leave the stack as it was |
| Assembler | `assemb/main.c` | labels, code, data | two passes | forward references, tables and code memory that fill up | every reference resolves to its label, no line is lost |
| Preprocessor, optimizer, linter, formatter, disassembler, LSP, LLM client | `prepro`, `optimizer`, `linter`, `linter-autogen`, `formatter`, `disasm`, `l1vm-lsp`, `brackets-llm` | text buffers | text in, text out | parsing | out of scope for model checking |
| Bytecode library, scripts, packaging | `l1vm`, `install`, `container`, `scripts`, ... | none | - | - | not VM code |

Bytecode threads meet in `threaddata[]`, in the data block and in the mutexes;
they call modules through `call_module_func` on the same stack; `main()` owns
the memory of all of them; the loader gives `main()` the code and data blocks;
in L1VMS one POSIX thread multiplexes up to 16 vcpus.

## 2. Plan

Each modelled component has a module, a TLC instance and proofs, and, where what
it promises is simpler than what it does, an abstract specification:

| Component | Module | Abstract specification | Proofs |
|---|---|---|---|
| POSIX threads of the VM | `VmThreads` | `CoreTable` | `VmThreads_proofs` |
| L1VMS scheduler | `VCpuScheduler` | `VCpus` | `VCpuScheduler_proofs` |
| Typed stack and its copy at a thread start | `ThreadStacks` | `PrivateStacks` | `ThreadStacks_proofs` |
| Message module | `MessageQueue` | `Mailbox` | `MessageQueue_proofs` |
| Assembler, loader and control flow | `ObjectCode` | `SourceProgram` | `ObjectCode_proofs` |
| Vector database: records, file and lock | `VecDb` | `RecordStore` | `VecDb_proofs` |
| Vector database: text index | `TextIndex` | the texts themselves (history variable) | `TextIndex_proofs` |
| Compiler: registers, blocks and calls | `Compiler` | `Blocks` | `Compiler_proofs` |

The `MC...` modules instantiate them. Planned, in this order:

1. `LocalData` (INTR1 8-14, with cores used again by later threads) and
   `ModuleTable` (load, set function, call, free, `-M`), which share the threads
   of `VmThreads`.
2. `HandleTable`: the search for a free handle without a lock, as `mem`,
   `mem-obj`, `file` and `net` do it, with the owner of a handle as abstract
   specification.
3. `Bounds`: the table of variables, from the data lines of the assembler
   through the loader to `memory_bounds`, which `ObjectCode` leaves out.
4. `VmsThreads`: the start protocol of L1VMS, where the core is marked in the
   critical section that finds it.

Theorems worth proving next: unique owners in `HandleTable`. Every safety
property that a run finds to hold is a theorem, the refinement of `VCpus` for
the programs that section 4 names.

## 3. VmThreads: the threads of `vm/main.c`

A thread is an element of `Threads`, the identities `pthread_create` hands out;
`pc[t]` says where it is inside `run()`: `boot` is the prologue, `run` is
between two instructions of bytecode, the others are inside INTR1 0 (`fill`,
`create`, `mark`), INTR1 1 (`join`), INTR1 15 (`load`) or an exit. Each
critical section of `data_mutex` in the C code is one action, enabled when the
mutex is free; everything outside a critical section is a step of its own.
`vm` is the program counter of `main()`.

What the bytecode does is a parameter: `Program[c]` is the set of operations a
thread on core `c` may execute, in any order and any number of times, and
`Discipline` the promises it keeps: `joins` (a thread that started others joins
before it ends), `waits` (a child does not end before its starter has marked
its core), `unlocks` (nobody starts, joins or ends while it
holds a mutex, or unlocks one it does not hold), `asks` (a start follows an
INTR1 5 that counted a free core). A property that holds names the promises it
needs by the run that checks it.

Abstractions: a stack is a number, in units of `stack_size`, counted from the
stack of core 0; contents of registers, data and stacks are left out except for
the results of INTR1 5 and 17; `retcode` records the core that wrote it last.
`joined` and `asked` are history variables. `pthread_mutex_unlock` by a thread
that is not the owner releases the mutex, as glibc's default mutex does.

`CoreTable` is the abstract specification: cores used by at most one thread,
join returns to a thread that is alone, memory ends after the last thread.
`ImplementsCoreTable` maps a core's users to the threads between their creation
and the step that stops the core.

| Run | Question | Bytecode and bounds |
|---|---|---|
| `vmt_safety` | Are cores and stacks exclusive, is join sound, do exit requests reach whom they are made to, is no mutex left behind? | one starting thread that joins, children that use `data_mutex` and a global mutex, end or die of an error, refused threads and objects; joins, unlocks; 3 cores, 3 identities, 1 global mutex |
| `vmt_live` | Is nothing used after it was freed, is the exit code that of main, does join return, does the process end or reload, is `CoreTable` implemented? Deadlock is checked | any number of reloads; joins, waits, asks; 3 cores, 3 identities, `FairSpec` |

`vmt_safety` does not check for deadlock: a child that dies of a fatal error
with a mutex may leave everybody waiting for it.
Three cores are the main thread and two children, the least with which two
children can disagree about an entry. An identity is handed out again after its
thread has ended, so an entry of the table is used again while its old thread is
on its way out.
Identities are interchangeable, so the safety runs use symmetry; the liveness
runs do not.

Fairness (`FairSpec`): the OS schedules every thread and `main()`, so a step of
the VM that stays possible is taken; a child whose bytecode can end does not
run for ever. Nothing is assumed about starts, joins or locks.

Proved for any number of cores, threads and mutexes: `TypeCorrect`; and under
`OneStarter` (only the main thread's bytecode starts, joins and reloads, and it
joins before it ends or reloads) `SlotsExclusive`, `StacksDisjoint` and
`JoinIsSound`. `SlotExclusive` is not inductive: the search reads `status`,
while what must not be shared is a thread, and a created thread is not RUNNING
until its starter says so. `SlotInv` adds that the starter is the thread on core
0 and unique (`FirstOnZero`), that the core it chose is unused (`ChosenUnused`),
that every thread on a core not RUNNING is the child being marked
(`UnmarkedIsPending`), that a thread that joined is alone (`JoinedAlone`), that
nobody is left when `main()` begins again (`NoneAtRestart`) and that a stack is
that of its core (`StackIsCores`).

The other invariants have promises of their own, named in the theorems:

- `ToldOnlyWhenAsked` (`ToldWhenAsked`): `OneStarter` and `OneAsker`, only the
  main thread's bytecode makes exit requests. `RequestInv` says that a request
  stands only on a core whose thread was asked, and on no core whose entry a
  start has filled in. Without `OneAsker` it is false: a child that asks between
  the fill and the creation asks nobody, and the new thread is told.
- `OwnersStayLive` (`OwnersLive`): `LockersUnlock`, the bytecode unlocks what it
  locks and a core that locks meets no fatal error. `OwnersRun` puts every owner
  between two instructions of bytecode that locks.
- `MemoryIsSafe`, `ReturnIsMains` and `ImplementsTable`:
  `MainEndsLast`, that is `OneStarter`, starts only after INTR1 5 saw a free
  core, and no fatal error, refused thread or refused object on core 0. Children
  may die of errors: their core stays RUNNING, so the join they are waited for
  with does not return and nothing is freed. `EndInv` adds to `SlotInv` that
  while any thread has a core the first one has (`FirstIsLast`), that the core
  INTR1 5 saw is still free when the start looks for it (`SeenFreeIsFree`),
  where `main()` is when memory is gone (`MemoryThere`), and that the last
  writer of `retcode` before the cleanup is the first thread (`LastReturn`; a
  reload leaves it as a child wrote it, which is why `main()` may not be on its
  way out then). `waits` is not needed for any of them.

`ImplementsTable` is the step simulation of `CoreTable`: the creation of a
thread is its `Start`, the step that leaves the last pc of `Occupying` its
`Stop`, the last scan of join its `JoinReturn`, `MainJoin` its `Finish`.

TLC checked `SlotInv`, `RequestInv`, `OwnersRun` and `EndInv` as invariants of
an instance before they were proved; they are not part of a run.
`MCVmThreads` assumes that the bytecode of each run keeps the promises, so TLC
evaluates them (`PromisesKept`). Only model-checked: `JoinTerminates` and
`Shutdown`, which are liveness.

What the model shows beyond the runs, and what is false of the code without the
promises: a child that ends before its starter has marked the core writes STOP
first and the starter RUNNING after it (`vm/main.c:2628`), so the core stays
RUNNING with no thread and `join` never returns (`JoinTerminates` without
`waits`), although `brackets-llm/l1vm-system-prompt.txt:1456` says "wait for all
threads to finish"; with a child that starts threads too, a core that was found STOP is
given to two threads, since it is marked in another critical section than the
one that found it; a child that dies of a fatal error leaves its core RUNNING, so join
hangs; a main thread that ends without a join lets a child write the exit code
and has the memory freed under it; threads started by children add up stack
offsets and can get a stack outside the reserved ones; a reload that fails
leaves `code` on the freed block.

## 4. VCpuScheduler: the virtual cores of L1VMS (`vm/main-scheduler.c`)

One POSIX thread of L1VMS holds `cpu[]`. The state is what INTR1 18-23, the end
of every instruction (`SCHEXE_NEXT`) and `task_scheduler` read and write:
`status`, the countdown `scheduler`, `ep`, the stack pointer, the jump table.
`Fetch` is the end of every instruction; each opcode is an action that computes
what it leaves and conjoins `Fetch`. A program is a sequence of instructions
`[op, arg]`, chosen in `Init`, and the properties are checked for every program
of a set. The opcodes are those whose effect on the execution pointer or on
`cpu[]` differs: plain work, jumps, the counted loop, push and pop, the
interrupts, the ways to end. `stack` and `waited` are history variables.

`VCpus` is the abstract specification: independent processes, each with its own
execution pointer and stack, any of which may take the next step, all of which
go on.

| Run | Question | Programs and bounds |
|---|---|---|
| `vcs_all` | Is the processor always with a vcpu that runs, do jumps have a table, who runs past the end? | every program of 3 instructions over the whole set, of 4 over jump, start, exit and stop, `hello-sched` of the repository and a program with nested starts; 3 vcpus, slices 2 to 3 |
| `vcs_threads` | Does round robin implement the processes of `VCpus`, with a bound on waiting? | every closed program of 4 instructions without counted loop, stop and mutex, and the two longer ones; `FairSpec` |
| `vcs_loop` | violated: a counted loop does not go back to its label | closed programs of 3 instructions with the loop; `FairSpec` |

Three vcpus are one that runs, one that waits and one that is skipped or
started; three instructions let one vcpu start another at any place, itself
stop, exit or run past the end. The only fairness is `WF_vars(Next)`: the
operating system schedules the POSIX thread. That every vcpu goes on is then a
property of `task_scheduler`, and `ImplementsVCpus` checks it.

Proved for every program, number of vcpus and slice: `SchedulerTypeCorrect`,
`NeverIdle`, `JumpsHaveTables`, `PastEndIsAlone` and `WaitingIsBounded`. The
inductive invariant `SchedulerInv` says who may be past the end of the code
(`PastEndStopped`), who may lack a jump table (`RunningHasTable`: only a vcpu
that repeats the stop that freed it) and what a stopped vcpu that keeps the
processor executes (`StoppedStays`). `WaitInv` is the reason for the bound: what
a vcpu has waited, the rest of the current slice, and a slice for each vcpu
between the two never exceed a slice for every other vcpu.

`VcpusAreProcesses` is the safety part of the refinement: for every `Independent`
program each step of the code is a step of one process of `VCpus`, or none.
`ProcessInv` adds to `SchedulerInv` that the vcpus stay in the code and that the
only vcpu which may push finds what it pushed. An independent program is closed
(its last instruction does not go on), has neither counted loop nor stop, and
pushes only if it starts no vcpu; jumps, starts, exits, joins, mutex and the ways
to end are free. That a running vcpu goes on, the fairness of `VCpus`, and
`HelloSched`, which pushes before its starts, are only model-checked.

Left out of `vcs_threads`, because the code does not behave like `VCpus` there:
the counted loop (`vcs_loop`); INTR1 20, which leaves `eoffs` 0 and so repeats
itself until its vcpu is stopped by another one; push and pop by vcpus whose
stacks overlap in the one stack memory (`HelloSched` pushes before its starts
and works); `data_mutex`, whose owner is the POSIX thread, so that a second vcpu
that locks it blocks both. INTR1 18 counts vcpu 0, which INTR1 19 never takes,
so a count of one does not mean that a start succeeds. A vcpu that exits when no
other one runs executes its exit for ever.

## 5. ThreadStacks: typed stacks and their copy (`include/stack.h`, `vm/main.c`)

The stacks of all cores lie one after the other behind the data. An element is
its bytes and below them a tag; the model keeps the bytes. It covers the push
and pop macros with their checks, INTR0 26, 32 and 38, and the start of a thread
(INTR1 0), whose prologue copies the mother's stack byte by byte while the
mother can go on. `PrivateStacks` is the abstract specification: one stack of
typed elements for each thread, a new thread beginning with the one its mother
had at the start.

Nothing is promised of the bytecode. Two things it can do harm a stack, and both
are steps of the model. A byte pushed where there is no room: `stpushb` tests
for one byte and writes two, and a pointer below the bottom passes the test
again, so up to three bytes below the stack change, which are the last data or
the stack of the core below. And a mother who pushes or pops while a child still
copies her stack. The history variable `broken` says which stacks may have been
harmed: the pusher's and the one below, the copies being made, and the copies of
a harmed stack. `PrivateStacks` has the same two steps (`Overrun`, and `Becomes`
by the mother); a thread with a broken stack pops anything or dies (`Stray`), and
all other stacks keep their elements. So the refinement says how far the harm
goes, and that nothing else does any.

`stk_all` checks it with two stacks of six bytes, words of two bytes and one
register value whose bytes are themselves tags, so every boundary of both widths
and every confusion of values with tags occurs: an empty stack, one byte left,
one element less than full, full, three bytes below. The bound `Followed` ends a
behaviour once a thread with a broken stack has a value in its register that no
thread ever loaded. Nothing is followed past the first death of a thread: the
others could go on, as they can beside a thread that is never scheduled again.
`ImplementsStacks` is the refinement; `StackInv` says that from the stack
pointer to the top of a stack that is whole there is an unbroken chain of
elements, which is why `stpopb`, whose test admits a single byte, never passes
the top of it, and that a pointer of any stack stays within three bytes of it.
`WritesOwnStack` is the action property that a step changes only bytes of the
stack of the thread that takes it, or the three bytes below, and then both
stacks are broken.

Proved for every stack size, width and number of cores, without promises:
`StacksChained`, `PointersStayInStacks`, `WritesStayInStacks`, and the refinement,
`StacksArePrivate`: `Spec => ImplementsStacks`. The map reads the stack of a core
from its bytes with a recursive function on addresses, `Elements`. That the
function exists, that a chain of elements is read as written (`ChainReads`), and
that two memories with the same bytes read the same (`SameElements`), also when
one is a copy further down, are inductions over addresses, carried out on a set
(`Induction`, from the least element of a set of naturals). `StackInv` is what
makes each pop find a whole element, and the copy of a started thread read as
the stack its mother had.

## 6. MessageQueue: `vm/modules/message/message.c`

Each critical section of `msg_lock` is one step, and the type test that the
getters make before they lock is another one. So a `msg_set_*` is a reservation
and a write, a get is a test and a read, and other threads act between them.
`sent`, `deleted` and `seen` are history variables. `Rules` names what the
threads of the bytecode promise: `fresh` (an id is sent once, and not asked for
after its message was deleted), `one` (a single thread searches, gets and
deletes), `got` (it gets what its last search found and deletes only what it
got). `msg_init` and `msg_free_mem` are called while no call is running.
`Mailbox` is the abstract specification: a box of messages by id in which
sending, receiving and removing are single steps.

`mq_all` checks three threads, two of them producers, on two slots with five
messages and four ids: enough for a slot to be reserved, written, deleted and
reserved by somebody else while a get is between its test and its read. Each
rule is needed: without `fresh`, `IdsApart` and `KeptUntilRead` fail, without
`one` `ReservedByOne` and `KeptUntilRead`, without `got` also `FoundIsWanted`
and the refinement, since `msg_delete` empties any slot and `msg_search_id`
compares ids without looking at the type. `GetSound` needs none of them.

Proved for any number of slots, threads, ids and values: `AnswersSound` without
rules, and under all rules `Typed`, `ReservationsExclusive`, `IdsStayApart`,
`HandlesStayValid`, `NothingLost` and `TableIsMailbox`, the step simulation of
`Mailbox`: the second section of a set is its `Send` (the slot was not live, so
the live ones are fewer than the slots and the box has room), the locked section
of a get its `Receive`, a search or a get that finds nothing its `Forget`, a
delete its `Remove`, and a reservation does not show. It needs of `CallersInv`
that what the consumer heard last, kind, payload and id, is still what the slot
it found holds.

String messages never arrive: `msg_set_string` uses the byte at the address as
the address. An empty string gives a null address, and the call answers -1
but leaves its slot reserved; any other string is read from the first page of
memory, which kills the process (`fault`).

## 7. ObjectCode: from a source to its execution

The lengths of instructions and the places of labels in them are written down in
`opcode[]`, in the assembler's second pass, in the prologue of `run()` and in
each opcode. The module follows a program through all of them: `assemb/main.c`
emits opcodes with the numbers of labels and fills the table of labels (phase
`asm`), a walk over the code replaces numbers by positions (`fix`), the VM reads
the object (`load`, `vm/load-object.c`), each thread walks over the code once
more and fills `jumpoffs[]` (`boot`), and the program runs (`run`: `jmp`,
`jmpi`, the counted loops, `loadl`, `jmpa`, `jsr`, `jsra`, `rts`, the ends of a
thread, and running past the end of the code).

Code is two partial functions on positions, for the opcodes and for the operands
that are labels, so a walk that leaves the instructions finds nothing. Opcodes
are grouped by operands and effect on the execution pointer into 14 classes. One
register is modelled, which only `loadl` writes; in the code any value can get
into a register, and `Legal` is the test `jmpa` and `jsra` make of it. The
prologue is the same for each thread and modelled once. An instruction of which
only a part fits into the code memory leaves a hole in the object (phase
`spoilt`), which is not followed further.

`SourceProgram` is the abstract specification: instructions in their order,
jumps that go to the last definition of a label, calls that return to the
instruction behind the call. It lets the assembler refuse a source, spoil it, or
stop reading before its end. `ImplementsSource` maps positions back to numbers
of instructions.

| Run | Question | Programs and bounds |
|---|---|---|
| `obj_all` | Do all walks stop on instructions, does every jump go to its label and every return behind its call, is what runs the source? | every source of up to 2 instructions over all classes with two labels, of 3 over `jsr`, `rts`, `exit` and over `loadl`, `jsra`, `jmpa`, `rts`, of 4 over `jsr`, `rts`; a label placed anywhere, also several times |

A source that fills the code memory is assembled without its last lines and
without an error: `parse` ends its loop at `assemb/main.c:1396` when `code_ind`
reaches `code_max - 1`, and the message of line 1162 is not reached.
`SourceProgram` admits that, so `ImplementsSource` holds with it.

There are three labels for two entries of the table, 44 bytes of code memory and
43 allowed by the VM behind a header of 16, and two entries of the jump stack.
So a label list overflows, two instructions of ten bytes fit and a third does
not, an object is refused for its size, and three nested calls overflow the jump
stack.

Proved for every set of programs, every limit and every number of labels:
`Typing`, `AlwaysOnInstruction`, `AllJumpsResolved`, `AllReturnsBehindCalls` and
the refinement, `Implementation`: `Spec => ImplementsSource`. The inductive
invariant `IInv` has a part for each representation of the code: positions of
instructions grow by their lengths (`StartInv`), the object has an opcode
at each of them and nowhere else (`ObjInv`), a label is where it was last
defined (`LabelInv`), operands are labels in front of the second pass and
positions behind it (`QuadInv`), each walk is on an instruction (`WalkInv`), the
memory of the VM is the object (`MemInv`), the table of jump offsets is that of
the labels (`JumpInv`), and execution and jump stack are on instructions
(`RunInv`). The refinement also needs that nothing is placed behind the line
where the assembler stopped reading (`SourceInv`).

## 8. VecDb: the records of the vector database

`vm/modules/vector-db/src/db.c` keeps records in slots, a map from ids to slots
and a dirty flag, all under an rwlock; `vm/modules/vecdb/vecdb.c` calls it for
the bytecode. A call is one step for its critical section. A thread may call
anything at any time: nothing in the code makes it wait for another thread's
close. The loops that save, load and compact take a step a record with the lock
held (`task`), and a crash or a loss of power may come between two steps. A get
is two steps: `vecdb_get` hands out pointers into the record, and `l1_vecdb_get`
copies through them after the lock was released (`borrow`). A close is up to
three: it saves and releases the lock (`SaveEnd`, `CloseClean`), frees the
database (`Free`, `db.c:929`), and the wrapper clears the handle (`ClearHandle`,
`vecdb.c:470`). While that goes on, `Enter` is the call that has read the handle
and waits for the lock. It may get the lock between the save and the free, and
what it changes is not saved; a call that has not got it by the free, holds it
for a loop, closes as well, or reads the handle after the free, uses freed
memory: its thread is `lost`, and nothing but the end of the process is followed
from there. An open takes a path that `fopen` can not read for a new one,
whether there is a file or not (`OpenNew`, `db.c:871`), so the next save may
replace a file that was never read. The file is what the path holds, the
temporary file, whether it was fsynced, and `medium`: the contents the path may
have after a loss of power, where a rename has been seen but may not have
reached the disk and a file that was not fsynced may have lost its end.

`RecordStore` is the abstract specification: records by id, changed in one step,
saved whole in one step, and after a crash one of the states that were saved. It
can be opened with no records whatever was saved, and closed with changes that
were not saved, since the code can do both.

| Run | Question | Bounds |
|---|---|---|
| `vdb_all` | Is the file always whole, is the map exact, does a clean database lose nothing, does a get read live memory until its record is changed, is `RecordStore` implemented? | two threads and two ids, interchangeable; records without a vector and with one; 2 slots, 2 unsettled contents, one get at a time between its two steps (`MaxGets`) |
| `vdb_mixed` | violated: a database that was saved can be opened again | the same |

Two slots are enough for a record that is stored over, a tombstone, and a
compaction that moves a record; two values tell a record without a vector from
one with, so a dimension is learned; that a vector of another dimension is
refused does not come up in the run, only in the proofs; two unsettled contents
are an old file and a new one. While one thread is in a get the other can do
everything. A call that is refused changes nothing and is no step,
except the put that is refused with EXISTS, which has learned the dimension by
then (`PutExists`).

`BorrowedUntilChanged` is what a get may rely on: until its id is put or deleted,
or the database compacted or freed, what it copies is the live record of its id.
Puts and deletes of other ids, a table that grows, a flush and the saving half of
a close do it no harm. That nobody puts, deletes or closes in between is up to
the bytecode; the model lets it, and then the copy may be of freed memory.

`vdb_mixed`: `put_locked` takes a record without a vector in a database that has
a dimension, `db_load` puts every record of a file with the dimension of the
file and refuses that one, so the file can not be opened again.

Proved for any number of threads, ids, values and slots: `FileStaysWhole`,
`MapStaysExact`, `CleanMeansSaved`, `GetsAreSafe`, and the refinement,
`Implementation`, all without promises. `IInv` adds to the three invariants what each loop
has done so far: the temporary file holds the records below the slot the save is
at (`SaveInv`), the slots hold the records of the file below the one the load is
at (`LoadInv`), the new array and the new map agree with the old ones below the
slot the compaction is at (`CompactInv`), and which variables are idle while the
lock is free (`LockInv`). `BorrowInv` says that a get points to the live record
of its id.

Not modelled, though read: searches over vectors, `hnsw_search`, which writes
shared scratch memory under the read lock, `vecdb_search_hybrid`, which unlocks
without having locked when `k` is 0, `vecdb_set_ef_search` and `vecdb_count`,
which read without the lock, the cache of matches of the wrapper; `VECDB_SYNC`,
with which `put_locked` waits for the lock its own caller holds; two handles on
one path, which share `<path>.tmp`; allocations that fail (a put that fails has
already cleared the old record, `vecdb_compact` frees a map it has not
initialised); tombstones of `idmap`, of which `idmap_put` keeps no count. The
directory is not fsynced, which is why `medium` has more than one element after a
rename.

## 9. TextIndex: the inverted index (`vm/modules/vector-db/src/text.c`)

One call runs at a time, under the lock of the database; its loops take a step a
token, a reference or a cell. State: the open-addressed table of terms
(`cap`, `count`, `entries`, each entry with postings sorted by slot), the
references of each slot (`refs`: the cell of a term and the place of the posting
when it was written), the totals that BM25 computes with, and the progress of the
call (`task`, `grown` for `map_grow`). `texts` (the tokens a slot was given) and
`moved` (the table has grown while it held a document) are history variables. A
text is its sequence of tokens; `Home` is the hash.

`text_index_remove` follows the references of its slot: to the posting if it is
still where it was written, else by a binary search. Other documents shift
postings all the time, so the second way is the usual one. `map_grow` moves the
cells and leaves the references as they are.

`tix_all` checks three slots and four texts of three terms whose probes collide,
in a table of four cells that grows to eight, so that growth comes with and
without documents; a posting that counts more than two is not bumped by a new
text. `FoundAll`: every term of every text is found with its slot and counted at
least as often as it is said, also during growth and after references went
stale. `FoundOnly`: nothing else is found, as long as the table has not grown with
documents in it. `TotalsExact`: lengths and totals are those of the texts.

`FoundOnly` is false without its condition: once the table has grown with
documents in it (with 256 cells at the first, when it holds about 191 terms),
`text_index_remove` looks for postings in the wrong cells, and a record goes on
being found by words of a text it no longer has, although `internal.h:61` says
"Remove a slot from the index.". The numbers of documents and lengths stay
right.

Proved for any slots, terms, texts, hash and first size: `TypeCorrect`,
`SearchFindsAll`, `SearchFindsOnly`, `TotalsFollowTexts`. `IInv` says that the
table is one of linear probing, where no free cell lies between the home of a
term and its cell (`TableOf`), that postings are sorted and no smaller than the
texts (`PostInv`), that every cell below the one `map_grow` is at is in the new
table (`GrowInv`), that references stay inside the table (`RefInv`) and, while
it has not moved, name each posting of their slot (`ExactInv`), and that the
totals are sums over the texts (`TotalsInv`). That every probe ends is only
model-checked: a call whose probe found no cell would be a deadlock of the run.

Not modelled: the tokenizer, scores and the heap of the best ones, the filter of
live records, and allocations that fail in the middle of a text, which leave
references behind with length 0.

## 10. Compiler: registers, blocks and calls (`comp`)

`parse_line` in `comp/main.c` translates a function statement by statement. It
remembers in `regi[]` which variable a register holds, so that the next
statement need not load it again, and in `call_set` and `save_regi[]` that a
call pushed the registers in use, which the next statement other than a `stpopi`
pops (`loadreg`). Blocks are entries of four tables (`comp/if.c`), a case of a
switch (`?`, `break`) one of the `if` table. All of that is knowledge about one
path through the code; blocks make several of them.

The module compiles a source and then runs what was emitted. The phase
`compile` has one action per kind of statement: assignment of an expression and
of a variable, call with and without argument, `stpopi`, `if`, `if+`, `else`,
`endif`, `?`, `break`, `do`, `while`, `for-loop`, `for`, `next`, `switch`,
`switch-end`, and the errors. The code of a statement is a record: the registers
it pops, the variables it loads, its other registers, the registers it pushes,
its jumps, its labels. The phase `run` takes one step a statement, with the
jumps of `jmp` and `jmpi`. When `get_free_regi` has answered -1, or a `break`
has no `if`, what happens is left to the layout of memory, and the model stops
in `broken`. A block whose table is full is left out of the code and compilation
goes on, as in the code, and so is a `for` without a loop: only its load is
emitted (`comp/main.c:5181`). A jump to a label that was left out is found by the
assembler, which writes no object (`Labelled`). `func` loads `zero` into
register 0 (`comp/main.c:3531`), which the first call saves unless a block came
before; the first statements may pop arguments from the stack. A `stpopi` leaves
its variable in the register it was popped into (`comp/main.c:7033`), where the
next statement reads it without a load. `was` records the tables in front of each
statement
(history).

`Blocks` is the abstract specification: nested blocks, variables in memory, and
no registers, labels or saved registers; `passed` is the list of arguments, or
the result, that was not popped yet. `ImplementsBlocks` says that the run of the
emitted code assigns what the source assigns, in its order.

`cmp_all` checks every program of two statements, functions that pop up to three
arguments and then read, store or save them, blocks of each kind with
assignments, copies and calls in front of them, inside and behind, blocks in
blocks with a call as the last statement, more blocks than a table of three
holds, and more assignments than eight registers allow. Three variables of one
bit are enough for a stale register to be seen in a sum, a copy, a condition and
an argument; one variable is changed by called functions. `Coherent`: between
two statements, by whatever path it is reached, a register that the compiler
takes for a variable holds its value. `StackBalanced`: what a call pushed is on
the stack until it is popped, and only then, and a pop takes an argument or a
result, never what was saved. A program ends, so there is no
check for deadlock.

The promises (`Rules`): `nested` (blocks are nested and complete, a loop has one
`for`, arguments are popped by the first statements, what a function returns is
popped at once, and nothing else is popped) and
`unread`, which leaves out the one statement that is translated wrongly:
`(x y =)` with a `y` that is in a register loads nothing and stores that register, that
is the old value of `y` (`comp/main.c:3147`). After
`((a b +) c =)` a `(zero a =)` leaves `a` as it was. `RegistersTrue` and
`CallsBalanced` do not need `unread`.

Proved for every set of sources, any number of variables, values, registers and
table entries, with `nested`: `AlwaysTyped`, `RegistersTrue`, `CallsBalanced`.
`IInv` says of each statement that was compiled how the table behind it follows
from the one in front of it, its loads and the registers it writes (`Good`,
`CodeInv`); that a label other than those a statement jumps to itself is only
put where the table is empty (`Places`), and that the labels `if_n` and `for2_n`
come once (`LabelInv`), so every jump ends where no register is taken for
anything, or right behind the statement; that no variable is in two registers
(`Tidy`); and that the first statements pop the arguments, a value a function
returned is popped next, and nothing else is (`Popped`).

`BlocksAreKept` proves the refinement, with `nested` and `unread`. The source
knows a block by its depth (`Ends` in `Blocks`), the compiler by a number in a
table, so the proof has two halves. `BlockInv` says what the tables know:
the code of a statement has the jumps and labels of its kind and of one block
number (`Shapes`), numbers grow from begin to begin (`Ordered`), an end, `else` or `for`
has the number of the last block of its kind that was opened before it and not
closed (`Matched`), an entry is open as long as no end has its number
(`Linked`), a `for` without code comes where no loop is open (`Astray`; a
nested program has no such `for`, `NoStray`), and the arguments of a
statement are in its registers (`Operands`). Then, for a nested source, `EndBelongs`: the
end that the depth gives a block is the one with its number. Take the first
end with the number of a block inside of its own (`NotInside`): that inner
block ends before it, and its end leaves it closed. Take the last end with
the number of a block around its own: the end of that outer block comes later,
has the same number, and finds it closed. `InnerBelongs` says the same of
`else` and `for`.
It follows that every label is placed once (`PlacedOnce`), and that each
statement goes where the source does.

Seen while modelling, beyond the runs: a temporary of an expression is never
given back, so 127 assignments in a row use up the 256 registers and the
compiler goes on with register -1; when a block table is full a message is
printed and `parse_line` returns FALSE, which is success; a `break` ends a case
and does not leave the switch; blocks that are never closed are not reported;
`?` with int32 variables labels the register of their address with the variable's name.

Not modelled: parsing, declarations and types other than int64, expressions with
several operators, objects, arrays, `nested-code-off` and `optimize-if` (with
them registers are kept or conditions folded by the author of the source),
calls that leave the registers alone (`*`), labels and jumps of the author,
inline assembly. What `loadreg` restores is not followed: no variable is looked
for in those registers afterwards.

## 11. What the proofs rest on

Each `..._proofs` module extends the module it is about. Its assumptions are
the `ASSUME` of that module, which TLC evaluates in every run, and the promises
named in the theorem (`OneStarter`, `OneAsker`, `LockersUnlock`, `MainEndsLast`,
`AllRules`, `"nested" \in Rules`, and `"unread" \in Rules` for
`BlocksAreKept`). Invariance
proofs follow one pattern: the initial states satisfy the invariant, each
action preserves each conjunct, and a last step combines the two with
propositional temporal logic. `Implementation` of `ObjectCode` and of `VecDb`,
`ImplementsTable`, `TableIsMailbox`, `StacksArePrivate`, `VcpusAreProcesses` and
`BlocksAreKept` are step simulations: under the inductive invariant each action is an action of the
abstract specification on the mapped variables or leaves them as they are.

Checked by TLC on the instances above and not proved: `JoinTerminates` and
`Shutdown` (liveness), and the fairness in `ImplementsVCpus`.

## 12. Not modelled

See the components with status `not_modelled` in `PROJECT.json`. Text
processing tools and wrappers of libraries have no state worth a model; the
macOS wait loop of the VM is a build variant that only delays the start. Of the
interpreter the stack opcodes, jumps and calls and the interrupts named above
are modelled; arithmetic opcodes are those of C and leave no state a later step
tests. Loads and stores with their checks of addresses wait for `Bounds`.
