# A TLA+ model of the systems-programming projects

The repository holds three programs:

* `src/pelikanOS`: a 32-bit kernel with preemptive round-robin threads, a
  sleeping mutex, a keyboard driver, a page-frame allocator, a heap, a shell;
* `src/bytecode-vm`: a compiler for a small language and the stack machine that
  runs what it generates;
* `src/my_malloc`: an allocator on top of `sbrk`.

There is no documentation besides the comments in the code.

## Inventory

| Part | State | Operations | What is hard | What makes it correct |
|---|---|---|---|---|
| Scheduler, `scheduler.c` | task states, ready queue, dead queue, `current_task` | `schedule`, `yield`, `thread_exit`, `create_task`, `reaper_thread` | a tick anywhere interrupts are on; wakeup of the reaper | a task is in the queue its state names, once; none is lost; the reaper misses no corpse; round robin is fair |
| Ring of tasks, `scheduler.c` | `next`, `prev`, `last_inserted` | `insert_task`, `remove_task_from_circular_list`, `ps` | a task published before it is linked; `ps` on a freed record | the ring holds the live tasks |
| Mutex, `mutex_lock.c` | `locked`, `holder`, waiters | lock, unlock | waking and barging | exclusion, no lost wakeup, every waiter is woken |
| Switch, `swtch.asm`, `isr_asm.asm` | registers, stacks, saved stack pointers | `swtch`, timer and keyboard interrupts | interrupts between any two instructions | every context gets its registers, flags and stack back |
| Keyboard, `keyboard.c` | ring buffer | handler pushes, shell pops | test of `len` outside of the critical section | bounded FIFO |
| Frames, `pmm.c` | bitmap | init, two allocators, free, count | bytes read and written back while the reaper frees, and allocates for page tables | one owner per frame; kernel and holes never handed out |
| Heap, `heap.c` | list of blocks | `kmalloc`, `kfree` | preemption in `kmalloc` against `kfree` in the reaper | blocks share the frames, none is handed out twice |
| Paging, `vmm.c` | page tables | map, unmap | never initialised by `kmain`; mapping allocates, in the reaper | guard pages; a page table has a frame of its own |
| Console, `vga.c` | cursor, screen | `print`, `makeSpace`, `removeChar`, `print_at` | `removeChar` runs with interrupts on while others print | no store beside the screen; what is typed is what is shown |
| Shell, clock, `shell.c`, `clock.c` | line buffer, `spawn_arg` | line editing, `dispatch`, the commands | limits of the buffers, arguments left from an earlier line | a command acts on its own line; the shell comes back |
| Compiler, `compiler.c` | tokens, tree, bytes, names | lexer, parser, `walk` | where tokens end, precedence, jump targets, operands cut to a byte | the code does what the program means |
| Machine, `vm.c` | code, stacks, globals | 17 instructions | limits, arbitrary bytecode | no access outside of the arrays |
| `my_malloc` | list of blocks, program break | `my_malloc`, `my_free` | others move the break too | blocks do not overlap and stay |

How they interact: the timer interrupt calls `yield`, which switches to
`schedule()` on the boot stack; `schedule()` disposes of the task that ran and
switches to the next. The keyboard interrupt fills the ring buffer that the
shell polls. The shell creates tasks, which takes a record from the heap and two
frames (guard page and stack) from the frame allocator; the reaper gives them
back, and before that maps the guard page again, which may take a frame for a
page table. The compiler includes the machine and hands it an array of bytes.

## Modules

* `Scheduler` models `scheduler.c`, `kmain` and the timer branch of
  `isr_handler`. There is one CPU, and code interleaves only where the interrupt
  flag is on, so an action is a piece of code that no interrupt can split.
  `cpu` says whether `schedule()` is about to pick a task, a task runs, or
  `swtch` just came back; `eflags` and `sched_eflags` are the interrupt flags
  saved on the stacks. `reaper_thread` never restores the flags in the iteration
  that finds a corpse: the model keeps that. The linked queues are sequences.
* `MutexLock` extends it with `mutex_lock.c`, whose users are tasks like
  `task_a` to `task_e` of `kernel.c` (compiled, though `kmain` no longer starts
  them). `mutex_lock` is split at its `yield()`.
* `TaskRing` extends `MutexLock` with the circular list of all tasks: its actions
  add the links to the steps that create and reap a task, and `ps` walks along
  them, one record per step, with interrupts on. `damage` records the two things
  the reaper can do to it too early: free a record that `insert_task` has not
  linked yet, or the one on which `ps` stands. Both really happen; from then on
  links lead through freed memory, so that no task is created and `ps` is not
  called any more in the model, and the properties speak of the states before.
* `Swtch` models the switch one instruction at a time. Registers hold the name
  of the context and register whose value they have, stacks are memories whose
  words survive above the stack pointer until overwritten. Whom `schedule()`
  picks is left open. All callers turn interrupts off but `thread_exit`.
  `mutex_lock` restores the flags when it has the lock (`yield_back`); a waiter
  that finds the lock taken again, and the reaper, which runs with interrupts off
  once it has found a corpse, yield once more (`yield_again`). The Makefile asks
  for no optimisation, so `schedule()` addresses its local `next` through EBP
  across its call of `swtch`: it goes on only with its own EBP (`schedule_back`).
  With another one it is lost (`schedule_lost`), and since what it does then is
  undefined, the model follows it no further.
* `KeyFifo` is the abstract bounded queue. It sees every key press: `typed` holds
  the key and a bit that flips, so a press that changes nothing else is a step
  and not a stutter, and it is allowed only while the queue is full. `Keyboard`
  models `keyboard.c`, has the same `typed`, and is shown to implement it. `ringbuf_pop` is split where interrupts are on.
* `Pmm` models `pmm.c` with its two users: the shell, whose every load and store
  of a byte of the bitmap is an action, and the reaper, which frees with
  interrupts off. The build does not optimise, so `bitmap[i] |= bit` is a load
  and a store. The bitmap is the set of the frames whose bit is set. Before it
  frees, the reaper calls `vmm_map_page`, which calls `pmm_alloc_frame` if the
  entry it reads is not present. `page_directory` is the null pointer, so the
  firmware decides that, and here it may happen at every call: the first free
  frame joins `tables` and is never freed. When no frame is free,
  `pmm_alloc_frame` returns 0xFFFFFFFF and the bitmap does not change, like when
  the entry is present. `overtaken` records that the frame was one that an
  allocation of the shell had found free, or one whose byte it had loaded, and
  `taken` the frames taken while `mem` counts.
* `Heap` models `heap.c`: `kmalloc` one access to a header after the other, since
  the shell calls it with interrupts on, and `kfree`, which the reaper calls with
  interrupts off, in one piece with both its merges and its reports. Blocks are
  addresses of headers; a header that a merge swallows stays readable. All
  requests are `sizeof(task_t)` bytes, as in the code. `raced` records that a
  merge touched the block on which `kmalloc` stands.
* `Terminal` puts the console, the shell's line editor and dispatch, and the
  others who print together: the worker, the reaper (through `kfree`) and the
  clock. `print` is one action (`Printed` is its loop), `removeChar` is one per access of the cursor or
  the screen, `print_at` one per character. What `ps` and `mem` compute is in
  `TaskRing` and `Pmm`. `mixed` and `torn` record that another task printed into
  the line, or inside of `removeChar`.
* `MyMalloc` models `my_malloc.c` for requests whose size plus header is a
  positive `intptr_t`; it holds its own proofs.
* `Vm` models `vm.c` for arbitrary code arrays. Ints wrap around; a quotient that
  is not an int traps; reading outside of the code array is the status
  `"overrun"`.
* `Compiler` models the lexer, the parser and the generator of `compiler.c` and extends
  `Vm`, as `compiler.c` includes `vm.c`. `Language` is the reference: how a tree
  is written down by the grammar of the head comment, as tokens and as text with
  or without spaces between them, and what it means.

`MC_...` modules give the constants their values. Definitions named `Bad...` are
plausible mistakes in the code that the definition behind them models; no
specification uses them, and each is known to violate the property it is listed
with in `PROJECT.json`. Where a mistake is about one test or one value, that test
or value has a name of its own (`WakesReaper`, `ReturnAddress`).

## Runs

| Run | Specification | Shows | Bounds |
|---|---|---|---|
| `mutex` | `MutexLock!FairSpec` | the safety properties of scheduler, reaper and mutex, and the life cycle of tasks; ready tasks run, corpses are reaped, waiters are woken | shell, one user that stays, two records that are created, exit and are reaped again and again, the reaper: two waiters at once, and corpses while the reaper is ready or blocked |
| `ring` | `FairRingSpec` | the ring is one circle both ways; `ps` lists all tasks and ends | shell and clock, two records that come and go: the record at `last_inserted`, the one behind it and others are removed, during `ps` too |
| `keyboard` | `Keyboard!Spec` | the ring buffer implements `KeyFifo`, so a press is lost only while it is full; a test of the length is not overtaken | three places, three keys, a key without character and a release: wrap-around and overflow happen |
| `swtch` | `Swtch!Spec` | live tasks always get registers, flags and stack back, and `schedule()` until the first `thread_exit`; after that it goes on with all its registers or is lost | two tasks; stacks of 40 words hold a switch, an interrupt and the switch it makes |
| `pmm` | `Pmm!Spec` | ownership and marking of frames | eleven frames in three bytes of the bitmap, with low memory, kernel, a hole and a partial last frame; stacks straddle bytes; at most two tasks without memory and two page tables (one for each four megabytes of addresses in the machine): tables are taken from a window, from a loaded byte and during a count |
| `pmm_low` | `Pmm!Spec` | violated: see below | the same |
| `heap` | `Heap!Spec` | blocks tile the frames, owned blocks are in the list, taken and stamped, none is handed out twice | two frames of four records in any order, three boot tasks: splits, exact fits, merges on both sides and across the border of frames that touch |
| `heap_race` | `Heap!Spec`, followed after a race | violated: see below | the same |
| `terminal` | `Terminal!FairSpec` | no store misses the screen; screen and line buffer agree; `clear` clears; `spawn` acts on its own line; the shell comes back | three rows of three columns, lines of up to four characters: lines wrap, the screen scrolls, the line fills up; one spawned worker prints and is reaped, the clock redraws |
| `vm` | `Vm!Spec` | bounds and returns | all arrays of four bytes out of thirteen before `OP_HALT`, every instruction behind two pushes; stacks of two |
| `language` | `LanguageSpec` | programs are read as the tokens they spell, print what they mean, and end | all expressions with up to two operators over three leaves, 84 programs with branches and (nested) loops, in two spellings, and malformed ones |
| `language_grammar` | `LanguageSpec` | violated: see below | the same expressions without the parentheses |

Deadlock is checked in the runs `mutex`, `ring`, `keyboard` and
`terminal`. It is off in `swtch`, where a lost `schedule()` is not followed, in
`pmm` and `pmm_low`, where the shell really halts when
frame 0 is allocated, in the heap runs, which end when the frames are used up or
`kfree` halts, and in the `vm` and `language` runs, whose programs end.

Fairness. In `MutexLock` weak fairness of `schedule` and of the timer is the CPU
and the hardware clock. Strong fairness of the reaper and of the steps by which a
task that holds or waits for the lock goes on says that a task which is
dispatched again and again gets on in its time slice of 10 ms; without it a tick
could come before each first instruction for ever. Nothing makes a task exit,
spawn or lock. `TaskRing` adds strong fairness of the loop of `ps`, for the same reason as
for the other tasks. In `Terminal` the shell goes on by itself, which is
`ReadyRuns` of `MutexLock`, and nothing makes
the user type or another task print. In `Language` the loop of `vm_run` goes on.

### What the violated properties show

* `pmm_low`: `create_task` does not test the result of `pmm_alloc_contiguous`.
  From 0xFFFFFFFF `stack_base` wraps around to 0xFFF, and the reaper marks frame
  0 as free.
* `heap_race`: the shell is inside `kmalloc` when the reaper frees a block next
  to the one at which it stands. The merge makes that block larger, or swallows
  it, behind the back of `kmalloc`; the record that it hands out is then part of
  a free block, and `kfree` later reports a double free, or a foreign block, that
  never was, and halts.
* `language_grammar`: `parse_term` takes a whole expression behind `*` and `/`,
  so `2*3+4` is `2*(3+4)` and `8/2*2` is `8/(2*2)`. With parentheses around
  products the compiler is right, which the run `language` shows.

Other properties hold only under a condition, which says where the code is
fragile:

* `RestoredUntilExit`: `thread_exit` calls `yield()` with interrupts on. A tick
  after `mov esp, eax` and before `popf` pushes its frame over the scheduler's
  saved registers, and `schedule()` resumes with others (`SchedulerRestored`
  fails). The interrupt frame never hits a register without the word of EBP,
  which is popped first, so `schedule()` loses the address of `next` at once.
* `TaskRestored`: after such a tick nothing is said any more. Up to then, and
  after every exit that no tick hits there, it holds.
* `OneOwner`, `OwnedMarked`: for stacks and heap pages always; for page tables
  until the reaper takes a frame that the shell has found free and not marked
  yet, or whose byte it has loaded (`overtaken`). Both happen: the frame then has
  two owners, or the stale byte removes the mark of the table. Both properties
  fail for tables without the condition.
* `CountBounds`: up to the frames that became page tables during the count.
* `RingIntact`, `PsListsAll`, `PsEnds`: up to the first record that is reaped
  before `insert_task` has linked it, or under `ps`.
* `ScreenShowsLine`, `ClearWipes`: as long as no other task printed meanwhile.
* `MarkedForGood`: all frames but frame 0.
* `OutputCorrect`: of the texts that are no programs it speaks only of those that
  the lexer or the parser refuses (a brace that closes nothing, a missing one, an
  operator as a statement, an unknown character). The parser accepts more than
  programs: it skips one token where `{` or `)` should be without a look at it,
  so `print (1 {` is compiled and prints 1.

## Proofs

TLAPS checks these for every value of the constants that satisfies the named
assumptions.

* `Tasks_proofs`, first part: types, and all safety properties and the action
  property of `mutex`, for any set of tasks. Assumed (`TaskAssumption`, `LockAssumption`): records are distinct,
  some boot task has no exit, the shell is one of those, and neither the reaper
  nor the shell uses the mutex. The properties are not inductive by themselves:
  the invariant adds where each program counter may be in each state, that a task
  sleeping in `mutex_lock` saved its flags with interrupts off, that the record
  being created is in no queue, and that the reaper decides with interrupts off.
  `NeverIdle` needs that an immortal task is always queued, running or waiting
  for a lock whose holder is itself queued or running.
* `Tasks_proofs`, second part: the specification with the links implements the one of
  `MutexLock` (`RingImplements`), so that everything proved there holds here too;
  `RingIntact` and `PsListsAll`, for any finite set of tasks (`RingAssumption`).
  The properties speak of walks along the links; the invariant instead says that
  the linked tasks can be listed, each once, so that `next` leads from each to
  the one behind it and from the last to the first, and `prev` back. Inserting
  and removing a record give a new listing. That a walk reaches all of them is an
  induction, done on a set of numbers that contains 0 and is closed under
  successor, for which the prover needs no operator as a parameter.
* `Keyboard_proofs`: types, `LengthIsDistance`, `TestStillHolds`, and that the
  ring buffer implements `KeyFifo`, for any size and table. The argument is that
  the contents are the `len` places from `tail` on modulo the size: a push
  appends to them, a take removes the first. That a press is dropped only when
  the buffer is full is part of what is shown.
* `Pmm_proofs`: types, `OneOwner`, `OwnedMarked`,
  `KernelProtected`, `MarkedForGood` and `CountBounds`, for any memory map within
  the bitmap, and `InAvailableMemory` for the maps whose regions begin at page
  boundaries (`RegionsAtPages`; for others the property is false, since
  `pmm_init` rounds the start of a region down). The invariant says that the byte
  the shell holds contains every frame of a stack or the heap in that byte,
  because between load and store the reaper clears bits, or sets one of a page
  table; that until `overtaken` it contains the tables too, and the frames that
  the shell has found free are still free (`RaceInv`); for `CountBounds`, that
  the count is between the frames below the one at hand that were free at the
  start and those that are free now, up to `taken`.
* `Swtch_proofs`: `TypeOK`, `TaskRestored` and `RestoredUntilExit`, for any set of
  tasks and stacks of at least 31 words, the most that a call of `swtch`, an
  interrupt in it and the call that this one makes can need (`SwtchAssumption`).
  The invariant says for each of nine places in the code (`schedule()`, the
  first and the second half of `swtch` in either direction, a running task, the
  end of an interrupt, a task that has exited, a lost `schedule()`) which words are on which stack:
  the return addresses, flags and registers of every task that waits, and those
  of `schedule()`, which are all right or have another word in the place of EBP:
  of the interrupt frame that overwrites them, the word that lands there is the
  flags, the code segment, the instruction pointer or the error code
  (`TimerStep`). There is one lemma per instruction. It also shows where an
  interrupt can come at all (`Interrupted`): in a task, before its first
  instruction, and in the `swtch` of a task that has exited.
* `Heap_proofs`: `Tiled`, `OwnedBlocks`, `NotHandedOutTwice` and, until a race,
  `TypeOK` and `AccurateDiagnostics` (the report that `heap_race` reaches after
  one), for any sizes of header, record and frame such that a frame holds whole
  records, as 4096 bytes do (`HeapAssumption`), and any number of frames. The
  properties speak of a walk along `next`. The invariant instead says that there
  is a set of blocks and a numbering of the bytes of the heap, frame by frame in
  the order in which the heap got them, so that each block is a run of numbers,
  `next` leads from each block to the one whose number follows, and the first has
  number 0. One lemma each shows that a merge, a split and a new frame give such
  a set again. The `prev` pointers are not the inverse of `next`: a split leaves
  the one behind it stale, and a merge may then swallow the header it leads to.
  The invariant has what is needed to see that `kfree` still merges with the
  right block: the bytes from such a header up to the real predecessor are
  consecutive, and no header inside of a block says that it reaches beyond it.
  Between the store that shrinks a block and the one that links the rest, the
  rest counts as a block already. That the list ends and holds all the blocks is
  an induction on the steps of the walk.
* `Terminal_proofs`: `WritesOnScreen`, `ScreenShowsLine`, `ClearWipes` and the
  action property `SpawnedByName`, for any screen of at least three rows and two
  columns, any line buffer of at least a row and less than two, any place of the
  clock in row 0 but its first column (`TerminalAssumption`), any lines the user may type and any number of workers.
  A name that can be spawned is not empty, and no key gives one of the symbols
  that stand for other text (`LetterAssumption`). The invariant has five parts
  besides the types.
  `BoundInv`: what `removeChar` has tested and loaded still bounds what it will
  store, whoever printed since, because printing never goes up a row and reaches
  column 0 only below the first; the cursor may be in column -1, never in row 0.
  `SteadyInv`: while nobody printed inside of the call, what was loaded is what
  the cursor is. `RowStartInv`: the last string of a command ends a line.
  `LineInv`: at every access of `removeChar` it is known where the cursor will
  be when the call ends (`Landing`), and the screen shows the line up to there;
  in `clear`, that place is below the number of calls that are left. `CleanInv`:
  nothing is behind the edge of what was printed. A string of any length is
  printed by an induction on its characters, again over a set of numbers.
* `Vm_proofs`: for every code array and every size of the stacks, no access
  outside of stack, call stack and globals, and every return address is behind a
  call.
* `MyMalloc`: for any sequence of calls, and whatever else moves the program
  break, blocks never overlap (`AllocationsDisjoint`), and none is moved, resized
  or dropped (`AllocationsStay`). The invariant is that the blocks lie in the
  order of the list, below the break. This module has no run: every request is a
  number without bound, and the theorems cover all of them.

`TypeOK` of `MutexLock`, `Keyboard` and `Pmm`, and `LengthIsDistance`
are in the theorems alone, which cover what a run could show.

Only model-checked: liveness (fairness is out of the prover's reach), `TypeOK` of
`Heap` after a race, when sizes and pointers may be those of a swallowed header,
and the compiler, whose recursive operators the prover does not support.

## Not modelled

* Paging (`vmm.c`, `paging.c`), but for the frames that `vmm_map_page` takes,
  which are in `Pmm`. `kmain` never calls `vmm_init`: `page_directory`
  is 0 and paging is off. `vmm_map_page` and `vmm_unmap_page` then take words of
  the real-mode interrupt vectors for page directory entries, and what they store
  to depends on the firmware, not on a state of this program; the same goes for the
  `memset` of a new table, over low memory when no frame was free. The guard pages
  guard nothing.
* The exception vectors (print and halt), `gdt`, `idt`, `pic`, `pit` programming
  (pure I/O), `itoa`, `string`, `print_hex` and `print_tokens` (formatting),
  `heap_dump` (never called, changes nothing), `scheduler_asm.asm` (an older
  switch that nothing calls).
* Stores outside of arrays, whose effect the build decides: the token behind the
  end of the token array, words of more than 31 characters in the lexer, code
  behind byte 255, frames beyond the bitmap, a negative increment of `sbrk`.
  They are listed as hazards in `PROJECT.json`.

## What is left to do

The linked queues of `scheduler.c` and `mutex_lock.c`, shown to implement the
sequences of `Scheduler` and `MutexLock`.
