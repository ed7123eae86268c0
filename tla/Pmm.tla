-------------------------------- MODULE Pmm --------------------------------
(***************************************************************************)
(* The physical memory manager of pelikanOS (src/pmm.c): a bitmap with one  *)
(* bit per page frame.                                                      *)
(*                                                                         *)
(* Two tasks use it.  The shell allocates, in create_task and in kmalloc,   *)
(* with interrupts on: the reaper may run between any two of its accesses   *)
(* to the bitmap.  The build does not optimise, so  bitmap[i] |= bit  is a  *)
(* load of a byte, and later a store.  The reaper frees the two frames of a *)
(* task's stack with interrupts off, in one piece; before that it maps the  *)
(* guard page again, and vmm_map_page takes a frame for a page table when   *)
(* the word it reads as the directory's entry is not present.               *)
(*                                                                         *)
(* The bitmap is the set of the frames whose bit is set.  A local variable  *)
(* of a call of the shell is 0 or empty while the call is not under way.    *)
(* The definitions named Bad... are mistakes that the properties are known  *)
(* to catch; no specification uses them.                                    *)
(***************************************************************************)
EXTENDS Naturals, FiniteSets

CONSTANTS
    MAX_FRAMES,     \* frames the bitmap has bits for
    ByteFrames,     \* bits in a byte
    PageSize,       \* bytes in a frame
    Word,           \* one more than the largest address
    LowFrames,      \* frames of the first megabyte
    Mmap,           \* the memory map: records with fields addr, len and type
    KernelStart,    \* _kernel_start and _kernel_end
    KernelEnd,
    MaxFailed,      \* bound on the tasks created without memory for a stack
    MaxTables       \* bound on the page tables

\* Memory ends where the bitmap does, and below the top of the address space.
ASSUME PmmAssumption ==
    /\ MAX_FRAMES \in Nat \ {0}
    /\ ByteFrames \in Nat \ {0}
    /\ PageSize \in Nat \ {0}
    /\ Word \in Nat
    /\ MAX_FRAMES * PageSize < Word - PageSize
    /\ LowFrames \in 2..MAX_FRAMES
    /\ \A e \in Mmap : e.addr \in Nat /\ e.len \in Nat
    /\ KernelStart \in Nat /\ KernelEnd \in Nat
    /\ MaxFailed \in Nat /\ MaxTables \in Nat

VARIABLES
    used,        \* the frames whose bit in the bitmap is set
    stacks,      \* the stacks of tasks, by the frame of the guard page
    heap_frames, \* the frames that the heap got
    tables,      \* the frames that became page tables: they are never freed
    failed,      \* tasks whose pmm_alloc_contiguous returned 0xFFFFFFFF
    pc,          \* where the shell is
    start, end,  \* the window of pmm_alloc_contiguous
    frame,       \* the frame a loop of the shell is at
    byte,        \* the byte of the bitmap that the shell has loaded
    free,        \* the count of pmm_free_count
    free_before, \* the frames that were free when it began to count
    taken,       \* the frames that became page tables since then
    overtaken    \* a frame became a page table that the shell had found free,
                 \* or whose byte it had loaded

\* What the shell's own steps leave alone.
reaper_vars == <<tables, taken, overtaken>>

vars == <<used, stacks, heap_frames, failed, pc, start, end, frame,
          byte, free, free_before, reaper_vars>>

Frame == 0..(MAX_FRAMES - 1)

\* The frames whose bits share a byte with that of f.
Byte(f) == {g \in Frame : g \div ByteFrames = f \div ByteFrames}

\* The guard page and the stack of a task, from pmm_alloc_contiguous(2).
StackFrames(b) == {b, b + 1}

\* The number of the frame that holds an address.
frame_num(addr) == addr \div PageSize

-----------------------------------------------------------------------------
\* pmm_init: everything is used, but for what the memory map calls available;
\* the first megabyte and the kernel are used again.
\* The last byte of a region is enough to make its frame available.
BadAvailable(f) ==
    \E e \in Mmap : /\ e.type = 1
                    /\ frame_num(e.addr) <= f
                    /\ f < frame_num(e.addr + e.len + (PageSize - 1))

Available(f) ==
    \E e \in Mmap : /\ e.type = 1
                    /\ frame_num(e.addr) <= f
                    /\ f < frame_num(e.addr + e.len)

\* The end of the kernel is rounded down.
BadKernelFrame(f) == frame_num(KernelStart) <= f /\ f < frame_num(KernelEnd)

KernelFrame(f) ==
    frame_num(KernelStart) <= f /\ f < frame_num(KernelEnd + (PageSize - 1))

pmm_init == {f \in Frame : ~Available(f) \/ f < LowFrames \/ KernelFrame(f)}

Init ==
    /\ used = pmm_init
    /\ stacks = {}
    /\ heap_frames = {}
    /\ failed = 0
    /\ pc = "idle"
    /\ start = 0 /\ end = 0 /\ frame = 0
    /\ byte = {}
    /\ free = 0
    /\ free_before = {}
    /\ tables = {} /\ taken = {}
    /\ overtaken = FALSE

-----------------------------------------------------------------------------
(* create_task: kmalloc, which asks for a frame when no block is free, and  *)
(* then pmm_alloc_contiguous(2).                                            *)

create_task ==
    /\ pc = "idle"
    /\ failed < MaxFailed
    /\ pc' \in {"frame_scan", "window_scan"}
    /\ UNCHANGED <<used, stacks, heap_frames, failed, start, end,
                   frame, byte, free, free_before, reaper_vars>>

\* pmm_alloc_frame: one iteration of the loop.
pmm_alloc_frame_test ==
    /\ pc = "frame_scan"
    /\ frame < MAX_FRAMES
    /\ \/ frame \in used /\ frame' = frame + 1 /\ UNCHANGED pc
       \/ frame \notin used /\ pc' = "frame_load" /\ UNCHANGED frame
    /\ UNCHANGED <<used, stacks, heap_frames, failed, start, end,
                   byte, free, free_before, reaper_vars>>

pmm_alloc_frame_load ==
    /\ pc = "frame_load"
    /\ byte' = used \cap Byte(frame)
    /\ pc' = "frame_store"
    /\ UNCHANGED <<used, stacks, heap_frames, failed, start, end,
                   frame, free, free_before, reaper_vars>>

\* The store, and the return to request_space, which takes address 0 for a
\* failure and halts the shell.
pmm_alloc_frame_store ==
    /\ pc = "frame_store"
    /\ used' = (used \ Byte(frame)) \cup byte \cup {frame}
    /\ \/ /\ frame = 0
          /\ pc' = "halted"
          /\ UNCHANGED heap_frames
       \/ /\ frame # 0
          /\ heap_frames' = heap_frames \cup {frame}
          /\ pc' = "window_scan"
    /\ frame' = 0 /\ byte' = {}
    /\ UNCHANGED <<stacks, failed, start, end, free, free_before, reaper_vars>>

\* Without a free frame request_space gets 0xFFFFFFFF, which is not 0: it goes on.
request_space_failed ==
    /\ pc = "frame_scan"
    /\ frame = MAX_FRAMES
    /\ pc' = "window_scan" /\ frame' = 0
    /\ UNCHANGED <<used, stacks, heap_frames, failed, start, end, byte, free,
                   free_before, reaper_vars>>

\* pmm_alloc_contiguous(2): one iteration of the sliding window.
pmm_alloc_contiguous_slide ==
    /\ pc = "window_scan"
    /\ end < MAX_FRAMES
    /\ \/ /\ end \in used
          /\ end' = end + 1 /\ start' = end + 1
          /\ UNCHANGED <<pc, frame>>
       \/ /\ end \notin used
          /\ end - start + 1 # 2
          /\ end' = end + 1
          /\ UNCHANGED <<start, pc, frame>>
       \/ /\ end \notin used
          /\ end - start + 1 = 2
          /\ pc' = "fill_load" /\ frame' = start
          /\ UNCHANGED <<start, end>>
    /\ UNCHANGED <<used, stacks, heap_frames, failed, byte, free,
                   free_before, reaper_vars>>

pmm_alloc_contiguous_load ==
    /\ pc = "fill_load"
    /\ byte' = used \cap Byte(frame)
    /\ pc' = "fill_store"
    /\ UNCHANGED <<used, stacks, heap_frames, failed, start, end,
                   frame, free, free_before, reaper_vars>>

\* Only the first frame of the window is marked.
BadLastFrame == start

LastFrame == end

\* The last store returns the window to create_task.
pmm_alloc_contiguous_store ==
    /\ pc = "fill_store"
    /\ used' = (used \ Byte(frame)) \cup byte \cup {frame}
    /\ \/ /\ frame < LastFrame
          /\ frame' = frame + 1 /\ pc' = "fill_load"
          /\ UNCHANGED <<stacks, start, end>>
       \/ /\ frame = LastFrame
          /\ stacks' = stacks \cup {start} /\ pc' = "idle"
          /\ frame' = 0 /\ start' = 0 /\ end' = 0
    /\ byte' = {}
    /\ UNCHANGED <<heap_frames, failed, free, free_before, reaper_vars>>

\* 0xFFFFFFFF: create_task does not look.
pmm_alloc_contiguous_failed ==
    /\ pc = "window_scan"
    /\ end = MAX_FRAMES
    /\ failed' = failed + 1
    /\ pc' = "idle" /\ start' = 0 /\ end' = 0
    /\ UNCHANGED <<used, stacks, heap_frames, frame, byte, free,
                   free_before, reaper_vars>>

\* The guard page is taken to lie above the stack.
BadFreedFrames(b) == StackFrames(b + 1)

FreedFrames(b) == StackFrames(b)

\* vmm_map_page: page_directory is the null pointer, and what the firmware left
\* in low memory decides whether an entry is present.  If it is not, a frame
\* becomes a page table: the first that is free.
NewTables ==
    {{}} \cup {{f} : f \in {g \in Frame \ used :
                              /\ Cardinality(tables) < MaxTables
                              /\ \A h \in Frame : h < g => h \in used}}

\* The frames that an allocation of the shell has found free and not marked
\* yet, and those whose bits are in the byte it has loaded.
FoundFree(f) ==
    \/ pc \in {"frame_load", "frame_store"} /\ f = frame
    \/ pc = "window_scan" /\ f \in start..(end - 1)
    \/ pc \in {"fill_load", "fill_store"} /\ f \in frame..end

Loaded(f) == pc \in {"frame_store", "fill_store"} /\ f \in Byte(frame)

vmm_map_page(new) ==
    /\ tables' = tables \cup new
    /\ taken' = IF pc = "count" THEN taken \cup new ELSE taken
    /\ overtaken' = (overtaken \/ \E f \in new : FoundFree(f) \/ Loaded(f))

\* reaper_thread: vmm_map_page and pmm_free_frame of the guard page, and
\* pmm_free_frame of the stack.
reap(b) ==
    /\ b \in stacks
    /\ stacks' = stacks \ {b}
    /\ \E new \in NewTables :
        /\ vmm_map_page(new)
        /\ used' = (used \cup new) \ FreedFrames(b)
    /\ UNCHANGED <<heap_frames, failed, pc, start, end, frame, byte,
                   free, free_before>>

\* stack_base lies above two guard pages.
BadFailedStackBase == (Word - 1 + 2 * PageSize) % Word

\* The reaper frees what create_task made of 0xFFFFFFFF: stack_base wrapped
\* around, and the guard page lies outside of the bitmap.
FailedStackBase == (Word - 1 + PageSize) % Word

reap_failed ==
    /\ failed > 0
    /\ failed' = failed - 1
    /\ \E new \in NewTables :
        /\ vmm_map_page(new)
        /\ used' = (used \cup new) \ {frame_num(Word - 1), frame_num(FailedStackBase)}
    /\ UNCHANGED <<stacks, heap_frames, pc, start, end, frame, byte,
                   free, free_before>>

\* The command mem: pmm_free_count.
cmd_mem ==
    /\ pc = "idle"
    /\ pc' = "count"
    /\ free_before' = Frame \ used
    /\ UNCHANGED <<used, stacks, heap_frames, failed, start, end, frame, byte,
                   free, reaper_vars>>

\* A byte is tested as a whole.
BadIsFree(f) == used \cap Byte(f) = {}

IsFree(f) == f \notin used

pmm_free_count_test ==
    /\ pc = "count"
    /\ frame < MAX_FRAMES
    /\ free' = IF IsFree(frame) THEN free + 1 ELSE free
    /\ frame' = frame + 1
    /\ UNCHANGED <<used, stacks, heap_frames, failed, pc, start,
                   end, byte, free_before, reaper_vars>>

pmm_free_count_return ==
    /\ pc = "count"
    /\ frame = MAX_FRAMES
    /\ pc' = "idle" /\ frame' = 0 /\ free' = 0 /\ free_before' = {} /\ taken' = {}
    /\ UNCHANGED <<used, stacks, heap_frames, failed, start, end,
                   byte, tables, overtaken>>

-----------------------------------------------------------------------------
Next ==
    \/ create_task
    \/ pmm_alloc_frame_test \/ pmm_alloc_frame_load \/ pmm_alloc_frame_store
    \/ request_space_failed
    \/ pmm_alloc_contiguous_slide \/ pmm_alloc_contiguous_load
    \/ pmm_alloc_contiguous_store \/ pmm_alloc_contiguous_failed
    \/ \E b \in Frame : reap(b)
    \/ reap_failed
    \/ cmd_mem \/ pmm_free_count_test \/ pmm_free_count_return

Spec == Init /\ [][Next]_vars

-----------------------------------------------------------------------------
(* Properties                                                              *)

TypeOK ==
    /\ used \subseteq Frame
    /\ stacks \subseteq Frame
    /\ heap_frames \subseteq Frame
    /\ failed \in 0..MaxFailed
    /\ pc \in {"idle", "frame_scan", "frame_load", "frame_store",
               "window_scan", "fill_load", "fill_store", "count", "halted"}
    /\ start \in 0..MAX_FRAMES
    /\ end \in 0..MAX_FRAMES
    /\ frame \in 0..MAX_FRAMES
    /\ byte \subseteq Frame
    /\ free \in 0..MAX_FRAMES
    /\ free_before \subseteq Frame
    /\ tables \subseteq Frame
    /\ taken \subseteq tables
    /\ overtaken \in BOOLEAN

\* The stacks of tasks and the pages of the heap never overlap, although the
\* shell decides which frames are free by tests that the reaper may overtake.
\* A page table shares a frame with one of them only after the reaper took a
\* frame in the middle of an allocation of the shell.
OneOwner ==
    /\ \A a, b \in stacks : a # b => StackFrames(a) \cap StackFrames(b) = {}
    /\ \A b \in stacks : StackFrames(b) \cap heap_frames = {}
    /\ ~overtaken => /\ heap_frames \cap tables = {}
                     /\ \A b \in stacks : StackFrames(b) \cap tables = {}

\* The frame of a stack or of the heap stays marked, although the shell stores
\* whole bytes that it loaded before the reaper cleared bits of them.  So does
\* a page table, until the reaper took a frame in the middle of an allocation
\* of the shell; frame 0 is freed with a task without a stack.
OwnedMarked ==
    /\ \A b \in stacks : StackFrames(b) \subseteq used
    /\ heap_frames \subseteq used
    /\ ~overtaken => tables \ {0} \subseteq used

\* A frame that the shell has, for a stack or for the heap.
Owned(f) == f \in heap_frames \/ \E b \in stacks : f \in StackFrames(b)

\* A frame that was handed out.  Frame 0 becomes a page table after a task
\* without a stack was reaped.
HandedOut(f) == Owned(f) \/ f \in tables \ {0}

\* No byte of the kernel's image is in a frame that was handed out.
KernelProtected ==
    \A f \in Frame : HandedOut(f) =>
        f * PageSize >= KernelEnd \/ (f + 1) * PageSize <= KernelStart

\* Every byte of a frame that was handed out is in a region that the memory
\* map calls available, when these regions begin at a page.
InAvailableMemory ==
    \A f \in Frame : HandedOut(f) =>
        \E e \in Mmap : /\ e.type = 1
                        /\ e.addr <= f * PageSize
                        /\ (f + 1) * PageSize <= e.addr + e.len

\* What mem reports lies between what was free when it began and what is free
\* now, up to the frames that became page tables meanwhile: the reaper may free
\* and take frames behind or ahead of the count.
CountBounds ==
    pc = "count" /\ frame = MAX_FRAMES =>
        /\ Cardinality(free_before \ taken) <= free
        /\ free <= Cardinality((Frame \ used) \cup taken)

\* pmm_init says "Protect first 1MB": the low frames stay marked.
LowProtected == 0..(LowFrames - 1) \subseteq used

\* What pmm_init has marked stays marked, whatever the shell stores and the
\* reaper frees and takes; only frame 0 is lost, to a task without a stack that exits.
MarkedForGood == pmm_init \ {0} \subseteq used

=============================================================================
