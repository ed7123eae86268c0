----------------------------- MODULE Pmm_proofs -----------------------------
(***************************************************************************)
(* TLAPS proofs about the page frame allocator: for every size of memory,   *)
(* of a page and of a bitmap byte, and every memory map, no frame has two   *)
(* owners and none of the kernel's memory is handed out.                    *)
(***************************************************************************)
EXTENDS Pmm, FiniteSetTheorems, TLAPS

\* The one-line tests and values of the actions are always expanded.
USE DEF LastFrame, FreedFrames, IsFree

-----------------------------------------------------------------------------
(* The inductive invariant                                                 *)

\* What pmm_init marked is never handed out; it stays marked, except for frame
\* 0, which the reaper frees after a task without a stack.
Permanent ==
    /\ \A f \in pmm_init : ~Owned(f)
    /\ \A f \in pmm_init : f # 0 => f \in used /\ f \notin tables

\* The stacks lie inside of memory.
StacksInside == \A b \in stacks : b + 1 \in Frame

\* The frames whose bits a store of the shell must not lose.
Settled(f) ==
    \/ Owned(f)
    \/ f \in pmm_init /\ f # 0
    \/ pc \in {"fill_load", "fill_store"} /\ frame = end /\ f = start

\* The frames that an allocation has chosen are not the shell's, and the byte
\* that it has loaded has the bits that must not get lost.
ShellInv ==
    /\ pc \notin {"window_scan", "fill_load", "fill_store"} => start = 0 /\ end = 0
    /\ pc = "window_scan" => start <= end /\ end <= start + 1
    /\ pc \in {"frame_load", "frame_store"} => frame \in Frame
    /\ pc \in {"fill_load", "fill_store"} =>
        /\ end = start + 1
        /\ start \in Frame /\ end \in Frame
        /\ start \notin pmm_init /\ end \notin pmm_init
        /\ frame \in {start, end}
        /\ ~Owned(start) /\ ~Owned(end)
        /\ frame = end => start \in used
    /\ \A f : FoundFree(f) => ~Owned(f) /\ (f # 0 => f \notin pmm_init)
    /\ \A f : Loaded(f) /\ Settled(f) => f \in byte

\* Until the reaper takes one of them, the frames that an allocation has chosen
\* are no one's, and the byte that it has loaded has every bit that is set now.
RaceInv ==
    ~overtaken =>
        /\ \A f : FoundFree(f) => f \notin used
        /\ pc \in {"frame_store", "fill_store"} => \A f : FoundFree(f) => f \notin byte
        /\ \A f : Loaded(f) /\ f \in used => f \in byte
        /\ pc \in {"fill_load", "fill_store"} => start \notin tables /\ end \notin tables

\* The counters stay within their bounds.
CountInv ==
    /\ pc \notin {"idle", "count", "halted"} => failed < MaxFailed
    /\ pc \in {"idle", "window_scan"} => frame = 0
    /\ pc # "count" => free = 0 /\ taken = {}
    /\ pc = "count" => free <= frame

IndInv ==
    /\ TypeOK
    /\ OneOwner
    /\ OwnedMarked
    /\ Permanent
    /\ StacksInside
    /\ ShellInv
    /\ RaceInv
    /\ CountInv

-----------------------------------------------------------------------------
(* Arithmetic                                                              *)

\* The quotient by the page size.
LEMMA FrameNum ==
    ASSUME NEW a \in Nat
    PROVE  /\ frame_num(a) \in Nat
           /\ frame_num(a) * PageSize <= a
           /\ a < (frame_num(a) + 1) * PageSize
  BY PmmAssumption DEF frame_num

\* Products with the page size are ordered as the frames are.
LEMMA PageOrder ==
    ASSUME NEW f \in Nat, NEW g \in Nat
    PROVE  f <= g <=> f * PageSize <= g * PageSize
  BY PmmAssumption

\* The addresses made of 0xFFFFFFFF: one is beyond the bitmap, one in frame 0.
LEMMA FailedFrames ==
    frame_num(Word - 1) \notin Frame /\ frame_num(FailedStackBase) = 0
<1>1. Word - 1 \in Nat /\ Word \in Nat /\ PageSize \in Nat \ {0} /\ MAX_FRAMES \in Nat
  BY PmmAssumption
<1>2. frame_num(Word - 1) \notin Frame
  <2>1. SUFFICES ASSUME frame_num(Word - 1) \in Frame PROVE FALSE
    OBVIOUS
  <2>2. Word - 1 < (frame_num(Word - 1) + 1) * PageSize
    BY <1>1, FrameNum
  <2>3. PICK g \in Nat : g = frame_num(Word - 1) + 1
    BY <1>1, <2>1 DEF Frame
  <2>4. g <= MAX_FRAMES
    BY <1>1, <2>1, <2>3 DEF Frame
  <2>5. g * PageSize <= MAX_FRAMES * PageSize
    BY <1>1, <2>4, PageOrder
  <2> QED
    BY <1>1, <2>2, <2>3, <2>5, PmmAssumption
<1>3. frame_num(FailedStackBase) = 0
  <2>1. FailedStackBase = PageSize - 1
    BY PmmAssumption DEF FailedStackBase
  <2> QED
    BY <1>1, <2>1 DEF frame_num
<1> QED
  BY <1>2, <1>3

\* A frame that is not marked by pmm_init has no byte of the kernel.
LEMMA NoKernelByte ==
    ASSUME NEW f \in Frame, f \notin pmm_init
    PROVE  f * PageSize >= KernelEnd \/ (f + 1) * PageSize <= KernelStart
<1>1. PageSize \in Nat \ {0} /\ KernelStart \in Nat /\ KernelEnd \in Nat /\ f \in Nat
  BY PmmAssumption DEF Frame
<1>2. f < frame_num(KernelStart) \/ frame_num(KernelEnd + (PageSize - 1)) <= f
  BY <1>1, FrameNum DEF pmm_init, KernelFrame
<1>3. CASE f < frame_num(KernelStart)
  <2>1. f + 1 <= frame_num(KernelStart) /\ frame_num(KernelStart) \in Nat
    BY <1>1, <1>3, FrameNum
  <2>2. (f + 1) * PageSize <= frame_num(KernelStart) * PageSize
    BY <1>1, <2>1, PageOrder
  <2> QED
    BY <1>1, <2>1, <2>2, FrameNum
<1>4. CASE frame_num(KernelEnd + (PageSize - 1)) <= f
  <2>1. PICK a \in Nat : a = KernelEnd + (PageSize - 1)
    BY <1>1
  <2>2. /\ frame_num(a) \in Nat
        /\ a < (frame_num(a) + 1) * PageSize
    BY <2>1, FrameNum
  <2>3. frame_num(a) * PageSize <= f * PageSize
    BY <1>1, <1>4, <2>1, <2>2, PageOrder
  <2>4. (frame_num(a) + 1) * PageSize = frame_num(a) * PageSize + PageSize
    BY <1>1, <2>2
  <2> QED
    BY <1>1, <2>1, <2>2, <2>3, <2>4
<1> QED
  BY <1>2, <1>3, <1>4

\* Frame 1 is low memory: it is marked, and no window begins at frame 0.
LEMMA LowMarked == 0 \in pmm_init /\ 1 \in pmm_init /\ pmm_init \subseteq Frame
  BY PmmAssumption DEF pmm_init, Frame
\* What the shell owns and what pmm_init marked is marked, so a frame that is
\* not marked is neither.
LEMMA Unmarked ==
    ASSUME IndInv, NEW f, f \notin used
    PROVE  /\ ~Owned(f)
           /\ f # 0 => f \notin pmm_init
           /\ ~overtaken /\ f # 0 => f \notin tables
  BY DEF IndInv, OwnedMarked, Permanent, Owned

\* A store keeps the bits that must not get lost, and every bit unless the
\* reaper has taken a frame since the load; it adds only the frame itself and
\* bits that were set when the byte was loaded.
LEMMA Store ==
    ASSUME IndInv, pc \in {"frame_store", "fill_store"},
           used' = (used \ Byte(frame)) \cup byte \cup {frame}
    PROVE  /\ \A f : Settled(f) => f \in used'
           /\ ~overtaken => used \subseteq used'
           /\ frame \in used'
           /\ \A f : f \in used' => f \in used \/ f \in byte \/ f = frame
<1>1. \A f : Settled(f) => f \in used
  BY DEF IndInv, OwnedMarked, Permanent, ShellInv, Settled, Owned
<1>2. \A f : Settled(f) /\ f \in Byte(frame) => f \in byte
  BY DEF IndInv, ShellInv, Loaded
<1>3. ~overtaken => \A f \in used : f \in Byte(frame) => f \in byte
  BY DEF IndInv, RaceInv, Loaded
<1> QED
  BY <1>1, <1>2, <1>3

\* pmm_alloc_contiguous stores the byte of the first frame.
LEMMA FillFirstStep ==
    ASSUME IndInv, pmm_alloc_contiguous_store, frame < end
    PROVE  IndInv'
<1>1. /\ end = start + 1 /\ start \in Frame /\ end \in Frame
      /\ start \notin pmm_init /\ end \notin pmm_init
      /\ frame = start /\ start # end
      /\ ~Owned(start) /\ ~Owned(end)
      /\ byte \subseteq Frame
      /\ pc = "fill_store"
  BY DEF IndInv, ShellInv, TypeOK, pmm_alloc_contiguous_store, Frame
<1>2. /\ used' = (used \ Byte(frame)) \cup byte \cup {frame}
      /\ pc' = "fill_load" /\ frame' = end /\ byte' = {}
      /\ UNCHANGED <<stacks, start, end, heap_frames, failed, free,
                     free_before, tables, taken, overtaken>>
  BY <1>1 DEF pmm_alloc_contiguous_store, Frame, reaper_vars
<1>3. /\ \A f : Settled(f) => f \in used'
      /\ ~overtaken => used \subseteq used'
      /\ frame \in used'
      /\ \A f : f \in used' => f \in used \/ f \in byte \/ f = frame
  BY <1>1, <1>2, Store
<1>4. \A f : Owned(f)' <=> Owned(f)
  BY <1>2 DEF Owned, StackFrames
<1>5. TypeOK'
  <2>1. used' \subseteq Frame
    BY <1>1, <1>3 DEF IndInv, TypeOK
  <2> QED
    BY <1>1, <1>2, <2>1 DEF IndInv, TypeOK
<1>6. OneOwner' /\ StacksInside'
  BY <1>2 DEF IndInv, OneOwner, StacksInside
<1>7. OwnedMarked'
  BY <1>2, <1>3 DEF IndInv, OwnedMarked, Settled, Owned
<1>8. Permanent'
  BY <1>2, <1>3, <1>4 DEF IndInv, Permanent, Settled
<1>9. \A f : FoundFree(f)' => f = end /\ FoundFree(f)
  BY <1>1, <1>2 DEF FoundFree, Frame
<1>10. \A f : ~Loaded(f)'
  BY <1>2 DEF Loaded
<1>11. ShellInv'
  BY <1>1, <1>2, <1>3, <1>4, <1>9, <1>10 DEF ShellInv
<1>12. RaceInv'
  <2>1. ~overtaken => end \notin used /\ end \notin byte
    BY <1>1 DEF IndInv, RaceInv, FoundFree, Frame
  <2> QED
    BY <1>1, <1>2, <1>3, <1>9, <1>10, <2>1 DEF IndInv, RaceInv
<1>13. CountInv'
  BY <1>2 DEF IndInv, CountInv, pmm_alloc_contiguous_store
<1> QED
  BY <1>5, <1>6, <1>7, <1>8, <1>11, <1>12, <1>13 DEF IndInv

\* pmm_alloc_contiguous stores the byte of the last frame and returns.
LEMMA FillLastStep ==
    ASSUME IndInv, pmm_alloc_contiguous_store, frame = end
    PROVE  IndInv'
<1>1. /\ end = start + 1 /\ start \in Frame /\ end \in Frame
      /\ start \notin pmm_init /\ end \notin pmm_init
      /\ ~Owned(start) /\ ~Owned(end)
      /\ byte \subseteq Frame
      /\ pc = "fill_store"
  BY DEF IndInv, ShellInv, TypeOK, pmm_alloc_contiguous_store
<1>2. /\ used' = (used \ Byte(frame)) \cup byte \cup {frame}
      /\ pc' = "idle" /\ frame' = 0 /\ start' = 0 /\ end' = 0 /\ byte' = {}
      /\ stacks' = stacks \cup {start}
      /\ UNCHANGED <<heap_frames, failed, free, free_before, tables, taken, overtaken>>
  BY <1>1 DEF pmm_alloc_contiguous_store, Frame, reaper_vars
<1>3. /\ \A f : Settled(f) => f \in used'
      /\ ~overtaken => used \subseteq used'
      /\ frame \in used'
      /\ \A f : f \in used' => f \in used \/ f \in byte \/ f = frame
  BY <1>1, <1>2, Store
<1>4. \A f : Owned(f)' <=> Owned(f) \/ f = start \/ f = end
  BY <1>1, <1>2 DEF Owned, StackFrames
<1>5. TypeOK'
  <2>1. used' \subseteq Frame /\ stacks' \subseteq Frame
    BY <1>1, <1>2, <1>3 DEF IndInv, TypeOK
  <2>2. 0 \in 0..MAX_FRAMES
    BY PmmAssumption
  <2> QED
    BY <1>2, <2>1, <2>2 DEF IndInv, TypeOK
<1>6. OneOwner'
  <2>1. ~overtaken => start \notin tables /\ end \notin tables
    BY <1>1 DEF IndInv, RaceInv
  <2> QED
    BY <1>1, <1>2, <2>1 DEF IndInv, OneOwner, Owned, StackFrames
<1>7. StacksInside'
  BY <1>1, <1>2 DEF IndInv, StacksInside
<1>8. OwnedMarked'
  <2>1. start \in used' /\ end \in used'
    BY <1>1, <1>3 DEF Settled
  <2> QED
    BY <1>1, <1>2, <1>3, <2>1 DEF IndInv, OwnedMarked, StackFrames, Settled, Owned
<1>9. Permanent'
  BY <1>1, <1>2, <1>3, <1>4 DEF IndInv, Permanent, Settled
<1>10. \A f : ~FoundFree(f)' /\ ~Loaded(f)'
  BY <1>2 DEF FoundFree, Loaded
<1>11. ShellInv' /\ RaceInv'
  BY <1>2, <1>10 DEF ShellInv, RaceInv
<1>12. CountInv'
  BY <1>2 DEF IndInv, CountInv, pmm_alloc_contiguous_store
<1> QED
  BY <1>5, <1>6, <1>7, <1>8, <1>9, <1>11, <1>12 DEF IndInv

\* pmm_alloc_frame stores the byte and returns.
LEMMA FrameStoreStep ==
    ASSUME IndInv, pmm_alloc_frame_store
    PROVE  IndInv'
<1>1. /\ frame \in Frame
      /\ start = 0 /\ end = 0
      /\ byte \subseteq Frame
      /\ pc = "frame_store"
  BY DEF IndInv, ShellInv, TypeOK, pmm_alloc_frame_store
<1>2. /\ used' = (used \ Byte(frame)) \cup byte \cup {frame}
      /\ pc' \in {"halted", "window_scan"} /\ frame' = 0 /\ byte' = {}
      /\ heap_frames' = IF frame = 0 THEN heap_frames ELSE heap_frames \cup {frame}
      /\ UNCHANGED <<stacks, start, end, failed, free, free_before, tables, taken, overtaken>>
  BY DEF pmm_alloc_frame_store, reaper_vars
<1>3. /\ \A f : Settled(f) => f \in used'
      /\ ~overtaken => used \subseteq used'
      /\ frame \in used'
      /\ \A f : f \in used' => f \in used \/ f \in byte \/ f = frame
  BY <1>1, <1>2, Store
<1>4. /\ ~Owned(frame)
      /\ frame # 0 => frame \notin pmm_init
      /\ ~overtaken /\ frame # 0 => frame \notin tables
  <2>1. FoundFree(frame)
    BY <1>1 DEF FoundFree
  <2>2. ~overtaken => frame \notin used
    BY <2>1 DEF IndInv, RaceInv
  <2> QED
    BY <2>1, <2>2, Unmarked DEF IndInv, ShellInv
<1>5. \A f : Owned(f)' <=> Owned(f) \/ (f = frame /\ frame # 0)
  BY <1>1, <1>2 DEF Owned
<1>6. TypeOK'
  BY <1>1, <1>2, <1>3, PmmAssumption DEF IndInv, TypeOK, Frame
<1>7. OneOwner' /\ StacksInside'
  BY <1>2, <1>4 DEF IndInv, OneOwner, StacksInside, Owned
<1>8. OwnedMarked'
  BY <1>2, <1>3 DEF IndInv, OwnedMarked, Settled, Owned
<1>9. Permanent'
  BY <1>2, <1>3, <1>4, <1>5 DEF IndInv, Permanent, Settled
<1>10. \A f : ~FoundFree(f)' /\ ~Loaded(f)'
  BY <1>1, <1>2 DEF FoundFree, Loaded
<1>11. ShellInv' /\ RaceInv'
  BY <1>1, <1>2, <1>10 DEF ShellInv, RaceInv
<1>12. CountInv'
  BY <1>2 DEF IndInv, CountInv, pmm_alloc_frame_store
<1> QED
  BY <1>6, <1>7, <1>8, <1>9, <1>11, <1>12 DEF IndInv

\* What vmm_map_page takes is a frame that is not marked, or nothing.
LEMMA NewTable ==
    ASSUME NEW new \in NewTables
    PROVE  new \subseteq Frame /\ \A f \in new : f \notin used
  BY DEF NewTables

\* The reaper's step, as far as the shell is concerned: vmm_map_page marks the
\* frames new, and the frames gone, which no allocation has chosen, are freed.
LEMMA ReaperStep ==
    ASSUME IndInv, NEW new \in NewTables, vmm_map_page(new),
           NEW gone, used' = (used \cup new) \ gone,
           \A f : Owned(f)' => Owned(f) /\ f \notin gone,
           \A f \in gone : f = 0 \/ Owned(f),
           UNCHANGED <<pc, start, end, frame, byte>>
    PROVE  Permanent' /\ ShellInv' /\ RaceInv'
<1>1. /\ new \subseteq Frame
      /\ \A f \in new : f \notin used /\ ~Owned(f) /\ (f # 0 => f \notin pmm_init)
  BY NewTable, Unmarked
<1>2. /\ tables' = tables \cup new
      /\ overtaken' = (overtaken \/ \E f \in new : FoundFree(f) \/ Loaded(f))
  BY DEF vmm_map_page
<1>3. \A f : (FoundFree(f)' <=> FoundFree(f)) /\ (Loaded(f)' <=> Loaded(f))
  BY DEF FoundFree, Loaded
<1>4. \A f : Settled(f)' => Settled(f)
  BY DEF Settled
<1>5. Permanent'
  BY <1>1, <1>2 DEF IndInv, Permanent
<1>6. ShellInv'
  <2>1. pc \in {"fill_load", "fill_store"} => start # 0 /\ start \notin gone /\ end # 0
    BY LowMarked DEF IndInv, ShellInv
  <2>2. \A f : Loaded(f)' /\ Settled(f)' => f \in byte'
    BY <1>3, <1>4 DEF IndInv, ShellInv
  <2>3. \A f : FoundFree(f)' => ~Owned(f)' /\ (f # 0 => f \notin pmm_init)
    BY <1>3 DEF IndInv, ShellInv
  <2>4. ASSUME pc \in {"fill_load", "fill_store"}
        PROVE  /\ ~Owned(start)' /\ ~Owned(end)'
               /\ frame = end => start \in used'
    <3>1. ~Owned(start) /\ ~Owned(end) /\ (frame = end => start \in used)
      BY <2>4 DEF IndInv, ShellInv
    <3> QED
      BY <2>1, <2>4, <3>1 DEF Owned
  <2> QED
    BY <2>2, <2>3, <2>4 DEF IndInv, ShellInv
<1>7. RaceInv'
  <2> SUFFICES ASSUME ~overtaken' PROVE RaceInv'
    BY DEF RaceInv
  <2>1. ~overtaken /\ \A f \in new : ~FoundFree(f) /\ ~Loaded(f)
    BY <1>2
  <2>2. pc \in {"fill_load", "fill_store"} =>
            start \notin new /\ end \notin new
    <3>1. ASSUME pc \in {"fill_load", "fill_store"} PROVE FoundFree(end)
      BY <3>1 DEF IndInv, ShellInv, FoundFree, Frame
    <3>2. ASSUME pc \in {"fill_load", "fill_store"} PROVE start \in used \/ FoundFree(start)
      BY <3>2 DEF IndInv, ShellInv, FoundFree, Frame
    <3> QED
      BY <1>1, <2>1, <3>1, <3>2
  <2> QED
    BY <1>2, <1>3, <2>1, <2>2 DEF IndInv, RaceInv
<1> QED
  BY <1>5, <1>6, <1>7

\* The reaper frees a stack.
LEMMA ReapStep ==
    ASSUME IndInv, NEW b \in Frame, reap(b)
    PROVE  IndInv'
<1>1. /\ b \in stacks /\ stacks' = stacks \ {b}
      /\ UNCHANGED <<heap_frames, failed, pc, start, end, frame, byte,
                     free, free_before>>
  BY DEF reap
<1>2. PICK new \in NewTables :
        vmm_map_page(new) /\ used' = (used \cup new) \ StackFrames(b)
  BY DEF reap
<1>3. /\ tables' = tables \cup new
      /\ taken' = IF pc = "count" THEN taken \cup new ELSE taken
      /\ overtaken' \in BOOLEAN
      /\ ~overtaken' => ~overtaken
  BY <1>2 DEF vmm_map_page
<1>4. new \subseteq Frame /\ \A f \in new : f \notin used /\ ~Owned(f)
  BY <1>2, NewTable, Unmarked
<1>5. \A f : Owned(f)' => Owned(f) /\ f \notin StackFrames(b)
  BY <1>1 DEF IndInv, OneOwner, Owned
<1>6. \A f \in StackFrames(b) : Owned(f)
  BY <1>1 DEF Owned
<1>7. TypeOK'
  BY <1>1, <1>2, <1>3, <1>4 DEF IndInv, TypeOK
<1>8. OneOwner' /\ StacksInside'
  <2>1. StacksInside'
    BY <1>1 DEF IndInv, StacksInside
  <2>2. ~overtaken' => /\ heap_frames' \cap tables' = {}
                       /\ \A a \in stacks' : StackFrames(a) \cap tables' = {}
    BY <1>1, <1>3, <1>4 DEF IndInv, OneOwner, Owned
  <2> QED
    BY <1>1, <2>1, <2>2 DEF IndInv, OneOwner
<1>9. OwnedMarked'
  <2>1. \A f : Owned(f)' => f \in used'
    BY <1>2, <1>5 DEF IndInv, OwnedMarked, Owned
  <2>2. ~overtaken' => tables' \ {0} \subseteq used'
    BY <1>1, <1>2, <1>3, <1>4, <1>6 DEF IndInv, OwnedMarked, OneOwner
  <2> QED
    BY <2>1, <2>2 DEF OwnedMarked, Owned
<1>10. Permanent' /\ ShellInv' /\ RaceInv'
  BY <1>1, <1>2, <1>5, <1>6, ReaperStep
<1>11. CountInv'
  BY <1>1, <1>3 DEF IndInv, CountInv
<1> QED
  BY <1>7, <1>8, <1>9, <1>10, <1>11 DEF IndInv

\* The reaper frees what create_task made of 0xFFFFFFFF.
LEMMA ReapFailedStep ==
    ASSUME IndInv, reap_failed
    PROVE  IndInv'
<1>1. /\ failed > 0 /\ failed' = failed - 1
      /\ UNCHANGED <<stacks, heap_frames, pc, start, end, frame, byte,
                     free, free_before>>
  BY DEF reap_failed
<1>2. PICK new \in NewTables :
        vmm_map_page(new) /\ used' = (used \cup new) \ {0}
  BY FailedFrames, NewTable DEF reap_failed, IndInv, TypeOK
<1>3. /\ tables' = tables \cup new
      /\ taken' = IF pc = "count" THEN taken \cup new ELSE taken
      /\ overtaken' \in BOOLEAN
      /\ ~overtaken' => ~overtaken
  BY <1>2 DEF vmm_map_page
<1>4. new \subseteq Frame /\ \A f \in new : f \notin used /\ ~Owned(f)
  BY <1>2, NewTable, Unmarked
<1>5. ~Owned(0)
  BY LowMarked DEF IndInv, Permanent
<1>6. \A f : Owned(f)' <=> Owned(f)
  BY <1>1 DEF Owned
<1>7. TypeOK'
  <2>1. failed' \in 0..MaxFailed
    BY <1>1, PmmAssumption DEF IndInv, TypeOK
  <2> QED
    BY <1>1, <1>2, <1>3, <1>4, <2>1 DEF IndInv, TypeOK
<1>8. OneOwner' /\ StacksInside'
  BY <1>1, <1>3, <1>4 DEF IndInv, OneOwner, StacksInside, Owned
<1>9. OwnedMarked'
  BY <1>1, <1>2, <1>3, <1>5 DEF IndInv, OwnedMarked, Owned
<1>10. Permanent' /\ ShellInv' /\ RaceInv'
  BY <1>1, <1>2, <1>5, <1>6, ReaperStep
<1>11. CountInv'
  BY <1>1, <1>3, PmmAssumption DEF IndInv, CountInv, TypeOK
<1> QED
  BY <1>7, <1>8, <1>9, <1>10, <1>11 DEF IndInv

\* A step that changes neither the bitmap nor what is owned.
LEMMA SameOwners ==
    ASSUME IndInv, UNCHANGED <<used, stacks, heap_frames, tables, overtaken>>
    PROVE  /\ OneOwner' /\ OwnedMarked' /\ Permanent' /\ StacksInside'
           /\ \A f : Owned(f)' <=> Owned(f)
<1>1. \A f : Owned(f)' <=> Owned(f)
  BY DEF Owned
<1> QED
  BY <1>1 DEF IndInv, OneOwner, OwnedMarked, Permanent, StacksInside

\* pmm_alloc_contiguous moves its window or settles on it.
LEMMA SlideStep ==
    ASSUME IndInv, pmm_alloc_contiguous_slide
    PROVE  IndInv'
<1>1. /\ pc = "window_scan" /\ end \in Frame /\ start \in Nat
      /\ start <= end /\ end <= start + 1 /\ frame = 0
      /\ end \in Nat /\ MAX_FRAMES \in Nat
  BY PmmAssumption
     DEF IndInv, TypeOK, ShellInv, CountInv, pmm_alloc_contiguous_slide, Frame
<1>2. /\ UNCHANGED <<used, stacks, heap_frames, failed, byte, free,
                     free_before, tables, taken, overtaken>>
      /\ \/ /\ end' = end + 1 /\ start' = end + 1
            /\ UNCHANGED <<pc, frame>>
         \/ /\ end \notin used /\ start = end
            /\ end' = end + 1
            /\ UNCHANGED <<start, pc, frame>>
         \/ /\ end \notin used /\ end = start + 1
            /\ pc' = "fill_load" /\ frame' = start
            /\ UNCHANGED <<start, end>>
  BY <1>1 DEF pmm_alloc_contiguous_slide, Frame, reaper_vars
<1>3. /\ OneOwner' /\ OwnedMarked' /\ Permanent' /\ StacksInside'
      /\ \A f : Owned(f)' <=> Owned(f)
  BY <1>2, SameOwners
<1>4. TypeOK'
  BY <1>1, <1>2, PmmAssumption DEF IndInv, TypeOK, Frame
<1>5. \A f : FoundFree(f)' => FoundFree(f) \/ (f = end /\ end \notin used)
  BY <1>1, <1>2 DEF FoundFree, Frame
<1>6. \A f : ~Loaded(f)'
  BY <1>1, <1>2 DEF Loaded
<1>7. end \notin used => ~Owned(end) /\ (end # 0 => end \notin pmm_init)
  BY Unmarked
<1>8. \A f : FoundFree(f)' => ~Owned(f)' /\ (f # 0 => f \notin pmm_init)
  BY <1>3, <1>5, <1>7 DEF IndInv, ShellInv
<1>9. ASSUME pc' = "fill_load"
      PROVE  /\ start' = start /\ end' = end /\ frame' = start
             /\ end = start + 1 /\ end \notin used
             /\ start \in Frame /\ start # 0 /\ end # 0
             /\ FoundFree(start) /\ start # end
  <2>1. /\ end \notin used /\ end = start + 1 /\ frame' = start
        /\ UNCHANGED <<start, end>>
    BY <1>1, <1>2, <1>9
  <2>2. start # 0
    BY <1>1, <2>1, LowMarked DEF IndInv, Permanent
  <2> QED
    BY <1>1, <2>1, <2>2, PmmAssumption DEF Frame, FoundFree
<1>10. ShellInv'
  <2>1. CASE pc' = "fill_load"
    <3>1. /\ ~Owned(start) /\ ~Owned(end)
          /\ start \notin pmm_init /\ end \notin pmm_init
      BY <1>7, <1>9, <2>1 DEF IndInv, ShellInv
    <3>2. ~Owned(start)' /\ ~Owned(end)'
      BY <1>3, <1>9, <2>1, <3>1 DEF Owned
    <3> QED
      BY <1>1, <1>6, <1>8, <1>9, <2>1, <3>1, <3>2 DEF ShellInv
  <2>2. CASE pc' = "window_scan"
    BY <1>1, <1>2, <1>6, <1>8, <2>2 DEF ShellInv, Frame
  <2> QED
    BY <1>1, <1>2, <2>1, <2>2
<1>11. RaceInv'
  <2> SUFFICES ASSUME ~overtaken' PROVE RaceInv'
    BY DEF RaceInv
  <2>1. \A f : FoundFree(f)' => f \notin used
    BY <1>2, <1>5 DEF IndInv, RaceInv
  <2>2. ASSUME pc' = "fill_load" PROVE start \notin tables /\ end \notin tables
    BY <1>2, <1>9, <2>2, Unmarked DEF IndInv, RaceInv
  <2> QED
    BY <1>1, <1>2, <1>6, <1>9, <2>1, <2>2 DEF RaceInv
<1>12. CountInv'
  BY <1>1, <1>2 DEF IndInv, CountInv
<1> QED
  BY <1>3, <1>4, <1>10, <1>11, <1>12 DEF IndInv

\* create_task begins.
LEMMA CreateStep ==
    ASSUME IndInv, create_task
    PROVE  IndInv'
<1>1. /\ OneOwner' /\ OwnedMarked' /\ Permanent' /\ StacksInside'
      /\ \A f : Owned(f)' <=> Owned(f)
  BY SameOwners DEF create_task, reaper_vars
<1>2. TypeOK'
  BY PmmAssumption DEF IndInv, TypeOK, CountInv, create_task, reaper_vars, Frame
<1>3. \A f : ~FoundFree(f)' /\ ~Loaded(f)'
  BY DEF IndInv, ShellInv, FoundFree, Loaded, create_task
<1>4. ShellInv' /\ RaceInv'
  BY <1>1, <1>3 DEF IndInv, ShellInv, RaceInv, create_task
<1>5. CountInv'
  BY DEF IndInv, TypeOK, CountInv, create_task, reaper_vars
<1> QED
  BY <1>1, <1>2, <1>4, <1>5 DEF IndInv

\* request_space gets no frame.
LEMMA NoFrameStep ==
    ASSUME IndInv, request_space_failed
    PROVE  IndInv'
<1>1. /\ OneOwner' /\ OwnedMarked' /\ Permanent' /\ StacksInside'
      /\ \A f : Owned(f)' <=> Owned(f)
  BY SameOwners DEF request_space_failed, reaper_vars
<1>2. TypeOK'
  BY PmmAssumption DEF IndInv, TypeOK, CountInv, request_space_failed, reaper_vars, Frame
<1>3. \A f : ~FoundFree(f)' /\ ~Loaded(f)'
  BY DEF IndInv, ShellInv, FoundFree, Loaded, request_space_failed
<1>4. ShellInv' /\ RaceInv'
  BY <1>1, <1>3 DEF IndInv, ShellInv, RaceInv, request_space_failed
<1>5. CountInv'
  BY DEF IndInv, TypeOK, CountInv, request_space_failed, reaper_vars
<1> QED
  BY <1>1, <1>2, <1>4, <1>5 DEF IndInv

\* pmm_alloc_contiguous finds no window.
LEMMA NoWindowStep ==
    ASSUME IndInv, pmm_alloc_contiguous_failed
    PROVE  IndInv'
<1>1. /\ OneOwner' /\ OwnedMarked' /\ Permanent' /\ StacksInside'
      /\ \A f : Owned(f)' <=> Owned(f)
  BY SameOwners DEF pmm_alloc_contiguous_failed, reaper_vars
<1>2. TypeOK'
  BY PmmAssumption DEF IndInv, TypeOK, CountInv, pmm_alloc_contiguous_failed, reaper_vars, Frame
<1>3. \A f : ~FoundFree(f)' /\ ~Loaded(f)'
  BY DEF IndInv, ShellInv, FoundFree, Loaded, pmm_alloc_contiguous_failed
<1>4. ShellInv' /\ RaceInv'
  BY <1>1, <1>3 DEF IndInv, ShellInv, RaceInv, pmm_alloc_contiguous_failed
<1>5. CountInv'
  BY DEF IndInv, TypeOK, CountInv, pmm_alloc_contiguous_failed, reaper_vars
<1> QED
  BY <1>1, <1>2, <1>4, <1>5 DEF IndInv

\* The command mem begins to count.
LEMMA MemStep ==
    ASSUME IndInv, cmd_mem
    PROVE  IndInv'
<1>1. /\ OneOwner' /\ OwnedMarked' /\ Permanent' /\ StacksInside'
      /\ \A f : Owned(f)' <=> Owned(f)
  BY SameOwners DEF cmd_mem, reaper_vars
<1>2. TypeOK'
  BY PmmAssumption DEF IndInv, TypeOK, CountInv, cmd_mem, reaper_vars, Frame
<1>3. \A f : ~FoundFree(f)' /\ ~Loaded(f)'
  BY DEF IndInv, ShellInv, FoundFree, Loaded, cmd_mem
<1>4. ShellInv' /\ RaceInv'
  BY <1>1, <1>3 DEF IndInv, ShellInv, RaceInv, cmd_mem
<1>5. CountInv'
  BY DEF IndInv, TypeOK, CountInv, cmd_mem, reaper_vars
<1> QED
  BY <1>1, <1>2, <1>4, <1>5 DEF IndInv

\* pmm_free_count tests a bit.
LEMMA CountStep ==
    ASSUME IndInv, pmm_free_count_test
    PROVE  IndInv'
<1>1. /\ OneOwner' /\ OwnedMarked' /\ Permanent' /\ StacksInside'
      /\ \A f : Owned(f)' <=> Owned(f)
  BY SameOwners DEF pmm_free_count_test, reaper_vars
<1>2. TypeOK'
  BY PmmAssumption DEF IndInv, TypeOK, CountInv, pmm_free_count_test, reaper_vars, Frame
<1>3. \A f : ~FoundFree(f)' /\ ~Loaded(f)'
  BY DEF IndInv, ShellInv, FoundFree, Loaded, pmm_free_count_test
<1>4. ShellInv' /\ RaceInv'
  BY <1>1, <1>3 DEF IndInv, ShellInv, RaceInv, pmm_free_count_test
<1>5. CountInv'
  BY DEF IndInv, TypeOK, CountInv, pmm_free_count_test, reaper_vars
<1> QED
  BY <1>1, <1>2, <1>4, <1>5 DEF IndInv

\* pmm_free_count returns.
LEMMA CountReturnStep ==
    ASSUME IndInv, pmm_free_count_return
    PROVE  IndInv'
<1>1. /\ OneOwner' /\ OwnedMarked' /\ Permanent' /\ StacksInside'
      /\ \A f : Owned(f)' <=> Owned(f)
  BY SameOwners DEF pmm_free_count_return, reaper_vars
<1>2. TypeOK'
  BY PmmAssumption DEF IndInv, TypeOK, CountInv, pmm_free_count_return, reaper_vars, Frame
<1>3. \A f : ~FoundFree(f)' /\ ~Loaded(f)'
  BY DEF IndInv, ShellInv, FoundFree, Loaded, pmm_free_count_return
<1>4. ShellInv' /\ RaceInv'
  BY <1>1, <1>3 DEF IndInv, ShellInv, RaceInv, pmm_free_count_return
<1>5. CountInv'
  BY DEF IndInv, TypeOK, CountInv, pmm_free_count_return, reaper_vars
<1> QED
  BY <1>1, <1>2, <1>4, <1>5 DEF IndInv

\* pmm_alloc_frame tests a bit.
LEMMA FrameTestStep ==
    ASSUME IndInv, pmm_alloc_frame_test
    PROVE  IndInv'
<1>1. /\ OneOwner' /\ OwnedMarked' /\ Permanent' /\ StacksInside'
      /\ \A f : Owned(f)' <=> Owned(f)
  BY SameOwners DEF pmm_alloc_frame_test, reaper_vars
<1>2. TypeOK'
  BY PmmAssumption DEF IndInv, TypeOK, CountInv, pmm_alloc_frame_test, reaper_vars, Frame
<1>3. /\ \A f : FoundFree(f)' => f = frame /\ f \notin used
      /\ \A f : ~Loaded(f)'
  BY DEF FoundFree, Loaded, pmm_alloc_frame_test
<1>4. ShellInv'
  <2>1. \A f : FoundFree(f)' => ~Owned(f)' /\ (f # 0 => f \notin pmm_init)
    BY <1>1, <1>3, Unmarked
  <2> QED
    BY <1>1, <1>3, <2>1, PmmAssumption DEF IndInv, TypeOK, ShellInv, pmm_alloc_frame_test, Frame
<1>5. RaceInv'
  BY <1>3 DEF RaceInv, pmm_alloc_frame_test
<1>6. CountInv'
  BY DEF IndInv, TypeOK, CountInv, pmm_alloc_frame_test, reaper_vars
<1> QED
  BY <1>1, <1>2, <1>4, <1>5, <1>6 DEF IndInv

\* pmm_alloc_frame loads a byte of the bitmap.
LEMMA FrameLoadStep ==
    ASSUME IndInv, pmm_alloc_frame_load
    PROVE  IndInv'
<1>1. /\ OneOwner' /\ OwnedMarked' /\ Permanent' /\ StacksInside'
      /\ \A f : Owned(f)' <=> Owned(f)
  BY SameOwners DEF pmm_alloc_frame_load, reaper_vars
<1>2. TypeOK'
  BY PmmAssumption DEF IndInv, TypeOK, CountInv, pmm_alloc_frame_load, reaper_vars, Frame, Byte
<1>3. /\ byte' = used \cap Byte(frame)
      /\ \A f : FoundFree(f)' <=> FoundFree(f)
      /\ \A f : Loaded(f)' => f \in Byte(frame)
      /\ \A f : Settled(f)' => Settled(f)
  BY <1>1 DEF FoundFree, Loaded, Settled, pmm_alloc_frame_load
<1>4. \A f : Settled(f) => f \in used
  BY DEF IndInv, OwnedMarked, Permanent, ShellInv, Settled, Owned
<1>5. ShellInv'
  <2>1. /\ \A f : FoundFree(f)' => ~Owned(f)' /\ (f # 0 => f \notin pmm_init)
        /\ \A f : Loaded(f)' /\ Settled(f)' => f \in byte'
    BY <1>1, <1>3, <1>4 DEF IndInv, ShellInv
  <2>2. ~Owned(start) /\ ~Owned(end) => ~Owned(start)' /\ ~Owned(end)'
    BY DEF Owned, pmm_alloc_frame_load
  <2> QED
    BY <2>1, <2>2 DEF IndInv, ShellInv, pmm_alloc_frame_load
<1>6. RaceInv'
  BY <1>3 DEF IndInv, RaceInv, pmm_alloc_frame_load, reaper_vars
<1>7. CountInv'
  BY DEF IndInv, TypeOK, CountInv, pmm_alloc_frame_load, reaper_vars
<1> QED
  BY <1>1, <1>2, <1>5, <1>6, <1>7 DEF IndInv

\* pmm_alloc_contiguous loads a byte of the bitmap.
LEMMA FillLoadStep ==
    ASSUME IndInv, pmm_alloc_contiguous_load
    PROVE  IndInv'
<1>1. /\ OneOwner' /\ OwnedMarked' /\ Permanent' /\ StacksInside'
      /\ \A f : Owned(f)' <=> Owned(f)
  BY SameOwners DEF pmm_alloc_contiguous_load, reaper_vars
<1>2. TypeOK'
  BY PmmAssumption DEF IndInv, TypeOK, CountInv, pmm_alloc_contiguous_load, reaper_vars, Frame, Byte
<1>3. /\ byte' = used \cap Byte(frame)
      /\ \A f : FoundFree(f)' <=> FoundFree(f)
      /\ \A f : Loaded(f)' => f \in Byte(frame)
      /\ \A f : Settled(f)' => Settled(f)
  BY <1>1 DEF FoundFree, Loaded, Settled, pmm_alloc_contiguous_load
<1>4. \A f : Settled(f) => f \in used
  BY DEF IndInv, OwnedMarked, Permanent, ShellInv, Settled, Owned
<1>5. ShellInv'
  <2>1. /\ \A f : FoundFree(f)' => ~Owned(f)' /\ (f # 0 => f \notin pmm_init)
        /\ \A f : Loaded(f)' /\ Settled(f)' => f \in byte'
    BY <1>1, <1>3, <1>4 DEF IndInv, ShellInv
  <2>2. ~Owned(start) /\ ~Owned(end) => ~Owned(start)' /\ ~Owned(end)'
    BY DEF Owned, pmm_alloc_contiguous_load
  <2> QED
    BY <2>1, <2>2 DEF IndInv, ShellInv, pmm_alloc_contiguous_load
<1>6. RaceInv'
  BY <1>3 DEF IndInv, RaceInv, pmm_alloc_contiguous_load, reaper_vars
<1>7. CountInv'
  BY DEF IndInv, TypeOK, CountInv, pmm_alloc_contiguous_load, reaper_vars
<1> QED
  BY <1>1, <1>2, <1>5, <1>6, <1>7 DEF IndInv

-----------------------------------------------------------------------------
(* Invariance                                                              *)

\* pmm_init establishes the invariant.
LEMMA InitInv == Init => IndInv
<1> SUFFICES ASSUME Init PROVE IndInv
  OBVIOUS
<1>1. TypeOK
  <2>1. 0 \in 0..MAX_FRAMES /\ 0 \in 0..MaxFailed
    BY PmmAssumption
  <2> QED
    BY <2>1, LowMarked DEF Init, TypeOK
<1>2. OneOwner /\ OwnedMarked /\ StacksInside /\ \A f : ~Owned(f)
  BY DEF Init, OneOwner, OwnedMarked, StacksInside, Owned
<1>3. Permanent
  BY <1>2 DEF Init, Permanent
<1>4. \A f : ~FoundFree(f) /\ ~Loaded(f)
  BY DEF Init, FoundFree, Loaded
<1>5. ShellInv /\ RaceInv /\ CountInv
  BY <1>4 DEF Init, ShellInv, RaceInv, CountInv
<1> QED
  BY <1>1, <1>2, <1>3, <1>5 DEF IndInv

\* A step that changes nothing.
LEMMA StutterStep ==
    ASSUME IndInv, UNCHANGED vars
    PROVE  IndInv'
<1>1. /\ OneOwner' /\ OwnedMarked' /\ Permanent' /\ StacksInside'
      /\ \A f : Owned(f)' <=> Owned(f)
  BY SameOwners DEF vars, reaper_vars
<1>2. TypeOK' /\ CountInv'
  BY DEF IndInv, TypeOK, CountInv, vars, reaper_vars
<1>3. \A f : /\ FoundFree(f)' <=> FoundFree(f)
             /\ Loaded(f)' <=> Loaded(f)
             /\ Settled(f)' <=> Settled(f)
  BY <1>1 DEF FoundFree, Loaded, Settled, vars
<1>4. ShellInv'
  <2>1. ~Owned(start) /\ ~Owned(end) => ~Owned(start)' /\ ~Owned(end)'
    BY DEF Owned, vars
  <2> QED
    BY <1>1, <1>3, <2>1 DEF IndInv, ShellInv, vars
<1>5. RaceInv'
  BY <1>3 DEF IndInv, RaceInv, vars, reaper_vars
<1> QED
  BY <1>1, <1>2, <1>4, <1>5 DEF IndInv

\* Every step keeps the invariant.
LEMMA StepInv == IndInv /\ [Next]_vars => IndInv'
<1> SUFFICES ASSUME IndInv, [Next]_vars PROVE IndInv'
  OBVIOUS
<1>1. CASE pmm_alloc_contiguous_store
  <2>1. frame < end \/ frame = end
    BY <1>1 DEF pmm_alloc_contiguous_store
  <2> QED
    BY <1>1, <2>1, FillFirstStep, FillLastStep
<1>2. CASE \E b \in Frame : reap(b)
  BY <1>2, ReapStep
<1>3. CASE create_task \/ pmm_alloc_frame_test \/ pmm_alloc_frame_load \/ pmm_alloc_frame_store
  BY <1>3, CreateStep, FrameTestStep, FrameLoadStep, FrameStoreStep
<1>4. CASE request_space_failed \/ pmm_alloc_contiguous_slide
           \/ pmm_alloc_contiguous_load \/ pmm_alloc_contiguous_failed
  BY <1>4, NoFrameStep, SlideStep, FillLoadStep, NoWindowStep
<1>5. CASE reap_failed \/ cmd_mem \/ pmm_free_count_test \/ pmm_free_count_return
  BY <1>5, ReapFailedStep, MemStep, CountStep, CountReturnStep
<1>6. CASE UNCHANGED vars
  BY <1>6, StutterStep
<1> QED
  BY <1>1, <1>2, <1>3, <1>4, <1>5, <1>6 DEF Next

\* The invariant holds in every state of every behaviour.
LEMMA Invariance == Spec => []IndInv
  BY InitInv, StepInv, PTL DEF Spec

\* The bitmap, the window and the counters stay within their bounds.
THEOREM TypeCorrect == Spec => []TypeOK
<1>1. IndInv => TypeOK
  BY DEF IndInv
<1> QED
  BY <1>1, Invariance, PTL

\* pmm_alloc_frame and pmm_alloc_contiguous never hand the shell a frame that it
\* has already, wherever the reaper preempts them; and none that is a page table,
\* unless the reaper took a frame in the middle of an allocation of the shell.
THEOREM NoDoubleAllocation == Spec => []OneOwner
<1>1. IndInv => OneOwner
  BY DEF IndInv
<1> QED
  BY <1>1, Invariance, PTL

\* The stale byte that the shell stores never unmarks a frame of a stack or of
\* the heap, and a page table only when the reaper took it after the load.
THEOREM MarksKept == Spec => []OwnedMarked
<1>1. IndInv => OwnedMarked
  BY DEF IndInv
<1> QED
  BY <1>1, Invariance, PTL

\* pmm_init's rounding keeps every byte of the kernel out of the pool, and no
\* sequence of allocations and frees brings one in.
THEOREM KernelSafe == Spec => []KernelProtected
<1>1. IndInv => KernelProtected
  <2> SUFFICES ASSUME IndInv, NEW f \in Frame, HandedOut(f)
               PROVE  f * PageSize >= KernelEnd \/ (f + 1) * PageSize <= KernelStart
    BY DEF KernelProtected
  <2>1. f \notin pmm_init
    BY DEF IndInv, Permanent, HandedOut
  <2> QED
    BY <2>1, NoKernelByte
<1> QED
  BY <1>1, Invariance, PTL

\* No stale byte and no free of the reaper unmarks what pmm_init marked, apart
\* from frame 0.
THEOREM MarkedStays == Spec => []MarkedForGood
<1>1. IndInv => MarkedForGood
  BY DEF IndInv, Permanent, MarkedForGood
<1> QED
  BY <1>1, Invariance, PTL

-----------------------------------------------------------------------------
(* The memory map                                                          *)

\* The regions that are available begin at a page, as those of a PC do.
RegionsAtPages == \A e \in Mmap : e.type = 1 => e.addr % PageSize = 0

\* A frame that pmm_init leaves free is in an available region as a whole.
LEMMA WholeFrame ==
    ASSUME RegionsAtPages, NEW f \in Frame, f \notin pmm_init
    PROVE  \E e \in Mmap : /\ e.type = 1
                           /\ e.addr <= f * PageSize
                           /\ (f + 1) * PageSize <= e.addr + e.len
<1>1. PICK e \in Mmap : /\ e.type = 1
                        /\ frame_num(e.addr) <= f
                        /\ f < frame_num(e.addr + e.len)
  BY DEF pmm_init, Available
<1>2. PICK a \in Nat, b \in Nat : a = e.addr /\ b = e.addr + e.len
  BY PmmAssumption
<1>3. PageSize \in Nat \ {0} /\ f \in Nat /\ f + 1 \in Nat
  BY PmmAssumption DEF Frame
<1>4. a <= f * PageSize
  <2>1. a % PageSize = 0
    BY <1>1, <1>2 DEF RegionsAtPages
  <2>2. frame_num(a) \in Nat /\ frame_num(a) * PageSize = a
    BY <1>3, <2>1 DEF frame_num
  <2> QED
    BY <1>1, <1>2, <1>3, <2>2, PageOrder
<1>5. (f + 1) * PageSize <= b
  <2>1. frame_num(b) \in Nat /\ frame_num(b) * PageSize <= b
    BY FrameNum
  <2>2. f + 1 <= frame_num(b)
    BY <1>1, <1>2, <1>3, <2>1
  <2>3. (f + 1) * PageSize <= frame_num(b) * PageSize
    BY <1>3, <2>1, <2>2, PageOrder
  <2>4. PICK p \in Nat, q \in Nat : p = (f + 1) * PageSize /\ q = frame_num(b) * PageSize
    BY <1>3, <2>1
  <2> QED
    BY <2>1, <2>3, <2>4
<1> QED
  BY <1>1, <1>2, <1>4, <1>5

\* Every byte that the allocators hand out is memory that the map calls
\* available, wherever its regions end.
THEOREM HolesAvoided ==
    ASSUME RegionsAtPages
    PROVE  Spec => []InAvailableMemory
<1>1. IndInv => InAvailableMemory
  <2> SUFFICES ASSUME IndInv, NEW f \in Frame, HandedOut(f)
               PROVE  \E e \in Mmap : /\ e.type = 1
                                      /\ e.addr <= f * PageSize
                                      /\ (f + 1) * PageSize <= e.addr + e.len
    BY DEF InAvailableMemory
  <2>1. f \notin pmm_init
    BY DEF IndInv, Permanent, HandedOut
  <2> QED
    BY <2>1, WholeFrame
<1> QED
  BY <1>1, Invariance, PTL

-----------------------------------------------------------------------------
(* The count of free frames                                                *)

\* C are the frames that pmm_free_count has counted: each of them is free still
\* or became a page table, and none that was free all the time and is behind the
\* loop is missing.
Counted(C) ==
    /\ IsFiniteSet(C) /\ Cardinality(C) = free
    /\ C \subseteq (Frame \ used) \cup taken
    /\ \A f \in C : f < frame /\ f \in Frame
    /\ \A f \in free_before \ taken : f < frame => f \in C

CountedInv ==
    pc = "count" =>
        /\ free_before \ taken \subseteq Frame \ used
        /\ \E C : Counted(C)

\* The reaper clears bits, and sets none but those of the frames it takes.
LEMMA ReaperCounted ==
    ASSUME CountedInv, NEW new, used' \subseteq used \cup new,
           pc = "count" => taken' = taken \cup new,
           UNCHANGED <<pc, frame, free, free_before>>
    PROVE  CountedInv'
<1> SUFFICES ASSUME pc = "count" PROVE CountedInv'
  BY DEF CountedInv
<1>1. PICK C : Counted(C)
  BY DEF CountedInv
<1>2. Counted(C)'
  BY <1>1 DEF Counted
<1> QED
  BY <1>2 DEF CountedInv

\* One iteration of the loop.
LEMMA CountedStep ==
    ASSUME IndInv, CountedInv, pmm_free_count_test
    PROVE  CountedInv'
<1>1. PICK C : Counted(C)
  BY DEF CountedInv, pmm_free_count_test
<1>2. /\ frame \in Frame /\ frame \in Nat /\ free \in Nat
      /\ frame' = frame + 1 /\ UNCHANGED <<used, free_before, taken>>
      /\ free_before \ taken \subseteq Frame \ used
      /\ Frame \subseteq Nat
  BY PmmAssumption DEF IndInv, TypeOK, CountedInv, pmm_free_count_test, Frame, reaper_vars
<1>3. \A f \in Frame : f < frame' <=> f < frame \/ f = frame
  BY <1>2
<1>4. CASE frame \notin used
  <2>1. frame \notin C /\ free' = free + 1
    BY <1>1, <1>2, <1>4 DEF Counted, pmm_free_count_test
  <2>2. PICK D : D = C \cup {frame}
    OBVIOUS
  <2>3. IsFiniteSet(D) /\ Cardinality(D) = free'
    BY <1>1, <2>1, <2>2, FS_AddElement DEF Counted
  <2>4. Counted(D)'
    BY <1>1, <1>2, <1>3, <1>4, <2>2, <2>3 DEF Counted
  <2> QED
    BY <1>2, <2>4 DEF CountedInv
<1>5. CASE frame \in used
  <2>1. frame \notin free_before \ taken /\ free' = free
    BY <1>2, <1>5 DEF pmm_free_count_test
  <2>2. Counted(C)'
    BY <1>1, <1>2, <1>3, <2>1 DEF Counted
  <2> QED
    BY <1>2, <2>2 DEF CountedInv
<1> QED
  BY <1>4, <1>5

\* The command mem begins with an empty count.
LEMMA CountedStart ==
    ASSUME IndInv, cmd_mem
    PROVE  CountedInv'
<1>1. /\ frame' = 0 /\ free' = 0
      /\ free_before' = Frame \ used /\ used' = used /\ taken' = {}
  BY DEF IndInv, CountInv, cmd_mem, reaper_vars
<1>2. Counted({})'
  <2>1. \A f \in Frame : ~(f < 0)
    BY PmmAssumption DEF Frame
  <2> QED
    BY <1>1, <2>1, FS_EmptySet DEF Counted
<1> QED
  BY <1>1, <1>2 DEF CountedInv

\* Every step keeps what the count rests on.
LEMMA CountedStepInv == IndInv /\ CountedInv /\ [Next]_vars => CountedInv'
<1> SUFFICES ASSUME IndInv, CountedInv, [Next]_vars PROVE CountedInv'
  OBVIOUS
<1>1. CASE reap_failed \/ \E b \in Frame : reap(b)
  <2>1. PICK new \in NewTables : vmm_map_page(new) /\ used' \subseteq used \cup new
    BY <1>1 DEF reap_failed, reap
  <2> QED
    BY <1>1, <2>1, ReaperCounted DEF reap_failed, reap, vmm_map_page
<1>2. CASE cmd_mem
  BY <1>2, CountedStart
<1>3. CASE pmm_free_count_test
  BY <1>3, CountedStep
<1>4. CASE pmm_free_count_return \/ create_task \/ pmm_alloc_frame_test
           \/ pmm_alloc_frame_load \/ pmm_alloc_frame_store
           \/ request_space_failed \/ pmm_alloc_contiguous_slide
           \/ pmm_alloc_contiguous_load \/ pmm_alloc_contiguous_store
           \/ pmm_alloc_contiguous_failed
  <2>1. pc' # "count"
    BY <1>4 DEF pmm_free_count_return, create_task, pmm_alloc_frame_test,
           pmm_alloc_frame_load, pmm_alloc_frame_store, request_space_failed,
           pmm_alloc_contiguous_slide, pmm_alloc_contiguous_load,
           pmm_alloc_contiguous_store, pmm_alloc_contiguous_failed
  <2> QED
    BY <2>1 DEF CountedInv
<1>5. CASE UNCHANGED vars
  <2>1. used' \subseteq used \cup {} /\ taken' = taken \cup {}
    BY <1>5 DEF vars, reaper_vars
  <2> QED
    BY <1>5, <2>1, ReaperCounted DEF vars
<1> QED
  BY <1>1, <1>2, <1>3, <1>4, <1>5 DEF Next

\* What mem prints lies between the number of frames that were free when it
\* began and the number that are free when it ends, up to the frames that became
\* page tables meanwhile, whatever the reaper frees and takes behind or ahead of
\* the loop.
THEOREM CountCorrect == Spec => []CountBounds
<1>1. Init => CountedInv
  BY DEF Init, CountedInv
<1>2. IndInv /\ CountedInv => CountBounds
  <2> SUFFICES ASSUME IndInv, CountedInv, pc = "count", frame = MAX_FRAMES
               PROVE  /\ Cardinality(free_before \ taken) <= free
                      /\ free <= Cardinality((Frame \ used) \cup taken)
    BY DEF CountBounds
  <2>1. PICK C : Counted(C)
    BY DEF CountedInv
  <2>2. free_before \ taken \subseteq C
    BY <2>1, PmmAssumption DEF CountedInv, Counted, Frame
  <2>3. IsFiniteSet(Frame)
    BY PmmAssumption, FS_Interval DEF Frame
  <2>4. IsFiniteSet((Frame \ used) \cup taken)
    <3>1. (Frame \ used) \cup taken \subseteq Frame
      BY DEF IndInv, TypeOK
    <3> QED
      BY <2>3, <3>1, FS_Subset
  <2> QED
    BY <2>1, <2>2, <2>4, FS_Subset DEF Counted
<1> QED
  BY <1>1, <1>2, InitInv, StepInv, CountedStepInv, PTL DEF Spec
=============================================================================
