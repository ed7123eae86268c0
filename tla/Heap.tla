-------------------------------- MODULE Heap --------------------------------
(***************************************************************************)
(* The kernel heap of pelikanOS (src/heap.c): a list of blocks, first fit,  *)
(* split on allocation and merged with their neighbours when freed.         *)
(*                                                                         *)
(* create_task is the only caller of kmalloc and asks for sizeof(task_t)    *)
(* bytes each time.  The shell calls it with interrupts on, so that the     *)
(* reaper, which calls kfree with interrupts off, may run between any two   *)
(* of its accesses to the headers of blocks: each is an action here.  kmain *)
(* creates the first tasks with interrupts off; they never exit.            *)
(*                                                                         *)
(* A block is the address of its header.  The header that a merge leaves    *)
(* inside of the larger block stays readable, as it does in memory.         *)
(***************************************************************************)
EXTENDS Naturals, FiniteSets, Sequences

CONSTANTS
    BLOCK_SIZE,   \* bytes of a header
    Size,         \* sizeof(task_t)
    FrameSize,    \* bytes of a page frame
    Frames,       \* bound: the frames from which the heap is served
    BootTasks,    \* the tasks that kmain creates
    AfterRace     \* whether the heap is followed after a race

\* A frame holds records without a rest, as 4096 bytes hold 64 of them; so a
\* block is an exact fit or can be split.
ASSUME HeapAssumption ==
    /\ BLOCK_SIZE \in Nat \ {0} /\ Size \in Nat \ {0} /\ FrameSize \in Nat \ {0}
    /\ FrameSize % (BLOCK_SIZE + Size) = 0
    /\ Frames \in Nat /\ BootTasks \in Nat
    /\ AfterRace \in BOOLEAN

Null == Frames * FrameSize
Addr == 0..(Null - 1)

VARIABLES
    head,             \* the first block
    size, free, magic, next, prev,   \* the fields of the headers
    frames,           \* the frames that the heap got
    owned,            \* the blocks that belong to a task, by address
    boot,             \* those of the tasks that kmain created
    pc, current, last,   \* kmalloc: where it is, and its locals
    raced,            \* history: a merge touched the block kmalloc stands on
    diag              \* what kfree reported before it halted the machine

fields == <<size, free, magic, next, prev>>
vars == <<head, fields, frames, owned, boot, pc, current, last, raced, diag>>

Init ==
    /\ head = Null
    /\ size = [a \in Addr |-> 0] /\ free = [a \in Addr |-> FALSE]
    /\ magic = [a \in Addr |-> "none"]
    /\ next = [a \in Addr |-> Null] /\ prev = [a \in Addr |-> Null]
    /\ frames = {} /\ owned = {} /\ boot = {}
    /\ pc = "idle" /\ current = Null /\ last = Null
    /\ raced = FALSE /\ diag = "none"

Set(f, a, v) == [f EXCEPT ![a] = v]

-----------------------------------------------------------------------------
(* kmalloc, one access to shared memory after the other.                    *)

kmalloc ==
    /\ pc = "idle" /\ diag = "none"
    /\ raced => AfterRace
    /\ current' = head /\ last' = Null
    /\ pc' = "free"
    /\ UNCHANGED <<head, fields, frames, owned, boot, raced, diag>>

\* current->free; the end of the list.
kmalloc_free ==
    /\ pc = "free"
    /\ pc' = CASE current = Null -> "request"
               [] current # Null /\ free[current] -> "size"
               [] OTHER -> "advance"
    /\ UNCHANGED <<head, fields, frames, owned, boot, current, last, raced, diag>>

\* current->size: an exact fit, room for another block, or a few bytes over.
\* The three comparisons read it one by one, but the size of a free block can
\* only grow meanwhile, and one that is not exact can be split.
Fit(s) ==
    CASE s = Size -> "take"
      [] s >= Size + BLOCK_SIZE + 1 -> "split"
      [] s > Size -> "take"
      [] OTHER -> "advance"

kmalloc_size ==
    /\ pc = "size"
    /\ pc' = Fit(size[current])
    /\ UNCHANGED <<head, fields, frames, owned, boot, current, last, raced, diag>>

\* last = current; current = current->next.
kmalloc_advance ==
    /\ pc = "advance"
    /\ last' = current /\ current' = next[current]
    /\ pc' = "free"
    /\ UNCHANGED <<head, fields, frames, owned, boot, raced, diag>>

\* request_space: a block that fills a new frame, behind the last one.  Which
\* frame pmm_alloc_frame returns depends on who else has frames.
request_space(f) ==
    LET block == f * FrameSize
    IN  /\ pc = "request"
        /\ frames' = frames \cup {f}
        /\ size' = Set(size, block, FrameSize - BLOCK_SIZE)
        /\ free' = Set(free, block, TRUE)
        /\ magic' = Set(magic, block, "FREE")
        /\ next' = IF last = Null THEN Set(next, block, Null)
                   ELSE Set(Set(next, block, Null), last, block)
        /\ prev' = Set(prev, block, last)
        /\ head' = IF last = Null THEN block ELSE head
        /\ current' = block
        /\ pc' = "free"
        /\ UNCHANGED <<owned, boot, last, raced, diag>>

new_block == current + BLOCK_SIZE + Size

\* The header of the new block is forgotten.
BadRest(s) == s - Size

\* What is left of a block of s bytes for the new block.
Rest(s) == s - Size - BLOCK_SIZE

split_size ==
    /\ pc = "split"
    /\ size' = Set(size, new_block, Rest(size[current]))
    /\ free' = Set(free, new_block, TRUE)
    /\ pc' = "split_next"
    /\ UNCHANGED <<head, magic, next, prev, frames, owned, boot, current, last,
                   raced, diag>>

\* new_block->next = current->next, its prev and its stamp.
split_next ==
    /\ pc = "split_next"
    /\ next' = Set(next, new_block, next[current])
    /\ prev' = Set(prev, new_block, current)
    /\ magic' = Set(magic, new_block, "FREE")
    /\ pc' = "shrink"
    /\ UNCHANGED <<head, size, free, frames, owned, boot, current, last, raced,
                   diag>>

split_shrink ==
    /\ pc = "shrink"
    /\ size' = Set(size, current, Size)
    /\ pc' = "split_take"
    /\ UNCHANGED <<head, free, magic, next, prev, frames, owned, boot, current,
                   last, raced, diag>>

\* current->free = 0, in each of the three branches.
kmalloc_take ==
    /\ pc \in {"take", "split_take"}
    /\ free' = Set(free, current, FALSE)
    /\ pc' = IF pc = "take" THEN "stamp" ELSE "link"
    /\ UNCHANGED <<head, size, magic, next, prev, frames, owned, boot, current,
                   last, raced, diag>>

split_link ==
    /\ pc = "link"
    /\ next' = Set(next, current, new_block)
    /\ pc' = "stamp"
    /\ UNCHANGED <<head, size, free, magic, prev, frames, owned, boot, current,
                   last, raced, diag>>

\* The stamp, and the return to create_task.
kmalloc_return ==
    /\ pc = "stamp"
    /\ magic' = Set(magic, current, "ALLOC")
    /\ owned' = owned \cup {current}
    /\ boot' = IF Cardinality(boot) < BootTasks THEN boot \cup {current} ELSE boot
    /\ pc' = "idle" /\ current' = Null /\ last' = Null
    /\ UNCHANGED <<head, size, free, next, prev, frames, raced, diag>>

-----------------------------------------------------------------------------
(* kfree, in one piece.  h is the record of the five fields of the headers. *)

heap == [size |-> size, free |-> free, magic |-> magic, next |-> next, prev |-> prev]

\* The block behind a is free, wherever it is.
BadAdjacent(h, a, b) == TRUE

\* Block b begins where block a ends.
Adjacent(h, a, b) == a + BLOCK_SIZE + h.size[a] = b

\* Nobody points back to the larger block.
BadBackLink(h, a, b) == h.prev

\* The block behind b points back to a, which is about to swallow b.
BackLink(h, a, b) ==
    IF h.next[b] = Null THEN h.prev ELSE Set(h.prev, h.next[b], a)

\* Block a swallows block b, which follows it in the list.
Merge(h, a, b) ==
    [h EXCEPT !.size = Set(h.size, a, h.size[a] + BLOCK_SIZE + h.size[b]),
              !.next = Set(h.next, a, h.next[b]),
              !.prev = BackLink(h, a, b)]

CanMerge(h, a, b) ==
    /\ a # Null /\ b # Null
    /\ Adjacent(h, a, b)

\* The block that is freed, then what the two merges make of it.
Freed(b) == [heap EXCEPT !.free = Set(free, b, TRUE), !.magic = Set(magic, b, "FREE")]

MergesNext(h, b) ==
    h.next[b] # Null /\ h.free[h.next[b]] /\ CanMerge(h, b, h.next[b])

MergesPrev(h, b) ==
    h.prev[b] # Null /\ h.free[h.prev[b]] /\ CanMerge(h, h.prev[b], b)

CoalesceNext(h, b) == IF MergesNext(h, b) THEN Merge(h, b, h.next[b]) ELSE h

CoalescePrev(h, b) == IF MergesPrev(h, b) THEN Merge(h, h.prev[b], b) ELSE h

\* The blocks of which a merge changes the size or that it swallows.
Touched(b) ==
    LET h == CoalesceNext(Freed(b), b)
    IN  (IF MergesNext(Freed(b), b) THEN {b, next[b]} ELSE {})
        \cup (IF MergesPrev(h, b) THEN {b, prev[b]} ELSE {})

kfree(b) ==
    /\ diag = "none"
    /\ b \in owned \ boot
    /\ owned' = owned \ {b}
    /\ \/ /\ magic[b] = "ALLOC"
          /\ LET h == CoalescePrev(CoalesceNext(Freed(b), b), b)
             IN  /\ size' = h.size /\ free' = h.free /\ magic' = h.magic
                 /\ next' = h.next /\ prev' = h.prev
          /\ raced' = (raced \/ ({current, last} \ {Null}) \cap Touched(b) # {})
          /\ UNCHANGED diag
       \/ /\ magic[b] = "FREE"
          /\ diag' = "double free"
          /\ UNCHANGED <<fields, raced>>
       \/ /\ magic[b] \notin {"ALLOC", "FREE"}
          /\ diag' = "not my block"
          /\ UNCHANGED <<fields, raced>>
    /\ UNCHANGED <<head, frames, boot, pc, current, last>>

-----------------------------------------------------------------------------
Next ==
    \/ kmalloc \/ kmalloc_free \/ kmalloc_size \/ kmalloc_advance
    \/ \E f \in (0..(Frames - 1)) \ frames : request_space(f)
    \/ split_size \/ split_next \/ split_shrink \/ kmalloc_take \/ split_link
    \/ kmalloc_return
    \/ \E b \in Addr : kfree(b)

Spec == Init /\ [][Next]_vars

-----------------------------------------------------------------------------
(* Properties                                                              *)

TypeOK ==
    /\ head \in Addr \cup {Null}
    /\ size \in [Addr -> 0..Null] /\ free \in [Addr -> BOOLEAN]
    /\ magic \in [Addr -> {"none", "FREE", "ALLOC"}]
    /\ next \in [Addr -> Addr \cup {Null}] /\ prev \in [Addr -> Addr \cup {Null}]
    /\ frames \subseteq 0..(Frames - 1)
    /\ owned \subseteq Addr /\ boot \subseteq owned
    /\ current \in Addr \cup {Null} /\ last \in Addr \cup {Null}
    /\ pc \in {"idle", "free", "size", "advance", "request", "split",
               "split_next", "shrink", "take", "split_take", "link", "stamp"}
    /\ raced \in BOOLEAN
    /\ diag \in {"none", "double free", "not my block"}

\* The list, from head on, for one step more than there can be blocks.
Behind(a) == IF a = Null THEN Null ELSE next[a]

Walk == LET at[i \in 0..(Null \div (BLOCK_SIZE + Size))] ==
               IF i = 0 THEN head ELSE Behind(at[i - 1])
        IN  at

Blocks == LET w == Walk IN {w[i] : i \in DOMAIN w} \ {Null}

\* The bytes of a block, its header included.
Extent(b) == b..(b + BLOCK_SIZE + size[b] - 1)

HeapBytes == UNION {(f * FrameSize)..((f + 1) * FrameSize - 1) : f \in frames}

\* kmalloc is cutting a block in two.
Cutting == pc \in {"split_take", "link"}

\* The blocks of the list share the frames of the heap among them: no byte is
\* in two blocks and none is lost, and the list ends.
Tiled ==
    ~raced /\ ~Cutting =>
        LET blocks == Blocks
        IN  /\ Walk[Null \div (BLOCK_SIZE + Size)] = Null
            /\ UNION {Extent(b) : b \in blocks} = HeapBytes
            /\ \A a, b \in blocks : a # b => Extent(a) \cap Extent(b) = {}

\* What belongs to a task is a block of the list that is not free, carries the
\* stamp and is large enough; and nothing else is marked as taken.
OwnedBlocks ==
    ~raced => LET blocks == Blocks IN
        /\ \A b \in owned : b \in blocks /\ ~free[b] /\ magic[b] = "ALLOC" /\ size[b] >= Size
        /\ \A b \in blocks \ owned :
              \/ b = current /\ pc \in {"link", "stamp"}
              \/ free[b] /\ magic[b] = "FREE"

\* kmalloc never hands out a block that belongs to a task.
NotHandedOutTwice ==
    [][~raced /\ pc = "stamp" /\ pc' = "idle" => current \notin owned]_vars

\* kfree reports a double free, or a foreign block, only for one: the reaper
\* frees the record of a task once.
AccurateDiagnostics == diag = "none"

=============================================================================
