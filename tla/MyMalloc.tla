------------------------------ MODULE MyMalloc ------------------------------
(***************************************************************************)
(* The allocator of src/my_malloc/src/my_malloc.c: every request moves the  *)
(* program break up by a header and the bytes asked for, and appends the    *)
(* new block to a list; my_free marks a block, and no block is used again.  *)
(*                                                                         *)
(* The list is a sequence; a block has the address of its header.  Requests *)
(* are so small that BLOCK_SIZE + size is a positive intptr_t.              *)
(***************************************************************************)
EXTENDS Naturals, Sequences, TLAPS

VARIABLES
    brk,     \* the program break
    list,    \* the blocks from head on
    result   \* what the last call returned, or 0 for NULL

vars == <<brk, list, result>>

BLOCK_SIZE == 24   \* sizeof(block_t): size_t, int and its padding, a pointer

Block == [addr : Nat, size : Nat, free : BOOLEAN]

Init == brk \in Nat /\ list = <<>> /\ result = 0

\* The library beside the allocator moves the break up as well.
other_sbrk(n) ==
    /\ brk' = brk + n
    /\ UNCHANGED <<list, result>>

\* sbrk succeeds: the block begins at the old break.
my_malloc(n) ==
    /\ n # 0
    /\ brk' = brk + BLOCK_SIZE + n
    /\ list' = Append(list, [addr |-> brk, size |-> n, free |-> FALSE])
    /\ result' = brk + BLOCK_SIZE

\* A request for nothing, or sbrk fails.
my_malloc_null ==
    /\ result' = 0
    /\ UNCHANGED <<brk, list>>

\* my_free of what a call returned for block i, once or more than once; of
\* NULL it does nothing.
my_free(i) ==
    /\ list' = [list EXCEPT ![i].free = TRUE]
    /\ UNCHANGED <<brk, result>>

Next ==
    \/ \E n \in Nat : other_sbrk(n) \/ my_malloc(n)
    \/ my_malloc_null
    \/ \E i \in 1..Len(list) : my_free(i)

Spec == Init /\ [][Next]_vars

-----------------------------------------------------------------------------
(* Properties                                                              *)

\* The address behind the last byte of a block.
End(b) == b.addr + BLOCK_SIZE + b.size

\* The blocks lie in memory in the order of the list, below the break.
Ordered ==
    /\ brk \in Nat
    /\ list \in Seq(Block)
    /\ \A i \in 1..Len(list) : End(list[i]) <= brk
    /\ \A i, j \in 1..Len(list) : i < j => End(list[i]) <= list[j].addr

\* No byte is in two blocks, their headers included, freed or not.
Disjoint ==
    \A i, j \in 1..Len(list) : i # j =>
        End(list[i]) <= list[j].addr \/ End(list[j]) <= list[i].addr

\* What a call returned is the payload of a block that keeps its size.
SizesKept ==
    [][\A i \in 1..Len(list) :
          /\ i <= Len(list')
          /\ list'[i].addr = list[i].addr /\ list'[i].size = list[i].size]_vars

-----------------------------------------------------------------------------
\* The end of a block is a number.
LEMMA EndType == \A b \in Block : b.addr \in Nat /\ b.size \in Nat /\ End(b) \in Nat
BY DEF Block, End, BLOCK_SIZE

\* Moving the break up, appending a block at the old break and marking a block
\* keep the blocks in order.
LEMMA OrderedKept == Ordered /\ [Next]_vars => Ordered'
<1> SUFFICES ASSUME Ordered, [Next]_vars PROVE Ordered'
    OBVIOUS
<1>0. /\ brk \in Nat /\ list \in Seq(Block)
      /\ \A i \in 1..Len(list) : list[i] \in Block /\ End(list[i]) <= brk
      /\ \A i, j \in 1..Len(list) : i < j => End(list[i]) <= list[j].addr
    BY DEF Ordered
<1>1. ASSUME NEW n \in Nat, other_sbrk(n) PROVE Ordered'
    <2>1. \A i \in 1..Len(list) : End(list[i]) <= brk + n
        BY <1>0, EndType
    <2> QED BY <1>0, <1>1, <2>1 DEF other_sbrk, Ordered, End
<1>2. ASSUME NEW n \in Nat, my_malloc(n) PROVE Ordered'
    <2> DEFINE new == [addr |-> brk, size |-> n, free |-> FALSE]
    <2>1. list' = Append(list, new) /\ brk' = brk + 24 + n
        BY <1>2 DEF my_malloc, BLOCK_SIZE
    <2>2. new \in Block /\ End(new) = brk + 24 + n /\ new.addr = brk
        BY <1>0 DEF Block, End, BLOCK_SIZE
    <2> HIDE DEF new
    <2>3. /\ list' \in Seq(Block) /\ Len(list') = Len(list) + 1
          /\ \A i \in 1..Len(list) : list'[i] = list[i]
          /\ list'[Len(list) + 1] = new
        BY <1>0, <2>1, <2>2
    <2>4. \A i \in 1..Len(list') : End(list'[i]) <= brk'
        BY <1>0, <2>1, <2>2, <2>3, EndType
    <2>5. ASSUME NEW i \in 1..Len(list'), NEW j \in 1..Len(list'), i < j
          PROVE End(list'[i]) <= list'[j].addr
        <3>1. i \in 1..Len(list)
            BY <1>0, <2>3, <2>5
        <3>2. CASE j \in 1..Len(list)
            BY <1>0, <2>3, <2>5, <3>1, <3>2
        <3>3. CASE j = Len(list) + 1
            BY <1>0, <2>2, <2>3, <3>1, <3>3
        <3> QED BY <1>0, <2>3, <3>2, <3>3
    <2>6. brk' \in Nat
        BY <1>0, <2>1
    <2> QED BY <2>3, <2>4, <2>5, <2>6 DEF Ordered, End
<1>3. CASE my_malloc_null
    BY <1>0, <1>3 DEF my_malloc_null, Ordered, End
<1>4. ASSUME NEW k \in 1..Len(list), my_free(k) PROVE Ordered'
    <2>1. list[k] \in Block
        BY <1>0
    <2>2. [list[k] EXCEPT !.free = TRUE] \in Block
        BY <2>1 DEF Block
    <2>3. /\ list' \in Seq(Block) /\ Len(list') = Len(list) /\ brk' = brk
          /\ \A i \in 1..Len(list) :
                list'[i] = IF i = k THEN [list[k] EXCEPT !.free = TRUE] ELSE list[i]
        BY <1>0, <1>4, <2>2 DEF my_free
    <2>4. \A i \in 1..Len(list) : list'[i].addr = list[i].addr /\ list'[i].size = list[i].size
        BY <2>1, <2>3 DEF Block
    <2>5. \A i \in 1..Len(list) : End(list'[i]) = End(list[i])
        BY <2>4 DEF End
    <2> QED BY <1>0, <2>3, <2>4, <2>5 DEF Ordered, End
<1>5. CASE UNCHANGED vars
    BY <1>0, <1>5 DEF vars, Ordered, End
<1> QED BY <1>1, <1>2, <1>3, <1>4, <1>5 DEF Next

\* my_malloc never hands out a byte twice, whatever is freed and whoever else
\* moves the break.
THEOREM AllocationsDisjoint == Spec => []Disjoint
<1>1. Init => Ordered
    BY DEF Init, Ordered
<1>2. Ordered => Disjoint
    <2> SUFFICES ASSUME Ordered, NEW i \in 1..Len(list), NEW j \in 1..Len(list), i # j
                 PROVE End(list[i]) <= list[j].addr \/ End(list[j]) <= list[i].addr
        BY DEF Disjoint
    <2>1. i < j \/ j < i
        BY DEF Ordered
    <2> QED BY <2>1 DEF Ordered
<1> QED BY <1>1, <1>2, OrderedKept, PTL DEF Spec

\* A block stays where it is and as large as it is for ever.
THEOREM AllocationsStay == Spec => SizesKept
<1>1. Ordered /\ [Next]_vars =>
        [\A i \in 1..Len(list) :
          /\ i <= Len(list')
          /\ list'[i].addr = list[i].addr /\ list'[i].size = list[i].size]_vars
    <2> SUFFICES ASSUME Ordered, Next, NEW i \in 1..Len(list)
                 PROVE /\ i <= Len(list')
                       /\ list'[i].addr = list[i].addr /\ list'[i].size = list[i].size
        OBVIOUS
    <2>0. list \in Seq(Block) /\ list[i] \in Block
        BY DEF Ordered
    <2>1. CASE \E n \in Nat : other_sbrk(n)
        BY <2>0, <2>1 DEF other_sbrk
    <2>2. ASSUME NEW n \in Nat, my_malloc(n)
          PROVE i <= Len(list') /\ list'[i] = list[i]
        BY <2>0, <2>2 DEF my_malloc
    <2>3. CASE my_malloc_null
        BY <2>0, <2>3 DEF my_malloc_null
    <2>4. CASE \E k \in 1..Len(list) : my_free(k)
        BY <2>0, <2>4 DEF my_free, Block
    <2> QED BY <2>1, <2>2, <2>3, <2>4 DEF Next
<1>2. Init => Ordered
    BY DEF Init, Ordered
<1> QED BY <1>1, <1>2, OrderedKept, PTL DEF Spec, SizesKept

=============================================================================
