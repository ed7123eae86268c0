------------------------------ MODULE Keyboard ------------------------------
(***************************************************************************)
(* The keyboard driver of pelikanOS (src/keyboard.c): the interrupt handler *)
(* deposits a character in a ring buffer, the shell takes it out.           *)
(*                                                                         *)
(* The handler runs through an interrupt gate, so it is one action.  The    *)
(* shell tests rb->len with interrupts on, and only then turns them off to  *)
(* take the character: a handler may run in between.  The shell is the only *)
(* task that calls kbd_getchar.  The definitions named Bad... are mistakes  *)
(* that the properties are known to catch; no specification uses them.      *)
(***************************************************************************)
EXTENDS Naturals, Sequences

CONSTANTS
    RINGBUF_SIZE,
    Word,               \* one more than the largest value of a uint32_t
    Scancode,           \* the bytes the keyboard controller sends
    scancode_to_ascii   \* the table, 0 for a key without a character

\* A byte with bit 7 set reports the release of a key; the table has an entry
\* for each of the others.
ASSUME KeyboardAssumption ==
    /\ RINGBUF_SIZE \in Nat \ {0}
    /\ Word \in Nat
    /\ RINGBUF_SIZE < Word
    /\ Scancode \subseteq 0..255
    /\ scancode_to_ascii \in [0..127 -> Nat]

VARIABLES
    data,      \* rb->data
    head,      \* rb->head, where the next character goes
    tail,      \* rb->tail, where the oldest character is
    len,       \* rb->len
    pop_pc,    \* where the shell is in its loop
    c,         \* the shell's variable c, empty before kbd_getchar fills it
    typed      \* the last key pressed that has a character, and a bit that
               \* every such press flips, whatever becomes of the key

vars == <<data, head, tail, len, pop_pc, c, typed>>

Key == {scancode_to_ascii[s] : s \in 0..127} \ {0}

-----------------------------------------------------------------------------
\* keyboard_init; data is in .bss, so it starts as zeros.
ringbuf_init ==
    /\ data = [i \in 0..(RINGBUF_SIZE - 1) |-> 0]
    /\ head = 0
    /\ tail = 0
    /\ len = 0

Init ==
    /\ ringbuf_init
    /\ pop_pc = "poll"
    /\ c = <<>>
    /\ typed = <<0, 0>>

NextIndex(i) == (i + 1) % RINGBUF_SIZE

\* A slot of the buffer is never used.
BadFull == len + 1 = RINGBUF_SIZE

Full == len = RINGBUF_SIZE

ringbuf_push(byte) ==
    \/ /\ Full
       /\ UNCHANGED <<data, head, len>>
    \/ /\ ~Full
       /\ data' = [data EXCEPT ![head] = byte]
       /\ head' = NextIndex(head)
       /\ len' = (len + 1) % Word

keyboard_handler ==
    /\ \E scancode \in Scancode :
        \/ /\ scancode >= 128
           /\ UNCHANGED <<data, head, len, typed>>
        \/ /\ scancode < 128
           /\ scancode_to_ascii[scancode] = 0
           /\ UNCHANGED <<data, head, len, typed>>
        \/ /\ scancode < 128
           /\ scancode_to_ascii[scancode] # 0
           /\ typed' = <<scancode_to_ascii[scancode], 1 - typed[2]>>
           /\ ringbuf_push(scancode_to_ascii[scancode])
    /\ UNCHANGED <<tail, pop_pc, c>>

\* The buffer is not tested for being empty.
BadEmpty == FALSE

Empty == len = 0

\* ringbuf_pop, the test: with an empty buffer the shell polls again.
ringbuf_pop_test ==
    /\ pop_pc = "poll"
    /\ ~Empty
    /\ pop_pc' = "take"
    /\ UNCHANGED <<data, head, tail, len, c, typed>>

Oldest == data[tail]

Decremented == (len + (Word - 1)) % Word

\* ringbuf_pop, with interrupts off: the length may have grown meanwhile.
ringbuf_pop_take ==
    /\ pop_pc = "take"
    /\ c' = <<Oldest>>
    /\ tail' = NextIndex(tail)
    /\ len' = Decremented
    /\ pop_pc' = "got"
    /\ UNCHANGED <<data, head, typed>>

\* shell_run acts on the character.
shell_consume ==
    /\ pop_pc = "got"
    /\ c' = <<>>
    /\ pop_pc' = "poll"
    /\ UNCHANGED <<data, head, tail, len, typed>>

kbd_getchar == ringbuf_pop_test \/ ringbuf_pop_take

Next == keyboard_handler \/ kbd_getchar \/ shell_consume

Spec == Init /\ [][Next]_vars

-----------------------------------------------------------------------------
(* Properties                                                              *)

TypeOK ==
    /\ data \in [0..(RINGBUF_SIZE - 1) -> Key \cup {0}]
    /\ head \in 0..(RINGBUF_SIZE - 1)
    /\ tail \in 0..(RINGBUF_SIZE - 1)
    /\ len \in 0..RINGBUF_SIZE
    /\ pop_pc \in {"poll", "take", "got"}
    /\ c \in Seq(Key) /\ Len(c) <= 1
    /\ typed \in (Key \cup {0}) \X {0, 1}

\* The three numbers agree: len is the distance from tail to head, which are
\* equal both when the buffer is empty and when it is full.
LengthIsDistance == head = (tail + len) % RINGBUF_SIZE

\* The test of len is made with interrupts on, yet it still holds when the
\* shell takes the character: len never wraps below zero and no stale byte is
\* handed out.
TestStillHolds == pop_pc = "take" => len > 0

\* The characters in the buffer, oldest first.
Contents == [i \in 1..len |-> data[(tail + i - 1) % RINGBUF_SIZE]]

Fifo == INSTANCE KeyFifo WITH
            Capacity <- RINGBUF_SIZE, waiting <- Contents, received <- c

\* The ring buffer implements the queue of KeyFifo: nothing lost, duplicated
\* or reordered by an interrupt at any point of ringbuf_pop, and a key dropped
\* only when RINGBUF_SIZE keys wait.
ImplementsFifo == Fifo!FifoSpec

=============================================================================
