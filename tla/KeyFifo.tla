------------------------------ MODULE KeyFifo ------------------------------
(***************************************************************************)
(* What the keyboard buffer promises the shell: the keys that are typed     *)
(* come out in the order in which they went in, each once, and a key is     *)
(* dropped only while Capacity keys are waiting.  A press is visible in the *)
(* variable typed, whether the key is kept or dropped: an implementation    *)
(* that loses a key takes a step that this specification does not allow.    *)
(***************************************************************************)
EXTENDS Naturals, Sequences

CONSTANTS
    Key,        \* the characters a key press can produce
    Capacity    \* how many of them can wait

VARIABLES
    typed,      \* the last key pressed, and a bit that every press flips
    waiting,    \* the keys that wait, oldest first
    received    \* the key the reader got last, or none

fifoVars == <<typed, waiting, received>>

FifoInit == typed = <<0, 0>> /\ waiting = <<>> /\ received = <<>>

Press(k) ==
    /\ typed' = <<k, 1 - typed[2]>>
    /\ \/ Len(waiting) < Capacity /\ waiting' = Append(waiting, k)
       \/ Len(waiting) = Capacity /\ UNCHANGED waiting
    /\ UNCHANGED received

Receive ==
    /\ waiting # <<>>
    /\ received' = <<Head(waiting)>>
    /\ waiting' = Tail(waiting)
    /\ UNCHANGED typed

\* The reader is done with the key it got.
Consume ==
    /\ received' = <<>>
    /\ UNCHANGED <<typed, waiting>>

FifoNext == (\E k \in Key : Press(k)) \/ Receive \/ Consume

FifoSpec == FifoInit /\ [][FifoNext]_fifoVars

=============================================================================
