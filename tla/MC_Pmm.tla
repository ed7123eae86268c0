------------------------------- MODULE MC_Pmm -------------------------------
(* Eleven frames of four bytes, four to a byte of the bitmap.  Frames 0 and  *)
(* 1 are low memory, the kernel ends inside frame 2, frame 6 is a hole in   *)
(* the memory map and the last region ends inside frame 10.                 *)
EXTENDS Pmm

MC_Mmap == {[addr |-> 0, len |-> 7, type |-> 1],
            [addr |-> 8, len |-> 16, type |-> 1],
            [addr |-> 24, len |-> 4, type |-> 2],
            [addr |-> 28, len |-> 14, type |-> 1]}
=============================================================================
