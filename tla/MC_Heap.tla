------------------------------ MODULE MC_Heap ------------------------------
(* Frames of four records; three tasks are created at boot.                 *)
EXTENDS Heap
=============================================================================
