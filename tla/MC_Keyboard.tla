---------------------------- MODULE MC_Keyboard ----------------------------
(* A buffer of three characters; the keyboard sends '1', '2', 'q', the     *)
(* control key (no character) and the release of '1'.                      *)
EXTENDS Keyboard

MC_Scancode == {2, 3, 16, 29, 130}
MC_ascii == [s \in 0..127 |-> CASE s = 2 -> 49 [] s = 3 -> 50 [] s = 16 -> 113
                                [] OTHER -> 0]
=============================================================================
