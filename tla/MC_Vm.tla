------------------------------- MODULE MC_Vm -------------------------------
(* Code arrays of five bytes.  The first set has every array of four bytes   *)
(* out of thirteen before an OP_HALT: all the shapes of instruction, an      *)
(* unknown opcode, jumps to every place, also into the middle of an          *)
(* instruction and behind the end.  In the second any instruction follows    *)
(* two pushes.                                                               *)
EXTENDS Vm

Bytes == {0, OP_PUSH, OP_POP, OP_ADD, OP_DIV, OP_PRINT, OP_JMP,
          OP_JMP_IF_FALSE, OP_LOAD, OP_STORE, OP_CALL, OP_RET, OP_HALT}

MC_Codes ==
    {[i \in 0..4 |-> IF i < 4 THEN c[i] ELSE OP_HALT] : c \in [0..3 -> Bytes]}
    \cup {[i \in 0..4 |-> <<OP_PUSH, a, OP_PUSH, b, op>>[i + 1]] :
              a \in {0, 1, 200}, b \in {0, 1, 200}, op \in Opcodes}
=============================================================================
