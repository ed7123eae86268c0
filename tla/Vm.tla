--------------------------------- MODULE Vm ---------------------------------
(***************************************************************************)
(* The stack machine of src/bytecode-vm/vm.c, one action per instruction.   *)
(*                                                                         *)
(* An array of the code with its fill pointer is a sequence: sp and csp are *)
(* its lengths.  The output is the sequence of the numbers printed.  The    *)
(* definitions named Bad... are mistakes that the properties are known to   *)
(* catch; no specification uses them.                                       *)
(***************************************************************************)
EXTENDS Integers, Sequences

CONSTANTS
    STACK_SIZE,   \* entries of stack and of cstack
    CODE_SIZE,    \* bytes of the code array
    IntMax,       \* the largest int
    Codes         \* the code arrays that vm_init may be given

Byte == 0..255

Code == [0..(CODE_SIZE - 1) -> Byte]

ASSUME VmAssumption ==
    /\ STACK_SIZE \in Nat \ {0}
    /\ CODE_SIZE \in Nat \ {0}
    /\ IntMax \in Nat /\ IntMax >= 255
    /\ Codes \subseteq Code

VARIABLES
    code,
    ip,        \* the index of the next instruction
    stack,
    globals,   \* the globals that were stored to; the others are 0
    cstack,    \* return addresses
    status,    \* "new" before vm_init, "running", "halted", "exit" after an
               \* error, "overrun" once code outside of the array is read
    out        \* what was printed

vmVars == <<code, ip, stack, globals, cstack, status, out>>

OP_PUSH == 1
OP_POP == 2
OP_ADD == 3
OP_SUB == 4
OP_MUL == 5
OP_DIV == 6
OP_PRINT == 7
OP_EQ == 8
OP_LT == 9
OP_GT == 10
OP_JMP == 11
OP_JMP_IF_FALSE == 12
OP_LOAD == 13
OP_STORE == 14
OP_CALL == 15
OP_RET == 31
OP_HALT == 255

BinaryOps == {OP_ADD, OP_SUB, OP_MUL, OP_DIV, OP_EQ, OP_LT, OP_GT}

Opcodes == BinaryOps \cup {OP_PUSH, OP_POP, OP_PRINT, OP_JMP, OP_JMP_IF_FALSE,
                           OP_LOAD, OP_STORE, OP_CALL, OP_RET, OP_HALT}

-----------------------------------------------------------------------------
(* Numbers: an int wraps around, and a division truncates.                 *)

Int32 == (-IntMax - 1)..IntMax

Wrap(v) == ((v + IntMax + 1) % (2 * (IntMax + 1))) - (IntMax + 1)

Abs(v) == IF v < 0 THEN -v ELSE v

Quotient(a, b) ==
    IF (a < 0) = (b < 0) THEN Abs(a) \div Abs(b) ELSE -(Abs(a) \div Abs(b))

\* The operands are taken in the order of popping.
BadDifference(a, b) == Wrap(b - a)

Difference(a, b) == Wrap(a - b)

\* What vm_run makes of the operands a, pushed first, and b.
Result(op, a, b) ==
    CASE op = OP_ADD -> Wrap(a + b)
      [] op = OP_SUB -> Difference(a, b)
      [] op = OP_MUL -> Wrap(a * b)
      [] op = OP_DIV -> Wrap(Quotient(a, b))
      [] op = OP_EQ -> IF a = b THEN 1 ELSE 0
      [] op = OP_LT -> IF a < b THEN 1 ELSE 0
      [] op = OP_GT -> IF a > b THEN 1 ELSE 0

\* A division by zero ends the program with a message; the one quotient that
\* is not an int ends it with a trap of the processor.
DivFault(a, b) == b = 0 \/ (a = -IntMax - 1 /\ b = -1)

-----------------------------------------------------------------------------
Init ==
    /\ code = [i \in 0..(CODE_SIZE - 1) |-> 0]
    /\ ip = 0
    /\ stack = <<>>
    /\ globals = <<>>
    /\ cstack = <<>>
    /\ status = "new"
    /\ out = <<>>

vm_init(c) ==
    /\ status = "new"
    /\ code' = c
    /\ ip' = 0
    /\ stack' = <<>>
    /\ globals' = <<>>
    /\ cstack' = <<>>
    /\ status' = "running"
    /\ UNCHANGED out

Pop(s) == SubSeq(s, 1, Len(s) - 1)

Top(s) == s[Len(s)]

Global(i) == IF i \in DOMAIN globals THEN globals[i] ELSE 0

\* The next instruction is op, and its operand if it has one is in the array.
Fetch(op) == status = "running" /\ ip \in DOMAIN code /\ code[ip] = op

Operand == code[ip + 1]

HasOperand == ip + 1 \in DOMAIN code

-----------------------------------------------------------------------------
(* vm_run: the instructions that do not fail.                              *)

op_push ==
    /\ Fetch(OP_PUSH) /\ HasOperand
    /\ Len(stack) < STACK_SIZE
    /\ stack' = Append(stack, Operand)
    /\ ip' = ip + 2
    /\ UNCHANGED <<code, globals, cstack, status, out>>

op_pop ==
    /\ Fetch(OP_POP)
    /\ stack # <<>>
    /\ stack' = Pop(stack)
    /\ ip' = ip + 1
    /\ UNCHANGED <<code, globals, cstack, status, out>>

op_binary ==
    /\ \E op \in BinaryOps :
        /\ Fetch(op)
        /\ Len(stack) >= 2
        /\ LET b == Top(stack)
               a == Top(Pop(stack))
           IN  /\ op = OP_DIV => ~DivFault(a, b)
               /\ stack' = Append(Pop(Pop(stack)), Result(op, a, b))
    /\ ip' = ip + 1
    /\ UNCHANGED <<code, globals, cstack, status, out>>

op_jmp ==
    /\ Fetch(OP_JMP) /\ HasOperand
    /\ ip' = Operand
    /\ UNCHANGED <<code, stack, globals, cstack, status, out>>

op_jmp_if_false ==
    /\ Fetch(OP_JMP_IF_FALSE)
    /\ stack # <<>>
    /\ \/ Top(stack) # 0 /\ ip' = ip + 2
       \/ Top(stack) = 0 /\ HasOperand /\ ip' = Operand
    /\ stack' = Pop(stack)
    /\ UNCHANGED <<code, globals, cstack, status, out>>

op_store ==
    /\ Fetch(OP_STORE) /\ HasOperand
    /\ stack # <<>>
    /\ globals' = [i \in DOMAIN globals \cup {Operand} |->
                     IF i = Operand THEN Top(stack) ELSE globals[i]]
    /\ stack' = Pop(stack)
    /\ ip' = ip + 2
    /\ UNCHANGED <<code, cstack, status, out>>

op_load ==
    /\ Fetch(OP_LOAD) /\ HasOperand
    /\ Len(stack) < STACK_SIZE
    /\ stack' = Append(stack, Global(Operand))
    /\ ip' = ip + 2
    /\ UNCHANGED <<code, globals, cstack, status, out>>

\* The call stack is not tested for being full.
BadCallRoom == TRUE

CallRoom == Len(cstack) < STACK_SIZE

\* The address of the operand is pushed.
BadReturnAddress == ip + 1

ReturnAddress == ip + 2

op_call ==
    /\ Fetch(OP_CALL) /\ HasOperand
    /\ CallRoom
    /\ cstack' = Append(cstack, ReturnAddress)
    /\ ip' = Operand
    /\ UNCHANGED <<code, stack, globals, status, out>>

op_ret ==
    /\ Fetch(OP_RET)
    /\ cstack # <<>>
    /\ ip' = Top(cstack)
    /\ cstack' = Pop(cstack)
    /\ UNCHANGED <<code, stack, globals, status, out>>

\* The number that is printed stays on the stack.
BadPrinted == stack

Printed == Pop(stack)

op_print ==
    /\ Fetch(OP_PRINT)
    /\ stack # <<>>
    /\ out' = Append(out, Top(stack))
    /\ stack' = Printed
    /\ ip' = ip + 1
    /\ UNCHANGED <<code, globals, cstack, status>>

op_halt ==
    /\ Fetch(OP_HALT)
    /\ status' = "halted"
    /\ ip' = ip + 1
    /\ UNCHANGED <<code, stack, globals, cstack, out>>

-----------------------------------------------------------------------------
(* vm_run: the instructions that end the program.                          *)

\* exit(1) of vm_push, vm_pop, vm_push_cs, vm_pop_cs, OP_DIV and default.
Fault ==
    \/ /\ stack = <<>>
       /\ code[ip] \in {OP_POP, OP_PRINT, OP_STORE, OP_JMP_IF_FALSE}
    \/ Len(stack) < 2 /\ code[ip] \in BinaryOps
    \/ /\ Len(stack) >= 2
       /\ code[ip] = OP_DIV
       /\ DivFault(Top(Pop(stack)), Top(stack))
    \/ Len(stack) = STACK_SIZE /\ HasOperand /\ code[ip] \in {OP_PUSH, OP_LOAD}
    \/ Len(cstack) = STACK_SIZE /\ HasOperand /\ code[ip] = OP_CALL
    \/ cstack = <<>> /\ code[ip] = OP_RET
    \/ code[ip] \notin Opcodes

vm_exit ==
    /\ status = "running"
    /\ ip \in DOMAIN code
    /\ Fault
    /\ status' = "exit"
    /\ UNCHANGED <<code, ip, stack, globals, cstack, out>>

\* The instruction or its operand lies outside of the array: undefined.
vm_overrun ==
    /\ status = "running"
    /\ \/ ip \notin DOMAIN code
       \/ /\ ip \in DOMAIN code
          /\ ~HasOperand
          /\ \/ code[ip] \in {OP_PUSH, OP_LOAD, OP_JMP, OP_CALL}
             \/ code[ip] = OP_STORE /\ stack # <<>>
             \/ code[ip] = OP_JMP_IF_FALSE /\ stack # <<>> /\ Top(stack) = 0
    /\ status' = "overrun"
    /\ UNCHANGED <<code, ip, stack, globals, cstack, out>>

vm_run ==
    \/ op_push \/ op_pop \/ op_binary \/ op_jmp \/ op_jmp_if_false \/ op_store
    \/ op_load \/ op_call \/ op_ret \/ op_print \/ op_halt
    \/ vm_exit \/ vm_overrun

Next == (status = "new" /\ \E c \in Codes : vm_init(c)) \/ vm_run

Spec == Init /\ [][Next]_vmVars

-----------------------------------------------------------------------------
(* Properties                                                              *)

\* Whatever the bytecode, the two stacks stay within their arrays and a global
\* is one of the 256.
TypeOK ==
    /\ code \in Code
    /\ ip \in Nat
    /\ stack \in Seq(Int32) /\ Len(stack) <= STACK_SIZE
    /\ DOMAIN globals \subseteq Byte
    /\ \A i \in DOMAIN globals : globals[i] \in Int32
    /\ cstack \in Seq(Nat) /\ Len(cstack) <= STACK_SIZE
    /\ status \in {"new", "running", "halted", "exit", "overrun"}
    /\ out \in Seq(Int32)

\* OP_RET comes back right behind the operand of an OP_CALL, whatever the
\* bytecode did in between and however deep the calls are nested.
ReturnsBehindCall ==
    \A i \in 1..Len(cstack) :
        /\ cstack[i] - 2 \in DOMAIN code
        /\ code[cstack[i] - 2] = OP_CALL
        /\ cstack[i] - 1 \in DOMAIN code

=============================================================================
