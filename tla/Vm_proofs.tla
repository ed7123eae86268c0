----------------------------- MODULE Vm_proofs -----------------------------
(***************************************************************************)
(* Proofs about the stack machine, for every code array and every size of   *)
(* its stacks: the stacks stay within their arrays, and a return goes back  *)
(* behind a call.                                                           *)
(***************************************************************************)
EXTENDS Vm, SequenceTheorems, TLAPS

\* The one-line tests and values of the actions are always expanded.
USE DEF Difference, CallRoom, ReturnAddress, Printed

\* An int stays an int, since it wraps around.
LEMMA WrapType ==
    ASSUME NEW v \in Int
    PROVE  Wrap(v) \in Int32
<1>1. IntMax \in Nat
    BY VmAssumption
<1>2. (v + IntMax + 1) % (2 * (IntMax + 1)) \in 0..(2 * (IntMax + 1) - 1)
    BY <1>1
<1>3. QED
    BY <1>1, <1>2 DEF Wrap, Int32

\* A quotient by something other than zero is an integer.
LEMMA QuotientType ==
    ASSUME NEW a \in Int, NEW b \in Int, b # 0
    PROVE  Quotient(a, b) \in Int
<1>1. Abs(a) \in Nat /\ Abs(b) \in Nat \ {0}
    BY DEF Abs
<1>2. Abs(a) \div Abs(b) \in Int
    BY <1>1
<1>3. QED
    BY <1>2 DEF Quotient

\* What an instruction with two operands computes is an int.
LEMMA ResultType ==
    ASSUME NEW op \in BinaryOps, NEW a \in Int32, NEW b \in Int32,
           op = OP_DIV => ~DivFault(a, b)
    PROVE  Result(op, a, b) \in Int32
<1>1. IntMax \in Nat /\ IntMax >= 255
    BY VmAssumption
<1>2. a \in Int /\ b \in Int
    BY <1>1 DEF Int32
<1>3. a * b \in Int
    BY <1>2
<1>4. Wrap(a + b) \in Int32 /\ Wrap(a - b) \in Int32 /\ Wrap(a * b) \in Int32
    BY <1>2, <1>3, WrapType
<1>5. ASSUME op = OP_DIV
      PROVE  Wrap(Quotient(a, b)) \in Int32
    BY <1>2, <1>5, QuotientType, WrapType DEF DivFault
<1>6. 0 \in Int32 /\ 1 \in Int32
    BY <1>1 DEF Int32
<1>7. QED
    BY <1>4, <1>5, <1>6
    DEF Result, BinaryOps, OP_ADD, OP_SUB, OP_MUL, OP_DIV, OP_EQ, OP_LT, OP_GT

\* Taking the top off a stack.
LEMMA PopFacts ==
    ASSUME NEW S, NEW s \in Seq(S), s # <<>>
    PROVE  /\ Len(s) \in Nat \ {0}
           /\ Pop(s) \in Seq(S)
           /\ Len(Pop(s)) = Len(s) - 1
           /\ \A i \in 1..Len(Pop(s)) : Pop(s)[i] = s[i]
           /\ Top(s) \in S
<1>1. Len(s) \in Nat \ {0}
    OBVIOUS
<1>2. Top(s) \in S
    BY <1>1 DEF Top
<1>3. \A i \in 1..(Len(s) - 1) : s[i] \in S
    BY <1>1
<1>4. /\ Pop(s) \in Seq(S)
      /\ Len(Pop(s)) = IF 1 <= Len(s) - 1 THEN Len(s) - 1 - 1 + 1 ELSE 0
      /\ \A i \in 1..(Len(s) - 1 - 1 + 1) : Pop(s)[i] = s[1 + i - 1]
    BY <1>1, <1>3, SubSeqProperties DEF Pop
<1>5. Len(Pop(s)) = Len(s) - 1
    <2>1. \A n \in Nat \ {0} :
              (IF 1 <= n - 1 THEN n - 1 - 1 + 1 ELSE 0) = n - 1
        OBVIOUS
    <2>2. QED
        BY <1>1, <1>4, <2>1, Zenon
<1>6. \A i \in 1..(Len(s) - 1) : Pop(s)[i] = s[i]
    BY <1>1, <1>4
<1>7. QED
    BY <1>1, <1>2, <1>4, <1>5, <1>6

\* Putting a value on a stack.
LEMMA PushFacts ==
    ASSUME NEW S, NEW s \in Seq(S), NEW v \in S
    PROVE  /\ Append(s, v) \in Seq(S)
           /\ Len(Append(s, v)) = Len(s) + 1
           /\ \A i \in 1..Len(s) : Append(s, v)[i] = s[i]
           /\ Append(s, v)[Len(s) + 1] = v
    OBVIOUS

\* A byte is an int, and so is every global.
LEMMA ByteIsInt == Byte \subseteq Int32
    BY VmAssumption DEF Byte, Int32

\* What is in the code array.
LEMMA CodeFacts ==
    ASSUME TypeOK
    PROVE  /\ DOMAIN code = 0..(CODE_SIZE - 1)
           /\ \A k \in DOMAIN code : code[k] \in Byte
           /\ HasOperand => Operand \in Byte
    BY VmAssumption DEF TypeOK, Code, HasOperand, Operand

LEMMA InitType == Init => TypeOK
    BY VmAssumption DEF Init, TypeOK, Code, Byte

\* vm_init is given one of the arrays.
LEMMA StartType == TypeOK /\ (\E c \in Codes : vm_init(c)) => TypeOK'
    BY VmAssumption DEF TypeOK, vm_init, Code

\* Every instruction keeps the stacks within bounds.
LEMMA RunType == TypeOK /\ vm_run => TypeOK'
<1> SUFFICES ASSUME TypeOK, vm_run
             PROVE  TypeOK'
    OBVIOUS
<1>a. /\ stack \in Seq(Int32) /\ Len(stack) <= STACK_SIZE
      /\ cstack \in Seq(Nat) /\ Len(cstack) <= STACK_SIZE
      /\ ip \in Nat /\ out \in Seq(Int32)
      /\ Len(stack) \in Nat /\ Len(cstack) \in Nat /\ STACK_SIZE \in Nat
    BY VmAssumption DEF TypeOK
<1>b. HasOperand => Operand \in Byte /\ Operand \in Int32 /\ Operand \in Nat
    <2>1. HasOperand => Operand \in Byte
        BY CodeFacts
    <2>2. QED
        BY <2>1, ByteIsInt DEF Byte
<1>c. stack # <<>> => /\ Pop(stack) \in Seq(Int32)
                      /\ Len(Pop(stack)) = Len(stack) - 1
                      /\ Len(Pop(stack)) <= STACK_SIZE
                      /\ Top(stack) \in Int32
    <2>1. stack # <<>> => /\ Pop(stack) \in Seq(Int32)
                          /\ Len(Pop(stack)) = Len(stack) - 1
                          /\ Top(stack) \in Int32
        BY <1>a, PopFacts
    <2>2. QED
        BY <1>a, <2>1
<1>d. cstack # <<>> => /\ Pop(cstack) \in Seq(Nat)
                       /\ Len(Pop(cstack)) <= STACK_SIZE
                       /\ Top(cstack) \in Nat
    <2>1. cstack # <<>> => /\ Pop(cstack) \in Seq(Nat)
                           /\ Len(Pop(cstack)) = Len(cstack) - 1
                           /\ Top(cstack) \in Nat
        BY <1>a, PopFacts
    <2>2. QED
        BY <1>a, <2>1
<1>1. CASE op_push
    <2>1. stack' = Append(stack, Operand) /\ Operand \in Int32
        BY <1>1, <1>b DEF op_push
    <2>2. stack' \in Seq(Int32) /\ Len(stack') <= STACK_SIZE
        BY <1>1, <1>a, <2>1 DEF op_push
    <2>3. QED
        BY <1>1, <1>a, <2>2 DEF op_push, TypeOK
<1>2. CASE op_pop
    BY <1>2, <1>a, <1>c DEF op_pop, TypeOK
<1>3. CASE op_binary
    <2>1. PICK op \in BinaryOps :
            /\ Len(stack) >= 2
            /\ op = OP_DIV => ~DivFault(Top(Pop(stack)), Top(stack))
            /\ stack' = Append(Pop(Pop(stack)),
                               Result(op, Top(Pop(stack)), Top(stack)))
        BY <1>3 DEF op_binary
    <2>2. /\ Pop(stack) \in Seq(Int32) /\ Len(Pop(stack)) = Len(stack) - 1
          /\ Top(stack) \in Int32
        BY <2>1, <1>a, <1>c
    <2>3. /\ Pop(Pop(stack)) \in Seq(Int32)
          /\ Len(Pop(Pop(stack))) = Len(stack) - 2
          /\ Top(Pop(stack)) \in Int32
        <3>1. Pop(stack) # <<>>
            BY <2>1, <2>2, <1>a
        <3>2. /\ Pop(Pop(stack)) \in Seq(Int32)
              /\ Len(Pop(Pop(stack))) = Len(Pop(stack)) - 1
              /\ Top(Pop(stack)) \in Int32
            BY <3>1, <2>2, PopFacts
        <3>3. QED
            BY <3>2, <2>2, <1>a
    <2>4. Result(op, Top(Pop(stack)), Top(stack)) \in Int32
        BY <2>1, <2>2, <2>3, ResultType
    <2>5. stack' \in Seq(Int32) /\ Len(stack') <= STACK_SIZE
        BY <2>1, <2>3, <2>4, <1>a
    <2>6. QED
        BY <1>3, <1>a, <2>5 DEF op_binary, TypeOK
<1>4. CASE op_jmp
    BY <1>4, <1>a, <1>b DEF op_jmp, TypeOK
<1>5. CASE op_jmp_if_false
    BY <1>5, <1>a, <1>b, <1>c DEF op_jmp_if_false, TypeOK
<1>6. CASE op_store
    <2>1. Operand \in Byte /\ Top(stack) \in Int32
        BY <1>6, <1>b, <1>c DEF op_store
    <2>2. /\ DOMAIN globals' \subseteq Byte
          /\ \A i \in DOMAIN globals' : globals'[i] \in Int32
        BY <1>6, <2>1 DEF op_store, TypeOK
    <2>3. QED
        BY <1>6, <1>a, <1>c, <2>2 DEF op_store, TypeOK
<1>7. CASE op_load
    <2>1. Global(Operand) \in Int32
        <3>1. 0 \in Int32
            BY VmAssumption DEF Int32
        <3>2. QED
            BY <3>1 DEF TypeOK, Global
    <2>2. stack' \in Seq(Int32) /\ Len(stack') <= STACK_SIZE
        BY <1>7, <1>a, <2>1 DEF op_load
    <2>3. QED
        BY <1>7, <1>a, <2>2 DEF op_load, TypeOK
<1>8. CASE op_call
    <2>1. cstack' \in Seq(Nat) /\ Len(cstack') <= STACK_SIZE
        BY <1>8, <1>a DEF op_call
    <2>2. ip' \in Nat
        BY <1>8, <1>b DEF op_call
    <2>3. QED
        BY <1>8, <2>1, <2>2 DEF op_call, TypeOK
<1>9. CASE op_ret
    BY <1>9, <1>a, <1>d DEF op_ret, TypeOK
<1>10. CASE op_print
    <2>1. out' \in Seq(Int32)
        BY <1>10, <1>a, <1>c DEF op_print
    <2>2. QED
        BY <1>10, <1>a, <1>c, <2>1 DEF op_print, TypeOK
<1>11. CASE op_halt
    BY <1>11, <1>a DEF op_halt, TypeOK
<1>12. CASE vm_exit
    BY <1>12 DEF vm_exit, TypeOK
<1>13. CASE vm_overrun
    BY <1>13 DEF vm_overrun, TypeOK
<1>14. QED
    BY <1>1, <1>2, <1>3, <1>4, <1>5, <1>6, <1>7, <1>8, <1>9, <1>10, <1>11,
       <1>12, <1>13 DEF vm_run

\* For every bytecode: no access outside of stack, cstack or globals.
THEOREM TypeCorrect == Spec => []TypeOK
<1>1. TypeOK /\ [Next]_vmVars => TypeOK'
    <2>1. TypeOK /\ UNCHANGED vmVars => TypeOK'
        BY DEF TypeOK, vmVars
    <2>2. QED
        BY <2>1, StartType, RunType DEF Next
<1>2. QED
    BY <1>1, InitType, PTL DEF Spec

\* An instruction that leaves the call stack and the code alone, or pops the
\* call stack, keeps the return addresses in it; OP_CALL adds one behind itself.
LEMMA RunReturns == TypeOK /\ ReturnsBehindCall /\ vm_run => ReturnsBehindCall'
<1> SUFFICES ASSUME TypeOK, ReturnsBehindCall, vm_run
             PROVE  ReturnsBehindCall'
    OBVIOUS
<1>1. CASE op_call
    <2>1. /\ cstack' = Append(cstack, ip + 2) /\ code' = code
          /\ ip \in DOMAIN code /\ code[ip] = OP_CALL /\ ip + 1 \in DOMAIN code
        BY <1>1 DEF op_call, Fetch, HasOperand
    <2>2. cstack \in Seq(Nat) /\ ip \in Nat
        BY DEF TypeOK
    <2>3. SUFFICES ASSUME NEW i \in 1..(Len(cstack) + 1)
                   PROVE  /\ cstack'[i] - 2 \in DOMAIN code
                          /\ code[cstack'[i] - 2] = OP_CALL
                          /\ cstack'[i] - 1 \in DOMAIN code
        BY <2>1, <2>2, PushFacts DEF ReturnsBehindCall
    <2>4. CASE i \in 1..Len(cstack)
        BY <2>1, <2>2, <2>4, PushFacts DEF ReturnsBehindCall
    <2>5. CASE i = Len(cstack) + 1
        <3>1. cstack'[i] = ip + 2
            BY <2>1, <2>2, <2>5, PushFacts
        <3>2. cstack'[i] - 2 = ip /\ cstack'[i] - 1 = ip + 1
            BY <2>2, <3>1
        <3>3. QED
            BY <2>1, <3>2
    <2>6. QED
        BY <2>2, <2>4, <2>5
<1>2. CASE op_ret
    <2>1. cstack' = Pop(cstack) /\ cstack # <<>> /\ code' = code
        BY <1>2 DEF op_ret
    <2>2. cstack \in Seq(Nat)
        BY DEF TypeOK
    <2>3. /\ Len(cstack') = Len(cstack) - 1
          /\ Len(cstack) \in Nat
          /\ \A i \in 1..Len(cstack') : cstack'[i] = cstack[i]
        BY <2>1, <2>2, PopFacts
    <2>4. QED
        BY <2>1, <2>3 DEF ReturnsBehindCall
<1>3. CASE UNCHANGED <<cstack, code>>
    BY <1>3 DEF ReturnsBehindCall
<1>4. QED
    BY <1>1, <1>2, <1>3
    DEF vm_run, op_push, op_pop, op_binary, op_jmp, op_jmp_if_false, op_store,
        op_load, op_print, op_halt, vm_exit, vm_overrun

\* For every bytecode: OP_RET goes on behind an OP_CALL.
THEOREM ReturnsCorrect == Spec => []ReturnsBehindCall
<1>1. Init => ReturnsBehindCall
    BY DEF Init, ReturnsBehindCall
<1>2. TypeOK /\ ReturnsBehindCall /\ [Next]_vmVars => ReturnsBehindCall'
    <2>1. ReturnsBehindCall /\ (\E c \in Codes : vm_init(c)) => ReturnsBehindCall'
        BY DEF vm_init, ReturnsBehindCall
    <2>2. ReturnsBehindCall /\ UNCHANGED vmVars => ReturnsBehindCall'
        BY DEF ReturnsBehindCall, vmVars
    <2>3. QED
        BY <2>1, <2>2, RunReturns DEF Next
<1>3. QED
    BY <1>1, <1>2, TypeCorrect, PTL DEF Spec

=============================================================================
