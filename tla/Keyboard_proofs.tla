-------------------------- MODULE Keyboard_proofs --------------------------
(***************************************************************************)
(* TLAPS proofs about the keyboard buffer: for every size of the buffer it  *)
(* implements the bounded queue of KeyFifo.                                 *)
(***************************************************************************)
EXTENDS Keyboard, Integers, TLAPS

\* The one-line tests and values of the actions are always expanded.
USE DEF NextIndex, Full, Empty, Oldest, Decremented

\* The inductive invariant: the type, the arithmetic of the indices, the test
\* that precedes a pop, and that only slots holding keys are ever read.
Inv ==
    /\ TypeOK
    /\ LengthIsDistance
    /\ TestStillHolds
    /\ \A i \in 1..len : Contents[i] \in Key

-----------------------------------------------------------------------------
(* Arithmetic                                                              *)

\* Indices stay below twice the size, where the remainder is a subtraction.
LEMMA Wrap ==
    ASSUME NEW N \in Nat \ {0}, NEW x \in 0..(2 * N - 1)
    PROVE  /\ x < N => x % N = x
           /\ x >= N => x % N = x - N
<1>1. /\ x % N \in 0..(N - 1)
      /\ x = N * (x \div N) + (x % N)
      /\ x \div N \in Int
  BY SMT
<1> QED
  BY <1>1, SMT

\* A length up to the size of the buffer does not wrap around as a word.
LEMMA LenArithmetic ==
    ASSUME NEW l \in 0..RINGBUF_SIZE
    PROVE  /\ l < RINGBUF_SIZE => (l + 1) % Word = l + 1
           /\ l > 0 => (l + (Word - 1)) % Word = l - 1
<1>1. Word \in Nat \ {0} /\ l < Word
  BY KeyboardAssumption
<1>2. l + 1 \in 0..(2 * Word - 1) /\ l + (Word - 1) \in 0..(2 * Word - 1)
  BY <1>1, KeyboardAssumption
<1>3. l + 1 < Word => (l + 1) % Word = l + 1
  BY <1>1, <1>2, Wrap
<1>4. l + (Word - 1) >= Word => (l + (Word - 1)) % Word = l + (Word - 1) - Word
  BY <1>1, <1>2, Wrap
<1> QED
  BY <1>1, <1>3, <1>4, KeyboardAssumption
-----------------------------------------------------------------------------
(* The slots of the buffer                                                 *)

N == RINGBUF_SIZE

Slot(t, i) == (t + i - 1) % N

\* What the slots of the i-th waiting character are, without remainders.
LEMMA SlotValue ==
    ASSUME NEW t \in 0..(N - 1), NEW i \in 1..N
    PROVE  Slot(t, i) = IF t + i - 1 < N THEN t + i - 1 ELSE t + i - 1 - N
<1>1. N \in Nat \ {0}
  BY KeyboardAssumption DEF N
<1>2. PICK x \in 0..(2 * N - 1) : x = t + i - 1
  BY <1>1
<1>3. /\ x < N => x % N = x
      /\ x >= N => x % N = x - N
  BY <1>1, Wrap
<1> QED
  BY <1>1, <1>2, <1>3 DEF Slot

\* The next index after t.
LEMMA NextIndexValue ==
    ASSUME NEW t \in 0..(N - 1)
    PROVE  (t + 1) % N = IF t + 1 < N THEN t + 1 ELSE 0
<1>1. N \in Nat \ {0}
  BY KeyboardAssumption DEF N
<1>2. t + 1 \in 0..(2 * N - 1)
  BY <1>1
<1>3. /\ t + 1 < N => (t + 1) % N = t + 1
      /\ t + 1 >= N => (t + 1) % N = t + 1 - N
  BY <1>1, <1>2, Wrap
<1> QED
  BY <1>1, <1>2, <1>3

\* The index at distance l from t.
LEMMA DistanceValue ==
    ASSUME NEW t \in 0..(N - 1), NEW l \in 0..N
    PROVE  (t + l) % N = IF t + l < N THEN t + l ELSE t + l - N
<1>1. N \in Nat \ {0}
  BY KeyboardAssumption DEF N
<1>2. PICK x \in 0..(2 * N - 1) : x = t + l
  BY <1>1
<1>3. /\ x < N => x % N = x
      /\ x >= N => x % N = x - N
  BY <1>1, Wrap
<1> QED
  BY <1>1, <1>2, <1>3
-----------------------------------------------------------------------------
(* Invariance                                                              *)

LEMMA InitInv == Init => Inv
<1> SUFFICES ASSUME Init PROVE Inv
  OBVIOUS
<1>1. TypeOK
  BY KeyboardAssumption DEF Init, ringbuf_init, TypeOK
<1>2. LengthIsDistance
  <2>1. tail \in 0..(N - 1) /\ len \in 0..N /\ N \in Nat \ {0}
    BY <1>1, KeyboardAssumption DEF TypeOK, N
  <2>2. (tail + len) % N = IF tail + len < N THEN tail + len ELSE tail + len - N
    BY <2>1, DistanceValue
  <2> QED
    BY <2>1, <2>2 DEF Init, ringbuf_init, LengthIsDistance, N
<1>3. TestStillHolds
  BY DEF Init, TestStillHolds
<1>4. \A i \in 1..len : Contents[i] \in Key
  BY DEF Init, ringbuf_init
<1> QED
  BY <1>1, <1>2, <1>3, <1>4 DEF Inv

\* A character that is deposited goes to the slot after the waiting ones and
\* leaves them alone.
LEMMA PushContents ==
    ASSUME Inv, NEW k \in Key, len # N, ringbuf_push(k), UNCHANGED tail
    PROVE  /\ len' = len + 1
           /\ \A i \in 1..len : Contents'[i] = Contents[i]
           /\ Contents'[len + 1] = k
           /\ head' = (tail' + len') % N
<1>1. /\ N \in Nat \ {0} /\ tail \in 0..(N - 1) /\ len \in 0..(N - 1)
      /\ head \in 0..(N - 1) /\ data \in [0..(N - 1) -> Key \cup {0}]
  <2>1. /\ N \in Nat \ {0} /\ tail \in 0..(N - 1) /\ len \in 0..N
        /\ head \in 0..(N - 1) /\ data \in [0..(N - 1) -> Key \cup {0}]
    BY KeyboardAssumption DEF Inv, TypeOK, N
  <2> QED
    BY <2>1
<1>2. /\ len' = len + 1
      /\ head' = (head + 1) % N
      /\ data' = [data EXCEPT ![head] = k]
  BY LenArithmetic, <1>1 DEF ringbuf_push, N
<1>3. head = (tail + len) % N
  BY DEF Inv, LengthIsDistance, N
<1>4. head = IF tail + len < N THEN tail + len ELSE tail + len - N
  BY <1>1, <1>3, DistanceValue
<1>5. /\ Contents = [i \in 1..len |-> data[Slot(tail, i)]]
      /\ Contents' = [i \in 1..(len + 1) |-> data'[Slot(tail, i)]]
  BY <1>2 DEF Contents, Slot, N
<1>6. ASSUME NEW i \in 1..len
      PROVE  Contents'[i] = Contents[i]
  <2>1. /\ Slot(tail, i) = IF tail + i - 1 < N THEN tail + i - 1 ELSE tail + i - 1 - N
        /\ i \in 1..(len + 1)
    BY <1>1, SlotValue
  <2>2. Slot(tail, i) \in 0..(N - 1) /\ Slot(tail, i) # head
    BY <1>1, <1>4, <2>1
  <2> QED
    BY <1>1, <1>2, <1>5, <2>1, <2>2
<1>7. Contents'[len + 1] = k
  <2>1. Slot(tail, len + 1) = IF tail + len < N THEN tail + len ELSE tail + len - N
    BY <1>1, SlotValue
  <2> QED
    BY <1>1, <1>2, <1>4, <1>5, <2>1
<1>8. head' = (tail' + len') % N
  <2>1. head' = IF head + 1 < N THEN head + 1 ELSE 0
    BY <1>1, <1>2, NextIndexValue
  <2>2. PICK l \in 0..N : l = len + 1
    BY <1>1
  <2>3. (tail + l) % N = IF tail + l < N THEN tail + l ELSE tail + l - N
    BY <1>1, DistanceValue
  <2> QED
    BY <1>1, <1>2, <1>4, <2>1, <2>2, <2>3
<1> QED
  BY <1>2, <1>6, <1>7, <1>8

\* Taking a character returns the oldest and leaves the others alone.
LEMMA TakeContents ==
    ASSUME Inv, ringbuf_pop_take
    PROVE  /\ len > 0
           /\ len' = len - 1
           /\ c' = <<Contents[1]>>
           /\ tail' \in 0..(N - 1)
           /\ \A i \in 1..(len - 1) : Contents'[i] = Contents[i + 1]
           /\ head' = (tail' + len') % N
<1>1. /\ N \in Nat \ {0} /\ tail \in 0..(N - 1) /\ len \in 1..N
      /\ head \in 0..(N - 1)
  BY KeyboardAssumption DEF Inv, TypeOK, TestStillHolds, ringbuf_pop_take, N
<1>2. /\ len' = len - 1
      /\ tail' = IF tail + 1 < N THEN tail + 1 ELSE 0
      /\ UNCHANGED <<data, head>>
      /\ c' = <<data[tail]>>
  <2>1. tail' = (tail + 1) % N
    BY DEF ringbuf_pop_take, N
  <2> QED
    BY LenArithmetic, NextIndexValue, <1>1, <2>1 DEF ringbuf_pop_take, N
<1>3. tail' \in 0..(N - 1)
  BY <1>1, <1>2
<1>4. /\ Contents = [i \in 1..len |-> data[Slot(tail, i)]]
      /\ Contents' = [i \in 1..(len - 1) |-> data[Slot(tail', i)]]
  BY <1>2 DEF Contents, Slot, N
<1>5. c' = <<Contents[1]>>
  <2>1. Slot(tail, 1) = tail
    BY <1>1, SlotValue
  <2> QED
    BY <1>1, <1>2, <1>4, <2>1
<1>6. ASSUME NEW i \in 1..(len - 1)
      PROVE  Contents'[i] = Contents[i + 1]
  <2>1. i \in 1..N /\ i + 1 \in 1..N /\ i + 1 \in 1..len
    BY <1>1
  <2>2. Slot(tail', i) = IF tail' + i - 1 < N THEN tail' + i - 1 ELSE tail' + i - 1 - N
    BY <1>3, <2>1, SlotValue
  <2>3. PICK j \in 1..N : j = i + 1
    BY <2>1
  <2>4. Slot(tail, j) = IF tail + j - 1 < N THEN tail + j - 1 ELSE tail + j - 1 - N
    BY <1>1, <2>3, SlotValue
  <2>5. Slot(tail', i) = Slot(tail, j)
    BY <1>1, <1>2, <2>1, <2>2, <2>3, <2>4
  <2> QED
    BY <1>4, <2>1, <2>3, <2>5
<1>7. head' = (tail' + len') % N
  <2>1. head = IF tail + len < N THEN tail + len ELSE tail + len - N
    <3>1. head = (tail + len) % N
      BY DEF Inv, LengthIsDistance, N
    <3>2. len \in 0..N
      BY <1>1
    <3> QED
      BY <1>1, <3>1, <3>2, DistanceValue
  <2>2. len' \in 0..N
    BY <1>1, <1>2
  <2>3. (tail' + len') % N
          = IF tail' + len' < N THEN tail' + len' ELSE tail' + len' - N
    BY <1>3, <2>2, DistanceValue
  <2> QED
    BY <1>1, <1>2, <2>1, <2>3
<1> QED
  BY <1>1, <1>2, <1>3, <1>5, <1>6, <1>7

\* The conjunct of TypeOK about the key presses.
TypedType == typed \in (Key \cup {0}) \X {0, 1}

\* keyboard_handler ignores what the controller sends, or a key was pressed.
LEMMA HandlerCases ==
    ASSUME keyboard_handler
    PROVE  \/ UNCHANGED <<data, head, len, typed>>
           \/ \E k \in Key : typed' = <<k, 1 - typed[2]>> /\ ringbuf_push(k)
<1>1. PICK s \in Scancode :
        \/ UNCHANGED <<data, head, len, typed>>
        \/ /\ s < 128 /\ scancode_to_ascii[s] # 0
           /\ typed' = <<scancode_to_ascii[s], 1 - typed[2]>>
           /\ ringbuf_push(scancode_to_ascii[s])
  BY DEF keyboard_handler
<1>2. s < 128 /\ scancode_to_ascii[s] # 0 => scancode_to_ascii[s] \in Key
  BY KeyboardAssumption DEF Key
<1> QED
  BY <1>1, <1>2

\* Every step keeps the invariant.
LEMMA StepInv == Inv /\ [Next]_vars => Inv'
<1> SUFFICES ASSUME Inv, [Next]_vars PROVE Inv'
  OBVIOUS
<1> USE DEF Inv
<1>1. ASSUME NEW k \in Key, len # N, ringbuf_push(k), TypedType', UNCHANGED <<tail, pop_pc, c>>
      PROVE  Inv'
  <2>1. /\ len' = len + 1
        /\ \A i \in 1..len : Contents'[i] = Contents[i]
        /\ Contents'[len + 1] = k
        /\ head' = (tail' + len') % N
    BY <1>1, PushContents
  <2>2. TypeOK'
    <3>1. /\ N \in Nat \ {0} /\ len \in 0..N /\ head \in 0..(N - 1)
          /\ data \in [0..(N - 1) -> Key \cup {0}]
      BY KeyboardAssumption DEF TypeOK, N
    <3>2. head' = (head + 1) % N /\ data' = [data EXCEPT ![head] = k]
      BY <1>1 DEF ringbuf_push, N
    <3>3. head' \in 0..(N - 1)
      BY <3>1, <3>2, NextIndexValue
    <3>4. data' \in [0..(N - 1) -> Key \cup {0}]
      BY <3>1, <3>2
    <3>5. len' \in 0..N
      BY <1>1, <2>1, <3>1
    <3> QED
      BY <1>1, <3>3, <3>4, <3>5 DEF TypeOK, TypedType, N
  <2>3. LengthIsDistance'
    BY <2>1 DEF LengthIsDistance, N
  <2>4. TestStillHolds'
    BY <1>1, <2>1 DEF TypeOK, TestStillHolds
  <2>5. \A i \in 1..len' : Contents'[i] \in Key
    BY <2>1 DEF TypeOK
  <2> QED
    BY <2>2, <2>3, <2>4, <2>5
<1>2. ASSUME TypedType', UNCHANGED <<data, head, tail, len, pop_pc, c>>
      PROVE  Inv'
  BY <1>2 DEF TypedType, TypeOK, LengthIsDistance, TestStillHolds, Contents
<1>3. CASE keyboard_handler
  <2>1. UNCHANGED <<tail, pop_pc, c>> /\ TypedType
    BY <1>3 DEF keyboard_handler, TypeOK, TypedType
  <2>2. CASE UNCHANGED <<data, head, len, typed>>
    BY <1>2, <2>1, <2>2 DEF TypedType
  <2>3. CASE \E k \in Key : typed' = <<k, 1 - typed[2]>> /\ ringbuf_push(k)
    <3>1. PICK k \in Key : typed' = <<k, 1 - typed[2]>> /\ ringbuf_push(k)
      BY <2>3
    <3>2. TypedType'
      BY <2>1, <3>1 DEF TypedType
    <3>3. CASE len = N
      BY <1>2, <2>1, <3>1, <3>2, <3>3 DEF ringbuf_push, N
    <3>4. CASE len # N
      BY <1>1, <2>1, <3>1, <3>2, <3>4
    <3> QED
      BY <3>3, <3>4
  <2> QED
    BY <1>3, <2>2, <2>3, HandlerCases
<1>4. CASE ringbuf_pop_test
  BY <1>4 DEF ringbuf_pop_test, TypeOK, LengthIsDistance, TestStillHolds, Contents
<1>5. CASE ringbuf_pop_take
  <2>1. /\ len > 0 /\ len' = len - 1
        /\ c' = <<Contents[1]>>
        /\ tail' \in 0..(N - 1)
        /\ \A i \in 1..(len - 1) : Contents'[i] = Contents[i + 1]
        /\ head' = (tail' + len') % N
    BY <1>5, TakeContents
  <2>2. TypeOK'
    <3>1. Contents[1] \in Key /\ len' \in 0..N
      BY <2>1, KeyboardAssumption DEF TypeOK, N
    <3>2. c' \in Seq(Key) /\ Len(c') <= 1
      BY <2>1, <3>1
    <3> QED
      BY <1>5, <2>1, <3>1, <3>2 DEF TypeOK, ringbuf_pop_take, N
  <2>3. LengthIsDistance'
    BY <2>1 DEF LengthIsDistance, N
  <2>4. TestStillHolds'
    BY <1>5 DEF ringbuf_pop_take, TestStillHolds
  <2>5. ASSUME NEW i \in 1..len' PROVE Contents'[i] \in Key
    <3>1. len \in Nat
      BY KeyboardAssumption DEF TypeOK
    <3>2. i \in 1..(len - 1) /\ i + 1 \in 1..len
      BY <2>1, <3>1
    <3> QED
      BY <2>1, <3>2
  <2> QED
    BY <2>2, <2>3, <2>4, <2>5
<1>6. CASE shell_consume
  BY <1>6 DEF shell_consume, TypeOK, LengthIsDistance, TestStillHolds, Contents
<1>7. CASE UNCHANGED vars
  BY <1>2, <1>7 DEF vars, TypeOK, TypedType
<1> QED
  BY <1>3, <1>4, <1>5, <1>6, <1>7 DEF Next, kbd_getchar

\* The invariant holds in every state of every behaviour.
LEMMA Invariance == Spec => []Inv
  BY InitInv, StepInv, PTL DEF Spec

\* Indices stay inside the buffer, for every size of it.
THEOREM TypeCorrect == Spec => []TypeOK
<1>1. Inv => TypeOK
  BY DEF Inv
<1> QED
  BY <1>1, Invariance, PTL

\* ringbuf_push and ringbuf_pop keep len equal to the distance of the indices.
THEOREM DistanceCorrect == Spec => []LengthIsDistance
<1>1. Inv => LengthIsDistance
  BY DEF Inv
<1> QED
  BY <1>1, Invariance, PTL

\* ringbuf_pop's test of len, made with interrupts on, is not stale when the
\* character is taken.
THEOREM TestCorrect == Spec => []TestStillHolds
<1>1. Inv => TestStillHolds
  BY DEF Inv
<1> QED
  BY <1>1, Invariance, PTL

-----------------------------------------------------------------------------
(* Refinement                                                              *)

\* The waiting characters as a sequence.
LEMMA ContentsSeq == Inv => Contents \in Seq(Key) /\ Len(Contents) = len
<1> SUFFICES ASSUME Inv PROVE Contents \in Seq(Key) /\ Len(Contents) = len
  OBVIOUS
<1>1. len \in Nat
  BY KeyboardAssumption DEF Inv, TypeOK
<1>2. Contents = [i \in 1..len |-> Contents[i]]
  BY DEF Contents
<1> QED
  BY <1>1, <1>2 DEF Inv

\* The initial state is an empty queue.
LEMMA InitFifo == Init => Fifo!FifoInit
  BY DEF Init, ringbuf_init, Contents, Fifo!FifoInit

\* Every step is a step of the queue or leaves it alone.
LEMMA StepFifo ==
    Inv /\ Inv' /\ [Next]_vars => [Fifo!FifoNext]_(Fifo!fifoVars)
<1> SUFFICES ASSUME Inv, Inv', [Next]_vars
             PROVE  [Fifo!FifoNext]_(Fifo!fifoVars)
  OBVIOUS
<1>0. /\ Contents \in Seq(Key) /\ Len(Contents) = len /\ len \in 0..N /\ N \in Nat
      /\ Contents' \in Seq(Key) /\ Len(Contents') = len'
  <2>1. Contents \in Seq(Key) /\ Len(Contents) = len /\ len \in 0..N /\ N \in Nat
    BY ContentsSeq, KeyboardAssumption DEF Inv, TypeOK, N
  <2>2. (Contents \in Seq(Key) /\ Len(Contents) = len)'
    BY ContentsSeq, PTL
  <2> QED
    BY <2>1, <2>2
<1>1. ASSUME UNCHANGED <<data, tail, len, c, typed>>
      PROVE  UNCHANGED Fifo!fifoVars
  BY <1>1 DEF Contents, Fifo!fifoVars
<1>2. ASSUME NEW k \in Key, len # N, ringbuf_push(k), UNCHANGED <<tail, pop_pc, c>>,
             typed' = <<k, 1 - typed[2]>>
      PROVE  Fifo!Press(k)
  <2>1. /\ len' = len + 1
        /\ \A i \in 1..len : Contents'[i] = Contents[i]
        /\ Contents'[len + 1] = k
    BY <1>2, PushContents
  <2>2. Contents' = Append(Contents, k)
    BY <1>0, <2>1
  <2>3. Len(Contents) < N
    BY <1>0, <1>2
  <2> QED
    BY <1>2, <2>2, <2>3 DEF Fifo!Press, N
<1>3. CASE keyboard_handler
  <2>1. UNCHANGED <<tail, pop_pc, c>>
    BY <1>3 DEF keyboard_handler
  <2>2. CASE UNCHANGED <<data, head, len, typed>>
    BY <1>1, <2>1, <2>2
  <2>3. CASE \E k \in Key : typed' = <<k, 1 - typed[2]>> /\ ringbuf_push(k)
    <3>1. PICK k \in Key : typed' = <<k, 1 - typed[2]>> /\ ringbuf_push(k)
      BY <2>3
    <3>2. CASE len = N
      <4>1. UNCHANGED <<data, tail, len, c>> /\ Len(Contents) = RINGBUF_SIZE
        BY <1>0, <2>1, <3>1, <3>2 DEF ringbuf_push, N
      <4> QED
        BY <3>1, <4>1 DEF Contents, Fifo!Press, Fifo!FifoNext
    <3>3. CASE len # N
      BY <1>2, <2>1, <3>1, <3>3 DEF Fifo!FifoNext
    <3> QED
      BY <3>2, <3>3
  <2> QED
    BY <1>3, <2>2, <2>3, HandlerCases
<1>4. CASE ringbuf_pop_test
  BY <1>1, <1>4 DEF ringbuf_pop_test
<1>5. CASE ringbuf_pop_take
  <2>1. /\ len > 0 /\ len' = len - 1
        /\ c' = <<Contents[1]>>
        /\ \A i \in 1..(len - 1) : Contents'[i] = Contents[i + 1]
    BY <1>5, TakeContents
  <2>2. Contents # <<>> /\ Head(Contents) = Contents[1]
    BY <1>0, <2>1
  <2>3. Contents' = Tail(Contents)
    BY <1>0, <2>1
  <2> QED
    BY <1>5, <2>1, <2>2, <2>3 DEF ringbuf_pop_take, Fifo!Receive, Fifo!FifoNext
<1>6. CASE shell_consume
  BY <1>6 DEF shell_consume, Contents, Fifo!Consume, Fifo!FifoNext
<1> QED
  BY <1>1, <1>3, <1>4, <1>5, <1>6 DEF Next, kbd_getchar, vars

\* The keyboard buffer implements the bounded queue: keys are delivered in
\* order, each once, and dropped only when RINGBUF_SIZE of them wait.
THEOREM Refinement == Spec => ImplementsFifo
  BY Invariance, InitFifo, StepFifo, PTL DEF Spec, ImplementsFifo, Fifo!FifoSpec
=============================================================================
