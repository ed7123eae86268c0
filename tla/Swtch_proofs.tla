---------------------------- MODULE Swtch_proofs ----------------------------
(***************************************************************************)
(* TLAPS proofs about the context switch: for every set of tasks and every *)
(* placement of timer and keyboard interrupts between the instructions of  *)
(* swtch, a task goes on with its own stack, registers and flag, and       *)
(* schedule() goes on with all of its own or, once a task has exited, comes *)
(* back with a frame pointer that is not its own.                          *)
(*                                                                         *)
(* The inductive invariant describes the words of the stacks at each place *)
(* in the code: who runs, what is still on its stack, and how the tasks    *)
(* that wait were saved.                                                   *)
(***************************************************************************)
EXTENDS Swtch, SequenceTheorems, TLAPS

-----------------------------------------------------------------------------
(* Types                                                                   *)

Context == Task \cup {Sched}

RegVal == (Task \cup {Sched, Junk}) \X (Reg \cup {Junk})

Pointer == Context \X (0..StackWords)

PushPc == {"pushf", "push_EBX", "push_ESI", "push_EDI", "push_EBP",
           "save_esp", "load_esp"}

PopPc == {"pop_EBP", "pop_EDI", "pop_ESI", "pop_EBX", "popf", "ret"}

Label == PushPc \cup PopPc \cup {"schedule", "schedule_back", "run",
            "yield_back", "isr_common", "exited", "lost"}

Word == {RegWord(v) : v \in RegVal} \cup {FlagWord(b) : b \in BOOLEAN}
          \cup {CodeWord(l) : l \in Label} \cup {EspWord(p) : p \in Pointer}
          \cup {OldWord(x) : x \in Context} \cup {NoWord}

Types ==
    /\ reg \in [Reg -> RegVal]
    /\ if_flag \in BOOLEAN
    /\ stk \in Context
    /\ esp \in 0..StackWords
    /\ mem \in [Context -> [1..StackWords -> Word]]
    /\ ESP \in [Context -> Pointer]
    /\ pc \in Label
    /\ current_task \in Context
    /\ dead \subseteq Task

-----------------------------------------------------------------------------
(* What is on a stack                                                      *)

\* How many words swtch has pushed, and how many it has left to pop.
Depth(l) == CASE l = "pushf" -> 0
              [] l = "push_EBX" -> 1
              [] l = "push_ESI" -> 2
              [] l = "push_EDI" -> 3
              [] l = "push_EBP" -> 4
              [] l = "save_esp" -> 5
              [] l = "load_esp" -> 5

Left(l) == CASE l = "ret" -> 0
             [] l = "popf" -> 1
             [] l = "pop_EBX" -> 2
             [] l = "pop_ESI" -> 3
             [] l = "pop_EDI" -> 4
             [] l = "pop_EBP" -> 5

\* The registers of x among the d words above the return address at q.
RegsAt(m, q, d, x) ==
    /\ d >= 2 => m[q + 2] = RegWord(Val(x, "EBX"))
    /\ d >= 3 => m[q + 3] = RegWord(Val(x, "ESI"))
    /\ d >= 4 => m[q + 4] = RegWord(Val(x, "EDI"))
    /\ d >= 5 => m[q + 5] = RegWord(Val(x, "EBP"))

\* The registers of x that are back when d words are left.
RegsBack(d, x) ==
    /\ d <= 4 => reg["EBP"] = Val(x, "EBP")
    /\ d <= 3 => reg["EDI"] = Val(x, "EDI")
    /\ d <= 2 => reg["ESI"] = Val(x, "ESI")
    /\ d <= 1 => reg["EBX"] = Val(x, "EBX")

\* The frame of an interrupt of t at the place l, above the first b words.
FrameAt(m, b, t, l) ==
    /\ m[b + 1] = FlagWord(TRUE)
    /\ m[b + 3] = CodeWord(l)
    /\ m[b + 9] = RegWord(Val(t, "EBX"))
    /\ m[b + 11] = RegWord(Val(t, "EBP"))
    /\ m[b + 12] = RegWord(Val(t, "ESI"))
    /\ m[b + 13] = RegWord(Val(t, "EDI"))

\* Where t goes on when swtch returns by the address at word q: at its entry
\* point, behind its call of yield(), or at the end of an interrupt that came
\* while it ran or just before it entered its code.
ReturnAt(m, q, t) ==
    \/ q = 1 /\ m[1] = CodeWord("run")
    \/ q = 3 /\ m[3] = CodeWord("yield_back")
    \/ q = 18 /\ m[18] = CodeWord("isr_common") /\ FrameAt(m, 0, t, "run")
    \/ /\ q = 19 /\ m[19] = CodeWord("isr_common")
       /\ FrameAt(m, 1, t, "ret") /\ m[1] = CodeWord("run")

\* The flag saved above it: only a new task has interrupts on.
FlagAt(m, q) == m[q + 1] = IF q = 1 THEN FlagWord(TRUE) ELSE FlagWord(FALSE)

\* A task that is not on the CPU is saved on its own stack.
SavedAt(m, p, t, q) ==
    /\ p = <<t, q + 5>>
    /\ ReturnAt(m, q, t)
    /\ FlagAt(m, q)
    /\ RegsAt(m, q, 5, t)

Waits(t) == \E q \in {1, 3, 18, 19} : SavedAt(mem[t], ESP[t], t, q)

OthersWait == \A t \in Task \ (dead \cup {current_task}) : Waits(t)

AllWait == \A t \in Task \ dead : Waits(t)

\* The saved registers of schedule() are hurt, when they are, by the interrupt
\* of a task that has exited, which never hits one of them without the word of
\* EBP.
HurtEBP == dead # {} /\ mem[Sched][8] # RegWord(Val(Sched, "EBP"))

LostEBP == dead # {} /\ reg["EBP"] # Val(Sched, "EBP")

\* schedule() is saved on the boot stack.
SchedKept ==
    /\ ESP[Sched] = <<Sched, 8>>
    /\ mem[Sched][3] = CodeWord("schedule_back")
    /\ mem[Sched][4] = FlagWord(FALSE)
    /\ RegsAt(mem[Sched], 3, 5, Sched) \/ HurtEBP

-----------------------------------------------------------------------------
(* The places in the code                                                  *)

InSchedule ==
    /\ pc \in {"schedule", "schedule_back"}
    /\ stk = Sched /\ esp = 0 /\ ~if_flag
    /\ RegsBack(0, Sched) \/ (pc = "schedule_back" /\ LostEBP)
    /\ AllWait

\* schedule() switches to a live task.
Entering ==
    /\ pc \in PushPc
    /\ stk = Sched /\ esp = 3 + Depth(pc) /\ ~if_flag
    /\ current_task \in Task \ dead
    /\ mem[Sched][1] = EspWord(ESP[current_task])
    /\ mem[Sched][2] = OldWord(Sched)
    /\ mem[Sched][3] = CodeWord("schedule_back")
    /\ Depth(pc) >= 1 => mem[Sched][4] = FlagWord(FALSE)
    /\ RegsBack(0, Sched) /\ RegsAt(mem[Sched], 3, Depth(pc), Sched)
    /\ pc = "load_esp" => ESP[Sched] = <<Sched, 8>>
    /\ AllWait

\* The task is on the CPU, or on its way there or back.
OnCpu ==
    /\ current_task \in Task \ dead
    /\ stk = current_task
    /\ SchedKept
    /\ OthersWait

Resuming ==
    /\ OnCpu
    /\ pc \in PopPc
    /\ \E q \in {1, 3, 18, 19} :
        /\ ReturnAt(mem[stk], q, stk)
        /\ esp = q + Left(pc)
        /\ Left(pc) >= 1 => FlagAt(mem[stk], q)
        /\ RegsAt(mem[stk], q, Left(pc), stk)
        /\ if_flag <=> pc = "ret" /\ q = 1
    /\ RegsBack(Left(pc), stk)

Running ==
    /\ OnCpu
    /\ RegsBack(0, stk)
    /\ esp = 0
    /\ \/ pc = "run" /\ if_flag
       \/ pc = "yield_back" /\ ~if_flag

Returning ==
    /\ OnCpu
    /\ pc = "isr_common" /\ ~if_flag
    /\ \/ esp = 15 /\ FrameAt(mem[stk], 0, stk, "run")
       \/ /\ esp = 16 /\ FrameAt(mem[stk], 1, stk, "ret")
          /\ mem[stk][1] = CodeWord("run")

Leaving ==
    /\ OnCpu
    /\ pc \in PushPc /\ ~if_flag
    /\ RegsBack(0, stk)
    /\ \E q \in {3, 18, 19} :
        /\ ReturnAt(mem[stk], q, stk)
        /\ esp = q + Depth(pc)
        /\ mem[stk][q - 2] = EspWord(<<Sched, 8>>)
        /\ mem[stk][q - 1] = OldWord(stk)
        /\ Depth(pc) >= 1 => mem[stk][q + 1] = FlagWord(FALSE)
        /\ RegsAt(mem[stk], q, Depth(pc), stk)
        /\ pc = "load_esp" => ESP[stk] = <<stk, q + 5>>

\* Back on the boot stack.  The flag of a task that has exited is still on
\* until popf.
Back ==
    /\ pc \in PopPc
    /\ stk = Sched /\ esp = 3 + Left(pc)
    /\ current_task \in Task
    /\ if_flag => current_task \in dead /\ pc # "ret"
    /\ ESP[Sched] = <<Sched, 8>>
    /\ mem[Sched][3] = CodeWord("schedule_back")
    /\ Left(pc) >= 1 => mem[Sched][4] = FlagWord(FALSE)
    /\ \/ RegsBack(Left(pc), Sched) /\ RegsAt(mem[Sched], 3, Left(pc), Sched)
       \/ Left(pc) = 5 /\ HurtEBP
       \/ Left(pc) < 5 /\ LostEBP
    /\ AllWait

\* A task that has exited calls swtch, from thread_exit or, when the timer hits
\* it there, from the interrupt, which may already be on the boot stack.
Dying ==
    /\ pc \in PushPc
    /\ current_task \in dead
    /\ stk \in {current_task, Sched}
    /\ SchedKept
    /\ AllWait
    /\ \E q \in 3..26 :
        /\ esp = q + Depth(pc)
        /\ mem[stk][q - 2] = EspWord(<<Sched, 8>>)
        /\ mem[stk][q - 1] = OldWord(current_task)
        /\ if_flag => q = 3
        /\ stk = Sched => q >= 22

\* schedule() has gone on with a frame pointer that is not its own.
Lost == pc = "lost" /\ ~if_flag

Places ==
    \/ InSchedule \/ Entering \/ Resuming \/ Running \/ Returning \/ Leaving
    \/ Back \/ Dying \/ Lost

IndInv == Types /\ Places

-----------------------------------------------------------------------------
(* Lemmas about words and stacks                                           *)

LEMMA WordParts ==
    /\ \A v : RegWord(v)[2] = v /\ AsReg(RegWord(v)) = v
    /\ \A b : FlagWord(b)[2] = b
    /\ \A l : CodeWord(l)[2] = l
    /\ \A p : EspWord(p)[2] = p
    /\ \A x : OldWord(x)[2] = x
  BY DEF RegWord, FlagWord, CodeWord, EspWord, OldWord, AsReg

LEMMA WordTypes ==
    /\ \A v \in RegVal : RegWord(v) \in Word
    /\ \A b \in BOOLEAN : FlagWord(b) \in Word
    /\ \A l \in Label : CodeWord(l) \in Word
    /\ \A p \in Pointer : EspWord(p) \in Word
    /\ \A x \in Context : OldWord(x) \in Word
    /\ NoWord \in Word
  BY DEF Word

\* Whatever is popped in a register is the value of one, or Junk.
LEMMA AsRegType == ASSUME NEW w \in Word PROVE AsReg(w) \in RegVal
<1>1. Val(Junk, Junk) \in RegVal
  BY DEF RegVal, Val
<1>2. CASE w \in {RegWord(v) : v \in RegVal}
  BY <1>2, WordParts
<1>3. CASE w[1] # "reg"
  BY <1>1, <1>3 DEF AsReg
<1>4. w \notin {RegWord(v) : v \in RegVal} => w[1] # "reg"
  BY DEF Word, FlagWord, CodeWord, EspWord, OldWord, NoWord
<1> QED
  BY <1>2, <1>3, <1>4

\* A word that does not hold a register value is popped as another one.
LEMMA OtherReg ==
    ASSUME NEW w \in Word, w # RegWord(Val(Sched, "EBP"))
    PROVE  AsReg(w) # Val(Sched, "EBP")
<1>1. CASE w \in {RegWord(v) : v \in RegVal}
  BY <1>1, WordParts
<1>2. CASE w[1] # "reg"
  BY <1>2 DEF AsReg, Val, Junk
<1>3. w \notin {RegWord(v) : v \in RegVal} => w[1] # "reg"
  BY DEF Word, FlagWord, CodeWord, EspWord, OldWord, NoWord
<1> QED
  BY <1>1, <1>2, <1>3

LEMMA WriteFacts ==
    ASSUME NEW m \in [1..StackWords -> Word], NEW n \in 0..StackWords,
           NEW ws \in Seq(Word), n + Len(ws) <= StackWords
    PROVE  /\ Write(m, n, ws) \in [1..StackWords -> Word]
           /\ \A i \in 1..n : Write(m, n, ws)[i] = m[i]
           /\ \A i \in 1..Len(ws) : Write(m, n, ws)[n + i] = ws[i]
<1>1. Len(ws) \in Nat /\ StackWords \in Nat /\ \A i \in 1..Len(ws) : ws[i] \in Word
  BY SwtchAssumption
<1>2. Write(m, n, ws) \in [1..StackWords -> Word]
  <2>1. ASSUME NEW i \in 1..StackWords
        PROVE  (IF i \in (n + 1)..(n + Len(ws)) THEN ws[i - n] ELSE m[i]) \in Word
    <3>1. CASE i \in (n + 1)..(n + Len(ws))
      <4>1. i - n \in 1..Len(ws)
        BY <1>1, <3>1
      <4> QED
        BY <1>1, <3>1, <4>1
    <3>2. CASE i \notin (n + 1)..(n + Len(ws))
      BY <3>2
    <3> QED
      BY <3>1, <3>2
  <2> QED
    BY <2>1 DEF Write
<1>3. ASSUME NEW i \in 1..n PROVE Write(m, n, ws)[i] = m[i]
  BY <1>1 DEF Write
<1>4. ASSUME NEW i \in 1..Len(ws) PROVE Write(m, n, ws)[n + i] = ws[i]
  <2>1. n + i \in 1..StackWords /\ n + i \in (n + 1)..(n + Len(ws)) /\ (n + i) - n = i
    BY <1>1
  <2> QED
    BY <2>1 DEF Write
<1> QED
  BY <1>2, <1>3, <1>4

\* A push leaves the other stacks and the words below alone.
LEMMA PushFacts ==
    ASSUME Types, NEW ws \in Seq(Word), esp + Len(ws) <= StackWords, Push(ws)
    PROVE  /\ mem' \in [Context -> [1..StackWords -> Word]]
           /\ esp' = esp + Len(ws) /\ esp' \in 0..StackWords
           /\ \A x \in Context : x # stk => mem'[x] = mem[x]
           /\ \A i \in 1..esp : mem'[stk][i] = mem[stk][i]
           /\ \A i \in 1..Len(ws) : mem'[stk][esp + i] = ws[i]
<1>1. mem[stk] \in [1..StackWords -> Word] /\ esp \in 0..StackWords /\ stk \in Context
  BY DEF Types
<1>2. mem' = [mem EXCEPT ![stk] = Write(mem[stk], esp, ws)] /\ esp' = esp + Len(ws)
  BY DEF Push
<1>3. mem'[stk] = Write(mem[stk], esp, ws) /\ \A x \in Context : x # stk => mem'[x] = mem[x]
  BY <1>1, <1>2 DEF Types
<1>4. mem' \in [Context -> [1..StackWords -> Word]]
  BY <1>1, <1>2, WriteFacts DEF Types
<1>5. esp' \in 0..StackWords
  BY <1>1, <1>2, SwtchAssumption
<1>6. /\ \A i \in 1..esp : Write(mem[stk], esp, ws)[i] = mem[stk][i]
      /\ \A i \in 1..Len(ws) : Write(mem[stk], esp, ws)[esp + i] = ws[i]
  BY <1>1, WriteFacts
<1> QED
  BY <1>2, <1>3, <1>4, <1>5, <1>6

LEMMA PushWord ==
    ASSUME Types, NEW w \in Word, esp + 1 <= StackWords, Push(<<w>>)
    PROVE  /\ mem' \in [Context -> [1..StackWords -> Word]]
           /\ esp' = esp + 1 /\ esp' \in 0..StackWords
           /\ \A x \in Context : x # stk => mem'[x] = mem[x]
           /\ \A i \in 1..esp : mem'[stk][i] = mem[stk][i]
           /\ mem'[stk][esp + 1] = w
<1>1. <<w>> \in Seq(Word) /\ Len(<<w>>) = 1 /\ <<w>>[1] = w
  OBVIOUS
<1>2. \A i \in 1..1 : mem'[stk][esp + i] = <<w>>[i]
  BY <1>1, PushFacts
<1>3. mem'[stk][esp + 1] = <<w>>[1]
  BY <1>2
<1> QED
  BY <1>1, <1>3, PushFacts

LEMMA PushCall ==
    ASSUME Types, NEW old \in Context, NEW new \in Pointer, NEW return \in Label,
           esp + 3 <= StackWords, Push(CallFrame(old, new, return))
    PROVE  /\ mem' \in [Context -> [1..StackWords -> Word]]
           /\ esp' = esp + 3 /\ esp' \in 0..StackWords
           /\ \A x \in Context : x # stk => mem'[x] = mem[x]
           /\ \A i \in 1..esp : mem'[stk][i] = mem[stk][i]
           /\ mem'[stk][esp + 1] = EspWord(new)
           /\ mem'[stk][esp + 2] = OldWord(old)
           /\ mem'[stk][esp + 3] = CodeWord(return)
<1> DEFINE ws == CallFrame(old, new, return)
<1>1. EspWord(new) \in Word /\ OldWord(old) \in Word /\ CodeWord(return) \in Word
  BY WordTypes
<1>2. /\ ws \in Seq(Word) /\ Len(ws) = 3
      /\ ws[1] = EspWord(new) /\ ws[2] = OldWord(old) /\ ws[3] = CodeWord(return)
  BY <1>1 DEF CallFrame
<1> HIDE DEF ws
<1>3. Push(ws)
  BY DEF ws
<1>4. /\ mem' \in [Context -> [1..StackWords -> Word]]
      /\ esp' = esp + 3 /\ esp' \in 0..StackWords
      /\ \A x \in Context : x # stk => mem'[x] = mem[x]
      /\ \A i \in 1..esp : mem'[stk][i] = mem[stk][i]
      /\ \A i \in 1..3 : mem'[stk][esp + i] = ws[i]
  BY <1>2, <1>3, PushFacts
<1>5. /\ mem'[stk][esp + 1] = ws[1]
      /\ mem'[stk][esp + 2] = ws[2]
      /\ mem'[stk][esp + 3] = ws[3]
  BY <1>4
<1> QED
  BY <1>2, <1>4, <1>5

LEMMA FrameFacts ==
    ASSUME Types
    PROVE  /\ InterruptFrame \in Seq(Word) /\ Len(InterruptFrame) = 15
           /\ InterruptFrame[1] = FlagWord(if_flag)
           /\ InterruptFrame[2] = NoWord /\ InterruptFrame[4] = NoWord
           /\ InterruptFrame[3] = CodeWord(pc)
           /\ InterruptFrame[9] = RegWord(reg["EBX"])
           /\ InterruptFrame[11] = RegWord(reg["EBP"])
           /\ InterruptFrame[12] = RegWord(reg["ESI"])
           /\ InterruptFrame[13] = RegWord(reg["EDI"])
<1>1. /\ FlagWord(if_flag) \in Word /\ CodeWord(pc) \in Word /\ NoWord \in Word
      /\ RegWord(reg["EBX"]) \in Word /\ RegWord(reg["EBP"]) \in Word
      /\ RegWord(reg["ESI"]) \in Word /\ RegWord(reg["EDI"]) \in Word
  BY WordTypes DEF Types, Reg
<1> QED
  BY <1>1 DEF InterruptFrame

LEMMA PushInterrupt ==
    ASSUME Types, current_task \in Context, esp + 18 <= StackWords,
           Push(InterruptFrame \o CallFrame(current_task, ESP[Sched], "isr_common"))
    PROVE  /\ mem' \in [Context -> [1..StackWords -> Word]]
           /\ esp' = esp + 18 /\ esp' \in 0..StackWords
           /\ \A x \in Context : x # stk => mem'[x] = mem[x]
           /\ \A i \in 1..esp : mem'[stk][i] = mem[stk][i]
           /\ mem'[stk][esp + 1] = FlagWord(if_flag)
           /\ mem'[stk][esp + 2] = NoWord /\ mem'[stk][esp + 4] = NoWord
           /\ mem'[stk][esp + 3] = CodeWord(pc)
           /\ mem'[stk][esp + 9] = RegWord(reg["EBX"])
           /\ mem'[stk][esp + 11] = RegWord(reg["EBP"])
           /\ mem'[stk][esp + 12] = RegWord(reg["ESI"])
           /\ mem'[stk][esp + 13] = RegWord(reg["EDI"])
           /\ mem'[stk][esp + 16] = EspWord(ESP[Sched])
           /\ mem'[stk][esp + 17] = OldWord(current_task)
           /\ mem'[stk][esp + 18] = CodeWord("isr_common")
<1> DEFINE f == InterruptFrame
           c == CallFrame(current_task, ESP[Sched], "isr_common")
           ws == f \o c
<1>1. EspWord(ESP[Sched]) \in Word /\ OldWord(current_task) \in Word
      /\ CodeWord("isr_common") \in Word
  BY WordTypes DEF Types, Context, Label
<1>2. /\ c \in Seq(Word) /\ Len(c) = 3
      /\ c[1] = EspWord(ESP[Sched]) /\ c[2] = OldWord(current_task)
      /\ c[3] = CodeWord("isr_common")
  BY <1>1 DEF CallFrame
<1>3. f \in Seq(Word) /\ Len(f) = 15
  BY FrameFacts
<1> HIDE DEF f, c
<1>4. /\ ws \in Seq(Word) /\ Len(ws) = 18
      /\ \A i \in 1..15 : ws[i] = f[i]
      /\ ws[16] = c[1] /\ ws[17] = c[2] /\ ws[18] = c[3]
  <2>1. /\ ws \in Seq(Word) /\ Len(ws) = Len(f) + Len(c)
        /\ \A i \in 1..(Len(f) + Len(c)) :
              ws[i] = IF i <= Len(f) THEN f[i] ELSE c[i - Len(f)]
    BY <1>2, <1>3, ConcatProperties
  <2> HIDE DEF ws
  <2>2. \A i \in 1..18 : ws[i] = IF i <= 15 THEN f[i] ELSE c[i - 15]
    <3>1. Len(f) = 15 /\ Len(f) + Len(c) = 18
      BY <1>2, <1>3
    <3>2. \A i \in 1..(Len(f) + Len(c)) :
              ws[i] = IF i <= Len(f) THEN f[i] ELSE c[i - Len(f)]
      BY <2>1
    <3> QED
      BY <3>1, <3>2
  <2>3. ws[16] = c[16 - 15] /\ ws[17] = c[17 - 15] /\ ws[18] = c[18 - 15]
    BY <2>2
  <2>4. ASSUME NEW i \in 1..15 PROVE ws[i] = f[i]
    BY <2>2
  <2> QED
    BY <1>2, <1>3, <2>1, <2>3, <2>4
<1> HIDE DEF ws
<1>5. Push(ws)
  BY DEF ws, f, c
<1>6. /\ mem' \in [Context -> [1..StackWords -> Word]]
      /\ esp' = esp + 18 /\ esp' \in 0..StackWords
      /\ \A x \in Context : x # stk => mem'[x] = mem[x]
      /\ \A i \in 1..esp : mem'[stk][i] = mem[stk][i]
      /\ \A i \in 1..18 : mem'[stk][esp + i] = ws[i]
  BY <1>4, <1>5, PushFacts
<1>7. /\ f[1] = FlagWord(if_flag) /\ f[3] = CodeWord(pc)
      /\ f[2] = NoWord /\ f[4] = NoWord
      /\ f[9] = RegWord(reg["EBX"]) /\ f[11] = RegWord(reg["EBP"])
      /\ f[12] = RegWord(reg["ESI"]) /\ f[13] = RegWord(reg["EDI"])
  BY FrameFacts DEF f
<1>8. /\ mem'[stk][esp + 1] = ws[1] /\ mem'[stk][esp + 3] = ws[3]
      /\ mem'[stk][esp + 2] = ws[2] /\ mem'[stk][esp + 4] = ws[4]
      /\ mem'[stk][esp + 9] = ws[9] /\ mem'[stk][esp + 11] = ws[11]
      /\ mem'[stk][esp + 12] = ws[12] /\ mem'[stk][esp + 13] = ws[13]
      /\ mem'[stk][esp + 16] = ws[16] /\ mem'[stk][esp + 17] = ws[17]
      /\ mem'[stk][esp + 18] = ws[18]
  BY <1>6
<1>9. /\ ws[1] = f[1] /\ ws[2] = f[2] /\ ws[3] = f[3] /\ ws[4] = f[4] /\ ws[9] = f[9] /\ ws[11] = f[11]
      /\ ws[12] = f[12] /\ ws[13] = f[13]
  BY <1>4
<1> QED
  BY <1>2, <1>4, <1>6, <1>7, <1>8, <1>9

LEMMA WaitsSame ==
    ASSUME NEW t, Waits(t), mem'[t] = mem[t], ESP'[t] = ESP[t]
    PROVE  Waits(t)'
  BY DEF Waits

\* A stack keeps what it holds when words are written above it.
LEMMA FrameSame ==
    ASSUME NEW m, NEW n, NEW b \in Nat, NEW t, NEW l,
           FrameAt(m, b, t, l), \A i \in 1..(b + 15) : n[i] = m[i]
    PROVE  FrameAt(n, b, t, l)
<1>1. /\ n[b + 1] = m[b + 1] /\ n[b + 3] = m[b + 3] /\ n[b + 9] = m[b + 9]
      /\ n[b + 11] = m[b + 11] /\ n[b + 12] = m[b + 12] /\ n[b + 13] = m[b + 13]
  OBVIOUS
<1> QED
  BY <1>1 DEF FrameAt

LEMMA ReturnSame ==
    ASSUME NEW m, NEW n, NEW q, NEW t, ReturnAt(m, q, t), \A i \in 1..q : n[i] = m[i]
    PROVE  ReturnAt(n, q, t)
<1>1. CASE q = 1
  BY <1>1 DEF ReturnAt
<1>2. CASE q = 3
  BY <1>2 DEF ReturnAt
<1>3. CASE q = 18
  <2>1. n[18] = m[18] /\ \A i \in 1..(0 + 15) : n[i] = m[i]
    BY <1>3
  <2>2. m[18] = CodeWord("isr_common") /\ FrameAt(m, 0, t, "run")
    BY <1>3 DEF ReturnAt
  <2>3. FrameAt(n, 0, t, "run")
    BY <2>1, <2>2, FrameSame
  <2> QED
    BY <1>3, <2>1, <2>2, <2>3 DEF ReturnAt
<1>4. CASE q = 19
  <2>1. n[19] = m[19] /\ n[1] = m[1] /\ \A i \in 1..(1 + 15) : n[i] = m[i]
    BY <1>4
  <2>2. /\ m[19] = CodeWord("isr_common") /\ m[1] = CodeWord("run")
        /\ FrameAt(m, 1, t, "ret")
    BY <1>4 DEF ReturnAt
  <2>3. FrameAt(n, 1, t, "ret")
    BY <2>1, <2>2, FrameSame
  <2> QED
    BY <1>4, <2>1, <2>2, <2>3 DEF ReturnAt
<1> QED
  BY <1>1, <1>2, <1>3, <1>4 DEF ReturnAt

LEMMA RegsSame ==
    ASSUME NEW m, NEW n, NEW q \in Nat, NEW d \in Nat, NEW x,
           RegsAt(m, q, d, x), \A i \in 1..(q + d) : n[i] = m[i]
    PROVE  RegsAt(n, q, d, x)
  BY DEF RegsAt

LEMMA RegsPush ==
    ASSUME NEW m, NEW n, NEW q \in Nat, NEW d \in 0..4, NEW x,
           RegsAt(m, q, d, x), \A i \in 1..(q + d) : n[i] = m[i],
           d = 1 => n[q + d + 1] = RegWord(Val(x, "EBX")),
           d = 2 => n[q + d + 1] = RegWord(Val(x, "ESI")),
           d = 3 => n[q + d + 1] = RegWord(Val(x, "EDI")),
           d = 4 => n[q + d + 1] = RegWord(Val(x, "EBP"))
    PROVE  RegsAt(n, q, d + 1, x)
<1>1. RegsAt(n, q, d, x)
  BY RegsSame
<1>2. CASE d = 0
  BY <1>2 DEF RegsAt
<1>3. CASE d = 1
  BY <1>3 DEF RegsAt
<1>4. CASE d = 2
  BY <1>1, <1>4 DEF RegsAt
<1>5. CASE d = 3
  BY <1>1, <1>5 DEF RegsAt
<1>6. CASE d = 4
  BY <1>1, <1>6 DEF RegsAt
<1> QED
  BY <1>2, <1>3, <1>4, <1>5, <1>6

LEMMA DepthType == \A l \in PushPc : Depth(l) \in 0..5
  BY DEF PushPc, Depth

LEMMA LeftType == \A l \in PopPc : Left(l) \in 0..5
  BY DEF PopPc, Left

-----------------------------------------------------------------------------
(* swtch, on the old stack                                                  *)

\* The word that is pushed next.
NextWord(w) ==
    /\ Depth(pc) = 0 => w = FlagWord(if_flag)
    /\ Depth(pc) = 1 => w = RegWord(reg["EBX"])
    /\ Depth(pc) = 2 => w = RegWord(reg["ESI"])
    /\ Depth(pc) = 3 => w = RegWord(reg["EDI"])
    /\ Depth(pc) = 4 => w = RegWord(reg["EBP"])

LEMMA PushShape ==
    ASSUME Types, swtch_pushf \/ swtch_push
    PROVE  /\ \E w \in Word : NextWord(w) /\ Push(<<w>>)
           /\ pc \in PushPc /\ pc' \in PushPc /\ pc' # "load_esp"
           /\ Depth(pc) \in 0..4 /\ Depth(pc') = Depth(pc) + 1
           /\ UNCHANGED <<reg, if_flag, stk, ESP, current_task, dead>>
<1>1. /\ FlagWord(if_flag) \in Word
      /\ RegWord(reg["EBX"]) \in Word /\ RegWord(reg["ESI"]) \in Word
      /\ RegWord(reg["EDI"]) \in Word /\ RegWord(reg["EBP"]) \in Word
  BY WordTypes DEF Types, Reg
<1>2. CASE swtch_pushf
  BY <1>1, <1>2 DEF swtch_pushf, NextWord, Depth, PushPc
<1>3. CASE PushReg("push_EBX", "EBX", "push_ESI")
  BY <1>1, <1>3 DEF PushReg, NextWord, Depth, PushPc
<1>4. CASE PushReg("push_ESI", "ESI", "push_EDI")
  BY <1>1, <1>4 DEF PushReg, NextWord, Depth, PushPc
<1>5. CASE PushReg("push_EDI", "EDI", "push_EBP")
  BY <1>1, <1>5 DEF PushReg, NextWord, Depth, PushPc
<1>6. CASE PushReg("push_EBP", "EBP", "save_esp")
  BY <1>1, <1>6 DEF PushReg, NextWord, Depth, PushPc
<1> QED
  BY <1>2, <1>3, <1>4, <1>5, <1>6 DEF swtch_push

LEMMA PushStep ==
    ASSUME IndInv, swtch_pushf \/ swtch_push
    PROVE  IndInv'
<1>1. /\ pc \in PushPc /\ pc' \in PushPc /\ pc' # "load_esp"
      /\ Depth(pc) \in 0..4 /\ Depth(pc') = Depth(pc) + 1
      /\ UNCHANGED <<reg, if_flag, stk, ESP, current_task, dead>>
  BY PushShape DEF IndInv
<1>2. PICK w \in Word : NextWord(w) /\ Push(<<w>>)
  BY PushShape DEF IndInv
<1>3. Types /\ StackWords \in Nat /\ StackWords >= 31 /\ esp \in Nat
  BY SwtchAssumption DEF IndInv, Types
<1> DEFINE d == Depth(pc)
<1>4. ASSUME esp <= 30
      PROVE  /\ Types'
             /\ esp' = esp + 1
             /\ \A x \in Context : x # stk => mem'[x] = mem[x]
             /\ \A i \in 1..esp : mem'[stk][i] = mem[stk][i]
             /\ mem'[stk][esp + 1] = w
  <2>1. /\ mem' \in [Context -> [1..StackWords -> Word]]
        /\ esp' = esp + 1 /\ esp' \in 0..StackWords
        /\ \A x \in Context : x # stk => mem'[x] = mem[x]
        /\ \A i \in 1..esp : mem'[stk][i] = mem[stk][i]
        /\ mem'[stk][esp + 1] = w
    BY <1>2, <1>3, <1>4, PushWord
  <2> QED
    BY <1>1, <1>3, <2>1 DEF Types, Label
<1>5. ASSUME ~if_flag PROVE FlagWord(if_flag) = FlagWord(FALSE)
  BY <1>3, <1>5 DEF Types
<1>6. ASSUME NEW x, RegsBack(0, x)
      PROVE  /\ d = 1 => w = RegWord(Val(x, "EBX"))
             /\ d = 2 => w = RegWord(Val(x, "ESI"))
             /\ d = 3 => w = RegWord(Val(x, "EDI"))
             /\ d = 4 => w = RegWord(Val(x, "EBP"))
  BY <1>2, <1>6 DEF NextWord, RegsBack
<1>7. CASE Entering
  <2>1. stk = Sched /\ esp = 3 + d /\ ~if_flag /\ esp <= 30 /\ d \in 0..4
    BY <1>1, <1>7 DEF Entering
  <2>2. /\ mem'[Sched][1] = mem[Sched][1] /\ mem'[Sched][2] = mem[Sched][2]
        /\ mem'[Sched][3] = mem[Sched][3]
        /\ \A i \in 1..(3 + d) : mem'[Sched][i] = mem[Sched][i]
        /\ mem'[Sched][3 + d + 1] = w
    BY <1>4, <2>1
  <2>3. mem'[Sched][4] = FlagWord(FALSE)
    <3>1. CASE d = 0
      <4>1. w = FlagWord(FALSE)
        BY <1>2, <1>5, <2>1, <3>1 DEF NextWord
      <4>2. 3 + d + 1 = 4
        BY <3>1
      <4> QED
        BY <2>2, <4>1, <4>2
    <3>2. CASE d # 0
      <4>1. mem[Sched][4] = FlagWord(FALSE)
        <5>1. Depth(pc) >= 1
          BY <2>1, <3>2
        <5> QED
          BY <1>7, <5>1 DEF Entering
      <4>2. 4 \in 1..(3 + d)
        BY <2>1, <3>2
      <4> QED
        BY <2>2, <4>1, <4>2
    <3> QED
      BY <3>1, <3>2
  <2>4. RegsBack(0, Sched) /\ RegsAt(mem'[Sched], 3, d + 1, Sched)
    <3>1. RegsBack(0, Sched) /\ RegsAt(mem[Sched], 3, d, Sched)
      BY <1>7 DEF Entering
    <3> HIDE DEF d
    <3> QED
      BY <1>6, <2>1, <2>2, <3>1, RegsPush
  <2>5. AllWait'
    BY <1>1, <1>4, <1>7, <2>1, WaitsSame, SwtchAssumption DEF Entering, AllWait, Context
  <2>6. Entering'
    BY <1>1, <1>4, <1>7, <2>1, <2>2, <2>3, <2>4, <2>5 DEF Entering, RegsBack
  <2> QED
    BY <1>4, <2>1, <2>6 DEF IndInv, Places
<1>8. CASE Leaving
  <2>1. OnCpu /\ ~if_flag /\ RegsBack(0, stk) /\ d \in 0..4
    BY <1>1, <1>8 DEF Leaving
  <2>2. PICK q \in {3, 18, 19} :
        /\ ReturnAt(mem[stk], q, stk)
        /\ esp = q + d
        /\ mem[stk][q - 2] = EspWord(<<Sched, 8>>)
        /\ mem[stk][q - 1] = OldWord(stk)
        /\ d >= 1 => mem[stk][q + 1] = FlagWord(FALSE)
        /\ RegsAt(mem[stk], q, d, stk)
    BY <1>8 DEF Leaving
  <2>3. esp <= 30 /\ q - 2 \in 1..esp /\ q - 1 \in 1..esp /\ q \in Nat
    BY <2>1, <2>2
  <2>4. /\ \A i \in 1..(q + d) : mem'[stk][i] = mem[stk][i]
        /\ mem'[stk][q + d + 1] = w
    BY <1>4, <2>2, <2>3
  <2>5. ReturnAt(mem'[stk], q, stk)
    <3>1. \A i \in 1..q : mem'[stk][i] = mem[stk][i]
      BY <2>1, <2>3, <2>4
    <3> QED
      BY <2>2, <3>1, ReturnSame
  <2>6. mem'[stk][q + 1] = FlagWord(FALSE)
    <3>1. CASE d = 0
      <4>1. w = FlagWord(FALSE)
        BY <1>2, <1>5, <2>1, <3>1 DEF NextWord
      <4>2. q + d + 1 = q + 1
        BY <2>3, <3>1
      <4> QED
        BY <2>4, <4>1, <4>2
    <3>2. CASE d # 0
      <4>1. mem[stk][q + 1] = FlagWord(FALSE)
        <5>1. d >= 1
          BY <2>1, <3>2
        <5> QED
          BY <2>2, <5>1
      <4>2. q + 1 \in 1..(q + d)
        BY <2>1, <2>3, <3>2
      <4> QED
        BY <2>4, <4>1, <4>2
    <3> QED
      BY <3>1, <3>2
  <2>7. RegsAt(mem'[stk], q, d + 1, stk)
    <3> HIDE DEF d
    <3> QED
      BY <1>6, <2>1, <2>2, <2>3, <2>4, RegsPush
  <2>8. OnCpu'
    <3>1. SchedKept'
      BY <1>1, <1>4, <2>1, <2>3, SwtchAssumption DEF OnCpu, SchedKept, HurtEBP, Context
    <3>2. OthersWait'
      BY <1>1, <1>4, <2>1, <2>3, WaitsSame DEF OnCpu, OthersWait, Context
    <3> QED
      BY <1>1, <2>1, <3>1, <3>2 DEF OnCpu
  <2>9. Leaving'
    <3>1. /\ esp' = q + Depth(pc')
          /\ mem'[stk][q - 2] = EspWord(<<Sched, 8>>)
          /\ mem'[stk][q - 1] = OldWord(stk)
      BY <1>1, <1>4, <2>1, <2>2, <2>3
    <3> QED
      BY <1>1, <2>1, <2>2, <2>5, <2>6, <2>7, <2>8, <3>1 DEF Leaving, RegsBack
  <2> QED
    BY <1>4, <2>3, <2>9 DEF IndInv, Places
<1>9. CASE Dying
  <2>1. PICK q \in 3..26 :
        /\ esp = q + Depth(pc)
        /\ mem[stk][q - 2] = EspWord(<<Sched, 8>>)
        /\ mem[stk][q - 1] = OldWord(current_task)
        /\ if_flag => q = 3
        /\ stk = Sched => q >= 22
    BY <1>9 DEF Dying
  <2>2. esp <= 30 /\ q - 2 \in 1..esp /\ q - 1 \in 1..esp /\ esp \in Nat
    BY <1>1, <2>1
  <2>3. AllWait'
    BY <1>1, <1>3, <1>4, <1>9, <2>2, WaitsSame, SwtchAssumption DEF Dying, AllWait, Context, Types
  <2>4. SchedKept'
    <3>1. CASE stk = Sched
      <4>1. \A i \in 1..(3 + 5) : mem'[Sched][i] = mem[Sched][i]
        BY <1>1, <1>4, <2>1, <2>2, <3>1
      <4>2. /\ mem'[Sched][3] = mem[Sched][3] /\ mem'[Sched][4] = mem[Sched][4]
            /\ mem'[Sched][8] = mem[Sched][8]
        BY <4>1
      <4>3. RegsAt(mem[Sched], 3, 5, Sched) => RegsAt(mem'[Sched], 3, 5, Sched)
        BY <4>1, RegsSame
      <4> QED
        BY <1>1, <1>9, <4>2, <4>3 DEF Dying, SchedKept, HurtEBP
    <3>2. CASE stk # Sched
      BY <1>1, <1>4, <1>9, <2>2, <3>2 DEF Dying, SchedKept, HurtEBP, Context
    <3> QED
      BY <3>1, <3>2
  <2>5. /\ esp' = q + Depth(pc')
        /\ mem'[stk][q - 2] = EspWord(<<Sched, 8>>)
        /\ mem'[stk][q - 1] = OldWord(current_task)
    BY <1>1, <1>4, <2>1, <2>2
  <2>6. Dying'
    BY <1>1, <1>9, <2>1, <2>3, <2>4, <2>5 DEF Dying
  <2> QED
    BY <1>4, <2>2, <2>6 DEF IndInv, Places
<1> QED
  <2>1. ~InSchedule /\ ~Resuming /\ ~Running /\ ~Returning /\ ~Back /\ ~Lost
    BY <1>1 DEF InSchedule, Resuming, Running, Returning, Back, Lost, PushPc, PopPc
  <2> QED
    BY <1>7, <1>8, <1>9, <2>1 DEF IndInv, Places

\* The stack pointer is saved where the first argument points.
LEMMA SaveStep ==
    ASSUME IndInv, swtch_save
    PROVE  IndInv'
<1>1. /\ pc = "save_esp" /\ pc' = "load_esp"
      /\ ESP' = [ESP EXCEPT ![Top(6)[2]] = <<stk, esp>>]
      /\ UNCHANGED <<reg, if_flag, stk, esp, mem, current_task, dead>>
  BY DEF swtch_save
<1>2. Depth(pc) = 5 /\ Depth(pc') = 5 /\ pc \in PushPc /\ pc' \in PushPc
  BY <1>1 DEF Depth, PushPc
<1>3. Types
  BY DEF IndInv
<1>4. ASSUME NEW x \in Context, Top(6) = OldWord(x)
      PROVE  /\ Types'
             /\ ESP'[x] = <<stk, esp>>
             /\ \A y \in Context \ {x} : ESP'[y] = ESP[y]
  <2>1. ESP' = [ESP EXCEPT ![x] = <<stk, esp>>]
    BY <1>1, <1>4, WordParts
  <2>2. <<stk, esp>> \in Pointer
    BY <1>3 DEF Types, Pointer
  <2>3. ESP' \in [Context -> Pointer]
    BY <1>3, <2>1, <2>2 DEF Types
  <2>4. Types'
    BY <1>1, <1>2, <1>3, <2>3 DEF Types, Label
  <2> QED
    BY <1>3, <2>1, <2>4 DEF Types
<1>5. CASE Entering
  <2>1. stk = Sched /\ esp = 8 /\ mem[Sched][2] = OldWord(Sched) /\ current_task \in Task \ dead
    BY <1>2, <1>5 DEF Entering
  <2>2. Top(6) = OldWord(Sched) /\ Sched \in Context
    BY <2>1 DEF Top, Context
  <2>3. AllWait'
    BY <1>1, <1>4, <1>5, <2>2, WaitsSame, SwtchAssumption DEF Entering, AllWait, Context
  <2>4. ESP'[current_task] = ESP[current_task] /\ ESP'[Sched] = <<Sched, 8>>
    BY <1>4, <2>1, <2>2, SwtchAssumption DEF Context
  <2>5. Entering'
    BY <1>1, <1>2, <1>5, <2>1, <2>3, <2>4 DEF Entering, RegsBack
  <2> QED
    BY <1>4, <2>2, <2>5 DEF IndInv, Places
<1>6. CASE Leaving
  <2>1. PICK q \in {3, 18, 19} :
        /\ ReturnAt(mem[stk], q, stk)
        /\ esp = q + Depth(pc)
        /\ mem[stk][q - 2] = EspWord(<<Sched, 8>>)
        /\ mem[stk][q - 1] = OldWord(stk)
        /\ Depth(pc) >= 1 => mem[stk][q + 1] = FlagWord(FALSE)
        /\ RegsAt(mem[stk], q, Depth(pc), stk)
    BY <1>6 DEF Leaving
  <2>2. OnCpu /\ stk \in Task /\ stk = current_task
    BY <1>6 DEF Leaving, OnCpu
  <2>3. esp - 6 = q - 1 /\ esp = q + 5
    BY <1>2, <2>1
  <2>4. Top(6) = OldWord(stk) /\ stk \in Context
    BY <2>1, <2>2, <2>3 DEF Top, Context
  <2>5. OnCpu'
    <3>1. SchedKept'
      BY <1>1, <1>4, <2>2, <2>4, SwtchAssumption DEF OnCpu, SchedKept, HurtEBP, Context
    <3>2. OthersWait'
      BY <1>1, <1>4, <2>2, <2>4, WaitsSame DEF OnCpu, OthersWait, Context
    <3> QED
      BY <1>1, <2>2, <3>1, <3>2 DEF OnCpu
  <2>6. ESP'[stk] = <<stk, q + 5>>
    BY <1>4, <2>3, <2>4
  <2>7. Leaving'
    BY <1>1, <1>2, <1>6, <2>1, <2>5, <2>6 DEF Leaving, RegsBack
  <2> QED
    BY <1>4, <2>4, <2>7 DEF IndInv, Places
<1>7. CASE Dying
  <2>1. PICK q \in 3..26 :
        /\ esp = q + Depth(pc)
        /\ mem[stk][q - 2] = EspWord(<<Sched, 8>>)
        /\ mem[stk][q - 1] = OldWord(current_task)
        /\ if_flag => q = 3
        /\ stk = Sched => q >= 22
    BY <1>7 DEF Dying
  <2>2. current_task \in dead /\ current_task \in Task
    BY <1>3, <1>7 DEF Dying, Types
  <2>3. esp - 6 = q - 1
    BY <1>2, <2>1
  <2>4. Top(6) = OldWord(current_task) /\ current_task \in Context
    BY <2>1, <2>2, <2>3 DEF Top, Context
  <2>5. AllWait'
    BY <1>1, <1>4, <1>7, <2>2, <2>4, WaitsSame DEF Dying, AllWait, Context
  <2>6. SchedKept'
    BY <1>1, <1>4, <1>7, <2>2, <2>4, SwtchAssumption DEF Dying, SchedKept, HurtEBP, Context
  <2>7. Dying'
    BY <1>1, <1>2, <1>7, <2>1, <2>5, <2>6 DEF Dying
  <2> QED
    BY <1>4, <2>4, <2>7 DEF IndInv, Places
<1> QED
  <2>1. ~InSchedule /\ ~Resuming /\ ~Running /\ ~Returning /\ ~Back /\ ~Lost
    BY <1>1 DEF InSchedule, Resuming, Running, Returning, Back, Lost, PopPc
  <2> QED
    BY <1>5, <1>6, <1>7, <2>1 DEF IndInv, Places

\* The other stack is taken from the second argument.
LEMMA LoadStep ==
    ASSUME IndInv, swtch_load
    PROVE  IndInv'
<1>1. /\ pc = "load_esp" /\ pc' = "pop_EBP"
      /\ stk' = Top(7)[2][1] /\ esp' = Top(7)[2][2]
      /\ UNCHANGED <<reg, if_flag, mem, ESP, current_task, dead>>
  BY DEF swtch_load
<1>2. /\ Depth(pc) = 5 /\ Left(pc') = 5
      /\ pc \in PushPc /\ pc' \in PopPc /\ pc' # "ret"
  BY <1>1 DEF Depth, Left, PushPc, PopPc
<1>3. Types
  BY DEF IndInv
<1>4. ASSUME NEW p \in Pointer, Top(7) = EspWord(p)
      PROVE  Types' /\ stk' = p[1] /\ esp' = p[2]
  <2>1. stk' = p[1] /\ esp' = p[2]
    BY <1>1, <1>4, WordParts
  <2> QED
    BY <1>1, <1>2, <1>3, <2>1 DEF Types, Label, Pointer
<1>5. <<Sched, 8>> \in Pointer
  BY SwtchAssumption DEF Pointer, Context
<1>6. ASSUME Top(7) = EspWord(<<Sched, 8>>), SchedKept, AllWait',
             current_task \in Task, if_flag => current_task \in dead
      PROVE  IndInv'
  <2>1. stk' = Sched /\ esp' = 8 /\ Types'
    BY <1>4, <1>5, <1>6
  <2>2. \/ RegsBack(5, Sched)' /\ RegsAt(mem'[Sched], 3, 5, Sched)
        \/ HurtEBP'
    BY <1>1, <1>6 DEF SchedKept, HurtEBP, RegsBack
  <2>3. Back'
    BY <1>1, <1>2, <1>6, <2>1, <2>2 DEF Back, SchedKept
  <2> QED
    BY <2>1, <2>3 DEF IndInv, Places
<1>7. CASE Entering
  <2>1. /\ stk = Sched /\ esp = 8 /\ ~if_flag /\ current_task \in Task \ dead
        /\ mem[Sched][1] = EspWord(ESP[current_task])
        /\ ESP[Sched] = <<Sched, 8>> /\ AllWait
    BY <1>1, <1>2, <1>7 DEF Entering
  <2>2. PICK q \in {1, 3, 18, 19} :
           SavedAt(mem[current_task], ESP[current_task], current_task, q)
    BY <2>1 DEF AllWait, Waits
  <2>3. ESP[current_task] = <<current_task, q + 5>> /\ ESP[current_task] \in Pointer
    BY <1>3, <2>1, <2>2 DEF SavedAt, Types, Context
  <2>4. Top(7) = EspWord(ESP[current_task])
    BY <2>1 DEF Top
  <2>5. stk' = current_task /\ esp' = q + 5 /\ Types'
    BY <1>4, <2>3, <2>4
  <2>6. SchedKept'
    <3>0. Depth(pc) >= 1
      BY <1>2
    <3>1. mem[Sched][4] = FlagWord(FALSE) /\ mem[Sched][3] = CodeWord("schedule_back")
      BY <3>0, <1>7 DEF Entering
    <3>2. RegsAt(mem[Sched], 3, 5, Sched)
      BY <1>2, <1>7 DEF Entering
    <3> QED
      BY <1>1, <2>1, <3>1, <3>2 DEF SchedKept
  <2>7. OnCpu'
    <3>1. OthersWait'
      BY <1>1, <2>1, WaitsSame DEF OthersWait, AllWait
    <3> QED
      BY <1>1, <2>1, <2>5, <2>6, <3>1 DEF OnCpu
  <2>8. Resuming'
    <3>1. /\ ReturnAt(mem'[stk'], q, stk') /\ esp' = q + Left(pc')
          /\ FlagAt(mem'[stk'], q) /\ RegsAt(mem'[stk'], q, Left(pc'), stk')
      BY <1>1, <1>2, <2>2, <2>5 DEF SavedAt
    <3>2. ~if_flag' /\ RegsBack(Left(pc), stk)'
      BY <1>1, <1>2, <2>1 DEF RegsBack
    <3>3. pc' # "ret"
      BY <1>2
    <3> QED
      BY <1>2, <2>7, <3>1, <3>2, <3>3 DEF Resuming
  <2> QED
    BY <2>5, <2>8 DEF IndInv, Places
<1>8. CASE Leaving
  <2>1. PICK q \in {3, 18, 19} :
        /\ ReturnAt(mem[stk], q, stk)
        /\ esp = q + Depth(pc)
        /\ mem[stk][q - 2] = EspWord(<<Sched, 8>>)
        /\ Depth(pc) >= 1 => mem[stk][q + 1] = FlagWord(FALSE)
        /\ RegsAt(mem[stk], q, Depth(pc), stk)
        /\ pc = "load_esp" => ESP[stk] = <<stk, q + 5>>
    BY <1>8 DEF Leaving
  <2>2. OnCpu /\ ~if_flag /\ stk = current_task /\ current_task \in Task
    BY <1>8 DEF Leaving, OnCpu
  <2>3. esp - 7 = q - 2
    BY <1>2, <2>1
  <2>4. Top(7) = EspWord(<<Sched, 8>>)
    BY <2>1, <2>3 DEF Top
  <2>5. Waits(current_task)
    <3>0. Depth(pc) >= 1 /\ q # 1
      BY <1>2
    <3>1. SavedAt(mem[stk], ESP[stk], stk, q)
      BY <1>1, <1>2, <2>1, <3>0 DEF SavedAt, FlagAt
    <3> QED
      BY <2>1, <2>2, <3>1 DEF Waits
  <2>6. AllWait'
    BY <1>1, <2>2, <2>5, WaitsSame DEF AllWait, OnCpu, OthersWait
  <2> QED
    BY <1>6, <2>2, <2>4, <2>6 DEF OnCpu
<1>9. CASE Dying
  <2>1. PICK q \in 3..26 :
        esp = q + Depth(pc) /\ mem[stk][q - 2] = EspWord(<<Sched, 8>>)
    BY <1>9 DEF Dying
  <2>2. esp - 7 = q - 2
    BY <1>2, <2>1
  <2>3. Top(7) = EspWord(<<Sched, 8>>)
    BY <2>1, <2>2 DEF Top
  <2>4. AllWait'
    BY <1>1, <1>9, WaitsSame DEF AllWait, Dying
  <2> QED
    BY <1>3, <1>6, <1>9, <2>3, <2>4 DEF Dying, Types
<1> QED
  <2>1. ~InSchedule /\ ~Resuming /\ ~Running /\ ~Returning /\ ~Back /\ ~Lost
    BY <1>1 DEF InSchedule, Resuming, Running, Returning, Back, Lost, PopPc
  <2> QED
    BY <1>7, <1>8, <1>9, <2>1 DEF IndInv, Places

-----------------------------------------------------------------------------
(* swtch, on the new stack                                                  *)

\* The register that is popped when d words are left.
PopTarget(d) == IF d = 5 THEN "EBP" ELSE IF d = 4 THEN "EDI"
                ELSE IF d = 3 THEN "ESI" ELSE "EBX"

LEMMA PopShape ==
    ASSUME swtch_pop
    PROVE  /\ pc \in PopPc /\ pc' \in PopPc /\ pc' # "ret"
           /\ Left(pc) \in 2..5 /\ Left(pc') = Left(pc) - 1
           /\ reg' = [reg EXCEPT ![PopTarget(Left(pc))] = AsReg(Top(0))]
           /\ esp' = esp - 1
           /\ UNCHANGED <<if_flag, stk, mem, ESP, current_task, dead>>
<1>1. CASE PopReg("pop_EBP", "EBP", "pop_EDI")
  BY <1>1 DEF PopReg, Left, PopPc, PopTarget
<1>2. CASE PopReg("pop_EDI", "EDI", "pop_ESI")
  BY <1>2 DEF PopReg, Left, PopPc, PopTarget
<1>3. CASE PopReg("pop_ESI", "ESI", "pop_EBX")
  BY <1>3 DEF PopReg, Left, PopPc, PopTarget
<1>4. CASE PopReg("pop_EBX", "EBX", "popf")
  BY <1>4 DEF PopReg, Left, PopPc, PopTarget
<1> QED
  BY <1>1, <1>2, <1>3, <1>4 DEF swtch_pop

\* The word that a register is popped from is the one it was pushed to.
LEMMA RegsPop ==
    ASSUME NEW q \in Nat, NEW d \in 2..5, NEW x, NEW m,
           reg \in [Reg -> RegVal], RegsAt(m, q, d, x), RegsBack(d, x),
           reg' = [reg EXCEPT ![PopTarget(d)] = AsReg(m[q + d])]
    PROVE  RegsAt(m, q, d - 1, x) /\ RegsBack(d - 1, x)'
<1>1. RegsAt(m, q, d - 1, x)
  BY DEF RegsAt
<1>2. CASE d = 5
  <2>1. m[q + d] = RegWord(Val(x, "EBP"))
    BY <1>2 DEF RegsAt
  <2>2. reg'["EBP"] = Val(x, "EBP")
    BY <1>2, <2>1, WordParts DEF PopTarget, Reg
  <2> QED
    BY <1>1, <1>2, <2>2 DEF RegsBack
<1>3. CASE d = 4
  <2>1. m[q + d] = RegWord(Val(x, "EDI"))
    BY <1>3 DEF RegsAt
  <2>2. reg'["EDI"] = Val(x, "EDI") /\ reg'["EBP"] = reg["EBP"]
    BY <1>3, <2>1, WordParts DEF PopTarget, Reg
  <2> QED
    BY <1>1, <1>3, <2>2 DEF RegsBack
<1>4. CASE d = 3
  <2>1. m[q + d] = RegWord(Val(x, "ESI"))
    BY <1>4 DEF RegsAt
  <2>2. /\ reg'["ESI"] = Val(x, "ESI") /\ reg'["EBP"] = reg["EBP"]
        /\ reg'["EDI"] = reg["EDI"]
    BY <1>4, <2>1, WordParts DEF PopTarget, Reg
  <2> QED
    BY <1>1, <1>4, <2>2 DEF RegsBack
<1>5. CASE d = 2
  <2>1. m[q + d] = RegWord(Val(x, "EBX"))
    BY <1>5 DEF RegsAt
  <2>2. /\ reg'["EBX"] = Val(x, "EBX") /\ reg'["EBP"] = reg["EBP"]
        /\ reg'["EDI"] = reg["EDI"] /\ reg'["ESI"] = reg["ESI"]
    BY <1>5, <2>1, WordParts DEF PopTarget, Reg
  <2> QED
    BY <1>1, <1>5, <2>2 DEF RegsBack
<1> QED
  BY <1>2, <1>3, <1>4, <1>5

\* Nothing but registers and the place in the code changes.
LEMMA OnCpuSame ==
    ASSUME OnCpu, UNCHANGED <<stk, mem, ESP, current_task, dead>>
    PROVE  OnCpu'
<1>1. SchedKept'
  BY DEF OnCpu, SchedKept, HurtEBP
<1>2. OthersWait'
  BY WaitsSame DEF OnCpu, OthersWait
<1> QED
  BY <1>1, <1>2 DEF OnCpu

LEMMA AllWaitSame ==
    ASSUME AllWait, UNCHANGED <<mem, ESP, dead>>
    PROVE  AllWait'
  BY WaitsSame DEF AllWait

LEMMA PopStep ==
    ASSUME IndInv, swtch_pop
    PROVE  IndInv'
<1>1. /\ pc \in PopPc /\ pc' \in PopPc /\ pc' # "ret" /\ pc # "ret"
      /\ Left(pc) \in 2..5 /\ Left(pc') = Left(pc) - 1
      /\ reg' = [reg EXCEPT ![PopTarget(Left(pc))] = AsReg(Top(0))]
      /\ esp' = esp - 1
      /\ UNCHANGED <<if_flag, stk, mem, ESP, current_task, dead>>
  <2>1. Left("ret") = 0
    BY DEF Left
  <2> QED
    BY <2>1, PopShape
<1>2. Types /\ StackWords \in Nat
  BY SwtchAssumption DEF IndInv, Types
<1> PICK d \in 2..5 : d = Left(pc)
  BY <1>1
<1>3. ASSUME NEW q \in Nat, esp = q + d
      PROVE  Types' /\ Top(0) = mem[stk][q + d]
  <2>1. esp - 0 = q + d /\ esp \in 1..StackWords
    BY <1>1, <1>2, <1>3 DEF Types
  <2>2. Top(0) = mem[stk][q + d] /\ Top(0) \in Word
    BY <1>2, <2>1 DEF Top, Types
  <2>3. reg' \in [Reg -> RegVal]
    BY <1>1, <1>2, <2>2, AsRegType DEF Types
  <2>4. esp' \in 0..StackWords
    BY <1>1, <1>2, <2>1
  <2> QED
    BY <1>1, <1>2, <2>2, <2>3, <2>4 DEF Types, Label
<1>4. CASE Resuming
  <2>1. OnCpu /\ RegsBack(d, stk)
    BY <1>4 DEF Resuming
  <2>2. PICK q \in {1, 3, 18, 19} :
        /\ ReturnAt(mem[stk], q, stk)
        /\ esp = q + d
        /\ d >= 1 => FlagAt(mem[stk], q)
        /\ RegsAt(mem[stk], q, d, stk)
        /\ if_flag <=> pc = "ret" /\ q = 1
    BY <1>4 DEF Resuming
  <2>3. Types' /\ reg' = [reg EXCEPT ![PopTarget(d)] = AsReg(mem[stk][q + d])]
    BY <1>1, <1>3, <2>2
  <2>4. RegsAt(mem[stk], q, d - 1, stk) /\ RegsBack(d - 1, stk)'
    <3>1. PICK x : x = stk
      OBVIOUS
    <3>2. q \in Nat /\ reg \in [Reg -> RegVal]
      BY <1>2 DEF Types
    <3>3. RegsAt(mem[stk], q, d - 1, x) /\ RegsBack(d - 1, x)'
      BY <2>1, <2>2, <2>3, <3>1, <3>2, RegsPop
    <3> QED
      BY <1>1, <3>1, <3>3
  <2>5. OnCpu'
    BY <1>1, <2>1, OnCpuSame
  <2>6. esp' = q + Left(pc') /\ d >= 1
    BY <1>1, <2>2
  <2>7. Resuming'
    <3>1. Left(pc') = d - 1 /\ ~if_flag'
      BY <1>1, <2>2
    <3>2. /\ ReturnAt(mem'[stk'], q, stk') /\ FlagAt(mem'[stk'], q)
          /\ RegsAt(mem'[stk'], q, Left(pc'), stk') /\ RegsBack(Left(pc), stk)'
      BY <1>1, <2>2, <2>4, <2>6, <3>1 DEF RegsBack
    <3> QED
      BY <1>1, <2>5, <2>6, <3>1, <3>2 DEF Resuming
  <2> QED
    BY <2>3, <2>7 DEF IndInv, Places
<1>5. CASE Back
  <2>1. stk = Sched /\ esp = 3 + d /\ AllWait /\ d >= 1
    BY <1>1, <1>5 DEF Back
  <2>2. Types' /\ reg' = [reg EXCEPT ![PopTarget(d)] = AsReg(mem[Sched][3 + d])]
    BY <1>1, <1>3, <2>1
  <2>3. \/ RegsAt(mem[Sched], 3, d - 1, Sched) /\ RegsBack(d - 1, Sched)'
        \/ LostEBP'
    <3>1. reg \in [Reg -> RegVal] /\ mem[Sched][8] \in Word
      BY <1>2, SwtchAssumption DEF Types, Context
    <3>2. CASE RegsAt(mem[Sched], 3, d, Sched) /\ RegsBack(d, Sched)
      BY <2>2, <3>1, <3>2, RegsPop
    <3>3. CASE d = 5 /\ HurtEBP
      <4>1. reg'["EBP"] = AsReg(mem[Sched][8])
        BY <2>2, <3>1, <3>3 DEF PopTarget, Reg
      <4> QED
        BY <1>1, <3>1, <3>3, <4>1, OtherReg DEF HurtEBP, LostEBP
    <3>4. CASE d < 5 /\ LostEBP
      <4>1. PopTarget(d) # "EBP"
        BY <3>4 DEF PopTarget
      <4>2. reg'["EBP"] = reg["EBP"]
        BY <2>2, <3>1, <4>1 DEF Reg
      <4> QED
        BY <1>1, <3>4, <4>2 DEF LostEBP
    <3> QED
      BY <1>5, <3>2, <3>3, <3>4 DEF Back
  <2>4. AllWait'
    BY <1>1, <2>1, AllWaitSame
  <2>5. esp' = 3 + Left(pc')
    BY <1>1, <2>1
  <2>6. Back'
    <3>1. Left(pc') = d - 1
      BY <1>1
    <3>2. \/ RegsBack(Left(pc), Sched)' /\ RegsAt(mem'[Sched], 3, Left(pc'), Sched)
          \/ Left(pc') < 5 /\ LostEBP'
      BY <1>1, <2>3, <3>1 DEF RegsBack
    <3>3. /\ stk' = Sched /\ current_task' \in Task
          /\ if_flag' => current_task' \in dead' /\ pc' # "ret"
          /\ ESP'[Sched] = <<Sched, 8>>
          /\ mem'[Sched][3] = CodeWord("schedule_back")
          /\ mem'[Sched][4] = FlagWord(FALSE)
      BY <1>1, <1>5, <2>1 DEF Back
    <3> QED
      BY <1>1, <2>4, <2>5, <3>2, <3>3 DEF Back
  <2> QED
    BY <2>2, <2>6 DEF IndInv, Places
<1> QED
  <2>1. ~InSchedule /\ ~Entering /\ ~Running /\ ~Returning /\ ~Leaving /\ ~Dying /\ ~Lost
    BY <1>1 DEF InSchedule, Entering, Running, Returning, Leaving, Dying, Lost, PushPc, PopPc
  <2> QED
    BY <1>4, <1>5, <2>1 DEF IndInv, Places

\* The flag comes back with everything else in place.
LEMMA PopfStep ==
    ASSUME IndInv, swtch_popf
    PROVE  IndInv'
<1>1. /\ pc = "popf" /\ pc' = "ret"
      /\ if_flag' = Top(0)[2] /\ esp' = esp - 1
      /\ UNCHANGED <<reg, stk, mem, ESP, current_task, dead>>
  BY DEF swtch_popf, FlagsWord
<1>2. /\ Left(pc) = 1 /\ Left(pc') = 0 /\ Left(pc) >= 1 /\ ~(Left(pc') >= 1)
      /\ pc \in PopPc /\ pc' \in PopPc
  BY <1>1 DEF Left, PopPc
<1>3. Types /\ StackWords \in Nat
  BY SwtchAssumption DEF IndInv, Types
<1>4. ASSUME NEW b \in BOOLEAN, Top(0) = FlagWord(b), esp >= 1
      PROVE  Types' /\ if_flag' = b
  <2>1. if_flag' = b
    BY <1>1, <1>4, WordParts
  <2>2. esp' \in 0..StackWords
    BY <1>1, <1>3, <1>4 DEF Types
  <2>3. if_flag' \in BOOLEAN
    BY <2>1
  <2> QED
    BY <1>1, <1>2, <1>3, <2>1, <2>2, <2>3 DEF Types, Label
<1>5. CASE Resuming
  <2>1. OnCpu /\ RegsBack(1, stk)
    BY <1>2, <1>5 DEF Resuming
  <2>2. PICK q \in {1, 3, 18, 19} :
        /\ ReturnAt(mem[stk], q, stk)
        /\ esp = q + Left(pc)
        /\ Left(pc) >= 1 => FlagAt(mem[stk], q)
    BY <1>5 DEF Resuming
  <2>3. esp - 0 = q + 1 /\ esp >= 1 /\ esp' = q /\ FlagAt(mem[stk], q)
    BY <1>1, <1>2, <2>2
  <2>4. Top(0) = IF q = 1 THEN FlagWord(TRUE) ELSE FlagWord(FALSE)
    BY <2>3 DEF Top, FlagAt
  <2>5. Types' /\ (if_flag' <=> q = 1)
    <3>1. CASE q = 1
      BY <1>4, <2>3, <2>4, <3>1
    <3>2. CASE q # 1
      BY <1>4, <2>3, <2>4, <3>2
    <3> QED
      BY <3>1, <3>2
  <2>6. RegsBack(0, stk)' /\ RegsAt(mem[stk], q, 0, stk)
    BY <1>1, <2>1 DEF RegsBack, RegsAt
  <2>7. OnCpu'
    BY <1>1, <2>1, OnCpuSame
  <2>8. esp' = q + Left(pc')
    BY <1>2, <2>3
  <2>9. Resuming'
    BY <1>1, <1>2, <2>2, <2>5, <2>6, <2>7, <2>8 DEF Resuming
  <2> QED
    BY <2>5, <2>9 DEF IndInv, Places
<1>6. CASE Back
  <2>0. /\ stk = Sched /\ esp = 3 + Left(pc) /\ AllWait
        /\ Left(pc) >= 1 => mem[Sched][4] = FlagWord(FALSE)
    BY <1>6 DEF Back
  <2>1. /\ stk = Sched /\ esp = 4 /\ esp - 0 = 4 /\ esp >= 1 /\ AllWait
        /\ mem[Sched][4] = FlagWord(FALSE)
    <3>1. esp = 4
      BY <1>2, <2>0
    <3>2. mem[Sched][4] = FlagWord(FALSE)
      BY <1>2, <2>0
    <3> QED
      BY <2>0, <3>1, <3>2
  <2>2. Top(0) = FlagWord(FALSE)
    BY <2>1 DEF Top
  <2>3. Types' /\ ~if_flag'
    BY <1>4, <2>1, <2>2
  <2>4. \/ RegsAt(mem'[Sched], 3, Left(pc'), Sched) /\ RegsBack(Left(pc), Sched)'
        \/ Left(pc') < 5 /\ LostEBP'
    <3>1. RegsBack(1, Sched) \/ LostEBP
      BY <1>2, <1>6 DEF Back
    <3> QED
      BY <1>1, <1>2, <3>1 DEF RegsBack, RegsAt, LostEBP
  <2>5. AllWait'
    BY <1>1, <2>1, AllWaitSame
  <2>6. esp' = 3 + Left(pc')
    BY <1>1, <1>2, <2>1
  <2>7. Back'
    BY <1>1, <1>2, <1>6, <2>1, <2>3, <2>4, <2>5, <2>6 DEF Back
  <2> QED
    BY <2>3, <2>7 DEF IndInv, Places
<1> QED
  <2>1. ~InSchedule /\ ~Entering /\ ~Running /\ ~Returning /\ ~Leaving /\ ~Dying /\ ~Lost
    BY <1>1 DEF InSchedule, Entering, Running, Returning, Leaving, Dying, Lost, PushPc
  <2> QED
    BY <1>5, <1>6, <2>1 DEF IndInv, Places

\* swtch returns to where the context called it from.
LEMMA RetStep ==
    ASSUME IndInv, swtch_ret
    PROVE  IndInv'
<1>1. /\ pc = "ret" /\ pc' = Top(0)[2]
      /\ esp' = IF Top(0)[2] = "run" THEN esp - 1 ELSE esp - 3
      /\ UNCHANGED <<reg, if_flag, stk, mem, ESP, current_task, dead>>
  BY DEF swtch_ret
<1>2. Left(pc) = 0 /\ pc \in PopPc
  BY <1>1 DEF Left, PopPc
<1>3. Types /\ StackWords \in Nat /\ StackWords >= 31
  BY SwtchAssumption DEF IndInv, Types
<1>4. ASSUME NEW l \in Label, Top(0) = CodeWord(l)
      PROVE  pc' = l /\ esp' = IF l = "run" THEN esp - 1 ELSE esp - 3
  BY <1>1, <1>4, WordParts
<1>5. ASSUME pc' \in Label, esp' \in 0..16
      PROVE  Types'
  BY <1>1, <1>3, <1>5 DEF Types
<1>6. CASE Resuming
  <2>1. OnCpu /\ RegsBack(0, stk)
    BY <1>2, <1>6 DEF Resuming
  <2>2. PICK q \in {1, 3, 18, 19} :
        /\ ReturnAt(mem[stk], q, stk)
        /\ esp = q + Left(pc)
        /\ if_flag <=> pc = "ret" /\ q = 1
    BY <1>6 DEF Resuming
  <2>3. esp = q /\ (if_flag <=> q = 1) /\ Top(0) = mem[stk][q]
    BY <1>1, <1>2, <2>2 DEF Top
  <2>4. OnCpu' /\ RegsBack(0, stk)'
    BY <1>1, <2>1, OnCpuSame DEF RegsBack
  <2>5. CASE q = 1
    <3>1. Top(0) = CodeWord("run")
      BY <2>2, <2>3, <2>5 DEF ReturnAt
    <3>2. pc' = "run" /\ esp' = 0 /\ if_flag'
      BY <1>1, <1>4, <2>3, <2>5, <3>1 DEF Label
    <3>3. Types'
      BY <1>5, <3>2 DEF Label
    <3>4. Running'
      BY <2>4, <3>2 DEF Running
    <3> QED
      BY <3>3, <3>4 DEF IndInv, Places
  <2>6. CASE q = 3
    <3>1. Top(0) = CodeWord("yield_back")
      BY <2>2, <2>3, <2>6 DEF ReturnAt
    <3>2. pc' = "yield_back" /\ esp' = 0 /\ ~if_flag'
      BY <1>1, <1>4, <2>3, <2>6, <3>1 DEF Label
    <3>3. Types'
      BY <1>5, <3>2 DEF Label
    <3>4. Running'
      BY <2>4, <3>2 DEF Running
    <3> QED
      BY <3>3, <3>4 DEF IndInv, Places
  <2>7. CASE q = 18
    <3>1. Top(0) = CodeWord("isr_common") /\ FrameAt(mem[stk], 0, stk, "run")
      BY <2>2, <2>3, <2>7 DEF ReturnAt
    <3>2. pc' = "isr_common" /\ esp' = 15 /\ ~if_flag'
      BY <1>1, <1>4, <2>3, <2>7, <3>1 DEF Label
    <3>3. Types'
      BY <1>5, <3>2 DEF Label
    <3>4. Returning'
      BY <1>1, <2>4, <3>1, <3>2 DEF Returning
    <3> QED
      BY <3>3, <3>4 DEF IndInv, Places
  <2>8. CASE q = 19
    <3>1. /\ Top(0) = CodeWord("isr_common") /\ FrameAt(mem[stk], 1, stk, "ret")
          /\ mem[stk][1] = CodeWord("run")
      BY <2>2, <2>3, <2>8 DEF ReturnAt
    <3>2. pc' = "isr_common" /\ esp' = 16 /\ ~if_flag'
      BY <1>1, <1>4, <2>3, <2>8, <3>1 DEF Label
    <3>3. Types'
      BY <1>5, <3>2 DEF Label
    <3>4. Returning'
      BY <1>1, <2>4, <3>1, <3>2 DEF Returning
    <3> QED
      BY <3>3, <3>4 DEF IndInv, Places
  <2> QED
    BY <2>5, <2>6, <2>7, <2>8
<1>7. CASE Back
  <2>1. /\ stk = Sched /\ esp = 3 /\ mem[Sched][3] = CodeWord("schedule_back")
        /\ AllWait /\ ~if_flag /\ (RegsBack(0, Sched) \/ LostEBP)
    BY <1>1, <1>2, <1>7 DEF Back
  <2>2. Top(0) = CodeWord("schedule_back")
    BY <2>1 DEF Top
  <2>3. pc' = "schedule_back" /\ esp' = 0
    BY <1>4, <2>1, <2>2 DEF Label
  <2>4. AllWait' /\ (RegsBack(0, Sched)' \/ LostEBP')
    BY <1>1, <2>1, AllWaitSame DEF RegsBack, LostEBP
  <2>5. InSchedule'
    BY <1>1, <2>1, <2>3, <2>4 DEF InSchedule
  <2>6. Types'
    BY <1>5, <2>3 DEF Label
  <2> QED
    BY <2>5, <2>6 DEF IndInv, Places
<1> QED
  <2>1. ~InSchedule /\ ~Entering /\ ~Running /\ ~Returning /\ ~Leaving /\ ~Dying /\ ~Lost
    BY <1>1 DEF InSchedule, Entering, Running, Returning, Leaving, Dying, Lost, PushPc
  <2> QED
    BY <1>6, <1>7, <2>1 DEF IndInv, Places

-----------------------------------------------------------------------------
(* The callers of swtch                                                     *)

LEMMA ScheduleStep ==
    ASSUME IndInv, NEW t \in Task, schedule(t)
    PROVE  IndInv'
<1>1. /\ pc = "schedule" /\ t \notin dead /\ current_task' = t
      /\ Push(CallFrame(Sched, ESP[t], "schedule_back")) /\ pc' = "pushf"
      /\ UNCHANGED <<reg, if_flag, stk, ESP, dead>>
  BY DEF schedule
<1>2. Types /\ StackWords \in Nat /\ StackWords >= 31
  BY SwtchAssumption DEF IndInv
<1>3. InSchedule
  BY <1>1 DEF IndInv, Places, InSchedule, Entering, Resuming, Running, Returning,
              Leaving, Back, Dying, Lost, PushPc, PopPc
<1>4. /\ stk = Sched /\ esp = 0 /\ ~if_flag /\ AllWait
      /\ RegsBack(0, Sched)
  BY <1>1, <1>3 DEF InSchedule
<1>5. Sched \in Context /\ ESP[t] \in Pointer /\ "schedule_back" \in Label
      /\ esp + 3 <= StackWords
  BY <1>2, <1>4 DEF Types, Context, Label
<1>6. /\ mem' \in [Context -> [1..StackWords -> Word]]
      /\ esp' = esp + 3 /\ esp' \in 0..StackWords
      /\ \A x \in Context : x # stk => mem'[x] = mem[x]
      /\ mem'[stk][esp + 1] = EspWord(ESP[t])
      /\ mem'[stk][esp + 2] = OldWord(Sched)
      /\ mem'[stk][esp + 3] = CodeWord("schedule_back")
  BY <1>1, <1>2, <1>5, PushCall
<1>7. esp + 1 = 1 /\ esp + 2 = 2 /\ esp + 3 = 3 /\ esp' = 3
  BY <1>4, <1>6
<1>8. Depth(pc') = 0 /\ ~(Depth(pc') >= 1) /\ pc' \in PushPc /\ pc' # "load_esp"
  BY <1>1 DEF Depth, PushPc
<1>9. AllWait'
  BY <1>1, <1>4, <1>6, WaitsSame, SwtchAssumption DEF AllWait, Context
<1>10. RegsBack(0, Sched)' /\ RegsAt(mem'[Sched], 3, 0, Sched)
  BY <1>1, <1>4 DEF RegsBack, RegsAt
<1>11. Entering'
  <2>1. /\ mem'[Sched][1] = EspWord(ESP'[current_task'])
        /\ mem'[Sched][2] = OldWord(Sched)
        /\ mem'[Sched][3] = CodeWord("schedule_back")
    BY <1>1, <1>4, <1>6, <1>7
  <2>2. esp' = 3 + Depth(pc')
    BY <1>7, <1>8
  <2> QED
    BY <1>1, <1>4, <1>8, <1>9, <1>10, <2>1, <2>2 DEF Entering
<1>12. Types'
  BY <1>1, <1>2, <1>6, <1>8 DEF Types, Label, Context
<1> QED
  BY <1>11, <1>12 DEF IndInv, Places

LEMMA ScheduleBackStep ==
    ASSUME IndInv, schedule_back
    PROVE  IndInv'
<1>1. /\ pc = "schedule_back" /\ pc' = "schedule"
      /\ reg["EBP"] = Val(Sched, "EBP")
      /\ UNCHANGED <<reg, if_flag, stk, esp, mem, ESP, current_task, dead>>
  BY DEF schedule_back
<1>2. InSchedule
  BY <1>1 DEF IndInv, Places, InSchedule, Entering, Resuming, Running, Returning,
              Leaving, Back, Dying, Lost, PushPc, PopPc
<1>3. AllWait' /\ RegsBack(0, Sched)'
  BY <1>1, <1>2, AllWaitSame DEF InSchedule, RegsBack, LostEBP
<1>4. InSchedule'
  BY <1>1, <1>2, <1>3 DEF InSchedule
<1>5. Types'
  BY <1>1 DEF IndInv, Types, Label
<1> QED
  BY <1>4, <1>5 DEF IndInv, Places

LEMMA ScheduleLostStep ==
    ASSUME IndInv, schedule_lost
    PROVE  IndInv'
<1>1. /\ pc = "schedule_back" /\ pc' = "lost"
      /\ UNCHANGED <<reg, if_flag, stk, esp, mem, ESP, current_task, dead>>
  BY DEF schedule_lost
<1>2. InSchedule
  BY <1>1 DEF IndInv, Places, InSchedule, Entering, Resuming, Running, Returning,
              Leaving, Back, Dying, Lost, PushPc, PopPc
<1>3. Lost'
  BY <1>1, <1>2 DEF InSchedule, Lost
<1>4. Types'
  BY <1>1 DEF IndInv, Types, Label
<1> QED
  BY <1>3, <1>4 DEF IndInv, Places

LEMMA YieldBackStep ==
    ASSUME IndInv, yield_back
    PROVE  IndInv'
<1>1. /\ pc = "yield_back" /\ pc' = "run" /\ if_flag' = TRUE
      /\ UNCHANGED <<reg, stk, esp, mem, ESP, current_task, dead>>
  BY DEF yield_back
<1>2. Running
  BY <1>1 DEF IndInv, Places, InSchedule, Entering, Resuming, Running, Returning,
              Leaving, Back, Dying, Lost, PushPc, PopPc
<1>3. OnCpu' /\ RegsBack(0, stk)'
  BY <1>1, <1>2, OnCpuSame DEF Running, RegsBack
<1>4. Running'
  BY <1>1, <1>2, <1>3 DEF Running
<1>5. Types'
  BY <1>1 DEF IndInv, Types, Label
<1> QED
  BY <1>4, <1>5 DEF IndInv, Places

\* A push on the task's own stack leaves schedule() and the other tasks alone.
LEMMA OnCpuPush ==
    ASSUME OnCpu, \A x \in Context : x # stk => mem'[x] = mem[x],
           UNCHANGED <<stk, ESP, current_task, dead>>
    PROVE  OnCpu'
<1>1. SchedKept'
  BY SwtchAssumption DEF OnCpu, SchedKept, HurtEBP, Context
<1>2. OthersWait'
  BY WaitsSame DEF OnCpu, OthersWait, Context
<1> QED
  BY <1>1, <1>2 DEF OnCpu

\* A task yields with interrupts off, from its code or once more.
LEMMA YieldStep ==
    ASSUME IndInv, yield_off \/ yield_again
    PROVE  IndInv'
<1>1. /\ pc \in {"run", "yield_back"} /\ pc' = "pushf"
      /\ Push(CallFrame(current_task, ESP[Sched], "yield_back"))
      /\ UNCHANGED <<reg, stk, ESP, current_task, dead>>
      /\ if_flag' = FALSE \/ (pc = "yield_back" /\ if_flag' = if_flag)
  BY DEF yield_off, yield_again
<1>2. Types /\ StackWords \in Nat /\ StackWords >= 31
  BY SwtchAssumption DEF IndInv
<1>3. Running
  BY <1>1 DEF IndInv, Places, InSchedule, Entering, Resuming, Running, Returning,
              Leaving, Back, Dying, Lost, PushPc, PopPc
<1>4. OnCpu /\ RegsBack(0, stk) /\ esp = 0 /\ stk = current_task
      /\ ESP[Sched] = <<Sched, 8>> /\ ~if_flag'
  BY <1>1, <1>3 DEF Running, OnCpu, SchedKept
<1>5. current_task \in Context /\ ESP[Sched] \in Pointer /\ "yield_back" \in Label
      /\ esp + 3 <= StackWords
  <2>1. current_task \in Context /\ ESP[Sched] \in Pointer
    BY <1>2 DEF Types, Context
  <2>2. esp + 3 <= StackWords
    BY <1>2, <1>4
  <2>3. "yield_back" \in Label
    BY DEF Label
  <2> QED
    BY <2>1, <2>2, <2>3
<1>6. /\ mem' \in [Context -> [1..StackWords -> Word]]
      /\ esp' = esp + 3 /\ esp' \in 0..StackWords
      /\ \A x \in Context : x # stk => mem'[x] = mem[x]
      /\ mem'[stk][esp + 1] = EspWord(ESP[Sched])
      /\ mem'[stk][esp + 2] = OldWord(current_task)
      /\ mem'[stk][esp + 3] = CodeWord("yield_back")
  BY <1>1, <1>2, <1>5, PushCall
<1>7. esp + 1 = 3 - 2 /\ esp + 2 = 3 - 1 /\ esp + 3 = 3 /\ esp' = 3
  BY <1>4, <1>6
<1>8. Depth(pc') = 0 /\ ~(Depth(pc') >= 1) /\ pc' \in PushPc /\ pc' # "load_esp"
  BY <1>1 DEF Depth, PushPc
<1>9. OnCpu' /\ RegsBack(0, stk)'
  BY <1>1, <1>4, <1>6, OnCpuPush DEF RegsBack
<1>10. Leaving'
  <2>1. /\ mem'[stk'][3 - 2] = EspWord(<<Sched, 8>>)
        /\ mem'[stk'][3 - 1] = OldWord(stk')
        /\ mem'[stk'][3] = CodeWord("yield_back")
    BY <1>1, <1>4, <1>6, <1>7
  <2>2. esp' = 3 + Depth(pc') /\ RegsAt(mem'[stk'], 3, Depth(pc'), stk')
    BY <1>7, <1>8 DEF RegsAt
  <2>3. ReturnAt(mem'[stk'], 3, stk')
    BY <2>1 DEF ReturnAt
  <2> QED
    BY <1>4, <1>8, <1>9, <2>1, <2>2, <2>3 DEF Leaving
<1>11. Types'
  BY <1>1, <1>2, <1>6, <1>8 DEF Types, Label
<1> QED
  BY <1>10, <1>11 DEF IndInv, Places

\* A task that exits leaves its interrupts on.
LEMMA ExitStep ==
    ASSUME IndInv, thread_exit
    PROVE  IndInv'
<1>1. /\ pc = "run" /\ pc' = "pushf" /\ dead' = dead \cup {current_task}
      /\ current_task \in Exiting
      /\ Push(CallFrame(current_task, ESP[Sched], "exited"))
      /\ UNCHANGED <<reg, if_flag, stk, ESP, current_task>>
  BY DEF thread_exit
<1>2. Types /\ StackWords \in Nat /\ StackWords >= 31
  BY SwtchAssumption DEF IndInv
<1>3. Running
  BY <1>1 DEF IndInv, Places, InSchedule, Entering, Resuming, Running, Returning,
              Leaving, Back, Dying, Lost, PushPc, PopPc
<1>4. OnCpu /\ esp = 0 /\ stk = current_task /\ ESP[Sched] = <<Sched, 8>>
      /\ current_task \in Task
  BY <1>3 DEF Running, OnCpu, SchedKept
<1>5. current_task \in Context /\ ESP[Sched] \in Pointer /\ "exited" \in Label
      /\ esp + 3 <= StackWords
  <2>1. current_task \in Context /\ ESP[Sched] \in Pointer
    BY <1>2 DEF Types, Context
  <2>2. esp + 3 <= StackWords
    BY <1>2, <1>4
  <2>3. "exited" \in Label
    BY DEF Label
  <2> QED
    BY <2>1, <2>2, <2>3
<1>6. /\ mem' \in [Context -> [1..StackWords -> Word]]
      /\ esp' = esp + 3 /\ esp' \in 0..StackWords
      /\ \A x \in Context : x # stk => mem'[x] = mem[x]
      /\ mem'[stk][esp + 1] = EspWord(ESP[Sched])
      /\ mem'[stk][esp + 2] = OldWord(current_task)
  BY <1>1, <1>2, <1>5, PushCall
<1>7. esp + 1 = 3 - 2 /\ esp + 2 = 3 - 1 /\ esp' = 3
  BY <1>4, <1>6
<1>8. Depth(pc') = 0 /\ pc' \in PushPc
  BY <1>1 DEF Depth, PushPc
<1>9. AllWait'
  BY <1>1, <1>4, <1>6, WaitsSame DEF OnCpu, OthersWait, AllWait, Context
<1>10. SchedKept'
  <2>1. mem'[Sched] = mem[Sched] /\ dead' # {}
    BY <1>1, <1>4, <1>6, SwtchAssumption DEF Context
  <2> QED
    BY <1>1, <1>4, <2>1 DEF OnCpu, SchedKept, HurtEBP
<1>11. Dying'
  <2>1. /\ mem'[stk'][3 - 2] = EspWord(<<Sched, 8>>)
        /\ mem'[stk'][3 - 1] = OldWord(current_task')
        /\ stk' # Sched
    BY <1>1, <1>4, <1>6, <1>7, SwtchAssumption
  <2>2. esp' = 3 + Depth(pc') /\ 3 \in 3..26
    BY <1>7, <1>8
  <2>3. current_task' \in dead' /\ stk' \in {current_task', Sched}
    BY <1>1, <1>4
  <2> QED
    BY <1>8, <1>9, <1>10, <2>1, <2>2, <2>3 DEF Dying
<1>12. Types'
  BY <1>1, <1>2, <1>4, <1>6, <1>8 DEF Types, Label
<1> QED
  BY <1>11, <1>12 DEF IndInv, Places

-----------------------------------------------------------------------------
(* Interrupts                                                               *)

LEMMA IsrReturnStep ==
    ASSUME IndInv, isr_return
    PROVE  IndInv'
<1>1. /\ pc = "isr_common"
      /\ reg' = [r \in Reg |->
                   AsReg(Top(CASE r = "EBX" -> 6 [] r = "EBP" -> 4
                               [] r = "ESI" -> 3 [] r = "EDI" -> 2))]
      /\ pc' = Top(12)[2] /\ if_flag' = Top(14)[2] /\ esp' = esp - 15
      /\ UNCHANGED <<stk, mem, ESP, current_task, dead>>
  BY DEF isr_return, FrameWords
<1>2. Types /\ StackWords \in Nat /\ StackWords >= 31
  BY SwtchAssumption DEF IndInv
<1>3. Returning
  BY <1>1 DEF IndInv, Places, InSchedule, Entering, Resuming, Running, Returning,
              Leaving, Back, Dying, Lost, PushPc, PopPc
<1>4. OnCpu /\ OnCpu'
  BY <1>1, <1>3, OnCpuSame DEF Returning
<1>5. /\ reg'["EBX"] = AsReg(Top(6)) /\ reg'["EBP"] = AsReg(Top(4))
      /\ reg'["ESI"] = AsReg(Top(3)) /\ reg'["EDI"] = AsReg(Top(2))
  BY <1>1 DEF Reg
<1>6. ASSUME NEW b \in {0, 1}, NEW l \in Label, esp = b + 15,
             FrameAt(mem[stk], b, stk, l)
      PROVE  Types' /\ RegsBack(0, stk)' /\ if_flag' /\ pc' = l /\ esp' = b
  <2>1. /\ esp - 6 = b + 9 /\ esp - 4 = b + 11 /\ esp - 3 = b + 12
        /\ esp - 2 = b + 13 /\ esp - 12 = b + 3 /\ esp - 14 = b + 1
        /\ esp' = b
    BY <1>1, <1>6
  <2>2. /\ Top(6) = RegWord(Val(stk, "EBX")) /\ Top(4) = RegWord(Val(stk, "EBP"))
        /\ Top(3) = RegWord(Val(stk, "ESI")) /\ Top(2) = RegWord(Val(stk, "EDI"))
        /\ Top(12) = CodeWord(l) /\ Top(14) = FlagWord(TRUE)
    BY <1>6, <2>1 DEF Top, FrameAt
  <2>3. /\ reg'["EBX"] = Val(stk, "EBX") /\ reg'["EBP"] = Val(stk, "EBP")
        /\ reg'["ESI"] = Val(stk, "ESI") /\ reg'["EDI"] = Val(stk, "EDI")
        /\ pc' = l /\ if_flag' = TRUE
    BY <1>1, <1>5, <2>2, WordParts
  <2>4. RegsBack(0, stk)'
    BY <1>1, <2>3 DEF RegsBack
  <2>5. reg' \in [Reg -> RegVal]
    <3>1. \A r \in Reg : Val(stk, r) \in RegVal
      BY <1>2 DEF Types, Val, RegVal, Context
    <3>2. \A r \in Reg : reg'[r] = Val(stk, r)
      BY <2>3 DEF Reg
    <3> DEFINE g(r) == AsReg(Top(CASE r = "EBX" -> 6 [] r = "EBP" -> 4
                                   [] r = "ESI" -> 3 [] r = "EDI" -> 2))
    <3>3. reg' = [r \in Reg |-> g(r)]
      BY <1>1
    <3> HIDE DEF g
    <3>4. \A r \in Reg : g(r) \in RegVal
      BY <3>1, <3>2, <3>3
    <3> QED
      BY <3>3, <3>4
  <2>6. esp' \in 0..StackWords
    BY <1>2, <2>1
  <2>7. Types'
    BY <1>1, <1>2, <2>3, <2>5, <2>6 DEF Types
  <2> QED
    BY <2>1, <2>3, <2>4, <2>7
<1>7. CASE esp = 15 /\ FrameAt(mem[stk], 0, stk, "run")
  <2>1. Types' /\ RegsBack(0, stk)' /\ if_flag' /\ pc' = "run" /\ esp' = 0
    <3>1. esp = 0 + 15 /\ "run" \in Label
      BY <1>7 DEF Label
    <3> QED
      BY <1>6, <1>7, <3>1
  <2>2. Running'
    BY <1>4, <2>1 DEF Running
  <2> QED
    BY <2>1, <2>2 DEF IndInv, Places
<1>8. CASE /\ esp = 16 /\ FrameAt(mem[stk], 1, stk, "ret")
           /\ mem[stk][1] = CodeWord("run")
  <2>1. Types' /\ RegsBack(0, stk)' /\ if_flag' /\ pc' = "ret" /\ esp' = 1
    <3>1. esp = 1 + 15 /\ "ret" \in Label
      BY <1>8 DEF Label, PopPc
    <3> QED
      BY <1>6, <1>8, <3>1
  <2>2. Left(pc') = 0 /\ ~(Left(pc') >= 1) /\ pc' \in PopPc
    BY <2>1 DEF Left, PopPc
  <2>3. ReturnAt(mem'[stk'], 1, stk') /\ RegsAt(mem'[stk'], 1, 0, stk')
    BY <1>1, <1>8 DEF ReturnAt, RegsAt
  <2>4. esp' = 1 + Left(pc') /\ 1 \in {1, 3, 18, 19}
    BY <2>1, <2>2
  <2>5. Resuming'
    BY <1>4, <2>1, <2>2, <2>3, <2>4 DEF Resuming
  <2> QED
    BY <2>1, <2>5 DEF IndInv, Places
<1> QED
  BY <1>3, <1>7, <1>8 DEF Returning

\* Where an interrupt can come: in a task's code, before its first
\* instruction, and in a call of swtch by a task that has exited, on its stack
\* or already on the boot stack.
Interrupted ==
    \/ /\ OnCpu /\ RegsBack(0, stk) /\ esp = 0 /\ pc = "run"
    \/ /\ OnCpu /\ RegsBack(0, stk) /\ esp = 1 /\ pc = "ret"
       /\ mem[stk][1] = CodeWord("run")
    \/ Back /\ Left(pc) \in 1..5 /\ current_task \in dead
    \/ /\ Dying /\ stk = current_task /\ esp = 3 + Depth(pc)
       /\ mem[stk][1] = EspWord(<<Sched, 8>>)
       /\ mem[stk][2] = OldWord(current_task)

LEMMA InterruptPlaces ==
    ASSUME IndInv, if_flag
    PROVE  Interrupted
<1>1. CASE Resuming
  <2>1. PICK q \in {1, 3, 18, 19} :
        /\ ReturnAt(mem[stk], q, stk)
        /\ esp = q + Left(pc)
        /\ if_flag <=> pc = "ret" /\ q = 1
    BY <1>1 DEF Resuming
  <2>2. q = 1 /\ pc = "ret"
    BY <2>1
  <2>3. Left(pc) = 0
    BY <2>2 DEF Left
  <2>4. mem[stk][1] = CodeWord("run")
    BY <2>1, <2>2 DEF ReturnAt
  <2>5. esp = 1 /\ RegsBack(0, stk) /\ OnCpu
    BY <1>1, <2>1, <2>2, <2>3 DEF Resuming
  <2> QED
    BY <2>2, <2>4, <2>5 DEF Interrupted
<1>2. CASE Running
  BY <1>2 DEF Running, Interrupted
<1>3. CASE Back
  <2>1. current_task \in dead /\ pc \in PopPc /\ pc # "ret"
    BY <1>3 DEF Back
  <2>2. Left(pc) \in 1..5
    BY <2>1 DEF PopPc, Left
  <2> QED
    BY <1>3, <2>1, <2>2 DEF Interrupted
<1>4. CASE Dying
  <2>1. PICK q \in 3..26 :
        /\ esp = q + Depth(pc)
        /\ mem[stk][q - 2] = EspWord(<<Sched, 8>>)
        /\ mem[stk][q - 1] = OldWord(current_task)
        /\ if_flag => q = 3
        /\ stk = Sched => q >= 22
    BY <1>4 DEF Dying
  <2>2. q = 3 /\ q - 2 = 1 /\ q - 1 = 2 /\ ~(q >= 22)
    BY <2>1
  <2>3. stk = current_task
    BY <1>4, <2>1, <2>2 DEF Dying
  <2> QED
    BY <1>4, <2>1, <2>2, <2>3 DEF Interrupted
<1> QED
  BY <1>1, <1>2, <1>3, <1>4 DEF IndInv, Places, InSchedule, Entering, Returning, Leaving, Lost

LEMMA TimerStep ==
    ASSUME IndInv, timer_isr
    PROVE  IndInv'
<1>1. /\ if_flag /\ if_flag' = FALSE /\ pc' = "pushf"
      /\ Push(InterruptFrame \o CallFrame(current_task, ESP[Sched], "isr_common"))
      /\ UNCHANGED <<reg, stk, ESP, current_task, dead>>
  BY DEF timer_isr
<1>2. Types /\ StackWords \in Nat /\ StackWords >= 31 /\ if_flag = TRUE
  BY <1>1, SwtchAssumption DEF IndInv, Types
<1>3. Interrupted
  BY <1>1, InterruptPlaces
<1>4. Depth(pc') = 0 /\ ~(Depth(pc') >= 1) /\ pc' \in PushPc /\ pc' # "load_esp"
  BY <1>1 DEF Depth, PushPc
<1>5. ASSUME esp <= 8
      PROVE  /\ Types'
             /\ esp' = esp + 18
             /\ \A x \in Context : x # stk => mem'[x] = mem[x]
             /\ \A i \in 1..esp : mem'[stk][i] = mem[stk][i]
             /\ mem'[stk][esp + 1] = FlagWord(TRUE)
             /\ mem'[stk][esp + 2] = NoWord /\ mem'[stk][esp + 4] = NoWord
             /\ mem'[stk][esp + 3] = CodeWord(pc)
             /\ mem'[stk][esp + 9] = RegWord(reg["EBX"])
             /\ mem'[stk][esp + 11] = RegWord(reg["EBP"])
             /\ mem'[stk][esp + 12] = RegWord(reg["ESI"])
             /\ mem'[stk][esp + 13] = RegWord(reg["EDI"])
             /\ mem'[stk][esp + 16] = EspWord(ESP[Sched])
             /\ mem'[stk][esp + 17] = OldWord(current_task)
             /\ mem'[stk][esp + 18] = CodeWord("isr_common")
  <2>1. esp + 18 <= StackWords /\ current_task \in Context
    BY <1>2, <1>5 DEF Types
  <2>2. /\ mem' \in [Context -> [1..StackWords -> Word]]
        /\ esp' = esp + 18 /\ esp' \in 0..StackWords
        /\ \A x \in Context : x # stk => mem'[x] = mem[x]
        /\ \A i \in 1..esp : mem'[stk][i] = mem[stk][i]
        /\ mem'[stk][esp + 1] = FlagWord(if_flag)
        /\ mem'[stk][esp + 2] = NoWord /\ mem'[stk][esp + 4] = NoWord
        /\ mem'[stk][esp + 3] = CodeWord(pc)
        /\ mem'[stk][esp + 9] = RegWord(reg["EBX"])
        /\ mem'[stk][esp + 11] = RegWord(reg["EBP"])
        /\ mem'[stk][esp + 12] = RegWord(reg["ESI"])
        /\ mem'[stk][esp + 13] = RegWord(reg["EDI"])
        /\ mem'[stk][esp + 16] = EspWord(ESP[Sched])
        /\ mem'[stk][esp + 17] = OldWord(current_task)
        /\ mem'[stk][esp + 18] = CodeWord("isr_common")
    BY <1>1, <1>2, <2>1, PushInterrupt
  <2>3. Types'
    BY <1>1, <1>2, <1>4, <2>2 DEF Types, Label
  <2> QED
    BY <1>2, <2>2, <2>3
<1>6. ASSUME NEW b \in {0, 1}, OnCpu, RegsBack(0, stk), esp = b,
             b = 0 => pc = "run",
             b = 1 => pc = "ret" /\ mem[stk][1] = CodeWord("run")
      PROVE  IndInv'
  <2>1. esp <= 8 /\ ESP[Sched] = <<Sched, 8>> /\ stk = current_task
    BY <1>6 DEF OnCpu, SchedKept
  <2>2. FrameAt(mem'[stk], b, stk, pc)
    <3>1. /\ mem'[stk][b + 1] = FlagWord(TRUE)
          /\ mem'[stk][b + 3] = CodeWord(pc)
          /\ mem'[stk][b + 9] = RegWord(reg["EBX"])
          /\ mem'[stk][b + 11] = RegWord(reg["EBP"])
          /\ mem'[stk][b + 12] = RegWord(reg["ESI"])
          /\ mem'[stk][b + 13] = RegWord(reg["EDI"])
      BY <1>5, <1>6, <2>1
    <3>2. /\ reg["EBX"] = Val(stk, "EBX") /\ reg["EBP"] = Val(stk, "EBP")
          /\ reg["ESI"] = Val(stk, "ESI") /\ reg["EDI"] = Val(stk, "EDI")
      BY <1>6 DEF RegsBack
    <3> QED
      BY <3>1, <3>2 DEF FrameAt
  <2> DEFINE q == 18 + b
  <2>3. q \in {3, 18, 19} /\ q - 2 = esp + 16 /\ q - 1 = esp + 17 /\ q = esp + 18
    BY <1>6
  <2>4. ReturnAt(mem'[stk], q, stk)
    <3>1. CASE b = 0
      BY <1>5, <1>6, <2>1, <2>2, <2>3, <3>1 DEF ReturnAt
    <3>2. CASE b = 1
      <4>1. mem'[stk][1] = CodeWord("run")
        BY <1>5, <1>6, <2>1, <3>2
      <4>2. q = 19 /\ mem'[stk][19] = CodeWord("isr_common") /\ pc = "ret"
        BY <1>5, <1>6, <2>1, <2>3, <3>2
      <4> QED
        BY <2>2, <3>2, <4>1, <4>2 DEF ReturnAt
    <3> QED
      BY <3>1, <3>2
  <2>5. OnCpu' /\ RegsBack(0, stk)'
    BY <1>1, <1>5, <1>6, <2>1, OnCpuPush DEF RegsBack
  <2>6. /\ mem'[stk][q - 2] = EspWord(<<Sched, 8>>)
        /\ mem'[stk][q - 1] = OldWord(stk)
    BY <1>5, <2>1, <2>3
  <2>7. esp' = q + Depth(pc') /\ RegsAt(mem'[stk], q, Depth(pc'), stk)
    <3>1. esp' = q + Depth(pc')
      BY <1>4, <1>5, <2>1, <2>3
    <3>2. RegsAt(mem'[stk], q, Depth(pc'), stk)
      BY <1>4 DEF RegsAt
    <3> QED
      BY <3>1, <3>2
  <2> HIDE DEF q
  <2>8. Leaving'
    BY <1>1, <1>4, <2>3, <2>4, <2>5, <2>6, <2>7 DEF Leaving
  <2> QED
    BY <1>5, <2>1, <2>8 DEF IndInv, Places
<1>7. ASSUME current_task \in dead, stk \in {current_task, Sched}, esp \in 3..8,
             stk = Sched => esp >= 4, AllWait, ESP[Sched] = <<Sched, 8>>,
             mem[Sched][3] = CodeWord("schedule_back"),
             mem[Sched][4] = FlagWord(FALSE),
             (stk = Sched /\ esp < 8) \/ RegsAt(mem[Sched], 3, 5, Sched) \/ HurtEBP
      PROVE  IndInv'
  <2>1. esp <= 8 /\ current_task \in Task
    BY <1>2, <1>7 DEF Types
  <2>2. AllWait'
    BY <1>1, <1>5, <1>7, <2>1, WaitsSame, SwtchAssumption DEF AllWait, Context
  <2>3. SchedKept'
    <3>1. mem'[Sched][3] = mem[Sched][3] /\ mem'[Sched][4] = mem[Sched][4]
      <4>1. CASE stk = Sched
        <5>1. 3 \in 1..esp /\ 4 \in 1..esp
          BY <1>7, <4>1
        <5> QED
          BY <1>5, <2>1, <4>1, <5>1
      <4>2. CASE stk # Sched
        BY <1>5, <2>1, <4>2 DEF Context
      <4> QED
        BY <4>1, <4>2
    <3>2. CASE stk = Sched /\ esp < 8
      <4>1. mem'[Sched][8] \in {mem'[Sched][esp + 1], mem'[Sched][esp + 2],
                               mem'[Sched][esp + 3], mem'[Sched][esp + 4]}
        <5>1. esp \in 4..7
          BY <1>7, <3>2
        <5>2. esp + 1 = 8 \/ esp + 2 = 8 \/ esp + 3 = 8 \/ esp + 4 = 8
          BY <5>1
        <5> QED
          BY <5>2
      <4>2. mem'[Sched][8] \in {FlagWord(TRUE), NoWord, CodeWord(pc)}
        BY <1>5, <2>1, <3>2, <4>1
      <4>3. mem'[Sched][8] # RegWord(Val(Sched, "EBP"))
        <5>1. /\ FlagWord(TRUE)[1] # "reg" /\ NoWord[1] # "reg"
              /\ CodeWord(pc)[1] # "reg" /\ RegWord(Val(Sched, "EBP"))[1] = "reg"
          BY DEF FlagWord, NoWord, CodeWord, RegWord
        <5> QED
          BY <4>2, <5>1
      <4> QED
        BY <1>1, <1>7, <3>1, <4>3 DEF SchedKept, HurtEBP
    <3>3. CASE stk # Sched \/ esp = 8
      <4>1. \A i \in 1..(3 + 5) : mem'[Sched][i] = mem[Sched][i]
        BY <1>5, <2>1, <3>3 DEF Context
      <4>2. mem'[Sched][8] = mem[Sched][8]
        BY <4>1
      <4>3. RegsAt(mem[Sched], 3, 5, Sched) => RegsAt(mem'[Sched], 3, 5, Sched)
        BY <4>1, RegsSame
      <4> QED
        BY <1>1, <1>7, <3>1, <3>3, <4>2, <4>3 DEF SchedKept, HurtEBP
    <3> QED
      BY <1>7, <3>2, <3>3
  <2> DEFINE q == esp + 18
  <2>4. /\ q \in 3..26 /\ q - 2 = esp + 16 /\ q - 1 = esp + 17
        /\ stk = Sched => q >= 22
    BY <1>7
  <2>5. /\ mem'[stk][q - 2] = EspWord(<<Sched, 8>>)
        /\ mem'[stk][q - 1] = OldWord(current_task)
    BY <1>5, <1>7, <2>1, <2>4
  <2>6. esp' = q + Depth(pc')
    BY <1>4, <1>5, <1>7, <2>1
  <2> HIDE DEF q
  <2>7. Dying'
    BY <1>1, <1>4, <1>7, <2>2, <2>3, <2>4, <2>5, <2>6 DEF Dying
  <2> QED
    BY <1>5, <2>1, <2>7 DEF IndInv, Places
<1>8. CASE OnCpu /\ RegsBack(0, stk) /\ esp = 0 /\ pc = "run"
  BY <1>6, <1>8
<1>9. CASE /\ OnCpu /\ RegsBack(0, stk) /\ esp = 1 /\ pc = "ret"
           /\ mem[stk][1] = CodeWord("run")
  BY <1>6, <1>9
<1>10. CASE Back /\ Left(pc) \in 1..5 /\ current_task \in dead
  <2>1. stk = Sched /\ esp \in 3..8 /\ esp >= 4 /\ Left(pc) >= 1
    BY <1>10 DEF Back
  <2>2. esp < 8 \/ RegsAt(mem[Sched], 3, 5, Sched) \/ HurtEBP
    <3>1. esp = 3 + Left(pc)
      BY <1>10 DEF Back
    <3>2. Left(pc) = 5 => RegsAt(mem[Sched], 3, 5, Sched) \/ HurtEBP
      BY <1>10 DEF Back
    <3> QED
      BY <1>10, <3>1, <3>2
  <2> QED
    BY <1>7, <1>10, <2>1, <2>2 DEF Back
<1>11. CASE Dying /\ stk = current_task /\ esp = 3 + Depth(pc)
  <2>1. pc \in PushPc /\ current_task \in dead
    BY <1>11 DEF Dying
  <2>2. esp \in 3..8
    BY <1>11, <2>1, DepthType
  <2>3. stk # Sched
    BY <1>2, <1>11, <2>1, SwtchAssumption DEF Types
  <2> QED
    BY <1>7, <1>11, <2>2, <2>3 DEF Dying, SchedKept
<1> QED
  BY <1>3, <1>8, <1>9, <1>10, <1>11 DEF Interrupted

\* The keyboard handler writes above the stack pointer, where nothing that is
\* needed is left.
LEMMA KeyboardStep ==
    ASSUME IndInv, keyboard_isr
    PROVE  IndInv'
<1>1. /\ if_flag
      /\ mem' = [mem EXCEPT ![stk] = Write(mem[stk], esp, InterruptFrame)]
      /\ UNCHANGED <<reg, if_flag, stk, esp, ESP, pc, current_task, dead>>
  BY DEF keyboard_isr
<1>2. Types /\ StackWords \in Nat /\ StackWords >= 31
  BY SwtchAssumption DEF IndInv
<1>3. Interrupted
  BY <1>1, InterruptPlaces
<1>4. ASSUME esp <= 8
      PROVE  /\ Types'
             /\ \A x \in Context : x # stk => mem'[x] = mem[x]
             /\ \A i \in 1..esp : mem'[stk][i] = mem[stk][i]
  <2>1. /\ mem[stk] \in [1..StackWords -> Word] /\ esp \in 0..StackWords
        /\ InterruptFrame \in Seq(Word) /\ Len(InterruptFrame) = 15
        /\ stk \in Context
    BY <1>2, FrameFacts DEF Types
  <2>2. esp + Len(InterruptFrame) <= StackWords
    BY <1>2, <1>4, <2>1
  <2>3. /\ Write(mem[stk], esp, InterruptFrame) \in [1..StackWords -> Word]
        /\ \A i \in 1..esp : Write(mem[stk], esp, InterruptFrame)[i] = mem[stk][i]
    BY <2>1, <2>2, WriteFacts
  <2>4. /\ mem' \in [Context -> [1..StackWords -> Word]]
        /\ mem'[stk] = Write(mem[stk], esp, InterruptFrame)
        /\ \A x \in Context : x # stk => mem'[x] = mem[x]
    BY <1>1, <1>2, <2>1, <2>3 DEF Types
  <2> QED
    BY <1>1, <1>2, <2>3, <2>4 DEF Types
<1>5. CASE OnCpu /\ RegsBack(0, stk) /\ esp = 0 /\ pc = "run"
  <2>1. OnCpu' /\ RegsBack(0, stk)' /\ Types'
    BY <1>1, <1>4, <1>5, OnCpuPush DEF RegsBack
  <2>2. Running'
    BY <1>1, <1>5, <2>1 DEF Running
  <2> QED
    BY <2>1, <2>2 DEF IndInv, Places
<1>6. CASE /\ OnCpu /\ RegsBack(0, stk) /\ esp = 1 /\ pc = "ret"
           /\ mem[stk][1] = CodeWord("run")
  <2>1. OnCpu' /\ RegsBack(0, stk)' /\ Types' /\ mem'[stk][1] = CodeWord("run")
    BY <1>1, <1>4, <1>6, OnCpuPush DEF RegsBack
  <2>2. Left(pc') = 0 /\ ~(Left(pc') >= 1) /\ pc' \in PopPc
    BY <1>1, <1>6 DEF Left, PopPc
  <2>3. ReturnAt(mem'[stk'], 1, stk') /\ RegsAt(mem'[stk'], 1, 0, stk')
    BY <1>1, <2>1 DEF ReturnAt, RegsAt
  <2>4. esp' = 1 + Left(pc') /\ 1 \in {1, 3, 18, 19}
    BY <1>1, <1>6, <2>2
  <2>5. Resuming'
    BY <1>1, <1>6, <2>1, <2>2, <2>3, <2>4 DEF Resuming
  <2> QED
    BY <2>1, <2>5 DEF IndInv, Places
<1>7. CASE Back /\ Left(pc) \in 1..5 /\ current_task \in dead
  <2>1. stk = Sched /\ esp <= 8 /\ 3 \in 1..esp /\ 4 \in 1..esp /\ Left(pc) >= 1
    BY <1>7 DEF Back
  <2>2. mem'[Sched][3] = mem[Sched][3] /\ mem'[Sched][4] = mem[Sched][4]
    BY <1>4, <2>1
  <2>3. AllWait'
    BY <1>1, <1>4, <1>7, <2>1, WaitsSame, SwtchAssumption DEF Back, AllWait, Context
  <2>4. /\ Left(pc') = Left(pc) /\ Left(pc') >= 1
        /\ \/ RegsBack(Left(pc), Sched)' /\ RegsAt(mem'[Sched], 3, Left(pc'), Sched)
           \/ Left(pc') = 5 /\ HurtEBP'
           \/ Left(pc') < 5 /\ LostEBP'
    <3>1. esp = 3 + Left(pc)
      BY <1>7 DEF Back
    <3>2. \A i \in 1..(3 + Left(pc)) : mem'[Sched][i] = mem[Sched][i]
      BY <1>4, <2>1, <3>1
    <3>3. RegsAt(mem[Sched], 3, Left(pc), Sched) => RegsAt(mem'[Sched], 3, Left(pc), Sched)
      BY <1>7, <3>2, RegsSame
    <3>4. Left(pc) = 5 => mem'[Sched][8] = mem[Sched][8]
      BY <3>2
    <3>5. \/ RegsBack(Left(pc), Sched) /\ RegsAt(mem[Sched], 3, Left(pc), Sched)
          \/ Left(pc) = 5 /\ HurtEBP
          \/ Left(pc) < 5 /\ LostEBP
      BY <1>7 DEF Back
    <3>6. pc' = pc /\ reg' = reg /\ dead' = dead
      BY <1>1
    <3> QED
      BY <2>1, <3>3, <3>4, <3>5, <3>6 DEF RegsBack, HurtEBP, LostEBP
  <2>5. Back'
    BY <1>1, <1>7, <2>1, <2>2, <2>3, <2>4 DEF Back
  <2> QED
    BY <1>4, <2>1, <2>5 DEF IndInv, Places
<1>8. CASE /\ Dying /\ stk = current_task /\ esp = 3 + Depth(pc)
           /\ mem[stk][1] = EspWord(<<Sched, 8>>)
           /\ mem[stk][2] = OldWord(current_task)
  <2>1. pc \in PushPc /\ current_task \in dead /\ current_task \in Task
    BY <1>2, <1>8 DEF Dying, Types
  <2>2. esp <= 8 /\ 1 \in 1..esp /\ 2 \in 1..esp
    BY <1>8, <2>1, DepthType
  <2>3. mem'[stk][1] = mem[stk][1] /\ mem'[stk][2] = mem[stk][2]
    BY <1>4, <2>2
  <2>4. AllWait'
    BY <1>1, <1>4, <1>8, <2>1, <2>2, WaitsSame DEF Dying, AllWait, Context
  <2>5. SchedKept'
    <3>1. mem'[Sched] = mem[Sched]
      BY <1>4, <1>8, <2>1, <2>2, SwtchAssumption DEF Context
    <3> QED
      BY <1>1, <1>8, <3>1 DEF Dying, SchedKept, HurtEBP
  <2>6. 3 \in 3..26 /\ 3 - 2 = 1 /\ 3 - 1 = 2 /\ stk # Sched
    BY <1>8, <2>1, SwtchAssumption
  <2>7. /\ mem'[stk'][3 - 2] = EspWord(<<Sched, 8>>)
        /\ mem'[stk'][3 - 1] = OldWord(current_task')
        /\ esp' = 3 + Depth(pc')
    BY <1>1, <1>8, <2>3, <2>6
  <2>8. Dying'
    BY <1>1, <1>8, <2>1, <2>4, <2>5, <2>6, <2>7 DEF Dying
  <2> QED
    BY <1>4, <2>2, <2>8 DEF IndInv, Places
<1> QED
  BY <1>3, <1>5, <1>6, <1>7, <1>8 DEF Interrupted

-----------------------------------------------------------------------------
(* The invariant                                                            *)

\* A new task's stack returns to its entry point with interrupts on.
LEMMA NewStack ==
    ASSUME NEW t \in Task
    PROVE  /\ create_task_stack(t) \in [1..StackWords -> Word]
           /\ create_task_stack(t)[1] = CodeWord("run")
           /\ create_task_stack(t)[2] = FlagWord(TRUE)
           /\ create_task_stack(t)[3] = RegWord(Val(t, "EBX"))
           /\ create_task_stack(t)[4] = RegWord(Val(t, "ESI"))
           /\ create_task_stack(t)[5] = RegWord(Val(t, "EDI"))
           /\ create_task_stack(t)[6] = RegWord(Val(t, "EBP"))
<1> DEFINE blank == [i \in 1..StackWords |-> NoWord]
           bx == RegWord(Val(t, "EBX"))
           si == RegWord(Val(t, "ESI"))
           di == RegWord(Val(t, "EDI"))
           bp == RegWord(Val(t, "EBP"))
           ip == CodeWord("run")
           fl == FlagWord(TRUE)
           ws == <<ip, fl, bx, si, di, bp>>
<1>1. /\ Val(t, "EBX") \in RegVal /\ Val(t, "ESI") \in RegVal
      /\ Val(t, "EDI") \in RegVal /\ Val(t, "EBP") \in RegVal
      /\ "run" \in Label
  BY DEF Val, RegVal, Reg, Label
<1>2. /\ ip \in Word /\ fl \in Word /\ bx \in Word /\ si \in Word
      /\ di \in Word /\ bp \in Word
  BY <1>1, WordTypes
<1>3. blank \in [1..StackWords -> Word]
  BY WordTypes
<1>4. create_task_stack(t) = Write(blank, 0, ws)
  BY DEF create_task_stack
<1> HIDE DEF blank, ip, fl, bx, si, di, bp
<1>5. /\ ws \in Seq(Word) /\ Len(ws) = 6
      /\ ws[1] = ip /\ ws[2] = fl /\ ws[3] = bx /\ ws[4] = si /\ ws[5] = di
      /\ ws[6] = bp
  BY <1>2
<1> HIDE DEF ws
<1>6. 0 \in 0..StackWords /\ 0 + Len(ws) <= StackWords
  BY <1>5, SwtchAssumption
<1>7. /\ Write(blank, 0, ws) \in [1..StackWords -> Word]
      /\ \A i \in 1..Len(ws) : Write(blank, 0, ws)[0 + i] = ws[i]
  BY <1>3, <1>5, <1>6, WriteFacts
<1>8. \A i \in 1..6 : create_task_stack(t)[i] = ws[i]
  BY <1>4, <1>5, <1>7
<1>9. create_task_stack(t) \in [1..StackWords -> Word]
  BY <1>4, <1>7
<1>10. /\ create_task_stack(t)[1] = ws[1] /\ create_task_stack(t)[2] = ws[2]
       /\ create_task_stack(t)[3] = ws[3] /\ create_task_stack(t)[4] = ws[4]
       /\ create_task_stack(t)[5] = ws[5] /\ create_task_stack(t)[6] = ws[6]
  BY <1>8
<1>11. /\ create_task_stack(t)[1] = ip /\ create_task_stack(t)[2] = fl
       /\ create_task_stack(t)[3] = bx /\ create_task_stack(t)[4] = si
       /\ create_task_stack(t)[5] = di /\ create_task_stack(t)[6] = bp
  BY <1>5, <1>10
<1> QED
  BY <1>9, <1>11 DEF ip, fl, bx, si, di, bp

LEMMA InitInd == Init => IndInv
<1> SUFFICES ASSUME Init PROVE IndInv
  OBVIOUS
<1>1. /\ reg = [r \in Reg |-> Val(Sched, r)] /\ if_flag = FALSE /\ stk = Sched
      /\ esp = 0 /\ pc = "schedule" /\ current_task = Sched /\ dead = {}
  BY DEF Init
<1>2. StackWords \in Nat /\ StackWords >= 31 /\ Sched \notin Task
  BY SwtchAssumption
<1> DEFINE blank == [i \in 1..StackWords |-> NoWord]
<1>3. blank \in [1..StackWords -> Word]
  BY WordTypes
<1>4. /\ mem = [x \in Context |-> IF x = Sched THEN blank ELSE create_task_stack(x)]
      /\ ESP = [x \in Context |-> IF x = Sched THEN <<Sched, 0>> ELSE <<x, 6>>]
  BY DEF Init, Context
<1> HIDE DEF blank
<1>5. Types
  <2>1. mem \in [Context -> [1..StackWords -> Word]]
    BY <1>3, <1>4, NewStack DEF Context
  <2>2. ESP \in [Context -> Pointer]
    BY <1>2, <1>4 DEF Pointer, Context
  <2>3. reg \in [Reg -> RegVal]
    BY <1>1 DEF Val, RegVal
  <2>4. if_flag \in BOOLEAN /\ dead \subseteq Task /\ pc \in Label
    BY <1>1 DEF Label
  <2>5. stk \in Context /\ current_task \in Context /\ esp \in 0..StackWords
    BY <1>1, <1>2 DEF Context
  <2> QED
    BY <2>1, <2>2, <2>3, <2>4, <2>5 DEF Types
<1>6. ASSUME NEW t \in Task PROVE Waits(t)
  <2>1. mem[t] = create_task_stack(t) /\ ESP[t] = <<t, 1 + 5>>
    BY <1>2, <1>4 DEF Context
  <2>2. ReturnAt(mem[t], 1, t) /\ FlagAt(mem[t], 1) /\ RegsAt(mem[t], 1, 5, t)
    <3>1. /\ mem[t][1] = CodeWord("run") /\ mem[t][1 + 1] = FlagWord(TRUE)
          /\ mem[t][1 + 2] = RegWord(Val(t, "EBX"))
          /\ mem[t][1 + 3] = RegWord(Val(t, "ESI"))
          /\ mem[t][1 + 4] = RegWord(Val(t, "EDI"))
          /\ mem[t][1 + 5] = RegWord(Val(t, "EBP"))
      <4>1. /\ mem[t][1] = CodeWord("run") /\ mem[t][2] = FlagWord(TRUE)
            /\ mem[t][3] = RegWord(Val(t, "EBX"))
            /\ mem[t][4] = RegWord(Val(t, "ESI"))
            /\ mem[t][5] = RegWord(Val(t, "EDI"))
            /\ mem[t][6] = RegWord(Val(t, "EBP"))
        BY <2>1, NewStack, Zenon
      <4>2. 1 + 1 = 2 /\ 1 + 2 = 3 /\ 1 + 3 = 4 /\ 1 + 4 = 5 /\ 1 + 5 = 6
        OBVIOUS
      <4> QED
        BY <4>1, <4>2
    <3>2. ReturnAt(mem[t], 1, t)
      BY <3>1 DEF ReturnAt
    <3>3. FlagAt(mem[t], 1)
      BY <3>1 DEF FlagAt
    <3>4. RegsAt(mem[t], 1, 5, t)
      BY <3>1 DEF RegsAt
    <3> QED
      BY <3>2, <3>3, <3>4
  <2> QED
    BY <2>1, <2>2 DEF Waits, SavedAt
<1>7. InSchedule
  BY <1>1, <1>6 DEF InSchedule, AllWait, RegsBack, Reg
<1> QED
  BY <1>5, <1>7 DEF IndInv, Places

LEMMA StutterStep == ASSUME IndInv, UNCHANGED vars PROVE IndInv'
<1>1. /\ UNCHANGED <<stk, mem, ESP, current_task, dead>>
      /\ UNCHANGED <<reg, if_flag, esp, pc>>
  BY DEF vars
<1>2. Types'
  BY <1>1 DEF IndInv, Types
<1>3. (AllWait => AllWait') /\ (OnCpu => OnCpu') /\ (SchedKept => SchedKept')
  BY <1>1, AllWaitSame, OnCpuSame DEF SchedKept, HurtEBP
<1>4. CASE InSchedule
  BY <1>1, <1>2, <1>3, <1>4 DEF InSchedule, RegsBack, LostEBP, IndInv, Places
<1>5. CASE Entering
  BY <1>1, <1>2, <1>3, <1>5 DEF Entering, RegsBack, IndInv, Places
<1>6. CASE Resuming
  BY <1>1, <1>2, <1>3, <1>6 DEF Resuming, RegsBack, IndInv, Places
<1>7. CASE Running
  BY <1>1, <1>2, <1>3, <1>7 DEF Running, RegsBack, IndInv, Places
<1>8. CASE Returning
  BY <1>1, <1>2, <1>3, <1>8 DEF Returning, IndInv, Places
<1>9. CASE Leaving
  BY <1>1, <1>2, <1>3, <1>9 DEF Leaving, RegsBack, IndInv, Places
<1>10. CASE Back
  BY <1>1, <1>2, <1>3, <1>10 DEF Back, RegsBack, HurtEBP, LostEBP, IndInv, Places
<1>11. CASE Dying
  BY <1>1, <1>2, <1>3, <1>11 DEF Dying, IndInv, Places
<1>12. CASE Lost
  BY <1>1, <1>2, <1>12 DEF Lost, IndInv, Places
<1> QED
  BY <1>4, <1>5, <1>6, <1>7, <1>8, <1>9, <1>10, <1>11, <1>12 DEF IndInv, Places

\* The invariant holds of every reachable state.
LEMMA Invariance == Spec => []IndInv
<1>1. IndInv /\ [Next]_vars => IndInv'
  <2> SUFFICES ASSUME IndInv, [Next]_vars PROVE IndInv'
    OBVIOUS
  <2>1. CASE swtch
    BY <2>1, PushStep, SaveStep, LoadStep, PopStep, PopfStep, RetStep DEF swtch
  <2>2. CASE timer_isr \/ isr_return \/ keyboard_isr
    BY <2>2, TimerStep, IsrReturnStep, KeyboardStep
  <2>3. CASE \E t \in Task : schedule(t)
    BY <2>3, ScheduleStep
  <2>4. CASE schedule_back \/ schedule_lost
    BY <2>4, ScheduleBackStep, ScheduleLostStep
  <2>5. CASE yield_off \/ yield_back \/ yield_again \/ thread_exit
    BY <2>5, YieldStep, YieldBackStep, ExitStep
  <2>6. CASE UNCHANGED vars
    BY <2>6, StutterStep
  <2> QED
    BY <2>1, <2>2, <2>3, <2>4, <2>5, <2>6 DEF Next
<1> QED
  BY <1>1, InitInd, PTL DEF Spec

-----------------------------------------------------------------------------
(* The theorems                                                             *)

\* Registers, stack pointers and saved pointers stay within their types: swtch
\* never runs over the modelled part of a stack, whatever interrupts it.
THEOREM TypesHold == Spec => []TypeOK
<1>1. IndInv => TypeOK
  BY DEF IndInv, Types, TypeOK, RegVal, Pointer, Context
<1> QED
  BY <1>1, Invariance, PTL

\* A task that runs has its own stack, registers and interrupt flag; schedule()
\* goes on with all its registers or with a frame pointer that is not its own,
\* and never while a live task is saved on the boot stack (swtch.asm,
\* isr_asm.asm).
THEOREM TasksRestored == Spec => []TaskRestored
<1>1. ASSUME IndInv PROVE TaskRestored
  <2>1. ASSUME pc \in {"run", "yield_back"}
        PROVE  /\ stk = current_task /\ esp = 0
               /\ \A r \in Reg : reg[r] = Val(current_task, r)
               /\ if_flag <=> pc = "run"
    <3>1. Running
      BY <1>1, <2>1 DEF IndInv, Places, InSchedule, Entering, Resuming, Running,
                        Returning, Leaving, Back, Dying, Lost, PushPc, PopPc
    <3> QED
      BY <3>1 DEF Running, OnCpu, RegsBack, Reg
  <2>2. ASSUME pc = "schedule"
        PROVE  /\ stk = Sched /\ esp = 0 /\ ~if_flag
               /\ \A r \in Reg : reg[r] = Val(Sched, r)
               /\ \A t \in Task \ dead : ESP[t][1] = t
    <3>1. InSchedule
      BY <1>1, <2>2 DEF IndInv, Places, InSchedule, Entering, Resuming, Running,
                        Returning, Leaving, Back, Dying, Lost, PushPc, PopPc
    <3>2. \A r \in Reg : reg[r] = Val(Sched, r)
      BY <2>2, <3>1 DEF InSchedule, RegsBack, Reg
    <3> QED
      BY <3>1, <3>2 DEF InSchedule, AllWait, Waits, SavedAt
  <2> QED
    BY <2>1, <2>2 DEF TaskRestored
<1> QED
  BY <1>1, Invariance, PTL

\* schedule() comes back from swtch with its registers as long as no task has
\* exited: thread_exit is the one caller that leaves interrupts on.
THEOREM SchedulerRestoredUntilExit == Spec => []RestoredUntilExit
<1>1. ASSUME IndInv PROVE RestoredUntilExit
  <2> SUFFICES ASSUME dead = {}, pc = "schedule_back"
               PROVE  stk = Sched /\ esp = 0 /\ \A r \in Reg : reg[r] = Val(Sched, r)
    BY DEF RestoredUntilExit, SchedulerRestored
  <2>1. InSchedule
    BY <1>1 DEF IndInv, Places, InSchedule, Entering, Resuming, Running,
                Returning, Leaving, Back, Dying, Lost, PushPc, PopPc
  <2> QED
    BY <2>1 DEF InSchedule, RegsBack, LostEBP, Reg
<1> QED
  BY <1>1, Invariance, PTL

=============================================================================
