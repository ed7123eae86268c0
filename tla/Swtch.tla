------------------------------- MODULE Swtch -------------------------------
(***************************************************************************)
(* The context switch of pelikanOS instruction by instruction: swtch        *)
(* (src/swtch.asm), the interrupt stub around isr_handler                   *)
(* (src/isr_asm.asm), and the ways in which the kernel comes to call swtch. *)
(*                                                                         *)
(* A register holds the name of the context and of the register whose value *)
(* is in it, or Junk.                                                       *)
(* A stack is a memory of words; words above the stack pointer stay until   *)
(* they are overwritten, which is what an interrupt does.  Which task       *)
(* schedule() picks, and why a task sleeps, is the business of Scheduler    *)
(* and MutexLock: here any live task may be next.  The definitions named    *)
(* Bad... are mistakes that the properties are known to catch; no           *)
(* specification uses them.                                                 *)
(***************************************************************************)
EXTENDS Naturals, Sequences

CONSTANTS
    Task,
    Exiting,     \* the tasks that call thread_exit
    Sched,       \* the context of schedule(), on the boot stack
    StackWords   \* the words modelled of each stack

\* The boot stack is not a task's.  A stack holds the deepest nesting: a call of
\* swtch, an interrupt in it, and the call that this one makes.
ASSUME SwtchAssumption ==
    /\ Sched \notin Task
    /\ Exiting \subseteq Task
    /\ StackWords \in Nat /\ StackWords >= 31

Junk == "junk"

Reg == {"EBX", "ESI", "EDI", "EBP"}

\* The value that context x keeps in register r.
Val(x, r) == <<x, r>>

VARIABLES
    reg,           \* the callee-saved registers
    if_flag,       \* the interrupt flag
    stk,           \* the context in whose stack ESP points
    esp,           \* how many words of that stack are in use
    mem,           \* the words of each stack
    ESP,           \* task->ESP, and scheduler_context for Sched
    pc,            \* the next instruction, or the place in C code
    current_task,
    dead           \* the tasks whose state is TASK_DEAD

vars == <<reg, if_flag, stk, esp, mem, ESP, pc, current_task, dead>>

-----------------------------------------------------------------------------
(* Words and stacks                                                        *)

RegWord(v) == <<"reg", v>>
FlagWord(b) == <<"eflags", b>>
CodeWord(label) == <<"eip", label>>
EspWord(p) == <<"esp", p>>          \* a saved stack pointer
OldWord(x) == <<"old", x>>          \* the address of x's saved pointer
NoWord == <<"word", Junk>>

\* m with the words ws above the first n.
Write(m, n, ws) ==
    [i \in 1..StackWords |-> IF i \in (n + 1)..(n + Len(ws)) THEN ws[i - n]
                             ELSE m[i]]

Push(ws) ==
    /\ mem' = [mem EXCEPT ![stk] = Write(@, esp, ws)]
    /\ esp' = esp + Len(ws)

Top(k) == mem[stk][esp - k]   \* the word k below the top of the stack

\* What a word holds when it is loaded in a register.
AsReg(w) == IF w[1] = "reg" THEN w[2] ELSE Val(Junk, Junk)

\* The arguments and the return address of swtch(&ESP[old], new).
CallFrame(old, new, return) == <<EspWord(new), OldWord(old), CodeWord(return)>>

\* What the CPU and isr_common push for an interrupt: EFLAGS, CS, EIP, the
\* error code, the vector, and by pusha EAX, ECX, EDX, EBX, ESP, EBP, ESI, EDI;
\* then the argument of isr_handler and its return address.
InterruptFrame ==
    <<FlagWord(if_flag), NoWord, CodeWord(pc), NoWord, NoWord,
      NoWord, NoWord, NoWord, RegWord(reg["EBX"]), NoWord,
      RegWord(reg["EBP"]), RegWord(reg["ESI"]), RegWord(reg["EDI"]),
      NoWord, NoWord>>

-----------------------------------------------------------------------------
\* create_task fills a stack with the entry point, the flags word 0x202 and
\* the registers that swtch pops; kmain runs schedule() with interrupts off.
create_task_stack(t) ==
    Write([i \in 1..StackWords |-> NoWord], 0,
          <<CodeWord("run"), FlagWord(TRUE), RegWord(Val(t, "EBX")),
            RegWord(Val(t, "ESI")), RegWord(Val(t, "EDI")),
            RegWord(Val(t, "EBP"))>>)

Init ==
    /\ reg = [r \in Reg |-> Val(Sched, r)]
    /\ if_flag = FALSE
    /\ stk = Sched
    /\ esp = 0
    /\ mem = [x \in Task \cup {Sched} |->
                IF x = Sched THEN [i \in 1..StackWords |-> NoWord]
                ELSE create_task_stack(x)]
    /\ ESP = [x \in Task \cup {Sched} |->
                IF x = Sched THEN <<Sched, 0>> ELSE <<x, 6>>]
    /\ pc = "schedule"
    /\ current_task = Sched
    /\ dead = {}

-----------------------------------------------------------------------------
(* swtch, one action per instruction.                                      *)

PushReg(at, r, next) ==
    /\ pc = at
    /\ Push(<<RegWord(reg[r])>>)
    /\ pc' = next
    /\ UNCHANGED <<reg, if_flag, stk, ESP, current_task, dead>>

PopReg(at, r, next) ==
    /\ pc = at
    /\ reg' = [reg EXCEPT ![r] = AsReg(Top(0))]
    /\ esp' = esp - 1
    /\ pc' = next
    /\ UNCHANGED <<if_flag, stk, mem, ESP, current_task, dead>>

swtch_pushf ==
    /\ pc = "pushf"
    /\ Push(<<FlagWord(if_flag)>>)
    /\ pc' = "push_EBX"
    /\ UNCHANGED <<reg, if_flag, stk, ESP, current_task, dead>>

swtch_push ==
    \/ PushReg("push_EBX", "EBX", "push_ESI")
    \/ PushReg("push_ESI", "ESI", "push_EDI")
    \/ PushReg("push_EDI", "EDI", "push_EBP")
    \/ PushReg("push_EBP", "EBP", "save_esp")

\* [esp + 24] is the first argument: five words and the return address up.
swtch_save ==
    /\ pc = "save_esp"
    /\ ESP' = [ESP EXCEPT ![Top(6)[2]] = <<stk, esp>>]
    /\ pc' = "load_esp"
    /\ UNCHANGED <<reg, if_flag, stk, esp, mem, current_task, dead>>

swtch_load ==
    /\ pc = "load_esp"
    /\ stk' = Top(7)[2][1]
    /\ esp' = Top(7)[2][2]
    /\ pc' = "pop_EBP"
    /\ UNCHANGED <<reg, if_flag, mem, ESP, current_task, dead>>

\* The registers are popped in the order in which they were pushed.
BadPopOrder ==
    \/ PopReg("pop_EBP", "EBX", "pop_EDI")
    \/ PopReg("pop_EDI", "ESI", "pop_ESI")
    \/ PopReg("pop_ESI", "EDI", "pop_EBX")
    \/ PopReg("pop_EBX", "EBP", "popf")

swtch_pop ==
    \/ PopReg("pop_EBP", "EBP", "pop_EDI")
    \/ PopReg("pop_EDI", "EDI", "pop_ESI")
    \/ PopReg("pop_ESI", "ESI", "pop_EBX")
    \/ PopReg("pop_EBX", "EBX", "popf")

\* The flags word is dropped.
BadFlagsWord == if_flag

FlagsWord == Top(0)[2]

swtch_popf ==
    /\ pc = "popf"
    /\ if_flag' = FlagsWord
    /\ esp' = esp - 1
    /\ pc' = "ret"
    /\ UNCHANGED <<reg, stk, mem, ESP, current_task, dead>>

\* The caller drops the two arguments; a new task has none on its stack.
swtch_ret ==
    /\ pc = "ret"
    /\ pc' = Top(0)[2]
    /\ esp' = IF Top(0)[2] = "run" THEN esp - 1 ELSE esp - 3
    /\ UNCHANGED <<reg, if_flag, stk, mem, ESP, current_task, dead>>

swtch ==
    \/ swtch_pushf \/ swtch_push \/ swtch_save \/ swtch_load
    \/ swtch_pop \/ swtch_popf \/ swtch_ret

-----------------------------------------------------------------------------
(* Interrupts: they come between any two instructions while the flag is on. *)

\* The timer: the stub, isr_handler and yield() run with interrupts off up to
\* the call of swtch.
timer_isr ==
    /\ if_flag
    /\ Push(InterruptFrame \o CallFrame(current_task, ESP[Sched], "isr_common"))
    /\ if_flag' = FALSE
    /\ pc' = "pushf"
    /\ UNCHANGED <<reg, stk, ESP, current_task, dead>>

\* The error code and the vector stay on the stack.
BadFrameWords == 13

FrameWords == 15

\* popa, add esp, 8 and iret.
isr_return ==
    /\ pc = "isr_common"
    /\ reg' = [r \in Reg |->
                 AsReg(Top(CASE r = "EBX" -> 6 [] r = "EBP" -> 4
                             [] r = "ESI" -> 3 [] r = "EDI" -> 2))]
    /\ pc' = Top(12)[2]
    /\ if_flag' = Top(14)[2]
    /\ esp' = esp - FrameWords
    /\ UNCHANGED <<stk, mem, ESP, current_task, dead>>

\* The keyboard: the handler comes back by itself, and all that is left of it
\* is what it wrote above the stack pointer.
keyboard_isr ==
    /\ if_flag
    /\ mem' = [mem EXCEPT ![stk] = Write(@, esp, InterruptFrame)]
    /\ UNCHANGED <<reg, if_flag, stk, esp, ESP, pc, current_task, dead>>

-----------------------------------------------------------------------------
(* The callers.                                                            *)

schedule(t) ==
    /\ pc = "schedule"
    /\ t \notin dead
    /\ current_task' = t
    /\ Push(CallFrame(Sched, ESP[t], "schedule_back"))
    /\ pc' = "pushf"
    /\ UNCHANGED <<reg, if_flag, stk, ESP, dead>>

\* schedule() is compiled without optimisation: it finds next, its local
\* variable, through EBP, and goes on as it should only with its own EBP.
schedule_back ==
    /\ pc = "schedule_back"
    /\ reg["EBP"] = Val(Sched, "EBP")
    /\ pc' = "schedule"
    /\ UNCHANGED <<reg, if_flag, stk, esp, mem, ESP, current_task, dead>>

\* With another EBP it stores and reads next at some other address: what the
\* kernel does from there on is undefined, and nothing of it is modelled.
schedule_lost ==
    /\ pc = "schedule_back"
    /\ reg["EBP"] # Val(Sched, "EBP")
    /\ pc' = "lost"
    /\ UNCHANGED <<reg, if_flag, stk, esp, mem, ESP, current_task, dead>>

\* mutex_lock and reaper_thread call yield() with interrupts off.
yield_off ==
    /\ pc = "run"
    /\ if_flag' = FALSE
    /\ Push(CallFrame(current_task, ESP[Sched], "yield_back"))
    /\ pc' = "pushf"
    /\ UNCHANGED <<reg, stk, ESP, current_task, dead>>

\* mutex_lock restores the flags when it has the lock ...
yield_back ==
    /\ pc = "yield_back"
    /\ if_flag' = TRUE
    /\ pc' = "run"
    /\ UNCHANGED <<reg, stk, esp, mem, ESP, current_task, dead>>

\* ... while a waiter that finds it taken again, and reaper_thread whenever it
\* finds no corpse, yield once more with interrupts still off.
yield_again ==
    /\ pc = "yield_back"
    /\ Push(CallFrame(current_task, ESP[Sched], "yield_back"))
    /\ pc' = "pushf"
    /\ UNCHANGED <<reg, if_flag, stk, ESP, current_task, dead>>

\* thread_exit calls yield() with interrupts on.
thread_exit ==
    /\ pc = "run"
    /\ current_task \in Exiting
    /\ dead' = dead \cup {current_task}
    /\ Push(CallFrame(current_task, ESP[Sched], "exited"))
    /\ pc' = "pushf"
    /\ UNCHANGED <<reg, if_flag, stk, ESP, current_task>>

-----------------------------------------------------------------------------
Next ==
    \/ swtch
    \/ timer_isr \/ isr_return \/ keyboard_isr
    \/ \E t \in Task : schedule(t)
    \/ schedule_back \/ schedule_lost
    \/ yield_off \/ yield_back \/ yield_again \/ thread_exit

Spec == Init /\ [][Next]_vars

-----------------------------------------------------------------------------
(* Properties                                                              *)

TypeOK ==
    /\ reg \in [Reg -> (Task \cup {Sched, Junk}) \X (Reg \cup {Junk})]
    /\ if_flag \in BOOLEAN
    /\ stk \in Task \cup {Sched}
    /\ esp \in 0..StackWords
    /\ current_task \in Task \cup {Sched}
    /\ dead \subseteq Task
    /\ \A x \in Task \cup {Sched} :
        ESP[x][1] \in Task \cup {Sched} /\ ESP[x][2] \in 0..StackWords

\* A task that runs has its own stack, and the registers and the interrupt
\* flag it had when it was switched out, wherever the interrupt that took it
\* off the CPU came.  When schedule() goes on, it has all its registers, and
\* every live task was saved in its own stack, never in the boot stack: an
\* interrupt in the swtch of thread_exit that damages any saved register of
\* schedule() damages its EBP too, and schedule() is lost instead.
TaskRestored ==
    /\ pc \in {"run", "yield_back"} =>
        /\ stk = current_task /\ esp = 0
        /\ \A r \in Reg : reg[r] = Val(current_task, r)
        /\ if_flag <=> pc = "run"
    /\ pc = "schedule" =>
        /\ stk = Sched /\ esp = 0 /\ ~if_flag
        /\ \A r \in Reg : reg[r] = Val(Sched, r)
        /\ \A t \in Task \ dead : ESP[t][1] = t

\* schedule() resumes after its call of swtch with the register values it had
\* at the call: ";pop all the saved registers from the new stack".
SchedulerRestored ==
    pc = "schedule_back" =>
        /\ stk = Sched /\ esp = 0
        /\ \A r \in Reg : reg[r] = Val(Sched, r)

\* The same as long as every call of swtch was made with interrupts off, which
\* all callers but thread_exit see to.
RestoredUntilExit == dead = {} => SchedulerRestored

=============================================================================
