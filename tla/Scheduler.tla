----------------------------- MODULE Scheduler -----------------------------
(***************************************************************************)
(* The preemptive round-robin scheduler of pelikanOS (src/scheduler.c), the *)
(* timer interrupt that drives it (src/isr.c) and the reaper thread that    *)
(* disposes of the tasks that exit.                                         *)
(*                                                                         *)
(* There is one CPU.  Code interleaves only where the interrupt flag is on: *)
(* a timer interrupt there switches to the scheduler's own stack, which     *)
(* runs with interrupts off, disposes of the task that was running and      *)
(* switches to the head of the ready queue.  An action is a piece of code   *)
(* that no interrupt can split, or that touches nothing another task reads. *)
(*                                                                         *)
(* The linked queues are sequences here.  What create_task and              *)
(* reaper_thread do to page frames is the business of Pmm.  The definitions *)
(* named Bad... are mistakes that the properties are known to catch; no     *)
(* specification uses them.                                                 *)
(***************************************************************************)
EXTENDS Naturals, Sequences, FiniteSets

CONSTANTS
    Task,       \* the task_t records the heap can hold
    Reaper,     \* the record that reaper_task points to
    Boot,       \* the tasks kmain creates after the reaper, in that order
    Immortal,   \* the boot tasks whose code never calls thread_exit
    Shell,      \* the boot task that calls create_task
    NoTask      \* the null pointer

\* kmain creates the reaper and at least one task whose loop has no exit (the
\* shell and the clock); records are distinct and none is null.
ASSUME TaskAssumption ==
    /\ NoTask \notin Task
    /\ Reaper \in Task
    /\ Boot \in Seq(Task \ {Reaper})
    /\ \A i, j \in 1..Len(Boot) : Boot[i] = Boot[j] => i = j
    /\ Immortal \subseteq {Boot[i] : i \in 1..Len(Boot)}
    /\ Immortal # {}
    /\ Shell \in Immortal

VARIABLES
    state,        \* task->state, or "UNUSED" for a record not allocated
    queue,        \* the ready queue, head first
    dead_q,       \* the queue of corpses, head first
    current_task,
    cpu,          \* what runs: schedule() before or after swtch, or a task
    if_flag,      \* the CPU's interrupt flag
    eflags,       \* the interrupt flag saved on each task's stack
    sched_eflags, \* the interrupt flag saved on the scheduler's stack
    pc,           \* where each task is in its code
    flags,        \* the local a task keeps between save_flags_and_cli and
                  \* restore_flags
    new_task      \* the record create_task is filling

schedVars == <<state, queue, dead_q, current_task, cpu, if_flag, eflags,
               sched_eflags, pc, flags, new_task>>

States == {"UNUSED", "BLOCKED", "READY", "RUNNING", "DEAD"}

BootTasks == {Boot[i] : i \in 1..Len(Boot)}

-----------------------------------------------------------------------------
(* The two FIFO queues of tasks.                                           *)

\* The new task goes to the front.
BadReadyQueue(q, t) == <<t>> \o q

add_task_to_ready_queue(q, t) == Append(q, t)

\* The head does not move on to the next task.
BadReadyHead(q) == <<>>

remove_task_from_ready_queue(q) == Tail(q)

add_task_to_dead_queue(q, t) == Append(q, t)

remove_task_from_dead_queue(q) == Tail(q)

\* swtch() from the stack of task t to the scheduler's stack: pushf on one,
\* popf on the other.
swtch_to_scheduler(t) ==
    /\ cpu' = "back"
    /\ eflags' = [eflags EXCEPT ![t] = if_flag]
    /\ if_flag' = sched_eflags

Running(t) == cpu = "task" /\ current_task = t

-----------------------------------------------------------------------------
(* kmain, up to its call of schedule(): interrupts are off throughout, so   *)
(* the reaper and the boot tasks are created in one piece.  Every new stack *)
(* carries the flags word 0x202, whose interrupt flag is set.               *)

\* kmain turns interrupts on before it calls schedule().
BadBootFlag == TRUE

BootFlag == FALSE

SchedInit ==
    /\ state = [t \in Task |-> IF t = Reaper THEN "BLOCKED"
                               ELSE IF t \in BootTasks THEN "READY"
                               ELSE "UNUSED"]
    /\ queue = Boot
    /\ dead_q = <<>>
    /\ current_task = NoTask
    /\ cpu = "pick"
    /\ if_flag = BootFlag
    /\ eflags = [t \in Task |-> TRUE]
    /\ sched_eflags = FALSE
    /\ pc = [t \in Task |-> IF t = Reaper THEN "reaper_top" ELSE "run"]
    /\ flags = [t \in Task |-> FALSE]
    /\ new_task = NoTask

(* schedule(): the loop up to and including the switch to the next task.    *)
(* With an empty queue it spins, with interrupts off: no action is enabled. *)
schedule_dispatch ==
    /\ cpu = "pick"
    /\ queue # <<>>
    /\ LET next == Head(queue)
       IN  /\ queue' = remove_task_from_ready_queue(queue)
           /\ state' = [state EXCEPT ![next] = "RUNNING"]
           /\ current_task' = next
           /\ sched_eflags' = if_flag
           /\ if_flag' = eflags[next]
           /\ cpu' = "task"
    /\ UNCHANGED <<dead_q, eflags, pc, flags, new_task>>

(* schedule(), after swtch: decide what to do with the current task.        *)

\* Whatever comes back is queued again, a task that has exited too.
BadGoesOn(s) == s \in {"RUNNING", "DEAD"}

GoesOn(s) == s = "RUNNING"

schedule_requeue ==
    /\ cpu = "back"
    /\ GoesOn(state[current_task])
    /\ state' = [state EXCEPT ![current_task] = "READY"]
    /\ queue' = add_task_to_ready_queue(queue, current_task)
    /\ cpu' = "pick"
    /\ UNCHANGED <<dead_q, current_task, if_flag, eflags, sched_eflags, pc,
                   flags, new_task>>

\* The reaper is woken without a look at its state.
BadWakeAlways == TRUE

\* The reaper is never woken.
BadWakeNever == FALSE

\* Is the reaper to be woken?
WakesReaper == state[Reaper] = "BLOCKED"

schedule_bury ==
    /\ cpu = "back"
    /\ state[current_task] = "DEAD"
    /\ dead_q' = add_task_to_dead_queue(dead_q, current_task)
    /\ \/ /\ WakesReaper
          /\ state' = [state EXCEPT ![Reaper] = "READY"]
          /\ queue' = add_task_to_ready_queue(queue, Reaper)
       \/ /\ ~WakesReaper
          /\ UNCHANGED <<state, queue>>
    /\ cpu' = "pick"
    /\ UNCHANGED <<current_task, if_flag, eflags, sched_eflags, pc, flags,
                   new_task>>

schedule_leave ==
    /\ cpu = "back"
    /\ state[current_task] \notin {"RUNNING", "DEAD"}
    /\ cpu' = "pick"
    /\ UNCHANGED <<state, queue, dead_q, current_task, if_flag, eflags,
                   sched_eflags, pc, flags, new_task>>

(* isr_handler for vector 32, which calls yield().  The flag saved for the  *)
(* task is the one in the interrupt frame, which iret restores.             *)
timer_isr(t) ==
    /\ Running(t)
    /\ if_flag
    /\ swtch_to_scheduler(t)
    /\ UNCHANGED <<state, queue, dead_q, current_task, sched_eflags, pc, flags,
                   new_task>>

(* thread_exit(): the store, then yield().  A tick may come between them.   *)

thread_exit(t) ==
    /\ Running(t)
    /\ pc[t] = "run"
    /\ t \notin Immortal
    /\ state' = [state EXCEPT ![t] = "DEAD"]
    /\ pc' = [pc EXCEPT ![t] = "exit"]
    /\ UNCHANGED <<queue, dead_q, current_task, cpu, if_flag, eflags,
                   sched_eflags, flags, new_task>>

thread_exit_yield(t) ==
    /\ Running(t)
    /\ pc[t] = "exit"
    /\ swtch_to_scheduler(t)
    /\ UNCHANGED <<state, queue, dead_q, current_task, sched_eflags, pc, flags,
                   new_task>>

-----------------------------------------------------------------------------
(* create_task(), called by the shell with interrupts on.  First the record *)
(* is allocated and cleared, which leaves its state TASK_BLOCKED (0), and   *)
(* its stack is filled in; then the task is published in the ready queue;   *)
(* last it is inserted in the ring of tasks.                                *)

\* The state of a record filled with zeros.
ClearedState == "BLOCKED"

create_task_alloc(n) ==
    /\ Running(Shell)
    /\ pc[Shell] = "run"
    /\ state[n] = "UNUSED"
    /\ state' = [state EXCEPT ![n] = ClearedState]
    /\ eflags' = [eflags EXCEPT ![n] = TRUE]
    /\ pc' = [pc EXCEPT ![n] = "run", ![Shell] = "create"]
    /\ new_task' = n
    /\ UNCHANGED <<queue, dead_q, current_task, cpu, if_flag, sched_eflags,
                   flags>>

\* The store of TASK_READY and the enqueueing are one step: a tick between
\* them leaves a record READY that is not queued yet, which nothing looks at.
create_task_ready ==
    /\ Running(Shell)
    /\ pc[Shell] = "create"
    /\ state' = [state EXCEPT ![new_task] = "READY"]
    /\ queue' = add_task_to_ready_queue(queue, new_task)
    /\ pc' = [pc EXCEPT ![Shell] = "insert"]
    /\ UNCHANGED <<dead_q, current_task, cpu, if_flag, eflags, sched_eflags,
                   flags, new_task>>

create_task_insert ==
    /\ Running(Shell)
    /\ pc[Shell] = "insert"
    /\ pc' = [pc EXCEPT ![Shell] = "run"]
    /\ new_task' = NoTask
    /\ UNCHANGED <<state, queue, dead_q, current_task, cpu, if_flag, eflags,
                   sched_eflags, flags>>

-----------------------------------------------------------------------------
(* reaper_thread().  The iteration that finds a corpse never restores the   *)
(* flags that it saved.                                                     *)

reaper_cli ==
    /\ Running(Reaper)
    /\ pc[Reaper] = "reaper_top"
    /\ flags' = [flags EXCEPT ![Reaper] = if_flag]
    /\ if_flag' = FALSE
    /\ pc' = [pc EXCEPT ![Reaper] = "reaper_body"]
    /\ UNCHANGED <<state, queue, dead_q, current_task, cpu, eflags,
                   sched_eflags, new_task>>

reaper_reap ==
    /\ Running(Reaper)
    /\ pc[Reaper] = "reaper_body"
    /\ dead_q # <<>>
    /\ dead_q' = remove_task_from_dead_queue(dead_q)
    /\ state' = [state EXCEPT ![Head(dead_q)] = "UNUSED"]
    /\ pc' = [pc EXCEPT ![Reaper] = "reaper_top"]
    /\ UNCHANGED <<queue, current_task, cpu, if_flag, eflags, sched_eflags,
                   flags, new_task>>

reaper_block ==
    /\ Running(Reaper)
    /\ pc[Reaper] = "reaper_body"
    /\ dead_q = <<>>
    /\ state' = [state EXCEPT ![Reaper] = "BLOCKED"]
    /\ if_flag' = flags[Reaper]
    /\ pc' = [pc EXCEPT ![Reaper] = "reaper_yield"]
    /\ UNCHANGED <<queue, dead_q, current_task, cpu, eflags, sched_eflags,
                   flags, new_task>>

reaper_yield ==
    /\ Running(Reaper)
    /\ pc[Reaper] = "reaper_yield"
    /\ pc' = [pc EXCEPT ![Reaper] = "reaper_top"]
    /\ swtch_to_scheduler(Reaper)
    /\ UNCHANGED <<state, queue, dead_q, current_task, sched_eflags, flags,
                   new_task>>

reaper_thread == reaper_cli \/ reaper_reap \/ reaper_block \/ reaper_yield

-----------------------------------------------------------------------------
schedule ==
    schedule_dispatch \/ schedule_requeue \/ schedule_bury \/ schedule_leave

create_task ==
    \/ \E n \in Task : create_task_alloc(n)
    \/ create_task_ready
    \/ create_task_insert

SchedNext ==
    \/ schedule
    \/ \E t \in Task : timer_isr(t) \/ thread_exit(t) \/ thread_exit_yield(t)
    \/ create_task
    \/ reaper_thread

=============================================================================
