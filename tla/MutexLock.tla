----------------------------- MODULE MutexLock -----------------------------
(***************************************************************************)
(* The sleeping mutex of pelikanOS (src/mutex_lock.c) over the scheduler.   *)
(* Its users are tasks such as task_b and task_d of src/kernel.c: each      *)
(* locks, prints, unlocks, and then exits or starts over.                   *)
(*                                                                         *)
(* mutex_lock and mutex_unlock run with interrupts off, so a piece of them  *)
(* between two switches is one action.  A task that finds the lock taken    *)
(* sleeps inside mutex_lock with interrupts off in its saved flags, and     *)
(* checks the lock again when it is resumed.                                *)
(***************************************************************************)
EXTENDS Scheduler

CONSTANT LockUser   \* the tasks that use the mutex

\* The reaper and the shell never touch the mutex.
ASSUME LockAssumption == LockUser \subseteq Task \ {Reaper, Shell}

VARIABLES
    locked,   \* lock->locked
    holder,   \* lock->holder
    waitq     \* the queue of waiting tasks, head first

lockVars == <<locked, holder, waitq>>

vars == <<state, queue, dead_q, current_task, cpu, if_flag, eflags,
          sched_eflags, pc, flags, new_task, locked, holder, waitq>>

-----------------------------------------------------------------------------
\* The waiter goes to the front.
BadMutexQueue(q, t) == <<t>> \o q

\* An empty queue gets a new tail and no head.
BadMutexQueueHead(q, t) == IF q = <<>> THEN q ELSE Append(q, t)

add_task_to_mutex_queue(q, t) == Append(q, t)

remove_task_from_mutex_queue(q) == Tail(q)

mutex_init ==
    /\ locked = FALSE
    /\ holder = NoTask
    /\ waitq = <<>>

\* The body of the while loop of mutex_lock: sleep, with interrupts off.
mutex_sleep(t) ==
    /\ locked
    /\ state' = [state EXCEPT ![t] = "BLOCKED"]
    /\ waitq' = add_task_to_mutex_queue(waitq, t)
    /\ cpu' = "back"
    /\ eflags' = [eflags EXCEPT ![t] = FALSE]
    /\ if_flag' = sched_eflags
    /\ pc' = [pc EXCEPT ![t] = "lock_wait"]
    /\ UNCHANGED <<queue, dead_q, current_task, sched_eflags, new_task,
                   locked, holder>>

\* Past the loop: take the lock and restore the flags saved on entry.
mutex_take(t) ==
    /\ ~locked
    /\ locked' = TRUE
    /\ holder' = t
    /\ if_flag' = flags'[t]
    /\ pc' = [pc EXCEPT ![t] = "critical"]
    /\ UNCHANGED <<state, queue, dead_q, current_task, cpu, eflags,
                   sched_eflags, new_task, waitq>>

mutex_lock(t) ==
    /\ Running(t)
    /\ pc[t] = "run"
    /\ flags' = [flags EXCEPT ![t] = if_flag]
    /\ mutex_sleep(t) \/ mutex_take(t)

\* "if" instead of "while": the task that was woken takes the lock unseen.
BadResume(t) ==
    /\ Running(t)
    /\ pc[t] = "lock_wait"
    /\ locked' = TRUE
    /\ holder' = t
    /\ if_flag' = flags[t]
    /\ pc' = [pc EXCEPT ![t] = "critical"]
    /\ UNCHANGED <<state, queue, dead_q, current_task, cpu, eflags,
                   sched_eflags, flags, new_task, waitq>>

mutex_lock_resume(t) ==
    /\ Running(t)
    /\ pc[t] = "lock_wait"
    /\ UNCHANGED flags
    /\ mutex_sleep(t) \/ mutex_take(t)

\* No waiter is woken.
BadWaiting == FALSE

Waiting == waitq # <<>>

mutex_unlock(t) ==
    /\ Running(t)
    /\ pc[t] = "critical"
    /\ locked' = FALSE
    /\ holder' = NoTask
    /\ \/ /\ Waiting
          /\ waitq' = remove_task_from_mutex_queue(waitq)
          /\ state' = [state EXCEPT ![Head(waitq)] = "READY"]
          /\ queue' = add_task_to_ready_queue(queue, Head(waitq))
       \/ /\ ~Waiting
          /\ UNCHANGED <<waitq, state, queue>>
    /\ flags' = [flags EXCEPT ![t] = if_flag]
    /\ pc' = [pc EXCEPT ![t] = "run"]
    /\ UNCHANGED <<dead_q, current_task, cpu, if_flag, eflags, sched_eflags,
                   new_task>>

-----------------------------------------------------------------------------
Init == SchedInit /\ mutex_init

LockStep(t) == mutex_lock(t) \/ mutex_lock_resume(t) \/ mutex_unlock(t)

Next ==
    \/ SchedNext /\ UNCHANGED lockVars
    \/ \E t \in LockUser : LockStep(t)

Spec == Init /\ [][Next]_vars

\* What the hardware and the compiled loop guarantee: the CPU keeps executing
\* schedule(); the timer keeps ticking; a time slice (10 ms) is long enough
\* for a task that is dispatched again and again to get on with code that it
\* does not choose to postpone.  Nothing makes a task exit, spawn or lock.
Fairness ==
    /\ WF_vars(schedule /\ UNCHANGED lockVars)
    /\ WF_vars((\E t \in Task : timer_isr(t)) /\ UNCHANGED lockVars)
    /\ SF_vars(reaper_thread /\ UNCHANGED lockVars)
    /\ \A t \in Task : WF_vars(thread_exit_yield(t) /\ UNCHANGED lockVars)
    /\ \A t \in LockUser : SF_vars(mutex_lock_resume(t) \/ mutex_unlock(t))

FairSpec == Spec /\ Fairness

-----------------------------------------------------------------------------
(* Properties                                                              *)

TypeOK ==
    /\ state \in [Task -> States]
    /\ queue \in Seq(Task)
    /\ dead_q \in Seq(Task)
    /\ current_task \in Task \cup {NoTask}
    /\ cpu \in {"pick", "task", "back"}
    /\ if_flag \in BOOLEAN
    /\ eflags \in [Task -> BOOLEAN]
    /\ sched_eflags \in BOOLEAN
    /\ pc \in [Task -> {"run", "exit", "create", "insert", "lock_wait",
                        "critical", "reaper_top", "reaper_body",
                        "reaper_yield"}]
    /\ flags \in [Task -> BOOLEAN]
    /\ new_task \in Task \cup {NoTask}
    /\ locked \in BOOLEAN
    /\ holder \in Task \cup {NoTask}
    /\ waitq \in Seq(Task)

InQueue(t, q) == \E i \in 1..Len(q) : q[i] = t

NoDuplicate(q) == \A i, j \in 1..Len(q) : q[i] = q[j] => i = j

\* The link fields of a task_t can hold it in each queue once, and its state
\* says where it is: a queued task is READY and queued once, a corpse is DEAD
\* and buried once, a waiter is BLOCKED and waits once.  A task added to a
\* queue twice would tie the linked list into a loop.
QueuesMatchStates ==
    /\ NoDuplicate(queue) /\ NoDuplicate(dead_q) /\ NoDuplicate(waitq)
    /\ \A t \in Task :
        /\ InQueue(t, queue) <=> state[t] = "READY"
        /\ InQueue(t, dead_q) => state[t] = "DEAD"
        /\ InQueue(t, waitq) => state[t] = "BLOCKED"

\* No task is lost: whatever the interleaving, a task that exists is on the
\* CPU, or in the queue of which its state speaks, or is the reaper with no
\* work, or is the record create_task has not published yet.
NoTaskLost ==
    \A t \in Task :
        /\ state[t] = "DEAD" =>
              InQueue(t, dead_q) \/ (t = current_task /\ cpu # "pick")
        /\ state[t] = "BLOCKED" =>
              \/ InQueue(t, waitq)
              \/ t = Reaper
              \/ t = new_task /\ pc[Shell] = "create"
        /\ state[t] = "RUNNING" => t = current_task /\ cpu # "pick"

\* The wakeup of the reaper is never lost: while a corpse is buried the reaper
\* is queued or on the CPU and has not decided to block.
NoLostCorpse ==
    dead_q # <<>> => state[Reaper] \in {"READY", "RUNNING"}

\* schedule() is never interrupted and neither is the reaper once it has seen
\* a corpse.  A tick in schedule() would store the scheduler's stack pointer
\* in current_task->ESP; one in the reaper would leave a half-removed corpse.
InterruptsOff ==
    /\ cpu # "task" => ~if_flag
    /\ \A t \in Task : Running(t) /\ pc[t] \in {"reaper_body", "reaper_yield",
                                                "lock_wait"} => ~if_flag

\* schedule() never finds the ready queue empty.  It would spin for ever: it
\* polls with interrupts off and only tasks add to the queue.
NeverIdle == cpu = "pick" => queue # <<>>

\* Mutual exclusion, and the lock's fields name the one task inside.
MutualExclusion ==
    \A t \in Task : pc[t] = "critical" <=> locked /\ holder = t

\* A wakeup is never lost: while the lock is free and tasks wait for it, a
\* task that was woken is on its way to try again.
NoLostWakeup ==
    ~locked /\ waitq # <<>> =>
        \E t \in Task : /\ pc[t] = "lock_wait"
                        /\ state[t] \in {"READY", "RUNNING"}

\* A task changes its state only along the edges of its life cycle.  In
\* particular a dead task never becomes ready again, and a record is reused
\* only after the reaper has freed it.
LifeCycleEdges == {
    <<"UNUSED", "BLOCKED">>, <<"BLOCKED", "READY">>, <<"READY", "RUNNING">>,
    <<"RUNNING", "READY">>, <<"RUNNING", "BLOCKED">>, <<"RUNNING", "DEAD">>,
    <<"DEAD", "UNUSED">>}

LifeCycle ==
    [][\A t \in Task : state'[t] # state[t] =>
           <<state[t], state'[t]>> \in LifeCycleEdges]_vars

\* Round robin: a task that is ready is dispatched.
ReadyRuns == \A t \in Task : state[t] = "READY" ~> state[t] = "RUNNING"

\* The memory of a task that exits is recovered.
CorpseReaped == \A t \in Task : state[t] = "DEAD" ~> state[t] = "UNUSED"

\* A task that sleeps on the mutex is woken, although the task that unlocks may
\* take the lock again first, so that the one woken goes back to the tail.
WaiterWoken == \A t \in Task : InQueue(t, waitq) ~> ~InQueue(t, waitq)

=============================================================================
