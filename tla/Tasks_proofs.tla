---------------------------- MODULE Tasks_proofs ----------------------------
(***************************************************************************)
(* TLAPS proofs about tasks.                                                *)
(*                                                                         *)
(* Scheduler, reaper and mutex: the safety properties of MutexLock hold for *)
(* every set of tasks, every boot sequence and every set of mutex users.    *)
(* None of them is inductive alone.  IndInv adds what connects the program  *)
(* counters, the task states and the saved interrupt flags.                 *)
(*                                                                         *)
(* The ring of tasks: whatever those do, the links form one circle through  *)
(* the tasks there are, and ps lists them all.  The steps of the ring are   *)
(* steps of MutexLock, so that IndInv says who may be reaped and when.      *)
(***************************************************************************)
EXTENDS TaskRing, FiniteSetTheorems, NaturalsInduction, WellFoundedInduction, TLAPS

\* The one-line tests and values of the actions are always expanded.
USE DEF BootFlag, GoesOn, WakesReaper, ClearedState, Waiting

-----------------------------------------------------------------------------
(* Scheduler, reaper and mutex: the inductive invariant                     *)

\* Which code a task can be in, and what its state says about that.
PcInv ==
    /\ pc[Reaper] \in {"reaper_top", "reaper_body", "reaper_yield"}
    /\ state[Reaper] \in {"BLOCKED", "READY", "RUNNING"}
    /\ state[Shell] \in {"READY", "RUNNING"}
    /\ pc[Shell] \in {"run", "create", "insert"}
    /\ \A t \in Task \ {Reaper} :
        /\ pc[t] \in {"run", "exit", "create", "insert", "lock_wait", "critical"}
        /\ pc[t] \in {"create", "insert"} => t = Shell
        /\ state[t] = "UNUSED" => pc[t] \in {"run", "exit"}
        /\ state[t] = "DEAD" <=> pc[t] = "exit" /\ state[t] # "UNUSED"
        /\ t \in Immortal => pc[t] # "exit" /\ state[t] # "UNUSED"
        /\ pc[t] = "critical" => state[t] \in {"READY", "RUNNING"}
        /\ InQueue(t, waitq) => pc[t] = "lock_wait"
        /\ pc[t] = "lock_wait" /\ state[t] = "BLOCKED" => InQueue(t, waitq)
    /\ ~InQueue(Reaper, waitq)
    /\ pc[Shell] = "create" =>
        /\ new_task \in Task \ {Reaper, Shell}
        /\ new_task \notin Immortal
        /\ state[new_task] = "BLOCKED"
        /\ pc[new_task] = "run"

\* What the CPU is doing and the state of the current task.
CpuInv ==
    /\ cpu # "pick" => current_task \in Task
    /\ cpu = "task" =>
        \/ state[current_task] = "RUNNING" /\ pc[current_task] # "reaper_yield"
        \/ state[current_task] = "DEAD" /\ ~InQueue(current_task, dead_q)
        \/ /\ current_task = Reaper
           /\ state[Reaper] = "BLOCKED"
           /\ pc[Reaper] = "reaper_yield"
    /\ cpu = "back" =>
        \/ state[current_task] = "RUNNING"
        \/ state[current_task] = "DEAD" /\ ~InQueue(current_task, dead_q)
        \/ state[current_task] = "BLOCKED"

\* The interrupt flag a task has, on the CPU or in its saved flags.
TaskIF(t) == IF Running(t) THEN if_flag ELSE eflags[t]

\* Interrupts are off in the scheduler, in a task that slept in mutex_lock, and
\* in the reaper from the first corpse on: only the first wakeup finds them on,
\* and the first wakeup finds a corpse.
FlagInv ==
    /\ ~sched_eflags
    /\ cpu # "task" => ~if_flag
    /\ \A t \in Task : pc[t] = "lock_wait" => ~TaskIF(t)
    /\ TaskIF(Reaper) => /\ pc[Reaper] = "reaper_top"
                         /\ state[Reaper] # "BLOCKED" => dead_q # <<>>
    /\ pc[Reaper] \in {"reaper_body", "reaper_yield"} => Running(Reaper)
    /\ pc[Reaper] = "reaper_body" /\ flags[Reaper] => dead_q # <<>>

LockInv ==
    /\ MutualExclusion
    /\ locked => holder \in Task
    /\ NoLostWakeup

IndInv ==
    /\ TypeOK
    /\ QueuesMatchStates
    /\ NoTaskLost
    /\ NoLostCorpse
    /\ PcInv
    /\ CpuInv
    /\ FlagInv
    /\ LockInv

-----------------------------------------------------------------------------
(* Lemmas about queues without duplicates                                  *)

\* Appending adds one member at the end, and keeps the queue free of
\* duplicates if the member is new.
LEMMA AppendQueue ==
    ASSUME NEW q \in Seq(Task), NEW x \in Task
    PROVE  /\ Append(q, x) \in Seq(Task)
           /\ Append(q, x) # <<>>
           /\ \A t : InQueue(t, Append(q, x)) <=> InQueue(t, q) \/ t = x
           /\ NoDuplicate(q) /\ ~InQueue(x, q) => NoDuplicate(Append(q, x))
<1>1. /\ Append(q, x) \in Seq(Task)
      /\ Len(Append(q, x)) = Len(q) + 1
      /\ Len(q) \in Nat
      /\ Append(q, x)[Len(q) + 1] = x
      /\ \A i \in 1..Len(q) : Append(q, x)[i] = q[i]
  OBVIOUS
<1>2. Append(q, x) # <<>>
  BY <1>1
<1>3. ASSUME NEW t
      PROVE  InQueue(t, Append(q, x)) <=> InQueue(t, q) \/ t = x
  BY <1>1 DEF InQueue
<1>4. NoDuplicate(q) /\ ~InQueue(x, q) => NoDuplicate(Append(q, x))
  BY <1>1 DEF InQueue, NoDuplicate
<1> QED
  BY <1>1, <1>2, <1>3, <1>4

\* Removing the head of a queue without duplicates removes it altogether.
LEMMA TailQueue ==
    ASSUME NEW q \in Seq(Task), q # <<>>
    PROVE  /\ Tail(q) \in Seq(Task)
           /\ Head(q) \in Task
           /\ InQueue(Head(q), q)
           /\ NoDuplicate(q) =>
                /\ NoDuplicate(Tail(q))
                /\ \A t : InQueue(t, Tail(q)) <=> InQueue(t, q) /\ t # Head(q)
<1>1. /\ Tail(q) \in Seq(Task)
      /\ Len(q) \in Nat \ {0}
      /\ Len(Tail(q)) = Len(q) - 1
      /\ Head(q) = q[1]
      /\ Head(q) \in Task
      /\ \A i \in 1..(Len(q) - 1) : Tail(q)[i] = q[i + 1]
  OBVIOUS
<1>2. InQueue(Head(q), q)
  BY <1>1 DEF InQueue
<1>3. ASSUME NoDuplicate(q)
      PROVE  NoDuplicate(Tail(q))
  BY <1>1, <1>3 DEF NoDuplicate
<1>4. ASSUME NoDuplicate(q), NEW t
      PROVE  InQueue(t, Tail(q)) <=> InQueue(t, q) /\ t # Head(q)
  <2>1. ASSUME NEW i \in 1..(Len(q) - 1), Tail(q)[i] = t
        PROVE  InQueue(t, q) /\ t # Head(q)
    BY <1>1, <1>4, <2>1 DEF InQueue, NoDuplicate
  <2>2. ASSUME NEW i \in 1..Len(q), q[i] = t, t # Head(q)
        PROVE  InQueue(t, Tail(q))
    <3>1. i - 1 \in 1..Len(Tail(q)) /\ Tail(q)[i - 1] = t
      BY <1>1, <2>2
    <3> QED
      BY <3>1 DEF InQueue
  <2> QED
    BY <1>1, <2>1, <2>2 DEF InQueue
<1> QED
  BY <1>1, <1>2, <1>3, <1>4

\* Nothing is in an empty queue, something is in any other.
LEMMA EmptyQueue ==
    ASSUME NEW q \in Seq(Task)
    PROVE  q = <<>> <=> \A t \in Task : ~InQueue(t, q)
<1>1. q # <<>> => Len(q) \in Nat \ {0} /\ q[1] \in Task
  OBVIOUS
<1>2. q = <<>> => Len(q) = 0
  OBVIOUS
<1> QED
  BY <1>1, <1>2 DEF InQueue

-----------------------------------------------------------------------------
(* Steps of the scheduler, of the reaper and of the mutex                   *)

\* schedule() takes the head of the ready queue and switches to it.
LEMMA DispatchStep ==
    ASSUME IndInv, schedule_dispatch, UNCHANGED lockVars
    PROVE  IndInv'
<1>1. TypeOK'
  BY DEF schedule_dispatch, remove_task_from_ready_queue, lockVars,
     IndInv, TypeOK, States
<1>2. QueuesMatchStates'
  BY TailQueue DEF schedule_dispatch, remove_task_from_ready_queue,
     lockVars, IndInv, TypeOK, States, QueuesMatchStates
<1>3. NoTaskLost'
  BY DEF schedule_dispatch, lockVars, IndInv, NoTaskLost
<1>4. NoLostCorpse'
  BY DEF schedule_dispatch, IndInv, NoLostCorpse
<1>5. PcInv'
  BY TailQueue DEF QueuesMatchStates, schedule_dispatch, lockVars, IndInv,
     TypeOK, States, PcInv
<1>6. CpuInv'
  BY TaskAssumption, LockAssumption, EmptyQueue DEF LockInv,
     MutualExclusion, NoLostWakeup, FlagInv, TaskIF, PcInv, NoLostCorpse,
     NoTaskLost, QueuesMatchStates, Running, schedule_dispatch,
     remove_task_from_ready_queue, lockVars, IndInv, TypeOK, States,
     CpuInv
<1>7. FlagInv'
  BY TailQueue DEF QueuesMatchStates, Running, schedule_dispatch, IndInv,
     TypeOK, States, FlagInv, TaskIF
<1>8. LockInv'
  BY DEF schedule_dispatch, lockVars, IndInv, LockInv, MutualExclusion,
     NoLostWakeup
<1> QED
  BY <1>1, <1>2, <1>3, <1>4, <1>5, <1>6, <1>7, <1>8 DEF IndInv

\* schedule() puts a task that was preempted at the tail of the ready queue.
LEMMA RequeueStep ==
    ASSUME IndInv, schedule_requeue, UNCHANGED lockVars
    PROVE  IndInv'
<1>1. TypeOK'
  BY DEF CpuInv, schedule_requeue, add_task_to_ready_queue, lockVars,
     IndInv, TypeOK, States
<1>2. QueuesMatchStates'
  BY AppendQueue DEF CpuInv, schedule_requeue, add_task_to_ready_queue,
     lockVars, IndInv, TypeOK, States, QueuesMatchStates
<1>3. NoTaskLost'
  BY DEF schedule_requeue, lockVars, IndInv, TypeOK, States, NoTaskLost
<1>4. NoLostCorpse'
  BY DEF schedule_requeue, IndInv, NoLostCorpse
<1>5. PcInv'
  BY DEF schedule_requeue, lockVars, IndInv, PcInv
<1>6. CpuInv'
  BY DEF schedule_requeue, CpuInv
<1>7. FlagInv'
  BY DEF Running, schedule_requeue, IndInv, FlagInv, TaskIF
<1>8. LockInv'
  BY DEF schedule_requeue, lockVars, IndInv, LockInv, MutualExclusion,
     NoLostWakeup
<1> QED
  BY <1>1, <1>2, <1>3, <1>4, <1>5, <1>6, <1>7, <1>8 DEF IndInv

\* schedule() buries a dead task and wakes the reaper.
LEMMA BuryWakeStep ==
    ASSUME IndInv, schedule_bury, state[Reaper] = "BLOCKED", UNCHANGED
           lockVars
    PROVE  IndInv'
<1>1. TypeOK'
  <2>1. current_task \in Task /\ Reaper \in Task
    BY TaskAssumption DEF IndInv, CpuInv, schedule_bury
  <2>2. /\ queue' = Append(queue, Reaper)
        /\ dead_q' = Append(dead_q, current_task)
        /\ state' = [state EXCEPT ![Reaper] = "READY"]
        /\ cpu' = "pick"
    BY DEF schedule_bury, add_task_to_ready_queue, add_task_to_dead_queue
  <2>3. queue' \in Seq(Task) /\ dead_q' \in Seq(Task)
    BY <2>1, <2>2, AppendQueue DEF IndInv, TypeOK
  <2> QED
    BY <2>2, <2>3 DEF IndInv, TypeOK, States, schedule_bury, lockVars
<1>2. QueuesMatchStates'
  <2>1. /\ current_task \in Task /\ Reaper \in Task
        /\ queue \in Seq(Task) /\ dead_q \in Seq(Task)
    BY TaskAssumption DEF IndInv, TypeOK, CpuInv, schedule_bury
  <2>2. /\ queue' = Append(queue, Reaper)
        /\ dead_q' = Append(dead_q, current_task)
        /\ state' = [state EXCEPT ![Reaper] = "READY"]
        /\ waitq' = waitq
    BY DEF schedule_bury, add_task_to_ready_queue, add_task_to_dead_queue, lockVars
  <2>3. ~InQueue(Reaper, queue) /\ ~InQueue(Reaper, waitq)
    BY <2>1 DEF IndInv, QueuesMatchStates, PcInv
  <2>4. ~InQueue(Reaper, dead_q) /\ ~InQueue(current_task, dead_q) /\ current_task # Reaper
    BY <2>1 DEF IndInv, QueuesMatchStates, CpuInv, schedule_bury
  <2>5. /\ NoDuplicate(queue')
        /\ \A t \in Task : InQueue(t, queue') <=> InQueue(t, queue) \/ t = Reaper
    BY <2>1, <2>2, <2>3, AppendQueue DEF IndInv, QueuesMatchStates
  <2>6. /\ NoDuplicate(dead_q')
        /\ \A t \in Task : InQueue(t, dead_q') <=> InQueue(t, dead_q) \/ t = current_task
    BY <2>1, <2>2, <2>4, AppendQueue DEF IndInv, QueuesMatchStates
  <2> QED
    BY <2>1, <2>2, <2>3, <2>4, <2>5, <2>6
       DEF IndInv, TypeOK, QueuesMatchStates, schedule_bury
<1>3. NoTaskLost'
  BY AppendQueue DEF CpuInv, schedule_bury, add_task_to_dead_queue,
     lockVars, IndInv, TypeOK, States, NoTaskLost
<1>4. NoLostCorpse'
  BY TaskAssumption DEF schedule_bury, IndInv, TypeOK, States,
     NoLostCorpse
<1>5. PcInv'
  BY TaskAssumption, LockAssumption, AppendQueue, EmptyQueue DEF IndInv,
     TypeOK, States, PcInv, schedule_bury, add_task_to_ready_queue,
     add_task_to_dead_queue, lockVars, Running, QueuesMatchStates,
     NoTaskLost, CpuInv
<1>6. CpuInv'
  BY DEF schedule_bury, CpuInv
<1>7. FlagInv'
  BY DEF NoLostCorpse, Running, schedule_bury, add_task_to_dead_queue,
     IndInv, FlagInv, TaskIF
<1>8. LockInv'
  BY DEF schedule_bury, lockVars, IndInv, TypeOK, States, LockInv,
     MutualExclusion, NoLostWakeup
<1> QED
  BY <1>1, <1>2, <1>3, <1>4, <1>5, <1>6, <1>7, <1>8 DEF IndInv

\* schedule() buries a dead task while the reaper is awake.
LEMMA BuryStep ==
    ASSUME IndInv, schedule_bury, state[Reaper] # "BLOCKED", UNCHANGED
           lockVars
    PROVE  IndInv'
<1>1. TypeOK'
  BY DEF CpuInv, schedule_bury, add_task_to_dead_queue, lockVars, IndInv,
     TypeOK, States
<1>2. QueuesMatchStates'
  BY AppendQueue DEF CpuInv, schedule_bury, add_task_to_dead_queue,
     lockVars, IndInv, TypeOK, States, QueuesMatchStates
<1>3. NoTaskLost'
  BY AppendQueue DEF CpuInv, schedule_bury, add_task_to_dead_queue,
     lockVars, IndInv, TypeOK, States, NoTaskLost
<1>4. NoLostCorpse'
  BY DEF PcInv, schedule_bury, IndInv, NoLostCorpse
<1>5. PcInv'
  BY DEF schedule_bury, lockVars, IndInv, PcInv
<1>6. CpuInv'
  BY DEF schedule_bury, CpuInv
<1>7. FlagInv'
  BY DEF CpuInv, NoLostCorpse, Running, schedule_bury,
     add_task_to_ready_queue, add_task_to_dead_queue, lockVars, IndInv,
     FlagInv, TaskIF
<1>8. LockInv'
  BY DEF schedule_bury, lockVars, IndInv, LockInv, MutualExclusion,
     NoLostWakeup
<1> QED
  BY <1>1, <1>2, <1>3, <1>4, <1>5, <1>6, <1>7, <1>8 DEF IndInv

\* schedule() leaves a task that blocked where it is.
LEMMA LeaveStep ==
    ASSUME IndInv, schedule_leave, UNCHANGED lockVars
    PROVE  IndInv'
<1>1. TypeOK'
  BY DEF schedule_leave, lockVars, IndInv, TypeOK, States
<1>2. QueuesMatchStates'
  BY DEF schedule_leave, lockVars, IndInv, QueuesMatchStates
<1>3. NoTaskLost'
  BY DEF schedule_leave, lockVars, IndInv, NoTaskLost
<1>4. NoLostCorpse'
  BY DEF schedule_leave, IndInv, NoLostCorpse
<1>5. PcInv'
  BY DEF schedule_leave, lockVars, IndInv, PcInv
<1>6. CpuInv'
  BY DEF schedule_leave, CpuInv
<1>7. FlagInv'
  BY DEF Running, schedule_leave, IndInv, FlagInv, TaskIF
<1>8. LockInv'
  BY DEF schedule_leave, lockVars, IndInv, LockInv, MutualExclusion,
     NoLostWakeup
<1> QED
  BY <1>1, <1>2, <1>3, <1>4, <1>5, <1>6, <1>7, <1>8 DEF IndInv

\* A timer interrupt preempts the running task.
LEMMA TimerStep ==
    ASSUME NEW t \in Task, IndInv, timer_isr(t), UNCHANGED lockVars
    PROVE  IndInv'
<1>1. TypeOK'
  BY DEF timer_isr, swtch_to_scheduler, lockVars, IndInv, TypeOK, States
<1>2. QueuesMatchStates'
  BY DEF timer_isr, lockVars, IndInv, QueuesMatchStates
<1>3. NoTaskLost'
  BY DEF timer_isr, swtch_to_scheduler, lockVars, IndInv, NoTaskLost
<1>4. NoLostCorpse'
  BY DEF timer_isr, IndInv, NoLostCorpse
<1>5. PcInv'
  BY DEF timer_isr, lockVars, IndInv, PcInv
<1>6. CpuInv'
  BY DEF Running, timer_isr, IndInv, CpuInv
<1>7. FlagInv'
  BY DEF timer_isr, swtch_to_scheduler, IndInv, FlagInv, TaskIF
<1>8. LockInv'
  BY DEF timer_isr, lockVars, IndInv, LockInv, MutualExclusion,
     NoLostWakeup
<1> QED
  BY <1>1, <1>2, <1>3, <1>4, <1>5, <1>6, <1>7, <1>8 DEF IndInv

\* A task marks itself dead.
LEMMA ExitStep ==
    ASSUME NEW t \in Task, IndInv, thread_exit(t), UNCHANGED lockVars
    PROVE  IndInv'
<1>1. TypeOK'
  BY DEF thread_exit, lockVars, IndInv, TypeOK, States
<1>2. QueuesMatchStates'
  BY DEF CpuInv, Running, thread_exit, lockVars, IndInv, QueuesMatchStates
<1>3. NoTaskLost'
  BY DEF Running, thread_exit, lockVars, IndInv, NoTaskLost
<1>4. NoLostCorpse'
  BY DEF PcInv, thread_exit, IndInv, NoLostCorpse
<1>5. PcInv'
  BY TaskAssumption DEF CpuInv, Running, thread_exit, lockVars, IndInv,
     TypeOK, States, PcInv
<1>6. CpuInv'
  BY DEF QueuesMatchStates, thread_exit, IndInv, CpuInv
<1>7. FlagInv'
  BY DEF Running, thread_exit, IndInv, FlagInv, TaskIF
<1>8. LockInv'
  BY DEF thread_exit, lockVars, IndInv, LockInv, MutualExclusion,
     NoLostWakeup
<1> QED
  BY <1>1, <1>2, <1>3, <1>4, <1>5, <1>6, <1>7, <1>8 DEF IndInv

\* A dead task gives up the CPU.
LEMMA ExitYieldStep ==
    ASSUME NEW t \in Task, IndInv, thread_exit_yield(t), UNCHANGED
           lockVars
    PROVE  IndInv'
<1>1. TypeOK'
  BY DEF thread_exit_yield, swtch_to_scheduler, lockVars, IndInv, TypeOK,
     States
<1>2. QueuesMatchStates'
  BY DEF thread_exit_yield, lockVars, IndInv, QueuesMatchStates
<1>3. NoTaskLost'
  BY DEF thread_exit_yield, swtch_to_scheduler, lockVars, IndInv,
     NoTaskLost
<1>4. NoLostCorpse'
  BY DEF thread_exit_yield, IndInv, NoLostCorpse
<1>5. PcInv'
  BY DEF thread_exit_yield, lockVars, IndInv, PcInv
<1>6. CpuInv'
  BY DEF Running, thread_exit_yield, IndInv, CpuInv
<1>7. FlagInv'
  BY DEF Running, thread_exit_yield, swtch_to_scheduler, IndInv, TypeOK,
     States, FlagInv, TaskIF
<1>8. LockInv'
  BY DEF thread_exit_yield, lockVars, IndInv, LockInv, MutualExclusion,
     NoLostWakeup
<1> QED
  BY <1>1, <1>2, <1>3, <1>4, <1>5, <1>6, <1>7, <1>8 DEF IndInv

\* create_task() allocates and clears a record.
LEMMA AllocStep ==
    ASSUME NEW n \in Task, IndInv, create_task_alloc(n), UNCHANGED
           lockVars
    PROVE  IndInv'
<1>1. TypeOK'
  BY TaskAssumption, LockAssumption DEF IndInv, TypeOK, States,
     create_task_alloc, lockVars, Running, CpuInv, PcInv
<1>2. QueuesMatchStates'
  BY DEF create_task_alloc, lockVars, IndInv, QueuesMatchStates
<1>3. NoTaskLost'
  BY DEF CpuInv, Running, create_task_alloc, lockVars, IndInv, TypeOK,
     States, NoTaskLost
<1>4. NoLostCorpse'
  BY DEF create_task_alloc, IndInv, NoLostCorpse
<1>5. PcInv'
  BY TaskAssumption DEF QueuesMatchStates, create_task_alloc, lockVars,
     IndInv, TypeOK, States, PcInv
<1>6. CpuInv'
  BY DEF create_task_alloc, IndInv, TypeOK, States, CpuInv
<1>7. FlagInv'
  BY TaskAssumption DEF PcInv, Running, create_task_alloc, IndInv, TypeOK,
     States, FlagInv, TaskIF
<1>8. LockInv'
  BY LockAssumption DEF FlagInv, TaskIF, PcInv, create_task_alloc,
     lockVars, IndInv, TypeOK, States, LockInv, MutualExclusion,
     NoLostWakeup
<1> QED
  BY <1>1, <1>2, <1>3, <1>4, <1>5, <1>6, <1>7, <1>8 DEF IndInv

\* create_task() puts the new task in the ready queue.
LEMMA PublishStep ==
    ASSUME IndInv, create_task_ready, UNCHANGED lockVars
    PROVE  IndInv'
<1>1. TypeOK'
  BY DEF CpuInv, PcInv, Running, create_task_ready,
     add_task_to_ready_queue, lockVars, IndInv, TypeOK, States
<1>2. QueuesMatchStates'
  BY AppendQueue DEF PcInv, create_task_ready, add_task_to_ready_queue,
     lockVars, IndInv, TypeOK, States, QueuesMatchStates
<1>3. NoTaskLost'
  BY DEF create_task_ready, lockVars, IndInv, TypeOK, States, NoTaskLost
<1>4. NoLostCorpse'
  BY DEF create_task_ready, IndInv, NoLostCorpse
<1>5. PcInv'
  BY DEF CpuInv, Running, create_task_ready, lockVars, IndInv, TypeOK,
     States, PcInv
<1>6. CpuInv'
  BY DEF PcInv, Running, create_task_ready, IndInv, CpuInv
<1>7. FlagInv'
  BY DEF PcInv, Running, create_task_ready, IndInv, FlagInv, TaskIF
<1>8. LockInv'
  BY DEF create_task_ready, lockVars, IndInv, LockInv, MutualExclusion,
     NoLostWakeup
<1> QED
  BY <1>1, <1>2, <1>3, <1>4, <1>5, <1>6, <1>7, <1>8 DEF IndInv

\* create_task() inserts the new task in the ring.
LEMMA InsertStep ==
    ASSUME IndInv, create_task_insert, UNCHANGED lockVars
    PROVE  IndInv'
<1>1. TypeOK'
  BY DEF CpuInv, Running, create_task_insert, lockVars, IndInv, TypeOK,
     States
<1>2. QueuesMatchStates'
  BY DEF create_task_insert, lockVars, IndInv, QueuesMatchStates
<1>3. NoTaskLost'
  BY DEF create_task_insert, lockVars, IndInv, NoTaskLost
<1>4. NoLostCorpse'
  BY DEF create_task_insert, IndInv, NoLostCorpse
<1>5. PcInv'
  BY DEF create_task_insert, lockVars, IndInv, PcInv
<1>6. CpuInv'
  BY DEF create_task_insert, IndInv, CpuInv
<1>7. FlagInv'
  BY DEF Running, create_task_insert, IndInv, FlagInv, TaskIF
<1>8. LockInv'
  BY DEF create_task_insert, lockVars, IndInv, LockInv, MutualExclusion,
     NoLostWakeup
<1> QED
  BY <1>1, <1>2, <1>3, <1>4, <1>5, <1>6, <1>7, <1>8 DEF IndInv

\* The reaper turns interrupts off.
LEMMA ReaperCliStep ==
    ASSUME IndInv, reaper_cli, UNCHANGED lockVars
    PROVE  IndInv'
<1>1. TypeOK'
  BY TaskAssumption, LockAssumption DEF IndInv, TypeOK, States,
     reaper_cli, lockVars, Running, CpuInv, PcInv
<1>2. QueuesMatchStates'
  BY DEF reaper_cli, lockVars, IndInv, QueuesMatchStates
<1>3. NoTaskLost'
  BY DEF reaper_cli, lockVars, IndInv, NoTaskLost
<1>4. NoLostCorpse'
  BY DEF reaper_cli, IndInv, NoLostCorpse
<1>5. PcInv'
  BY DEF reaper_cli, lockVars, IndInv, PcInv
<1>6. CpuInv'
  BY DEF reaper_cli, IndInv, CpuInv
<1>7. FlagInv'
  BY DEF CpuInv, Running, reaper_cli, IndInv, TypeOK, States, FlagInv,
     TaskIF
<1>8. LockInv'
  BY DEF reaper_cli, lockVars, IndInv, LockInv, MutualExclusion,
     NoLostWakeup
<1> QED
  BY <1>1, <1>2, <1>3, <1>4, <1>5, <1>6, <1>7, <1>8 DEF IndInv

\* The reaper frees a corpse.
LEMMA ReapStep ==
    ASSUME IndInv, reaper_reap, UNCHANGED lockVars
    PROVE  IndInv'
<1>1. TypeOK'
  BY DEF CpuInv, Running, reaper_reap, remove_task_from_dead_queue,
     lockVars, IndInv, TypeOK, States
<1>2. QueuesMatchStates'
  BY TailQueue DEF reaper_reap, remove_task_from_dead_queue, lockVars,
     IndInv, TypeOK, States, QueuesMatchStates
<1>3. NoTaskLost'
  BY TailQueue DEF QueuesMatchStates, reaper_reap,
     remove_task_from_dead_queue, lockVars, IndInv, TypeOK, States,
     NoTaskLost
<1>4. NoLostCorpse'
  BY TailQueue DEF QueuesMatchStates, reaper_reap, IndInv, TypeOK, States,
     NoLostCorpse
<1>5. PcInv'
  BY TailQueue DEF QueuesMatchStates, reaper_reap, lockVars, IndInv,
     TypeOK, States, PcInv
<1>6. CpuInv'
  BY TailQueue DEF QueuesMatchStates, reaper_reap,
     remove_task_from_dead_queue, IndInv, TypeOK, States, CpuInv
<1>7. FlagInv'
  BY DEF CpuInv, Running, reaper_reap, IndInv, TypeOK, States, FlagInv,
     TaskIF
<1>8. LockInv'
  <2>1. dead_q # <<>> /\ dead_q \in Seq(Task) /\ state \in [Task -> States]
    BY DEF reaper_reap, IndInv, TypeOK
  <2>2. Head(dead_q) \in Task /\ state[Head(dead_q)] = "DEAD"
    BY <2>1, TailQueue DEF IndInv, QueuesMatchStates
  <2>3. /\ state' = [state EXCEPT ![Head(dead_q)] = "UNUSED"]
        /\ pc' = [pc EXCEPT ![Reaper] = "reaper_top"]
        /\ pc[Reaper] = "reaper_body"
        /\ UNCHANGED <<locked, holder, waitq>>
    BY DEF reaper_reap, IndInv, TypeOK, lockVars
  <2>4. \A t \in Task : /\ pc'[t] = "critical" <=> pc[t] = "critical"
                        /\ pc'[t] = "lock_wait" <=> pc[t] = "lock_wait"
    BY <2>3 DEF IndInv, TypeOK
  <2> QED
    BY <2>1, <2>2, <2>3, <2>4 DEF IndInv, LockInv, MutualExclusion, NoLostWakeup
<1> QED
  BY <1>1, <1>2, <1>3, <1>4, <1>5, <1>6, <1>7, <1>8 DEF IndInv

\* The reaper finds no corpse.
LEMMA ReaperBlockStep ==
    ASSUME IndInv, reaper_block, UNCHANGED lockVars
    PROVE  IndInv'
<1>1. TypeOK'
  BY DEF CpuInv, Running, reaper_block, lockVars, IndInv, TypeOK, States
<1>2. QueuesMatchStates'
  BY DEF CpuInv, Running, reaper_block, lockVars, IndInv,
     QueuesMatchStates
<1>3. NoTaskLost'
  BY DEF reaper_block, lockVars, IndInv, NoTaskLost
<1>4. NoLostCorpse'
  BY DEF reaper_block, NoLostCorpse
<1>5. PcInv'
  BY DEF reaper_block, lockVars, IndInv, PcInv
<1>6. CpuInv'
  BY DEF reaper_block, IndInv, TypeOK, States, CpuInv
<1>7. FlagInv'
  BY DEF Running, reaper_block, IndInv, FlagInv, TaskIF
<1>8. LockInv'
  BY DEF reaper_block, lockVars, IndInv, LockInv, MutualExclusion,
     NoLostWakeup
<1> QED
  BY <1>1, <1>2, <1>3, <1>4, <1>5, <1>6, <1>7, <1>8 DEF IndInv

\* The reaper gives up the CPU.
LEMMA ReaperYieldStep ==
    ASSUME IndInv, reaper_yield, UNCHANGED lockVars
    PROVE  IndInv'
<1>1. TypeOK'
  BY DEF CpuInv, Running, reaper_yield, swtch_to_scheduler, lockVars,
     IndInv, TypeOK, States
<1>2. QueuesMatchStates'
  BY DEF reaper_yield, lockVars, IndInv, QueuesMatchStates
<1>3. NoTaskLost'
  BY DEF reaper_yield, swtch_to_scheduler, lockVars, IndInv, NoTaskLost
<1>4. NoLostCorpse'
  BY DEF reaper_yield, IndInv, NoLostCorpse
<1>5. PcInv'
  BY DEF reaper_yield, lockVars, IndInv, PcInv
<1>6. CpuInv'
  BY DEF Running, reaper_yield, swtch_to_scheduler, IndInv, CpuInv
<1>7. FlagInv'
  BY DEF CpuInv, Running, reaper_yield, swtch_to_scheduler, IndInv,
     TypeOK, States, FlagInv, TaskIF
<1>8. LockInv'
  BY DEF reaper_yield, lockVars, IndInv, LockInv, MutualExclusion,
     NoLostWakeup
<1> QED
  BY <1>1, <1>2, <1>3, <1>4, <1>5, <1>6, <1>7, <1>8 DEF IndInv

\* A task finds the mutex taken and sleeps.
LEMMA SleepStep ==
    ASSUME NEW t \in LockUser, IndInv, Running(t), pc[t] \in {"run",
           "lock_wait"}, mutex_sleep(t), flags' \in [Task -> BOOLEAN],
           flags'[Reaper] = flags[Reaper]
    PROVE  IndInv'
<1>1. TypeOK'
  BY TaskAssumption, LockAssumption, AppendQueue DEF IndInv, TypeOK,
     States, mutex_sleep, add_task_to_mutex_queue, Running, CpuInv, PcInv
<1>2. QueuesMatchStates'
  BY AppendQueue DEF CpuInv, Running, mutex_sleep,
     add_task_to_mutex_queue, IndInv, TypeOK, States, QueuesMatchStates
<1>3. NoTaskLost'
  BY AppendQueue DEF CpuInv, Running, mutex_sleep,
     add_task_to_mutex_queue, IndInv, TypeOK, States, NoTaskLost
<1>4. NoLostCorpse'
  BY DEF PcInv, mutex_sleep, IndInv, NoLostCorpse
<1>5. PcInv'
  BY LockAssumption, AppendQueue DEF CpuInv, Running, mutex_sleep,
     add_task_to_mutex_queue, IndInv, TypeOK, States, PcInv
<1>6. CpuInv'
  BY DEF Running, mutex_sleep, IndInv, CpuInv
<1>7. FlagInv'
  BY DEF PcInv, Running, mutex_sleep, IndInv, TypeOK, States, FlagInv,
     TaskIF
<1>8. LockInv'
  BY DEF mutex_sleep, IndInv, LockInv, MutualExclusion, NoLostWakeup
<1> QED
  BY <1>1, <1>2, <1>3, <1>4, <1>5, <1>6, <1>7, <1>8 DEF IndInv

\* A task finds the mutex free and takes it.
LEMMA TakeStep ==
    ASSUME NEW t \in LockUser, IndInv, Running(t), pc[t] \in {"run",
           "lock_wait"}, mutex_take(t), flags' \in [Task -> BOOLEAN],
           flags'[Reaper] = flags[Reaper]
    PROVE  IndInv'
<1>1. TypeOK'
  BY TaskAssumption, LockAssumption DEF IndInv, TypeOK, States,
     mutex_take, Running, CpuInv, PcInv
<1>2. QueuesMatchStates'
  BY DEF mutex_take, IndInv, QueuesMatchStates
<1>3. NoTaskLost'
  BY DEF mutex_take, IndInv, NoTaskLost
<1>4. NoLostCorpse'
  BY DEF mutex_take, IndInv, NoLostCorpse
<1>5. PcInv'
  BY LockAssumption DEF CpuInv, QueuesMatchStates, Running, mutex_take,
     IndInv, PcInv
<1>6. CpuInv'
  BY DEF mutex_take, IndInv, CpuInv
<1>7. FlagInv'
  BY DEF PcInv, Running, mutex_take, IndInv, TypeOK, States, FlagInv,
     TaskIF
<1>8. LockInv'
  BY DEF CpuInv, Running, mutex_take, IndInv, TypeOK, States, LockInv,
     MutualExclusion, NoLostWakeup
<1> QED
  BY <1>1, <1>2, <1>3, <1>4, <1>5, <1>6, <1>7, <1>8 DEF IndInv

\* A task unlocks the mutex and wakes the first waiter.
LEMMA UnlockWakeStep ==
    ASSUME NEW t \in LockUser, IndInv, mutex_unlock(t), waitq # <<>>
    PROVE  IndInv'
<1> DEFINE w == Head(waitq)
<1>a. /\ t \in Task /\ t # Reaper /\ t # Shell /\ Running(t) /\ pc[t] = "critical"
      /\ state \in [Task -> States] /\ queue \in Seq(Task) /\ waitq \in Seq(Task)
  BY LockAssumption DEF IndInv, TypeOK, mutex_unlock
<1>b. w \in Task /\ InQueue(w, waitq)
  BY <1>a, TailQueue
<1>c. /\ state[w] = "BLOCKED" /\ pc[w] = "lock_wait" /\ w # t
      /\ w # Reaper /\ w # Shell /\ ~InQueue(w, queue)
  BY <1>a, <1>b, TaskAssumption DEF IndInv, QueuesMatchStates, PcInv
<1>d. /\ state' = [state EXCEPT ![w] = "READY"]
      /\ queue' = Append(queue, w) /\ waitq' = Tail(waitq)
      /\ locked' = FALSE /\ holder' = NoTask
      /\ flags' = [flags EXCEPT ![t] = if_flag]
      /\ pc' = [pc EXCEPT ![t] = "run"]
      /\ UNCHANGED <<dead_q, current_task, cpu, if_flag, eflags, sched_eflags,
                     new_task>>
  BY DEF mutex_unlock, add_task_to_ready_queue, remove_task_from_mutex_queue
<1>e. /\ queue' \in Seq(Task) /\ NoDuplicate(queue')
      /\ \A x : InQueue(x, queue') <=> InQueue(x, queue) \/ x = w
  BY <1>a, <1>b, <1>c, <1>d, AppendQueue DEF IndInv, QueuesMatchStates
<1>f. /\ waitq' \in Seq(Task) /\ NoDuplicate(waitq')
      /\ \A x : InQueue(x, waitq') <=> InQueue(x, waitq) /\ x # w
  BY <1>a, <1>d, TailQueue DEF IndInv, QueuesMatchStates
<1> HIDE DEF w
<1>1. TypeOK'
  BY <1>a, <1>d, <1>e, <1>f DEF IndInv, TypeOK, States
<1>2. QueuesMatchStates'
  BY <1>a, <1>b, <1>c, <1>d, <1>e, <1>f DEF IndInv, QueuesMatchStates
<1>3. NoTaskLost'
  BY <1>a, <1>b, <1>c, <1>d, <1>e, <1>f DEF IndInv, TypeOK, NoTaskLost
<1>4. NoLostCorpse'
  BY <1>a, <1>b, <1>c, <1>d DEF IndInv, NoLostCorpse
<1>5. PcInv'
  BY <1>a, <1>b, <1>c, <1>d, <1>e, <1>f
     DEF IndInv, TypeOK, QueuesMatchStates, PcInv, CpuInv, Running
<1>6. CpuInv'
  BY <1>a, <1>b, <1>c, <1>d DEF IndInv, TypeOK, CpuInv, Running
<1>7. FlagInv'
  BY <1>a, <1>b, <1>c, <1>d DEF IndInv, TypeOK, FlagInv, TaskIF, Running
<1>8. LockInv'
  BY <1>a, <1>b, <1>c, <1>d
     DEF IndInv, TypeOK, LockInv, MutualExclusion, NoLostWakeup
<1> QED
  BY <1>1, <1>2, <1>3, <1>4, <1>5, <1>6, <1>7, <1>8 DEF IndInv

\* A task unlocks a mutex for which no one waits.
LEMMA UnlockStep ==
    ASSUME NEW t \in LockUser, IndInv, mutex_unlock(t), waitq = <<>>
    PROVE  IndInv'
<1>1. TypeOK'
  BY TaskAssumption, LockAssumption DEF IndInv, TypeOK, States,
     mutex_unlock, Running, CpuInv, PcInv
<1>2. QueuesMatchStates'
  BY DEF mutex_unlock, IndInv, QueuesMatchStates
<1>3. NoTaskLost'
  BY DEF mutex_unlock, IndInv, NoTaskLost
<1>4. NoLostCorpse'
  BY DEF mutex_unlock, IndInv, NoLostCorpse
<1>5. PcInv'
  BY DEF mutex_unlock, IndInv, PcInv
<1>6. CpuInv'
  BY DEF mutex_unlock, IndInv, CpuInv
<1>7. FlagInv'
  BY DEF Running, mutex_unlock, IndInv, FlagInv, TaskIF
<1>8. LockInv'
  BY DEF CpuInv, Running, mutex_unlock, IndInv, TypeOK, States, LockInv,
     MutualExclusion, NoLostWakeup
<1> QED
  BY <1>1, <1>2, <1>3, <1>4, <1>5, <1>6, <1>7, <1>8 DEF IndInv

\* A step that changes nothing.
LEMMA StutterStep ==
    ASSUME IndInv, UNCHANGED vars
    PROVE  IndInv'
<1>1. TypeOK' /\ QueuesMatchStates' /\ NoTaskLost' /\ NoLostCorpse'
  BY DEF IndInv, TypeOK, QueuesMatchStates, NoTaskLost, NoLostCorpse, vars
<1>2. PcInv' /\ CpuInv'
  BY DEF IndInv, PcInv, CpuInv, vars
<1>3. FlagInv' /\ LockInv'
  BY DEF IndInv, FlagInv, TaskIF, Running, LockInv, MutualExclusion,
         NoLostWakeup, vars
<1> QED
  BY <1>1, <1>2, <1>3 DEF IndInv

-----------------------------------------------------------------------------
(* Invariance                                                              *)

\* kmain leaves the boot tasks queued, the reaper blocked and the rest unused.
LEMMA InitIndInv == Init => IndInv
<1> SUFFICES ASSUME Init PROVE IndInv
  OBVIOUS
<1>1. /\ Boot \in Seq(Task) /\ Reaper \in Task /\ Shell \in Task
      /\ BootTasks \subseteq Task /\ Reaper \notin BootTasks /\ Shell # Reaper
      /\ Immortal \subseteq BootTasks /\ Shell \in BootTasks
      /\ NoDuplicate(Boot) /\ NoTask \notin Task
  BY TaskAssumption DEF BootTasks, NoDuplicate
<1>2. \A t : InQueue(t, Boot) <=> t \in BootTasks
  BY DEF InQueue, BootTasks
<1>3. /\ state = [t \in Task |-> IF t = Reaper THEN "BLOCKED"
                                 ELSE IF t \in BootTasks THEN "READY" ELSE "UNUSED"]
      /\ pc = [t \in Task |-> IF t = Reaper THEN "reaper_top" ELSE "run"]
      /\ queue = Boot /\ dead_q = <<>> /\ waitq = <<>>
      /\ cpu = "pick" /\ ~locked /\ holder = NoTask
      /\ if_flag = FALSE /\ sched_eflags = FALSE
  BY DEF Init, SchedInit, mutex_init
<1>4. /\ \A t : ~InQueue(t, dead_q) /\ ~InQueue(t, waitq)
      /\ NoDuplicate(dead_q) /\ NoDuplicate(waitq)
  BY <1>3 DEF InQueue, NoDuplicate
<1>5. TypeOK
  <2>1. state \in [Task -> States]
    BY <1>3 DEF States
  <2>2. /\ eflags \in [Task -> BOOLEAN] /\ flags \in [Task -> BOOLEAN]
        /\ if_flag \in BOOLEAN /\ sched_eflags \in BOOLEAN /\ locked \in BOOLEAN
    BY DEF Init, SchedInit, mutex_init
  <2>3. queue \in Seq(Task) /\ dead_q \in Seq(Task) /\ waitq \in Seq(Task)
    BY <1>1, <1>3
  <2> QED
    BY <1>3, <2>1, <2>2, <2>3 DEF Init, SchedInit, mutex_init, TypeOK
<1>6. QueuesMatchStates
  BY <1>1, <1>2, <1>3, <1>4 DEF QueuesMatchStates
<1>7. NoTaskLost /\ NoLostCorpse
  BY <1>1, <1>3 DEF NoTaskLost, NoLostCorpse
<1>8. PcInv
  BY <1>1, <1>3, <1>4 DEF PcInv
<1>9. CpuInv
  BY <1>3 DEF CpuInv
<1>10. FlagInv
  BY <1>1, <1>3 DEF FlagInv, TaskIF, Running
<1>11. LockInv
  BY <1>1, <1>3 DEF LockInv, MutualExclusion, NoLostWakeup
<1> QED
  BY <1>5, <1>6, <1>7, <1>8, <1>9, <1>10, <1>11 DEF IndInv

\* The steps of mutex_lock, from its start or from where it slept.
LEMMA LockStepInv ==
    ASSUME IndInv, NEW t \in LockUser, LockStep(t)
    PROVE  IndInv'
<1>1. t \in Task /\ t # Reaper /\ flags \in [Task -> BOOLEAN] /\ if_flag \in BOOLEAN
  BY LockAssumption DEF IndInv, TypeOK
<1>2. CASE mutex_lock(t) \/ mutex_lock_resume(t)
  <2>1. /\ Running(t) /\ pc[t] \in {"run", "lock_wait"}
        /\ flags' \in [Task -> BOOLEAN] /\ flags'[Reaper] = flags[Reaper]
    BY <1>1, <1>2, TaskAssumption DEF mutex_lock, mutex_lock_resume
  <2>2. mutex_sleep(t) \/ mutex_take(t)
    BY <1>2 DEF mutex_lock, mutex_lock_resume
  <2> QED
    BY <2>1, <2>2, SleepStep, TakeStep
<1>3. CASE mutex_unlock(t)
  BY <1>3, UnlockWakeStep, UnlockStep
<1> QED
  BY <1>2, <1>3 DEF LockStep

\* Every step keeps the invariant.
LEMMA StepIndInv == IndInv /\ [Next]_vars => IndInv'
<1> SUFFICES ASSUME IndInv, [Next]_vars PROVE IndInv'
  OBVIOUS
<1>1. CASE schedule /\ UNCHANGED lockVars
  <2>1. CASE schedule_bury
    BY <1>1, <2>1, BuryWakeStep, BuryStep
  <2> QED
    BY <1>1, <2>1, DispatchStep, RequeueStep, LeaveStep DEF schedule
<1>2. CASE (\E t \in Task : timer_isr(t) \/ thread_exit(t) \/ thread_exit_yield(t))
           /\ UNCHANGED lockVars
  BY <1>2, TimerStep, ExitStep, ExitYieldStep
<1>3. CASE create_task /\ UNCHANGED lockVars
  BY <1>3, AllocStep, PublishStep, InsertStep DEF create_task
<1>4. CASE reaper_thread /\ UNCHANGED lockVars
  BY <1>4, ReaperCliStep, ReapStep, ReaperBlockStep, ReaperYieldStep
     DEF reaper_thread
<1>5. CASE \E t \in LockUser : LockStep(t)
  BY <1>5, LockStepInv
<1>6. CASE UNCHANGED vars
  BY <1>6, StutterStep
<1> QED
  BY <1>1, <1>2, <1>3, <1>4, <1>5, <1>6 DEF Next, SchedNext

\* The invariant holds in every state of every behaviour.
LEMMA Invariance == Spec => []IndInv
  BY InitIndInv, StepIndInv, PTL DEF Spec

-----------------------------------------------------------------------------
(* The theorems                                                            *)

\* Every variable keeps its type.
THEOREM TypeCorrect == Spec => []TypeOK
<1>1. IndInv => TypeOK
  BY DEF IndInv
<1> QED
  BY <1>1, Invariance, PTL

\* schedule, create_task, mutex_lock and mutex_unlock never queue a task twice,
\* and the state of a task names the queue it is in.
THEOREM QueuesCorrect == Spec => []QueuesMatchStates
<1>1. IndInv => QueuesMatchStates
  BY DEF IndInv
<1> QED
  BY <1>1, Invariance, PTL

\* No interleaving of ticks with thread_exit, create_task, the reaper and the
\* mutex loses a task.
THEOREM TasksKept == Spec => []NoTaskLost
<1>1. IndInv => NoTaskLost
  BY DEF IndInv
<1> QED
  BY <1>1, Invariance, PTL

\* The reaper never goes to sleep on a corpse.
THEOREM CorpsesKept == Spec => []NoLostCorpse
<1>1. IndInv => NoLostCorpse
  BY DEF IndInv
<1> QED
  BY <1>1, Invariance, PTL

\* schedule(), the body of the reaper and a resumed mutex_lock run with
\* interrupts off, although the reaper restores the flags that it saved.
THEOREM InterruptsStayOff == Spec => []InterruptsOff
<1>1. IndInv => InterruptsOff
  <2> SUFFICES ASSUME IndInv PROVE InterruptsOff
    OBVIOUS
  <2>1. cpu # "task" => ~if_flag
    BY DEF IndInv, FlagInv
  <2>2. ASSUME NEW t \in Task, Running(t),
               pc[t] \in {"reaper_body", "reaper_yield", "lock_wait"}
        PROVE  ~if_flag
    <3>1. CASE pc[t] = "lock_wait"
      BY <2>2, <3>1 DEF IndInv, FlagInv, TaskIF
    <3>2. CASE pc[t] \in {"reaper_body", "reaper_yield"}
      <4>1. t = Reaper
        BY <2>2, <3>2 DEF IndInv, PcInv
      <4> QED
        BY <2>2, <3>2, <4>1 DEF IndInv, FlagInv, TaskIF
    <3> QED
      BY <2>2, <3>1, <3>2
  <2> QED
    BY <2>1, <2>2 DEF InterruptsOff
<1> QED
  BY <1>1, Invariance, PTL

\* schedule() never spins on an empty ready queue: the shell is always ready
\* when schedule() picks.
THEOREM SchedulerNeverSpins == Spec => []NeverIdle
<1>1. IndInv => NeverIdle
  <2> SUFFICES ASSUME IndInv, cpu = "pick" PROVE queue # <<>>
    BY DEF NeverIdle
  <2>1. Shell \in Task
    BY TaskAssumption
  <2>2. state[Shell] = "READY"
    BY <2>1 DEF IndInv, PcInv, NoTaskLost
  <2>3. InQueue(Shell, queue) /\ queue \in Seq(Task)
    BY <2>1, <2>2 DEF IndInv, TypeOK, QueuesMatchStates
  <2> QED
    BY <2>1, <2>3, EmptyQueue
<1> QED
  BY <1>1, Invariance, PTL

\* mutex_lock admits one task at a time, the one that lock->holder names.
THEOREM MutexExcludes == Spec => []MutualExclusion
<1>1. IndInv => MutualExclusion
  BY DEF IndInv, LockInv
<1> QED
  BY <1>1, Invariance, PTL

\* mutex_unlock never leaves sleepers behind a free lock.
THEOREM WakeupsKept == Spec => []NoLostWakeup
<1>1. IndInv => NoLostWakeup
  BY DEF IndInv, LockInv
<1> QED
  BY <1>1, Invariance, PTL

-----------------------------------------------------------------------------
(* The life cycle of a task                                                *)

Edges ==
    \A t \in Task :
        state'[t] # state[t] => <<state[t], state'[t]>> \in LifeCycleEdges

\* A step that changes the state of one task along an edge.
LEMMA OneEdge ==
    ASSUME state \in [Task -> States], NEW x \in Task, NEW v,
           state' = [state EXCEPT ![x] = v],
           <<state[x], v>> \in LifeCycleEdges
    PROVE  Edges
  BY DEF Edges

\* Each step moves at most one task, along an edge of the life cycle.
LEMMA StepEdges == IndInv /\ [Next]_vars => Edges \/ UNCHANGED vars
<1> SUFFICES ASSUME IndInv, Next PROVE Edges
  OBVIOUS
<1>0. state \in [Task -> States] /\ Reaper \in Task /\ Shell \in Task
  BY TaskAssumption DEF IndInv, TypeOK
<1>1. ASSUME UNCHANGED state PROVE Edges
  BY <1>1 DEF Edges
<1>2. CASE schedule
  <2>1. CASE schedule_dispatch
    <3>1. Head(queue) \in Task /\ state[Head(queue)] = "READY"
      BY <2>1, TailQueue DEF schedule_dispatch, IndInv, TypeOK, QueuesMatchStates
    <3> QED
      BY <1>0, <2>1, <3>1, OneEdge DEF schedule_dispatch, LifeCycleEdges
  <2>2. CASE schedule_requeue
    <3>1. current_task \in Task
      BY <2>2 DEF schedule_requeue, IndInv, CpuInv
    <3> QED
      BY <1>0, <2>2, <3>1, OneEdge DEF schedule_requeue, LifeCycleEdges
  <2>3. CASE schedule_bury
    BY <1>0, <1>1, <2>3, OneEdge DEF schedule_bury, LifeCycleEdges
  <2> QED
    BY <1>1, <1>2, <2>1, <2>2, <2>3 DEF schedule, schedule_leave
<1>3. ASSUME NEW t \in Task, timer_isr(t) \/ thread_exit(t) \/ thread_exit_yield(t)
      PROVE  Edges
  <2>1. CASE thread_exit(t)
    <3>1. state[t] = "RUNNING"
      BY <1>3, <2>1 DEF thread_exit, Running, IndInv, CpuInv, PcInv
    <3> QED
      BY <1>0, <2>1, <3>1, OneEdge DEF thread_exit, LifeCycleEdges
  <2> QED
    BY <1>1, <1>3, <2>1 DEF timer_isr, thread_exit_yield
<1>4. CASE create_task
  <2>1. ASSUME NEW n \in Task, create_task_alloc(n) PROVE Edges
    BY <1>0, <2>1, OneEdge DEF create_task_alloc, LifeCycleEdges
  <2>2. CASE create_task_ready
    <3>1. new_task \in Task /\ state[new_task] = "BLOCKED"
      BY <2>2 DEF create_task_ready, IndInv, PcInv
    <3> QED
      BY <1>0, <2>2, <3>1, OneEdge DEF create_task_ready, LifeCycleEdges
  <2> QED
    BY <1>1, <1>4, <2>1, <2>2 DEF create_task, create_task_insert
<1>5. CASE reaper_thread
  <2>1. CASE reaper_reap
    <3>1. Head(dead_q) \in Task /\ state[Head(dead_q)] = "DEAD"
      BY <2>1, TailQueue DEF reaper_reap, IndInv, TypeOK, QueuesMatchStates
    <3> QED
      BY <1>0, <2>1, <3>1, OneEdge DEF reaper_reap, LifeCycleEdges
  <2>2. CASE reaper_block
    <3>1. state[Reaper] = "RUNNING"
      BY <1>0, <2>2 DEF reaper_block, Running, IndInv, CpuInv, PcInv
    <3> QED
      BY <1>0, <2>2, <3>1, OneEdge DEF reaper_block, LifeCycleEdges
  <2> QED
    BY <1>1, <1>5, <2>1, <2>2 DEF reaper_thread, reaper_cli, reaper_yield
<1>6. ASSUME NEW t \in LockUser, LockStep(t) PROVE Edges
  <2>1. t \in Task \ {Reaper}
    BY LockAssumption
  <2>2. ASSUME Running(t), pc[t] \in {"run", "lock_wait"}, mutex_sleep(t)
        PROVE  Edges
    <3>1. state[t] = "RUNNING"
      BY <2>1, <2>2 DEF Running, IndInv, CpuInv, PcInv
    <3> QED
      BY <1>0, <2>1, <2>2, <3>1, OneEdge DEF mutex_sleep, LifeCycleEdges
  <2>3. CASE mutex_unlock(t)
    <3>1. CASE waitq = <<>>
      BY <1>1, <2>3, <3>1 DEF mutex_unlock
    <3>2. CASE waitq # <<>>
      <4>1. Head(waitq) \in Task /\ state[Head(waitq)] = "BLOCKED"
        BY <3>2, TailQueue DEF IndInv, TypeOK, QueuesMatchStates
      <4> QED
        BY <1>0, <2>3, <3>2, <4>1, OneEdge DEF mutex_unlock, LifeCycleEdges
    <3> QED
      BY <3>1, <3>2
  <2> QED
    BY <1>1, <1>6, <2>2, <2>3
       DEF LockStep, mutex_lock, mutex_lock_resume, mutex_take
<1> QED
  BY <1>2, <1>3, <1>4, <1>5, <1>6 DEF Next, SchedNext

\* A task moves only along the edges of its life cycle: nothing brings a dead
\* task back, and a record is used again only after the reaper freed it.
THEOREM LifeCycleKept == Spec => LifeCycle
<1>1. IndInv /\ [Next]_vars => [Edges]_vars
  BY StepEdges
<1> QED
  BY <1>1, Invariance, PTL DEF Spec, LifeCycle, Edges

-----------------------------------------------------------------------------
(* The ring of tasks: the inductive invariant                               *)

RingType ==
    /\ next \in [Task -> Task \cup {NoTask}]
    /\ prev \in [Task -> Task \cup {NoTask}]
    /\ last_inserted \in Task \cup {NoTask}

\* No record was reaped before it was linked.
Undamaged == "not yet linked" \notin damage

\* The record that create_task has allocated and not linked.
NewInv ==
    /\ pc[Shell] = "run" => new_task = NoTask
    /\ pc[Shell] \in {"create", "insert"} =>
        /\ new_task \in Task \ {Reaper, Shell}
        /\ Undamaged => state[new_task] # "UNUSED"
    /\ InPs => pc[Shell] = "run"

\* s lists the n records of L, each once, from the shell on, in the order of the
\* links nx and, backwards, pv.
CircleOf(L, nx, pv, n, s) ==
    /\ n \in Nat \ {0}
    /\ s \in [0..(n - 1) -> Task]
    /\ \A i, j \in 0..(n - 1) : s[i] = s[j] => i = j
    /\ \A t : t \in L <=> \E i \in 0..(n - 1) : s[i] = t
    /\ s[0] = Shell
    /\ \A i \in 0..(n - 2) : nx[s[i]] = s[i + 1] /\ pv[s[i + 1]] = s[i]
    /\ nx[s[n - 1]] = s[0] /\ pv[s[0]] = s[n - 1]

Circle(n, s) == CircleOf(Linked, next, prev, n, s)

\* ps stands in the circle and has listed what is before it.
Listing(n, s) ==
    \E j \in 0..(n - 1) :
        spawnpoint = s[j] /\ \A i \in 0..(j - 1) : s[i] \in seen

CircleInv ==
    Undamaged =>
        /\ last_inserted \in Linked
        /\ \E n, s : /\ Circle(n, s)
                     /\ damage = {} /\ InPs => Listing(n, s)

RingInv == RingType /\ NewInv /\ CircleInv

-----------------------------------------------------------------------------
(* The steps of the ring are steps of the scheduler and the mutex.          *)

LEMMA RingSteps == [RingNext]_allVars => [Next]_vars
<1> SUFFICES ASSUME [RingNext]_allVars PROVE [Next]_vars
  OBVIOUS
<1>1. CASE Elsewhere
  <2>1. CASE schedule /\ UNCHANGED lockVars
    BY <2>1 DEF Next, SchedNext
  <2>2. CASE /\ \E t \in Task : timer_isr(t) \/ thread_exit(t) \/ thread_exit_yield(t)
             /\ UNCHANGED lockVars
    BY <2>2 DEF Next, SchedNext
  <2>3. CASE create_task_ready /\ UNCHANGED lockVars
    BY <2>3 DEF Next, SchedNext, create_task
  <2>4. CASE (reaper_cli \/ reaper_block \/ reaper_yield) /\ UNCHANGED lockVars
    BY <2>4 DEF Next, SchedNext, reaper_thread
  <2>5. CASE \E t \in LockUser : LockStep(t)
    BY <2>5 DEF Next
  <2> QED
    BY <1>1, <2>1, <2>2, <2>3, <2>4, <2>5 DEF Elsewhere
<1>2. CASE (\E n \in Task : create_cleared(n)) /\ UNCHANGED lockVars
  BY <1>2 DEF create_cleared, create_task, Next, SchedNext
<1>3. CASE create_linked /\ UNCHANGED lockVars
  BY <1>3 DEF create_linked, create_task, Next, SchedNext
<1>4. CASE reap_unlinked /\ UNCHANGED lockVars
  BY <1>4 DEF reap_unlinked, reaper_thread, Next, SchedNext
<1>5. CASE cmd_ps
  BY <1>5 DEF cmd_ps
<1>6. CASE scheduler_list_tasks
  BY <1>6 DEF scheduler_list_tasks
<1>7. CASE UNCHANGED allVars
  BY <1>7 DEF allVars
<1> QED
  BY <1>1, <1>2, <1>3, <1>4, <1>5, <1>6, <1>7 DEF RingNext

\* Whatever is proved of the scheduler and the mutex holds of them with the
\* ring and ps, too.
THEOREM RingImplements == RingSpec => Spec
  BY RingSteps, PTL DEF RingSpec, Spec

\* The invariant of the scheduler and the mutex.
LEMMA SchedulerInv == RingSpec => []IndInv
  BY RingImplements, Invariance, PTL

-----------------------------------------------------------------------------
(* Steps that leave the links alone                                        *)

\* No record is allocated or freed, and create_task is not called.
SameRecords ==
    /\ \A t \in Task : state'[t] = "UNUSED" <=> state[t] = "UNUSED"
    /\ new_task' = new_task
    /\ pc[Shell] = "run" => pc'[Shell] = "run"
    /\ pc[Shell] # "run" => pc'[Shell] \in {"create", "insert"}

LEMMA SameRing ==
    ASSUME RingInv, PcInv, SameRecords, UNCHANGED ringVars
    PROVE  RingInv'
<1>1. \A t : t \in Linked' <=> t \in Linked
  BY DEF SameRecords, Linked
<1>2. RingType'
  BY DEF RingInv, RingType, ringVars
<1>3. NewInv'
  BY DEF RingInv, NewInv, SameRecords, ringVars, InPs, PcInv, Undamaged
<1>4. CircleInv'
  <2> SUFFICES ASSUME Undamaged PROVE CircleInv'
    BY DEF CircleInv, ringVars, Undamaged
  <2>1. PICK n, s : /\ Circle(n, s)
                    /\ damage = {} /\ InPs => Listing(n, s)
    BY DEF RingInv, CircleInv
  <2>2. Circle(n, s)'
    BY <1>1, <2>1 DEF Circle, CircleOf, ringVars
  <2>3. (damage = {} /\ InPs => Listing(n, s))'
    BY <2>1 DEF Listing, ringVars, InPs
  <2>4. last_inserted' \in Linked'
    BY <1>1 DEF RingInv, CircleInv, ringVars
  <2> QED
    BY <2>2, <2>3, <2>4 DEF CircleInv
<1> QED
  BY <1>2, <1>3, <1>4 DEF RingInv

LEMMA ShellTask == Shell \in Task \ {Reaper}
  BY TaskAssumption

\* The CPU is given to a task and taken from it.
LEMMA ScheduleSame ==
    ASSUME IndInv, schedule
    PROVE  SameRecords
<1>1. CASE schedule_dispatch
  <2>1. Head(queue) \in Task /\ InQueue(Head(queue), queue)
    BY <1>1, TailQueue DEF IndInv, TypeOK, schedule_dispatch
  <2>2. state[Head(queue)] = "READY"
    BY <2>1 DEF IndInv, QueuesMatchStates
  <2> QED
    BY <1>1, <2>1, <2>2 DEF IndInv, TypeOK, PcInv, schedule_dispatch, SameRecords
<1>2. CASE schedule_requeue
  BY <1>2 DEF IndInv, TypeOK, PcInv, CpuInv, schedule_requeue, SameRecords
<1>3. CASE schedule_bury
  BY <1>3, TaskAssumption DEF IndInv, TypeOK, PcInv, CpuInv, schedule_bury, SameRecords
<1>4. CASE schedule_leave
  BY <1>4 DEF IndInv, TypeOK, PcInv, schedule_leave, SameRecords
<1> QED
  BY <1>1, <1>2, <1>3, <1>4 DEF schedule

\* Ticks, exits, the publication of a task, and the reaper without a corpse.
LEMMA TaskSame ==
    ASSUME IndInv,
           \/ \E t \in Task : timer_isr(t) \/ thread_exit(t) \/ thread_exit_yield(t)
           \/ create_task_ready \/ reaper_cli \/ reaper_block \/ reaper_yield
    PROVE  SameRecords
<1>0. Shell \in Task \ {Reaper} /\ Shell \in Immortal
  BY TaskAssumption DEF IndInv, PcInv
<1>1. CASE \E t \in Task : timer_isr(t) \/ thread_exit_yield(t)
  BY <1>0, <1>1 DEF IndInv, PcInv, timer_isr, thread_exit_yield, SameRecords
<1>2. CASE \E t \in Task : thread_exit(t)
  BY <1>0, <1>2 DEF IndInv, TypeOK, PcInv, CpuInv, Running, thread_exit, SameRecords
<1>3. CASE create_task_ready
  BY <1>0, <1>3 DEF IndInv, TypeOK, PcInv, create_task_ready, SameRecords
<1>4. CASE reaper_cli
  BY <1>0, <1>4 DEF IndInv, TypeOK, PcInv, reaper_cli, SameRecords
<1>5. CASE reaper_block
  BY <1>0, <1>5, TaskAssumption DEF IndInv, TypeOK, PcInv, reaper_block, SameRecords
<1>6. CASE reaper_yield
  BY <1>0, <1>6 DEF IndInv, TypeOK, PcInv, reaper_yield, SameRecords
<1> QED
  BY <1>1, <1>2, <1>3, <1>4, <1>5, <1>6

\* The mutex.
LEMMA LockSame ==
    ASSUME IndInv, NEW t \in LockUser, LockStep(t)
    PROVE  SameRecords
<1>0. t \in Task /\ t # Shell
  BY LockAssumption
<1>1. CASE mutex_sleep(t) /\ Running(t)
  BY <1>0, <1>1 DEF IndInv, TypeOK, PcInv, CpuInv, Running, mutex_sleep, SameRecords
<1>2. CASE mutex_take(t)
  BY <1>0, <1>2 DEF IndInv, TypeOK, PcInv, mutex_take, SameRecords
<1>3. CASE mutex_unlock(t) /\ waitq # <<>>
  <2>1. Head(waitq) \in Task /\ InQueue(Head(waitq), waitq)
    BY <1>3, TailQueue DEF IndInv, TypeOK
  <2>2. state[Head(waitq)] = "BLOCKED"
    BY <2>1 DEF IndInv, QueuesMatchStates
  <2> QED
    BY <1>0, <1>3, <2>1, <2>2 DEF IndInv, TypeOK, PcInv, mutex_unlock, SameRecords
<1>4. CASE mutex_unlock(t) /\ waitq = <<>>
  <2>1. UNCHANGED <<state, new_task>> /\ pc' = [pc EXCEPT ![t] = "run"]
    BY <1>4 DEF mutex_unlock, Waiting
  <2>2. pc'[Shell] = pc[Shell]
    BY <1>0, <2>1, ShellTask DEF IndInv, TypeOK
  <2> QED
    BY <2>1, <2>2 DEF IndInv, PcInv, SameRecords
<1> QED
  BY <1>1, <1>2, <1>3, <1>4 DEF LockStep, mutex_lock, mutex_lock_resume

LEMMA ElsewhereStep ==
    ASSUME IndInv, RingInv, Elsewhere, UNCHANGED ringVars
    PROVE  RingInv'
<1>1. SameRecords
  BY ScheduleSame, TaskSame, LockSame DEF Elsewhere
<1> QED
  BY <1>1, SameRing DEF IndInv

-----------------------------------------------------------------------------
(* Insertion in a circle and removal from it                                *)

LEMMA StoreType ==
    ASSUME NEW f \in [Task -> Task \cup {NoTask}],
           NEW t \in Task \cup {NoTask}, NEW v \in Task \cup {NoTask}
    PROVE  Store(f, t, v) \in [Task -> Task \cup {NoTask}]
  BY DEF Store

\* insert_task puts a new record behind one of the circle.
LEMMA InsertCircle ==
    ASSUME NEW L, NEW n, NEW s,
           NEW nx \in [Task -> Task \cup {NoTask}],
           NEW pv \in [Task -> Task \cup {NoTask}],
           CircleOf(L, nx, pv, n, s),
           NEW last \in L, NEW t \in Task \ L
    PROVE  LET l == InsertLinks(nx, pv, last, t)
           IN  \E r : CircleOf(L \cup {t}, l.next, l.prev, n + 1, r)
<1> DEFINE l == InsertLinks(nx, pv, last, t)
<1>1. /\ n \in Nat \ {0}
      /\ s \in [0..(n - 1) -> Task]
      /\ \A i, j \in 0..(n - 1) : s[i] = s[j] => i = j
      /\ \A u : u \in L <=> \E i \in 0..(n - 1) : s[i] = u
      /\ s[0] = Shell
      /\ \A i \in 0..(n - 2) : nx[s[i]] = s[i + 1] /\ pv[s[i + 1]] = s[i]
      /\ nx[s[n - 1]] = s[0] /\ pv[s[0]] = s[n - 1]
  BY DEF CircleOf
<1>2. PICK m \in 0..(n - 1) : s[m] = last
  BY <1>1
<1>3. last \in Task /\ last # t /\ nx[last] \in Task /\ nx[last] # t
  BY <1>1, <1>2
<1>4. /\ l.next = [nx EXCEPT ![t] = nx[last], ![last] = t]
      /\ l.prev = [pv EXCEPT ![t] = last, ![nx[last]] = t]
  BY <1>3, TaskAssumption DEF InsertLinks, Store
<1>5. /\ l.next[t] = nx[last] /\ l.next[last] = t
      /\ \A u \in Task \ {t, last} : l.next[u] = nx[u]
      /\ l.prev[t] = last /\ l.prev[nx[last]] = t
      /\ \A u \in Task \ {t, nx[last]} : l.prev[u] = pv[u]
  BY <1>3, <1>4
<1> DEFINE r == [i \in 0..n |-> IF i <= m THEN s[i] ELSE IF i = m + 1 THEN t ELSE s[i - 1]]
<1>6. /\ r \in [0..((n + 1) - 1) -> Task]
      /\ r[0] = Shell
      /\ \A i \in 0..m : r[i] = s[i]
      /\ r[m + 1] = t
      /\ \A i \in (m + 2)..n : r[i] = s[i - 1]
  BY <1>1
<1> HIDE DEF l, r
<1>7. \A i, j \in 0..((n + 1) - 1) : r[i] = r[j] => i = j
  <2>1. \A i \in 0..n : r[i] = t => i = m + 1
    BY <1>1, <1>6
  <2> QED
    BY <1>1, <1>6, <2>1
<1>8. \A u : u \in L \cup {t} <=> \E i \in 0..((n + 1) - 1) : r[i] = u
  <2>1. ASSUME NEW i \in 0..(n - 1)
        PROVE  \E k \in 0..n : r[k] = s[i]
    <3>1. CASE i <= m
      BY <1>1, <1>6, <3>1
    <3>2. CASE i > m
      <4>1. i + 1 \in (m + 2)..n /\ (i + 1) - 1 = i
        BY <1>1, <3>2
      <4>2. r[i + 1] = s[i] /\ i + 1 \in 0..n
        BY <1>1, <1>6, <4>1
      <4> QED
        BY <4>2
    <3> QED
      BY <3>1, <3>2
  <2>2. \E k \in 0..n : r[k] = t
    BY <1>1, <1>6
  <2>3. \A i \in 0..n : r[i] \in L \cup {t}
    BY <1>1, <1>6
  <2>4. ASSUME NEW u \in L \cup {t}
        PROVE  \E i \in 0..n : r[i] = u
    BY <1>1, <2>1, <2>2
  <2>5. (n + 1) - 1 = n
    BY <1>1
  <2> QED
    BY <2>3, <2>4, <2>5
<1>9. ASSUME NEW i \in 0..((n + 1) - 2)
      PROVE  l.next[r[i]] = r[i + 1] /\ l.prev[r[i + 1]] = r[i]
  <2>1. CASE i < m
    <3>1. r[i] = s[i] /\ r[i + 1] = s[i + 1] /\ i \in 0..(n - 2) /\ s[i] # last
      BY <1>1, <1>2, <1>6, <2>1
    <3>2. s[i + 1] # nx[last]
      BY <1>1, <1>2, <2>1
    <3> QED
      BY <1>1, <1>5, <3>1, <3>2
  <2>2. CASE i = m
    BY <1>1, <1>2, <1>5, <1>6, <2>2
  <2>3. CASE i = m + 1
    <3>1. r[i] = t /\ r[i + 1] = s[m + 1] /\ m \in 0..(n - 2)
      BY <1>1, <1>6, <2>3
    <3> QED
      BY <1>1, <1>2, <1>5, <3>1
  <2>4. CASE i > m + 1
    <3>1. /\ r[i] = s[i - 1] /\ r[i + 1] = s[i] /\ i - 1 \in 0..(n - 2)
          /\ (i - 1) + 1 = i /\ s[i - 1] # last
      BY <1>1, <1>2, <1>6, <2>4
    <3>2. s[i] # nx[last]
      BY <1>1, <1>2, <2>4
    <3> QED
      BY <1>1, <1>5, <3>1, <3>2
  <2> QED
    BY <2>1, <2>2, <2>3, <2>4
<1>10. l.next[r[n]] = r[0] /\ l.prev[r[0]] = r[n]
  <2>1. CASE m = n - 1
    BY <1>1, <1>2, <1>5, <1>6, <2>1
  <2>2. CASE m < n - 1
    <3>1. r[n] = s[n - 1] /\ s[n - 1] # last /\ r[0] = s[0]
      BY <1>1, <1>2, <1>6, <2>2
    <3>2. nx[last] = s[m + 1] /\ s[m + 1] # s[0]
      BY <1>1, <1>2, <2>2
    <3> QED
      BY <1>1, <1>5, <3>1, <3>2
  <2> QED
    BY <1>1, <2>1, <2>2
<1>11. CircleOf(L \cup {t}, l.next, l.prev, n + 1, r)
  BY <1>1, <1>6, <1>7, <1>8, <1>9, <1>10 DEF CircleOf
<1> QED
  BY <1>11 DEF l

\* The links after the removal of t, and the list without its member m.
UnlinkNext(nx, pv, t) == Store(Store(nx, pv[t], nx[t]), t, NoTask)

UnlinkPrev(nx, pv, t) == Store(Store(pv, nx[t], pv[t]), t, NoTask)

Without(n, s, m) == [i \in 0..(n - 2) |-> IF i < m THEN s[i] ELSE s[i + 1]]

\* remove_task_from_circular_list takes a record other than the shell's out.
\* Those that are left keep their order.
LEMMA RemoveCircle ==
    ASSUME NEW L, NEW n, NEW s,
           NEW nx \in [Task -> Task \cup {NoTask}],
           NEW pv \in [Task -> Task \cup {NoTask}],
           CircleOf(L, nx, pv, n, s),
           NEW m \in 1..(n - 1)
    PROVE  CircleOf(L \ {s[m]}, UnlinkNext(nx, pv, s[m]), UnlinkPrev(nx, pv, s[m]),
                    n - 1, Without(n, s, m))
<1> DEFINE t  == s[m]
           n1 == UnlinkNext(nx, pv, t)
           p1 == UnlinkPrev(nx, pv, t)
           r  == Without(n, s, m)
<1>1. /\ n \in Nat \ {0}
      /\ s \in [0..(n - 1) -> Task]
      /\ \A i, j \in 0..(n - 1) : s[i] = s[j] => i = j
      /\ \A u : u \in L <=> \E i \in 0..(n - 1) : s[i] = u
      /\ s[0] = Shell
      /\ \A i \in 0..(n - 2) : nx[s[i]] = s[i + 1] /\ pv[s[i + 1]] = s[i]
      /\ nx[s[n - 1]] = s[0] /\ pv[s[0]] = s[n - 1]
  BY DEF CircleOf
<1>2. m \in 0..(n - 1) /\ m - 1 \in 0..(n - 2) /\ (m - 1) + 1 = m /\ n - 1 \in Nat \ {0}
  BY <1>1
<1>3. t \in Task /\ pv[t] = s[m - 1] /\ pv[t] \in Task /\ pv[t] # t
  BY <1>1, <1>2
<1>4. nx[t] = (IF m = n - 1 THEN s[0] ELSE s[m + 1]) /\ nx[t] \in Task /\ nx[t] # t
  BY <1>1, <1>2
<1>5. /\ n1 = [nx EXCEPT ![pv[t]] = nx[t], ![t] = NoTask]
      /\ p1 = [pv EXCEPT ![nx[t]] = pv[t], ![t] = NoTask]
  <2> HIDE DEF t
  <2> QED
    BY <1>3, <1>4, TaskAssumption DEF UnlinkNext, UnlinkPrev, Store
<1>6. /\ n1[pv[t]] = nx[t]
      /\ \A u \in Task \ {t, pv[t]} : n1[u] = nx[u]
      /\ p1[nx[t]] = pv[t]
      /\ \A u \in Task \ {t, nx[t]} : p1[u] = pv[u]
  <2> HIDE DEF t, n1, p1
  <2> QED
    BY <1>3, <1>4, <1>5
<1>7. /\ r \in [0..((n - 1) - 1) -> Task]
      /\ r[0] = Shell
      /\ \A i \in 0..(m - 1) : r[i] = s[i]
      /\ \A i \in m..(n - 2) : r[i] = s[i + 1]
  BY <1>1, <1>2 DEF Without
<1>8. \A i \in 0..(n - 1) : s[i] = t => i = m
  BY <1>1, <1>2
<1> HIDE DEF t, n1, p1, r
<1>9. \A i, j \in 0..((n - 1) - 1) : r[i] = r[j] => i = j
  <2> DEFINE old(i) == IF i < m THEN i ELSE i + 1
  <2>1. ASSUME NEW i \in 0..((n - 1) - 1)
        PROVE  i \in Int /\ old(i) \in 0..(n - 1) /\ r[i] = s[old(i)]
    <3>1. CASE i < m
      BY <1>1, <1>2, <1>7, <3>1
    <3>2. CASE i >= m
      BY <1>1, <1>2, <1>7, <3>2
    <3> QED
      BY <1>1, <1>2, <3>1, <3>2
  <2>2. ASSUME NEW i \in 0..((n - 1) - 1), NEW j \in 0..((n - 1) - 1), r[i] = r[j]
        PROVE  i = j
    <3>1. i \in Int /\ j \in Int /\ m \in Int
      BY <1>2, <2>1
    <3>2. old(i) = old(j)
      <4> HIDE DEF old
      <4> QED
        BY <1>1, <2>1, <2>2
    <3> QED
      BY <3>1, <3>2
  <2> QED
    BY <2>2
<1>10. \A u : u \in L \ {t} <=> \E i \in 0..((n - 1) - 1) : r[i] = u
  <2>1. ASSUME NEW i \in 0..(n - 1), i # m
        PROVE  \E k \in 0..(n - 2) : r[k] = s[i]
    <3>1. CASE i < m
      BY <1>1, <1>2, <1>7, <3>1
    <3>2. CASE i > m
      <4>1. i - 1 \in m..(n - 2) /\ (i - 1) + 1 = i
        BY <1>1, <1>2, <3>2
      <4>2. r[i - 1] = s[i] /\ i - 1 \in 0..(n - 2)
        BY <1>1, <1>2, <1>7, <4>1
      <4> QED
        BY <4>2
    <3> QED
      BY <1>2, <2>1, <3>1, <3>2
  <2>2. \A i \in 0..(n - 2) : r[i] \in L \ {t}
    BY <1>1, <1>2, <1>7, <1>8
  <2>3. ASSUME NEW u \in L \ {t}
        PROVE  \E i \in 0..(n - 2) : r[i] = u
    <3>1. PICK i \in 0..(n - 1) : s[i] = u
      BY <1>1
    <3>2. i # m
      BY <3>1 DEF t
    <3> QED
      BY <2>1, <3>1, <3>2
  <2>4. (n - 1) - 1 = n - 2
    BY <1>1
  <2> QED
    BY <2>2, <2>3, <2>4
<1>11. ASSUME NEW i \in 0..((n - 1) - 2)
       PROVE  n1[r[i]] = r[i + 1] /\ p1[r[i + 1]] = r[i]
  <2>1. CASE i < m - 1
    <3>1. r[i] = s[i] /\ r[i + 1] = s[i + 1] /\ i \in 0..(n - 2)
      BY <1>1, <1>2, <1>7, <2>1
    <3>2. s[i] # t /\ s[i] # pv[t] /\ s[i + 1] # t /\ s[i + 1] # nx[t]
      BY <1>1, <1>2, <1>3, <1>4, <1>8, <2>1
    <3> QED
      BY <1>1, <1>6, <3>1, <3>2
  <2>2. CASE i = m - 1
    <3>1. r[i] = pv[t] /\ r[i + 1] = nx[t]
      BY <1>1, <1>2, <1>3, <1>4, <1>7, <2>2
    <3> QED
      BY <1>6, <3>1
  <2>3. CASE i > m - 1
    <3>1. r[i] = s[i + 1] /\ r[i + 1] = s[i + 2] /\ i + 1 \in 0..(n - 2) /\ (i + 1) + 1 = i + 2
      BY <1>1, <1>2, <1>7, <2>3
    <3>2. s[i + 1] # t /\ s[i + 1] # pv[t] /\ s[i + 2] # t /\ s[i + 2] # nx[t]
      BY <1>1, <1>2, <1>3, <1>4, <1>8, <2>3
    <3> QED
      BY <1>1, <1>6, <3>1, <3>2
  <2> QED
    BY <1>2, <2>1, <2>2, <2>3
<1>12. n1[r[n - 2]] = r[0] /\ p1[r[0]] = r[n - 2]
  <2>1. CASE m = n - 1
    <3>1. r[n - 2] = pv[t] /\ r[0] = nx[t]
      BY <1>1, <1>2, <1>3, <1>4, <1>7, <2>1
    <3> QED
      BY <1>6, <3>1
  <2>2. CASE m < n - 1
    <3>1. r[n - 2] = s[n - 1] /\ r[0] = s[0]
      BY <1>1, <1>2, <1>7, <2>2
    <3>2. s[n - 1] # t /\ s[n - 1] # pv[t] /\ s[0] # t /\ s[0] # nx[t]
      BY <1>1, <1>2, <1>3, <1>4, <1>8, <2>2
    <3> QED
      BY <1>1, <1>6, <3>1, <3>2
  <2> QED
    BY <1>1, <1>2, <2>1, <2>2
<1>13. (n - 1) - 1 = n - 2
  BY <1>1
<1>14. CircleOf(L \ {t}, n1, p1, n - 1, r)
  BY <1>2, <1>7, <1>9, <1>10, <1>11, <1>12, <1>13 DEF CircleOf
<1> QED
  BY <1>14 DEF t, n1, p1, r

-----------------------------------------------------------------------------
(* Steps that change the ring                                              *)

\* A new record is not in the ring before and after it is cleared.
LEMMA ClearedStep ==
    ASSUME IndInv, RingInv, NEW t \in Task, create_cleared(t)
    PROVE  RingInv'
<1>1. /\ Shell \in Task /\ t # Shell /\ t # Reaper
      /\ pc'[Shell] = "create" /\ new_task' = t /\ state'[t] = "BLOCKED"
      /\ \A u \in Task \ {t} : state'[u] = state[u]
      /\ state[t] = "UNUSED" /\ new_task = NoTask
      /\ UNCHANGED <<last_inserted, spawnpoint, seen, damage>>
      /\ damage = {} /\ ~InPs
  BY TaskAssumption, ShellTask DEF IndInv, TypeOK, PcInv, RingInv, NewInv, create_cleared,
     create_task_alloc, ClearedState, Followed
<1>2. Linked' = Linked
  BY <1>1, TaskAssumption DEF Linked
<1>3. RingType'
  BY <1>1 DEF RingInv, RingType, create_cleared
<1>4. NewInv'
  BY <1>1 DEF NewInv, InPs
<1>5. CircleInv'
  <2>1. PICK n, s : Circle(n, s)
    BY <1>1 DEF RingInv, CircleInv, Undamaged
  <2>2. \A u \in Linked : next'[u] = next[u] /\ prev'[u] = prev[u]
    BY <1>1 DEF Linked, create_cleared, RingInv, RingType
  <2>3. Circle(n, s)'
    <3>1. /\ n \in Nat \ {0} /\ s[0] = Shell
          /\ \A i \in 0..(n - 1) : s[i] \in Linked
      BY <2>1 DEF Circle, CircleOf
    <3>2. /\ 0 \in 0..(n - 1) /\ n - 1 \in 0..(n - 1)
          /\ \A i \in 0..(n - 2) : i \in 0..(n - 1) /\ i + 1 \in 0..(n - 1)
      BY <3>1
    <3>3. \A i \in 0..(n - 1) : next'[s[i]] = next[s[i]] /\ prev'[s[i]] = prev[s[i]]
      BY <2>2, <3>1
    <3>4. \A i \in 0..(n - 2) : next'[s[i]] = s[i + 1] /\ prev'[s[i + 1]] = s[i]
      BY <2>1, <3>2, <3>3 DEF Circle, CircleOf
    <3>5. next'[s[n - 1]] = s[0] /\ prev'[s[0]] = s[n - 1]
      BY <2>1, <3>2, <3>3 DEF Circle, CircleOf
    <3> QED
      BY <1>2, <2>1, <3>4, <3>5 DEF Circle, CircleOf
  <2>4. last_inserted' \in Linked'
    BY <1>1, <1>2 DEF RingInv, CircleInv, Undamaged
  <2> QED
    BY <1>1, <2>3, <2>4 DEF CircleInv, InPs
<1> QED
  BY <1>3, <1>4, <1>5 DEF RingInv

\* insert_task, unless the record was reaped already, makes the circle longer.
LEMMA LinkedStep ==
    ASSUME IndInv, RingInv, create_linked
    PROVE  RingInv'
<1>1. /\ Shell \in Task
      /\ pc[Shell] = "insert" /\ pc'[Shell] = "run" /\ new_task' = NoTask
      /\ state' = state /\ new_task \in Task \ {Reaper, Shell}
      /\ UNCHANGED <<spawnpoint, seen, damage>>
      /\ ~InPs /\ last_inserted' = new_task
  BY ShellTask DEF IndInv, TypeOK, PcInv, RingInv, NewInv, create_linked,
     create_task_insert, insert_task
<1>2. RingType'
  <2>1. CASE last_inserted = NoTask
    BY <1>1, <2>1 DEF RingInv, RingType, create_linked, insert_task, Store
  <2>2. CASE last_inserted # NoTask
    BY <1>1, <2>2 DEF RingInv, RingType, create_linked, insert_task, InsertLinks, Store
  <2> QED
    BY <2>1, <2>2
<1>3. NewInv'
  BY <1>1 DEF NewInv, InPs
<1>4. CircleInv'
  <2> SUFFICES ASSUME Undamaged PROVE CircleInv'
    BY <1>1 DEF CircleInv, Undamaged
  <2>1. PICK n, s : Circle(n, s)
    BY DEF RingInv, CircleInv
  <2>2. Linked' = Linked \cup {new_task} /\ new_task \in Task \ Linked
    BY <1>1, TaskAssumption DEF Linked, RingInv, NewInv
  <2>3. last_inserted \in Linked /\ last_inserted # NoTask
    BY TaskAssumption DEF RingInv, CircleInv, Linked
  <2> DEFINE l == InsertLinks(next, prev, last_inserted, new_task)
  <2>4. next' = l.next /\ prev' = l.prev
    BY <2>3 DEF create_linked, insert_task
  <2>5. \E r : CircleOf(Linked \cup {new_task}, l.next, l.prev, n + 1, r)
    BY <2>1, <2>2, <2>3, InsertCircle DEF Circle, RingInv, RingType
  <2>6. PICK r : CircleOf(Linked', next', prev', n + 1, r)
    BY <2>2, <2>4, <2>5
  <2>7. Circle(n + 1, r)'
    BY <2>6 DEF Circle
  <2> QED
    BY <1>1, <2>2, <2>7 DEF CircleInv, InPs
<1> QED
  BY <1>2, <1>3, <1>4 DEF RingInv

\* The reaper takes a record out of the circle.  The place of ps in it is kept,
\* unless ps stands on that record.
LEMMA ReapedStep ==
    ASSUME IndInv, RingInv, reap_unlinked
    PROVE  RingInv'
<1>1. dead_q # <<>> /\ dead_q \in Seq(Task)
  BY DEF IndInv, TypeOK, reap_unlinked, reaper_reap
<1>2. PICK t \in Task : t = Head(dead_q) /\ state[t] = "DEAD"
  BY <1>1, TailQueue DEF IndInv, QueuesMatchStates
<1>3. t # Shell /\ t # Reaper /\ Shell # Reaper /\ Shell \in Task
  BY <1>2, ShellTask DEF IndInv, PcInv
<1>4. /\ state'[t] = "UNUSED" /\ \A u \in Task \ {t} : state'[u] = state[u]
      /\ pc'[Shell] = pc[Shell]
      /\ UNCHANGED <<new_task, spawnpoint, seen>>
      /\ damage' = damage
           \cup (IF t = new_task THEN {"not yet linked"} ELSE {})
           \cup (IF t = spawnpoint THEN {"under ps"} ELSE {})
      /\ remove_task_from_circular_list(t)
  BY <1>2, <1>3, TaskAssumption DEF IndInv, TypeOK, reap_unlinked, reaper_reap
<1>5. RingType'
  <2>1. /\ next \in [Task -> Task \cup {NoTask}] /\ prev \in [Task -> Task \cup {NoTask}]
        /\ last_inserted \in Task \cup {NoTask}
        /\ next[t] \in Task \cup {NoTask} /\ prev[t] \in Task \cup {NoTask}
    BY <1>2 DEF RingInv, RingType
  <2>2. /\ Store(Store(next, prev[t], next[t]), t, NoTask) \in [Task -> Task \cup {NoTask}]
        /\ Store(Store(prev, next[t], prev[t]), t, NoTask) \in [Task -> Task \cup {NoTask}]
        /\ Store(next, t, NoTask) \in [Task -> Task \cup {NoTask}]
        /\ Store(prev, t, NoTask) \in [Task -> Task \cup {NoTask}]
    BY <1>2, <2>1, StoreType
  <2> QED
    BY <1>4, <2>1, <2>2 DEF RingType, remove_task_from_circular_list, Survivor
<1>6. NewInv'
  BY <1>2, <1>4 DEF RingInv, NewInv, InPs, Undamaged
<1>7. CircleInv'
  <2> SUFFICES ASSUME Undamaged' PROVE CircleInv'
    BY DEF CircleInv
  <2>1. t # new_task /\ Undamaged
    BY <1>4 DEF Undamaged
  <2>2. t \in Linked /\ Linked' = Linked \ {t}
    BY <1>2, <1>4, <2>1 DEF Linked
  <2>3. PICK n, s : /\ Circle(n, s)
                    /\ damage = {} /\ InPs => Listing(n, s)
    BY <2>1 DEF RingInv, CircleInv
  <2>4. PICK m \in 0..(n - 1) : s[m] = t
    BY <2>2, <2>3 DEF Circle, CircleOf
  <2>5. n \in Nat \ {0} /\ s[0] = Shell
    BY <2>3 DEF Circle, CircleOf
  <2>6. m \in 1..(n - 1)
    BY <1>3, <2>4, <2>5
  <2>12. next[t] # t /\ next[t] \in Linked
    <3>1. /\ \A i, j \in 0..(n - 1) : s[i] = s[j] => i = j
          /\ \A u : u \in Linked <=> \E i \in 0..(n - 1) : s[i] = u
          /\ \A i \in 0..(n - 2) : next[s[i]] = s[i + 1]
          /\ next[s[n - 1]] = s[0]
      BY <2>3 DEF Circle, CircleOf
    <3>2. CASE m = n - 1
      BY <2>4, <2>5, <2>6, <3>1, <3>2
    <3>3. CASE m # n - 1
      <4>1. m \in 0..(n - 2) /\ m + 1 \in 0..(n - 1) /\ m \in 0..(n - 1)
        BY <2>5, <2>6, <3>3
      <4>2. next[t] = s[m + 1] /\ s[m + 1] # s[m]
        BY <2>4, <3>1, <4>1
      <4> QED
        BY <2>4, <3>1, <4>1, <4>2
    <3> QED
      BY <3>2, <3>3
  <2>7. /\ last_inserted' = Survivor(t)
        /\ next' = UnlinkNext(next, prev, t)
        /\ prev' = UnlinkPrev(next, prev, t)
    BY <1>4, <2>12 DEF remove_task_from_circular_list, UnlinkNext, UnlinkPrev
  <2>8. last_inserted' \in Linked'
    BY <2>1, <2>2, <2>12, <2>7 DEF RingInv, CircleInv, Survivor
  <2> DEFINE r == Without(n, s, m)
  <2>9. CircleOf(Linked', next', prev', n - 1, r)
    <3>1. CircleOf(Linked, next, prev, n, s)
      BY <2>3 DEF Circle
    <3>2. next \in [Task -> Task \cup {NoTask}] /\ prev \in [Task -> Task \cup {NoTask}]
      BY DEF RingInv, RingType
    <3>3. CircleOf(Linked \ {s[m]}, UnlinkNext(next, prev, s[m]),
                   UnlinkPrev(next, prev, s[m]), n - 1, r)
      BY <2>6, <3>1, <3>2, RemoveCircle
    <3> QED
      BY <2>2, <2>4, <2>7, <3>3
  <2>10. Circle(n - 1, r)'
    BY <2>9 DEF Circle
  <2>11. ASSUME damage' = {}, InPs'
         PROVE  Listing(n - 1, r)'
    <3>1. damage = {} /\ InPs /\ t # spawnpoint
      BY <1>4, <2>11 DEF InPs
    <3>2. PICK j \in 0..(n - 1) :
              spawnpoint = s[j] /\ \A i \in 0..(j - 1) : s[i] \in seen
      BY <2>3, <3>1 DEF Listing
    <3>3. n \in Nat \ {0} /\ j # m
      BY <2>3, <2>4, <3>1, <3>2 DEF Circle, CircleOf
    <3> DEFINE k == IF m < j THEN j - 1 ELSE j
    <3>4. k \in 0..((n - 1) - 1) /\ r[k] = spawnpoint
      BY <2>6, <3>2, <3>3 DEF Without
    <3>5. \A i \in 0..(k - 1) : r[i] \in seen
      BY <2>6, <3>2, <3>3 DEF Without
    <3> QED
      BY <1>4, <3>4, <3>5 DEF Listing
  <2> QED
    BY <2>8, <2>10, <2>11 DEF CircleInv
<1> QED
  BY <1>5, <1>6, <1>7 DEF RingInv

\* ps starts at the shell's own record.
LEMMA PsStartStep ==
    ASSUME IndInv, RingInv, cmd_ps
    PROVE  RingInv'
<1>1. /\ UNCHANGED <<state, pc, new_task, next, prev, last_inserted, damage>>
      /\ spawnpoint' = Shell /\ pc[Shell] = "run" /\ damage = {}
  BY DEF cmd_ps, vars, Running, Followed
<1>2. Linked' = Linked
  BY <1>1 DEF Linked
<1>3. RingType' /\ NewInv'
  BY <1>1 DEF RingInv, RingType, Undamaged, NewInv
<1>4. PICK n, s : Circle(n, s)
  BY <1>1 DEF RingInv, CircleInv, Undamaged
<1>5. Circle(n, s)'
  BY <1>1, <1>2, <1>4 DEF Circle
<1>6. Listing(n, s)'
  BY <1>1, <1>4 DEF Listing, Circle, CircleOf
<1>7. last_inserted' \in Linked'
  BY <1>1, <1>2 DEF RingInv, CircleInv, Undamaged
<1> QED
  BY <1>3, <1>5, <1>6, <1>7 DEF RingInv, CircleInv

\* ps goes one record on, or has come round.
LEMMA PsListStep ==
    ASSUME IndInv, RingInv, scheduler_list_tasks
    PROVE  RingInv' /\ (spawnpoint' = NoTask /\ damage = {} => Linked \subseteq seen')
<1>1. /\ UNCHANGED <<state, pc, new_task, next, prev, last_inserted, damage>>
      /\ seen' = seen \cup {spawnpoint} /\ current_task = Shell /\ InPs
      /\ spawnpoint' = CASE next[spawnpoint] = Shell -> NoTask
                         [] next[spawnpoint] = NoTask -> Lost
                         [] OTHER -> next[spawnpoint]
  BY DEF scheduler_list_tasks, vars, Running, PsStep
<1>2. Linked' = Linked
  BY <1>1 DEF Linked
<1>3. RingType' /\ NewInv'
  BY <1>1 DEF RingInv, RingType, Undamaged, NewInv, InPs
<1>4. CASE ~Undamaged
  BY <1>1, <1>3, <1>4 DEF RingInv, CircleInv, Undamaged
<1>5. CASE Undamaged
  <2>1. PICK n, s : /\ Circle(n, s)
                    /\ damage = {} /\ InPs => Listing(n, s)
    BY <1>5 DEF RingInv, CircleInv
  <2>2. Circle(n, s)'
    BY <1>1, <1>2, <2>1 DEF Circle
  <2>3. last_inserted' \in Linked'
    BY <1>1, <1>2, <1>5 DEF RingInv, CircleInv
  <2>4. CASE damage # {}
    BY <1>1, <1>3, <2>2, <2>3, <2>4 DEF RingInv, CircleInv
  <2>5. CASE damage = {}
    <3>1. PICK j \in 0..(n - 1) :
              spawnpoint = s[j] /\ \A i \in 0..(j - 1) : s[i] \in seen
      BY <1>1, <2>1, <2>5 DEF Listing
    <3>2. \A i \in 0..j : s[i] \in seen'
      BY <1>1, <2>1, <3>1 DEF Circle, CircleOf
    <3>3. CASE j = n - 1
      <4>1. next[spawnpoint] = Shell
        BY <2>1, <3>1, <3>3 DEF Circle, CircleOf
      <4>3. spawnpoint' = NoTask
        BY <1>1, <4>1, ShellTask, TaskAssumption
      <4>2. Linked \subseteq seen'
        BY <2>1, <3>2, <3>3 DEF Circle, CircleOf
      <4> QED
        BY <1>3, <2>2, <2>3, <4>3, <4>2 DEF RingInv, CircleInv, InPs
    <3>4. CASE j < n - 1
      <4>1. /\ j \in 0..(n - 2) /\ j + 1 \in 0..(n - 1) /\ (j + 1) - 1 = j
            /\ next[spawnpoint] = s[j + 1] /\ s[j + 1] # Shell /\ s[j + 1] \in Task
        BY <2>1, <3>1, <3>4 DEF Circle, CircleOf
      <4>2. spawnpoint' = s[j + 1] /\ spawnpoint' # NoTask
        BY <1>1, <4>1, TaskAssumption
      <4>3. Listing(n, s)'
        BY <3>2, <4>1, <4>2 DEF Listing
      <4> QED
        BY <1>3, <2>2, <2>3, <4>2, <4>3 DEF RingInv, CircleInv
    <3> QED
      BY <2>1, <3>1, <3>3, <3>4 DEF Circle, CircleOf
  <2> QED
    BY <2>4, <2>5
<1> QED
  BY <1>4, <1>5

-----------------------------------------------------------------------------
(* The ring that kmain leaves, and the invariant                            *)

\* The records kmain has inserted, from the reaper on.
LEMMA BootRing ==
    /\ Ring \in Seq(Task)
    /\ Len(Ring) = Len(Boot) + 1 /\ Len(Boot) \in Nat
    /\ \A i, j \in 1..Len(Ring) : Ring[i] = Ring[j] => i = j
    /\ \A t : t \in {Reaper} \cup BootTasks <=> \E i \in 1..Len(Ring) : Ring[i] = t
    /\ \E p \in 2..Len(Ring) : Ring[p] = Shell
<1>1. /\ Boot \in Seq(Task \ {Reaper}) /\ Len(Boot) \in Nat
      /\ \A i \in 1..Len(Boot) : Boot[i] \in Task \ {Reaper}
  BY TaskAssumption
<1>2. <<Reaper>> \in Seq(Task) /\ Boot \in Seq(Task)
  BY <1>1, TaskAssumption
<1>3. /\ Ring \in Seq(Task)
      /\ Len(Ring) = Len(Boot) + 1
      /\ Ring[1] = Reaper
      /\ \A i \in 2..Len(Ring) : Ring[i] = Boot[i - 1]
  BY <1>1, <1>2 DEF Ring
<1>4. \A i, j \in 1..Len(Ring) : Ring[i] = Ring[j] => i = j
  <2>1. \A i, j \in 1..Len(Boot) : Boot[i] = Boot[j] => i = j
    BY TaskAssumption
  <2>2. \A i \in 2..Len(Ring) : i - 1 \in 1..Len(Boot) /\ Ring[i] # Reaper
    BY <1>1, <1>3
  <2>3. ASSUME NEW i \in 1..Len(Ring), NEW j \in 1..Len(Ring), Ring[i] = Ring[j]
        PROVE  i = j
    <3>1. CASE i = 1 \/ j = 1
      <4>1. i = 1 /\ j = 1
        BY <1>1, <1>3, <2>2, <2>3, <3>1
      <4> QED
        BY <4>1
    <3>2. CASE i # 1 /\ j # 1
      <4>1. i \in 2..Len(Ring) /\ j \in 2..Len(Ring) /\ i \in Nat /\ j \in Nat
        BY <1>1, <1>3, <3>2
      <4>2. Boot[i - 1] = Boot[j - 1]
        BY <1>3, <2>3, <4>1
      <4>3. i - 1 = j - 1
        BY <2>1, <2>2, <4>1, <4>2
      <4> QED
        BY <4>1, <4>3
    <3> QED
      BY <3>1, <3>2
  <2> QED
    BY <2>3
<1>5. ASSUME NEW k \in 1..Len(Boot)
      PROVE  k + 1 \in 2..Len(Ring) /\ Ring[k + 1] = Boot[k]
  BY <1>1, <1>3
<1>6. \A t : t \in {Reaper} \cup BootTasks <=> \E i \in 1..Len(Ring) : Ring[i] = t
  <2>1. ASSUME NEW i \in 1..Len(Ring)
        PROVE  Ring[i] \in {Reaper} \cup BootTasks
    <3>1. CASE i = 1
      BY <1>3, <3>1
    <3>2. CASE i # 1
      <4>1. i - 1 \in 1..Len(Boot) /\ Ring[i] = Boot[i - 1]
        BY <1>1, <1>3, <3>2
      <4> QED
        BY <4>1 DEF BootTasks
    <3> QED
      BY <3>1, <3>2
  <2>2. ASSUME NEW t \in {Reaper} \cup BootTasks
        PROVE  \E i \in 1..Len(Ring) : Ring[i] = t
    <3>1. CASE t = Reaper
      BY <1>1, <1>3, <3>1
    <3>2. CASE t # Reaper
      <4>1. PICK k \in 1..Len(Boot) : Boot[k] = t
        BY <3>2 DEF BootTasks
      <4>2. k + 1 \in 1..Len(Ring) /\ Ring[k + 1] = t
        BY <1>1, <1>5, <4>1
      <4> QED
        BY <4>2
    <3> QED
      BY <3>1, <3>2
  <2> QED
    BY <2>1, <2>2
<1>7. \E p \in 2..Len(Ring) : Ring[p] = Shell
  <2>1. PICK k \in 1..Len(Boot) : Boot[k] = Shell
    BY TaskAssumption
  <2> QED
    BY <1>5, <2>1
<1> QED
  BY <1>1, <1>3, <1>4, <1>6, <1>7

LEMMA RingStart == Init /\ RingInit => RingInv
<1> SUFFICES ASSUME Init, RingInit PROVE RingInv
  OBVIOUS
<1> DEFINE L == Len(Ring)
<1>1. /\ L \in Nat /\ L >= 1 /\ \A i \in 1..L : Ring[i] \in Task
      /\ \A i, j \in 1..L : Ring[i] = Ring[j] => i = j
      /\ \A t : t \in {Reaper} \cup BootTasks <=> \E i \in 1..L : Ring[i] = t
  BY BootRing
<1>2. PICK p \in 2..L : Ring[p] = Shell
  BY BootRing
<1>3. /\ state = [t \in Task |-> IF t = Reaper THEN "BLOCKED"
                                 ELSE IF t \in BootTasks THEN "READY"
                                 ELSE "UNUSED"]
      /\ new_task = NoTask /\ pc[Shell] = "run"
      /\ spawnpoint = NoTask /\ damage = {} /\ last_inserted = Ring[L]
  BY ShellTask DEF Init, SchedInit, RingInit
<1> HIDE DEF L
<1>4. \A t : t \in Linked <=> \E i \in 1..L : Ring[i] = t
  <2>1. \A t \in Task : state[t] # "UNUSED" <=> t \in {Reaper} \cup BootTasks
    BY <1>3
  <2>2. \A t \in Linked : t \in {Reaper} \cup BootTasks
    BY <2>1 DEF Linked
  <2>3. \A t \in {Reaper} \cup BootTasks : t \in Task
    BY <1>1
  <2>4. \A t \in {Reaper} \cup BootTasks : t \in Linked
    BY <1>3, <2>1, <2>3, TaskAssumption DEF Linked
  <2> QED
    BY <1>1, <2>2, <2>4
<1> DEFINE succ(i) == IF i = L THEN 1 ELSE i + 1
<1>5. \A i \in 1..L : (i % L) + 1 = succ(i)
  BY <1>1
<1>6. \A t \in Task : next[t] = IF \E i \in 1..L : Ring[i] = t
                               THEN Ring[((CHOOSE i \in 1..L : Ring[i] = t) % L) + 1]
                               ELSE NoTask
  BY DEF RingInit, L
<1>7. ASSUME NEW i \in 1..L
      PROVE  next[Ring[i]] = Ring[succ(i)]
  <2>1. (CHOOSE k \in 1..L : Ring[k] = Ring[i]) = i
    BY <1>1
  <2> QED
    <3>1. Ring[i] \in Task /\ \E k \in 1..L : Ring[k] = Ring[i]
      BY <1>1
    <3>2. next[Ring[i]] = Ring[((CHOOSE k \in 1..L : Ring[k] = Ring[i]) % L) + 1]
      BY <1>6, <3>1
    <3> QED
      BY <1>5, <2>1, <3>2
<1>8. \A t \in Task : (\A i \in 1..L : Ring[i] # t) => next[t] = NoTask
  BY <1>6
<1>9. \A i \in 1..L : succ(i) \in 1..L
  BY <1>1
<1>10. \A i, j \in 1..L : succ(i) = succ(j) => i = j
  BY <1>1
<1> HIDE DEF succ
<1>11. next \in [Task -> Task \cup {NoTask}]
  <2>1. next = [t \in Task |-> next[t]]
    BY DEF RingInit
  <2>2. ASSUME NEW t \in Task
        PROVE  next[t] \in Task \cup {NoTask}
    BY <1>1, <1>7, <1>8, <1>9
  <2> QED
    BY <2>1, <2>2
<1>12. \A t \in Task : prev[t] = IF \E u \in Task : next[u] = t
                                THEN CHOOSE u \in Task : next[u] = t
                                ELSE NoTask
  BY DEF RingInit
<1>13. ASSUME NEW i \in 1..L
       PROVE  prev[Ring[succ(i)]] = Ring[i]
  <2>1. ASSUME NEW u \in Task, next[u] = Ring[succ(i)]
        PROVE  u = Ring[i]
    <3>1. next[u] # NoTask
      BY <1>1, <1>9, <2>1, TaskAssumption
    <3>2. PICK k \in 1..L : Ring[k] = u
      BY <1>8, <3>1
    <3>3. Ring[succ(k)] = Ring[succ(i)]
      BY <1>7, <2>1, <3>2
    <3>4. k = i
      BY <1>1, <1>9, <1>10, <3>3
    <3> QED
      BY <3>2, <3>4
  <2>2. Ring[i] \in Task /\ next[Ring[i]] = Ring[succ(i)]
    BY <1>1, <1>7
  <2>3. (CHOOSE u \in Task : next[u] = Ring[succ(i)]) = Ring[i]
    BY <2>1, <2>2
  <2>4. Ring[succ(i)] \in Task
    BY <1>1, <1>9
  <2> QED
    BY <1>12, <2>2, <2>3, <2>4
<1>14. prev \in [Task -> Task \cup {NoTask}]
  <2>1. prev = [t \in Task |-> prev[t]]
    BY DEF RingInit
  <2>2. ASSUME NEW t \in Task
        PROVE  prev[t] \in Task \cup {NoTask}
    BY <1>12
  <2> QED
    BY <2>1, <2>2
<1> DEFINE at(i) == IF p + i <= L THEN p + i ELSE p + i - L
           s == [i \in 0..(L - 1) |-> Ring[at(i)]]
<1>15. /\ \A i \in 0..(L - 1) : at(i) \in 1..L
       /\ \A i, j \in 0..(L - 1) : at(i) = at(j) => i = j
       /\ \A i \in 0..(L - 2) : at(i + 1) = succ(at(i))
       /\ at(0) = succ(at(L - 1))
       /\ at(0) = p
  BY <1>1 DEF succ
<1>16. \A k \in 1..L : \E i \in 0..(L - 1) : at(i) = k
  <2> TAKE k \in 1..L
  <2>1. CASE k >= p
    <3>1. k - p \in 0..(L - 1) /\ at(k - p) = k
      BY <1>1, <2>1
    <3> QED
      BY <3>1
  <2>2. CASE k < p
    <3>1. k - p + L \in 0..(L - 1) /\ at(k - p + L) = k
      BY <1>1, <2>2
    <3> QED
      BY <3>1
  <2> QED
    BY <1>1, <2>1, <2>2
<1> HIDE DEF at
<1>17. Circle(L, s)
  <2>1. L \in Nat \ {0} /\ 0 \in 0..(L - 1) /\ L - 1 \in 0..(L - 1)
    BY <1>1
  <2>2. \A i \in 0..(L - 1) : s[i] = Ring[at(i)]
    OBVIOUS
  <2>3. \A i \in 0..(L - 2) : i \in 0..(L - 1) /\ i + 1 \in 0..(L - 1)
    BY <1>1
  <2>4. s \in [0..(L - 1) -> Task]
    BY <1>1, <1>15
  <2> HIDE DEF s
  <2>5. \A i, j \in 0..(L - 1) : s[i] = s[j] => i = j
    BY <1>1, <1>15, <2>2
  <2>6. \A t : t \in Linked <=> \E i \in 0..(L - 1) : s[i] = t
    BY <1>4, <1>15, <1>16, <2>2
  <2>7. s[0] = Shell
    BY <1>2, <1>15, <2>1, <2>2
  <2>8. \A i \in 0..(L - 2) : next[s[i]] = s[i + 1] /\ prev[s[i + 1]] = s[i]
    BY <1>7, <1>13, <1>15, <2>2, <2>3
  <2>9. next[s[L - 1]] = s[0] /\ prev[s[0]] = s[L - 1]
    BY <1>7, <1>13, <1>15, <2>1, <2>2
  <2> QED
    BY <2>1, <2>4, <2>5, <2>6, <2>7, <2>8, <2>9 DEF Circle, CircleOf
<1>18. last_inserted \in Linked
  BY <1>1, <1>3, <1>4
<1>19. RingType
  BY <1>11, <1>14, <1>18 DEF RingType, Linked
<1>20. NewInv
  BY <1>3 DEF NewInv, InPs
<1>21. CircleInv
  BY <1>3, <1>17, <1>18 DEF CircleInv, InPs
<1> QED
  BY <1>19, <1>20, <1>21 DEF RingInv

LEMMA RingStep == IndInv /\ RingInv /\ [RingNext]_allVars => RingInv'
<1> SUFFICES ASSUME IndInv, RingInv, [RingNext]_allVars PROVE RingInv'
  OBVIOUS
<1>1. CASE Elsewhere /\ UNCHANGED ringVars
  BY <1>1, ElsewhereStep
<1>2. CASE (\E n \in Task : create_cleared(n)) /\ UNCHANGED lockVars
  BY <1>2, ClearedStep
<1>3. CASE create_linked /\ UNCHANGED lockVars
  BY <1>3, LinkedStep
<1>4. CASE reap_unlinked /\ UNCHANGED lockVars
  BY <1>4, ReapedStep
<1>5. CASE cmd_ps
  BY <1>5, PsStartStep
<1>6. CASE scheduler_list_tasks
  BY <1>6, PsListStep
<1>7. CASE UNCHANGED allVars
  <2>1. SameRecords /\ UNCHANGED ringVars
    BY <1>7 DEF allVars, vars, SameRecords, IndInv, PcInv
  <2> QED
    BY <2>1, SameRing DEF IndInv
<1> QED
  BY <1>1, <1>2, <1>3, <1>4, <1>5, <1>6, <1>7 DEF RingNext

LEMMA RingInvariance == RingSpec => [](IndInv /\ RingInv)
<1>1. RingSpec => []RingInv
  BY SchedulerInv, RingStart, RingStep, PTL DEF RingSpec
<1> QED
  BY <1>1, SchedulerInv, PTL

-----------------------------------------------------------------------------
(* What Behind computes                                                    *)

\* Induction: a set with 0, and with n + 1 if with n, has all the naturals.
LEMMA NatInductiveSet ==
    ASSUME NEW S, 0 \in S, \A n \in Nat : n \in S => n + 1 \in S
    PROVE  Nat \subseteq S
<1> DEFINE T == Nat \ S
<1>1. SUFFICES ASSUME T # {} PROVE FALSE
  OBVIOUS
<1>2. PICK x \in T : \A y \in T : ~(<<y, x>> \in OpToRel(<, Nat))
  BY <1>1, WFMin, NatLessThanWellFounded
<1>3. \A y \in T : ~(y < x)
  BY <1>2 DEF OpToRel
<1>4. x # 0 /\ x \in Nat
  OBVIOUS
<1>5. x - 1 \in Nat /\ x - 1 < x
  BY <1>4
<1>6. x - 1 \in S
  BY <1>3, <1>5
<1>7. (x - 1) + 1 \in S
  BY <1>5, <1>6
<1> QED
  BY <1>4, <1>7

\* g follows k links from t on.
Follows(nx, t, k, g) ==
    g = [i \in 0..k |-> IF i = 0 THEN t ELSE Field(nx, g[i - 1])]

LEMMA FollowsExists ==
    ASSUME NEW nx, NEW t, NEW k \in Nat
    PROVE  \E g : Follows(nx, t, k, g)
<1> DEFINE S == {n \in Nat : \E g : Follows(nx, t, n, g)}
<1>1. 0 \in S
  <2> DEFINE g == [i \in 0..0 |-> t]
  <2>1. g = [i \in 0..0 |-> IF i = 0 THEN t ELSE Field(nx, g[i - 1])]
    OBVIOUS
  <2> QED
    BY <2>1 DEF Follows
<1>2. ASSUME NEW n \in Nat, n \in S
      PROVE  n + 1 \in S
  <2>1. PICK g : Follows(nx, t, n, g)
    BY <1>2
  <2>2. /\ \A i \in 0..n : g[i] = IF i = 0 THEN t ELSE Field(nx, g[i - 1])
    BY <2>1 DEF Follows
  <2> DEFINE h == [i \in 0..(n + 1) |-> IF i = n + 1 THEN Field(nx, g[n]) ELSE g[i]]
  <2>3. ASSUME NEW i \in 0..(n + 1)
        PROVE  h[i] = IF i = 0 THEN t ELSE Field(nx, h[i - 1])
    <3>1. CASE i = n + 1
      BY <3>1
    <3>2. CASE i # n + 1
      <4>1. i \in 0..n /\ h[i] = g[i] /\ (i # 0 => i - 1 \in 0..n /\ h[i - 1] = g[i - 1])
        BY <3>2
      <4> QED
        BY <2>2, <4>1
    <3> QED
      BY <3>1, <3>2
  <2>4. Follows(nx, t, n + 1, h)
    <3>1. h = [i \in 0..(n + 1) |-> h[i]]
      OBVIOUS
    <3> HIDE DEF h
    <3> QED
      BY <2>3, <3>1 DEF Follows
  <2> QED
    BY <2>4
<1>3. Nat \subseteq S
  <2> HIDE DEF S
  <2> QED
    BY <1>1, <1>2, NatInductiveSet
<1> QED
  BY <1>3

\* Behind(t)[k] is where such a g ends.
LEMMA BehindFollows ==
    ASSUME IsFiniteSet(Task), NEW t, NEW k \in 0..Cardinality(Task)
    PROVE  \E g : Follows(next, t, k, g) /\ Behind(t)[k] = g[k]
<1>1. Cardinality(Task) \in Nat
  BY FS_CardinalityType
<1> DEFINE at == CHOOSE g : g = [i \in 0..k |-> IF i = 0 THEN t ELSE Field(next, g[i - 1])]
<1>2. Behind(t)[k] = at[k]
  BY DEF Behind
<1>3. \E g : g = [i \in 0..k |-> IF i = 0 THEN t ELSE Field(next, g[i - 1])]
  <2>1. k \in Nat
    BY <1>1
  <2>2. PICK g : Follows(next, t, k, g)
    BY <2>1, FollowsExists
  <2> QED
    BY <2>2 DEF Follows
<1>4. at = [i \in 0..k |-> IF i = 0 THEN t ELSE Field(next, at[i - 1])]
  BY <1>3
<1> HIDE DEF at
<1> QED
  BY <1>2, <1>4 DEF Follows

\* On a circle, the links lead through the list and never out of it.
LEMMA CircleFollows ==
    ASSUME NEW n, NEW s, Circle(n, s),
           NEW k \in Nat, NEW g, Follows(next, Shell, k, g)
    PROVE  g[k] \in Linked /\ (k <= n - 1 => g[k] = s[k])
<1>1. /\ n \in Nat \ {0}
      /\ s \in [0..(n - 1) -> Task]
      /\ \A u : u \in Linked <=> \E i \in 0..(n - 1) : s[i] = u
      /\ s[0] = Shell
      /\ \A i \in 0..(n - 2) : next[s[i]] = s[i + 1]
      /\ next[s[n - 1]] = s[0]
  BY DEF Circle, CircleOf
<1>2. \A i \in 0..k : g[i] = IF i = 0 THEN Shell ELSE Field(next, g[i - 1])
  BY DEF Follows
<1>3. \A u \in Linked : Field(next, u) = next[u]
  BY TaskAssumption DEF Linked, Field
<1>4. ASSUME NEW u \in Linked PROVE Field(next, u) \in Linked
  <2>1. PICK i \in 0..(n - 1) : s[i] = u
    BY <1>1
  <2>2. CASE i = n - 1
    BY <1>1, <1>3, <2>1, <2>2
  <2>3. CASE i # n - 1
    <3>1. i \in 0..(n - 2) /\ i + 1 \in 0..(n - 1)
      BY <1>1, <2>3
    <3> QED
      BY <1>1, <1>3, <2>1, <3>1
  <2> QED
    BY <2>2, <2>3
<1> DEFINE S == {i \in Nat : i <= k => g[i] \in Linked /\ (i <= n - 1 => g[i] = s[i])}
<1>5. 0 \in S
  BY <1>1, <1>2
<1>6. ASSUME NEW i \in Nat, i \in S
      PROVE  i + 1 \in S
  <2> SUFFICES ASSUME i + 1 <= k
               PROVE  g[i + 1] \in Linked /\ (i + 1 <= n - 1 => g[i + 1] = s[i + 1])
    OBVIOUS
  <2>1. i + 1 \in 0..k /\ (i + 1) - 1 = i /\ i + 1 # 0 /\ i <= k
    OBVIOUS
  <2>2. g[i] \in Linked /\ (i <= n - 1 => g[i] = s[i])
    BY <1>6, <2>1
  <2>3. g[i + 1] = Field(next, g[i])
    BY <1>2, <2>1
  <2>4. ASSUME i + 1 <= n - 1 PROVE g[i + 1] = s[i + 1]
    <3>1. i \in 0..(n - 2) /\ i <= n - 1
      BY <1>1, <2>4
    <3> QED
      BY <1>1, <1>3, <2>2, <2>3, <3>1
  <2> QED
    BY <1>4, <2>2, <2>3, <2>4
<1>7. Nat \subseteq S
  <2> HIDE DEF S
  <2> QED
    BY <1>5, <1>6, NatInductiveSet
<1>8. k \in S
  BY <1>7
<1> QED
  BY <1>8

-----------------------------------------------------------------------------
(* The theorems                                                            *)

LEMMA CircleIntact == RingInv => RingIntact
<1> SUFFICES ASSUME RingInv, Undamaged
             PROVE  /\ {Behind(Shell)[k] : k \in 0..Cardinality(Task)} = Linked
                    /\ \A t \in Linked : prev[next[t]] = t
                    /\ last_inserted \in Linked
  BY DEF RingIntact, Undamaged
<1>1. PICK n, s : Circle(n, s)
  BY DEF RingInv, CircleInv
<1>2. /\ n \in Nat \ {0}
      /\ s \in [0..(n - 1) -> Task]
      /\ \A i, j \in 0..(n - 1) : s[i] = s[j] => i = j
      /\ \A u : u \in Linked <=> \E i \in 0..(n - 1) : s[i] = u
      /\ \A i \in 0..(n - 2) : next[s[i]] = s[i + 1] /\ prev[s[i + 1]] = s[i]
      /\ next[s[n - 1]] = s[0] /\ prev[s[0]] = s[n - 1]
  BY <1>1 DEF Circle, CircleOf
<1>3. Cardinality(Task) \in Nat
  BY RingAssumption, FS_CardinalityType
<1>4. n <= Cardinality(Task)
  <2> SUFFICES ASSUME Cardinality(Task) < n PROVE FALSE
    BY <1>2, <1>3
  <2>1. IsFiniteSet(0..(n - 1)) /\ Cardinality(0..(n - 1)) = n
    BY <1>2, FS_Interval
  <2>2. \E i, j \in 0..(n - 1) : i # j /\ s[i] = s[j]
    BY <1>2, <2>1, RingAssumption, FS_PigeonHole
  <2> QED
    BY <1>2, <2>2
<1>5. ASSUME NEW k \in 0..Cardinality(Task)
      PROVE  Behind(Shell)[k] \in Linked /\ (k <= n - 1 => Behind(Shell)[k] = s[k])
  <2>1. PICK g : Follows(next, Shell, k, g) /\ Behind(Shell)[k] = g[k]
    BY BehindFollows, RingAssumption
  <2>2. k \in Nat
    BY <1>3
  <2> QED
    BY <1>1, <2>1, <2>2, CircleFollows
<1>6. ASSUME NEW u \in Linked
      PROVE  \E k \in 0..Cardinality(Task) : Behind(Shell)[k] = u
  <2>1. PICK i \in 0..(n - 1) : s[i] = u
    BY <1>2
  <2>2. i \in 0..Cardinality(Task) /\ i <= n - 1
    BY <1>2, <1>3, <1>4
  <2> QED
    BY <1>5, <2>1, <2>2
<1>7. {Behind(Shell)[k] : k \in 0..Cardinality(Task)} = Linked
  BY <1>5, <1>6
<1>8. ASSUME NEW t \in Linked PROVE prev[next[t]] = t
  <2>1. PICK i \in 0..(n - 1) : s[i] = t
    BY <1>2
  <2>2. CASE i = n - 1
    BY <1>2, <2>1, <2>2
  <2>3. CASE i # n - 1
    <3>1. i \in 0..(n - 2)
      BY <1>2, <2>3
    <3> QED
      BY <1>2, <2>1, <3>1
  <2> QED
    BY <2>2, <2>3
<1>9. last_inserted \in Linked
  BY DEF RingInv, CircleInv
<1> QED
  BY <1>7, <1>8, <1>9

\* insert_task and remove_task_from_circular_list keep the records of the tasks
\* there are in one circle, in both directions, as long as none was reaped
\* before it was linked.
THEOREM RingStaysIntact == RingSpec => []RingIntact
  BY RingInvariance, CircleIntact, PTL

\* ps comes round only after it has listed every task there is, although tasks
\* exit and are reaped while it walks.
THEOREM PsComplete == RingSpec => PsListsAll
<1>1. IndInv /\ RingInv /\ [RingNext]_allVars
        => [scheduler_list_tasks /\ spawnpoint' = NoTask /\ damage = {}
              => Linked \subseteq seen']_allVars
  BY PsListStep
<1> QED
  BY <1>1, RingInvariance, PTL DEF RingSpec, PsListsAll

=============================================================================
