------------------------------ MODULE TaskRing ------------------------------
(***************************************************************************)
(* The circular list of tasks of pelikanOS (src/scheduler.c): create_task   *)
(* links a record in it, the reaper unlinks it, and the command ps of the   *)
(* shell walks along it.  The module extends the scheduler and the mutex:   *)
(* their actions say when a record is linked, unlinked and freed.           *)
(*                                                                         *)
(* insert_task and remove_task_from_circular_list run with interrupts off,  *)
(* ps with interrupts on.  A store through a null pointer goes to the low   *)
(* memory of the machine and is not seen again.                             *)
(***************************************************************************)
EXTENDS MutexLock

\* The heap holds so many records and no more.
ASSUME RingAssumption == IsFiniteSet(Task)

VARIABLES
    next, prev,      \* task->next and task->prev
    last_inserted,
    spawnpoint,      \* where ps is; NoTask outside of ps, Lost behind null
    seen,            \* history: the records that ps has listed
    damage           \* history: what the reaper has done to the ring

ringVars == <<next, prev, last_inserted, spawnpoint, seen, damage>>

allVars == <<vars, ringVars>>

Lost == "lost"

-----------------------------------------------------------------------------
(* f with the field of record t set to v, one store after the other.        *)

Store(f, t, v) == IF t = NoTask THEN f ELSE [f EXCEPT ![t] = v]

Field(f, t) == IF t = NoTask THEN NoTask ELSE f[t]

\* The new record links back to the one before it.
BadInsertBack(n, p, last, t) ==
    [next |-> Store(Store(n, t, last), last, t), prev |-> Store(p, t, last)]

\* The links after insert_task(t) behind the record last.
InsertLinks(n, p, last, t) ==
    LET n1 == Store(n, t, n[last])
        p1 == Store(p, t, last)
    IN  [next |-> Store(n1, last, t), prev |-> Store(p1, n1[last], t)]

insert_task(t) ==
    /\ \/ /\ last_inserted # NoTask
          /\ LET l == InsertLinks(next, prev, last_inserted, t)
             IN  next' = l.next /\ prev' = l.prev
       \/ /\ last_inserted = NoTask
          /\ next' = Store(next, t, t) /\ prev' = Store(prev, t, t)
    /\ last_inserted' = t

\* last_inserted keeps pointing to the record that is freed.
BadSurvivor(t) == last_inserted

\* Where last_inserted points after the removal of t.
Survivor(t) == IF last_inserted = t THEN next[t] ELSE last_inserted

remove_task_from_circular_list(t) ==
    /\ \/ /\ next[t] = t
          /\ last_inserted' = NoTask
          /\ next' = Store(next, t, NoTask) /\ prev' = Store(prev, t, NoTask)
       \/ /\ next[t] # t
          /\ last_inserted' = Survivor(t)
          /\ next' = Store(Store(next, prev[t], next[t]), t, NoTask)
          /\ prev' = Store(Store(prev, next[t], prev[t]), t, NoTask)

-----------------------------------------------------------------------------
\* kmain: the reaper is inserted first, then the boot tasks.
Ring == <<Reaper>> \o Boot

RingInit ==
    /\ next = [t \in Task |->
                 IF \E i \in 1..Len(Ring) : Ring[i] = t
                 THEN Ring[((CHOOSE i \in 1..Len(Ring) : Ring[i] = t) % Len(Ring)) + 1]
                 ELSE NoTask]
    /\ prev = [t \in Task |->
                 IF \E u \in Task : next[u] = t THEN CHOOSE u \in Task : next[u] = t
                 ELSE NoTask]
    /\ last_inserted = Ring[Len(Ring)]
    /\ spawnpoint = NoTask
    /\ seen = {}
    /\ damage = {}

InPs == spawnpoint # NoTask

\* The ring is followed up to the first damage: then no task is created and
\* ps is not called any more.
Followed == damage = {}

\* The record is cleared by memset.
create_cleared(n) ==
    /\ Followed /\ ~InPs
    /\ create_task_alloc(n)
    /\ next' = [next EXCEPT ![n] = NoTask]
    /\ prev' = [prev EXCEPT ![n] = NoTask]
    /\ UNCHANGED <<last_inserted, spawnpoint, seen, damage>>

create_linked ==
    /\ create_task_insert
    /\ insert_task(new_task)
    /\ UNCHANGED <<spawnpoint, seen, damage>>

\* The reaper may get hold of a record before insert_task has, or of the one
\* at which ps stands.
reap_unlinked ==
    /\ reaper_reap
    /\ remove_task_from_circular_list(Head(dead_q))
    /\ damage' = damage
           \cup (IF Head(dead_q) = new_task THEN {"not yet linked"} ELSE {})
           \cup (IF Head(dead_q) = spawnpoint THEN {"under ps"} ELSE {})
    /\ UNCHANGED <<spawnpoint, seen>>

\* scheduler_list_tasks, up to its loop.
cmd_ps ==
    /\ Running(Shell) /\ pc[Shell] = "run" /\ ~InPs
    /\ Followed /\ last_inserted # NoTask
    /\ spawnpoint' = current_task
    /\ seen' = {}
    /\ UNCHANGED <<vars, next, prev, last_inserted, damage>>

\* ps takes the record that was inserted last for the end of the list, and stops
\* in front of it.
BadStep == IF next[spawnpoint] = last_inserted THEN current_task ELSE next[spawnpoint]

\* The record behind the one that was listed.
PsStep == next[spawnpoint]

\* One iteration of the loop.
scheduler_list_tasks ==
    /\ Running(Shell) /\ InPs /\ spawnpoint # Lost
    /\ seen' = seen \cup {spawnpoint}
    /\ spawnpoint' = CASE PsStep = current_task -> NoTask
                       [] PsStep = NoTask -> Lost
                       [] OTHER -> PsStep
    /\ UNCHANGED <<vars, next, prev, last_inserted, damage>>

-----------------------------------------------------------------------------
\* The steps of the other modules that leave the ring alone.
Elsewhere ==
    \/ schedule /\ UNCHANGED lockVars
    \/ /\ \E t \in Task : timer_isr(t) \/ thread_exit(t) \/ thread_exit_yield(t)
       /\ UNCHANGED lockVars
    \/ create_task_ready /\ UNCHANGED lockVars
    \/ (reaper_cli \/ reaper_block \/ reaper_yield) /\ UNCHANGED lockVars
    \/ \E t \in LockUser : LockStep(t)

RingNext ==
    \/ Elsewhere /\ UNCHANGED ringVars
    \/ (\E n \in Task : create_cleared(n)) /\ UNCHANGED lockVars
    \/ create_linked /\ UNCHANGED lockVars
    \/ reap_unlinked /\ UNCHANGED lockVars
    \/ cmd_ps
    \/ scheduler_list_tasks

RingSpec == Init /\ RingInit /\ [][RingNext]_allVars

\* Nothing that the other modules assume is lost, and ps goes on.
FairRingSpec == RingSpec /\ Fairness /\ SF_allVars(scheduler_list_tasks)

-----------------------------------------------------------------------------
(* Properties                                                              *)

\* The records that belong in the ring.
Linked == {t \in Task : state[t] # "UNUSED" /\ t # new_task}

\* The record k links behind t.
Behind(t) == [k \in 0..Cardinality(Task) |->
                 LET at[i \in 0..k] == IF i = 0 THEN t ELSE Field(next, at[i - 1])
                 IN  at[k]]

\* As long as no record was reaped before it was linked, the links form one
\* circle through all the tasks there are and no other record, backwards too,
\* and last_inserted is one of them.
RingIntact ==
    "not yet linked" \notin damage =>
        /\ {Behind(Shell)[k] : k \in 0..Cardinality(Task)} = Linked
        /\ \A t \in Linked : prev[next[t]] = t
        /\ last_inserted \in Linked

\* ps lists every task that is there when it ends, unless the reaper took away
\* the record on which it stood.
PsListsAll ==
    [][scheduler_list_tasks /\ spawnpoint' = NoTask /\ damage = {}
         => Linked \subseteq seen']_allVars

\* ps comes to an end, under the same condition.
PsEnds == InPs ~> ~InPs \/ damage # {}

=============================================================================
