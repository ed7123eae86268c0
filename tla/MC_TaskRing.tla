---------------------------- MODULE MC_TaskRing ----------------------------
(* A small instance of TaskRing: the shell, the clock, and two records for  *)
(* tasks that come and go; nobody uses the mutex.                           *)
EXTENDS TaskRing

CONSTANTS reaper, shell, clock, w1, w2

MC_Task == {reaper, shell, clock, w1, w2}
MC_Boot == <<shell, clock, w1>>
MC_Immortal == {shell, clock}
=============================================================================
