---------------------------- MODULE MC_MutexLock ----------------------------
(* A small instance of MutexLock: the shell, one mutex user that never      *)
(* exits (like task_d), two records for tasks that come and go.             *)
EXTENDS MutexLock

CONSTANTS reaper, shell, d, w1, w2

MC_Task == {reaper, shell, d, w1, w2}
MC_Boot == <<shell, d, w1>>
MC_Immortal == {shell, d}
MC_LockUser == {d, w1, w2}
=============================================================================
