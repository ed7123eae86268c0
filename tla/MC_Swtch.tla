------------------------------ MODULE MC_Swtch ------------------------------
(* Two tasks, one of which may exit; every stack is deep enough for a      *)
(* switch, an interrupt on top of it and the switch that this one makes.   *)
EXTENDS Swtch

CONSTANTS t1, t2

MC_Task == {t1, t2}
MC_Exiting == {t2}
=============================================================================
