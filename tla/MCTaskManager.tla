---------------------------- MODULE MCTaskManager ----------------------------
(* Instances of TaskManager for TLC. *)
EXTENDS TaskManager, TLC

CONSTANTS s1, s2, t1, t2, t3

MCOneServer == {s1}
MCTwoServers == {s1, s2}
MCTasks == {t1, t2, t3}
MCTwoTasks == {t1, t2}
=============================================================================
