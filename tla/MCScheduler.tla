---------------------------- MODULE MCScheduler ----------------------------
(* Small instances of Scheduler for TLC. *)
EXTENDS Scheduler

MCPriorities == {1, 2}
MCOnePriority == {1}
=============================================================================
