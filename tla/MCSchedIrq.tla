----------------------------- MODULE MCSchedIrq -----------------------------
(* SchedIrq for TLC: the two worker threads that sched_init creates.       *)
EXTENDS SchedIrq

CONSTANTS one, two

MCBootOrder == <<one, two>>
=============================================================================
