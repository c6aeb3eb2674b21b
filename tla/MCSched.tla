------------------------------ MODULE MCSched ------------------------------
(* Sched for TLC: the two worker threads that sched_init creates.          *)
EXTENDS Sched

CONSTANTS one, two

MCBootOrder == <<one, two>>
=============================================================================
