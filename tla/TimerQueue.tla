----------------------------- MODULE TimerQueue -----------------------------
(***************************************************************************)
(* What events.c promises its callers: a queue of events in the order in   *)
(* which they fire, smallest time first, and first come first served among *)
(* events with the same time.  EventQueue is shown to implement it.        *)
(***************************************************************************)
EXTENDS Integers, Sequences, SequencesExt

CONSTANTS Events, Times

VARIABLES queue,   \* the enqueued events, next to fire first
          time     \* event->time

absvars == <<queue, time>>

\* e behind every event of q that fires no later than it.
InsertByTime(q, tms, e) ==
    LET earlier == {i \in 1..Len(q) : tms[q[i]] <= tms[e]}
    IN  InsertAt(q, Cardinality(earlier) + 1, e)

Create(e) == time' = [time EXCEPT ![e] = 0] /\ UNCHANGED queue

Enqueue(e, t) ==
    /\ time' = [time EXCEPT ![e] = t]
    /\ queue' = InsertByTime(Remove(queue, e), time', e)

Cancel(e) ==
    /\ e \in ToSet(queue)
    /\ queue' = Remove(queue, e)
    /\ UNCHANGED time

Init == queue = <<>> /\ time = [e \in Events |-> 0]

Next ==
    \E e \in Events :
        \/ Create(e)
        \/ \E t \in Times : Enqueue(e, t)
        \/ Cancel(e)

Spec == Init /\ [][Next]_absvars
=============================================================================
