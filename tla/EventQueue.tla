----------------------------- MODULE EventQueue -----------------------------
(***************************************************************************)
(* The timer event queue of kernel/multitasking/events.c: an intrusive,    *)
(* unbalanced binary search tree threaded through the Event records, with  *)
(* parent pointers, ordered by event->time.                                *)
(*                                                                         *)
(* Every operation is one action: its callers hold the scheduler lock or   *)
(* run in the timer interrupt.  What happens when they do not is the       *)
(* subject of SchedIrq.                                                    *)
(***************************************************************************)
EXTENDS Integers, Sequences, FiniteSets

CONSTANTS Events,   \* the Event records the kernel ever allocates
          Times,    \* values of event->time
          NULL      \* the null pointer

ASSUME NullAssumption == NULL \notin Events
ASSUME TimesAssumption == Times \subseteq Nat /\ 0 \in Times

VARIABLES tree,      \* event_root and the left/right/parent pointers
          time,      \* event->time
          enqueued,  \* event->enqueued
          live       \* records handed out by event_create

vars == <<tree, time, enqueued, live>>

Ptr == Events \cup {NULL}
NoPtr == [e \in Events |-> NULL]

TypeOK ==
    /\ tree \in [root : Ptr, left : [Events -> Ptr], right : [Events -> Ptr],
                 parent : [Events -> Ptr]]
    /\ time \in [Events -> Times]
    /\ enqueued \in [Events -> BOOLEAN]
    /\ live \subseteq Events

-----------------------------------------------------------------------------
(* The helpers, as functions of a tree T.                                  *)

\* Writes through a pointer that is known not to be null.
SetLeft(T, e, v) == [T EXCEPT !.left[e] = v]
SetRight(T, e, v) == [T EXCEPT !.right[e] = v]
\* Writes x->parent, where the code guards the write with `if (x)`.
SetParentOf(T, e, v) == IF e = NULL THEN T ELSE [T EXCEPT !.parent[e] = v]
ClearPointers(T, e) ==
    [T EXCEPT !.left[e] = NULL, !.right[e] = NULL, !.parent[e] = NULL]

bst_minimum(T, node) ==
    LET leftmost[e \in Events] ==
            IF T.left[e] = NULL THEN e ELSE leftmost[T.left[e]]
    IN  IF node = NULL THEN NULL ELSE leftmost[node]

\* The node under which event_bst_insert hangs a node with time tm.
InsertParent(T, tms, tm) ==
    LET Child(e) == IF tm < tms[e] THEN T.left[e] ELSE T.right[e]
        descend[e \in Events] ==
            IF Child(e) = NULL THEN e ELSE descend[Child(e)]
    IN  descend[T.root]

\* Faulty variants: the larger time goes left; equal times go left.
event_bst_insert_reversed(T, tms, node) ==
    IF T.root = NULL
    THEN [T EXCEPT !.root = node]
    ELSE LET back == [e \in Events |-> -tms[e]]
             p == InsertParent(T, back, back[node])
             U == [T EXCEPT !.parent[node] = p]
         IN  IF back[node] < back[p] THEN SetLeft(U, p, node) ELSE SetRight(U, p, node)

event_bst_insert_equal_left(T, tms, node) ==
    IF T.root = NULL
    THEN [T EXCEPT !.root = node]
    ELSE LET first == [e \in Events |-> IF e = node THEN 2 * tms[e] ELSE 2 * tms[e] + 1]
             p == InsertParent(T, first, first[node])
             U == [T EXCEPT !.parent[node] = p]
         IN  IF first[node] < first[p] THEN SetLeft(U, p, node) ELSE SetRight(U, p, node)

event_bst_insert(T, tms, node) ==
    IF T.root = NULL
    THEN [T EXCEPT !.root = node]
    ELSE LET p == InsertParent(T, tms, tms[node])
             U == [T EXCEPT !.parent[node] = p]
         IN  IF tms[node] < tms[p] THEN SetLeft(U, p, node) ELSE SetRight(U, p, node)

\* Faulty variant: v keeps its old parent pointer.
bst_transplant_stale_parent(T, u, v) ==
    LET p == T.parent[u]
    IN  IF p = NULL THEN [T EXCEPT !.root = v]
        ELSE IF u = T.left[p] THEN SetLeft(T, p, v)
        ELSE SetRight(T, p, v)

bst_transplant(T, u, v) ==
    LET p == T.parent[u]
        U == IF p = NULL THEN [T EXCEPT !.root = v]
             ELSE IF u = T.left[p] THEN SetLeft(T, p, v)
             ELSE SetRight(T, p, v)
    IN  SetParentOf(U, v, p)

\* Two children: y, the successor, is first cut loose if it is not a child.
DetachSuccessor(T, node, y) ==
    IF T.parent[y] = node THEN T
    ELSE LET U == SetRight(bst_transplant(T, y, T.right[y]), y, T.right[node])
         IN  SetParentOf(U, U.right[y], y)

bst_delete(T, node) ==
    IF T.left[node] = NULL THEN bst_transplant(T, node, T.right[node])
    ELSE IF T.right[node] = NULL THEN bst_transplant(T, node, T.left[node])
    ELSE LET y == bst_minimum(T, T.right[node])
             U == bst_transplant(DetachSuccessor(T, node, y), node, y)
         IN  SetParentOf(SetLeft(U, y, U.left[node]), U.left[node], y)

\* event_remove's effect on the pointers.
RemoveFrom(T, e) ==
    IF T.root = NULL THEN T ELSE ClearPointers(bst_delete(T, e), e)

event_peek_next == bst_minimum(tree, tree.root)

-----------------------------------------------------------------------------
(* The operations.                                                         *)

event_create(e) ==
    /\ e \notin live
    /\ live' = live \cup {e}
    /\ time' = [time EXCEPT ![e] = 0]
    /\ enqueued' = [enqueued EXCEPT ![e] = FALSE]
    /\ tree' = ClearPointers(tree, e)

\* Faulty variant: the caller's deadline arithmetic is off by one.
event_enqueue_late(e, t) ==
    /\ e \in live
    /\ time' = [time EXCEPT ![e] = t + 1]
    /\ LET T == IF enqueued[e] THEN RemoveFrom(tree, e) ELSE tree
       IN  tree' = event_bst_insert(ClearPointers(T, e), time', e)
    /\ enqueued' = [enqueued EXCEPT ![e] = TRUE]
    /\ UNCHANGED live

\* The caller writes event->time, in place even when the event is in the
\* tree, and then calls event_enqueue, which takes it out by its pointers.
event_enqueue(e, t) ==
    /\ e \in live
    /\ time' = [time EXCEPT ![e] = t]
    /\ LET T == IF enqueued[e] THEN RemoveFrom(tree, e) ELSE tree
       IN  tree' = event_bst_insert(ClearPointers(T, e), time', e)
    /\ enqueued' = [enqueued EXCEPT ![e] = TRUE]
    /\ UNCHANGED live

\* The only caller, handle_next_event, removes the event it has just peeked;
\* the model lets any enqueued event be removed.
event_remove(e) ==
    /\ enqueued[e]
    /\ tree' = RemoveFrom(tree, e)
    /\ enqueued' = [enqueued EXCEPT ![e] = (tree.root = NULL) /\ @]
    /\ UNCHANGED <<time, live>>

\* Exported, without a caller in the kernel: it leaves the pointers and the
\* enqueued flag of the event it returns as they were.
event_dequeue ==
    /\ tree.root /= NULL
    /\ tree' = bst_delete(tree, event_peek_next)
    /\ UNCHANGED <<time, enqueued, live>>

Init ==
    /\ tree = [root |-> NULL, left |-> NoPtr, right |-> NoPtr, parent |-> NoPtr]
    /\ time = [e \in Events |-> 0]
    /\ enqueued = [e \in Events |-> FALSE]
    /\ live = {}

Next ==
    \E e \in Events :
        \/ event_create(e)
        \/ \E t \in Times : event_enqueue(e, t)
        \/ event_remove(e)

Spec == Init /\ [][Next]_vars

\* The interface with event_dequeue added.
SpecWithDequeue == Init /\ [][Next \/ event_dequeue]_vars

-----------------------------------------------------------------------------
(* Properties.                                                             *)

Children(e) == {tree.left[e], tree.right[e]} \ {NULL}

\* The nodes a walk from event_root visits.
Reachable ==
    LET within[n \in Nat] ==
            IF n = 0 THEN {tree.root} \ {NULL}
            ELSE within[n - 1] \cup UNION {Children(e) : e \in within[n - 1]}
    IN  within[Cardinality(Events)]

\* The enqueued flag, the links downwards and the parent links, which
\* bst_transplant trusts, always tell the same story: the flagged events are
\* those in the tree, each hangs under the node it names as its parent, under
\* one side only, and an event outside the tree keeps no stale pointer.
TreeCoherent ==
    /\ Reachable = {e \in Events : enqueued[e]}
    /\ tree.root /= NULL => tree.parent[tree.root] = NULL
    /\ \A e \in Reachable :
         /\ \A c \in Children(e) : tree.parent[c] = e
         /\ tree.left[e] = tree.right[e] => tree.left[e] = NULL
    /\ \A e \in Events \ Reachable :
         tree.left[e] = NULL /\ tree.right[e] = NULL /\ tree.parent[e] = NULL

\* event_peek_next returns an enqueued event none of the enqueued events
\* precedes, and NULL only when nothing is enqueued, although callers change
\* event->time of events that are in the tree.
PeekReturnsEarliest ==
    LET pending == {e \in Events : enqueued[e]}
    IN  IF event_peek_next = NULL THEN pending = {}
        ELSE /\ event_peek_next \in pending
             /\ \A e \in pending : time[event_peek_next] <= time[e]

\* An event leaves the tree only when it is removed itself: enqueueing one
\* event, or dequeueing the earliest, does not lose another.
OthersStayQueued ==
    [][\A e \in Reachable \ Reachable' : ~enqueued'[e] \/ e = event_peek_next]_vars

\* The tree read from left to right.
InOrder ==
    LET walk[e \in Ptr] ==
            IF e = NULL THEN <<>>
            ELSE walk[tree.left[e]] \o <<e>> \o walk[tree.right[e]]
    IN  walk[tree.root]

Queue == INSTANCE TimerQueue WITH queue <- InOrder

\* The tree implements the queue in firing order, first come first served
\* among equal times, whatever sequence of insertions, re-insertions and
\* removals built it.
ImplementsTimerQueue == Queue!Spec
=============================================================================
