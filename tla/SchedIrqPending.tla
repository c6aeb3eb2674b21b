-------------------------- MODULE SchedIrqPending ---------------------------
(***************************************************************************)
(* How the steps of SchedIrq change the events whose callbacks are pending. *)
(***************************************************************************)
EXTENDS SchedIrqStack

\* The step changes no activation that has taken an event off the queue and has
\* not finished its callback.
SamePending ==
    \A t \in Threads : \A i \in Nat :
        /\ Pending(t, i)' <=> Pending(t, i)
        /\ Pending(t, i) => /\ stack'[t][i].event = stack[t][i].event
                            /\ stack'[t][i].at = stack[t][i].at

\* Moving an activation without a pending event to a point without one changes no
\* pending event.
LEMMA BecomeSame ==
    ASSUME IrqSafe, NEW act \in Activations, Become(act),
           Top.at \notin {"call", "append"}, act.at \notin {"call", "append"}
    PROVE  SamePending
<1> SUFFICES ASSUME NEW t \in Threads, NEW i \in Nat
             PROVE  /\ Pending(t, i)' <=> Pending(t, i)
                    /\ Pending(t, i) => /\ stack'[t][i].event = stack[t][i].event
                                        /\ stack'[t][i].at = stack[t][i].at
  BY DEF SamePending
<1>1. /\ DOMAIN stack'[t] = DOMAIN stack[t]
      /\ i \in DOMAIN stack[t] =>
           stack'[t][i] = IF t = cpu /\ i = depth THEN act ELSE stack[t][i]
  BY BecomeFacts
<1>2. CASE t = cpu /\ i = depth
  BY <1>1, <1>2, TopFacts DEF Pending
<1>3. CASE ~(t = cpu /\ i = depth)
  BY <1>1, <1>3 DEF Pending
<1> QED
  BY <1>2, <1>3

\* A call that brings no event along changes no pending event.
LEMMA CallSame ==
    ASSUME IrqSafe, NEW act \in Activations, Call(act), act.at \notin {"call", "append"}
    PROVE  SamePending
<1> SUFFICES ASSUME NEW t \in Threads, NEW i \in Nat
             PROVE  /\ Pending(t, i)' <=> Pending(t, i)
                    /\ Pending(t, i) => /\ stack'[t][i].event = stack[t][i].event
                                        /\ stack'[t][i].at = stack[t][i].at
  BY DEF SamePending
<1>1. CASE t /= cpu
  <2>1. stack'[t] = stack[t]
    BY <1>1, CallFacts
  <2> QED
    BY <2>1 DEF Pending
<1>2. CASE t = cpu
  <2>1. DOMAIN stack'[t] = 1..(depth + 1) /\ DOMAIN stack[t] = 1..depth /\ depth \in Nat
    BY <1>2, CallFacts, TopFacts
  <2>2. CASE i = depth + 1
    <3>1. stack'[t][i].at \notin {"call", "append"} /\ i \notin DOMAIN stack[t]
      BY <1>2, <2>1, <2>2, CallFacts
    <3> QED
      BY <3>1 DEF Pending
  <2>3. CASE i /= depth + 1
    <3>1. i \in DOMAIN stack'[t] <=> i \in DOMAIN stack[t]
      BY <2>1, <2>3
    <3>2. i \in DOMAIN stack[t] => stack'[t][i] = stack[t][i]
      BY <1>2, <2>1, CallFacts
    <3> QED
      BY <3>1, <3>2 DEF Pending
  <2> QED
    BY <2>2, <2>3
<1> QED
  BY <1>1, <1>2

\* The return of an activation without a pending event changes no pending event.
LEMMA ReturnSame ==
    ASSUME IrqSafe, Return, depth > 1, Top.at \notin {"call", "append"}
    PROVE  SamePending
<1> SUFFICES ASSUME NEW t \in Threads, NEW i \in Nat
             PROVE  /\ Pending(t, i)' <=> Pending(t, i)
                    /\ Pending(t, i) => /\ stack'[t][i].event = stack[t][i].event
                                        /\ stack'[t][i].at = stack[t][i].at
  BY DEF SamePending
<1>1. CASE t /= cpu
  <2>1. stack'[t] = stack[t]
    BY <1>1, ReturnFacts
  <2> QED
    BY <2>1 DEF Pending
<1>2. CASE t = cpu
  <2>1. DOMAIN stack'[t] = 1..(depth - 1) /\ DOMAIN stack[t] = 1..depth /\ depth \in Nat
    BY <1>2, ReturnFacts, TopFacts
  <2>2. CASE i = depth
    <3>1. stack[t][i].at \notin {"call", "append"} /\ i \notin DOMAIN stack'[t]
      BY <1>2, <2>1, <2>2, TopFacts
    <3> QED
      BY <3>1 DEF Pending
  <2>3. CASE i /= depth
    <3>1. i \in DOMAIN stack'[t] <=> i \in DOMAIN stack[t]
      BY <2>1, <2>3
    <3>2. i \in DOMAIN stack[t] => stack'[t][i] = stack[t][i]
      <4>1. i \in DOMAIN stack[t] => i \in 1..(depth - 1)
        BY <2>1, <2>3
      <4> QED
        BY <1>2, <4>1, ReturnFacts
    <3> QED
      BY <3>1, <3>2 DEF Pending
  <2> QED
    BY <2>2, <2>3
<1> QED
  BY <1>1, <1>2

\* A thread is being woken when an activation has its event pending.
LEMMA PendingDomain ==
    ASSUME IrqSafe
    PROVE  /\ \A t \in Threads : DOMAIN stack[t] \subseteq Nat
           /\ \A t \in Threads : \A i : Pending(t, i) => i \in Nat
           /\ \A w : Waking(w) <=> \E t \in Threads, i \in Nat :
                                      Pending(t, i) /\ stack[t][i].event = w
<1>1. \A t \in Threads : DOMAIN stack[t] \subseteq Nat
  BY OuterFacts
<1> QED
  BY <1>1 DEF Pending, Waking

\* The step leaves the same events pending.
SameEvents ==
    \A t \in Threads : \A i \in Nat :
        /\ Pending(t, i)' <=> Pending(t, i)
        /\ Pending(t, i) => stack'[t][i].event = stack[t][i].event

\* A step that leaves the same events pending leaves the same threads being woken.
LEMMA EventsWaking ==
    ASSUME IrqSafe, SameEvents, stack' \in [Threads -> Seq(Activations)]
    PROVE  /\ \A w : Waking(w)' <=> Waking(w)
           /\ PendingOnce'
<1>1. \A t \in Threads : DOMAIN stack'[t] \subseteq Nat
  OBVIOUS
<1>2. \A w : Waking(w)' <=> \E t \in Threads, i \in Nat :
                               Pending(t, i)' /\ stack'[t][i].event = w
  BY <1>1 DEF Pending, Waking
<1>3. \A w : Waking(w)' <=> Waking(w)
  BY <1>2, PendingDomain DEF SameEvents
<1>4. PendingOnce'
  <2> SUFFICES ASSUME NEW t \in Threads, NEW u \in Threads,
                      NEW i \in DOMAIN stack'[t], NEW j \in DOMAIN stack'[u],
                      Pending(t, i)', Pending(u, j)',
                      stack'[t][i].event = stack'[u][j].event
               PROVE  t = u /\ i = j
    BY DEF PendingOnce
  <2>1. i \in Nat /\ j \in Nat
    BY <1>1
  <2>2. /\ Pending(t, i) /\ Pending(u, j) /\ stack[t][i].event = stack[u][j].event
    BY <2>1 DEF SameEvents
  <2>3. i \in DOMAIN stack[t] /\ j \in DOMAIN stack[u]
    BY <2>2 DEF Pending
  <2> QED
    BY <2>2, <2>3 DEF IrqSafe, PendingOnce
<1> QED
  BY <1>3, <1>4

\* The same of a step that changes no pending activation.
LEMMA SameWaking ==
    ASSUME IrqSafe, SamePending, stack' \in [Threads -> Seq(Activations)]
    PROVE  /\ \A w : Waking(w)' <=> Waking(w)
           /\ PendingOnce'
<1>1. SameEvents
  BY DEF SamePending, SameEvents
<1> QED
  BY <1>1, EventsWaking

\* A pending event is the wake event of a worker that does not run, or the running
\* thread's switch event, and then that thread is not inside switch_thread.
LEMMA WakingFacts ==
    ASSUME IrqSafe, NEW e, Waking(e)
    PROVE  /\ e \in Threads
           /\ e = cpu => Top.at \notin Switching /\ callback[e] = "switch_thread"
           /\ e /= cpu => e \in Workers
<1>0. PICK t \in Threads : \E i \in DOMAIN stack[t] :
         stack[t][i].event = e /\ stack[t][i].at \in {"call", "append"}
  BY DEF Waking
<1>1. PICK i \in DOMAIN stack[t] :
         stack[t][i].event = e /\ stack[t][i].at \in {"call", "append"}
  BY <1>0
<1>2. CASE stack[t][i].at = "call"
  <2>1. /\ e \in Threads \ enq
        /\ \/ callback[e] = "thread_wake" /\ status[e] = "SLEEPING" /\ e /= cpu
           \/ callback[e] = "switch_thread" /\ e = cpu /\ Top.at \notin Switching
    BY <1>1, <1>2 DEF IrqSafe, PendingEvents
  <2> QED
    BY <2>1 DEF IrqSafe, QueuedEvents
<1>3. CASE stack[t][i].at = "append"
  <2>1. e \in Workers \ {cpu}
    BY <1>1, <1>3 DEF IrqSafe, PendingEvents
  <2> QED
    BY <2>1 DEF Threads
<1> QED
  BY <1>1, <1>2, <1>3

\* A step that changes no pending activation, and neither removes, queues nor wakes
\* a thread whose event is pending, keeps what is known of the pending events.
LEMMA SamePendingEvents ==
    ASSUME IrqSafe, SamePending, stack' \in [Threads -> Seq(Activations)],
           cpu' = cpu \/ (Top.at \in Switching /\ ~Waking(cpu')),
           Top'.at \in Switching => Top.at \in Switching \/ ~Waking(cpu),
           \A e \in Threads : Waking(e) => /\ e \in enq' => e \in enq
                                           /\ status'[e] = status[e]
                                           /\ callback'[e] = callback[e]
    PROVE  PendingEvents'
<1> SUFFICES ASSUME NEW t \in Threads, NEW i \in DOMAIN stack'[t]
             PROVE  LET e == stack'[t][i].event
                    IN  /\ stack'[t][i].at = "call" =>
                             /\ e \in Threads \ enq'
                             /\ \/ /\ callback'[e] = "thread_wake" /\ status'[e] = "SLEEPING"
                                   /\ e /= cpu'
                                \/ /\ callback'[e] = "switch_thread" /\ e = cpu' /\ t = cpu'
                                   /\ Top'.at \notin Switching
                        /\ stack'[t][i].at = "append" =>
                             e \in Workers \ {cpu'} /\ status'[e] = "READY"
  BY DEF PendingEvents
<1> DEFINE e == stack[t][i].event
<1>1. CASE stack'[t][i].at \in {"call", "append"}
  <2>1. i \in Nat
    OBVIOUS
  <2>2. Pending(t, i)'
    BY <1>1 DEF Pending
  <2>3. /\ Pending(t, i) /\ stack'[t][i].event = e /\ stack'[t][i].at = stack[t][i].at
    BY <2>1, <2>2 DEF SamePending
  <2>4. i \in DOMAIN stack[t] /\ Waking(e)
    BY <2>3 DEF Pending, Waking
  <2>5. e \in Threads
    BY <2>4, WakingFacts
  <2>6. /\ e \in enq' => e \in enq
        /\ status'[e] = status[e]
        /\ callback'[e] = callback[e]
    BY <2>4, <2>5
  <2>7. /\ stack[t][i].at = "call" =>
             /\ e \in Threads \ enq
             /\ \/ callback[e] = "thread_wake" /\ status[e] = "SLEEPING" /\ e /= cpu
                \/ /\ callback[e] = "switch_thread" /\ e = cpu /\ t = cpu
                   /\ Top.at \notin Switching
        /\ stack[t][i].at = "append" => e \in Workers \ {cpu} /\ status[e] = "READY"
    BY <2>4 DEF IrqSafe, PendingEvents
  <2> HIDE DEF e
  <2> QED
    BY <2>3, <2>4, <2>6, <2>7
<1> QED
  BY <1>1

\* Where the workers are depends on the stacks only through Leaving, Coming and the
\* pending events.
LEMMA SamePlaces ==
    ASSUME IrqSafe, \A w : Waking(w)' <=> Waking(w), UNCHANGED <<ready, status, enq, callback>>,
           \A w \in Workers : /\ Leaving(w)' <=> Leaving(w)
                              /\ Coming(w)' <=> Coming(w),
           Top'.at = "set" <=> Top.at = "set",
           cpu' = cpu, Top'.at \in Switching <=> Top.at \in Switching
    PROVE  WorkersPlaced'
  BY DEF IrqSafe, WorkersPlaced, Listed, Asleep, Detached, Woken

\* The innermost activation of the stack in use has finished the callback of its
\* event.
Drops ==
    \A t \in Threads : \A i \in Nat :
        /\ Pending(t, i)' <=> Pending(t, i) /\ ~(t = cpu /\ i = depth)
        /\ Pending(t, i)' => /\ stack'[t][i].event = stack[t][i].event
                             /\ stack'[t][i].at = stack[t][i].at

\* The callback of e is now pending in the innermost activation of the stack in use.
Adds(e) ==
    \A t \in Threads : \A i \in Nat :
        /\ Pending(t, i)' <=> Pending(t, i) \/ (t = cpu /\ i = depth)
        /\ Pending(t, i) => /\ stack'[t][i].event = stack[t][i].event
                            /\ stack'[t][i].at = stack[t][i].at
        /\ t = cpu /\ i = depth => /\ stack'[t][i].event = e
                                   /\ stack'[t][i].at = "call"

\* An activation that moves on from a callback drops its event.
LEMMA BecomeDrops ==
    ASSUME IrqSafe, NEW act \in Activations, Become(act),
           act.at \notin {"call", "append"}
    PROVE  Drops
<1> SUFFICES ASSUME NEW t \in Threads, NEW i \in Nat
             PROVE  /\ Pending(t, i)' <=> Pending(t, i) /\ ~(t = cpu /\ i = depth)
                    /\ Pending(t, i)' => /\ stack'[t][i].event = stack[t][i].event
                                         /\ stack'[t][i].at = stack[t][i].at
  BY DEF Drops
<1>1. /\ DOMAIN stack'[t] = DOMAIN stack[t]
      /\ i \in DOMAIN stack[t] =>
           stack'[t][i] = IF t = cpu /\ i = depth THEN act ELSE stack[t][i]
  BY BecomeFacts
<1> QED
  BY <1>1 DEF Pending

\* An activation that moves on to a callback adds its event.
LEMMA BecomeAdds ==
    ASSUME IrqSafe, NEW act \in Activations, Become(act),
           Top.at \notin {"call", "append"}, act.at = "call"
    PROVE  Adds(act.event)
<1> SUFFICES ASSUME NEW t \in Threads, NEW i \in Nat
             PROVE  /\ Pending(t, i)' <=> Pending(t, i) \/ (t = cpu /\ i = depth)
                    /\ Pending(t, i) => /\ stack'[t][i].event = stack[t][i].event
                                        /\ stack'[t][i].at = stack[t][i].at
                    /\ t = cpu /\ i = depth => /\ stack'[t][i].event = act.event
                                               /\ stack'[t][i].at = "call"
  BY DEF Adds
<1>1. /\ DOMAIN stack'[t] = DOMAIN stack[t]
      /\ i \in DOMAIN stack[t] =>
           stack'[t][i] = IF t = cpu /\ i = depth THEN act ELSE stack[t][i]
  BY BecomeFacts
<1>2. CASE t = cpu /\ i = depth
  <2>1. i \in DOMAIN stack[t] /\ stack[t][i] = Top
    BY <1>2, TopFacts
  <2> QED
    BY <1>1, <1>2, <2>1 DEF Pending
<1>3. CASE ~(t = cpu /\ i = depth)
  BY <1>1, <1>3 DEF Pending
<1> QED
  BY <1>2, <1>3

\* When a pending event is dropped, its thread, and no other, is no longer being
\* woken: the event was pending once.
LEMMA DropsWaking ==
    ASSUME IrqSafe, Drops, stack' \in [Threads -> Seq(Activations)],
           Top.at \in {"call", "append"}
    PROVE  /\ \A w : Waking(w)' <=> Waking(w) /\ w /= Top.event
           /\ PendingOnce' /\ Waking(Top.event)
<1>1. \A t \in Threads : DOMAIN stack'[t] \subseteq Nat
  OBVIOUS
<1>2. \A w : Waking(w)' <=> \E t \in Threads, i \in Nat :
                               Pending(t, i)' /\ stack'[t][i].event = w
  BY <1>1 DEF Pending, Waking
<1>3. /\ cpu \in Threads /\ depth \in Nat /\ Pending(cpu, depth)
      /\ stack[cpu][depth].event = Top.event
  BY TopFacts DEF Pending
<1>4. ASSUME NEW t \in Threads, NEW i \in Nat, Pending(t, i), stack[t][i].event = Top.event
      PROVE  t = cpu /\ i = depth
  <2>1. i \in DOMAIN stack[t] /\ depth \in DOMAIN stack[cpu]
    BY <1>3, <1>4 DEF Pending
  <2> QED
    BY <1>3, <1>4, <2>1 DEF IrqSafe, PendingOnce
<1>5. \A w : Waking(w)' <=> Waking(w) /\ w /= Top.event
  <2> SUFFICES ASSUME NEW w PROVE Waking(w)' <=> Waking(w) /\ w /= Top.event
    OBVIOUS
  <2>1. Waking(w) <=> \E t \in Threads, i \in Nat : Pending(t, i) /\ stack[t][i].event = w
    BY PendingDomain
  <2>2. ASSUME NEW t \in Threads, NEW i \in Nat, Pending(t, i)', stack'[t][i].event = w
        PROVE  Pending(t, i) /\ stack[t][i].event = w /\ w /= Top.event
    BY <1>4, <2>2 DEF Drops
  <2>3. ASSUME NEW t \in Threads, NEW i \in Nat, Pending(t, i), stack[t][i].event = w,
               w /= Top.event
        PROVE  Pending(t, i)' /\ stack'[t][i].event = w
    BY <1>3, <2>3 DEF Drops
  <2> QED
    BY <1>2, <2>1, <2>2, <2>3
<1>6. PendingOnce'
  <2> SUFFICES ASSUME NEW t \in Threads, NEW u \in Threads,
                      NEW i \in DOMAIN stack'[t], NEW j \in DOMAIN stack'[u],
                      Pending(t, i)', Pending(u, j)',
                      stack'[t][i].event = stack'[u][j].event
               PROVE  t = u /\ i = j
    BY DEF PendingOnce
  <2>1. i \in Nat /\ j \in Nat
    BY <1>1
  <2>2. /\ Pending(t, i) /\ Pending(u, j) /\ stack[t][i].event = stack[u][j].event
    BY <2>1 DEF Drops
  <2>3. i \in DOMAIN stack[t] /\ j \in DOMAIN stack[u]
    BY <2>2 DEF Pending
  <2> QED
    BY <2>2, <2>3 DEF IrqSafe, PendingOnce
<1>7. Waking(Top.event)
  BY <1>3, PendingDomain
<1> QED
  BY <1>5, <1>6, <1>7

\* When an event that was not pending is added, its thread is being woken, and no
\* event is pending twice.
LEMMA AddsWaking ==
    ASSUME IrqSafe, NEW e, Adds(e), stack' \in [Threads -> Seq(Activations)],
           Top.at \notin {"call", "append"}, ~Waking(e)
    PROVE  /\ \A w : Waking(w)' <=> Waking(w) \/ w = e
           /\ PendingOnce'
<1>1. \A t \in Threads : DOMAIN stack'[t] \subseteq Nat
  OBVIOUS
<1>2. \A w : Waking(w)' <=> \E t \in Threads, i \in Nat :
                               Pending(t, i)' /\ stack'[t][i].event = w
  BY <1>1 DEF Pending, Waking
<1>3. cpu \in Threads /\ depth \in Nat
  BY TopFacts
<1>4. ASSUME NEW w PROVE Waking(w)' <=> Waking(w) \/ w = e
  <2>1. Waking(w) <=> \E t \in Threads, i \in Nat : Pending(t, i) /\ stack[t][i].event = w
    BY PendingDomain
  <2>2. ASSUME NEW t \in Threads, NEW i \in Nat, Pending(t, i)', stack'[t][i].event = w
        PROVE  (Pending(t, i) /\ stack[t][i].event = w) \/ w = e
    BY <2>2 DEF Adds
  <2>3. ASSUME NEW t \in Threads, NEW i \in Nat, Pending(t, i), stack[t][i].event = w
        PROVE  Pending(t, i)' /\ stack'[t][i].event = w
    BY <2>3 DEF Adds
  <2>4. ASSUME w = e
        PROVE  \E t \in Threads, i \in Nat : Pending(t, i)' /\ stack'[t][i].event = w
    BY <1>3, <2>4, Zenon DEF Adds
  <2> QED
    BY <1>2, <2>1, <2>2, <2>3, <2>4
<1>5. PendingOnce'
  <2> SUFFICES ASSUME NEW t \in Threads, NEW u \in Threads,
                      NEW i \in DOMAIN stack'[t], NEW j \in DOMAIN stack'[u],
                      Pending(t, i)', Pending(u, j)',
                      stack'[t][i].event = stack'[u][j].event
               PROVE  t = u /\ i = j
    BY DEF PendingOnce
  <2>1. i \in Nat /\ j \in Nat
    BY <1>1
  <2>2. \A v \in Threads, k \in Nat : Pending(v, k) => stack[v][k].event /= e
    BY PendingDomain
  <2>3. CASE Pending(t, i) /\ Pending(u, j)
    <3>1. i \in DOMAIN stack[t] /\ j \in DOMAIN stack[u]
      BY <2>3 DEF Pending
    <3>2. stack[t][i].event = stack[u][j].event
      BY <2>1, <2>3 DEF Adds
    <3> QED
      BY <2>3, <3>1, <3>2 DEF IrqSafe, PendingOnce
  <2>4. CASE Pending(t, i) /\ ~Pending(u, j)
    BY <2>1, <2>2, <2>4 DEF Adds
  <2>5. CASE ~Pending(t, i) /\ Pending(u, j)
    BY <2>1, <2>2, <2>5 DEF Adds
  <2>6. CASE ~Pending(t, i) /\ ~Pending(u, j)
    BY <2>1, <2>6 DEF Adds
  <2> QED
    BY <2>3, <2>4, <2>5, <2>6
<1> QED
  BY <1>4, <1>5

\* The pending events that are left when one is dropped are as they should be.
LEMMA DropsEvents ==
    ASSUME IrqSafe, Drops, stack' \in [Threads -> Seq(Activations)], cpu' = cpu,
           Top.at \in {"call", "append"},
           Top'.at \in Switching => Top.event = cpu,
           UNCHANGED <<enq, status, callback>>
    PROVE  PendingEvents'
<1> SUFFICES ASSUME NEW t \in Threads, NEW i \in DOMAIN stack'[t],
                    stack'[t][i].at \in {"call", "append"}
             PROVE  LET e == stack'[t][i].event
                    IN  /\ stack'[t][i].at = "call" =>
                             /\ e \in Threads \ enq'
                             /\ \/ /\ callback'[e] = "thread_wake" /\ status'[e] = "SLEEPING"
                                   /\ e /= cpu'
                                \/ /\ callback'[e] = "switch_thread" /\ e = cpu' /\ t = cpu'
                                   /\ Top'.at \notin Switching
                        /\ stack'[t][i].at = "append" =>
                             e \in Workers \ {cpu'} /\ status'[e] = "READY"
  BY DEF PendingEvents
<1> DEFINE e == stack[t][i].event
<1>1. i \in Nat
  OBVIOUS
<1>2. Pending(t, i)'
  BY DEF Pending
<1>3. Pending(t, i) /\ stack'[t][i].event = e /\ stack'[t][i].at = stack[t][i].at
  BY <1>1, <1>2 DEF Drops
<1>4. i \in DOMAIN stack[t]
  BY <1>3 DEF Pending
<1>5. \A w : w = e => Waking(w)'
  BY <1>2, <1>3 DEF Pending, Waking
<1>6. e /= Top.event
  BY <1>5, DropsWaking
<1>7. /\ stack[t][i].at = "call" =>
           /\ e \in Threads \ enq
           /\ \/ callback[e] = "thread_wake" /\ status[e] = "SLEEPING" /\ e /= cpu
              \/ /\ callback[e] = "switch_thread" /\ e = cpu /\ t = cpu
                 /\ Top.at \notin Switching
      /\ stack[t][i].at = "append" => e \in Workers \ {cpu} /\ status[e] = "READY"
  BY <1>4 DEF IrqSafe, PendingEvents
<1> HIDE DEF e
<1> QED
  BY <1>3, <1>6, <1>7

\* The event that an activation is to run the callback of: a sleeping worker's wake
\* event, a woken worker that is not on the list yet, or the running thread's
\* switch event.
LEMMA CallEvent ==
    ASSUME IrqSafe, Top.at \in {"call", "append"}
    PROVE  /\ Waking(Top.event) /\ Top.event \in Threads /\ Pending(cpu, depth)
           /\ Top.at = "call" =>
                /\ Top.event \notin enq
                /\ \/ /\ callback[Top.event] = "thread_wake" /\ status[Top.event] = "SLEEPING"
                      /\ Top.event \in Workers \ {cpu} /\ cpu /= Boot
                   \/ callback[Top.event] = "switch_thread" /\ Top.event = cpu
           /\ Top.at = "append" =>
                /\ Top.event \in Workers \ {cpu} /\ status[Top.event] = "READY" /\ cpu /= Boot
<1>1. /\ cpu \in Threads /\ depth \in DOMAIN stack[cpu] /\ Top = stack[cpu][depth]
      /\ Pending(cpu, depth)
  BY TopFacts DEF Pending
<1>2. /\ Top.at = "call" =>
           /\ Top.event \in Threads \ enq
           /\ \/ /\ callback[Top.event] = "thread_wake" /\ status[Top.event] = "SLEEPING"
                 /\ Top.event /= cpu
              \/ callback[Top.event] = "switch_thread" /\ Top.event = cpu
      /\ Top.at = "append" => Top.event \in Workers \ {cpu} /\ status[Top.event] = "READY"
  BY <1>1 DEF IrqSafe, PendingEvents
<1>3. Waking(Top.event)
  BY <1>1 DEF Waking
<1> QED
  BY <1>1, <1>2, <1>3, WakingFacts DEF IrqSafe, BootPhase

\* Back at the top of the loop, the activation has the type of one.
LEMMA LoopingType ==
    ASSUME Top \in Activations
    PROVE  Looping \in Activations /\ Looping.at = "loop"
  BY Zenon DEF Looping, Activations, Points, Handling
=============================================================================
