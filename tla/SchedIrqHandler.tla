-------------------------- MODULE SchedIrqHandler ---------------------------
(***************************************************************************)
(* handle_next_event preserves IrqSafe.                                    *)
(***************************************************************************)
EXTENDS SchedIrqPending

\* handle_next_event finds an event due.
LEMMA FindSafe ==
    ASSUME IrqSafe, find_due
    PROVE  IrqSafe'
<1>1. PICK e \in event_peek_next : Become([Top EXCEPT !.at = "remove", !.event = e])
  BY Zenon DEF find_due
<1> DEFINE act == [Top EXCEPT !.at = "remove", !.event = e]
<1>2. /\ Top.at = "loop" /\ current = cpu /\ cpu \in Threads /\ Top \in Activations
      /\ e \in enq /\ e \in Threads
  BY TopFacts DEF find_due, At, IrqSafe, SwitchLocals, TypeOK, event_peek_next
<1>3. UNCHANGED <<current, ready, status, enq, etime, callback, timer, irq, cut, cpu,
                  iflag, fault>>
  BY DEF find_due, lists, evars, machine
<1>4. act \in Activations /\ act.at = "remove" /\ act.event = e
  BY <1>2, Zenon DEF Activations, Points, Handling
<1>5. Become(act)
  BY <1>1
<1> HIDE DEF act
<1>6. stack' \in [Threads -> Seq(Activations)] /\ Top' = act
  BY <1>3, <1>4, <1>5, BecomeFacts
<1>7. TypeOK'
  BY <1>3, <1>6 DEF IrqSafe, TypeOK
<1>8. StackShape'
  BY <1>2, <1>3, <1>4, <1>5, BecomeShape
<1>9. SamePending /\ PendingOnce' /\ \A w : Waking(w)' <=> Waking(w)
  BY <1>2, <1>4, <1>5, <1>6, BecomeSame, SameWaking
<1>10. BootPhase' /\ SwitchLocals'
  BY <1>2, <1>3, <1>4, <1>6 DEF IrqSafe, BootPhase, SwitchLocals
<1>11. WorkersPlaced'
  BY <1>2, <1>3, <1>4, <1>6, <1>9, SamePlaces DEF Leaving, Coming, Switching
<1>12. QueuedEvents' /\ PendingEvents'
  BY <1>2, <1>3, <1>4, <1>6, <1>9, SamePendingEvents DEF IrqSafe, QueuedEvents, Switching
<1> QED
  BY <1>3, <1>7, <1>8, <1>9, <1>10, <1>11, <1>12 DEF IrqSafe

\* handle_next_event leaves its loop; sched_init never does, its event is due.
LEMMA LoopExitSafe ==
    ASSUME IrqSafe, loop_exit
    PROVE  IrqSafe'
<1> DEFINE act == [Top EXCEPT !.at = "tail"]
<1>1. /\ Top.at = "loop" /\ current = cpu /\ cpu \in Threads /\ Top \in Activations
  BY TopFacts DEF loop_exit, At, IrqSafe, SwitchLocals, TypeOK
<1>2. cpu /= Boot
  <2>1. SUFFICES ASSUME cpu = Boot PROVE FALSE
    OBVIOUS
  <2>2. Boot \in enq /\ etime[Boot] <= 0
    BY <1>1, <2>1 DEF IrqSafe, BootPhase
  <2>3. etime[Boot] > 0 /\ etime[Boot] \in Int
    BY <1>1, <2>1, <2>2 DEF loop_exit, IrqSafe, TypeOK
  <2> QED
    BY <2>2, <2>3
<1>3. /\ Become(act)
      /\ UNCHANGED <<current, ready, status, enq, etime, callback, timer, irq, cut, cpu,
                     iflag, fault>>
  BY DEF loop_exit, lists, evars, machine, Goto
<1>4. act \in Activations /\ act.at = "tail"
  BY <1>1 DEF Activations, Points, Handling
<1> HIDE DEF act
<1>5. stack' \in [Threads -> Seq(Activations)] /\ Top' = act
  BY <1>3, <1>4, BecomeFacts
<1>6. TypeOK'
  BY <1>3, <1>5 DEF IrqSafe, TypeOK
<1>7. StackShape'
  BY <1>1, <1>3, <1>4, BecomeShape
<1>8. SamePending /\ PendingOnce' /\ \A w : Waking(w)' <=> Waking(w)
  BY <1>1, <1>3, <1>4, <1>5, BecomeSame, SameWaking
<1>9. BootPhase' /\ SwitchLocals'
  BY <1>1, <1>2, <1>3, <1>4, <1>5 DEF IrqSafe, BootPhase, SwitchLocals
<1>10. WorkersPlaced'
  BY <1>1, <1>3, <1>4, <1>5, <1>8, SamePlaces DEF Leaving, Coming, Switching
<1>11. QueuedEvents' /\ PendingEvents'
  BY <1>1, <1>3, <1>4, <1>5, <1>8, SamePendingEvents DEF IrqSafe, QueuedEvents, Switching
<1> QED
  BY <1>3, <1>6, <1>7, <1>8, <1>9, <1>10, <1>11 DEF IrqSafe

\* The event is still queued, and it becomes pending: a worker's wake event, or the
\* running thread's switch event.
LEMMA RemoveSafe ==
    ASSUME IrqSafe, event_remove
    PROVE  IrqSafe'
<1> DEFINE ev == Top.event
           act == [Top EXCEPT !.at = "call"]
<1>1. /\ Top.at = "remove" /\ current = cpu /\ cpu \in Threads /\ Top \in Activations
      /\ ev \in enq /\ ev \in Threads
  BY TopFacts DEF event_remove, At, IrqSafe, SwitchLocals, TypeOK
<1>2. /\ enq' = enq \ {ev} /\ etime' = [etime EXCEPT ![ev] = 0] /\ fault' = "none"
      /\ Become(act)
      /\ UNCHANGED <<current, ready, status, callback, timer, irq, cut, cpu, iflag>>
  BY <1>1 DEF event_remove, lists, machine, Goto
<1>3. act \in Activations /\ act.at = "call" /\ act.event = ev
  BY <1>1 DEF Activations, Points, Handling
<1> HIDE DEF act
<1>4. stack' \in [Threads -> Seq(Activations)] /\ Top' = act
  BY <1>2, <1>3, BecomeFacts
<1>5. TypeOK'
  <2>1. etime' \in [Threads -> Int] /\ enq' \subseteq Threads
    BY <1>1, <1>2 DEF IrqSafe, TypeOK
  <2> QED
    BY <1>2, <1>4, <2>1 DEF IrqSafe, TypeOK
<1>6. StackShape'
  BY <1>1, <1>2, <1>3, BecomeShape
<1>7. \A w \in Workers : ~Leaving(w) /\ ~Coming(w)
  BY <1>1 DEF Leaving, Coming
<1>8. \/ callback[ev] = "switch_thread" /\ ev = cpu
      \/ callback[ev] = "thread_wake" /\ ev \in Workers \ {cpu}
  BY <1>1 DEF IrqSafe, TypeOK, QueuedEvents, Switching
<1>9. ev \in Workers \ {cpu} => Asleep(ev)
  BY <1>1, <1>7 DEF IrqSafe, WorkersPlaced, Listed, Woken
<1>10. ~Waking(ev)
  <2>1. CASE ev \in Workers \ {cpu}
    BY <1>9, <2>1 DEF Asleep
  <2>2. CASE ev = cpu
    <3>1. ASSUME NEW t \in Threads, NEW i \in DOMAIN stack[t],
                 stack[t][i].event = cpu, stack[t][i].at \in {"call", "append"}
          PROVE  FALSE
      BY <1>1, <2>2, <3>1 DEF IrqSafe, PendingEvents
    <3> QED
      BY <2>2, <3>1 DEF Waking
  <2> QED
    BY <1>8, <2>1, <2>2
<1>11. Adds(ev)
  BY <1>1, <1>2, <1>3, BecomeAdds
<1> HIDE DEF ev
<1>12. PendingOnce' /\ \A w : Waking(w)' <=> Waking(w) \/ w = ev
  BY <1>1, <1>4, <1>10, <1>11, AddsWaking
<1>13. BootPhase' /\ SwitchLocals'
  <2>1. etime \in [Threads -> Int] /\ Boot \in Threads
    BY DEF IrqSafe, TypeOK, Threads
  <2>2. cpu = Boot => ev = Boot /\ etime'[Boot] <= 0
    BY <1>1, <1>2, <2>1 DEF IrqSafe, BootPhase
  <2> QED
    BY <1>1, <1>2, <1>3, <1>4, <2>2 DEF IrqSafe, BootPhase, SwitchLocals
<1>14. WorkersPlaced'
  BY <1>1, <1>2, <1>3, <1>4, <1>7, <1>8, <1>9, <1>12
     DEF IrqSafe, WorkersPlaced, Coming, Leaving, Listed, Asleep, Detached, Woken, Switching
<1>15. QueuedEvents'
  BY <1>1, <1>2, <1>3, <1>4 DEF IrqSafe, QueuedEvents, Switching
<1>16. PendingEvents'
  <2> SUFFICES ASSUME NEW t \in Threads, NEW i \in DOMAIN stack'[t],
                      stack'[t][i].at \in {"call", "append"}
               PROVE  LET e == stack'[t][i].event
                      IN  /\ stack'[t][i].at = "call" =>
                               /\ e \in Threads \ enq'
                               /\ \/ /\ callback'[e] = "thread_wake" /\ status'[e] = "SLEEPING"
                                     /\ e /= cpu'
                                  \/ /\ callback'[e] = "switch_thread" /\ e = cpu' /\ t = cpu'
                                     /\ Top'.at \notin Switching
                          /\ stack'[t][i].at = "append" =>
                               e \in Workers \ {cpu'} /\ status'[e] = "READY"
    BY DEF PendingEvents
  <2>1. i \in Nat
    BY <1>4
  <2>2. Pending(t, i)'
    BY DEF Pending
  <2>3. CASE Pending(t, i)
    <3>1. /\ stack'[t][i].event = stack[t][i].event /\ stack'[t][i].at = stack[t][i].at
          /\ i \in DOMAIN stack[t]
      BY <1>11, <2>1, <2>3 DEF Adds, Pending
    <3> QED
      BY <1>1, <1>2, <1>3, <1>4, <3>1 DEF IrqSafe, PendingEvents, Switching
  <2>4. CASE ~Pending(t, i)
    <3>1. t = cpu /\ stack'[t][i].event = ev /\ stack'[t][i].at = "call"
      BY <1>11, <2>1, <2>2, <2>4 DEF Adds
    <3>2. ev = cpu \/ status[ev] = "SLEEPING"
      BY <1>8, <1>9 DEF Asleep
    <3> QED
      BY <1>1, <1>2, <1>3, <1>4, <1>8, <3>1, <3>2 DEF Switching
  <2> QED
    BY <2>3, <2>4
<1> QED
  BY <1>2, <1>5, <1>6, <1>12, <1>13, <1>14, <1>15, <1>16 DEF IrqSafe

\* thread_wake's thread sleeps, so its assertion holds, and becomes READY.
LEMMA WakeSafe ==
    ASSUME IrqSafe, thread_wake
    PROVE  IrqSafe'
<1> DEFINE ev == Top.event
           act == [Top EXCEPT !.at = "append"]
<1>1. /\ Top.at = "call" /\ current = cpu /\ cpu \in Threads /\ Top \in Activations
      /\ callback[ev] = "thread_wake"
  BY TopFacts DEF thread_wake, At, IrqSafe, SwitchLocals
<1>2. /\ Waking(ev) /\ ev \in Threads /\ ev \notin enq /\ status[ev] = "SLEEPING"
      /\ ev \in Workers \ {cpu} /\ cpu /= Boot /\ ev /= Boot /\ Boot \in Threads
  BY <1>1, CallEvent, ThreadsAssumption DEF Threads
<1>3. /\ status' = [status EXCEPT ![ev] = "READY"]
      /\ Become(act)
      /\ UNCHANGED <<current, ready, enq, etime, callback, timer, irq, cut, cpu, iflag, fault>>
  BY <1>2 DEF thread_wake, evars, machine, Goto
<1>4. act \in Activations /\ act.at = "append" /\ act.event = ev
  BY <1>1 DEF Activations, Points, Handling
<1> HIDE DEF act, ev
<1>5. stack' \in [Threads -> Seq(Activations)] /\ Top' = act
  BY <1>3, <1>4, BecomeFacts
<1>6. /\ \A w \in Threads : status'[w] = IF w = ev THEN "READY" ELSE status[w]
      /\ status' \in [Threads -> {"READY", "RUNNING", "SLEEPING", "DONE"}]
  BY <1>2, <1>3 DEF IrqSafe, TypeOK
<1>7. TypeOK'
  BY <1>3, <1>5, <1>6 DEF IrqSafe, TypeOK
<1>8. StackShape'
  BY <1>1, <1>3, <1>4, BecomeShape
<1>9. ASSUME NEW t \in Threads, NEW i \in Nat
      PROVE  /\ Pending(t, i)' <=> Pending(t, i)
             /\ Pending(t, i) => stack'[t][i].event = stack[t][i].event
             /\ Pending(t, i) =>
                  \/ stack'[t][i] = stack[t][i] /\ stack[t][i].event /= ev
                  \/ stack'[t][i].at = "append" /\ stack'[t][i].event = ev
  <2>1. /\ DOMAIN stack'[t] = DOMAIN stack[t]
        /\ i \in DOMAIN stack[t] =>
             stack'[t][i] = IF t = cpu /\ i = depth THEN act ELSE stack[t][i]
    BY <1>3, <1>4, BecomeFacts
  <2>2. /\ depth \in DOMAIN stack[cpu] /\ stack[cpu][depth] = Top /\ Pending(cpu, depth)
    BY <1>1, TopFacts, CallEvent
  <2>3. CASE t = cpu /\ i = depth
    BY <1>1, <1>4, <2>1, <2>2, <2>3 DEF Pending, ev
  <2>4. CASE ~(t = cpu /\ i = depth)
    <3>1. Pending(t, i) => stack[t][i].event /= ev
      BY <1>1, <2>2, <2>4 DEF IrqSafe, PendingOnce, Pending, ev
    <3> QED
      BY <2>1, <2>4, <3>1 DEF Pending
  <2> QED
    BY <2>3, <2>4
<1>10. PendingOnce' /\ \A w : Waking(w)' <=> Waking(w)
  <2>1. SameEvents
    BY <1>9 DEF SameEvents
  <2> QED
    BY <1>5, <2>1, EventsWaking
<1>11. BootPhase' /\ SwitchLocals'
  BY <1>1, <1>2, <1>3, <1>4, <1>5, <1>6 DEF IrqSafe, BootPhase, SwitchLocals
<1>12. WorkersPlaced'
  <2>1. Workers \subseteq Threads
    BY DEF Threads
  <2>2. \A w \in Workers : ~Coming(w) /\ ~Leaving(w) /\ ~Coming(w)' /\ ~Leaving(w)'
    BY <1>1, <1>4, <1>5 DEF Coming, Leaving
  <2>3. ASSUME NEW w \in Workers, w /= cpu
        PROVE  Listed(w)' \/ Asleep(w)' \/ Woken(w)'
    BY <1>2, <1>3, <1>6, <1>10, <2>1, <2>2, <2>3
       DEF IrqSafe, WorkersPlaced, Listed, Asleep, Woken
  <2>4. cpu \in Workers => cpu \notin Range(ready') /\ status'[cpu] = "RUNNING"
    BY <1>1, <1>2, <1>3, <1>6 DEF IrqSafe, WorkersPlaced, Switching
  <2> QED
    BY <1>3, <2>2, <2>3, <2>4 DEF IrqSafe, WorkersPlaced
<1>13. QueuedEvents'
  BY <1>1, <1>3, <1>4, <1>5 DEF IrqSafe, QueuedEvents, Switching
<1>14. PendingEvents'
  <2> SUFFICES ASSUME NEW t \in Threads, NEW i \in DOMAIN stack'[t],
                      stack'[t][i].at \in {"call", "append"}
               PROVE  LET e == stack'[t][i].event
                      IN  /\ stack'[t][i].at = "call" =>
                               /\ e \in Threads \ enq'
                               /\ \/ /\ callback'[e] = "thread_wake" /\ status'[e] = "SLEEPING"
                                     /\ e /= cpu'
                                  \/ /\ callback'[e] = "switch_thread" /\ e = cpu' /\ t = cpu'
                                     /\ Top'.at \notin Switching
                          /\ stack'[t][i].at = "append" =>
                               e \in Workers \ {cpu'} /\ status'[e] = "READY"
    BY DEF PendingEvents
  <2>1. i \in Nat
    BY <1>5
  <2>2. Pending(t, i)
    BY <1>9, <2>1 DEF Pending
  <2>3. i \in DOMAIN stack[t]
    BY <2>2 DEF Pending
  <2>4. CASE stack'[t][i] = stack[t][i] /\ stack[t][i].event /= ev
    BY <1>1, <1>3, <1>4, <1>5, <1>6, <2>3, <2>4
       DEF IrqSafe, PendingEvents, Switching, Threads
  <2>5. CASE stack'[t][i].at = "append" /\ stack'[t][i].event = ev
    BY <1>2, <1>3, <1>6, <2>5
  <2> QED
    BY <1>9, <2>1, <2>2, <2>4, <2>5
<1> QED
  BY <1>3, <1>7, <1>8, <1>10, <1>11, <1>12, <1>13, <1>14 DEF IrqSafe

\* The thread that was woken is put on the ready list, where it was not before.
LEMMA AppendSafe ==
    ASSUME IrqSafe, wake_append
    PROVE  IrqSafe'
<1> DEFINE ev == Top.event
<1>1. /\ Top.at = "append" /\ current = cpu /\ cpu \in Threads /\ Top \in Activations
  BY TopFacts DEF wake_append, At, IrqSafe, SwitchLocals
<1>2. /\ Waking(ev) /\ ev \in Threads /\ status[ev] = "READY"
      /\ ev \in Workers \ {cpu} /\ cpu /= Boot
  BY <1>1, CallEvent
<1>3. /\ ready' = Append(ready, ev)
      /\ Become(Looping) /\ Looping \in Activations /\ Looping.at = "loop"
      /\ UNCHANGED <<current, status, enq, etime, callback, timer, irq, cut, cpu, iflag, fault>>
  BY <1>1, LoopingType DEF wake_append, thread_list_add, evars, machine
<1>4. stack' \in [Threads -> Seq(Activations)] /\ Top'.at = "loop"
  BY <1>3, BecomeFacts
<1>5. StackShape' /\ Drops
  BY <1>1, <1>3, BecomeShape, BecomeDrops
<1>6. PendingOnce' /\ \A w : Waking(w)' <=> Waking(w) /\ w /= ev
  BY <1>1, <1>4, <1>5, DropsWaking
<1>7. PendingEvents'
  BY <1>1, <1>3, <1>4, <1>5, DropsEvents DEF Switching
<1> HIDE DEF ev
<1>8. \A w \in Workers : ~Coming(w) /\ ~Leaving(w) /\ ~Coming(w)' /\ ~Leaving(w)'
  BY <1>1, <1>4 DEF Coming, Leaving
<1>9. Woken(ev)
  BY <1>2, <1>8 DEF IrqSafe, WorkersPlaced, Listed, Asleep
<1>10. /\ ready' \in Seq(Threads) /\ Range(ready') = Range(ready) \cup {ev}
       /\ IsInjective(ready')
  BY <1>2, <1>3, <1>9, AppendFacts DEF IrqSafe, TypeOK, WorkersPlaced, Woken
<1>11. TypeOK'
  BY <1>3, <1>4, <1>10 DEF IrqSafe, TypeOK
<1>12. BootPhase' /\ SwitchLocals'
  BY <1>1, <1>2, <1>3, <1>4 DEF IrqSafe, BootPhase, SwitchLocals
<1>13. WorkersPlaced'
  <2>1. ASSUME NEW w \in Workers, w /= cpu
        PROVE  Listed(w)' \/ Asleep(w)' \/ Woken(w)'
    BY <1>2, <1>3, <1>6, <1>8, <1>9, <1>10, <2>1, ZenonT(40)
       DEF IrqSafe, WorkersPlaced, Listed, Asleep, Woken
  <2>2. cpu \in Workers => cpu \notin Range(ready') /\ status'[cpu] = "RUNNING"
    BY <1>1, <1>2, <1>3, <1>10 DEF IrqSafe, WorkersPlaced, Switching
  <2> QED
    BY <1>2, <1>3, <1>8, <1>10, <2>1, <2>2 DEF IrqSafe, WorkersPlaced
<1>14. QueuedEvents'
  BY <1>1, <1>3, <1>4 DEF IrqSafe, QueuedEvents, Switching
<1> QED
  BY <1>3, <1>5, <1>6, <1>7, <1>11, <1>12, <1>13, <1>14 DEF IrqSafe

\* The activation whose event was a switch event is to loop, and switch_thread is
\* called from it.
LEMMA ExpireFacts ==
    ASSUME IrqSafe, quantum_expires
    PROVE  /\ Top.at = "call" /\ cpu' = cpu
           /\ stack' \in [Threads -> Seq(Activations)]
           /\ \A t \in Threads \ {cpu} : stack'[t] = stack[t]
           /\ Len(stack'[cpu]) = depth + 1 /\ DOMAIN stack'[cpu] = 1..(depth + 1)
           /\ stack'[cpu][depth].at = "loop" /\ stack'[cpu][depth + 1].at = "get"
           /\ \A i \in 1..depth : i /= depth => stack'[cpu][i] = stack[cpu][i]
           /\ Top'.at = "get"
<1> DEFINE s == [exec EXCEPT ![depth] = Looping]
           act == Activation("get", FALSE)
<1>1. /\ cpu \in Threads /\ exec \in Seq(Activations) /\ depth \in Nat /\ depth >= 1
      /\ depth = Len(exec) /\ DOMAIN exec = 1..depth /\ exec = stack[cpu] /\ Top \in Activations
      /\ stack \in [Threads -> Seq(Activations)]
  BY TopFacts DEF IrqSafe, TypeOK
<1>2. Looping \in Activations /\ Looping.at = "loop"
  BY <1>1, LoopingType
<1>3. act \in Activations /\ act.at = "get"
  BY ActivationType, Zenon DEF Activation, Points, Switching
<1>4. stack' = [stack EXCEPT ![cpu] = Append(s, act)] /\ Top.at = "call" /\ cpu' = cpu
  BY DEF quantum_expires, Use, At
<1> HIDE DEF act
<1>5. /\ s \in Seq(Activations) /\ Len(s) = depth /\ s[depth] = Looping
      /\ \A i \in 1..depth : i /= depth => s[i] = exec[i]
  BY <1>1, <1>2
<1> HIDE DEF s
<1>6. /\ Append(s, act) \in Seq(Activations) /\ Len(Append(s, act)) = depth + 1
      /\ DOMAIN Append(s, act) = 1..(depth + 1) /\ Append(s, act)[depth + 1] = act
      /\ \A i \in 1..depth : Append(s, act)[i] = s[i]
  BY <1>1, <1>3, <1>5
<1>7. /\ stack' \in [Threads -> Seq(Activations)] /\ stack'[cpu] = Append(s, act)
      /\ \A t \in Threads \ {cpu} : stack'[t] = stack[t]
  BY <1>1, <1>4, <1>6
<1>8. Top' = act
  BY <1>4, <1>6, <1>7 DEF Top, exec, depth
<1>9. stack'[cpu][depth] = Looping
  BY <1>1, <1>5, <1>6, <1>7
<1>10. \A i \in 1..depth : i /= depth => stack'[cpu][i] = stack[cpu][i]
  BY <1>1, <1>5, <1>6, <1>7
<1> QED
  BY <1>2, <1>3, <1>4, <1>6, <1>7, <1>8, <1>9, <1>10, Zenon

\* That call keeps the shape of the stacks and drops the event.
LEMMA ExpireShape ==
    ASSUME IrqSafe, quantum_expires
    PROVE  StackShape' /\ Drops
<1>1. /\ Top.at = "call" /\ cpu' = cpu
      /\ \A t \in Threads \ {cpu} : stack'[t] = stack[t]
      /\ stack' \in [Threads -> Seq(Activations)]
      /\ Len(stack'[cpu]) = depth + 1 /\ DOMAIN stack'[cpu] = 1..(depth + 1)
      /\ stack'[cpu][depth].at = "loop" /\ stack'[cpu][depth + 1].at = "get"
      /\ \A i \in 1..depth : i /= depth => stack'[cpu][i] = stack[cpu][i]
  BY ExpireFacts
<1>2. /\ depth \in Nat /\ depth >= 1 /\ depth = Len(stack[cpu]) /\ cpu \in Threads
      /\ DOMAIN stack[cpu] = 1..depth /\ stack[cpu][depth].at = "call"
  BY <1>1, TopFacts
<1>3. ASSUME NEW t \in Threads PROVE stack'[t] /= <<>>
  <2>1. CASE t = cpu
    <3>1. Len(stack'[t]) /= 0
      BY <1>1, <1>2, <2>1
    <3> QED
      BY <3>1
  <2>2. CASE t /= cpu
    <3>1. stack'[t] = stack[t]
      BY <1>1, <2>2
    <3>2. stack[t] /= <<>>
      BY DEF IrqSafe, StackShape
    <3> QED
      BY <3>1, <3>2
  <2> QED
    BY <2>1, <2>2
<1>4. ASSUME NEW t \in Threads, NEW i \in 1..(Len(stack'[t]) - 1)
      PROVE  stack'[t][i].at \in {"run", "loop", "call", "append", "tail"}
  <2>1. CASE t = cpu
    <3>1. i \in 1..depth
      BY <1>1, <1>2, <1>4, <2>1
    <3>2. CASE i = depth
      BY <1>1, <2>1, <3>2
    <3>3. CASE i /= depth
      <4>1. stack'[t][i] = stack[t][i] /\ i \in 1..(Len(stack[t]) - 1)
        BY <1>1, <1>2, <2>1, <3>1, <3>3
      <4> QED
        BY <4>1 DEF IrqSafe, StackShape
    <3> QED
      BY <3>2, <3>3
  <2>2. CASE t /= cpu
    <3>1. stack'[t] = stack[t]
      BY <1>1, <2>2
    <3> QED
      BY <1>4, <3>1 DEF IrqSafe, StackShape
  <2> QED
    BY <2>1, <2>2
<1>5. ASSUME NEW t \in Threads \ {Boot}, NEW i \in 1..Len(stack'[t])
      PROVE  stack'[t][i].at = "run" <=> i = 1
  <2>1. CASE t = cpu
    <3>1. i \in 1..(depth + 1)
      BY <1>1, <2>1
    <3>2. depth \in Nat /\ depth >= 2
      <4>1. depth \in 1..Len(stack[t])
        BY <1>2, <2>1
      <4>2. depth /= 1
        BY <1>2, <2>1, <4>1 DEF IrqSafe, StackShape
      <4>3. depth \in Nat /\ depth >= 1
        BY <1>2
      <4> QED
        BY <4>2, <4>3
    <3>3. CASE i = depth \/ i = depth + 1
      <4>1. i /= 1
        BY <3>2, <3>3
      <4>2. stack'[t][i].at \in {"loop", "get"}
        BY <1>1, <2>1, <3>3
      <4> QED
        BY <4>1, <4>2
    <3>4. CASE ~(i = depth \/ i = depth + 1)
      <4>1. i \in 1..depth /\ i \in 1..Len(stack[t])
        BY <1>2, <2>1, <3>1, <3>4
      <4>2. stack'[t][i] = stack[t][i]
        BY <1>1, <2>1, <3>4, <4>1
      <4> QED
        BY <4>1, <4>2 DEF IrqSafe, StackShape
    <3> QED
      BY <3>3, <3>4
  <2>2. CASE t /= cpu
    <3>1. stack'[t] = stack[t]
      BY <1>1, <2>2
    <3> QED
      BY <1>5, <3>1 DEF IrqSafe, StackShape
  <2> QED
    BY <2>1, <2>2
<1>6. ASSUME NEW t \in Threads \ {cpu}
      PROVE  stack'[t][Len(stack'[t])].at = "resched"
  BY <1>1 DEF IrqSafe, StackShape
<1>7. Drops
  <2> SUFFICES ASSUME NEW t \in Threads, NEW i \in Nat
               PROVE  /\ Pending(t, i)' <=> Pending(t, i) /\ ~(t = cpu /\ i = depth)
                      /\ Pending(t, i)' => /\ stack'[t][i].event = stack[t][i].event
                                           /\ stack'[t][i].at = stack[t][i].at
    BY DEF Drops
  <2>1. CASE t /= cpu
    <3>1. stack'[t] = stack[t]
      BY <1>1, <2>1
    <3> QED
      BY <2>1, <3>1 DEF Pending
  <2>2. CASE t = cpu /\ i \in {depth, depth + 1}
    <3>1. ~Pending(t, i)' /\ (Pending(t, i) => i = depth)
      BY <1>1, <1>2, <2>2 DEF Pending
    <3> QED
      BY <2>2, <3>1
  <2>3. CASE t = cpu /\ i \notin {depth, depth + 1}
    <3>1. i \in DOMAIN stack'[t] <=> i \in DOMAIN stack[t]
      BY <1>1, <1>2, <2>3
    <3>2. i \in DOMAIN stack[t] => stack'[t][i] = stack[t][i]
      BY <1>1, <1>2, <2>3
    <3> QED
      BY <2>3, <3>1, <3>2 DEF Pending
  <2> QED
    BY <2>1, <2>2, <2>3
<1> QED
  BY <1>1, <1>3, <1>4, <1>5, <1>6, <1>7 DEF StackShape

\* The running thread calls switch_thread when its quantum has expired.
LEMMA ExpireSafe ==
    ASSUME IrqSafe, quantum_expires
    PROVE  IrqSafe'
<1>1. /\ Top.at = "call" /\ current = cpu /\ cpu \in Threads /\ Top'.at = "get"
      /\ callback[Top.event] = "switch_thread"
      /\ stack' \in [Threads -> Seq(Activations)]
  BY TopFacts, ExpireFacts DEF quantum_expires, IrqSafe, SwitchLocals
<1>2. Top.event = cpu /\ Waking(cpu) /\ cpu \notin enq
  BY <1>1, CallEvent
<1>3. UNCHANGED <<current, ready, status, enq, etime, callback, timer, irq, cut, cpu,
                  iflag, fault>>
  BY DEF quantum_expires, lists, evars, machine
<1>4. StackShape' /\ Drops
  BY ExpireShape
<1>5. PendingOnce' /\ \A w : Waking(w)' <=> Waking(w) /\ w /= cpu
  BY <1>1, <1>2, <1>4, DropsWaking
<1>6. PendingEvents'
  BY <1>1, <1>2, <1>3, <1>4, DropsEvents
<1>7. TypeOK'
  BY <1>1, <1>3 DEF IrqSafe, TypeOK
<1>8. BootPhase' /\ SwitchLocals'
  BY <1>1, <1>3 DEF IrqSafe, BootPhase, SwitchLocals
<1>9. WorkersPlaced'
  BY <1>1, <1>2, <1>3, <1>5, ZenonT(40)
     DEF IrqSafe, WorkersPlaced, Coming, Leaving, Listed, Asleep, Detached, Woken, Switching
<1>10. QueuedEvents'
  BY <1>1, <1>2, <1>3, ZenonT(40) DEF IrqSafe, QueuedEvents, Switching
<1> QED
  BY <1>3, <1>4, <1>5, <1>6, <1>7, <1>8, <1>9, <1>10 DEF IrqSafe

\* handle_next_event sets the timer and returns.
LEMMA TailSafe ==
    ASSUME IrqSafe, timer_fire_at
    PROVE  IrqSafe'
<1>1. /\ Top.at = "tail" /\ cpu = current /\ cpu \in Threads /\ cpu /= Boot /\ depth > 1
      /\ Top \in Activations
  BY TopFacts, OuterFacts DEF timer_fire_at, At, IrqSafe, SwitchLocals, BootPhase
<1>2. /\ Return /\ iflag' = (Top.isr \/ iflag)
      /\ UNCHANGED <<current, ready, status, enq, etime, callback, irq, cut, cpu, fault>>
  BY DEF timer_fire_at, lists, evars
<1>3. timer' \in Nat \cup {Off}
  <2>1. etime \in [Threads -> Int] /\ enq \subseteq Threads /\ timer \in Nat \cup {Off}
    BY DEF IrqSafe, TypeOK
  <2> QED
    BY <2>1, TimeAssumption DEF timer_fire_at, event_peek_next
<1>4. iflag' \in BOOLEAN
  BY <1>2
<1>5. /\ stack' \in [Threads -> Seq(Activations)]
      /\ Top'.at \in {"run", "loop", "call", "append", "tail"}
  BY <1>1, <1>2, ReturnFacts, ReturnTop
<1>6. TypeOK'
  BY <1>2, <1>3, <1>4, <1>5 DEF IrqSafe, TypeOK
<1>7. StackShape'
  BY <1>1, <1>2, ReturnShape
<1>8. SamePending /\ PendingOnce' /\ \A w : Waking(w)' <=> Waking(w)
  BY <1>1, <1>2, <1>5, ReturnSame, SameWaking
<1>9. BootPhase' /\ SwitchLocals'
  BY <1>1, <1>2, <1>5 DEF IrqSafe, BootPhase, SwitchLocals
<1>10. WorkersPlaced'
  BY <1>1, <1>2, <1>5, <1>8, SamePlaces DEF Leaving, Coming, Switching
<1>11. QueuedEvents' /\ PendingEvents'
  BY <1>1, <1>2, <1>5, <1>8, SamePendingEvents DEF IrqSafe, QueuedEvents, Switching
<1> QED
  BY <1>2, <1>6, <1>7, <1>8, <1>9, <1>10, <1>11 DEF IrqSafe
=============================================================================
