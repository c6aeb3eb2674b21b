--------------------------- MODULE SchedIrqSwitch ---------------------------
(***************************************************************************)
(* thread_sleep and switch_thread preserve IrqSafe.                        *)
(***************************************************************************)
EXTENDS SchedIrqPending

\* thread_sleep, called from thread code, takes the thread from RUNNING to SLEEPING
\* with its wake event queued.
LEMMA SleepSafe ==
    ASSUME IrqSafe, NEW time \in SleepTimes, thread_sleep(time)
    PROVE  IrqSafe'
<1> DEFINE act == Activation("get", FALSE)
<1>1. /\ Top.at = "run" /\ current = cpu /\ cpu \in Workers /\ cpu /= Boot /\ depth = 1
      /\ cpu \in Threads /\ time \in Int
  BY OuterFacts, TimeAssumption, ThreadsAssumption
     DEF thread_sleep, At, IrqSafe, SwitchLocals, Threads
<1>2. /\ status' = [status EXCEPT ![cpu] = "SLEEPING"]
      /\ enq' = enq \cup {cpu}
      /\ etime' = [etime EXCEPT ![cpu] = time]
      /\ callback' = [callback EXCEPT ![cpu] = "thread_wake"]
      /\ Call(act) /\ iflag' = TRUE
      /\ UNCHANGED <<current, ready, timer, irq, cut, cpu, fault>>
  BY <1>1, Zenon DEF thread_sleep, event_enqueue, unlock_scheduler, machine
<1>3. act \in Activations /\ act.at = "get"
  BY ActivationType, Zenon DEF Activation, Points, Switching
<1> HIDE DEF act
<1>4. stack' \in [Threads -> Seq(Activations)] /\ Top' = act /\ Top'.at = "get"
  BY <1>2, <1>3, CallFacts
<1>5. TypeOK'
  BY <1>1, <1>2, <1>4, Zenon DEF IrqSafe, TypeOK
<1>6. StackShape'
  BY <1>1, <1>2, <1>3, CallShape
<1>7. BootPhase' /\ SwitchLocals'
  BY <1>1, <1>2, <1>4 DEF IrqSafe, TypeOK, BootPhase, SwitchLocals
<1>8. SamePending /\ PendingOnce' /\ \A w : Waking(w)' <=> Waking(w)
  BY <1>2, <1>3, <1>4, CallSame, SameWaking
<1>9. ~Waking(cpu)
  <2>1. \A i \in DOMAIN stack[cpu] : stack[cpu][i].at = "run"
    BY <1>1, TopFacts
  <2>2. ASSUME NEW t \in Threads, NEW i \in DOMAIN stack[t], t /= cpu,
               stack[t][i].event = cpu, stack[t][i].at \in {"call", "append"}
        PROVE  FALSE
    BY <2>2 DEF IrqSafe, PendingEvents
  <2> QED
    BY <2>1, <2>2 DEF Waking
<1>10. WorkersPlaced'
  BY <1>1, <1>2, <1>4, <1>8, <1>9
     DEF IrqSafe, TypeOK, WorkersPlaced, Coming, Leaving, Listed, Asleep, Detached, Woken,
         Switching
<1>11. QueuedEvents'
  BY <1>1, <1>2, <1>4 DEF IrqSafe, TypeOK, QueuedEvents, Switching
<1>12. PendingEvents'
  BY <1>1, <1>2, <1>4, <1>8, <1>9, SamePendingEvents, Zenon DEF IrqSafe, TypeOK
<1> QED
  BY <1>2, <1>5, <1>6, <1>7, <1>8, <1>10, <1>11, <1>12 DEF IrqSafe

\* switch_thread reads the list and the current thread.
LEMMA GetSafe ==
    ASSUME IrqSafe, get_next_thread
    PROVE  IrqSafe'
<1> DEFINE at == IF ready = <<>> THEN "set" ELSE "pop"
           next == IF ready = <<>> THEN Idle ELSE Head(ready)
           last == Len(ready) = 1
           act == [Top EXCEPT !.at = at, !.this = current, !.next = next,
                              !.last = last, !.freed = FALSE]
<1>1. /\ Top.at = "get" /\ current = cpu /\ cpu \in Threads /\ Top \in Activations
      /\ ready \in Seq(Threads)
  BY TopFacts DEF get_next_thread, At, IrqSafe, SwitchLocals, TypeOK
<1>2. /\ Become(act)
      /\ UNCHANGED <<current, ready, status, enq, etime, callback, timer, irq, cut, cpu,
                     iflag, fault>>
  BY DEF get_next_thread, lists, evars, machine
<1>3. ready /= <<>> => Head(ready) \in Threads
  BY <1>1
<1>4. /\ act \in Activations /\ act.at = at /\ act.this = cpu /\ act.next = next
      /\ act.last = last /\ act.freed = FALSE
  <2>1. at \in Points /\ next \in Threads /\ last \in BOOLEAN
    BY <1>3 DEF Points, Switching, Threads
  <2> HIDE DEF at, next, last
  <2> QED
    BY <1>1, <2>1, Zenon DEF Activations
<1> HIDE DEF act
<1>5. stack' \in [Threads -> Seq(Activations)] /\ Top' = act
  BY <1>2, <1>4, BecomeFacts
<1>6. TypeOK'
  BY <1>2, <1>5 DEF IrqSafe, TypeOK
<1>7. StackShape'
  BY <1>1, <1>2, <1>4, BecomeShape
<1>8. SamePending /\ PendingOnce' /\ \A w : Waking(w)' <=> Waking(w)
  BY <1>1, <1>2, <1>4, <1>5, BecomeSame, SameWaking
<1>9. BootPhase'
  BY <1>1, <1>2, <1>4, <1>5 DEF IrqSafe, BootPhase
<1>10. SwitchLocals'
  BY <1>1, <1>2, <1>4, <1>5 DEF SwitchLocals
<1>11. WorkersPlaced'
  BY <1>1, <1>2, <1>4, <1>5, <1>8, ThreadsAssumption
     DEF IrqSafe, WorkersPlaced, Coming, Leaving, Listed, Asleep, Detached, Woken, Switching
<1>12. QueuedEvents' /\ PendingEvents'
  BY <1>1, <1>2, <1>4, <1>5, <1>8, SamePendingEvents DEF IrqSafe, QueuedEvents, Switching
<1> QED
  BY <1>2, <1>6, <1>7, <1>8, <1>9, <1>10, <1>11, <1>12 DEF IrqSafe

\* Marking the freed node moves no activation but the one that takes it off the
\* list.
LEMMA PopFacts ==
    ASSUME IrqSafe, thread_list_pop
    PROVE  /\ stack' \in [Threads -> Seq(Activations)]
           /\ \A t \in Threads : /\ Len(stack'[t]) = Len(stack[t])
                                 /\ DOMAIN stack'[t] = DOMAIN stack[t]
           /\ \A t \in Threads : \A i \in DOMAIN stack[t] :
                /\ stack'[t][i].at = IF t = cpu /\ i = depth THEN "set" ELSE stack[t][i].at
                /\ stack'[t][i].event = stack[t][i].event
           /\ depth' = depth /\ Top' = [Top EXCEPT !.at = "set"]
<1> DEFINE New(t, i) == IF t = cpu /\ i = depth THEN [Top EXCEPT !.at = "set"]
                        ELSE Freed(stack[t][i])
<1>1. ~Top.freed /\ cpu' = cpu
  BY DEF thread_list_pop, At, IrqSafe, SwitchLocals
<1>2. stack' = [t \in Threads |-> [i \in DOMAIN stack[t] |-> New(t, i)]]
  BY <1>1 DEF thread_list_pop
<1>3. ASSUME NEW t \in Threads, NEW i \in DOMAIN stack[t]
      PROVE  /\ New(t, i) \in Activations
             /\ New(t, i).at = IF t = cpu /\ i = depth THEN "set" ELSE stack[t][i].at
             /\ New(t, i).event = stack[t][i].event
  <2>1. CASE t = cpu /\ i = depth
    <3>1. New(t, i) = [Top EXCEPT !.at = "set"] /\ Top = stack[t][i] /\ Top \in Activations
      BY <2>1, TopFacts
    <3> QED
      BY <2>1, <3>1 DEF Activations, Points, Switching
  <2>2. CASE ~(t = cpu /\ i = depth)
    <3>1. New(t, i) = Freed(stack[t][i]) /\ stack[t][i] \in Activations
      BY <2>2, OuterFacts
    <3>2. (stack[t][i].freed \/ stack[t][i].at = "pop") \in BOOLEAN
      OBVIOUS
    <3> QED
      BY <2>2, <3>1, <3>2, Zenon DEF Activations, Freed
  <2> QED
    BY <2>1, <2>2
<1> HIDE DEF New
<1>4. ASSUME NEW t \in Threads
      PROVE  /\ stack'[t] \in Seq(Activations) /\ Len(stack'[t]) = Len(stack[t])
             /\ DOMAIN stack'[t] = DOMAIN stack[t]
             /\ \A i \in DOMAIN stack[t] : stack'[t][i] = New(t, i)
  <2>1. DOMAIN stack[t] = 1..Len(stack[t]) /\ Len(stack[t]) \in Nat
    BY OuterFacts
  <2>2. stack'[t] = [i \in 1..Len(stack[t]) |-> New(t, i)]
    BY <1>2, <2>1
  <2>3. \A i \in 1..Len(stack[t]) : New(t, i) \in Activations
    BY <1>3, <2>1
  <2> QED
    BY <2>1, <2>2, <2>3
<1>5. stack' \in [Threads -> Seq(Activations)]
  BY <1>2, <1>4
<1>6. depth' = depth /\ Top' = New(cpu, depth)
  BY <1>1, <1>4, TopFacts DEF exec, depth, Top
<1>7. New(cpu, depth) = [Top EXCEPT !.at = "set"]
  BY DEF New
<1> QED
  BY <1>3, <1>4, <1>5, <1>6, <1>7

\* Taking the node off the list keeps the shape of the stacks and the pending events.
LEMMA PopShape ==
    ASSUME IrqSafe, thread_list_pop
    PROVE  StackShape' /\ SamePending
<1>1. /\ \A t \in Threads : /\ Len(stack'[t]) = Len(stack[t])
                            /\ DOMAIN stack'[t] = DOMAIN stack[t]
                            /\ stack'[t] \in Seq(Activations)
      /\ \A t \in Threads : \A i \in DOMAIN stack[t] :
           /\ stack'[t][i].at = IF t = cpu /\ i = depth THEN "set" ELSE stack[t][i].at
           /\ stack'[t][i].event = stack[t][i].event
      /\ cpu' = cpu
  BY PopFacts DEF thread_list_pop
<1>2. /\ \A t \in Threads : /\ Len(stack[t]) \in Nat /\ Len(stack[t]) >= 1
                            /\ DOMAIN stack[t] = 1..Len(stack[t])
      /\ depth = Len(stack[cpu]) /\ cpu \in Threads
      /\ stack[cpu][depth].at = "pop"
  BY OuterFacts, TopFacts DEF thread_list_pop, At
<1>3. ASSUME NEW t \in Threads PROVE stack'[t] /= <<>>
  BY <1>1, <1>2
<1>4. ASSUME NEW t \in Threads, NEW i \in 1..(Len(stack'[t]) - 1)
      PROVE  stack'[t][i].at \in {"run", "loop", "call", "append", "tail"}
  <2>1. i \in DOMAIN stack[t] /\ i \in 1..(Len(stack[t]) - 1) /\ i /= Len(stack[t])
    BY <1>1, <1>2
  <2>2. stack'[t][i].at = stack[t][i].at
    BY <1>1, <1>2, <2>1
  <2> QED
    BY <2>1, <2>2 DEF IrqSafe, StackShape
<1>5. ASSUME NEW t \in Threads, NEW i \in DOMAIN stack[t]
      PROVE  \/ stack'[t][i].at = stack[t][i].at
             \/ t = cpu /\ i = depth /\ stack[t][i].at = "pop" /\ stack'[t][i].at = "set"
  BY <1>1, <1>2
<1>6. ASSUME NEW t \in Threads \ {Boot}, NEW i \in 1..Len(stack'[t])
      PROVE  stack'[t][i].at = "run" <=> i = 1
  <2>1. i \in DOMAIN stack[t] /\ i \in 1..Len(stack[t])
    BY <1>1, <1>2
  <2>2. stack[t][i].at = "run" <=> i = 1
    BY <2>1 DEF IrqSafe, StackShape
  <2> QED
    BY <1>5, <2>1, <2>2
<1>7. ASSUME NEW t \in Threads \ {cpu}
      PROVE  stack'[t][Len(stack'[t])].at = "resched"
  <2>1. stack'[t][Len(stack[t])].at = stack[t][Len(stack[t])].at
    BY <1>1, <1>2
  <2> QED
    BY <1>1, <2>1 DEF IrqSafe, StackShape
<1>8. SamePending
  BY <1>1, <1>5 DEF SamePending, Pending
<1> QED
  BY <1>1, <1>3, <1>4, <1>6, <1>7, <1>8 DEF StackShape

\* The thread that was read is still the head of the list: it comes off the list
\* and is nowhere else.
LEMMA PopSafe ==
    ASSUME IrqSafe, thread_list_pop
    PROVE  IrqSafe'
<1>1. /\ Top.at = "pop" /\ current = cpu /\ cpu \in Threads /\ Top \in Activations
      /\ ready \in Seq(Threads) /\ ready /= <<>> /\ Top.next = Head(ready) /\ ~Top.freed
      /\ Top.last = (Len(ready) = 1) /\ Top.this = cpu
  BY TopFacts DEF thread_list_pop, At, IrqSafe, SwitchLocals, TypeOK
<1>2. /\ ready' = IF Top.last THEN <<>> ELSE Tail(ready)
      /\ UNCHANGED <<current, status, enq, etime, callback, timer, irq, cut, cpu, iflag, fault>>
  BY <1>1 DEF thread_list_pop, evars, machine
<1>3. /\ IsInjective(ready) /\ Range(ready) \subseteq Workers
  BY DEF IrqSafe, WorkersPlaced
<1>4. ready' = Tail(ready)
  BY <1>1, <1>2, <1>3, TailFacts, Zenon
<1>5. /\ Top.next \in Range(ready) /\ ready' \in Seq(Threads) /\ IsInjective(ready')
      /\ Range(ready') = Range(ready) \ {Top.next}
  BY <1>1, <1>3, <1>4, TailFacts
<1>6. /\ stack' \in [Threads -> Seq(Activations)]
      /\ Top'.at = "set" /\ Top'.this = cpu /\ Top'.next = Top.next
  BY <1>1, PopFacts, ZenonT(40) DEF Activations
<1>7. StackShape' /\ SamePending /\ PendingOnce' /\ \A w : Waking(w)' <=> Waking(w)
  BY <1>6, PopShape, SameWaking
<1>8. Top.next \in Workers \ {cpu}
  BY <1>1, <1>3, <1>5
     DEF IrqSafe, WorkersPlaced, Leaving, Asleep, Detached
<1>9. TypeOK'
  BY <1>2, <1>5, <1>6 DEF IrqSafe, TypeOK
<1>10. BootPhase' /\ SwitchLocals'
  BY <1>1, <1>2, <1>6, <1>8 DEF IrqSafe, BootPhase, SwitchLocals
<1>11. WorkersPlaced'
  BY <1>1, <1>2, <1>3, <1>5, <1>6, <1>7, <1>8
     DEF IrqSafe, WorkersPlaced, Coming, Leaving, Listed, Asleep, Detached, Woken, Switching
<1>12. QueuedEvents' /\ PendingEvents'
  BY <1>1, <1>2, <1>6, <1>7, SamePendingEvents DEF IrqSafe, QueuedEvents, Switching
<1> QED
  BY <1>2, <1>7, <1>9, <1>10, <1>11, <1>12 DEF IrqSafe

\* A thread that switch_thread is putting on the CPU has no event pending.
LEMMA ComingFacts ==
    ASSUME IrqSafe, Top.at \in Switching
    PROVE  \A w \in Workers \cup {Idle} : Coming(w) \/ w = Idle => ~Waking(w)
  BY WakingFacts, ThreadsAssumption DEF IrqSafe, WorkersPlaced, Detached

\* Only the idle thread keeps the CPU, and it gets a new switch event.
LEMMA KeepSafe ==
    ASSUME IrqSafe, switch_thread, Top.next = current
    PROVE  IrqSafe'
<1>1. /\ Top.at = "set" /\ current = cpu /\ cpu = Idle /\ cpu /= Boot /\ cpu \in Threads
      /\ depth > 1 /\ cpu \notin Workers
  BY TopFacts, OuterFacts, ThreadsAssumption DEF switch_thread, At, IrqSafe, SwitchLocals
<1>2. /\ enq' = enq \cup {cpu}
      /\ etime' = [etime EXCEPT ![cpu] = Quantum]
      /\ callback' = [callback EXCEPT ![cpu] = "switch_thread"]
      /\ Return
      /\ UNCHANGED <<current, ready, status, timer, irq, cut, cpu, iflag, fault>>
  BY <1>1 DEF switch_thread, event_enqueue, machine
<1>3. /\ stack' \in [Threads -> Seq(Activations)]
      /\ Top'.at \in {"run", "loop", "call", "append", "tail"}
  BY <1>1, <1>2, ReturnFacts, ReturnTop
<1>4. TypeOK'
  <2>1. Quantum \in Int
    BY TimeAssumption
  <2>2. etime' \in [Threads -> Int] /\ enq' \subseteq Threads
    BY <1>1, <1>2, <2>1 DEF IrqSafe, TypeOK
  <2>3. callback' \in [Threads -> {"switch_thread", "thread_wake"}]
    BY <1>1, <1>2 DEF IrqSafe, TypeOK
  <2> QED
    BY <1>2, <1>3, <2>2, <2>3 DEF IrqSafe, TypeOK
<1>5. StackShape'
  BY <1>1, <1>2, ReturnShape
<1>6. SamePending /\ PendingOnce' /\ \A w : Waking(w)' <=> Waking(w)
  BY <1>1, <1>2, <1>3, ReturnSame, SameWaking
<1>7. BootPhase' /\ SwitchLocals'
  BY <1>1, <1>2, <1>3 DEF IrqSafe, BootPhase, SwitchLocals
<1>8. ~Waking(cpu)
  BY <1>1, ComingFacts DEF Switching
<1>9. callback \in [Threads -> {"switch_thread", "thread_wake"}] /\ Workers \subseteq Threads
  BY DEF IrqSafe, TypeOK, Threads
<1>10. WorkersPlaced'
  BY <1>1, <1>2, <1>3, <1>6, <1>9
     DEF IrqSafe, WorkersPlaced, Coming, Leaving, Listed, Asleep, Detached, Woken, Switching
<1>11. QueuedEvents'
  BY <1>1, <1>2, <1>3, <1>9 DEF IrqSafe, QueuedEvents, Switching
<1>12. PendingEvents'
  BY <1>1, <1>2, <1>3, <1>6, <1>8, <1>9, SamePendingEvents DEF Switching
<1> QED
  BY <1>2, <1>4, <1>5, <1>6, <1>7, <1>10, <1>11, <1>12 DEF IrqSafe

\* current_thread is replaced by the thread that was taken off the list.
LEMMA SwitchSafe ==
    ASSUME IrqSafe, switch_thread, Top.next /= current
    PROVE  IrqSafe'
<1> DEFINE act == [Top EXCEPT !.at = "ctx"]
<1>1. /\ Top.at = "set" /\ current = cpu /\ cpu \in Threads /\ Top \in Activations
      /\ Top.next \in (Workers \ {cpu}) \cup {Idle} /\ Top.this = cpu
      /\ Top.next \in Threads /\ Top.next /= Boot /\ Top.next /= cpu /\ Boot \in Threads
  BY TopFacts, ThreadsAssumption DEF switch_thread, At, IrqSafe, SwitchLocals, Threads
<1>2. /\ current' = Top.next
      /\ status' = [status EXCEPT ![Top.next] = "RUNNING"]
      /\ Become(act)
      /\ UNCHANGED <<ready, enq, etime, callback, timer, irq, cut, cpu, iflag, fault>>
  BY DEF switch_thread, evars, machine, Goto
<1>3. act \in Activations /\ act.at = "ctx" /\ act.this = cpu /\ act.next = Top.next
  BY <1>1 DEF Activations, Points, Switching
<1> HIDE DEF act
<1>4. stack' \in [Threads -> Seq(Activations)] /\ Top' = act
  BY <1>2, <1>3, BecomeFacts
<1>5. /\ status \in [Threads -> {"READY", "RUNNING", "SLEEPING", "DONE"}]
      /\ Workers \subseteq Threads
  BY DEF IrqSafe, TypeOK, Threads
<1>6. TypeOK'
  BY <1>1, <1>2, <1>4, <1>5 DEF IrqSafe, TypeOK
<1>7. StackShape'
  BY <1>1, <1>2, <1>3, BecomeShape
<1>8. SamePending /\ PendingOnce' /\ \A w : Waking(w)' <=> Waking(w)
  BY <1>1, <1>2, <1>3, <1>4, BecomeSame, SameWaking
<1>9. BootPhase' /\ SwitchLocals'
  BY <1>1, <1>2, <1>3, <1>4, <1>5 DEF IrqSafe, BootPhase, SwitchLocals
<1>10. ~Waking(Top.next)
  BY <1>1, ComingFacts DEF Switching, Coming
<1>11. WorkersPlaced'
  BY <1>1, <1>2, <1>3, <1>4, <1>5, <1>8, ThreadsAssumption
     DEF IrqSafe, WorkersPlaced, Coming, Leaving, Listed, Asleep, Detached, Woken, Switching
<1>12. QueuedEvents' /\ PendingEvents'
  BY <1>1, <1>2, <1>3, <1>4, <1>5, <1>8, <1>10, SamePendingEvents
     DEF IrqSafe, QueuedEvents, Switching
<1> QED
  BY <1>2, <1>6, <1>7, <1>8, <1>9, <1>11, <1>12 DEF IrqSafe

\* switch_context changes the innermost activations of two stacks.
LEMMA ContextFacts ==
    ASSUME IrqSafe, switch_context
    PROVE  /\ Top.at = "ctx" /\ current = Top.next /\ cpu' = current /\ current /= cpu
           /\ current \in Workers \cup {Idle}
           /\ stack' \in [Threads -> Seq(Activations)]
           /\ \A t \in Threads : /\ Len(stack'[t]) = Len(stack[t])
                                 /\ DOMAIN stack'[t] = DOMAIN stack[t]
           /\ \A t \in Threads : \A i \in DOMAIN stack[t] :
                /\ stack'[t][i].at = IF t = cpu /\ i = depth THEN "resched" ELSE stack[t][i].at
                /\ stack'[t][i].event = stack[t][i].event \/ (t = cpu /\ i = depth)
           /\ Top'.at = "resched" /\ Top'.this = cpu
           /\ iflag' \in BOOLEAN
<1> DEFINE out == [Activation("resched", FALSE) EXCEPT !.if = iflag]
           n == Len(stack[current])
           in == [stack[current][n] EXCEPT !.this = cpu]
<1>1. /\ Top.at = "ctx" /\ cpu = Top.this /\ current = Top.next /\ current /= cpu
      /\ cpu \in Threads /\ current \in Threads /\ current \in Workers \cup {Idle}
      /\ Top \in Activations /\ iflag \in BOOLEAN
      /\ stack \in [Threads -> Seq(Activations)]
  BY TopFacts DEF switch_context, At, IrqSafe, SwitchLocals, TypeOK
<1>2. /\ stack' = [stack EXCEPT ![cpu][depth] = out, ![current][n].this = cpu]
      /\ cpu' = current /\ iflag' = stack[current][n].if
  BY <1>1 DEF switch_context
<1>3. /\ stack[current][n] \in Activations /\ stack[current][n].at = "resched"
      /\ n \in DOMAIN stack[current] /\ n \in Nat /\ stack[current] \in Seq(Activations)
  BY <1>1, OuterFacts DEF IrqSafe, StackShape
<1>4. out \in Activations /\ out.at = "resched"
  BY <1>1, ActivationType, ZenonT(40) DEF Activation, Activations, Points, Switching, Threads
<1>5. /\ in \in Activations /\ in.at = "resched" /\ in.this = cpu
      /\ in.event = stack[current][n].event
  BY <1>1, <1>3, ZenonT(40) DEF Activations
<1>6. /\ depth \in DOMAIN stack[cpu] /\ stack[cpu] \in Seq(Activations)
      /\ depth = Len(stack[cpu])
  BY <1>1, TopFacts
<1> HIDE DEF out, n
<1>7. /\ stack'[cpu] = [stack[cpu] EXCEPT ![depth] = out]
      /\ stack'[current] = [stack[current] EXCEPT ![n] = in]
      /\ \A t \in Threads \ {cpu, current} : stack'[t] = stack[t]
      /\ DOMAIN stack' = Threads
  BY <1>1, <1>2, Zenon
<1> HIDE DEF in
<1>8. /\ stack'[cpu] \in Seq(Activations) /\ Len(stack'[cpu]) = Len(stack[cpu])
      /\ DOMAIN stack'[cpu] = DOMAIN stack[cpu]
      /\ \A i \in DOMAIN stack[cpu] : stack'[cpu][i] = IF i = depth THEN out ELSE stack[cpu][i]
  BY <1>4, <1>6, <1>7
<1>9. /\ stack'[current] \in Seq(Activations) /\ Len(stack'[current]) = Len(stack[current])
      /\ DOMAIN stack'[current] = DOMAIN stack[current]
      /\ \A i \in DOMAIN stack[current] :
           stack'[current][i] = IF i = n THEN in ELSE stack[current][i]
  BY <1>3, <1>5, <1>7
<1>10. ASSUME NEW t \in Threads
       PROVE  /\ stack'[t] \in Seq(Activations)
              /\ Len(stack'[t]) = Len(stack[t]) /\ DOMAIN stack'[t] = DOMAIN stack[t]
              /\ \A i \in DOMAIN stack[t] :
                   /\ stack'[t][i].at = IF t = cpu /\ i = depth THEN "resched" ELSE stack[t][i].at
                   /\ stack'[t][i].event = stack[t][i].event \/ (t = cpu /\ i = depth)
  <2>1. CASE t = cpu
    BY <1>4, <1>8, <2>1
  <2>2. CASE t = current
    BY <1>1, <1>3, <1>5, <1>9, <2>2
  <2>3. CASE t \notin {cpu, current}
    BY <1>1, <1>7, <2>3
  <2> QED
    BY <2>1, <2>2, <2>3
<1>11. stack' = [t \in Threads |-> stack'[t]]
  BY <1>1, <1>2, Zenon
<1>12. stack' \in [Threads -> Seq(Activations)]
  BY <1>10, <1>11
<1>13. Top' = in
  <2>1. Top' = stack'[current][Len(stack'[current])]
    BY <1>2 DEF Top, exec, depth
  <2> QED
    BY <1>3, <1>9, <2>1 DEF n
<1>14. iflag' \in BOOLEAN
  BY <1>2, <1>3 DEF Activations
<1> QED
  BY <1>1, <1>2, <1>5, <1>10, <1>12, <1>13, <1>14, Zenon

\* switch_context keeps the shape of the stacks and the pending events.
LEMMA ContextShape ==
    ASSUME IrqSafe, switch_context
    PROVE  StackShape' /\ SamePending
<1>1. /\ \A t \in Threads : /\ Len(stack'[t]) = Len(stack[t])
                            /\ DOMAIN stack'[t] = DOMAIN stack[t]
                            /\ stack'[t] \in Seq(Activations)
      /\ \A t \in Threads : \A i \in DOMAIN stack[t] :
           /\ stack'[t][i].at = IF t = cpu /\ i = depth THEN "resched" ELSE stack[t][i].at
           /\ stack'[t][i].event = stack[t][i].event \/ (t = cpu /\ i = depth)
      /\ cpu' = current /\ current /= cpu
  BY ContextFacts
<1>2. /\ \A t \in Threads : /\ Len(stack[t]) \in Nat /\ Len(stack[t]) >= 1
                            /\ DOMAIN stack[t] = 1..Len(stack[t])
      /\ depth = Len(stack[cpu]) /\ cpu \in Threads
      /\ stack[cpu][depth].at = "ctx"
  BY OuterFacts, TopFacts, ContextFacts
<1>3. ASSUME NEW t \in Threads PROVE stack'[t] /= <<>>
  BY <1>1, <1>2
<1>4. ASSUME NEW t \in Threads, NEW i \in 1..(Len(stack'[t]) - 1)
      PROVE  stack'[t][i].at \in {"run", "loop", "call", "append", "tail"}
  <2>1. i \in DOMAIN stack[t] /\ i \in 1..(Len(stack[t]) - 1) /\ i /= Len(stack[t])
    BY <1>1, <1>2
  <2>2. stack'[t][i].at = stack[t][i].at
    BY <1>1, <1>2, <2>1
  <2> QED
    BY <2>1, <2>2 DEF IrqSafe, StackShape
<1>5. ASSUME NEW t \in Threads, NEW i \in DOMAIN stack[t]
      PROVE  \/ /\ stack'[t][i].at = stack[t][i].at
                /\ stack'[t][i].event = stack[t][i].event
             \/ /\ t = cpu /\ i = depth
                /\ stack[t][i].at = "ctx" /\ stack'[t][i].at = "resched"
  BY <1>1, <1>2
<1>6. ASSUME NEW t \in Threads \ {Boot}, NEW i \in 1..Len(stack'[t])
      PROVE  stack'[t][i].at = "run" <=> i = 1
  <2>1. i \in DOMAIN stack[t] /\ i \in 1..Len(stack[t])
    BY <1>1, <1>2
  <2>2. stack[t][i].at = "run" <=> i = 1
    BY <2>1 DEF IrqSafe, StackShape
  <2> QED
    BY <1>5, <2>1, <2>2
<1>7. ASSUME NEW t \in Threads \ {cpu'}
      PROVE  stack'[t][Len(stack'[t])].at = "resched"
  <2>1. CASE t = cpu
    BY <1>1, <1>2, <2>1
  <2>2. CASE t /= cpu
    <3>1. stack'[t][Len(stack[t])].at = stack[t][Len(stack[t])].at
      BY <1>1, <1>2, <2>2
    <3> QED
      BY <1>1, <2>2, <3>1 DEF IrqSafe, StackShape
  <2> QED
    BY <2>1, <2>2
<1>8. SamePending
  BY <1>1, <1>5 DEF SamePending, Pending
<1> QED
  BY <1>3, <1>4, <1>6, <1>7, <1>8 DEF StackShape

\* switch_context runs on the stack of the thread it is made for, and resumes a
\* thread that was switched out or is new.
LEMMA ContextSafe ==
    ASSUME IrqSafe, switch_context
    PROVE  IrqSafe'
<1>1. /\ Top.at = "ctx" /\ current = Top.next /\ cpu' = current /\ current /= cpu
      /\ current \in Workers \cup {Idle} /\ iflag' \in BOOLEAN
      /\ stack' \in [Threads -> Seq(Activations)]
      /\ Top'.at = "resched" /\ Top'.this = cpu
  BY ContextFacts
<1>2. /\ UNCHANGED <<current, ready, status, enq, etime, callback, timer, irq, cut, fault>>
      /\ cpu \in Threads /\ current \in Threads /\ current /= Boot
  BY <1>1, ThreadsAssumption, ZenonT(40)
     DEF switch_context, lists, evars, machine, IrqSafe, SwitchLocals, TypeOK
<1>3. TypeOK'
  BY <1>1, <1>2 DEF IrqSafe, TypeOK
<1>4. StackShape' /\ SamePending /\ PendingOnce' /\ \A w : Waking(w)' <=> Waking(w)
  BY <1>1, ContextShape, SameWaking
<1>5. BootPhase' /\ SwitchLocals'
  BY <1>1, <1>2 DEF IrqSafe, BootPhase, SwitchLocals
<1>6. ~Waking(current)
  BY <1>1, ComingFacts DEF Switching, Coming
<1>7. WorkersPlaced'
  BY <1>1, <1>2, <1>4
     DEF IrqSafe, WorkersPlaced, Coming, Leaving, Listed, Asleep, Detached, Woken, Switching
<1>8. QueuedEvents' /\ PendingEvents'
  BY <1>1, <1>2, <1>4, <1>6, SamePendingEvents, ZenonT(40) DEF IrqSafe, QueuedEvents, Switching
<1> QED
  BY <1>2, <1>3, <1>4, <1>5, <1>7, <1>8 DEF IrqSafe

\* maybe_reschedule_thread puts the old thread on the list unless it sleeps or is
\* done, and it was not there before.
LEMMA RescheduleSafe ==
    ASSUME IrqSafe, maybe_reschedule_thread
    PROVE  IrqSafe'
<1> DEFINE old == Top.this
           back == old /= Idle /\ status[old] \in {"READY", "RUNNING"}
<1>1. /\ Top.at = "resched" /\ current = cpu /\ cpu \in Threads /\ cpu /= Boot /\ depth > 1
      /\ old \in Threads \ {cpu}
  BY TopFacts, OuterFacts DEF maybe_reschedule_thread, At, IrqSafe, SwitchLocals, BootPhase
<1>2. /\ enq' = enq \cup {cpu}
      /\ etime' = [etime EXCEPT ![cpu] = Quantum]
      /\ callback' = [callback EXCEPT ![cpu] = "switch_thread"]
      /\ Return /\ iflag' = TRUE
      /\ status' = IF back THEN [status EXCEPT ![old] = "READY"] ELSE status
      /\ ready' = IF back THEN Append(ready, old) ELSE ready
      /\ UNCHANGED <<current, timer, irq, cut, cpu, fault>>
  BY <1>1 DEF maybe_reschedule_thread, event_enqueue, thread_list_add, unlock_scheduler,
              lists, machine
<1>3. /\ stack' \in [Threads -> Seq(Activations)]
      /\ Top'.at \in {"run", "loop", "call", "append", "tail"}
  BY <1>1, <1>2, ReturnFacts, ReturnTop, Zenon
<1>4. StackShape' /\ SamePending /\ PendingOnce' /\ \A w : Waking(w)' <=> Waking(w)
  BY <1>1, <1>2, <1>3, ReturnShape, ReturnSame, SameWaking
<1>5. /\ callback \in [Threads -> {"switch_thread", "thread_wake"}] /\ Workers \subseteq Threads
      /\ status \in [Threads -> {"READY", "RUNNING", "SLEEPING", "DONE"}]
      /\ ready \in Seq(Threads) /\ IsInjective(ready) /\ Range(ready) \subseteq Workers
  BY DEF IrqSafe, TypeOK, WorkersPlaced, Threads
<1>6. old \in Workers => Leaving(old)
  BY <1>1 DEF Leaving
<1>7. back => old \in Workers /\ Detached(old)
  BY <1>1, <1>6 DEF IrqSafe, BootPhase, WorkersPlaced, Asleep, Threads
<1>8. /\ ready' \in Seq(Threads) /\ IsInjective(ready') /\ Range(ready') \subseteq Workers
      /\ Range(ready') = IF back THEN Range(ready) \cup {old} ELSE Range(ready)
  <2>1. CASE back
    BY <1>1, <1>2, <1>5, <1>7, <2>1, AppendFacts DEF Detached
  <2>2. CASE ~back
    BY <1>2, <1>5, <2>2
  <2> QED
    BY <2>1, <2>2
<1>9. TypeOK'
  <2>1. Quantum \in Int
    BY TimeAssumption
  <2>2. etime' \in [Threads -> Int] /\ enq' \subseteq Threads
    BY <1>1, <1>2, <2>1 DEF IrqSafe, TypeOK
  <2>3. /\ callback' \in [Threads -> {"switch_thread", "thread_wake"}]
        /\ status' \in [Threads -> {"READY", "RUNNING", "SLEEPING", "DONE"}]
    BY <1>1, <1>2, <1>5
  <2> QED
    BY <1>2, <1>3, <1>8, <2>2, <2>3 DEF IrqSafe, TypeOK
<1>10. /\ \A w \in Threads : w /= cpu => callback'[w] = callback[w]
       /\ callback'[cpu] = "switch_thread"
       /\ \A w \in Threads : status'[w] = IF back /\ w = old THEN "READY" ELSE status[w]
  BY <1>1, <1>2, <1>5
<1> HIDE DEF back
<1>11. BootPhase' /\ SwitchLocals'
  <2>1. status'[Boot] = "DONE"
    BY <1>7, <1>10, ThreadsAssumption DEF IrqSafe, BootPhase, Threads
  <2> QED
    BY <1>1, <1>2, <1>3, <2>1 DEF IrqSafe, BootPhase, SwitchLocals
<1>12. ASSUME NEW w \in Workers
       PROVE  /\ w = cpu => w \notin Range(ready') /\ status'[w] = "RUNNING"
              /\ w /= cpu => Listed(w)' \/ Asleep(w)' \/ Woken(w)'
  <2>1. CASE w = cpu
    <3>1. Coming(w)
      BY <1>1, <2>1 DEF Coming
    <3>2. w \notin Range(ready) /\ status[w] = "RUNNING"
      BY <1>1, <3>1 DEF IrqSafe, WorkersPlaced, Detached
    <3> QED
      BY <1>1, <1>5, <1>8, <1>10, <2>1, <3>2
  <2>2. CASE w = old /\ back
    BY <1>1, <1>2, <1>4, <1>5, <1>7, <1>8, <1>10, <2>2, ZenonT(40) DEF Detached, Listed
  <2>3. CASE w = old /\ ~back
    <3>1. status[w] \notin {"READY", "RUNNING"}
      BY <2>3, ThreadsAssumption DEF back
    <3>2. Asleep(w)
      BY <1>6, <2>3, <3>1 DEF IrqSafe, WorkersPlaced
    <3>3. w \notin Range(ready') /\ w \in enq' /\ w /= cpu
      BY <1>1, <1>2, <1>8, <2>3, <3>2 DEF Asleep
    <3>4. callback'[w] = callback[w] /\ status'[w] = status[w]
      BY <1>5, <1>10, <2>3, <3>3
    <3> QED
      BY <1>4, <3>2, <3>3, <3>4 DEF Asleep
  <2>4. CASE w \notin {cpu, old}
    <3>1. ~Leaving(w) /\ ~Coming(w)
      BY <1>1, <2>4 DEF Leaving, Coming
    <3>2. Listed(w) \/ Asleep(w) \/ Woken(w)
      BY <2>4, <3>1 DEF IrqSafe, WorkersPlaced
    <3>3. w \in Range(ready') <=> w \in Range(ready)
      BY <1>8, <2>4
    <3>4. /\ w \in enq' <=> w \in enq
          /\ callback'[w] = callback[w] /\ status'[w] = status[w]
      BY <1>2, <1>5, <1>10, <2>4
    <3> QED
      BY <1>4, <2>4, <3>2, <3>3, <3>4 DEF Listed, Asleep, Woken
  <2> QED
    BY <2>1, <2>2, <2>3, <2>4
<1>13. WorkersPlaced'
  BY <1>2, <1>3, <1>8, <1>12 DEF WorkersPlaced, Coming, Leaving
<1>14. QueuedEvents'
  BY <1>1, <1>2, <1>3, <1>5, <1>10 DEF IrqSafe, QueuedEvents, TypeOK, Switching
<1>15. ~Waking(cpu) /\ (back => ~Waking(old))
  BY <1>1, <1>7, WakingFacts DEF Switching, Detached
<1>16. PendingEvents'
  BY <1>1, <1>2, <1>3, <1>4, <1>10, <1>15, SamePendingEvents DEF Switching
<1> QED
  BY <1>2, <1>4, <1>9, <1>11, <1>13, <1>14, <1>16 DEF IrqSafe
=============================================================================
