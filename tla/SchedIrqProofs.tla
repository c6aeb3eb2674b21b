--------------------------- MODULE SchedIrqProofs ---------------------------
(***************************************************************************)
(* The machine preserves IrqSafe, and with SchedIrqSwitch and SchedIrqHandler the *)
(* invariant of SchedIrq and what it implies.                              *)
(***************************************************************************)
EXTENDS SchedIrqSwitch, SchedIrqHandler

\* What a step that leaves the stacks alone preserves.
LEMMA IdleStack ==
    ASSUME IrqSafe, UNCHANGED <<cpu, stack>>
    PROVE  /\ Top' = Top /\ StackShape' /\ SamePending /\ PendingOnce'
           /\ \A w : Waking(w)' <=> Waking(w)
  BY DEF IrqSafe, StackShape, SamePending, PendingOnce, Pending, Waking, Top, exec, depth

\* Time passes.
LEMMA TickSafe ==
    ASSUME IrqSafe, Tick
    PROVE  IrqSafe'
<1>1. /\ UNCHANGED <<current, ready, status, enq, callback, irq, cut, cpu, stack, iflag, fault>>
      /\ etime' = [t \in Threads |->
                     IF t \in enq /\ etime[t] > -MaxLag THEN etime[t] - 1 ELSE etime[t]]
      /\ timer' = IF timer > 0 THEN timer - 1 ELSE timer
  BY DEF Tick, lists
<1>2. etime \in [Threads -> Int] /\ timer \in Nat \cup {Off} /\ MaxLag \in Nat /\ Boot \in Threads
  BY TimeAssumption DEF IrqSafe, TypeOK, Threads
<1>3. etime' \in [Threads -> Int] /\ (etime[Boot] <= 0 => etime'[Boot] <= 0)
  BY <1>1, <1>2
<1>4. timer' \in Nat \cup {Off} /\ (timer = Off => timer' = Off)
  BY <1>1, <1>2 DEF Off
<1>5. /\ Top' = Top /\ StackShape' /\ SamePending /\ PendingOnce'
      /\ \A w : Waking(w)' <=> Waking(w)
  BY <1>1, IdleStack
<1>6. TypeOK'
  BY <1>1, <1>3, <1>4 DEF IrqSafe, TypeOK
<1>7. BootPhase' /\ SwitchLocals'
  BY <1>1, <1>3, <1>4, <1>5 DEF IrqSafe, BootPhase, SwitchLocals
<1>8. WorkersPlaced'
  BY <1>1, <1>5, SamePlaces DEF Leaving, Coming
<1>9. QueuedEvents' /\ PendingEvents'
  BY <1>1, <1>5 DEF IrqSafe, QueuedEvents, PendingEvents
<1> QED
  BY <1>1, <1>5, <1>6, <1>7, <1>8, <1>9 DEF IrqSafe

\* The timer fires; it was not set while sched_init ran.
LEMMA TimerSafe ==
    ASSUME IrqSafe, TimerFires
    PROVE  IrqSafe'
<1>1. /\ UNCHANGED <<current, ready, status, enq, etime, callback, cut, cpu, stack, iflag, fault>>
      /\ timer = 0 /\ timer' = Off /\ irq' = TRUE
  BY DEF TimerFires, lists, evars
<1>2. /\ Top' = Top /\ StackShape' /\ SamePending /\ PendingOnce'
      /\ \A w : Waking(w)' <=> Waking(w)
  BY <1>1, IdleStack
<1>3. TypeOK'
  BY <1>1 DEF IrqSafe, TypeOK
<1>4. BootPhase' /\ SwitchLocals'
  BY <1>1, <1>2 DEF IrqSafe, BootPhase, SwitchLocals, Off
<1>5. WorkersPlaced'
  BY <1>1, <1>2, SamePlaces DEF Leaving, Coming
<1>6. QueuedEvents' /\ PendingEvents'
  BY <1>1, <1>2 DEF IrqSafe, QueuedEvents, PendingEvents
<1> QED
  BY <1>1, <1>2, <1>3, <1>4, <1>5, <1>6 DEF IrqSafe

\* An interrupt outside the windows.
LEMMA InterruptSafe ==
    ASSUME IrqSafe, Interrupt, cut' = {}
    PROVE  IrqSafe'
<1> DEFINE act == Activation("loop", TRUE)
<1>1. /\ Call(act) /\ irq /\ iflag' = FALSE /\ irq' = FALSE
      /\ UNCHANGED <<current, ready, status, enq, etime, callback, timer, cpu, fault>>
  BY Zenon DEF Interrupt, lists, evars
<1>2. Top.at \notin Switching /\ Top.at /= "remove"
  <2>1. \A w \in DOMAIN Windows : Top.at \notin Windows[w]
    BY DEF Interrupt
  <2> QED
    BY <2>1 DEF Windows
<1>3. /\ cpu \in Threads /\ cpu = current /\ Top \in Activations /\ cpu /= Boot
      /\ Top.at \in {"run", "loop", "call", "append", "tail"}
  BY <1>1, <1>2, TopFacts
     DEF IrqSafe, SwitchLocals, BootPhase, Switching, Activations, Points, Handling
<1>4. act \in Activations /\ act.at = "loop"
  BY ActivationType, Zenon DEF Activation, Points, Handling
<1> HIDE DEF act
<1>5. stack' \in [Threads -> Seq(Activations)] /\ Top' = act
  BY <1>1, <1>4, CallFacts
<1>6. TypeOK'
  BY <1>1, <1>5, ZenonT(40) DEF IrqSafe, TypeOK
<1>7. StackShape'
  BY <1>1, <1>3, <1>4, CallShape
<1>8. SamePending /\ PendingOnce' /\ \A w : Waking(w)' <=> Waking(w)
  BY <1>1, <1>4, <1>5, CallSame, SameWaking
<1>9. BootPhase' /\ SwitchLocals'
  BY <1>1, <1>3, <1>4, <1>5 DEF IrqSafe, BootPhase, SwitchLocals
<1>10. WorkersPlaced'
  BY <1>1, <1>3, <1>4, <1>5, <1>8, SamePlaces DEF Leaving, Coming, Switching
<1>11. QueuedEvents' /\ PendingEvents'
  BY <1>1, <1>2, <1>4, <1>5, <1>8, SamePendingEvents DEF IrqSafe, QueuedEvents, Switching
<1> QED
  BY <1>1, <1>6, <1>7, <1>8, <1>9, <1>10, <1>11 DEF IrqSafe

\* The state that sched_init starts in.
LEMMA InitSafe == Init => IrqInvariant
<1> SUFFICES ASSUME Init PROVE IrqSafe
  BY DEF IrqInvariant
<1> DEFINE first == Activation("loop", FALSE)
           boot == <<first>>
<1>1. /\ Boot \in Threads /\ Idle \in Threads /\ Workers \subseteq Threads
      /\ Boot \notin Workers /\ Idle /= Boot
  BY ThreadsAssumption DEF Threads
<1>2. /\ current = Boot /\ cpu = Boot /\ ready = BootOrder /\ enq = {Boot}
      /\ status = [t \in Threads |-> IF t = Boot THEN "DONE" ELSE "READY"]
      /\ etime = [t \in Threads |-> 0]
      /\ callback = [t \in Threads |-> "switch_thread"]
      /\ timer = Off /\ irq = FALSE /\ cut = {} /\ iflag = TRUE /\ fault = "none"
      /\ stack = [t \in Threads |-> IF t = Boot THEN boot ELSE NewStack]
  BY DEF Init
<1>3. /\ first \in Activations /\ first.at = "loop"
      /\ Activation("run", FALSE) \in Activations /\ Activation("run", FALSE).at = "run"
      /\ Activation("resched", FALSE) \in Activations
      /\ Activation("resched", FALSE).at = "resched"
  BY ActivationType, Zenon DEF Activation, Points, Switching, Handling
<1> HIDE DEF first
<1>4. /\ NewStack \in Seq(Activations) /\ Len(NewStack) = 3
      /\ NewStack[1].at = "run" /\ NewStack[2].at = "loop" /\ NewStack[3].at = "resched"
  <2> DEFINE run == Activation("run", FALSE)
             resched == Activation("resched", FALSE)
  <2>1. NewStack = <<run, first, resched>>
    BY DEF NewStack, first
  <2>2. run \in Activations /\ first \in Activations /\ resched \in Activations
    BY <1>3, Zenon
  <2>3. run.at = "run" /\ first.at = "loop" /\ resched.at = "resched"
    BY <1>3, Zenon
  <2> HIDE DEF run, resched
  <2> QED
    BY <2>1, <2>2, <2>3
<1>5. boot \in Seq(Activations) /\ Len(boot) = 1 /\ boot[1] = first
  BY <1>3
<1> HIDE DEF boot
<1>6. stack[Boot] = boot /\ \A t \in Threads \ {Boot} : stack[t] = NewStack
  BY <1>1, <1>2
<1>7. stack \in [Threads -> Seq(Activations)]
  BY <1>2, <1>4, <1>5
<1>8. Top.at = "loop" /\ Top = first /\ depth = 1
  BY <1>2, <1>3, <1>5, <1>6, Zenon DEF Top, exec, depth
<1>9. ready \in Seq(Threads) /\ IsInjective(ready) /\ Range(ready) = Workers
  <2>1. BootOrder \in Seq(Threads)
    BY <1>1, BootOrderAssumption
  <2> QED
    BY <1>2, <2>1, BootOrderAssumption
<1>10. TypeOK
  <2>1. status \in [Threads -> {"READY", "RUNNING", "SLEEPING", "DONE"}]
    BY <1>2
  <2>2. etime \in [Threads -> Int]
    BY <1>2
  <2>3. callback \in [Threads -> {"switch_thread", "thread_wake"}]
    BY <1>2
  <2> QED
    BY <1>1, <1>2, <1>7, <1>9, <2>1, <2>2, <2>3, Zenon DEF TypeOK
<1>11. \A t \in Threads : \A i \in DOMAIN stack[t] :
         /\ i \in 1..3 /\ stack[t][i].at \in {"run", "loop", "resched"}
         /\ t /= Boot => Len(stack[t]) = 3 /\ (stack[t][i].at = "run" <=> i = 1)
                         /\ (i /= 3 => stack[t][i].at \in {"run", "loop"})
         /\ t = Boot => Len(stack[t]) = 1
  <2>1. ASSUME NEW i \in DOMAIN NewStack
        PROVE  /\ i \in 1..3 /\ NewStack[i].at \in {"run", "loop", "resched"}
               /\ NewStack[i].at = "run" <=> i = 1
               /\ i /= 3 => NewStack[i].at \in {"run", "loop"}
    <3>1. i \in 1..3
      BY <1>4
    <3>2. i = 1 \/ i = 2 \/ i = 3
      BY <3>1
    <3> QED
      BY <1>4, <3>1, <3>2
  <2>2. ASSUME NEW i \in DOMAIN boot
        PROVE  i \in 1..3 /\ boot[i].at \in {"run", "loop", "resched"}
    BY <1>3, <1>5
  <2> QED
    BY <1>4, <1>5, <1>6, <2>1, <2>2
<1>12. StackShape
  <2>1. ASSUME NEW t \in Threads PROVE stack[t] /= <<>>
    <3>1. CASE t = Boot
      <4>1. Len(stack[t]) = 1
        BY <1>5, <1>6, <3>1
      <4> QED
        BY <4>1
    <3>2. CASE t /= Boot
      <4>1. Len(stack[t]) = 3
        BY <1>4, <1>6, <3>2
      <4> QED
        BY <4>1
    <3> QED
      BY <3>1, <3>2
  <2>2. ASSUME NEW t \in Threads, NEW i \in 1..(Len(stack[t]) - 1)
        PROVE  stack[t][i].at \in {"run", "loop", "call", "append", "tail"}
    <3>1. CASE t = Boot
      <4>1. Len(stack[t]) = 1
        BY <1>5, <1>6, <3>1
      <4>2. i \in 1..(1 - 1)
        BY <4>1
      <4> QED
        BY <4>2
    <3>2. CASE t /= Boot
      <4>1. Len(stack[t]) = 3
        BY <1>4, <1>6, <3>2
      <4>2. i \in 1..(3 - 1)
        BY <4>1
      <4>3. i \in DOMAIN stack[t] /\ i /= 3
        BY <1>7, <4>1, <4>2
      <4> QED
        BY <1>11, <3>2, <4>3
    <3> QED
      BY <3>1, <3>2
  <2>3. ASSUME NEW t \in Threads \ {Boot}, NEW i \in 1..Len(stack[t])
        PROVE  stack[t][i].at = "run" <=> i = 1
    <3>1. i \in DOMAIN stack[t]
      BY <1>4, <1>6, <2>3
    <3> QED
      BY <1>11, <3>1
  <2>4. \A t \in Threads \ {cpu} : stack[t][Len(stack[t])].at = "resched"
    BY <1>2, <1>4, <1>6, Zenon
  <2> QED
    BY <2>1, <2>2, <2>3, <2>4 DEF StackShape
<1>13. BootPhase /\ SwitchLocals
  BY <1>1, <1>2, <1>8 DEF BootPhase, SwitchLocals
<1>14. \A w : ~Waking(w)
  BY <1>11 DEF Waking
<1>15. WorkersPlaced
  BY <1>1, <1>2, <1>8, <1>9, <1>14 DEF WorkersPlaced, Coming, Leaving, Listed
<1>16. QueuedEvents
  BY <1>1, <1>2, <1>8 DEF QueuedEvents, Switching
<1>17. PendingEvents /\ PendingOnce
  BY <1>11 DEF PendingEvents, PendingOnce, Pending
<1> QED
  BY <1>2, <1>10, <1>12, <1>13, <1>15, <1>16, <1>17 DEF IrqSafe

\* Every step preserves the invariant: one that makes no cut starts from a state
\* without one, where IrqSafe holds.
LEMMA StepSafe == IrqInvariant /\ [Next]_vars => IrqInvariant'
<1> SUFFICES ASSUME IrqInvariant, [Next]_vars, cut' = {} PROVE IrqSafe'
  BY DEF IrqInvariant
<1>1. cut = {}
  BY Zenon DEF Next, vars, machine, thread_sleep, get_next_thread, thread_list_pop, switch_thread,
         switch_context, maybe_reschedule_thread, find_due, event_remove, thread_wake,
         wake_append, quantum_expires, loop_exit, timer_fire_at, Tick, TimerFires,
         Interrupt, Torn
<1>2. IrqSafe
  BY <1>1 DEF IrqInvariant
<1>3. CASE \E time \in SleepTimes : thread_sleep(time)
  BY <1>2, <1>3, SleepSafe
<1>4. CASE get_next_thread
  BY <1>2, <1>4, GetSafe
<1>5. CASE thread_list_pop
  BY <1>2, <1>5, PopSafe
<1>6. CASE switch_thread
  BY <1>2, <1>6, KeepSafe, SwitchSafe
<1>7. CASE switch_context
  BY <1>2, <1>7, ContextSafe
<1>8. CASE maybe_reschedule_thread
  BY <1>2, <1>8, RescheduleSafe
<1>9. CASE find_due
  BY <1>2, <1>9, FindSafe
<1>10. CASE event_remove
  BY <1>2, <1>10, RemoveSafe
<1>11. CASE thread_wake
  BY <1>2, <1>11, WakeSafe
<1>12. CASE wake_append
  BY <1>2, <1>12, AppendSafe
<1>13. CASE quantum_expires
  BY <1>2, <1>13, ExpireSafe
<1>14. CASE loop_exit
  BY <1>2, <1>14, LoopExitSafe
<1>15. CASE timer_fire_at
  BY <1>2, <1>15, TailSafe
<1>16. CASE Tick
  BY <1>2, <1>16, TickSafe
<1>17. CASE TimerFires
  BY <1>2, <1>17, TimerSafe
<1>18. CASE Interrupt
  BY <1>2, <1>18, InterruptSafe
<1>19. CASE Torn
  BY <1>19 DEF Torn
<1>20. CASE UNCHANGED vars
  <2>1. UNCHANGED <<current, ready, status, enq, etime, callback, timer, irq, cut, cpu, stack,
                    iflag, fault>>
    BY <1>20 DEF vars, lists, evars, machine
  <2>2. /\ Top' = Top /\ StackShape' /\ PendingOnce'
        /\ \A w : Waking(w)' <=> Waking(w)
    BY <1>2, <2>1, IdleStack
  <2>3. TypeOK' /\ BootPhase' /\ SwitchLocals'
    BY <1>2, <2>1, <2>2 DEF IrqSafe, TypeOK, BootPhase, SwitchLocals
  <2>4. WorkersPlaced'
    BY <1>2, <2>1, <2>2, SamePlaces DEF Leaving, Coming
  <2>5. QueuedEvents' /\ PendingEvents'
    BY <1>2, <2>1, <2>2 DEF IrqSafe, QueuedEvents, PendingEvents
  <2> QED
    BY <1>2, <2>1, <2>2, <2>3, <2>4, <2>5 DEF IrqSafe
<1> QED
  BY <1>3, <1>4, <1>5, <1>6, <1>7, <1>8, <1>9, <1>10, <1>11, <1>12, <1>13, <1>14, <1>15,
     <1>16, <1>17, <1>18, <1>19, <1>20 DEF Next

\* As long as no interrupt was taken in one of the Windows, and none tore an
\* unlocked list or tree operation, the stacks, the locals of switch_thread, the
\* ready list, the event queue and the pending callbacks agree, for any number of
\* workers and any nesting of handle_next_event.
THEOREM IrqInvariantHolds == Spec => []IrqInvariant
  BY InitSafe, StepSafe, PTL DEF Spec

\* As long as no interrupt was taken in one of the Windows, thread_wake's assertion
\* (thread.c) holds, event_remove is given a queued event, thread_list_get_next a
\* node that was not freed, and switch_context the stack of the thread it saves,
\* however often handle_next_event is nested elsewhere.
THEOREM NoFaultWithoutCut == Spec => []NoFault
<1>1. IrqInvariant => NoFault
  BY DEF IrqInvariant, IrqSafe, NoFault
<1> QED
  BY <1>1, IrqInvariantHolds, PTL

\* As long as no interrupt was taken in one of the Windows, no worker is lost or
\* listed twice: whenever a thread runs its own code, every other worker is on the
\* ready list once, asleep with its wake event queued, or being woken.
THEOREM ThreadsAccountedWithoutCut == Spec => []ThreadsAccounted
<1>1. IrqInvariant => ThreadsAccounted
  <2> SUFFICES ASSUME IrqSafe, Top.at = "run"
               PROVE  /\ IsInjective(ready)
                      /\ Range(ready) \subseteq Workers \ {current}
                      /\ \A w \in Workers \ {current} : Listed(w) \/ Asleep(w) \/ Woken(w)
    BY DEF IrqInvariant, ThreadsAccounted, Listed, Asleep, Woken
  <2>1. current = cpu /\ \A w \in Workers : ~Leaving(w) /\ ~Coming(w)
    BY DEF IrqSafe, SwitchLocals, Leaving, Coming
  <2> QED
    BY <2>1 DEF IrqSafe, WorkersPlaced, Switching
<1> QED
  BY <1>1, IrqInvariantHolds, PTL
=============================================================================
