----------------------------- MODULE SchedProofs -----------------------------
(***************************************************************************)
(* SchedInvariant is inductive, for any set of workers, quantum and sleep  *)
(* times; the safety properties of Sched follow from it.  Like Sched, the  *)
(* theorems assume that the timer interrupt is not delivered inside the    *)
(* scheduler; SchedIrqProofs says what holds without that.                 *)
(***************************************************************************)
EXTENDS Sched, ListFacts

-----------------------------------------------------------------------------
\* get_next_thread finds the idle thread, or a worker that is READY and is
\* not on the rest of the list.
LEMMA NextThread ==
    ASSUME SchedInvariant
    PROVE  /\ ready_rest \in Seq(Threads)
           /\ IsInjective(ready_rest)
           /\ Range(ready_rest) = Range(ready) \ {get_next_thread}
           /\ \/ get_next_thread = Idle
              \/ /\ get_next_thread \in Workers \ {current}
                 /\ get_next_thread \in Range(ready)
                 /\ status[get_next_thread] = "READY"
                 /\ get_next_thread \notin enq
           /\ get_next_thread \in Threads \ {Boot}
<1> USE DEF SchedInvariant, get_next_thread, ready_rest
<1>1. CASE ready = <<>>
  <2>1. Range(ready) = {} /\ IsInjective(ready) /\ ready \in Seq(Threads)
    BY <1>1 DEF Range, ThreadsAccounted, TypeOK
  <2> QED
    BY <1>1, <2>1, ThreadsAssumption DEF Threads
<1>2. CASE ready /= <<>>
  <2>1. /\ Head(ready) \in Range(ready) /\ Tail(ready) \in Seq(Threads)
        /\ IsInjective(Tail(ready)) /\ Range(Tail(ready)) = Range(ready) \ {Head(ready)}
    BY <1>2, TailFacts DEF TypeOK, ThreadsAccounted
  <2>2. Head(ready) \in Workers \ {current}
    BY <2>1 DEF ThreadsAccounted
  <2>3. status[Head(ready)] = "READY" /\ Head(ready) \notin enq
    BY <2>1, <2>2 DEF ThreadsAccounted
  <2> QED
    BY <1>2, <2>1, <2>2, <2>3, ThreadsAssumption DEF Threads
<1> QED
  BY <1>1, <1>2

-----------------------------------------------------------------------------
(* Every step preserves the invariant.                                     *)

LEMMA InitEstablishes == Init => SchedInvariant
<1> SUFFICES ASSUME Init PROVE SchedInvariant
  OBVIOUS
<1> USE DEF Init
<1>1. BootOrder \in Seq(Threads)
  BY BootOrderAssumption DEF Threads
<1>2. TypeOK
  <2>1. irq \in BOOLEAN /\ panic \in BOOLEAN
    BY Zenon
  <2>2. /\ current \in Threads /\ ready \in Seq(Threads) /\ enq \subseteq Threads
        /\ status \in [Threads -> {"READY", "RUNNING", "SLEEPING", "DONE"}]
        /\ pc \in [Threads -> PCs]
    BY <1>1 DEF Threads, PCs
  <2>3. /\ etime \in [Threads -> Int] /\ timer \in Nat \cup {Off}
        /\ callback \in [Threads -> {"switch_thread", "thread_wake"}]
    OBVIOUS
  <2> QED
    BY <2>1, <2>2, <2>3 DEF TypeOK
<1>3. ThreadsAccounted
  BY BootOrderAssumption, ThreadsAssumption DEF ThreadsAccounted, Threads
<1>4. ~panic /\ RunningHasQuantum
  BY DEF RunningHasQuantum, Threads
<1>5. ParkedStacks /\ RunningStatus
  BY ThreadsAssumption DEF ParkedStacks, RunningStatus, Threads
<1> QED
  BY <1>2, <1>3, <1>4, <1>5 DEF SchedInvariant

\* A worker goes to sleep: it leaves a wake event, and another thread runs.
LEMMA SleepPreserves ==
    ASSUME SchedInvariant, NEW time \in SleepTimes, thread_sleep(time)
    PROVE  SchedInvariant'
<1> DEFINE next == get_next_thread
           st == [[status EXCEPT ![current] = "SLEEPING"] EXCEPT ![next] = "RUNNING"]
<1>1. /\ current \in Workers /\ current \in Threads /\ current /= Idle /\ current /= Boot
      /\ pc[current] = "run" /\ time \in Int
  BY ThreadsAssumption, TimeAssumption DEF thread_sleep, SchedInvariant, Threads
<1>2. /\ ready_rest \in Seq(Threads) /\ IsInjective(ready_rest)
      /\ Range(ready_rest) = Range(ready) \ {next}
      /\ next \in Threads \ {Boot} /\ next /= current
      /\ \/ next = Idle
         \/ /\ next \in Workers \ {current} /\ next \in Range(ready)
            /\ status[next] = "READY" /\ next \notin enq
  BY NextThread, <1>1
<1>3. /\ current' = next
      /\ status' = st
      /\ ready' = ready_rest
      /\ enq' = enq \cup {current, next}
      /\ etime' = [[etime EXCEPT ![current] = time] EXCEPT ![next] = Quantum]
      /\ callback' = [[callback EXCEPT ![current] = "thread_wake"]
                        EXCEPT ![next] = "switch_thread"]
      /\ pc' = [pc EXCEPT ![current] = "yield", ![next] = Resumed(next)]
      /\ UNCHANGED <<timer, irq, panic>>
  <2>1. st[current] = "SLEEPING"
    BY <1>1, <1>2 DEF SchedInvariant, TypeOK
  <2> QED
    BY <1>1, <1>2, <2>1
       DEF thread_sleep, switch_thread, maybe_reschedule_thread, SetEvent
<1> HIDE DEF next
<1>4. TypeOK'
  <2>1. Resumed(next) \in PCs /\ Quantum \in Int
    BY TimeAssumption DEF Resumed, PCs
  <2>2. pc' \in [Threads -> PCs]
    BY <1>1, <1>2, <1>3, <2>1 DEF SchedInvariant, TypeOK, PCs
  <2>3. etime' \in [Threads -> Int]
    BY <1>1, <1>2, <1>3, <2>1 DEF SchedInvariant, TypeOK
  <2> QED
    BY <1>1, <1>2, <1>3, <2>2, <2>3 DEF SchedInvariant, TypeOK
<1>5. ThreadsAccounted'
  BY <1>1, <1>2, <1>3, ThreadsAssumption
     DEF SchedInvariant, TypeOK, ThreadsAccounted, Threads
<1>6. ~panic' /\ RunningHasQuantum'
  BY <1>1, <1>2, <1>3
     DEF SchedInvariant, TypeOK, RunningHasQuantum
<1>7. ParkedStacks'
  BY <1>1, <1>2, <1>3, ThreadsAssumption, TimeAssumption
     DEF SchedInvariant, TypeOK, ThreadsAccounted, ParkedStacks, Resumed, Threads
<1>8. RunningStatus'
  BY <1>1, <1>2, <1>3, ThreadsAssumption
     DEF SchedInvariant, TypeOK, RunningStatus, Threads
<1> QED
  BY <1>4, <1>5, <1>6, <1>7, <1>8 DEF SchedInvariant

\* A wake event is due: its thread is asleep, and becomes ready.
LEMMA WakePreserves ==
    ASSUME SchedInvariant, NEW e \in Threads, thread_wake(e)
    PROVE  SchedInvariant'
<1>1. /\ e \in enq /\ etime[e] <= 0 /\ callback[e] = "thread_wake"
      /\ e /= current /\ e \in Workers /\ e \notin Range(ready) /\ status[e] = "SLEEPING"
  <2>1. e \in enq /\ etime[e] <= 0 /\ callback[e] = "thread_wake"
    BY DEF thread_wake, event_peek_next
  <2>2. e /= current
    BY <2>1 DEF SchedInvariant, RunningHasQuantum
  <2>3. e \in Workers
    BY <2>1, <2>2 DEF SchedInvariant, RunningStatus, Threads
  <2> QED
    BY <2>1, <2>2, <2>3 DEF SchedInvariant, ThreadsAccounted
<1>2. /\ enq' = enq \ {e} /\ status' = [status EXCEPT ![e] = "READY"]
      /\ ready' = Append(ready, e)
      /\ UNCHANGED <<current, etime, callback, pc, timer, irq, panic>>
  BY <1>1 DEF thread_wake
<1>3. /\ ready' \in Seq(Threads) /\ IsInjective(ready')
      /\ Range(ready') = Range(ready) \cup {e}
  BY <1>1, <1>2, AppendFacts DEF SchedInvariant, TypeOK, ThreadsAccounted
<1>4. TypeOK'
  BY <1>2, <1>3 DEF SchedInvariant, TypeOK
<1>5. ThreadsAccounted'
  BY <1>1, <1>2, <1>3 DEF SchedInvariant, TypeOK, ThreadsAccounted, Threads
<1>6. ~panic' /\ RunningHasQuantum'
  BY <1>1, <1>2 DEF SchedInvariant, RunningHasQuantum
<1>7. ParkedStacks'
  BY <1>1, <1>2 DEF SchedInvariant, TypeOK, ParkedStacks, Threads
<1>8. RunningStatus'
  BY <1>1, <1>2, ThreadsAssumption DEF SchedInvariant, TypeOK, RunningStatus, Threads
<1> QED
  BY <1>4, <1>5, <1>6, <1>7, <1>8 DEF SchedInvariant

\* The switch event is due.  It is the current thread's own, and either the
\* idle thread keeps the CPU or the current thread is parked in the handler.
LEMMA ExpiryPreserves ==
    ASSUME SchedInvariant, NEW e \in Threads, quantum_expires(e)
    PROVE  SchedInvariant'
<1> DEFINE next == get_next_thread
           again == current /= Idle /\ current /= Boot
<1>1. e = current /\ current \in Threads /\ pc[current] = "loop" /\ Quantum \in Int
  BY TimeAssumption
     DEF quantum_expires, event_peek_next, SchedInvariant, TypeOK, RunningHasQuantum
<1>2. /\ ready_rest \in Seq(Threads) /\ IsInjective(ready_rest)
      /\ Range(ready_rest) = Range(ready) \ {next}
      /\ next \in Threads \ {Boot}
      /\ \/ next = Idle
         \/ /\ next \in Workers \ {current} /\ next \in Range(ready)
            /\ status[next] = "READY" /\ next \notin enq
  BY NextThread
<1>3. CASE next = current
  <2>1. current = Idle
    BY <1>2, <1>3
  <2>2. /\ UNCHANGED <<current, status, timer, irq, panic>>
        /\ ready' = ready_rest
        /\ enq' = (enq \ {current}) \cup {current}
        /\ etime' = [etime EXCEPT ![current] = Quantum]
        /\ callback' = [callback EXCEPT ![current] = "switch_thread"]
        /\ pc' = [pc EXCEPT ![current] = "loop"]
    BY <1>1, <1>3 DEF quantum_expires, switch_thread, SetEvent
  <2>3. Range(ready_rest) = Range(ready)
    BY <1>2, <1>3 DEF SchedInvariant, ThreadsAccounted
  <2> HIDE DEF next
  <2>4. TypeOK'
    BY <1>1, <1>2, <2>2 DEF SchedInvariant, TypeOK, PCs
  <2>5. ThreadsAccounted'
    BY <1>1, <1>2, <2>1, <2>2, <2>3, ThreadsAssumption
       DEF SchedInvariant, TypeOK, ThreadsAccounted, Threads
  <2>6. ~panic' /\ RunningHasQuantum'
    BY <1>1, <2>2 DEF SchedInvariant, TypeOK, RunningHasQuantum
  <2>7. ParkedStacks' /\ RunningStatus'
    BY <1>1, <2>1, <2>2, ThreadsAssumption
       DEF SchedInvariant, TypeOK, ParkedStacks, RunningStatus, Threads
  <2> QED
    BY <2>4, <2>5, <2>6, <2>7 DEF SchedInvariant
<1>4. CASE next /= current
  <2>1. again <=> current /= Idle /\ status[current] \in {"READY", "RUNNING"}
    BY DEF SchedInvariant, TypeOK, RunningStatus, Threads
  <2>2. /\ current' = next
        /\ status' = IF again
                     THEN [[status EXCEPT ![next] = "RUNNING"] EXCEPT ![current] = "READY"]
                     ELSE [status EXCEPT ![next] = "RUNNING"]
        /\ ready' = IF again THEN Append(ready_rest, current) ELSE ready_rest
        /\ enq' = (enq \ {current}) \cup {next}
        /\ etime' = [etime EXCEPT ![next] = Quantum]
        /\ callback' = [callback EXCEPT ![next] = "switch_thread"]
        /\ pc' = [pc EXCEPT ![current] = "loop", ![next] = Resumed(next)]
        /\ UNCHANGED <<timer, irq, panic>>
    <3>1. [status EXCEPT ![next] = "RUNNING"][current] = status[current]
      BY <1>1, <1>2, <1>4 DEF SchedInvariant, TypeOK
    <3> QED
      BY <1>1, <1>4, <2>1, <3>1
         DEF quantum_expires, switch_thread, maybe_reschedule_thread, SetEvent
  <2> HIDE DEF next
  <2>3. current \notin Range(ready)
    BY DEF SchedInvariant, ThreadsAccounted
  <2>4. /\ ready' \in Seq(Threads) /\ IsInjective(ready')
        /\ Range(ready') = (Range(ready) \ {next}) \cup (IF again THEN {current} ELSE {})
    <3>1. /\ Append(ready_rest, current) \in Seq(Threads)
          /\ Range(Append(ready_rest, current)) = Range(ready_rest) \cup {current}
          /\ IsInjective(Append(ready_rest, current))
      BY <1>1, <1>2, <2>3, AppendFacts
    <3> QED
      BY <1>2, <2>2, <3>1
  <2>5. TypeOK'
    <3>1. pc' \in [Threads -> PCs]
      BY <1>1, <1>2, <2>2 DEF SchedInvariant, TypeOK, PCs, Resumed
    <3>2. status' \in [Threads -> {"READY", "RUNNING", "SLEEPING", "DONE"}]
      BY <1>1, <1>2, <2>2 DEF SchedInvariant, TypeOK
    <3> QED
      BY <1>1, <1>2, <2>2, <2>4, <3>1, <3>2 DEF SchedInvariant, TypeOK
  <2>6. ThreadsAccounted'
    BY <1>1, <1>2, <1>4, <2>2, <2>3, <2>4, ThreadsAssumption
       DEF SchedInvariant, TypeOK, ThreadsAccounted, Threads
  <2>7. ~panic' /\ RunningHasQuantum'
    BY <1>1, <1>2, <2>2
       DEF SchedInvariant, TypeOK, RunningHasQuantum
  <2>8. ParkedStacks'
    BY <1>1, <1>2, <1>4, <2>2, ThreadsAssumption, TimeAssumption
       DEF SchedInvariant, TypeOK, ThreadsAccounted, ParkedStacks, Resumed, Threads
  <2>9. RunningStatus'
    BY <1>1, <1>2, <1>4, <2>2, ThreadsAssumption
       DEF SchedInvariant, TypeOK, RunningStatus, Threads
  <2> QED
    BY <2>5, <2>6, <2>7, <2>8, <2>9 DEF SchedInvariant
<1> QED
  BY <1>3, <1>4

\* The steps that move only the program counter of the current thread, the
\* clock or the timer.
LEMMA MachinePreserves ==
    ASSUME SchedInvariant,
           loop_exit \/ timer_fire_at \/ Tick \/ TimerFires \/ Interrupt
    PROVE  SchedInvariant'
<1>1. /\ UNCHANGED <<current, ready, status, enq, callback, panic>>
      /\ Off \in Int /\ current \in Threads /\ current \in enq
  BY DEF loop_exit, timer_fire_at, Tick, TimerFires, Interrupt, evars, Off,
         SchedInvariant, TypeOK, RunningHasQuantum
<1>2. /\ etime' \in [Threads -> Int]
      /\ \A t \in Threads : etime'[t] <= etime[t]
  <2>1. CASE Tick
    BY <2>1, TimeAssumption DEF Tick, SchedInvariant, TypeOK
  <2>2. CASE etime' = etime
    BY <2>2 DEF SchedInvariant, TypeOK
  <2> QED
    BY <2>1, <2>2 DEF loop_exit, timer_fire_at, TimerFires, Interrupt, evars
<1>3. timer' \in Nat \cup {Off}
  <2>1. CASE Tick
    BY <2>1 DEF Tick, SchedInvariant, TypeOK, Off
  <2>2. CASE timer_fire_at
    <3>1. \A t \in enq : Delay(etime[t]) \in Nat
      BY TimeAssumption DEF Delay, SchedInvariant, TypeOK
    <3> QED
      BY <2>2, <3>1 DEF timer_fire_at, SchedInvariant, TypeOK
  <2>3. CASE timer' \in {timer, Off}
    BY <2>3 DEF SchedInvariant, TypeOK
  <2> QED
    BY <2>1, <2>2, <2>3 DEF loop_exit, TimerFires, Interrupt
<1>4. irq' \in BOOLEAN
  BY Zenon DEF loop_exit, timer_fire_at, Tick, TimerFires, Interrupt,
               SchedInvariant, TypeOK
<1>5. \/ pc' = pc
      \/ \E p \in {"run", "loop", "tail"} :
            pc' = [pc EXCEPT ![current] = p] /\ current /= Boot
  <2>1. CASE loop_exit
    <3>1. etime[current] > 0 /\ etime[current] \in Int
      BY <1>1, <2>1 DEF loop_exit, SchedInvariant, TypeOK
    <3> QED
      BY <2>1, <3>1 DEF loop_exit, SchedInvariant, ParkedStacks
  <2>2. CASE timer_fire_at \/ Interrupt
    BY <2>2 DEF timer_fire_at, Interrupt, SchedInvariant, ParkedStacks
  <2>3. CASE Tick \/ TimerFires
    BY <2>3 DEF Tick, TimerFires
  <2> QED
    BY <2>1, <2>2, <2>3
<1>6. TypeOK'
  <2>1. pc' \in [Threads -> PCs]
    BY <1>5 DEF SchedInvariant, TypeOK, PCs
  <2>2. panic' \in BOOLEAN
    BY <1>1, Zenon DEF SchedInvariant, TypeOK
  <2>3. /\ current' \in Threads /\ ready' \in Seq(Threads) /\ enq' \subseteq Threads
        /\ status' \in [Threads -> {"READY", "RUNNING", "SLEEPING", "DONE"}]
        /\ callback' \in [Threads -> {"switch_thread", "thread_wake"}]
    BY <1>1 DEF SchedInvariant, TypeOK
  <2> QED
    BY <1>2, <1>3, <1>4, <2>1, <2>2, <2>3, Zenon DEF TypeOK
<1>7. ThreadsAccounted' /\ ~panic' /\ RunningHasQuantum' /\ RunningStatus'
  BY <1>1 DEF SchedInvariant, ThreadsAccounted, RunningHasQuantum,
              RunningStatus
<1>8. ParkedStacks'
  <2>1. /\ etime \in [Threads -> Int] /\ pc \in [Threads -> PCs]
        /\ Workers \subseteq Threads /\ Idle \in Threads /\ Boot \in Threads
    BY DEF SchedInvariant, TypeOK, Threads
  <2> QED
    BY <1>1, <1>2, <1>5, <2>1 DEF SchedInvariant, ParkedStacks
<1> QED
  BY <1>6, <1>7, <1>8 DEF SchedInvariant

LEMMA NextPreserves == SchedInvariant /\ [Next]_vars => SchedInvariant'
<1> SUFFICES ASSUME SchedInvariant, [Next]_vars PROVE SchedInvariant'
  OBVIOUS
<1>1. CASE Sleep
  BY <1>1, SleepPreserves DEF Sleep
<1>2. CASE Dispatch
  BY <1>2, WakePreserves, ExpiryPreserves DEF Dispatch
<1>3. CASE loop_exit \/ timer_fire_at \/ Tick \/ TimerFires \/ Interrupt
  BY <1>3, MachinePreserves
<1>4. CASE UNCHANGED vars
  BY <1>4 DEF vars, SchedInvariant, TypeOK, ThreadsAccounted,
              RunningHasQuantum, ParkedStacks, RunningStatus
<1> QED
  BY <1>1, <1>2, <1>3, <1>4 DEF Next

-----------------------------------------------------------------------------
(* The theorems.                                                           *)

\* The invariant holds in every state of the scheduler, if interrupts are masked
\* inside it.
THEOREM InvariantHolds == Spec => []SchedInvariant
  BY InitEstablishes, NextPreserves, PTL DEF Spec

\* The variables keep their types.
THEOREM TypeCorrect == Spec => []TypeOK
<1>1. SchedInvariant => TypeOK
  BY DEF SchedInvariant
<1> QED
  BY <1>1, InvariantHolds, PTL

\* No thread is lost or queued twice, whatever the workers do, if interrupts are
\* masked in the scheduler.
THEOREM NoThreadLost == Spec => []ThreadsAccounted
<1>1. SchedInvariant => ThreadsAccounted
  BY DEF SchedInvariant
<1> QED
  BY <1>1, InvariantHolds, PTL

\* The running thread's switch event, and no other, is in the queue, if
\* interrupts are masked in the scheduler.
THEOREM QuantumRequested == Spec => []RunningHasQuantum
<1>1. SchedInvariant => RunningHasQuantum
  BY DEF SchedInvariant
<1> QED
  BY <1>1, InvariantHolds, PTL

\* thread_sleep never returns before its time, if interrupts are masked in the
\* scheduler.
THEOREM SleepNotCutShort == Spec => SleepsLongEnough
<1> DEFINE LongEnough ==
      \A w \in Workers :
          pc[w] = "yield" /\ pc'[w] = "run" => etime[w] <= 0 /\ w \notin enq
<1>1. SchedInvariant /\ [Next]_vars => [LongEnough]_vars
  <2> SUFFICES ASSUME SchedInvariant, Next, NEW w \in Workers,
                      pc[w] = "yield", pc'[w] = "run"
               PROVE  etime[w] <= 0 /\ w \notin enq
    OBVIOUS
  <2>1. w /= current /\ w \in Threads
    BY DEF SchedInvariant, ParkedStacks, Threads
  <2>2. w = get_next_thread
    <3>1. pc \in [Threads -> PCs] /\ current \in Threads
      BY DEF SchedInvariant, TypeOK
    <3>2. CASE Sleep
      BY <3>1, <3>2, <2>1 DEF Sleep, thread_sleep, switch_thread
    <3>3. CASE Dispatch
      BY <3>1, <3>3, <2>1
         DEF Dispatch, thread_wake, quantum_expires, switch_thread
    <3>4. CASE loop_exit \/ timer_fire_at \/ Tick \/ TimerFires \/ Interrupt
      BY <3>1, <3>4, <2>1
         DEF loop_exit, timer_fire_at, Tick, TimerFires, Interrupt
    <3> QED
      BY <3>2, <3>3, <3>4 DEF Next
  <2>3. status[w] = "READY" /\ w \notin enq
    BY <2>2, NextThread, ThreadsAssumption
  <2> QED
    BY <2>1, <2>3 DEF SchedInvariant, ParkedStacks
<1> QED
  BY <1>1, InvariantHolds, PTL DEF Spec, SleepsLongEnough
=============================================================================
