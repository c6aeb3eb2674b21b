------------------------------- MODULE Sched -------------------------------
(***************************************************************************)
(* The scheduler of kernel/multitasking/sched.c on its one CPU: threads    *)
(* that compute and sleep, the idle thread, the one-shot LAPIC timer and   *)
(* its interrupt handler handle_next_event, which runs the callbacks of    *)
(* the events that are due (switch_thread, thread_wake) and re-arms the    *)
(* timer.                                                                  *)
(*                                                                         *)
(* The masking assumption: the timer interrupt is delivered only while a   *)
(* thread executes code of its own.  That is what the comment `ISR => CLI' *)
(* and lock_scheduler aim at, but the code does not ensure it, and         *)
(* SchedIrq shows what follows when it fails.  Everything stated in this   *)
(* module is about the logic of the scheduler under that assumption.  A    *)
(* scheduler operation is then one step, up to the point at which another  *)
(* thread's stack is resumed and has left the scheduler or is back in      *)
(* handle_next_event's loop.  Every iteration of that loop is a step, and  *)
(* time passes between them.                                               *)
(*                                                                         *)
(* Times are relative to the clock: etime[t] stands for                    *)
(* t->event->time - tsc_read_ns(), so an event is due when it is <= 0.     *)
(***************************************************************************)
EXTENDS Integers, Sequences, Functions

CONSTANTS Workers,     \* threads created with thread_kcreate (one, two)
          Idle,        \* idle_thread
          Boot,        \* the `init' thread: the stack that called sched_init
          BootOrder,   \* ready_threads as sched_init leaves it
          Quantum,     \* SCHED_THREAD_QUANTUM, in ticks of the model's clock
          SleepTimes,  \* arguments of thread_sleep
          FarDelay,    \* what the LAPIC counts after its longest one-shot
          MaxLag       \* bound: how late the model tells two events apart

ASSUME ThreadsAssumption == Idle \notin Workers /\ Boot \notin Workers /\ Idle /= Boot
ASSUME BootOrderAssumption ==
    BootOrder \in Seq(Workers) /\ IsInjective(BootOrder) /\ Range(BootOrder) = Workers
ASSUME TimeAssumption ==
    /\ Quantum \in Nat \ {0} /\ FarDelay \in Nat /\ MaxLag \in Nat
    /\ SleepTimes \subseteq Nat

Threads == Workers \cup {Idle, Boot}
Off == -1

VARIABLES current,    \* current_thread
          ready,      \* ready_threads, head first
          status,     \* thread->status
          enq,        \* threads whose event is in the event queue
          etime,      \* time left until thread->event->time
          callback,   \* thread->event->callback
          pc,         \* where each thread is, or where its stack is parked
          timer,      \* counts until the one-shot fires, or Off
          irq,        \* a timer interrupt is pending
          panic       \* a kassert failed and kpanic halted the machine

evars == <<enq, etime, callback>>
vars == <<current, ready, status, enq, etime, callback, pc, timer, irq, panic>>

\* new:   never ran, its stack returns into init_thread
\* run:   in its own code
\* loop:  in the while loop of handle_next_event
\* tail:  behind that loop
\* yield: switched out inside thread_sleep
PCs == {"new", "run", "loop", "tail", "yield"}

TypeOK ==
    /\ current \in Threads
    /\ ready \in Seq(Threads)
    /\ status \in [Threads -> {"READY", "RUNNING", "SLEEPING", "DONE"}]
    /\ enq \subseteq Threads
    /\ etime \in [Threads -> Int]
    /\ callback \in [Threads -> {"switch_thread", "thread_wake"}]
    /\ pc \in [Threads -> PCs]
    /\ timer \in Nat \cup {Off}
    /\ irq \in BOOLEAN
    /\ panic \in BOOLEAN

-----------------------------------------------------------------------------
(* The event queue by its contract (TimerQueue); ties in any order.        *)

event_peek_next(e) == e \in enq /\ \A t \in enq : etime[e] <= etime[t]

\* Thread t writes its event and calls event_enqueue; en, et and cb are the
\* queue as the steps before left it.
SetEvent(t, delay, cb, en, et, cbs) ==
    /\ enq' = en \cup {t}
    /\ etime' = [et EXCEPT ![t] = delay]
    /\ callback' = [cbs EXCEPT ![t] = cb]

-----------------------------------------------------------------------------
(* Scheduler operations.                                                   *)

get_next_thread == IF ready = <<>> THEN Idle ELSE Head(ready)
ready_rest == IF ready = <<>> THEN <<>> ELSE Tail(ready)

\* Faulty variants: a sleeping thread is rescheduled; the quantum is not started.
maybe_reschedule_thread_asleep(thread, next, st, en, et, cbs) ==
    LET again == thread /= Idle /\ st[thread] /= "DONE"
    IN  /\ status' = IF again THEN [st EXCEPT ![thread] = "READY"] ELSE st
        /\ ready' = IF again THEN Append(ready_rest, thread) ELSE ready_rest
        /\ SetEvent(next, Quantum, "switch_thread", en, et, cbs)

maybe_reschedule_thread_unarmed(thread, next, st, en, et, cbs) ==
    LET again == thread /= Idle /\ st[thread] \in {"READY", "RUNNING"}
    IN  /\ status' = IF again THEN [st EXCEPT ![thread] = "READY"] ELSE st
        /\ ready' = IF again THEN Append(ready_rest, thread) ELSE ready_rest
        /\ enq' = en
        /\ etime' = [et EXCEPT ![next] = Quantum]
        /\ callback' = [cbs EXCEPT ![next] = "switch_thread"]

\* On the stack of the thread that was switched in: the thread switched out
\* goes back to the ready list if it can run, and the new current thread's
\* quantum starts.
maybe_reschedule_thread(thread, next, st, en, et, cbs) ==
    LET again == thread /= Idle /\ st[thread] \in {"READY", "RUNNING"}
    IN  /\ status' = IF again THEN [st EXCEPT ![thread] = "READY"] ELSE st
        /\ ready' = IF again THEN Append(ready_rest, thread) ELSE ready_rest
        /\ SetEvent(next, Quantum, "switch_thread", en, et, cbs)

\* Where a thread continues once switch_context returns on its stack and
\* maybe_reschedule_thread is done: a new thread calls handle_next_event, a
\* thread parked by the handler is back in its loop, and a thread parked in
\* thread_sleep returns to its own code.
Resumed(t) == IF pc[t] = "yield" THEN "run" ELSE "loop"

\* switch_thread, called by the current thread, which stays at `here' if it
\* keeps the CPU and is parked at `park' if it does not.
switch_thread(here, park, st, en, et, cbs) ==
    LET next == get_next_thread
    IN  \/ /\ next = current
           /\ SetEvent(current, Quantum, "switch_thread", en, et, cbs)
           /\ status' = st
           /\ ready' = ready_rest
           /\ pc' = [pc EXCEPT ![current] = here]
           /\ UNCHANGED current
        \/ /\ next /= current
           /\ current' = next
           /\ maybe_reschedule_thread(current, next,
                  [st EXCEPT ![next] = "RUNNING"], en, et, cbs)
           /\ pc' = [pc EXCEPT ![current] = park, ![next] = Resumed(next)]

\* A worker sleeps: its event becomes a wake event and it gives up the CPU.
thread_sleep(time) ==
    /\ ~panic
    /\ current \in Workers
    /\ pc[current] = "run"
    /\ switch_thread("run", "yield",
           [status EXCEPT ![current] = "SLEEPING"],
           enq \cup {current},
           [etime EXCEPT ![current] = time],
           [callback EXCEPT ![current] = "thread_wake"])
    /\ UNCHANGED <<timer, irq, panic>>

-----------------------------------------------------------------------------
(* handle_next_event.                                                      *)

\* Faulty variant: the event need not be due.
thread_wake_early(e) ==
    /\ ~panic
    /\ pc[current] = "loop"
    /\ event_peek_next(e)
    /\ callback[e] = "thread_wake"
    /\ enq' = enq \ {e}
    /\ status' = [status EXCEPT ![e] = "READY"]
    /\ ready' = Append(ready, e)
    /\ UNCHANGED <<current, etime, callback, pc, timer, irq, panic>>

\* The callback of a wake event, run by the thread the timer interrupted.
thread_wake(e) ==
    /\ ~panic
    /\ pc[current] = "loop"
    /\ event_peek_next(e) /\ etime[e] <= 0
    /\ callback[e] = "thread_wake"
    /\ enq' = enq \ {e}
    /\ IF status[e] = "SLEEPING"
       THEN /\ status' = [status EXCEPT ![e] = "READY"]
            /\ ready' = Append(ready, e)
            /\ UNCHANGED panic
       ELSE panic' = TRUE /\ UNCHANGED <<status, ready>>
    /\ UNCHANGED <<current, etime, callback, pc, timer, irq>>

\* The callback of a switch event.
quantum_expires(e) ==
    /\ ~panic
    /\ pc[current] = "loop"
    /\ event_peek_next(e) /\ etime[e] <= 0
    /\ callback[e] = "switch_thread"
    /\ switch_thread("loop", "loop", status, enq \ {e}, etime, callback)
    /\ UNCHANGED <<timer, irq, panic>>

\* Nothing is due: the loop ends.
loop_exit ==
    /\ ~panic
    /\ pc[current] = "loop"
    /\ \A e \in enq : etime[e] > 0
    /\ pc' = [pc EXCEPT ![current] = "tail"]
    /\ UNCHANGED <<current, ready, status, evars, timer, irq, panic>>

\* Faulty variant: the wrapped difference is not clamped.
Delay_unclamped(d) == d

\* The delay that the LAPIC is given for an event d ticks away: an event that
\* came due since the loop ended makes the unsigned difference wrap, and the
\* count is clamped to the longest one-shot.
Delay(d) == IF d < 0 THEN FarDelay ELSE d

\* Faulty variant: the handler returns without setting the timer.
timer_fire_at_never ==
    /\ ~panic
    /\ pc[current] = "tail"
    /\ pc' = [pc EXCEPT ![current] = "run"]
    /\ UNCHANGED <<current, ready, status, evars, timer, irq, panic>>

\* The timer is set for the next event and the handler returns.
timer_fire_at ==
    /\ ~panic
    /\ pc[current] = "tail"
    /\ IF enq = {} THEN UNCHANGED timer
       ELSE \E e \in enq : event_peek_next(e) /\ timer' = Delay(etime[e])
    /\ pc' = [pc EXCEPT ![current] = "run"]
    /\ UNCHANGED <<current, ready, status, evars, irq, panic>>

-----------------------------------------------------------------------------
(* The machine.                                                            *)

\* The clock advances by one tick.  While the handler runs it does not get
\* more than MaxLag ticks ahead of the queue; otherwise an event that is
\* MaxLag ticks late is not told apart from a later one.
Tick ==
    /\ ~panic
    /\ pc[current] = "run" \/ \A t \in enq : etime[t] > -MaxLag
    /\ etime' = [t \in Threads |->
                    IF t \in enq /\ etime[t] > -MaxLag THEN etime[t] - 1 ELSE etime[t]]
    /\ timer' = IF timer > 0 THEN timer - 1 ELSE timer
    /\ UNCHANGED <<current, ready, status, enq, callback, pc, irq, panic>>

\* The one-shot count reaches zero.
TimerFires ==
    /\ timer = 0
    /\ timer' = Off
    /\ irq' = TRUE
    /\ UNCHANGED <<current, ready, status, evars, pc, panic>>

\* Vector 32 is delivered; handle_next_event acknowledges it.  The condition on
\* pc is the masking assumption and not a test in the code: handle_next_event
\* and switch_thread do run with interrupts enabled.
Interrupt ==
    /\ ~panic
    /\ irq
    /\ pc[current] = "run"
    /\ irq' = FALSE
    /\ pc' = [pc EXCEPT ![current] = "loop"]
    /\ UNCHANGED <<current, ready, status, evars, timer, panic>>

\* sched_init, up to its call of handle_next_event.
Init ==
    /\ current = Boot
    /\ ready = BootOrder
    /\ status = [t \in Threads |-> IF t = Boot THEN "DONE" ELSE "READY"]
    /\ enq = {Boot}
    /\ etime = [t \in Threads |-> 0]
    /\ callback = [t \in Threads |-> "switch_thread"]
    /\ pc = [t \in Threads |-> IF t = Boot THEN "loop" ELSE "new"]
    /\ timer = Off
    /\ irq = FALSE
    /\ panic = FALSE

Dispatch == \E e \in Threads : thread_wake(e) \/ quantum_expires(e)
Sleep == \E time \in SleepTimes : thread_sleep(time)

Next ==
    \/ Sleep
    \/ Dispatch
    \/ loop_exit
    \/ timer_fire_at
    \/ Tick
    \/ TimerFires
    \/ Interrupt

Spec == Init /\ [][Next]_vars

-----------------------------------------------------------------------------
(* Safety.                                                                 *)

\* With interrupts masked in the scheduler, no thread is lost and none is in two
\* places: a worker that is not running is either READY and on the ready list,
\* once, or SLEEPING with its wake event in the queue; the running thread is in
\* neither place, and the idle and the boot thread are never on the ready list.
ThreadsAccounted ==
    /\ IsInjective(ready)
    /\ Range(ready) \subseteq Workers \ {current}
    /\ \A w \in Workers \ {current} :
         \/ /\ status[w] = "READY" /\ w \in Range(ready)
            /\ w \notin enq
         \/ /\ status[w] = "SLEEPING" /\ w \notin Range(ready)
            /\ w \in enq /\ callback[w] = "thread_wake"

\* With interrupts masked in the scheduler, between two scheduler operations the
\* current thread has asked to be preempted: its switch event is in the queue,
\* and no other thread's is.
RunningHasQuantum ==
    /\ current \in enq /\ callback[current] = "switch_thread"
    /\ \A t \in enq \ {current} : callback[t] = "thread_wake"

\* With interrupts masked in the scheduler, thread_sleep does not return early:
\* a thread parked in it gets the CPU only once its wake time has passed and its
\* wake event has been handled.
SleepsLongEnough ==
    [][\A w \in Workers :
          pc[w] = "yield" /\ pc'[w] = "run" => etime[w] <= 0 /\ w \notin enq]_vars

\* What the steps preserve: the above, together with where the stacks of the
\* threads that do not run are parked, and why.
ParkedStacks ==
    /\ pc[current] \in {"run", "loop", "tail"}
    /\ current = Boot => pc[Boot] = "loop" /\ etime[Boot] <= 0
    /\ \A w \in Workers \ {current} :
         /\ pc[w] \in {"new", "loop", "yield"}
         /\ status[w] = "SLEEPING" => pc[w] = "yield"
         /\ status[w] = "READY" /\ pc[w] = "yield" => etime[w] <= 0
    /\ current /= Idle => pc[Idle] \in {"new", "loop"}

RunningStatus ==
    /\ current \in Workers => status[current] = "RUNNING"
    /\ status[Boot] = "DONE"
    /\ current /= Boot => Boot \notin enq
    /\ current /= Idle => Idle \notin enq

\* The machine runs only because thread_wake finds a sleeper each time, which
\* the masking assumption gives: SchedIrq!WakesOnlySleepers fails without it.
SchedInvariant ==
    /\ TypeOK
    /\ ~panic
    /\ ThreadsAccounted
    /\ RunningHasQuantum
    /\ ParkedStacks
    /\ RunningStatus

-----------------------------------------------------------------------------
(* Progress.                                                               *)

\* The CPU, the clock and the timer do not stop, and delivered interrupts
\* are taken.
Fairness ==
    /\ WF_vars(Dispatch) /\ WF_vars(loop_exit) /\ WF_vars(timer_fire_at)
    /\ WF_vars(Tick) /\ WF_vars(TimerFires) /\ WF_vars(Interrupt)

FairSpec == Spec /\ Fairness

\* The workers the kernel has, one and two, sleep again and again.
SleepySpec == FairSpec /\ \A w \in Workers : WF_vars(current = w /\ Sleep)

\* With interrupts masked in the scheduler, a worker that sleeps, waits on the
\* ready list or never ran gets the CPU: its wake event is found due, and the
\* threads ahead of it give way.
WorkersKeepRunning ==
    \A w \in Workers : current /= w ~> current = w

\* Preemption: a thread that computes without ever sleeping loses the CPU at
\* the end of its quantum when another one is ready.  It fails although
\* interrupts are masked in the scheduler.
QuantumPreempts ==
    \A w \in Workers : (current = w /\ ready /= <<>>) ~> (current /= w)

\* The idle thread takes the CPU only from a thread that cannot go on.  It
\* fails although interrupts are masked in the scheduler.
IdleOnlyIfNothingRunnable ==
    [][current /= Idle /\ current' = Idle => status'[current] /= "READY"]_vars
=============================================================================
