------------------------------ MODULE SchedIrq ------------------------------
(***************************************************************************)
(* The scheduler of sched.c at the grain at which the timer interrupt can  *)
(* cut into it.  Sched takes a scheduler operation as one step; here an    *)
(* operation is a sequence of steps on an explicit stack of activations,   *)
(* the interrupt flag is part of the state, and the interrupt is delivered *)
(* at any point where the flag is set, which may nest handle_next_event    *)
(* inside itself or inside switch_thread.                                  *)
(*                                                                         *)
(* The sections between lock_scheduler and unlock_scheduler are steps:     *)
(* they start with cli.  unlock_scheduler ends them with sti whenever its  *)
(* counter is back at zero, so also inside an interrupt handler.           *)
(*                                                                         *)
(* An operation on the ready list or the event queue that runs unlocked is *)
(* a step too.  An interrupt in the middle of one, which finds the list or *)
(* the tree half changed, is the action Torn; it ends the behaviour.       *)
(***************************************************************************)
EXTENDS Integers, Sequences, Functions

CONSTANTS Workers, Idle, Boot, BootOrder,   \* as in Sched
          Quantum, SleepTimes, FarDelay, MaxLag,
          MaxDepth,   \* bound: activations on the stack of an interrupted thread
          None        \* an unused local variable

Threads == Workers \cup {Idle, Boot}
Off == -1

\* run:     the thread's own code
\* get:     switch_thread, before thread_list_get_next
\* pop:     thread_list_get_next, list->head read, not yet advanced
\* set:     switch_thread, next chosen
\* ctx:     switch_thread, current_thread written, before switch_context
\* resched: switch_context returned, before maybe_reschedule_thread
\* loop:    handle_next_event, top of the loop
\* remove:  handle_next_event, an event found due, before event_remove
\* call:    handle_next_event, before event->callback
\* append:  thread_wake, the thread READY, before thread_list_add
\* tail:    handle_next_event, behind the loop
Switching == {"get", "pop", "set", "ctx", "resched"}
Handling == {"loop", "remove", "call", "append", "tail"}
Points == {"run"} \cup Switching \cup Handling

ASSUME ThreadsAssumption ==
    /\ Idle \notin Workers /\ Boot \notin Workers /\ Idle /= Boot
    /\ None \notin Threads
ASSUME BootOrderAssumption ==
    BootOrder \in Seq(Workers) /\ IsInjective(BootOrder) /\ Range(BootOrder) = Workers
ASSUME TimeAssumption ==
    /\ Quantum \in Nat /\ FarDelay \in Nat /\ MaxLag \in Nat /\ MaxDepth \in Nat
    /\ SleepTimes \subseteq Nat

VARIABLES current, ready, status, enq, etime, callback, timer, irq,   \* as in Sched
          cpu,     \* the thread whose stack is in use
          stack,   \* the activations on each thread's stack, outermost first
          iflag,   \* RFLAGS.IF
          cut,     \* history: where interrupts have cut in, see Windows
          fault    \* what stopped the machine, if anything did

evars == <<enq, etime, callback>>
lists == <<ready, status>>
machine == <<timer, irq, cut>>
vars == <<current, lists, evars, machine, cpu, stack, iflag, fault>>

\* An activation: where it is, switch_thread's locals this (`old' once
\* switch_context has returned) and next, whether the node read by
\* thread_list_get_next was the last one and whether it has been freed since,
\* handle_next_event's event, whether an interrupt made the activation, and
\* RFLAGS.IF as pushfq saved it.
Activation(at, isr) ==
    [at |-> at, this |-> None, next |-> None, last |-> FALSE, freed |-> FALSE,
     event |-> None, isr |-> isr, if |-> TRUE]

Activations ==
    [at : Points, this : Threads \cup {None}, next : Threads \cup {None},
     last : BOOLEAN, freed : BOOLEAN, event : Threads \cup {None},
     isr : BOOLEAN, if : BOOLEAN]

\* The stretches of code an interrupt can damage: switch_thread, from its
\* first read to maybe_reschedule_thread, and handle_next_event between
\* event_peek_next and event_remove.
Windows == [switch |-> Switching, remove |-> {"remove"}]

TypeOK ==
    /\ current \in Threads /\ cpu \in Threads
    /\ ready \in Seq(Threads)
    /\ status \in [Threads -> {"READY", "RUNNING", "SLEEPING", "DONE"}]
    /\ enq \subseteq Threads
    /\ etime \in [Threads -> Int]
    /\ callback \in [Threads -> {"switch_thread", "thread_wake"}]
    /\ timer \in Nat \cup {Off}
    /\ irq \in BOOLEAN /\ iflag \in BOOLEAN
    /\ stack \in [Threads -> Seq(Activations)]
    /\ cut \subseteq {"switch", "remove", "torn"}
    /\ fault \in {"none", "assert", "tree", "list", "stack", "torn"}

-----------------------------------------------------------------------------
exec == stack[cpu]
depth == Len(exec)
Top == exec[depth]
At(p) == fault = "none" /\ Top.at = p

\* The stack in use becomes s; its innermost activation becomes act, moves on
\* to p, calls act, or returns.
Use(s) == stack' = [stack EXCEPT ![cpu] = s]
Become(act) == Use([exec EXCEPT ![depth] = act])
Goto(p) == Become([Top EXCEPT !.at = p])
Call(act) == Use(Append(exec, act))
Return == Use(SubSeq(exec, 1, depth - 1))

\* The counter is back at zero behind every locked section: sti.
unlock_scheduler == iflag' = TRUE

thread_list_add(t) == ready' = Append(ready, t)

\* The events that fire next; a tick is a span of time, so those due in the
\* same one come in any order.
event_peek_next == {e \in enq : \A t \in enq : etime[e] <= etime[t]}

event_enqueue(t, delay, cb) ==
    /\ enq' = enq \cup {t}
    /\ etime' = [etime EXCEPT ![t] = delay]
    /\ callback' = [callback EXCEPT ![t] = cb]

\* Faulty variant: the switch event of the sleeping thread stays queued.
thread_sleep_keeps_quantum(time) ==
    /\ At("run") /\ current \in Workers
    /\ status' = [status EXCEPT ![current] = "SLEEPING"]
    /\ Call(Activation("get", FALSE))
    /\ unlock_scheduler
    /\ UNCHANGED <<current, ready, evars, machine, cpu, fault>>

\* The locked section of thread_sleep; switch_thread follows.
thread_sleep(time) ==
    /\ At("run") /\ current \in Workers
    /\ status' = [status EXCEPT ![current] = "SLEEPING"]
    /\ event_enqueue(current, time, "thread_wake")
    /\ Call(Activation("get", FALSE))
    /\ unlock_scheduler
    /\ UNCHANGED <<current, ready, machine, cpu, fault>>

\* switch_thread reads current_thread, and thread_list_get_next reads
\* list->head and head->next.
get_next_thread ==
    /\ At("get")
    /\ Become([Top EXCEPT !.at = IF ready = <<>> THEN "set" ELSE "pop",
                          !.this = current,
                          !.next = IF ready = <<>> THEN Idle ELSE Head(ready),
                          !.last = Len(ready) = 1, !.freed = FALSE])
    /\ UNCHANGED <<current, lists, evars, machine, cpu, iflag, fault>>

\* The head node is freed: whoever has read it but not advanced the list holds
\* a pointer to freed memory.
Freed(act) == [act EXCEPT !.freed = @ \/ act.at = "pop"]

\* thread_list_get_next writes list->head, and list->tail if it read NULL (a
\* node that was appended to the last one since then is dropped), and frees
\* the node.
thread_list_pop ==
    /\ At("pop")
    /\ IF Top.freed
       THEN fault' = "list" /\ UNCHANGED <<ready, stack>>
       ELSE /\ ready' = IF Top.last THEN <<>> ELSE Tail(ready)
            /\ stack' = [t \in Threads |-> [i \in DOMAIN stack[t] |->
                           IF t = cpu /\ i = depth THEN [Top EXCEPT !.at = "set"]
                           ELSE Freed(stack[t][i])]]
            /\ UNCHANGED fault
    /\ UNCHANGED <<current, status, evars, machine, cpu, iflag>>

\* The current thread keeps the CPU, or current_thread is replaced.
switch_thread ==
    /\ At("set")
    /\ IF Top.next = current
       THEN /\ event_enqueue(current, Quantum, "switch_thread")
            /\ Return
            /\ UNCHANGED <<current, status>>
       ELSE /\ current' = Top.next
            /\ status' = [status EXCEPT ![Top.next] = "RUNNING"]
            /\ Goto("ctx")
            /\ UNCHANGED evars
    /\ UNCHANGED <<ready, machine, cpu, iflag, fault>>

\* switch_context saves the flags and the stack in use as those of `this', and
\* takes over the stack and flags of `next', on which it returns `this'.
switch_context ==
    /\ At("ctx")
    /\ IF cpu = Top.this
       THEN /\ stack' = [stack EXCEPT
                  ![cpu][depth] = [Activation("resched", FALSE) EXCEPT !.if = iflag],
                  ![Top.next][Len(stack[Top.next])].this = Top.this]
            /\ cpu' = Top.next
            /\ iflag' = stack[Top.next][Len(stack[Top.next])].if
            /\ UNCHANGED fault
       ELSE fault' = "stack" /\ UNCHANGED <<stack, cpu, iflag>>
    /\ UNCHANGED <<current, lists, evars, machine>>

\* Faulty variant: a sleeping thread is rescheduled.
maybe_reschedule_thread_asleep ==
    /\ At("resched")
    /\ LET old == Top.this
       IN  IF old /= Idle /\ status[old] /= "DONE"
           THEN /\ status' = [status EXCEPT ![old] = "READY"]
                /\ thread_list_add(old)
           ELSE UNCHANGED lists
    /\ event_enqueue(current, Quantum, "switch_thread")
    /\ Return
    /\ unlock_scheduler
    /\ UNCHANGED <<current, machine, cpu, fault>>

maybe_reschedule_thread ==
    /\ At("resched")
    /\ LET old == Top.this
       IN  IF old /= Idle /\ status[old] \in {"READY", "RUNNING"}
           THEN /\ status' = [status EXCEPT ![old] = "READY"]
                /\ thread_list_add(old)
           ELSE UNCHANGED lists
    /\ event_enqueue(current, Quantum, "switch_thread")
    /\ Return
    /\ unlock_scheduler
    /\ UNCHANGED <<current, machine, cpu, fault>>

-----------------------------------------------------------------------------
(* handle_next_event.                                                      *)

\* event_peek_next finds an event that is due.
find_due ==
    /\ At("loop")
    /\ \E e \in event_peek_next :
         /\ etime[e] <= 0
         /\ Become([Top EXCEPT !.at = "remove", !.event = e])
    /\ UNCHANGED <<current, lists, evars, machine, cpu, iflag, fault>>

loop_exit ==
    /\ At("loop")
    /\ \A e \in enq : etime[e] > 0
    /\ Goto("tail")
    /\ UNCHANGED <<current, lists, evars, machine, cpu, iflag, fault>>

\* An event that is no longer in the tree has no parent, so bst_transplant
\* takes it for the root and empties the tree.  The time of an event outside
\* the queue is not read again and is reset to shrink the state space.
event_remove ==
    /\ At("remove")
    /\ enq' = enq \ {Top.event}
    /\ etime' = [etime EXCEPT ![Top.event] = 0]
    /\ fault' = IF Top.event \in enq \/ enq = {} THEN "none" ELSE "tree"
    /\ Goto("call")
    /\ UNCHANGED <<current, lists, callback, machine, cpu, iflag>>

\* Faulty variant: the assertion is inverted.
thread_wake_inverted ==
    /\ At("call") /\ callback[Top.event] = "thread_wake"
    /\ fault' = IF status[Top.event] = "SLEEPING" THEN "assert" ELSE "none"
    /\ Goto("append")
    /\ UNCHANGED <<current, lists, evars, machine, cpu, iflag>>

\* thread_wake, up to its call of thread_list_add.
thread_wake ==
    /\ At("call") /\ callback[Top.event] = "thread_wake"
    /\ IF status[Top.event] = "SLEEPING"
       THEN /\ status' = [status EXCEPT ![Top.event] = "READY"]
            /\ UNCHANGED fault
       ELSE fault' = "assert" /\ UNCHANGED status
    /\ Goto("append")
    /\ UNCHANGED <<current, ready, evars, machine, cpu, iflag>>

\* The callback is done: back to the top of the loop.
Looping == [Top EXCEPT !.at = "loop", !.event = None]

wake_append ==
    /\ At("append")
    /\ thread_list_add(Top.event)
    /\ Become(Looping)
    /\ UNCHANGED <<current, status, evars, machine, cpu, iflag, fault>>

quantum_expires ==
    /\ At("call") /\ callback[Top.event] = "switch_thread"
    /\ Use(Append([exec EXCEPT ![depth] = Looping], Activation("get", FALSE)))
    /\ UNCHANGED <<current, lists, evars, machine, cpu, iflag, fault>>

\* Faulty variant: the count is not clamped.
timer_fire_at_unclamped ==
    /\ At("tail")
    /\ IF enq = {} THEN UNCHANGED timer
       ELSE \E e \in event_peek_next : timer' = etime[e]
    /\ Return
    /\ iflag' = (Top.isr \/ iflag)
    /\ UNCHANGED <<current, lists, evars, irq, cut, cpu, fault>>

\* The timer is set and the activation ends, with iretq if an interrupt made it.
timer_fire_at ==
    /\ At("tail")
    /\ IF enq = {} THEN UNCHANGED timer
       ELSE \E e \in event_peek_next :
              timer' = IF etime[e] < 0 THEN FarDelay ELSE etime[e]
    /\ Return
    /\ iflag' = (Top.isr \/ iflag)
    /\ UNCHANGED <<current, lists, evars, irq, cut, cpu, fault>>

-----------------------------------------------------------------------------
(* The machine.                                                            *)

Tick ==
    /\ fault = "none"
    /\ Top.at = "run" \/ \A t \in enq : etime[t] > -MaxLag
    /\ etime' = [t \in Threads |->
                    IF t \in enq /\ etime[t] > -MaxLag THEN etime[t] - 1 ELSE etime[t]]
    /\ timer' = IF timer > 0 THEN timer - 1 ELSE timer
    /\ UNCHANGED <<current, lists, enq, callback, irq, cut, cpu, stack, iflag, fault>>

TimerFires ==
    /\ timer = 0
    /\ timer' = Off
    /\ irq' = TRUE
    /\ UNCHANGED <<current, lists, evars, cut, cpu, stack, iflag, fault>>

\* Vector 32 goes through an interrupt gate: the flag is cleared.
Interrupt ==
    /\ fault = "none"
    /\ irq /\ iflag
    /\ Len(exec) < MaxDepth
    /\ irq' = FALSE
    /\ Call(Activation("loop", TRUE))
    /\ iflag' = FALSE
    /\ cut' = cut \cup {w \in DOMAIN Windows : Top.at \in Windows[w]}
    /\ UNCHANGED <<current, lists, evars, timer, cpu, fault>>

\* The interrupt comes in the middle of an unlocked operation on the ready list
\* (thread_list_get_next, thread_list_add) or on the event queue (event_remove,
\* event_enqueue by a thread that keeps the CPU), and the handler finds it half
\* done.
Torn ==
    /\ fault = "none"
    /\ irq /\ iflag
    /\ \/ Top.at \in {"pop", "append", "remove"}
       \/ Top.at = "set" /\ Top.next = current
    /\ fault' = "torn"
    /\ cut' = cut \cup {"torn"}
    /\ UNCHANGED <<current, lists, evars, timer, irq, cpu, stack, iflag>>

\* thread_kcreate's stack, with interrupts enabled: init_thread is to call
\* maybe_reschedule_thread and handle_next_event and to return to the entry
\* function.
NewStack == <<Activation("run", FALSE), Activation("loop", FALSE),
              Activation("resched", FALSE)>>

\* sched_init calls handle_next_event with interrupts enabled since idt_init.
Init ==
    /\ current = Boot /\ cpu = Boot
    /\ ready = BootOrder
    /\ status = [t \in Threads |-> IF t = Boot THEN "DONE" ELSE "READY"]
    /\ enq = {Boot}
    /\ etime = [t \in Threads |-> 0]
    /\ callback = [t \in Threads |-> "switch_thread"]
    /\ timer = Off /\ irq = FALSE /\ cut = {}
    /\ stack = [t \in Threads |-> IF t = Boot THEN <<Activation("loop", FALSE)>>
                                  ELSE NewStack]
    /\ iflag = TRUE
    /\ fault = "none"

Next ==
    \/ \E time \in SleepTimes : thread_sleep(time)
    \/ get_next_thread \/ thread_list_pop \/ switch_thread
    \/ switch_context \/ maybe_reschedule_thread
    \/ find_due \/ event_remove \/ thread_wake \/ wake_append \/ quantum_expires
    \/ loop_exit \/ timer_fire_at
    \/ Tick \/ TimerFires \/ Interrupt \/ Torn

Spec == Init /\ [][Next]_vars

-----------------------------------------------------------------------------
(* Properties.                                                             *)

\* Some activation of handle_next_event, on whatever stack, has taken w's wake
\* event off the queue and has not yet put w on the ready list.
Waking(w) ==
    \E t \in Threads : \E i \in DOMAIN stack[t] :
        stack[t][i].event = w /\ stack[t][i].at \in {"call", "append"}

\* Unless an interrupt was taken in one of the Windows, and so even when the
\* handler was interrupted anywhere else: whenever a thread is in its own code,
\* every other worker is in exactly one place, on the ready list, once, or
\* asleep with its wake event queued, or about to be woken by a handler.
ThreadsAccounted ==
    Top.at = "run" /\ cut = {} =>
        /\ IsInjective(ready)
        /\ Range(ready) \subseteq Workers \ {current}
        /\ \A w \in Workers \ {current} :
             \/ /\ status[w] = "READY" /\ w \in Range(ready)
                /\ w \notin enq /\ ~Waking(w)
             \/ /\ status[w] = "SLEEPING" /\ w \notin Range(ready)
                /\ w \in enq /\ callback[w] = "thread_wake" /\ ~Waking(w)
             \/ w \notin Range(ready) /\ w \notin enq /\ Waking(w)

\* Unless an interrupt was taken in one of the Windows, the scheduler's steps
\* see what they expect: no event is removed twice, no list node is taken
\* twice, no awake thread is woken and no stack is mistaken for another.
NoFault == cut = {} => fault = "none"

\* Which window is to blame: thread_wake finds its thread awake only if an
\* interrupt was taken inside switch_thread, and event_remove is given an event
\* that is not queued only if one was taken between event_peek_next and
\* event_remove.
FaultsTraced ==
    /\ fault = "assert" => "switch" \in cut
    /\ fault = "tree" => "remove" \in cut

\* However the interrupts fall, switch_thread is not entered while another
\* activation is inside it and has not switched yet: no ready-list node is
\* taken twice, and a context switch is made on the stack of the thread it is
\* made for (up to the first other fault).
SwitchNotReentered == fault \notin {"list", "stack"}

\* An interrupt activation of handle_next_event runs with interrupts disabled.
HandlerMasked == Top.isr => ~iflag

\* thread_wake's assertion, `trying to wake an already awake thread', holds.
WakesOnlySleepers == fault /= "assert"

-----------------------------------------------------------------------------
(* What the steps preserve as long as no interrupt is taken in a window.   *)

\* Only the innermost activation of a stack is inside switch_thread, and only
\* the outermost one is thread code; a thread that does not run was switched
\* out by switch_context or is new.
StackShape ==
    /\ \A t \in Threads : stack[t] /= <<>>
    /\ \A t \in Threads : \A i \in 1..(Len(stack[t]) - 1) :
         stack[t][i].at \in {"run", "loop", "call", "append", "tail"}
    /\ \A t \in Threads \ {Boot} : \A i \in 1..Len(stack[t]) :
         stack[t][i].at = "run" <=> i = 1
    /\ \A t \in Threads \ {cpu} : stack[t][Len(stack[t])].at = "resched"

\* sched_init's own thread goes straight to its first switch.
BootPhase ==
    /\ status[Boot] = "DONE"
    /\ cpu = Boot =>
         /\ timer = Off /\ ~irq /\ enq \subseteq {Boot} /\ etime[Boot] <= 0
         /\ Top.at \in {"loop", "remove", "call", "get", "pop", "set", "ctx"}
         /\ Top.at \in {"loop", "remove"} => Boot \in enq
         /\ Top.at = "call" => Top.event = Boot

\* The locals of switch_thread agree with the globals they were read from.
SwitchLocals ==
    /\ Top.at /= "ctx" => cpu = current
    /\ Top.at = "pop" => /\ ready /= <<>> /\ Top.next = Head(ready)
                         /\ Top.last = (Len(ready) = 1) /\ ~Top.freed
    /\ Top.at \in {"pop", "set"} => Top.this = current
    /\ Top.at \in {"set", "ctx"} => Top.next \in (Workers \ {cpu}) \cup {Idle}
    /\ Top.at = "ctx" => cpu = Top.this /\ current = Top.next /\ cpu /= current
    /\ Top.at = "resched" => Top.this \in Threads \ {cpu}
    /\ Top.at = "remove" => Top.event \in enq

\* The thread that switch_thread is taking off the CPU, and the one that it is
\* putting there.
Leaving(w) ==
    \/ w = cpu /\ Top.at \in {"get", "pop", "set", "ctx"}
    \/ w = Top.this /\ Top.at = "resched"
Coming(w) ==
    \/ w = Top.next /\ Top.at \in {"set", "ctx"}
    \/ w = cpu /\ Top.at = "resched"

\* Where a worker is: on the ready list, asleep, being woken, or on the CPU,
\* coming to it or leaving it.
Listed(w) == w \in Range(ready) /\ w \notin enq /\ ~Waking(w) /\ status[w] = "READY"
Asleep(w) == /\ w \notin Range(ready) /\ w \in enq /\ ~Waking(w)
             /\ status[w] = "SLEEPING" /\ callback[w] = "thread_wake"
Detached(w) == w \notin Range(ready) /\ w \notin enq /\ ~Waking(w)
Woken(w) == w \notin Range(ready) /\ w \notin enq /\ Waking(w)

WorkersPlaced ==
    /\ IsInjective(ready) /\ Range(ready) \subseteq Workers
    /\ \A w \in Workers :
         /\ Coming(w) => /\ Detached(w)
                         /\ status[w] = IF Top.at = "set" THEN "READY" ELSE "RUNNING"
         /\ Leaving(w) => Asleep(w) \/ (Detached(w) /\ status[w] = "RUNNING")
         /\ w = cpu /\ Top.at \notin Switching =>
              w \notin Range(ready) /\ status[w] = "RUNNING"
         /\ w /= cpu /\ ~Coming(w) /\ ~Leaving(w) => Listed(w) \/ Asleep(w) \/ Woken(w)

\* A queued switch event is the current thread's.
QueuedEvents ==
    /\ \A e \in enq : callback[e] = "switch_thread" => e = cpu /\ Top.at \notin Switching
    /\ cpu \in enq /\ Top.at \notin Switching => callback[cpu] = "switch_thread"
    /\ \A e \in Threads : callback[e] = "thread_wake" => e \in Workers

\* An event that was removed and whose callback is not done is the wake event of
\* a worker that sleeps, or is READY and not listed yet, or the current thread's
\* switch event.  No event is pending twice.
PendingEvents ==
    \A t \in Threads : \A i \in DOMAIN stack[t] :
        LET e == stack[t][i].event
        IN  /\ stack[t][i].at = "call" =>
                 /\ e \in Threads \ enq
                 /\ \/ callback[e] = "thread_wake" /\ status[e] = "SLEEPING" /\ e /= cpu
                    \/ /\ callback[e] = "switch_thread" /\ e = cpu /\ t = cpu
                       /\ Top.at \notin Switching
            /\ stack[t][i].at = "append" => e \in Workers \ {cpu} /\ status[e] = "READY"

Pending(t, i) == i \in DOMAIN stack[t] /\ stack[t][i].at \in {"call", "append"}

PendingOnce ==
    \A t, u \in Threads : \A i \in DOMAIN stack[t], j \in DOMAIN stack[u] :
        Pending(t, i) /\ Pending(u, j) /\ stack[t][i].event = stack[u][j].event
            => t = u /\ i = j

IrqSafe ==
    /\ fault = "none" /\ TypeOK /\ StackShape /\ BootPhase /\ SwitchLocals
    /\ WorkersPlaced /\ QueuedEvents /\ PendingEvents /\ PendingOnce

IrqInvariant == cut = {} => IrqSafe
=============================================================================
