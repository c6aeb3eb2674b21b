# A TLA+ verification of the flurry kernel

flurry is a small x86-64 kernel for one CPU. This directory holds TLA+ models
of its parts, TLC configurations that check them on small instances, and
TLAPS proofs. `PROJECT.json` maps every definition to the lines it models and
lists the runs, their properties, the findings and the hazards.

## The system

| Part | Source | State | Operations |
|---|---|---|---|
| event queue | `multitasking/events.c` | `event_root`, the links, `time` and `enqueued` of each event | create, enqueue, remove, peek, dequeue |
| scheduler | `multitasking/sched.c`, `sched.asm`, `thread.c`, `process.c` | `current_thread`, `ready_threads`, thread status, events, interrupt flag, timer | sleep, yield, switch, wake, `handle_next_event`, `sched_init` |
| kernel heap | `memory/kmalloc.c` | chunk headers and footers, freelist | `kmalloc`, `kfree`, `kmalloc_init` |
| frame allocator | `memory/pmm.c` | free list of frames | init, alloc, free |
| paging | `memory/paging.c`, `vmm.c` | four-level tables, CR3 | map, unmap, load |
| interrupts | `interrupts/interrupts.c`, `isr.asm`, `cpu/idt` | handler table, next free vector | dispatch, set handler, allocate vector |
| interrupt controllers | `hardware/lapic.c`, `ioapic.c`, `acpi/madt.c` | registers, lists of MADT entries | calibrate, one-shot, unmask |
| clocks | `hardware/tsc.c`, `acpi/hpet.c`, `time/timer.c` | frequencies | conversions, waiting |
| segments, syscalls | `cpu/gdt`, `syscalls/syscall.c` | descriptors, MSRs | init |
| boot, ELF, strings, log | `main.c`, `boot/entry.c`, `abi/sysv/elf.c`, `string.c`, `log` | cursor, buffers | init order, parsing, copying, printing |

The timer interrupt (vector 32) runs `handle_next_event`, which takes due events
off the event queue and calls `switch_thread` or `thread_wake`; those use the
ready list, whose nodes come from the kernel heap, which got its pages from the
frame allocator and the page tables at boot.

What makes it hard: the interrupt can arrive between any two instructions when
interrupts are enabled, a thread is parked in the middle of a handler and
resumed much later by another, the timer is one-shot and must be armed again by
whoever runs next, and the heap keeps its book-keeping inside the memory it
hands out.

## Modules

| Module | Models |
|---|---|
| `EventQueue` | `events.c`: the search tree with all its pointer writes, one action per operation |
| `TimerQueue` | what `events.c` promises: a queue in firing order, first come first served among equal times |
| `Sched` | `sched.c` with whole operations as steps and the timer interrupt delivered only in thread code |
| `SchedProofs` | the inductive invariant of `Sched` and its theorems |
| `SchedIrq` | `sched.c` and `sched.asm` cut where the interrupt can be delivered, with stacks and interrupt flag |
| `ListFacts` | lemmas on taking from and appending to a list without duplicates |
| `SchedIrqStack`, `SchedIrqPending`, `SchedIrqSwitch`, `SchedIrqHandler` | lemmas on the steps of `SchedIrq`: the stacks, the pending events, `switch_thread`, `handle_next_event` |
| `SchedIrqProofs` | the theorems of `SchedIrq` |
| `Kmalloc` | `kmalloc.c` over the words of the heap |
| `Heap` | what `kmalloc.c` promises: disjoint blocks that keep their contents |
| `Paging` | `pmm.c`, `paging.c`, `vmm.c`, the mapping loop of `kmalloc_init`, CR3 and the TLB |
| `MCSched`, `MCSchedIrq`, `MCPaging` | instances for TLC |

### EventQueue

`tree` holds `event_root` and the `left`, `right` and `parent` pointers; `time`,
`enqueued` and `live` are the other fields. The helpers are functions of a tree
with the names of the C functions. `event_enqueue(e, t)` includes the caller's
write of `event->time`, which happens while the event may still be in the tree.
`event_dequeue` has no caller and is only in `SpecWithDequeue`.

The tree is checked against `TimerQueue` through the refinement mapping
`queue <- InOrder`.

### Sched

`pc[t]` says where a thread is, or where its stack is parked: `new` (its first
return enters `init_thread`), `run` (its own code), `loop` and `tail` (inside
`handle_next_event`), `yield` (switched out in `thread_sleep`). A switch is one
step that ends when the resumed stack has executed `maybe_reschedule_thread` and
is back in the loop or in its own code. Every loop iteration is a step. Times
are relative: `etime[t]` is `event->time - tsc_read_ns()`. The event queue
appears by its contract, and equal times fire in any order.

The delivery of interrupts is restricted to `pc = "run"`: the masking
assumption. It is a guard of the model and not a test in the code, which runs
`switch_thread` with interrupts enabled when `thread_sleep` calls it and enables
them inside the handler. Every result about `Sched`, checked or proved, is about
the scheduler's logic under that assumption. That `thread_wake`'s assertion holds
is part of the inductive invariant, and is not claimed as a result: `SchedIrq`
drops the assumption and refutes it.

### SchedIrq

`stack[t]` is the stack of thread `t` as a sequence of activations, outermost
first; `cpu` is the thread whose stack is in use. An activation records its place
(`at`), the locals that live across a step, whether an interrupt made it, and the
flag that `pushfq` saved. `switch_context` moves `cpu` to the next thread's stack.
What the code would do on a structure that has been changed under it is recorded
in `fault` and stops the model: `assert` (the wake assertion), `tree` (an event
removed twice), `list` (a list node taken twice), `stack` (a context switch on
another thread's stack), `torn`.

Where the interrupt can come:

- The sections between `lock_scheduler` and `unlock_scheduler` (in `thread_sleep`
  and `maybe_reschedule_thread`) are single steps because they start with `cli`.
  They end with `sti`, also inside a handler.
- `thread_list_get_next` is split between its loads and its stores. The load
  remembers the node and not only its thread: when a node is freed, every
  activation that has read it and not yet advanced the list is marked (`freed`),
  so taking a node twice is noticed even if its thread is at the head again.
- The stores of `thread_list_get_next`, `thread_list_add` in `thread_wake`,
  `event_remove`, and the `event_enqueue` of a thread that keeps the CPU in
  `switch_thread` run without the lock on some paths. Each is one step, and an
  interrupt in the middle of it, which finds the list or the tree half changed, is
  the action `Torn`. It ends the behaviour; what follows in the code is not
  modelled.
- Coarser than the code, and without such an action, are reads: the walk of
  `event_peek_next` with the comparison behind it (`find_due`, `loop_exit`), and
  `event_peek_next` with the programming of the timer (`timer_fire_at`).
  `thread_wake`'s assertion and its store are one step, and so are the two stores
  of `switch_thread` (`current_thread` and its status) and `switch_context`.
- `kmalloc` and `kfree` of list nodes are not modelled here.

A tick is a span of time, so events due in the same tick are taken in any order.

`cut` records where interrupts have been taken. Two stretches of code (`Windows`)
are the ones an interrupt can damage: `switch_thread` as a whole, and
`handle_next_event` between `event_peek_next` and `event_remove`; `Torn` adds
`torn`. The handler nested in itself anywhere else leaves `cut` empty, so
`NoFault` and `ThreadsAccounted` speak of nested handlers as well.
`SwitchNotReentered` has no such condition and `FaultsTraced` names the window
that each fault needs.

### Kmalloc

`heap.mem` is the memory in words of eight bytes; headers, flags, footers and
freelist links are words of it, and `kmalloc` includes the caller's stores into
the new block. `owned` is what callers hold. Running out of memory and a failed
assertion set `panic`. `Heap` sees each block in use with its contents
(`Abstract`), so the refinement says that no step writes into another's block.

### Paging

`ram.mem` holds the frames as tables, `ram.free` the free list, and
`ram.starved` is set when `pmm_alloc` returns NULL. Loops of `vmm_init` and
`kmalloc_init` are taken one page at a time (`step`), drivers map and unmap
device registers afterwards, and accesses fill the TLB. A table has four entries
instead of 512. `asked` records what callers asked for, and the 16-bit
parameter of `paging_map_page` is `AsUint16`. The NULL that a failed allocation
leaves behind is followed as the code follows it, into frame 0, and the
properties hold until that happens: no property of `Paging` says anything about
the states after a failed allocation.

## Runs

| Run | Shows |
|---|---|
| `eventqueue` | pointers, flags and search order stay consistent; `event_peek_next` is the earliest event; `EventQueue` implements `TimerQueue` |
| `eventqueue_dequeue` | violation: re-enqueueing a dequeued event drops the tree |
| `sched` | with interrupts masked in the scheduler: no thread lost, duplicated or woken early; both workers keep getting the CPU |
| `sched_quantum` | violation, even with interrupts masked in the scheduler: a thread resumed from `thread_sleep` is not preempted |
| `sched_idle` | violation, likewise: the idle thread replaces a runnable thread |
| `schedirq` | `switch_thread` is never entered twice at once, so stacks and list nodes are not mixed up; a failed wake assertion takes an interrupt inside `switch_thread`, a second removal of an event one before `event_remove`; without an interrupt in these windows no thread is lost and no structure is found changed |
| `schedirq_masked` | violation: interrupts are enabled inside the handler |
| `schedirq_wake` | violation: a wake inside `switch_thread` leads to a failed wake assertion |
| `kmalloc` | chunks tile the heap, tags and freelist agree with them, neighbours are merged, `Kmalloc` implements `Heap` |
| `kmalloc_double_free` | violation: a double free of a merged block is not caught |
| `paging` | frames have one use, pages translate as asked, the TLB is current, tables stay writable |
| `paging_nx` | violation: `VM_FLAG_NX` never reaches an entry |

### Bounds

- Event queue: five events are the fewest for which a deleted node's successor is
  not its child and has a right child of its own; three times give ties and
  strict order.
- Scheduler: two workers are what `sched_init` creates. With `Quantum = 2`, the
  sleeps lie below, at the edge of and beyond a quantum, `FarDelay = 4` is a
  delay longer than every sleep, and `MaxLag = 2` lets an event be overdue by
  more than one tick. While the handler runs the clock stays within `MaxLag` of
  the earliest event. `SchedIrq` sleeps for 0 and 2 ticks. `MaxDepth = 6` does
  not bind: the same states are reached with 5 and with 8.
- Heap: 16 words and chunks of 4 and 6 words give up to four chunks, exact fits,
  splits, a chunk too small to split, all four ways to merge, and exhaustion. The
  callers' data is a word that reads as a header of four words with both flags.
- Paging: the heap's pages lie in two tables, the memory map has a usable first
  region and an unaligned reserved one, and one frame is left when the drivers
  start, so that their mappings exhaust the frames in some behaviours.

Deadlock is not checked where the system stops: in `Kmalloc` after a panic and in
`SchedIrq` after a fault.

### Fairness

Only `sched` and `sched_quantum` use it: weak fairness of every step of the
handler, of the clock, the timer and interrupt delivery, because the one CPU
always executes something. `SleepySpec` adds that a running worker eventually
sleeps, as the loops of `one` and `two` do; `sched_quantum` leaves that out. The
handler may take longer than a quantum in the model, so `WorkersKeepRunning`
promises the CPU and not progress in the thread's own code.

### Findings

`PROJECT.json` gives each with its lines. In short: `event_dequeue` leaves its
event flagged; the one-shot timer is not set again when `thread_sleep` returns;
the idle thread displaces a thread whose quantum ended; `unlock_scheduler` enables
interrupts in the handler; a wake handled inside `switch_thread` lists a thread
twice; `kfree` does not mark a block that
it merges into its predecessor; `paging_map_page` cuts off `VM_FLAG_NX`.

## Proofs

### Sched

`SchedInvariant` is inductive for every set of workers, quantum, sleep times and
boot order, under the masking assumption of `Sched`. `ThreadsAccounted` alone is
not inductive: that a wake event's thread is asleep needs `RunningHasQuantum`
(only the running thread owns a switch event), that a resumed sleeper is not early
needs `ParkedStacks`, and that the boot stack is not rescheduled needs
`RunningStatus`. There is one lemma per action, on top of the lemmas of
`ListFacts`. The assumptions are the named ASSUMEs of `Sched`: distinct threads, a
boot order that lists every worker once, a positive quantum.

### SchedIrq

`NoFaultWithoutCut` and `ThreadsAccountedWithoutCut` need no masking assumption.
They hold for every set of workers and depth of nesting as long as no interrupt
was taken in one of the `Windows` or in the middle of an unlocked operation. The
inductive invariant `IrqInvariant` says that, while `cut` is empty:

- `StackShape`: only the innermost activation of a stack is inside
  `switch_thread`, and a thread that does not run was left by `switch_context`;
- `SwitchLocals`: the locals of `switch_thread` agree with the globals they were
  read from (this is what an interrupt in the window would break);
- `WorkersPlaced`: every worker is listed, asleep, being woken, or on the CPU,
  coming to it or leaving it, in exactly one of these ways;
- `QueuedEvents`: a queued switch event is the current thread's;
- `PendingEvents`, `PendingOnce`: an event that was removed and whose callback is
  not done, on whatever stack, belongs to a sleeper or to the current thread, and
  is pending once. Handlers nested between `event_remove` and the callback make
  these necessary;
- `BootPhase`: `sched_init`'s thread goes straight to its first switch.

A thread parked in a handler keeps its pending events on its stack, so the
invariant ranges over all activations of all stacks. `SchedIrqStack` has the facts
about stacks that every step uses, `SchedIrqPending` what the steps do to pending
events, `SchedIrqSwitch` and `SchedIrqHandler` one lemma per action and conjunct,
and `SchedIrqProofs` puts them together. The assumptions are the ASSUMEs of
`SchedIrq`. `FaultsTraced` and `SwitchNotReentered`, which also speak about
behaviours with a cut, are model-checked only.

Everything else is model-checked only: liveness, the refinements (the tree's and
the freelist's order are recursive), `Kmalloc`, `Paging` and the findings.

## Left to do

1. Clocks: HPET, TSC and LAPIC calibration and the conversions between ticks and
   nanoseconds with their widths, in place of `FarDelay`.
2. Interrupt vectors and handlers, MADT lists, I/O APIC redirection entries and
   their overrides, NMI configuration, and the order in which boot sets them up
   (interrupts are enabled before the handler table is filled).
3. `SchedIrq`: the unlocked operations split at their stores in place of `Torn`,
   the heap under the list nodes, refinement to `Sched` up to the first interrupt
   in the scheduler.
4. `pmm_free` and the list nodes inside free frames; the memory functions of
   `string.c` against their definitions.
5. Proofs: the order of `TimerQueue`; frame ownership and TLB coherence of
   `Paging`; that the chunks of `Kmalloc` keep tiling the heap; `FaultsTraced` and
   `SwitchNotReentered` of `SchedIrq`.

Not modelled: the vendored `uacpi`, `limine` and `nanoprintf`, logging and the
framebuffer (output only), GDT and system call set-up (constants written once),
the ELF header checks, and the assembly stubs except for what they save and
restore.
