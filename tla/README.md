# A verification development for XM/eRTL

XM/eRTL runs real-time programs beside Linux on one processor. *XtratuM*, a
nanokernel loaded as a Linux module (`src/xtratum`), takes the interrupts and the
timer away from Linux, multiplexes the processor between *domains* by fixed
priority and delivers interrupts to them as virtual *events*. Linux becomes domain 0,
the root domain. *PaRTiKle* (`src/partikle`) is the POSIX kernel that runs inside a
real-time domain. Domains talk to each other and to Linux through XtratuM's devices:
FIFOs, shared memory, a serial line and a trace buffer.

This directory holds TLA+ models of that code, the TLC configurations that check
them on small instances, and proofs, checked by TLAPS, of what holds for every
instance.

## 1. Inventory

### 1.1 XtratuM

| Component | State | Operations | What makes it correct |
|---|---|---|---|
| Domain scheduler (`kernel/sched.c`) | `xm_domain_list`, `xm_current_domain`, each domain's state bits | `xm_sched` (walk, bypass, select, switch, resume), `init_wrapper`, `generic_trap_handler` | the highest domain that can run is running; events that a domain does not take reach the next one; a finished domain never runs |
| Event delivery (`kernel/irqs.c`, `include/events.h`, `include/bitmap.h`) | per domain: intercepted, masked and pending events, the events flag, the handlers in progress on its stack | `sync_events` and its loop of upcalls | raised events are taken, in order of number, and are not lost on their way |
| Interrupt entry (`arch/i386/kernel/irqs.c`) | hardware interrupt flag, the taken-over IDT, Linux's virtual flag | `irq_handler`, `trap_handler`, `root_system_call`, virtual cli/sti/iret, takeover and giveup | an interrupt is acked once and becomes one event of the head of the list |
| Virtual PIC (`kernel/vpic.c`, `kernel/xpic.c`) | which PIC lines are closed | startup, shutdown, enable, disable, ack, end | a closed line is always somebody's to open again |
| Domain list (`include/domain.h`, `kernel/domain.c`) | doubly linked list, `id_number` | insert by priority, remove, search, destroy | always sorted, `next` and `prev` inverse of each other |
| System calls (`kernel/syscalls.c`) | the above | exit, load, unload, suspend, sync, pass, hwirq, get_time, set_timer, device control, shm open and unlink | every call that can make a higher domain runnable calls the scheduler; a failed load leaves nothing behind |
| Timers (`kernel/timer.c`, `kernel/heap.c`, `arch/i386/kernel/pit.c`) | a heap of domains by expiry, the one-shot hardware timer | set, remove, expire, program the hardware | the hardware timer is never set later than the earliest expiry; the heap's root is its minimum |
| libxm (`user_tools/libxm`) | the events page shared with the kernel | enable/disable the flag, mask, unmask, install a handler, the system call stubs | see event delivery |
| Device table (`kernel/xmdev.c`) | `devs`, `devmask`, `client` | register, unregister, get, ioctl | a device in use is not removed; a device is registered once |
| FIFOs (`devs/rtfifo`, PaRTiKle's `devrtf.c`) | 16 rings of one page, `ff_top`, `ff_bom` | read, write, flush, map | a byte stream: nothing lost, duplicated or reordered |
| Shared memory (`devs/shm`, PaRTiKle's `devshm.c`) | 16 named segments: owner, users, size, pages | create, truncate, map, unmap, remove, exist | memory is freed only when nobody uses it; names are unique |
| Serial line (`devs/serial`, `user_tools/serial`) | flags of the driver domain, request buffers, `luart`'s FIFO | init, open, close, read, write, sleep, wake up | a request is answered once, the driver domain is woken for every request |
| Trace (`kernel/xmtrace_core.c`, `xmtrace`) | a ring of trace buffers with ready bits, `overwritten` | record, finalize, read | a reader sees complete buffers in order, or knows it lost some |
| Support (`mm.c`, `tlsf.c`, `proc.c`, `xmprintf.c`, `start.c`, tsc) | page tables, a TLSF pool, /proc text, module life cycle | map, allocate, print, init, cleanup | cleanup unloads every domain first |

### 1.2 PaRTiKle (the `xm_i386` port)

| Component | State | Operations | What makes it correct |
|---|---|---|---|
| Thread scheduler (`port/sched.c`) | ready and blocked lists by priority, current thread, pending-schedule flag | activate, suspend, schedule from interrupts or outside | the highest ready thread runs |
| Threads (`port/pthread.c`) | thread control blocks, joiners, keys, once | create, exit, join, detach, cancel | a join returns once, after exit; no thread is lost |
| Mutexes, condition variables (`port/pthread.c`) | owner, count, waiters | lock, trylock, unlock, wait, signal, broadcast | mutual exclusion, no lost wakeup |
| Semaphores (`port/semaphore.c`) | value, waiters | wait, trywait, timedwait, post | value never negative, every post releases one |
| Signals (`port/signal.c`) | pending and masked sets, handlers | kill, sigaction, sigsuspend, delivery | a pending unmasked signal is delivered once |
| Time and timers (`port/time.c`) | kernel timers, clocks | nanosleep, timer_create, settime, delete | timers fire once per period, not after deletion |
| Devices and files (`port/fs.c`, `dev*.c`) | file table, device table | open, close, read, write, ioctl, mmap | a descriptor belongs to one opener |
| Domain port (`xm_i386/*.c`) | event handlers, events flag | irq enable/disable, timer and context switch on XtratuM's calls | critical sections are atomic for the threads of the domain |

### 1.3 How the parts interact

* Hardware interrupts enter through `irq_handler`, which acks the line, raises the event
  of the head of the list and calls `xm_sched`; the timer's line goes through
  `timer_handler` first, which raises the timer event of the domains whose timer expired.
* `xm_sched` moves events down the list, selects, switches, and delivers by `sync_events`,
  which calls handlers in the domain with hardware interrupts on. So the scheduler is
  re-entered from the middle of its own delivery loop.
* Domains enter XtratuM by a trap gate (interrupts off) and share with it one page per
  domain, in which they change masks and flags without a system call.
* Linux loads and unloads domains and is itself subject to the scheduler.
* Devices are kernel memory mapped into domains; the two sides of a FIFO or of a trace
  buffer run on one processor and meet only by preemption, at any instruction.

### 1.4 The hard behaviours

Preemption at any instruction by a higher domain (never the other way round), handlers
nested in the delivery loop, bitmaps changed by load and store on both sides of an
interrupt, lock-free buffers with compare-and-swap on one index, timers that expire
while they are being set, domains unloaded in the middle of a handler, and the
absence of any lock in the device modules. `PROJECT.json` lists them under
`hazards`, each at its line with the properties that would catch it.


## 2. The modules

| Modules | About | Composed from |
|---|---|---|
| `XmSched`, `MCSched`, `XmSchedProofs` | domains, scheduler, events, interrupts, system calls, Linux's virtual interrupts and PIC | |
| `XmDomList`, `DomainOrder`, `XmLoad`, `XmVuart`, `MCObjects`, `XmVuartProofs` | the doubly linked list of domains, shown to implement the order the scheduler walks along; loads and unloads with the device table; who owns a serial line | `XmVuart` extends `XmLoad`, which extends `XmDomList` |
| `XmHeap`, `XmTimer`, `MCTimer` | the timer heap, cell by cell, and what keeps the one-shot hardware timer set (proofs in `PkTimeProofs`) | `XmTimer` extends `XmHeap` |
| `XmFifo`, `ByteStream`, `MCFifo`, `XmFifoProofs` | one FIFO at the grain of its loads and stores, shown to implement a byte stream | |
| `XmShm`, `MCShm`, `XmShmProofs` | named shared memory and its four kinds of clients | |
| `XmSerial`, `MCSerial` | the serial driver's domain: packets between FIFOs over a UART (proofs in `XmVuartProofs`) | |
| `XmTrace`, `MCTrace`, `XmTraceProofs` | the trace ring between the kernel and a process that may be killed | |
| `PkKernel`, `PkKernelProofs`, `PkThreads`, `MCThreads`, `PkThreadsProofs` | PaRTiKle's scheduler and, on top of it, mutexes, condition variables, join and exit | `PkThreads` extends `PkKernel` |
| `PkSem`, `MCSem` | semaphores | extends `PkKernel` |
| `PkTime`, `MCTime`, `PkTimeProofs` | PaRTiKle's timers, down to XtratuM's hardware timer; the proofs about both | extends `PkKernel` and `XmTimer` |

An MC module gives an instance its sets and functions where a `.cfg` cannot; the `.cfg`
gives the constants their values and names the specification and its properties.
Abstract specifications are `ByteStream` and `DomainOrder`. Recursion is written as
recursive functions, so that theorems can be stated in every module.

## 3. What is modelled

### 3.1 XmSched

The state is the set of loaded domains in the order of the list (`prio`, then id), the
running domain, and per domain the state bits, the three bitmaps, the events flag and
`frames`, the stack of upcalls in progress: the event whose handler runs and the local
copy `pending` of the loop that called it. `armed` and `acked` are what the kernel keeps
of the timer heap and of the PIC. `passing` holds calls of `pass_event` between the load
and the store of their `set_bit`.

One action is one stretch of code that no interrupt can divide. Interrupts are possible
exactly in Linux and in event handlers (`Interruptible`), because the upcall of
`sync_events` is the only place that turns them on for a domain. So

* `Irq(e)` and `TimerIrq(X)` are `irq_handler` from the ack to the end of `xm_sched`;
* `Sched` is `xm_sched`: the walk over the list with its bypass of events (`Arrived`,
  `Kept`, `Bypass`), the choice (`IsSelected`), the switch, and what the chosen
  domain does first: `init_wrapper`'s prologue or `sync_events`;
* `SyncEvents` and `RunHandlers` are `sync_events` and the rest of its loop. An upcall
  pushes a frame and ends the action; `HandlerReturn` (or Linux's `LinuxIrqReturn`) pops
  it and goes on with the loop and its old copy;
* each system call and each libxm function is one action, guarded by `Running(call)`.
  What can be called in a handler can be called there in the model;
* Linux's virtual interrupt operations, its loader and `unload_domain_sys` are actions of
  the root domain.

The constant `Calls` selects the calls an instance makes, to keep instances small;
nothing else depends on it.

### 3.2 XmDomList, XmLoad and XmVuart

`XmDomList` is the list of `include/domain.h` as a value with `head`, `next`, `prev` and
the priorities; `Inserted` and `Removed` set the pointers that `insert_domain_list` and
`remove_domain_list` set, and `Walk` is a walk along `next`. `DomainOrder` is what the
scheduler relies on: a sequence, sorted by priority, in which a domain goes behind those
of its own. `IsOrdered` is the refinement. Nodes are the memory of a `domain_t`, which
`vmalloc` hands out again, so a node that is loaded twice must not keep old pointers.

`XmLoad` adds `load_domain_sys` and `unload_domain_sys` with the devices they count on.
A load that fails at a missing device has counted itself at the ones before it; `leaks`
counts these. Modules register and unregister their devices.

`XmVuart` adds a line of the serial device: its flags, the domain that opened it, the
client's steps (`Open`, `SetUp`) and Linux's module `luart.c`, whose test and store run
with interrupts on (`LuartTest`, `LuartGet`). A domain opens the line through
`suspend_domain`, as the tests do, at any time and as often as it likes. A second call by
the domain that has the line finds it still mapped, fails and marks it as free, while the
domain goes on using what it has mapped before; Linux can then take it. `misled` records
that, and a domain that opens the line between Linux's test and its store.

### 3.3 XmHeap and XmTimer

`XmHeap` is `heap.c` as operators on a record of the array and `nelem`, cell by cell:
stale cells behind the last element stay where they are, as in the code, since
`heapify` may look at the one just behind. `Heapify` and `Insert` describe the path along
which an element sinks or rises by a recursive function over positions. `XmTimer` has
the clock, each domain's `hwtime` and `period`, the deadline of the hardware timer and
whether `timer_handler` is in its loop; one iteration of the loop is one action. Time
does not pass while the handler runs, and an interrupt that is due is taken before time
passes.

The number of domains is not bounded. `HEAP_remove_element` puts the last element where the
removed one was and only lets it sink, so it can come to lie below a father that expires
later: `misplaced` records exactly that (`Misplaces`), and from then on nothing is claimed
of the order of the heap or of the hardware timer. It takes six domains to get there.

### 3.4 XmFifo and ByteStream

Each side (a domain; Linux is 0) has at most one operation in progress, whose program
counter is `op[d].at`. One side writes; any number reads and flushes. Steps of different
sides interleave as preemption allows: a side moves only while no higher side is in an
operation (`MayStep`), so the higher one runs to its end. Every load of `ff_top` and
`ff_bom` is a step of its own, in the order of the source: a read loads `top` (`ReadTop`)
and `bom` (`ReadBom`) for `FIFO_USED_SIZE`, `bom` again for `old_bom` (`ReadOld`) and `top`
again to see whether it wraps (`ReadWrap`); a write `bom` (`WriteBom`) and `top`
(`WriteTop`) for `FIFO_FREE_SIZE`, and `top` for `old_top` (`WriteOld`). The copy, the
compare-and-swap, the two loads of the test for an empty ring and each of the two stores
that set it back are steps too. The fields are not volatile. Where a pass of a loop needs
one again, a build may load it again or keep what it has, and the step chooses between the
two. Two simplifications rest on that: the two `FIFO_USED_SIZE` of one comparison are one,
since every build is with `-O2` (`xtratum/Makefile:35`, `partikle/core/rules.mk:8`) and
nothing stands between them; and the last loads of a write (`new_top`, `top`, `bom`) are
one step, `WritePos`, because under a writer `top` changes only by being set back. The ring
has a page behind it, which a copy that should have wrapped would reach. Written bytes are
numbered, so that a lost, repeated, foreign or reordered byte is a wrong number.

There are four ways for operations to meet that the code has no answer to, and the
history `met` is set there:

* a flush is in progress (two stores and a `memset`) together with another operation
  (`FlushMeets`);
* a reader is setting an empty ring back, and a side above it writes or, between the two
  stores, does anything (`ResetMeets`);
* a reader in its loop is overtaken by another that sets the ring back (`ResetMeets`): the
  lower one may then find the index it knows;
* a reader is overtaken by another one between two of its loads, such that what it has does
  not fit together (`LoadsMeet`): `bom` has passed the `top` it has loaded, or its `old_bom`
  is not the `bom` it counted from and it takes more than there is, or the writer has come
  round the ring before `top` is loaded again.

The last two need two readers. A behaviour ends at such a step. Everything else, two readers
that overtake each other and the writer between any two loads among it, is covered.

`ByteStream` is the contract; `IsByteStream` is its refinement by `XmFifo`, with the ring
read between the indices as the queue.

### 3.5 XmShm

`seg` is `xshm_list`, `hold` what each domain has open and how far it is with `mmap` or
`close` (each is several system calls, and a domain of higher priority may run between
them), `page` what is mapped where. A system call of a domain is one step; in Linux
`xm_shm_open` runs with interrupts on and has three (`Look`, `Pick`, `Take`). Domains are
unloaded without unlinking; a domain loaded later at the same address is taken for the
owner. `spoilt` records that a domain has run inside `xm_shm_open` of Linux in a way that
makes an owner or a count wrong, or that the tracer's module has unlinked segments of
others; behaviours end there. `shrunk` names domains whose segment another client
has truncated under them.

### 3.6 XmSerial

One direction of the line: clients' FIFOs, the sending driver's handler step by step
(`tx`), the UART's holding and shift registers and modem lines, the receiver's UART FIFO
(`rx`), the receiving driver and its FIFOs. The handler runs with interrupts on, so a client
above the driver runs between any two of its steps. `overtook` is the lost wake-up: such a
client writes after the driver has found everything empty and before it disables the
transmit interrupt that the client has just enabled. `overran` is a copy across the end of
a FIFO, where a behaviour ends.

A byte of the model knows whose it is, its number in the stream and its place in its packet,
for the properties; the driver sees its `Value`, which for payload is any (`Data`). A first
byte below 16 in the receiver's buffer is therefore taken for a line's number, be it one or
not, and the packet goes to that line (`Flush`). The receiver may be on time (`Arrive`), or
leave bytes in the UART (`Lag`), which loses what its FIFO has no room for; it takes them all
before IIR tells it of a change of the modem lines (`Take`, `SeeIIR`), and reads MSR in a
step of its own (`SeeModem`). `late` counts the bytes it has left.

### 3.7 XmTrace

The kernel's side (`DoTrace`, finalizing with and without a free buffer) is one step each,
since it runs with interrupts off. The tracer is a process: each access to the shared
ring is a step (`Seek` loads `reader_ppos` and `Store` stores `reader_cpos`, which are one
statement in `tracer.c:108`), it may be killed at any of them, and another one starts from
the positions in shared memory. The module may be loaded again under it. `past` is history
for the properties only: what was recorded and meant for each dump, what was printed,
which losses are still to be reported, and `skewed`, `met` and `stale`, which name the
places where a kill or a load leaves the ring wrong. A load that finds the tracer between
those two accesses, or in a dump, sets `met`; at the places where the tracer loads
both positions again before it uses them (`ReadsAfresh`) it does no harm.

### 3.8 PkKernel, PkThreads and PkSem

`PkKernel` is the scheduler of a real-time domain. `sched` is the value of its tables:
one list of ready threads per priority, and each thread's state and priority. The
operators on it (`Activated`, `Suspended`, `WithPrio`, ...) are the functions of the same
purpose in `port/sched.c` and `list.h`; `insert_ss` puts a thread before those of its
priority, and the model does too.

A system call turns the domain's events off, so it is one action, except where it calls
`scheduling()`: the thread's place in the call is then kept in `at`, other threads run,
and an action whose name ends in `On` goes on from there. Events are on in a thread's own
code, in the idle thread, and in two stretches of system calls that turn them on
early: `sleep_for`, after it has suspended the thread and before it calls `scheduling()`
(`<<"asleep">>`), and `pthread_exit`, after the thread has finished and before it
activates who joins it (`<<"exiting">>`). `Interrupt` is possible there. It ends with
`scheduling()`, which is why `irq_nesting_counter` is not in the model. Time is not
modelled: any set of armed timers may expire, in any order.

`PkThreads` adds mutexes, condition variables, join, exit and `setschedparam`. `held` and
`base` record what the program has locked and which priorities it has set; nothing in the
code depends on them. `pthread_cond_wait` is `CondWait` (unlock, which may call
`scheduling()`), `CondWaitOn` (suspend) and `LockOn` (lock again). Calls that only return
an error are left out, and so is the exit of the main thread, which ends the program. The
program is assumed to join a thread once, to unlock in the reverse order of locking, to
change the priority only of threads that hold nothing and not to one above a ceiling,
and to use `trylock` only on mutexes that are not recursive (`trylock` does not set
`counter`, so the first unlock of a recursive mutex would release it).

`PkSem` is one semaphore, with a program that waits and posts around a section, as
`regression_tests/sem_wait.c` does. `value` may become negative, as in the code.

### 3.9 PkTime

Two kernels composed. `queue` is PaRTiKle's heap of timers with their values, `armed` the
flag TIMER_ARMED of each, `event` the timer event that XtratuM has pending for the domain.
`sleep_for`, `timer_create`, `timer_settime` (which disarms and arms in two steps with
events on between), `timer_delete` and `update_hwtimer` are the actions, with what
`Kill` and `DeviceIrq` do to a sleeping or waiting thread. `update_hwtimer` acts on one
timer per step and at its end calls `SetTimer`, the action of `XmTimer` that is
`set_timer_sys`; XtratuM's `HandlerExpire` raises `event`, and `ClockIrq` is
`xmtimer_irq_handler`, which runs `update_hwtimer` again. A thread that is woken before
its time and sleeps again puts its timer into the heap twice (`arm_timer` does not look):
`twice` records it, and the domain's behaviour ends there. The heap is a set of which any
first element is taken: a heap of up to five timers is in order, as XtratuM's is, and
`loose` ends the domain's behaviour when a timer is taken out of a larger one.

## 4. The runs and their bounds

| Run | Instance | Shows |
|---|---|---|
| `sched_domains` | two domains of priorities 1 or 2 over Linux, two events, one device line | the highest runnable domain runs, the bypass strands nothing, nothing is lost except what a loop of handlers drops |
| `sched_calls` | one domain, every system call but `suspend` (in the other two runs), Linux's PIC | types, that FINISHED is final, and again that nothing is lost |
| `sched_live` | one domain, every virtual interrupt operation of Linux, nesting depth 3, fairness | deliverable events are taken, loaded domains start, acked lines stay accounted for |
| `objects` | nodes for three domains of two priorities, two devices, one line | the list implements the order; `prev` mirrors `next`; devices in use stay; a line has one user |
| `timer_clock` | Linux and two domains, periods and delays on both sides of the hardware timer's reach, 6 units of time | nobody waits beyond an expiry; `timer_handler` ends; the heap's root is its minimum and no domain is in it twice |
| `fifo` | Linux and two domains: the middle one writes, the others read and flush; ring of 4 bytes, 6 bytes written | a byte stream; no copy outside the ring; the writer needs two passes of its loop at most, the highest reader one |
| `shm` | two domains, a Linux file, the tracer's module, two segments of two pages, one of which domains truncate | one name is one segment; what is given back is mapped nowhere but in a domain whose segment was truncated under it |
| `serial` | two lines, Linux's and that of a domain above the driver, packets of two bytes, payload that could be a number, a UART FIFO of one byte, a receiver that leaves up to two bytes | bytes arrive in order whatever is lost, joined or misdelivered; packets that begin with their number are whole and not joined while the receiver is on time; what waits is sent |
| `trace` | three buffers of two records, one kill anywhere, two loads | the two sides keep apart; dumps are right; losses are reported once; ready buffers are dumped |
| `pk_threads` | three threads of two priorities, a normal and a recursive mutex with the default ceiling, one condition variable | mutual exclusion; nobody is suspended out of reach of his wake-up; the highest ready thread runs; ceilings are taken and given back; waiting for a condition is atomic for a thread the mutex has not raised |
| `pk_time` | two threads of two priorities, one POSIX timer, XtratuM's timer and Linux's tick, 4 units of time | nobody sleeps and no timer is silent beyond its time, from thread to hardware; TIMER_ARMED is true |
| `pk_sem` | violation; three threads of one priority, a semaphore of value 1 | two threads in the section |

Bounds and why they are enough:

* `MaxId` bounds loads. The bypass hands events from one domain to the next, and two
  domains over Linux give a walk of three with a first, a middle and a last node, which
  are the three cases of the code. The list in `objects` has up to four nodes: insertion
  before the head, in the middle and at the tail with equal priorities, and removal of each.
* `MaxDepth` bounds nested upcalls. Depth 1 lets an interrupt arrive in a handler and
  switch to another domain; depth 2 and 3 let upcalls nest on one stack. An upcall that
  would exceed the bound is not taken, so behaviours stop there (`AtBound`), and the
  liveness properties say nothing about them.
* `Events` has the timer's event 0 and one device event 1, the two kinds `irq_handler`
  tells apart; ordering within a loop needs two.
* `MaxBytes` lets a ring of 4 cells (3 usable) wrap and be set back at least twice; three
  sides are the smallest number with readers above and below the writer. `passes` counts to
  2 and then says "more".
* `MaxTime` covers an expiry beyond `MaxInterval`, which takes two programmings of the
  hardware timer, and a second period of Linux's tick. Three domains are too few for a
  removal to misplace an element; larger heaps are left to the proofs, which have no bound
  on them.
* `MaxElem` is one cell more than the domains need, the one `heapify` may look at. A heap
  filled to its last cell (`HEAP_MAX_NELEM`) and the error return of `HEAP_insert` are not
  reached.
* `MaxLeaks` and `MaxUsers` stop counters that only grow; one leak, and three users of a
  segment (Linux counts as two when it opens one), are where the cases differ. The first
  segment can be truncated under the domain that has its two pages mapped, which leaves one
  behind (`OneCut` keeps the second one whole).
* Three trace buffers are one the kernel writes, one that is dumped and one that is ready;
  four finalizations overrun the ring and go around it.
* Two lines, four bytes of Linux's in writes of two and one byte of the other's, fill
  FIFOs of three cells and put packets of different lengths and priorities behind one
  another. One of Linux's payload bytes is the number of the other line, and that line
  sends a zero, as `swrite.c` does. With a UART FIFO of one byte, two late bytes overrun it.
* Three threads let one hold a mutex while two wait for it, and one join while another
  exits; symmetry exchanges the threads other than the main one, which is the only one
  named. `MaxHeld` of 2 allows two mutexes in both orders, and the recursive one twice.
  `MaxBelow` stops the value of a semaphore at -3; three threads do not need more.

Deadlock is checked in the runs of `XmSched` and `XmTimer`. Elsewhere a behaviour may end:
a PaRTiKle program may block all of its threads, two of them each on the other's mutex
for instance, and then the idle thread runs for ever; clients of FIFOs, segments, lines
and the trace have nothing to do when the bound on bytes, users, leaks or events is
reached; and behaviours end where a history (`met`, `spoilt`, `overran`, `twice`)
says that what follows is not covered. In `trace` and `serial` they go on behind
their histories (`skewed`, `met`, `stale`; `overtook`, `late`), and only what is
claimed of them ends.

The run `sched_domains` has no call of the timer and no `iret` of Linux; these are in
`sched_calls` and `sched_live`, which have one domain, and in the proofs, which have any
number.

Preconditions of the runs, which the code does not enforce: periods are longer than
`get_min_interval` (`HandlerEnds` fails otherwise); for `LineAccounted` the calls that can
leave a line closed (`LinesKept` in §5) are not made; for `EventsTaken` and `LoadedStarts`
domains suspend, handlers return and devices fall silent, and nobody calls `pass`, which
can take an event away for ever.

### Fairness

`Ticking`: the hardware timer keeps interrupting whenever interrupts are on, and every
armed timer expires in time. `Yielding`: handlers return, a domain suspends, Linux turns
its virtual interrupts on again; these are obligations of well-behaved guests, which the
code cannot enforce. `DevicesQuiet`: a device that interrupts for ever through a higher
domain starves the lower ones by design. In `XmTimer` only the loop of `timer_handler` is
fair: it runs with interrupts off. Of `XmFifo` nothing is claimed under fairness: that its
loops end is a bound on their passes (`SoonDone`), and a reader below another one has
none. In `XmTrace` the tracer process goes on while it lives (Linux schedules it), and
nothing makes the kernel stop overrunning it. In `XmSerial` the driver's handler, the UART
and a client inside its call go on; no client has to write or read.

Each property is accompanied in `PROJECT.json` by a changed definition (the operators
whose comment begins with "Mutant") under which the same run violates it.

## 5. What is proved

All theorems are for every value of the constants that the named assumptions of the
modules allow; these only give the constants their types and say, where it matters, that
a set is not empty, that device lines are events of the root domain other than the
timer's, or that two names differ.

**The scheduler** (`XmSchedProofs`): `TypeCorrect`, `HighestAlwaysRuns`,
`NothingEverStranded` and `FinishedStaysFinished`, for every number of domains,
priority, set of events, lines and nesting depth.

All four rest on one inductive invariant, `SchedInv == TypeOK /\ HighestRuns /\
NothingStranded /\ NeverFinished /\ Fresh`. `HighestRuns` is not inductive by itself. A
domain that is switched to for the first time leaves `init_wrapper` with other masks than
those `xm_sched` chose it by, and a domain that was just loaded is above the running one
without having been looked at: `HighestRuns` speaks of started domains only, and `Fresh`
says that an id not handed out yet is neither started nor holds an event, so that a load
cannot break the invariant. `NeverFinished` says that the root domain stays ACTIVE and
that the running domain is started and not FINISHED: the walk therefore always finds
somebody, and a step of the running domain is never one of a finished domain. The proof
has lemmas for the walk (what `IsSelected` implies for the domains above the selected
one), for the bypass (what `Kept` leaves behind) and for `Sched` as a whole, which every
action that calls the scheduler cites, and one step per action.

`NothingLost` is the action property `SchedLosesNothing`, from the same invariant: what
the domain that is switched from has pending stays pending, the bypass only moves bits
into a local copy, and a domain that is entered takes what it lets through or keeps it.

`LinesAccounted` (`ASSUME LinesKept PROVE Spec => []LineAccounted`) is for systems that
make none of the calls that can leave a line closed for good: unload frees what a domain
took; `set_mask_events` and Linux's `enable_irq` unmask an event without ending its
line; `uninstall_event_handler` forgets who took it; Linux's shutdown closes a line that
nobody took; and of two overlapping `pass_event` the second overwrites the first. The
invariant `LineInv` adds where the event of a line can be: at a domain that is not below
the root domain, which intercepts all of them, and in local copies only of a domain that
intercepts it. Passing an event on without a race would keep it; `LinesKept` leaves it
out because the call itself is not atomic.

**The FIFO** (`XmFifoProofs`): `CopiesStayInside` (`Spec => []InsideRing`), `LoopsAreShort`
(`Spec => []SoonDone`) and `ImplementsByteStream` (`Spec => IsByteStream`), for every size of
the ring, any number of readers and flushers and any number of bytes, as long as nothing has
met. `FifoInv` has the indices in order and less than the ring apart (`IndicesOK`) and, for
every label an operation may be at, what it has loaded so far against the indices as they
are (`ReaderOK`, `WriterOK`): an index that it has loaded once is where the indices were
then, and the other one can only have moved in the direction that leaves more to read or to
write, unless it has been set back, in which case the compare-and-swap fails. It is this,
and not the compare-and-swap alone, that keeps a copy inside, because a copy wraps by what
was loaded (`CopyOK`). An empty ring that is not set back to 0 would make a writer's copy
go past the end; `IndicesOK` has that only while its reader is about to test or to reset.
`PassesOK` is why the loops are short: a writer's pass fails only because a reader has set
`top` back to 0, where it stays, since only the writer moves it away; and nobody changes
`bom` above the highest reader. `StreamInv` adds the bytes: what a reader has copied is what
lies behind `bom`, unless its compare-and-swap fails (`ReadTrue`); what the writer has
copied lies behind `top` and carries the next numbers (`WriteTrue`), and its copy has not
touched a byte between the indices. The compare-and-swaps are then the steps `Read` and
`Write` of `ByteStream`, a flush is `Flush`, and every other step leaves the stream as it is.

**XtratuM's timers** (`PkTimeProofs`), for any number of domains, periods, requests and
intervals of the hardware timer: `NeverTwiceInHeap`; `RootExpiresFirst` and
`NobodyWaitsTooLong`, as long as no removal has misplaced an element; and `FiveKeepOrder`
(`ASSUME Cardinality(Doms) <= 5 PROVE Spec => []~misplaced`), which makes both hold always
for up to five domains. Most of the proof is about the operators of `XmHeap`. `Sunk` says of
`heapify` that the cells along one path from `top` got what their chosen child held and the
last of them the sinking element (`HeapifySinks`), `Risen` the same of `HEAP_insert`
(`InsertRises`). From these, `HEAP_remove_min`, `HEAP_remove_element` and `HEAP_insert` give a
heap with exactly the elements it should have (`TakenOut`, `Added`), and one in order from
one in order (`SunkInOrder`, `RisenInOrder`): sinking repairs a heap that is `NearlyInOrder`,
that is, wrong at most below the cell where the last element was put. `Misplaces` is the
other case, wrong above it; with five elements the last one is in the same branch as the
removed one or that one's father is the root, so it does not occur (`FiveStay`). `TimerInv`
then adds that outside `timer_handler` the hardware timer, if anybody waits, is set, not
behind the clock, and not beyond the first expiry (`InTime`). `NeverLate` alone is not
inductive.

**Domains, devices and the serial line** (`XmVuartProofs`), for any number of domains, any
priorities and devices: `KeepsMirrored`, `KeepsOrder`, `KeepsDevices`, `OneUserOnly`.
`Chain(l, w)` says that the pointers of the list `l` are those of the sequence `w`: `next`
and `prev` go along it and every other node is cleared, so that a node that is given out
again brings no old pointer. The walk along `next` then meets `w` (`WalkIs`, by a least
index at which it would not), the walk of an insertion stops where a sequence sorted by
priority takes the node (`StopIs`), and the few pointers that `insert_domain_list` and
`remove_domain_list` set give the chain with one node more or less (`InsertedIs`,
`RemovedIs`). What a step does to the list is what `DomainOrder` does to its sequence, or
nothing, also for a load that fails (`InsertHeld`, `RemoveHeld`, `FailHeld`). `DevInv`
adds to `DevicesStay` that every registered device has counted at least the domains beside
Linux; a failed load counts too much, never too little, so a count of 0 means that nobody
is left. `LineInv` says, until a client is `misled`, that a domain which has the line
mapped is the one it names, that the line is then marked as used and mapped, and that
Linux does not have it (`Alone`). What keeps a second domain out is that nothing but a
second call of its own clears the mark of a mapped line while the domain that opened it is
loaded, and the module gives its flags back only when no domain is loaded (`LineModule`),
which is `DevicesStay`.

**Shared memory** (`XmShmProofs`): `WellTyped`, `OneNameOneSegment` and `FreedIsUnmapped`.
The argument counts: a segment's `users` is at least the number of domains, files and
modules that hold it (`UsersCounted`), so the single user that lets `xm_shm_unlink` free
it is the last; pages are mapped only between the calls of a holder (`PagesHeld`).
`WellTyped` holds also when the counting no longer does (`spoilt`): even then `users` does
not go below -1.

**The trace** (`XmTraceProofs`): `KeptApart`, `DeadOnceSkewed`, `ReportsEveryGap`,
`DumpsTheLatest` and `CountsEveryLoss`. The ready buffers are an interval of the ring,
from the one the tracer looks at next to the one the kernel writes (`RingIsInterval`); a
kill between clearing a bit and storing the position shifts its beginning by one for good.
`GapsInv` chains the ready buffers along that interval: the stamp of each is the next one
after the stamp before it, plus the losses the kernel has counted for it, and the first
follows the one that was dumped last; the tracer, which clears the count only after it has
read it, therefore prints each gap. `DumpInv` says of every buffer that its `pos` and
`len` select the records that were written last, oldest first, through the wrap inside a
buffer, and of the loop of `rtl_trace_dump` that it has printed a beginning of them.
`LossesInv` says that the count a tracer has taken and will set back is still that of the
buffer: the kernel, which is kept apart from it, counts elsewhere. `Total` is a recursive
function (`SumsExist`, `SumsAre`), and changes as much as the count of the one buffer a
step writes (`TotalChanges`).

**PaRTiKle's threads** (`PkKernelProofs`, `PkThreadsProofs`), for any number of threads,
mutexes and conditions, any types, priorities and ceilings:

* `LocksExclude`. An owner has locked a mutex as often as its counter says, nobody else
  has (`HolderOwns`, `CounterCounts`). Nothing is assumed about the scheduler.
* `ReadyListsRight`. Each operation of `sched.c` keeps `Ordered`: a thread is in the list
  of its priority, once, exactly if it is ready (`PkKernelProofs`). `AllActivated`, the
  loop over a list of waiting threads, is a recursive function on `0 .. Len(list)`; the
  lemma `AllActivatedExists` finds such a function by a least counterexample, so that
  `CHOOSE` has one.
* `NoneStranded`. Every suspended thread is in the list of a mutex, of a condition or of
  a thread's exit, or its timer is armed (`StrandInv`); a step wakes all that it takes
  from a list, and only `JoinedOnce` keeps a second joiner from replacing the first.
* `PrioritiesComeBack`. `PrioInv` says that a thread is at the highest of its own
  priority and the ceilings of what it holds, and that each mutex remembers, in
  `owner_prio`, that priority as it was before the thread locked it first. Programs
  unlock in the reverse order of their locks; a recursive mutex is in that list more than
  once, and the first of its places counts.
* `WaitsAtOnce`, from the same invariant: unlocking does not call the scheduler unless it
  lowers the thread, and `PrioInv` tells when it does.
* `HighestRuns` (`ASSUME OneCeiling PROVE Spec => []HighestReadyRuns`). `OneCeiling` is
  what `PTHREAD_MUTEX_INITIALIZER` gives: every mutex protects, with one ceiling that no
  thread is above. It is needed. `pthread_mutex_unlock` calls `scheduling()` only when it
  lowers the thread, so with different ceilings one that stays raised by another mutex
  may run on although an unlock has made a higher one ready.

**PaRTiKle's timers** (`PkTimeProofs`): `ArmedTellsTruth`. No timer is in the heap twice
(`Once`), so removing an entry removes the timer. `LateByLessThanMin` and
`NobodySleepsTooLong` (`ASSUME PkMin = 1 PROVE TimeSpec => []OnTime`) go down to the
hardware: they use `TimerInv` of XtratuM's timers, which `PkTime` keeps although RT asks
for times that are none of `Delays` (its heap keeps its order there, `FewAsk`: none but
Linux and RT have a timer), and add `Served`: outside `update_hwtimer`, every timer is
less than the minimal interval beyond its time, and XtratuM either has been asked for an
event that keeps it so or has raised it (`Asked`). The argument needs that whoever a timer
activates is a thread (`Owned`), and that the running thread is one of the lists
(`RunsThread`, from `PkKernelProofs`): it is the one that is between `arm_timer` and
`update_hwtimer`. `set_hwtimer_xmtimer` never asks for less than the minimal interval, so
with a longer one than the unit of time `OnTime` would not hold; `LateByLessThanMin` says
what does.

**The packets on a serial line** (`XmVuartProofs`), for any lines, priorities, payload, FIFO
sizes and delays of the receiver.

`DeliversInOrder` needs none of the protocol. `Flow` has the bytes of each line in the order
in which they were written all the way: the readers' FIFOs, the receiver's buffer, the UART's
FIFO, the line, the holding register, the driver's buffer (`Queued`, `Shelved`), and above what
the reader has had. Every step moves bytes on along that way or drops some, also when packets
are joined or go to another line, so a reader finds its own peer's bytes in order whatever
else it finds.

`DeliversPackets` is about a receiver that is on time. `PumpInv` names the last packet `p` that
the driver took from a client's FIFO and three numbers: `r` of its parts are out of the
driver's buffer, `h` out of the holding register, `a` have arrived (`Sends`). The receiver
holds what does not begin with a number (`Junk`), the first `a` parts of `p`, or the packet
before `p`, with or without its last byte (`Keeps`). The last case is why the invariant is not
simpler: it is possible only as long as the receiver has not seen the modem lines change, and
`Tells` says how long that is. `Junk` is not dropped: a late last byte that can be a number
takes the next packet to that number's line, which is why the property is about deliveries
that begin with a number of the driver's. `SerialAssumption` is all that both need of the
constants; that lines are natural numbers is what an index of the driver's tables is.

Only model-checked: everything under fairness (`EventsTaken`, `LoadedStarts`,
`HandlerEnds`, `AllDumped`, `AllSent`), because the prover does not treat
liveness with ENABLED. A fold, which takes an operator, is out of its reach too. A
recursive function over `0 .. n` is not: that there is one follows from a least
counterexample, as in `PkKernelProofs`, and then it can be unfolded.

## 6. Where the code and its documents disagree

`OneInside` (run `pk_sem`): `sem_post` runs the thread it wakes before it adds to
`value`, and `sem_wait` subtracts without looking again. The value is -1 then, not 0, and
the next `sem_wait` goes through. The regression test of `sem_wait` expects a section
that it protects to be undisturbed; with its two threads it is.

Seen while modelling. Where the list names a property or a history, the property excepts
the case and the text above says how; the others are outside of what is modelled.

Scheduler and timers of XtratuM:

* An event whose mask a handler sets while it waits in the local copy of the same loop is
  dropped (`sync_domain_events`), though the comment says "Executing all pending events".
  Linux's `virtual_irq_disable` can drop one whose line is acked, which then stays closed.
* `HEAP_remove_element` lets the last element sink in the place of the removed one and
  never rise (`heap.c:126`; PaRTiKle has the same code, `heap.c:127`): from six elements
  on the heap can get out of order (`misplaced`, `loose`). With timers for 1, 10, 2, 11,
  12 and 3 set in this order, the removal of the one for 11 puts the one for 3 below 10.
  When the first has expired, one for 20 is set and the one for 2 expires, the root is the
  timer for 10, and the one for 3 is served at 10.
* `HEAP_insert` accepts one element more than the array holds (`heap.h:40`).
* `pass` hands an event to the next domain even when the caller itself could take it, so a
  program that calls it is left out of the run that checks `EventsTaken`.
* `suspend_domain_sys` with a device call that fails leaves the domain suspended.
  `load_domain_sys` uses the result of a failed creation before it tests it
  (`syscalls.c:76`); `xmdev.c:87` tests its index with one too many.

Devices:

* The manual says of the FIFO that the compare-and-swap "can avoid the competition of RR,
  RW,Wr" (`interdomain.tex:26`). Setting back an empty ring is not part of it: a writer
  above the reader can be forgotten or copy behind the ring, and a reader below can find
  its old index again. Nor are the loads: of two readers, one that is overtaken by the
  other between its loads of `top` and `bom`, or of `bom` and `old_bom`, can read bytes
  twice or bytes that nobody wrote, with a compare-and-swap that succeeds (`rtfifo.c:325`,
  `met`).
* The loop of a FIFO's reader has no bound when another reader is above it: it can be beaten
  as often as bytes come (`rtfifo.c:345`).
* Shared memory: when all segments are taken `xm_shm_open` returns the number of segments
  as an index; it counts the opener twice; `close` without `mmap` unmaps the address 0;
  the address given back is a rounded one.
* Serial line: the lost wake-up (`serial.c:199`, `overtook`); the end of a packet is
  signalled with its last byte still on the line (`serial.c:194`); a packet into an empty
  FIFO near its end is copied past it (`serial.c:508`, where `luart.c:107` has the test
  right, `overran`); the first byte in the receiver's buffer is taken for a line's number
  if it is below 16, which payload can be (`serial.c:153`; `swrite.c:208` sends zeros), so
  that after a late last byte the next packet goes to the line of that number; a receiver
  that is delayed by a byte joins packets, because it takes all bytes before it looks at
  the modem status (`serial.c:225`, `late`); a `luart` that is unloaded with bytes to send
  makes the handler loop; flags of a line are never taken back; a domain that opens the
  line it has marks it as free and goes on (`serial.c:346`, `misled`).
* Trace: `RTL_TRACE_FINALIZE` returns without restoring the hardware flags
  (`xmtrace_core.c:76`); the tracer that is killed in the wrong place is the last one
  (`KilledForGood`); a load of the module between the two accesses of `tracer.c:108`
  leaves the old `reader_cpos` behind, and buffer 0 is never dumped (`met`).

PaRTiKle:

* `pthread_cond_wait` unlocks by a function that may call `scheduling()` before the thread
  is in the list of the condition; `WaitIsAtomic` excepts threads the mutex had raised.
* A thread interrupted in `pthread_exit` after it has finished is never chosen again, and
  who joins it waits for ever (`NobodyStranded` excepts it).
* A thread interrupted in `sleep_for` between suspending and `update_hwtimer` delays every
  timer that only that call would have programmed (`OnTime` excepts it).
* `arm_timer` of a timer that is armed inserts it twice (`time.c:190`, `twice`). A timed
  wait that is over early leaves its timer armed, and the list of waiters may get the
  thread twice; `sem_timedwait` never says ETIMEDOUT, and does not return when the value
  goes from 1 to 0 (`semaphore.c:151`).
* `sleep_for` compares a duration with an absolute time (`time.c:332`); timers of
  different clocks share one heap (`time.c:250`); `alloc_ktimer` may return -1, which is
  used as an index (`sched.c:83`).
* `pthread_mutex_trylock` does not set `counter` (`pthread.c:492`); `pthread_detach`
  activates who joins the caller, not the thread (`pthread.c:195`); `pthread_kill` wakes a
  thread without calling `scheduling()`, so one of higher priority waits for the next call
  of it (`signal.c:141`).

## 7. What is not modelled

`PROJECT.json` lists every component with its status. Left out, and why:

* Page tables, the TLSF allocator (third-party), /proc and formatted output, the ELF
  parsing of the loader, the calibration of clocks: no behaviour of their own that a
  model of state and steps would say anything about, or arithmetic on hardware registers.
* Most of the repository's lines: PaRTiKle's C library, the vendored language support
  (gcc's unwinder, GNAT's and other run-times), the kconfig tools, PaRTiKle's ports to bare
  machines and to a Linux process. They are sequential library code, generated parsers or
  other systems; XM/eRTL uses the port `xm_i386`.
* PaRTiKle's signal masks and handlers, detached threads, cancellation, keys, timed waits:
  the timed waits need a thread's one timer and the lists of waiters together, `PkTime`
  shows what becomes of the timer. Files and devices are tables used by one thread at a
  time; what the drivers of XtratuM's devices do is in `XmFifo` and `XmShm`.
* In the modelled parts: the memory of a domain (a failed load is modelled by what remains
  of it), the width of `ff_top` and `ff_bom`, a heap filled to its last cell, opening and
  closing of FIFOs, and the halves of libxm's changes to its own bitmaps, which an upcall
  nested between them could undo.
