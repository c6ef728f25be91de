# DSP-Library on ChibiOS/RT: a verification project

The repository holds a small C++ library of digital filters (`src/examples/DSP-Library`),
an application that runs one filter on an STM32F407 board, and the ChibiOS/RT kernel and
HAL it is linked with. This directory models the library, the application and the parts of the
kernel and of the HAL that the application runs on (heap, scheduler, virtual timers, mutexes and condition
variables, semaphores and mailboxes, I/O queues, events, the serial driver) in TLA+. TLC checks the
models on small instances; TLAPS proves the main results about the filters, the safety of the heap, and the
two invariants the serial driver rests on, for every value of the constants.

## The system

| Part | Source | Model |
|---|---|---|
| `FuntionsMath::sum`, the weighted sum | `FuntionsMath.cpp` | `FuntionsMath.tla` |
| `DataFilter`, the arrays of a filter and their blocks | `DataFilter.cpp` | `DataFilter.tla` (operators), `Filter.tla` (actions) |
| `Filter`, `FIR`, `IIR` | `Filter.cpp`, `FIR.cpp`, `IIR.cpp` | `Filter.tla` |
| what a filter promises | | `DifferenceEquation.tla` (abstract) |
| the two IIR forms side by side | `IIR.cpp`, `DataFilter.cpp` | `FormsAgree.tla` |
| heap and core allocator | `chheap.c`, `chmemcore.c` | `ChHeap.tla` |
| `main` and `Thread1` | `main.cpp` | `Application.tla` |
| scheduler, timeouts | `chschd.c`, `chthreads.c` | `ChSchd.tla` (operators the next rows are composed of) |
| mutexes, condition variables, priorities | `chmtx.c`, `chcond.c`, `chthreads.c` | `ChMutex.tla` |
| semaphores, mailboxes | `chsem.c`, `chmboxes.c` | `ChSem.tla` (operators), `ChMailbox.tla` |
| virtual timers, tickless counter | `chvt.c`, `chvt.h`, `st_lld.c` | `VirtualTimers.tla` |
| what the timers promise | | `TimerService.tla` (abstract) |
| serial driver, I/O queues, events | `serial.c`, `serial_lld.c`, `chqueues.c`, `chevents.c` | `ChSerial.tla` |
| proofs | | `FilterProofs.tla`, `ChHeapProofs.tla` and the modules it extends, `ChSerialProofs.tla` |

`main` allocates a `DataFilter` from the heap, builds it with one of three `newDataFilter`,
and starts `Thread1` with it. `Thread1` allocates an `IIR` and a `FIR` object, attaches the
`DataFilter` to one of them (`setInitialDataFilter`), feeds it 50 samples through a
`directForm` function, prints each result on `SD1`, and destroys the object. No constructor
ever runs: objects are laid over heap memory and hold what the RAM held.

## The filters

**State.** `Filter.tla` has a variable for each member the functions use
(`FilterOrder`, the four arrays, `MathOperation`, `ContBuffer`), `status` for where the
object is in its life, and history variables: `xs` and `ys` are the complete
signals, `out` the last value returned. A block is a function on `0 .. n-1`, with `n` the
floats it has room for after size_t arithmetic and the rounding of the heap; `NULL` has no
element. The first access outside a block sets `status` to `"undefined"`, after which the
model claims nothing: what then happens depends on the neighbouring memory.

**Actions.** `newDataFilterFIR`, `newDataFilterIIR1`, `newDataFilterIIR2`,
`setInitialDataFilter`, `FIR_directForm` (both forms of FIR have the same body),
`IIR_directFormI`, `IIR_directFormII`: one call each. A filter is used by one thread, so a
call is one step.

**Stale words.** The three `newDataFilter` compute the size of the buffers from the member
`FilterOrder` before they assign it (`DataFilter.cpp:10`). The initial `FilterOrder` is
therefore any word of `StaleWords`, and an element of a fresh block any of `StaleFloats`.

**Arithmetic** is a parameter (`FZero`, `FAdd`, `FSub`, `FMul`) of which nothing is
assumed. A refinement proved this way holds for floats: it says that the operations
are the same and in the same order. TLC uses a saturating arithmetic, in which, as with
rounding, the order of the terms matters; only `FormsAgree` needs a ring (integers modulo 5),
because the two forms order their operations differently.

**Abstract specification.** `DifferenceEquation.tla` keeps the complete signals and
computes each output from them. `Filter` implements it under the mapping `orderBar`, `bBar`,
`aBar`: the description of the filter, read back from the blocks.

## The heap

`ChHeap.tla` follows `chHeapAlloc` and `chHeapFree` for several threads. Every iteration of
a list walk is a step, the lock is a step, the call of the core after the mutex was
released is a step. Addresses are numbers, `next` and `hsize` are the two words of each
header (`next` is the union: the link while the block is free, the heap while it is held).
`list`, `used` and `asked` are history: the linked headers, the blocks held by callers, and
what the callers asked for. A caller frees only blocks it holds: a double free is not a
behaviour of this module. The assertion of `chHeapFree` ("within free block") is a guard of
the walk and the property `FreeFindsItsPlace` says it never blocks one.

`FirstFit` says what a successful call promises: the block it takes is the lowest free block that is large enough
at that moment, although another thread changed the list before the mutex was got, and a call leaves the list for the provider, or
for `NULL`, only when no free block is large enough. Nothing of the kind holds once the mutex is released: see
the observations.

The run uses the default heap, whose memory comes from the core. A heap on a static area (`chHeapObjectInit`,
`HasProvider` FALSE) is covered by the proofs.

Mutual exclusion is taken from `chMtxLock`/`chMtxUnlock` and the atomicity of `chCoreAlloc`
from the system lock. The MC modules use a `VIEW` that leaves out words nothing can read
any more (headers inside free or held memory, locals of finished calls).

## The application

`Application.tla` extends `Filter` with the two threads of `main.cpp`. `mainAt` and `threadAt`
say where they are, `live` which heap blocks the program holds (named after the pointer they
are assigned to), `attached` and `target` which filter object got the `DataFilter` and which
one is destroyed. `Attached` is the branch chain that attaches the `DataFilter` (`main.cpp:50-57`), `Called` the
one that picks the object and the form in the loop (`main.cpp:67-73`); that the two agree is the
property `FormMatchesData`, not a guard. Up to the first undefined step, every step on the variables of `Filter` is
one of its actions, by the way the module is written; the invariants and the refinement proved
in `FilterProofs` apply to the program that far. Undefined steps of the program itself (a NULL
object, the destructor) are not steps of `Filter`, and
`OutOfBoundsOnlyIfUndersized` says nothing about them. Each stretch of a
thread between two pauses or calls is a step; a pause ends at any time, and `chprintf`
only marks a place where the other thread may run.

The destructor is called through a table pointer that no constructor has set. The stale word
may lead to the destructor of `FIR` or `IIR` (its two `chHeapFree`, then the two of the base
class), to that of `Filter`, or nowhere, which is undefined. A second free of a block is
undefined as well: the word where `chHeapFree` expects the heap is by then a link of the
free list. No code frees the arrays of the `DataFilter` (`~DataFilter` is never called) nor the
`IIR` and `FIR` objects. The heap of this module only succeeds or fails; its structure is in `ChHeap`.

## The kernel

**One step.** The configuration is that of `examples/DSP-Library/chconf.h`: tickless, no time
quantum, no recursive mutexes, FIFO semaphores, assertions on. A critical section is one step. A
call that sleeps is two: up to the switch to another thread, and the rest (`at[t]`) once the thread is
current again, still inside the critical section. In between anything may run, which is where these
modules have their interesting states. An interrupt handler sets `irq`; the epilogue of the
last one reschedules, as `_port_irq_epilogue` does. Interrupts come only when the current
thread is outside its critical sections.

**Scheduler.** `ChSchd` is a record `k` (current thread, ready list, states, priorities, queues,
semaphore counters, armed timeouts) and one operator per function of `chschd.c`. The timer of
`chSchGoSleepTimeoutS` triggers (`Trigger`) and its callback runs later (`Timeout`): in between another
handler may wake the thread, the case the callback tests first. A timeout may trigger at any
time; when it may is the subject of `VirtualTimers`.

**Mutexes** (`ChMutex`). Actions: lock, try-lock, unlock, unlock-all, set priority, yield, sleep,
the waits of a condition variable with and without timeout, signal and broadcast from
threads and handlers. `Boost` is the loop of `chMtxLockS` along the chain of owners.
Threads nest mutexes in any order and may come to wait for each other in a circle; the loop then goes
round the circle, and `PriorityInherited` holds there too. `lowered` is history: an owner that sets its own priority below that of
a waiter gives up the inherited one (`chthreads.c:267`), the one exception of `PriorityInherited`.

**Semaphores and mailboxes** (`ChSem`, `ChMailbox`). Post, post-ahead, fetch and reset from threads
(immediate, timed, unlimited) and handlers, over the two semaphores of a mailbox, and the semaphore calls on
plain semaphores. `queued` is history: the messages in the mailbox. `overtaken` records that a
reset came while a woken thread held a unit it had not used: `chMBResetI` sets `emptysem` to N and the
thread signals it once more, after which a slot too many is handed out. The
properties of the slots hold up to then.

**Virtual timers** (`VirtualTimers`). The delta list, `vt_lasttime`, and the counter with its compare
register, flag and enable bit. `Tick` advances the counter, everything else happens
at an instant; `now` is read up to `CRIT` ticks before the rest of its critical section. `Turn` is one round
of the loop of `chVTDoTickI`; between rounds callbacks, threads and other handlers set and
reset timers. `due` is history: the deadlines asked for. The delta list implements
`TimerService`, whose state is just these deadlines, under the mapping `due <- TicksLeft`: what is left
according to the deltas, not the history.

## The serial driver

`ChSerial` has the two printing threads, a reader that also listens to the events, the
interrupt handler of `serial_lld.c` and the USART (external: data, shift and receive register, `TC`,
`ORE`, enable bits). A character is one `chOQPutTimeout`, as in `chprintf`. The handler is one
step per critical section: entry (`CR1` and `SR` are read), one per received byte, the refill of
the data register, the end of the transmission. `isr` holds its copies of `CR1` and `SR`, which may be
old when they are used: the USART shifts and receives between the steps. `printed`, `sent`, `arrived`, `got`
and `reported` are history.

## Runs

| Run | Instance | Shows |
|---|---|---|
| `filter` | orders 0..3, 2 buffer slots, 7 samples; stale words negative, small, wrapping and right; any allocation fails | type, newest samples kept, difference equation; out of bounds only through a small or missing block |
| `filter_unset` | order 3, 10 slots, zeroed RAM | *violated*: the eighth sample is written behind the block |
| `forms_agree` | orders 1, 2, all small inputs and coefficients modulo 5 | form I and form II return the same |
| `heap` | 2 threads, 12 bytes, requests 0, 1, 4, 7, header 2, provider, fair | tiling, sorted list, merging, assertion, held blocks untouched, first fit; every walk ends |
| `application` | order 3, 10 slots, 50 samples, each `TipoFiltro`; stale words 0 and 3, any allocation fails | the form fits the data, each sample once and in order, all of them unless a step is undefined |
| `application_exit` | the same, no allocation fails, stale word 3 | *violated*: the destructor frees what the object never held, or a block twice |
| `timers` | 3 timers, delays 1, 3, 5, counter modulo 16 | deltas are deadlines, the alarm is ahead, refinement of `TimerService`: never early, at most `TIMEDELTA + LATENCY` late |
| `timers_wrap` | 2 timers, `vt_lasttime` up to a turn old | *violated*: a callback before its delay has elapsed |
| `mutex` | 3 threads, 2 mutexes nested in any order, 1 condition variable, priorities 1..3 | each thread in one place, ownership, ordered queues, highest runs, inheritance along chains and circles |
| `mailbox` | 2 threads and handlers, 3 slots, 2 messages, 2 semaphores | each thread in one place, counters, slots conserved, messages in order, units granted in order |
| `serial` | 4 bytes arrive, a message of 3 characters, queues of 2 and 2 | counters and pointers agree, bytes in order, losses reported, transmitter on, no lost wake-up or event |
| `serial_live` | messages of 3 and 1 characters, a queue of 2, nothing arrives, fair | characters in order and none lost, no lost wake-up; everything is sent; the end is reported after the last character |

**Bounds.** The application needs none: its order, buffer size and samples are those of
`main.cpp`, with small integers for the floats. Two slots and seven samples move the buffer three times, with orders
below, equal to and above the number of slots (overlapping and non-overlapping moves).
`SIZE_MODULUS` 256 stands for 2^32 and lets stale words wrap to small sizes and to the right
size. Twelve bytes hold up to six headers, enough for a block with free neighbours on both
sides, splits with a rest of 0 and 2, and exhaustion. The runs of the filter stop after
`MaxSamples`, so they do not check deadlock. Nor does `mutex`: threads that wait in a circle wait for ever. The other runs of
the heap and of the kernel do.

For the timers, `TIMEDELTA` 2 is the configured value, `CRIT` 1 the ticks that may pass inside a critical section
and `LATENCY` 2 those until an interrupt is served; three timers give a list with a first, a middle and a last
element. `LAG` bounds how old `vt_lasttime` is when a timer is added: 6 stands for "less than a turn minus the
longest delay", which the refinement needs, and `timers_wrap` removes the restriction. Three threads and two
mutexes make a chain of inheritance of length two. `MaxCount` 1 bounds the plain semaphores. A mailbox of three
slots wraps both pointers at different times. `BYTES`, the number of bytes that arrive, is 4 for an
input queue of `IN_SIZE` 2: both pointers wrap, the third byte overruns the queue if nobody reads, and bytes
after a loss must still come in order. `OUT_SIZE` 2 makes a message of `CHARS` 3 wait; in `serial_live`, while it waits, the other writer may take the slot that was freed
for it. One writer is enough in `serial` to interleave the two directions. Every `VIEW` leaves out only
what no later step reads or, for the timers, makes times relative to the counter; the symmetric sets
(mutexes, timers, messages) are treated alike by the modules. No run that checks liveness uses a symmetric set. `heap`
checks it under its `VIEW`: states with the same view have the same steps enabled, and lead to the same views.

**Fairness.** `heap` assumes weak fairness of the steps of the calls, of all threads together, that are not waiting for
the mutex: some thread inside a call goes on. The owner of a mutex inherits the priority of the threads it blocks and the
scheduler runs ready threads, so it is eventually run. Nothing is assumed about who gets
the mutex, nor that threads make calls. `application` assumes weak fairness of both threads: they
have the same priority and every round of either loop pauses, so neither starves the other. It does
not check deadlock, because nothing follows an undefined step. `serial_live` assumes that
the USART goes on shifting, that a handler, once entered, and the reader's calls go on (weak fairness), that a pending interrupt
is served although critical sections mask it now and then (strong fairness of `Enter`), that a timeout
triggers, and that writers that run again and again get on with their messages instead of being
interrupted for ever before the next character (strong fairness of the writers together: ticks and characters
are far apart at 9600 baud). Nothing is assumed of one writer against the other.

## Proofs

**`FilterProofs.tla`**, from `DataFilterAssumption` and `FilterAssumption` (sizes positive,
orders natural numbers, stale words integers):

* `TypeCorrect`: `TypeOK` is inductive; its bound on `ContBuffer` makes the equality
  test of a full buffer safe.
* `BuffersCorrect`: `BuffersHoldNewest` is inductive together with `TypeOK`. The lemma
  `PushProperties` is the core: making room with `moveArray`, or not, and writing
  a sample at the cursor keeps the newest N samples right below the new cursor.
* `OutOfBoundsNeedsSmallBlock`: with N + BUFFER_SIZE floats in each buffer every access of
  every call is inside (`RoomForACall`).
* `FilterImplements`: the refinement. With `BuffersHoldNewest` the positions that `sum` visits
  are the newest samples, so both sides accumulate the same terms in the same order; the
  recursion of `createArrayAux` has the same body as that of the abstract `AuxSignal`.

**`ChHeapProofs.tla`**, from `HeapAssumption` (the header is not empty, the heap object lies below the
area) and `RequestsFit`: a header keeps the alignment, and requests are smaller than the largest `size_t` by a
header and two alignment units. The second is a hypothesis of each theorem, because `chheap.c:154` does not test
the size; the run `heap` evaluates it for its requests. `RoundingFits` derives from it that no rounding wraps. For every
number of threads, size of memory and set of such requests, with a provider or without:

* `HeapTypes`, `HeapTiles`, `HeapListSorted`, `HeapCoalesced`, `HeapEnoughRoom`, `HeapFreeFindsItsPlace`:
  every invariant of the run `heap`.
* `HeapHeldUntouched`: the action property `HeldBlocksUntouched`.
* `HeapFirstFit`: the action property `FirstFit`. It adds to `HeapInv` that the free blocks a walk has left
  behind are too small (`Passed`): nobody else changes the list while the walk holds the mutex, and a sorted list
  puts exactly the lower blocks behind.

All follow from the inductive invariant `HeapInv` (`HeapInvariant`). The checked invariants need each other:
a merge keeps the tiling only if the list is sorted, since the neighbours found in the list must be
the neighbours in memory, and a split keeps the list sorted only if the blocks tile. `HeapInv` adds what
the checked ones leave out: a block is free, held, or in the hands of one freeing thread
(`BlocksApart`), the list position of a walk is in the list and below the block being freed, and the size in
progress is the one that was asked for (`CallsGood`). The lemmas `TiledSplit`, `TiledGrow`, `TiledMerge`,
`SortedInsert`, `SortedReplace` and `SortedRemove` say what each change of the memory does, for any sets and functions;
`FreeInsertKeeps` composes them for the four ways of merging. `ChHeapLemmas` holds the invariant and these lemmas,
`ChHeapCallProofs`, `ChHeapAllocProofs` and `ChHeapFreeProofs` one lemma per action, `ChHeapProofs` the theorems.

**`ChSerialProofs.tla`**, from `SerialAssumption` (queues not empty, lengths natural numbers):

* `QueuesStayConsistent`: `QueuesConsistent` for every number of threads, queue size and message.
* `TransmitterStaysOn`: `TransmitterOn`, a character in the queue implies `TXEIE`.

Both follow from the inductive invariant `SerialInv`. Neither property is inductive: the
handler tests `q_rdptr = q_wrptr` and not the counter, so the counter stays in range only if it is the
distance of the pointers (`Between`), and the pointers are in range (`IsQueue`). The
handler writes `CR1` back from the copy it took on entry, so `TransmitterOn` needs `CopyGood`: while the handler runs
no thread does, hence no character is added, and the copy has `TXEIE` unless the queue is empty.

Only model-checked: the kernel objects and the timers; the order of the characters and the lost
wake-ups of the serial driver; the equality of the two IIR forms (an induction over data); liveness,
which the proof system does not reach.

## Findings

1. `DataFilter.cpp:10` (also 26, 30, 47, 51): buffers sized from an unset member (`filter_unset`).
2. `chvt.c:136`: `now + delay - vt_lasttime` wraps once `vt_lasttime` is nearly a turn of the counter old;
   a program whose timers are always reset in time, and always overlap, gets there (`timers_wrap`).
3. `main.cpp:84`: with `TipoFiltro` 2 the `IIR` is attached and the `FIR` destroyed, whose members were never set; with 0
   and 1, `FIR.cpp:75` and `IIR.cpp:102` free what `Filter.cpp:11` frees again (`application_exit`). All of it
   happens after the last sample, and only if the unset table pointer leads to a destructor.

Further observations, made while modelling:

* `chheap.c:186-191`: on the heap with a provider, `NULL` may be returned although the request could have been granted
  all along, because the mutex is released before the provider is asked: a block freed in between is not seen.
* `chmtx.c:46-47` says of unlocking in reverse order that it "also ensures that deadlocks are no possible". It does
  not: two threads that lock two mutexes in different orders, and unlock in reverse order, wait for each other
  after nine steps of `ChMutex`. Locking in one order is what excludes it, and is up to the program.
* `chheap.c:154`: the rounding of a request within a word of the largest `size_t` wraps to 0.
* `chmboxes.c:129`: a reset that overtakes a woken thread leaves `emptysem` at N + 1.
* `serial_lld.c:196`: `TC` is tested in a status read before the last character was written, so
  `CHN_TRANSMISSION_END` may be broadcast early; `EndReported` shows that it is broadcast again at the end.

## Not modelled

Nearly all lines of the tree are outside these modules: register definitions
and CMSIS headers, ports, boards and startup code for other processors, drivers of peripherals the application does
not start, FatFs and its character tables, the NIL kernel, test suites and demos. They are tables and
register accesses, or are not linked into the application. The lwIP example depends on a library that
is not in the tree. The map therefore covers a very small share of the tree: the filter
library, the application, and the kernel and driver code listed under "The system".

Of the parts that are modelled:

* `~DataFilter` and `sdStop`, which nothing calls; LIN breaks, parity, framing and noise errors;
  block transfers and resets of the I/O queues.
* Creation and exit of threads, suspension by reference, the registry: threads exist from the start.
* Registration of listeners, waits for several events and with a timeout; one listener stands for all.
* Recursive mutexes, priority queues of semaphores, the time quantum: turned off in `chconf.h`.
* Messages, memory pools, dynamic threads: not used by the program.
* Kernel start, statistics, debug code: the assertions are properties of the modules.
* What `chprintf` formats; stack depth (`main.cpp:26`), a property of compiled code.
* The composition of all modules: `Application` uses a heap that succeeds or fails and pauses
  that end at any time, `ChHeap` a lock that is exclusive. `ChHeap`, `ChMutex`, `VirtualTimers` and `ChSerial`
  check those parts separately.
