# RSU OS hardening boot loader: TLA+ models, checks and proofs

The repository is a Little Kernel (LK) boot loader for an ARM single-core
target (TCC893x), with aboot on top: a small preemptive kernel, a few storage and
utility libraries, and the code that loads, verifies, updates and starts an
image. This directory holds TLA+ models of its concurrent core, of its heap and
of the way from reset to a running kernel, TLC configurations that check them on
small instances, and TLAPS proofs of the invariants for every instance.

Contents

1. The system: components, state, interactions, what is hard
2. The modules and how they correspond to the code
3. What the runs check, with which bounds
4. Fairness
5. What is proved, and how
6. Where the code and its documentation disagree
7. What is only model-checked, and what is not modelled
8. What is left

## 1. The system

| component | source | state | operations | used by |
|---|---|---|---|---|
| threads | `kernel/thread.c`, `arch/arm/{thread.c,asm.S}` | thread structures (state, priority, quantum, queue node), run queues, `run_queue_bitmap`, `current_thread`, `critical_section_count` | create, resume, exit, yield, preempt, sleep, set priority, `thread_resched`, tick | everything |
| wait queues | `kernel/thread.c:603-882` | list and count per queue, `blocking_wait_queue` and result per thread, a timer on the stack of a timed wait | block, wake one, wake all, unblock on timeout, destroy | mutex, event |
| interrupt glue | `arch/arm/exceptions.S`, `platform/tcc893x/interrupts.c` | saved CPSR, critical section count | entry, handler, exit with or without preemption | timers, drivers |
| timers | `kernel/timer.c` | sorted `timer_queue`, 32-bit millisecond clock | set one-shot and periodic, cancel, tick | sleep, timed waits, keypad |
| mutexes | `kernel/mutex.c` | magic, count, holder, wait queue | init, acquire, timed acquire, release, destroy | drivers |
| events | `kernel/event.c` | magic, signalled, flags, wait queue | init, wait, timed wait, signal, unsignal, destroy | dpc, fastboot, keypad |
| deferred calls | `kernel/dpc.c`, `thread_exit` | `dpc_list`, `dpc_event`, the dpc thread | queue, run | `thread_exit` |
| start-up | `kernel/main.c` | the bootstrap thread | initialise, create boot threads, become idle | |
| heap | `lib/heap/heap.c` | address-ordered free list, a header in front of each allocation | alloc with alignment, realloc, free | everything |
| block devices | `lib/bio` | device list and reference counts | open, read, write, erase, close, subdevices | part of no target |
| block cache | `lib/bcache` | blocks on a free list or an LRU list, dirty bits, reference counts | read, get, mark dirty, put, flush | part of no target |
| circular buffer | `lib/cbuf` | head, tail, event | write (from interrupts), read | part of no target |
| file systems | `lib/fs` | mount list, reference counts | mount, unmount, open, close | part of no target |
| fastboot | `app/aboot/fastboot.c` | connection state, two events, one request | command loop, transfers, answers | the host over USB |
| boot, recovery | `app/aboot/{aboot,recovery}.c`, `platform/tcc893x/reboot.c` | on storage: the message in the misc partition, the bootloader, the images; in memory: the `boot_into_` flags and what has been loaded | choose, update the bootloader, load and start an image, fastboot commands | the user, the kernels, the host |
| verification | `app/aboot/penta` | the command the chip is working on | authenticate, send the certificate in parts, verify the signature | aboot |
| keys | `dev/keys` | bitmap of pressed keys | post, get; scan by a timer callback | aboot |
| libc, fdt, gfx, console, drivers, tools | the rest | | | |

**How they interact.** There is one CPU. Kernel calls run with interrupts off in
a *critical section*, a count of nesting per thread: the outermost
`enter_critical_section` turns IRQs off, the outermost `exit_critical_section`
turns them on. A call that gives up the CPU does so in the middle of its own
critical section, inside `thread_resched`; the section is left when the thread
is switched in again, by then in a different world. Between calls the timer
interrupt (every millisecond) and device interrupts arrive; the handler runs
in the frame of the interrupted thread and, on its way out, may put that thread
back on its run queue and switch. Mutexes and events are thin layers over
wait queues. A thread cannot free its own stack: `thread_exit` queues that to the dpc
thread.

**What is hard.**

* One `queue_node` per thread serves the run queue and the wait queue; resume,
  wake, timeout and the sleep timer all move it. Two of them in the wrong
  order corrupt a list.
* State read before a switch is used after it: the woken mutex waiter makes
  itself the holder only when it runs again, the timed-out waiter takes itself
  off the count only when it runs again.
* A timeout may fire after its thread has been woken and before it has run.
* `wait_queue_wake_all` puts the current thread on the run queue before the
  loop; nothing may run until the loop is done.
* Timers and the clock wrap at 32 bits; callbacks change the list that is walked.
* `thread_exit` asks another thread to free the stack it stands on.
* The heap writes its list into the memory it manages: a chunk that is a word
  too long or too short destroys the list or another allocation.
* The power may fail between any two writes, and any read or write of the
  storage may fail; what was asked for must survive or be visibly given up.
* A second attempt to boot (`continue`) finds memory and flags as the first has
  left them.
* The security chip is polled and may never answer.

**What makes each part correct.** *Scheduler*: the lists, the bitmap and the
thread states agree; every wait gets one result, of what woke it; ready threads
run. *Mutex*: one owner, first come first served, nobody waits for a free mutex.
*Event*: no signal is missed; an auto-unsignal event releases one wait per
signal. *dpc*: every call runs, every dead thread is freed once, never while it
can still run. *Timers*: no callback early, none left behind, the handler ends.
*Heap*: chunks neither overlap nor vanish, and free neighbours are one chunk.
*Fastboot*: one answer per command, no image put together from two downloads. *Boot*: an
interrupted update is repeated, a request for recovery is not forgotten, a kernel
starts only with what belongs to it, every boot ends whose certificate fits.

The hazards are listed line by line in `PROJECT.json`.

## 2. The modules

```
Thread ---- Mutex    refines TimedLock, Lock    ThreadProofs ---- MutexProofs
   \------- Event    refines Signals                \------------ EventProofs
               \---- Dpc                             \------------ DpcProofs
Timer                refines Alarms             TimerProofs
Heap                 refines Arena              HeapProofs
Fastboot                                        FastbootProofs
Verify ---- Boot                                BootProofs
```

`TimedLock`, `Lock`, `Signals`, `Alarms` and `Arena` are abstract specifications: what a
component promises, without the scheduler, the lists and the clock it is made of. The
refinement mappings stand at the end of the components' modules.

`Mutex`, `Event` and `Dpc` EXTEND `Thread`: they run on the scheduler, with its
switches and interrupts, not on an idealised one. Operators named in a comment
"Mutant of ..." are variants with a plausible bug; they are used only to confirm
that each property notices one.

### Thread: scheduler, wait queues, interrupts

| variable | code |
|---|---|
| `k.cur`, `k.state`, `k.prio`, `k.quantum` | `current_thread`, and `state`, `priority`, `remaining_quantum` of each thread |
| `k.runq`, `k.bitmap` | `run_queue[]`, `run_queue_bitmap` |
| `wq.list`, `wq.count` | `wait->list`, `wait->count` |
| `wq.blockq`, `wq.ret` | `blocking_wait_queue`, `wait_queue_block_ret` |
| `cs` | `critical_section_count`; for a thread that is not current, the count saved by `thread_resched` |
| `ints` | the I bit of the CPSR |
| `at[t]` | where the kernel call of `t` stands: in its own code ("user"), or in the `thread_resched` of a call ("yield", "sleep", "block", "wake", "resume", "preempt", "exit", "fresh" for a thread that has never run), in a `wait_queue_wake_all` that does not reschedule ("waking"), in an interrupt ("tick", "device"), or in a call it has made with a leaked count ("unmasked"), where the model ends |
| `frame[t]` | arguments of the `wait_queue_block` in progress |
| `timer[t]` | what the timer on the stack of `t` is armed for |
| `target[t]` | the argument of the `thread_resume` that has passed its state test |
| `drain` | the loop of `wait_queue_wake_all` in progress |

*Granularity.* Inside a critical section nothing interleaves, so a kernel call
is one action up to its `thread_resched` and one more (`Return`, `BlockReturn`)
for the rest. The calls that test something *outside* the critical section are
split there: `thread_resume` (`ResumeCheck`, then `Resume`; thread.c:200 against
204). `wait_queue_wake_all` is split into its rounds (`WakeAll`, `Drain`) so that the
invariants are stated between them too; no other action is enabled meanwhile.
`at` makes visible the two facts that matter after a switch: how many critical
sections are still to be left (`Nest`) and what remains to be done.

*Interrupts.* `IrqEnter` needs interrupts on, and nothing else, up to the point where
the model ends (next paragraph). That it then finds the current thread in its own code
is not assumed but proved (`CallsMasked`). During a tick any armed stack timers may fire, in any order and number
(`SleepFire`, `TimeoutFire`): the scheduler model abstracts from the times, which
are the subject of `Timer`. In this build `timer_tick` always asks for a
reschedule (timer.c:267), hence `TickExit` always preempts; a device handler may or
may not (`DeviceExit`). Returning from an interrupt restores the CPSR of the
interrupted thread.

*Where the model ends.* After a late timeout (section 6, `leak`) the interrupted thread keeps a
critical section it never entered. It computes on, with interrupts, and may be preempted and
come back: all of that is in the model. The next kernel call it makes disables nothing, so
an interrupt may cut that call anywhere, between two pointers of a list too. Actions that run a call
in one piece would be wrong there. `EnterUnmasked` is that call, whichever it is; with it the
behaviour ends (`Unmasked` stutters). **Every property and theorem
about threads, mutexes and events is about what happens up to there.** Without such a timeout there
is no such call (`SectionsHold`), and nothing is left out.

*Debug checks.* `THREAD_CHECKS`, `MUTEX_CHECK` and `EVENT_CHECK` are compiled
out in the shipped configuration; what they would assert are properties here,
not guards.

*ExclusiveResume.* The code's comment and test at thread.c:200 let anyone resume
anything that is not ready or running, also a blocked thread, which would corrupt
its wait queue. All call sites resume a thread that they have just created.
`ExclusiveResume = TRUE` states that use; all runs and proofs are under it.

### Lock, Mutex

`mtx` is `alive` (the magic), `count`, `holder` per mutex; `own` is a history
variable, the threads that were told `NO_ERROR` and have not released.
`AcquireFree`, `AcquireBlock`, `AcquireReturn`, `Release`, `Destroy` are the branches of
mutex.c. The panics (acquire by the holder, release by another thread) are guards: such callers do not
exist in a system that goes on. `AcquireReturn` is where the two acquire functions
differ: `mutex_acquire` returns on any error; `mutex_acquire_timeout` backs out
of a timeout and otherwise takes the mutex.

`Lock` is what mutexes promise to callers without timeouts: one owner each, waiters served
in order, every owner gives it back. The refinement maps `owner` to the owner *or the thread
the mutex has been handed to and that has not run yet*, and `waiting` to `m->wait`.
`TimedLock` is what is left of it with timeouts and `mutex_destroy`: waits fail one by one, and a
thread whose wait has failed (`leaving`) still counts against the mutex until it has run, so that another has
to queue for a mutex nobody owns. That is the behaviour of the run `lost`, stated as part of the contract the
code keeps; everything else of `Lock` remains.

### Event, Dpc

`ev` is `alive` and `signalled`. `credit` is a history variable: the signals an
auto-unsignal event has been given less those a wait has returned for. Interrupt
handlers signal with `reschedule = false`, as event.h asks.

`Signals` is what events promise: a signal lets everybody pass who waits, or exactly the one that
has waited longest, in a single step; destruction fails all waits in a single step. The refinement
takes the waiters that the loop of `wait_queue_wake_all` has yet to wake as woken from its first
round on, for no client runs before the loop is done.

`Dpc` adds `jobs` (`dpc_list`) and `loop`, the three steps of the dpc thread
(wait; take the head or clear the event, one critical section; run the call). `Exit`
is `thread_exit` with its `dpc_queue(..., DPC_FLAG_NORESCHED)` inside: the whole
call is one critical section that ends in the last `thread_resched` of the thread.
A deferred call is `thread_cleanup_dpc` of a thread, or `Callback` for any other.

### Timer

The list of `[timer, time, period, left]`; `time` is the code's `scheduled_time`
modulo `Modulus`, and `left` is the true time until expiry, which the code does
not have: the properties compare what the code does with wrapped times against
`left`. `timer_set` is split before its critical section (`SetBegin`, `SetEnd`):
the time is read and the timer filled in outside it. `tick.lag` is how far the
clock has moved while the handler works with the `now` it was called with.
Callbacks may set or cancel any timer, their own too, except one that an
interrupted `timer_set` is about to insert: its owner alone uses it.

`Alarms` is what timers promise: a set of alarms that each run down in true time, with no
clock that wraps and no order. The refinement forgets the order of the list and the `time` of its entries.

### Fastboot

One thread, a host and a USB controller. The controller's driver is not in the
repository; the model takes from `dev/udc.h` and its use that a request which
`udc_request_queue` accepts is completed once, by an interrupt, with success or an error, and that a
request under which the link was down fails.

| variable | code |
|---|---|
| `usb.link`, `usb.req`, `usb.stale` | the link; the direction of the one `req` when queued; whether the link has been down under it |
| `ev.online`, `ev.done` | `usb_online`, `txn_done` are signalled (auto-unsignal; see `Event` for what such an event does) |
| `txn` | what `req_complete` stores: `txn_status`, and whether `actual` is short |
| `fb.pc`, `fb.state` | where the thread is; `fastboot_state` |
| `fb.script`, `fb.step` | the handler that runs and how far it is |
| `fb.len`, `fb.left` | in `cmd_download`: the transfers of the download and those still to come |
| `dl.size`, `dl.fresh` | `download_size`; which parts of the buffer the last download has written |
| `dl.use` | history: whether `cmd_boot` or `cmd_flash` last took a sparse image from the buffer, and whether what it took was all of the last download |
| `told`, `usb.fault` | history: the packets the host has received for the command; whether the link has failed since it came up |

The command handlers of aboot.c are abstracted to what they send and in which
order (`Scripts`), with each outcome: `cmd_flash` for one always ends in `fastboot_okay`,
also after a `fastboot_fail` inside it. Handlers that send the same packets share an entry (`oem unlock` and
`preflash` are `getvar`, `reboot-bootloader` is `reboot`). `continue` may come back, with USB stopped, when there
is nothing to boot.

`UseBuffer` is what a handler takes from the download buffer. `cmd_boot` compares the sizes in the header
with `download_size`, `cmd_flash` writes `download_size` bytes; but first `cmd_flash` looks for the magic of a sparse image
in the buffer, whatever `download_size` is, and `cmd_flash_sparse_img` writes what the chunks in the buffer say.
What is in the buffer is data, so the model lets each `flash` be either.

An unknown command is faithful to the code: `fastboot_fail("unknown command")`
(fastboot.c:325) sends nothing, because the state is not `STATE_COMMAND` there,
so the host gets no answer. No document says otherwise, so no run is spent on
it; the property about answers speaks of commands that have a handler. Likewise, when the link
goes down and up while a handler computes, its answer goes to the new connection.

### Boot, Verify

`Boot` follows one device through any number of resets. Storage (`disk`) and the
reason of the reset (`usts`) survive one, flags (`dev`) and memory (`mem`) do not.

| variable | code |
|---|---|
| `disk.cmd` | the command of `struct recovery_message` in misc: none (or any other text), boot-recovery, update-bootloader |
| `disk.loader`, `disk.image` | what the bootloader partition and the boot partitions hold: old, new, half written, nothing that is an image |
| `usts` | the PMU_USSTATUS register that `check_reboot_mode` reads |
| `dev.pc` | the step of `aboot_init`, `recovery_init`, `boot_linux_none_secure` |
| `dev.rec`, `dev.chrome` | `boot_into_recovery`, `boot_into_chrome` |
| `dev.usb`, `dev.os` | whether fastboot can be reached; the kernel that runs |
| `mem` | which image the kernel and the ramdisk in memory are from; whether the device tree is loaded |
| `hist` | history: faults so far, what somebody asked for and has not got, and the two exceptions the code makes (below) |
| `g3` | the session with the security chip: command, and the parts of the certificate |

*Granularity.* One action per access to the storage, with its failure and, where
it writes more than a sector, a loss of power in the middle; `PowerLoss` between
any two. The message and its status are one sector and written whole. The
kernels, who write the message and the reason of a reset, and the host are outside
the repository: they may do what the formats allow. `MaxFaults` bounds the power
losses and storage errors of a behaviour; whether a fault is left or not is the only
way the bound shows.

*Configuration.* The targets of platform tcc893x except TSVA and J87K, with an
unsigned kernel; quickboot is off, as `skip_loading_quickboot` is 1 from the
start and never 0, so "boot-force_normal" does nothing.

*What the code does not check* is in the model as it is: the result of
`set_recovery_message`, of reading the update header (recovery.c:240) and of
`bootimg_secureboot`; errors of `tcc_write` other than -1 in the update (recovery.c:241).
The first loses nothing, as the message stays. The last two count as a finished
update and are named in `UpdateKept` (`hist.waived`). The window between the
clearing of boot-recovery and the start of recovery is named in `RequestKept` (`hist.lost`).

`Verify` is the session: commands 0 to 5 authenticate, 6 to 10 carry the
certificate, 11 the signature. Each is written (`G3Send`) and polled until the
chip answers (`G3Answer`) or three seconds are over (`G3TimeOut`). After a certificate
whose size is a multiple of 240 the byte that ends the loop is not initialised
(secureboot.c:41): either value is taken. The sizes of the certificate and of the signature
come from the image and are not looked at: `load_cert_chunked` fills as many parts as the size asks for, of the five
there are, and the signature is copied into one command. From 1200 and beyond 216 bytes the copy runs over the array
on the stack; the session is then in "overrun" and the model says no more about it than that the device can be
switched off and on.

### Heap

| variable | code |
|---|---|
| `free` | `theheap[ZONE_NORMAL].free_list`, in its order |
| `used` | each allocation: its chunk (`as->ptr`, `as->size`), the pointer given, what was asked for |
| `moving` | the `heap_realloc` calls that have allocated and not yet freed |

Addresses and lengths count words of four bytes, to which the code rounds them.
`heap_alloc` and `heap_free` are one critical section each; `heap_realloc` is not,
so other callers come between its halves. `FirstFit`, `Rest`, `Pointer` and
`Inserted` are what the loops do to the list, said without a loop. In
`heap_insert_free_chunk` a chunk merges with the previous one and then with the next.

`Arena` is what the heap promises: memory of which some blocks are in use, no list. Whoever asks is given the lowest
place where no block is in the way; a remainder that could not stand alone goes with it.

## 3. The runs

| run | question | bounds |
|---|---|---|
| `thread` | do lists, bitmap, states, stack timers and results agree at every point; do ready threads run? | idle + 2 threads of one priority, 1 wait queue, quantum 2, no change of priority, one leaked count |
| `mutex` | is a mutex exclusive, are holder and count exact, with timeouts and destroy; does it implement `TimedLock`? | idle + 3 threads, two priorities, 1 mutex, quantum 1 |
| `lock` | without timeouts and destroy, is it a fair first-come-first-served lock (`Lock`)? | idle + 3 threads of one priority |
| `event` | can a signal be missed, lost or doubled; can the loops be told from single steps (`Signals`)? | idle + 2 threads of two priorities, 1 auto-unsignal and 1 manual event, timeouts, interrupts, destroy, a change of priority |
| `dpc` | is every dead thread freed, once, and no call forgotten? | idle, dpc thread, 2 threads that come and go, 2 jobs queued by others |
| `timer` | is the list sorted across the wrap, nothing early, nothing left (`Alarms`), handler ends? | 3 timers, clock modulo 12, delays 0 and 3, period 2, lateness 1 |
| `fastboot` | does each command get one answer, its first verdict; can an image that is not sparse be put together from two downloads; is every connection served? | downloads of up to 2 transfers, every command and outcome, faults anywhere |
| `boot` | is an interrupted update repeated, a request for recovery kept, only a matching image started; does every boot end? | 2 faults anywhere, certificates of every number of parts up to the first that does not fit, the host writes recovery |
| `heap` | do the chunks tile the heap, merged and in order; is room found whenever there is some, and the lowest (`Arena`)? | 24 words, sizes 0, 2 and 5, alignments 0, 2 and 8 |
| `leak`, `lost`, `exit` | the three disagreements of section 6 | as `thread`, `mutex`, `mutex` |

*Why the bounds suffice to meet the interesting cases.* Two threads are enough
for every pair of a waiter and a waker with an interrupt in between; the mutex
needs three for a hand-over with a contender, and priorities so that the contender
can preempt. Quantum 2 distinguishes a quantum that is used up, partly used and
full. Three timers give a list with a head, a middle and a tail; modulo 12 the
clock wraps many times while delays stay under half the range, as `TimerAssumption` asks
of the code's 2^32. `MaxLeaks` bounds how often the late timeout of section 6 may
leak a count before the thread makes its next call, with which the model ends. Two transfers make a download that can break off before, between and after them. A certificate of five full parts is the first that overruns the array. `MaxJobs` bounds
only the calls that clients queue. `MaxLate` bounds how late a tick is. Two faults
let an update break off and its repetition too, or a storage error be followed by a loss of
power; one writable partition suffices, as the partitions are treated alike, and recovery
is the one that requests lead to. In 24 words there is room for three chunks: a chunk freed
between two free neighbours, a split with and without a remainder, and alignments above and below the
smallest one.
`CHECK_DEADLOCK` is on everywhere: no state of any model is stuck.

*Properties.* Each is stated with its meaning above its definition. The ones
that carry the most: `WokenOnce` (a late timeout leaves the result and the queues alone),
`MutualExclusion` with the hand-over included, `CountIsEngaged` (with
`Cardinality` of the threads inside acquire, including those that timed out and
have not run), `EachSignalReleasesOne`, `DeadPendOnce`,
`QueueSorted` by true time, `RoomIsServed`, the refinements `ImplementsTimedLock`, `ImplementsSignals`,
`ImplementsAlarms` and `ImplementsArena`, and the liveness properties `ReadyThreadsRun`,
`ImplementsLock`, `DeadAreFreed`, `TickEnds`, `ServesConnection`, and `BootCompletes`, which says for each
number of faults that without a further one the boot ends, and ends in recovery if that was asked for, unless the certificate or the
signature does not fit.

## 4. Fairness

* **Timer interrupt, strong.** The controller keeps it pending while IRQs are off,
  so if it can be taken again and again it is taken. Strong fairness of
  `SleepFire \/ TimeoutFire` says that an armed timer is run by some later tick.
* **The code behind a switch or an interrupt, weak** (`Return`, `BlockReturn`,
  `Drain`, `TickExit`, `DeviceExit`): the CPU executes.
* **Owners release, strong per thread and mutex** (run `lock` only): the usual
  assumption on a client of a lock, strong because the owner can be preempted.
* **The dpc thread goes through its loop, strong** (run `dpc`): whenever it is given
  the CPU again and again. Deferred calls return.
* **The timer handler, weak** (run `timer`).
* **The fastboot thread, weak; the controller, weak for answers and for requests the link
  was down under** (run `fastboot`): the host fetches answers, and a dead link gives requests back. Nothing
  makes the host send commands or data.

* **aboot, weak** (run `boot`): it runs on. The chip need not answer, the host need
  not send a command, and no kernel need restart the device.

Nothing is assumed of threads otherwise: they may compute for ever.
`ReadyThreadsRun` is conditional on no kernel call being made with a leaked critical section: the model ends with that
call, and in the code the leak can mask interrupts for good.

## 5. What is proved

The proof modules prove, for every value of the constants that satisfies the
named assumptions:

| module | theorems |
|---|---|
| `ThreadProofs` | `SchedulerInvariant` (`ThreadSpec => []ThreadInv`) and its parts as the runs check them: `SchedulerTypes`, `RunQueuesExact`, `WaitQueuesExact`, `StackTimersSafe`, `CpuIsAccounted`, `CallsAgree`; `CallsAreMasked`; the action properties `TicksRunHighest` and `WakeupsStand` (`WokenOnce`); `SectionsHold`: without late timeouts, kernel calls run with interrupts disabled and no critical-section count leaks |
| `MutexProofs` | `MutexInvariant`; `MutexExcludes`, `MutexBookkeeping`, `CountsEngaged`, `MutexesTyped`; the refinement `MutexIsTimedLock`; without timeouts and destruction `FreeMutexesUnawaited` and `MutexIsLock` (the safety of `Lock`); without timeouts, and without destruction, `HoldersAreGranted`; the composition `MutexRunsThreads`, `MutexKeepsScheduler` |
| `EventProofs` | `EventInvariant`; `SignalsReachAll`, `SignalsReleaseOne`, `DestroyLeavesNobody`, `EventsTyped`; the refinement `EventIsSignals`; the composition `EventRunsThreads`, `EventKeepsScheduler` |
| `DpcProofs` | `DpcInvariant`; `DeadAreFreedOnce`, `DpcStaysAwake`, `DpcTyped`; `DpcKeepsWakeups`, `DpcTicksRunHighest` |
| `TimerProofs` | `TimerInvariant`; `QueueIsSorted`, `TimersAreNeverEarly`, `TicksLeaveNothingDue`, `TimersTyped`; the refinement `TimersAreAlarms` |
| `FastbootProofs` | `FastbootInvariant`, `AnswerInvariant`; `TransfersMatch`, `DownloadsWhole`, `FirstVerdictAnswers`, `FastbootTyped`, for downloads of any number of transfers |
| `BootProofs` | `BootInvariant`; `UpdatesAreRepeated`, `RequestsAreKept`, `StartsStored`, `BootTyped`, for any number of faults |
| `HeapProofs` | `HeapInvariant`; `HeapIsTiled`, `PayloadsAreInside`; `HeapComesTogether`: when everything has been freed the heap is one chunk; the refinement `HeapIsArena`; `RoomAlwaysServed` |

*Assumptions.* `PriorityAssumption` (priorities are naturals, the idle one the
lowest), `TopAssumption` (a non-empty set of priorities has a greatest: what a 32-bit
bitmap gives), `ThreadAssumption`; `MutexAssumption` and `EventAssumption` (finitely many
threads, for `Cardinality`); `DpcAssumption` (the dpc thread is a boot thread and its event a manual one);
`TimerAssumption` (delays, periods and lateness are under half a turn of the clock);
`HeapAssumption` (the heap holds one free chunk, alignments under 4 are powers of two);
`FastbootAssumption`, `BootAssumption`, `VerifyAssumption` (bounds and sets of the right kind; the size of a certificate is any). The statements about
the scheduler, mutexes, events and deferred calls assume `ExclusiveResume`. `MutexIsLock` and
`FreeMutexesUnawaited` also assume `PlainMutexes` (nobody uses a timeout or destroys a mutex),
`HoldersAreGranted` one of the two. What is proved of the scheduler, mutexes and events is proved of `ThreadSpec` and what runs on it, which ends
with the first kernel call made with a leaked count (section 2). `SectionsHold` is about the behaviours of `ThreadSpec` in which no timeout fires for a thread
that has been woken already.

*Argument.* `ThreadInv` is inductive as it stands, but none of its conjuncts is alone.
`RunQueuesMatch` and `WaitQueuesMatch` say that membership of the one list node is a
function of the state; to keep them when a timeout or wake moves a thread one must
know that the thread is on exactly the list the state says (each needs the other).
`CpuAccounted` says when the current thread is *not* running (the wake-all loop) and that the
idle thread is always somewhere, so that `thread_resched` finds a head.
`StackTimersDisarmed` and `CallsMatch` tie timers and frames to states, so that a
timer that fires finds a thread in a state the handler expects. `CallsMasked` says that interrupts are off in every call that
the model runs in one piece, so that an interrupt, which asks for nothing but enabled interrupts, never falls into one. The proof is in
three layers: what the list operations do to membership; what each run queue
and wait queue operation preserves (`ReschedOK`, `PushOK`, `UnlinkOK` ...); one
lemma per action.

*Critical sections.* `Sections` says what every saved count is: the number of critical sections the thread has still to leave at the
place where it stands (`Nest`). Interrupts are on exactly when the running thread stands in its own code, and a thread that has lost the CPU
has lost it inside a call, which is where it will resume. `EnterSections`, `LeaveSections` and `PreemptSections` carry this over the ends
of a call and over the switch; `CoreLives` says that a step changes who lives only by creating a thread.
The early return of the late timeout is the one step that breaks it, so its exclusion is the hypothesis.

`MutexInv` adds to the checked invariants three that are needed for induction:
`OwnersDoNotWait` (an owner is not inside another acquire of the same mutex, so it is
counted once), `LiveAnswers` (while the mutex lives a wait ends with
`NO_ERROR`, or a timeout if it had one: so only a hand-over or a
back-out follows), and `DrainsAreDestroys` (all waiters are woken at once only by
`mutex_destroy`). `CoreWaiters` summarises what the whole scheduler may do to a waiter, so
that the mutex proof does not look inside it again.

`FastbootInv` adds to the two properties what links them to the loop: while `download_size` is not zero all its parts are
from one download (`BufferOK`), which makes the tests of `cmd_boot` and `cmd_flash_img` sufficient (`UseOK`); the parts of
the buffer that are not left to be read are fresh, so is the part whose completion
has arrived but has not been counted (`PartsAreFresh`), and a request to the host is queued
only at a packet of the handler (`WritesPacket`). One lemma per action, over three lemmas for the steps that
begin, end and do not touch a transfer.

`AnswerInv` is proved on top of it. The host has received the head of the handler (`Echoes`), and how much of it
follows from where the thread stands and from `fastboot_state` (`StateMatches`): in STATE_COMMAND no verdict has gone out,
in STATE_COMPLETE, outside a transfer, one has. That a handler stops the link or leaves only after its verdict
(`ScriptAnswers`) is what lets it skip an item without a packet being missed.

*Mutexes are timed locks.* A step of the system moves at most one mutex. For each kind of step there is a lemma that
says what it does to the owner, the waiters and the leaving threads of the mutex it is on (a request, a return, a release, a
wait that fails, the destruction), and that the others stay. An owner is read off the set `Granted(m)`,
which `MutexInv` shows to have at most one element. Of the scheduler's own steps only those that take a waiter off a list matter;
`CoreTakesOff` of `ThreadProofs` says which they are.

That plain mutexes implement `Lock` needs one fact more than `MutexInv`: a mutex that somebody waits for is granted to
somebody (`PlainInv`). It is kept because `m->count` counts: the thread that blocks has found one engaged, and the
one that releases while others wait finds at least two. Each step is then, for each mutex, nothing (`Same`), a request (`Asked`)
or a release (`Given`); timeouts break it, as the run `lost` shows.

`MutexProofs` and `EventProofs` reuse the scheduler's lemmas: every step of theirs is a step of
`ThreadNext` on the scheduler's variables (`MutexRunsThreads`, `EventRunsThreads`: so every theorem about `ThreadSpec` holds under them),
and the rest is read off the frames of the
threads that wait. For the deferred calls, whose threads die, that is not so; `DpcKeepsWakeups` and `DpcTicksRunHighest`
go through the steps of `Dpc` again, with `DpcInv` for the two that the scheduler does not know. `WokenOnce` follows from `ThreadInv` by one lemma for each kind of step.

`EventInv` strengthens the checked properties in three ways. `NobodyWaits` says for
threads what the properties say for lists. `DrainsAreEnds` says that all waiters of an auto-unsignal
event are woken at once only by `event_destroy`, so that they do not count as signalled. `CreditKept` says that the
credit of an event is what it has pledged: its signalled state and one per thread released and not yet run; for a
destroyed event it is at least that, which is what keeps the credit from becoming negative later.

*Events are signals.* The list of waiters that `Signals` sees is empty as soon as the loop that empties it has begun
(`Sleepers`), and those the loop has not reached count as passing or failing by the result it will give them. Each round of the
loop is then a stutter, and `NobodyWaits` closes the gap at its end. `SignalMoves` and `DestroyCloses` say
what the two operations do with one waiter, with none, and with more; `CoreMoves` what a timeout or a return does.

`DpcInv` cannot use the scheduler's invariant as it is, because `ThreadNext` does not let threads
die: `ExitThreadOK` and `FreedOK` carry `ThreadInv` over the death and the freeing of a thread (a dead
thread is nowhere, which is what makes freeing it harmless), and `CoreSpares`, from the `CoreLives` of `ThreadProofs`, says that no
other step kills or frees. To that come `Announced` (a queued call has signalled the event, and a signalled event has the dpc
thread awake, unless the loop that wakes it is in progress), `OnceEach`, and `OneWaiter` (the dpc thread alone waits).

`TimerInv` states that each entry shows by its wrapped time what is truly left (`Fits`), near enough to the clock for
the sign of a difference to be the order (`Difference`); the list is then sorted by what is left, which is
all that insertion and the handler need. A timer that `timer_set` is about to insert may have become late by one tick,
which is why the assumption leaves room for it.

*Timers are alarms.* The entries of the list, without their times on the clock, are the set of pending alarms (`Seens`): the lemmas
about the list operations say what each does to that set. That the head is the most overdue follows from
`QueueSorted`, that the handler may stop at the first entry that is not due from that and `Fits`. A periodic timer goes back
one period after the time the handler was called with, not after the time it was due (`RequeueIsAgain`).

`BootInv` adds to the properties what each step of the way knows (`InPlace`: the message
and the flags; `Loaded`: the parts that are in memory are those the flags select). That the flags do not change
between the header and the start makes a second attempt safe.

`HeapInv` compares the free list with the set of words it covers. Cutting a chunk, removing, inserting
and merging are each described by the words that come and go; disjointness and tiling follow
from that, and only the order of the list is argued by positions.

*The heap is an arena.* The central lemma is `RoomIsChunk`: words in a row that are in no block are in one chunk of the free list.
Each is in some chunk, because chunks tile the heap; were the row to leave its chunk, the word at the
chunk's end would be the first word of another that touches it, and free chunks never touch. The lowest room is then the first chunk
that is long enough, since the list is in the order of addresses, and a request for which there is room
finds one (`RoomAlwaysServed`): merging is what makes that true.

## 6. Where the code and its documentation disagree

* **`leak`** - thread.c:871. A timeout that fires after its thread was woken makes
  `thread_unblock_from_wait_queue` return `ERR_NOT_BLOCKED` without leaving the
  critical section it entered. The count of the interrupted thread stays one too high, and
  when its interrupt returns, IRQs are on: its next `enter_critical_section` takes the
  count to 2 and "disables" nothing. `CriticalSectionDisablesInts` fails. `SectionsHold` proves that there is no other way.
  The models stop at that call. What it may lead to is read from the code, not checked: a tick in `thread_yield` between the
  insertion into the run queue and `thread_resched` (thread.c:402-405) makes `thread_preempt` insert the same `queue_node` again; one in
  `wait_queue_block` (703-715) puts a thread that is still on the wait queue onto a run queue; the loop of `wait_queue_wake_all` (807-822)
  can be cut by a switch; a signal between the test of event.c:120 and the block finds no waiter.
* **`lost`** - mutex.c:163. The holder releases while the only waiter has timed out but not
  run; nobody is woken, the count stays 1. A thread that acquires now
  makes it 2 and blocks; the timed-out thread runs, subtracts itself and
  leaves. The mutex is free and a thread waits for it with no wakeup to come. `FreeMutexHasNoWaiters` fails.
* **`exit`** - mutex.c:166-171. "so just exit", says the comment; the code
  falls through and records the caller as holder of a destroyed mutex.
  `HolderWasGranted` fails. It takes `mutex_acquire_timeout` and `mutex_destroy` together:
  `HoldersAreGranted` proves it without either.

Two comments disagree with the code in ways that no run is spent on: event.c:155-160 says that
the signalling thread is placed at the end of the run queue, while it is put
at the head; and the documentation of `thread_resume` promises
`ERR_NOT_SUSPENDED` for a thread that was not suspended, while the test lets blocked and
sleeping threads through (see `ExclusiveResume`).

## 7. What is only model-checked, what is not modelled

*Only model-checked*: all liveness (`ReadyThreadsRun`, `ImplementsLock`,
`DeadAreFreed`, `TickEnds`, `ServesConnection`, `BootCompletes`; liveness under fairness and ENABLED are out of
TLAPS's reach here). Of `ImplementsLock` the safety half is the theorem `MutexIsLock`. Every invariant, every action property and every other refinement of a
passing run is proved. Proofs about what a function recursive over data computes for every input
need an induction theorem with an operator parameter, which the installed provers cannot instantiate.

*Abstractions inside the modelled parts*: kernel calls made with a leaked critical section, with which the model ends (section 2); names, stacks, thread-local storage,
statistics; the allocation failures of `thread_create` and `dpc_queue`; mutexes and events are
not initialised again after destruction, and are not used after it, except by
threads that were already inside; a single thread at a time is between the
halves of `timer_set`, and nobody cancels a timer while its owner is in `timer_set`; the
variant with `PLATFORM_HAS_DYNAMIC_TIMER`, which this platform does not define. In the heap: requests near 2^32, whose
rounding would wrap, and the contents of memory (`heap_realloc` copies as much as the old chunk
is long, header included: heap.c:356). In the boot: partition tables, tags and command line, the splash image, the
difference of nand and emmc.

*Observations that no property is about*: a sparse image of a download that broke off is written by the next `flash`,
because `cmd_flash` looks at the buffer and not at `download_size` (aboot.c:1332-1343; `DownloadIsWhole` excepts sparse images for this reason);
the comment at secureboot.h:59-62 has certificates of up to 1024 bytes supported, nothing refuses longer ones, and from 1200 bytes on the copy
overruns the parts (secureboot.c:54; `BootCompletes` excepts it); the result of the verification of the image is not looked at
(aboot.c:947-966), so a boot does not depend on it; USSTATUS is not cleared by reading it, so a restart
that leaves it goes the same way again; `continue` does not read the message again, and when it fails the device is
left in fastboot with USB stopped, so that only a restart helps; an I2C transfer that fails gives up
without a STOP condition (platform/tcc893x/i2c.c).

*Not modelled*, and why:

* **Block devices, block cache, circular buffer, file system switch** (`lib/bio`, `lib/bcache`, `lib/cbuf`,
  `lib/fs`): part of no target. Nothing calls them, so there is no use to model them from. Read as
  libraries they have hazards of their own, which whoever links them should look at first: after a failed read bcache puts a
  block on the free list without taking it off the LRU list (bcache.c:205) and does not expect that
  every block is referenced (bcache.c:196); cbuf takes the free space without the modulus (cbuf.c:52); bio lets
  `block = block_count` through (bio.c:302); the error return of subdev.c:93 keeps a reference.
* **lz4, quickboot**: cannot be reached (`skip_loading_quickboot`).
* **Drivers, platform and target code** (most of the repository's lines: HDMI, clocks, LCD, PMIC, GPIO, NAND
  of other platforms): sequences of register writes without protocol state that a property could be about. What
  they do for the modelled parts is in the models as an interrupt, a result or an error.
* **The scan of the keypad**: one timer callback over GPIO levels.
* **libc, device tree, graphics, console, SHA-256, CRC**: data. **Tests, tools, x86, other applications**: not part of the target.

## 8. What is left

1. The failures of `malloc` in `thread_create` and `dpc_queue`, composing `Heap` with `Dpc`.
2. The keypad's scan over `Timer` and `Event`, up to the first full scan that start-up waits for.
