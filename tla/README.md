# Verification of Sound Open Firmware (Baytrail DSP)

The repository is the firmware of an audio DSP. A host driver sends it commands
through a mailbox: it builds pipelines of audio components, starts and stops
streams and changes controls. While streams run, DMA interrupts move samples
between host memory, ring buffers and serial ports, and pipelines copy and
process them. There is one core and no operating system; concurrency comes from
interrupt levels, from the DMA engines and from the host.

This directory holds TLA+ models of the firmware, the TLC configurations that
check them and TLAPS proofs. `PROJECT.json` maps every definition to the lines
it models, lists the runs, the mutants (a plausible bug for every property,
which the property must notice), the hazards, the findings and the theorems.

## Interrupt levels

What may interrupt what decides which steps are atomic.

| level | runs | code |
|---|---|---|
| 5 | DMA controllers, external timer (work queue) | `dw-dma.c`, `work.c` |
| 4 | IPC doorbell | `byt-ipc.c` |
| 3 | software interrupts: scheduler and task runner | `schedule.c`, `task.c` |
| 0 | main loop: IPC commands, sending of notifications | `tasks/audio.c`, `intel-ipc.c` |

`spin_lock_irq` disables every interrupt, so the code it brackets is one step.
`spin_lock` without `_irq` does not: it spins until the lock is free, also when
the holder is the code that was interrupted. A handler is one step for the
levels below it and is cut into steps where a higher level (or the host, or
time) can intervene. A handler that waits (`wait_for_completion_timeout()`
executes `waiti 0`) lets interrupts of its own level in: a task that waits for
the host's DMA may be interrupted by the scheduler and by the run of a task, and
`Scheduler` has these nested runs.

## Inventory

| component | state | operations | interacts with | hard behaviour | what makes it correct |
|---|---|---|---|---|---|
| Host mailbox, IPC queue (`byt-ipc.c`, `intel-ipc.c`, `tasks/audio.c`) | doorbells, interrupt mask, `host_pending`, `dsp_pending`, message pool | interrupt handler, main loop, queueing and sending of notifications | host; everything commands act on | three contexts and the host interleave; sleep races wake-up | commands run once, in order and are answered; messages conserved, FIFO |
| Memory allocator (`alloc.c`) | block maps with `first_free`, `free_count`, headers | `rmalloc`, `rballoc`, `rfree`, `rbfree` | all components | long sequences of allocations and frees, exhausted maps | no block has two owners; counters exact |
| EDF scheduler, task interrupts (`schedule.c`, `task.c`) | task list, states, deadlines, pending interrupts | `schedule_task`, `schedule_edf`, `_irq_high`, completion | DAI DMA callback, pipelines | level 5 preempts level 3; clock wraps | list well formed; earliest deadline runs; never goes quiet |
| Work queue, completions (`work.c`, `wait.h`) | list of works, timer, completion flags | schedule, cancel, run, wait with timeout | drivers, volume, IPC | timeout races completion; clock wraps; late interrupts | no work lost, missed or early; a wait returns |
| Linked lists (`list.h`) | pointers | prepend, append, delete, walk | all | operations on items linked already or no longer | list holds what its user thinks |
| DMA driver (`dw-dma.c`), DMA copy (`dma-copy.c`) | channel states, linked descriptors, drain counters | get, put, config, start, stop, pause, release, FIFO work, interrupt | host and DAI components, work queue | commands, callbacks and interrupt change one state | legal state sequence; a freed channel stays free; a stop ends |
| SSP driver (`ssp.c`) | state per direction, drain work | config, trigger, drain | DAI, work queue | delayed stop and pause | direction that was stopped becomes idle |
| Pipelines (`pipeline.c`) | graph, status, task | new, connect, complete, prepare, params, cmd, copy, reset, free | components, scheduler, IPC | partial failure of a graph walk; free while scheduled | all components of a stream in the same state, or error reported |
| Components (`host.c`, `dai.c`, `volume.c`, `mixer.c`, `src.c`, `tone.c`, `eq_*.c`, `mux.c`, `switch.c`) | state, buffers, parameters | new, params, cmd, prepare, copy, preload, reset, free | pipelines, buffers, drivers | commands in any order; mixer with several sources | legal transitions; mixer runs while a source runs |
| Ring buffers, host positions (`buffer.h`, `host.c`, `dai.c`) | pointers, avail, free, split remainder | produce, consume, split transfer | DMA, copy | full and empty look alike; page ends | avail and free exact; positions add up |
| Topology IPC (`ipc.c`, `intel-ipc.c`) | lists of components, buffers, pipelines | new, connect, free | heap, pipelines | error paths | ids unique; nothing refers to what was freed |
| Notifier, clocks, timers, PMC, trace, boot, HAL | registers | | | clock changes happen at boot only | |
| Signal kernels (`fir.c`, `iir.c`, `src_core.c`, `math/`) | filter state | process | components | fixed point arithmetic | numerical accuracy |

## Modules

| module | models | |
|---|---|---|
| `IpcMailbox` | mailbox, IPC interrupt, main loop, message pool | `IpcMailboxProofs`, `MCIpcMailbox` |
| `IpcChannel` | abstract: bounded FIFO of notifications | implemented by `IpcMailbox` |
| `Heap` | the memory pools | `HeapProofs`, `MCHeap` |
| `ListItems` | `list.h` at pointer level | `ListProofs`; used by the next two |
| `Scheduler` | EDF scheduler and task interrupts | `SchedulerProofs`, `MCScheduler` |
| `WorkQueue` | work queue, external timer, completions | `WorkQueueProofs`, `MCWorkQueue` |
| `CompBuffer` | a ring buffer, as operators on a record | used by `CopyPath` |
| `CopyPath` | the data path of a playback stream: host DMA, volume, DAI DMA, pipeline task | `CopyPathProofs`, `MCCopyPath` |
| `DwDma` | a DMA channel, as operators on a record | used by `Stream` |
| `Ssp` | the serial port, as operators on a record | used by `Stream` |
| `Stream` | composition: stream commands, pipeline walks, components, channels, port, interrupts | `StreamProofs`, `StreamFlowProofs`, `MCStream` |

### IpcMailbox

The doorbell registers are sets of the bits `BUSY` and `DONE`; `IMRD` is the set
of masked sources. `HostPos` says whether `hd->host_pos` is set: `host_dma_cb()`
queues a notification only then (`host.c:170`), and nothing sets it at this
commit (`host.c:599` clears it). With `HostPos` TRUE the model has the queue as
it is written, which allows more than the commit does: what holds of the mailbox
holds of the commit too. What is found not to hold is shown with `HostPos`
FALSE. `pc` is the main loop in `do_task()`, `irq` is
`irq_handler()`; every place where the other can run is a step of its own,
among them the read-modify-write of `IMRD` that unmasks `BUSY`. `msg_list` and
`empty_list` are the two message lists as sequences, a message's content is the
number of the notification in it. The host (external) sends one command at a
time and answers doorbells. Commands are told apart by what they do to shared
state: nothing, or mask all interrupts (`PM_CTX_SAVE`). `sent`, `executed`, `posn` and `got` are
histories.

`IpcChannel` is what the queue promises: each notification offered is accepted
and later delivered once and in order, or refused, and refused only when at
most one buffer is unused. The mapping takes the queue to be the payloads of
`msg_list`, preceded by the message in the outbox while its doorbell is up.

### Heap

A pointer is a map and a block index. `used` and `size` are the header fields
`flags` and `size`. The runtime maps are 0 .. `RtLevels` - 1 and the buffer map
is `RtLevels`. All operations run under `memmap.lock`. Clients hold at most one
allocation each and free it once, so every violation is the allocator's own.
`exhausted` is a history: the maps that were completely in use at some time.

### Scheduler

`next` and `prev` are the list pointers, `pending` the software interrupts set
and not dispatched. `l3` and `task` are the handler of level 3 that is running
and its local variable, `open` says that the interrupt level is 0, and `below`
holds the contexts it has interrupted, the main loop first of all. A DAI
interrupt (`DaiDma`) may come between any two steps. The dispatcher takes the
lower numbered interrupt first, so a task picked is started before the scheduler
is entered again. `Overrun` says whether a DAI may interrupt while its own task
is still queued.

A handler runs with its own level masked (`open` FALSE) until `host_copy()`
waits in the task (`HostWait`): `waiti 0` takes the level to 0 and nothing in the
task raises it again but for short sections under a lock. From there on both
software interrupts are taken in the middle of the task (`Dispatch`), and the
task goes on when the inner handler returns (`Return`). A pipeline without a
host component does not wait; then `HostWait` is not taken. `MaxNest` bounds
the contexts suspended at a time.

The task that waits is QUEUED and on the list, since no code sets
`TASK_STATE_RUNNING`. When another DAI interrupts, `schedule_edf()` may pick the
very task that waits (the run `sched_nested`). It is then run within its own run
and completed by the inner one, and again by the outer one, which unlinks an item
that is no longer on the list: the neighbours its stale pointers lead to are
linked to each other, and a task between them is dropped. `again` is a history
of how far this has gone: `picked` when a running task was picked, `completed`
when a task that was not QUEUED was completed. The properties that need the
list are claimed until `completed`, those about the runs until `picked`, and they
say so by name. With three tasks (`Wrap` 3, `MaxNest` 2) TLC finds that a second
completion can drop a queued task from the list, or leave a list whose walk does
not end, with no overrun; with two tasks it does neither.

Returning is modelled in the most favourable way. The dispatcher leaves with
`rfi`, and saves neither `EPC_3` nor `EPS_3`: an interrupt of its own level
overwrites them, and the outer handler returns into the wait of the inner one.
Registers are not modelled. Nor is a DAI that waits at level 5 because it stops
itself (`Stream` has this wait, without the scheduler).

### WorkQueue

`now` is the free running counter, `cmp` the comparator, `irq` the latched
interrupt and `enabled` its enable bit; they are external and modelled from how
`timer.c` uses them. `l5` and `at` are `queue_run()` and the item its loop is
at; `pc` is `wait_for_completion_timeout()` in the main loop. `late` counts the
ticks between the interrupt being due and the end of `queue_run()`; `MaxLate`
bounds it. `queued` is a history. `edge` is a history of the rare events after
which the properties are not claimed (below).

### CopyPath

One playback stream: host component, volume, DAI. Lengths and positions are in
bytes of a small period. `src` counts along the list of host pages, `dest` is
an offset in the host component's ring; `xfer` says that the host's channel is
transferring, `hw` is the element at the DAI channel's `lli_current`. `task` is
the pipeline task, cut where an interrupt can change what it uses:
`volume_copy()` is four steps because `dai_dma_cb()` changes the same ring.

A command goes from the host component to the volume component to the DAI, and
`ipc` is what the main loop has left of it, since the task and the interrupts
may come between any two: a pause and a release are three actions each, a stop
is two. (Host and volume are stopped in one: a task between them would find the
ring of the host just emptied and copy nothing.) `VolState` is the state of the
volume component where it differs from that of the host component. A source
that does not run is passed over by the task with all that is above it, so
between the two a task may run the volume component alone. `chan` is the DAI's
channel: `dw_dma_pause()` lets it play its element to the end (`pausing`), and a
release then brings the next element, or only withdraws the request
(`dw_dma_release`). Only a paused stream is released, as the host driver does.
The port's part and the lock are in `Stream`; here a command of the DAI is one
step. The model is of one stream alone: a task run within its own run needs the
interrupts of a second stream and belongs to `Scheduler`.

`lead` is a history: what was written to the DAI's ring and not played. `upset`
is a history of the rare events that the properties excuse by name:
 - `late`: a wait of `host_copy()` timed out (its result is not used);
 - `cut`: a stop found the host's transfer in flight;
 - `raced`: the DAI's interrupt came after `comp_buffer_reset()` of a stop and
   before the DAI's channel was stopped;
 - `stale`: between the two parts of a pause or a release the volume component
   ran alone and found bytes of an earlier run in the host component's ring.

Each stands for something the code does not handle: after `cut` the late
callback advances positions that were just reset, after `raced` the read
pointer no longer is where the DMA reads, after `late` the volume component may
copy a partial period and run past the end of a ring. A transfer that outlives
`host_reset()` follows null pointers (`fault`), a DAI that interrupts before its
task is done links the task twice (the overrun of `Scheduler`).

### DwDma, Ssp, Stream

`DwDma` and `Ssp` hold no variables: an operation of the driver is an operator
from a record to a record, since each runs under a lock. `Stream` places them
where `dai_cmd()` calls them. `pc.main` and `pc.irq` say where `dai_cmd()` is,
for a command of the host and for a playback DAI that stops itself in its
interrupt because its ring is empty. A command is cut wherever it takes or
releases a lock or waits. Waits may time out at any time: the completion of
`dw_dma_stop()` has its timeout set once, by the probe, so later waits end with
the next interrupt of the timer. `fault` is `spin` when an interrupt spins on
`ssp->lock` held by the code it interrupted. The host component and the volume
component of a stream are one, since they get the same commands in turn; the
mixer decides whether a walk ends there (`mixer_status_change()`,
`mixer_prepare()`, `mixer_reset()`).

`upset` again records what the properties excuse:
 - `eos`: the DAI stopped itself and was not prepared since;
 - `late`: a wait timed out;
 - `mixed`: orders of commands for several streams the mixer does not handle.
   It computes a state from its sources, but passes the command on and not the
   state: when one stream is prepared or started while another is paused, or
   stopped while another is prepared or paused, the DAI is left in a state in
   which it ignores the next command, and that stream is silent;
 - `raced`: the DAI stopped itself during a command for it; `dai_cmd()` then
   overwrites the state with the one it had in mind.

What is assumed of the configuration: `period_bytes` and the sizes of buffers
are those of the topology (nothing at this commit sets `period_bytes` of a
component); the driver calls prepare before start although `pipeline_prepare()`
has no caller yet, does not start a stream whose prepare failed, and configures
the port before it opens streams; hosts and mixer are in one pipeline.

## Runs

| run | expects | question |
|---|---|---|
| `ipc` | pass | mailbox with a stream running, all interleavings |
| `ipc_lost_wakeup` | violation | commands answered when no stream runs? |
| `heap` | pass | allocator until a map is exhausted |
| `heap_double_alloc` | violation | no block handed out twice, ever? |
| `heap_leak` | violation | freed blocks are free? |
| `sched` | pass | scheduler with runs within runs, without overrun |
| `sched_overrun` | violation | list walk ends although a DAI overruns? |
| `sched_nested` | violation | a running task is left alone? |
| `work` | pass | work queue and waits |
| `work_timeout` | violation | a timeout that happened is seen? |
| `copy` | pass | data path of a playback stream |
| `stream` | pass | control of streams that share a mixer and a port |

**ipc.** `MsgConserved`: every message is on exactly one list or in flight,
although `dsp_msg` is never reset. `CommandOnce`, `NoOverwrite`: the masking of
`BUSY` in one context and its unmasking in another keep a command from being
taken twice or overwritten. `PendingCoversQueue`: `dsp_pending` is never clear
while a message waits. `ChannelFifo`: the refinement. `CommandAnswered`,
`NotificationDelivered`: liveness. Bounds: a pool of 2 is the smallest in which
one message is in flight while another waits and in which the pool runs dry;
3 commands let one be sent while the mask of the last is being undone; 4
notifications wrap around the pool twice. `HostPos` is TRUE here and FALSE in
`ipc_lost_wakeup`. `CHECK_DEADLOCK` is off because the
host may stop sending, and because `PM_CTX_SAVE` masks all interrupts for good.

**heap.** Two runtime maps, of which `free_block()` finds one, and a buffer map
whose size is no multiple of its block; requests of one block, of more blocks,
of a fraction and of the whole map; four clients, one more than the blocks of the larger
runtime map. Clients are symmetric (only invariants are checked).
`CHECK_DEADLOCK` is off: after `panic()` the DSP halts.

**sched.** Two tasks, a timer of four values, so deadlines wrap all the time and
every delta occurs; up to three contexts are suspended (`MaxNest`): the main
loop, a run that waits, and the run or the scheduler that it let in and that
waits in turn, which is enough for a task to be picked, run and completed within
its own run, and once more within that. `QueueWellFormed`, `RunsQueuedTask`:
although `_irq_high()` runs what was picked earlier and runs interrupt each
other. `PicksEarliest`: the earliest deadline, to within the one tick that the
wrapped difference is short. `KeepsRunning`: although `interrupt_clear()` drops a
request that comes just before it, and although handlers interrupted by others
clear requests late. It is stated for behaviours in which the scheduler is never
asked when all that is queued is due exactly `MAX_INT` ticks ahead (such a task
is not picked, and nothing asks again until the next DAI interrupt) and in which
no task is completed twice. The run assumes that a period is handled before the
next DMA interrupt of the same DAI; `sched_overrun` shows what happens otherwise
(it needs no nesting, `MaxNest` is 1), and `sched_nested` that a task that waits
is picked although there is no overrun.

**work.** One driver work and one completion, a counter of 8 values, delays
that cross the wrap, an interrupt that is up to one tick late with a window of
one tick, the boundary case. `ListExact`: the list is what was scheduled and is
not finished. `NoneMissed`: nothing stays on the list with a timeout the
counter has passed, where it would wait for a wrap (220 s). `NeverEarly`: the
window test picks only what is due. `WaitHonest`: a wait starts without the
timer of an earlier one and reports success only after completion.
`WaitReturns`: a wait ends. What the properties do not cover, because the code
does not guarantee it, is recorded in `edge` and excluded by name:
 - a timeout of exactly 0, for which the timer is not set, or `MAX_INT`, which
   the wrapped window leaves out;
 - a work that becomes due between the last look for work and the setting of
   the timer;
 - a timeout that runs before `comp->timeout` is cleared (`work_timeout`);
 - a cancellation of a work that has just run, which unlinks it twice.

**copy.** A period of 4 on pages of 6, so that periods are split at page ends in
both ways and every fourth page end falls on a period; rings of three periods,
so that a ring can be full, empty and in between; the host's buffer is a whole
number of periods and of pages. `HostInStep`: DMA source, reported position,
DMA target and write pointer agree after any sequence of splits, pauses, stops
and late transfers. `PeriodWhole`: completion is reported after whole periods only, and
no remainder is carried into the next run (`host_stop()` leaves
`split_remaining`, `host_prepare()` clears it). `InBounds`: `volume_copy()`,
which does not look for the end of a ring, never passes it. `LeadExact`: what
pointers and `avail` say is what was written and not played, although equal
pointers mean full to one side and empty to the other and the two sides update
`avail` without a lock. `HwInStep`: the DMA reads where the ring says it does,
and one that paused will, whether the release finds it paused or not yet.
`EosHonest`: the DAI only stops itself when everything written was played. A
stream that is never paused does not get there without an overrun: the
interrupt that would find the ring empty comes before the task of the last one
is done. Pauses do: the element that ends while the stream pauses is played and
not brought again, since the task passes over what is paused. Each pause takes a
period of lead: with the ring of three periods the interrupt after the second
pause stops the DAI, with none of the rare events. The short transfer at the end of a
stream (`last_bytes`) is in `dai_dma_cb`, but needs a partial period and so one
of those events: no property says anything of it. The run has 3.1 million
states.
Deadlock is checked; a fault is a state that stutters.

**stream.** Two playback streams, the least that make a mixer decide, and a
capture stream that shares the port; two are open at a time. `StopTries` and
`DrainTries` are 2 (3 and 14 in the code): one look that finds data in the FIFO
and one that may be the last. `PlaybackFlows`, `CaptureFlows`: after any
sequence of commands, a stream the host was told is running has its DAI, its
channel and its port running. `CaptureFlows` excuses a port whose capture side
is PAUSED: the drain work of a playback stop pauses capture, whatever it was
doing (`ssp.c:291`), and a later start finds the state not IDLE. `TailKept`: a
command never takes the DAI out of RUNNING while a source of the mixer runs.
`DrainingHasWork`, `ChannelSettles`: a channel being stopped is looked after
and comes to rest although nobody waits any more. `StopHonest`: a stop that
reports success has stopped the channel; a completion of an earlier stop is not
taken for this one's. `PortUp`: a direction that runs has the port. `LockSafe`:
the spin on `ssp->lock` needs a DAI that stopped itself or a wait that timed
out. Bound: `LateAlone` explores behaviours in which a wait timed out only while
streams of one direction have been prepared; both directions together are
explored without timeouts.

## Fairness

 - `IpcMailbox`: the core runs (main loop, handler), the host answers doorbells,
   DMA interrupts recur while a stream runs (`Streaming`). The host need not
   send commands.
 - `Scheduler`: handlers of level 3 run to their end (`host_copy()`'s wait ends
   with its timeout if not before); the DMA of a running stream interrupts again
   once a period was handled.
 - `WorkQueue`: time passes, `queue_run()` runs, other interrupts recur while a
   stream runs. The main loop has strong fairness: handlers are short and
   leave it time, although it is interrupted again and again. Completion is not
   assumed.
 - `Stream`: a command and a handler that run go on (`Main`, `Step("irq")`), and
   queued works of channels are run by the timer's interrupt (`fifo_work`).
   Transfers need not end and FIFOs need not drain.

## Proofs

Every safety property of the passing runs is proved with TLAPS for every value
of the constants that the modules' assumptions admit: any number of messages,
clients, tasks, works and streams, any size of blocks, periods, pages and
rings, any width of a counter. A run shows that a property is not empty (its
mutant breaks it) and that it holds on a small instance; the theorem covers the
rest. Each proof has the same shape: an inductive invariant, one lemma per
action (or group of actions that change the same things), and the property as a
consequence. Two results have a hypothesis of their own, named below:
`OneCapture` for capture and `~Overrun` for the scheduler.

`IpcMailboxProofs`, from `IpcConstants` (a pool of at least one message, `NULL`
not a message): `TypeCorrect`, `PoolConserved`, `CommandsRunOnce`,
`CommandNotOverwritten`, `QueueCovered`, `MailboxImplementsChannel`. All rest
on `IpcInv`, which adds to the properties
 - `DoorbellInv`: each doorbell shows one bit at most, a raised one belongs to a
   message, and `do_notify()` only runs while `DONE` is set; without it the
   message returned to the pool could be there already;
 - `PoolCount`: the lists and the message in flight add up to the pool; needed
   for the refinement, where refusing means the pool is empty;
 - `CommandInv`: where the main loop is, who masks `BUSY`, and how many commands
   were executed. `CommandOnce` is not inductive: that the handler cannot take
   the command again follows from the mask staying up until `DONE` was shown.

The refinement has one step per action; most map to stuttering, the DMA
interrupt to `Accept` or `Refuse`, the host's taking of a message to `Deliver`.

`HeapProofs`, from `HeapConstants` (positive block counts and sizes, the buffer
map as long as its heap allows): `HeapTypeCorrect`, `NoDoubleAllocation`,
`FirstFreeIsLowest`, `FreeCountCorrect`, `HeldBlocksStayInUse`. The invariant
`HeapInv` says of every map that is sound (never exhausted, or never freed to)
that `first_free` is the lowest free block, that `free_count` is exact, and
that the blocks clients hold are in use, disjoint and have a header of their
size. The last is needed because `free_block()` trusts the header, the first
because `alloc_block()` trusts `first_free`. `LeastElement` and
`NextFreeFacts` say where a search ends.

`ListProofs` is about lists as pointers, for the next two. A list is not
replaced by a sequence: an invariant says that there are ranks, one for each
item, that fall along `next` (`Ordered`), and that `prev` leads back (`Linked`).
From falling ranks the walk of `list_for_item` ends within as many rounds as
there are items and sees only them (`OrderedEnds`, by the pigeonhole principle;
the walk is a recursive function and the induction along it is over a set of
numbers, `Induction`, which follows from `LeastNat`); with `prev` it sees all
of them (`LinkedListed`). `PrependLinked` and `DelLinked` say what the two
operations do. `Loose` is what remains when an item is deleted a second time:
ranks fall along `next`, and rise along `prev` or `prev` leads out of the set.

`SchedulerProofs`, from `SchedulerConstants` and `~Overrun` (a DAI does not
interrupt while its task is queued; without it the list becomes a cycle, see
the findings): `TypeCorrect`, `QueueIsWellFormed`, `QueuedTaskRuns`,
`EarliestIsPicked`. Runs may interrupt each other to any depth (`MaxNest` is
any number). Everything proved of the list is proved up to the second completion
of a task, and the part about the runs up to the picking of a running one: the
code guarantees no more (`sched_nested`). The invariant `SchedInv` adds to the
properties that ranks exist for the queued tasks, that a request for a task is
pending only while the task that was chosen is queued (`ChoiceInv`) and where it
is about to be taken (`PromptInv`), and that the runs that are interrupted have tasks of their own, all queued and all different from each
other and from the one that runs (`NestInv`). Only the last keeps a completion from being
the second one of its task. `EarliestIsPicked` needs that the least of the deltas exists
(`LeastExists`) and what a delta says of the ticks left (`DeltaFacts`): one is
lost when the deadline lies behind the wrap of the timer.

`WorkQueueProofs`, from `WorkConstants`: `TypeCorrect`, `ListIsExact`,
`NoneRunsEarly`, `WaitIsHonest` rest on `BaseInv`, `NoneIsMissed` on `DueInv`.
 - `LooseInv` holds also after a work was cancelled that had left the list: the
   pointers lead only to items of a set in which ranks fall, and the
   completion's work is one of them for as long as the main loop may cancel it.
   With it `run_work()` never goes back: what its loop has yet to come to has a
   lower rank, so its timeout is the one that `is_work_pending()` looked at.
   That is why `NeverEarly` and the types need no excuse.
 - `ExactInv` is the list without such a cancellation; `WaitInv` follows a wait
   from place to place.
 - `DueInv` says how the timer is set: while it is not due and `queue_run()` is
   not at work, the comparator is ahead, by no more than any queued work
   (`ArmedInv`); when `queue_run()` leaves its loop everything is ahead
   (`AheadInv`); a work that is to run again is ahead since its period is
   longer than the interrupt is late. `Nearest` is the choice of
   `queue_get_next_timeout()` and `NearestIs` shows that it comes first although
   the wrapped difference is one tick short. It needs timeouts other than 0 and
   `MAX_INT`, as `NoneMissed` does.

`CopyPathProofs`, from `CopyConstants` (a page holds a period at least, rings
hold two periods or more, the host's buffer is whole periods and whole pages):
`TypeCorrect`, `HostStaysInStep`, `PeriodsWhole`, `CopyInBounds`,
`LeadStaysExact`, `HwStaysInStep`, `EosIsHonest`. The invariant `CopyInv`
 - keeps each transfer inside its element whatever happened (`ElemInv`): ends
   of elements are multiples of their size, by `EndsFacts`;
 - says of a host component that runs that the rest of the period is the
   transfer and the rest of the split (`HostRuns`), which makes the end of a
   period fall on the end of an element of the ring, and of one that does not
   run that it starts over (`HostAtRest`);
 - says at each place of the pipeline task where the period is that is on its
   way from ring to ring (`HostRing`, `DaiWrites`, `DaiReads`, `DaiRing`). That
   the DAI's ring is full but for this period, and for the periods that pauses
   have taken from it, tells full from empty when its pointers are equal;
 - says what state of the DAI, of its channel and of the volume component goes
   with each part of a command (`Control`), without which a release could find
   a channel that never ran.

`StreamProofs`, from `DmaConstants` and `StreamConstants`, for any number of
streams, of streams open and of tries: `TypeCorrect`, `PortStaysUp`,
`DrainingLookedAfter` from `StreamInv`, which adds `OpInv` (while the main
loop holds `ssp->lock` it is in a function that takes it), without which the
effect of the step that releases the lock is not determined. `ChannelTypes` and
`StoppingOps` say what each operation does to any channel, `PortOps` to any
port; `ChanStep` reduces every action that changes a channel to them: only
`dw_dma_stop()` begins to stop a channel, and what leaves `dw_dma_stop()` has
queued the work. No assumption excludes timeouts, faults or streams in mixed
states, so these three hold without the excuses of the run.
`LockIsSafe`, `StopIsHonest` and `TailIsKept` rest on `LockInv`: who may be
waiting for the drain work (`WorkInv`), that a completion that is set while
`dw_dma_stop()` waits is that of a channel at rest (`StopInv`; it is kept
because a DAI does not stop itself while the main loop stops it, `StopAlone`),
and that the mixer is running exactly when one of its sources is, also while a
command is on its way to the DAI (`MixInv`, `QuietInv`).

`StreamFlowProofs`: `PlaybackIsHeard` and `CaptureIsHeard`. Their invariants
(`FlowInv`, `CapInv`) follow a command from place to place: for each command
what the sources are, which of DAI, channel and port were switched already and
which were not (`PlayStart`, `PlayRelease`, `PlayPause`, `PlayStop`, and the
same for capture), and between commands that all three are in the state the
sources ask for (`PlayRests`, `CapRests`). `Keeps` collects the steps of the
hardware and of the channels' work that leave a channel as far as it is.
Capture is proved for one stream per DAI (`OneCapture`): `dai.c` takes the first
of the DAI's sink buffers, so a second one would get no data.

Only model-checked: the liveness properties `CommandAnswered`,
`NotificationDelivered`, `KeepsRunning`, `WaitReturns` and `ChannelSettles`
(fairness is out of the prover's reach), and the violations.

## Findings

 1. `tasks/audio.c:84`: `host_pending` is tested and `waiti` executed as two
    steps; without a stream, a command that comes in between is not answered.
 2. `alloc.c:245`: after a map was exhausted, `first_free` may point at a block
    in use, which is handed out again.
 3. `alloc.c:346`: blocks of the last runtime map and of the buffer map are
    never freed.
 4. `schedule.c:175`: a task scheduled while it is queued makes the list a
    cycle; the scheduler then spins with interrupts off.
 5. `schedule.c:123`: the scheduler asks whether the task picked is running, but
    no task is ever marked so; one that waits for the host is picked again.
 6. `wait.h:112`: a timeout that comes early is erased and the wait may not end.

What `CopyPath` and `Stream` show of the code beyond these is recorded as the
events their properties excuse (above) and under the hazards.

## Not modelled

Sample data and filters (no protocol, and arithmetic out of a model checker's
reach), trace output, register programming of clocks and serial ports, the PMC
message, boot code, vectors and the vendored HAL and XTOS (except the order in
which the dispatcher takes interrupts), the statistics of the heap, the handler
of clock changes of the work queue and with it the notifier: the queue's clock
is set once, at boot, when the queue is empty. `_irq_med`, `_irq_low`,
`schedule_task_del` and private work queues have no user.

Of the drivers: getting and putting channels (`CLOSING`, `FREE`), error paths of
the configurations, which return with the lock held, formats and clocks of the
port, suspend and resume. Of the components: `COMP_CMD_DRAIN` (no component
handles it but the mixer), controls, mixing of samples, src, tone, equalizers,
mux and switch, and the data path of capture, whose ring accounting mirrors
that of playback. `component_preload()` walks a graph whose `preload`
operations are all empty. `dma-copy.c` is a loop of transfers each waited for as
in `WorkQueue`. The work of the volume ramp is a work of `WorkQueue`.

What can go wrong in these parts and no property covers: a channel put while it
drains is called idle by its work after it was set free, and is never given out
again (`dw-dma.c:443`); the wait for the second page of a page table has a
timeout of 0 (`dma-copy.c:114`); with a last host page that is not full the
element list is longer than the host's buffer (`intel-ipc.c:164`); the ramp work
is not cancelled when its volume component is freed (`volume.c:362`).

## Plan

Order of what is left, the most important first.

 1. `Topology`: creation and freeing of components, buffers and pipelines with
    error paths, on the heap's promises; freeing while the task is queued, a
    ramp is scheduled or a channel drains.
 2. Liveness by hand: the safety part of `WaitReturns` (an argument by a
    decreasing number of ticks) as an invariant of its own, which could be
    proved although the conclusion under fairness cannot.
 3. `DwDma` with getting and putting of channels, and the error paths that
    return with the lock held.
