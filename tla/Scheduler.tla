------------------------------ MODULE Scheduler ------------------------------
(***************************************************************************)
(* The EDF scheduler (src/lib/schedule.c) with the task interrupts that    *)
(* run what it picks (src/arch/xtensa/task.c), the list it keeps           *)
(* (src/include/reef/list.h) and the DAI DMA callback that feeds it        *)
(* (src/audio/dai.c, src/audio/pipeline.c).                                *)
(*                                                                         *)
(* There is one task per pipeline and every task has TASK_PRI_HIGH, as the *)
(* only caller passes it.  Two interrupt levels take part.  DMA interrupts *)
(* (level 5) preempt everything but a section under sch->lock, so a DMA    *)
(* callback is one step.  PLATFORM_SCHEDULE_IRQ and PLATFORM_IRQ_TASK_HIGH *)
(* are both software interrupts of level 3; their handlers are cut into    *)
(* steps where a DMA callback can intervene.  They exclude each other only *)
(* until the task waits for the host: waiti 0 takes the level down to 0,   *)
(* and from there on the handler is interrupted by its own level.          *)
(*                                                                         *)
(* The list is kept as the pointers the code keeps (ListItems), because    *)
(* what an operation does to an item already linked is part of the         *)
(* behaviour.                                                              *)
(***************************************************************************)
EXTENDS Integers, Sequences, FiniteSets

CONSTANTS Tasks,        \* the pipelines' pipe_task
          List,         \* the list head, sch->list
          Wrap,         \* values of the 32-bit timer: 2^32 in the code
          SchedTicks,   \* ticks of PLAT_DAI_SCHED less PLATFORM_SCHEDULE_COST
          Overrun,      \* may a DAI interrupt find its task still queued?
          MaxNest       \* bound: contexts suspended by a level 3 interrupt

MAX_INT == Wrap - 1
Time == 0 .. MAX_INT
Items == Tasks \cup {List}

ASSUME SchedulerConstants ==
  /\ IsFiniteSet(Tasks) /\ List \notin Tasks
  /\ Wrap \in Nat \ {0} /\ SchedTicks \in Time /\ Overrun \in BOOLEAN
  /\ MaxNest \in Nat \ {0}

VARIABLES
  next, prev,      \* list_item pointers; an unlinked item keeps its old ones
  state,           \* task->state
  deadline,        \* task->deadline
  timer,           \* platform_timer_get()
  pending,         \* software interrupts set and not yet dispatched
  irq_high_task,   \* _irq_high_task; List stands for NULL
  \* the context that runs, and those it has interrupted
  l3,              \* where its level 3 handler is, "idle" in the main loop
  task,            \* the handler's local variable task
  open,            \* is PS.INTLEVEL 0?
  below,           \* the suspended contexts, the last one first
  \* history
  again            \* was a running task picked, a completed one completed?

INSTANCE ListItems WITH Nodes <- Tasks

cpuVars == <<l3, task, open, below>>
vars == <<next, prev, state, deadline, timer, pending, irq_high_task, cpuVars, again>>

Irqs == {"SCHEDULE", "TASK_HIGH"}
L3 == {"idle", "edf", "edf_clear", "run", "complete", "task_clear", "hung"}
Contexts == [l3 : L3, task : Items]

TypeOK ==
  /\ next \in [Items -> Items] /\ prev \in [Items -> Items]
  /\ state \in [Tasks -> {"INIT", "QUEUED", "COMPLETED"}]
  /\ deadline \in [Tasks -> Time] /\ timer \in Time
  /\ pending \subseteq Irqs
  /\ irq_high_task \in Items /\ task \in Items
  /\ l3 \in L3 /\ open \in BOOLEAN /\ below \in Seq(Contexts)
  /\ again \in {"never", "picked", "completed"}

\* scheduler_init(), arch_init_tasks() and task_init() of every pipeline.
Init ==
  /\ list_init
  /\ state = [t \in Tasks |-> "INIT"]
  /\ deadline = [t \in Tasks |-> 0] /\ timer \in Time
  /\ pending = {} /\ irq_high_task = List
  /\ l3 = "idle" /\ task = List /\ open = TRUE /\ below = <<>>
  /\ again = "never"

-----------------------------------------------------------------------------
(* Choosing a task *)

\* Mutant of schedule_time_diff: the wrap of the timer is not considered.
TimeDiffUnwrapped(current, pipe_time) ==
  IF pipe_time < current THEN current - pipe_time ELSE pipe_time - current

schedule_time_diff(current, pipe_time) ==
  IF pipe_time < current THEN MAX_INT - current + pipe_time
  ELSE pipe_time - current

Delta(t) == schedule_time_diff(timer, deadline[t])

\* The first of the tasks with the least delta, unless that is MAX_INT.
edf_get_next ==
  LET best == {i \in Rounds :
                 /\ Delta(Walk[i]) < MAX_INT
                 /\ \A j \in Rounds : Delta(Walk[i]) <= Delta(Walk[j])}
  IN  IF best = {} THEN List
      ELSE Walk[CHOOSE i \in best : \A j \in best : i <= j]

-----------------------------------------------------------------------------
(* Taking and returning from level 3 interrupts *)

\* Nothing masks level 3 once PS.INTLEVEL is 0.
Interruptible == open /\ Len(below) < MaxNest

\* The dispatcher takes the lowest numbered pending interrupt and clears it.
Dispatch(irq, at, t) ==
  /\ Interruptible /\ irq \in pending
  /\ pending' = pending \ {irq}
  /\ below' = <<[l3 |-> l3, task |-> task]>> \o below
  /\ l3' = at /\ task' = t /\ open' = FALSE

\* Only a context at INTLEVEL 0 was interrupted, and it goes on there.
Return ==
  /\ l3' = Head(below).l3 /\ task' = Head(below).task
  /\ open' = TRUE /\ below' = Tail(below)

\* A handler at INTLEVEL 0 gets on when no interrupt is there to be taken.
At(where) == l3 = where /\ (Interruptible => pending = {})

-----------------------------------------------------------------------------
(* Level 3: scheduler_run() and _irq_high() *)

DispatchTask ==
  /\ Dispatch("TASK_HIGH", "run", irq_high_task)
  /\ UNCHANGED <<next, prev, state, deadline, timer, irq_high_task, again>>

DispatchSchedule ==
  /\ "TASK_HIGH" \notin pending
  /\ Dispatch("SCHEDULE", "edf", List)
  /\ UNCHANGED <<next, prev, state, deadline, timer, irq_high_task, again>>

\* The tasks whose run has been interrupted, in host_copy() or later.
Live == {"run", "complete"}
LiveBelow == {i \in 1 .. Len(below) : below[i].l3 \in Live}
Running == {below[i].task : i \in LiveBelow}

\* schedule_edf() under the lock.  No task is ever in TASK_STATE_RUNNING, so
\* one that is running is picked like any other.  On a list that never gets
\* back to its head the DSP spins, interrupts off.
EdfRun ==
  /\ At("edf")
  /\ task' = IF Ends THEN edf_get_next ELSE List
  /\ IF task' # List
     THEN irq_high_task' = task' /\ pending' = pending \cup {"TASK_HIGH"}
     ELSE UNCHANGED <<irq_high_task, pending>>
  /\ l3' = IF Ends THEN "edf_clear" ELSE "hung"
  /\ again' = IF again = "never" /\ task' \in Running THEN "picked" ELSE again
  /\ UNCHANGED <<next, prev, state, deadline, timer, open, below>>

\* Mutant of EdfClear: the interrupt of the task just picked is cleared too.
EdfClearAll ==
  /\ At("edf_clear")
  /\ pending' = {}
  /\ Return
  /\ UNCHANGED <<next, prev, state, deadline, timer, irq_high_task, again>>

EdfClear ==
  /\ At("edf_clear")
  /\ pending' = pending \ {"SCHEDULE"}
  /\ Return
  /\ UNCHANGED <<next, prev, state, deadline, timer, irq_high_task, again>>

\* task->func(): pipeline_task() copies and touches nothing kept here, but
\* host_copy() waits for its DMA in wait_for_interrupt(0).
HostWait ==
  /\ l3 = "run" /\ ~open
  /\ open' = TRUE
  /\ UNCHANGED <<next, prev, state, deadline, timer, pending, irq_high_task, l3,
                 task, below, again>>

RunTask ==
  /\ At("run")
  /\ l3' = "complete"
  /\ UNCHANGED <<next, prev, state, deadline, timer, pending, irq_high_task, task,
                 open, below, again>>

\* Mutant of schedule_task_complete: the task stays on the list.
CompleteStillListed ==
  /\ At("complete")
  /\ state' = [state EXCEPT ![task] = "COMPLETED"]
  /\ l3' = "task_clear"
  /\ UNCHANGED <<next, prev, deadline, timer, pending, irq_high_task, task, open,
                 below, again>>

schedule_task_complete ==
  /\ At("complete")
  /\ list_item_del(task)
  /\ state' = [state EXCEPT ![task] = "COMPLETED"]
  /\ l3' = "task_clear"
  /\ again' = IF state[task] = "QUEUED" THEN again ELSE "completed"
  /\ UNCHANGED <<deadline, timer, pending, irq_high_task, task, open, below>>

TaskClear ==
  /\ At("task_clear")
  /\ pending' = pending \ {"TASK_HIGH"}
  /\ Return
  /\ UNCHANGED <<next, prev, state, deadline, timer, irq_high_task, again>>

-----------------------------------------------------------------------------
(* Level 5: the DMA interrupt of a DAI *)

\* Mutant of schedule_task: the deadline does not wrap with the timer.
ScheduleUnwrapped(t) ==
  /\ deadline' = [deadline EXCEPT ![t] = timer + SchedTicks]
  /\ list_item_prepend(t)
  /\ state' = [state EXCEPT ![t] = "QUEUED"]

schedule_task(t) ==
  /\ deadline' = [deadline EXCEPT ![t] = (timer + SchedTicks) % Wrap]
  /\ list_item_prepend(t)
  /\ state' = [state EXCEPT ![t] = "QUEUED"]

schedule == pending' = pending \cup {"SCHEDULE"}

\* dai_dma_cb() ending in pipeline_schedule_copy()
DaiDma(t) ==
  /\ l3 # "hung"
  /\ Overrun \/ state[t] # "QUEUED"
  /\ schedule_task(t)
  /\ schedule
  /\ UNCHANGED <<timer, irq_high_task, cpuVars, again>>

Tick ==
  /\ timer' = (timer + 1) % Wrap
  /\ UNCHANGED <<next, prev, state, deadline, pending, irq_high_task, cpuVars, again>>

-----------------------------------------------------------------------------

Level3 == \/ DispatchTask \/ DispatchSchedule \/ EdfRun \/ EdfClear
          \/ HostWait \/ RunTask \/ schedule_task_complete \/ TaskClear

Next == Level3 \/ (\E t \in Tasks : DaiDma(t)) \/ Tick

Spec == Init /\ [][Next]_vars

\* Interrupt handlers run to their end, and the DMA of a running stream
\* interrupts again once the last period was handled.
Fairness == WF_vars(Level3) /\ \A t \in Tasks : WF_vars(DaiDma(t))

FairSpec == Spec /\ Fairness

-----------------------------------------------------------------------------
(* Properties *)

Queued == {t \in Tasks : state[t] = "QUEUED"}

\* Whatever is scheduled and completed in between, the list holds exactly the
\* queued tasks, once each, and can be walked both ways, until a task that is
\* not queued any more is unlinked a second time.
QueueWellFormed == again # "completed" => ListHolds(Queued)

\* _irq_high() only ever starts a task that is queued, although the task it finds
\* was chosen in an earlier interrupt; and however the runs interrupt each other,
\* each still has its task to complete, unless schedule_edf() picks a task that
\* is running.
RunsQueuedTask ==
  /\ again # "completed" =>
       /\ "TASK_HIGH" \in pending => irq_high_task \in Queued
       /\ l3 = "run" /\ ~open => task \in Queued
  /\ again = "never" =>
       /\ l3 \in Live => task \in Queued \ Running
       /\ Running \subseteq Queued

\* schedule_edf() picks the task whose deadline comes first, to within the one
\* tick that schedule_time_diff() loses when the timer wraps, and picks one
\* whenever a task is queued that is not due exactly MAX_INT ticks from now.
Remaining(t) == (deadline[t] - timer) % Wrap
PicksEarliest ==
  [][EdfRun /\ again # "completed" => \A t \in Queued :
       \/ task' # List /\ Remaining(task') <= Remaining(t) + 1
       \/ Remaining(t) = MAX_INT]_vars

\* schedule_edf() found no task although it was asked to run one: all that is
\* queued was due MAX_INT ticks from now, the delta that never wins.
Skipped == l3 = "edf_clear" /\ task = List

\* The scheduler never goes quiet: as long as DAIs interrupt, tasks are run,
\* although the request of one that interrupts just before interrupt_clear()
\* is dropped, and although a run is interrupted by others and a running task
\* picked again.  Only the delta of MAX_INT can break the chain, or a list that
\* a second completion has spoilt.
KeepsRunning ==
  ([](~Skipped /\ again # "completed")) => []<>(l3 = "run")

\* "check every queued or running task in list": the walk ends.
WalkEnds == l3 # "hung"

\* "is task currently running ?": then schedule_edf() leaves it alone.
RunningNotPicked == [][EdfRun => task' \notin Running]_vars
=============================================================================
