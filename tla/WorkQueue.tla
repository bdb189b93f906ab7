------------------------------ MODULE WorkQueue ------------------------------
(***************************************************************************)
(* The system work queue (src/lib/work.c) on the external timer            *)
(* (src/platform/baytrail/timer.c) and the completions that time out       *)
(* through it (src/include/reef/wait.h).                                   *)
(*                                                                         *)
(* Two contexts take part.  The main loop (level 0) schedules work and     *)
(* waits for completions; what it does under queue->lock is one step.      *)
(* queue_run() is the timer's interrupt (level 5): nothing preempts it,    *)
(* but time passes between its steps.  The callbacks of the code (volume   *)
(* ramp, SSP drain, DMA FIFO work, completion timeout) neither schedule    *)
(* nor cancel work; all works are WORK_ASYNC.                              *)
(*                                                                         *)
(* The clock of the queue is only changed at boot, before there is any     *)
(* work, so times are in ticks.                                            *)
(***************************************************************************)
EXTENDS Integers, FiniteSets

CONSTANTS Works,        \* the works of drivers and components
          Comp,         \* the work of the completion
          List,         \* the list head, queue->work
          Wrap,         \* values of the 32-bit timer: 2^32 in the code
          Window,       \* window_size, PLATFORM_WORKQ_WINDOW in ticks
          Delays,       \* ticks of work_schedule_default()
          Period,       \* ticks after which a callback wants to run again
          WaitTicks,    \* ticks of a completion's timeout
          MaxLate,      \* bound: ticks between the timer's interrupt being
                        \* due and the end of queue_run()
          Streaming     \* do other interrupts recur?

MAX_INT == Wrap - 1
Time == 0 .. MAX_INT
Nodes == Works \cup {Comp}

\* The interrupt is served before the next work of the same kind is due and
\* while what was due is still inside the window.
ASSUME WorkConstants ==
  /\ IsFiniteSet(Works) /\ Comp \notin Works /\ List \notin Nodes
  /\ Wrap \in Nat \ {0} /\ Window \in 1 .. MAX_INT /\ MaxLate \in 0 .. Window
  /\ \A d \in Delays \cup {Period, WaitTicks} :
       d \in Nat /\ d > MaxLate /\ d + Window < Wrap
  /\ Streaming \in BOOLEAN

VARIABLES
  next, prev,      \* list_item pointers
  timeout,         \* work->timeout
  pending,         \* works on the list with work->pending set
  now,             \* SHIM_EXT_TIMER_STAT
  cmp,             \* SHIM_EXT_TIMER_CNTLL, 0 for never
  irq, enabled,    \* the timer's interrupt: latched in PISR, enabled in the core
  l5, at,          \* where queue_run() is, and the work its loop is at
  run_ticks,       \* queue->run_ticks
  late,            \* ticks the interrupt has been due or running
  pc,              \* where the main loop is in wait_for_completion_timeout()
  complete,        \* comp->complete
  comp_timeout,    \* comp->timeout: the delay, then 0, then 1 once timed out
  queued,          \* history: works scheduled and not finished or cancelled
  edge             \* history: the worst of the rare events met so far

listVars  == <<next, prev>>
timerVars == <<cmp, enabled>>
runVars   == <<l5, at, run_ticks, pending>>
waitVars  == <<pc, complete, comp_timeout>>
vars == <<listVars, timeout, now, timerVars, irq, late, runVars, waitVars,
          queued, edge>>

\* "timing": a timeout of 0 or MAX_INT was computed, a work became due between
\* the last look for pending work and the setting of the timer, or a completion
\* timed out before its timeout was set to 0.
\* "recancel": a work was cancelled that had left the list already.
Edges == {"none", "timing", "recancel"}

INSTANCE ListItems

TypeOK ==
  /\ next \in [Nodes \cup {List} -> Nodes \cup {List}]
  /\ prev \in [Nodes \cup {List} -> Nodes \cup {List}]
  /\ timeout \in [Nodes -> Time] /\ pending \subseteq Nodes
  /\ now \in Time /\ cmp \in Time /\ run_ticks \in Time
  /\ irq \in BOOLEAN /\ enabled \in BOOLEAN /\ late \in 0 .. MaxLate
  /\ l5 \in {"idle", "check", "run", "rearm"} /\ at \in Nodes \cup {List}
  /\ pc \in {"idle", "schedule", "zero", "loop", "waiti", "check", "cancel"}
  /\ complete \in BOOLEAN /\ comp_timeout \in 0 .. WaitTicks
  /\ queued \subseteq Nodes /\ edge \in Edges

\* work_new_queue()
Init ==
  /\ list_init
  /\ timeout = [w \in Nodes |-> 0] /\ pending = {} /\ now \in Time
  /\ cmp = 0 /\ irq = FALSE /\ enabled = FALSE /\ late = 0
  /\ l5 = "idle" /\ at = List /\ run_ticks = 0
  /\ pc = "idle" /\ complete = FALSE /\ comp_timeout = 0
  /\ queued = {} /\ edge = "none"

-----------------------------------------------------------------------------
(* Time *)

\* Mutant of IsPending: every window is taken for one across the wrap.
PendingWrapped(t) ==
  LET win_start == (now - Window) % Wrap
  IN  t <= now \/ (t >= win_start /\ t < MAX_INT)

\* The window test of is_work_pending() for a work's timeout.
IsPending(t) ==
  LET win_start == (now - Window) % Wrap
  IN  \/ now > win_start /\ t >= win_start /\ t <= now
      \/ now <= win_start /\ (t <= now \/ (t >= win_start /\ t < MAX_INT))

calc_delta_ticks(current, t) ==
  IF t < current THEN MAX_INT - current + t ELSE t - current

\* The timeout of the first work with the least delta; the present time when
\* every delta is MAX_INT, and 0 when there is no work.
queue_get_next_timeout ==
  LET delta(i) == calc_delta_ticks(now, timeout[Walk[i]])
      best == {i \in Rounds : /\ delta(i) < MAX_INT
                              /\ \A j \in Rounds : delta(i) <= delta(j)}
  IN  IF Listed = {} THEN 0
      ELSE IF best = {} THEN now
      ELSE timeout[Walk[CHOOSE i \in best : \A j \in best : i <= j]]

\* Mutant of queue_reschedule: the timer is only set when it is not running.
RescheduleIfIdle ==
  IF queue_get_next_timeout' # 0 /\ ~enabled
  THEN cmp' = queue_get_next_timeout' /\ enabled' = TRUE
  ELSE UNCHANGED timerVars

\* A timeout of 0 is taken for an empty queue: the timer is left as it is.
queue_reschedule ==
  IF queue_get_next_timeout' # 0
  THEN cmp' = queue_get_next_timeout' /\ enabled' = TRUE
  ELSE UNCHANGED timerVars

\* Mutant of SetTimeout: the timeout does not wrap with the counter.
TimeoutUnwrapped(w, from, ticks) ==
  timeout' = [timeout EXCEPT ![w] = from + ticks]

SetTimeout(w, from, ticks) ==
  timeout' = [timeout EXCEPT ![w] = (from + ticks) % Wrap]

TimingEdge(met) ==
  edge' = IF met /\ edge # "recancel" THEN "timing" ELSE edge

WrapEdge(w) == TimingEdge(timeout'[w] \in {0, MAX_INT})

-----------------------------------------------------------------------------
(* queue_run(), the interrupt of the timer *)

Wake == pc' = IF pc = "waiti" THEN "loop" ELSE pc

EnterRun ==
  /\ irq /\ enabled /\ l5 = "idle"
  /\ irq' = FALSE /\ enabled' = FALSE
  /\ run_ticks' = now
  /\ l5' = "check"
  /\ Wake
  /\ UNCHANGED <<listVars, timeout, pending, now, cmp, at, late, complete,
                 comp_timeout, queued, edge>>

\* while (is_work_pending(queue))
is_work_pending ==
  /\ l5 = "check"
  /\ pending' = {w \in Listed : IsPending(timeout[w])}
  /\ IF pending' # {} THEN l5' = "run" /\ at' = next[List]
     ELSE l5' = "rearm" /\ at' = List
  /\ UNCHANGED <<listVars, timeout, now, timerVars, irq, run_ticks, late,
                 waitVars, queued, edge>>

\* One round of run_work().  The callback of the completion's work never asks
\* to be run again; the others may.
Finish(w) == /\ list_item_del(w)
             /\ queued' = queued \ {w}
             /\ timeout' = timeout

Again(w) == /\ SetTimeout(w, run_ticks, Period)
            /\ UNCHANGED <<listVars, queued>>

WorkCallback(w) ==
  /\ w \in Works
  /\ \/ Finish(w) /\ edge' = edge
     \/ Again(w) /\ WrapEdge(w)
  /\ comp_timeout' = comp_timeout

\* Mutant of _wait_cb: the waiting context is not told.
WaitCbSilent(w) ==
  /\ w = Comp
  /\ Finish(w)
  /\ UNCHANGED <<comp_timeout, edge>>

_wait_cb(w) ==
  /\ w = Comp
  /\ comp_timeout' = 1
  /\ Finish(w)
  /\ TimingEdge(pc = "zero")

run_work ==
  /\ l5 = "run"
  /\ IF at \in pending THEN WorkCallback(at) \/ _wait_cb(at)
     ELSE UNCHANGED <<listVars, timeout, comp_timeout, queued, edge>>
  /\ at' = next[at]
  /\ l5' = IF at' = List THEN "check" ELSE "run"
  /\ UNCHANGED <<now, timerVars, irq, run_ticks, pending, late, pc, complete>>

\* run_ticks is not read again before the next queue_run() sets it.
RearmTimer ==
  /\ l5 = "rearm" /\ l5' = "idle"
  /\ late' = 0 /\ run_ticks' = 0
  /\ UNCHANGED <<listVars, timeout, now>>
  /\ queue_reschedule
  /\ UNCHANGED <<irq, at, pending, waitVars, queued, edge>>

Level5 == EnterRun \/ is_work_pending \/ run_work \/ RearmTimer

\* Any other interrupt that recurs while a stream runs.
DmaTick ==
  /\ Streaming /\ l5 = "idle" /\ pc = "waiti"
  /\ Wake
  /\ UNCHANGED <<listVars, timeout, now, timerVars, irq, late, runVars,
                 complete, comp_timeout, queued, edge>>

\* The interrupt of what the main loop waits for: wait_completed().  One that
\* comes when the wait is over is undone by the next wait_init().
Completed ==
  /\ ~complete /\ pc # "idle" /\ l5 = "idle"
  /\ complete' = TRUE
  /\ Wake
  /\ UNCHANGED <<listVars, timeout, now, timerVars, irq, late, runVars,
                 comp_timeout, queued, edge>>

\* The counter runs on; reaching CNTLL latches the interrupt.
Due == (irq /\ enabled) \/ l5 # "idle"
Tick ==
  /\ Due => late < MaxLate
  /\ now' = (now + 1) % Wrap
  /\ irq' = (irq \/ (cmp # 0 /\ now' = cmp))
  /\ late' = IF Due THEN late + 1 ELSE 0
  /\ TimingEdge(l5 = "rearm" /\ \E w \in Listed : timeout[w] = now')
  /\ UNCHANGED <<listVars, timeout, timerVars, runVars, waitVars, queued>>

-----------------------------------------------------------------------------
(* The main loop *)

\* Mutant of work_schedule: a work already on the list is linked again.
ScheduleAgain(w, ticks) ==
  /\ now' = now
  /\ SetTimeout(w, now, ticks)
  /\ list_item_prepend(w)
  /\ UNCHANGED timerVars
  /\ queued' = queued \cup {w}
  /\ WrapEdge(w)

\* work_schedule_default(): a work already on the list keeps its timeout.
work_schedule(w, ticks) ==
  /\ now' = now
  /\ \/ /\ w \in Listed
        /\ UNCHANGED <<listVars, timeout, timerVars, queued, edge>>
     \/ /\ w \notin Listed
        /\ SetTimeout(w, now, ticks)
        /\ list_item_prepend(w)
        /\ queue_reschedule
        /\ queued' = queued \cup {w}
        /\ WrapEdge(w)

\* Mutant of work_cancel: the work is left on the list.
CancelNothing(w) ==
  UNCHANGED <<now, timeout, listVars, timerVars, queued, edge>>

work_cancel(w) ==
  /\ UNCHANGED <<now, timeout>>
  /\ list_item_del(w)
  /\ queue_reschedule
  /\ queued' = queued \ {w}
  /\ edge' = IF w \in queued THEN edge ELSE "recancel"

Schedule(w, ticks) ==
  /\ l5 = "idle" /\ pc = "idle"
  /\ work_schedule(w, ticks)
  /\ UNCHANGED <<irq, late, runVars, waitVars>>

MainStep(from, to) == l5 = "idle" /\ pc = from /\ pc' = to

\* wait_init(), the transfer is started and comp->timeout set.
WaitInit ==
  /\ MainStep("idle", "schedule")
  /\ complete' = FALSE /\ comp_timeout' = WaitTicks
  /\ UNCHANGED <<listVars, timeout, now, timerVars, irq, late, runVars,
                 queued, edge>>

WaitSchedule ==
  /\ MainStep("schedule", "zero")
  /\ work_schedule(Comp, comp_timeout)
  /\ UNCHANGED <<irq, late, runVars, complete, comp_timeout>>

WaitZero ==
  /\ MainStep("zero", "loop")
  /\ comp_timeout' = 0
  /\ UNCHANGED <<listVars, timeout, now, timerVars, irq, late, runVars,
                 complete, queued, edge>>

WaitLoop ==
  /\ MainStep("loop", IF ~complete /\ comp_timeout = 0 THEN "waiti" ELSE "check")
  /\ UNCHANGED <<listVars, timeout, now, timerVars, irq, late, runVars,
                 complete, comp_timeout, queued, edge>>

WaitCheck ==
  /\ MainStep("check", IF comp_timeout = 0 THEN "cancel" ELSE "idle")
  /\ UNCHANGED <<listVars, timeout, now, timerVars, irq, late, runVars,
                 complete, comp_timeout, queued, edge>>

WaitCancel ==
  /\ MainStep("cancel", "idle")
  /\ work_cancel(Comp)
  /\ UNCHANGED <<irq, late, runVars, complete, comp_timeout>>

Wait == WaitSchedule \/ WaitZero \/ WaitLoop \/ WaitCheck \/ WaitCancel

-----------------------------------------------------------------------------

Next ==
  \/ Level5 \/ DmaTick \/ Completed \/ Tick
  \/ \E w \in Works, d \in Delays : Schedule(w, d)
  \/ WaitInit \/ Wait

Spec == Init /\ [][Next]_vars

\* Time passes, the interrupt is served, other interrupts recur while a stream
\* runs, and interrupts leave the main loop time to go on.  What the main loop
\* waits for need not happen.
Fairness == /\ WF_vars(Tick) /\ WF_vars(Level5) /\ WF_vars(DmaTick)
            /\ SF_vars(Wait)

FairSpec == Spec /\ Fairness

-----------------------------------------------------------------------------
(* Properties *)

\* Whatever is scheduled, run and cancelled in between, the list holds exactly
\* the works scheduled and not finished, unless work_cancel() was called for
\* one that queue_run() had removed.
ListExact == edge # "recancel" => ListHolds(queued)

Overdue(w) == (now - timeout[w]) % Wrap
Ahead(w) == (timeout[w] - now) % Wrap
Longest == CHOOSE d \in Delays \cup {Period, WaitTicks} :
             \A e \in Delays \cup {Period, WaitTicks} : e <= d

\* No work is ever missed: it is either ahead or late by no more than the
\* interrupt is.  One that falls behind would wait for the counter to wrap.
NoneMissed ==
  edge = "none" => \A w \in queued : Overdue(w) <= MaxLate \/ Ahead(w) <= Longest

\* queue_run() calls a work back only when it is due, also when the window or
\* the delay goes across the wrap of the counter.
NeverEarly ==
  l5 = "run" /\ at \in pending => Overdue(at) <= Window + MaxLate

\* A wait starts without a timeout of an earlier wait on the queue, which would
\* cut it short, and returns success only if what it waited for has happened.
WaitHonest ==
  /\ pc \in {"idle", "schedule"} /\ edge # "recancel" => Comp \notin queued
  /\ pc = "cancel" => complete

\* A wait returns, completed or timed out, although the test of the loop and
\* waiti are two steps, as long as other interrupts recur.
WaitReturns == ([](edge = "none")) => (pc = "schedule" ~> pc = "idle")

\* "did we timeout": once the timeout of a wait has run, the wait sees it.
TimeoutSeen == pc \in {"loop", "waiti"} /\ Comp \notin queued => comp_timeout = 1
=============================================================================
