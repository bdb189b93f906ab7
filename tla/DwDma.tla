------------------------------- MODULE DwDma -------------------------------
(***************************************************************************)
(* One channel of the DMA controller (src/drivers/dw-dma.c), as operators  *)
(* on a record.  en and tfr are the channel's bits in the controller's     *)
(* registers (enabled, end of transfer latched); work says whether the     *)
(* channel's work is queued.  The suspend bit is left out: nothing reads   *)
(* it.  drain_count is 0 when it is dead.  Every operation runs with       *)
(* interrupts off.  lli stands for the cyclic list of elements that the    *)
(* DAI components use.                                                     *)
(***************************************************************************)
EXTENDS Integers

CONSTANTS StopTries,    \* drain_count of a stop
          DrainTries    \* drain_count of a stop that drains

ASSUME DmaConstants == StopTries \in Nat /\ DrainTries \in Nat

\* DMA_STATUS_
Status == {"IDLE", "RUNNING", "DRAINING", "STOPPING", "PAUSING", "PAUSED"}

Channels == [status : Status, lli : BOOLEAN, en : BOOLEAN,
             tfr : BOOLEAN, work : BOOLEAN, complete : BOOLEAN,
             drain_count : 0 .. DrainTries + StopTries]

\* A channel that dw_dma_channel_get() returned.
NewChannel == [status |-> "IDLE", lli |-> FALSE, en |-> FALSE,
               tfr |-> FALSE, work |-> FALSE, complete |-> FALSE,
               drain_count |-> 0]

dw_dma_set_config(c) == [c EXCEPT !.lli = TRUE]

\* What dw_dma_start() asks of a channel.
CanStart(c) == c.status = "IDLE" /\ ~c.en /\ c.lli

\* The registers are written and the channel enabled.
Enable(c) == [c EXCEPT !.en = TRUE]

dw_dma_start(c) == [Enable(c) EXCEPT !.status = "RUNNING", !.tfr = FALSE]

dw_dma_pause(c) ==
  IF c.status = "RUNNING" THEN [c EXCEPT !.status = "PAUSING"] ELSE c

\* Mutant of dw_dma_release: the element after the pause is not loaded.
ReleaseNoReload(c) == [c EXCEPT !.status = "RUNNING"]

\* A channel that has not come to its pause yet just goes on.
dw_dma_release(c) ==
  [(IF c.status = "PAUSED" THEN Enable(c) ELSE c) EXCEPT !.status = "RUNNING"]

\* dw_dma_stop() up to the unlock: a channel that is disabled is idle, another
\* is suspended and left to the channel's work.
dw_dma_stop(c, drain) ==
  IF ~c.en THEN [c EXCEPT !.status = "IDLE"]
  ELSE [c EXCEPT !.status = IF drain THEN "DRAINING" ELSE "STOPPING",
                 !.drain_count = IF drain THEN DrainTries ELSE StopTries]

\* dw_dma_stop() after the unlock.
ScheduleWork(c) == [c EXCEPT !.complete = FALSE, !.work = TRUE]

\* Mutant of GiveUp: the work is taken off the queue and nothing else done.
GiveUpQuiet(c) == [c EXCEPT !.work = FALSE]

\* The channel is called idle although it may still be enabled, and whoever
\* waits for it is not told.
GiveUp(c) == [c EXCEPT !.status = "IDLE", !.work = FALSE, !.drain_count = 0]

\* Mutant of Drained: completion is reported when the channel is disabled, a
\* look at the channel too early.
DrainedEarly(c) ==
  IF c.en THEN [c EXCEPT !.en = FALSE, !.complete = TRUE]
  ELSE [c EXCEPT !.status = "IDLE", !.work = FALSE, !.drain_count = 0,
                 !.complete = TRUE]

\* The FIFO is empty: the channel is disabled, which the next look confirms.
Drained(c) ==
  IF c.en THEN [c EXCEPT !.en = FALSE]
  ELSE [c EXCEPT !.status = "IDLE", !.work = FALSE, !.drain_count = 0,
                 !.complete = TRUE]

\* Mutant of dw_dma_fifo_work: the work ends when the FIFO is not empty yet.
FifoWorkOnce(c, empty) ==
  LET t == [c EXCEPT !.drain_count = @ - 1]
  IN  IF c.status \notin {"DRAINING", "STOPPING"} THEN [c EXCEPT !.work = FALSE]
      ELSE IF c.drain_count <= 0 THEN GiveUp(t)
      ELSE IF empty THEN Drained(t) ELSE [t EXCEPT !.work = FALSE]

\* Mutant of dw_dma_fifo_work: the tries are not limited.
FifoWorkUnlimited(c, empty) ==
  LET t == [c EXCEPT !.drain_count = @ - 1]
  IN  IF c.status \notin {"DRAINING", "STOPPING"} THEN [c EXCEPT !.work = FALSE]
      ELSE IF empty THEN Drained(t) ELSE t

\* The channel's work: looks at the channel until it is drained or the tries
\* are used up.
dw_dma_fifo_work(c, empty) ==
  LET t == [c EXCEPT !.drain_count = @ - 1]
  IN  IF c.status \notin {"DRAINING", "STOPPING"} THEN [c EXCEPT !.work = FALSE]
      ELSE IF c.drain_count <= 0 THEN GiveUp(t)
      ELSE IF empty THEN Drained(t) ELSE t

\* dw_dma_irq_handler() for the channel, the latch cleared: whether its
\* callback is called.
Served(c) == c.status \in {"RUNNING", "PAUSING"}

\* What follows the callback when it asked for the next element of the list
\* ("list"), an element of its own ("own") or the end ("end").
Reload(c, next) ==
  LET t == [c EXCEPT !.tfr = FALSE]
  IN  CASE next = "end" -> [t EXCEPT !.status = "IDLE"]
        [] next = "own" -> Enable(t)
        [] next = "list" -> IF c.status = "PAUSING"
                            THEN [t EXCEPT !.status = "PAUSED"]
                            ELSE Enable(t)
=============================================================================
