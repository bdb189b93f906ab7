------------------------------ MODULE CopyPath ------------------------------
(***************************************************************************)
(* How the audio data of a playback stream moves: host memory, by DMA into *)
(* the host component's buffer (src/audio/host.c), through a volume        *)
(* component (src/audio/volume.c) into the DAI's buffer, and by DMA to the *)
(* port (src/audio/dai.c), driven by the pipeline task                     *)
(* (src/audio/pipeline.c).                                                 *)
(*                                                                         *)
(* Contexts, lowest first: the main loop, which executes the stream        *)
(* commands; the pipeline task, which preempts it; the interrupts of the   *)
(* host's and the DAI's DMA channels (level 5), each one step.  The task   *)
(* lets interrupts in while host_copy() waits for its transfer.            *)
(*                                                                         *)
(* One stream alone: a second stream's interrupt may let the waiting task  *)
(* be run once more, which Scheduler is about.                             *)
(*                                                                         *)
(* Lengths and positions are in bytes (a frame is one byte).  The pages of *)
(* the host's buffer need not be adjacent: src counts along the list.      *)
(***************************************************************************)
EXTENDS CompBuffer

CONSTANTS Period,       \* period_bytes of every component
          Pages,        \* pages of the host's buffer
          PageSize,     \* HOST_PAGE_SIZE
          HostPeriods,  \* periods in the host component's buffer
          DaiPeriods    \* periods in the DAI's buffer

HostSize  == Pages * PageSize            \* hd->host_size
LocalSize == HostPeriods * Period        \* hd->dma_buffer
DaiSize   == DaiPeriods * Period

\* host_params() refuses a host buffer that is not whole periods; the first
\* transfer is a period that is not cut at the end of the page.
ASSUME CopyConstants ==
  /\ Period \in Nat \ {0} /\ Pages \in Nat \ {0} /\ PageSize \in Nat
  /\ HostPeriods \in Nat \ {0, 1} /\ DaiPeriods \in Nat \ {0, 1}
  /\ HostSize % Period = 0 /\ Period <= PageSize

VARIABLES
  state,           \* state of the host component, and mostly of the volume
  dai,             \* state of the DAI component
  chan,            \* status of the DAI's DMA channel
  ipc,             \* the part of a command that the main loop has left to do
  hbuf, dbuf,      \* the rings of the host component and of the DAI
  linked,          \* hd->source and hd->sink are set
  src, src_end,    \* local_elem->src, source->current_end
  dest, dest_end,  \* local_elem->dest, sink->current_end
  size,            \* local_elem->size
  split_remaining, local_pos,
  xfer,            \* the host's channel is transferring
  complete,        \* hd->complete
  last_bytes,      \* dd->last_bytes
  hw,              \* offset of the element at the DAI channel's lli_current
  task,            \* where the pipeline task is
  cframes, avail,  \* locals of volume_copy() and of the update it calls
  lead,            \* history: bytes in the DAI's ring not played yet
  upset,           \* history: the rare events met since the last params
  fault            \* how the DSP stopped, if it did

hostVars == <<linked, src, src_end, dest, dest_end, size, split_remaining,
              local_pos>>
taskVars == <<task, cframes, avail>>
vars == <<state, dai, chan, ipc, hbuf, dbuf, hostVars, xfer, complete, last_bytes, hw,
          taskVars, lead, upset, fault>>

\* COMP_STATE_
States == {"INIT", "PREPARE", "RUNNING", "PAUSED", "SETUP"}

\* A stop is left at the DAI; a pause or a release at the component named.
Stages == {"idle", "stopping", "pause_volume", "pause_dai",
           "release_volume", "release_dai"}

\* "late": a wait of host_copy() timed out; "cut": a stop found the host's
\* transfer in flight; "raced": the DAI's interrupt came after its ring was
\* reset for a stop and before its channel was stopped; "stale": the volume
\* component, not yet paused as the host component was, found bytes of an
\* earlier run to copy.
Events == {"late", "cut", "raced", "stale"}

TypeOK ==
  /\ state \in States /\ dai \in States /\ ipc \in Stages
  /\ chan \in {"idle", "running", "pausing", "paused"}
  /\ \A b \in {hbuf, dbuf} :
       b \in [w_ptr : Nat, r_ptr : Nat, avail : Int, free : Int]
  /\ linked \in BOOLEAN /\ xfer \in BOOLEAN /\ complete \in BOOLEAN
  /\ src \in 0 .. HostSize /\ src_end \in 0 .. HostSize
  /\ dest \in 0 .. LocalSize /\ dest_end \in 0 .. LocalSize
  /\ size \in 0 .. Period /\ split_remaining \in 0 .. Period
  /\ local_pos \in 0 .. HostSize /\ last_bytes \in 0 .. Period
  /\ hw \in 0 .. DaiSize
  /\ task \in {"none", "queued", "wait", "volume", "wrap", "produce", "store"}
  /\ cframes \in Nat /\ avail \in Int /\ lead \in Int
  /\ upset \subseteq Events /\ fault \in {"none", "overrun", "null"}

Init ==
  /\ state = "INIT" /\ dai = "INIT" /\ chan = "idle" /\ ipc = "idle"
  /\ hbuf = EmptyBuffer(LocalSize) /\ dbuf = EmptyBuffer(DaiSize)
  /\ linked = FALSE /\ src = 0 /\ src_end = 0 /\ dest = 0 /\ dest_end = 0
  /\ size = 0 /\ split_remaining = 0 /\ local_pos = 0
  /\ xfer = FALSE /\ complete = FALSE /\ last_bytes = 0 /\ hw = 0
  /\ task = "none" /\ cframes = 0 /\ avail = 0
  /\ lead = 0 /\ upset = {} /\ fault = "none"

-----------------------------------------------------------------------------
(* Stream commands, in the main loop *)

\* A queued task preempts the main loop at once.
MainLoop == fault = "none" /\ task = "none"

\* Mutant of host_elements_reset: the local element keeps its size.
ElementsKeepSize ==
  /\ src' = 0 /\ src_end' = PageSize
  /\ dest' = 0 /\ dest_end' = Period
  /\ UNCHANGED size

host_elements_reset ==
  /\ src' = 0 /\ src_end' = PageSize
  /\ dest' = 0 /\ dest_end' = Period
  /\ size' = Period

\* pipeline_params(): host_params() and dai_playback_params() each set the
\* pointers of their ring; avail and free stay as they are.
params ==
  /\ MainLoop /\ ipc = "idle" /\ state = "INIT" /\ dai = "INIT"
  /\ linked' = TRUE
  /\ host_elements_reset
  /\ hbuf' = [hbuf EXCEPT !.w_ptr = 0, !.r_ptr = 0]
  /\ dbuf' = [dbuf EXCEPT !.w_ptr = 0, !.r_ptr = 0]
  /\ upset' = IF xfer THEN {"cut"} ELSE {}
  /\ UNCHANGED <<state, dai, chan, ipc, split_remaining, local_pos, xfer, complete,
                 last_bytes, hw, taskVars, lead, fault>>

\* Mutant of host_prepare: the split of the last run is left.
PrepareKeepsSplit ==
  /\ hbuf' = [hbuf EXCEPT !.w_ptr = 0, !.r_ptr = 0]
  /\ local_pos' = 0 /\ UNCHANGED split_remaining

host_prepare ==
  /\ hbuf' = [hbuf EXCEPT !.w_ptr = 0, !.r_ptr = 0]
  /\ local_pos' = 0 /\ split_remaining' = 0

\* pipeline_prepare(): host, volume, DAI.
prepare ==
  /\ MainLoop /\ ipc = "idle" /\ linked /\ state \in {"INIT", "SETUP", "PREPARE"}
  /\ dai # "RUNNING"
  /\ state' = "PREPARE" /\ dai' = "PREPARE"
  /\ host_prepare
  /\ UNCHANGED <<chan, ipc, dbuf, linked, src, src_end, dest, dest_end, size,
                 xfer, complete, last_bytes, hw, taskVars, lead, upset, fault>>

\* pipeline_cmd(START): dw_dma_start() goes to the head of the list.
start ==
  /\ MainLoop /\ ipc = "idle" /\ state = "PREPARE" /\ dai = "PREPARE"
  /\ state' = "RUNNING" /\ dai' = "RUNNING" /\ chan' = "running"
  /\ hw' = 0
  /\ lead' = IF dbuf.w_ptr = dbuf.r_ptr THEN DaiSize ELSE Between(dbuf, DaiSize)
  /\ UNCHANGED <<ipc, hbuf, dbuf, hostVars, xfer, complete, last_bytes,
                 taskVars, upset, fault>>

\* comp_buffer_reset() of the ring downstream of the host and of the volume
\* component.
ResetRings == hbuf' = EmptyBuffer(LocalSize) /\ dbuf' = EmptyBuffer(DaiSize)

\* pipeline_cmd(STOP), host and volume: host_stop() and volume_cmd().  They are
\* one step: between them a task finds the host's ring just emptied (but for a
\* transfer it cut) and copies nothing.
stop_host ==
  /\ MainLoop /\ ipc = "idle" /\ state \in {"RUNNING", "PAUSED"}
  /\ state' = "SETUP" /\ ipc' = "stopping"
  /\ host_elements_reset /\ local_pos' = 0
  /\ ResetRings
  /\ upset' = IF xfer THEN upset \cup {"cut"} ELSE upset
  /\ UNCHANGED <<dai, chan, linked, split_remaining, xfer, complete, last_bytes,
                 hw, taskVars, lead, fault>>

\* pipeline_cmd(STOP), the DAI: its channel and port are stopped (DwDma and
\* Stream say how; here the channel is idle when it may be started again).
stop_dai ==
  /\ MainLoop /\ ipc = "stopping"
  /\ ipc' = "idle"
  /\ IF dai \in {"RUNNING", "PAUSED", "PREPARE"}
     THEN dai' = "SETUP" /\ chan' = "idle" /\ last_bytes' = 0
     ELSE UNCHANGED <<dai, chan, last_bytes>>
  /\ UNCHANGED <<state, hbuf, dbuf, hostVars, xfer, complete, hw, taskVars,
                 lead, upset, fault>>

\* COMP_STATE of the volume component, which has its part of a pause and of a
\* release after the host component.
VolState == CASE ipc = "pause_volume"   -> "RUNNING"
              [] ipc = "release_volume" -> "PAUSED"
              [] OTHER                  -> state

\* What PAUSE and RELEASE leave alone but for the DAI's part.
dataVars == <<hbuf, dbuf, hostVars, xfer, complete, last_bytes, taskVars, lead,
              upset, fault>>

\* pipeline_cmd(PAUSE), from the host component down: the DAI's channel goes on
\* to the end of its element.
pause_host ==
  /\ MainLoop /\ ipc = "idle" /\ state = "RUNNING"
  /\ state' = "PAUSED" /\ ipc' = "pause_volume"
  /\ UNCHANGED <<dai, chan, hw, dataVars>>

pause_volume ==
  /\ MainLoop /\ ipc = "pause_volume" /\ ipc' = "pause_dai"
  /\ UNCHANGED <<state, dai, chan, hw, dataVars>>

pause_dai ==
  /\ MainLoop /\ ipc = "pause_dai" /\ ipc' = "idle"
  /\ IF dai = "RUNNING"
     THEN /\ dai' = "PAUSED"
          /\ chan' = IF chan = "running" THEN "pausing" ELSE chan
     ELSE UNCHANGED <<dai, chan>>
  /\ UNCHANGED <<state, hw, dataVars>>

\* pipeline_cmd(RELEASE), of a paused stream, from the host component down.
release_host ==
  /\ MainLoop /\ ipc = "idle" /\ state = "PAUSED"
  /\ state' = "RUNNING" /\ ipc' = "release_volume"
  /\ UNCHANGED <<dai, chan, hw, dataVars>>

release_volume ==
  /\ MainLoop /\ ipc = "release_volume" /\ ipc' = "release_dai"
  /\ UNCHANGED <<state, dai, chan, hw, dataVars>>

\* Mutant of dw_dma_release: the element is taken twice when the channel had
\* not paused yet.
ReleaseReloads ==
  /\ hw' = WrapPtr(hw + Period, DaiSize)
  /\ chan' = "running"

\* A channel that paused goes to the next element; one that had not goes on.
dw_dma_release ==
  /\ hw' = IF chan = "paused" THEN WrapPtr(hw + Period, DaiSize) ELSE hw
  /\ chan' = "running"

release_dai ==
  /\ MainLoop /\ ipc = "release_dai" /\ ipc' = "idle"
  /\ IF dai = "PAUSED"
     THEN dai' = "RUNNING" /\ dw_dma_release
     ELSE UNCHANGED <<dai, chan, hw>>
  /\ UNCHANGED <<state, dataVars>>

\* pipeline_reset(): the lists of elements are freed.
reset ==
  /\ MainLoop /\ ipc = "idle" /\ state \in {"SETUP", "PREPARE"}
  /\ state' = "INIT" /\ dai' = "INIT"
  /\ linked' = FALSE /\ local_pos' = 0 /\ last_bytes' = 0
  /\ UNCHANGED <<chan, ipc, hbuf, dbuf, src, src_end, dest, dest_end, size,
                 split_remaining, xfer, complete, hw, taskVars, lead, upset,
                 fault>>

-----------------------------------------------------------------------------
(* Interrupt of the DAI's channel: dai_dma_cb() *)

\* The history of the DAI's ring is not kept past the first rare event.
Track(n) == IF upset = {} THEN n ELSE 0

\* The transfer at lli_current ended, on a channel that dw_dma_irq_handler()
\* does not pass over.  The last bytes of a stream are played with an element
\* of their own, without moving lli_current; a channel that was to pause does.
dai_dma_cb ==
  LET copied == IF last_bytes # 0 THEN last_bytes ELSE Period
      b == comp_update_buffer_consume(
             [dbuf EXCEPT !.r_ptr = WrapPtr(@ + copied, DaiSize)], DaiSize)
      ended == b.avail = 0
      short == b.avail # 0 /\ b.avail < Period
  IN  /\ fault = "none" /\ chan \in {"running", "pausing"}
      /\ dbuf' = b
      /\ lead' = Track(lead - copied)
      /\ dai' = IF ended THEN "SETUP" ELSE dai
      /\ chan' = CASE ended -> "idle"
                   [] ~ended /\ ~short /\ chan = "pausing" -> "paused"
                   [] OTHER -> chan
      /\ last_bytes' = IF ended THEN 0 ELSE IF short THEN b.avail ELSE last_bytes
      /\ hw' = IF ended \/ short \/ chan = "pausing" THEN hw
               ELSE WrapPtr(hw + Period, DaiSize)
      /\ upset' = IF ipc = "stopping" THEN upset \cup {"raced"} ELSE upset
         \* pipeline_schedule_copy(): a task that has not finished is linked twice
      /\ IF ended \/ short THEN UNCHANGED <<task, fault>>
         ELSE IF task = "none" THEN task' = "queued" /\ UNCHANGED fault
         ELSE fault' = "overrun" /\ UNCHANGED task
      /\ UNCHANGED <<state, ipc, hbuf, hostVars, xfer, complete, cframes, avail>>

-----------------------------------------------------------------------------
(* The pipeline task: pipeline_copy_upstream(), from the DAI's source up *)

\* A source that does not run is passed over with all that is above it.  The
\* host component, when it runs, starts a transfer, which is refused while the
\* last one is in flight, and waits.
host_copy ==
  /\ fault = "none" /\ task = "queued"
  /\ \/ VolState # "RUNNING" /\ task' = "none" /\ UNCHANGED <<complete, xfer>>
     \/ /\ VolState = "RUNNING" /\ state # "RUNNING"
        /\ task' = "volume" /\ UNCHANGED <<complete, xfer>>
     \/ /\ VolState = "RUNNING" /\ state = "RUNNING"
        /\ task' = "wait" /\ complete' = FALSE /\ xfer' = TRUE
  /\ UNCHANGED <<state, dai, chan, ipc, hbuf, dbuf, hostVars, last_bytes, hw, cframes,
                 avail, lead, upset, fault>>

\* wait_for_completion_timeout() of host_copy(): the result is not used.
copy_done ==
  /\ fault = "none" /\ task = "wait"
  /\ \/ complete /\ UNCHANGED upset
     \/ ~complete /\ upset' = upset \cup {"late"}
  /\ task' = "volume"
  /\ UNCHANGED <<state, dai, chan, ipc, hbuf, dbuf, hostVars, xfer, complete,
                 last_bytes, hw, cframes, avail, lead, fault>>

\* A period, or all there is when there is less, or too little room.
CopyFrames ==
  IF hbuf.avail < Period \/ dbuf.free < Period THEN hbuf.avail ELSE Period

\* volume_copy(): the copy itself moves the pointers...
volume_scale ==
  /\ fault = "none" /\ task = "volume"
  /\ cframes' = CopyFrames
  /\ IF CopyFrames = 0
     THEN task' = "none" /\ UNCHANGED <<hbuf, dbuf, lead>>
     ELSE /\ task' = "wrap"
          /\ hbuf' = [hbuf EXCEPT !.r_ptr = @ + CopyFrames]
          /\ dbuf' = [dbuf EXCEPT !.w_ptr = @ + CopyFrames]
          /\ lead' = Track(lead + CopyFrames)
  /\ upset' = IF CopyFrames # 0 /\ state # "RUNNING" THEN upset \cup {"stale"}
              ELSE upset
  /\ UNCHANGED <<state, dai, chan, ipc, hostVars, xfer, complete, last_bytes, hw,
                 avail, fault>>

\* ...which are put back to the start of the ring at its end...
volume_wrap ==
  /\ fault = "none" /\ task = "wrap"
  /\ hbuf' = [hbuf EXCEPT !.r_ptr = WrapPtr(@, LocalSize)]
  /\ dbuf' = [dbuf EXCEPT !.w_ptr = WrapPtr(@, DaiSize)]
  /\ task' = "produce"
  /\ UNCHANGED <<state, dai, chan, ipc, hostVars, xfer, complete, last_bytes, hw,
                 cframes, avail, lead, upset, fault>>

\* ...and what is available is worked out from the pointers...
volume_produce ==
  /\ fault = "none" /\ task = "produce"
  /\ avail' = comp_update_buffer_produce(dbuf, DaiSize).avail
  /\ task' = "store"
  /\ UNCHANGED <<state, dai, chan, ipc, hbuf, dbuf, hostVars, xfer, complete,
                 last_bytes, hw, cframes, lead, upset, fault>>

\* ...and stored, for the sink and then for the source.
volume_store ==
  /\ fault = "none" /\ task = "store"
  /\ dbuf' = SetAvail(dbuf, avail, DaiSize)
  /\ hbuf' = comp_update_buffer_consume(hbuf, LocalSize)
  /\ task' = "none"
  /\ UNCHANGED <<state, dai, chan, ipc, hostVars, xfer, complete, last_bytes, hw,
                 cframes, avail, lead, upset, fault>>

-----------------------------------------------------------------------------
(* Interrupt of the host's channel: host_dma_cb() *)

\* next_buffer(): where the element after the one that ends at e starts.
NextElem(e, total) == WrapPtr(e, total)

Least(a, b) == IF a < b THEN a ELSE b

\* Mutant of NextSize: the transfer is only cut at the end of the source.
SizeIgnoresSink(s, s_end, d, d_end) == Least(Period, s_end - s)

\* A period, cut at the end of either element.
NextSize(s, s_end, d, d_end) ==
  Least(Period, Least(s_end - s, d_end - d))

\* What the next transfer moves, and what is then left of its period.
SplitSize(next_size) ==
  IF split_remaining = 0
  THEN [size |-> next_size, rest |-> Period - next_size]
  ELSE LET s == Least(next_size, split_remaining)
       IN  [size |-> s, rest |-> split_remaining - s]

\* Mutant of LocalPos: the position wraps one transfer late.
LocalPosLate == LET p == local_pos + size
                IN  IF p > HostSize THEN 0 ELSE p

LocalPos == WrapPtr(local_pos + size, HostSize)

host_dma_cb ==
  LET s == src + size
      d == dest + size
      s0 == IF s = src_end THEN NextElem(src_end, HostSize) ELSE s
      d0 == IF d = dest_end THEN NextElem(dest_end, LocalSize) ELSE d
      s_end == IF s = src_end THEN s0 + PageSize ELSE src_end
      d_end == IF d = dest_end THEN d0 + Period ELSE dest_end
      next == SplitSize(NextSize(s0, s_end, d0, d_end))
  IN  /\ fault = "none" /\ xfer /\ linked
      /\ hbuf' = comp_update_buffer_produce(
                   [hbuf EXCEPT !.w_ptr = WrapPtr(@ + size, LocalSize)], LocalSize)
      /\ local_pos' = LocalPos
      /\ src' = s0 /\ src_end' = s_end /\ dest' = d0 /\ dest_end' = d_end
      /\ size' = next.size /\ split_remaining' = next.rest
         \* the rest of a split period follows at once, else the list ends
      /\ IF split_remaining # 0 THEN UNCHANGED <<xfer, complete>>
         ELSE xfer' = FALSE /\ complete' = TRUE
      /\ UNCHANGED <<state, dai, chan, ipc, dbuf, linked, last_bytes, hw, taskVars,
                     lead, upset, fault>>

\* A transfer that outlives its stream: the callback follows the null pointers
\* host_reset() left.
host_dma_cb_null ==
  /\ fault = "none" /\ xfer /\ ~linked
  /\ fault' = "null"
  /\ UNCHANGED <<state, dai, chan, ipc, hbuf, dbuf, hostVars, xfer, complete,
                 last_bytes, hw, taskVars, lead, upset>>

Halted == fault # "none" /\ UNCHANGED vars

-----------------------------------------------------------------------------
Next ==
  \/ params \/ prepare \/ start \/ stop_host \/ stop_dai \/ reset
  \/ pause_host \/ pause_volume \/ pause_dai
  \/ release_host \/ release_volume \/ release_dai
  \/ dai_dma_cb \/ host_dma_cb \/ host_dma_cb_null
  \/ host_copy \/ copy_done
  \/ volume_scale \/ volume_wrap \/ volume_produce \/ volume_store
  \/ Halted

Spec == Init /\ [][Next]_vars

-----------------------------------------------------------------------------
(* Properties *)

\* host_dma_cb(): the four records of where the host's data is agree: the DMA
\* source, the position reported to the host, the DMA target and the ring's
\* write pointer.  Splits, page ends, pauses and late transfers do not part
\* them; only a stop that finds a transfer in flight does.
HostInStep ==
  (state \in {"PREPARE", "RUNNING", "PAUSED"} /\ "cut" \notin upset) =>
    src = local_pos /\ dest = hbuf.w_ptr

\* host_dma_cb(): waiters are told of completion after whole periods only; a
\* period that a page end splits is never reported half copied, and the rest of
\* a split is never carried into the next period or the next run.
PeriodWhole ==
  (state \in {"RUNNING", "PAUSED"} /\ complete /\ "cut" \notin upset) =>
    src % Period = 0 /\ dest % Period = 0 /\ dest_end - dest = Period

\* volume_copy() copies without looking for the end of either ring ("buffer
\* sizes are always divisible by period frames", volume.c): it never passes it,
\* provided each host transfer ended within its wait.
InBounds ==
  (task = "wrap" /\ upset \cap {"late", "cut", "stale"} = {}) =>
    hbuf.r_ptr <= LocalSize /\ dbuf.w_ptr <= DaiSize

\* The stream is on, and its rings are not being reset for a stop.
Streaming == chan # "idle" /\ ipc # "stopping" /\ upset = {}

\* The ring of a DAI that was started: what the pointers and avail say, where
\* equal pointers mean full after a write and empty after a read, is what the
\* volume component wrote and the DAI has not played.  No write lands on data
\* not yet played, however often the stream is paused and released.
LeadExact ==
  (Streaming /\ fault = "none") =>
    /\ lead \in 1 .. DaiSize
    /\ (dbuf.w_ptr - dbuf.r_ptr - lead) % DaiSize = 0
    /\ (task \in {"none", "queued"} /\ lead < DaiSize) => dbuf.avail = lead
    /\ task = "store" => avail = lead

\* dai_dma_cb() takes an empty ring for the end of the stream and stops: every
\* byte the volume component wrote has been played by then.  A stream gets there
\* in a few pauses: the element that ends while it pauses is not brought again.
EosHonest ==
  [][(dai_dma_cb /\ Streaming /\ dai' = "SETUP") => lead' = 0]_vars

\* dai_dma_cb() moves the read pointer, dw_dma_chan_reload_lli() the element, in
\* the interrupt or, after a pause, in the release: the DMA of a stream reads
\* where the ring says it does, and one that paused will.
HwInStep ==
  Streaming =>
    dbuf.r_ptr = IF chan = "paused" THEN WrapPtr(hw + Period, DaiSize) ELSE hw
=============================================================================
