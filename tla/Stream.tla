------------------------------- MODULE Stream -------------------------------
(***************************************************************************)
(* Control of streams: playback streams that are mixed into one DAI        *)
(* (host.c, volume.c, mixer.c, dai.c under src/audio), a capture stream    *)
(* from the other DAI of the same port, the walks of pipeline.c along      *)
(* them, the DMA channels of the two DAIs and the port (dw-dma.c, ssp.c    *)
(* under src/drivers).                                                     *)
(*                                                                         *)
(* A command of the host runs in the main loop.  The DMA interrupt and the *)
(* timer's, which runs works, are of level 5 and come between any two      *)
(* steps of the main loop.  A playback DAI that finds its buffer empty     *)
(* stops itself: its interrupt runs dai_cmd(STOP), and when that waits     *)
(* other interrupts are let in, the main loop is not.                      *)
(*                                                                         *)
(* A host and its volume component are one, they change state together.    *)
(* The contents of buffers are left out: whether there is more to play     *)
(* when an interrupt comes is not determined.                              *)
(***************************************************************************)
EXTENDS DwDma, Ssp, FiniteSets

CONSTANTS Playback, Capture,    \* the streams
          MaxOpen               \* how many the host opens at a time

ASSUME StreamConstants == Playback \cap Capture = {} /\ MaxOpen \in Nat

VARIABLES
  host,      \* state of each stream's host component
  drv,       \* what the host's driver has done: "closed", "open" or "ready"
  mixer,     \* state of the mixer
  dai,       \* state of the DAI of each direction
  elems,     \* the DAI's list of DMA elements is not empty
  chan,      \* the DAI's DMA channel
  ssp,       \* the port
  job,       \* the capture stream of the last command
  pc,        \* where dai_cmd() is, in the main loop and in the interrupt
  upset,     \* history: the rare events met
  fault      \* "spin": the DSP spins on ssp->lock for ever

compVars == <<host, drv, mixer, dai, elems>>
vars == <<compVars, chan, ssp, job, pc, upset, fault>>

Streams == Playback \cup Capture

\* The streams that are open.
Open == {s \in Streams : drv[s] # "closed"}

Dir(s) == IF s \in Playback THEN "playback" ELSE "capture"

\* COMP_STATE_, and the order of their numbers.
States == {"INIT", "SETUP", "PREPARE", "PAUSED", "RUNNING"}
Rank == [INIT |-> 0, SETUP |-> 1, PREPARE |-> 4, PAUSED |-> 5, RUNNING |-> 6]

Commands == {"START", "STOP", "PAUSE", "RELEASE"}

\* "dma": at the channel operation; "suspended", "stopping": in dw_dma_stop(),
\* before and in its wait; "trigger": at ssp_trigger(); "locked": in a function
\* of ssp.c with ssp->lock held; "draining": in the wait of ssp_trigger();
\* "release": at dma_release(); "state": at the assignment of dev->state;
\* "host": the DAI of a capture stream is done, its host component is next.
Places == {"idle", "dma", "suspended", "stopping", "trigger", "locked",
           "draining", "release", "state", "host"}

\* "eos": the DAI stopped itself, and was not prepared since; "late": a wait
\* timed out; "mixed": streams in different states shared the DAI in a way
\* that the mixer, which passes commands on and not states, does not handle:
\* one was prepared or started while another was paused, or stopped while
\* another was prepared or paused; "raced": the DAI stopped itself during a
\* command for it.
Events == {"eos", "late", "mixed", "raced"}

Pc == [at : Places, cmd : Commands, dir : Dirs, op : {"none", "start", "pause", "stop"}]

Idle == [at |-> "idle", cmd |-> "STOP", dir |-> "playback", op |-> "none"]

TypeOK ==
  /\ host \in [Streams -> States]
  /\ drv \in [Streams -> {"closed", "open", "ready"}]
  /\ mixer \in States /\ dai \in [Dirs -> States] /\ elems \in [Dirs -> BOOLEAN]
  /\ chan \in [Dirs -> Channels] /\ ssp \in Ports
  /\ job \in Capture /\ pc \in [{"main", "irq"} -> Pc]
  /\ upset \subseteq Events /\ fault \in {"none", "spin"}

Init ==
  /\ host = [s \in Streams |-> "INIT"] /\ drv = [s \in Streams |-> "closed"]
  /\ mixer = "INIT" /\ dai = [d \in Dirs |-> "INIT"]
  /\ elems = [d \in Dirs |-> FALSE] /\ chan = [d \in Dirs |-> NewChannel]
  /\ ssp = NewPort /\ job \in Capture /\ pc = [x \in {"main", "irq"} |-> Idle]
  /\ upset = {} /\ fault = "none"

\* The main loop runs when no interrupt does.
CanRun(x) == fault = "none" /\ (x = "main" => pc.irq.at = "idle")

\* The main loop takes a command.
Ready == CanRun("main") /\ pc.main.at = "idle"

-----------------------------------------------------------------------------
(* Commands that change components only *)

\* ipc_dai_ssp_config(), before streams are opened.
dai_config ==
  /\ Ready /\ Open = {}
  /\ ssp' = ssp_set_config(ssp)
  /\ UNCHANGED <<compVars, chan, job, pc, upset, fault>>

\* pipeline_reset(): mixer_reset() keeps the walk from the DAI while another
\* source is in use.
ResetStream(s) ==
  LET h == [host EXCEPT ![s] = "INIT"]
      stays == s \in Playback /\ \E t \in Playback : Rank[h[t]] > Rank["SETUP"]
  IN  /\ host' = h
      /\ drv' = [drv EXCEPT ![s] = "closed"]
      /\ mixer' = IF s \in Playback /\ ~stays THEN "INIT" ELSE mixer
      /\ dai' = IF stays THEN dai ELSE [dai EXCEPT ![Dir(s)] = "INIT"]
      /\ elems' = IF stays THEN elems ELSE [elems EXCEPT ![Dir(s)] = FALSE]

\* ipc_stream_pcm_params(): a mixer that runs ends the walk, a DAI that is not
\* in its first state refuses, and then the stream is reset.
pcm_params(s) ==
  LET d == Dir(s)
      skips == s \in Playback /\ mixer = "RUNNING"
  IN  /\ Ready /\ s \notin Open /\ Cardinality(Open) < MaxOpen
      /\ ssp.state[d] # "INIT"
      /\ IF skips \/ dai[d] = "INIT"
         THEN /\ drv' = [drv EXCEPT ![s] = "open"]
              /\ elems' = IF skips THEN elems ELSE [elems EXCEPT ![d] = TRUE]
              /\ UNCHANGED <<host, mixer, dai>>
         ELSE ResetStream(s)
      /\ UNCHANGED <<chan, ssp, job, pc, upset, fault>>

\* ipc_stream_pcm_free() of a stream that was stopped.
pcm_free(s) ==
  /\ Ready /\ s \in Open /\ host[s] \in {"INIT", "SETUP", "PREPARE"}
  /\ ResetStream(s)
  /\ UNCHANGED <<chan, ssp, job, pc, upset, fault>>

\* mixer_prepare(): whether the walk ends there.
KeepsTail(h) == \E t \in Playback : h[t] \in {"PAUSED", "RUNNING"}

\* pipeline_prepare(): host, mixer, DAI.  A DAI without elements refuses.
prepare(s) ==
  LET d == Dir(s)
      h == [host EXCEPT ![s] = "PREPARE"]
      ends == s \in Playback /\ KeepsTail(h)
      ok == ends \/ elems[d]
      healed == IF ~ends /\ ok /\ s \in Playback THEN {"eos"} ELSE {}
  IN  /\ Ready /\ s \in Open /\ host[s] \in {"INIT", "SETUP", "PREPARE"}
      /\ host' = h
      /\ mixer' = IF s \in Playback /\ mixer # "RUNNING" THEN "PREPARE" ELSE mixer
      /\ drv' = [drv EXCEPT ![s] = IF ok THEN "ready" ELSE "open"]
      /\ IF ends \/ ~ok THEN UNCHANGED <<dai, chan>>
         ELSE /\ chan' = [chan EXCEPT ![d] = dw_dma_set_config(@)]
              /\ dai' = [dai EXCEPT ![d] = "PREPARE"]
      /\ upset' = (upset \ healed) \cup
                  (IF s \in Playback /\ mixer = "PAUSED" THEN {"mixed"} ELSE {})
      /\ UNCHANGED <<elems, ssp, job, pc, fault>>

-----------------------------------------------------------------------------
(* Triggers: pipeline_cmd() *)

\* host_cmd() and volume_cmd().
HostState(st, cmd) ==
  CASE cmd \in {"START", "RELEASE"} -> "RUNNING"
    [] cmd = "PAUSE" -> IF st = "RUNNING" THEN "PAUSED" ELSE st
    [] cmd = "STOP" -> IF st \in {"RUNNING", "PAUSED"} THEN "SETUP" ELSE st

\* The triggers a driver sends in each state of a stream.
Allowed(s) ==
  CASE host[s] = "PREPARE" -> IF drv[s] = "ready" THEN {"START"} ELSE {}
    [] host[s] = "RUNNING" -> {"PAUSE", "STOP"}
    [] host[s] = "PAUSED"  -> {"RELEASE", "STOP"}
    [] OTHER -> {}

\* Mutant of Highest: the last source that was told decides.
HighestOne(h) == LET t == CHOOSE t \in Playback : h[t] # host[t] IN h[t]

\* mixer_status_change(): the highest state of the mixer's sources.
Highest(h) ==
  CHOOSE st \in States :
    /\ \E t \in Playback : h[t] = st
    /\ \A u \in Playback : Rank[h[u]] <= Rank[st]

\* A stream still counts on the DAI being prepared or paused.
KeepsStream(h) == \E t \in Playback : h[t] \in {"PREPARE", "PAUSED"}

AtDai(cmd, d) == [pc EXCEPT !.main = [Idle EXCEPT !.at = "dma", !.cmd = cmd, !.dir = d]]

\* Playback: host, volume and mixer, which ends the walk when its state does
\* not change; the DAI is next.
trigger_playback(s, cmd) ==
  LET h == [host EXCEPT ![s] = HostState(@, cmd)]
      ends == mixer = Highest(h)
  IN  /\ Ready /\ cmd \in Allowed(s)
      /\ host' = h /\ mixer' = Highest(h)
      /\ drv' = IF cmd = "STOP" THEN [drv EXCEPT ![s] = "open"] ELSE drv
      /\ IF ends THEN UNCHANGED pc ELSE pc' = AtDai(cmd, "playback")
      /\ upset' = upset
           \cup (IF cmd = "STOP" /\ ~ends /\ KeepsStream(h)
                 THEN {"mixed"} ELSE {})
           \cup (IF cmd = "START" /\ mixer = "PAUSED" THEN {"mixed"} ELSE {})
      /\ UNCHANGED <<dai, elems, chan, ssp, job, fault>>

\* Capture: the DAI is upstream of the host component and first.
trigger_capture(s, cmd) ==
  /\ Ready /\ cmd \in Allowed(s)
  /\ job' = s /\ pc' = AtDai(cmd, "capture")
  /\ drv' = IF cmd = "STOP" THEN [drv EXCEPT ![s] = "open"] ELSE drv
  /\ UNCHANGED <<host, mixer, dai, elems, chan, ssp, upset, fault>>

\* The host component of a capture stream.
trigger_host ==
  /\ CanRun("main") /\ pc.main.at = "host"
  /\ host' = [host EXCEPT ![job] = HostState(@, pc.main.cmd)]
  /\ pc' = [pc EXCEPT !.main = Idle]
  /\ UNCHANGED <<drv, mixer, dai, elems, chan, ssp, job, upset, fault>>
-----------------------------------------------------------------------------
(* dai_cmd(), in the main loop or in the interrupt of a DAI that stops itself *)

GoTo(x, place) ==
  pc' = [pc EXCEPT ![x] = IF place = "idle" THEN Idle ELSE [@ EXCEPT !.at = place]]

\* Where the walk goes from the DAI.
After(x) == IF x = "main" /\ pc[x].dir = "capture" THEN "host" ELSE "idle"

\* The states in which a command has something to do.
Obeys(st, cmd) ==
  CASE cmd = "PAUSE" -> st = "RUNNING"
    [] cmd = "STOP" -> st \in {"RUNNING", "PAUSED"}
    [] cmd = "RELEASE" -> st = "PAUSED"
    [] cmd = "START" -> st = "PREPARE"

\* The channel operation that comes first; a start that the channel refuses
\* ends the walk, a release triggers the port first.
dai_cmd(x) ==
  LET d == pc[x].dir
      cmd == pc[x].cmd
      c == chan[d]
  IN  /\ CanRun(x) /\ pc[x].at = "dma"
      /\ \/ ~Obeys(dai[d], cmd)
            /\ GoTo(x, IF cmd = "STOP" /\ dai[d] = "PREPARE" THEN "state"
                       ELSE IF x = "irq" THEN "state" ELSE After(x))
            /\ UNCHANGED chan
         \/ Obeys(dai[d], cmd) /\ cmd = "PAUSE"
            /\ chan' = [chan EXCEPT ![d] = dw_dma_pause(c)]
            /\ GoTo(x, "trigger")
         \/ Obeys(dai[d], cmd) /\ cmd = "STOP"
            /\ chan' = [chan EXCEPT ![d] = dw_dma_stop(c, dai[d] = "RUNNING")]
            /\ GoTo(x, IF c.en THEN "suspended" ELSE "trigger")
         \/ Obeys(dai[d], cmd) /\ cmd = "RELEASE"
            /\ GoTo(x, "trigger") /\ UNCHANGED chan
         \/ Obeys(dai[d], cmd) /\ cmd = "START" /\ CanStart(c)
            /\ chan' = [chan EXCEPT ![d] = dw_dma_start(c)]
            /\ GoTo(x, "trigger")
         \/ Obeys(dai[d], cmd) /\ cmd = "START" /\ ~CanStart(c)
            /\ GoTo(x, "idle") /\ UNCHANGED chan
      /\ UNCHANGED <<compVars, ssp, job, upset, fault>>

\* dw_dma_stop() after it released the lock...
stop_schedule(x) ==
  /\ CanRun(x) /\ pc[x].at = "suspended"
  /\ chan' = [chan EXCEPT ![pc[x].dir] = ScheduleWork(@)]
  /\ GoTo(x, "stopping")
  /\ UNCHANGED <<compVars, ssp, job, upset, fault>>

\* ...and its wait, whose result dai_cmd() does not look at.
stop_wait(x) ==
  /\ CanRun(x) /\ pc[x].at = "stopping"
  /\ \/ chan[pc[x].dir].complete /\ UNCHANGED upset
     \/ ~chan[pc[x].dir].complete /\ upset' = upset \cup {"late"}
  /\ chan' = [chan EXCEPT ![pc[x].dir].complete = FALSE]
  /\ GoTo(x, "trigger")
  /\ UNCHANGED <<compVars, ssp, job, fault>>

\* Where dai_cmd() goes from the port.
Triggered(x) == IF pc[x].cmd = "RELEASE" THEN "release" ELSE "state"

\* The main loop holds ssp->lock, interrupts are not disabled.
Locked == pc.main.at = "locked"

\* ssp_trigger().  An interrupt that needs the lock held by the code it
\* interrupted spins.
ssp_trigger(x) ==
  LET d == pc[x].dir
      op == SspOp(ssp, pc[x].cmd, d)
  IN  /\ CanRun(x) /\ pc[x].at = "trigger"
      /\ \/ op = "none" /\ GoTo(x, Triggered(x)) /\ UNCHANGED <<ssp, fault>>
         \/ op = "wait" /\ ssp' = SspWait(ssp, d) /\ GoTo(x, "draining")
            /\ UNCHANGED fault
         \/ op \notin {"none", "wait"} /\ x = "main"
            /\ pc' = [pc EXCEPT !.main.at = "locked", !.main.op = op]
            /\ UNCHANGED <<ssp, fault>>
         \/ op \notin {"none", "wait"} /\ x = "irq" /\ ~Locked
            /\ ssp' = SspApply(ssp, op, d) /\ GoTo(x, "state") /\ UNCHANGED fault
         \/ op \notin {"none", "wait"} /\ x = "irq" /\ Locked
            /\ fault' = "spin" /\ UNCHANGED <<ssp, pc>>
      /\ UNCHANGED <<compVars, chan, job, upset>>

\* ssp_start(), ssp_pause() or ssp_stop() in the main loop, to the unlock.
ssp_unlock ==
  /\ CanRun("main") /\ Locked
  /\ ssp' = SspApply(ssp, pc.main.op, pc.main.dir)
  /\ pc' = [pc EXCEPT !.main.at = Triggered("main"), !.main.op = "none"]
  /\ UNCHANGED <<compVars, chan, job, upset, fault>>

\* Mutant of ssp_wait: the drain work is not waited for.
SspNoWait(x) ==
  /\ CanRun(x) /\ pc[x].at = "draining"
  /\ GoTo(x, "state")
  /\ UNCHANGED <<compVars, chan, ssp, job, upset, fault>>

\* The wait of ssp_trigger(); its result is not looked at either.
ssp_wait(x) ==
  /\ CanRun(x) /\ pc[x].at = "draining"
  /\ \/ ssp.complete /\ UNCHANGED upset
     \/ ~ssp.complete /\ upset' = upset \cup {"late"}
  /\ ssp' = [ssp EXCEPT !.complete = FALSE]
  /\ GoTo(x, "state")
  /\ UNCHANGED <<compVars, chan, job, fault>>

dai_release ==
  /\ CanRun("main") /\ pc.main.at = "release"
  /\ chan' = [chan EXCEPT ![pc.main.dir] = dw_dma_release(@)]
  /\ GoTo("main", "state")
  /\ UNCHANGED <<compVars, ssp, job, upset, fault>>

\* dev->state is assigned whatever happened since it was looked at.  In the
\* interrupt, dai_dma_cb() then ends the transfer and the handler the channel.
dai_state(x) ==
  LET d == pc[x].dir
      cmd == pc[x].cmd
      st == CASE cmd = "PAUSE" -> "PAUSED"
              [] cmd = "STOP" -> "SETUP"
              [] OTHER -> "RUNNING"
      keeps == x = "irq" /\ dai[d] \in {"INIT", "SETUP"}
  IN  /\ CanRun(x) /\ pc[x].at = "state"
      /\ dai' = IF keeps THEN dai ELSE [dai EXCEPT ![d] = st]
      /\ chan' = IF x = "irq" THEN [chan EXCEPT ![d] = Reload(@, "end")] ELSE chan
      /\ GoTo(x, After(x))
      /\ UNCHANGED <<host, drv, mixer, elems, ssp, job, upset, fault>>

-----------------------------------------------------------------------------
(* Interrupts *)

\* An interrupt that waits lets others in.
Interruptible == fault = "none" /\ pc.irq.at \in {"idle", "stopping", "draining"}

\* dw_dma_irq_handler() and dai_dma_cb(): the stream goes on, or its last
\* bytes are played with an element of their own, or there is nothing left and
\* the DAI stops itself.
dma_irq(d) ==
  LET c == chan[d]
  IN  /\ Interruptible /\ c.tfr /\ (d = "playback" => pc.irq.at = "idle")
      /\ \/ ~Served(c)
            /\ chan' = [chan EXCEPT ![d].tfr = FALSE] /\ UNCHANGED <<pc, upset>>
         \/ Served(c)
            /\ chan' = [chan EXCEPT ![d] = Reload(c, "list")] /\ UNCHANGED <<pc, upset>>
         \/ Served(c) /\ d = "playback"
            /\ chan' = [chan EXCEPT ![d] = Reload(c, "own")] /\ UNCHANGED <<pc, upset>>
         \/ Served(c) /\ d = "playback"
            /\ pc' = [pc EXCEPT !.irq = [Idle EXCEPT !.at = "dma"]]
            /\ upset' = upset \cup
                 (IF pc.main.at # "idle" /\ pc.main.dir = "playback"
                  THEN {"eos", "raced"} ELSE {"eos"})
            /\ chan' = [chan EXCEPT ![d].tfr = FALSE]
      /\ UNCHANGED <<compVars, ssp, job, fault>>

\* The work of a channel; what the FIFO holds is not determined.
fifo_work(d) ==
  /\ Interruptible /\ chan[d].work
  /\ \E empty \in BOOLEAN :
       chan' = [chan EXCEPT ![d] = dw_dma_fifo_work(@, empty)]
  /\ UNCHANGED <<compVars, ssp, job, pc, upset, fault>>

\* The drain work of the port.
drain_work ==
  /\ Interruptible /\ ssp.work
  /\ IF Locked THEN fault' = "spin" /\ UNCHANGED ssp
     ELSE ssp' = ssp_drain_work(ssp) /\ UNCHANGED fault
  /\ UNCHANGED <<compVars, chan, job, pc, upset>>

\* The controller ends the transfer of an element: the port must ask for data.
transfer_done(d) ==
  /\ fault = "none" /\ chan[d].en /\ ssp.req[d] /\ ssp.sse
  /\ chan' = [chan EXCEPT ![d].en = FALSE, ![d].tfr = TRUE]
  /\ UNCHANGED <<compVars, ssp, job, pc, upset, fault>>

Halted == fault # "none" /\ UNCHANGED vars

-----------------------------------------------------------------------------
Step(x) ==
  dai_cmd(x) \/ stop_schedule(x) \/ stop_wait(x) \/ ssp_trigger(x)
    \/ ssp_wait(x) \/ dai_state(x)

Main == Step("main") \/ ssp_unlock \/ dai_release \/ trigger_host

Next ==
  \/ dai_config
  \/ \E s \in Streams : pcm_params(s) \/ pcm_free(s) \/ prepare(s)
  \/ \E s \in Playback, cmd \in Commands : trigger_playback(s, cmd)
  \/ \E s \in Capture, cmd \in Commands : trigger_capture(s, cmd)
  \/ Main \/ Step("irq")
  \/ \E d \in Dirs : dma_irq(d) \/ fifo_work(d) \/ transfer_done(d)
  \/ drain_work
  \/ Halted

\* The core and the timer run.
Fairness ==
  /\ WF_vars(Main) /\ WF_vars(Step("irq"))
  /\ \A d \in Dirs : WF_vars(fifo_work(d))

Spec == Init /\ [][Next]_vars /\ Fairness

-----------------------------------------------------------------------------
(* Properties *)

AtRest == fault = "none" /\ pc.main.at = "idle" /\ pc.irq.at = "idle"

\* Data moves through the DAI of direction d.
Flows(d) ==
  /\ dai[d] = "RUNNING" /\ chan[d].status = "RUNNING"
  /\ chan[d].en \/ chan[d].tfr
  /\ ssp.req[d] /\ ssp.sse

\* After any sequence of commands for the streams of a mixer (mixer_cmd(),
\* dai_cmd()), a playback stream that the host was told is running is heard:
\* DAI, channel and port all run, whatever pauses, stops and releases of the
\* other streams came before, none of the rare events having happened.
PlaybackFlows ==
  (AtRest /\ upset = {} /\ \E s \in Playback : host[s] = "RUNNING")
    => Flows("playback")

\* The same of a capture stream, which shares the port: nothing that playback
\* does stops its data but the drain work, which leaves the port's capture
\* side PAUSED (ssp_drain_work()).
CaptureFlows ==
  (AtRest /\ "late" \notin upset /\ \E s \in Capture : host[s] = "RUNNING")
    => Flows("capture") \/ ssp.state.capture = "PAUSED"

\* dw_dma_stop() returns 0 only when the channel came to rest: no completion
\* of an earlier stop is taken for this one's.
StopHonest ==
  [][\A x \in {"main", "irq"} :
       (stop_wait(x) /\ chan[pc[x].dir].complete) =>
         chan[pc[x].dir].status = "IDLE" /\ ~chan[pc[x].dir].en]_vars

\* A channel that is being stopped is being looked after: its work is queued,
\* or dw_dma_stop() is about to queue it.  Neither the DMA interrupt nor a
\* command takes a channel out of the work's hands or strands it.
DrainingHasWork ==
  \A d \in Dirs :
    chan[d].status \in {"DRAINING", "STOPPING"} =>
      chan[d].work \/ \E x \in {"main", "irq"} :
                        pc[x].at = "suspended" /\ pc[x].dir = d

\* ssp->lock is taken without disabling interrupts.  The drain work or the DMA
\* interrupt spins on a lock that the main loop holds only when a DAI stopped
\* itself, or when a wait for the drain work timed out before.
LockSafe == fault = "spin" => upset \cap {"eos", "late"} # {}

\* ssp_stop() disables the port with its last user only: a direction that runs
\* has its DMA requests and the port enabled, whatever the other direction and
\* the shared drain work do.
PortUp ==
  \A d \in Dirs : ssp.state[d] = "RUNNING" => ssp.sse /\ ssp.req[d]

\* mixer_status_change(): a command never takes the DAI out of RUNNING while a
\* source of the mixer is running.
TailKept ==
  [][(Main /\ dai.playback = "RUNNING" /\ dai'.playback # "RUNNING")
       => \A s \in Playback : host[s] # "RUNNING"]_vars

\* dw_dma_fifo_work(): a channel that is being stopped does not stay so for
\* ever, even when its FIFO never drains and though nobody waits any more.
ChannelSettles ==
  \A d \in Dirs :
    chan[d].status \in {"DRAINING", "STOPPING"} ~>
      (chan[d].status \notin {"DRAINING", "STOPPING"} \/ fault # "none")
=============================================================================
