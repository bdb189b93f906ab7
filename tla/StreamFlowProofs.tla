--------------------------- MODULE StreamFlowProofs ---------------------------
(***************************************************************************)
(* Proofs about Stream: data moves for a stream that the host was told is  *)
(* running, first for playback, then for capture.  The DAI, its channel    *)
(* and its side of the port are in the states that the streams' components *)
(* ask for, between commands and at each place of a command.               *)
(***************************************************************************)
EXTENDS StreamProofs

-----------------------------------------------------------------------------
(* Channels *)

Rests(c)  == c.status = "IDLE" /\ ~c.en
Moves(c)  == c.status = "RUNNING" /\ (c.en \/ c.tfr)
Pauses(c) == c.status = "PAUSED" \/ (c.status = "PAUSING" /\ (c.en \/ c.tfr))

\* The channel t is as far as c.
Keeps(c, t) ==
  /\ Rests(c) => Rests(t)
  /\ Moves(c) => Moves(t)
  /\ Pauses(c) => Pauses(t)
  /\ t.lli = c.lli

\* What the operations make of a channel.
LEMMA RestOps ==
  ASSUME NEW c \in Channels
  PROVE  /\ Rests(c) /\ c.lli => CanStart(c)
         /\ Moves(dw_dma_start(c))
         /\ Moves(c) => Pauses(dw_dma_pause(c))
         /\ Pauses(c) => Moves(dw_dma_release(c))
         /\ \A drain \in BOOLEAN : ~c.en => Rests(dw_dma_stop(c, drain))
         /\ Rests(c) => Rests(Reload(c, "end"))
         /\ Rests(c) => Rests(dw_dma_set_config(c))
         /\ dw_dma_set_config(c).lli
<1>. USE DEF Channels, Status, Rests, Moves, Pauses
<1>1. /\ Rests(c) /\ c.lli => CanStart(c)
      /\ Moves(dw_dma_start(c))
      /\ Moves(c) => Pauses(dw_dma_pause(c))
  BY DEF CanStart, dw_dma_start, dw_dma_pause, Enable
<1>2. Pauses(c) => Moves(dw_dma_release(c)) BY DEF dw_dma_release, Enable
<1>3. \A drain \in BOOLEAN : ~c.en => Rests(dw_dma_stop(c, drain))
  BY DEF dw_dma_stop
<1>4. Rests(c) => Rests(Reload(c, "end")) BY DEF Reload
<1>5. (Rests(c) => Rests(dw_dma_set_config(c))) /\ dw_dma_set_config(c).lli
  BY DEF dw_dma_set_config
<1>. QED BY <1>1, <1>2, <1>3, <1>4, <1>5

\* Neither the interrupt nor the channel's work takes a channel that is not
\* being stopped out of its state.
LEMMA KeepOps ==
  ASSUME NEW c \in Channels
  PROVE  /\ Keeps(c, c)
         /\ Keeps(c, ScheduleWork(c))
         /\ Keeps(c, [c EXCEPT !.complete = FALSE])
         /\ \A empty \in BOOLEAN : Keeps(c, dw_dma_fifo_work(c, empty))
         /\ c.en => Keeps(c, [[c EXCEPT !.en = FALSE] EXCEPT !.tfr = TRUE])
         /\ ~Served(c) => Keeps(c, [c EXCEPT !.tfr = FALSE])
         /\ Served(c) => Keeps(c, Reload(c, "list")) /\ Keeps(c, Reload(c, "own"))
<1>. USE DEF Channels, Status, Rests, Moves, Pauses, Keeps
<1>1. Keeps(c, c) /\ Keeps(c, ScheduleWork(c)) BY DEF ScheduleWork
<1>2. Keeps(c, [c EXCEPT !.complete = FALSE]) OBVIOUS
<1>3. \A empty \in BOOLEAN : Keeps(c, dw_dma_fifo_work(c, empty))
  BY DEF dw_dma_fifo_work, GiveUp, Drained
<1>4. c.en => Keeps(c, [[c EXCEPT !.en = FALSE] EXCEPT !.tfr = TRUE]) OBVIOUS
<1>5. ~Served(c) => Keeps(c, [c EXCEPT !.tfr = FALSE]) BY DEF Served
<1>6. Served(c) => Keeps(c, Reload(c, "list")) /\ Keeps(c, Reload(c, "own"))
  BY DEF Served, Reload, Enable
<1>. QED BY <1>1, <1>2, <1>3, <1>4, <1>5, <1>6

\* The channel is in the state of the DAI.
InState(d) ==
  /\ dai[d] = "RUNNING" => Moves(chan[d])
  /\ dai[d] = "PAUSED" => Pauses(chan[d])
  /\ dai[d] \in {"INIT", "SETUP", "PREPARE"} => Rests(chan[d])
  /\ dai[d] = "PREPARE" => chan[d].lli

-----------------------------------------------------------------------------
(* The port *)

\* Once started the playback side of the port stays up: neither its pause nor
\* the drain work takes its requests away.
UpStates == {"RUNNING", "DRAINING", "PAUSED"}

Steady(p) ==
  /\ p.state.playback # "PAUSING" /\ p.state.capture # "DRAINING"
  /\ p.state.playback \in UpStates => p.sse /\ p.req.playback

\* No stream is open before the port was configured, and the port is paused
\* for playback only, which was up.
PortInv ==
  /\ Steady(ssp)
  /\ \A s \in Streams : ssp.state[Dir(s)] = "INIT" => drv[s] = "closed"
  /\ (pc.main.at = "locked" /\ pc.main.op = "pause") =>
       pc.main.dir = "playback" /\ ssp.state.playback \in UpStates

\* The state of one side after an operation on the other stays, and none goes
\* back to the first state.
LEMMA SteadyOps ==
  ASSUME NEW p \in Ports, Steady(p), NEW d \in Dirs
  PROVE  /\ Steady(ssp_set_config(p))
         /\ Steady(ssp_start(p, d))
         /\ Steady(ssp_stop(p, d))
         /\ d = "playback" /\ p.state.playback \in UpStates => Steady(ssp_pause(p, d))
         /\ p.state[d] = "RUNNING" => Steady(SspWait(p, d))
         /\ Steady(ssp_drain_work(p))
         /\ Steady([p EXCEPT !.complete = FALSE])
<1>. USE DEF Ports, PortStates, Dirs, UpStates, Steady
<1>1. Steady(ssp_set_config(p)) BY DEF ssp_set_config
<1>2. Steady(ssp_start(p, d)) BY DEF ssp_start
<1>3. Steady(ssp_stop(p, d)) BY DEF ssp_stop, Disabled
<1>4. d = "playback" /\ p.state.playback \in UpStates => Steady(ssp_pause(p, d))
  BY DEF ssp_pause, Disabled
<1>5. p.state[d] = "RUNNING" => Steady(SspWait(p, d)) BY DEF SspWait
<1>6. Steady(ssp_drain_work(p)) BY DEF ssp_drain_work, ssp_stop, ssp_pause, Disabled
<1>7. Steady([p EXCEPT !.complete = FALSE]) OBVIOUS
<1>. QED BY <1>1, <1>2, <1>3, <1>4, <1>5, <1>6, <1>7

\* What the operations do to the states.
LEMMA StateOps ==
  ASSUME NEW p \in Ports, NEW d \in Dirs
  PROVE  /\ ssp_start(p, d).state = [p.state EXCEPT ![d] = "RUNNING"]
         /\ ssp_stop(p, d).state = [p.state EXCEPT ![d] = "IDLE"]
         /\ ssp_pause(p, d).state = [p.state EXCEPT ![d] = "PAUSED"]
         /\ SspWait(p, d).state =
              [p.state EXCEPT ![d] = IF d = "capture" THEN "PAUSING" ELSE "DRAINING"]
         /\ \E st \in {"IDLE", "PAUSED"} :
              ssp_drain_work(p).state = [p.state EXCEPT !.capture = st]
         /\ p.state.capture # "DRAINING" =>
              ssp_drain_work(p).state = [p.state EXCEPT !.capture = "PAUSED"]
         /\ [p EXCEPT !.complete = FALSE].state = p.state
<1>. USE DEF Ports
<1>1. /\ ssp_start(p, d).state = [p.state EXCEPT ![d] = "RUNNING"]
      /\ ssp_stop(p, d).state = [p.state EXCEPT ![d] = "IDLE"]
      /\ ssp_pause(p, d).state = [p.state EXCEPT ![d] = "PAUSED"]
  BY DEF ssp_start, ssp_stop, ssp_pause
<1>2. SspWait(p, d).state =
        [p.state EXCEPT ![d] = IF d = "capture" THEN "PAUSING" ELSE "DRAINING"]
  BY DEF SspWait
<1>3. /\ p.state.capture = "DRAINING" =>
           ssp_drain_work(p).state = [p.state EXCEPT !.capture = "IDLE"]
      /\ p.state.capture # "DRAINING" =>
           ssp_drain_work(p).state = [p.state EXCEPT !.capture = "PAUSED"]
  BY DEF ssp_drain_work, ssp_stop, ssp_pause
<1>4. [p EXCEPT !.complete = FALSE].state = p.state OBVIOUS
<1>. QED BY <1>1, <1>2, <1>3, <1>4

-----------------------------------------------------------------------------
(* The inductive invariant of playback *)

\* None of the rare events but a DAI that stopped itself.
Calm == upset \cap {"late", "mixed", "raced"} = {}

Paused == \E s \in Playback : host[s] = "PAUSED"
Prepared == \E s \in Playback : host[s] = "PREPARE" /\ drv[s] = "ready"

Up1 == ssp.state.playback \in UpStates
DaiLive == dai.playback \in {"RUNNING", "PAUSED"}

\* Between commands the DAI is in the highest state of the sources, and its
\* channel in that of the DAI.
PlayRests ==
  (Calm /\ ~Walks("playback")) =>
    /\ pc.irq.at = "idle" => InState("playback") /\ (DaiLive => Up1)
    /\ ~Sounds /\ ~Paused => ~DaiLive
    /\ upset = {} =>
         /\ Sounds => dai.playback = "RUNNING"
         /\ ~Sounds /\ Paused => dai.playback = "PAUSED" /\ mixer = "PAUSED"
         /\ ~Sounds /\ ~Paused /\ Prepared => dai.playback = "PREPARE"

\* A DAI that stops itself does so between commands, and is left stopped until
\* it is prepared.
PlayEos ==
  Calm =>
    /\ pc.irq.at # "idle" => ~Walks("playback") /\ DaiLive
    /\ pc.irq.at \in {"trigger", "draining", "state"} => Rests(chan.playback)
    /\ ("eos" \in upset /\ pc.irq.at = "idle") =>
         /\ dai.playback \in {"INIT", "SETUP"}
         /\ Walks("playback") => pc.main.at = "dma" /\ Rests(chan.playback)

\* During a command.
PlayStart ==
  /\ Sounds /\ dai.playback = "PREPARE" /\ ssp.state.playback # "INIT"
  /\ pc.main.at \in {"dma", "trigger", "locked", "state"}
  /\ pc.main.at = "dma" => Rests(chan.playback) /\ chan.playback.lli
  /\ pc.main.at # "dma" => Moves(chan.playback)
  /\ pc.main.at = "locked" => pc.main.op = "start"
  /\ pc.main.at = "state" => Up1

PlayRelease ==
  /\ Sounds /\ dai.playback = "PAUSED" /\ Up1
  /\ pc.main.at \in {"dma", "trigger", "locked", "release", "state"}
  /\ pc.main.at # "state" => Pauses(chan.playback)
  /\ pc.main.at = "locked" => pc.main.op = "start"
  /\ pc.main.at = "state" => Moves(chan.playback)

PlayPause ==
  /\ ~Sounds /\ Paused /\ mixer = "PAUSED" /\ dai.playback = "RUNNING" /\ Up1
  /\ pc.main.at \in {"dma", "trigger", "locked", "state"}
  /\ pc.main.at = "dma" => Moves(chan.playback)
  /\ pc.main.at # "dma" => Pauses(chan.playback)
  /\ pc.main.at = "locked" => pc.main.op = "pause"

PlayStop ==
  /\ ~Sounds /\ ~Paused /\ ~Prepared /\ DaiLive
  /\ pc.main.at \in {"dma", "suspended", "stopping", "trigger", "locked", "draining", "state"}
  /\ pc.main.at = "dma" => InState("playback")
  /\ pc.main.at \in {"trigger", "draining", "locked", "state"} => Rests(chan.playback)
  /\ pc.main.at = "locked" => pc.main.op = "stop"

PlayWalks ==
  (upset = {} /\ Walks("playback")) =>
    /\ pc.main.cmd = "START" => PlayStart
    /\ pc.main.cmd = "RELEASE" => PlayRelease
    /\ pc.main.cmd = "PAUSE" => PlayPause
    /\ pc.main.cmd = "STOP" => PlayStop

PlayInv == PlayRests /\ PlayEos /\ PlayWalks

FlowInv == PortInv /\ PlayInv

LEMMA FlowInit == Init => FlowInv
<1>. SUFFICES ASSUME Init PROVE FlowInv OBVIOUS
<1>1. PortInv
  BY DEF Init, PortInv, Steady, UpStates, NewPort, Idle, Dirs, Streams
<1>2. Rests(chan.playback) /\ dai.playback = "INIT" /\ ~Walks("playback") /\ ~Prepared
  BY DEF Init, NewChannel, Rests, Walks, Idle, Prepared, Dirs, Streams
<1>3. ~Sounds /\ ~Paused BY DEF Init, Sounds, Paused, Streams
<1>4. PlayRests BY <1>2, <1>3 DEF PlayRests, InState, DaiLive
<1>5. PlayEos BY <1>2 DEF Init, PlayEos, Idle
<1>6. PlayWalks BY <1>2 DEF PlayWalks
<1>. QED BY <1>1, <1>4, <1>5, <1>6 DEF FlowInv, PlayInv

\* Steps that leave the playback streams and their DAI alone, and at most move
\* its channel on.
Apart ==
  /\ \A s \in Playback : host'[s] = host[s] /\ drv'[s] = drv[s]
  /\ mixer' = mixer /\ dai'.playback = dai.playback
  /\ ssp'.state.playback = ssp.state.playback

LEMMA PlayFrame ==
  ASSUME PlayInv, Apart, Keeps(chan.playback, chan'.playback),
         pc'.irq = pc.irq, Walks("playback")' <=> Walks("playback"),
         Walks("playback") => pc'.main = pc.main,
         upset \subseteq upset', "eos" \in upset' => "eos" \in upset
  PROVE  PlayInv'
<1>1. /\ Sounds' <=> Sounds
      /\ Paused' <=> Paused
      /\ Prepared' <=> Prepared
      /\ Up1' <=> Up1
      /\ DaiLive' <=> DaiLive
  BY DEF Apart, Sounds, Paused, Prepared, Up1, DaiLive
<1>2. InState("playback") => InState("playback")'
  BY DEF InState, Keeps, Apart
<1>3. Calm' => Calm BY DEF Calm
<1>4. upset' = {} => upset = {} OBVIOUS
<1>5. PlayRests' BY <1>1, <1>2, <1>3, <1>4 DEF PlayInv, PlayRests, Apart
<1>6. PlayEos' BY <1>1, <1>3 DEF PlayInv, PlayEos, Keeps, Apart
<1>7. PlayWalks'
  <2>. SUFFICES ASSUME upset' = {}, Walks("playback")' PROVE PlayWalks'
    BY DEF PlayWalks
  <2>0. upset = {} /\ Walks("playback") /\ pc'.main = pc.main BY <1>4
  <2>1. PlayStart => PlayStart' BY <1>1, <2>0 DEF PlayStart, Keeps, Apart
  <2>2. PlayRelease => PlayRelease' BY <1>1, <2>0 DEF PlayRelease, Keeps, Apart
  <2>3. PlayPause => PlayPause' BY <1>1, <2>0 DEF PlayPause, Keeps, Apart
  <2>4. PlayStop => PlayStop' BY <1>1, <1>2, <2>0 DEF PlayStop, Keeps, Apart
  <2>. QED BY <2>0, <2>1, <2>2, <2>3, <2>4 DEF PlayInv, PlayWalks
<1>. QED BY <1>5, <1>6, <1>7 DEF PlayInv

\* A port that nothing touched.
LEMMA PortFrame ==
  ASSUME PortInv, ssp' = ssp,
         \A s \in Streams : drv'[s] = "closed" \/ drv'[s] = drv[s] \/ ssp.state[Dir(s)] # "INIT",
         pc'.main.at = "locked" => pc'.main = pc.main
  PROVE  PortInv'
BY DEF PortInv, Dir

-----------------------------------------------------------------------------
(* Commands of the host *)

\* A new configuration finds no stream open, so nothing to play.
LEMMA FlowConfig ==
  ASSUME StreamInv, LockInv, FlowInv, dai_config
  PROVE  FlowInv'
<1>1. /\ Ready /\ Open = {} /\ UNCHANGED <<compVars, chan, job, pc, upset, fault>>
      /\ ssp' = ssp_set_config(ssp) /\ ssp \in Ports /\ chan.playback \in Channels
  BY DEF dai_config, StreamInv, TypeOK, Dirs
<1>2. \A s \in Streams : drv[s] = "closed" BY <1>1 DEF Open
<1>3. pc.main.at = "idle" /\ pc.irq.at = "idle" BY <1>1, ReadyFacts
<1>4. PortInv'
  <2>1. Steady(ssp') BY <1>1, SteadyOps DEF FlowInv, PortInv, Dirs
  <2>. QED BY <1>1, <1>2, <1>3, <2>1 DEF PortInv, compVars
<1>5. ~Sounds /\ ~Paused
  BY <1>2 DEF LockInv, MixInv, Sounds, Paused, Streams
<1>6. Calm => ~DaiLive
  BY <1>3, <1>5 DEF FlowInv, PlayInv, PlayRests, Walks
<1>7. PlayRests'
  BY <1>1, <1>3, <1>5, <1>6
     DEF FlowInv, PlayInv, PlayRests, Walks, Sounds, Paused, Prepared, DaiLive, Up1,
         InState, Calm, compVars
<1>8. PlayEos'
  BY <1>1, <1>3 DEF FlowInv, PlayInv, PlayEos, Walks, Calm, DaiLive, compVars
<1>9. PlayWalks' BY <1>1, <1>3 DEF PlayWalks, Walks
<1>. QED BY <1>4, <1>7, <1>8, <1>9 DEF FlowInv, PlayInv

\* Nothing of a command is under way.
LEMMA PlayReady ==
  ASSUME PlayInv, Ready, Calm
  PROVE  /\ pc.main.at = "idle" /\ pc.irq.at = "idle"
         /\ InState("playback") /\ (DaiLive => Up1)
         /\ ~Sounds /\ ~Paused => ~DaiLive
         /\ upset = {} =>
              /\ Sounds => dai.playback = "RUNNING"
              /\ ~Sounds /\ Paused => dai.playback = "PAUSED" /\ mixer = "PAUSED"
              /\ ~Sounds /\ ~Paused /\ Prepared => dai.playback = "PREPARE"
         /\ "eos" \in upset => dai.playback \in {"INIT", "SETUP"}
BY ReadyFacts DEF PlayInv, PlayRests, PlayEos, Walks

\* When nothing of a command is under way afterwards either.
LEMMA ReadyPlay ==
  ASSUME Ready, pc' = pc,
         Calm' =>
           /\ InState("playback")' /\ (DaiLive' => Up1')
           /\ ~Sounds' /\ ~Paused' => ~DaiLive'
           /\ upset' = {} =>
                /\ Sounds' => dai'.playback = "RUNNING"
                /\ ~Sounds' /\ Paused' => dai'.playback = "PAUSED" /\ mixer' = "PAUSED"
                /\ ~Sounds' /\ ~Paused' /\ Prepared' => dai'.playback = "PREPARE"
           /\ "eos" \in upset' => dai'.playback \in {"INIT", "SETUP"}
  PROVE  PlayInv'
<1>1. pc'.main.at = "idle" /\ pc'.irq.at = "idle" BY ReadyFacts
<1>2. PlayRests' /\ PlayEos' /\ PlayWalks'
  BY <1>1 DEF PlayRests, PlayEos, PlayWalks, Walks
<1>. QED BY <1>2 DEF PlayInv

\* pipeline_reset() of a stream that does not run: the DAI is reset with the
\* last stream, and not under a stream that plays.
LEMMA FlowReset ==
  ASSUME StreamInv, LockInv, FlowInv, Ready, NEW s \in Playback, ResetStream(s),
         host[s] \notin {"RUNNING", "PAUSED"},
         UNCHANGED <<chan, ssp, job, pc, upset, fault>>
  PROVE  PlayInv'
<1>. DEFINE stays == \E t \in Playback : Rank[host'[t]] > Rank["SETUP"]
<1>1. /\ host' = [host EXCEPT ![s] = "INIT"] /\ drv' = [drv EXCEPT ![s] = "closed"]
      /\ host \in [Streams -> States] /\ s \in Streams
      /\ drv \in [Streams -> {"closed", "open", "ready"}]
      /\ dai \in [Dirs -> States] /\ "playback" \in Dirs
  BY DEF ResetStream, StreamInv, TypeOK, Streams, Dirs
<1>2. IF stays THEN UNCHANGED <<mixer, dai>>
      ELSE mixer' = "INIT" /\ dai'.playback = "INIT"
  BY <1>1 DEF ResetStream, Dir
<1>3. (Sounds' <=> Sounds) /\ (Paused' <=> Paused) /\ (Prepared' => Prepared)
  BY <1>1 DEF Sounds, Paused, Prepared, Streams
<1>4. ~stays => ~Sounds' /\ ~Paused' /\ ~Prepared'
  BY DEF Sounds, Paused, Prepared, Rank
<1>. HIDE DEF stays
<1>. SUFFICES ASSUME Calm
     PROVE  /\ InState("playback")' /\ (DaiLive' => Up1')
            /\ ~Sounds' /\ ~Paused' => ~DaiLive'
            /\ upset' = {} =>
                 /\ Sounds' => dai'.playback = "RUNNING"
                 /\ ~Sounds' /\ Paused' => dai'.playback = "PAUSED" /\ mixer' = "PAUSED"
                 /\ ~Sounds' /\ ~Paused' /\ Prepared' => dai'.playback = "PREPARE"
            /\ "eos" \in upset' => dai'.playback \in {"INIT", "SETUP"}
  BY ReadyPlay DEF Calm
<1>5. /\ InState("playback") /\ (DaiLive => Up1)
      /\ ~Sounds /\ ~Paused => ~DaiLive
      /\ upset = {} =>
           /\ Sounds => dai.playback = "RUNNING"
           /\ ~Sounds /\ Paused => dai.playback = "PAUSED" /\ mixer = "PAUSED"
           /\ ~Sounds /\ ~Paused /\ Prepared => dai.playback = "PREPARE"
      /\ "eos" \in upset => dai.playback \in {"INIT", "SETUP"}
  BY PlayReady DEF FlowInv
<1>6. CASE stays
  BY <1>2, <1>3, <1>5, <1>6 DEF InState, DaiLive, Up1
<1>7. CASE ~stays
  <2>1. Rests(chan.playback)
    <3>1. ~DaiLive BY <1>3, <1>4, <1>5, <1>7
    <3>2. dai.playback \in {"INIT", "SETUP", "PREPARE"}
      BY <1>1, <3>1 DEF DaiLive, States
    <3>. QED BY <1>5, <3>2 DEF InState
  <2>. QED BY <1>2, <1>4, <1>7, <2>1 DEF InState, DaiLive
<1>. QED BY <1>6, <1>7

LEMMA FlowParams ==
  ASSUME StreamInv, LockInv, FlowInv, NEW s \in Streams, pcm_params(s) \/ pcm_free(s)
  PROVE  FlowInv'
<1>1. Ready /\ UNCHANGED <<chan, ssp, job, pc, upset, fault>>
  BY DEF pcm_params, pcm_free
<1>2. host[s] \notin {"RUNNING", "PAUSED"}
  <2>1. CASE pcm_params(s)
    <3>1. drv[s] = "closed" BY <2>1 DEF pcm_params, Open
    <3>. QED BY <3>1 DEF LockInv, MixInv
  <2>2. CASE pcm_free(s) BY <2>2 DEF pcm_free
  <2>. QED BY <2>1, <2>2
<1>3. /\ host \in [Streams -> States]
      /\ drv \in [Streams -> {"closed", "open", "ready"}]
      /\ dai \in [Dirs -> States] /\ chan.playback \in Channels
  BY DEF StreamInv, TypeOK, Dirs
<1>4. PortInv'
  <2>1. \A t \in Streams : drv'[t] = "closed" \/ drv'[t] = drv[t]
                           \/ ssp.state[Dir(t)] # "INIT"
    <3>1. CASE ResetStream(s) BY <1>3, <3>1 DEF ResetStream
    <3>2. CASE ~ResetStream(s)
      BY <1>3, <3>2 DEF pcm_params, pcm_free
    <3>. QED BY <3>1, <3>2
  <2>. QED BY <1>1, <2>1, PortFrame DEF FlowInv
<1>5. Keeps(chan.playback, chan'.playback) BY <1>1, <1>3, KeepOps
<1>6. PlayInv'
  <2>1. CASE ResetStream(s) /\ s \in Playback
    BY <1>1, <1>2, <2>1, FlowReset
  <2>2. CASE ResetStream(s) /\ s \notin Playback
    <3>1. Apart
      BY <1>1, <1>3, <2>2 DEF Apart, ResetStream, Dir, Streams, Dirs
    <3>. QED BY <1>1, <1>5, <3>1, PlayFrame DEF FlowInv, Walks
  <2>3. CASE ~ResetStream(s)
    <3>1. UNCHANGED <<host, mixer, dai>> /\ drv' = [drv EXCEPT ![s] = "open"]
      BY <2>3 DEF pcm_params, pcm_free
    <3>2. (Sounds' <=> Sounds) /\ (Paused' <=> Paused) /\ (Prepared' => Prepared)
      BY <1>3, <3>1 DEF Sounds, Paused, Prepared, Streams
    <3>. QED
      BY <1>1, <3>1, <3>2, PlayReady, ReadyPlay DEF FlowInv, InState, DaiLive, Up1, Calm
  <2>. QED BY <2>1, <2>2, <2>3
<1>. QED BY <1>4, <1>6 DEF FlowInv

\* pipeline_prepare(): the first stream after all were stopped prepares the DAI
\* again; another leaves it alone.
LEMMA FlowPrepare ==
  ASSUME StreamInv, LockInv, FlowInv, NEW s \in Streams, prepare(s)
  PROVE  FlowInv'
<1>. DEFINE h == [host EXCEPT ![s] = "PREPARE"]
            d == Dir(s)
<1>1. /\ Ready /\ s \in Open /\ host[s] \notin {"RUNNING", "PAUSED"}
      /\ UNCHANGED <<elems, ssp, job, pc, fault>> /\ host' = h
  BY DEF prepare
<1>2. /\ host \in [Streams -> States] /\ d \in Dirs /\ chan \in [Dirs -> Channels]
      /\ drv \in [Streams -> {"closed", "open", "ready"}]
      /\ dai \in [Dirs -> States] /\ chan.playback \in Channels
  BY DEF StreamInv, TypeOK, Dirs, Dir
<1>3. PortInv'
  <2>1. ssp.state[Dir(s)] # "INIT" BY <1>1 DEF FlowInv, PortInv, Open
  <2>2. \A t \in Streams : drv'[t] = drv[t] \/ t = s BY <1>2 DEF prepare
  <2>. QED BY <1>1, <2>1, <2>2, PortFrame DEF FlowInv
<1>4. CASE s \notin Playback
  <2>1. d = "capture" /\ upset' = upset /\ mixer' = mixer BY <1>4 DEF prepare, Dir
  <2>2. dai'.playback = dai.playback /\ chan'.playback = chan.playback
    BY <1>2, <2>1 DEF prepare, Dirs
  <2>3. \A t \in Playback : host'[t] = host[t] /\ drv'[t] = drv[t]
    BY <1>1, <1>2, <1>4 DEF prepare, Streams
  <2>4. Apart BY <1>1, <2>1, <2>2, <2>3 DEF Apart
  <2>5. Keeps(chan.playback, chan'.playback) BY <1>2, <2>2, KeepOps
  <2>6. PlayInv' BY <1>1, <2>1, <2>4, <2>5, PlayFrame DEF FlowInv, Walks
  <2>. QED BY <1>3, <2>6 DEF FlowInv
<1>5. CASE s \in Playback
  <2>. DEFINE ends == KeepsTail(h)
              ok == ends \/ elems[d]
  <2>1. /\ d = "playback"
        /\ upset' = (upset \ (IF ~ends /\ ok THEN {"eos"} ELSE {}))
                      \cup (IF mixer = "PAUSED" THEN {"mixed"} ELSE {})
        /\ drv' = [drv EXCEPT ![s] = IF ok THEN "ready" ELSE "open"]
        /\ IF ends \/ ~ok THEN dai' = dai /\ chan' = chan
           ELSE /\ chan' = [chan EXCEPT !["playback"] = dw_dma_set_config(@)]
                /\ dai' = [dai EXCEPT !["playback"] = "PREPARE"]
    BY <1>5 DEF prepare, Dir
  <2>2. /\ Sounds' <=> Sounds
        /\ Paused' <=> Paused
        /\ ends <=> Sounds \/ Paused
    BY <1>1, <1>2 DEF Sounds, Paused, KeepsTail, Streams
  <2>3. ~ok => (Prepared' => Prepared)
    BY <1>1, <1>2, <2>1 DEF Prepared, Streams
  <2>. HIDE DEF ends, h, d
  <2>. SUFFICES ASSUME Calm'
       PROVE  /\ InState("playback")' /\ (DaiLive' => Up1')
              /\ ~Sounds' /\ ~Paused' => ~DaiLive'
              /\ upset' = {} =>
                   /\ Sounds' => dai'.playback = "RUNNING"
                   /\ ~Sounds' /\ Paused' => dai'.playback = "PAUSED" /\ mixer' = "PAUSED"
                   /\ ~Sounds' /\ ~Paused' /\ Prepared' => dai'.playback = "PREPARE"
              /\ "eos" \in upset' => dai'.playback \in {"INIT", "SETUP"}
    BY <1>1, <1>3, ReadyPlay DEF FlowInv
  <2>4. Calm /\ mixer # "PAUSED" BY <2>1 DEF Calm
  <2>5. /\ InState("playback") /\ (DaiLive => Up1)
        /\ ~Sounds /\ ~Paused => ~DaiLive
        /\ upset = {} =>
             /\ Sounds => dai.playback = "RUNNING"
             /\ ~Sounds /\ Paused => dai.playback = "PAUSED" /\ mixer = "PAUSED"
             /\ ~Sounds /\ ~Paused /\ Prepared => dai.playback = "PREPARE"
        /\ "eos" \in upset => dai.playback \in {"INIT", "SETUP"}
    BY <1>1, <2>4, PlayReady DEF FlowInv
  <2>6. CASE ends
    <3>1. dai' = dai /\ chan' = chan /\ upset' = upset BY <2>1, <2>4, <2>6
    <3>. QED BY <1>1, <2>2, <2>4, <2>5, <2>6, <3>1 DEF InState, DaiLive, Up1
  <2>7. CASE ~ends /\ ~ok
    <3>1. dai' = dai /\ chan' = chan /\ upset' = upset BY <2>1, <2>4, <2>7
    <3>. QED BY <1>1, <2>2, <2>3, <2>4, <2>5, <2>7, <3>1 DEF InState, DaiLive, Up1
  <2>8. CASE ~ends /\ ok
    <3>1. /\ chan'.playback = dw_dma_set_config(chan.playback)
          /\ dai'.playback = "PREPARE" /\ "eos" \notin upset'
      BY <1>2, <2>1, <2>8, <2>4 DEF Dirs
    <3>2. Rests(chan.playback)
      <4>1. dai.playback \in {"INIT", "SETUP", "PREPARE"}
        BY <1>2, <2>2, <2>5, <2>8 DEF DaiLive, States, Dirs
      <4>. QED BY <2>5, <4>1 DEF InState
    <3>3. Rests(chan'.playback) /\ chan'.playback.lli BY <1>2, <3>1, <3>2, RestOps
    <3>. QED BY <2>2, <2>8, <3>1, <3>3 DEF InState, DaiLive
  <2>. QED BY <2>6, <2>7, <2>8
<1>. QED BY <1>3, <1>4, <1>5 DEF FlowInv

\* What a trigger makes of the sources.
LEMMA SourceFacts ==
  ASSUME StreamInv, LockInv, NEW s \in Playback, NEW cmd \in Commands,
         trigger_playback(s, cmd)
  PROVE  /\ Sounds' <=> mixer' = "RUNNING"
         /\ ~Sounds' => (Paused' <=> mixer' = "PAUSED")
         /\ Prepared' => Prepared
         /\ drv[s] # "closed"
         /\ cmd = "START" => Sounds' /\ Prepared
         /\ cmd = "RELEASE" => Sounds' /\ Paused
         /\ cmd = "PAUSE" => Sounds /\ Paused'
         /\ cmd = "STOP" => (Sounds \/ Paused) /\ (Sounds' => Sounds)
<1>. DEFINE h == [host EXCEPT ![s] = HostState(@, cmd)]
<1>1. /\ host' = h /\ mixer' = Highest(h) /\ cmd \in Allowed(s)
      /\ drv' = IF cmd = "STOP" THEN [drv EXCEPT ![s] = "open"] ELSE drv
  BY DEF trigger_playback
<1>2. /\ host \in [Streams -> States] /\ s \in Streams
      /\ drv \in [Streams -> {"closed", "open", "ready"}]
      /\ Playback \subseteq Streams /\ h \in [Streams -> States]
  BY HostTypes DEF StreamInv, TypeOK, Streams
<1>3. /\ h[s] = HostState(host[s], cmd)
      /\ \A t \in Playback \ {s} : h[t] = host[t] /\ drv'[t] = drv[t]
  BY <1>1, <1>2
<1>4. /\ cmd = "START" => host[s] = "PREPARE" /\ drv[s] = "ready" /\ h[s] = "RUNNING"
      /\ cmd = "RELEASE" => host[s] = "PAUSED" /\ h[s] = "RUNNING"
      /\ cmd = "PAUSE" => host[s] = "RUNNING" /\ h[s] = "PAUSED"
      /\ cmd = "STOP" => host[s] \in {"RUNNING", "PAUSED"} /\ h[s] = "SETUP"
  BY <1>1, <1>3 DEF Allowed, HostState
<1>. HIDE DEF h
<1>5. /\ Sounds' <=> mixer' = "RUNNING"
      /\ ~Sounds' => (Paused' <=> mixer' = "PAUSED")
  <2>1. /\ \E t \in Playback : h[t] = Highest(h)
        /\ \A u \in Playback : Rank[h[u]] <= Rank[Highest(h)]
        /\ Highest(h) \in States /\ \A u \in Playback : h[u] \in States
    BY <1>2, HighestFacts
  <2>. QED BY <1>1, <2>1 DEF Sounds, Paused, States, Rank
<1>6. h[s] # "PREPARE" BY <1>4 DEF Commands
<1>7. Prepared' => Prepared BY <1>1, <1>3, <1>6 DEF Prepared
<1>8. drv[s] # "closed" BY <1>2, <1>4 DEF LockInv, MixInv, Commands
<1>. QED BY <1>1, <1>3, <1>4, <1>5, <1>7, <1>8 DEF Sounds, Paused, Prepared

\* mixer_cmd() ends the walk where the DAI is already in the state that the
\* sources ask for, and lets it go on where it is not.
LEMMA FlowPlayback ==
  ASSUME StreamInv, LockInv, FlowInv, NEW s \in Playback, NEW cmd \in Commands,
         trigger_playback(s, cmd)
  PROVE  FlowInv'
<1>. DEFINE h == [host EXCEPT ![s] = HostState(@, cmd)]
<1>1. /\ Ready /\ UNCHANGED <<dai, elems, chan, ssp, job, fault>>
      /\ mixer' = Highest(h) /\ host' = h
      /\ IF mixer = mixer' THEN pc' = pc ELSE pc' = AtDai(cmd, "playback")
      /\ drv' = IF cmd = "STOP" THEN [drv EXCEPT ![s] = "open"] ELSE drv
      /\ upset' = upset
           \cup (IF cmd = "STOP" /\ mixer # mixer' /\ KeepsStream(h)
                 THEN {"mixed"} ELSE {})
           \cup (IF cmd = "START" /\ mixer = "PAUSED" THEN {"mixed"} ELSE {})
      /\ s \in Streams /\ Dir(s) = "playback"
      /\ drv \in [Streams -> {"closed", "open", "ready"}] /\ upset \subseteq Events
  BY DEF trigger_playback, Streams, Dir, StreamInv, TypeOK
<1>2. /\ Sounds' <=> mixer' = "RUNNING"
      /\ ~Sounds' => (Paused' <=> mixer' = "PAUSED")
      /\ Prepared' => Prepared
      /\ drv[s] # "closed"
      /\ cmd = "START" => Sounds' /\ Prepared
      /\ cmd = "RELEASE" => Sounds' /\ Paused
      /\ cmd = "PAUSE" => Sounds /\ Paused'
      /\ cmd = "STOP" => (Sounds \/ Paused) /\ (Sounds' => Sounds)
  BY SourceFacts
<1>3. Sounds <=> mixer = "RUNNING" BY DEF LockInv, MixInv
<1>4. KeepsStream(h) <=> Paused' \/ \E t \in Playback : host'[t] = "PREPARE"
  BY <1>1 DEF KeepsStream, Paused
<1>5. /\ pc'.irq = pc.irq /\ pc.irq.at = "idle" /\ pc'.main.at \in {"idle", "dma"}
      /\ mixer # mixer' =>
           pc'.main.at = "dma" /\ pc'.main.cmd = cmd /\ pc'.main.dir = "playback"
  BY <1>1, AtDaiFacts, ReadyFacts DEF StreamInv, Dirs
<1>6. ssp.state.playback # "INIT" BY <1>1, <1>2 DEF FlowInv, PortInv
<1>7. PortInv'
  <2>1. \A t \in Streams : drv'[t] = drv[t] \/ ssp.state[Dir(t)] # "INIT"
    BY <1>1, <1>6
  <2>. QED BY <1>1, <1>5, <2>1, PortFrame DEF FlowInv
<1>. HIDE DEF h
<1>8. ASSUME Calm'
      PROVE  /\ Calm /\ (cmd = "START" => mixer # "PAUSED")
             /\ cmd = "STOP" /\ mixer # mixer' => ~KeepsStream(h)
             /\ upset = {} \/ "eos" \in upset
             /\ InState("playback") /\ (DaiLive => Up1)
             /\ ~Sounds /\ ~Paused => ~DaiLive
             /\ upset = {} =>
                  /\ Sounds => dai.playback = "RUNNING"
                  /\ ~Sounds /\ Paused => dai.playback = "PAUSED" /\ mixer = "PAUSED"
                  /\ ~Sounds /\ ~Paused /\ Prepared => dai.playback = "PREPARE"
             /\ "eos" \in upset => dai.playback \in {"INIT", "SETUP"}
  <2>1. /\ Calm /\ (cmd = "START" => mixer # "PAUSED")
        /\ cmd = "STOP" /\ mixer # mixer' => ~KeepsStream(h)
    BY <1>1, <1>8 DEF Calm
  <2>2. upset = {} \/ "eos" \in upset BY <1>1, <2>1 DEF Calm, Events
  <2>. QED BY <1>1, <2>1, <2>2, PlayReady DEF FlowInv
<1>9. upset \subseteq upset' /\ ("eos" \in upset' => "eos" \in upset) BY <1>1
<1>10. CASE mixer = mixer'
  <2>. SUFFICES ASSUME Calm'
       PROVE  /\ InState("playback")' /\ (DaiLive' => Up1')
              /\ ~Sounds' /\ ~Paused' => ~DaiLive'
              /\ upset' = {} =>
                   /\ Sounds' => dai'.playback = "RUNNING"
                   /\ ~Sounds' /\ Paused' => dai'.playback = "PAUSED" /\ mixer' = "PAUSED"
                   /\ ~Sounds' /\ ~Paused' /\ Prepared' => dai'.playback = "PREPARE"
              /\ "eos" \in upset' => dai'.playback \in {"INIT", "SETUP"}
    BY <1>1, <1>7, <1>10, ReadyPlay DEF FlowInv
  <2>1. InState("playback")' /\ (DaiLive' <=> DaiLive) /\ (Up1' <=> Up1)
    BY <1>1, <1>8 DEF InState, DaiLive, Up1
  <2>2. upset' = {} => upset = {} BY <1>9
  <2>3. Sounds' <=> Sounds BY <1>2, <1>3, <1>10
  <2>4. upset = {} => (Paused' <=> Paused) \/ Sounds
    BY <1>2, <1>3, <1>8, <1>10, <2>3 DEF Commands
  <2>5. "eos" \in upset => ~DaiLive BY <1>8 DEF DaiLive
  <2>. QED BY <1>1, <1>2, <1>8, <1>9, <1>10, <2>1, <2>2, <2>3, <2>4, <2>5
<1>11. CASE mixer # mixer'
  <2>1. Walks("playback")' BY <1>5, <1>11 DEF Walks
  <2>2. PlayRests' BY <2>1 DEF PlayRests
  <2>3. PlayEos' BY <1>1, <1>5, <1>8, <1>9, <1>11 DEF PlayEos, InState
  <2>4. PlayWalks'
    <3>. SUFFICES ASSUME upset' = {}
         PROVE  /\ cmd = "START" => PlayStart'
                /\ cmd = "RELEASE" => PlayRelease'
                /\ cmd = "PAUSE" => PlayPause'
                /\ cmd = "STOP" => PlayStop'
      BY <1>5, <1>11 DEF PlayWalks
    <3>1. Calm' /\ upset = {} BY <1>9 DEF Calm
    <3>2. cmd = "START" => PlayStart'
      BY <1>1, <1>2, <1>3, <1>5, <1>6, <1>8, <1>11, <3>1 DEF PlayStart, InState
    <3>3. cmd = "RELEASE" => PlayRelease'
      BY <1>1, <1>2, <1>3, <1>5, <1>8, <1>11, <3>1
         DEF PlayRelease, InState, DaiLive, Up1
    <3>4. cmd = "PAUSE" => PlayPause'
      BY <1>1, <1>2, <1>3, <1>5, <1>8, <1>11, <3>1
         DEF PlayPause, InState, DaiLive, Up1
    <3>5. cmd = "STOP" => PlayStop'
      <4>. SUFFICES ASSUME cmd = "STOP" PROVE PlayStop' OBVIOUS
      <4>1. ~Paused' /\ ~Prepared' BY <1>4, <1>8, <1>11, <3>1 DEF Prepared
      <4>2. ~Sounds' BY <1>2, <1>3, <1>11
      <4>3. DaiLive BY <1>2, <1>8, <3>1 DEF DaiLive
      <4>. QED
        BY <1>1, <1>5, <1>8, <1>11, <3>1, <4>1, <4>2, <4>3
           DEF PlayStop, InState, DaiLive
    <3>. QED BY <3>2, <3>3, <3>4, <3>5
  <2>. QED BY <1>7, <2>2, <2>3, <2>4 DEF FlowInv, PlayInv
<1>. QED BY <1>10, <1>11

-----------------------------------------------------------------------------
(* The port *)

\* The steps of dai_cmd() but ssp_trigger(): where they go.
LEMMA StepGoes ==
  ASSUME StreamInv, NEW x \in Contexts,
         dai_cmd(x) \/ stop_schedule(x) \/ stop_wait(x) \/ ssp_wait(x) \/ dai_state(x)
  PROVE  \E place \in Places \ {"locked", "draining"} : Goes(x, place)
<1>1. {"host", "idle", "state", "trigger", "suspended", "stopping"}
        \subseteq Places \ {"locked", "draining"}
  BY DEF Places
<1>2. \E place \in Places \ {"locked", "draining"} : GoTo(x, place)
  <2>1. CASE dai_cmd(x) BY <1>1, <2>1 DEF dai_cmd, After
  <2>2. CASE stop_schedule(x) BY <1>1, <2>2 DEF stop_schedule
  <2>3. CASE stop_wait(x) BY <1>1, <2>3 DEF stop_wait
  <2>4. CASE ssp_wait(x) BY <1>1, <2>4 DEF ssp_wait
  <2>5. CASE dai_state(x) BY <1>1, <2>5 DEF dai_state, After
  <2>. QED BY <2>1, <2>2, <2>3, <2>4, <2>5
<1>. QED BY <1>2, GoToGoes DEF StreamInv

\* A step of the port that keeps it steady takes no side back to its first state.
LEMMA PortMoves ==
  ASSUME StreamInv, PortInv, Steady(ssp'), drv' = drv, NEW d \in Dirs,
         NEW st \in PortStates \ {"INIT"},
         ssp'.state = [ssp.state EXCEPT ![d] = st],
         (pc'.main.at = "locked" /\ pc'.main.op = "pause") =>
           pc'.main.dir = "playback" /\ ssp'.state.playback \in UpStates
  PROVE  PortInv'
<1>1. ssp.state \in [Dirs -> PortStates] BY DEF StreamInv, TypeOK, Ports
<1>2. \A s \in Streams : Dir(s) \in Dirs BY DEF Dir, Dirs
<1>3. \A e \in Dirs : ssp'.state[e] = "INIT" => ssp.state[e] = "INIT"
  BY <1>1
<1>4. \A s \in Streams : ssp'.state[Dir(s)] = "INIT" => drv[s] = "closed"
  BY <1>2, <1>3 DEF PortInv
<1>5. \A s \in Streams : Dir(s)' = Dir(s) BY DEF Dir
<1>. QED BY <1>4, <1>5 DEF PortInv

\* What ssp_trigger() chooses.
LEMMA OpMeans ==
  ASSUME NEW p \in Ports, NEW d \in Dirs, NEW cmd \in Commands
  PROVE  /\ SspOp(p, cmd, d) = "wait" => p.state[d] = "RUNNING"
         /\ SspOp(p, cmd, d) = "pause" => d = "playback" /\ p.state[d] = "RUNNING"
BY DEF SspOp, Commands, Dirs

\* The state in which the function it calls leaves a side.
OpState(op) ==
  CASE op = "start" -> "RUNNING" [] op = "pause" -> "PAUSED" [] op = "stop" -> "IDLE"

LEMMA ApplyOps ==
  ASSUME NEW p \in Ports, NEW d \in Dirs, NEW op \in {"start", "pause", "stop"}
  PROVE  /\ SspApply(p, op, d).state = [p.state EXCEPT ![d] = OpState(op)]
         /\ OpState(op) \in PortStates \ {"INIT"}
         /\ Steady(p) /\ (op = "pause" => d = "playback" /\ p.state.playback \in UpStates)
              => Steady(SspApply(p, op, d))
<1>1. OpState(op) \in PortStates \ {"INIT"} BY DEF OpState, PortStates
<1>2. CASE op = "start"
  <2>1. SspApply(p, op, d) = ssp_start(p, d) BY <1>2 DEF SspApply
  <2>2. SspApply(p, op, d).state = [p.state EXCEPT ![d] = OpState(op)]
    BY <1>2, <2>1 DEF OpState, ssp_start, Ports
  <2>3. Steady(p) /\ (op = "pause" => d = "playback" /\ p.state.playback \in UpStates)
          => Steady(SspApply(p, op, d))
    BY <1>2, <2>1, SteadyOps
  <2>. QED BY <1>1, <2>2, <2>3
<1>3. CASE op = "pause"
  <2>1. SspApply(p, op, d) = ssp_pause(p, d) BY <1>3 DEF SspApply
  <2>2. SspApply(p, op, d).state = [p.state EXCEPT ![d] = OpState(op)]
    BY <1>3, <2>1 DEF OpState, ssp_pause, Ports
  <2>3. Steady(p) /\ (op = "pause" => d = "playback" /\ p.state.playback \in UpStates)
          => Steady(SspApply(p, op, d))
    BY <1>3, <2>1, SteadyOps
  <2>. QED BY <1>1, <2>2, <2>3
<1>4. CASE op = "stop"
  <2>1. SspApply(p, op, d) = ssp_stop(p, d) BY <1>4 DEF SspApply
  <2>2. SspApply(p, op, d).state = [p.state EXCEPT ![d] = OpState(op)]
    BY <1>4, <2>1 DEF OpState, ssp_stop, Ports
  <2>3. Steady(p) /\ (op = "pause" => d = "playback" /\ p.state.playback \in UpStates)
          => Steady(SspApply(p, op, d))
    BY <1>4, <2>1, SteadyOps
  <2>. QED BY <1>1, <2>2, <2>3
<1>. QED BY <1>2, <1>3, <1>4

LEMMA PortStep ==
  ASSUME StreamInv, LockInv, FlowInv, NEW x \in Contexts, Step(x)
  PROVE  PortInv'
<1>. DEFINE d == pc[x].dir
            op == SspOp(ssp, pc[x].cmd, d)
<1>1. /\ PortInv /\ Steady(ssp) /\ ssp \in Ports /\ d \in Dirs /\ pc \in [Contexts -> Pc]
      /\ pc[x].cmd \in Commands /\ Up(ssp) /\ ssp.state \in [Dirs -> PortStates]
  BY DEF FlowInv, PortInv, StreamInv, TypeOK, Contexts, Pc, PortUp, Up, Ports
<1>2. drv' = drv
  BY DEF Step, dai_cmd, stop_schedule, stop_wait, ssp_trigger, ssp_wait, dai_state, compVars
<1>3. CASE dai_cmd(x) \/ stop_schedule(x) \/ stop_wait(x) \/ dai_state(x)
  <2>1. ssp' = ssp BY <1>3 DEF dai_cmd, stop_schedule, stop_wait, dai_state
  <2>2. pc'.main.at = "locked" => pc'.main = pc.main
    BY <1>3, StepGoes DEF Goes, Contexts
  <2>. QED BY <1>1, <1>2, <2>1, <2>2, PortFrame
<1>4. CASE ssp_wait(x)
  <2>1. ssp' = [ssp EXCEPT !.complete = FALSE] BY <1>4 DEF ssp_wait
  <2>2. Steady(ssp') /\ ssp'.state = ssp.state BY <1>1, <2>1, SteadyOps, StateOps
  <2>3. pc'.main.at = "locked" => pc'.main = pc.main
    BY <1>4, StepGoes DEF Goes, Contexts
  <2>4. \A s \in Streams : Dir(s)' = Dir(s) BY DEF Dir
  <2>. QED BY <1>1, <1>2, <2>2, <2>3, <2>4 DEF PortInv
<1>5. CASE ssp_trigger(x)
  <2>1. op \in {"none", "wait", "start", "pause", "stop"} BY <1>1, OpTypes
  <2>2. /\ op = "wait" => ssp.state[d] = "RUNNING"
        /\ op = "pause" => d = "playback" /\ ssp.state.playback = "RUNNING"
    BY <1>1, OpMeans
  <2>3. \/ op = "none" /\ ssp' = ssp /\ \E place \in {"state", "release"} : GoTo(x, place)
        \/ op = "wait" /\ ssp' = SspWait(ssp, d) /\ GoTo(x, "draining")
        \/ /\ op \in {"start", "pause", "stop"} /\ x = "main" /\ ssp' = ssp
           /\ pc' = [pc EXCEPT !.main.at = "locked", !.main.op = op]
        \/ /\ op \in {"start", "pause", "stop"} /\ x = "irq" /\ ~Locked
           /\ ssp' = SspApply(ssp, op, d) /\ GoTo(x, "state")
        \/ ssp' = ssp /\ pc' = pc
    BY <1>5, <2>1 DEF ssp_trigger, Triggered
  <2>4. {"state", "release", "draining", "locked"} \subseteq Places BY DEF Places
  <2>5. x = "main" => d = pc.main.dir OBVIOUS
  <2>. HIDE DEF d, op
  <2>6. ASSUME NEW place \in {"state", "release", "draining"}, GoTo(x, place)
        PROVE  /\ pc'.main.at = "locked" => pc'.main = pc.main
               /\ x = "irq" => pc'.main = pc.main
    BY <2>4, <2>6, GoToGoes DEF Goes, Contexts, StreamInv
  <2>7. CASE op = "none" /\ ssp' = ssp /\ \E place \in {"state", "release"} : GoTo(x, place)
    BY <1>1, <1>2, <2>6, <2>7, PortFrame
  <2>8. CASE op = "wait" /\ ssp' = SspWait(ssp, d) /\ GoTo(x, "draining")
    <3>1. Steady(ssp') BY <1>1, <2>2, <2>8, SteadyOps
    <3>2. PICK st \in PortStates \ {"INIT"} :
            /\ ssp'.state = [ssp.state EXCEPT ![d] = st]
            /\ d = "playback" => st = "DRAINING"
      <4>1. {"PAUSING", "DRAINING"} \subseteq PortStates \ {"INIT"} BY DEF PortStates
      <4>2. ssp'.state = [ssp.state EXCEPT ![d] = IF d = "capture" THEN "PAUSING"
                                                  ELSE "DRAINING"]
        BY <1>1, <2>8, StateOps
      <4>. QED BY <4>1, <4>2
    <3>3. ssp.state.playback \in UpStates => ssp'.state.playback \in UpStates
      BY <1>1, <3>2 DEF UpStates, Dirs
    <3>. QED BY <1>1, <1>2, <2>6, <2>8, <3>1, <3>2, <3>3, PortMoves DEF PortInv
  <2>9. CASE /\ op \in {"start", "pause", "stop"} /\ x = "main" /\ ssp' = ssp
             /\ pc' = [pc EXCEPT !.main.at = "locked", !.main.op = op]
    <3>1. pc'.main.dir = d /\ pc'.main.op = op
      <4>. DEFINE to == [[pc.main EXCEPT !.at = "locked"] EXCEPT !.op = op]
      <4>1. to.op = op /\ to.dir = pc.main.dir BY <1>1 DEF Contexts, Pc
      <4>2. pc' = [pc EXCEPT !["main"] = to] BY <1>1, <2>9 DEF Contexts
      <4>. HIDE DEF to
      <4>. QED BY <1>1, <2>5, <2>9, <4>1, <4>2 DEF Contexts
    <3>2. \A s \in Streams : Dir(s)' = Dir(s) BY DEF Dir
    <3>3. \A s \in Streams : ssp'.state[Dir(s)'] = "INIT" => drv'[s] = "closed"
      BY <1>1, <1>2, <2>9, <3>2 DEF PortInv
    <3>4. Steady(ssp') BY <1>1, <2>9
    <3>. QED BY <2>2, <2>9, <3>1, <3>3, <3>4 DEF PortInv, UpStates
  <2>10. CASE /\ op \in {"start", "pause", "stop"} /\ x = "irq" /\ ~Locked
              /\ ssp' = SspApply(ssp, op, d) /\ GoTo(x, "state")
    <3>1. pc'.main.at # "locked" BY <2>6, <2>10 DEF Locked
    <3>2. Steady(ssp') BY <1>1, <2>2, <2>10, ApplyOps DEF UpStates
    <3>3. /\ ssp'.state = [ssp.state EXCEPT ![d] = OpState(op)]
          /\ OpState(op) \in PortStates \ {"INIT"}
      BY <1>1, <2>10, ApplyOps
    <3>. QED BY <1>1, <1>2, <3>1, <3>2, <3>3, PortMoves
  <2>11. CASE ssp' = ssp /\ pc' = pc BY <1>1, <1>2, <2>11, PortFrame
  <2>. QED BY <2>3, <2>7, <2>8, <2>9, <2>10, <2>11
<1>. QED BY <1>3, <1>4, <1>5 DEF Step

\* The functions of ssp.c in the main loop.
LEMMA PortUnlock ==
  ASSUME StreamInv, LockInv, FlowInv, ssp_unlock
  PROVE  PortInv'
<1>. DEFINE d == pc.main.dir
            op == pc.main.op
<1>1. /\ PortInv /\ Steady(ssp) /\ ssp \in Ports /\ d \in Dirs
      /\ op \in {"start", "pause", "stop"} /\ pc.main.at = "locked"
      /\ ssp' = SspApply(ssp, op, d) /\ drv' = drv
      /\ pc' = [pc EXCEPT !.main.at = Triggered("main"), !.main.op = "none"]
      /\ pc \in [Contexts -> Pc]
  BY DEF ssp_unlock, Locked, FlowInv, PortInv, StreamInv, TypeOK, Contexts, Pc, OpInv,
         compVars
<1>2. op = "pause" => d = "playback" /\ ssp.state.playback \in UpStates
  BY <1>1 DEF PortInv
<1>3. pc'.main.at # "locked"
  <2>. DEFINE to == [[pc.main EXCEPT !.at = Triggered("main")] EXCEPT !.op = "none"]
  <2>1. to.at # "locked" BY <1>1 DEF Contexts, Pc, Triggered
  <2>2. pc' = [pc EXCEPT !["main"] = to] BY <1>1 DEF Contexts
  <2>. HIDE DEF to
  <2>. QED BY <1>1, <2>1, <2>2 DEF Contexts
<1>. HIDE DEF d, op
<1>4. Steady(ssp') BY <1>1, <1>2, ApplyOps
<1>5. /\ ssp'.state = [ssp.state EXCEPT ![d] = OpState(op)]
      /\ OpState(op) \in PortStates \ {"INIT"}
  BY <1>1, ApplyOps
<1>. QED BY <1>1, <1>3, <1>4, <1>5, PortMoves

-----------------------------------------------------------------------------
(* Commands for the capture DAI *)

\* A command for one direction leaves the DAI, the channel and the side of the
\* port of the other alone.
LEMMA OtherSide ==
  ASSUME StreamInv, NEW x \in Contexts, NEW e \in Dirs, pc[x].dir # e, Step(x)
  PROVE  /\ dai'[e] = dai[e] /\ chan'[e] = chan[e] /\ ssp'.state[e] = ssp.state[e]
         /\ UNCHANGED <<host, drv, mixer, job>>
         /\ upset \subseteq upset' /\ upset' \subseteq upset \cup {"late"}
<1>. DEFINE d == pc[x].dir
            op == SspOp(ssp, pc[x].cmd, d)
<1>1. /\ d \in Dirs /\ d # e /\ chan \in [Dirs -> Channels] /\ dai \in [Dirs -> States]
      /\ ssp \in Ports /\ ssp.state \in [Dirs -> PortStates] /\ pc[x].cmd \in Commands
      /\ Up(ssp)
  BY DEF StreamInv, TypeOK, Contexts, Pc, Ports, PortUp, Up
<1>2. UNCHANGED <<host, drv, mixer, job>>
  BY DEF Step, dai_cmd, stop_schedule, stop_wait, ssp_trigger, ssp_wait, dai_state, compVars
<1>3. upset \subseteq upset' /\ upset' \subseteq upset \cup {"late"}
  BY DEF Step, dai_cmd, stop_schedule, stop_wait, ssp_trigger, ssp_wait, dai_state
<1>4. dai'[e] = dai[e]
  BY <1>1
     DEF Step, dai_cmd, stop_schedule, stop_wait, ssp_trigger, ssp_wait, dai_state, compVars
<1>5. chan'[e] = chan[e]
  <2>1. CASE dai_cmd(x) BY <1>1, <2>1 DEF dai_cmd
  <2>2. CASE stop_schedule(x) \/ stop_wait(x) \/ ssp_trigger(x) \/ ssp_wait(x)
    BY <1>1, <2>2 DEF stop_schedule, stop_wait, ssp_trigger, ssp_wait
  <2>3. CASE dai_state(x) BY <1>1, <2>3 DEF dai_state
  <2>. QED BY <2>1, <2>2, <2>3 DEF Step
<1>6. ssp'.state[e] = ssp.state[e]
  <2>1. CASE ssp_trigger(x)
    <3>1. op \in {"none", "wait", "start", "pause", "stop"} BY <1>1, OpTypes
    <3>2. \/ ssp' = ssp
          \/ ssp' = SspWait(ssp, d)
          \/ op \in {"start", "pause", "stop"} /\ ssp' = SspApply(ssp, op, d)
      BY <2>1, <3>1 DEF ssp_trigger
    <3>. HIDE DEF d, op
    <3>3. CASE ssp' = ssp BY <3>3
    <3>4. CASE ssp' = SspWait(ssp, d)
      <4>1. ssp'.state = [ssp.state EXCEPT ![d] = IF d = "capture" THEN "PAUSING"
                                                  ELSE "DRAINING"]
        BY <1>1, <3>4, StateOps
      <4>. QED BY <1>1, <4>1
    <3>5. CASE op \in {"start", "pause", "stop"} /\ ssp' = SspApply(ssp, op, d)
      <4>1. ssp'.state = [ssp.state EXCEPT ![d] = OpState(op)]
        BY <1>1, <3>5, ApplyOps
      <4>. QED BY <1>1, <4>1
    <3>. QED BY <3>2, <3>3, <3>4, <3>5
  <2>2. CASE ssp_wait(x) BY <1>1, <2>2, StateOps DEF ssp_wait
  <2>3. CASE dai_cmd(x) \/ stop_schedule(x) \/ stop_wait(x) \/ dai_state(x)
    BY <2>3 DEF dai_cmd, stop_schedule, stop_wait, dai_state
  <2>. QED BY <2>1, <2>2, <2>3 DEF Step
<1>. QED BY <1>2, <1>3, <1>4, <1>5, <1>6

\* Where any step of a command goes.
LEMMA MainGoes ==
  ASSUME StreamInv, Step("main")
  PROVE  \E place \in Places : Goes("main", place)
<1>1. "main" \in Contexts /\ pc \in [Contexts -> Pc]
  BY DEF Contexts, StreamInv, TypeOK
<1>2. CASE ~ssp_trigger("main") BY <1>1, <1>2, StepGoes DEF Step
<1>3. CASE ssp_trigger("main")
  <2>. DEFINE op == SspOp(ssp, pc["main"].cmd, pc["main"].dir)
              to == [[pc.main EXCEPT !.at = "locked"] EXCEPT !.op = op]
  <2>1. {"state", "release", "draining", "locked"} \subseteq Places BY DEF Places
  <2>2. \/ \E place \in {"state", "release", "draining"} : GoTo("main", place)
        \/ pc' = [pc EXCEPT !["main"] = to]
    BY <1>1, <1>3 DEF ssp_trigger, Triggered
  <2>3. to.at = "locked" /\ to.dir = pc.main.dir /\ to.cmd = pc.main.cmd
    BY <1>1 DEF Contexts, Pc
  <2>. HIDE DEF to
  <2>4. pc' = [pc EXCEPT !["main"] = to] => Goes("main", "locked")
    BY <1>1, <2>3 DEF Goes, Contexts
  <2>. QED BY <1>1, <2>1, <2>2, <2>4, GoToGoes DEF StreamInv
<1>. QED BY <1>2, <1>3

LEMMA PlayCapture ==
  ASSUME StreamInv, LockInv, FlowInv, pc.main.dir = "capture",
         Step("main") \/ ssp_unlock \/ dai_release \/ trigger_host
  PROVE  PlayInv'
<1>1. /\ "main" \in Contexts /\ "playback" \in Dirs /\ pc \in [Contexts -> Pc]
      /\ chan \in [Dirs -> Channels] /\ chan.playback \in Channels
      /\ host \in [Streams -> States] /\ ssp \in Ports /\ job \in Capture
      /\ ssp.state \in [Dirs -> PortStates] /\ "capture" \in Dirs
  BY DEF Contexts, Dirs, StreamInv, TypeOK, Ports
<1>2. ~Walks("playback") BY DEF Walks
<1>3. CASE Step("main")
  <2>1. PICK place \in Places : Goes("main", place) BY <1>3, MainGoes
  <2>2. pc'.irq = pc.irq /\ ~Walks("playback")'
    BY <2>1 DEF Goes, Contexts, Walks
  <2>3. Apart /\ chan'.playback = chan.playback
    BY <1>1, <1>3, OtherSide DEF Apart
  <2>4. upset \subseteq upset' /\ upset' \subseteq upset \cup {"late"}
    BY <1>1, <1>3, OtherSide
  <2>5. Keeps(chan.playback, chan'.playback) BY <1>1, <2>3, KeepOps
  <2>. QED BY <1>2, <2>2, <2>3, <2>4, <2>5, PlayFrame DEF FlowInv
<1>4. CASE ssp_unlock
  <2>. DEFINE to == [[pc.main EXCEPT !.at = Triggered("main")] EXCEPT !.op = "none"]
  <2>1. /\ pc' = [pc EXCEPT !["main"] = to] /\ pc.main.op \in {"start", "pause", "stop"}
        /\ ssp' = SspApply(ssp, pc.main.op, "capture")
        /\ UNCHANGED <<compVars, chan, job, upset, fault>>
    BY <1>1, <1>4 DEF ssp_unlock, Locked, StreamInv, OpInv, Contexts, Pc
  <2>2. to.dir = "capture" BY <1>1 DEF Contexts, Pc
  <2>. HIDE DEF to
  <2>3. pc'.irq = pc.irq /\ ~Walks("playback")'
    BY <1>1, <2>1, <2>2 DEF Contexts, Walks
  <2>4. ssp'.state.playback = ssp.state.playback
    <3>1. ssp'.state = [ssp.state EXCEPT !["capture"] = OpState(pc.main.op)]
      BY <1>1, <2>1, ApplyOps
    <3>. QED BY <1>1, <3>1
  <2>5. Apart BY <2>1, <2>4 DEF Apart, compVars
  <2>6. Keeps(chan.playback, chan'.playback) BY <1>1, <2>1, KeepOps
  <2>. QED BY <1>2, <2>1, <2>3, <2>5, <2>6, PlayFrame DEF FlowInv
<1>5. CASE dai_release
  <2>1. /\ GoTo("main", "state") /\ "state" \in Places
        /\ UNCHANGED <<compVars, ssp, job, upset, fault>>
        /\ chan' = [chan EXCEPT !["capture"] = dw_dma_release(@)]
    BY <1>5 DEF dai_release, Places
  <2>2. Goes("main", "state") BY <1>1, <2>1, GoToGoes DEF StreamInv
  <2>3. pc'.irq = pc.irq /\ ~Walks("playback")'
    BY <2>2 DEF Goes, Contexts, Walks
  <2>4. Apart BY <2>1 DEF Apart, compVars
  <2>5. chan'.playback = chan.playback BY <1>1, <2>1
  <2>6. Keeps(chan.playback, chan'.playback) BY <1>1, <2>5, KeepOps
  <2>. QED BY <1>2, <2>1, <2>3, <2>4, <2>6, PlayFrame DEF FlowInv
<1>6. CASE trigger_host
  <2>1. /\ pc' = [pc EXCEPT !["main"] = Idle]
        /\ UNCHANGED <<drv, mixer, dai, elems, chan, ssp, job, upset, fault>>
        /\ \A s \in Playback : host'[s] = host[s]
    BY <1>1, <1>6, StreamConstants DEF trigger_host, StreamConstants, Streams
  <2>2. pc'.irq = pc.irq /\ ~Walks("playback")'
    BY <1>1, <2>1 DEF Contexts, Walks, Idle
  <2>3. Apart BY <2>1 DEF Apart
  <2>4. Keeps(chan.playback, chan'.playback) BY <1>1, <2>1, KeepOps
  <2>. QED BY <1>2, <2>1, <2>2, <2>3, <2>4, PlayFrame DEF FlowInv
<1>. QED BY <1>3, <1>4, <1>5, <1>6

\* A trigger of a capture stream.
LEMMA FlowCapture ==
  ASSUME StreamInv, LockInv, FlowInv, NEW s \in Capture, NEW cmd \in Commands,
         trigger_capture(s, cmd)
  PROVE  FlowInv'
<1>1. /\ Ready /\ UNCHANGED <<host, mixer, dai, elems, chan, ssp, upset, fault>>
      /\ pc' = AtDai(cmd, "capture") /\ cmd \in Allowed(s) /\ s \in Streams
      /\ drv' = IF cmd = "STOP" THEN [drv EXCEPT ![s] = "open"] ELSE drv
      /\ s \notin Playback /\ "capture" \in Dirs /\ chan.playback \in Channels
      /\ drv \in [Streams -> {"closed", "open", "ready"}]
  BY StreamConstants
     DEF StreamConstants, trigger_capture, Streams, StreamInv, TypeOK, Dirs
<1>2. pc'.irq = pc.irq /\ pc'.main.at = "dma" /\ pc'.main.dir = "capture"
  BY <1>1, AtDaiFacts DEF StreamInv
<1>3. ~Walks("playback") /\ ~Walks("playback")'
  BY <1>1, <1>2, ReadyFacts DEF Walks
<1>4. Apart BY <1>1 DEF Apart, Streams
<1>5. PlayInv'
  <2>1. Keeps(chan.playback, chan'.playback) BY <1>1, KeepOps
  <2>. QED BY <1>1, <1>2, <1>3, <1>4, <2>1, PlayFrame DEF FlowInv
<1>6. PortInv'
  <2>1. drv[s] # "closed" BY <1>1 DEF Allowed, LockInv, MixInv
  <2>2. \A t \in Streams : drv'[t] = drv[t] \/ ssp.state[Dir(t)] # "INIT"
    BY <1>1, <2>1 DEF FlowInv, PortInv
  <2>. QED BY <1>1, <1>2, <2>2, PortFrame DEF FlowInv
<1>. QED BY <1>5, <1>6 DEF FlowInv

\* The rest of such a command.
LEMMA PortMain ==
  ASSUME StreamInv, LockInv, FlowInv, Main
  PROVE  PortInv'
<1>1. "main" \in Contexts BY DEF Contexts
<1>2. CASE Step("main") BY <1>1, <1>2, PortStep
<1>3. CASE ssp_unlock BY <1>3, PortUnlock
<1>4. CASE dai_release
  <2>1. GoTo("main", "state") /\ UNCHANGED <<drv, ssp>> /\ "state" \in Places
    BY <1>4 DEF dai_release, compVars, Places
  <2>2. pc'.main.at = "state" BY <1>1, <2>1, GoToGoes DEF Goes, StreamInv
  <2>. QED BY <2>1, <2>2, PortFrame DEF FlowInv
<1>5. CASE trigger_host
  <2>1. pc' = [pc EXCEPT !["main"] = Idle] /\ UNCHANGED <<drv, ssp>>
    BY <1>5 DEF trigger_host
  <2>2. pc'.main.at # "locked" BY <1>1, <2>1 DEF StreamInv, TypeOK, Contexts, Idle
  <2>. QED BY <2>1, <2>2, PortFrame DEF FlowInv
<1>. QED BY <1>2, <1>3, <1>4, <1>5 DEF Main

-----------------------------------------------------------------------------
(* Interrupts *)

\* The work of a channel and the end of a transfer leave a channel where it is.
LEMMA FlowWork ==
  ASSUME StreamInv, LockInv, FlowInv, NEW d \in Dirs, fifo_work(d) \/ transfer_done(d)
  PROVE  FlowInv'
<1>1. /\ UNCHANGED <<compVars, ssp, job, pc, upset, fault>> /\ chan[d] \in Channels
      /\ chan \in [Dirs -> Channels] /\ "playback" \in Dirs
  BY DEF fifo_work, transfer_done, StreamInv, TypeOK, Dirs
<1>2. Keeps(chan[d], chan'[d])
  <2>1. CASE fifo_work(d)
    <3>1. PICK empty \in BOOLEAN : chan' = [chan EXCEPT ![d] = dw_dma_fifo_work(@, empty)]
      BY <2>1 DEF fifo_work
    <3>2. chan'[d] = dw_dma_fifo_work(chan[d], empty) BY <1>1, <3>1
    <3>. QED BY <1>1, <3>2, KeepOps
  <2>2. CASE transfer_done(d)
    <3>1. /\ chan[d].en
          /\ chan' = [chan EXCEPT ![d] = [[chan[d] EXCEPT !.en = FALSE] EXCEPT !.tfr = TRUE]]
      BY <2>2 DEF transfer_done
    <3>2. chan'[d] = [[chan[d] EXCEPT !.en = FALSE] EXCEPT !.tfr = TRUE] BY <1>1, <3>1
    <3>. QED BY <1>1, <3>1, <3>2, KeepOps
  <2>. QED BY <2>1, <2>2
<1>3. \A e \in Dirs \ {d} : chan'[e] = chan[e]
  BY <1>1 DEF fifo_work, transfer_done
<1>4. Keeps(chan.playback, chan'.playback)
  <2>1. CASE d = "playback" BY <1>2, <2>1
  <2>2. CASE d # "playback"
    <3>1. chan'.playback = chan.playback /\ chan.playback \in Channels
      BY <1>1, <1>3, <2>2
    <3>. QED BY <3>1, KeepOps
  <2>. QED BY <2>1, <2>2
<1>5. Apart BY <1>1 DEF Apart, compVars
<1>6. PlayInv' BY <1>1, <1>4, <1>5, PlayFrame DEF FlowInv, Walks
<1>7. PortInv' BY <1>1, PortFrame DEF FlowInv, compVars
<1>. QED BY <1>6, <1>7 DEF FlowInv

\* The drain work leaves the playback side of the port alone.
LEMMA FlowDrain ==
  ASSUME StreamInv, LockInv, FlowInv, drain_work
  PROVE  FlowInv'
<1>1. /\ UNCHANGED <<compVars, chan, job, pc, upset>> /\ ssp \in Ports
      /\ ssp.state \in [Dirs -> PortStates] /\ chan.playback \in Channels
      /\ "capture" \in Dirs /\ "playback" \in Dirs /\ PortInv /\ Steady(ssp)
      /\ ssp' = ssp \/ ssp' = ssp_drain_work(ssp)
  BY DEF drain_work, StreamInv, TypeOK, Dirs, Ports, FlowInv, PortInv
<1>2. Keeps(chan.playback, chan'.playback) BY <1>1, KeepOps
<1>3. CASE ssp' = ssp
  <2>1. Apart BY <1>1, <1>3 DEF Apart, compVars
  <2>2. PlayInv' BY <1>1, <1>2, <2>1, PlayFrame DEF FlowInv, Walks
  <2>3. PortInv' BY <1>1, <1>3, PortFrame DEF compVars
  <2>. QED BY <2>2, <2>3 DEF FlowInv
<1>4. CASE ssp' = ssp_drain_work(ssp)
  <2>1. ssp'.state = [ssp.state EXCEPT !["capture"] = "PAUSED"]
    <3>1. ssp.state.capture # "DRAINING" BY <1>1 DEF Steady
    <3>. QED BY <1>1, <1>4, <3>1, StateOps
  <2>2. Steady(ssp') BY <1>1, <1>4, SteadyOps
  <2>3. ssp'.state.playback = ssp.state.playback BY <1>1, <2>1
  <2>4. Apart BY <1>1, <2>3 DEF Apart, compVars
  <2>5. PlayInv' BY <1>1, <1>2, <2>4, PlayFrame DEF FlowInv, Walks
  <2>6. "PAUSED" \in PortStates \ {"INIT"} /\ drv' = drv BY <1>1 DEF PortStates, compVars
  <2>7. (pc'.main.at = "locked" /\ pc'.main.op = "pause") =>
          pc'.main.dir = "playback" /\ ssp'.state.playback \in UpStates
    BY <1>1, <2>3 DEF PortInv
  <2>8. PortInv' BY <1>1, <2>1, <2>2, <2>6, <2>7, PortMoves
  <2>. QED BY <2>5, <2>8 DEF FlowInv
<1>. QED BY <1>1, <1>3, <1>4

\* The interrupt of a channel that the DAI lets go on, and of one that it stops:
\* only a DAI that runs or is paused is asked.
LEMMA FlowIrq ==
  ASSUME StreamInv, LockInv, FlowInv, NEW d \in Dirs, dma_irq(d)
  PROVE  FlowInv'
<1>. DEFINE c == chan[d]
<1>1. /\ UNCHANGED <<compVars, ssp, job, fault>> /\ c \in Channels
      /\ chan \in [Dirs -> Channels] /\ "playback" \in Dirs /\ pc \in [Contexts -> Pc]
      /\ d = "playback" => pc.irq.at = "idle"
  BY DEF dma_irq, StreamInv, TypeOK, Dirs, Contexts
<1>2. Apart BY <1>1 DEF Apart, compVars
<1>3. \/ /\ UNCHANGED <<pc, upset>> /\ Keeps(c, chan'[d])
         /\ \A e \in Dirs \ {d} : chan'[e] = chan[e]
      \/ /\ d = "playback" /\ Served(c)
         /\ pc' = [pc EXCEPT !["irq"] = [Idle EXCEPT !.at = "dma"]]
         /\ upset' = upset \cup (IF Walks("playback") THEN {"eos", "raced"} ELSE {"eos"})
  <2>1. ASSUME NEW t, chan' = [chan EXCEPT ![d] = t]
        PROVE  chan'[d] = t /\ \A e \in Dirs \ {d} : chan'[e] = chan[e]
    BY <1>1, <2>1
  <2>2. CASE ~Served(c)
    <3>1. chan' = [chan EXCEPT ![d] = [c EXCEPT !.tfr = FALSE]] /\ UNCHANGED <<pc, upset>>
      BY <2>2 DEF dma_irq
    <3>2. Keeps(c, [c EXCEPT !.tfr = FALSE]) BY <1>1, <2>2, KeepOps
    <3>. QED BY <2>1, <3>1, <3>2
  <2>3. CASE Served(c)
    <3>1. Keeps(c, Reload(c, "list")) /\ Keeps(c, Reload(c, "own"))
      BY <1>1, <2>3, KeepOps
    <3>2. \/ /\ UNCHANGED <<pc, upset>>
             /\ \/ chan' = [chan EXCEPT ![d] = Reload(c, "list")]
                \/ chan' = [chan EXCEPT ![d] = Reload(c, "own")]
          \/ /\ d = "playback"
             /\ pc' = [pc EXCEPT !["irq"] = [Idle EXCEPT !.at = "dma"]]
             /\ upset' = upset \cup (IF Walks("playback") THEN {"eos", "raced"} ELSE {"eos"})
      BY <2>3 DEF dma_irq, Walks
    <3>. HIDE DEF c
    <3>. QED BY <2>1, <2>3, <3>1, <3>2
  <2>. QED BY <2>2, <2>3
<1>4. CASE UNCHANGED <<pc, upset>> /\ Keeps(c, chan'[d])
           /\ \A e \in Dirs \ {d} : chan'[e] = chan[e]
  <2>1. Keeps(chan.playback, chan'.playback)
    <3>1. CASE d = "playback" BY <1>4, <3>1
    <3>2. CASE d # "playback"
      <4>1. chan'.playback = chan.playback /\ chan.playback \in Channels
        BY <1>1, <1>4, <3>2
      <4>. QED BY <4>1, KeepOps
    <3>. QED BY <3>1, <3>2
  <2>2. PlayInv' BY <1>2, <1>4, <2>1, PlayFrame DEF FlowInv, Walks
  <2>3. PortInv' BY <1>1, <1>4, PortFrame DEF FlowInv, compVars
  <2>. QED BY <2>2, <2>3 DEF FlowInv
<1>5. CASE /\ d = "playback" /\ Served(c)
           /\ pc' = [pc EXCEPT !["irq"] = [Idle EXCEPT !.at = "dma"]]
           /\ upset' = upset \cup (IF Walks("playback") THEN {"eos", "raced"} ELSE {"eos"})
  <2>. DEFINE to == [Idle EXCEPT !.at = "dma"]
  <2>1. to.at = "dma" BY DEF Idle
  <2>2. pc' = [pc EXCEPT !["irq"] = to] BY <1>5
  <2>. HIDE DEF to
  <2>3. pc'.main = pc.main /\ pc'.irq.at = "dma" BY <1>1, <2>1, <2>2 DEF Contexts
  <2>4. Walks("playback")' <=> Walks("playback") BY <2>3 DEF Walks
  <2>5. PortInv' BY <1>1, <2>3, PortFrame DEF FlowInv, compVars
  <2>6. /\ Sounds' <=> Sounds
        /\ Paused' <=> Paused
        /\ DaiLive' <=> DaiLive
    BY <1>2 DEF Apart, Sounds, Paused, DaiLive
  <2>7. ASSUME Calm'
        PROVE  /\ ~Walks("playback") /\ DaiLive
               /\ ~Sounds /\ ~Paused => ~DaiLive
    <3>1. Calm /\ ~Walks("playback") BY <1>5, <2>7 DEF Calm
    <3>2. InState("playback") /\ (~Sounds /\ ~Paused => ~DaiLive)
      BY <1>1, <1>5, <3>1 DEF FlowInv, PlayInv, PlayRests
    <3>3. ~Rests(chan.playback) BY <1>5 DEF Served, Rests
    <3>4. dai.playback \in States BY DEF StreamInv, TypeOK, Dirs
    <3>. QED BY <3>1, <3>2, <3>3, <3>4 DEF InState, DaiLive, States
  <2>8. PlayRests' BY <1>5, <2>3, <2>6, <2>7 DEF PlayRests
  <2>9. PlayEos' BY <2>3, <2>4, <2>6, <2>7 DEF PlayEos
  <2>10. PlayWalks' BY <1>5 DEF PlayWalks
  <2>. QED BY <2>5, <2>8, <2>9, <2>10 DEF FlowInv, PlayInv
<1>. QED BY <1>3, <1>4, <1>5

\* A DAI that stops itself comes to rest, or a wait timed out.
LEMMA FlowEos ==
  ASSUME StreamInv, LockInv, FlowInv, Step("irq")
  PROVE  FlowInv'
<1>. DEFINE c == chan.playback
<1>0. PortInv' BY PortStep DEF Contexts
<1>. SUFFICES PlayInv' BY <1>0 DEF FlowInv
<1>1. /\ "irq" \in Contexts /\ "playback" \in Dirs /\ c \in Channels
      /\ chan \in [Dirs -> Channels] /\ pc \in [Contexts -> Pc]
      /\ dai \in [Dirs -> States]
  BY DEF Contexts, Dirs, StreamInv, TypeOK
<1>2. pc.irq.at # "idle"
  BY DEF Step, dai_cmd, stop_schedule, stop_wait, ssp_trigger, ssp_wait, dai_state
<1>3. "eos" \in upset /\ pc.irq.dir = "playback" /\ pc.irq.cmd = "STOP"
  BY <1>2 DEF LockInv, IrqInv
<1>4. UNCHANGED <<host, drv, mixer>> /\ upset \subseteq upset'
  BY DEF Step, dai_cmd, stop_schedule, stop_wait, ssp_trigger, ssp_wait, dai_state, compVars
<1>5. (Sounds' <=> Sounds) /\ (Paused' <=> Paused)
  BY <1>4 DEF Sounds, Paused
<1>6. PlayWalks' BY <1>3, <1>4 DEF PlayWalks
<1>7. Calm' => Calm BY <1>4 DEF Calm
<1>8. Calm => /\ ~Walks("playback") /\ DaiLive
              /\ pc.irq.at \in {"trigger", "draining", "state"} => Rests(c)
              /\ ~Sounds /\ ~Paused => ~DaiLive
  BY <1>2 DEF FlowInv, PlayInv, PlayEos, PlayRests
\* Before its last step.
<1>9. ASSUME NEW place \in {"suspended", "stopping", "trigger", "draining", "state"},
             Goes("irq", place), UNCHANGED compVars,
             (Calm' /\ place \in {"trigger", "draining", "state"}) => Rests(chan'.playback)
      PROVE  PlayInv'
  <2>1. pc'.irq.at = place /\ pc'.main = pc.main BY <1>9 DEF Goes, Contexts
  <2>2. (Walks("playback")' <=> Walks("playback")) /\ (DaiLive' <=> DaiLive)
    BY <1>9, <2>1 DEF Walks, DaiLive, compVars
  <2>3. PlayRests' BY <1>3, <1>4, <1>5, <1>7, <1>8, <1>9, <2>1, <2>2 DEF PlayRests
  <2>4. PlayEos' BY <1>7, <1>8, <1>9, <2>1, <2>2 DEF PlayEos
  <2>. QED BY <1>6, <2>3, <2>4 DEF PlayInv
<1>10. {"idle", "suspended", "stopping", "trigger", "draining", "state"} \subseteq Places
  BY DEF Places
<1>11. CASE dai_cmd("irq")
  <2>1. UNCHANGED compVars /\ pc.irq.at = "dma" BY <1>11 DEF dai_cmd
  <2>2. CASE ~Calm
    <3>1. PICK place \in {"state", "trigger", "suspended"} : GoTo("irq", place)
      BY <1>3, <1>11 DEF dai_cmd, Obeys
    <3>2. Goes("irq", place) BY <1>1, <1>10, <3>1, GoToGoes DEF StreamInv
    <3>. QED BY <1>7, <1>9, <2>1, <2>2, <3>2
  <2>3. CASE Calm
    <3>1. Obeys(dai.playback, "STOP") BY <1>8, <2>3 DEF Obeys, DaiLive
    <3>2. PICK drain \in BOOLEAN : drain = (dai.playback = "RUNNING") OBVIOUS
    <3>3. /\ chan' = [chan EXCEPT !["playback"] = dw_dma_stop(c, drain)]
          /\ GoTo("irq", IF c.en THEN "suspended" ELSE "trigger")
      BY <1>3, <1>11, <3>1, <3>2 DEF dai_cmd
    <3>4. ~c.en => Rests(chan'.playback) BY <1>1, <3>3, RestOps
    <3>5. PICK place \in {"suspended", "trigger"} :
            GoTo("irq", place) /\ (place = "trigger" => ~c.en)
      BY <3>3
    <3>6. Goes("irq", place) BY <1>1, <1>10, <3>5, GoToGoes DEF StreamInv
    <3>. QED BY <1>9, <2>1, <3>4, <3>5, <3>6
  <2>. QED BY <2>2, <2>3
<1>12. CASE stop_schedule("irq")
  <2>1. UNCHANGED compVars /\ GoTo("irq", "stopping") BY <1>12 DEF stop_schedule
  <2>2. Goes("irq", "stopping") BY <1>1, <1>10, <2>1, GoToGoes DEF StreamInv
  <2>. QED BY <1>9, <2>1, <2>2
<1>13. CASE stop_wait("irq")
  <2>1. /\ UNCHANGED compVars /\ GoTo("irq", "trigger") /\ pc.irq.at = "stopping"
        /\ c.complete \/ "late" \in upset'
        /\ chan' = [chan EXCEPT !["playback"] = [c EXCEPT !.complete = FALSE]]
    BY <1>3, <1>13 DEF stop_wait
  <2>2. Goes("irq", "trigger") BY <1>1, <1>10, <2>1, GoToGoes DEF StreamInv
  <2>3. Calm' => c.complete BY <2>1 DEF Calm
  <2>4. c.complete => Rests(c) BY <1>1, <1>3, <2>1 DEF LockInv, StopInv, Rests
  <2>5. Rests(c) => Rests(chan'.playback)
    BY <1>1, <2>1, KeepOps DEF Keeps
  <2>. QED BY <1>9, <2>1, <2>2, <2>3, <2>4, <2>5
<1>14. CASE ssp_trigger("irq")
  <2>1. UNCHANGED <<compVars, chan>> /\ pc.irq.at = "trigger" BY <1>14 DEF ssp_trigger
  <2>2. \/ pc' = pc
        \/ \E place \in {"draining", "state"} : GoTo("irq", place)
    BY <1>3, <1>14 DEF ssp_trigger, Triggered
  <2>3. CASE pc' = pc
    <3>1. Goes("irq", "trigger") BY <2>1, <2>3 DEF Goes, Contexts
    <3>. QED BY <1>7, <1>8, <1>9, <2>1, <3>1
  <2>4. CASE \E place \in {"draining", "state"} : GoTo("irq", place)
    <3>1. PICK place \in {"draining", "state"} : GoTo("irq", place) BY <2>4
    <3>2. Goes("irq", place) BY <1>1, <1>10, <3>1, GoToGoes DEF StreamInv
    <3>. QED BY <1>7, <1>8, <1>9, <2>1, <3>2
  <2>. QED BY <2>2, <2>3, <2>4
<1>15. CASE ssp_wait("irq")
  <2>1. UNCHANGED <<compVars, chan>> /\ pc.irq.at = "draining" /\ GoTo("irq", "state")
    BY <1>15 DEF ssp_wait
  <2>2. Goes("irq", "state") BY <1>1, <1>10, <2>1, GoToGoes DEF StreamInv
  <2>. QED BY <1>7, <1>8, <1>9, <2>1, <2>2
<1>16. CASE dai_state("irq")
  <2>1. /\ pc.irq.at = "state" /\ GoTo("irq", "idle")
        /\ chan' = [chan EXCEPT !["playback"] = Reload(c, "end")]
        /\ dai.playback \in {"INIT", "SETUP"} => dai' = dai
        /\ dai.playback \notin {"INIT", "SETUP"} =>
             dai' = [dai EXCEPT !["playback"] = "SETUP"]
    BY <1>3, <1>16 DEF dai_state, After
  <2>2. Goes("irq", "idle") BY <1>1, <1>10, <2>1, GoToGoes DEF StreamInv
  <2>3. pc'.irq.at = "idle" /\ pc'.main = pc.main BY <2>2 DEF Goes, Contexts
  <2>4. dai'.playback \in {"INIT", "SETUP"} BY <1>1, <2>1
  <2>5. Calm' => Rests(chan'.playback) /\ ~Walks("playback")'
    <3>1. Rests(c) => Rests(chan'.playback) BY <1>1, <2>1, RestOps
    <3>. QED BY <1>7, <1>8, <2>1, <2>3, <3>1 DEF Walks
  <2>6. PlayRests'
    BY <1>3, <1>4, <2>4, <2>5 DEF PlayRests, InState, DaiLive
  <2>7. PlayEos' BY <2>3, <2>4, <2>5 DEF PlayEos
  <2>. QED BY <1>6, <2>6, <2>7 DEF PlayInv
<1>. QED BY <1>11, <1>12, <1>13, <1>14, <1>15, <1>16 DEF Step

-----------------------------------------------------------------------------
(* Commands for the playback DAI *)

\* Which step comes next in the main loop.
LEMMA MainPlace ==
  ASSUME Main
  PROVE  /\ pc.irq.at = "idle" /\ pc.main.at # "idle"
         /\ pc.main.at = "dma" => dai_cmd("main")
         /\ pc.main.at = "suspended" => stop_schedule("main")
         /\ pc.main.at = "stopping" => stop_wait("main")
         /\ pc.main.at = "trigger" => ssp_trigger("main")
         /\ pc.main.at = "locked" => ssp_unlock
         /\ pc.main.at = "draining" => ssp_wait("main")
         /\ pc.main.at = "release" => dai_release
         /\ pc.main.at = "state" => dai_state("main")
         /\ pc.main.at = "host" => trigger_host
BY DEF Main, Step, dai_cmd, stop_schedule, stop_wait, ssp_trigger, ssp_unlock, Locked,
       ssp_wait, dai_release, dai_state, trigger_host, CanRun

\* ssp_trigger() and the functions it calls, in the main loop.
LEMMA MainTrigger ==
  ASSUME StreamInv, ssp_trigger("main")
  PROVE  LET op == SspOp(ssp, pc.main.cmd, pc.main.dir)
         IN  /\ UNCHANGED <<compVars, chan>>
             /\ \/ /\ op = "none" /\ ssp' = ssp
                   /\ Goes("main", IF pc.main.cmd = "RELEASE" THEN "release" ELSE "state")
                \/ op = "wait" /\ Goes("main", "draining")
                \/ /\ op \in {"start", "pause", "stop"} /\ ssp' = ssp
                   /\ Goes("main", "locked") /\ pc'.main.op = op
<1>. DEFINE op == SspOp(ssp, pc.main.cmd, pc.main.dir)
            to == [[pc.main EXCEPT !.at = "locked"] EXCEPT !.op = op]
<1>1. /\ UNCHANGED <<compVars, chan>> /\ pc \in [Contexts -> Pc] /\ "main" \in Contexts
      /\ ssp \in Ports /\ Up(ssp) /\ pc.main.dir \in Dirs /\ pc.main.cmd \in Commands
  BY DEF ssp_trigger, StreamInv, TypeOK, Contexts, Pc, PortUp, Up
<1>2. op \in {"none", "wait", "start", "pause", "stop"} BY <1>1, OpTypes
<1>3. {"state", "release", "draining", "locked"} \subseteq Places BY DEF Places
<1>4. CASE op = "none"
  <2>1. PICK place \in {"state", "release"} :
          /\ place = IF pc.main.cmd = "RELEASE" THEN "release" ELSE "state"
          /\ GoTo("main", place) /\ ssp' = ssp
    BY <1>4 DEF ssp_trigger, Triggered
  <2>2. Goes("main", place) BY <1>1, <1>3, <2>1, GoToGoes DEF StreamInv
  <2>. QED BY <1>1, <1>4, <2>1, <2>2
<1>5. CASE op = "wait"
  <2>1. GoTo("main", "draining") BY <1>5 DEF ssp_trigger
  <2>2. Goes("main", "draining") BY <1>1, <1>3, <2>1, GoToGoes DEF StreamInv
  <2>. QED BY <1>1, <1>5, <2>2
<1>6. CASE op \in {"start", "pause", "stop"}
  <2>1. ssp' = ssp /\ pc' = [pc EXCEPT !["main"] = to] BY <1>1, <1>6 DEF ssp_trigger
  <2>2. to.at = "locked" /\ to.op = op /\ to.dir = pc.main.dir /\ to.cmd = pc.main.cmd
    BY <1>1 DEF Contexts, Pc
  <2>. HIDE DEF to
  <2>3. Goes("main", "locked") /\ pc'.main.op = op
    BY <1>1, <2>1, <2>2 DEF Goes, Contexts
  <2>. QED BY <1>1, <1>6, <2>1, <2>3
<1>. QED BY <1>2, <1>4, <1>5, <1>6

LEMMA MainUnlock ==
  ASSUME StreamInv, ssp_unlock
  PROVE  /\ UNCHANGED <<compVars, chan, upset>>
         /\ Goes("main", IF pc.main.cmd = "RELEASE" THEN "release" ELSE "state")
         /\ ssp'.state = [ssp.state EXCEPT ![pc.main.dir] = OpState(pc.main.op)]
<1>. DEFINE place == IF pc.main.cmd = "RELEASE" THEN "release" ELSE "state"
            to == [[pc.main EXCEPT !.at = place] EXCEPT !.op = "none"]
<1>1. /\ UNCHANGED <<compVars, chan, upset>> /\ pc \in [Contexts -> Pc]
      /\ "main" \in Contexts /\ pc' = [pc EXCEPT !["main"] = to]
      /\ ssp' = SspApply(ssp, pc.main.op, pc.main.dir)
      /\ pc.main.op \in {"start", "pause", "stop"} /\ ssp \in Ports /\ pc.main.dir \in Dirs
  BY DEF ssp_unlock, Locked, Triggered, StreamInv, TypeOK, OpInv, Contexts, Pc
<1>2. to.at = place /\ to.dir = pc.main.dir /\ to.cmd = pc.main.cmd
  BY <1>1 DEF Contexts, Pc
<1>. HIDE DEF to
<1>3. Goes("main", place) BY <1>1, <1>2 DEF Goes, Contexts
<1>4. ssp'.state = [ssp.state EXCEPT ![pc.main.dir] = OpState(pc.main.op)]
  BY <1>1, ApplyOps
<1>. QED BY <1>1, <1>3, <1>4

\* A command that goes on and one that has ended.
LEMMA WalkOn ==
  ASSUME pc.irq.at = "idle", pc.main.dir = "playback", upset' = {},
         NEW place, place # "idle", Goes("main", place),
         /\ pc.main.cmd = "START" => PlayStart'
         /\ pc.main.cmd = "RELEASE" => PlayRelease'
         /\ pc.main.cmd = "PAUSE" => PlayPause'
         /\ pc.main.cmd = "STOP" => PlayStop'
  PROVE  PlayInv'
<1>1. pc'.irq.at = "idle" /\ pc'.main.cmd = pc.main.cmd /\ Walks("playback")'
  BY DEF Goes, Contexts, Walks
<1>2. PlayRests' /\ PlayEos' /\ PlayWalks'
  BY <1>1 DEF PlayRests, PlayEos, PlayWalks
<1>. QED BY <1>2 DEF PlayInv

LEMMA WalkEnds ==
  ASSUME pc.irq.at = "idle", Goes("main", "idle"), upset' = {},
         InState("playback")', DaiLive' => Up1', ~Sounds' /\ ~Paused' => ~DaiLive',
         Sounds' => dai'.playback = "RUNNING",
         ~Sounds' /\ Paused' => dai'.playback = "PAUSED" /\ mixer' = "PAUSED",
         ~Sounds' /\ ~Paused' /\ Prepared' => dai'.playback = "PREPARE"
  PROVE  PlayInv'
<1>1. pc'.irq.at = "idle" /\ ~Walks("playback")' BY DEF Goes, Contexts, Walks
<1>2. PlayRests' /\ PlayEos' /\ PlayWalks'
  BY <1>1 DEF PlayRests, PlayEos, PlayWalks
<1>. QED BY <1>2 DEF PlayInv

\* What steps of dai_cmd() leave alone.
LEMMA SourcesKept ==
  ASSUME UNCHANGED <<host, drv>>
  PROVE  (Sounds' <=> Sounds) /\ (Paused' <=> Paused) /\ (Prepared' <=> Prepared)
BY DEF Sounds, Paused, Prepared

\* The facts that the four commands share.
LEMMA MainTypes ==
  StreamInv => /\ "main" \in Contexts /\ "playback" \in Dirs /\ chan.playback \in Channels
               /\ chan \in [Dirs -> Channels] /\ dai \in [Dirs -> States]
               /\ ssp \in Ports /\ ssp.state \in [Dirs -> PortStates]
               /\ {"idle", "suspended", "stopping", "trigger", "draining", "release",
                   "state"} \subseteq Places
BY DEF StreamInv, TypeOK, Contexts, Dirs, Ports, Places

\* START.
LEMMA StartStep ==
  ASSUME StreamInv, Main, pc.main.dir = "playback", pc.main.cmd = "START",
         PlayStart, Steady(ssp), upset' = {}
  PROVE  PlayInv'
<1>1. UNCHANGED <<host, drv, mixer>>
  BY MainPlace DEF PlayStart, dai_cmd, ssp_trigger, ssp_unlock, dai_state, compVars
<1>2. /\ Sounds' /\ dai.playback = "PREPARE" /\ ssp.state.playback # "INIT"
      /\ pc.main.at \in {"dma", "trigger", "locked", "state"}
      /\ pc.irq.at = "idle"
  BY <1>1, SourcesKept, MainPlace DEF PlayStart
<1>3. CASE pc.main.at = "dma"
  <2>1. dai_cmd("main") /\ Obeys(dai.playback, "START") BY <1>2, <1>3, MainPlace DEF Obeys
  <2>2. CanStart(chan.playback) BY <1>3, MainTypes, RestOps DEF PlayStart
  <2>3. /\ GoTo("main", "trigger") /\ UNCHANGED <<dai, ssp>>
        /\ chan' = [chan EXCEPT !["playback"] = dw_dma_start(chan.playback)]
    BY <2>1, <2>2 DEF dai_cmd, compVars
  <2>4. Goes("main", "trigger") BY <2>3, MainTypes, GoToGoes DEF StreamInv
  <2>5. Moves(chan'.playback) BY <2>3, MainTypes, RestOps
  <2>6. PlayStart' BY <1>2, <2>3, <2>4, <2>5 DEF PlayStart, Goes
  <2>. QED BY <1>2, <2>4, <2>6, WalkOn
<1>4. CASE pc.main.at = "trigger"
  <2>. DEFINE op == SspOp(ssp, "START", "playback")
  <2>1. /\ UNCHANGED <<dai, chan>>
        /\ \/ op = "none" /\ ssp' = ssp /\ Goes("main", "state")
           \/ op = "wait" /\ Goes("main", "draining")
           \/ /\ op \in {"start", "pause", "stop"} /\ ssp' = ssp
              /\ Goes("main", "locked") /\ pc'.main.op = op
    BY <1>4, MainPlace, MainTrigger DEF compVars
  <2>2. op = IF ssp.state.playback = "IDLE" THEN "start" ELSE "none" BY DEF SspOp
  <2>. HIDE DEF op
  <2>3. ssp.state.playback # "IDLE" => Up1
    BY <1>2, MainTypes DEF Steady, Up1, UpStates, PortStates
  <2>4. Moves(chan.playback) BY <1>4 DEF PlayStart
  <2>5. CASE op = "none" /\ ssp' = ssp /\ Goes("main", "state")
    <3>1. PlayStart' BY <1>2, <2>1, <2>2, <2>3, <2>4, <2>5 DEF PlayStart, Goes, Up1
    <3>. QED BY <1>2, <2>5, <3>1, WalkOn
  <2>6. CASE /\ op \in {"start", "pause", "stop"} /\ ssp' = ssp
             /\ Goes("main", "locked") /\ pc'.main.op = op
    <3>1. PlayStart' BY <1>2, <2>1, <2>2, <2>4, <2>6 DEF PlayStart, Goes
    <3>. QED BY <1>2, <2>6, <3>1, WalkOn
  <2>. QED BY <2>1, <2>2, <2>5, <2>6
<1>5. CASE pc.main.at = "locked"
  <2>1. /\ UNCHANGED <<dai, chan>> /\ Goes("main", "state") /\ pc.main.op = "start"
        /\ ssp'.state = [ssp.state EXCEPT !["playback"] = OpState(pc.main.op)]
    BY <1>5, MainPlace, MainUnlock DEF PlayStart, compVars
  <2>2. ssp'.state.playback = "RUNNING" BY <2>1, MainTypes DEF OpState
  <2>3. PlayStart' BY <1>2, <1>5, <2>1, <2>2 DEF PlayStart, Goes, Up1, UpStates
  <2>. QED BY <1>2, <2>1, <2>3, WalkOn
<1>6. CASE pc.main.at = "state"
  <2>1. /\ GoTo("main", "idle") /\ UNCHANGED <<chan, ssp>>
        /\ dai' = [dai EXCEPT !["playback"] = "RUNNING"]
    BY <1>6, MainPlace DEF dai_state, After
  <2>2. Goes("main", "idle") BY <2>1, MainTypes, GoToGoes DEF StreamInv
  <2>3. dai'.playback = "RUNNING" BY <2>1, MainTypes
  <2>. QED
    BY <1>2, <1>6, <2>1, <2>2, <2>3, WalkEnds DEF PlayStart, InState, DaiLive, Up1
<1>. QED BY <1>2, <1>3, <1>4, <1>5, <1>6

\* RELEASE: the channel comes after the port.
LEMMA ReleaseSteps ==
  ASSUME StreamInv, Main, pc.main.dir = "playback", pc.main.cmd = "RELEASE",
         PlayRelease, upset' = {}
  PROVE  PlayInv'
<1>1. UNCHANGED <<host, drv, mixer>>
  BY MainPlace
     DEF PlayRelease, dai_cmd, ssp_trigger, ssp_unlock, dai_release, dai_state, compVars
<1>2. /\ Sounds' /\ dai.playback = "PAUSED" /\ Up1
      /\ pc.main.at \in {"dma", "trigger", "locked", "release", "state"}
      /\ pc.irq.at = "idle"
  BY <1>1, SourcesKept, MainPlace DEF PlayRelease
<1>3. CASE pc.main.at = "dma"
  <2>1. dai_cmd("main") /\ Obeys(dai.playback, "RELEASE")
    BY <1>2, <1>3, MainPlace DEF Obeys
  <2>2. GoTo("main", "trigger") /\ UNCHANGED <<dai, chan, ssp>>
    BY <2>1 DEF dai_cmd, compVars
  <2>3. Goes("main", "trigger") BY <2>2, MainTypes, GoToGoes DEF StreamInv
  <2>4. PlayRelease' BY <1>2, <1>3, <2>2, <2>3 DEF PlayRelease, Goes, Up1
  <2>. QED BY <1>2, <2>3, <2>4, WalkOn
<1>4. CASE pc.main.at = "trigger"
  <2>. DEFINE op == SspOp(ssp, "RELEASE", "playback")
  <2>1. /\ UNCHANGED <<dai, chan>>
        /\ \/ op = "none" /\ ssp' = ssp /\ Goes("main", "release")
           \/ op = "wait" /\ Goes("main", "draining")
           \/ /\ op \in {"start", "pause", "stop"} /\ ssp' = ssp
              /\ Goes("main", "locked") /\ pc'.main.op = op
    BY <1>4, MainPlace, MainTrigger DEF compVars
  <2>2. op \in {"start", "none"} BY DEF SspOp
  <2>. HIDE DEF op
  <2>3. Pauses(chan.playback) BY <1>4 DEF PlayRelease
  <2>4. CASE op = "none" /\ ssp' = ssp /\ Goes("main", "release")
    <3>1. PlayRelease' BY <1>2, <2>1, <2>3, <2>4 DEF PlayRelease, Goes, Up1
    <3>. QED BY <1>2, <2>4, <3>1, WalkOn
  <2>5. CASE op = "start" /\ ssp' = ssp /\ Goes("main", "locked") /\ pc'.main.op = op
    <3>1. PlayRelease' BY <1>2, <2>1, <2>3, <2>5 DEF PlayRelease, Goes, Up1
    <3>. QED BY <1>2, <2>5, <3>1, WalkOn
  <2>. QED BY <2>1, <2>2, <2>4, <2>5
<1>5. CASE pc.main.at = "locked"
  <2>1. /\ UNCHANGED <<dai, chan>> /\ Goes("main", "release") /\ pc.main.op = "start"
        /\ ssp'.state = [ssp.state EXCEPT !["playback"] = OpState(pc.main.op)]
    BY <1>5, MainPlace, MainUnlock DEF PlayRelease, compVars
  <2>2. ssp'.state.playback = "RUNNING" BY <2>1, MainTypes DEF OpState
  <2>3. PlayRelease' BY <1>2, <1>5, <2>1, <2>2 DEF PlayRelease, Goes, Up1, UpStates
  <2>. QED BY <1>2, <2>1, <2>3, WalkOn
<1>6. CASE pc.main.at = "release"
  <2>1. /\ GoTo("main", "state") /\ UNCHANGED <<dai, ssp>>
        /\ chan' = [chan EXCEPT !["playback"] = dw_dma_release(chan.playback)]
    BY <1>6, MainPlace DEF dai_release, compVars
  <2>2. Goes("main", "state") BY <2>1, MainTypes, GoToGoes DEF StreamInv
  <2>3. Moves(chan'.playback)
    <3>1. Pauses(chan.playback) BY <1>6 DEF PlayRelease
    <3>. QED BY <2>1, <3>1, MainTypes, RestOps
  <2>4. PlayRelease' BY <1>2, <2>1, <2>2, <2>3 DEF PlayRelease, Goes, Up1
  <2>. QED BY <1>2, <2>2, <2>4, WalkOn
<1>7. CASE pc.main.at = "state"
  <2>1. /\ GoTo("main", "idle") /\ UNCHANGED <<chan, ssp>>
        /\ dai' = [dai EXCEPT !["playback"] = "RUNNING"]
    BY <1>7, MainPlace DEF dai_state, After
  <2>2. Goes("main", "idle") BY <2>1, MainTypes, GoToGoes DEF StreamInv
  <2>3. dai'.playback = "RUNNING" BY <2>1, MainTypes
  <2>. QED
    BY <1>2, <1>7, <2>1, <2>2, <2>3, WalkEnds DEF PlayRelease, InState, DaiLive, Up1
<1>. QED BY <1>2, <1>3, <1>4, <1>5, <1>6, <1>7

\* PAUSE.
LEMMA PauseSteps ==
  ASSUME StreamInv, Main, pc.main.dir = "playback", pc.main.cmd = "PAUSE",
         PlayPause, upset' = {}
  PROVE  PlayInv'
<1>1. UNCHANGED <<host, drv, mixer>>
  BY MainPlace DEF PlayPause, dai_cmd, ssp_trigger, ssp_unlock, dai_state, compVars
<1>2. /\ ~Sounds' /\ Paused' /\ mixer' = "PAUSED" /\ dai.playback = "RUNNING" /\ Up1
      /\ pc.main.at \in {"dma", "trigger", "locked", "state"}
      /\ pc.irq.at = "idle"
  BY <1>1, SourcesKept, MainPlace DEF PlayPause
<1>3. CASE pc.main.at = "dma"
  <2>1. dai_cmd("main") /\ Obeys(dai.playback, "PAUSE") BY <1>2, <1>3, MainPlace DEF Obeys
  <2>2. /\ GoTo("main", "trigger") /\ UNCHANGED <<dai, ssp>>
        /\ chan' = [chan EXCEPT !["playback"] = dw_dma_pause(chan.playback)]
    BY <2>1 DEF dai_cmd, compVars
  <2>3. Goes("main", "trigger") BY <2>2, MainTypes, GoToGoes DEF StreamInv
  <2>4. Pauses(chan'.playback)
    <3>1. Moves(chan.playback) BY <1>3 DEF PlayPause
    <3>. QED BY <2>2, <3>1, MainTypes, RestOps
  <2>5. PlayPause' BY <1>2, <2>2, <2>3, <2>4 DEF PlayPause, Goes, Up1
  <2>. QED BY <1>2, <2>3, <2>5, WalkOn
<1>4. CASE pc.main.at = "trigger"
  <2>. DEFINE op == SspOp(ssp, "PAUSE", "playback")
  <2>1. /\ UNCHANGED <<dai, chan>>
        /\ \/ op = "none" /\ ssp' = ssp /\ Goes("main", "state")
           \/ op = "wait" /\ Goes("main", "draining")
           \/ /\ op \in {"start", "pause", "stop"} /\ ssp' = ssp
              /\ Goes("main", "locked") /\ pc'.main.op = op
    BY <1>4, MainPlace, MainTrigger DEF compVars
  <2>2. op \in {"pause", "none"} BY DEF SspOp
  <2>. HIDE DEF op
  <2>3. Pauses(chan.playback) BY <1>4 DEF PlayPause
  <2>4. CASE op = "none" /\ ssp' = ssp /\ Goes("main", "state")
    <3>1. PlayPause' BY <1>2, <2>1, <2>3, <2>4 DEF PlayPause, Goes, Up1
    <3>. QED BY <1>2, <2>4, <3>1, WalkOn
  <2>5. CASE op = "pause" /\ ssp' = ssp /\ Goes("main", "locked") /\ pc'.main.op = op
    <3>1. PlayPause' BY <1>2, <2>1, <2>3, <2>5 DEF PlayPause, Goes, Up1
    <3>. QED BY <1>2, <2>5, <3>1, WalkOn
  <2>. QED BY <2>1, <2>2, <2>4, <2>5
<1>5. CASE pc.main.at = "locked"
  <2>1. /\ UNCHANGED <<dai, chan>> /\ Goes("main", "state") /\ pc.main.op = "pause"
        /\ ssp'.state = [ssp.state EXCEPT !["playback"] = OpState(pc.main.op)]
    BY <1>5, MainPlace, MainUnlock DEF PlayPause, compVars
  <2>2. ssp'.state.playback = "PAUSED" BY <2>1, MainTypes DEF OpState
  <2>3. PlayPause' BY <1>2, <1>5, <2>1, <2>2 DEF PlayPause, Goes, Up1, UpStates
  <2>. QED BY <1>2, <2>1, <2>3, WalkOn
<1>6. CASE pc.main.at = "state"
  <2>1. /\ GoTo("main", "idle") /\ UNCHANGED <<chan, ssp>>
        /\ dai' = [dai EXCEPT !["playback"] = "PAUSED"]
    BY <1>6, MainPlace DEF dai_state, After
  <2>2. Goes("main", "idle") BY <2>1, MainTypes, GoToGoes DEF StreamInv
  <2>3. dai'.playback = "PAUSED" BY <2>1, MainTypes
  <2>. QED
    BY <1>2, <1>6, <2>1, <2>2, <2>3, WalkEnds DEF PlayPause, InState, DaiLive, Up1
<1>. QED BY <1>2, <1>3, <1>4, <1>5, <1>6

\* STOP: unless the wait of dw_dma_stop() times out the channel is at rest when
\* the port is stopped.
LEMMA StopSteps ==
  ASSUME StreamInv, LockInv, Main, pc.main.dir = "playback", pc.main.cmd = "STOP",
         PlayStop, upset' = {}
  PROVE  PlayInv'
<1>1. UNCHANGED <<host, drv, mixer>>
  BY MainPlace
     DEF PlayStop, dai_cmd, stop_schedule, stop_wait, ssp_trigger, ssp_unlock, ssp_wait,
         dai_state, compVars
<1>2. /\ ~Sounds' /\ ~Paused' /\ ~Prepared' /\ DaiLive
      /\ pc.main.at \in {"dma", "suspended", "stopping", "trigger", "locked", "draining",
                         "state"}
      /\ pc.irq.at = "idle"
  BY <1>1, SourcesKept, MainPlace DEF PlayStop
\* Before its last step.
<1>3. ASSUME NEW place \in {"suspended", "stopping", "trigger", "locked", "draining", "state"},
             Goes("main", place), dai' = dai,
             place \in {"trigger", "locked", "draining", "state"} => Rests(chan'.playback),
             place = "locked" => pc'.main.op = "stop"
      PROVE  PlayInv'
  <2>1. PlayStop' BY <1>2, <1>3 DEF PlayStop, Goes, DaiLive
  <2>. QED BY <1>2, <1>3, <2>1, WalkOn
<1>4. CASE pc.main.at = "dma"
  <2>1. dai_cmd("main") /\ Obeys(dai.playback, "STOP")
    BY <1>2, <1>4, MainPlace DEF Obeys, DaiLive
  <2>2. PICK drain \in BOOLEAN : drain = (dai.playback = "RUNNING") OBVIOUS
  <2>3. /\ GoTo("main", IF chan.playback.en THEN "suspended" ELSE "trigger") /\ dai' = dai
        /\ chan' = [chan EXCEPT !["playback"] = dw_dma_stop(chan.playback, drain)]
    BY <2>1, <2>2 DEF dai_cmd, compVars
  <2>4. ~chan.playback.en => Rests(chan'.playback) BY <2>3, MainTypes, RestOps
  <2>5. PICK place \in {"suspended", "trigger"} :
          GoTo("main", place) /\ (place = "trigger" => ~chan.playback.en)
    BY <2>3
  <2>6. Goes("main", place) BY <2>5, MainTypes, GoToGoes DEF StreamInv
  <2>. QED BY <1>3, <2>3, <2>4, <2>5, <2>6
<1>5. CASE pc.main.at = "suspended"
  <2>1. GoTo("main", "stopping") /\ dai' = dai
    BY <1>5, MainPlace DEF stop_schedule, compVars
  <2>2. Goes("main", "stopping") BY <2>1, MainTypes, GoToGoes DEF StreamInv
  <2>. QED BY <1>3, <2>1, <2>2
<1>6. CASE pc.main.at = "stopping"
  <2>1. /\ GoTo("main", "trigger") /\ dai' = dai /\ chan.playback.complete
        /\ chan' = [chan EXCEPT !["playback"] = [chan.playback EXCEPT !.complete = FALSE]]
    BY <1>6, MainPlace DEF stop_wait, compVars
  <2>2. Goes("main", "trigger") BY <2>1, MainTypes, GoToGoes DEF StreamInv
  <2>3. Rests(chan.playback)
    BY <1>6, <2>1 DEF LockInv, StopInv, Contexts, Rests
  <2>4. Rests(chan'.playback) BY <2>1, <2>3, MainTypes, KeepOps DEF Keeps
  <2>. QED BY <1>3, <2>1, <2>2, <2>4
<1>7. CASE pc.main.at = "trigger"
  <2>. DEFINE op == SspOp(ssp, "STOP", "playback")
  <2>1. /\ UNCHANGED <<dai, chan>>
        /\ \/ op = "none" /\ ssp' = ssp /\ Goes("main", "state")
           \/ op = "wait" /\ Goes("main", "draining")
           \/ /\ op \in {"start", "pause", "stop"} /\ ssp' = ssp
              /\ Goes("main", "locked") /\ pc'.main.op = op
    BY <1>7, MainPlace, MainTrigger DEF compVars
  <2>2. op \in {"none", "wait", "stop"} BY DEF SspOp
  <2>. HIDE DEF op
  <2>3. Rests(chan'.playback) BY <1>7, <2>1 DEF PlayStop
  <2>. QED BY <1>3, <2>1, <2>2, <2>3
<1>8. CASE pc.main.at = "locked"
  <2>1. UNCHANGED <<dai, chan>> /\ Goes("main", "state")
    BY <1>8, MainPlace, MainUnlock DEF compVars
  <2>2. Rests(chan'.playback) BY <1>8, <2>1 DEF PlayStop
  <2>. QED BY <1>3, <2>1, <2>2
<1>9. CASE pc.main.at = "draining"
  <2>1. GoTo("main", "state") /\ UNCHANGED <<dai, chan>>
    BY <1>9, MainPlace DEF ssp_wait, compVars
  <2>2. Goes("main", "state") BY <2>1, MainTypes, GoToGoes DEF StreamInv
  <2>3. Rests(chan'.playback) BY <1>9, <2>1 DEF PlayStop
  <2>. QED BY <1>3, <2>1, <2>2, <2>3
<1>10. CASE pc.main.at = "state"
  <2>1. /\ GoTo("main", "idle") /\ UNCHANGED <<chan, ssp>>
        /\ dai' = [dai EXCEPT !["playback"] = "SETUP"]
    BY <1>10, MainPlace DEF dai_state, After
  <2>2. Goes("main", "idle") BY <2>1, MainTypes, GoToGoes DEF StreamInv
  <2>3. dai'.playback = "SETUP" /\ Rests(chan'.playback)
    BY <1>10, <2>1, MainTypes DEF PlayStop
  <2>. QED BY <1>2, <2>2, <2>3, WalkEnds DEF InState, DaiLive
<1>. QED BY <1>2, <1>4, <1>5, <1>6, <1>7, <1>8, <1>9, <1>10

\* A DAI that stopped itself obeys no command; one that did not, all of it.
LEMMA PlayMain ==
  ASSUME StreamInv, LockInv, FlowInv, Main, pc.main.dir = "playback"
  PROVE  PlayInv'
<1>1. pc.irq.at = "idle" /\ Walks("playback") BY MainPlace DEF Walks
<1>2. upset \subseteq upset' /\ upset' \subseteq upset \cup {"late"} /\ upset \subseteq Events
  BY DEF Main, Step, dai_cmd, stop_schedule, stop_wait, ssp_trigger, ssp_unlock,
         ssp_wait, dai_release, dai_state, trigger_host, StreamInv, TypeOK
<1>3. CASE ~Calm' BY <1>3 DEF PlayInv, PlayRests, PlayEos, PlayWalks, Calm
<1>4. CASE Calm' /\ "eos" \in upset
  <2>1. Calm BY <1>2, <1>4 DEF Calm
  <2>2. /\ dai.playback \in {"INIT", "SETUP"} /\ pc.main.at = "dma"
        /\ Rests(chan.playback)
    BY <1>1, <1>4, <2>1 DEF FlowInv, PlayInv, PlayEos
  <2>3. dai_cmd("main") BY <2>2, MainPlace
  <2>4. pc.main.cmd \in Commands BY DEF StreamInv, TypeOK, Pc
  <2>5. ~Obeys(dai.playback, pc.main.cmd) BY <2>2, <2>4 DEF Obeys, Commands
  <2>6. GoTo("main", "idle") /\ UNCHANGED <<dai, chan, upset>>
    BY <2>2, <2>3, <2>5 DEF dai_cmd, After, compVars
  <2>7. Goes("main", "idle") BY <2>6, MainTypes, GoToGoes DEF StreamInv
  <2>8. pc'.irq.at = "idle" /\ ~Walks("playback")'
    BY <1>1, <2>7 DEF Goes, Contexts, Walks
  <2>9. PlayRests' /\ PlayEos' /\ PlayWalks'
    BY <1>4, <2>2, <2>6, <2>8 DEF PlayRests, PlayEos, PlayWalks, InState, DaiLive
  <2>. QED BY <2>9 DEF PlayInv
<1>5. CASE Calm' /\ "eos" \notin upset
  <2>1. upset = {} /\ upset' = {} BY <1>2, <1>5 DEF Calm, Events
  <2>2. /\ pc.main.cmd = "START" => PlayStart
        /\ pc.main.cmd = "RELEASE" => PlayRelease
        /\ pc.main.cmd = "PAUSE" => PlayPause
        /\ pc.main.cmd = "STOP" => PlayStop
    BY <1>1, <2>1 DEF FlowInv, PlayInv, PlayWalks
  <2>3. pc.main.cmd \in Commands BY DEF StreamInv, TypeOK, Pc
  <2>4. Steady(ssp) BY DEF FlowInv, PortInv
  <2>. QED BY <2>1, <2>2, <2>3, <2>4, StartStep, ReleaseSteps, PauseSteps, StopSteps
              DEF Commands
<1>. QED BY <1>3, <1>4, <1>5

-----------------------------------------------------------------------------
(* Theorems *)

\* Every step of the specification preserves the invariant.
LEMMA FlowNext == StreamInv /\ LockInv /\ FlowInv /\ [Next]_vars => FlowInv'
<1>. SUFFICES ASSUME StreamInv, LockInv, FlowInv, [Next]_vars PROVE FlowInv' OBVIOUS
<1>1. CASE dai_config BY <1>1, FlowConfig
<1>2. CASE \E s \in Streams : pcm_params(s) \/ pcm_free(s) \/ prepare(s)
  BY <1>2, FlowParams, FlowPrepare
<1>3. CASE \E s \in Playback, cmd \in Commands : trigger_playback(s, cmd)
  BY <1>3, FlowPlayback
<1>4. CASE \E s \in Capture, cmd \in Commands : trigger_capture(s, cmd)
  BY <1>4, FlowCapture
<1>5. CASE Main
  <2>1. pc.main.dir \in Dirs BY DEF StreamInv, TypeOK, Pc
  <2>2. CASE pc.main.dir = "playback" BY <1>5, <2>2, PortMain, PlayMain DEF FlowInv
  <2>3. CASE pc.main.dir = "capture"
    BY <1>5, <2>3, PortMain, PlayCapture DEF FlowInv, Main
  <2>. QED BY <2>1, <2>2, <2>3 DEF Dirs
<1>6. CASE Step("irq") BY <1>6, FlowEos
<1>7. CASE \E d \in Dirs : dma_irq(d) \/ fifo_work(d) \/ transfer_done(d)
  BY <1>7, FlowIrq, FlowWork
<1>8. CASE drain_work BY <1>8, FlowDrain
<1>9. CASE UNCHANGED vars
  <2>1. UNCHANGED <<host, drv, mixer, dai, elems, chan, ssp, pc, upset>>
    BY <1>9 DEF vars, compVars
  <2>2. Apart BY <2>1 DEF Apart
  <2>3. Keeps(chan.playback, chan'.playback) BY <2>1, MainTypes, KeepOps
  <2>4. PlayInv' BY <2>1, <2>2, <2>3, PlayFrame DEF FlowInv, Walks
  <2>5. PortInv' BY <2>1, PortFrame DEF FlowInv
  <2>. QED BY <2>4, <2>5 DEF FlowInv
<1>10. Halted => UNCHANGED vars BY DEF Halted
<1>. QED
  BY <1>1, <1>2, <1>3, <1>4, <1>5, <1>6, <1>7, <1>8, <1>9, <1>10 DEF Next

\* The inductive invariant, with those of StreamProofs and StreamLockProofs.
THEOREM FlowInvariant == Spec => [](StreamInv /\ LockInv /\ FlowInv)
<1>1. Init => StreamInv /\ LockInv /\ FlowInv BY InitInv, LockInit, FlowInit
<1>2. StreamInv /\ LockInv /\ FlowInv /\ [Next]_vars => (StreamInv /\ LockInv /\ FlowInv)'
  BY NextInv, LockNext, FlowNext
<1>. QED BY <1>1, <1>2, PTL DEF Spec

\* Whatever sequence of starts, pauses, releases and stops of any number of
\* mixed streams came before (mixer_cmd(), dai_cmd()), with the interrupts and
\* works of both DAIs between any two steps of a command: a playback stream that
\* the host was told is running is heard, none of the rare events having
\* happened.
THEOREM PlaybackIsHeard == Spec => []PlaybackFlows
<1>1. StreamInv /\ LockInv /\ FlowInv => PlaybackFlows
  <2>. SUFFICES ASSUME StreamInv, LockInv, FlowInv, AtRest, upset = {}, Sounds
                PROVE  Flows("playback")
    BY DEF PlaybackFlows, Sounds
  <2>1. Calm /\ ~Walks("playback") /\ pc.irq.at = "idle"
    BY DEF Calm, AtRest, Walks
  <2>2. InState("playback") /\ (DaiLive => Up1) /\ dai.playback = "RUNNING"
    BY <2>1 DEF FlowInv, PlayInv, PlayRests
  <2>3. Moves(chan.playback) /\ Up1 BY <2>2 DEF InState, DaiLive
  <2>. QED BY <2>2, <2>3 DEF Flows, Moves, Up1, FlowInv, PortInv, Steady
<1>. QED BY <1>1, FlowInvariant, PTL

-----------------------------------------------------------------------------
(***************************************************************************)
(* Capture, whatever playback does on the other side of the port.          *)
(***************************************************************************)

\* A DAI feeds one capture stream: dai.c takes the first of its sink buffers
\* wherever it uses one, so a second would get no data.
OneCapture == \A s, t \in Capture : s = t

-----------------------------------------------------------------------------
(* The inductive invariant of capture *)

CapUp == ssp.state.capture \in {"RUNNING", "PAUSED"}
CapLive == dai.capture \in {"RUNNING", "PAUSED"}

\* The capture side is PAUSING only while the main loop waits for the drain
\* work, and was not told of its completion.
CapPort ==
  ("late" \notin upset /\ ssp.state.capture = "PAUSING") =>
    ~ssp.complete /\ pc.main.at = "draining" /\ Walks("capture")

\* Between commands the DAI is in the state of the host component.
AsHost(s) ==
  /\ drv[s] = "closed" => dai.capture = "INIT"
  /\ host[s] = "RUNNING" => dai.capture = "RUNNING"
  /\ host[s] = "PAUSED" => dai.capture = "PAUSED"
  /\ host[s] = "PREPARE" /\ drv[s] = "ready" => dai.capture = "PREPARE"
  /\ host[s] \in {"INIT", "SETUP", "PREPARE"} => ~CapLive

CapRests ==
  ("late" \notin upset /\ ~Walks("capture")) =>
    /\ InState("capture") /\ (CapLive => CapUp)
    /\ \A s \in Capture : AsHost(s)

\* During a command: the host component is the last to change.
CapStart ==
  /\ host[job] = "PREPARE" /\ ssp.state.capture # "INIT"
  /\ pc.main.at \in {"dma", "trigger", "locked", "state", "host"}
  /\ pc.main.at = "dma" => Rests(chan.capture) /\ chan.capture.lli
  /\ pc.main.at # "dma" => Moves(chan.capture)
  /\ dai.capture = IF pc.main.at = "host" THEN "RUNNING" ELSE "PREPARE"
  /\ pc.main.at = "locked" => pc.main.op = "start"
  /\ pc.main.at \in {"state", "host"} => CapUp

CapRelease ==
  /\ host[job] = "PAUSED" /\ CapUp
  /\ pc.main.at \in {"dma", "trigger", "locked", "release", "state", "host"}
  /\ pc.main.at \in {"state", "host"} => Moves(chan.capture)
  /\ pc.main.at \notin {"state", "host"} => Pauses(chan.capture)
  /\ dai.capture = IF pc.main.at = "host" THEN "RUNNING" ELSE "PAUSED"
  /\ pc.main.at = "locked" => pc.main.op = "start"

CapPause ==
  /\ host[job] = "RUNNING"
  /\ pc.main.at \in {"dma", "trigger", "draining", "state", "host"}
  /\ pc.main.at = "dma" => Moves(chan.capture)
  /\ pc.main.at # "dma" => Pauses(chan.capture)
  /\ dai.capture = IF pc.main.at = "host" THEN "PAUSED" ELSE "RUNNING"
  /\ CapUp \/ (pc.main.at = "draining" /\ ssp.state.capture = "PAUSING")

CapStop ==
  /\ host[job] \in {"RUNNING", "PAUSED"}
  /\ pc.main.at \in {"dma", "suspended", "stopping", "trigger", "locked", "state", "host"}
  /\ pc.main.at = "dma" => InState("capture")
  /\ IF pc.main.at = "host" THEN dai.capture = "SETUP" ELSE CapLive
  /\ pc.main.at \in {"trigger", "locked", "state", "host"} => Rests(chan.capture)
  /\ pc.main.at = "locked" => pc.main.op = "stop"

CapWalks ==
  ("late" \notin upset /\ Walks("capture")) =>
    /\ pc.main.cmd = "START" => CapStart
    /\ pc.main.cmd = "RELEASE" => CapRelease
    /\ pc.main.cmd = "PAUSE" => CapPause
    /\ pc.main.cmd = "STOP" => CapStop

CapInv == CapPort /\ CapRests /\ CapWalks

LEMMA CapInit == Init => CapInv
<1>. SUFFICES ASSUME Init PROVE CapInv OBVIOUS
<1>1. /\ Rests(chan.capture) /\ dai.capture = "INIT" /\ ~Walks("capture")
      /\ ssp.state.capture = "INIT"
  BY DEF Init, NewChannel, NewPort, Rests, Walks, Idle, Dirs
<1>2. \A s \in Capture : drv[s] = "closed" /\ host[s] = "INIT"
  BY DEF Init, Streams
<1>. QED
  BY <1>1, <1>2 DEF CapInv, CapPort, CapRests, CapWalks, InState, CapLive, AsHost

\* Steps that leave the capture streams and their DAI alone, and at most move
\* its channel on or end the wait for the drain work.
LEMMA CapFrame ==
  ASSUME CapInv,
         \A s \in Capture : host'[s] = host[s] /\ drv'[s] = drv[s],
         job \in Capture, job' = job, dai'.capture = dai.capture,
         Keeps(chan.capture, chan'.capture),
         \/ ssp'.state.capture = ssp.state.capture /\ (ssp'.complete => ssp.complete)
         \/ ssp'.state.capture = "PAUSED"
         \/ ssp'.state.capture = ssp.state.capture /\ ~Walks("capture"),
         \/ pc'.main = pc.main
         \/ ~Walks("capture") /\ ~Walks("capture")',
         upset \subseteq upset'
  PROVE  CapInv'
<1>1. "late" \notin upset' => "late" \notin upset OBVIOUS
<1>2. (CapUp => CapUp') /\ (CapLive' <=> CapLive) BY DEF CapUp, CapLive
<1>3. InState("capture") => InState("capture")' BY DEF InState, Keeps
<1>4. Walks("capture")' <=> Walks("capture") BY DEF Walks
<1>5. CapPort' BY <1>1, <1>4 DEF CapInv, CapPort, Walks
<1>6. CapRests' BY <1>1, <1>2, <1>3, <1>4 DEF CapInv, CapRests, AsHost
<1>7. CapWalks'
  <2>. SUFFICES ASSUME "late" \notin upset', Walks("capture") PROVE CapWalks'
    BY <1>4 DEF CapWalks
  <2>0. "late" \notin upset /\ pc'.main = pc.main BY <1>1
  <2>1. CapStart => CapStart' BY <1>2, <2>0 DEF CapStart, Keeps
  <2>2. CapRelease => CapRelease' BY <1>2, <2>0 DEF CapRelease, Keeps
  <2>3. CapPause => CapPause' BY <1>2, <2>0 DEF CapPause, Keeps, CapUp
  <2>4. CapStop => CapStop' BY <1>2, <1>3, <2>0 DEF CapStop, Keeps
  <2>. QED BY <2>0, <2>1, <2>2, <2>3, <2>4 DEF CapInv, CapWalks
<1>. QED BY <1>5, <1>6, <1>7 DEF CapInv

\* The facts that the lemmas share.
LEMMA CapTypes ==
  StreamInv => /\ "main" \in Contexts /\ "irq" \in Contexts
               /\ "capture" \in Dirs /\ "playback" \in Dirs
               /\ chan.capture \in Channels /\ job \in Capture
               /\ chan \in [Dirs -> Channels] /\ dai \in [Dirs -> States]
               /\ ssp \in Ports /\ ssp.state \in [Dirs -> PortStates]
               /\ host \in [Streams -> States] /\ pc \in [Contexts -> Pc]
               /\ drv \in [Streams -> {"closed", "open", "ready"}]
               /\ \A s \in Capture : s \in Streams /\ s \notin Playback /\ Dir(s) = "capture"
               /\ {"idle", "suspended", "stopping", "trigger", "draining", "release",
                   "state", "host"} \subseteq Places
BY StreamConstants
   DEF StreamConstants, StreamInv, TypeOK, Contexts, Dirs, Ports, Places, Streams, Dir

-----------------------------------------------------------------------------
(* Commands of the host *)

\* Nothing of a command is under way afterwards either.
LEMMA ReadyCap ==
  ASSUME Ready, pc' = pc,
         "late" \notin upset' => /\ InState("capture")' /\ (CapLive' => CapUp')
                                 /\ \A s \in Capture : AsHost(s)'
                                 /\ ssp'.state.capture # "PAUSING"
  PROVE  CapInv'
<1>1. pc'.main.at = "idle" BY ReadyFacts
<1>. QED BY <1>1 DEF CapInv, CapPort, CapRests, CapWalks, Walks

LEMMA CapReady ==
  ASSUME CapInv, Ready, "late" \notin upset
  PROVE  /\ InState("capture") /\ (CapLive => CapUp)
         /\ \A s \in Capture : AsHost(s)
         /\ ssp.state.capture # "PAUSING"
BY ReadyFacts DEF CapInv, CapPort, CapRests, Walks

\* A DAI that is not live is at rest.
LEMMA CapQuiet ==
  ASSUME StreamInv, InState("capture"), ~CapLive
  PROVE  Rests(chan.capture)
<1>1. dai.capture \in States BY CapTypes
<1>. QED BY <1>1 DEF CapLive, InState, States

LEMMA CapConfig ==
  ASSUME StreamInv, LockInv, CapInv, dai_config
  PROVE  CapInv'
<1>1. /\ Ready /\ Open = {} /\ UNCHANGED <<compVars, chan, job, pc, upset, fault>>
      /\ ssp' = ssp_set_config(ssp)
  BY DEF dai_config
<1>. SUFFICES ASSUME "late" \notin upset
     PROVE  /\ InState("capture")' /\ (CapLive' => CapUp')
            /\ \A s \in Capture : AsHost(s)'
            /\ ssp'.state.capture # "PAUSING"
  BY <1>1, ReadyCap
<1>2. /\ InState("capture") /\ \A s \in Capture : AsHost(s)
      /\ ssp.state.capture # "PAUSING"
  BY <1>1, CapReady
<1>3. dai.capture = "INIT"
  <2>1. drv[job] = "closed" BY <1>1, CapTypes DEF Open
  <2>. QED BY <1>2, <2>1, CapTypes DEF AsHost
<1>4. ssp'.state.capture # "PAUSING"
  BY <1>1, <1>2, CapTypes DEF ssp_set_config, Ports
<1>. QED BY <1>1, <1>2, <1>3, <1>4 DEF InState, AsHost, CapLive, compVars

\* The DAI is reset with its stream.
LEMMA CapReset ==
  ASSUME OneCapture, StreamInv, LockInv, CapInv, Ready, NEW s \in Capture, ResetStream(s),
         host[s] \notin {"RUNNING", "PAUSED"},
         UNCHANGED <<chan, ssp, job, pc, upset, fault>>
  PROVE  CapInv'
<1>1. /\ host' = [host EXCEPT ![s] = "INIT"] /\ drv' = [drv EXCEPT ![s] = "closed"]
      /\ dai' = [dai EXCEPT !["capture"] = "INIT"]
  BY CapTypes DEF ResetStream
<1>2. host'[s] = "INIT" /\ dai'.capture = "INIT" BY <1>1, CapTypes
<1>. SUFFICES ASSUME "late" \notin upset
     PROVE  /\ InState("capture")' /\ (CapLive' => CapUp')
            /\ \A t \in Capture : AsHost(t)'
            /\ ssp'.state.capture # "PAUSING"
  BY ReadyCap
<1>3. Rests(chan.capture) /\ ssp.state.capture # "PAUSING"
  <2>1. InState("capture") /\ AsHost(s) /\ ssp.state.capture # "PAUSING" BY CapReady
  <2>2. host[s] \in {"INIT", "SETUP", "PREPARE"} BY CapTypes DEF States
  <2>. QED BY <2>1, <2>2, CapQuiet DEF AsHost
<1>4. \A t \in Capture : t = s BY DEF OneCapture
<1>. QED BY <1>2, <1>3, <1>4 DEF InState, CapLive, AsHost

LEMMA CapParams ==
  ASSUME OneCapture, StreamInv, LockInv, CapInv, NEW s \in Streams, pcm_params(s) \/ pcm_free(s)
  PROVE  CapInv'
<1>1. Ready /\ UNCHANGED <<chan, ssp, job, pc, upset, fault>>
  BY DEF pcm_params, pcm_free
<1>2. host[s] \notin {"RUNNING", "PAUSED"}
  <2>1. CASE pcm_params(s)
    <3>1. drv[s] = "closed" BY <2>1 DEF pcm_params, Open
    <3>. QED BY <3>1 DEF LockInv, MixInv
  <2>2. CASE pcm_free(s) BY <2>2 DEF pcm_free
  <2>. QED BY <2>1, <2>2
<1>3. CASE s \in Playback
  <2>1. \A t \in Capture : host'[t] = host[t] /\ drv'[t] = drv[t]
    BY <1>3, CapTypes DEF pcm_params, pcm_free, ResetStream
  <2>2. dai'.capture = dai.capture
    BY <1>3, CapTypes DEF pcm_params, pcm_free, ResetStream, Dir
  <2>3. Keeps(chan.capture, chan'.capture) BY <1>1, CapTypes, KeepOps
  <2>. QED BY <1>1, <2>1, <2>2, <2>3, CapTypes, CapFrame
<1>4. CASE s \in Capture /\ ResetStream(s) BY <1>1, <1>2, <1>4, CapReset
<1>5. CASE s \in Capture /\ ~ResetStream(s)
  <2>1. /\ UNCHANGED <<host, dai>> /\ drv' = [drv EXCEPT ![s] = "open"]
        /\ drv[s] = "closed" /\ dai.capture = "INIT"
    BY <1>5, CapTypes DEF pcm_params, pcm_free, Open
  <2>. SUFFICES ASSUME "late" \notin upset
       PROVE  /\ InState("capture")' /\ (CapLive' => CapUp')
              /\ \A t \in Capture : AsHost(t)'
              /\ ssp'.state.capture # "PAUSING"
    BY <1>1, ReadyCap
  <2>2. InState("capture") /\ AsHost(s) /\ ssp.state.capture # "PAUSING"
    BY <1>1, <1>5, CapReady
  <2>3. \A t \in Capture : t = s BY <1>5 DEF OneCapture
  <2>4. drv'[s] = "open" /\ host[s] = "INIT"
    BY <2>1, <1>5, CapTypes DEF LockInv, MixInv
  <2>. QED BY <1>1, <2>1, <2>2, <2>3, <2>4 DEF InState, CapLive, AsHost
<1>. QED BY <1>3, <1>4, <1>5 DEF Streams

LEMMA CapPrepare ==
  ASSUME OneCapture, StreamInv, LockInv, CapInv, NEW s \in Streams, prepare(s)
  PROVE  CapInv'
<1>. DEFINE ok == elems["capture"]
<1>1. /\ Ready /\ UNCHANGED <<elems, ssp, job, pc, fault>>
      /\ host' = [host EXCEPT ![s] = "PREPARE"]
      /\ s \in Open /\ host[s] \in {"INIT", "SETUP", "PREPARE"}
  BY DEF prepare
<1>2. CASE s \in Playback
  <2>1. \A t \in Capture : host'[t] = host[t] /\ drv'[t] = drv[t]
    BY <1>2, CapTypes DEF prepare
  <2>2. dai'.capture = dai.capture /\ chan'.capture = chan.capture
    BY <1>2, CapTypes DEF prepare, Dir
  <2>3. Keeps(chan.capture, chan'.capture) BY <2>2, CapTypes, KeepOps
  <2>4. ~Walks("capture") /\ ~Walks("capture")' BY <1>1, ReadyFacts DEF Walks
  <2>5. "late" \notin upset' => "late" \notin upset BY DEF prepare
  <2>6. CASE "late" \in upset' BY <2>6 DEF CapInv, CapPort, CapRests, CapWalks
  <2>7. CASE "late" \notin upset'
    <3>1. /\ InState("capture") /\ (CapLive => CapUp) /\ (\A t \in Capture : AsHost(t))
          /\ ssp.state.capture # "PAUSING"
      BY <1>1, <2>5, <2>7, CapReady
    <3>2. /\ InState("capture")' /\ (CapLive' => CapUp') /\ \A t \in Capture : AsHost(t)'
      BY <1>1, <2>1, <2>2, <3>1 DEF InState, CapLive, CapUp, AsHost
    <3>. QED BY <1>1, <3>1, <3>2, ReadyCap
  <2>. QED BY <2>6, <2>7
<1>3. CASE s \in Capture
  <2>1. /\ upset' = upset /\ drv' = [drv EXCEPT ![s] = IF ok THEN "ready" ELSE "open"]
        /\ ~ok => UNCHANGED <<dai, chan>>
        /\ ok => /\ chan' = [chan EXCEPT !["capture"] = dw_dma_set_config(@)]
                 /\ dai' = [dai EXCEPT !["capture"] = "PREPARE"]
    BY <1>3, CapTypes DEF prepare
  <2>2. host'[s] = "PREPARE" /\ drv'[s] = IF ok THEN "ready" ELSE "open"
    BY <1>1, <1>3, <2>1, CapTypes
  <2>3. \A t \in Capture : t = s BY <1>3 DEF OneCapture
  <2>. HIDE DEF ok
  <2>. SUFFICES ASSUME "late" \notin upset
       PROVE  /\ InState("capture")' /\ (CapLive' => CapUp')
              /\ \A t \in Capture : AsHost(t)'
              /\ ssp'.state.capture # "PAUSING"
    BY <1>1, <2>1, ReadyCap
  <2>4. InState("capture") /\ ~CapLive /\ ssp.state.capture # "PAUSING"
    BY <1>1, <1>3, CapReady DEF AsHost
  <2>5. Rests(chan.capture) BY <2>4, CapQuiet
  <2>6. CASE ok
    <3>1. /\ dai'.capture = "PREPARE"
          /\ chan'.capture = dw_dma_set_config(chan.capture)
      BY <2>1, <2>6, CapTypes
    <3>2. Rests(chan'.capture) /\ chan'.capture.lli BY <2>5, <3>1, CapTypes, RestOps
    <3>. QED BY <1>1, <2>2, <2>3, <2>4, <2>6, <3>1, <3>2 DEF InState, CapLive, AsHost
  <2>7. CASE ~ok
    BY <1>1, <2>1, <2>2, <2>3, <2>4, <2>7 DEF InState, CapLive, AsHost
  <2>. QED BY <2>6, <2>7
<1>. QED BY <1>2, <1>3 DEF Streams

LEMMA CapPlayback ==
  ASSUME StreamInv, CapInv, NEW s \in Playback, NEW cmd \in Commands,
         trigger_playback(s, cmd)
  PROVE  CapInv'
<1>1. /\ Ready /\ UNCHANGED <<dai, elems, chan, ssp, job, fault>> /\ upset \subseteq upset'
      /\ pc' = pc \/ pc' = AtDai(cmd, "playback")
      /\ host' = [host EXCEPT ![s] = HostState(@, cmd)]
      /\ drv' = drv \/ drv' = [drv EXCEPT ![s] = "open"]
  BY DEF trigger_playback
<1>2. \A t \in Capture : host'[t] = host[t] /\ drv'[t] = drv[t] BY <1>1, CapTypes
<1>3. ~Walks("capture") /\ ~Walks("capture")'
  BY <1>1, ReadyFacts, AtDaiFacts, CapTypes DEF Walks, StreamInv
<1>4. Keeps(chan.capture, chan'.capture) BY <1>1, CapTypes, KeepOps
<1>. QED BY <1>1, <1>2, <1>3, <1>4, CapTypes, CapFrame

\* pipeline_cmd() finds the DAI in the state of the host component.
LEMMA CapCapture ==
  ASSUME StreamInv, LockInv, FlowInv, CapInv, NEW s \in Capture, NEW cmd \in Commands,
         trigger_capture(s, cmd)
  PROVE  CapInv'
<1>1. /\ Ready /\ UNCHANGED <<host, mixer, dai, elems, chan, ssp, upset, fault>>
      /\ pc' = AtDai(cmd, "capture") /\ cmd \in Allowed(s) /\ job' = s
      /\ drv' = IF cmd = "STOP" THEN [drv EXCEPT ![s] = "open"] ELSE drv
  BY DEF trigger_capture
<1>2. pc'.main.at = "dma" /\ pc'.main.cmd = cmd /\ pc'.main.dir = "capture"
  BY <1>1, AtDaiFacts, CapTypes DEF StreamInv
<1>3. Walks("capture")' BY <1>2 DEF Walks
<1>. SUFFICES ASSUME "late" \notin upset PROVE CapInv'
  BY <1>1 DEF CapInv, CapPort, CapRests, CapWalks
<1>4. /\ InState("capture") /\ (CapLive => CapUp) /\ AsHost(s)
      /\ ssp.state.capture # "PAUSING"
  BY <1>1, CapReady
<1>5. ssp.state.capture # "INIT"
  <2>1. drv[s] # "closed" BY <1>1 DEF Allowed, LockInv, MixInv, Streams
  <2>. QED BY <2>1, CapTypes DEF FlowInv, PortInv
<1>6. /\ cmd = "START" => host[s] = "PREPARE" /\ drv[s] = "ready"
      /\ cmd = "RELEASE" => host[s] = "PAUSED"
      /\ cmd = "PAUSE" => host[s] = "RUNNING"
      /\ cmd = "STOP" => host[s] \in {"RUNNING", "PAUSED"}
  BY <1>1 DEF Allowed
<1>7. /\ cmd = "START" => CapStart'
      /\ cmd = "RELEASE" => CapRelease'
      /\ cmd = "PAUSE" => CapPause'
      /\ cmd = "STOP" => CapStop'
  <2>1. cmd = "START" => CapStart'
    BY <1>1, <1>2, <1>4, <1>5, <1>6 DEF CapStart, AsHost, InState
  <2>2. cmd = "RELEASE" => CapRelease'
    BY <1>1, <1>2, <1>4, <1>6 DEF CapRelease, AsHost, InState, CapLive, CapUp
  <2>3. cmd = "PAUSE" => CapPause'
    BY <1>1, <1>2, <1>4, <1>6 DEF CapPause, AsHost, InState, CapLive, CapUp
  <2>4. cmd = "STOP" => CapStop'
    BY <1>1, <1>2, <1>4, <1>6 DEF CapStop, AsHost, InState, CapLive
  <2>. QED BY <2>1, <2>2, <2>3, <2>4
<1>. QED BY <1>1, <1>2, <1>3, <1>4, <1>7 DEF CapInv, CapPort, CapRests, CapWalks

-----------------------------------------------------------------------------
(* Playback and interrupts *)

\* A playback DAI that stops itself moves nothing of the main loop, and tells
\* nobody that the drain work has completed.
LEMMA IrqKeeps ==
  ASSUME StreamInv, LockInv, Step("irq")
  PROVE  pc'.main = pc.main /\ (ssp'.complete => ssp.complete)
<1>1. pc.irq.at # "idle"
  BY DEF Step, dai_cmd, stop_schedule, stop_wait, ssp_trigger, ssp_wait, dai_state
<1>2. pc.irq.cmd = "STOP" /\ pc.irq.dir = "playback" BY <1>1 DEF LockInv, IrqInv
<1>3. CASE dai_cmd("irq") \/ stop_schedule("irq") \/ stop_wait("irq") \/ dai_state("irq")
  <2>1. pc'.main = pc.main BY <1>3, CapTypes, StepGoes DEF Goes, Contexts
  <2>2. ssp' = ssp BY <1>3 DEF dai_cmd, stop_schedule, stop_wait, dai_state
  <2>. QED BY <2>1, <2>2
<1>4. CASE ssp_wait("irq")
  <2>1. pc'.main = pc.main BY <1>4, CapTypes, StepGoes DEF Goes, Contexts
  <2>2. ssp' = [ssp EXCEPT !.complete = FALSE] BY <1>4 DEF ssp_wait
  <2>. QED BY <2>1, <2>2, CapTypes DEF Ports
<1>5. CASE ssp_trigger("irq")
  <2>. DEFINE op == SspOp(ssp, "STOP", "playback")
  <2>1. op \in {"none", "wait", "stop"} BY DEF SspOp
  <2>2. \/ pc' = pc /\ ssp' = ssp
        \/ \E place \in {"draining", "state"} :
             /\ GoTo("irq", place)
             /\ \/ ssp' = ssp
                \/ ssp' = SspWait(ssp, "playback")
                \/ op = "stop" /\ ssp' = SspApply(ssp, op, "playback")
    BY <1>2, <1>5, <2>1 DEF ssp_trigger, Triggered
  <2>. HIDE DEF op
  <2>3. pc'.main = pc.main BY <2>2, CapTypes, GoToGoes DEF Goes, Contexts, StreamInv
  <2>4. /\ ~SspWait(ssp, "playback").complete
        /\ SspApply(ssp, "stop", "playback").complete = ssp.complete
    BY CapTypes, WorkOps
  <2>. QED BY <2>2, <2>3, <2>4
<1>. QED BY <1>3, <1>4, <1>5 DEF Step

LEMMA CapEos ==
  ASSUME StreamInv, LockInv, CapInv, Step("irq")
  PROVE  CapInv'
<1>1. pc.irq.dir = "playback"
  BY DEF LockInv, IrqInv, Step, dai_cmd, stop_schedule, stop_wait, ssp_trigger,
         ssp_wait, dai_state
<1>2. /\ dai'.capture = dai.capture /\ chan'.capture = chan.capture
      /\ ssp'.state.capture = ssp.state.capture
      /\ UNCHANGED <<host, drv, job>> /\ upset \subseteq upset'
  BY <1>1, CapTypes, OtherSide
<1>3. pc'.main = pc.main /\ (ssp'.complete => ssp.complete) BY IrqKeeps
<1>4. Keeps(chan.capture, chan'.capture) BY <1>2, CapTypes, KeepOps
<1>. QED BY <1>2, <1>3, <1>4, CapTypes, CapFrame

\* A command for the playback DAI.
LEMMA CapMainPlay ==
  ASSUME StreamInv, LockInv, CapInv, Main, pc.main.dir = "playback"
  PROVE  CapInv'
<1>1. ~Walks("capture") BY DEF Walks
<1>2. ASSUME dai'.capture = dai.capture, chan'.capture = chan.capture,
             ssp'.state.capture = ssp.state.capture,
             UNCHANGED <<host, drv, job>>, upset \subseteq upset',
             NEW place, Goes("main", place)
      PROVE  CapInv'
  <2>1. ~Walks("capture")' BY <1>2 DEF Goes, Walks
  <2>2. Keeps(chan.capture, chan'.capture) BY <1>2, CapTypes, KeepOps
  <2>. QED BY <1>1, <1>2, <2>1, <2>2, CapTypes, CapFrame
<1>3. CASE Step("main")
  <2>1. PICK place \in Places : Goes("main", place) BY <1>3, MainGoes
  <2>. QED BY <1>2, <1>3, <2>1, CapTypes, OtherSide
<1>4. CASE ssp_unlock
  <2>1. /\ UNCHANGED <<compVars, chan, upset>>
        /\ Goes("main", IF pc.main.cmd = "RELEASE" THEN "release" ELSE "state")
        /\ ssp'.state = [ssp.state EXCEPT !["playback"] = OpState(pc.main.op)]
    BY <1>4, MainUnlock
  <2>2. UNCHANGED <<host, drv, job, dai>> BY <1>4 DEF ssp_unlock, compVars
  <2>3. ssp'.state.capture = ssp.state.capture BY <2>1, CapTypes
  <2>. QED BY <1>2, <2>1, <2>2, <2>3
<1>5. CASE dai_release
  <2>1. /\ GoTo("main", "state") /\ UNCHANGED <<host, drv, job, dai, ssp, upset>>
        /\ chan' = [chan EXCEPT !["playback"] = dw_dma_release(@)]
    BY <1>5 DEF dai_release, compVars
  <2>2. Goes("main", "state") BY <2>1, CapTypes, GoToGoes DEF StreamInv
  <2>3. chan'.capture = chan.capture BY <2>1, CapTypes
  <2>. QED BY <1>2, <2>1, <2>2, <2>3
<1>6. ~trigger_host BY DEF trigger_host, LockInv, MixInv, Walks
<1>. QED BY <1>3, <1>4, <1>5, <1>6 DEF Main

LEMMA CapWork ==
  ASSUME StreamInv, CapInv, NEW d \in Dirs, fifo_work(d) \/ transfer_done(d)
  PROVE  CapInv'
<1>1. UNCHANGED <<compVars, ssp, job, pc, upset, fault>> /\ chan[d] \in Channels
  BY CapTypes DEF fifo_work, transfer_done
<1>2. Keeps(chan[d], chan'[d])
  <2>1. CASE fifo_work(d)
    <3>1. PICK empty \in BOOLEAN : chan' = [chan EXCEPT ![d] = dw_dma_fifo_work(@, empty)]
      BY <2>1 DEF fifo_work
    <3>2. chan'[d] = dw_dma_fifo_work(chan[d], empty) BY <3>1, CapTypes
    <3>. QED BY <1>1, <3>2, KeepOps
  <2>2. CASE transfer_done(d)
    <3>1. /\ chan[d].en
          /\ chan' = [chan EXCEPT ![d] = [[chan[d] EXCEPT !.en = FALSE] EXCEPT !.tfr = TRUE]]
      BY <2>2 DEF transfer_done
    <3>2. chan'[d] = [[chan[d] EXCEPT !.en = FALSE] EXCEPT !.tfr = TRUE] BY <3>1, CapTypes
    <3>. QED BY <1>1, <3>1, <3>2, KeepOps
  <2>. QED BY <2>1, <2>2
<1>3. \A e \in Dirs \ {d} : chan'[e] = chan[e]
  BY CapTypes DEF fifo_work, transfer_done
<1>4. Keeps(chan.capture, chan'.capture)
  <2>1. CASE d = "capture" BY <1>2, <2>1
  <2>2. CASE d # "capture"
    <3>1. chan'.capture = chan.capture BY <1>3, <2>2, CapTypes
    <3>. QED BY <3>1, CapTypes, KeepOps
  <2>. QED BY <2>1, <2>2
<1>. QED BY <1>1, <1>4, CapTypes, CapFrame DEF compVars

\* A capture DAI does not stop itself.
LEMMA CapIrq ==
  ASSUME StreamInv, CapInv, NEW d \in Dirs, dma_irq(d)
  PROVE  CapInv'
<1>. DEFINE c == chan[d]
<1>1. /\ UNCHANGED <<compVars, ssp, job, fault>> /\ c \in Channels
      /\ upset \subseteq upset'
  BY CapTypes DEF dma_irq
<1>2. pc'.main = pc.main
  <2>. DEFINE to == [Idle EXCEPT !.at = "dma"]
  <2>1. pc' = pc \/ pc' = [pc EXCEPT !["irq"] = to] BY DEF dma_irq
  <2>. HIDE DEF to
  <2>. QED BY <2>1, CapTypes
<1>3. Keeps(chan.capture, chan'.capture)
  <2>1. CASE d = "playback"
    <3>1. \E t : chan' = [chan EXCEPT !["playback"] = t] BY <2>1 DEF dma_irq
    <3>2. chan'.capture = chan.capture BY <3>1, CapTypes
    <3>. QED BY <3>2, CapTypes, KeepOps
  <2>2. CASE d = "capture" /\ ~Served(c)
    <3>1. chan' = [chan EXCEPT ![d] = [c EXCEPT !.tfr = FALSE]] BY <2>2 DEF dma_irq
    <3>2. chan'.capture = [c EXCEPT !.tfr = FALSE] BY <2>2, <3>1, CapTypes
    <3>. QED BY <1>1, <2>2, <3>2, KeepOps
  <2>3. CASE d = "capture" /\ Served(c)
    <3>1. chan' = [chan EXCEPT ![d] = Reload(c, "list")] BY <2>3 DEF dma_irq
    <3>2. chan'.capture = Reload(c, "list") BY <2>3, <3>1, CapTypes
    <3>. QED BY <1>1, <2>3, <3>2, KeepOps
  <2>. QED BY <2>1, <2>2, <2>3 DEF Dirs
<1>. QED BY <1>1, <1>2, <1>3, CapTypes, CapFrame DEF compVars

\* The drain work leaves the capture side PAUSED, whichever side waits for it.
LEMMA CapDrain ==
  ASSUME StreamInv, LockInv, FlowInv, CapInv, drain_work
  PROVE  CapInv'
<1>1. /\ UNCHANGED <<compVars, chan, job, pc, upset>>
      /\ ssp' = ssp \/ ssp' = ssp_drain_work(ssp)
  BY DEF drain_work
<1>2. Keeps(chan.capture, chan'.capture) BY <1>1, CapTypes, KeepOps
<1>3. ssp' = ssp_drain_work(ssp) => ssp'.state.capture = "PAUSED"
  <2>. SUFFICES ASSUME ssp' = ssp_drain_work(ssp) PROVE ssp'.state.capture = "PAUSED"
    OBVIOUS
  <2>1. ssp.state.capture # "DRAINING" BY DEF FlowInv, PortInv, Steady
  <2>2. ssp'.state = [ssp.state EXCEPT !["capture"] = "PAUSED"]
    BY <2>1, CapTypes, StateOps
  <2>. QED BY <2>2, CapTypes
<1>. QED BY <1>1, <1>2, <1>3, CapTypes, CapFrame DEF compVars

-----------------------------------------------------------------------------
(* Commands for the capture DAI *)

\* A command that goes on.
LEMMA CapOn ==
  ASSUME pc.main.dir = "capture", NEW place, place # "idle", Goes("main", place),
         /\ pc.main.cmd = "START" => CapStart'
         /\ pc.main.cmd = "RELEASE" => CapRelease'
         /\ pc.main.cmd = "PAUSE" => CapPause'
         /\ pc.main.cmd = "STOP" => CapStop',
         ssp'.state.capture = "PAUSING" => ~ssp'.complete /\ place = "draining"
  PROVE  CapInv'
<1>1. pc'.main.cmd = pc.main.cmd /\ pc'.main.at = place /\ Walks("capture")'
  BY DEF Goes, Walks
<1>. QED BY <1>1 DEF CapInv, CapPort, CapRests, CapWalks

\* Between the DAI and the host component.
LEMMA CapHost ==
  ASSUME OneCapture, StreamInv, LockInv, CapInv, trigger_host, "late" \notin upset
  PROVE  CapInv'
<1>1. /\ pc.main.at = "host" /\ pc' = [pc EXCEPT !["main"] = Idle]
      /\ UNCHANGED <<drv, mixer, dai, elems, chan, ssp, job, upset, fault>>
      /\ host' = [host EXCEPT ![job] = HostState(host[job], pc.main.cmd)]
  BY DEF trigger_host
<1>2. Walks("capture") /\ drv[job] # "closed"
  BY <1>1 DEF LockInv, MixInv
<1>3. ~Walks("capture")' BY <1>1, CapTypes DEF Walks, Idle
<1>4. host'[job] = HostState(host[job], pc.main.cmd) BY <1>1, CapTypes, <1>2 DEF Streams
<1>5. \A t \in Capture : t = job BY CapTypes DEF OneCapture
<1>6. ssp.state.capture # "PAUSING" BY <1>1 DEF CapInv, CapPort
<1>7. pc.main.cmd \in Commands BY DEF StreamInv, TypeOK, Pc
<1>8. InState("capture") /\ (CapLive => CapUp) /\ AsHost(job)'
  <2>1. CASE pc.main.cmd = "START"
    <3>1. CapStart BY <1>2, <2>1 DEF CapInv, CapWalks
    <3>2. host'[job] = "RUNNING" BY <1>4, <2>1 DEF HostState
    <3>. QED BY <1>1, <1>2, <3>1, <3>2 DEF CapStart, InState, CapLive, AsHost
  <2>2. CASE pc.main.cmd = "RELEASE"
    <3>1. CapRelease BY <1>2, <2>2 DEF CapInv, CapWalks
    <3>2. host'[job] = "RUNNING" BY <1>4, <2>2 DEF HostState
    <3>. QED BY <1>1, <1>2, <3>1, <3>2 DEF CapRelease, InState, CapLive, AsHost
  <2>3. CASE pc.main.cmd = "PAUSE"
    <3>1. CapPause BY <1>2, <2>3 DEF CapInv, CapWalks
    <3>2. host'[job] = "PAUSED" BY <1>4, <2>3, <3>1 DEF HostState, CapPause
    <3>. QED BY <1>1, <1>2, <3>1, <3>2 DEF CapPause, InState, CapLive, AsHost
  <2>4. CASE pc.main.cmd = "STOP"
    <3>1. CapStop BY <1>2, <2>4 DEF CapInv, CapWalks
    <3>2. host'[job] = "SETUP" BY <1>4, <2>4, <3>1 DEF HostState, CapStop
    <3>. QED BY <1>1, <1>2, <3>1, <3>2 DEF CapStop, InState, CapLive, AsHost
  <2>. QED BY <1>7, <2>1, <2>2, <2>3, <2>4 DEF Commands
<1>9. InState("capture")' /\ (CapLive' => CapUp')
  BY <1>1, <1>8 DEF InState, CapLive, CapUp
<1>. QED
  BY <1>1, <1>3, <1>5, <1>6, <1>8, <1>9 DEF CapInv, CapPort, CapRests, CapWalks

\* The rest of a command, by the step that comes next.
LEMMA CapFrameMain ==
  ASSUME Main, pc.main.dir = "capture", pc.main.at # "host"
  PROVE  UNCHANGED <<host, job>>
BY MainPlace
   DEF Main, Step, dai_cmd, stop_schedule, stop_wait, ssp_trigger, ssp_unlock,
       ssp_wait, dai_release, dai_state, trigger_host, compVars

LEMMA CapDma ==
  ASSUME StreamInv, CapWalks, Walks("capture"), Main, pc.main.at = "dma",
         ssp.state.capture # "PAUSING", "late" \notin upset
  PROVE  CapInv'
<1>. DEFINE c == chan.capture
<1>1. /\ dai_cmd("main") /\ UNCHANGED <<host, job>> /\ pc.main.dir = "capture"
      /\ UNCHANGED <<dai, ssp>>
  BY MainPlace, CapFrameMain DEF Walks, dai_cmd, compVars
<1>2. /\ pc.main.cmd = "START" => CapStart
      /\ pc.main.cmd = "RELEASE" => CapRelease
      /\ pc.main.cmd = "PAUSE" => CapPause
      /\ pc.main.cmd = "STOP" => CapStop
  BY DEF CapWalks
<1>3. pc.main.cmd \in Commands BY DEF StreamInv, TypeOK, Pc
<1>4. CASE pc.main.cmd = "START"
  <2>1. CapStart /\ Obeys(dai.capture, "START") BY <1>2, <1>4 DEF CapStart, Obeys
  <2>2. CanStart(c) BY <2>1, CapTypes, RestOps DEF CapStart
  <2>3. GoTo("main", "trigger") /\ chan' = [chan EXCEPT !["capture"] = dw_dma_start(c)]
    BY <1>1, <1>4, <2>1, <2>2 DEF dai_cmd
  <2>4. Goes("main", "trigger") /\ Moves(chan'.capture)
    BY <2>3, CapTypes, GoToGoes, RestOps DEF StreamInv
  <2>5. CapStart' BY <1>1, <2>1, <2>4 DEF CapStart, Goes
  <2>. QED BY <1>1, <1>4, <2>4, <2>5, CapOn
<1>5. CASE pc.main.cmd = "RELEASE"
  <2>1. CapRelease /\ Obeys(dai.capture, "RELEASE") BY <1>2, <1>5 DEF CapRelease, Obeys
  <2>2. GoTo("main", "trigger") /\ chan' = chan BY <1>1, <1>5, <2>1 DEF dai_cmd
  <2>3. Goes("main", "trigger") BY <2>2, CapTypes, GoToGoes DEF StreamInv
  <2>4. CapRelease' BY <1>1, <2>1, <2>2, <2>3 DEF CapRelease, CapUp, Goes
  <2>. QED BY <1>1, <1>5, <2>3, <2>4, CapOn
<1>6. CASE pc.main.cmd = "PAUSE"
  <2>1. CapPause /\ Obeys(dai.capture, "PAUSE") BY <1>2, <1>6 DEF CapPause, Obeys
  <2>2. GoTo("main", "trigger") /\ chan' = [chan EXCEPT !["capture"] = dw_dma_pause(c)]
    BY <1>1, <1>6, <2>1 DEF dai_cmd
  <2>3. Goes("main", "trigger") BY <2>2, CapTypes, GoToGoes DEF StreamInv
  <2>4. Pauses(chan'.capture)
    <3>1. Moves(c) BY <2>1 DEF CapPause
    <3>. QED BY <2>2, <3>1, CapTypes, RestOps
  <2>5. CapPause' BY <1>1, <2>1, <2>3, <2>4 DEF CapPause, CapUp, Goes
  <2>. QED BY <1>1, <1>6, <2>3, <2>5, CapOn
<1>7. CASE pc.main.cmd = "STOP"
  <2>1. CapStop /\ Obeys(dai.capture, "STOP") BY <1>2, <1>7 DEF CapStop, Obeys, CapLive
  <2>2. PICK drain \in BOOLEAN : drain = (dai.capture = "RUNNING") OBVIOUS
  <2>3. /\ GoTo("main", IF c.en THEN "suspended" ELSE "trigger")
        /\ chan' = [chan EXCEPT !["capture"] = dw_dma_stop(c, drain)]
    BY <1>1, <1>7, <2>1, <2>2 DEF dai_cmd
  <2>4. ~c.en => Rests(chan'.capture) BY <2>3, CapTypes, RestOps
  <2>5. PICK place \in {"suspended", "trigger"} :
          GoTo("main", place) /\ (place = "trigger" => ~c.en)
    BY <2>3
  <2>6. Goes("main", place) BY <2>5, CapTypes, GoToGoes DEF StreamInv
  <2>7. CapStop' BY <1>1, <2>1, <2>4, <2>5, <2>6 DEF CapStop, CapLive, Goes
  <2>. QED BY <1>1, <1>7, <2>6, <2>7, CapOn
<1>. QED BY <1>3, <1>4, <1>5, <1>6, <1>7 DEF Commands

\* ssp_trigger(): a pause leaves the port to the drain work and waits.
LEMMA CapTrigger ==
  ASSUME StreamInv, CapWalks, Walks("capture"), Main, pc.main.at = "trigger", Steady(ssp),
         ssp.state.capture # "PAUSING", "late" \notin upset
  PROVE  CapInv'
<1>. DEFINE op == SspOp(ssp, pc.main.cmd, "capture")
<1>1. /\ ssp_trigger("main") /\ UNCHANGED <<host, job>> /\ pc.main.dir = "capture"
  BY MainPlace, CapFrameMain DEF Walks
<1>2. /\ UNCHANGED <<dai, chan>>
      /\ \/ /\ op = "none" /\ ssp' = ssp
            /\ Goes("main", IF pc.main.cmd = "RELEASE" THEN "release" ELSE "state")
         \/ op = "wait" /\ Goes("main", "draining")
         \/ /\ op \in {"start", "pause", "stop"} /\ ssp' = ssp
            /\ Goes("main", "locked") /\ pc'.main.op = op
  BY <1>1, MainTrigger DEF compVars
<1>3. /\ pc.main.cmd = "START" => CapStart
      /\ pc.main.cmd = "RELEASE" => CapRelease
      /\ pc.main.cmd = "PAUSE" => CapPause
      /\ pc.main.cmd = "STOP" => CapStop
  BY DEF CapWalks
<1>4. pc.main.cmd \in Commands BY DEF StreamInv, TypeOK, Pc
<1>5. ssp.state.capture \in PortStates BY CapTypes
<1>6. CASE pc.main.cmd = "START"
  <2>1. CapStart BY <1>3, <1>6
  <2>2. op = IF ssp.state.capture = "IDLE" THEN "start" ELSE "none"
    BY <1>6 DEF SspOp
  <2>. HIDE DEF op
  <2>3. ssp.state.capture # "IDLE" => CapUp
    BY <1>5, <2>1 DEF Steady, CapUp, PortStates, CapStart
  <2>4. CASE op = "none" /\ ssp' = ssp /\ Goes("main", "state")
    <3>1. CapStart' BY <1>1, <1>2, <2>1, <2>2, <2>3, <2>4 DEF CapStart, CapUp, Goes
    <3>. QED BY <1>1, <1>6, <2>4, <3>1, CapOn
  <2>5. CASE op = "start" /\ ssp' = ssp /\ Goes("main", "locked") /\ pc'.main.op = op
    <3>1. CapStart' BY <1>1, <1>2, <2>1, <2>5 DEF CapStart, Goes
    <3>. QED BY <1>1, <1>6, <2>5, <3>1, CapOn
  <2>. QED BY <1>2, <1>6, <2>2, <2>4, <2>5
<1>7. CASE pc.main.cmd = "RELEASE"
  <2>1. CapRelease BY <1>3, <1>7
  <2>2. op \in {"start", "none"} BY <1>7 DEF SspOp
  <2>. HIDE DEF op
  <2>3. CASE op = "none" /\ ssp' = ssp /\ Goes("main", "release")
    <3>1. CapRelease' BY <1>1, <1>2, <2>1, <2>3 DEF CapRelease, CapUp, Goes
    <3>. QED BY <1>1, <1>7, <2>3, <3>1, CapOn
  <2>4. CASE op = "start" /\ ssp' = ssp /\ Goes("main", "locked") /\ pc'.main.op = op
    <3>1. CapRelease' BY <1>1, <1>2, <2>1, <2>4 DEF CapRelease, CapUp, Goes
    <3>. QED BY <1>1, <1>7, <2>4, <3>1, CapOn
  <2>. QED BY <1>2, <1>7, <2>2, <2>3, <2>4
<1>8. CASE pc.main.cmd = "PAUSE"
  <2>1. CapPause /\ CapUp BY <1>3, <1>8 DEF CapPause
  <2>2. op = IF ssp.state.capture = "RUNNING" THEN "wait" ELSE "none"
    BY <1>8 DEF SspOp
  <2>3. op = "wait" => ssp' = SspWait(ssp, "capture") BY <1>1 DEF ssp_trigger
  <2>. HIDE DEF op
  <2>4. CASE op = "none" /\ ssp' = ssp /\ Goes("main", "state")
    <3>1. CapPause' BY <1>1, <1>2, <2>1, <2>4 DEF CapPause, CapUp, Goes
    <3>. QED BY <1>1, <1>8, <2>4, <3>1, CapOn
  <2>5. CASE op = "wait" /\ Goes("main", "draining")
    <3>1. ssp' = SspWait(ssp, "capture") /\ ssp \in Ports BY <2>3, <2>5, CapTypes
    <3>2. ssp'.state.capture = "PAUSING" BY <3>1 DEF SspWait, Ports, Dirs
    <3>3. ~ssp'.complete BY <2>3, <2>5, CapTypes, WorkOps
    <3>4. CapPause' BY <1>1, <1>2, <2>1, <2>5, <3>2 DEF CapPause, Goes
    <3>. QED BY <1>1, <1>8, <2>5, <3>3, <3>4, CapOn
  <2>. QED BY <1>2, <1>8, <2>2, <2>4, <2>5
<1>9. CASE pc.main.cmd = "STOP"
  <2>1. CapStop BY <1>3, <1>9
  <2>2. op \in {"stop", "none"} BY <1>9 DEF SspOp
  <2>. HIDE DEF op
  <2>3. CASE op = "none" /\ ssp' = ssp /\ Goes("main", "state")
    <3>1. CapStop' BY <1>1, <1>2, <2>1, <2>3 DEF CapStop, CapLive, Goes
    <3>. QED BY <1>1, <1>9, <2>3, <3>1, CapOn
  <2>4. CASE op = "stop" /\ ssp' = ssp /\ Goes("main", "locked") /\ pc'.main.op = op
    <3>1. CapStop' BY <1>1, <1>2, <2>1, <2>4 DEF CapStop, CapLive, Goes
    <3>. QED BY <1>1, <1>9, <2>4, <3>1, CapOn
  <2>. QED BY <1>2, <1>9, <2>2, <2>3, <2>4
<1>. QED BY <1>4, <1>6, <1>7, <1>8, <1>9 DEF Commands

\* The functions of ssp.c: a start or a stop, for a pause is left to the work.
LEMMA CapLocked ==
  ASSUME StreamInv, CapWalks, Walks("capture"), Main, pc.main.at = "locked",
         "late" \notin upset
  PROVE  CapInv'
<1>1. /\ UNCHANGED <<host, job, dai, chan>> /\ pc.main.dir = "capture"
      /\ Goes("main", IF pc.main.cmd = "RELEASE" THEN "release" ELSE "state")
      /\ ssp'.state = [ssp.state EXCEPT !["capture"] = OpState(pc.main.op)]
  BY MainPlace, CapFrameMain, MainUnlock DEF Walks, compVars
<1>2. ssp'.state.capture = OpState(pc.main.op) BY <1>1, CapTypes
<1>3. pc.main.cmd \in Commands BY DEF StreamInv, TypeOK, Pc
<1>4. CASE pc.main.cmd = "START"
  <2>1. CapStart /\ ssp'.state.capture = "RUNNING"
    BY <1>2, <1>4 DEF CapWalks, CapStart, OpState
  <2>2. CapStart' BY <1>1, <1>4, <2>1 DEF CapStart, CapUp, Goes
  <2>. QED BY <1>1, <1>4, <2>1, <2>2, CapOn
<1>5. CASE pc.main.cmd = "RELEASE"
  <2>1. CapRelease /\ ssp'.state.capture = "RUNNING"
    BY <1>2, <1>5 DEF CapWalks, CapRelease, OpState
  <2>2. CapRelease' BY <1>1, <1>5, <2>1 DEF CapRelease, CapUp, Goes
  <2>. QED BY <1>1, <1>5, <2>1, <2>2, CapOn
<1>6. pc.main.cmd # "PAUSE" BY DEF CapWalks, CapPause
<1>7. CASE pc.main.cmd = "STOP"
  <2>1. CapStop /\ ssp'.state.capture = "IDLE"
    BY <1>2, <1>7 DEF CapWalks, CapStop, OpState
  <2>2. CapStop' BY <1>1, <1>7, <2>1 DEF CapStop, CapLive, Goes
  <2>. QED BY <1>1, <1>7, <2>1, <2>2, CapOn
<1>. QED BY <1>3, <1>4, <1>5, <1>6, <1>7 DEF Commands

\* dw_dma_stop(): its wait, when it is not given up, ends with a channel at rest.
LEMMA CapStopping ==
  ASSUME StreamInv, LockInv, CapWalks, Walks("capture"), Main,
         pc.main.at \in {"suspended", "stopping"},
         ssp.state.capture # "PAUSING", "late" \notin upset
  PROVE  CapInv'
<1>. DEFINE c == chan.capture
<1>1. /\ UNCHANGED <<host, job>> /\ pc.main.dir = "capture"
      /\ pc.main.cmd \in Commands
  BY CapFrameMain DEF Walks, StreamInv, TypeOK, Pc
<1>2. pc.main.cmd = "STOP" /\ CapStop
  BY <1>1 DEF CapWalks, CapStart, CapRelease, CapPause, Commands
<1>3. CASE pc.main.at = "suspended"
  <2>1. UNCHANGED <<dai, ssp>> /\ GoTo("main", "stopping")
    BY <1>3, MainPlace DEF stop_schedule, compVars
  <2>2. Goes("main", "stopping") BY <2>1, CapTypes, GoToGoes DEF StreamInv
  <2>3. CapStop' BY <1>1, <1>2, <1>3, <2>1, <2>2 DEF CapStop, CapLive, Goes
  <2>. QED BY <1>1, <1>2, <2>1, <2>2, <2>3, CapOn
<1>4. CASE pc.main.at = "stopping"
  <2>1. /\ stop_wait("main") /\ UNCHANGED <<dai, ssp>> /\ GoTo("main", "trigger")
        /\ chan' = [chan EXCEPT !["capture"] = [c EXCEPT !.complete = FALSE]]
    BY <1>1, <1>4, MainPlace DEF stop_wait, compVars
  <2>2. Goes("main", "trigger") BY <2>1, CapTypes, GoToGoes DEF StreamInv
  <2>3. CASE c.complete
    <3>1. Rests(c) BY <1>1, <1>4, <2>3 DEF LockInv, StopInv, Contexts, Rests
    <3>2. Rests(chan'.capture)
      <4>1. chan'.capture = [c EXCEPT !.complete = FALSE] BY <2>1, CapTypes
      <4>. QED BY <3>1, <4>1, CapTypes, KeepOps DEF Keeps
    <3>3. CapStop' BY <1>1, <1>2, <1>4, <2>1, <2>2, <3>2 DEF CapStop, CapLive, Goes
    <3>. QED BY <1>1, <1>2, <2>1, <2>2, <3>3, CapOn
  <2>4. CASE ~c.complete
    <3>1. "late" \in upset' BY <1>1, <2>1, <2>4 DEF stop_wait
    <3>. QED BY <3>1 DEF CapInv, CapPort, CapRests, CapWalks
  <2>. QED BY <2>3, <2>4
<1>. QED BY <1>3, <1>4

\* The wait of ssp_trigger(), when it is not given up, ends with a port that the
\* drain work has paused.
LEMMA CapWait ==
  ASSUME StreamInv, CapInv, Walks("capture"), Main, pc.main.at = "draining",
         "late" \notin upset
  PROVE  CapInv'
<1>1. /\ UNCHANGED <<host, job, dai, chan>> /\ pc.main.dir = "capture"
      /\ pc.main.cmd \in Commands
      /\ ssp_wait("main") /\ GoTo("main", "state")
      /\ ssp' = [ssp EXCEPT !.complete = FALSE] /\ ssp \in Ports
  BY CapFrameMain, MainPlace, CapTypes DEF Walks, StreamInv, TypeOK, Pc, ssp_wait, compVars
<1>2. pc.main.cmd = "PAUSE" /\ CapPause
  BY <1>1 DEF CapInv, CapWalks, CapStart, CapRelease, CapStop, Commands
<1>3. Goes("main", "state") BY <1>1, CapTypes, GoToGoes DEF StreamInv
<1>4. CASE ~ssp.complete
  <2>1. "late" \in upset' BY <1>1, <1>4 DEF ssp_wait
  <2>. QED BY <2>1 DEF CapInv, CapPort, CapRests, CapWalks
<1>5. CASE ssp.complete
  <2>1. ssp.state.capture # "PAUSING" BY <1>5 DEF CapInv, CapPort
  <2>2. ssp'.state = ssp.state BY <1>1 DEF Ports
  <2>3. CapPause' BY <1>1, <1>2, <1>3, <2>1, <2>2 DEF CapPause, CapUp, Goes
  <2>. QED BY <1>1, <1>2, <1>3, <2>1, <2>2, <2>3, CapOn
<1>. QED BY <1>4, <1>5

LEMMA CapChannelRelease ==
  ASSUME StreamInv, CapWalks, Walks("capture"), Main, pc.main.at = "release",
         ssp.state.capture # "PAUSING", "late" \notin upset
  PROVE  CapInv'
<1>. DEFINE c == chan.capture
<1>1. /\ UNCHANGED <<host, job, dai, ssp>> /\ pc.main.dir = "capture"
      /\ pc.main.cmd \in Commands /\ GoTo("main", "state")
      /\ chan' = [chan EXCEPT !["capture"] = dw_dma_release(c)]
  BY CapFrameMain, MainPlace DEF Walks, StreamInv, TypeOK, Pc, dai_release, compVars
<1>2. pc.main.cmd = "RELEASE" /\ CapRelease
  BY <1>1 DEF CapWalks, CapStart, CapPause, CapStop, Commands
<1>3. Goes("main", "state") BY <1>1, CapTypes, GoToGoes DEF StreamInv
<1>4. Moves(chan'.capture)
  <2>1. Pauses(c) BY <1>2 DEF CapRelease
  <2>. QED BY <1>1, <2>1, CapTypes, RestOps
<1>5. CapRelease' BY <1>1, <1>2, <1>3, <1>4 DEF CapRelease, CapUp, Goes
<1>. QED BY <1>1, <1>2, <1>3, <1>5, CapOn

\* dev->state is assigned, the host component is next.
LEMMA CapState ==
  ASSUME StreamInv, CapWalks, Walks("capture"), Main, pc.main.at = "state",
         ssp.state.capture # "PAUSING", "late" \notin upset
  PROVE  CapInv'
<1>1. /\ UNCHANGED <<host, job, chan, ssp>> /\ pc.main.dir = "capture"
      /\ dai_state("main")
  BY CapFrameMain, MainPlace DEF Walks, dai_state, compVars
<1>2. Goes("main", "host")
  <2>1. GoTo("main", "host") BY <1>1 DEF dai_state, After
  <2>. QED BY <2>1, CapTypes, GoToGoes DEF StreamInv
<1>3. /\ pc.main.cmd = "START" => CapStart
      /\ pc.main.cmd = "RELEASE" => CapRelease
      /\ pc.main.cmd = "PAUSE" => CapPause
      /\ pc.main.cmd = "STOP" => CapStop
  BY DEF CapWalks
<1>4. pc.main.cmd \in Commands BY DEF StreamInv, TypeOK, Pc
<1>5. CASE pc.main.cmd = "START"
  <2>1. dai' = [dai EXCEPT !["capture"] = "RUNNING"] BY <1>1, <1>5 DEF dai_state
  <2>2. dai'.capture = "RUNNING" BY <2>1, CapTypes
  <2>3. CapStart' BY <1>1, <1>2, <1>3, <1>5, <2>2 DEF CapStart, CapUp, Goes
  <2>. QED BY <1>1, <1>2, <1>5, <2>3, CapOn
<1>6. CASE pc.main.cmd = "RELEASE"
  <2>1. dai' = [dai EXCEPT !["capture"] = "RUNNING"] BY <1>1, <1>6 DEF dai_state
  <2>2. dai'.capture = "RUNNING" BY <2>1, CapTypes
  <2>3. CapRelease' BY <1>1, <1>2, <1>3, <1>6, <2>2 DEF CapRelease, CapUp, Goes
  <2>. QED BY <1>1, <1>2, <1>6, <2>3, CapOn
<1>7. CASE pc.main.cmd = "PAUSE"
  <2>1. dai' = [dai EXCEPT !["capture"] = "PAUSED"] BY <1>1, <1>7 DEF dai_state
  <2>2. dai'.capture = "PAUSED" BY <2>1, CapTypes
  <2>3. CapPause' BY <1>1, <1>2, <1>3, <1>7, <2>2 DEF CapPause, CapUp, Goes
  <2>. QED BY <1>1, <1>2, <1>7, <2>3, CapOn
<1>8. CASE pc.main.cmd = "STOP"
  <2>1. dai' = [dai EXCEPT !["capture"] = "SETUP"] BY <1>1, <1>8 DEF dai_state
  <2>2. dai'.capture = "SETUP" BY <2>1, CapTypes
  <2>3. CapStop' BY <1>1, <1>2, <1>3, <1>8, <2>2 DEF CapStop, Goes
  <2>. QED BY <1>1, <1>2, <1>8, <2>3, CapOn
<1>. QED BY <1>4, <1>5, <1>6, <1>7, <1>8 DEF Commands

LEMMA CapMain ==
  ASSUME OneCapture, StreamInv, LockInv, FlowInv, CapInv, Main, pc.main.dir = "capture"
  PROVE  CapInv'
<1>1. Walks("capture") /\ CapWalks /\ Steady(ssp)
  BY MainPlace DEF Walks, CapInv, FlowInv, PortInv
<1>2. upset \subseteq upset'
  BY DEF Main, Step, dai_cmd, stop_schedule, stop_wait, ssp_trigger, ssp_unlock,
         ssp_wait, dai_release, dai_state, trigger_host
<1>3. CASE "late" \in upset BY <1>2, <1>3 DEF CapInv, CapPort, CapRests, CapWalks
<1>4. CASE "late" \notin upset
  <2>1. pc.main.at # "draining" => ssp.state.capture # "PAUSING"
    BY <1>4 DEF CapInv, CapPort
  <2>2. pc.main.at \in Places BY DEF StreamInv, TypeOK, Pc
  <2>. QED
    BY <1>1, <1>4, <2>1, <2>2, MainPlace, CapDma, CapStopping, CapTrigger, CapLocked,
       CapWait, CapChannelRelease, CapState, CapHost DEF Places
<1>. QED BY <1>3, <1>4

-----------------------------------------------------------------------------
(* Theorems *)

LEMMA CapNext ==
  OneCapture /\ StreamInv /\ LockInv /\ FlowInv /\ CapInv /\ [Next]_vars => CapInv'
<1>. SUFFICES ASSUME OneCapture, StreamInv, LockInv, FlowInv, CapInv, [Next]_vars
              PROVE  CapInv'
  OBVIOUS
<1>1. CASE dai_config BY <1>1, CapConfig
<1>2. CASE \E s \in Streams : pcm_params(s) \/ pcm_free(s) \/ prepare(s)
  BY <1>2, CapParams, CapPrepare
<1>3. CASE \E s \in Playback, cmd \in Commands : trigger_playback(s, cmd)
  BY <1>3, CapPlayback
<1>4. CASE \E s \in Capture, cmd \in Commands : trigger_capture(s, cmd)
  BY <1>4, CapCapture
<1>5. CASE Main
  <2>1. pc.main.dir \in Dirs BY DEF StreamInv, TypeOK, Pc
  <2>. QED BY <1>5, <2>1, CapMainPlay, CapMain DEF Dirs
<1>6. CASE Step("irq") BY <1>6, CapEos
<1>7. CASE \E d \in Dirs : dma_irq(d) \/ fifo_work(d) \/ transfer_done(d)
  BY <1>7, CapIrq, CapWork
<1>8. CASE drain_work BY <1>8, CapDrain
<1>9. CASE UNCHANGED vars
  <2>1. UNCHANGED <<host, drv, dai, chan, ssp, job, pc, upset>>
    BY <1>9 DEF vars, compVars
  <2>2. Keeps(chan.capture, chan'.capture) BY <2>1, CapTypes, KeepOps
  <2>. QED BY <2>1, <2>2, CapTypes, CapFrame
<1>10. Halted => UNCHANGED vars BY DEF Halted
<1>. QED
  BY <1>1, <1>2, <1>3, <1>4, <1>5, <1>6, <1>7, <1>8, <1>9, <1>10 DEF Next

\* The inductive invariant of capture, with those of the modules before.
THEOREM CaptureInvariant ==
  ASSUME OneCapture
  PROVE  Spec => [](StreamInv /\ LockInv /\ FlowInv /\ CapInv)
<1>. DEFINE All == StreamInv /\ LockInv /\ FlowInv /\ CapInv
<1>1. Init => All BY InitInv, LockInit, FlowInit, CapInit
<1>2. All /\ [Next]_vars => All' BY OneCapture, NextInv, LockNext, FlowNext, CapNext
<1>. QED BY <1>1, <1>2, PTL DEF Spec

\* Whatever playback does on the other side of the port, with a DAI that stops
\* itself, a drain work that both sides share and any number of mixed streams:
\* a capture stream that the host was told is running records, unless the drain
\* work left its side of the port paused (ssp_drain_work()) or a wait timed out.
THEOREM CaptureIsHeard ==
  ASSUME OneCapture
  PROVE  Spec => []CaptureFlows
<1>1. StreamInv /\ LockInv /\ FlowInv /\ CapInv => CaptureFlows
  <2>. SUFFICES ASSUME StreamInv, LockInv, FlowInv, CapInv, AtRest, "late" \notin upset,
                       NEW s \in Capture, host[s] = "RUNNING",
                       ssp.state.capture # "PAUSED"
                PROVE  Flows("capture")
    BY DEF CaptureFlows
  <2>1. ~Walks("capture") BY DEF AtRest, Walks
  <2>2. InState("capture") /\ (CapLive => CapUp) /\ dai.capture = "RUNNING"
    BY <2>1 DEF CapInv, CapRests, AsHost
  <2>3. Moves(chan.capture) /\ ssp.state.capture = "RUNNING"
    BY <2>2 DEF InState, CapLive, CapUp
  <2>4. ssp.req["capture"] /\ ssp.sse BY <2>3, CapTypes DEF StreamInv, PortUp
  <2>. QED BY <2>2, <2>3, <2>4 DEF Flows, Moves
<1>. QED BY <1>1, CaptureInvariant, PTL
=============================================================================
