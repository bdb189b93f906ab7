---------------------------- MODULE StreamProofs ----------------------------
(***************************************************************************)
(* Proofs about Stream, for any number of playback and capture streams,    *)
(* however many are open and however often a channel's work looks at it.   *)
(***************************************************************************)
EXTENDS Stream, TLAPS

-----------------------------------------------------------------------------
(* The operations on a channel *)

\* Every operation on a channel yields a channel.
LEMMA ChannelTypes ==
  ASSUME NEW c \in Channels
  PROVE  /\ dw_dma_set_config(c) \in Channels
         /\ dw_dma_start(c) \in Channels
         /\ dw_dma_pause(c) \in Channels
         /\ dw_dma_release(c) \in Channels
         /\ \A drain \in BOOLEAN : dw_dma_stop(c, drain) \in Channels
         /\ ScheduleWork(c) \in Channels
         /\ \A empty \in BOOLEAN : dw_dma_fifo_work(c, empty) \in Channels
         /\ \A next \in {"end", "own", "list"} : Reload(c, next) \in Channels
         /\ [c EXCEPT !.tfr = FALSE] \in Channels
         /\ [c EXCEPT !.complete = FALSE] \in Channels
         /\ [[c EXCEPT !.en = FALSE] EXCEPT !.tfr = TRUE] \in Channels
<1>. USE DmaConstants DEF DmaConstants, Channels, Status
<1>1. dw_dma_set_config(c) \in Channels BY DEF dw_dma_set_config
<1>2. dw_dma_start(c) \in Channels BY DEF dw_dma_start, Enable
<1>3. dw_dma_pause(c) \in Channels BY DEF dw_dma_pause
<1>4. dw_dma_release(c) \in Channels BY DEF dw_dma_release, Enable
<1>0. \A s \in Status, n \in 0 .. DrainTries + StopTries :
        [c EXCEPT !.status = s, !.drain_count = n] \in Channels
  OBVIOUS
<1>5. \A drain \in BOOLEAN : dw_dma_stop(c, drain) \in Channels
  <2>1. [c EXCEPT !.status = "IDLE"] \in Channels OBVIOUS
  <2>2. /\ DrainTries \in 0 .. DrainTries + StopTries
        /\ StopTries \in 0 .. DrainTries + StopTries
    OBVIOUS
  <2>3. dw_dma_stop(c, TRUE) \in Channels
    BY <1>0, <2>1, <2>2 DEF dw_dma_stop
  <2>4. dw_dma_stop(c, FALSE) \in Channels
    BY <1>0, <2>1, <2>2 DEF dw_dma_stop
  <2>. QED BY <2>3, <2>4
<1>6. ScheduleWork(c) \in Channels BY DEF ScheduleWork
<1>7. \A empty \in BOOLEAN : dw_dma_fifo_work(c, empty) \in Channels
  <2>. DEFINE t == [c EXCEPT !.drain_count = @ - 1]
  <2>1. [c EXCEPT !.work = FALSE] \in Channels OBVIOUS
  <2>2. GiveUp(t) \in Channels
    <3>1. GiveUp(t) = [c EXCEPT !.status = "IDLE", !.work = FALSE, !.drain_count = 0]
      BY DEF GiveUp
    <3>2. 0 \in 0 .. DrainTries + StopTries OBVIOUS
    <3>3. [c EXCEPT !.status = "IDLE", !.work = FALSE, !.drain_count = 0] \in Channels
      BY <3>2
    <3>. HIDE DEF t
    <3>. QED BY <3>1, <3>3
  <2>3. c.drain_count > 0 => t \in Channels OBVIOUS
  <2>4. c.drain_count > 0 => Drained(t) \in Channels
    <3>1. 0 \in 0 .. DrainTries + StopTries OBVIOUS
    <3>2. \A u \in Channels : [u EXCEPT !.en = FALSE] \in Channels OBVIOUS
    <3>3. \A u \in Channels :
            [u EXCEPT !.status = "IDLE", !.work = FALSE, !.drain_count = 0,
                      !.complete = TRUE] \in Channels
      BY <3>1
    <3>. HIDE DEF t, Channels
    <3>. QED BY <2>3, <3>2, <3>3 DEF Drained
  <2>5. dw_dma_fifo_work(c, TRUE) \in Channels
    BY <2>1, <2>2, <2>4 DEF dw_dma_fifo_work
  <2>6. dw_dma_fifo_work(c, FALSE) \in Channels
    BY <2>1, <2>2, <2>3 DEF dw_dma_fifo_work
  <2>. QED BY <2>5, <2>6
<1>8. \A next \in {"end", "own", "list"} : Reload(c, next) \in Channels
  BY DEF Reload, Enable
<1>9. /\ [c EXCEPT !.tfr = FALSE] \in Channels
      /\ [c EXCEPT !.complete = FALSE] \in Channels
      /\ [[c EXCEPT !.en = FALSE] EXCEPT !.tfr = TRUE] \in Channels
  OBVIOUS
<1>. QED BY <1>1, <1>2, <1>3, <1>4, <1>5, <1>6, <1>7, <1>8, <1>9

\* A channel that is being stopped.
Stopping(c) == c.status \in {"DRAINING", "STOPPING"}

\* Only dw_dma_stop() begins to stop a channel, and only the channel's work
\* that has brought it to rest is not queued again.
LEMMA StoppingOps ==
  ASSUME NEW c \in Channels
  PROVE  /\ Stopping(dw_dma_set_config(c)) => Stopping(c)
         /\ dw_dma_set_config(c).work = c.work
         /\ ~Stopping(dw_dma_start(c))
         /\ Stopping(dw_dma_pause(c)) => Stopping(c)
         /\ dw_dma_pause(c).work = c.work
         /\ ~Stopping(dw_dma_release(c))
         /\ \A drain \in BOOLEAN : Stopping(dw_dma_stop(c, drain)) => c.en
         /\ ScheduleWork(c).work
         /\ \A empty \in BOOLEAN :
              Stopping(dw_dma_fifo_work(c, empty)) =>
                Stopping(c) /\ dw_dma_fifo_work(c, empty).work = c.work
         /\ \A next \in {"end", "own", "list"} :
              Stopping(Reload(c, next)) => Stopping(c) /\ Reload(c, next).work = c.work
<1>. USE DmaConstants DEF DmaConstants, Channels, Status, Stopping
<1>1. /\ Stopping(dw_dma_set_config(c)) => Stopping(c)
      /\ dw_dma_set_config(c).work = c.work
      /\ ~Stopping(dw_dma_start(c))
      /\ Stopping(dw_dma_pause(c)) => Stopping(c)
      /\ dw_dma_pause(c).work = c.work
      /\ ~Stopping(dw_dma_release(c))
  BY DEF dw_dma_set_config, dw_dma_start, dw_dma_pause, dw_dma_release, Enable
<1>2. \A drain \in BOOLEAN : Stopping(dw_dma_stop(c, drain)) => c.en
  BY DEF dw_dma_stop
<1>3. ScheduleWork(c).work BY DEF ScheduleWork
<1>4. \A empty \in BOOLEAN :
        Stopping(dw_dma_fifo_work(c, empty)) =>
          Stopping(c) /\ dw_dma_fifo_work(c, empty).work = c.work
  BY DEF dw_dma_fifo_work, GiveUp, Drained
<1>5. \A next \in {"end", "own", "list"} :
        Stopping(Reload(c, next)) => Stopping(c) /\ Reload(c, next).work = c.work
  BY DEF Reload, Enable
<1>. QED BY <1>1, <1>2, <1>3, <1>4, <1>5

-----------------------------------------------------------------------------
(* The operations on the port *)

\* PortUp of a port.
Up(p) == \A d \in Dirs : p.state[d] = "RUNNING" => p.sse /\ p.req[d]

\* Every operation on the port yields a port, and leaves no direction running
\* without the port or its requests.
LEMMA PortOps ==
  ASSUME NEW p \in Ports, Up(p), NEW d \in Dirs
  PROVE  /\ ssp_set_config(p) \in Ports /\ Up(ssp_set_config(p))
         /\ ssp_start(p, d) \in Ports /\ Up(ssp_start(p, d))
         /\ ssp_stop(p, d) \in Ports /\ Up(ssp_stop(p, d))
         /\ ssp_pause(p, d) \in Ports /\ Up(ssp_pause(p, d))
         /\ SspWait(p, d) \in Ports /\ Up(SspWait(p, d))
         /\ [p EXCEPT !.complete = FALSE] \in Ports
         /\ Up([p EXCEPT !.complete = FALSE])
<1>. USE DEF Ports, PortStates, Dirs, Up
<1>1. ssp_set_config(p) \in Ports /\ Up(ssp_set_config(p)) BY DEF ssp_set_config
<1>2. ssp_start(p, d) \in Ports /\ Up(ssp_start(p, d)) BY DEF ssp_start
<1>3. ssp_stop(p, d) \in Ports /\ Up(ssp_stop(p, d)) BY DEF ssp_stop, Disabled
<1>4. ssp_pause(p, d) \in Ports /\ Up(ssp_pause(p, d)) BY DEF ssp_pause, Disabled
<1>5. SspWait(p, d) \in Ports /\ Up(SspWait(p, d)) BY DEF SspWait
<1>6. [p EXCEPT !.complete = FALSE] \in Ports /\ Up([p EXCEPT !.complete = FALSE])
  OBVIOUS
<1>. QED BY <1>1, <1>2, <1>3, <1>4, <1>5, <1>6
-----------------------------------------------------------------------------
(* Where dai_cmd() is *)

Contexts == {"main", "irq"}

\* What GoTo() changes: the place of one context, and its command when it has
\* ended.
LEMMA GoToOps ==
  ASSUME pc \in [Contexts -> Pc], NEW x \in Contexts, NEW place \in Places,
         GoTo(x, place)
  PROVE  /\ pc' \in [Contexts -> Pc]
         /\ pc'[x].at = place
         /\ place # "idle" => /\ pc'[x].dir = pc[x].dir /\ pc'[x].op = pc[x].op
                              /\ pc'[x].cmd = pc[x].cmd
         /\ \A y \in Contexts \ {x} : pc'[y] = pc[y]
<1>1. Idle \in Pc BY DEF Idle, Pc, Places, Commands, Dirs
<1>2. pc[x] \in Pc OBVIOUS
<1>3. [pc[x] EXCEPT !.at = place] \in Pc BY <1>2 DEF Pc
<1>4. CASE place = "idle"
  <2>1. pc' = [pc EXCEPT ![x] = Idle] BY <1>4 DEF GoTo
  <2>. QED BY <1>1, <1>4, <2>1 DEF Contexts, Idle
<1>5. CASE place # "idle"
  <2>1. pc' = [pc EXCEPT ![x] = [pc[x] EXCEPT !.at = place]] BY <1>5 DEF GoTo
  <2>2. /\ [pc[x] EXCEPT !.at = place].at = place
        /\ [pc[x] EXCEPT !.at = place].dir = pc[x].dir
        /\ [pc[x] EXCEPT !.at = place].op = pc[x].op
        /\ [pc[x] EXCEPT !.at = place].cmd = pc[x].cmd
    BY <1>2 DEF Pc
  <2>. QED BY <1>3, <2>1, <2>2 DEF Contexts
<1>. QED BY <1>4, <1>5

\* The function of ssp.c that the main loop is in is one that takes the lock.
OpInv == pc.main.at = "locked" => pc.main.op # "none"

\* dw_dma_stop() is about to queue the work of the channel of direction d.
Suspended(d) == \E x \in Contexts : pc[x].at = "suspended" /\ pc[x].dir = d

StreamInv == TypeOK /\ OpInv /\ PortUp /\ DrainingHasWork

\* DrainingHasWork in the terms of the lemmas.
LEMMA DrainingMeans ==
  DrainingHasWork <=> \A d \in Dirs : Stopping(chan[d]) => chan[d].work \/ Suspended(d)
BY DEF DrainingHasWork, Stopping, Suspended, Contexts

\* DrainingHasWork of the next state.
LEMMA DrainingNext ==
  ASSUME \A d \in Dirs : Stopping(chan'[d]) => chan'[d].work \/ Suspended(d)'
  PROVE  DrainingHasWork'
BY DEF DrainingHasWork, Stopping, Suspended, Contexts

\* The channels are as before and no context left dw_dma_stop().
LEMMA DrainingKept ==
  ASSUME DrainingHasWork, chan' = chan,
         \A x \in Contexts : pc[x].at = "suspended" => pc'[x] = pc[x]
  PROVE  DrainingHasWork'
BY DEF DrainingHasWork, Contexts

\* Nothing runs at first.
LEMMA InitInv == Init => StreamInv
<1>. SUFFICES ASSUME Init PROVE StreamInv OBVIOUS
<1>1. NewChannel \in Channels /\ ~Stopping(NewChannel)
  BY DmaConstants DEF DmaConstants, NewChannel, Channels, Status, Stopping
<1>2. NewPort \in Ports /\ Up(NewPort) BY DEF NewPort, Ports, PortStates, Dirs, Up
<1>3. Idle \in Pc BY DEF Idle, Pc, Places, Commands, Dirs
<1>4. TypeOK BY <1>1, <1>2, <1>3 DEF Init, TypeOK, States, Events
<1>5. OpInv BY DEF Init, OpInv, Idle
<1>6. PortUp BY <1>2 DEF Init, PortUp, Up
<1>7. DrainingHasWork BY <1>1 DEF Init, DrainingHasWork, Stopping
<1>. QED BY <1>4, <1>5, <1>6, <1>7 DEF StreamInv
-----------------------------------------------------------------------------
(* Commands of the host *)

\* A reset changes components only.
LEMMA ResetTypes ==
  ASSUME TypeOK, NEW s \in Streams, ResetStream(s)
  PROVE  /\ host' \in [Streams -> States]
         /\ drv' \in [Streams -> {"closed", "open", "ready"}]
         /\ mixer' \in States /\ dai' \in [Dirs -> States]
         /\ elems' \in [Dirs -> BOOLEAN]
BY DEF ResetStream, TypeOK, States, Dir, Dirs

\* ipc_dai_ssp_config() preserves the invariant.
LEMMA ConfigStep == StreamInv /\ dai_config => StreamInv'
<1>. SUFFICES ASSUME StreamInv, dai_config PROVE StreamInv' OBVIOUS
<1>. USE DEF StreamInv, dai_config
<1>1. ssp' \in Ports /\ Up(ssp') BY PortOps DEF TypeOK, PortUp, Up, Dirs
<1>2. TypeOK' BY <1>1 DEF TypeOK, compVars
<1>3. PortUp' BY <1>1 DEF PortUp, Up
<1>4. OpInv' BY DEF OpInv
<1>5. DrainingHasWork' BY DrainingKept
<1>. QED BY <1>2, <1>3, <1>4, <1>5

\* So do ipc_stream_pcm_params() and ipc_stream_pcm_free().
LEMMA ParamsStep ==
  ASSUME StreamInv, NEW s \in Streams, pcm_params(s) \/ pcm_free(s)
  PROVE  StreamInv'
<1>. USE DEF StreamInv
<1>1. UNCHANGED <<chan, ssp, job, pc, upset, fault>> BY DEF pcm_params, pcm_free
<1>2. /\ host' \in [Streams -> States]
      /\ drv' \in [Streams -> {"closed", "open", "ready"}]
      /\ mixer' \in States /\ dai' \in [Dirs -> States]
      /\ elems' \in [Dirs -> BOOLEAN]
  <2>1. CASE ResetStream(s) BY <2>1, ResetTypes
  <2>2. CASE ~ResetStream(s) BY <2>2 DEF pcm_params, pcm_free, TypeOK
  <2>. QED BY <2>1, <2>2
<1>3. TypeOK' BY <1>1, <1>2 DEF TypeOK
<1>4. PortUp' BY <1>1 DEF PortUp
<1>5. OpInv' BY <1>1 DEF OpInv
<1>6. DrainingHasWork' BY <1>1, DrainingKept
<1>. QED BY <1>3, <1>4, <1>5, <1>6

\* So does pipeline_prepare().
LEMMA PrepareStep ==
  ASSUME StreamInv, NEW s \in Streams, prepare(s)
  PROVE  StreamInv'
<1>. USE DEF StreamInv
<1>1. UNCHANGED <<elems, ssp, job, pc, fault>> BY DEF prepare
<1>2. Dir(s) \in Dirs BY DEF Dir, Dirs
<1>3. /\ host' \in [Streams -> States] /\ mixer' \in States
      /\ drv' \in [Streams -> {"closed", "open", "ready"}]
  BY DEF prepare, TypeOK, States
<1>4. upset' \subseteq Events BY DEF prepare, TypeOK, Events
<1>5. dai' \in [Dirs -> States] BY <1>2 DEF prepare, TypeOK, States
<1>6. chan' = chan \/ chan' = [chan EXCEPT ![Dir(s)] = dw_dma_set_config(@)]
  BY DEF prepare
<1>7. chan' \in [Dirs -> Channels]
  <2>1. chan[Dir(s)] \in Channels BY <1>2 DEF TypeOK
  <2>2. dw_dma_set_config(chan[Dir(s)]) \in Channels BY <2>1, ChannelTypes
  <2>. QED BY <1>2, <1>6, <2>2 DEF TypeOK
<1>8. TypeOK' BY <1>1, <1>3, <1>4, <1>5, <1>7 DEF TypeOK
<1>9. PortUp' BY <1>1 DEF PortUp
<1>10. OpInv' BY <1>1 DEF OpInv
<1>11. DrainingHasWork'
  <2>0. \A c \in Channels : /\ Stopping(dw_dma_set_config(c)) => Stopping(c)
                            /\ dw_dma_set_config(c).work = c.work
    BY StoppingOps
  <2>1. \A d \in Dirs : Stopping(chan'[d]) => Stopping(chan[d]) /\ chan'[d].work = chan[d].work
    BY <1>2, <1>6, <2>0 DEF TypeOK
  <2>2. \A d \in Dirs : Suspended(d)' <=> Suspended(d) BY <1>1 DEF Suspended
  <2>. QED BY <2>1, <2>2, DrainingMeans, DrainingNext
<1>. QED BY <1>8, <1>9, <1>10, <1>11

\* What the triggers do to a host component.
LEMMA HostTypes ==
  ASSUME NEW st \in States, NEW cmd \in Commands
  PROVE  HostState(st, cmd) \in States
BY DEF HostState, States, Commands

\* What mixer_status_change() finds is the highest state of the sources.
LEMMA HighestFacts ==
  ASSUME NEW h \in [Streams -> States], NEW s \in Playback
  PROVE  /\ Highest(h) \in States
         /\ \E t \in Playback : h[t] = Highest(h)
         /\ \A u \in Playback : Rank[h[u]] <= Rank[Highest(h)]
<1>. DEFINE Q(st) == /\ \E t \in Playback : h[t] = st
                    /\ \A u \in Playback : Rank[h[u]] <= Rank[st]
<1>1. \A t \in Playback : h[t] \in States BY DEF Streams
<1>2. \E st \in States : Q(st)
  <2>1. CASE \E t \in Playback : h[t] = "RUNNING"
    <3>1. Q("RUNNING") BY <1>1, <2>1 DEF States, Rank
    <3>. QED BY <3>1 DEF States
  <2>2. CASE /\ \A t \in Playback : h[t] # "RUNNING"
             /\ \E t \in Playback : h[t] = "PAUSED"
    <3>1. Q("PAUSED") BY <1>1, <2>2 DEF States, Rank
    <3>. QED BY <3>1 DEF States
  <2>3. CASE /\ \A t \in Playback : h[t] \notin {"RUNNING", "PAUSED"}
             /\ \E t \in Playback : h[t] = "PREPARE"
    <3>1. Q("PREPARE") BY <1>1, <2>3 DEF States, Rank
    <3>. QED BY <3>1 DEF States
  <2>4. CASE /\ \A t \in Playback : h[t] \notin {"RUNNING", "PAUSED", "PREPARE"}
             /\ \E t \in Playback : h[t] = "SETUP"
    <3>1. Q("SETUP") BY <1>1, <2>4 DEF States, Rank
    <3>. QED BY <3>1 DEF States
  <2>5. CASE \A t \in Playback : h[t] = "INIT"
    <3>1. Q("INIT") BY <2>5 DEF Rank
    <3>. QED BY <3>1 DEF States
  <2>. QED BY <1>1, <2>1, <2>2, <2>3, <2>4, <2>5 DEF States
<1>3. Highest(h) = CHOOSE st \in States : Q(st) BY DEF Highest
<1>. HIDE DEF Q
<1>4. Highest(h) \in States /\ Q(Highest(h)) BY <1>2, <1>3
<1>. QED BY <1>4 DEF Q

\* A command on its way to the DAI.
LEMMA AtDaiTypes ==
  ASSUME TypeOK, Ready, NEW cmd \in Commands, NEW d \in Dirs, pc' = AtDai(cmd, d)
  PROVE  /\ pc' \in [Contexts -> Pc] /\ pc'.main.at = "dma"
         /\ \A x \in Contexts : pc[x].at = "suspended" => pc'[x] = pc[x]
<1>. DEFINE place == [Idle EXCEPT !.at = "dma", !.cmd = cmd, !.dir = d]
<1>1. place \in Pc /\ place.at = "dma" BY DEF Idle, Pc, Places, Commands, Dirs
<1>. HIDE DEF place
<1>2. pc' = [pc EXCEPT !.main = place] BY DEF AtDai, place
<1>3. pc \in [Contexts -> Pc] BY DEF TypeOK, Contexts
<1>4. pc.main.at = "idle" BY DEF Ready
<1>. QED BY <1>1, <1>2, <1>3, <1>4 DEF Contexts

\* A trigger of a playback stream preserves the invariant.
LEMMA PlaybackStep ==
  ASSUME StreamInv, NEW s \in Playback, NEW cmd \in Commands,
         trigger_playback(s, cmd)
  PROVE  StreamInv'
<1>. USE DEF StreamInv
<1>. DEFINE h == [host EXCEPT ![s] = HostState(@, cmd)]
<1>1. UNCHANGED <<dai, elems, chan, ssp, job, fault>> BY DEF trigger_playback
<1>2. h \in [Streams -> States] BY HostTypes DEF TypeOK, Streams
<1>3. Highest(h) \in States BY <1>2, HighestFacts
<1>4. host' \in [Streams -> States] /\ mixer' \in States
  BY <1>2, <1>3 DEF trigger_playback
<1>5. drv' \in [Streams -> {"closed", "open", "ready"}]
  BY DEF trigger_playback, TypeOK
<1>6. upset' \subseteq Events BY DEF trigger_playback, TypeOK, Events
<1>7. /\ pc' \in [Contexts -> Pc] /\ OpInv'
      /\ \A x \in Contexts : pc[x].at = "suspended" => pc'[x] = pc[x]
  <2>1. CASE pc' = pc BY <2>1 DEF TypeOK, OpInv, Contexts
  <2>2. CASE pc' = AtDai(cmd, "playback")
    BY <2>2, AtDaiTypes DEF trigger_playback, Dirs, OpInv
  <2>. QED BY <2>1, <2>2 DEF trigger_playback
<1>8. TypeOK' BY <1>1, <1>4, <1>5, <1>6, <1>7 DEF TypeOK, Contexts
<1>9. PortUp' BY <1>1 DEF PortUp
<1>10. DrainingHasWork' BY <1>1, <1>7, DrainingKept
<1>. QED BY <1>7, <1>8, <1>9, <1>10

\* A trigger of a capture stream preserves the invariant.
LEMMA CaptureStep ==
  ASSUME StreamInv, NEW s \in Capture, NEW cmd \in Commands,
         trigger_capture(s, cmd)
  PROVE  StreamInv'
<1>. USE DEF StreamInv
<1>1. UNCHANGED <<host, mixer, dai, elems, chan, ssp, upset, fault>>
  BY DEF trigger_capture
<1>2. drv' \in [Streams -> {"closed", "open", "ready"}] /\ job' \in Capture
  BY DEF trigger_capture, TypeOK
<1>3. /\ pc' \in [Contexts -> Pc] /\ OpInv'
      /\ \A x \in Contexts : pc[x].at = "suspended" => pc'[x] = pc[x]
  BY AtDaiTypes DEF trigger_capture, Dirs, OpInv
<1>4. TypeOK' BY <1>1, <1>2, <1>3 DEF TypeOK, Contexts
<1>5. PortUp' BY <1>1 DEF PortUp
<1>6. DrainingHasWork' BY <1>1, <1>3, DrainingKept
<1>. QED BY <1>3, <1>4, <1>5, <1>6

\* The last component of a walk preserves the invariant.
LEMMA HostStep == StreamInv /\ trigger_host => StreamInv'
<1>. SUFFICES ASSUME StreamInv, trigger_host PROVE StreamInv' OBVIOUS
<1>. USE DEF StreamInv
<1>1. UNCHANGED <<drv, mixer, dai, elems, chan, ssp, job, upset, fault>>
  BY DEF trigger_host
<1>2. pc \in [Contexts -> Pc] BY DEF TypeOK, Contexts
<1>3. Idle \in Pc /\ Idle.at = "idle" BY DEF Idle, Pc, Places, Commands, Dirs
<1>4. /\ pc' \in [Contexts -> Pc] /\ OpInv'
      /\ \A x \in Contexts : pc[x].at = "suspended" => pc'[x] = pc[x]
  BY <1>2, <1>3 DEF trigger_host, OpInv, Contexts
<1>5. pc.main.cmd \in Commands BY <1>2 DEF Contexts, Pc
<1>6. host' \in [Streams -> States]
  <2>1. \A t \in Streams : HostState(host[t], pc.main.cmd) \in States
    BY <1>5, HostTypes DEF TypeOK
  <2>. QED BY <2>1 DEF trigger_host, TypeOK, Streams
<1>7. TypeOK' BY <1>1, <1>4, <1>6 DEF TypeOK, Contexts
<1>8. PortUp' BY <1>1 DEF PortUp
<1>9. DrainingHasWork' BY <1>1, <1>4, DrainingKept
<1>. QED BY <1>4, <1>7, <1>8, <1>9

-----------------------------------------------------------------------------
(* dai_cmd() *)

\* A step within dai_cmd() that leaves ssp.c alone.
LEMMA GoToStep ==
  ASSUME TypeOK, OpInv, NEW x \in Contexts, NEW place \in Places \ {"locked"},
         GoTo(x, place)
  PROVE  pc' \in [Contexts -> Pc] /\ OpInv'
<1>1. pc \in [Contexts -> Pc] BY DEF TypeOK, Contexts
<1>2. /\ pc' \in [Contexts -> Pc] /\ pc'[x].at = place
      /\ \A y \in Contexts \ {x} : pc'[y] = pc[y]
  BY <1>1, GoToOps
<1>. QED BY <1>2 DEF OpInv, Contexts

\* One channel changes: it is not stopped by that, or is about to be looked
\* after; and what leaves dw_dma_stop() has queued the work.
LEMMA ChanStep ==
  ASSUME TypeOK, DrainingHasWork, NEW d \in Dirs, NEW c \in Channels,
         chan' = [chan EXCEPT ![d] = c],
         Stopping(c) => \/ c.work \/ Suspended(d)'
                        \/ Stopping(chan[d]) /\ c.work = chan[d].work,
         \A x \in Contexts : pc[x].at = "suspended" =>
                               pc'[x] = pc[x] \/ (pc[x].dir = d /\ c.work)
  PROVE  chan' \in [Dirs -> Channels] /\ DrainingHasWork'
<1>1. chan \in [Dirs -> Channels] BY DEF TypeOK
<1>2. chan' \in [Dirs -> Channels] BY <1>1
<1>3. \A e \in Dirs : Stopping(chan[e]) => chan[e].work \/ Suspended(e)
  BY DrainingMeans
<1>4. \A e \in Dirs : Suspended(e) => Suspended(e)' \/ (e = d /\ c.work)
  BY DEF Suspended
<1>5. chan'[d] = c /\ \A e \in Dirs \ {d} : chan'[e] = chan[e] BY <1>1
<1>6. \A e \in Dirs : Stopping(chan'[e]) => chan'[e].work \/ Suspended(e)'
  BY <1>3, <1>4, <1>5
<1>. QED BY <1>2, <1>6, DrainingNext

\* dai_cmd() up to and with its first channel operation preserves the
\* invariant.
LEMMA CmdStep ==
  ASSUME StreamInv, NEW x \in Contexts, dai_cmd(x)
  PROVE  StreamInv'
<1>. USE DEF StreamInv
<1>. DEFINE d == pc[x].dir
            cmd == pc[x].cmd
            c == chan[d]
<1>1. UNCHANGED <<compVars, ssp, job, upset, fault>> BY DEF dai_cmd
<1>2. pc \in [Contexts -> Pc] /\ pc[x].at = "dma" /\ d \in Dirs /\ c \in Channels
  BY DEF dai_cmd, TypeOK, Contexts, Pc
<1>3. PICK place \in Places \ {"locked"} :
        /\ GoTo(x, place)
        /\ \/ chan' = chan
           \/ chan' = [chan EXCEPT ![d] = dw_dma_pause(c)]
           \/ chan' = [chan EXCEPT ![d] = dw_dma_start(c)]
           \/ /\ chan' = [chan EXCEPT ![d] = dw_dma_stop(c, dai[d] = "RUNNING")]
              /\ c.en => place = "suspended"
  BY DEF dai_cmd, Places, After
<1>4. pc' \in [Contexts -> Pc] /\ OpInv' BY <1>3, GoToStep
<1>5. /\ pc'[x].at = place
      /\ place # "idle" => pc'[x].dir = d
      /\ \A y \in Contexts : pc[y].at = "suspended" => pc'[y] = pc[y]
  BY <1>2, <1>3, GoToOps
<1>6. chan' \in [Dirs -> Channels] /\ DrainingHasWork'
  <2>1. CASE chan' = chan BY <1>5, <2>1, DrainingKept DEF TypeOK
  <2>2. CASE chan' = [chan EXCEPT ![d] = dw_dma_pause(c)]
    <3>1. dw_dma_pause(c) \in Channels BY <1>2, ChannelTypes
    <3>2. /\ Stopping(dw_dma_pause(c)) => Stopping(c)
          /\ dw_dma_pause(c).work = c.work
      BY <1>2, StoppingOps
    <3>. QED BY <1>2, <1>5, <2>2, <3>1, <3>2, ChanStep
  <2>3. CASE chan' = [chan EXCEPT ![d] = dw_dma_start(c)]
    <3>1. dw_dma_start(c) \in Channels BY <1>2, ChannelTypes
    <3>2. ~Stopping(dw_dma_start(c)) BY <1>2, StoppingOps
    <3>. QED BY <1>2, <1>5, <2>3, <3>1, <3>2, ChanStep
  <2>4. CASE /\ chan' = [chan EXCEPT ![d] = dw_dma_stop(c, dai[d] = "RUNNING")]
             /\ c.en => place = "suspended"
    <3>1. PICK drain \in BOOLEAN : chan' = [chan EXCEPT ![d] = dw_dma_stop(c, drain)]
      BY <2>4
    <3>2. dw_dma_stop(c, drain) \in Channels BY <1>2, ChannelTypes
    <3>3. Stopping(dw_dma_stop(c, drain)) => c.en BY <1>2, StoppingOps
    <3>4. PICK e \in Dirs : e = d BY <1>2
    <3>5. Stopping(dw_dma_stop(c, drain)) => Suspended(e)'
      BY <1>5, <2>4, <3>3, <3>4 DEF Suspended
    <3>6. chan' = [chan EXCEPT ![e] = dw_dma_stop(c, drain)] BY <3>1, <3>4
    <3>. QED BY <1>5, <3>2, <3>5, <3>6, ChanStep
  <2>. QED BY <1>3, <2>1, <2>2, <2>3, <2>4
<1>7. TypeOK' BY <1>1, <1>4, <1>6 DEF TypeOK, Contexts, compVars
<1>8. PortUp' BY <1>1 DEF PortUp
<1>. QED BY <1>4, <1>6, <1>7, <1>8

\* dw_dma_stop() after its lock preserves the invariant...
LEMMA ScheduleStep ==
  ASSUME StreamInv, NEW x \in Contexts, stop_schedule(x)
  PROVE  StreamInv'
<1>. USE DEF StreamInv
<1>. DEFINE d == pc[x].dir
<1>1. UNCHANGED <<compVars, ssp, job, upset, fault>> BY DEF stop_schedule
<1>2. pc \in [Contexts -> Pc] /\ d \in Dirs /\ chan[d] \in Channels
  BY DEF TypeOK, Contexts, Pc
<1>3. GoTo(x, "stopping") /\ "stopping" \in Places \ {"locked"}
  BY DEF stop_schedule, Places
<1>4. pc' \in [Contexts -> Pc] /\ OpInv' BY <1>3, GoToStep
<1>5. \A y \in Contexts \ {x} : pc'[y] = pc[y] BY <1>2, <1>3, GoToOps
<1>6. chan' = [chan EXCEPT ![d] = ScheduleWork(chan[d])]
  BY <1>2 DEF stop_schedule
<1>7. ScheduleWork(chan[d]) \in Channels /\ ScheduleWork(chan[d]).work
  BY <1>2, ChannelTypes, StoppingOps
<1>8. chan' \in [Dirs -> Channels] /\ DrainingHasWork'
  BY <1>2, <1>5, <1>6, <1>7, ChanStep
<1>9. TypeOK' BY <1>1, <1>4, <1>8 DEF TypeOK, Contexts, compVars
<1>10. PortUp' BY <1>1 DEF PortUp
<1>. QED BY <1>4, <1>8, <1>9, <1>10

\* ...and so does its wait.
LEMMA StopWaitStep ==
  ASSUME StreamInv, NEW x \in Contexts, stop_wait(x)
  PROVE  StreamInv'
<1>. USE DEF StreamInv
<1>. DEFINE d == pc[x].dir
            c == [chan[d] EXCEPT !.complete = FALSE]
<1>1. UNCHANGED <<compVars, ssp, job, fault>> /\ upset' \subseteq Events
  BY DEF stop_wait, TypeOK, Events
<1>2. /\ pc \in [Contexts -> Pc] /\ pc[x].at = "stopping"
      /\ d \in Dirs /\ chan[d] \in Channels
  BY DEF TypeOK, Contexts, Pc, stop_wait
<1>3. GoTo(x, "trigger") /\ "trigger" \in Places \ {"locked"}
  BY DEF stop_wait, Places
<1>4. pc' \in [Contexts -> Pc] /\ OpInv' BY <1>3, GoToStep
<1>5. \A y \in Contexts : pc[y].at = "suspended" => pc'[y] = pc[y]
  BY <1>2, <1>3, GoToOps
<1>6. chan' = [chan EXCEPT ![d] = c] BY <1>2 DEF stop_wait, TypeOK
<1>7. c \in Channels BY <1>2, ChannelTypes
<1>8. (Stopping(c) => Stopping(chan[d])) /\ c.work = chan[d].work
  BY <1>2 DEF Stopping, Channels
<1>. HIDE DEF c
<1>9. chan' \in [Dirs -> Channels] /\ DrainingHasWork'
  BY <1>2, <1>5, <1>6, <1>7, <1>8, ChanStep
<1>10. TypeOK' BY <1>1, <1>4, <1>9 DEF TypeOK, Contexts, compVars
<1>11. PortUp' BY <1>1 DEF PortUp
<1>. QED BY <1>4, <1>9, <1>10, <1>11

\* What ssp_trigger() chooses, and what that does to the port.
LEMMA OpTypes ==
  ASSUME NEW p \in Ports, Up(p), NEW d \in Dirs, NEW cmd \in Commands
  PROVE  /\ SspOp(p, cmd, d) \in {"none", "wait", "start", "pause", "stop"}
         /\ \A op \in {"start", "pause", "stop"} :
              SspApply(p, op, d) \in Ports /\ Up(SspApply(p, op, d))
<1>1. SspOp(p, cmd, d) \in {"none", "wait", "start", "pause", "stop"}
  BY DEF SspOp, Commands
<1>2. \A op \in {"start", "pause", "stop"} :
        SspApply(p, op, d) \in Ports /\ Up(SspApply(p, op, d))
  BY PortOps DEF SspApply
<1>. QED BY <1>1, <1>2

\* ssp_trigger() up to its wait or its lock preserves the invariant.
LEMMA TriggerStep ==
  ASSUME StreamInv, NEW x \in Contexts, ssp_trigger(x)
  PROVE  StreamInv'
<1>. USE DEF StreamInv
<1>. DEFINE d == pc[x].dir
            op == SspOp(ssp, pc[x].cmd, d)
<1>1. UNCHANGED <<compVars, chan, job, upset>> /\ fault' \in {"none", "spin"}
  BY DEF ssp_trigger, TypeOK
<1>2. /\ pc \in [Contexts -> Pc] /\ pc[x] \in Pc /\ pc[x].at = "trigger"
      /\ d \in Dirs /\ pc[x].cmd \in Commands
  BY DEF TypeOK, Contexts, Pc, ssp_trigger
<1>3. ssp \in Ports /\ Up(ssp) BY DEF TypeOK, PortUp, Up
<1>4. op \in {"none", "wait", "start", "pause", "stop"} BY <1>2, <1>3, OpTypes
<1>5. Triggered(x) \in Places \ {"locked"} BY DEF Triggered, Places
<1>6. {"state", "draining"} \subseteq Places \ {"locked"} BY DEF Places
<1>7. ssp' \in Ports /\ Up(ssp')
  <2>1. SspWait(ssp, d) \in Ports /\ Up(SspWait(ssp, d)) BY <1>2, <1>3, PortOps
  <2>2. op \notin {"none", "wait"} =>
          SspApply(ssp, op, d) \in Ports /\ Up(SspApply(ssp, op, d))
    BY <1>2, <1>3, <1>4, OpTypes
  <2>3. \/ ssp' = ssp \/ ssp' = SspWait(ssp, d)
        \/ op \notin {"none", "wait"} /\ ssp' = SspApply(ssp, op, d)
    BY DEF ssp_trigger
  <2>. QED BY <1>3, <2>1, <2>2, <2>3
<1>8. /\ pc' \in [Contexts -> Pc] /\ OpInv'
      /\ \A y \in Contexts : pc[y].at = "suspended" => pc'[y] = pc[y]
  <2>1. CASE \E place \in Places \ {"locked"} : GoTo(x, place)
    <3>1. PICK place \in Places \ {"locked"} : GoTo(x, place) BY <2>1
    <3>2. pc' \in [Contexts -> Pc] /\ OpInv' BY <3>1, GoToStep
    <3>3. \A y \in Contexts \ {x} : pc'[y] = pc[y] BY <1>2, <3>1, GoToOps
    <3>. QED BY <1>2, <3>2, <3>3
  <2>2. CASE /\ op \notin {"none", "wait"} /\ x = "main"
             /\ pc' = [pc EXCEPT !.main.at = "locked", !.main.op = op]
    <3>1. [[pc.main EXCEPT !.at = "locked"] EXCEPT !.op = op] \in Pc
      BY <1>2, <1>4, <2>2 DEF Pc, Places
    <3>2. [[pc.main EXCEPT !.at = "locked"] EXCEPT !.op = op].op = op
      BY <1>2, <2>2 DEF Pc
    <3>. HIDE DEF op
    <3>3. pc' = [pc EXCEPT ![x] = [[pc.main EXCEPT !.at = "locked"] EXCEPT !.op = op]]
      BY <1>2, <2>2 DEF Contexts
    <3>. QED BY <1>2, <2>2, <3>1, <3>2, <3>3 DEF OpInv, Contexts
  <2>3. CASE pc' = pc BY <1>2, <2>3 DEF OpInv
  <2>. QED BY <1>5, <1>6, <2>1, <2>2, <2>3 DEF ssp_trigger
<1>9. TypeOK' BY <1>1, <1>7, <1>8 DEF TypeOK, Contexts, compVars
<1>10. PortUp' BY <1>7 DEF PortUp, Up
<1>11. DrainingHasWork' BY <1>1, <1>8, DrainingKept
<1>. QED BY <1>8, <1>9, <1>10, <1>11

\* The functions of ssp.c that take the lock preserve the invariant.
LEMMA UnlockStep == StreamInv /\ ssp_unlock => StreamInv'
<1>. SUFFICES ASSUME StreamInv, ssp_unlock PROVE StreamInv' OBVIOUS
<1>. USE DEF StreamInv
<1>1. UNCHANGED <<compVars, chan, job, upset, fault>> BY DEF ssp_unlock
<1>2. /\ pc \in [Contexts -> Pc] /\ pc.main \in Pc /\ pc.main.at = "locked"
      /\ pc.main.dir \in Dirs /\ pc.main.cmd \in Commands
      /\ pc.main.op \in {"start", "pause", "stop"}
  BY DEF TypeOK, Contexts, Pc, ssp_unlock, Locked, OpInv
<1>3. ssp \in Ports /\ Up(ssp) BY DEF TypeOK, PortUp, Up
<1>4. ssp' \in Ports /\ Up(ssp') BY <1>2, <1>3, OpTypes DEF ssp_unlock
<1>5. Triggered("main") \in Places \ {"locked"} BY DEF Triggered, Places
<1>6. PICK place \in Places \ {"locked"} : place = Triggered("main") BY <1>5
<1>. DEFINE to == [[pc.main EXCEPT !.at = place] EXCEPT !.op = "none"]
<1>7. to \in Pc /\ to.at = place BY <1>2 DEF Pc
<1>8. pc' = [pc EXCEPT !["main"] = to] BY <1>2, <1>6 DEF ssp_unlock, Contexts
<1>. HIDE DEF to
<1>9. /\ pc' \in [Contexts -> Pc] /\ OpInv'
      /\ \A y \in Contexts : pc[y].at = "suspended" => pc'[y] = pc[y]
  BY <1>2, <1>7, <1>8 DEF OpInv, Contexts
<1>10. TypeOK' BY <1>1, <1>4, <1>9 DEF TypeOK, Contexts, compVars
<1>11. PortUp' BY <1>4 DEF PortUp, Up
<1>12. DrainingHasWork' BY <1>1, <1>9, DrainingKept
<1>. QED BY <1>9, <1>10, <1>11, <1>12

\* The wait of ssp_trigger() preserves the invariant.
LEMMA SspWaitStep ==
  ASSUME StreamInv, NEW x \in Contexts, ssp_wait(x)
  PROVE  StreamInv'
<1>. USE DEF StreamInv
<1>1. UNCHANGED <<compVars, chan, job, fault>> /\ upset' \subseteq Events
  BY DEF ssp_wait, TypeOK, Events
<1>2. pc \in [Contexts -> Pc] /\ pc[x].at = "draining"
  BY DEF TypeOK, Contexts, ssp_wait
<1>3. ssp \in Ports /\ Up(ssp) BY DEF TypeOK, PortUp, Up
<1>4. ssp' \in Ports /\ Up(ssp') BY <1>3, PortOps DEF ssp_wait, Dirs
<1>5. GoTo(x, "state") /\ "state" \in Places \ {"locked"} BY DEF ssp_wait, Places
<1>6. pc' \in [Contexts -> Pc] /\ OpInv' BY <1>5, GoToStep
<1>7. \A y \in Contexts : pc[y].at = "suspended" => pc'[y] = pc[y]
  BY <1>2, <1>5, GoToOps
<1>8. TypeOK' BY <1>1, <1>4, <1>6 DEF TypeOK, Contexts, compVars
<1>9. PortUp' BY <1>4 DEF PortUp, Up
<1>10. DrainingHasWork' BY <1>1, <1>7, DrainingKept
<1>. QED BY <1>6, <1>8, <1>9, <1>10

\* dma_release() preserves the invariant.
LEMMA ReleaseStep == StreamInv /\ dai_release => StreamInv'
<1>. SUFFICES ASSUME StreamInv, dai_release PROVE StreamInv' OBVIOUS
<1>. USE DEF StreamInv
<1>. DEFINE d == pc.main.dir
<1>1. UNCHANGED <<compVars, ssp, job, upset, fault>> BY DEF dai_release
<1>2. /\ pc \in [Contexts -> Pc] /\ pc.main.at = "release"
      /\ d \in Dirs /\ chan[d] \in Channels
  BY DEF TypeOK, Contexts, Pc, dai_release
<1>3. GoTo("main", "state") /\ "state" \in Places \ {"locked"} /\ "main" \in Contexts
  BY DEF dai_release, Places, Contexts
<1>4. pc' \in [Contexts -> Pc] /\ OpInv' BY <1>3, GoToStep
<1>5. \A y \in Contexts : pc[y].at = "suspended" => pc'[y] = pc[y]
  BY <1>2, <1>3, GoToOps
<1>6. chan' = [chan EXCEPT ![d] = dw_dma_release(chan[d])] BY DEF dai_release
<1>7. dw_dma_release(chan[d]) \in Channels /\ ~Stopping(dw_dma_release(chan[d]))
  BY <1>2, ChannelTypes, StoppingOps
<1>8. chan' \in [Dirs -> Channels] /\ DrainingHasWork'
  BY <1>2, <1>5, <1>6, <1>7, ChanStep
<1>9. TypeOK' BY <1>1, <1>4, <1>8 DEF TypeOK, Contexts, compVars
<1>10. PortUp' BY <1>1 DEF PortUp
<1>. QED BY <1>4, <1>8, <1>9, <1>10

\* The end of dai_cmd() preserves the invariant.
LEMMA StateStep ==
  ASSUME StreamInv, NEW x \in Contexts, dai_state(x)
  PROVE  StreamInv'
<1>. USE DEF StreamInv
<1>. DEFINE d == pc[x].dir
<1>1. UNCHANGED <<host, drv, mixer, elems, ssp, job, upset, fault>> BY DEF dai_state
<1>2. /\ pc \in [Contexts -> Pc] /\ pc[x].at = "state" /\ pc[x].cmd \in Commands
      /\ d \in Dirs /\ chan[d] \in Channels
  BY DEF TypeOK, Contexts, Pc, dai_state
<1>3. dai' \in [Dirs -> States] BY <1>2 DEF dai_state, TypeOK, States
<1>4. PICK place \in Places \ {"locked"} : GoTo(x, place)
  BY DEF dai_state, After, Places
<1>5. pc' \in [Contexts -> Pc] /\ OpInv' BY <1>4, GoToStep
<1>6. \A y \in Contexts : pc[y].at = "suspended" => pc'[y] = pc[y]
  BY <1>2, <1>4, GoToOps
<1>7. chan' \in [Dirs -> Channels] /\ DrainingHasWork'
  <2>1. CASE x = "irq"
    <3>1. chan' = [chan EXCEPT ![d] = Reload(chan[d], "end")]
      BY <2>1 DEF dai_state
    <3>2. Reload(chan[d], "end") \in Channels BY <1>2, ChannelTypes
    <3>3. Stopping(Reload(chan[d], "end")) =>
            Stopping(chan[d]) /\ Reload(chan[d], "end").work = chan[d].work
      BY <1>2, StoppingOps
    <3>. QED BY <1>2, <1>6, <3>1, <3>2, <3>3, ChanStep
  <2>2. CASE x # "irq"
    <3>1. chan' = chan BY <2>2 DEF dai_state
    <3>. QED BY <1>6, <3>1, DrainingKept DEF TypeOK
  <2>. QED BY <2>1, <2>2
<1>8. TypeOK' BY <1>1, <1>3, <1>5, <1>7 DEF TypeOK, Contexts
<1>9. PortUp' BY <1>1 DEF PortUp
<1>. QED BY <1>5, <1>7, <1>8, <1>9

-----------------------------------------------------------------------------
(* Interrupts *)

\* dw_dma_irq_handler() with its callback preserves the invariant.
LEMMA IrqStep ==
  ASSUME StreamInv, NEW d \in Dirs, dma_irq(d)
  PROVE  StreamInv'
<1>. USE DEF StreamInv
<1>. DEFINE c == chan[d]
<1>1. UNCHANGED <<compVars, ssp, job, fault>> /\ upset' \subseteq Events
  BY DEF dma_irq, TypeOK, Events
<1>2. pc \in [Contexts -> Pc] /\ c \in Channels BY DEF TypeOK, Contexts
<1>3. /\ pc' \in [Contexts -> Pc] /\ OpInv'
      /\ \A y \in Contexts : pc[y].at = "suspended" => pc'[y] = pc[y]
  <2>1. CASE pc' = pc BY <1>2, <2>1 DEF OpInv
  <2>2. CASE /\ d = "playback"
             /\ pc' = [pc EXCEPT !.irq = [Idle EXCEPT !.at = "dma"]]
    <3>1. pc.irq.at = "idle" BY <2>2 DEF dma_irq
    <3>. DEFINE to == [Idle EXCEPT !.at = "dma"]
    <3>2. to \in Pc BY DEF Idle, Pc, Places, Commands, Dirs
    <3>3. pc' = [pc EXCEPT !["irq"] = to] BY <2>2
    <3>. HIDE DEF to
    <3>. QED BY <1>2, <3>1, <3>2, <3>3 DEF OpInv, Contexts
  <2>. QED BY <2>1, <2>2 DEF dma_irq
<1>4. PICK t \in Channels :
        /\ chan' = [chan EXCEPT ![d] = t]
        /\ Stopping(t) => Stopping(c) /\ t.work = c.work
  <2>1. CASE chan' = [chan EXCEPT ![d].tfr = FALSE]
    <3>1. [c EXCEPT !.tfr = FALSE] \in Channels BY <1>2, ChannelTypes
    <3>2. Stopping([c EXCEPT !.tfr = FALSE]) =>
            Stopping(c) /\ [c EXCEPT !.tfr = FALSE].work = c.work
      BY <1>2 DEF Stopping, Channels
    <3>. QED BY <2>1, <3>1, <3>2
  <2>2. CASE \E next \in {"own", "list"} : chan' = [chan EXCEPT ![d] = Reload(c, next)]
    <3>1. PICK next \in {"own", "list"} : chan' = [chan EXCEPT ![d] = Reload(c, next)]
      BY <2>2
    <3>2. Reload(c, next) \in Channels BY <1>2, ChannelTypes
    <3>3. Stopping(Reload(c, next)) => Stopping(c) /\ Reload(c, next).work = c.work
      BY <1>2, StoppingOps
    <3>. QED BY <3>1, <3>2, <3>3
  <2>. QED BY <2>1, <2>2 DEF dma_irq
<1>5. chan' \in [Dirs -> Channels] /\ DrainingHasWork' BY <1>3, <1>4, ChanStep
<1>6. TypeOK' BY <1>1, <1>3, <1>5 DEF TypeOK, Contexts, compVars
<1>7. PortUp' BY <1>1 DEF PortUp
<1>. QED BY <1>3, <1>5, <1>6, <1>7

\* dw_dma_fifo_work() preserves the invariant.
LEMMA FifoStep ==
  ASSUME StreamInv, NEW d \in Dirs, fifo_work(d)
  PROVE  StreamInv'
<1>. USE DEF StreamInv
<1>. DEFINE c == chan[d]
<1>1. UNCHANGED <<compVars, ssp, job, pc, upset, fault>> BY DEF fifo_work
<1>2. c \in Channels BY DEF TypeOK
<1>3. PICK empty \in BOOLEAN : chan' = [chan EXCEPT ![d] = dw_dma_fifo_work(c, empty)]
  BY DEF fifo_work
<1>4. dw_dma_fifo_work(c, empty) \in Channels BY <1>2, ChannelTypes
<1>5. Stopping(dw_dma_fifo_work(c, empty)) =>
        Stopping(c) /\ dw_dma_fifo_work(c, empty).work = c.work
  BY <1>2, StoppingOps
<1>6. chan' \in [Dirs -> Channels] /\ DrainingHasWork'
  BY <1>1, <1>3, <1>4, <1>5, ChanStep
<1>7. TypeOK' BY <1>1, <1>6 DEF TypeOK, compVars
<1>8. PortUp' /\ OpInv' BY <1>1 DEF PortUp, OpInv
<1>. QED BY <1>6, <1>7, <1>8

\* ssp_drain_work() preserves the invariant.
LEMMA DrainStep == StreamInv /\ drain_work => StreamInv'
<1>. SUFFICES ASSUME StreamInv, drain_work PROVE StreamInv' OBVIOUS
<1>. USE DEF StreamInv
<1>1. UNCHANGED <<compVars, chan, job, pc, upset>> /\ fault' \in {"none", "spin"}
  BY DEF drain_work, TypeOK
<1>2. ssp \in Ports /\ Up(ssp) /\ "capture" \in Dirs
  BY DEF TypeOK, PortUp, Up, Dirs
<1>3. \A p \in Ports : Up(p) =>
        /\ [p EXCEPT !.complete = TRUE, !.work = FALSE] \in Ports
        /\ Up([p EXCEPT !.complete = TRUE, !.work = FALSE])
  BY DEF Ports, Up
<1>4. \/ ssp' = ssp
      \/ \E p \in {ssp_stop(ssp, "capture"), ssp_pause(ssp, "capture")} :
           ssp' = [p EXCEPT !.complete = TRUE, !.work = FALSE]
  BY DEF drain_work, ssp_drain_work
<1>5. ssp' \in Ports /\ Up(ssp') BY <1>2, <1>3, <1>4, PortOps
<1>6. TypeOK' BY <1>1, <1>5 DEF TypeOK, compVars
<1>7. PortUp' BY <1>5 DEF PortUp, Up
<1>8. OpInv' BY <1>1 DEF OpInv
<1>9. DrainingHasWork' BY <1>1, DrainingKept
<1>. QED BY <1>6, <1>7, <1>8, <1>9

\* The end of a transfer preserves the invariant.
LEMMA TransferStep ==
  ASSUME StreamInv, NEW d \in Dirs, transfer_done(d)
  PROVE  StreamInv'
<1>. USE DEF StreamInv
<1>. DEFINE c == chan[d]
            t == [[c EXCEPT !.en = FALSE] EXCEPT !.tfr = TRUE]
<1>1. UNCHANGED <<compVars, ssp, job, pc, upset, fault>> BY DEF transfer_done
<1>2. c \in Channels BY DEF TypeOK
<1>0. t \in Channels BY <1>2, ChannelTypes
<1>3. Stopping(t) => Stopping(c) /\ t.work = c.work
  BY <1>2 DEF Stopping, Channels
<1>4. chan' = [chan EXCEPT ![d] = t] BY DEF transfer_done, TypeOK
<1>. HIDE DEF t
<1>5. chan' \in [Dirs -> Channels] /\ DrainingHasWork'
  BY <1>0, <1>1, <1>3, <1>4, ChanStep
<1>6. TypeOK' BY <1>1, <1>5 DEF TypeOK, compVars
<1>7. PortUp' /\ OpInv' BY <1>1 DEF PortUp, OpInv
<1>. QED BY <1>5, <1>6, <1>7

-----------------------------------------------------------------------------
(* Theorems *)

\* Every step of the specification preserves the invariant.
LEMMA NextInv == StreamInv /\ [Next]_vars => StreamInv'
<1>. SUFFICES ASSUME StreamInv, [Next]_vars PROVE StreamInv' OBVIOUS
<1>0. "main" \in Contexts /\ "irq" \in Contexts BY DEF Contexts
<1>1. CASE dai_config BY <1>1, ConfigStep
<1>2. CASE \E s \in Streams : pcm_params(s) \/ pcm_free(s) \/ prepare(s)
  BY <1>2, ParamsStep, PrepareStep
<1>3. CASE \E s \in Playback, cmd \in Commands : trigger_playback(s, cmd)
  BY <1>3, PlaybackStep
<1>4. CASE \E s \in Capture, cmd \in Commands : trigger_capture(s, cmd)
  BY <1>4, CaptureStep
<1>5. ASSUME NEW x \in Contexts, Step(x) PROVE StreamInv'
  BY <1>5, CmdStep, ScheduleStep, StopWaitStep, TriggerStep, SspWaitStep, StateStep
     DEF Step
<1>6. CASE Main
  BY <1>0, <1>5, <1>6, UnlockStep, ReleaseStep, HostStep DEF Main
<1>7. CASE Step("irq") BY <1>0, <1>5, <1>7
<1>8. CASE \E d \in Dirs : dma_irq(d) \/ fifo_work(d) \/ transfer_done(d)
  BY <1>8, IrqStep, FifoStep, TransferStep
<1>9. CASE drain_work BY <1>9, DrainStep
<1>10. CASE UNCHANGED vars
  BY <1>10 DEF StreamInv, TypeOK, OpInv, PortUp, DrainingHasWork, vars, compVars
<1>11. Halted => UNCHANGED vars BY DEF Halted
<1>. QED
  BY <1>1, <1>2, <1>3, <1>4, <1>6, <1>7, <1>8, <1>9, <1>10, <1>11 DEF Next

\* The inductive invariant.
THEOREM StreamInvariant == Spec => []StreamInv
BY InitInv, NextInv, PTL DEF Spec

\* Types: drain_count, which dw_dma_fifo_work() counts down in an interrupt
\* while commands set it, never leaves its range.
THEOREM TypeCorrect == Spec => []TypeOK
<1>1. StreamInv => TypeOK BY DEF StreamInv
<1>. QED BY <1>1, StreamInvariant, PTL

\* A direction of the port that runs has its requests and the port enabled,
\* for any number of streams: ssp_stop() of one direction and the drain work,
\* which both share, never take them away.
THEOREM PortStaysUp == Spec => []PortUp
<1>1. StreamInv => PortUp BY DEF StreamInv
<1>. QED BY <1>1, StreamInvariant, PTL

\* A channel that dw_dma_stop() began to stop is never left without its work,
\* for any number of streams and tries.
THEOREM DrainingLookedAfter == Spec => []DrainingHasWork
<1>1. StreamInv => DrainingHasWork BY DEF StreamInv
<1>. QED BY <1>1, StreamInvariant, PTL

-----------------------------------------------------------------------------
(***************************************************************************)
(* Who waits for what: ssp->lock and the drain work, the completion of     *)
(* dw_dma_stop(), and what the mixer knows of its sources when it passes a *)
(* command on.                                                             *)
(***************************************************************************)

-----------------------------------------------------------------------------
(* The inductive invariant *)

\* Only a playback DAI stops itself, and that is a rare event.
IrqInv ==
  pc.irq.at # "idle" =>
    /\ "eos" \in upset /\ pc.irq.dir = "playback" /\ pc.irq.cmd = "STOP"
    /\ pc.irq.at \in {"dma", "suspended", "stopping", "trigger", "draining", "state"}

\* The drain work is queued only while someone waits for it, or did not wait
\* long enough.
WorkInv ==
  /\ ssp.complete => ~ssp.work
  /\ ssp.work => "late" \in upset \/ \E x \in Contexts : pc[x].at = "draining"

\* In dw_dma_stop() a channel is left to its work, which reports completion
\* once the channel is disabled.
StopInv ==
  \A x \in Contexts :
    /\ pc[x].at \in {"suspended", "stopping"} =>
         chan[pc[x].dir].status \in {"DRAINING", "STOPPING", "IDLE"}
    /\ (pc[x].at = "stopping" /\ chan[pc[x].dir].complete) =>
         chan[pc[x].dir].status = "IDLE" /\ ~chan[pc[x].dir].en

\* A DAI does not stop itself while the main loop stops it.
StopAlone ==
  (pc.main.at \in {"suspended", "stopping"} /\ pc.main.dir = "playback") =>
    pc.irq.at = "idle"

Sounds == \E s \in Playback : host[s] = "RUNNING"

\* The main loop commands the DAI of direction d.
Walks(d) == pc.main.at # "idle" /\ pc.main.dir = d

\* A stream that is not open is in its first state, and no command is for it;
\* only a capture stream's host component comes after the DAI; the mixer runs as
\* long as a source does.
MixInv ==
  /\ \A s \in Streams : drv[s] = "closed" => host[s] = "INIT"
  /\ Walks("capture") => drv[job] # "closed"
  /\ pc.main.at = "host" => Walks("capture")
  /\ Sounds <=> mixer = "RUNNING"

\* The mixer lets a pause or a stop pass only when no source runs.
QuietInv ==
  (Walks("playback") /\ pc.main.cmd \in {"PAUSE", "STOP"}) => ~Sounds

LockInv ==
  IrqInv /\ WorkInv /\ LockSafe /\ StopInv /\ StopAlone /\ MixInv /\ QuietInv

LEMMA LockInit == Init => LockInv
<1>. SUFFICES ASSUME Init PROVE LockInv OBVIOUS
<1>1. IrqInv /\ StopInv /\ StopAlone /\ QuietInv
  BY DEF Init, Idle, Contexts, IrqInv, StopInv, StopAlone, QuietInv, Walks
<1>2. WorkInv /\ LockSafe BY DEF Init, NewPort, WorkInv, LockSafe
<1>3. MixInv BY DEF Init, MixInv, Sounds, Streams, Walks, Idle
<1>. QED BY <1>1, <1>2, <1>3 DEF LockInv

-----------------------------------------------------------------------------
(* Commands of the host *)

\* The main loop takes a command: nothing of dai_cmd() is under way.
LEMMA ReadyFacts == Ready => fault = "none" /\ pc.irq.at = "idle" /\ pc.main.at = "idle"
BY DEF Ready, CanRun

\* Steps that leave the DAIs and the port alone.
LEMMA CompStep ==
  ASSUME LockInv, Ready, UNCHANGED <<pc, fault>>,
         ssp'.work = ssp.work, ssp'.complete = ssp.complete,
         "late" \in upset => "late" \in upset'
  PROVE  IrqInv' /\ WorkInv' /\ LockSafe' /\ StopInv' /\ StopAlone' /\ QuietInv'
<1>1. fault = "none" /\ pc.irq.at = "idle" /\ pc.main.at = "idle" BY ReadyFacts
<1>2. IrqInv' /\ StopAlone' /\ QuietInv'
  BY <1>1 DEF IrqInv, StopAlone, QuietInv, Walks
<1>3. StopInv' BY <1>1 DEF StopInv, Contexts
<1>4. WorkInv' BY DEF LockInv, WorkInv
<1>5. LockSafe' BY <1>1 DEF LockSafe
<1>. QED BY <1>2, <1>3, <1>4, <1>5

LEMMA LockConfig ==
  ASSUME StreamInv, LockInv, dai_config
  PROVE  LockInv'
<1>1. /\ Ready /\ UNCHANGED <<compVars, chan, job, pc, upset, fault>>
      /\ ssp' = ssp_set_config(ssp) /\ ssp \in Ports
  BY DEF dai_config, StreamInv, TypeOK
<1>2. ssp'.work = ssp.work /\ ssp'.complete = ssp.complete
  BY <1>1 DEF ssp_set_config, Ports
<1>3. MixInv' BY <1>1 DEF LockInv, MixInv, Sounds, Walks, compVars
<1>. QED BY <1>1, <1>2, <1>3, CompStep DEF LockInv

\* A reset of a stream that does not run leaves the mixer right.
LEMMA MixReset ==
  ASSUME TypeOK, MixInv, NEW s \in Streams, ResetStream(s), host[s] # "RUNNING",
         Ready, pc' = pc
  PROVE  MixInv'
<1>0. ~Walks("capture")' /\ pc'.main.at = "idle" BY ReadyFacts DEF Walks
<1>1. /\ host' = [host EXCEPT ![s] = "INIT"] /\ drv' = [drv EXCEPT ![s] = "closed"]
      /\ host \in [Streams -> States] /\ drv \in [Streams -> {"closed", "open", "ready"}]
  BY DEF ResetStream, TypeOK
<1>2. \A t \in Streams : drv'[t] = "closed" => host'[t] = "INIT"
  BY <1>1 DEF MixInv
<1>3. Sounds' <=> Sounds BY <1>1 DEF Sounds, Streams
<1>4. mixer' = mixer \/ (mixer' = "INIT" /\ ~Sounds)
  <2>1. CASE mixer' = "INIT" /\ \A t \in Playback : ~(Rank[host'[t]] > Rank["SETUP"])
    <3>1. ~Sounds' BY <2>1 DEF Sounds, Rank
    <3>. QED BY <1>3, <2>1, <3>1
  <2>. QED BY <1>1, <2>1 DEF ResetStream
<1>. QED BY <1>0, <1>2, <1>3, <1>4 DEF MixInv

LEMMA LockParams ==
  ASSUME StreamInv, LockInv, NEW s \in Streams, pcm_params(s) \/ pcm_free(s)
  PROVE  LockInv'
<1>1. Ready /\ UNCHANGED <<chan, ssp, job, pc, upset, fault>>
  BY DEF pcm_params, pcm_free
<1>2. host[s] # "RUNNING"
  <2>1. CASE pcm_params(s)
    <3>1. drv[s] = "closed" BY <2>1 DEF pcm_params, Open
    <3>. QED BY <3>1 DEF LockInv, MixInv
  <2>2. CASE pcm_free(s) BY <2>2 DEF pcm_free
  <2>. QED BY <2>1, <2>2
<1>3. CASE ResetStream(s)
  <2>1. MixInv' BY <1>1, <1>2, <1>3, MixReset DEF StreamInv, LockInv
  <2>. QED BY <1>1, <2>1, CompStep DEF LockInv
<1>4. CASE ~ResetStream(s)
  <2>1. UNCHANGED <<host, mixer>> /\ drv' = [drv EXCEPT ![s] = "open"]
    BY <1>4 DEF pcm_params, pcm_free
  <2>2. ~Walks("capture")' /\ pc'.main.at = "idle" BY <1>1, ReadyFacts DEF Walks
  <2>3. MixInv' BY <2>1, <2>2 DEF LockInv, MixInv, Sounds, StreamInv, TypeOK
  <2>. QED BY <1>1, <2>3, CompStep DEF LockInv
<1>. QED BY <1>3, <1>4

LEMMA LockPrepare ==
  ASSUME StreamInv, LockInv, NEW s \in Streams, prepare(s)
  PROVE  LockInv'
<1>1. Ready /\ UNCHANGED <<elems, ssp, job, pc, fault>> BY DEF prepare
<1>2. /\ host' = [host EXCEPT ![s] = "PREPARE"] /\ host[s] # "RUNNING"
      /\ host \in [Streams -> States] /\ drv \in [Streams -> {"closed", "open", "ready"}]
      /\ \E v \in {"ready", "open"} : drv' = [drv EXCEPT ![s] = v]
      /\ mixer' = mixer \/ (mixer # "RUNNING" /\ mixer' = "PREPARE")
  BY DEF prepare, StreamInv, TypeOK
<1>3. Sounds' <=> Sounds BY <1>2 DEF Sounds, Streams
<1>4. \A t \in Streams : drv'[t] = "closed" => host'[t] = "INIT"
  BY <1>2 DEF LockInv, MixInv
<1>5. ~Walks("capture")' /\ pc'.main.at = "idle" BY <1>1, ReadyFacts DEF Walks
<1>6. MixInv' BY <1>2, <1>3, <1>4, <1>5 DEF LockInv, MixInv
<1>7. "late" \in upset => "late" \in upset' BY DEF prepare
<1>. QED BY <1>1, <1>6, <1>7, CompStep DEF LockInv

\* A trigger that reaches the DAI: the main loop alone moves.
LEMMA AtDaiFacts ==
  ASSUME TypeOK, NEW cmd \in Commands, NEW d \in Dirs, pc' = AtDai(cmd, d)
  PROVE  /\ pc'.main.at = "dma" /\ pc'.main.cmd = cmd /\ pc'.main.dir = d
         /\ pc'.irq = pc.irq
<1>. DEFINE place == [Idle EXCEPT !.at = "dma", !.cmd = cmd, !.dir = d]
<1>1. place.at = "dma" /\ place.cmd = cmd /\ place.dir = d BY DEF Idle
<1>2. pc' = [pc EXCEPT !.main = place] BY DEF AtDai
<1>. HIDE DEF place
<1>3. pc \in [Contexts -> Pc] BY DEF TypeOK, Contexts
<1>. QED BY <1>1, <1>2, <1>3 DEF Contexts

\* What such a trigger leaves of the invariant.
LEMMA TriggerKeeps ==
  ASSUME StreamInv, LockInv, Ready, UNCHANGED <<chan, ssp, fault>>,
         pc'.irq = pc.irq, pc'.main.at \in {"idle", "dma"},
         "late" \in upset => "late" \in upset'
  PROVE  IrqInv' /\ WorkInv' /\ LockSafe' /\ StopInv' /\ StopAlone'
<1>1. fault = "none" /\ pc.irq.at = "idle" /\ pc.main.at = "idle" BY ReadyFacts
<1>2. IrqInv' /\ StopAlone' BY <1>1 DEF IrqInv, StopAlone
<1>3. StopInv' BY <1>1 DEF StopInv, Contexts
<1>4. WorkInv' BY <1>1 DEF LockInv, WorkInv, Contexts
<1>5. LockSafe' BY <1>1 DEF LockSafe
<1>. QED BY <1>2, <1>3, <1>4, <1>5

\* mixer_cmd() passes a pause or a stop on only when no source runs any more.
LEMMA LockPlayback ==
  ASSUME StreamInv, LockInv, NEW s \in Playback, NEW cmd \in Commands,
         trigger_playback(s, cmd)
  PROVE  LockInv'
<1>. DEFINE h == [host EXCEPT ![s] = HostState(@, cmd)]
<1>1. /\ Ready /\ UNCHANGED <<dai, elems, chan, ssp, job, fault>>
      /\ host' = h /\ mixer' = Highest(h) /\ cmd \in Allowed(s)
      /\ IF mixer = Highest(h) THEN pc' = pc ELSE pc' = AtDai(cmd, "playback")
      /\ drv' = IF cmd = "STOP" THEN [drv EXCEPT ![s] = "open"] ELSE drv
      /\ "late" \in upset => "late" \in upset'
  BY DEF trigger_playback
<1>2. h \in [Streams -> States] /\ s \in Streams
  BY HostTypes DEF StreamInv, TypeOK, Streams
<1>. HIDE DEF h
<1>3. Sounds' <=> mixer' = "RUNNING"
  <2>1. /\ \E t \in Playback : h[t] = Highest(h)
        /\ \A u \in Playback : Rank[h[u]] <= Rank[Highest(h)]
        /\ Highest(h) \in States
    BY <1>2, HighestFacts
  <2>. QED BY <1>1, <2>1 DEF Sounds, States, Rank
<1>4. \A t \in Streams : drv'[t] = "closed" => host'[t] = "INIT"
  <2>1. host[s] # "INIT" BY <1>1 DEF Allowed
  <2>2. \A t \in Streams \ {s} : host'[t] = host[t]
    BY <1>1 DEF h, StreamInv, TypeOK
  <2>. QED BY <1>1, <1>2, <2>1, <2>2 DEF StreamInv, TypeOK, LockInv, MixInv
<1>5. /\ pc'.irq = pc.irq /\ pc'.main.at \in {"idle", "dma"}
      /\ pc'.main.at # "idle" =>
           pc'.main.cmd = cmd /\ pc'.main.dir = "playback" /\ mixer # Highest(h)
  BY <1>1, AtDaiFacts, ReadyFacts DEF Dirs, StreamInv
<1>6. MixInv' BY <1>3, <1>4, <1>5 DEF MixInv, Walks
<1>7. QuietInv'
  <2>. SUFFICES ASSUME cmd \in {"PAUSE", "STOP"}, mixer # Highest(h) PROVE ~Sounds'
    BY <1>5 DEF QuietInv, Walks
  <2>. SUFFICES ASSUME Sounds' PROVE FALSE OBVIOUS
  <2>1. mixer # "RUNNING" BY <1>1, <1>3
  <2>2. \A t \in Playback : host[t] # "RUNNING" BY <2>1 DEF LockInv, MixInv, Sounds
  <2>3. HostState(host[s], cmd) # "RUNNING" BY <2>2 DEF HostState
  <2>4. \A t \in Playback : host'[t] # "RUNNING"
    BY <1>1, <1>2, <2>2, <2>3 DEF h, StreamInv, TypeOK, Streams
  <2>. QED BY <2>4 DEF Sounds
<1>. QED BY <1>1, <1>5, <1>6, <1>7, TriggerKeeps DEF LockInv

LEMMA LockCapture ==
  ASSUME StreamInv, LockInv, NEW s \in Capture, NEW cmd \in Commands,
         trigger_capture(s, cmd)
  PROVE  LockInv'
<1>1. /\ Ready /\ UNCHANGED <<host, mixer, chan, ssp, upset, fault>>
      /\ pc' = AtDai(cmd, "capture") /\ cmd \in Allowed(s)
      /\ drv' = IF cmd = "STOP" THEN [drv EXCEPT ![s] = "open"] ELSE drv
      /\ job' = s /\ s \in Streams
  BY DEF trigger_capture, Streams
<1>2. /\ pc'.irq = pc.irq /\ pc'.main.at = "dma" /\ pc'.main.dir = "capture"
  BY <1>1, AtDaiFacts DEF Dirs, StreamInv
<1>3. QuietInv' BY <1>2 DEF QuietInv, Walks
<1>4. MixInv'
  <2>1. host[s] # "INIT" BY <1>1 DEF Allowed
  <2>2. \A t \in Streams : drv'[t] = "closed" => drv[t] = "closed"
    BY <1>1 DEF StreamInv, TypeOK
  <2>3. drv'[s] # "closed"
    BY <1>1, <2>1 DEF LockInv, MixInv, StreamInv, TypeOK
  <2>. QED BY <1>1, <1>2, <2>2, <2>3 DEF LockInv, MixInv, Sounds, Walks
<1>. QED BY <1>1, <1>2, <1>3, <1>4, TriggerKeeps DEF LockInv

\* The host component of a capture stream is no source of the mixer.
LEMMA LockHost ==
  ASSUME StreamInv, LockInv, trigger_host
  PROVE  LockInv'
<1>1. /\ fault = "none" /\ pc.irq.at = "idle" /\ pc.main.at = "host"
      /\ UNCHANGED <<drv, mixer, dai, elems, chan, ssp, job, upset, fault>>
      /\ host' = [host EXCEPT ![job] = HostState(@, pc.main.cmd)]
      /\ pc' = [pc EXCEPT !.main = Idle] /\ pc \in [Contexts -> Pc]
      /\ job \in Capture /\ host \in [Streams -> States]
  BY DEF trigger_host, CanRun, StreamInv, TypeOK, Contexts
<1>2. pc'.main.at = "idle" /\ pc'.irq = pc.irq BY <1>1 DEF Idle, Contexts
<1>3. \A s \in Playback : host'[s] = host[s]
  BY <1>1, StreamConstants DEF StreamConstants, Streams
<1>4. IrqInv' /\ StopInv' /\ StopAlone' /\ QuietInv'
  BY <1>1, <1>2 DEF IrqInv, StopInv, StopAlone, QuietInv, Walks, Contexts
<1>5. WorkInv' /\ LockSafe'
  BY <1>1, <1>2 DEF LockInv, WorkInv, LockSafe, Contexts
<1>6. MixInv'
  <2>1. Sounds' <=> Sounds BY <1>3 DEF Sounds
  <2>2. drv[job] # "closed" BY <1>1 DEF LockInv, MixInv
  <2>3. ~Walks("capture")' /\ pc'.main.at = "idle" BY <1>2 DEF Walks
  <2>4. \A s \in Streams : drv'[s] = "closed" => host'[s] = "INIT"
    BY <1>1, <2>2 DEF LockInv, MixInv, Streams
  <2>. QED BY <1>1, <2>1, <2>3, <2>4 DEF LockInv, MixInv
<1>. QED BY <1>4, <1>5, <1>6 DEF LockInv

-----------------------------------------------------------------------------
(* dai_cmd() *)

\* Context x goes to a place, with its command.
Goes(x, place) ==
  /\ pc'[x].at = place
  /\ place # "idle" => pc'[x].dir = pc[x].dir /\ pc'[x].cmd = pc[x].cmd
  /\ \A y \in Contexts \ {x} : pc'[y] = pc[y]

LEMMA GoToGoes ==
  ASSUME TypeOK, NEW x \in Contexts, NEW place \in Places, GoTo(x, place)
  PROVE  Goes(x, place)
BY GoToOps DEF TypeOK, Contexts, Goes

\* Where the interrupt goes.
IrqPlaces == {"idle", "dma", "suspended", "stopping", "trigger", "draining", "state"}

\* What a step of dai_cmd() on its channel leaves of the invariant: the other
\* context does not run, or is not in dw_dma_stop() of the same channel.
LEMMA StepKept ==
  ASSUME StreamInv, LockInv, NEW x \in Contexts, NEW place \in Places,
         NEW t \in Channels,
         CanRun(x), pc[x].at # "idle", Goes(x, place),
         x = "irq" => place \in IrqPlaces,
         place = "host" => x = "main" /\ pc[x].dir = "capture",
         UNCHANGED <<host, mixer, drv, job>>,
         chan' = [chan EXCEPT ![pc[x].dir] = t],
         place \in {"suspended", "stopping"} => t.status \in {"DRAINING", "STOPPING", "IDLE"},
         (place = "stopping" /\ t.complete) => t.status = "IDLE" /\ ~t.en,
         upset \subseteq upset'
  PROVE  IrqInv' /\ StopInv' /\ StopAlone' /\ MixInv' /\ QuietInv'
<1>0. /\ pc \in [Contexts -> Pc] /\ chan \in [Dirs -> Channels]
      /\ \A y \in Contexts : pc[y].dir \in Dirs
      /\ IrqInv /\ StopInv /\ StopAlone /\ MixInv /\ QuietInv
  BY DEF StreamInv, TypeOK, LockInv, Contexts, Pc
<1>1. x \in {"main", "irq"} /\ (x = "main" => pc.irq.at = "idle")
  BY DEF CanRun, Contexts
<1>2. IrqInv' BY <1>0, <1>1 DEF IrqInv, Goes, Contexts, IrqPlaces
<1>3. StopAlone' BY <1>0, <1>1 DEF StopAlone, Goes, Contexts
<1>4. StopInv'
  <2>1. ASSUME NEW y \in Contexts \ {x} , pc[y].at \in {"suspended", "stopping"}
        PROVE  pc'[y] = pc[y] /\ chan'[pc[y].dir] = chan[pc[y].dir]
    <3>1. y = "main" /\ x = "irq" BY <1>1, <2>1 DEF Contexts
    <3>2. pc[y].dir # pc[x].dir BY <1>0, <2>1, <3>1 DEF StopAlone, IrqInv
    <3>. QED BY <1>0, <3>2 DEF Goes
  <2>2. \A y \in Contexts \ {x} : pc'[y] = pc[y] BY DEF Goes
  <2>3. /\ pc'[x].at = place
        /\ place \in {"suspended", "stopping"} => chan'[pc'[x].dir] = t
    BY <1>0 DEF Goes
  <2>. QED BY <1>0, <2>1, <2>2, <2>3 DEF StopInv
<1>5. Walks("capture")' => Walks("capture") /\ pc'.main.cmd = pc.main.cmd
  BY <1>1 DEF Goes, Walks, Contexts
<1>6. Walks("playback")' => Walks("playback") /\ pc'.main.cmd = pc.main.cmd
  BY <1>1 DEF Goes, Walks, Contexts
<1>7. pc'.main.at = "host" => Walks("capture")'
  BY <1>0, <1>1 DEF Goes, Walks, Contexts, MixInv
<1>8. MixInv' BY <1>0, <1>5, <1>7 DEF MixInv, Sounds
<1>9. QuietInv' BY <1>0, <1>6 DEF QuietInv, Sounds
<1>. QED BY <1>2, <1>3, <1>4, <1>8, <1>9

\* A step that leaves the port alone.
LEMMA PortKept ==
  ASSUME LockInv, NEW x \in Contexts, NEW place \in Places, CanRun(x),
         pc[x].at # "draining", Goes(x, place), UNCHANGED <<ssp, fault>>,
         upset \subseteq upset'
  PROVE  WorkInv' /\ LockSafe'
<1>1. fault = "none" BY DEF CanRun
<1>2. LockSafe' BY <1>1 DEF LockSafe
<1>3. \A y \in Contexts : pc[y].at = "draining" => pc'[y].at = "draining"
  BY DEF Goes
<1>4. WorkInv' BY <1>3 DEF LockInv, WorkInv
<1>. QED BY <1>2, <1>4

\* The operations on a channel that begin dai_cmd().
LEMMA LockCmd ==
  ASSUME StreamInv, LockInv, NEW x \in Contexts, dai_cmd(x)
  PROVE  LockInv'
<1>. DEFINE d == pc[x].dir
            c == chan[d]
<1>1. /\ CanRun(x) /\ pc[x].at = "dma"
      /\ UNCHANGED <<compVars, ssp, job, upset, fault>>
      /\ pc \in [Contexts -> Pc] /\ d \in Dirs /\ c \in Channels
      /\ chan \in [Dirs -> Channels] /\ c.status \in Status
  BY DEF dai_cmd, StreamInv, TypeOK, Contexts, Pc, Channels
<1>2. x = "irq" => pc[x].cmd = "STOP"
  BY <1>1 DEF LockInv, IrqInv
<1>3. PICK place \in Places, t \in Channels :
        /\ GoTo(x, place) /\ chan' = [chan EXCEPT ![d] = t]
        /\ place = "host" => x = "main" /\ d = "capture"
        /\ x = "irq" => place \in IrqPlaces
        /\ place # "stopping"
        /\ place = "suspended" => t.status \in {"DRAINING", "STOPPING"}
  <2>0. {"host", "idle", "state", "trigger", "suspended"} \subseteq Places BY DEF Places
  <2>1. CASE ~Obeys(dai[d], pc[x].cmd)
    <3>1. chan' = [chan EXCEPT ![d] = c] BY <1>1, <2>1 DEF dai_cmd
    <3>2. GoTo(x, "state") \/ (x # "irq" /\ GoTo(x, After(x)))
      BY <2>1 DEF dai_cmd
    <3>. QED BY <1>1, <2>0, <3>1, <3>2 DEF After, IrqPlaces, Contexts
  <2>2. CASE Obeys(dai[d], pc[x].cmd) /\ pc[x].cmd = "PAUSE"
    BY <1>1, <2>0, <2>2, ChannelTypes DEF dai_cmd, IrqPlaces
  <2>3. CASE Obeys(dai[d], pc[x].cmd) /\ pc[x].cmd = "STOP"
    <3>1. PICK drain \in BOOLEAN : drain = (dai[d] = "RUNNING") OBVIOUS
    <3>2. /\ chan' = [chan EXCEPT ![d] = dw_dma_stop(c, drain)]
          /\ GoTo(x, IF c.en THEN "suspended" ELSE "trigger")
      BY <2>3, <3>1 DEF dai_cmd
    <3>3. c.en => dw_dma_stop(c, drain).status \in {"DRAINING", "STOPPING"}
      BY <1>1 DEF dw_dma_stop, Channels
    <3>4. dw_dma_stop(c, drain) \in Channels BY <1>1, ChannelTypes
    <3>. QED BY <1>1, <2>0, <3>2, <3>3, <3>4 DEF IrqPlaces
  <2>4. CASE Obeys(dai[d], pc[x].cmd) /\ pc[x].cmd = "RELEASE"
    <3>1. chan' = [chan EXCEPT ![d] = c] /\ GoTo(x, "trigger")
      BY <1>1, <2>4 DEF dai_cmd
    <3>. QED BY <1>1, <2>0, <3>1 DEF IrqPlaces
  <2>5. CASE Obeys(dai[d], pc[x].cmd) /\ pc[x].cmd = "START"
    <3>1. CASE CanStart(c)
      <4>1. chan' = [chan EXCEPT ![d] = dw_dma_start(c)] /\ GoTo(x, "trigger")
        BY <1>1, <2>5, <3>1 DEF dai_cmd
      <4>2. dw_dma_start(c) \in Channels BY <1>1, ChannelTypes
      <4>. QED BY <1>1, <2>0, <4>1, <4>2 DEF IrqPlaces
    <3>2. CASE ~CanStart(c)
      <4>1. chan' = [chan EXCEPT ![d] = c] /\ GoTo(x, "idle")
        BY <1>1, <2>5, <3>2 DEF dai_cmd
      <4>. QED BY <1>1, <2>0, <4>1 DEF IrqPlaces
    <3>. QED BY <3>1, <3>2
  <2>. QED BY <2>1, <2>2, <2>3, <2>4, <2>5 DEF dai_cmd
<1>4. Goes(x, place) BY <1>3, GoToGoes DEF StreamInv
<1>5. IrqInv' /\ StopInv' /\ StopAlone' /\ MixInv' /\ QuietInv'
  BY <1>1, <1>3, <1>4, StepKept DEF compVars
<1>6. WorkInv' /\ LockSafe' BY <1>1, <1>4, PortKept
<1>. QED BY <1>5, <1>6 DEF LockInv

\* dw_dma_stop() forgets earlier completions when it queues the work...
LEMMA LockSchedule ==
  ASSUME StreamInv, LockInv, NEW x \in Contexts, stop_schedule(x)
  PROVE  LockInv'
<1>. DEFINE d == pc[x].dir
            t == ScheduleWork(chan[d])
<1>1. /\ CanRun(x) /\ pc[x].at = "suspended" /\ GoTo(x, "stopping")
      /\ UNCHANGED <<compVars, ssp, job, upset, fault>>
      /\ d \in Dirs /\ chan[d] \in Channels /\ chan \in [Dirs -> Channels]
      /\ chan' = [chan EXCEPT ![d] = t] /\ "stopping" \in Places
  BY DEF stop_schedule, StreamInv, TypeOK, Contexts, Pc, Places
<1>2. t \in Channels BY <1>1, ChannelTypes
<1>3. t.status = chan[d].status /\ ~t.complete BY <1>1 DEF ScheduleWork, Channels
<1>4. chan[d].status \in {"DRAINING", "STOPPING", "IDLE"}
  BY <1>1 DEF LockInv, StopInv
<1>5. Goes(x, "stopping") BY <1>1, GoToGoes DEF StreamInv
<1>. HIDE DEF t
<1>6. IrqInv' /\ StopInv' /\ StopAlone' /\ MixInv' /\ QuietInv'
  BY <1>1, <1>2, <1>3, <1>4, <1>5, StepKept DEF compVars, IrqPlaces
<1>7. WorkInv' /\ LockSafe' BY <1>1, <1>5, PortKept
<1>. QED BY <1>6, <1>7 DEF LockInv

\* ...and consumes the completion it waits for.
LEMMA LockStopWait ==
  ASSUME StreamInv, LockInv, NEW x \in Contexts, stop_wait(x)
  PROVE  LockInv'
<1>. DEFINE d == pc[x].dir
            t == [chan[d] EXCEPT !.complete = FALSE]
<1>1. /\ CanRun(x) /\ pc[x].at = "stopping" /\ GoTo(x, "trigger")
      /\ UNCHANGED <<compVars, ssp, job, fault>> /\ upset \subseteq upset'
      /\ d \in Dirs /\ chan[d] \in Channels /\ chan \in [Dirs -> Channels]
      /\ chan' = [chan EXCEPT ![d] = t] /\ "trigger" \in Places
  BY DEF stop_wait, StreamInv, TypeOK, Contexts, Pc, Places
<1>2. t \in Channels BY <1>1, ChannelTypes
<1>3. Goes(x, "trigger") BY <1>1, GoToGoes DEF StreamInv
<1>. HIDE DEF t
<1>4. IrqInv' /\ StopInv' /\ StopAlone' /\ MixInv' /\ QuietInv'
  BY <1>1, <1>2, <1>3, StepKept DEF compVars, IrqPlaces
<1>5. WorkInv' /\ LockSafe' BY <1>1, <1>3, PortKept
<1>. QED BY <1>4, <1>5 DEF LockInv

\* The functions of ssp.c leave the drain work alone.
LEMMA WorkOps ==
  ASSUME NEW p \in Ports, NEW d \in Dirs
  PROVE  /\ \A op \in {"start", "pause", "stop"} :
              SspApply(p, op, d).work = p.work /\ SspApply(p, op, d).complete = p.complete
         /\ SspWait(p, d).work /\ ~SspWait(p, d).complete
         /\ ~ssp_drain_work(p).work
<1>. USE DEF Ports
<1>1. \A op \in {"start", "pause", "stop"} :
        SspApply(p, op, d).work = p.work /\ SspApply(p, op, d).complete = p.complete
  BY DEF SspApply, ssp_start, ssp_pause, ssp_stop
<1>2. SspWait(p, d).work /\ ~SspWait(p, d).complete BY DEF SspWait
<1>3. ~ssp_drain_work(p).work BY DEF ssp_drain_work, ssp_pause, ssp_stop
<1>. QED BY <1>1, <1>2, <1>3

\* The interrupt spins on ssp->lock only when a DAI stopped itself.
LEMMA LockTrigger ==
  ASSUME StreamInv, LockInv, NEW x \in Contexts, ssp_trigger(x)
  PROVE  LockInv'
<1>. DEFINE d == pc[x].dir
            op == SspOp(ssp, pc[x].cmd, d)
<1>1. /\ CanRun(x) /\ fault = "none" /\ pc[x].at = "trigger"
      /\ UNCHANGED <<compVars, chan, job, upset>>
      /\ d \in Dirs /\ chan[d] \in Channels /\ chan \in [Dirs -> Channels]
      /\ chan' = [chan EXCEPT ![d] = chan[d]]
      /\ pc \in [Contexts -> Pc] /\ pc[x].cmd \in Commands
      /\ ssp \in Ports /\ Up(ssp)
      /\ {"state", "release", "draining", "locked"} \subseteq Places
  BY DEF ssp_trigger, CanRun, StreamInv, TypeOK, Contexts, Pc, Places, PortUp, Up
<1>2. op \in {"none", "wait", "start", "pause", "stop"} BY <1>1, OpTypes
<1>3. x = "irq" => pc[x].cmd = "STOP" /\ "eos" \in upset
  BY <1>1 DEF LockInv, IrqInv
<1>4. Triggered(x) \in {"state", "release"} /\ (x = "irq" => Triggered(x) = "state")
  BY <1>3 DEF Triggered
<1>5. CASE op = "none"
  <2>1. PICK place \in {"state", "release"} :
          GoTo(x, place) /\ (x = "irq" => place = "state")
    BY <1>4, <1>5 DEF ssp_trigger
  <2>2. UNCHANGED <<ssp, fault>> BY <1>5 DEF ssp_trigger
  <2>3. Goes(x, place) BY <1>1, <2>1, GoToGoes DEF StreamInv
  <2>4. IrqInv' /\ StopInv' /\ StopAlone' /\ MixInv' /\ QuietInv'
    BY <1>1, <2>1, <2>3, StepKept DEF compVars, IrqPlaces
  <2>5. WorkInv' /\ LockSafe' BY <1>1, <2>1, <2>2, <2>3, PortKept
  <2>. QED BY <2>4, <2>5 DEF LockInv
<1>6. CASE op = "wait"
  <2>1. GoTo(x, "draining") /\ ssp' = SspWait(ssp, d) /\ UNCHANGED fault
    BY <1>6 DEF ssp_trigger
  <2>2. Goes(x, "draining") BY <1>1, <2>1, GoToGoes DEF StreamInv
  <2>3. IrqInv' /\ StopInv' /\ StopAlone' /\ MixInv' /\ QuietInv'
    BY <1>1, <2>2, StepKept DEF compVars, IrqPlaces
  <2>4. ssp'.work /\ ~ssp'.complete BY <1>1, <2>1, WorkOps
  <2>5. WorkInv' BY <2>2, <2>4 DEF WorkInv, Goes
  <2>6. LockSafe' BY <1>1, <2>1 DEF LockSafe
  <2>. QED BY <2>3, <2>5, <2>6 DEF LockInv
<1>7. CASE op \in {"start", "pause", "stop"} /\ x = "main"
  <2>1. /\ pc' = [pc EXCEPT !.main.at = "locked", !.main.op = op]
        /\ UNCHANGED <<ssp, fault>>
    BY <1>7 DEF ssp_trigger
  <2>2. Goes(x, "locked")
    <3>. DEFINE to == [[pc.main EXCEPT !.at = "locked"] EXCEPT !.op = op]
    <3>1. to.at = "locked" /\ to.dir = pc.main.dir /\ to.cmd = pc.main.cmd
      BY <1>1 DEF Contexts, Pc
    <3>2. pc' = [pc EXCEPT !["main"] = to] BY <1>1, <2>1 DEF Contexts
    <3>. HIDE DEF to
    <3>. QED BY <1>1, <1>7, <3>1, <3>2 DEF Goes, Contexts
  <2>3. IrqInv' /\ StopInv' /\ StopAlone' /\ MixInv' /\ QuietInv'
    BY <1>1, <1>7, <2>2, StepKept DEF compVars, IrqPlaces
  <2>4. WorkInv' /\ LockSafe' BY <1>1, <2>1, <2>2, PortKept
  <2>. QED BY <2>3, <2>4 DEF LockInv
<1>8. CASE op \in {"start", "pause", "stop"} /\ x = "irq" /\ ~Locked
  <2>1. GoTo(x, "state") /\ ssp' = SspApply(ssp, op, d) /\ UNCHANGED fault
    BY <1>8 DEF ssp_trigger
  <2>2. Goes(x, "state") BY <1>1, <2>1, GoToGoes DEF StreamInv
  <2>3. IrqInv' /\ StopInv' /\ StopAlone' /\ MixInv' /\ QuietInv'
    BY <1>1, <2>2, StepKept DEF compVars, IrqPlaces
  <2>4. ssp'.work = ssp.work /\ ssp'.complete = ssp.complete
    BY <1>1, <1>8, <2>1, WorkOps
  <2>5. \A y \in Contexts : pc[y].at = "draining" => pc'[y].at = "draining"
    BY <1>1, <2>2 DEF Goes
  <2>6. WorkInv' BY <1>1, <2>4, <2>5 DEF LockInv, WorkInv
  <2>7. LockSafe' BY <1>1, <2>1 DEF LockSafe
  <2>. QED BY <2>3, <2>6, <2>7 DEF LockInv
<1>9. CASE op \in {"start", "pause", "stop"} /\ x = "irq" /\ Locked
  <2>1. UNCHANGED <<ssp, pc>> /\ fault' = "spin" BY <1>9 DEF ssp_trigger
  <2>2. IrqInv' /\ WorkInv' /\ StopInv' /\ StopAlone' /\ MixInv' /\ QuietInv'
    BY <1>1, <2>1 DEF LockInv, IrqInv, WorkInv, StopInv, StopAlone, MixInv,
                      QuietInv, Sounds, Walks, compVars
  <2>3. LockSafe' BY <1>1, <1>3, <1>9 DEF LockSafe
  <2>. QED BY <2>2, <2>3 DEF LockInv
<1>. QED BY <1>2, <1>5, <1>6, <1>7, <1>8, <1>9 DEF Contexts

\* The functions of ssp.c that take the lock...
LEMMA LockUnlock ==
  ASSUME StreamInv, LockInv, ssp_unlock
  PROVE  LockInv'
<1>1. /\ CanRun("main") /\ fault = "none" /\ pc.main.at = "locked"
      /\ UNCHANGED <<compVars, chan, job, upset, fault>>
      /\ pc.main.dir \in Dirs /\ chan \in [Dirs -> Channels]
      /\ chan' = [chan EXCEPT ![pc.main.dir] = chan[pc.main.dir]]
      /\ pc \in [Contexts -> Pc] /\ ssp \in Ports
      /\ pc.main.op \in {"start", "pause", "stop"}
      /\ ssp' = SspApply(ssp, pc.main.op, pc.main.dir)
      /\ "main" \in Contexts
  BY DEF ssp_unlock, Locked, CanRun, StreamInv, TypeOK, Contexts, Pc, OpInv
<1>2. PICK place \in {"state", "release"} : place = Triggered("main")
  BY DEF Triggered
<1>3. Goes("main", place)
  <2>. DEFINE to == [[pc.main EXCEPT !.at = place] EXCEPT !.op = "none"]
  <2>1. to.at = place /\ to.dir = pc.main.dir /\ to.cmd = pc.main.cmd
    BY <1>1 DEF Contexts, Pc
  <2>2. pc' = [pc EXCEPT !["main"] = to] BY <1>1, <1>2 DEF ssp_unlock, Contexts
  <2>. HIDE DEF to
  <2>. QED BY <1>1, <2>1, <2>2 DEF Goes, Contexts
<1>4. place \in Places /\ place # "host" BY DEF Places
<1>5. chan[pc.main.dir] \in Channels BY <1>1
<1>6. IrqInv' /\ StopInv' /\ StopAlone' /\ MixInv' /\ QuietInv'
  BY <1>1, <1>3, <1>4, <1>5, StepKept DEF compVars, IrqPlaces
<1>7. ssp'.work = ssp.work /\ ssp'.complete = ssp.complete BY <1>1, WorkOps
<1>8. \A y \in Contexts : pc[y].at = "draining" => pc'[y].at = "draining"
  BY <1>1, <1>3 DEF Goes
<1>9. WorkInv' /\ LockSafe' BY <1>1, <1>7, <1>8 DEF LockInv, WorkInv, LockSafe
<1>. QED BY <1>6, <1>9 DEF LockInv

\* ...and the wait for the drain work.
LEMMA LockSspWait ==
  ASSUME StreamInv, LockInv, NEW x \in Contexts, ssp_wait(x)
  PROVE  LockInv'
<1>1. /\ CanRun(x) /\ fault = "none" /\ pc[x].at = "draining" /\ GoTo(x, "state")
      /\ UNCHANGED <<compVars, chan, job, fault>> /\ upset \subseteq upset'
      /\ ~ssp.complete => "late" \in upset'
      /\ pc[x].dir \in Dirs /\ chan \in [Dirs -> Channels]
      /\ chan' = [chan EXCEPT ![pc[x].dir] = chan[pc[x].dir]]
      /\ ssp \in Ports /\ ssp' = [ssp EXCEPT !.complete = FALSE]
      /\ "state" \in Places
  BY DEF ssp_wait, CanRun, StreamInv, TypeOK, Contexts, Pc, Places
<1>2. chan[pc[x].dir] \in Channels BY <1>1
<1>3. Goes(x, "state") BY <1>1, GoToGoes DEF StreamInv
<1>4. IrqInv' /\ StopInv' /\ StopAlone' /\ MixInv' /\ QuietInv'
  BY <1>1, <1>2, <1>3, StepKept DEF compVars, IrqPlaces
<1>5. ssp'.work = ssp.work /\ ~ssp'.complete BY <1>1 DEF Ports
<1>6. WorkInv' BY <1>1, <1>5 DEF LockInv, WorkInv
<1>7. LockSafe' BY <1>1 DEF LockSafe
<1>. QED BY <1>4, <1>6, <1>7 DEF LockInv

LEMMA LockRelease ==
  ASSUME StreamInv, LockInv, dai_release
  PROVE  LockInv'
<1>. DEFINE d == pc.main.dir
            t == dw_dma_release(chan[d])
<1>1. /\ CanRun("main") /\ pc.main.at = "release" /\ GoTo("main", "state")
      /\ UNCHANGED <<compVars, ssp, job, upset, fault>>
      /\ d \in Dirs /\ chan[d] \in Channels /\ chan \in [Dirs -> Channels]
      /\ chan' = [chan EXCEPT ![d] = t] /\ "state" \in Places /\ "main" \in Contexts
  BY DEF dai_release, StreamInv, TypeOK, Contexts, Pc, Places
<1>2. t \in Channels BY <1>1, ChannelTypes
<1>3. Goes("main", "state") BY <1>1, GoToGoes DEF StreamInv
<1>. HIDE DEF t
<1>4. IrqInv' /\ StopInv' /\ StopAlone' /\ MixInv' /\ QuietInv'
  BY <1>1, <1>2, <1>3, StepKept DEF compVars
<1>5. WorkInv' /\ LockSafe' BY <1>1, <1>3, PortKept
<1>. QED BY <1>4, <1>5 DEF LockInv

LEMMA LockState ==
  ASSUME StreamInv, LockInv, NEW x \in Contexts, dai_state(x)
  PROVE  LockInv'
<1>. DEFINE d == pc[x].dir
<1>1. /\ CanRun(x) /\ pc[x].at = "state" /\ GoTo(x, After(x))
      /\ UNCHANGED <<host, drv, mixer, elems, ssp, job, upset, fault>>
      /\ d \in Dirs /\ chan[d] \in Channels /\ chan \in [Dirs -> Channels]
  BY DEF dai_state, StreamInv, TypeOK, Contexts, Pc
<1>2. PICK t \in Channels : chan' = [chan EXCEPT ![d] = t]
  <2>1. Reload(chan[d], "end") \in Channels BY <1>1, ChannelTypes
  <2>2. CASE x = "irq" BY <2>1, <2>2 DEF dai_state
  <2>3. CASE x # "irq"
    <3>1. chan' = [chan EXCEPT ![d] = chan[d]] BY <1>1, <2>3 DEF dai_state
    <3>. QED BY <1>1, <3>1
  <2>. QED BY <2>2, <2>3
<1>3. PICK place \in {"idle", "host"} :
        /\ GoTo(x, place)
        /\ place = "host" => x = "main" /\ d = "capture"
  BY <1>1 DEF After
<1>4. place \in Places BY DEF Places
<1>5. Goes(x, place) BY <1>3, <1>4, GoToGoes DEF StreamInv
<1>6. IrqInv' /\ StopInv' /\ StopAlone' /\ MixInv' /\ QuietInv'
  BY <1>1, <1>2, <1>3, <1>4, <1>5, StepKept DEF IrqPlaces
<1>7. WorkInv' /\ LockSafe' BY <1>1, <1>4, <1>5, PortKept
<1>. QED BY <1>6, <1>7 DEF LockInv

-----------------------------------------------------------------------------
(* Interrupts *)

\* An interrupt that changes one channel: contexts in dw_dma_stop() of this
\* channel find it at rest when they are told so.
LEMMA ChanKept ==
  ASSUME StreamInv, LockInv, NEW d \in Dirs, NEW t \in Channels,
         UNCHANGED <<compVars, ssp, job, pc, upset, fault>>,
         chan' = [chan EXCEPT ![d] = t],
         chan[d].status \in {"DRAINING", "STOPPING", "IDLE"} =>
           t.status \in {"DRAINING", "STOPPING", "IDLE"},
         t.complete => \/ t.status = "IDLE" /\ ~t.en
                       \/ chan[d].complete /\ ~(chan[d].status = "IDLE" /\ ~chan[d].en)
  PROVE  LockInv'
<1>1. chan \in [Dirs -> Channels] BY DEF StreamInv, TypeOK
<1>2. StopInv' BY <1>1 DEF LockInv, StopInv
<1>3. IrqInv' /\ WorkInv' /\ LockSafe' /\ StopAlone' /\ MixInv' /\ QuietInv'
  BY DEF LockInv, IrqInv, WorkInv, LockSafe, StopAlone, MixInv, QuietInv, Sounds,
         Walks, compVars
<1>. QED BY <1>2, <1>3 DEF LockInv

\* dw_dma_irq_handler(): a channel that is being stopped is not served.
LEMMA LockIrq ==
  ASSUME StreamInv, LockInv, NEW d \in Dirs, dma_irq(d)
  PROVE  LockInv'
<1>. DEFINE c == chan[d]
<1>1. /\ Interruptible /\ fault = "none"
      /\ UNCHANGED <<compVars, ssp, job, fault>> /\ upset \subseteq upset'
      /\ c \in Channels /\ chan \in [Dirs -> Channels] /\ pc \in [Contexts -> Pc]
      /\ d = "playback" => pc.irq.at = "idle"
  BY DEF dma_irq, Interruptible, StreamInv, TypeOK, Contexts
<1>2. CASE ~Served(c)
  <2>1. chan' = [chan EXCEPT ![d] = [c EXCEPT !.tfr = FALSE]]
        /\ UNCHANGED <<pc, upset>>
    BY <1>1, <1>2 DEF dma_irq
  <2>2. [c EXCEPT !.tfr = FALSE] \in Channels BY <1>1, ChannelTypes
  <2>3. /\ [c EXCEPT !.tfr = FALSE].status = c.status
        /\ [c EXCEPT !.tfr = FALSE].en = c.en
        /\ [c EXCEPT !.tfr = FALSE].complete = c.complete
    BY <1>1 DEF Channels
  <2>. QED BY <1>1, <2>1, <2>2, <2>3, ChanKept
<1>3. CASE Served(c)
  <2>1. PICK t \in Channels :
          /\ chan' = [chan EXCEPT ![d] = t]
          /\ \/ UNCHANGED <<pc, upset>>
             \/ /\ d = "playback" /\ "eos" \in upset'
                /\ pc' = [pc EXCEPT !.irq = [Idle EXCEPT !.at = "dma"]]
    <3>1. /\ Reload(c, "list") \in Channels /\ Reload(c, "own") \in Channels
          /\ [c EXCEPT !.tfr = FALSE] \in Channels
      BY <1>1, ChannelTypes
    <3>2. [chan EXCEPT ![d].tfr = FALSE] = [chan EXCEPT ![d] = [c EXCEPT !.tfr = FALSE]]
      OBVIOUS
    <3>. QED BY <1>3, <3>1, <3>2 DEF dma_irq
  <2>2. \A x \in Contexts : pc[x].at \in {"suspended", "stopping"} => pc[x].dir # d
    BY <1>3 DEF LockInv, StopInv, Served
  <2>3. \/ pc' = pc /\ upset' = upset
        \/ /\ d = "playback" /\ "eos" \in upset' /\ pc.irq.at = "idle"
           /\ pc'.main = pc.main /\ pc'.irq.at = "dma"
           /\ pc'.irq.dir = "playback" /\ pc'.irq.cmd = "STOP"
    <3>. DEFINE to == [Idle EXCEPT !.at = "dma"]
    <3>1. to.at = "dma" /\ to.dir = "playback" /\ to.cmd = "STOP" BY DEF Idle
    <3>2. \/ pc' = pc /\ upset' = upset
          \/ d = "playback" /\ "eos" \in upset' /\ pc' = [pc EXCEPT !["irq"] = to]
      BY <2>1
    <3>. HIDE DEF to
    <3>. QED BY <1>1, <3>1, <3>2 DEF Contexts
  <2>4. IrqInv' BY <2>3 DEF LockInv, IrqInv
  <2>5. StopInv'
    <3>1. \A x \in Contexts :
            pc'[x].at \in {"suspended", "stopping"} =>
              pc'[x] = pc[x] /\ chan'[pc[x].dir] = chan[pc[x].dir]
      <4>1. \A x \in Contexts :
              pc'[x].at \in {"suspended", "stopping"} => pc'[x] = pc[x]
        BY <2>3 DEF Contexts
      <4>2. \A x \in Contexts : pc[x].dir \in Dirs BY <1>1 DEF Contexts, Pc
      <4>. QED BY <1>1, <2>1, <2>2, <4>1, <4>2
    <3>. QED BY <3>1 DEF LockInv, StopInv
  <2>6. StopAlone' BY <2>2, <2>3 DEF LockInv, StopAlone, Contexts
  <2>7. WorkInv'
    <3>1. \A x \in Contexts : pc[x].at = "draining" => pc'[x].at = "draining"
      BY <2>3 DEF Contexts
    <3>. QED BY <1>1, <3>1 DEF LockInv, WorkInv
  <2>8. LockSafe' BY <1>1 DEF LockSafe
  <2>9. MixInv' /\ QuietInv'
    BY <1>1, <2>3 DEF LockInv, MixInv, QuietInv, Sounds, Walks, compVars
  <2>. QED BY <2>4, <2>5, <2>6, <2>7, <2>8, <2>9 DEF LockInv
<1>. QED BY <1>2, <1>3

\* dw_dma_fifo_work() reports completion of a channel that is at rest.
LEMMA LockFifo ==
  ASSUME StreamInv, LockInv, NEW d \in Dirs, fifo_work(d)
  PROVE  LockInv'
<1>. DEFINE c == chan[d]
<1>1. /\ UNCHANGED <<compVars, ssp, job, pc, upset, fault>> /\ c \in Channels
      /\ \E empty \in BOOLEAN : chan' = [chan EXCEPT ![d] = dw_dma_fifo_work(c, empty)]
  BY DEF fifo_work, StreamInv, TypeOK
<1>2. PICK empty \in BOOLEAN : chan' = [chan EXCEPT ![d] = dw_dma_fifo_work(c, empty)]
  BY <1>1
<1>3. PICK t \in Channels : t = dw_dma_fifo_work(c, empty) BY <1>1, ChannelTypes
<1>4. /\ c.status \in {"DRAINING", "STOPPING", "IDLE"} =>
           t.status \in {"DRAINING", "STOPPING", "IDLE"}
      /\ t.complete => (t.status = "IDLE" /\ ~t.en) \/ c.complete
      /\ (c.status = "IDLE" /\ ~c.en) => (t.status = "IDLE" /\ ~t.en)
  BY <1>1, <1>3 DEF dw_dma_fifo_work, GiveUp, Drained, Channels
<1>. QED BY <1>1, <1>2, <1>3, <1>4, ChanKept

LEMMA LockTransfer ==
  ASSUME StreamInv, LockInv, NEW d \in Dirs, transfer_done(d)
  PROVE  LockInv'
<1>. DEFINE c == chan[d]
<1>1. /\ UNCHANGED <<compVars, ssp, job, pc, upset, fault>> /\ c \in Channels
      /\ c.en /\ chan \in [Dirs -> Channels]
      /\ chan' = [chan EXCEPT ![d] = [[c EXCEPT !.en = FALSE] EXCEPT !.tfr = TRUE]]
  BY DEF transfer_done, StreamInv, TypeOK
<1>2. PICK t \in Channels : t = [[c EXCEPT !.en = FALSE] EXCEPT !.tfr = TRUE]
  BY <1>1, ChannelTypes
<1>3. t.status = c.status /\ t.complete = c.complete BY <1>1, <1>2 DEF Channels
<1>. QED BY <1>1, <1>2, <1>3, ChanKept

\* ssp_drain_work() spins only when its wait is over or the interrupt waits.
LEMMA LockDrain ==
  ASSUME StreamInv, LockInv, drain_work
  PROVE  LockInv'
<1>1. /\ UNCHANGED <<compVars, chan, job, pc, upset>> /\ fault = "none"
      /\ ssp.work /\ ssp \in Ports
  BY DEF drain_work, Interruptible, StreamInv, TypeOK
<1>2. IrqInv' /\ StopInv' /\ StopAlone' /\ MixInv' /\ QuietInv'
  BY <1>1 DEF LockInv, IrqInv, StopInv, StopAlone, MixInv, QuietInv, Sounds,
              Walks, compVars
<1>3. WorkInv'
  <2>1. ssp' = ssp \/ ssp' = ssp_drain_work(ssp) BY DEF drain_work
  <2>2. ~ssp_drain_work(ssp).work BY <1>1, WorkOps DEF Dirs
  <2>. QED BY <1>1, <2>1, <2>2 DEF LockInv, WorkInv
<1>4. LockSafe'
  <2>1. CASE Locked
    <3>1. "late" \in upset \/ pc.irq.at = "draining"
      BY <1>1, <2>1 DEF LockInv, WorkInv, Locked, Contexts
    <3>. QED BY <1>1, <3>1 DEF LockInv, IrqInv, LockSafe
  <2>2. CASE ~Locked BY <1>1, <2>2 DEF drain_work, LockSafe
  <2>. QED BY <2>1, <2>2
<1>. QED BY <1>2, <1>3, <1>4 DEF LockInv

-----------------------------------------------------------------------------
(* Theorems *)

\* Every step of the specification preserves the invariant.
LEMMA LockNext == StreamInv /\ LockInv /\ [Next]_vars => LockInv'
<1>. SUFFICES ASSUME StreamInv, LockInv, [Next]_vars PROVE LockInv' OBVIOUS
<1>0. "main" \in Contexts /\ "irq" \in Contexts BY DEF Contexts
<1>1. CASE dai_config BY <1>1, LockConfig
<1>2. CASE \E s \in Streams : pcm_params(s) \/ pcm_free(s) \/ prepare(s)
  BY <1>2, LockParams, LockPrepare
<1>3. CASE \E s \in Playback, cmd \in Commands : trigger_playback(s, cmd)
  BY <1>3, LockPlayback
<1>4. CASE \E s \in Capture, cmd \in Commands : trigger_capture(s, cmd)
  BY <1>4, LockCapture
<1>5. ASSUME NEW x \in Contexts, Step(x) PROVE LockInv'
  BY <1>5, LockCmd, LockSchedule, LockStopWait, LockTrigger, LockSspWait, LockState
     DEF Step
<1>6. CASE Main
  BY <1>0, <1>5, <1>6, LockUnlock, LockRelease, LockHost DEF Main
<1>7. CASE Step("irq") BY <1>0, <1>5, <1>7
<1>8. CASE \E d \in Dirs : dma_irq(d) \/ fifo_work(d) \/ transfer_done(d)
  BY <1>8, LockIrq, LockFifo, LockTransfer
<1>9. CASE drain_work BY <1>9, LockDrain
<1>10. CASE UNCHANGED vars
  BY <1>10 DEF LockInv, IrqInv, WorkInv, LockSafe, StopInv, StopAlone, MixInv,
               QuietInv, Sounds, Walks, vars, compVars
<1>11. Halted => UNCHANGED vars BY DEF Halted
<1>. QED
  BY <1>1, <1>2, <1>3, <1>4, <1>6, <1>7, <1>8, <1>9, <1>10, <1>11 DEF Next

\* The inductive invariant, with that of StreamProofs.
THEOREM LockInvariant == Spec => [](StreamInv /\ LockInv)
<1>1. Init => StreamInv /\ LockInv BY InitInv, LockInit
<1>2. StreamInv /\ LockInv /\ [Next]_vars => (StreamInv /\ LockInv)'
  BY NextInv, LockNext
<1>. QED BY <1>1, <1>2, PTL DEF Spec

\* ssp->lock, which is taken without disabling interrupts, is never spun on
\* unless a DAI stopped itself or a wait for the drain work timed out, for any
\* number of streams.
THEOREM LockIsSafe == Spec => []LockSafe
<1>1. LockInv => LockSafe BY DEF LockInv
<1>. QED BY <1>1, LockInvariant, PTL

\* dw_dma_stop() reports success of a channel at rest only, however often the
\* channel was stopped and waits timed out before.
THEOREM StopIsHonest == Spec => StopHonest
<1>1. StreamInv /\ LockInv /\ [Next]_vars =>
        [\A x \in {"main", "irq"} :
           (stop_wait(x) /\ chan[pc[x].dir].complete) =>
             chan[pc[x].dir].status = "IDLE" /\ ~chan[pc[x].dir].en]_vars
  <2>. SUFFICES ASSUME LockInv, NEW x \in {"main", "irq"}, stop_wait(x),
                       chan[pc[x].dir].complete
                PROVE  chan[pc[x].dir].status = "IDLE" /\ ~chan[pc[x].dir].en
    OBVIOUS
  <2>1. pc[x].at = "stopping" BY DEF stop_wait
  <2>. QED BY <2>1 DEF LockInv, StopInv, Contexts
<1>. QED BY <1>1, LockInvariant, PTL DEF Spec, StopHonest

\* mixer_cmd(): a command never takes the DAI out of RUNNING while a source of
\* the mixer runs, for any number of sources.
THEOREM TailIsKept == Spec => TailKept
<1>1. StreamInv /\ LockInv /\ [Next]_vars =>
        [(Main /\ dai.playback = "RUNNING" /\ dai'.playback # "RUNNING")
           => \A s \in Playback : host[s] # "RUNNING"]_vars
  <2>. SUFFICES ASSUME StreamInv, LockInv, Main, dai.playback = "RUNNING",
                       dai'.playback # "RUNNING"
                PROVE  ~Sounds
    BY DEF Sounds
  <2>1. dai_state("main")
    <3>1. ~dai_state("main") => dai' = dai
      BY DEF Main, Step, dai_cmd, stop_schedule, stop_wait, ssp_trigger, ssp_wait,
             ssp_unlock, dai_release, trigger_host, compVars
    <3>. QED BY <3>1
  <2>2. /\ pc.main.at = "state" /\ pc.main.dir = "playback"
        /\ pc.main.cmd \in {"PAUSE", "STOP"}
    BY <2>1 DEF dai_state, StreamInv, TypeOK, Dirs
  <2>. QED BY <2>2 DEF LockInv, QuietInv, Walks
<1>. QED BY <1>1, LockInvariant, PTL DEF Spec, TailKept
=============================================================================
