-------------------------------- MODULE Ssp --------------------------------
(***************************************************************************)
(* The serial port (src/drivers/ssp.c), as operators on a record.  req is  *)
(* the DMA request enable of each direction (TSRE, RSRE), sse the port     *)
(* enable; work and complete belong to the drain work, which the two       *)
(* directions share.                                                       *)
(***************************************************************************)
Dirs == {"playback", "capture"}

\* SSP_STATE_
PortStates == {"INIT", "RUNNING", "IDLE", "DRAINING", "PAUSING", "PAUSED"}

Ports == [state : [Dirs -> PortStates], req : [Dirs -> BOOLEAN], sse : BOOLEAN,
          work : BOOLEAN, complete : BOOLEAN]

\* ssp_probe()
NewPort == [state |-> [d \in Dirs |-> "INIT"], req |-> [d \in Dirs |-> FALSE],
            sse |-> FALSE, work |-> FALSE, complete |-> FALSE]

\* The numbers of the states are compared: a direction that is RUNNING does
\* not prevent a new configuration.
ssp_set_config(p) ==
  IF \E d \in Dirs : p.state[d] \in {"DRAINING", "PAUSING", "PAUSED"} THEN p
  ELSE [p EXCEPT !.state = [d \in Dirs |-> "IDLE"],
                 !.req = [d \in Dirs |-> FALSE], !.sse = FALSE]

ssp_start(p, d) ==
  [p EXCEPT !.sse = TRUE, !.state[d] = "RUNNING", !.req[d] = TRUE]

\* Requests of playback are only disabled in the state given.
Disabled(p, d, s) ==
  [p.req EXCEPT ![d] = @ /\ d = "playback" /\ p.state[d] # s]

\* Mutant of ssp_stop: the port is disabled although the other direction uses
\* it.
StopPort(p, d) ==
  [p EXCEPT !.req = Disabled(p, d, "DRAINING"), !.sse = FALSE,
            !.state[d] = "IDLE"]

\* The port is disabled with its last user.
ssp_stop(p, d) ==
  LET req == Disabled(p, d, "DRAINING")
  IN  [p EXCEPT !.req = req, !.sse = @ /\ \E e \in Dirs : req[e],
                !.state[d] = "IDLE"]

ssp_pause(p, d) ==
  [p EXCEPT !.req = Disabled(p, d, "PAUSING"), !.state[d] = "PAUSED"]

\* The drain work looks at the capture direction only.
ssp_drain_work(p) ==
  [(IF p.state.capture = "DRAINING" THEN ssp_stop(p, "capture")
    ELSE ssp_pause(p, "capture")) EXCEPT !.complete = TRUE, !.work = FALSE]

\* What ssp_trigger() does: the function it calls, "wait" when it leaves that
\* to the drain work and waits, "none" when the state forbids the command.
SspOp(p, cmd, d) ==
  CASE cmd = "START" /\ p.state[d] = "IDLE" -> "start"
    [] cmd = "RELEASE" /\ p.state[d] = "PAUSED" -> "start"
    [] cmd = "PAUSE" /\ p.state[d] = "RUNNING" ->
         IF d = "capture" THEN "wait" ELSE "pause"
    [] cmd = "STOP" /\ p.state[d] \in {"RUNNING", "PAUSED"} ->
         IF d = "playback" /\ p.state[d] = "RUNNING" THEN "wait" ELSE "stop"
    [] OTHER -> "none"

\* ssp_trigger(), before it waits.
SspWait(p, d) ==
  [p EXCEPT !.state[d] = IF d = "capture" THEN "PAUSING" ELSE "DRAINING",
            !.work = TRUE, !.complete = FALSE]

SspApply(p, op, d) ==
  CASE op = "start" -> ssp_start(p, d)
    [] op = "pause" -> ssp_pause(p, d)
    [] op = "stop"  -> ssp_stop(p, d)
=============================================================================
