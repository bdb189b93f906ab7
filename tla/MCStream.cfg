SPECIFICATION Spec
CONSTANTS
  Playback = {p1, p2}
  Capture = {c1}
  MaxOpen = 2
  StopTries = 2
  DrainTries = 2
CONSTRAINT LateAlone
INVARIANTS TypeOK PlaybackFlows CaptureFlows DrainingHasWork LockSafe PortUp
PROPERTIES StopHonest TailKept ChannelSettles
