\* An interval of 2 and a timeout of 5 ticks.
SPECIFICATION Spec
CONSTANTS
  HeartbeatInterval = 2
  HeartbeatTimeout = 5
  PeerInterval = 2
  Delay = 2
  Oldest = 8
  MaxFlight = 2
INVARIANTS
  LivePeerKept
  SilentPeerNoticed
  ClientHeard
  BeatsSpaced
