\* Three messages each way over a connection that holds one frame.
SPECIFICATION ClientLiveSpec
CONSTANTS
  WordBits = 1
  Words = 1
  MaxInt64 = 1
  MaxUint64 = 3
  TagSize = 1
  MaxUint32 = 1
  MsgTypes = {app, beat3}
  MsgAppMessage = app
  MsgHeartbeat = beat3
  Channels = {1}
  Garbage = Garbage
  Payloads <- SomePayloads
  PayloadLen <- NoLength
  Policies <- RelaxedOnly
  InitPolicy <- Relaxed
  Modes = {"OrderedTCP"}
  SentTypes = {app, beat3}
  Senders = {"initiator", "responder"}
  Receivers = {"initiator", "responder"}
  MaxSends = 3
  MaxRekeys = 0
  MaxClock = 0
  HeartbeatInterval = 0
  Capacity = 1
  Routers <- DefaultRouter
  LateHandlers = {app}
  PlainTypes = {beat3}
  MaxPlain = 1
INVARIANTS
  PrefixReturned
  ChannelsInOrder
PROPERTIES
  UsesSession
  AllReturned
