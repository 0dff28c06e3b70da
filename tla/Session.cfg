\* The initiator sends to the responder, which may be handed any record at any time.
\* The counter stops at 3: one frame more than an epoch has numbers for, and one more
\* that would repeat the first of them.
SPECIFICATION Spec
CONSTANTS
  WordBits = 1
  Words = 2
  MaxInt64 = 1
  MaxUint64 = 3
  TagSize = 1
  MaxUint32 = 1
  MsgTypes = {data, ctl}
  PayloadLen <- OwnLength
  Payloads = {1}
  Policies <- SomePolicies
  InitPolicy <- Loose
  Modes = {"OrderedTCP", "SlidingUDP"}
  SentTypes = {data}
  Senders = {"initiator"}
  Receivers = {"responder"}
  MaxSends = 5
  MaxRekeys = 2
  MaxClock = 1
INVARIANTS
  NonceUnique
  ReplayRejected
  DeliveredAuthentic
  NextRecordOpens
  FreshRecordOpens
PROPERTY
  RekeyNotMissed
