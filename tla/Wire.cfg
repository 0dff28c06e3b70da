\* Every value, undamaged and with one damage.
SPECIFICATION Spec
CONSTANTS
  Base = 5
  W16 = 2
  W32 = 3
  W64 = 2
  KeyLen = 1
  SigLen = 1
  MaxFramePayload = 28
  MaxAppPayload = 11
  Version = 1
  AppTypeData = 1
  AppTypeAck = 2
  AppTypeNak = 3
  AppTypeChunk = 16
  MsgAppMessage = 4
  Values <- Everything
  MaxDamage = 1
CHECK_DEADLOCK FALSE
INVARIANTS
  RoundTrip
  OnlyItsReader
  DigestsUnambiguous
  ReencodesAsReceived
