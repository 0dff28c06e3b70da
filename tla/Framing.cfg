\* Two writers, three frames, every way to cut the stream.
SPECIFICATION StreamLiveSpec
CONSTANTS
  Base = 5
  W16 = 1
  W32 = 1
  W64 = 1
  MaxFramePayload = 2
  MaxAppPayload = 2
  Version = 1
  AppTypeData = 1
  AppTypeAck = 2
  AppTypeNak = 3
  AppTypeChunk = 4
  MsgAppMessage = 4
  Writers = {sender, reader}
  Frames <- HeartbeatAndRecord
  Nil = Nil
  MaxFrames = 3
CHECK_DEADLOCK FALSE
INVARIANTS
  ReadAsWritten
PROPERTIES
  AllRead
