\* The three second limit.
SPECIFICATION Spec
CONSTANTS
  Limit = 3
  MaxFrames = 1
CHECK_DEADLOCK FALSE
PROPERTIES
  GivesUp
