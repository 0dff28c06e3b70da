\* Two goroutines, three messages: every order of calls.
SPECIFICATION LiveSpec
CONSTANTS
  Channels = {c1, c2}
  Goroutines = {g1, g2}
  Drainer = g1
  Nil = Nil
  MaxPush = 3
INVARIANTS
  NothingLost
PROPERTIES
  ImplementsQueue
  EverythingTaken
