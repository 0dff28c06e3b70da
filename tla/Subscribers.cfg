\* One channel, three clients, two lists held by callers.
SPECIFICATION SetSpec
CONSTANTS
  ChannelIDs = {c1}
  Clients = {1, 2, 3}
  Arrays = {a1, a2, a3, a4}
  MaxCap = 4
  MaxHeld = 2
SYMMETRY Addresses
INVARIANTS
  SubscribersExact
  HeldListsStable
