\* One client and one server, frames arrive as sent: what must happen in the end.
SPECIFICATION FairSpec
CONSTANTS
  i1 = i1  i2 = i2  r1 = r1
  alice = alice  bob = bob
  c1 = c1  c2 = c2
  short = short  long = long
  Initiators = {i1}
  Responders = {r1}
  Identities = {alice, bob}
  Owners <- Pair
  CapBits = {c1, c2}
  Payloads = {0, 1, 2}
  RekeyLimits = {short, long}
  Policies <- VariedPolicies
  Windows <- VariedWindows
  TrustStores <- AnyStore
  Damage = FALSE
  MaxAnswers = 2
  MaxNow = 1
  Nil = Nil
INVARIANTS
  RekeyLimitsAgree
PROPERTY
  Completes
