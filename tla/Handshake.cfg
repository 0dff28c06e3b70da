\* Two clients and a server, their frames mixed up and changed.
SPECIFICATION Spec
CONSTANTS
  i1 = i1  i2 = i2  r1 = r1
  alice = alice  bob = bob
  c1 = c1  c2 = c2
  short = short  long = long
  Initiators = {i1, i2}
  Responders = {r1}
  Identities = {alice, bob}
  Owners <- Mixed
  CapBits = {c1, c2}
  Payloads = {0, 1, 2}
  RekeyLimits = {short, long}
  Policies <- VariedPolicies
  Windows <- AlwaysOnly
  TrustStores <- Everyone
  Damage = TRUE
  MaxAnswers = 2
  MaxNow = 0
  Nil = Nil
INVARIANTS
  KeyAgreement
  SendingKeysExclusive
  ResponderAuthenticated
  InitiatorAuthenticated
  NegotiatedFully
