\* Two connections of bob replace one another; three frames overflow his queue of
\* two and fill his buffer; he falls silent, is cut off and dials again; frames
\* expire, and the relay restarts.
CONSTANTS
  alice = alice
  bob = bob
  a1 = a1
  b1 = b1
  b2 = b2
  Nodes = {alice, bob}
  Conns = {a1, b1, b2}
  Of <- MCOfTwo
  To <- MCToBob3
  Unreliable = {b1}
  SendCap = 1
  MaxQueued = 2
  Faults = {"expire", "restart"}
  None = None
  Ctl = Ctl
SPECIFICATION RedialSpec
INVARIANTS RegistryIsCurrent OneCopy RightRecipient
PROPERTIES DropsHaveACause NothingLingers
CHECK_DEADLOCK FALSE
