\* Ann pairs through the hub and may disappear at any point; bob enters the code
\* twice.  Every order of arrivals, deadlines and timeouts.
SPECIFICATION FairSpec
CONSTANTS
  ann = ann
  bob = bob
  pair = pair
  consume = consume
  again = again
  code = code
  None = None
  Parties = {pair, consume, again}
  Initiators = {pair}
  Caller <- ByHub
  Unreliable = {pair}
  Nodes = {ann, bob}
  NodeOf <- MCNodeOf
  Codes = {code}
  CodeOf <- MCCodeOf
  Kex <- MCKex
  Faults = {"gone"}
INVARIANTS
  InitiatorIsKnown
  WaitingIsFound
PROPERTY
  EverybodyIsLetGo
CHECK_DEADLOCK FALSE
