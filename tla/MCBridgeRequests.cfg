\* A call, a subscription and two connections.
SPECIFICATION Spec
CONSTANTS
  call = call
  hub = hub
  peer = peer
  c1 = c1
  c2 = c2
  Calls = {call}
  Sids = {peer}
  Conns = {c1, c2}
  HubSids = {}
  EventCap = 1
  MaxEvents = 0
  None = None
INVARIANTS
  PendingIsExact
  RequestsGoToTheReader
  AskedAgain
SYMMETRY Symmetry
CHECK_DEADLOCK FALSE
