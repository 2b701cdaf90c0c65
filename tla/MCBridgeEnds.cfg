\* The hub makes a request between two messages, and its channel fills up.
SPECIFICATION FairSpec
CONSTANTS
  call = call
  hub = hub
  peer = peer
  c1 = c1
  c2 = c2
  Calls = {call}
  Sids = {hub}
  Conns = {c1}
  HubSids = {hub}
  EventCap = 1
  MaxEvents = 3
  None = None
PROPERTIES
  RequestsEnd
  CancelEnds
  CloseEnds
CHECK_DEADLOCK FALSE
