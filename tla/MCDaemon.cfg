\* One peer and two threads.  With a gateway: two messages, two runs of the daemon,
\* three sessions.  Without: two envelopes and one of this node, three windows.
SPECIFICATION DaemonSpec
CONSTANTS
  ann = ann
  t1 = t1
  t2 = t2
  m1 = m1
  m2 = m2
  e1 = e1
  e2 = e2
  own = own
  None = None
  Never = Never
  Start = Start
  Hub = Hub
  Peers = {ann}
  Threads = {t1, t2}
  PeerOf <- MCPeerOf
  Messages = {m1, m2}
  Sids = {1, 2, 3}
  MaxStarts = 2
  Faults = {"store", "create"}
  Envelopes = {e1, e2}
  Asks = {e2}
  Own = {own}
  Debounce = 1
  Exchange = 2
  Collab = 3
  MaxTime = 3
  Dates = {0, 2}
INVARIANT
  AnswersComeBack
PROPERTIES
  SettledStays
  
CHECK_DEADLOCK FALSE
