\* Fails: the rest of a batch is lost behind a failed delivery.
CONSTANTS
  Peers = {p1}
  Threads = {t1}
  Envelopes = {e1, e2}
  d1 = d1
  m1 = m1
  daemon = daemon
  mcp = mcp
  Senders = {d1, m1}
  Procs = {daemon, mcp}
  Home <- MCHome
  Linkers = {daemon}
  Faults = {}
  Operator = {}
  None = None
  Gone = Gone
SPECIFICATION Spec
INVARIANT StoredIsQueuedOrHanded
CHECK_DEADLOCK FALSE
