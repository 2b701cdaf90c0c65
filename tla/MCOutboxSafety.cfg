\* One peer, two senders, two processes that drain one outbox; every fault
\* and every operator command.
CONSTANTS
  d1 = d1
  m1 = m1
  daemon = daemon
  mcp = mcp
  Peers = {p1}
  Threads = {t1}
  Envelopes = {e1, e2}
  Senders = {d1, m1}
  Procs = {daemon, mcp}
  Home <- MCHome
  Linkers = {daemon, mcp}
  Faults = {"crash", "store"}
  Operator = {"revoke", "delete"}
  None = None
  Gone = Gone
SYMMETRY Symm
SPECIFICATION Spec
INVARIANT SingleKeeper
INVARIANT AtMostOnce
PROPERTY ImplementsMailbox
CHECK_DEADLOCK FALSE
