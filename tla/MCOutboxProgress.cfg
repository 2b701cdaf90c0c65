\* An MCP process queues for two peers, either of which may be revoked, and
\* the daemon drains; no crash and no failing statement.
CONSTANTS
  Peers = {p1, p2}
  Threads = {t1, t2}
  Envelopes = {e1, e2}
  d1 = d1
  m1 = m1
  daemon = daemon
  mcp = mcp
  Senders = {m1}
  Procs = {daemon, mcp}
  Home <- MCMcpOnly
  Linkers = {daemon}
  Faults = {}
  Operator = {"revoke"}
  None = None
  Gone = Gone
SPECIFICATION FairSpec
INVARIANT StoredFirst
PROPERTY LostOnlyBehindAFailure
PROPERTY QueuedIsHanded
CHECK_DEADLOCK FALSE
