\* Two peers, three envelopes that name one thread, two processes; every fault and
\* every command.
SPECIFICATION FairSpec
CONSTANTS
  ann = ann
  bob = bob
  t1 = t1
  e1 = e1
  e2 = e2
  e3 = e3
  daemon = daemon
  mcp = mcp
  None = None
  Peers = {ann, bob}
  Threads = {t1}
  Envelopes = {e1, e2, e3}
  Procs = {daemon, mcp}
  Genuine = {e1, e2, e3}
  From <- AnnAnnBob
  ThreadOf <- OneThread
  Intent <- AskSayAsk
  AskPolicy <- AllowAnn
  Faults = {"crash", "store"}
  Operator = {"revoke", "delete", "open"}
INVARIANTS
  
  ShownIsStored
PROPERTIES
  KeptUnlessRefused
  HandledInTheEnd
  
CHECK_DEADLOCK FALSE
