\* One peer, two threads, three envelopes in two milliseconds; a tool's caller and the
\* gateway, a reader of the inbox, one whose reads may fail, or a listener.
SPECIFICATION FairConversation
CONSTANTS
  ann = ann
  t1 = t1
  t2 = t2
  tool = tool
  gateway = gateway
  reader = reader
  listen = listen
  flaky = flaky
  Peers = {ann}
  Threads = {t1, t2}
  PeerOf <- MCPeerOf
  Tools = {tool}
  Gateways = {gateway}
  Readers = {reader, flaky}
  Scope <- MCScope
  Followers = {listen}
  Casts = {{tool, gateway}, {reader}, {flaky}, {listen}}
  MaxNow = 2
  MaxLog = 3
  Salts = {1, 2}
  Flaky = {flaky}
INVARIANTS
  
  SkippedIsLate
  EachAnswerHasItsAsk
  PendingIsPending
PROPERTY
  EverythingIsFollowed
CHECK_DEADLOCK FALSE
