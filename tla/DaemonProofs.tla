---------------------------- MODULE DaemonProofs -----------------------------
(***************************************************************************)
(* For every set of peers, threads, messages and sessions, however often   *)
(* the daemon is started and whatever fails: a peer whose session is in    *)
(* use gets no other one, the turns that come back are those of the        *)
(* session in use, and of which envelopes the user is not told.            *)
(***************************************************************************)
EXTENDS Daemon, TLAPS

CallRecords == [pc : Steps, peer : Peers \cup {None},
                sid : Sids \cup {None}, thread : Threads \cup {None}]

Becomes(c, r) == call'[c] = r /\ \A d \in Callers : d # c => call'[d] = call[d]

LEMMA CallIsRecord ==
  ASSUME TypeOK, NEW c \in Callers
  PROVE  /\ call[c] \in CallRecords
         /\ call[c] = Onward(c, call[c].pc, call[c].sid)
<1>1. call[c] \in CallRecords
  BY DEF TypeOK, CallRecords
<1> QED BY <1>1 DEF CallRecords, Onward

LEMMA CallMoves ==
  ASSUME TypeOK, NEW c \in Callers, NEW r \in CallRecords, call' = [call EXCEPT ![c] = r]
  PROVE  Becomes(c, r) /\ call' \in [Callers -> CallRecords]
BY DEF TypeOK, Becomes, CallRecords

LEMMA GoesMoves ==
  ASSUME TypeOK, NEW c \in Callers, NEW at \in Steps, NEW s \in Sids \cup {None},
         GoesWith(c, at, s)
  PROVE  Becomes(c, Onward(c, at, s)) /\ call' \in [Callers -> CallRecords]
<1>1. Onward(c, at, s) \in CallRecords
  BY CallIsRecord DEF Onward, CallRecords
<1> QED BY <1>1, CallMoves DEF GoesWith

LEMMA CallsAreRecords ==
  /\ \A p \in Peers, t \in Threads \cup {None} : Calls(p, t) \in CallRecords
  /\ NoCall \in CallRecords
<1>1. {"cache", "idle"} \subseteq Steps
  BY DEF Steps
<1> QED BY <1>1 DEF Calls, NoCall, CallRecords

(***************************************************************************)
(* A session is its peer's, and is written down before it is used.         *)
(***************************************************************************)

Owned(s, p) == s \in Sids /\ p \in Peers /\ owner[s] = p

\* What a caller knows at each of its steps.
Shaped(c) ==
  /\ call[c].pc # "idle" => call[c].peer \in Peers
  /\ call[c].pc \in {"set", "put", "use", "find"} => Owned(call[c].sid, call[c].peer)
  /\ call[c].pc \in {"put", "use", "find"} => table[call[c].peer] # None
  /\ call[c].pc # "idle" /\ call[c].thread # None => PeerOf[call[c].thread] = call[c].peer

RowsAreOwned == \A p \in Peers : table[p] # None => Owned(table[p], p)
CacheIsStored == \A p \in Peers : cache[p] # None => Owned(cache[p], p) /\ table[p] # None
UsedIsStored == \A s \in used : owner[s] \in Peers /\ table[owner[s]] # None

Stored ==
  /\ TypeOK
  /\ \A c \in Callers : Shaped(c)
  /\ RowsAreOwned /\ CacheIsStored /\ UsedIsStored

\* Sessions stay their peer's, and rows of the table are not taken out.
Grows ==
  /\ \A s \in Sids : owner[s] # None => owner'[s] = owner[s]
  /\ \A p \in Peers : table[p] # None => table'[p] # None

LEMMA InitStored == Init => Stored
<1> SUFFICES ASSUME Init  PROVE Stored
  OBVIOUS
<1>1. call \in [Callers -> CallRecords]
  BY CallsAreRecords DEF Init
<1>2. /\ peers \subseteq Peers /\ threads \subseteq Threads
      /\ 0 \in 0..MaxStarts
  BY SessionsAssumption DEF Init
<1>3. TypeOK
  BY <1>1, <1>2 DEF Init, TypeOK, CallRecords
<1>4. \A c \in Callers : Shaped(c)
  BY DEF Init, Shaped, NoCall
<1>5. RowsAreOwned /\ CacheIsStored /\ UsedIsStored
  BY DEF Init, RowsAreOwned, CacheIsStored, UsedIsStored
<1> QED BY <1>3, <1>4, <1>5 DEF Stored

LEMMA GrowsFromTables ==
  ASSUME UNCHANGED owner, UNCHANGED table
  PROVE  Grows
BY DEF Grows

\* What a caller knows that takes no step remains true.
LEMMA StaysShaped ==
  ASSUME Stored, Grows, NEW c \in Callers, call'[c] = call[c]
  PROVE  Shaped(c)'
<1>1. Shaped(c) /\ None \notin Peers
  BY SessionsAssumption DEF Stored
<1>2. ASSUME call[c].pc \in {"set", "put", "use", "find"}
      PROVE  owner'[call[c].sid] = call[c].peer
  BY <1>1, <1>2 DEF Shaped, Owned, Grows
<1>3. ASSUME call[c].pc \in {"put", "use", "find"}
      PROVE  table'[call[c].peer] # None
  BY <1>1, <1>3 DEF Shaped, Owned, Grows
<1> QED BY <1>1, <1>2, <1>3 DEF Shaped, Owned

\* A step of c that leaves the tables, the gateway and the cache alone.
LEMMA CallerStepKeepsStored ==
  ASSUME Stored, TypeOK', NEW c \in Callers, Shaped(c)',
         \A d \in Callers : d # c => call'[d] = call[d],
         UNCHANGED <<table, owner, used, cache>>
  PROVE  Stored'
<1>1. Grows
  BY GrowsFromTables
<1>2. \A d \in Callers : Shaped(d)'
  BY <1>1, StaysShaped
<1>3. RowsAreOwned' /\ CacheIsStored' /\ UsedIsStored'
  BY DEF Stored, RowsAreOwned, CacheIsStored, UsedIsStored, Owned
<1> QED BY <1>2, <1>3 DEF Stored

\* So does a step in which nobody's call changes.
LEMMA NoCallStepKeepsStored ==
  ASSUME Stored, TypeOK', UNCHANGED <<call, table, owner, used, cache>>
  PROVE  Stored'
<1>1. Grows
  BY GrowsFromTables
<1>2. \A d \in Callers : Shaped(d)'
  BY <1>1, StaysShaped
<1>3. RowsAreOwned' /\ CacheIsStored' /\ UsedIsStored'
  BY DEF Stored, RowsAreOwned, CacheIsStored, UsedIsStored, Owned
<1> QED BY <1>2, <1>3 DEF Stored

LEMMA LookCacheStored ==
  ASSUME Stored, NEW c \in Callers, LookCache(c)
  PROVE  Stored'
<1> DEFINE s == cache[call[c].peer]
<1>1. TypeOK /\ call[c].pc = "cache" /\ call[c].peer \in Peers /\ Shaped(c)
  BY DEF Stored, Shaped, LookCache
<1>2. /\ \/ s # None /\ GoesWith(c, "use", s)
         \/ s = None /\ GoesWith(c, "table", call[c].sid)
      /\ s \in Sids \cup {None} /\ call[c].sid \in Sids \cup {None}
      /\ {"use", "table"} \subseteq Steps
  BY <1>1, CallIsRecord DEF LookCache, Goes, TypeOK, Steps, CallRecords
<1>3. /\ call' \in [Callers -> CallRecords]
      /\ \/ s # None /\ Becomes(c, Onward(c, "use", s))
         \/ s = None /\ Becomes(c, Onward(c, "table", call[c].sid))
  BY <1>1, <1>2, GoesMoves
<1>4. TypeOK'
  BY <1>1, <1>3 DEF LookCache, TypeOK, CallRecords, database, gateway
<1>5. Shaped(c)'
  <2>1. CASE s = None
    BY <2>1, <1>1, <1>3 DEF Becomes, Onward, Shaped, LookCache
  <2>2. CASE s # None
    <3>1. Owned(s, call[c].peer) /\ table[call[c].peer] # None
      BY <2>2, <1>1 DEF Stored, CacheIsStored
    <3> QED BY <2>2, <3>1, <1>1, <1>3
            DEF Becomes, Onward, Shaped, Owned, LookCache, database, gateway
  <2> QED BY <2>1, <2>2
<1> QED BY <1>3, <1>4, <1>5, CallerStepKeepsStored DEF Becomes, LookCache, database, gateway

LEMMA LookTableStored ==
  ASSUME Stored, NEW c \in Callers, LookTable(c)
  PROVE  Stored'
<1> DEFINE s == table[call[c].peer]
<1>1. TypeOK /\ call[c].pc = "table" /\ call[c].peer \in Peers /\ Shaped(c)
  BY DEF Stored, Shaped, LookTable
<1>2. /\ \/ s # None /\ GoesWith(c, "put", s)
         \/ s = None /\ GoesWith(c, "create", call[c].sid)
      /\ s \in Sids \cup {None} /\ call[c].sid \in Sids \cup {None}
      /\ {"put", "create"} \subseteq Steps
  BY <1>1, CallIsRecord DEF LookTable, Goes, TypeOK, Steps, CallRecords
<1>3. /\ call' \in [Callers -> CallRecords]
      /\ \/ s # None /\ Becomes(c, Onward(c, "put", s))
         \/ s = None /\ Becomes(c, Onward(c, "create", call[c].sid))
  BY <1>1, <1>2, GoesMoves
<1>4. TypeOK'
  BY <1>1, <1>3 DEF LookTable, TypeOK, CallRecords, database, gateway
<1>5. Shaped(c)'
  <2>1. CASE s = None
    BY <2>1, <1>1, <1>3 DEF Becomes, Onward, Shaped, LookTable
  <2>2. CASE s # None
    <3>1. Owned(s, call[c].peer)
      BY <2>2, <1>1 DEF Stored, RowsAreOwned
    <3> QED BY <2>2, <3>1, <1>1, <1>3
            DEF Becomes, Onward, Shaped, Owned, LookTable, database, gateway
  <2> QED BY <2>1, <2>2
<1> QED BY <1>3, <1>4, <1>5, CallerStepKeepsStored DEF Becomes, LookTable, database, gateway

LEMMA CreateStored ==
  ASSUME Stored, NEW c \in Callers, Create(c)
  PROVE  Stored'
<1>1. TypeOK /\ call[c].pc = "create" /\ call[c].peer \in Peers /\ Shaped(c)
  BY DEF Stored, Shaped, Create
<1>2. PICK s \in Sids : /\ owner[s] = None
                        /\ owner' = [owner EXCEPT ![s] = call[c].peer]
                        /\ GoesWith(c, "set", s)
  BY DEF Create
<1>3. Becomes(c, Onward(c, "set", s)) /\ call' \in [Callers -> CallRecords]
  BY <1>1, <1>2, GoesMoves DEF Steps
<1>4. UNCHANGED <<table, cache, used>>
  BY DEF Create, database
<1>5. owner'[s] = call[c].peer /\ \A r \in Sids : r # s => owner'[r] = owner[r]
  BY <1>1, <1>2 DEF TypeOK
<1>6. Grows
  BY <1>2, <1>4, <1>5 DEF Grows
<1>7. TypeOK'
  BY <1>1, <1>2, <1>3 DEF Create, TypeOK, CallRecords, database
<1>8. Shaped(c)'
  BY <1>1, <1>3, <1>5 DEF Becomes, Onward, Shaped, Owned
<1>9. \A d \in Callers : Shaped(d)'
  BY <1>3, <1>6, <1>8, StaysShaped DEF Becomes
<1>10. RowsAreOwned' /\ CacheIsStored'
  BY <1>2, <1>4, <1>5, SessionsAssumption DEF Stored, RowsAreOwned, CacheIsStored, Owned
<1>11. UsedIsStored'
  BY <1>2, <1>4, <1>5, SessionsAssumption DEF Stored, UsedIsStored, TypeOK
<1> QED BY <1>7, <1>9, <1>10, <1>11 DEF Stored

LEMMA SetStored ==
  ASSUME Stored, NEW c \in Callers, Set(c)
  PROVE  Stored'
<1> DEFINE p == call[c].peer
           s == call[c].sid
<1>1. TypeOK /\ call[c].pc = "set" /\ p \in Peers /\ Owned(s, p) /\ Shaped(c)
  BY DEF Stored, Shaped, Set
<1>2. s \in Sids /\ s # None
  BY <1>1, SessionsAssumption DEF Owned
<1>3. Becomes(c, Onward(c, "put", s)) /\ call' \in [Callers -> CallRecords]
  BY <1>1, <1>2, GoesMoves DEF Set, Goes, Steps
<1>4. UNCHANGED <<owner, cache, used>>
  BY DEF Set, gateway
<1>5. table'[p] = s /\ \A q \in Peers : q # p => table'[q] = table[q]
  BY <1>1 DEF Set, TypeOK
<1>6. Grows
  BY <1>2, <1>4, <1>5 DEF Grows
<1>7. TypeOK'
  BY <1>1, <1>2, <1>3 DEF Set, TypeOK, CallRecords, gateway
<1>8. Shaped(c)'
  BY <1>1, <1>2, <1>3, <1>4, <1>5 DEF Becomes, Onward, Shaped, Owned
<1>9. \A d \in Callers : Shaped(d)'
  BY <1>3, <1>6, <1>8, StaysShaped DEF Becomes
<1>10. RowsAreOwned' /\ CacheIsStored' /\ UsedIsStored'
  BY <1>1, <1>2, <1>4, <1>5 DEF Stored, RowsAreOwned, CacheIsStored, UsedIsStored, Owned
<1> QED BY <1>7, <1>9, <1>10 DEF Stored

\* A caller that is done, or gives up, knows nothing.
LEMMA IdleIsShaped ==
  ASSUME NEW c \in Callers, call'[c] = NoCall
  PROVE  Shaped(c)'
BY DEF Shaped, NoCall

LEMMA FailsStored ==
  ASSUME Stored, NEW c \in Callers, Fails(c)
  PROVE  Stored'
<1>1. TypeOK /\ call' = [call EXCEPT ![c] = NoCall]
  BY DEF Stored, Fails, OnError, Gives
<1>2. Becomes(c, NoCall) /\ call' \in [Callers -> CallRecords]
  BY <1>1, CallMoves, CallsAreRecords
<1>3. TypeOK'
  BY <1>1, <1>2 DEF Fails, OnError, Gives, TypeOK, CallRecords, database, gateway
<1> QED BY <1>2, <1>3, IdleIsShaped, CallerStepKeepsStored
        DEF Becomes, Fails, database, gateway

LEMMA PutStored ==
  ASSUME Stored, NEW c \in Callers, Put(c)
  PROVE  Stored'
<1> DEFINE p == call[c].peer
           s == call[c].sid
<1>1. TypeOK /\ call[c].pc = "put" /\ p \in Peers /\ Owned(s, p) /\ table[p] # None /\ Shaped(c)
  BY DEF Stored, Shaped, Put
<1>2. s \in Sids
  BY <1>1 DEF Owned
<1>3. Becomes(c, Onward(c, "use", s)) /\ call' \in [Callers -> CallRecords]
  BY <1>1, <1>2, GoesMoves DEF Put, Goes, Steps
<1>4. UNCHANGED <<owner, table, used>>
  BY DEF Put, database, gateway
<1>5. cache'[p] = s /\ \A q \in Peers : q # p => cache'[q] = cache[q]
  BY <1>1 DEF Put, TypeOK
<1>6. TypeOK'
  BY <1>1, <1>2, <1>3 DEF Put, TypeOK, CallRecords, database, gateway
<1>7. Shaped(c)'
  BY <1>1, <1>3, <1>4 DEF Becomes, Onward, Shaped, Owned
<1>8. \A d \in Callers : Shaped(d)'
  BY <1>3, <1>4, <1>7, StaysShaped, GrowsFromTables DEF Becomes
<1>9. RowsAreOwned' /\ CacheIsStored' /\ UsedIsStored'
  BY <1>1, <1>4, <1>5 DEF Stored, RowsAreOwned, CacheIsStored, UsedIsStored, Owned
<1> QED BY <1>6, <1>8, <1>9 DEF Stored

\* A caller uses its session, and goes on or is done.
LEMMA UseKeepsStored ==
  ASSUME Stored, TypeOK', NEW c \in Callers, call[c].pc = "use", Shaped(c)',
         \A d \in Callers : d # c => call'[d] = call[d],
         used' \subseteq used \cup {call[c].sid}, UNCHANGED <<table, owner, cache>>
  PROVE  Stored'
<1>1. Owned(call[c].sid, call[c].peer) /\ table[call[c].peer] # None
  BY DEF Stored, Shaped
<1>2. \A d \in Callers : Shaped(d)'
  BY StaysShaped, GrowsFromTables
<1>3. RowsAreOwned' /\ CacheIsStored'
  BY DEF Stored, RowsAreOwned, CacheIsStored, Owned
<1>4. UsedIsStored'
  BY <1>1 DEF Stored, UsedIsStored, Owned
<1> QED BY <1>2, <1>3, <1>4 DEF Stored

\* A caller comes in for a peer, and a thread of it or none.
LEMMA CallStartsStored ==
  ASSUME Stored, TypeOK', NEW c \in Callers, NEW p \in Peers, NEW t \in Threads \cup {None},
         t # None => PeerOf[t] = p, Becomes(c, Calls(p, t)),
         UNCHANGED <<table, owner, used, cache>>
  PROVE  Stored'
<1>1. Shaped(c)'
  BY DEF Becomes, Calls, Shaped
<1> QED BY <1>1, CallerStepKeepsStored DEF Becomes

LEMMA CallTypes ==
  ASSUME TypeOK, NEW c \in Callers, NEW p \in Peers, NEW t \in Threads \cup {None},
         call' = [call EXCEPT ![c] = Calls(p, t)]
  PROVE  Becomes(c, Calls(p, t)) /\ call' \in [Callers -> CallRecords]
BY CallMoves, CallsAreRecords

LEMMA IdleTypes ==
  ASSUME TypeOK, NEW c \in Callers, call' = [call EXCEPT ![c] = NoCall]
  PROVE  Becomes(c, NoCall) /\ call' \in [Callers -> CallRecords]
BY CallMoves, CallsAreRecords

LEMMA HubAndStart == Hub \in Callers /\ Start \in Callers /\ Messages \subseteq Callers
BY DEF Callers

LEMMA PeersOfThreads == \A t \in Threads : PeerOf[t] \in Peers /\ t # None
BY SessionsAssumption

LEMMA ReceiveStored ==
  ASSUME Stored, NEW c \in Messages, NEW t \in Threads, Receive(c, t)
  PROVE  Stored'
<1>1. TypeOK /\ c \in Callers /\ PeerOf[t] \in Peers
  BY HubAndStart, PeersOfThreads DEF Stored
<1>2. Becomes(c, Calls(PeerOf[t], t)) /\ call' \in [Callers -> CallRecords]
  BY <1>1, CallTypes DEF Receive
<1>3. TypeOK'
  BY <1>1, <1>2 DEF Receive, TypeOK, CallRecords, gateway
<1> QED BY <1>1, <1>2, <1>3, CallStartsStored DEF Receive, gateway

LEMMA DeliverStored ==
  ASSUME Stored, NEW c \in Messages, Deliver(c)
  PROVE  Stored'
<1>1. TypeOK /\ c \in Callers /\ call[c].sid \in Sids
  BY HubAndStart DEF Stored, Shaped, Owned, Deliver
<1>2. Becomes(c, NoCall) /\ call' \in [Callers -> CallRecords]
  BY <1>1, IdleTypes DEF Deliver
<1>3. TypeOK'
  BY <1>1, <1>2 DEF Deliver, TypeOK, CallRecords, database
<1> QED BY <1>1, <1>2, <1>3, IdleIsShaped, UseKeepsStored DEF Becomes, Deliver, database

LEMMA PairStored ==
  ASSUME Stored, NEW p \in Peers, PairByCommand(p) \/ PairByHub(p)
  PROVE  Stored'
<1>1. TypeOK
  BY DEF Stored
<1>2. CASE PairByCommand(p)
  <2>1. TypeOK'
    BY <1>1, <1>2 DEF PairByCommand, TypeOK, gateway, process
  <2> QED BY <1>2, <2>1, NoCallStepKeepsStored DEF PairByCommand, gateway, process
<1>3. CASE PairByHub(p)
  <2>1. Becomes(Hub, Calls(p, None)) /\ call' \in [Callers -> CallRecords]
    BY <1>1, <1>3, HubAndStart, CallTypes DEF PairByHub
  <2>2. TypeOK'
    BY <1>1, <1>3, <2>1 DEF PairByHub, TypeOK, CallRecords, gateway
  <2> QED BY <1>3, <2>1, <2>2, HubAndStart, CallStartsStored DEF PairByHub, gateway
<1> QED BY <1>2, <1>3

LEMMA EstablishStored ==
  ASSUME Stored, Establish
  PROVE  Stored'
<1> DEFINE s == call[Hub].sid
<1>1. /\ TypeOK /\ Hub \in Callers /\ Shaped(Hub) /\ call[Hub].pc = "use"
      /\ s \in Sids /\ used' = used \cup {s}
  BY HubAndStart DEF Stored, Shaped, Owned, Establish
<1>2. Becomes(Hub, Onward(Hub, "find", s)) /\ call' \in [Callers -> CallRecords]
  BY <1>1, GoesMoves DEF Establish, Goes, Steps
<1>3. TypeOK'
  BY <1>1, <1>2 DEF Establish, TypeOK, CallRecords, database
<1>4. Shaped(Hub)'
  BY <1>1, <1>2 DEF Becomes, Onward, Shaped, Owned, Establish, database
<1> QED BY <1>1, <1>2, <1>3, <1>4, UseKeepsStored DEF Becomes, Establish, database

LEMMA FindThreadStored ==
  ASSUME Stored, FindThread
  PROVE  Stored'
<1>1. TypeOK /\ Hub \in Callers /\ call[Hub].sid \in Sids
  BY HubAndStart DEF Stored, Shaped, Owned, FindThread
<1>2. Becomes(Hub, NoCall) /\ call' \in [Callers -> CallRecords]
  BY <1>1, IdleTypes DEF FindThread
<1>3. \/ starting' = starting
      \/ \E t \in threads : starting' = starting \cup {<<call[Hub].sid, t>>}
  BY DEF FindThread
<1>4. starting' \subseteq Sids \X Threads
  BY <1>1, <1>3 DEF TypeOK
<1>5. TypeOK'
  BY <1>1, <1>2, <1>4 DEF FindThread, TypeOK, CallRecords, database, gateway
<1> QED BY <1>1, <1>2, <1>5, IdleIsShaped, CallerStepKeepsStored
        DEF Becomes, FindThread, database, gateway

LEMMA EnsureStartsStored ==
  ASSUME Stored, \/ \E p \in Peers : EnsurePeer(p)
                 \/ \E t \in Threads : EnsureThread(t)
  PROVE  Stored'
<1>1. PICK p \in Peers, t \in Threads \cup {None} :
        /\ t # None => PeerOf[t] = p
        /\ call' = [call EXCEPT ![Start] = Calls(p, t)]
        /\ UNCHANGED <<database, gateway, cache, daemon, listed, todo, surfaces, starting, subs, starts>>
  BY PeersOfThreads DEF EnsurePeer, EnsureThread, StartCalls
<1>2. TypeOK
  BY DEF Stored
<1>3. Becomes(Start, Calls(p, t)) /\ call' \in [Callers -> CallRecords]
  BY <1>1, <1>2, HubAndStart, CallTypes
<1>4. TypeOK'
  BY <1>1, <1>2, <1>3 DEF TypeOK, CallRecords, database, gateway
<1> QED BY <1>1, <1>3, <1>4, HubAndStart, CallStartsStored DEF database, gateway

LEMMA EnsuredStored ==
  ASSUME Stored, Ensured
  PROVE  Stored'
<1> DEFINE t == call[Start].thread
           s == call[Start].sid
<1>1. TypeOK /\ Start \in Callers /\ call[Start].pc = "use" /\ s \in Sids
  BY HubAndStart DEF Stored, Shaped, Owned, Ensured
<1>2. Becomes(Start, NoCall) /\ call' \in [Callers -> CallRecords]
  BY <1>1, IdleTypes DEF Ensured
<1>3. \/ /\ todo' = todo \ {call[Start].peer} /\ used' = used /\ starting' = starting
      \/ /\ t # None /\ todo' = todo \ {t} /\ used' = used \cup {s}
         /\ starting' = starting \cup {<<s, t>>}
  BY DEF Ensured
<1>4. todo' \subseteq todo
  BY <1>3
<1>5. t \in Threads \cup {None}
  BY <1>1, CallIsRecord DEF CallRecords
<1>6. starting' \subseteq Sids \X Threads /\ used' \subseteq Sids
  BY <1>1, <1>3, <1>5 DEF TypeOK
<1>7. TypeOK'
  BY <1>1, <1>2, <1>4, <1>6 DEF Ensured, TypeOK, CallRecords, database
<1>8. used' \subseteq used \cup {s}
  BY <1>3
<1> QED BY <1>1, <1>2, <1>7, <1>8, IdleIsShaped, UseKeepsStored DEF Becomes, Ensured, database

LEMMA DaemonStored ==
  ASSUME Stored,
         \/ \E s \in Sids, t \in Threads : Subscribe(s, t)
         \/ StartDaemon \/ SetSurfaces \/ ListThreads \/ Started \/ UNCHANGED vars
  PROVE  Stored'
<1>1. TypeOK
  BY DEF Stored
<1>2. TypeOK'
  <2>1. CASE \E s \in Sids, t \in Threads : Subscribe(s, t)
    BY <1>1, <2>1 DEF Subscribe, TypeOK, database, gateway
  <2>2. CASE StartDaemon
    <3>1. starts + 1 \in 0..MaxStarts
      BY <1>1, <2>2, SessionsAssumption DEF StartDaemon, TypeOK
    <3> QED BY <1>1, <2>2, <3>1 DEF StartDaemon, TypeOK, database, gateway
  <2>3. CASE SetSurfaces
    BY <1>1, <2>3 DEF SetSurfaces, TypeOK, database, gateway
  <2>4. CASE ListThreads \/ Started
    BY <1>1, <2>4 DEF ListThreads, Started, TypeOK, database, gateway
  <2>5. CASE UNCHANGED vars
    BY <1>1, <2>5 DEF vars, TypeOK, database, gateway, process
  <2> QED BY <2>1, <2>2, <2>3, <2>4, <2>5
<1> QED BY <1>2, NoCallStepKeepsStored
        DEF Subscribe, StartDaemon, SetSurfaces, ListThreads, Started,
            vars, database, gateway, process

LEMMA StopDaemonStored ==
  ASSUME Stored, StopDaemon
  PROVE  Stored'
<1>1. TypeOK /\ UNCHANGED <<table, owner, used>>
  BY DEF Stored, StopDaemon, database, gateway
<1>2. /\ call' \in [Callers -> CallRecords] /\ \A c \in Callers : call'[c] = NoCall
      /\ \A p \in Peers : cache'[p] = None
  BY CallsAreRecords DEF StopDaemon
<1>3. TypeOK'
  BY <1>1, <1>2 DEF StopDaemon, TypeOK, CallRecords, database, gateway
<1>4. \A c \in Callers : Shaped(c)'
  BY <1>2, IdleIsShaped
<1>5. RowsAreOwned' /\ CacheIsStored' /\ UsedIsStored'
  BY <1>1, <1>2 DEF Stored, RowsAreOwned, CacheIsStored, UsedIsStored, Owned
<1> QED BY <1>3, <1>4, <1>5 DEF Stored

LEMMA StoredStep ==
  ASSUME Stored, [Next]_vars
  PROVE  Stored'
BY LookCacheStored, LookTableStored, CreateStored, SetStored, FailsStored, PutStored,
   ReceiveStored, DeliverStored, PairStored, EstablishStored, FindThreadStored,
   EnsureStartsStored, EnsuredStored, DaemonStored, StopDaemonStored DEF Next, Ensure

\* The sessions in use, in the cache and in hand are those of the table, or on
\* their way there, and each is its peer's own.
THEOREM StoredHolds == Spec => []Stored
BY InitStored, StoredStep, PTL DEF Spec

\* Every reachable state is well typed.
THEOREM TypeCorrect == Spec => []TypeOK
<1>1. Stored => TypeOK
  BY DEF Stored
<1> QED BY <1>1, StoredHolds, PTL

(***************************************************************************)
(* Nobody creates a second session for a peer whose session is in use.     *)
(***************************************************************************)

\* What is used stays used, and a session stays its peer's.
LEMMA UsedStays ==
  ASSUME Stored, [Next]_vars, NEW s \in used, owner[s] # None
  PROVE  s \in used' /\ owner'[s] = owner[s]
<1>1. ASSUME NEW c \in Callers, Create(c)  PROVE s \in used' /\ owner'[s] = owner[s]
  BY <1>1 DEF Create, Stored, TypeOK
<1>2. ASSUME NEW c \in Callers,
             LookCache(c) \/ LookTable(c) \/ Set(c) \/ Fails(c) \/ Put(c)
      PROVE  s \in used' /\ owner'[s] = owner[s]
  BY <1>2 DEF LookCache, LookTable, Set, Fails, Put, gateway
<1>3. ASSUME NEW c \in Messages, Deliver(c) \/ \E t \in Threads : Receive(c, t)
      PROVE  s \in used' /\ owner'[s] = owner[s]
  BY <1>3 DEF Deliver, Receive, gateway
<1>4. ASSUME NEW p \in Peers, PairByCommand(p) \/ PairByHub(p) \/ EnsurePeer(p)
      PROVE  s \in used' /\ owner'[s] = owner[s]
  BY <1>4 DEF PairByCommand, PairByHub, EnsurePeer, gateway
<1>5. ASSUME Ensured  PROVE s \in used' /\ owner'[s] = owner[s]
  BY <1>5 DEF Ensured
<1> QED BY <1>1, <1>2, <1>3, <1>4, <1>5
        DEF Next, Ensure, EnsureThread, Subscribe, Establish, FindThread, StartDaemon,
            SetSurfaces, ListThreads, Started, StopDaemon, gateway, vars

\* Whoever comes to create a session has found the table without a row.
LEMMA ComesToCreate ==
  ASSUME Stored, [Next]_vars, NEW c \in Callers, call'[c].pc \in {"create", "set"}
  PROVE  \/ call'[c] = call[c]
         \/ /\ call'[c].peer = call[c].peer
            /\ call[c].pc = "table" => table[call[c].peer] = None
            /\ call[c].pc \in {"table", "create"} /\ call[c].peer \in Peers
<1> DEFINE Came == \/ call'[c] = call[c]
                   \/ /\ call'[c].peer = call[c].peer
                      /\ call[c].pc = "table" => table[call[c].peer] = None
                      /\ call[c].pc \in {"table", "create"} /\ call[c].peer \in Peers
<1>1. TypeOK /\ Shaped(c)
  BY DEF Stored
<1>2. ASSUME NEW d \in Callers, NEW at \in Steps, NEW s \in Sids \cup {None},
             GoesWith(d, at, s), at \notin {"create", "set"}
      PROVE  Came
  <2>1. Becomes(d, Onward(d, at, s))
    BY <1>1, <1>2, GoesMoves
  <2>2. d # c
    BY <1>2, <2>1 DEF Becomes, Onward
  <2> QED BY <2>1, <2>2 DEF Becomes
<1>3. ASSUME NEW d \in Callers, call' = [call EXCEPT ![d] = NoCall]
      PROVE  Came
  BY <1>1, <1>3, IdleTypes DEF Becomes, NoCall
<1>4. ASSUME NEW d \in Callers, NEW p \in Peers, NEW t \in Threads \cup {None},
             call' = [call EXCEPT ![d] = Calls(p, t)]
      PROVE  Came
  BY <1>1, <1>4, CallTypes DEF Becomes, Calls
<1>5. \A d \in Callers : call[d].sid \in Sids \cup {None}
  BY <1>1, CallIsRecord DEF CallRecords
<1>6. ASSUME NEW d \in Callers, LookCache(d)  PROVE Came
  <2>1. PICK at \in {"use", "table"}, s \in Sids \cup {None} : GoesWith(d, at, s)
    <3>1. cache[call[d].peer] \in Sids \cup {None}
      BY <1>1, <1>6 DEF LookCache, Stored, Shaped, TypeOK
    <3> QED BY <1>5, <1>6, <3>1 DEF LookCache, Goes
  <2> QED BY <1>2, <2>1 DEF Steps
<1>7. ASSUME NEW d \in Callers, LookTable(d)  PROVE Came
  <2>1. call[d].pc = "table" /\ call[d].peer \in Peers
    BY <1>7 DEF LookTable, Stored, Shaped
  <2>2. table[call[d].peer] \in Sids \cup {None}
    BY <1>1, <2>1 DEF TypeOK
  <2>3. CASE table[call[d].peer] # None
    <3>1. GoesWith(d, "put", table[call[d].peer]) /\ "put" \in Steps
      BY <1>7, <2>3 DEF LookTable, Steps
    <3> QED BY <1>2, <2>2, <3>1
  <2>4. CASE table[call[d].peer] = None
    <3>1. GoesWith(d, "create", call[d].sid) /\ "create" \in Steps
      BY <1>7, <2>4 DEF LookTable, Goes, Steps
    <3>2. Becomes(d, Onward(d, "create", call[d].sid))
      BY <1>1, <1>5, <3>1, GoesMoves
    <3> QED BY <2>1, <2>4, <3>2 DEF Becomes, Onward
  <2> QED BY <2>3, <2>4
<1>8. ASSUME NEW d \in Callers, Create(d)  PROVE Came
  <2>1. PICK s \in Sids : GoesWith(d, "set", s)
    BY <1>8 DEF Create
  <2>2. Becomes(d, Onward(d, "set", s)) /\ call[d].pc = "create" /\ call[d].peer \in Peers
    BY <1>1, <1>8, <2>1, GoesMoves DEF Steps, Create, Stored, Shaped
  <2> QED BY <2>2 DEF Becomes, Onward
<1>9. ASSUME NEW d \in Callers, Set(d) \/ Put(d)  PROVE Came
  BY <1>2, <1>5, <1>9 DEF Set, Put, Goes, Steps
<1>10. ASSUME NEW d \in Callers, Fails(d)  PROVE Came
  BY <1>3, <1>10 DEF Fails, OnError, Gives
<1>11. ASSUME NEW d \in Messages, Deliver(d) \/ \E t \in Threads : Receive(d, t)  PROVE Came
  BY <1>3, <1>4, <1>11, HubAndStart, PeersOfThreads DEF Deliver, Receive
<1>12. ASSUME NEW p \in Peers, PairByHub(p) \/ EnsurePeer(p)  PROVE Came
  BY <1>4, <1>12, HubAndStart DEF PairByHub, EnsurePeer, StartCalls
<1>13. ASSUME NEW t \in Threads, EnsureThread(t)  PROVE Came
  BY <1>4, <1>13, HubAndStart, PeersOfThreads DEF EnsureThread, StartCalls
<1>14. CASE Establish
  BY <1>2, <1>5, <1>14, HubAndStart DEF Establish, Goes, Steps
<1>15. CASE FindThread \/ Ensured
  BY <1>3, <1>15, HubAndStart DEF FindThread, Ensured
<1>16. CASE StopDaemon
  BY <1>16 DEF StopDaemon, NoCall
<1>17. ASSUME UNCHANGED call  PROVE Came
  BY <1>17
<1> QED BY <1>6, <1>7, <1>8, <1>9, <1>10, <1>11, <1>12, <1>13, <1>14, <1>15, <1>16, <1>17
        DEF Next, Ensure, PairByCommand, Subscribe, StartDaemon, SetSurfaces, ListThreads,
            Started, vars, process

\* Once a peer's session is in use and nobody is creating another, nobody will:
\* not the next message, and not the daemon when it is started again
\* (openclaw/doc.go, session.go:36-71).
THEOREM SettledPeersStay == Spec => SettledStays
<1>1. ASSUME Stored, [Next]_vars, NEW p \in Peers, Settled(p)  PROVE Settled(p)'
  <2>1. PICK s \in used : owner[s] = p
    BY <1>1 DEF Settled
  <2>2. table[p] # None /\ p # None
    BY <1>1, <2>1, SessionsAssumption DEF Stored, UsedIsStored
  <2>3. s \in used' /\ owner'[s] = p
    BY <1>1, <2>1, <2>2, UsedStays
  <2>4. ASSUME NEW c \in Callers, call'[c].peer = p, call'[c].pc \in {"create", "set"}
        PROVE  FALSE
    <3>1. ~(call[c].peer = p /\ call[c].pc \in {"create", "set"})
      BY <1>1 DEF Settled, Creating
    <3> QED BY <1>1, <2>2, <2>4, <3>1, ComesToCreate
  <2> QED BY <2>3, <2>4 DEF Settled, Creating
<1>2. Stored /\ [Next]_vars => [\A p \in Peers : Settled(p) => Settled(p)']_vars
  BY <1>1
<1> QED BY <1>2, StoredHolds, PTL DEF Spec, SettledStays

(***************************************************************************)
(* Of a peer that the daemon has listed, one session is in use at a time.  *)
(***************************************************************************)

\* Nobody but the daemon's start calls before the surfaces are set, and for no
\* thread.
StartIsAlone ==
  ~surfaces =>
    /\ \A c \in Callers : c # Start => call[c].pc = "idle"
    /\ call[Start].thread = None
    /\ starting = {} /\ \A s \in Sids : subs[s] = None

\* A daemon that is off holds nothing.
OffIsEmpty ==
  daemon = "off" => ~surfaces /\ call[Start].pc = "idle"

\* The surfaces are set once the start has gone through the peers.
SurfacesWait ==
  /\ surfaces => daemon \in {"set", "threads", "up", "failed"}
  /\ daemon \in {"set", "threads", "up"} => surfaces

\* The peers that the start has gone through.
Ready == IF daemon = "peers" THEN listed \ todo ELSE IF surfaces THEN listed ELSE {}

ReadyIsCached == \A p \in Ready : cache[p] # None

\* Whoever calls for such a peer finds its session in the cache.
UsesCache(c) ==
  call[c].peer \in Ready /\ call[c].pc # "idle" =>
    /\ call[c].pc \in {"cache", "use", "find"}
    /\ call[c].pc \in {"use", "find"} => call[c].sid = cache[call[c].peer]

\* The session that the start has made ready is in the cache.
StartFillsCache ==
  daemon = "peers" /\ call[Start].pc = "use" => cache[call[Start].peer] # None

\* Whoever subscribes does so to the session in the cache.
StartingIsCached ==
  \A s \in Sids, t \in Threads :
    <<s, t>> \in starting /\ PeerOf[t] \in listed => cache[PeerOf[t]] = s

Alone == StartIsAlone /\ OffIsEmpty /\ SurfacesWait

InUse ==
  /\ Alone /\ ReadyIsCached /\ StartFillsCache
  /\ \A c \in Callers : UsesCache(c)
  /\ StartingIsCached /\ AnswersComeBack

LEMMA InitInUse == Init => InUse
<1> SUFFICES ASSUME Init  PROVE InUse
  OBVIOUS
<1>1. Alone /\ ReadyIsCached /\ StartFillsCache
  BY HubAndStart DEF Init, Alone, StartIsAlone, OffIsEmpty, SurfacesWait, ReadyIsCached, Ready,
     StartFillsCache, NoCall
<1>2. \A c \in Callers : UsesCache(c)
  BY DEF Init, UsesCache, NoCall
<1>3. StartingIsCached /\ AnswersComeBack
  BY DEF Init, StartingIsCached, AnswersComeBack
<1> QED BY <1>1, <1>2, <1>3 DEF InUse

\* Once the surfaces are set, all that is listed is ready.
LEMMA ListedIsReady ==
  ASSUME Alone, surfaces
  PROVE  Ready = listed
BY DEF Alone, SurfacesWait, Ready

\* A step of EnsureSessionFor moves one call, which goes on for its peer or is
\* given up, and with it perhaps the daemon's start.
LEMMA EnsureMoves ==
  ASSUME Stored, NEW c \in Callers, Ensure(c)
  PROVE  /\ call[c].pc # "idle"
         /\ \A d \in Callers : d # c => call'[d] = call[d]
         /\ \/ /\ call'[c] = NoCall /\ cache' = cache
               /\ (c # Start /\ daemon' = daemon) \/ (c = Start /\ daemon' = "failed")
            \/ /\ daemon' = daemon
               /\ call'[c].peer = call[c].peer /\ call'[c].thread = call[c].thread
         /\ UNCHANGED <<listed, todo, surfaces, starting, subs>>
<1>1. TypeOK /\ \A d \in Callers : call[d].sid \in Sids \cup {None}
  BY CallIsRecord DEF Stored, CallRecords
<1>2. ASSUME NEW at \in Steps, NEW s \in Sids \cup {None}, GoesWith(c, at, s)
      PROVE  /\ \A d \in Callers : d # c => call'[d] = call[d]
             /\ call'[c].peer = call[c].peer /\ call'[c].thread = call[c].thread
  <2>1. Becomes(c, Onward(c, at, s))
    BY <1>1, <1>2, GoesMoves
  <2> QED BY <2>1 DEF Becomes, Onward
<1>3. CASE LookCache(c)
  <2>1. cache[call[c].peer] \in Sids \cup {None}
    BY <1>1, <1>3 DEF LookCache, Stored, Shaped, TypeOK
  <2>2. PICK at \in Steps, s \in Sids \cup {None} : GoesWith(c, at, s)
    BY <1>1, <1>3, <2>1 DEF LookCache, Goes, Steps
  <2> QED BY <1>2, <1>3, <2>2 DEF LookCache
<1>4. CASE LookTable(c)
  <2>1. table[call[c].peer] \in Sids \cup {None}
    BY <1>1, <1>4 DEF LookTable, Stored, Shaped, TypeOK
  <2>2. PICK at \in Steps, s \in Sids \cup {None} : GoesWith(c, at, s)
    BY <1>1, <1>4, <2>1 DEF LookTable, Goes, Steps
  <2> QED BY <1>2, <1>4, <2>2 DEF LookTable
<1>5. CASE Create(c)
  <2>1. PICK s \in Sids : GoesWith(c, "set", s)
    BY <1>5 DEF Create
  <2> QED BY <1>2, <1>5, <2>1 DEF Create, Steps
<1>6. CASE Set(c)
  BY <1>1, <1>2, <1>6 DEF Set, Goes, Steps
<1>7. CASE Put(c)
  BY <1>1, <1>2, <1>7 DEF Put, Goes, Steps
<1>8. CASE Fails(c)
  <2>1. call' = [call EXCEPT ![c] = NoCall]
    BY <1>8 DEF Fails, OnError, Gives
  <2>2. Becomes(c, NoCall)
    BY <1>1, <2>1, IdleTypes
  <2>3. (c # Start /\ daemon' = daemon) \/ (c = Start /\ daemon' = "failed")
    BY <1>8 DEF Fails, OnError, Gives
  <2>4. call[c].pc # "idle" /\ UNCHANGED <<cache, listed, todo, surfaces, starting, subs>>
    BY <1>8 DEF Fails
  <2> QED BY <2>2, <2>3, <2>4 DEF Becomes
<1> QED BY <1>3, <1>4, <1>5, <1>6, <1>7, <1>8 DEF Ensure

LEMMA EnsureAlone ==
  ASSUME Stored, Alone, NEW c \in Callers, Ensure(c)
  PROVE  Alone' /\ Ready' \subseteq Ready
<1>1. UNCHANGED <<listed, todo, surfaces, starting, subs>>
  BY EnsureMoves
<1>2. StartIsAlone'
  <2> SUFFICES ASSUME ~surfaces
               PROVE  /\ \A d \in Callers : d # Start => call'[d].pc = "idle"
                      /\ call'[Start].thread = None
    BY <1>1 DEF Alone, StartIsAlone
  <2>1. c = Start
    BY EnsureMoves DEF Alone, StartIsAlone
  <2> QED BY <2>1, EnsureMoves DEF Alone, StartIsAlone, NoCall
<1>3. daemon' = daemon \/ (daemon' = "failed" /\ c = Start)
  BY EnsureMoves
<1>4. OffIsEmpty'
  <2> SUFFICES ASSUME daemon' = "off"  PROVE ~surfaces /\ call'[Start].pc = "idle"
    BY <1>1 DEF OffIsEmpty
  <2>1. daemon = "off" /\ ~surfaces /\ call[Start].pc = "idle"
    BY <1>3 DEF Alone, OffIsEmpty
  <2>2. c # Start
    BY <2>1, EnsureMoves
  <2> QED BY <2>1, <2>2, HubAndStart, EnsureMoves
<1>5. SurfacesWait' /\ Ready' \subseteq Ready
  BY <1>1, <1>3 DEF Alone, SurfacesWait, Ready
<1> QED BY <1>2, <1>4, <1>5 DEF Alone

\* What EnsureSessionFor does for a peer that is ready: it finds the session in the
\* cache; and it does not change what the cache holds for such a peer.
LEMMA EnsureUsesCache ==
  ASSUME Stored, InUse, NEW c \in Callers, Ensure(c)
  PROVE  UsesCache(c)' /\ \A p \in Ready : cache'[p] = cache[p]
<1>1. TypeOK /\ Shaped(c) /\ UsesCache(c) /\ Ready' \subseteq Ready
  BY EnsureAlone DEF Stored, InUse
<1>2. \A d \in Callers : call[d].sid \in Sids \cup {None}
  BY <1>1, CallIsRecord DEF CallRecords
<1>3. CASE LookCache(c)
  <2>1. cache' = cache /\ call[c].pc = "cache" /\ call[c].peer \in Peers
    BY <1>1, <1>3 DEF LookCache, Shaped
  <2>2. CASE cache[call[c].peer] # None
    <3>1. cache[call[c].peer] \in Sids
      BY <1>1, <2>1, <2>2 DEF TypeOK
    <3>2. Becomes(c, Onward(c, "use", cache[call[c].peer]))
      BY <1>1, <1>3, <2>2, <3>1, GoesMoves DEF LookCache, Steps
    <3> QED BY <2>1, <3>2 DEF Becomes, Onward, UsesCache
  <2>3. CASE cache[call[c].peer] = None
    <3>1. Becomes(c, Onward(c, "table", call[c].sid))
      BY <1>1, <1>2, <1>3, <2>3, GoesMoves DEF LookCache, Goes, Steps
    <3>2. call[c].peer \notin Ready
      BY <2>3 DEF InUse, ReadyIsCached
    <3> QED BY <1>1, <2>1, <3>1, <3>2 DEF Becomes, Onward, UsesCache
  <2> QED BY <2>2, <2>3
<1>4. CASE LookTable(c) \/ Create(c) \/ Set(c) \/ Put(c)
  <2>1. call[c].pc \in {"table", "create", "set", "put"}
    BY <1>4 DEF LookTable, Create, Set, Put
  <2>2. call[c].peer \notin Ready
    BY <1>1, <2>1 DEF UsesCache
  <2>3. call'[c].peer = call[c].peer \/ call'[c] = NoCall
    BY <1>4, EnsureMoves
  <2>4. UsesCache(c)'
    BY <1>1, <2>2, <2>3 DEF UsesCache, NoCall
  <2>5. \A p \in Ready : cache'[p] = cache[p]
    <3>1. Ready \subseteq Peers
      BY <1>1 DEF TypeOK, Ready
    <3> QED BY <1>1, <1>4, <2>2, <3>1 DEF LookTable, Create, Set, Put, TypeOK
  <2> QED BY <2>4, <2>5
<1>5. CASE Fails(c)
  <2>1. Becomes(c, NoCall) /\ cache' = cache
    BY <1>1, <1>5, IdleTypes DEF Fails, OnError, Gives
  <2> QED BY <2>1 DEF Becomes, NoCall, UsesCache
<1> QED BY <1>3, <1>4, <1>5 DEF Ensure

LEMMA EnsureFillsCache ==
  ASSUME Stored, InUse, NEW c \in Callers, Ensure(c), daemon' = "peers",
         call'[Start].pc = "use"
  PROVE  cache'[call'[Start].peer] # None
<1>1. TypeOK /\ Shaped(c) /\ daemon = "peers" /\ ~surfaces
  BY EnsureMoves DEF Stored, InUse, Alone, SurfacesWait
<1>2. c = Start /\ call'[c].peer = call[c].peer
  BY <1>1, EnsureMoves DEF InUse, Alone, StartIsAlone, NoCall
<1>3. \A d \in Callers : call[d].sid \in Sids \cup {None}
  BY <1>1, CallIsRecord DEF CallRecords
<1>4. CASE LookCache(c)
  <2>1. CASE cache[call[c].peer] # None
    BY <1>2, <1>4, <2>1 DEF LookCache
  <2>2. CASE cache[call[c].peer] = None
    <3>1. Becomes(c, Onward(c, "table", call[c].sid))
      BY <1>1, <1>3, <1>4, <2>2, GoesMoves DEF LookCache, Goes, Steps
    <3> QED BY <1>2, <3>1 DEF Becomes, Onward
  <2> QED BY <2>1, <2>2
<1>5. CASE LookTable(c)
  <2>1. call'[c].pc \in {"put", "create"}
    <3>1. table[call[c].peer] \in Sids \cup {None}
      BY <1>1, <1>5 DEF LookTable, Shaped, TypeOK
    <3>2. PICK at \in {"put", "create"}, s \in Sids \cup {None} : GoesWith(c, at, s)
      BY <1>3, <1>5, <3>1 DEF LookTable, Goes
    <3>3. Becomes(c, Onward(c, at, s))
      BY <1>1, <3>2, GoesMoves DEF Steps
    <3> QED BY <3>3 DEF Becomes, Onward
  <2> QED BY <1>2, <2>1
<1>6. CASE Create(c)
  <2>1. PICK s \in Sids : GoesWith(c, "set", s)
    BY <1>6 DEF Create
  <2>2. Becomes(c, Onward(c, "set", s))
    BY <1>1, <2>1, GoesMoves DEF Steps
  <2> QED BY <1>2, <2>2 DEF Becomes, Onward
<1>7. CASE Set(c)
  <2>1. Becomes(c, Onward(c, "put", call[c].sid))
    BY <1>1, <1>3, <1>7, GoesMoves DEF Set, Goes, Steps
  <2> QED BY <1>2, <2>1 DEF Becomes, Onward
<1>8. CASE Put(c)
  <2>1. call[c].sid \in Sids /\ call[c].peer \in Peers
    BY <1>1, <1>8 DEF Put, Shaped, Owned
  <2>2. cache'[call[c].peer] = call[c].sid
    BY <1>1, <1>8, <2>1 DEF Put, TypeOK
  <2> QED BY <1>2, <2>1, <2>2, SessionsAssumption
<1>9. CASE Fails(c)
  BY <1>1, <1>2, <1>9 DEF Fails, OnError, Gives
<1> QED BY <1>4, <1>5, <1>6, <1>7, <1>8, <1>9 DEF Ensure

LEMMA EnsureInUse ==
  ASSUME Stored, InUse, NEW c \in Callers, Ensure(c)
  PROVE  InUse'
<1>1. Alone /\ Alone' /\ Ready' \subseteq Ready
  BY EnsureAlone DEF InUse
<1>2. UsesCache(c)' /\ \A p \in Ready : cache'[p] = cache[p]
  BY EnsureUsesCache
<1>3. UNCHANGED <<listed, starting, subs, surfaces>>
      /\ \A d \in Callers : d # c => call'[d] = call[d]
  BY EnsureMoves
<1>4. ReadyIsCached'
  BY <1>1, <1>2 DEF InUse, ReadyIsCached
<1>5. StartFillsCache'
  BY EnsureFillsCache DEF StartFillsCache
<1>6. \A d \in Callers : UsesCache(d)'
  BY <1>1, <1>2, <1>3 DEF InUse, UsesCache
<1>7. StartingIsCached' /\ AnswersComeBack'
  <2>1. CASE surfaces
    <3>1. Ready = listed
      BY <1>1, <2>1, ListedIsReady
    <3> QED BY <1>2, <1>3, <3>1 DEF InUse, StartingIsCached, AnswersComeBack
  <2>2. CASE ~surfaces
    BY <1>1, <1>3, <2>2 DEF Alone, StartIsAlone, StartingIsCached, AnswersComeBack
  <2> QED BY <2>1, <2>2
<1> QED BY <1>1, <1>4, <1>5, <1>6, <1>7 DEF InUse

\* A step that leaves the cache alone and makes nothing ready: the calls it moves use
\* the cache, and so does whoever it lets subscribe.
LEMMA UseContinues ==
  ASSUME InUse, Alone', Ready' \subseteq Ready, UNCHANGED <<cache, listed>>,
         \A c \in Callers : call'[c] = call[c] \/ UsesCache(c)',
         daemon' = "peers" => \/ daemon = "peers" /\ call'[Start] = call[Start]
                              \/ call'[Start].pc # "use",
         \A s \in Sids, t \in Threads : <<s, t>> \in starting' =>
           \/ <<s, t>> \in starting
           \/ PeerOf[t] \in listed => cache[PeerOf[t]] = s,
         \A s \in Sids : \/ subs'[s] = subs[s]
                         \/ subs'[s] \in Threads /\ <<s, subs'[s]>> \in starting
  PROVE  InUse'
<1>1. ReadyIsCached' /\ StartFillsCache'
  BY DEF InUse, ReadyIsCached, StartFillsCache
<1>2. \A c \in Callers : UsesCache(c)'
  BY DEF InUse, UsesCache
<1>3. StartingIsCached'
  BY DEF InUse, StartingIsCached
<1>4. AnswersComeBack'
  BY DEF InUse, StartingIsCached, AnswersComeBack
<1> QED BY <1>1, <1>2, <1>3, <1>4 DEF InUse

LEMMA NotStart == Hub # Start /\ Start \notin Messages
BY SessionsAssumption

LEMMA IdleUsesCache ==
  ASSUME NEW c \in Callers, call'[c].pc \in {"idle", "cache"}
  PROVE  UsesCache(c)'
BY DEF UsesCache

LEMMA ReceiveInUse ==
  ASSUME Stored, InUse, NEW c \in Messages, NEW t \in Threads, Receive(c, t)
  PROVE  InUse'
<1>1. TypeOK /\ c \in Callers /\ surfaces /\ daemon # "peers"
  BY HubAndStart DEF Stored, InUse, Alone, SurfacesWait, Receive
<1>2. Becomes(c, Calls(PeerOf[t], t))
  BY <1>1, PeersOfThreads, CallTypes DEF Receive
<1>3. call'[c].pc = "cache" /\ call'[Start] = call[Start]
  BY <1>2, NotStart, HubAndStart DEF Becomes, Calls
<1>4. Alone' /\ Ready' = Ready
  BY <1>1, <1>3 DEF InUse, Alone, StartIsAlone, OffIsEmpty, SurfacesWait, Ready, Receive
<1> QED BY <1>1, <1>2, <1>3, <1>4, IdleUsesCache, UseContinues DEF Becomes, Receive

LEMMA DeliverInUse ==
  ASSUME Stored, InUse, NEW c \in Messages, Deliver(c)
  PROVE  InUse'
<1>1. TypeOK /\ c \in Callers
  BY HubAndStart DEF Stored
<1>2. Becomes(c, NoCall)
  BY <1>1, IdleTypes DEF Deliver
<1>3. call'[c].pc = "idle" /\ call'[Start] = call[Start]
  BY <1>2, NotStart, HubAndStart DEF Becomes, NoCall
<1>4. Alone' /\ Ready' = Ready
  BY <1>2, <1>3 DEF Becomes, InUse, Alone, StartIsAlone, OffIsEmpty, SurfacesWait, Ready, Deliver
<1> QED BY <1>1, <1>2, <1>3, <1>4, IdleUsesCache, UseContinues DEF Becomes, Deliver

LEMMA PairInUse ==
  ASSUME Stored, InUse, NEW p \in Peers, PairByCommand(p) \/ PairByHub(p)
  PROVE  InUse'
<1>1. CASE PairByCommand(p)
  <2>1. UNCHANGED <<call, cache, daemon, listed, todo, surfaces, starting, subs>>
    BY <1>1 DEF PairByCommand, process
  <2>2. Alone' /\ Ready' = Ready
    BY <2>1 DEF InUse, Alone, StartIsAlone, OffIsEmpty, SurfacesWait, Ready
  <2> QED BY <2>1, <2>2, UseContinues
<1>2. CASE PairByHub(p)
  <2>1. TypeOK /\ surfaces /\ daemon = "up"
    BY <1>2 DEF Stored, InUse, Alone, SurfacesWait, PairByHub
  <2>2. Becomes(Hub, Calls(p, None))
    BY <1>2, <2>1, HubAndStart, CallTypes DEF PairByHub
  <2>3. call'[Hub].pc = "cache" /\ call'[Start] = call[Start]
    BY <2>2, NotStart, HubAndStart DEF Becomes, Calls
  <2>4. Alone' /\ Ready' = Ready
    BY <1>2, <2>1, <2>3 DEF InUse, Alone, StartIsAlone, OffIsEmpty, SurfacesWait, Ready, PairByHub
  <2> QED BY <1>2, <2>1, <2>2, <2>3, <2>4, HubAndStart, IdleUsesCache, UseContinues
          DEF Becomes, PairByHub
<1> QED BY <1>1, <1>2

LEMMA HubRuns ==
  ASSUME Alone, call[Hub].pc # "idle"
  PROVE  surfaces /\ Ready = listed /\ daemon # "peers"
BY NotStart, HubAndStart, ListedIsReady DEF Alone, StartIsAlone, SurfacesWait

LEMMA EstablishInUse ==
  ASSUME Stored, InUse, Establish
  PROVE  InUse'
<1>1. TypeOK /\ Alone /\ surfaces /\ Ready = listed /\ daemon # "peers"
      /\ call[Hub].sid \in Sids \cup {None} /\ UsesCache(Hub) /\ call[Hub].pc = "use"
  BY HubRuns, HubAndStart, CallIsRecord DEF Stored, InUse, Establish, CallRecords
<1>2. Becomes(Hub, Onward(Hub, "find", call[Hub].sid))
  BY <1>1, HubAndStart, GoesMoves DEF Establish, Goes, Steps
<1>3. call'[Start] = call[Start]
  BY <1>2, NotStart, HubAndStart DEF Becomes
<1>4. Alone' /\ Ready' = Ready
  BY <1>1, <1>3 DEF Alone, StartIsAlone, OffIsEmpty, SurfacesWait, Ready, Establish
<1>5. UsesCache(Hub)'
  BY <1>1, <1>2, <1>4 DEF Becomes, Onward, UsesCache, Establish
<1> QED BY <1>1, <1>2, <1>3, <1>4, <1>5, UseContinues DEF Becomes, Establish

LEMMA FindThreadInUse ==
  ASSUME Stored, InUse, FindThread
  PROVE  InUse'
<1>1. TypeOK /\ Alone /\ surfaces /\ Ready = listed /\ daemon # "peers" /\ UsesCache(Hub)
  BY HubRuns, HubAndStart DEF Stored, InUse, FindThread
<1>2. Becomes(Hub, NoCall)
  BY <1>1, HubAndStart, IdleTypes DEF FindThread
<1>3. call'[Hub].pc = "idle" /\ call'[Start] = call[Start]
  BY <1>2, NotStart, HubAndStart DEF Becomes, NoCall
<1>4. Alone' /\ Ready' = Ready
  BY <1>1, <1>3 DEF Alone, StartIsAlone, OffIsEmpty, SurfacesWait, Ready, FindThread
<1>5. ASSUME NEW s \in Sids, NEW t \in Threads, <<s, t>> \in starting', <<s, t>> \notin starting,
             PeerOf[t] \in listed
      PROVE  cache[PeerOf[t]] = s
  <2>1. s = call[Hub].sid /\ PeerOf[t] = call[Hub].peer /\ call[Hub].pc = "find"
    BY <1>5 DEF FindThread
  <2> QED BY <1>1, <1>5, <2>1 DEF UsesCache
<1> QED BY <1>1, <1>2, <1>3, <1>4, <1>5, HubAndStart, IdleUsesCache, UseContinues
        DEF Becomes, FindThread

LEMMA EnsureStartsInUse ==
  ASSUME Stored, InUse, \/ \E p \in Peers : EnsurePeer(p)
                        \/ \E t \in Threads : EnsureThread(t)
  PROVE  InUse'
<1>1. PICK p \in Peers, t \in Threads \cup {None} :
        /\ call' = [call EXCEPT ![Start] = Calls(p, t)]
        /\ daemon \in {"peers", "threads"} /\ (daemon = "peers" => t = None)
        /\ UNCHANGED <<cache, daemon, listed, todo, surfaces, starting, subs>>
  BY PeersOfThreads DEF EnsurePeer, EnsureThread, StartCalls
<1>2. Becomes(Start, Calls(p, t))
  BY <1>1, HubAndStart, CallTypes DEF Stored
<1>3. call'[Start].pc = "cache" /\ call'[Start].thread = t
  BY <1>2 DEF Becomes, Calls
<1>4. Alone' /\ Ready' = Ready
  BY <1>1, <1>2, <1>3 DEF Becomes, InUse, Alone, StartIsAlone, OffIsEmpty, SurfacesWait, Ready
<1> QED BY <1>1, <1>2, <1>3, <1>4, HubAndStart, IdleUsesCache, UseContinues DEF Becomes

\* The start is done with a peer, which is ready now, or with a thread.
LEMMA EnsuredInUse ==
  ASSUME Stored, InUse, Ensured
  PROVE  InUse'
<1> DEFINE t == call[Start].thread
           s == call[Start].sid
           p == call[Start].peer
<1>1. TypeOK /\ Alone /\ Shaped(Start) /\ call[Start].pc = "use" /\ UsesCache(Start)
      /\ Start \in Callers
  BY HubAndStart DEF Stored, InUse, Ensured
<1>2. Becomes(Start, NoCall)
  BY <1>1, IdleTypes DEF Ensured
<1>3. call'[Start].pc = "idle" /\ call'[Start].thread = None
  BY <1>2 DEF Becomes, NoCall
<1>4. UNCHANGED <<cache, daemon, listed, surfaces, subs>>
  BY DEF Ensured
<1>5. CASE t = None
  <2>1. todo' = todo \ {p} /\ starting' = starting
    BY <1>5 DEF Ensured
  <2>2. Alone'
    BY <1>1, <1>2, <1>3, <1>4, <2>1 DEF Becomes, Alone, StartIsAlone, OffIsEmpty, SurfacesWait
  <2>3. Ready' \subseteq Ready \cup {p} /\ (daemon # "peers" => Ready' = Ready)
    BY <1>4, <2>1 DEF Ready
  <2>4. ReadyIsCached'
    BY <1>1, <1>4, <2>3 DEF InUse, ReadyIsCached, StartFillsCache
  <2>5. ASSUME NEW c \in Callers  PROVE UsesCache(c)'
    <3>1. CASE c = Start
      BY <1>3, <3>1, IdleUsesCache
    <3>2. CASE c # Start /\ daemon = "peers"
      BY <1>1, <1>2, <3>2, IdleUsesCache DEF Becomes, Alone, SurfacesWait, StartIsAlone
    <3>3. CASE c # Start /\ daemon # "peers"
      BY <1>2, <1>4, <2>3, <3>3 DEF Becomes, InUse, UsesCache
    <3> QED BY <3>1, <3>2, <3>3
  <2>6. StartFillsCache' /\ StartingIsCached' /\ AnswersComeBack'
    BY <1>3, <1>4, <2>1 DEF InUse, StartFillsCache, StartingIsCached, AnswersComeBack
  <2> QED BY <2>2, <2>4, <2>5, <2>6 DEF InUse
<1>6. CASE t # None
  <2>1. starting' = starting \cup {<<s, t>>}
    BY <1>6 DEF Ensured
  <2>2. surfaces /\ Ready = listed /\ daemon # "peers"
    BY <1>1, <1>6, ListedIsReady DEF Alone, StartIsAlone, SurfacesWait
  <2>3. Alone' /\ Ready' = Ready
    BY <1>1, <1>3, <1>4, <2>2 DEF Alone, StartIsAlone, OffIsEmpty, SurfacesWait, Ready
  <2>4. PeerOf[t] = p
    BY <1>1, <1>6 DEF Shaped
  <2>5. PeerOf[t] \in listed => cache[PeerOf[t]] = s
    BY <1>1, <2>2, <2>4 DEF UsesCache
  <2>6. \A r \in Sids, u \in Threads : <<r, u>> \in starting' =>
          <<r, u>> \in starting \/ (PeerOf[u] \in listed => cache[PeerOf[u]] = r)
    BY <2>1, <2>5
  <2> QED BY <1>1, <1>2, <1>3, <1>4, <2>2, <2>3, <2>6, IdleUsesCache, UseContinues DEF Becomes
<1> QED BY <1>5, <1>6

LEMMA SubscribeInUse ==
  ASSUME Stored, InUse, NEW s \in Sids, NEW t \in Threads, Subscribe(s, t)
  PROVE  InUse'
<1>1. TypeOK /\ Alone /\ <<s, t>> \in starting
  BY DEF Stored, InUse, Subscribe
<1>2. UNCHANGED <<call, cache, daemon, listed, todo, surfaces>> /\ starting' \subseteq starting
  BY DEF Subscribe
<1>3. surfaces
  BY <1>1 DEF Alone, StartIsAlone
<1>4. Alone' /\ Ready' = Ready
  BY <1>1, <1>2, <1>3 DEF Alone, StartIsAlone, OffIsEmpty, SurfacesWait, Ready
<1>5. \A r \in Sids : subs'[r] = subs[r] \/ (r = s /\ subs'[r] = t)
  BY <1>1 DEF Subscribe, TypeOK
<1> QED BY <1>1, <1>2, <1>4, <1>5, UseContinues

LEMMA DaemonInUse ==
  ASSUME Stored, InUse, SetSurfaces \/ ListThreads \/ Started \/ UNCHANGED vars
  PROVE  InUse'
<1>1. Alone
  BY DEF InUse
<1>2. UNCHANGED <<call, cache, listed, starting, subs>>
  BY DEF SetSurfaces, ListThreads, Started, vars, process
<1>3. CASE SetSurfaces
  <2>1. daemon = "peers" /\ daemon' = "set" /\ todo = {} /\ surfaces' /\ call[Start].pc = "idle"
    BY <1>3 DEF SetSurfaces, MayBeSet
  <2>2. Alone' /\ Ready' = Ready
    BY <1>1, <1>2, <2>1 DEF Alone, StartIsAlone, OffIsEmpty, SurfacesWait, Ready
  <2> QED BY <1>2, <2>1, <2>2, UseContinues
<1>4. CASE ListThreads \/ Started
  <2>1. daemon # "peers" /\ daemon' \in {"threads", "up"} /\ surfaces /\ surfaces'
    BY <1>1, <1>4 DEF Alone, SurfacesWait, ListThreads, Started
  <2>2. Alone' /\ Ready' = Ready
    BY <1>1, <1>2, <2>1 DEF Alone, StartIsAlone, OffIsEmpty, SurfacesWait, Ready
  <2> QED BY <1>2, <2>1, <2>2, UseContinues
<1>5. CASE UNCHANGED vars
  <2>1. UNCHANGED <<daemon, todo, surfaces>>
    BY <1>5 DEF vars, process
  <2>2. Alone' /\ Ready' = Ready
    BY <1>1, <1>2, <2>1 DEF Alone, StartIsAlone, OffIsEmpty, SurfacesWait, Ready
  <2> QED BY <1>2, <2>1, <2>2, UseContinues
<1> QED BY <1>3, <1>4, <1>5

\* The daemon starts, with nothing ready and nobody subscribed, or ends.
LEMMA EndsInUse ==
  ASSUME Stored, InUse, StartDaemon \/ StopDaemon
  PROVE  InUse'
<1>1. Alone
  BY DEF InUse
<1>2. CASE StartDaemon
  <2>1. /\ ~surfaces /\ ~surfaces' /\ daemon' = "peers" /\ Ready' = {} /\ call[Start].pc = "idle"
        /\ UNCHANGED <<call, starting, subs>>
    BY <1>1, <1>2 DEF Alone, OffIsEmpty, StartDaemon, Ready
  <2>2. Alone'
    BY <1>1, <2>1 DEF Alone, StartIsAlone, OffIsEmpty, SurfacesWait
  <2>3. \A c \in Callers : UsesCache(c)'
    BY <2>1 DEF UsesCache
  <2>4. StartingIsCached' /\ AnswersComeBack'
    BY <1>1, <2>1 DEF Alone, StartIsAlone, StartingIsCached, AnswersComeBack
  <2> QED BY <2>1, <2>2, <2>3, <2>4 DEF InUse, ReadyIsCached, StartFillsCache
<1>3. CASE StopDaemon
  <2>1. /\ daemon' = "off" /\ surfaces' = FALSE /\ starting' = {} /\ listed' = {}
        /\ \A c \in Callers : call'[c] = NoCall
        /\ \A s \in Sids : subs'[s] = None
    BY <1>3 DEF StopDaemon
  <2>2. Alone' /\ Ready' = {}
    BY <2>1, HubAndStart DEF Alone, StartIsAlone, OffIsEmpty, SurfacesWait, Ready, NoCall
  <2>3. \A c \in Callers : UsesCache(c)'
    BY <2>2 DEF UsesCache
  <2> QED BY <2>1, <2>2, <2>3
          DEF InUse, ReadyIsCached, StartFillsCache, StartingIsCached, AnswersComeBack
<1> QED BY <1>2, <1>3

\* While the daemon starts, one caller at a time looks sessions up, and what it
\* subscribes to is what the cache will give to every message.
THEOREM InUseHolds == Spec => [](Stored /\ InUse)
<1>1. Stored /\ InUse /\ [Next]_vars => InUse'
  BY EnsureInUse, ReceiveInUse, DeliverInUse, PairInUse, EstablishInUse, FindThreadInUse,
     EnsureStartsInUse, EnsuredInUse, SubscribeInUse, DaemonInUse, EndsInUse DEF Next
<1> QED BY <1>1, InitInUse, StoredHolds, PTL DEF Spec

\* The turns that come back are those of the session that gets the peer's messages:
\* for every peer the daemon listed when it started, whatever comes in while it does,
\* and whoever creates sessions meanwhile (cmd_daemon.go, enableOpenClawMode).
THEOREM AnswersAreOfTheSessionInUse == Spec => []AnswersComeBack
<1>1. InUse => AnswersComeBack
  BY DEF InUse
<1> QED BY <1>1, InUseHolds, PTL

\* The daemon is the sessions, with the toasts beside them.
THEOREM RunsSessions == DaemonSpec => Spec
<1>1. DaemonInit => Init
  BY DEF DaemonInit
<1>2. [DaemonNext]_<<vars, toastVars, gatewayURL>> => [Next]_vars
  BY DEF DaemonNext
<1> QED BY <1>1, <1>2, PTL DEF Spec, DaemonSpec

\* So what holds of them holds in the daemon.
THEOREM DaemonKeepsSessions == DaemonSpec => []AnswersComeBack /\ SettledStays
BY RunsSessions, AnswersAreOfTheSessionInUse, SettledPeersStay, PTL

(***************************************************************************)
(* The toasts.                                                             *)
(***************************************************************************)

\* An envelope that has not come is not in the table.
NewIsUnstored == \A e \in Envelopes : pc[e] = "new" <=> stored[e] = Never

\* The debounce of a peer was claimed for an envelope that is being told of, or was
\* told of no earlier.
ClaimIsForAToast ==
  \A p \in Peers : last[p] # Never =>
    \E f \in Envelopes \cap Toasts!With(p) :
      \/ pc[f] = "fire" /\ last[p] <= now
      \/ \E t \in 0..MaxTime : <<f, t>> \in toasts /\ last[p] <= t

Claimed == Toasts!TypeOK /\ NewIsUnstored /\ ClaimIsForAToast

ToastTypes == {"new", "outbound", "collab", "claim", "fire", "done", "lost"}

LEMMA InitClaimed == Toasts!Init => Claimed
<1> SUFFICES ASSUME Toasts!Init  PROVE Claimed
  OBVIOUS
<1> USE DaemonAssumption DEF Toasts!Init, Toasts!ConstantsFit
<1>1. Toasts!TypeOK
  BY DEF Toasts!TypeOK
<1>2. NewIsUnstored /\ ClaimIsForAToast
  BY DEF NewIsUnstored, ClaimIsForAToast
<1> QED BY <1>1, <1>2 DEF Claimed

\* The order of dispatch's questions.
LEMMA NextStep ==
  /\ Toasts!Order[1 + CHOOSE i \in 1..3 : Toasts!Order[i] = "outbound"] = "collab"
  /\ Toasts!Order[1 + CHOOSE i \in 1..3 : Toasts!Order[i] = "collab"] = "claim"
  /\ Toasts!Order[1 + CHOOSE i \in 1..3 : Toasts!Order[i] = "claim"] = "fire"
  /\ Toasts!Order[1] = "outbound" /\ Toasts!Order[4] = "fire"
<1>1. /\ Toasts!Order[1] = "outbound" /\ Toasts!Order[2] = "collab"
      /\ Toasts!Order[3] = "claim" /\ Toasts!Order[4] = "fire"
  BY DEF Toasts!Order
<1>2. 1..3 = {1, 2, 3}
  OBVIOUS
<1>3. (CHOOSE i \in 1..3 : Toasts!Order[i] = "outbound") = 1
  BY <1>1, <1>2
<1>4. (CHOOSE i \in 1..3 : Toasts!Order[i] = "collab") = 2
  BY <1>1, <1>2
<1>5. (CHOOSE i \in 1..3 : Toasts!Order[i] = "claim") = 3
  BY <1>1, <1>2
<1> QED BY <1>1, <1>3, <1>4, <1>5

\* The envelope that is dispatched goes to its next step, or is done.
Moves(e, step) == pc' = [pc EXCEPT ![e] = step]

LEMMA DispatchMoves ==
  ASSUME NEW e, NEW on \in BOOLEAN
  PROVE  /\ Toasts!Goes(e, "outbound", on) => Moves(e, IF on THEN "collab" ELSE "done")
         /\ Toasts!Goes(e, "collab", on) => Moves(e, IF on THEN "claim" ELSE "done")
         /\ Toasts!Goes(e, "claim", on) => Moves(e, IF on THEN "fire" ELSE "done")
         /\ Toasts!Goes(e, "fire", FALSE) => Moves(e, "done")
<1>1. Toasts!Goes(e, "outbound", on) => Moves(e, IF on THEN "collab" ELSE "done")
  BY NextStep DEF Toasts!Goes, Moves
<1>2. Toasts!Goes(e, "collab", on) => Moves(e, IF on THEN "claim" ELSE "done")
  BY NextStep DEF Toasts!Goes, Moves
<1>3. Toasts!Goes(e, "claim", on) => Moves(e, IF on THEN "fire" ELSE "done")
  BY NextStep DEF Toasts!Goes, Moves
<1>4. Toasts!Goes(e, "fire", FALSE) => Moves(e, "done")
  BY NextStep DEF Toasts!Goes, Moves
<1> QED BY <1>1, <1>2, <1>3, <1>4

\* What the claim of a peer's debounce is for.
ClaimOf(p) ==
  last[p] # Never =>
    \E f \in Envelopes \cap Toasts!With(p) :
      \/ pc[f] = "fire" /\ last[p] <= now
      \/ \E t \in 0..MaxTime : <<f, t>> \in toasts /\ last[p] <= t

\* Rows stay as they are, and toasts are told.
Keeps ==
  /\ \A f \in Envelopes \cup Own : stored[f] # Never => stored'[f] = stored[f]
  /\ now \in 0..MaxTime /\ now' \in 0..MaxTime /\ now <= now'
  /\ toasts \subseteq toasts'
  /\ \A f \in Envelopes : pc[f] = "fire" => pc'[f] = "fire" \/ <<f, now>> \in toasts'

LEMMA ClaimStays ==
  ASSUME NEW p \in Peers, ClaimOf(p), Keeps, last[p] \in Nat \cup {Never}, last'[p] = last[p]
  PROVE  ClaimOf(p)'
<1> SUFFICES ASSUME last[p] # Never
             PROVE  \E f \in Envelopes \cap Toasts!With(p)' :
                      \/ pc'[f] = "fire" /\ last[p] <= now'
                      \/ \E t \in 0..MaxTime : <<f, t>> \in toasts' /\ last[p] <= t
  BY DEF ClaimOf
<1>1. PICK f \in Envelopes \cap Toasts!With(p) :
        \/ pc[f] = "fire" /\ last[p] <= now
        \/ \E t \in 0..MaxTime : <<f, t>> \in toasts /\ last[p] <= t
  BY DEF ClaimOf
<1>2. f \in Envelopes \cap Toasts!With(p)'
  BY <1>1 DEF Keeps, Toasts!With, Toasts!Stored
<1>3. now \in Nat /\ now' \in Nat /\ now <= now' /\ last[p] \in Nat
  BY DEF Keeps
<1>4. CASE pc[f] = "fire" /\ last[p] <= now
  <2>1. CASE pc'[f] = "fire"
    BY <1>2, <1>3, <1>4, <2>1
  <2>2. CASE <<f, now>> \in toasts'
    BY <1>2, <1>4, <2>2 DEF Keeps
  <2> QED BY <1>1, <1>4, <2>1, <2>2 DEF Keeps
<1>5. CASE \E t \in 0..MaxTime : <<f, t>> \in toasts /\ last[p] <= t
  BY <1>2, <1>5 DEF Keeps
<1> QED BY <1>1, <1>4, <1>5

\* While the debounce of a peer lasts, there is a toast of it.
LEMMA ClaimIsCovered ==
  ASSUME Claimed, NEW p \in Peers, ~Toasts!MayClaim(p)
  PROVE  Toasts!Covered(p)
<1>1. /\ last[p] \in Nat /\ last[p] # Never /\ Debounce \in Nat /\ now \in Nat
      /\ now < last[p] + Debounce
  BY DaemonAssumption DEF Claimed, Toasts!TypeOK, Toasts!MayClaim, Toasts!ConstantsFit
<1>2. PICK f \in Envelopes \cap Toasts!With(p) :
        \/ pc[f] = "fire"
        \/ \E t \in 0..MaxTime : <<f, t>> \in toasts /\ last[p] <= t
  BY <1>1 DEF Claimed, ClaimIsForAToast
<1>3. ASSUME NEW t \in 0..MaxTime, <<f, t>> \in toasts, last[p] <= t
      PROVE  t + Debounce > now
  BY <1>1, <1>3
<1> QED BY <1>2, <1>3 DEF Toasts!Covered

LEMMA SenderIsPeer ==
  ASSUME Claimed, NEW e \in Envelopes, pc[e] # "new"
  PROVE  /\ stored[e] # Never /\ Toasts!Sender(e) \in Peers
         /\ e \in Toasts!With(Toasts!Sender(e))
<1>1. stored[e] # Never /\ stored[e] \in Toasts!Row
  BY DEF Claimed, NewIsUnstored, Toasts!TypeOK
<1>2. stored[e].thread \in Threads
  BY <1>1 DEF Toasts!Row
<1>3. PeerOf[stored[e].thread] \in Peers
  BY <1>2, SessionsAssumption
<1> QED BY <1>1, <1>3 DEF Toasts!Sender, Toasts!With, Toasts!Stored

\* A question of dispatch, or the toast.
LEMMA DispatchClaimed ==
  ASSUME Claimed, NEW e \in Envelopes, Toasts!Dispatch(e)
  PROVE  /\ Claimed'
         /\ pc'[e] = "done" =>
              \/ Toasts!Told(e) \/ Toasts!RecentOutbound(Toasts!Sender(e))
              \/ Toasts!ActiveCollab(e) \/ Toasts!Covered(Toasts!Sender(e))
         /\ \A f \in Envelopes : f # e => pc'[f] = pc[f]
<1> USE DEF Claimed
<1>1. Toasts!TypeOK /\ pc[e] \in {"outbound", "collab", "claim", "fire"}
      /\ now' = now /\ now \in 0..MaxTime /\ stored' = stored
  BY DEF Toasts!Dispatch, Toasts!LookOutbound, Toasts!LookCollab, Toasts!Claim, Toasts!Fire,
         Toasts!TypeOK
<1>2. PICK p \in Peers : p = Toasts!Sender(e) /\ stored[e] # Never /\ e \in Toasts!With(p)
  BY <1>1, SenderIsPeer
<1> DEFINE Reason == \/ Toasts!Told(e) \/ Toasts!RecentOutbound(p)
                     \/ Toasts!ActiveCollab(e) \/ Toasts!Covered(p)
<1>3. \A q \in Peers : ClaimOf(q) /\ last[q] \in Nat \cup {Never}
  BY <1>1 DEF ClaimIsForAToast, ClaimOf, Toasts!TypeOK
<1>4. ASSUME NEW step \in {"collab", "claim", "fire", "done"}, Moves(e, step)
      PROVE  /\ pc' \in [Envelopes -> ToastTypes] /\ NewIsUnstored'
             /\ pc'[e] = step /\ \A f \in Envelopes : f # e => pc'[f] = pc[f]
  <2>1. pc'[e] = step /\ \A f \in Envelopes : f # e => pc'[f] = pc[f]
    BY <1>1, <1>4 DEF Moves, Toasts!TypeOK
  <2>2. pc' \in [Envelopes -> ToastTypes]
    BY <1>1, <1>4 DEF Moves, Toasts!TypeOK, ToastTypes
  <2>3. NewIsUnstored'
    BY <1>1, <1>2, <2>1 DEF NewIsUnstored
  <2> QED BY <2>1, <2>2, <2>3
<1>5. CASE Toasts!LookOutbound(e) \/ Toasts!LookCollab(e)
  <2>1. /\ UNCHANGED <<toasts, last>>
        /\ \/ Moves(e, "collab") \/ Moves(e, "claim")
           \/ Moves(e, "done") /\ (Toasts!RecentOutbound(p) \/ Toasts!ActiveCollab(e))
        /\ pc[e] # "fire"
    BY <1>2, <1>5, DispatchMoves DEF Toasts!LookOutbound, Toasts!LookCollab
  <2>2. PICK step \in {"collab", "claim", "done"} :
          Moves(e, step) /\ (step = "done" => Reason)
    BY <2>1
  <2>3. /\ pc' \in [Envelopes -> ToastTypes] /\ NewIsUnstored'
        /\ pc'[e] = step /\ \A f \in Envelopes : f # e => pc'[f] = pc[f]
    BY <1>4, <2>2
  <2>4. Keeps
    BY <1>1, <2>1, <2>3 DEF Keeps
  <2>5. ClaimIsForAToast'
    BY <1>3, <2>1, <2>4, ClaimStays DEF ClaimIsForAToast, ClaimOf
  <2>6. Toasts!TypeOK'
    BY <1>1, <2>1, <2>3 DEF Toasts!TypeOK, ToastTypes
  <2> QED BY <1>2, <2>2, <2>3, <2>5, <2>6
<1>6. CASE Toasts!Claim(e)
  <2>1. /\ toasts' = toasts /\ pc[e] = "claim"
        /\ \/ /\ Toasts!MayClaim(p) /\ last' = [last EXCEPT ![p] = now] /\ Moves(e, "fire")
           \/ ~Toasts!MayClaim(p) /\ last' = last /\ Moves(e, "done")
    <3>1. toasts' = toasts /\ pc[e] = "claim"
      BY <1>6 DEF Toasts!Claim
    <3>2. Toasts!Goes(e, "claim", Toasts!MayClaim(p))
      BY <1>2, <1>6 DEF Toasts!Claim
    <3>3. Toasts!MayClaim(p) \in BOOLEAN
      BY DEF Toasts!MayClaim
    <3>4. Moves(e, IF Toasts!MayClaim(p) THEN "fire" ELSE "done")
      BY <3>2, <3>3, DispatchMoves
    <3>5. last' = IF Toasts!MayClaim(p) THEN [last EXCEPT ![p] = now] ELSE last
      BY <1>2, <1>6 DEF Toasts!Claim
    <3> QED BY <3>1, <3>4, <3>5
  <2>2. CASE Toasts!MayClaim(p)
    <3>1. /\ pc' \in [Envelopes -> ToastTypes] /\ NewIsUnstored'
          /\ pc'[e] = "fire" /\ \A f \in Envelopes : f # e => pc'[f] = pc[f]
      BY <1>4, <2>1, <2>2
    <3>2. last'[p] = now /\ \A q \in Peers : q # p => last'[q] = last[q]
      BY <1>1, <1>2, <2>1, <2>2 DEF Toasts!TypeOK
    <3>3. Keeps
      BY <1>1, <2>1, <3>1 DEF Keeps
    <3>4. e \in Toasts!With(p)'
      BY <1>1, <1>2 DEF Toasts!With, Toasts!Stored
    <3>5. ClaimOf(p)'
      BY <1>1, <3>1, <3>2, <3>4 DEF ClaimOf
    <3>6. \A q \in Peers : ClaimOf(q)'
      BY <1>3, <3>2, <3>3, <3>5, ClaimStays
    <3>7. Toasts!TypeOK'
      BY <1>1, <1>2, <2>1, <2>2, <3>1 DEF Toasts!TypeOK, ToastTypes
    <3> QED BY <3>1, <3>6, <3>7 DEF ClaimIsForAToast, ClaimOf
  <2>3. CASE ~Toasts!MayClaim(p)
    <3>1. /\ pc' \in [Envelopes -> ToastTypes] /\ NewIsUnstored'
          /\ pc'[e] = "done" /\ \A f \in Envelopes : f # e => pc'[f] = pc[f]
      BY <1>4, <2>1, <2>3
    <3>2. Keeps
      BY <1>1, <2>1, <3>1 DEF Keeps
    <3>3. ClaimIsForAToast'
      BY <1>3, <2>1, <2>3, <3>2, ClaimStays DEF ClaimIsForAToast, ClaimOf
    <3>4. Toasts!TypeOK'
      BY <1>1, <2>1, <2>3, <3>1 DEF Toasts!TypeOK, ToastTypes
    <3>5. Toasts!Covered(p)
      BY <1>2, <2>3, ClaimIsCovered
    <3> QED BY <1>2, <3>1, <3>3, <3>4, <3>5
  <2> QED BY <2>2, <2>3
<1>7. CASE Toasts!Fire(e)
  <2>1. /\ toasts' = toasts \cup {<<e, now>>} /\ last' = last /\ Moves(e, "done")
    BY <1>7, DispatchMoves DEF Toasts!Fire
  <2>2. /\ pc' \in [Envelopes -> ToastTypes] /\ NewIsUnstored'
        /\ pc'[e] = "done" /\ \A f \in Envelopes : f # e => pc'[f] = pc[f]
    BY <1>4, <2>1
  <2>3. Keeps
    BY <1>1, <2>1, <2>2 DEF Keeps
  <2>4. ClaimIsForAToast'
    BY <1>3, <2>1, <2>3, ClaimStays DEF ClaimIsForAToast, ClaimOf
  <2>5. Toasts!TypeOK'
    BY <1>1, <2>1, <2>2 DEF Toasts!TypeOK, ToastTypes
  <2>6. Toasts!Told(e)
    BY <1>1, <2>1 DEF Toasts!Told
  <2> QED BY <2>2, <2>4, <2>5, <2>6
<1> QED BY <1>5, <1>6, <1>7 DEF Toasts!Dispatch

\* An envelope comes, in this process or in another, or this node sends one.
LEMMA ArrivalClaimed ==
  ASSUME Claimed, NEW t \in Threads, NEW ms \in 0..MaxTime, NEW collab \in BOOLEAN,
         \/ \E e \in Envelopes : Toasts!Receive(e, t, ms, collab)
                                 \/ Toasts!ReceiveElsewhere(e, t, ms, collab)
         \/ ms = now /\ \E o \in Own : Toasts!Send(o, t, collab)
  PROVE  Claimed' /\ \A e \in Envelopes : pc'[e] = "done" => pc[e] = "done"
<1> USE DEF Claimed
<1> DEFINE row == [thread |-> t, ms |-> ms, collab |-> collab]
<1>1. row \in Toasts!Row /\ row # Never /\ Envelopes \cap Own = {} /\ MaxTime \in Nat
  BY DaemonAssumption DEF Toasts!Row, Toasts!ConstantsFit
<1>2. UNCHANGED <<now, last, toasts>>
  BY DEF Toasts!Receive, Toasts!ReceiveElsewhere, Toasts!Send
<1>3. PICK x \in Envelopes \cup Own : stored' = [stored EXCEPT ![x] = row] /\ stored[x] = Never
  BY DEF Toasts!Receive, Toasts!ReceiveElsewhere, Toasts!Send, NewIsUnstored
<1>4. stored'[x] = row /\ \A f \in Envelopes \cup Own : f # x => stored'[f] = stored[f]
  BY <1>3 DEF Toasts!TypeOK
<1>5. \/ x \in Own /\ pc' = pc
      \/ x \in Envelopes /\ \E step \in {"outbound", "lost"} : Moves(x, step)
  <2>1. ASSUME NEW e \in Envelopes, Toasts!Receive(e, t, ms, collab)
                                    \/ Toasts!ReceiveElsewhere(e, t, ms, collab)
        PROVE  x \in Envelopes /\ \E step \in {"outbound", "lost"} : Moves(x, step)
    <3>1. stored' = [stored EXCEPT ![e] = row] /\ stored[e] = Never
      BY <2>1 DEF Toasts!Receive, Toasts!ReceiveElsewhere, NewIsUnstored
    <3>2. stored'[e] = row
      BY <3>1 DEF Toasts!TypeOK
    <3>3. e = x
      BY <1>1, <1>4, <3>1, <3>2
    <3> QED BY <2>1, <3>3, NextStep DEF Toasts!Receive, Toasts!ReceiveElsewhere, Moves
  <2>2. ASSUME NEW o \in Own, Toasts!Send(o, t, collab), ms = now
        PROVE  x \in Own /\ pc' = pc
    <3>1. stored' = [stored EXCEPT ![o] = row] /\ stored[o] = Never /\ pc' = pc
      BY <2>2 DEF Toasts!Send
    <3>2. stored'[o] = row
      BY <3>1 DEF Toasts!TypeOK
    <3>3. o = x
      BY <1>1, <1>4, <3>1, <3>2
    <3> QED BY <3>1, <3>3
  <2> QED BY <2>1, <2>2
<1>6. /\ pc' \in [Envelopes -> ToastTypes]
      /\ \A f \in Envelopes : f # x => pc'[f] = pc[f]
      /\ x \in Envelopes => pc'[x] \in {"outbound", "lost"}
  BY <1>1, <1>5 DEF Moves, Toasts!TypeOK, ToastTypes
<1>7. NewIsUnstored'
  BY <1>1, <1>3, <1>4, <1>6 DEF NewIsUnstored
<1>8. Toasts!TypeOK'
  BY <1>1, <1>2, <1>3, <1>6 DEF Toasts!TypeOK, ToastTypes
<1>9. Keeps
  <2>1. \A f \in Envelopes : pc[f] = "fire" => f # x
    BY <1>3 DEF NewIsUnstored
  <2> QED BY <1>2, <1>3, <1>4, <1>6, <2>1 DEF Keeps, Toasts!TypeOK
<1>10. ClaimIsForAToast'
  BY <1>2, <1>9, ClaimStays DEF ClaimIsForAToast, ClaimOf, Toasts!TypeOK
<1> QED BY <1>6, <1>7, <1>8, <1>10

LEMMA OtherClaimed ==
  ASSUME Claimed, Toasts!Tick \/ Toasts!Restart \/ UNCHANGED toastVars
  PROVE  Claimed' /\ \A e \in Envelopes : pc'[e] = "done" => pc[e] = "done"
<1> USE DEF Claimed
<1>1. MaxTime \in Nat
  BY DaemonAssumption DEF Toasts!ConstantsFit
<1>2. CASE Toasts!Tick
  <2>1. Keeps
    BY <1>1, <1>2 DEF Keeps, Toasts!Tick, Toasts!TypeOK
  <2>2. Toasts!TypeOK' /\ NewIsUnstored'
    BY <1>1, <1>2 DEF Toasts!Tick, Toasts!TypeOK, NewIsUnstored
  <2>3. ClaimIsForAToast'
    BY <1>2, <2>1, ClaimStays DEF ClaimIsForAToast, ClaimOf, Toasts!TypeOK, Toasts!Tick
  <2> QED BY <1>2, <2>2, <2>3 DEF Toasts!Tick
<1>3. CASE Toasts!Restart
  <2>1. \A e \in Envelopes : /\ pc[e] \in {"new", "done"} => pc'[e] = pc[e]
                             /\ pc[e] \notin {"new", "done"} => pc'[e] = "lost"
    BY <1>3 DEF Toasts!Restart
  <2>2. Toasts!TypeOK'
    BY <1>3 DEF Toasts!Restart, Toasts!TypeOK
  <2>3. NewIsUnstored' /\ ClaimIsForAToast'
    BY <1>3, <2>1 DEF Toasts!Restart, NewIsUnstored, ClaimIsForAToast
  <2> QED BY <2>1, <2>2, <2>3
<1>4. CASE UNCHANGED toastVars
  <2>1. Keeps
    BY <1>4 DEF Keeps, toastVars, Toasts!TypeOK
  <2>2. Toasts!TypeOK' /\ NewIsUnstored'
    BY <1>4 DEF toastVars, Toasts!TypeOK, NewIsUnstored
  <2>3. ClaimIsForAToast'
    BY <1>4, <2>1, ClaimStays DEF ClaimIsForAToast, ClaimOf, Toasts!TypeOK, toastVars
  <2> QED BY <1>4, <2>2, <2>3 DEF toastVars
<1> QED BY <1>2, <1>3, <1>4

LEMMA ClaimedStep ==
  ASSUME Claimed, Toasts!Next \/ UNCHANGED toastVars
  PROVE  /\ Claimed'
         /\ \A e \in Envelopes : pc[e] # "done" /\ pc'[e] = "done" =>
              \/ Toasts!Told(e) \/ Toasts!RecentOutbound(Toasts!Sender(e))
              \/ Toasts!ActiveCollab(e) \/ Toasts!Covered(Toasts!Sender(e))
<1>1. Dates \subseteq 0..MaxTime /\ now \in 0..MaxTime
  BY DaemonAssumption DEF Claimed, Toasts!TypeOK, Toasts!ConstantsFit
<1>2. ASSUME NEW e \in Envelopes, Toasts!Dispatch(e)
      PROVE  /\ Claimed'
             /\ \A f \in Envelopes : pc[f] # "done" /\ pc'[f] = "done" =>
                  \/ Toasts!Told(f) \/ Toasts!RecentOutbound(Toasts!Sender(f))
                  \/ Toasts!ActiveCollab(f) \/ Toasts!Covered(Toasts!Sender(f))
  BY <1>2, DispatchClaimed
<1>3. ASSUME \/ \E e \in Envelopes, t \in Threads, ms \in Dates, collab \in BOOLEAN :
                  Toasts!Receive(e, t, ms, collab) \/ Toasts!ReceiveElsewhere(e, t, ms, collab)
             \/ \E o \in Own, t \in Threads, collab \in BOOLEAN : Toasts!Send(o, t, collab)
      PROVE  Claimed' /\ \A e \in Envelopes : pc'[e] = "done" => pc[e] = "done"
  BY <1>1, <1>3, ArrivalClaimed
<1>4. ASSUME Toasts!Tick \/ Toasts!Restart \/ UNCHANGED toastVars
      PROVE  Claimed' /\ \A e \in Envelopes : pc'[e] = "done" => pc[e] = "done"
  BY <1>4, OtherClaimed
<1> QED BY <1>2, <1>3, <1>4 DEF Toasts!Next

\* The user is told of an envelope, or has a reason to know of it: the node has
\* written to that peer a moment ago, a live exchange is going on in the thread, or
\* another toast of the peer is on the screen or about to be (daemon_notify.go:23-94).
THEOREM SilenceHasAReason == DaemonSpec => SilentForAReason
<1>1. DaemonInit => Claimed
  BY InitClaimed DEF DaemonInit
<1>2. Claimed /\ [DaemonNext]_<<vars, toastVars, gatewayURL>> => Claimed'
  BY ClaimedStep DEF DaemonNext
<1>3. Claimed /\ [DaemonNext]_<<vars, toastVars, gatewayURL>> =>
        [\A e \in Envelopes : pc[e] # "done" /\ pc'[e] = "done" =>
           Toasts!Told(e) \/ Toasts!RecentOutbound(Toasts!Sender(e))
             \/ Toasts!ActiveCollab(e) \/ Toasts!Covered(Toasts!Sender(e))]_Toasts!vars
  BY ClaimedStep DEF DaemonNext
<1> QED BY <1>1, <1>2, <1>3, PTL DEF DaemonSpec, SilentForAReason, Toasts!SilentForAReason
=============================================================================
