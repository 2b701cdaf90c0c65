---------------------------- MODULE PairingProofs ----------------------------
(***************************************************************************)
(* For every number of parties, nodes and codes, and every choice of       *)
(* faults: the safety invariants of Pairing.                               *)
(***************************************************************************)
EXTENDS Pairing, TLAPS

(***************************************************************************)
(* The inductive invariant.                                                *)
(***************************************************************************)
Mates(x, y) == mate[x] = y \/ mate[y] = x

\* A party is matched once, with a party that uses the same code.
MatchedOnce ==
  /\ \A q \in Parties : mate[q] # None => CodeOf[mate[q]] = CodeOf[q] /\ mate[mate[q]] = None
  /\ \A q, r \in Parties : mate[q] # None /\ mate[q] = mate[r] => q = r
  /\ \A p \in Parties : handler[p] \in {"none", "arrived"} =>
       mate[p] = None /\ \A q \in Parties : mate[q] # p
  /\ \A p \in Parties : pc[p] = "idle" => handler[p] = "none"
  /\ \A p \in Parties : reader[p] # "off" => \E q \in Parties : Mates(p, q)

\* Who is in the slot of a code uses it, waits, and has not been matched.
SlotIsFree ==
  \A c \in Codes : slot[c] # None =>
    /\ CodeOf[slot[c]] = c
    /\ handler[slot[c]] \in {"waiting", "expiring"}
    /\ mate[slot[c]] = None
    /\ \A q \in Parties : mate[q] # slot[c]

Matching == TypeOK /\ MatchedOnce /\ SlotIsFree /\ WaitingIsFound

\* A party's program counter tells whether it has opened a card.
GotInOrder ==
  \A p \in Parties :
    /\ pc[p] = "store" => got[p] # None
    /\ pc[p] = "send" => (got[p] # None <=> p \notin Initiators)
    /\ pc[p] \in {"idle", "receive"} => got[p] = None

\* The card of x has been written to y, which may have opened it.
Delivered(x, y) == down[y] = x \/ got[y] = x

Sent(x) == x \in up \/ reader[x] = "holding" \/ \E y \in Parties : Delivered(x, y)

\* A card goes to the party's mate only; a consumer sends it after it has opened
\* another, and that one was an initiator's.
CardsGoToMates ==
  /\ \A x, y \in Parties : Delivered(x, y) => Mates(x, y)
  /\ \A x \in Parties : Sent(x) => x \in Initiators \/ got[x] # None
  /\ \A x \in Parties \ Initiators : got[x] # None => got[x] \in Initiators

\* Every row of table peers comes from an exchange of cards.
Exchanged(p, a, b) == NodeOf[p] = a /\ got[p] # None /\ NodeOf[got[p]] = b

RowsAreExchanged ==
  \A a, b \in Nodes : peers[a][b] # None =>
    \E p \in Parties : Exchanged(p, a, b) /\ peers[a][b] = SAS(CodeOf[p], Kex[a], Kex[b])

Exchange == Matching /\ GotInOrder /\ CardsGoToMates /\ RowsAreExchanged

(***************************************************************************)
(* What the constants and the operators of Pairing yield.                  *)
(***************************************************************************)
LEMMA Constants ==
  /\ \A p \in Parties : p # None /\ NodeOf[p] \in Nodes /\ CodeOf[p] \in Codes
  /\ \A p \in Parties : Caller[p] \in {"tool", "command", "hub"}
  /\ \A n \in Nodes : Kex[n] \in Nat
  /\ Initiators \subseteq Parties
  /\ None \notin Parties
BY PairingAssumption

\* The order of the steps of Rendezvous.
LEMMA Order ==
  ASSUME NEW p \in Parties
  PROVE  /\ Steps(p)[1] = IF p \in Initiators THEN "send" ELSE "receive"
         /\ After(p, "send") = IF p \in Initiators THEN "receive" ELSE "store"
         /\ After(p, "receive") = IF p \in Initiators THEN "store" ELSE "send"
<1>1. CASE p \in Initiators
  <2>1. Steps(p)[1] = "send" /\ Steps(p)[2] = "receive" /\ Steps(p)[3] = "store"
    BY <1>1 DEF Steps
  <2>2. (CHOOSE i \in 1..2 : Steps(p)[i] = "send") = 1
    BY <2>1
  <2>3. (CHOOSE i \in 1..2 : Steps(p)[i] = "receive") = 2
    BY <2>1
  <2> QED BY <1>1, <2>1, <2>2, <2>3 DEF After
<1>2. CASE p \notin Initiators
  <2>1. Steps(p)[1] = "receive" /\ Steps(p)[2] = "send" /\ Steps(p)[3] = "store"
    BY <1>2 DEF Steps
  <2>2. (CHOOSE i \in 1..2 : Steps(p)[i] = "send") = 2
    BY <2>1
  <2>3. (CHOOSE i \in 1..2 : Steps(p)[i] = "receive") = 1
    BY <2>1
  <2> QED BY <1>2, <2>1, <2>2, <2>3 DEF After
<1> QED BY <1>1, <1>2

\* The words are the same on both sides.
LEMMA SASIsSymmetric ==
  ASSUME NEW c \in Codes, NEW m \in Nat, NEW n \in Nat
  PROVE  SAS(c, m, n) \in Words /\ SAS(c, m, n) = SAS(c, n, m)
<1>1. Min2(m, n) \in Nat /\ Max2(m, n) \in Nat
  BY DEF Min2, Max2
<1>2. Min2(m, n) = Min2(n, m) /\ Max2(m, n) = Max2(n, m)
  BY DEF Min2, Max2
<1> QED BY <1>1, <1>2 DEF SAS, Words

LEMMA TellsSomething ==
  ASSUME TypeOK, NEW p \in Parties, NEW r \in {"paired", "failed"}, Tell(p, r)
  PROVE  report' \in [Parties -> {None, "paired", "failed", "unheard"}]
<1>1. PICK v \in {None, "paired", "failed", "unheard"} : report' = [report EXCEPT ![p] = v]
  <2>1. CASE Caller[p] = "command"
    BY <2>1 DEF Tell, CommandTells, ConsumerTells
  <2>2. CASE Caller[p] = "tool"
    BY <2>2 DEF Tell, ToolTells, ConsumerTells
  <2>3. CASE Caller[p] = "hub"
    BY <2>3 DEF Tell, HubTells, TypeOK
  <2> QED BY <2>1, <2>2, <2>3, Constants
<1> QED BY <1>1 DEF TypeOK

LEMMA CloseIfKeepsType ==
  ASSUME TypeOK, NEW p \in Parties, NEW next, CloseIf(p, next)
  PROVE  client' \in [Parties -> {"none", "open", "closed", "gone"}]
BY DEF CloseIf, TypeOK

\* pipe serves two parties that are mates.
LEMMA OppositeIsMate ==
  ASSUME Matching, NEW x \in Parties, reader[x] # "off"
  PROVE  /\ Owner(x) \in Parties
         /\ Opposite(x) \in Parties
         /\ Mates(x, Opposite(x))
<1>1. PICK q \in Parties : Mates(x, q)
  BY DEF Matching, MatchedOnce
<1>2. CASE mate[x] # None
  <2>1. mate[x] \in Parties
    BY <1>2 DEF Matching, TypeOK
  <2> QED BY <1>2, <2>1 DEF Owner, Opposite, Mates
<1>3. CASE mate[x] = None
  <2>1. mate[q] = x
    BY <1>1, <1>3, Constants DEF Mates
  <2>2. Owner(x) \in Parties /\ mate[Owner(x)] = x
    BY <1>3, <2>1 DEF Owner
  <2> QED BY <1>3, <2>2 DEF Opposite, Mates
<1> QED BY <1>2, <1>3

\* A party has one mate, and they use the same code.
LEMMA OneMate ==
  ASSUME Matching, NEW x \in Parties, NEW y \in Parties, NEW z \in Parties, Mates(x, y)
  PROVE  /\ Mates(y, x)
         /\ CodeOf[x] = CodeOf[y]
         /\ Mates(x, z) => y = z
<1> USE Constants DEF Matching, MatchedOnce, Mates
<1>1. CodeOf[x] = CodeOf[y]
  OBVIOUS
<1>2. ASSUME Mates(x, z)  PROVE y = z
  BY <1>2
<1> QED BY <1>1, <1>2

(***************************************************************************)
(* The matching at the relay.                                              *)
(***************************************************************************)
LEMMA MatchingInit == Init => Matching
<1> SUFFICES ASSUME Init  PROVE Matching
  OBVIOUS
<1> USE Constants
<1>1. TypeOK
  BY DEF Init, TypeOK
<1>2. MatchedOnce
  BY DEF Init, MatchedOnce
<1>3. SlotIsFree /\ WaitingIsFound
  BY DEF Init, SlotIsFree, WaitingIsFound
<1> QED BY <1>1, <1>2, <1>3 DEF Matching

\* A party dials: nobody has matched it.
LEMMA MatchingDial ==
  ASSUME Matching, NEW p \in Parties, Dial(p)
  PROVE  Matching'
<1> USE Constants DEF Matching
<1>1. /\ pc[p] = "idle"
      /\ pc' = [pc EXCEPT ![p] = Steps(p)[1]]
      /\ Steps(p)[1] \in {"send", "receive"}
      /\ client' = [client EXCEPT ![p] = "open"]
      /\ server' = [server EXCEPT ![p] = "open"]
      /\ handler' = [handler EXCEPT ![p] = "arrived"]
      /\ UNCHANGED <<expired, got, report, peers, up, down, slot, mate, reader,
                     stop, panicked>>
  BY Order DEF Dial
<1>2. TypeOK'
  BY <1>1 DEF TypeOK
<1>3. MatchedOnce' /\ SlotIsFree' /\ WaitingIsFound'
  BY <1>1 DEF TypeOK, MatchedOnce, SlotIsFree, WaitingIsFound, Mates
<1> QED BY <1>2, <1>3

\* The steps of Rendezvous and of its caller do not touch the relay.
LEMMA MatchingCall ==
  ASSUME Matching, GotInOrder, NEW p \in Parties, Call(p) \/ Expire(p) \/ HubGivesUp(p) \/ Crash(p)
  PROVE  Matching'
<1> USE Constants DEF Matching
<1>1. CASE Send(p)
  <2>1. After(p, "send") \in {"receive", "store"}
    BY Order
  <2>2. TypeOK'
    BY <1>1, <2>1, CloseIfKeepsType DEF Send, TypeOK, relay
  <2> QED BY <1>1, <2>1, <2>2
          DEF Send, relay, TypeOK, MatchedOnce, SlotIsFree, WaitingIsFound, Mates
<1>2. CASE Receive(p)
  <2>1. After(p, "receive") \in {"send", "store"}
    BY Order
  <2>2. TypeOK'
    BY <1>2, <2>1, CloseIfKeepsType DEF Receive, TypeOK, relay
  <2> QED BY <1>2, <2>1, <2>2
          DEF Receive, relay, TypeOK, MatchedOnce, SlotIsFree, WaitingIsFound, Mates
<1>3. CASE Fails(p)
  <2>1. TypeOK'
    BY <1>3, TellsSomething DEF Fails, TypeOK, relay
  <2> QED BY <1>3, <2>1
          DEF Fails, relay, TypeOK, MatchedOnce, SlotIsFree, WaitingIsFound, Mates
<1>4. CASE StoreFails(p)
  <2>1. TypeOK'
    BY <1>4, TellsSomething DEF StoreFails, TypeOK, relay, net
  <2> QED BY <1>4, <2>1
          DEF StoreFails, relay, net, TypeOK, MatchedOnce, SlotIsFree, WaitingIsFound, Mates
<1>5. CASE Expire(p)
  <2>1. TypeOK'
    BY <1>5 DEF Expire, TypeOK, relay, net
  <2> QED BY <1>5, <2>1
          DEF Expire, relay, net, TypeOK, MatchedOnce, SlotIsFree, WaitingIsFound, Mates
<1>6. CASE HubGivesUp(p)
  <2>1. TypeOK'
    BY <1>6, TellsSomething DEF HubGivesUp, TypeOK, relay, net
  <2> QED BY <1>6, <2>1
          DEF HubGivesUp, relay, net, TypeOK, MatchedOnce, SlotIsFree, WaitingIsFound, Mates
<1>7. CASE Crash(p)
  <2>1. client' \in [Parties -> {"none", "open", "closed", "gone"}]
    BY <1>7 DEF Crash, TypeOK
  <2>2. TypeOK'
    BY <1>7, <2>1 DEF Crash, TypeOK, relay
  <2> QED BY <1>7, <2>2
          DEF Crash, relay, TypeOK, MatchedOnce, SlotIsFree, WaitingIsFound, Mates
<1>8. CASE Store(p)
  <2>1. PICK q \in Parties : q = got[p]
    BY <1>8 DEF Store, GotInOrder, TypeOK
  <2>2. PICK w \in Words : w = SAS(CodeOf[p], Kex[NodeOf[p]], Kex[NodeOf[q]])
    BY SASIsSymmetric
  <2>3. peers' = [peers EXCEPT ![NodeOf[p]][NodeOf[q]] = w]
    BY <1>8, <2>1, <2>2 DEF Store
  <2>4. peers' \in [Nodes -> [Nodes -> Words \cup {None}]]
    BY <2>3 DEF TypeOK
  <2>5. TypeOK'
    BY <1>8, <2>4, TellsSomething DEF Store, TypeOK, relay, net
  <2> QED BY <1>8, <2>5
          DEF Store, relay, net, TypeOK, MatchedOnce, SlotIsFree, WaitingIsFound, Mates
<1> QED BY <1>1, <1>2, <1>3, <1>4, <1>5, <1>6, <1>7, <1>8 DEF Call

\* A party comes first and waits in the slot, or second and takes the first out.
LEMMA MatchingArrive ==
  ASSUME Matching, NEW p \in Parties, Arrive(p)
  PROVE  Matching'
<1> USE Constants DEF Matching, calls, net
<1>1. PICK c \in Codes : c = CodeOf[p]
  OBVIOUS
<1>2. handler[p] = "arrived" /\ UNCHANGED <<calls, net, stop, panicked>>
  BY DEF Arrive
<1>3. CASE slot[c] = None
  <2>1. /\ slot' = [slot EXCEPT ![c] = p]
        /\ handler' = [handler EXCEPT ![p] = "waiting"]
        /\ UNCHANGED <<mate, reader>>
    BY <1>1, <1>3 DEF Arrive
  <2>2. TypeOK'
    BY <1>2, <2>1 DEF TypeOK
  <2>3. MatchedOnce'
    BY <1>2, <2>1 DEF TypeOK, MatchedOnce, Mates
  <2>4. SlotIsFree'
    BY <1>1, <1>2, <2>1 DEF TypeOK, MatchedOnce, SlotIsFree
  <2>5. WaitingIsFound'
    <3> SUFFICES ASSUME NEW r \in Parties, handler'[r] = "waiting",
                        \A q \in Parties : mate[q] # r
                 PROVE  slot'[CodeOf[r]] = r
      BY <2>1 DEF WaitingIsFound
    <3>1. CASE r = p
      BY <1>1, <2>1, <3>1 DEF TypeOK
    <3>2. CASE r # p
      <4>1. slot[CodeOf[r]] = r
        BY <2>1, <3>2 DEF TypeOK, WaitingIsFound
      <4> QED BY <1>3, <2>1, <4>1 DEF TypeOK
    <3> QED BY <3>1, <3>2
  <2> QED BY <2>2, <2>3, <2>4, <2>5
<1>4. CASE slot[c] # None
  <2>1. PICK f \in Parties : f = slot[c]
    BY <1>4 DEF TypeOK
  <2>2. /\ CodeOf[f] = c
        /\ handler[f] \in {"waiting", "expiring"}
        /\ mate[f] = None
        /\ \A q \in Parties : mate[q] # f
        /\ f # p
    BY <1>2, <1>4, <2>1 DEF SlotIsFree
  <2>3. mate[p] = None /\ \A q \in Parties : mate[q] # p
    BY <1>2 DEF MatchedOnce
  <2>4. /\ slot' = [slot EXCEPT ![c] = None]
        /\ handler' = [handler EXCEPT ![p] = "piping"]
        /\ mate' = [mate EXCEPT ![p] = f]
        /\ reader' = [reader EXCEPT ![p] = "reading", ![f] = "reading"]
    BY <1>1, <1>4, <2>1 DEF Arrive
  <2>5. \A q \in Parties : mate'[q] = IF q = p THEN f ELSE mate[q]
    BY <2>4 DEF TypeOK
  <2>6. TypeOK'
    BY <1>2, <2>4 DEF TypeOK
  <2>7. MatchedOnce'
    <3>1. \A q \in Parties : mate'[q] # None =>
            CodeOf[mate'[q]] = CodeOf[q] /\ mate'[mate'[q]] = None
      BY <1>1, <2>2, <2>3, <2>5 DEF TypeOK, MatchedOnce
    <3>2. \A q, r \in Parties : mate'[q] # None /\ mate'[q] = mate'[r] => q = r
      BY <2>2, <2>3, <2>5 DEF MatchedOnce
    <3>3. \A r \in Parties : handler'[r] \in {"none", "arrived"} =>
            mate'[r] = None /\ \A q \in Parties : mate'[q] # r
      BY <2>2, <2>4, <2>5 DEF TypeOK, MatchedOnce
    <3>4. \A r \in Parties : pc'[r] = "idle" => handler'[r] = "none"
      BY <1>2, <2>4 DEF TypeOK, MatchedOnce
    <3>5. ASSUME NEW r \in Parties, reader'[r] # "off"
          PROVE  \E q \in Parties : Mates(r, q)'
      <4>1. CASE r = p \/ r = f
        BY <2>5, <4>1 DEF Mates
      <4>2. CASE ~(r = p \/ r = f)
        <5>1. PICK q \in Parties : Mates(r, q)
          BY <2>4, <3>5, <4>2 DEF TypeOK, MatchedOnce
        <5>2. q # p
          BY <2>3, <5>1, <4>2 DEF Mates
        <5> QED BY <2>5, <4>2, <5>1, <5>2 DEF Mates
      <4> QED BY <4>1, <4>2
    <3> QED BY <3>1, <3>2, <3>3, <3>4, <3>5 DEF MatchedOnce
  <2>8. SlotIsFree'
    <3> SUFFICES ASSUME NEW d \in Codes, slot'[d] # None
                 PROVE  /\ CodeOf[slot'[d]] = d
                        /\ handler'[slot'[d]] \in {"waiting", "expiring"}
                        /\ mate'[slot'[d]] = None
                        /\ \A q \in Parties : mate'[q] # slot'[d]
      BY DEF SlotIsFree
    <3>1. d # c /\ slot'[d] = slot[d] /\ slot[d] \in Parties
      BY <2>4 DEF TypeOK
    <3>2. slot[d] # f /\ slot[d] # p
      BY <1>2, <2>2, <3>1 DEF SlotIsFree
    <3> QED BY <2>4, <2>5, <3>1, <3>2 DEF TypeOK, SlotIsFree
  <2>9. WaitingIsFound'
    <3> SUFFICES ASSUME NEW r \in Parties, handler'[r] = "waiting",
                        \A q \in Parties : mate'[q] # r
                 PROVE  slot'[CodeOf[r]] = r
      BY DEF WaitingIsFound
    <3>1. r # p /\ r # f /\ \A q \in Parties : mate[q] # r
      BY <2>3, <2>4, <2>5 DEF TypeOK
    <3>2. slot[CodeOf[r]] = r
      BY <2>4, <3>1 DEF TypeOK, WaitingIsFound
    <3>3. CodeOf[r] # c
      BY <2>1, <3>1, <3>2
    <3> QED BY <2>4, <3>2, <3>3 DEF TypeOK
  <2> QED BY <2>6, <2>7, <2>8, <2>9
<1> QED BY <1>3, <1>4

\* A waiting party is released or gives up.
LEMMA MatchingLeave ==
  ASSUME Matching, NEW p \in Parties, TimeOut(p) \/ Evict(p) \/ Release(p)
  PROVE  Matching'
<1> USE Constants DEF Matching, calls, net
<1>1. CASE TimeOut(p)
  <2>1. TypeOK'
    BY <1>1 DEF TimeOut, TypeOK
  <2> QED BY <1>1, <2>1
          DEF TimeOut, TypeOK, MatchedOnce, SlotIsFree, WaitingIsFound, Mates
<1>2. CASE Evict(p)
  <2>1. PICK c \in Codes : c = CodeOf[p]
    OBVIOUS
  <2>2. /\ handler[p] = "expiring"
        /\ slot' = IF slot[c] = p THEN [slot EXCEPT ![c] = None] ELSE slot
        /\ handler' = [handler EXCEPT ![p] = "gone"]
        /\ server' = [server EXCEPT ![p] = "closed"]
        /\ UNCHANGED <<calls, client, up, down, mate, reader, stop, panicked>>
    BY <1>2, <2>1 DEF Evict, Evicted
  <2>3. slot' \in [Codes -> Parties \cup {None}]
    BY <2>2 DEF TypeOK
  <2>4. TypeOK'
    BY <2>2, <2>3 DEF TypeOK
  <2>5. MatchedOnce'
    BY <2>2 DEF TypeOK, MatchedOnce, Mates
  <2>6. \A d \in Codes : slot'[d] # None => slot'[d] = slot[d] /\ slot[d] # p
    BY <2>1, <2>2 DEF TypeOK, SlotIsFree
  <2>7. SlotIsFree'
    BY <2>2, <2>6 DEF TypeOK, SlotIsFree
  <2>8. WaitingIsFound'
    BY <2>1, <2>2 DEF TypeOK, WaitingIsFound
  <2> QED BY <2>4, <2>5, <2>7, <2>8
<1>3. CASE Release(p)
  <2>1. /\ handler[p] = "waiting"
        /\ handler' = [handler EXCEPT ![p] = "gone"]
        /\ UNCHANGED <<calls, net, slot, mate, reader, stop, panicked>>
        /\ \E q \in Parties : mate[q] = p
    BY <1>3 DEF Release
  <2>2. TypeOK'
    BY <2>1 DEF TypeOK
  <2>3. MatchedOnce' /\ WaitingIsFound'
    BY <2>1 DEF TypeOK, MatchedOnce, WaitingIsFound, Mates
  <2>4. SlotIsFree'
    BY <2>1 DEF TypeOK, SlotIsFree
  <2> QED BY <2>2, <2>3, <2>4
<1> QED BY <1>1, <1>2, <1>3

\* The goroutines of pipe.
LEMMA MatchingPipe ==
  ASSUME Matching, NEW x \in Parties,
         ReadFrame(x) \/ ReadFails(x) \/ WriteFrame(x) \/ PipeCloses(x) \/ PipeEnds(x)
  PROVE  Matching'
<1> USE Constants DEF Matching, calls, net
<1>1. CASE ReadFrame(x)
  <2>1. TypeOK'
    BY <1>1 DEF ReadFrame, TypeOK
  <2> QED BY <1>1, <2>1
          DEF ReadFrame, TypeOK, MatchedOnce, SlotIsFree, WaitingIsFound, Mates
<1>2. CASE ReadFails(x)
  <2>1. TypeOK'
    BY <1>2 DEF ReadFails, Error, TypeOK
  <2> QED BY <1>2, <2>1
          DEF ReadFails, Error, TypeOK, MatchedOnce, SlotIsFree, WaitingIsFound, Mates
<1>3. CASE WriteFrame(x)
  <2>1. /\ reader[x] = "holding"
        /\ \E v \in {"reading", "ended", "stopping"} : reader' = [reader EXCEPT ![x] = v]
        /\ down' \in [Parties -> Parties \cup {None}]
        /\ UNCHANGED <<calls, client, server, up, slot, handler, mate, stop, panicked>>
    BY <1>3, OppositeIsMate DEF WriteFrame, Error, TypeOK
  <2>2. reader' \in [Parties -> {"off", "reading", "holding", "stopping", "ended"}]
    BY <2>1 DEF TypeOK
  <2>3. TypeOK'
    BY <2>1, <2>2 DEF TypeOK
  <2> QED BY <2>1, <2>3 DEF TypeOK, MatchedOnce, SlotIsFree, WaitingIsFound, Mates
<1>4. CASE PipeCloses(x)
  <2>1. TypeOK'
    BY <1>4 DEF PipeCloses, CloseBoth, TypeOK
  <2> QED BY <1>4, <2>1
          DEF PipeCloses, TypeOK, MatchedOnce, SlotIsFree, WaitingIsFound, Mates
<1>5. CASE PipeEnds(x)
  <2>1. TypeOK'
    BY <1>5 DEF PipeEnds, TypeOK
  <2> QED BY <1>5, <2>1
          DEF PipeEnds, TypeOK, MatchedOnce, SlotIsFree, WaitingIsFound, Mates
<1> QED BY <1>1, <1>2, <1>3, <1>4, <1>5

\* A goroutine closes stop, or the relay dies of closing it twice.
LEMMA MatchingStop ==
  ASSUME Matching, NEW x \in Parties, CloseStop(x)
  PROVE  Matching'
<1> USE Constants DEF Matching, calls, net
<1>1. CASE Owner(x) \in stop
  <2>1. /\ Restart
        /\ UNCHANGED <<down, mate, stop, calls, client>>
    BY <1>1 DEF CloseStop
  <2>2. TypeOK'
    BY <2>1 DEF Restart, TypeOK
  <2>3. /\ slot' = [c \in Codes |-> None]
        /\ \A p \in Parties : /\ handler'[p] # "waiting"
                              /\ handler'[p] \in {"none", "arrived"} <=> handler[p] = "none"
                              /\ handler'[p] = "none" <=> handler[p] = "none"
                              /\ reader'[p] # "off" <=> reader[p] # "off"
    BY <2>1 DEF Restart
  <2>4. MatchedOnce'
    BY <2>1, <2>3 DEF MatchedOnce, Mates
  <2>5. SlotIsFree' /\ WaitingIsFound'
    BY <2>3 DEF SlotIsFree, WaitingIsFound
  <2> QED BY <2>2, <2>4, <2>5
<1>2. CASE Owner(x) \notin stop
  <2>1. /\ reader[x] = "stopping"
        /\ stop' = stop \cup {Owner(x)}
        /\ reader' = [reader EXCEPT ![x] = "ended"]
        /\ UNCHANGED <<server, up, down, slot, handler, mate, panicked, calls, client>>
    BY <1>2 DEF CloseStop
  <2>2. Owner(x) \in Parties
    BY <2>1, OppositeIsMate
  <2>3. TypeOK'
    BY <2>1, <2>2 DEF TypeOK
  <2> QED BY <2>1, <2>3 DEF TypeOK, MatchedOnce, SlotIsFree, WaitingIsFound, Mates
<1> QED BY <1>1, <1>2

(***************************************************************************)
(* The exchange of cards.                                                  *)
(***************************************************************************)

\* Mates stay mates.
LEMMA MatesStay ==
  ASSUME Matching, Next
  PROVE  \A x, y \in Parties : Mates(x, y) => Mates(x, y)'
<1> USE Constants DEF Matching
<1>1. ASSUME NEW p \in Parties, Arrive(p)  PROVE \A q \in Parties : mate[q] # None => mate'[q] = mate[q]
  BY <1>1 DEF Arrive, TypeOK, MatchedOnce
<1>2. ASSUME NEW p \in Parties, CloseStop(p)  PROVE mate' = mate
  BY <1>2 DEF CloseStop
<1>3. \A q \in Parties : mate[q] # None => mate'[q] = mate[q]
  BY <1>1, <1>2 DEF Next, Dial, Call, Send, Receive, Fails, Store, StoreFails, Expire, HubGivesUp,
     Crash, Serve, Evict, Release, ReadFrame, ReadFails, WriteFrame, PipeCloses, PipeEnds,
     TimeOut, relay
<1> QED BY <1>3 DEF Mates

LEMMA ExchangeInit == Init => GotInOrder /\ CardsGoToMates /\ RowsAreExchanged
BY Constants DEF Init, GotInOrder, CardsGoToMates, RowsAreExchanged, Sent, Delivered

LEMMA GotInOrderKept ==
  ASSUME Matching, GotInOrder, Next
  PROVE  GotInOrder'
<1> USE Constants DEF Matching
<1>1. ASSUME NEW p \in Parties, Dial(p)  PROVE GotInOrder'
  BY <1>1, Order DEF Dial, TypeOK, GotInOrder
<1>2. ASSUME NEW p \in Parties, Send(p)  PROVE GotInOrder'
  BY <1>2, Order DEF Send, TypeOK, GotInOrder
<1>3. ASSUME NEW p \in Parties, Receive(p)  PROVE GotInOrder'
  BY <1>3, Order DEF Receive, TypeOK, GotInOrder
<1>4. ASSUME NEW p \in Parties, Fails(p) \/ Store(p) \/ StoreFails(p) \/ Crash(p)
      PROVE  GotInOrder'
  BY <1>4 DEF Fails, Store, StoreFails, Crash, TypeOK, GotInOrder
<1>5. ASSUME NEW p \in Parties, Expire(p) \/ HubGivesUp(p)  PROVE GotInOrder'
  BY <1>5 DEF Expire, HubGivesUp, GotInOrder
<1>6. ASSUME NEW p \in Parties, Serve(p) \/ TimeOut(p)  PROVE UNCHANGED <<pc, got>>
  BY <1>6 DEF Serve, TimeOut, Arrive, Evict, Release, ReadFrame, ReadFails, WriteFrame,
     CloseStop, PipeCloses, PipeEnds, calls
<1>7. ASSUME UNCHANGED <<pc, got>>  PROVE GotInOrder'
  BY <1>7 DEF GotInOrder
<1> QED BY <1>1, <1>2, <1>3, <1>4, <1>5, <1>6, <1>7 DEF Next, Call

\* A card is sent in its turn, and moves from one place to the next.
LEMMA CardsMove ==
  ASSUME Matching, GotInOrder, CardsGoToMates, Next
  PROVE  /\ \A x, y \in Parties : Delivered(x, y)' => Mates(x, y)
         /\ \A x \in Parties : Sent(x)' => Sent(x) \/ x \in Initiators \/ got[x] # None
         /\ \A x \in Parties : got[x] # None => got'[x] = got[x]
         /\ \A x \in Parties : got'[x] # None => Delivered(got'[x], x)
<1> DEFINE Moves ==
      /\ \A x, y \in Parties : Delivered(x, y)' => Mates(x, y)
      /\ \A x \in Parties : Sent(x)' => Sent(x) \/ x \in Initiators \/ got[x] # None
      /\ \A x \in Parties : got[x] # None => got'[x] = got[x]
      /\ \A x \in Parties : got'[x] # None => Delivered(got'[x], x)
<1> SUFFICES Moves
  OBVIOUS
<1> USE Constants DEF Matching
<1>1. ASSUME NEW p \in Parties, Send(p)  PROVE Moves
  <2>1. /\ UNCHANGED <<got, down, reader>>
        /\ up' \subseteq up \cup {p}
        /\ p \in Initiators \/ got[p] # None
    BY <1>1 DEF Send, relay, GotInOrder
  <2> QED BY <2>1 DEF Sent, Delivered, CardsGoToMates
<1>2. ASSUME NEW p \in Parties, Receive(p)  PROVE Moves
  <2>1. /\ UNCHANGED <<up, reader>>
        /\ got[p] = None
        /\ \A y \in Parties : got'[y] = IF y = p THEN down[p] ELSE got[y]
        /\ \A y \in Parties : down'[y] = IF y = p THEN None ELSE down[y]
    BY <1>2 DEF Receive, relay, GotInOrder, TypeOK
  <2>2. \A x, y \in Parties : Delivered(x, y)' => Delivered(x, y)
    BY <2>1 DEF Delivered
  <2> QED BY <2>1, <2>2 DEF Sent, Delivered, CardsGoToMates
<1>3. ASSUME NEW z \in Parties, WriteFrame(z)  PROVE Moves
  <2>1. PICK w \in Parties : w = Opposite(z) /\ Mates(z, w)
    BY <1>3, OppositeIsMate DEF WriteFrame
  <2>2. /\ reader[z] = "holding"
        /\ UNCHANGED <<got, up>>
        /\ down' = [down EXCEPT ![w] = z] \/ down' = down
        /\ \A x \in Parties : reader'[x] = "holding" => reader[x] = "holding"
    BY <1>3, <2>1 DEF WriteFrame, Error, calls, TypeOK
  <2>3. \A x, y \in Parties : Delivered(x, y)' => Delivered(x, y) \/ (x = z /\ y = w)
    BY <2>2 DEF Delivered, TypeOK
  <2>4. Sent(z)
    BY <2>2 DEF Sent
  <2> QED BY <2>1, <2>2, <2>3, <2>4 DEF Sent, Delivered, CardsGoToMates
<1>4. ASSUME NEW z \in Parties, ReadFrame(z)  PROVE Moves
  <2>1. /\ z \in up
        /\ UNCHANGED <<got, down>>
        /\ up' \subseteq up
        /\ \A x \in Parties : reader'[x] = "holding" => reader[x] = "holding" \/ x = z
    BY <1>4 DEF ReadFrame, calls, TypeOK
  <2> QED BY <2>1 DEF Sent, Delivered, CardsGoToMates
<1>5. ASSUME /\ UNCHANGED <<got, down>>
             /\ up' \subseteq up
             /\ \A x \in Parties : reader'[x] = "holding" => reader[x] = "holding"
      PROVE  Moves
  BY <1>5 DEF Sent, Delivered, CardsGoToMates
<1>6. ASSUME NEW p \in Parties,
             \/ Dial(p) \/ Fails(p) \/ Store(p) \/ StoreFails(p) \/ Expire(p)
             \/ HubGivesUp(p) \/ Crash(p) \/ Evict(p) \/ Release(p) \/ TimeOut(p)
             \/ PipeCloses(p) \/ PipeEnds(p)
      PROVE  Moves
  <2>1. UNCHANGED <<got, down, up, reader>>
    BY <1>6 DEF Dial, Fails, Store, StoreFails, Expire, HubGivesUp, Crash, Evict, Release,
       TimeOut, PipeCloses, PipeEnds, calls, net, relay
  <2> QED BY <1>5, <2>1
<1>7. ASSUME NEW p \in Parties, Arrive(p) \/ ReadFails(p) \/ CloseStop(p)
      PROVE  Moves
  <2>1. CASE Arrive(p)
    BY <1>5, <2>1 DEF Arrive, calls, net, TypeOK
  <2>2. CASE ReadFails(p)
    BY <1>5, <2>2 DEF ReadFails, Error, calls, net, TypeOK
  <2>3. CASE CloseStop(p)
    BY <1>5, <2>3 DEF CloseStop, Restart, calls, net, TypeOK
  <2> QED BY <1>7, <2>1, <2>2, <2>3
<1> QED BY <1>1, <1>2, <1>3, <1>4, <1>6, <1>7 DEF Next, Call, Serve

LEMMA CardsGoToMatesKept ==
  ASSUME Matching, GotInOrder, CardsGoToMates, Next
  PROVE  CardsGoToMates'
<1> USE Constants
<1>1. \A x, y \in Parties : Delivered(x, y)' => Mates(x, y)'
  BY CardsMove, MatesStay
<1>2. \A x \in Parties : Sent(x)' => x \in Initiators \/ got'[x] # None
  BY CardsMove DEF CardsGoToMates
<1>3. ASSUME NEW x \in Parties \ Initiators, got'[x] # None
      PROVE  got'[x] \in Initiators
  <2>1. CASE got[x] # None
    BY <2>1, CardsMove DEF CardsGoToMates
  <2>2. CASE got[x] = None
    <3>1. PICK p \in Parties : Receive(p) /\ p = x
      <4>1. ASSUME NEW p \in Parties, p # x \/ ~Receive(p), \/ Dial(p) \/ Call(p) \/ Expire(p)
                   \/ HubGivesUp(p) \/ Crash(p) \/ Serve(p) \/ TimeOut(p)
            PROVE  got'[x] = got[x]
        BY <4>1 DEF Dial, Call, Send, Receive, Fails, Store, StoreFails, Expire, HubGivesUp,
           Crash, Serve, Arrive, Evict, Release, ReadFrame, ReadFails, WriteFrame, CloseStop,
           PipeCloses, PipeEnds, TimeOut, calls, Matching, TypeOK
      <4> QED BY <1>3, <2>2, <4>1 DEF Next
    <3>2. PICK y \in Parties : y = down[x] /\ got'[x] = y
      BY <3>1 DEF Receive, Matching, TypeOK
    <3>3. Delivered(y, x) /\ Sent(y) /\ Mates(y, x)
      BY <3>2 DEF Sent, Delivered, CardsGoToMates
    <3>4. ASSUME got[y] # None  PROVE FALSE
      <4>1. PICK z \in Parties : z = got[y]
        BY <3>4 DEF Matching, TypeOK
      <4>2. Mates(z, y)
        BY <4>1 DEF Delivered, CardsGoToMates
      <4>3. z = x
        BY <3>3, <4>2, OneMate
      <4>4. Sent(x)
        BY <4>1, <4>3 DEF Sent, Delivered
      <4> QED BY <2>2, <4>4 DEF CardsGoToMates
    <3> QED BY <3>2, <3>3, <3>4 DEF CardsGoToMates
  <2> QED BY <2>1, <2>2
<1> QED BY <1>1, <1>2, <1>3 DEF CardsGoToMates

LEMMA RowsAreExchangedKept ==
  ASSUME Matching, GotInOrder, CardsGoToMates, RowsAreExchanged, Next
  PROVE  RowsAreExchanged'
<1> USE Constants DEF Matching
<1>1. \A p \in Parties, a, b \in Nodes : Exchanged(p, a, b) => Exchanged(p, a, b)'
  BY CardsMove DEF Exchanged
<1>2. ASSUME UNCHANGED peers  PROVE RowsAreExchanged'
  BY <1>1, <1>2 DEF RowsAreExchanged
<1>3. ASSUME NEW p \in Parties, Store(p)  PROVE RowsAreExchanged'
  <2>1. PICK q \in Parties : q = got[p] /\ got' = got
    BY <1>3 DEF Store, GotInOrder, TypeOK
  <2>2. PICK a \in Nodes, b \in Nodes : a = NodeOf[p] /\ b = NodeOf[q]
    OBVIOUS
  <2>3. peers' = [peers EXCEPT ![a][b] = SAS(CodeOf[p], Kex[a], Kex[b])]
    BY <1>3, <2>1, <2>2 DEF Store
  <2>4. \A m, n \in Nodes :
          peers'[m][n] = IF m = a /\ n = b THEN SAS(CodeOf[p], Kex[a], Kex[b]) ELSE peers[m][n]
    BY <2>3 DEF TypeOK
  <2>5. Exchanged(p, a, b)'
    BY <2>1, <2>2 DEF Exchanged
  <2> QED BY <1>1, <2>4, <2>5 DEF RowsAreExchanged
<1>4. ASSUME NEW p \in Parties, Dial(p) \/ Send(p) \/ Receive(p) \/ Fails(p) \/ StoreFails(p)
             \/ Expire(p) \/ HubGivesUp(p) \/ Crash(p) \/ Serve(p) \/ TimeOut(p)
      PROVE  UNCHANGED peers
  BY <1>4 DEF Dial, Send, Receive, Fails, StoreFails, Expire, HubGivesUp, Crash, Serve, Arrive,
     Evict, Release, ReadFrame, ReadFails, WriteFrame, CloseStop, PipeCloses, PipeEnds, TimeOut,
     calls
<1> QED BY <1>2, <1>3, <1>4 DEF Next, Call

(***************************************************************************)
(* The theorems.                                                           *)
(***************************************************************************)
LEMMA MatchingNext ==
  ASSUME Matching, GotInOrder, Next
  PROVE  Matching'
<1>1. PICK p \in Parties :
        \/ Dial(p) \/ Call(p) \/ Expire(p) \/ HubGivesUp(p) \/ Crash(p)
        \/ Serve(p) \/ TimeOut(p)
  BY DEF Next
<1>2. CASE Dial(p)
  BY <1>2, MatchingDial
<1>3. CASE Call(p) \/ Expire(p) \/ HubGivesUp(p) \/ Crash(p)
  BY <1>3, MatchingCall
<1>4. CASE Serve(p) \/ TimeOut(p)
  BY <1>4, MatchingArrive, MatchingLeave, MatchingPipe, MatchingStop DEF Serve
<1> QED BY <1>1, <1>2, <1>3, <1>4

LEMMA MatchingIdle ==
  ASSUME Exchange, UNCHANGED vars
  PROVE  Exchange'
<1> USE DEF vars, calls, net, relay, Exchange
<1>1. Matching'
  BY DEF Matching, TypeOK, MatchedOnce, SlotIsFree, WaitingIsFound, Mates
<1>2. GotInOrder' /\ CardsGoToMates' /\ RowsAreExchanged'
  BY DEF GotInOrder, CardsGoToMates, RowsAreExchanged, Mates, Sent, Delivered, Exchanged
<1> QED BY <1>1, <1>2

\* Parties are matched two by two, and what one has got or stored is its mate's
\* card, sent and forwarded in order.
THEOREM ExchangeHolds == Spec => []Exchange
<1>1. Init => Exchange
  BY MatchingInit, ExchangeInit DEF Exchange
<1>2. Exchange /\ [Next]_vars => Exchange'
  BY MatchingNext, GotInOrderKept, CardsGoToMatesKept, RowsAreExchangedKept, MatchingIdle
  DEF Exchange
<1> QED BY <1>1, <1>2, PTL DEF Spec

\* Every variable of the exchange keeps its type (core/pairing, servePair, pipe).
THEOREM TypeCorrect == Spec => []TypeOK
<1>1. Exchange => TypeOK
  BY DEF Exchange, Matching
<1> QED BY <1>1, ExchangeHolds, PTL

\* However many parties use a code, time out, leave or come back, a party that
\* waits unmatched is the one the slot of its code leads to (servePair).
THEOREM WaitingPartiesAreFound == Spec => []WaitingIsFound
<1>1. Exchange => WaitingIsFound
  BY DEF Exchange, Matching
<1> QED BY <1>1, ExchangeHolds, PTL

\* Of two parties that have exchanged cards one is the initiator of their code.
LEMMA OneInitiates ==
  ASSUME Exchange, NEW p \in Parties, got[p] # None
  PROVE  /\ got[p] \in Parties
         /\ CodeOf[got[p]] = CodeOf[p]
         /\ p \in Initiators \/ got[p] \in Initiators
<1> USE Constants DEF Exchange, Matching
<1>1. PICK q \in Parties : q = got[p]
  BY DEF TypeOK
<1>2. Mates(q, p)
  BY <1>1 DEF Delivered, CardsGoToMates
<1>3. CodeOf[q] = CodeOf[p]
  BY <1>2, OneMate
<1> QED BY <1>1, <1>3 DEF CardsGoToMates

\* Pair draws a new code for every call.
CodesAreFresh == \A i, j \in Initiators : CodeOf[i] = CodeOf[j] => i = j

LEMMA InitiatorIsAnswered ==
  ASSUME Exchange, CodesAreFresh, NEW p \in Initiators, got[p] # None
  PROVE  got[p] \in Parties /\ got[got[p]] = p
<1> USE Constants DEF Exchange, Matching
<1>1. PICK q \in Parties : q = got[p]
  BY DEF TypeOK
<1>2. Mates(q, p) /\ CodeOf[q] = CodeOf[p]
  BY <1>1, OneInitiates DEF Delivered, CardsGoToMates
<1>3. q # p
  BY <1>2 DEF MatchedOnce, Mates
<1>4. q \notin Initiators
  BY <1>2, <1>3 DEF CodesAreFresh
<1>5. got[q] # None
  BY <1>1, <1>4 DEF CardsGoToMates, Sent, Delivered
<1>6. PICK z \in Parties : z = got[q]
  BY <1>5 DEF TypeOK
<1>7. Mates(z, q)
  BY <1>6 DEF CardsGoToMates, Delivered
<1> QED BY <1>1, <1>2, <1>6, <1>7, OneMate

\* Whatever fails on the way, the party whose card an initiator has opened has
\* opened the initiator's: it is the first half of InitiatorIsKnown, and holds
\* also where nodes pair again and again (Rendezvous, servePair, pipe).
THEOREM InitiatorsAreAnswered ==
  ASSUME CodesAreFresh
  PROVE  Spec => [](\A p \in Initiators : got[p] # None => got[got[p]] = p)
<1>1. Exchange => \A p \in Initiators : got[p] # None => got[got[p]] = p
  BY InitiatorIsAnswered
<1> QED BY <1>1, ExchangeHolds, PTL

\* No two codes are made for the same two nodes: a second pairing of nodes that
\* are peers already would leave the words of the first on one side when it is
\* cut short.
TwoNodesPairOnce ==
  \A i, j \in Initiators, x, y \in Parties :
    /\ CodeOf[x] = CodeOf[i] /\ CodeOf[y] = CodeOf[j]
    /\ {NodeOf[i], NodeOf[x]} = {NodeOf[j], NodeOf[y]}
    => i = j

\* Two exchanges between the same nodes are by the same code.
LEMMA OneCode ==
  ASSUME Exchange, TwoNodesPairOnce, NEW a \in Nodes, NEW b \in Nodes,
         NEW p \in Parties, Exchanged(p, a, b) \/ Exchanged(p, b, a),
         NEW r \in Parties, Exchanged(r, a, b) \/ Exchanged(r, b, a)
  PROVE  CodeOf[p] = CodeOf[r]
<1> USE Constants
<1>1. \A s \in Parties : Exchanged(s, a, b) \/ Exchanged(s, b, a) =>
        \E i \in Initiators, x \in Parties :
          /\ CodeOf[x] = CodeOf[i] /\ CodeOf[s] = CodeOf[i]
          /\ {NodeOf[i], NodeOf[x]} = {a, b}
  <2> SUFFICES ASSUME NEW s \in Parties, Exchanged(s, a, b) \/ Exchanged(s, b, a)
               PROVE  \E i \in Initiators, x \in Parties :
                        /\ CodeOf[x] = CodeOf[i] /\ CodeOf[s] = CodeOf[i]
                        /\ {NodeOf[i], NodeOf[x]} = {a, b}
    OBVIOUS
  <2>1. PICK t \in Parties : t = got[s] /\ CodeOf[t] = CodeOf[s] /\ (s \in Initiators \/ t \in Initiators)
    BY OneInitiates DEF Exchanged
  <2>2. {NodeOf[s], NodeOf[t]} = {a, b} /\ {NodeOf[t], NodeOf[s]} = {a, b}
    BY <2>1 DEF Exchanged
  <2> QED BY <2>1, <2>2
<1>2. PICK i \in Initiators, x \in Parties :
        CodeOf[x] = CodeOf[i] /\ CodeOf[p] = CodeOf[i] /\ {NodeOf[i], NodeOf[x]} = {a, b}
  BY <1>1
<1>3. PICK j \in Initiators, y \in Parties :
        CodeOf[y] = CodeOf[j] /\ CodeOf[r] = CodeOf[j] /\ {NodeOf[j], NodeOf[y]} = {a, b}
  BY <1>1
<1>4. i = j
  BY <1>2, <1>3 DEF TwoNodesPairOnce
<1> QED BY <1>2, <1>3, <1>4

\* Whatever fails on the way, a party that made a code and has got a card is not
\* alone, and the words of both rows agree (Rendezvous, UpsertPeer).
THEOREM InitiatorsAreKnown ==
  ASSUME TwoNodesPairOnce
  PROVE  Spec => []InitiatorIsKnown
<1>1. ASSUME Exchange  PROVE InitiatorIsKnown
  <2> USE Constants, <1>1 DEF Exchange, Matching
  <2> SUFFICES ASSUME NEW p \in Initiators, got[p] # None
               PROVE  LET q == got[p]
                          a == NodeOf[p]
                          b == NodeOf[q] IN
                      /\ got[q] = p
                      /\ peers[a][b] # None /\ peers[b][a] # None => peers[a][b] = peers[b][a]
    BY DEF InitiatorIsKnown
  <2>1. PICK q \in Parties : q = got[p]
    BY DEF TypeOK
  <2>2. got[q] = p
    <3>1. CodesAreFresh
      BY DEF TwoNodesPairOnce, CodesAreFresh
    <3> QED BY <2>1, <3>1, InitiatorIsAnswered
  <2>3. PICK a \in Nodes, b \in Nodes : a = NodeOf[p] /\ b = NodeOf[q]
    OBVIOUS
  <2>4. ASSUME peers[a][b] # None, peers[b][a] # None
        PROVE  peers[a][b] = peers[b][a]
    <3>1. PICK r \in Parties : Exchanged(r, a, b) /\ peers[a][b] = SAS(CodeOf[r], Kex[a], Kex[b])
      BY <2>4 DEF RowsAreExchanged
    <3>2. PICK s \in Parties : Exchanged(s, b, a) /\ peers[b][a] = SAS(CodeOf[s], Kex[b], Kex[a])
      BY <2>4 DEF RowsAreExchanged
    <3>3. CodeOf[r] = CodeOf[s]
      BY <3>1, <3>2, OneCode
    <3> QED BY <3>1, <3>2, <3>3, SASIsSymmetric
  <2> QED BY <2>1, <2>2, <2>3, <2>4
<1> QED BY <1>1, ExchangeHolds, PTL
=============================================================================
