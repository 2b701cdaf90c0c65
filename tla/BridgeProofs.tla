----------------------------- MODULE BridgeProofs -----------------------------
(***************************************************************************)
(* For every number of calls, sessions and connections: the safety         *)
(* invariants of Bridge.                                                   *)
(***************************************************************************)
EXTENDS Bridge, TLAPS

(***************************************************************************)
(* The inductive invariant.                                                *)
(***************************************************************************)
ReaderReads == reader.pc \in {"read", "deliver", "blocked", "remove"}

\* Who reads from a connection or writes to one has got one.
HasConnection ==
  /\ ReaderReads \/ reader.pc = "detach" => reader.at \in Conns
  /\ \A r \in Requests :
       pc[r] \in {"register", "write", "await", "detach", "fail"} => at[r] \in Conns

\* An answer is put aside only for one that waits for it, and a session makes
\* no request before it is subscribed to.
AnswersAreAwaited ==
  /\ \A r \in Requests : mail[r] # None => pc[r] \in {"write", "await"}
  /\ \A s \in Sids : stage[s] = "off" => pc[s] = "off"

\* RequestsGoToTheReader, also while the reader is away with a message.
ReaderHasConn == ReaderReads /\ sock[reader.at] = "open" => conn = reader.at

Served == TypeOK /\ HasConnection /\ AnswersAreAwaited /\ PendingIsExact /\ ReaderHasConn

Live(c) == conn = c /\ sock[c] = "open"

NotReplayed(c) == replayer[c] = "off" /\ todo[c] = {} /\ \A s \in Sids : pc[<<c, s>>] = "off"

\* What a connection knows begins with its dial.
BeginsWithDial ==
  /\ closed => conn = None
  /\ \A c \in Conns : sock[c] = "unused" => conn # c /\ NotReplayed(c)
  /\ reader.pc = "off" =>
       /\ conn = None
       /\ \A c \in Conns : NotReplayed(c)
       /\ \A r \in Requests : pc[r] \in {"off", "wait", "failed"}
  /\ \A s \in Sids : stage[s] = "on" => pc[s] = "ok"
  /\ \A s \in table : pc[s] # "off"

\* While a connection is the current one and there, its replay writes to it, and
\* what the replay has written the gateway has been asked.
ReplayAsks ==
  \A c \in Conns, s \in Sids : Live(c) =>
    LET r == <<c, s>> IN
    /\ pc[r] \notin {"detach", "fail"}
    /\ pc[r] \in {"register", "write", "await"} => at[r] = c
    /\ pc[r] \in {"await"} \cup Ended => <<c, r>> \in asked

AskedFor(c, s) == \E r \in Requests : SidOf(r) = s /\ <<c, r>> \in asked

\* A subscription will be replayed, or has been asked for, or asks itself, or
\* has failed to.
Covered(c, s) ==
  \/ replayer[c] = "start"
  \/ s \in todo[c]
  \/ AskedFor(c, s)
  \/ pc[s] = "wait"
  \/ pc[s] \in {"register", "write"} /\ at[s] = c
  \/ pc[s] \in {"detach", "fail", "refused", "transport", "failed"}

EverySubscriptionIsCovered ==
  \A c \in Conns : Live(c) => \A s \in table \ cancelled : Covered(c, s)

Replayed == BeginsWithDial /\ ReplayAsks /\ EverySubscriptionIsCovered

(***************************************************************************)
(* The constants, and what the parts of a step leave alone.                *)
(***************************************************************************)
LEMMA Constants ==
  /\ Requests = Calls \cup Sids \cup Replays
  /\ \A c \in Conns, s \in Sids : <<c, s>> \in Replays /\ <<c, s>> \notin Calls \cup Sids
  /\ \A s \in Sids : s \in Requests /\ s \notin Calls /\ s # None
  /\ \A r \in Calls : r \in Requests /\ r \notin Sids
  /\ \A c \in Conns : c # None
  /\ None \notin Requests \cup {"ok", "refused", "transport"}
  /\ EventCap \in Nat \ {0} /\ MaxEvents \in Nat
BY BridgeAssumption DEF Requests, Replays

LEMMA SessionOfRequest ==
  /\ \A s \in Sids : SidOf(s) = s
  /\ \A c \in Conns, s \in Sids : SidOf(<<c, s>>) = s
<1>1. \A s \in Sids : SidOf(s) = s
  <2> SUFFICES ASSUME NEW s \in Sids  PROVE SidOf(s) = s
    OBVIOUS
  <2>1. s \notin Replays
    BY BridgeAssumption
  <2> QED BY <2>1, Zenon DEF SidOf
<1>2. ASSUME NEW c \in Conns, NEW s \in Sids  PROVE SidOf(<<c, s>>) = s
  <2>1. PICK r \in Replays : r = <<c, s>> /\ r \notin Sids /\ r[2] = s
    BY Constants
  <2>2. SidOf(r) = r[2]
    BY <2>1, Zenon DEF SidOf
  <2> QED BY <2>1, <2>2
<1> QED BY <1>1, <1>2

LEMMA AnswersTyped ==
  ASSUME TypeOK, NEW S \in SUBSET Requests
  PROVE  FailedMail(S) \in [Requests -> {None, "ok", "refused", "transport"}]
BY DEF FailedMail, TypeOK

LEMMA ForgetsTyped ==
  ASSUME TypeOK, NEW c, Forgets(c)
  PROVE  asked' \subseteq Conns \X Requests /\ answers' \subseteq asked'
BY DEF Forgets, TypeOK

LEMMA RemovesTyped ==
  ASSUME TypeOK, NEW s, Removes(s)
  PROVE  table' \subseteq table /\ closing' \subseteq Sids
BY DEF Removes, TypeOK

Messages == Responses \cup Events

LEMMA AppendTyped ==
  ASSUME NEW q \in Seq(Messages), NEW m \in Messages
  PROVE  Append(q, m) \in Seq(Messages)
OBVIOUS

LEMMA FirstTyped ==
  ASSUME NEW q \in Seq(Messages), q # <<>>
  PROVE  Head(q) \in Messages /\ Tail(q) \in Seq(Messages)
OBVIOUS

(***************************************************************************)
(* Types.                                                                  *)
(***************************************************************************)
LEMMA TypeOfRequests ==
  ASSUME TypeOK, HasConnection, NEW r \in Requests, RequestStep(r) \/ GivesUp(r) \/ Call(r)
  PROVE  TypeOK'
<1> USE Constants DEF run, requests, subs, gateway
<1>1. CASE GetConn(r)
  BY <1>1 DEF GetConn, TypeOK
<1>7. CASE Register(r)
  BY <1>7 DEF Register, TypeOK
<1>8. CASE Call(r)
  BY <1>8 DEF Call, TypeOK
<1>2. CASE Write(r)
  <2>1. at[r] \in Conns
    BY <1>2 DEF Write, HasConnection
  <2> QED BY <1>2, <2>1 DEF Write, TypeOK
<1>3. CASE WriteFails(r)
  BY <1>3 DEF WriteFails, TypeOK
<1>9. CASE GivesUp(r)
  BY <1>9 DEF GivesUp, LeftPending, TypeOK, Ended
<1>4. CASE Receives(r)
  <2>1. mail[r] \in Ended
    BY <1>4 DEF Receives, TypeOK, Ended
  <2> QED BY <1>4, <2>1 DEF Receives, TypeOK
<1>5. CASE Detach(r)
  BY <1>5, ForgetsTyped DEF Detach, Detached, TypeOK
<1>6. CASE FailPending(r)
  <2>1. mail' \in [Requests -> {None, "ok", "refused", "transport"}]
    BY <1>6, AnswersTyped DEF FailPending, TypeOK
  <2> QED BY <1>6, <2>1 DEF FailPending, TypeOK, Ended
<1> QED BY <1>1, <1>2, <1>3, <1>4, <1>5, <1>6, <1>7, <1>8, <1>9 DEF RequestStep

LEMMA TypeOfReader ==
  ASSUME TypeOK, HasConnection, ReaderStep
  PROVE  TypeOK'
<1> USE Constants DEF run, requests, subs, gateway
<1>1. CASE ReadResponse \/ ReadEvent
  <2>1. PICK c \in Conns : c = reader.at /\ down[c] \in Seq(Messages) /\ down[c] # <<>>
    BY <1>1 DEF ReadResponse, ReadEvent, HasConnection, ReaderReads, TypeOK, Messages
  <2>2. PICK m \in Messages : m = Head(down[c]) /\ Tail(down[c]) \in Seq(Messages)
    BY <2>1, FirstTyped
  <2>3. CASE ReadResponse
    <3>1. m \in Responses
      BY <2>1, <2>2, <2>3 DEF ReadResponse, Messages, Responses, Events
    <3>2. mail' \in [Requests -> {None, "ok", "refused", "transport"}] /\ pending' \subseteq Requests
      BY <2>1, <2>2, <2>3, <3>1 DEF ReadResponse, Responses, TypeOK
    <3>3. down' \in [Conns -> Seq(Messages)]
      BY <2>1, <2>2, <2>3 DEF ReadResponse, TypeOK, Messages
    <3> QED BY <2>3, <3>2, <3>3 DEF ReadResponse, TypeOK, Messages
  <2>4. CASE ReadEvent
    <3>1. m \in Events
      BY <2>1, <2>2, <2>4 DEF ReadEvent, Messages, Responses, Events
    <3>2. reader' = reader \/ reader' = [pc |-> "deliver", at |-> reader.at, sid |-> m.of]
      BY <2>1, <2>2, <2>4 DEF ReadEvent
    <3>3. down' \in [Conns -> Seq(Messages)]
      BY <2>1, <2>2, <2>4 DEF ReadEvent, TypeOK, Messages
    <3> QED BY <2>4, <3>1, <3>2, <3>3 DEF ReadEvent, TypeOK, Messages, Events
  <2> QED BY <1>1, <2>3, <2>4
<1>2. CASE ReadFails \/ ReaderStops \/ DeliverPanics \/ DeliverIsCancelled \/ DeliverBlocks
  <2>1. reader' \in [pc : {"off", "dial", "read", "deliver", "blocked", "remove",
                           "detach", "fail", "done"},
                     at : Conns \cup {None}, sid : Sids \cup {None}]
    BY <1>2
    DEF ReadFails, ReaderStops, DeliverPanics, DeliverIsCancelled, DeliverBlocks,
        Removing, Reading, Goes, TypeOK
  <2>2. panicked' \in BOOLEAN
        /\ UNCHANGED <<conn, replayer, todo, closed, requests, subs, gateway>>
    BY <1>2 DEF ReadFails, ReaderStops, DeliverPanics, DeliverIsCancelled, DeliverBlocks, TypeOK
  <2> QED BY <2>1, <2>2 DEF TypeOK
<1>3. CASE DeliverSends
  <2>1. buffered' \in [Sids -> 0..EventCap]
    <3>1. \A v \in 0..EventCap : v < EventCap => v + 1 \in 0..EventCap
      OBVIOUS
    <3>2. CASE reader.sid \in Sids
      BY <1>3, <3>1, <3>2 DEF DeliverSends, HasRoom, TypeOK
    <3>3. CASE reader.sid \notin Sids
      BY <1>3, <3>3 DEF DeliverSends, TypeOK
    <3> QED BY <3>2, <3>3
  <2> QED BY <1>3, <2>1 DEF DeliverSends, Reading, TypeOK
<1>4. CASE ReaderRemoves
  BY <1>4, RemovesTyped DEF ReaderRemoves, Reading, TypeOK
<1>5. CASE ReaderDetaches
  <2>1. conn' \in Conns \cup {None}
    BY <1>5 DEF ReaderDetaches, Detached, TypeOK
  <2>2. /\ down' = [down EXCEPT ![reader.at] = <<>>]
        /\ sock' = [sock EXCEPT ![reader.at] = "closed"]
        /\ reader' = Goes("fail")
        /\ Forgets(reader.at)
        /\ UNCHANGED <<replayer, todo, closed, panicked, requests, subs, events>>
    BY <1>5 DEF ReaderDetaches
  <2>3. down' \in [Conns -> Seq(Messages)] /\ sock' \in [Conns -> {"unused", "open", "lost", "closed"}]
    <3>1. <<>> \in Seq(Messages) /\ reader.at \in Conns
      BY <1>5 DEF ReaderDetaches, HasConnection
    <3> QED BY <2>2, <3>1 DEF TypeOK, Messages
  <2> QED BY <2>1, <2>2, <2>3, ForgetsTyped DEF Goes, TypeOK, Messages
<1>6. CASE ReaderFailsPending
  <2>1. mail' \in [Requests -> {None, "ok", "refused", "transport"}]
    BY <1>6, AnswersTyped DEF ReaderFailsPending, TypeOK
  <2>2. /\ pending' = {} /\ reader' = [pc |-> "dial", at |-> None, sid |-> None]
        /\ UNCHANGED <<conn, replayer, todo, closed, panicked, pc, at, subs, gateway>>
    BY <1>6 DEF ReaderFailsPending
  <2> QED BY <2>1, <2>2 DEF TypeOK
<1> QED BY <1>1, <1>2, <1>3, <1>4, <1>5, <1>6 DEF ReaderStep

LEMMA TypeOfConnections ==
  ASSUME TypeOK, NEW c \in Conns, Connect(c) \/ Reconnect(c) \/ ReplayStep(c)
  PROVE  TypeOK'
<1> USE Constants DEF run, requests, subs, gateway
<1>1. CASE Connect(c)
  BY <1>1 DEF Connect, TypeOK
<1>4. CASE Reconnect(c)
  BY <1>4 DEF Reconnect, ReplayerOf, TypeOK
<1>2. CASE ReplayStarts(c) \/ ReplayStops(c)
  <2>1. /\ replayer' \in [Conns -> {"off", "start", "loop", "end"}]
        /\ todo' \in [Conns -> SUBSET Sids]
    BY <1>2 DEF ReplayStarts, ReplayStops, TypeOK
  <2>2. UNCHANGED <<conn, reader, closed, panicked, requests, subs, gateway>>
    BY <1>2 DEF ReplayStarts, ReplayStops
  <2> QED BY <2>1, <2>2 DEF TypeOK
<1>3. ASSUME NEW s \in Sids, Replay(c, s) \/ ReplayEnds(c, s)  PROVE TypeOK'
  <2>1. todo' = [todo EXCEPT ![c] = todo[c] \ {s}] \/ todo' = todo
    BY <1>3 DEF Replay, ReplayEnds
  <2>2. table' \subseteq table /\ closing' \subseteq Sids
    BY <1>3, RemovesTyped DEF Replay, ReplayEnds, TypeOK
  <2>3. pc' \in [Requests -> Ended \cup
                     {"off", "wait", "register", "write", "await", "detach", "fail"}]
    BY <1>3 DEF Replay, ReplayEnds, TypeOK
  <2>4. UNCHANGED <<conn, reader, replayer, closed, panicked, at, mail, pending,
                    shut, stage, cancelled, buffered, waits, gateway>>
    BY <1>3 DEF Replay, ReplayEnds
  <2>5. todo' \in [Conns -> SUBSET Sids]
    <3>1. todo[c] \in SUBSET Sids /\ todo[c] \ {s} \in SUBSET Sids
      BY DEF TypeOK
    <3>2. todo \in [Conns -> SUBSET Sids]
      BY DEF TypeOK
    <3> QED BY <2>1, <3>1, <3>2
  <2> QED BY <2>2, <2>3, <2>4, <2>5 DEF TypeOK
<1> QED BY <1>1, <1>2, <1>3, <1>4 DEF ReplayStep

LEMMA TypeOfSubscriptions ==
  ASSUME TypeOK, NEW s \in Sids, SubscriberStep(s) \/ Subscribe(s) \/ Cancel(s)
  PROVE  TypeOK'
<1> USE Constants DEF run, requests, subs, gateway
<1>1. CASE SubscribeEnds(s) \/ CancelRemoves(s)
  <2>1. table' \subseteq table /\ closing' \subseteq Sids
    BY <1>1, RemovesTyped DEF SubscribeEnds, CancelRemoves, TypeOK
  <2>2. stage' \in [Sids -> {"off", "asking", "on", "over"}]
    BY <1>1 DEF SubscribeEnds, CancelRemoves, TypeOK
  <2>3. UNCHANGED <<run, requests, shut, cancelled, buffered, waits, gateway>>
    BY <1>1 DEF SubscribeEnds, CancelRemoves
  <2> QED BY <2>1, <2>2, <2>3 DEF TypeOK
<1>2. CASE Shut(s)
  BY <1>2 DEF Shut, TypeOK
<1>5. CASE HubGoesOn(s)
  BY <1>5 DEF HubGoesOn, TypeOK
<1>6. CASE Subscribe(s)
  BY <1>6 DEF Subscribe, TypeOK
<1>3. CASE Cancel(s)
  BY <1>3 DEF Cancel, Woken, Removing, Goes, TypeOK
<1>4. CASE Takes(s)
  <2>1. reader' = reader \/ reader' = Reading
    BY <1>4 DEF Takes, Woken
  <2>2. buffered' \in [Sids -> 0..EventCap]
    BY <1>4 DEF Takes, TypeOK
  <2>3. /\ pc' = pc \/ (\E r \in Calls : pc' = [pc EXCEPT ![r] = "wait"])
        /\ waits' = waits \/ (\E r \in Calls : waits' = [waits EXCEPT ![s] = r])
        /\ UNCHANGED <<conn, replayer, todo, closed, panicked, at, mail, pending,
                       table, closing, shut, stage, cancelled, gateway>>
    BY <1>4 DEF Takes
  <2>4. pc' \in [Requests -> Ended \cup
                     {"off", "wait", "register", "write", "await", "detach", "fail"}]
    BY <2>3 DEF TypeOK
  <2>5. waits' \in [Sids -> Calls \cup {None}]
    <3>1. waits \in [Sids -> Calls \cup {None}]
      BY DEF TypeOK
    <3>2. ASSUME NEW r \in Calls, waits' = [waits EXCEPT ![s] = r]
          PROVE  waits' \in [Sids -> Calls \cup {None}]
      BY <3>1, <3>2
    <3> QED BY <2>3, <3>1, <3>2
  <2> QED BY <2>1, <2>2, <2>3, <2>4, <2>5 DEF Reading, TypeOK
<1> QED BY <1>1, <1>2, <1>3, <1>4, <1>5, <1>6 DEF SubscriberStep

LEMMA TypeOfGateway ==
  ASSUME TypeOK, GatewayStep
  PROVE  TypeOK'
<1> USE Constants DEF run, requests, subs, gateway
<1>1. ASSUME NEW c \in Conns, Lose(c)  PROVE TypeOK'
  BY <1>1, ForgetsTyped DEF Lose, TypeOK
<1>2. ASSUME NEW c \in Conns, NEW r \in Requests, NEW body \in {"ok", "refused"}, Answer(c, r, body)
      PROVE  TypeOK'
  <2>1. PICK m \in Messages : m = [type |-> "res", of |-> r, body |-> body]
    BY DEF Messages, Responses
  <2>2. down[c] \in Seq(Messages)
    BY DEF TypeOK, Messages
  <2>3. down' = [down EXCEPT ![c] = Append(down[c], m)] /\ Append(down[c], m) \in Seq(Messages)
    BY <1>2, <2>1, <2>2, AppendTyped DEF Answer
  <2>4. down' \in [Conns -> Seq(Messages)]
    BY <2>3 DEF TypeOK, Messages
  <2> QED BY <1>2, <2>4 DEF Answer, TypeOK, Messages
<1>3. ASSUME NEW c \in Conns, NEW s \in Sids, Event(c, s)
      PROVE  TypeOK'
  <2>1. PICK m \in Messages : m = [type |-> "event", of |-> s, body |-> None]
    BY DEF Messages, Events
  <2>2. down[c] \in Seq(Messages)
    BY DEF TypeOK, Messages
  <2>3. down' = [down EXCEPT ![c] = Append(down[c], m)] /\ Append(down[c], m) \in Seq(Messages)
    BY <1>3, <2>1, <2>2, AppendTyped DEF Event
  <2>4. down' \in [Conns -> Seq(Messages)]
    BY <2>3 DEF TypeOK, Messages
  <2> QED BY <1>3, <2>4 DEF Event, TypeOK, Messages
<1> QED BY <1>1, <1>2, <1>3 DEF GatewayStep

LEMMA TypeOfClose ==
  ASSUME TypeOK, Close
  PROVE  TypeOK'
<1>1. mail' \in [Requests -> {None, "ok", "refused", "transport"}]
  BY AnswersTyped DEF Close, TypeOK
<1>2. sock' \in [Conns -> {"unused", "open", "lost", "closed"}]
  BY DEF Close, TypeOK
<1> QED BY <1>1, <1>2 DEF Close, ClosedSubs, Reading, TypeOK

LEMMA TypeKept ==
  ASSUME TypeOK, HasConnection, Next
  PROVE  TypeOK'
BY Constants, TypeOfRequests, TypeOfReader, TypeOfConnections, TypeOfSubscriptions,
   TypeOfGateway, TypeOfClose DEF Next, CallerStep

(***************************************************************************)
(* The requests and the table of those that wait.                          *)
(***************************************************************************)
OtherStep ==
  \/ ReaderStep
  \/ \E c \in Conns : Connect(c) \/ Reconnect(c) \/ ReplayStep(c)
  \/ \E s \in Sids : SubscriberStep(s)
  \/ GatewayStep
  \/ CallerStep

LEMMA NextIs == Next <=> ~panicked /\ ((\E r \in Requests : RequestStep(r) \/ GivesUp(r)) \/ OtherStep)
BY Zenon DEF Next, OtherStep

\* A request is answered, or left where it is.
MailArrives ==
  \A r \in Requests :
    \/ mail'[r] = mail[r] /\ (r \in pending' <=> r \in pending)
    \/ r \in pending /\ r \notin pending' /\ mail'[r] # None

\* What is not done by a request itself starts one or answers it.
RequestsRest ==
  /\ UNCHANGED at
  /\ \A r \in Requests : pc'[r] = pc[r] \/ (pc[r] = "off" /\ pc'[r] = "wait")
  /\ \A s \in Sids : stage'[s] = "off" => stage[s] = "off" /\ pc'[s] = pc[s]

LEMMA AllFail ==
  ASSUME TypeOK, mail' = FailedMail(pending), pending' = {}
  PROVE  MailArrives
BY Constants DEF FailedMail, MailArrives, TypeOK

LEMMA OthersRest ==
  ASSUME TypeOK, HasConnection, AnswersAreAwaited, OtherStep
  PROVE  RequestsRest /\ MailArrives
<1> USE Constants DEF run, requests, subs, gateway
<1>1. ASSUME UNCHANGED <<pc, at, stage>>  PROVE RequestsRest
  BY <1>1 DEF RequestsRest
<1>2. ASSUME UNCHANGED <<mail, pending>>  PROVE MailArrives
  BY <1>2 DEF MailArrives
<1>3. CASE ReaderStep
  <2>1. RequestsRest
    BY <1>1, <1>3
    DEF ReaderStep, ReadResponse, ReadEvent, ReadFails, ReaderStops, DeliverSends,
        DeliverPanics, DeliverIsCancelled, DeliverBlocks, ReaderRemoves, ReaderDetaches,
        ReaderFailsPending
  <2>2. CASE ReadResponse
    <3>1. PICK c \in Conns : c = reader.at /\ down[c] \in Seq(Messages) /\ down[c] # <<>>
      BY <2>2 DEF ReadResponse, HasConnection, ReaderReads, TypeOK, Messages
    <3>2. PICK m \in Messages : m = Head(down[c])
      BY <3>1, FirstTyped
    <3>3. /\ m.of \in Requests /\ m.body \in {"ok", "refused"}
          /\ pending' = pending \ {m.of}
          /\ mail' = IF m.of \in pending THEN [mail EXCEPT ![m.of] = m.body] ELSE mail
      BY <2>2, <3>1, <3>2 DEF ReadResponse, Messages, Responses, Events
    <3>4. MailArrives
      BY <3>3 DEF MailArrives, TypeOK
    <3> QED BY <2>1, <3>4
  <2>3. CASE ReaderFailsPending
    BY <2>1, <2>3, AllFail DEF ReaderFailsPending
  <2>4. CASE ~ReadResponse /\ ~ReaderFailsPending
    BY <1>2, <1>3, <2>1, <2>4
    DEF ReaderStep, ReadEvent, ReadFails, ReaderStops, DeliverSends,
        DeliverPanics, DeliverIsCancelled, DeliverBlocks, ReaderRemoves, ReaderDetaches
  <2> QED BY <2>2, <2>3, <2>4
<1>4. ASSUME NEW c \in Conns, Connect(c) \/ Reconnect(c) \/ ReplayStarts(c) \/ ReplayStops(c)
      PROVE  RequestsRest /\ MailArrives
  BY <1>1, <1>2, <1>4 DEF Connect, Reconnect, ReplayStarts, ReplayStops
<1>5. ASSUME NEW c \in Conns, NEW s \in Sids, Replay(c, s) \/ ReplayEnds(c, s)
      PROVE  RequestsRest /\ MailArrives
  <2>1. UNCHANGED <<at, stage, mail, pending>>
    BY <1>5 DEF Replay, ReplayEnds
  <2>2. pc' = pc \/ (pc[<<c, s>>] = "off" /\ pc' = [pc EXCEPT ![<<c, s>>] = "wait"])
    BY <1>5 DEF Replay, ReplayEnds, NoneInProgress
  <2>3. \A t \in Sids : pc'[t] = pc[t]
    BY <2>2 DEF TypeOK
  <2> QED BY <1>2, <2>1, <2>2, <2>3 DEF RequestsRest, TypeOK
<1>6. ASSUME NEW s \in Sids, SubscribeEnds(s) \/ CancelRemoves(s) \/ Shut(s) \/ HubGoesOn(s)
             \/ Takes(s)
      PROVE  RequestsRest /\ MailArrives
  <2>1. UNCHANGED <<at, mail, pending>>
    BY <1>6 DEF SubscribeEnds, CancelRemoves, Shut, HubGoesOn, Takes
  <2>2. pc' = pc \/ \E r \in Calls : pc[r] = "off" /\ pc' = [pc EXCEPT ![r] = "wait"]
    BY <1>6 DEF SubscribeEnds, CancelRemoves, Shut, HubGoesOn, Takes
  <2>3. \A t \in Sids : stage'[t] = stage[t] \/ stage'[t] # "off"
    BY <1>6 DEF SubscribeEnds, CancelRemoves, Shut, HubGoesOn, Takes, TypeOK
  <2> QED BY <1>2, <2>1, <2>2, <2>3 DEF RequestsRest, TypeOK
<1>7. CASE GatewayStep
  BY <1>1, <1>2, <1>7 DEF GatewayStep, Lose, Answer, Event
<1>8. ASSUME NEW r \in Calls, Call(r)  PROVE RequestsRest /\ MailArrives
  BY <1>2, <1>8 DEF Call, RequestsRest, TypeOK
<1>9. ASSUME NEW s \in Sids, Subscribe(s)  PROVE RequestsRest /\ MailArrives
  BY <1>2, <1>9 DEF Subscribe, RequestsRest, AnswersAreAwaited, TypeOK
<1>10. ASSUME NEW s \in Sids, Cancel(s)  PROVE RequestsRest /\ MailArrives
  BY <1>1, <1>2, <1>10 DEF Cancel
<1>11. CASE Close
  BY <1>1, <1>11, AllFail DEF Close
<1> QED BY <1>3, <1>4, <1>5, <1>6, <1>7, <1>8, <1>9, <1>10, <1>11
        DEF OtherStep, ReplayStep, SubscriberStep, CallerStep

\* An entry of the table is one that waits, whatever happens to it.
LEMMA PendingKept ==
  ASSUME TypeOK, HasConnection, AnswersAreAwaited, PendingIsExact, Next
  PROVE  AnswersAreAwaited' /\ PendingIsExact'
<1> USE Constants DEF run, requests, subs, gateway
<1> DEFINE Exact ==
      \A r \in Requests : /\ r \in pending <=> pc[r] \in {"write", "await"} /\ mail[r] = None
                          /\ mail[r] # None => pc[r] \in {"write", "await"}
<1>1. Exact
  BY DEF AnswersAreAwaited, PendingIsExact
<1>2. TypeOK'
  BY TypeKept
<1>3. CASE OtherStep
  <2>1. RequestsRest /\ MailArrives
    BY <1>3, OthersRest
  <2>2. Exact'
    BY <1>1, <2>1 DEF RequestsRest, MailArrives
  <2>3. \A s \in Sids : stage'[s] = "off" => pc'[s] = "off"
    BY <2>1 DEF RequestsRest, AnswersAreAwaited
  <2>4. pending' \subseteq Requests
    BY <1>2 DEF TypeOK
  <2> QED BY <2>2, <2>3, <2>4 DEF AnswersAreAwaited, PendingIsExact
<1>4. ASSUME NEW r \in Requests, RequestStep(r) \/ GivesUp(r)
      PROVE  AnswersAreAwaited' /\ PendingIsExact'
  <2>1. /\ pc[r] # "off" /\ UNCHANGED stage
        /\ \E v \in Ended \cup {"register", "write", "await", "detach", "fail"} :
             pc' = [pc EXCEPT ![r] = v]
    BY <1>4 DEF RequestStep, GetConn, Register, Write, WriteFails, Receives, Detach,
       FailPending, GivesUp, TypeOK, Ended
  <2>2. \A s \in Sids : stage'[s] = "off" => pc'[s] = "off"
    BY <2>1 DEF AnswersAreAwaited, TypeOK
  <2>3. \A q \in Requests : q # r => pc'[q] = pc[q]
    BY <2>1 DEF TypeOK
  <2>4. Exact'
    <3>1. CASE GetConn(r)
      BY <3>1, <1>1 DEF GetConn, TypeOK
    <3>2. CASE Register(r)
      <4>1. pc'[r] = "write" /\ mail' = mail /\ pending' = pending \cup {r} /\ mail[r] = None
        BY <3>2, <1>1 DEF Register, TypeOK
      <4> QED BY <4>1, <2>3, <1>1
    <3>3. CASE Write(r)
      <4>1. pc[r] = "write" /\ pc'[r] = "await" /\ mail' = mail /\ pending' = pending
        BY <3>3 DEF Write, TypeOK
      <4> QED BY <4>1, <2>3, <1>1
    <3>4. CASE WriteFails(r)
      <4>1. pc'[r] = "detach" /\ pending' = pending \ {r} /\ mail' = [mail EXCEPT ![r] = None]
        BY <3>4 DEF WriteFails, TypeOK
      <4> QED BY <4>1, <2>3, <1>1 DEF TypeOK
    <3>5. CASE GivesUp(r)
      <4>1. pc'[r] = "failed" /\ pending' = pending \ {r} /\ mail' = [mail EXCEPT ![r] = None]
        BY <3>5 DEF GivesUp, LeftPending, TypeOK
      <4> QED BY <4>1, <2>3, <1>1 DEF TypeOK
    <3>6. CASE Receives(r)
      <4>1. /\ mail[r] \in {"ok", "refused", "transport"} /\ pc'[r] = mail[r]
            /\ pending' = pending /\ mail' = [mail EXCEPT ![r] = None]
        BY <3>6 DEF Receives, TypeOK
      <4> QED BY <4>1, <2>3, <1>1 DEF TypeOK
    <3>7. CASE Detach(r)
      <4>1. pc[r] = "detach" /\ pc'[r] = "fail" /\ mail' = mail /\ pending' = pending
        BY <3>7 DEF Detach, TypeOK
      <4> QED BY <4>1, <2>3, <1>1
    <3>8. CASE FailPending(r)
      <4>1. /\ pc[r] = "fail" /\ pc'[r] = "failed" /\ pending' = {}
            /\ \A q \in Requests : mail'[q] = IF q \in pending THEN "transport" ELSE mail[q]
        BY <3>8 DEF FailPending, FailedMail, TypeOK
      <4> QED BY <4>1, <2>3, <1>1
    <3> QED BY <1>4, <3>1, <3>2, <3>3, <3>4, <3>5, <3>6, <3>7, <3>8 DEF RequestStep
  <2>5. pending' \subseteq Requests
    BY <1>2 DEF TypeOK
  <2> QED BY <2>2, <2>4, <2>5 DEF AnswersAreAwaited, PendingIsExact
<1> QED BY <1>3, <1>4, NextIs

(***************************************************************************)
(* The reader and the current connection.                                  *)
(***************************************************************************)
\* The reader stays with its connection, or leaves it.
ReaderStays ==
  /\ ReaderReads' => ReaderReads /\ reader'.at = reader.at
  /\ reader'.pc = "detach" => (ReaderReads \/ reader.pc = "detach") /\ reader'.at = reader.at

\* Unless they dial, detach or close, steps leave the current connection alone.
LEMMA ReaderMoves ==
  ASSUME TypeOK, Next
  PROVE  \/ ReaderStays /\ UNCHANGED <<conn, sock>>
         \/ ReaderStays /\ UNCHANGED conn /\ \E c \in Conns : Lose(c)
         \/ ReaderStays /\ UNCHANGED reader /\ \E r \in Requests : Detach(r)
         \/ ReaderStays /\ (Close \/ ReaderDetaches)
         \/ \E c \in Conns : Connect(c) \/ Reconnect(c)
<1> USE DEF run, requests, subs, gateway
<1>1. ASSUME reader' = reader  PROVE ReaderStays
  BY <1>1 DEF ReaderStays, ReaderReads
<1>2. ASSUME NEW r \in Requests, RequestStep(r) \/ GivesUp(r), ~Detach(r)
      PROVE  UNCHANGED <<reader, conn, sock>>
  BY <1>2 DEF RequestStep, GetConn, Register, Write, WriteFails, Receives, FailPending, GivesUp
<1>3. ASSUME NEW r \in Requests, Detach(r)  PROVE UNCHANGED reader
  BY <1>3 DEF Detach
<1>4. ASSUME ReaderStep, ~ReaderDetaches  PROVE ReaderStays /\ UNCHANGED <<conn, sock>>
  BY <1>4 DEF ReaderStep, ReadResponse, ReadEvent, ReadFails, ReaderStops, DeliverSends,
     DeliverPanics, DeliverIsCancelled, DeliverBlocks, ReaderRemoves, ReaderFailsPending,
     ReaderStays, ReaderReads, Reading, Removing, Goes
<1>5. ASSUME ReaderDetaches  PROVE ReaderStays
  BY <1>5 DEF ReaderDetaches, ReaderStays, ReaderReads, Goes
<1>6. ASSUME NEW c \in Conns, ReplayStep(c)  PROVE UNCHANGED <<reader, conn, sock>>
  BY <1>6 DEF ReplayStep, ReplayStarts, ReplayStops, Replay, ReplayEnds
<1>7. ASSUME NEW s \in Sids, SubscriberStep(s)  PROVE ReaderStays /\ UNCHANGED <<conn, sock>>
  BY <1>7 DEF SubscriberStep, SubscribeEnds, CancelRemoves, Shut, Takes, HubGoesOn,
     Woken, Reading, ReaderStays, ReaderReads
<1>8. CASE GatewayStep
  BY <1>1, <1>8 DEF GatewayStep, Lose, Answer, Event
<1>9. CASE CallerStep
  BY <1>9 DEF CallerStep, Call, Subscribe, Cancel, Close, Woken, Reading, Removing, Goes,
     ReaderStays, ReaderReads
<1> QED BY <1>1, <1>2, <1>3, <1>4, <1>5, <1>6, <1>7, <1>8, <1>9 DEF Next

\* Whoever forgets a connection has closed it, and whoever dials reads.
LEMMA ReaderHasConnKept ==
  ASSUME TypeOK, HasConnection, ReaderHasConn, Next
  PROVE  ReaderHasConn'
<1> USE Constants
<1>1. CASE ReaderStays /\ UNCHANGED <<conn, sock>>
  BY <1>1 DEF ReaderStays, ReaderHasConn
<1>2. ASSUME ReaderStays, UNCHANGED conn, NEW c \in Conns, Lose(c)  PROVE ReaderHasConn'
  <2>1. \A d \in Conns : sock'[d] = "open" => sock[d] = "open"
    BY <1>2 DEF Lose, TypeOK
  <2> QED BY <1>2, <2>1 DEF ReaderStays, ReaderHasConn, HasConnection
<1>3. ASSUME ReaderStays, UNCHANGED reader, NEW r \in Requests, Detach(r)  PROVE ReaderHasConn'
  <2>1. \A d \in Conns : sock'[d] = IF d = at[r] THEN "closed" ELSE sock[d]
    BY <1>3 DEF Detach, TypeOK
  <2>2. conn' = IF conn = at[r] THEN None ELSE conn
    BY <1>3 DEF Detach, Detached
  <2> QED BY <1>3, <2>1, <2>2 DEF ReaderStays, ReaderReads, ReaderHasConn, HasConnection
<1>4. CASE ReaderStays /\ ReaderDetaches
  BY <1>4 DEF ReaderDetaches, ReaderHasConn, ReaderReads, Goes
<1>5. CASE ReaderStays /\ Close
  <2>1. \A d \in Conns : sock'[d] = IF d = conn THEN "closed" ELSE sock[d]
    BY <1>5 DEF Close
  <2> QED BY <1>5, <2>1 DEF ReaderStays, ReaderHasConn, HasConnection
<1>6. ASSUME NEW c \in Conns, Connect(c) \/ Reconnect(c)  PROVE ReaderHasConn'
  BY <1>6 DEF Connect, Reconnect, ReaderHasConn
<1> QED BY <1>1, <1>2, <1>3, <1>4, <1>5, <1>6, ReaderMoves

LEMMA HasConnectionKept ==
  ASSUME TypeOK, HasConnection, AnswersAreAwaited, Next
  PROVE  HasConnection'
<1> USE Constants
<1>1. ReaderReads' \/ reader'.pc = "detach" => reader'.at \in Conns
  <2>1. CASE ReaderStays
    BY <2>1 DEF ReaderStays, HasConnection
  <2>2. ASSUME NEW c \in Conns, Connect(c) \/ Reconnect(c)  PROVE reader'.at \in Conns
    BY <2>2 DEF Connect, Reconnect
  <2> QED BY <2>1, <2>2, ReaderMoves
<1>2. ASSUME OtherStep, NEW r \in Requests,
             pc'[r] \in {"register", "write", "await", "detach", "fail"}
      PROVE  at'[r] \in Conns
  BY <1>2, OthersRest DEF RequestsRest, HasConnection
<1>3. ASSUME NEW q \in Requests, RequestStep(q) \/ GivesUp(q), NEW r \in Requests,
             pc'[r] \in {"register", "write", "await", "detach", "fail"}
      PROVE  at'[r] \in Conns
  <2>1. CASE GetConn(q)
    BY <1>3, <2>1 DEF GetConn, HasConnection, TypeOK
  <2>2. CASE Register(q) \/ Write(q) \/ WriteFails(q) \/ Detach(q)
    <3>1. /\ pc[q] \in {"register", "write", "await", "detach", "fail"}
          /\ at' = at /\ \E v \in {"write", "await", "detach", "fail"} : pc' = [pc EXCEPT ![q] = v]
      BY <2>2 DEF Register, Write, WriteFails, Detach
    <3> QED BY <1>3, <3>1 DEF HasConnection, TypeOK
  <2>3. CASE Receives(q) \/ FailPending(q) \/ GivesUp(q)
    <3>1. /\ at' = [at EXCEPT ![q] = None]
          /\ \E v \in Ended : pc' = [pc EXCEPT ![q] = v]
      BY <2>3 DEF Receives, FailPending, GivesUp, TypeOK, Ended
    <3> QED BY <1>3, <3>1 DEF HasConnection, TypeOK, Ended
  <2> QED BY <1>3, <2>1, <2>2, <2>3 DEF RequestStep
<1> QED BY <1>1, <1>2, <1>3, NextIs DEF HasConnection

LEMMA ServedInit == Init => Served
<1> SUFFICES ASSUME Init  PROVE Served
  OBVIOUS
<1> USE Constants
<1>1. TypeOK
  <2>1. <<>> \in Seq(Responses \cup Events)
    OBVIOUS
  <2>2. /\ down \in [Conns -> Seq(Responses \cup Events)]
        /\ mail \in [Requests -> {None, "ok", "refused", "transport"}]
        /\ buffered \in [Sids -> 0..EventCap]
        /\ events \in 0..MaxEvents
    BY <2>1 DEF Init
  <2> QED BY <2>2 DEF Init, TypeOK
<1>2. HasConnection /\ AnswersAreAwaited /\ PendingIsExact /\ ReaderHasConn
  BY DEF Init, HasConnection, AnswersAreAwaited, PendingIsExact, ReaderHasConn, ReaderReads
<1> QED BY <1>1, <1>2 DEF Served

LEMMA ServedKept ==
  ASSUME Served, [Next]_vars
  PROVE  Served'
<1>1. CASE Next
  BY <1>1, TypeKept, HasConnectionKept, PendingKept, ReaderHasConnKept DEF Served
<1>2. CASE UNCHANGED vars
  <2> USE <1>2 DEF vars, run, requests, subs, gateway, Served
  <2>1. TypeOK'
    BY DEF TypeOK
  <2>2. HasConnection' /\ AnswersAreAwaited' /\ PendingIsExact' /\ ReaderHasConn'
    BY DEF HasConnection, AnswersAreAwaited, PendingIsExact, ReaderHasConn, ReaderReads
  <2> QED BY <2>1, <2>2
<1> QED BY <1>1, <1>2

(***************************************************************************)
(* What the gateway has been asked on a connection.                        *)
(***************************************************************************)
LEMMA AskedGrows ==
  ASSUME TypeOK, HasConnection, Next
  PROVE  asked \subseteq asked' \/ \E c \in Conns : Forgets(c) /\ sock'[c] # "open"
<1> USE DEF run, requests, subs, gateway
<1>1. ASSUME NEW r \in Requests, RequestStep(r) \/ GivesUp(r), ~Detach(r)
      PROVE  asked \subseteq asked'
  BY <1>1 DEF RequestStep, GetConn, Register, Write, WriteFails, Receives, FailPending, GivesUp
<1>2. ASSUME NEW r \in Requests, Detach(r)
      PROVE  \E c \in Conns : Forgets(c) /\ sock'[c] # "open"
  BY <1>2 DEF Detach, HasConnection, TypeOK
<1>3. ASSUME ReaderDetaches  PROVE \E c \in Conns : Forgets(c) /\ sock'[c] # "open"
  BY <1>3 DEF ReaderDetaches, HasConnection, TypeOK
<1>4. ASSUME ReaderStep, ~ReaderDetaches  PROVE asked' = asked
  BY <1>4 DEF ReaderStep, ReadResponse, ReadEvent, ReadFails, ReaderStops, DeliverSends,
     DeliverPanics, DeliverIsCancelled, DeliverBlocks, ReaderRemoves, ReaderFailsPending
<1>5. ASSUME NEW c \in Conns, Lose(c)  PROVE Forgets(c) /\ sock'[c] # "open"
  BY <1>5 DEF Lose, TypeOK
<1>6. ASSUME GatewayStep, \A c \in Conns : ~Lose(c)  PROVE asked' = asked
  BY <1>6 DEF GatewayStep, Answer, Event
<1>7. ASSUME NEW c \in Conns, Connect(c) \/ Reconnect(c) \/ ReplayStep(c)  PROVE asked' = asked
  BY <1>7 DEF Connect, Reconnect, ReplayStep, ReplayStarts, ReplayStops, Replay, ReplayEnds
<1>8. ASSUME NEW s \in Sids, SubscriberStep(s)  PROVE asked' = asked
  BY <1>8 DEF SubscriberStep, SubscribeEnds, CancelRemoves, Shut, Takes, HubGoesOn
<1>9. CASE CallerStep
  BY <1>9 DEF CallerStep, Call, Subscribe, Cancel, Close
<1> QED BY <1>1, <1>2, <1>3, <1>4, <1>5, <1>6, <1>7, <1>8, <1>9 DEF Next

\* A connection is the current one from its dial on, and what it has asked for
\* stays asked for.
LEMMA LiveSinceDial ==
  ASSUME TypeOK, HasConnection, Next, NEW c \in Conns, Live(c)'
  PROVE  \/ Connect(c) \/ Reconnect(c)
         \/ Live(c) /\ \A r \in Requests : <<c, r>> \in asked => <<c, r>> \in asked'
<1> USE Constants
<1>1. \A r \in Requests : <<c, r>> \in asked => <<c, r>> \in asked'
  BY AskedGrows DEF Forgets, Live
<1>2. CASE UNCHANGED <<conn, sock>>
  BY <1>1, <1>2 DEF Live
<1>3. ASSUME UNCHANGED conn, NEW d \in Conns, Lose(d)  PROVE Live(c)
  BY <1>3 DEF Live, Lose, TypeOK
<1>4. ASSUME NEW r \in Requests, Detach(r)  PROVE Live(c)
  BY <1>4 DEF Live, Detach, Detached, TypeOK
<1>5. ASSUME Close  PROVE Live(c)
  BY <1>5 DEF Live, Close
<1>6. ASSUME ReaderDetaches  PROVE Live(c)
  BY <1>6 DEF Live, ReaderDetaches, Detached, TypeOK
<1>7. ASSUME NEW d \in Conns, Connect(d) \/ Reconnect(d)  PROVE Connect(c) \/ Reconnect(c)
  BY <1>7 DEF Live, Connect, Reconnect
<1> QED BY <1>1, <1>2, <1>3, <1>4, <1>5, <1>6, <1>7, ReaderMoves

\* A request moves alone.
LEMMA RequestMoves ==
  ASSUME TypeOK, NEW q \in Requests, RequestStep(q) \/ GivesUp(q)
  PROVE  /\ \A r \in Requests : r # q => pc'[r] = pc[r] /\ at'[r] = at[r]
         /\ pc[q] \notin Ended \cup {"off"}
         /\ UNCHANGED <<replayer, todo, closed, stage, table, cancelled, reader>>
BY DEF RequestStep, GetConn, Register, Write, WriteFails, Receives, Detach, FailPending, GivesUp,
   run, subs, TypeOK, Ended

\* A replay is started by the dial that made its connection.
LEMMA NotReplayedKept ==
  ASSUME TypeOK, HasConnection, AnswersAreAwaited, Next, NEW c \in Conns, NotReplayed(c)
  PROVE  NotReplayed(c)' \/ Reconnect(c)
<1> USE Constants DEF run, requests, subs, gateway
<1> DEFINE Same == replayer'[c] = replayer[c] /\ todo'[c] = todo[c]
<1>1. ASSUME NEW q \in Requests, RequestStep(q) \/ GivesUp(q)  PROVE NotReplayed(c)'
  BY <1>1, RequestMoves DEF NotReplayed
<1>2. ASSUME UNCHANGED pc, Same  PROVE NotReplayed(c)'
  BY <1>2 DEF NotReplayed
<1>3. CASE ReaderStep
  BY <1>2, <1>3 DEF ReaderStep, ReadResponse, ReadEvent, ReadFails, ReaderStops, DeliverSends,
     DeliverPanics, DeliverIsCancelled, DeliverBlocks, ReaderRemoves, ReaderDetaches,
     ReaderFailsPending
<1>4. CASE GatewayStep
  BY <1>2, <1>4 DEF GatewayStep, Lose, Answer, Event
<1>5. ASSUME NEW d \in Conns, Connect(d)  PROVE NotReplayed(c)'
  BY <1>2, <1>5 DEF Connect
<1>6. ASSUME NEW d \in Conns, Reconnect(d), d # c  PROVE NotReplayed(c)'
  BY <1>2, <1>6 DEF Reconnect, TypeOK
<1>7. ASSUME NEW d \in Conns, ReplayStarts(d) \/ ReplayStops(d)  PROVE NotReplayed(c)'
  <2>1. d # c
    BY <1>7 DEF ReplayStarts, ReplayStops, NotReplayed
  <2> QED BY <1>2, <1>7, <2>1 DEF ReplayStarts, ReplayStops, TypeOK
<1>8. ASSUME NEW d \in Conns, NEW s \in Sids, Replay(d, s) \/ ReplayEnds(d, s)
      PROVE  NotReplayed(c)'
  <2>1. d # c
    BY <1>8 DEF Replay, ReplayEnds, NotReplayed
  <2>2. replayer' = replayer /\ todo'[c] = todo[c]
    BY <1>8, <2>1 DEF Replay, ReplayEnds, TypeOK
  <2>3. \A t \in Sids : pc'[<<c, t>>] = pc[<<c, t>>]
    BY <1>8, <2>1 DEF Replay, ReplayEnds, TypeOK
  <2> QED BY <2>2, <2>3 DEF NotReplayed
<1>9. ASSUME NEW s \in Sids, SubscriberStep(s)  PROVE NotReplayed(c)'
  <2>1. replayer' = replayer /\ todo' = todo
    BY <1>9 DEF SubscriberStep, SubscribeEnds, CancelRemoves, Shut, Takes, HubGoesOn
  <2>2. pc' = pc \/ \E r \in Calls : pc' = [pc EXCEPT ![r] = "wait"]
    BY <1>9 DEF SubscriberStep, SubscribeEnds, CancelRemoves, Shut, Takes, HubGoesOn
  <2>3. \A t \in Sids : pc'[<<c, t>>] = pc[<<c, t>>]
    BY <2>2 DEF TypeOK
  <2> QED BY <2>1, <2>3 DEF NotReplayed
<1>10. CASE CallerStep
  <2>1. replayer' = replayer /\ todo' = todo
    BY <1>10 DEF CallerStep, Call, Subscribe, Cancel, Close
  <2>2. pc' = pc \/ \E r \in Calls \cup Sids : pc' = [pc EXCEPT ![r] = "wait"]
    BY <1>10 DEF CallerStep, Call, Subscribe, Cancel, Close
  <2>3. \A t \in Sids : pc'[<<c, t>>] = pc[<<c, t>>]
    BY <2>2 DEF TypeOK
  <2> QED BY <2>1, <2>3 DEF NotReplayed
<1> QED BY <1>1, <1>3, <1>4, <1>5, <1>6, <1>7, <1>8, <1>9, <1>10 DEF Next, ReplayStep

\* What other steps do to the bridge's flag, its subscriptions and their stages.
LEMMA TableMoves ==
  ASSUME TypeOK, Next
  PROVE  /\ \A s \in table' : s \in table \/ Subscribe(s)
         /\ \A s \in Sids : stage'[s] = "on" => stage[s] = "on" \/ pc[s] = "ok"
         /\ closed' = closed \/ Close
         /\ cancelled \subseteq cancelled'
         /\ reader'.pc = "off" => reader.pc = "off"
<1> USE Constants DEF run, requests, subs, gateway
<1> DEFINE Moves ==
         /\ \A s \in table' : s \in table \/ Subscribe(s)
         /\ \A s \in Sids : stage'[s] = "on" => stage[s] = "on" \/ pc[s] = "ok"
         /\ closed' = closed \/ Close
         /\ cancelled \subseteq cancelled'
         /\ reader'.pc = "off" => reader.pc = "off"
<1>1. ASSUME NEW q \in Requests, RequestStep(q) \/ GivesUp(q)  PROVE Moves
  BY <1>1, RequestMoves
<1>2. CASE ReaderStep
  BY <1>2 DEF ReaderStep, ReadResponse, ReadEvent, ReadFails, ReaderStops, DeliverSends,
     DeliverPanics, DeliverIsCancelled, DeliverBlocks, ReaderRemoves, ReaderDetaches,
     ReaderFailsPending, Removes, Reading, Removing, Goes
<1>3. CASE GatewayStep
  BY <1>3 DEF GatewayStep, Lose, Answer, Event
<1>4. ASSUME NEW d \in Conns, Connect(d) \/ Reconnect(d) \/ ReplayStarts(d) \/ ReplayStops(d)
      PROVE  Moves
  BY <1>4 DEF Connect, Reconnect, ReplayStarts, ReplayStops
<1>5. ASSUME NEW d \in Conns, NEW s \in Sids, Replay(d, s) \/ ReplayEnds(d, s)
      PROVE  Moves
  BY <1>5 DEF Replay, ReplayEnds, Removes
<1>6. ASSUME NEW s \in Sids, SubscribeEnds(s) \/ CancelRemoves(s)  PROVE Moves
  BY <1>6 DEF SubscribeEnds, CancelRemoves, Removes, TypeOK
<1>7. ASSUME NEW s \in Sids, Shut(s) \/ Takes(s) \/ HubGoesOn(s)  PROVE Moves
  BY <1>7 DEF Shut, Takes, HubGoesOn, Woken, Reading
<1>8. ASSUME NEW s \in Sids, Subscribe(s)  PROVE Moves
  BY <1>8 DEF Subscribe, TypeOK
<1>9. ASSUME NEW s \in Sids, Cancel(s)  PROVE Moves
  BY <1>9 DEF Cancel, Woken, Removing, Goes
<1>10. ASSUME NEW r \in Calls, Call(r)  PROVE Moves
  BY <1>10 DEF Call
<1>11. CASE Close
  BY <1>11 DEF Close, Reading
<1> QED BY <1>1, <1>2, <1>3, <1>4, <1>5, <1>6, <1>7, <1>8, <1>9, <1>10, <1>11
        DEF Next, ReplayStep, SubscriberStep, CallerStep

(***************************************************************************)
(* The replay.                                                             *)
(***************************************************************************)
LEMMA ReplayedInit == Init => Replayed
BY Constants DEF Init, Replayed, BeginsWithDial, NotReplayed, ReplayAsks,
   EverySubscriptionIsCovered, Live

\* Which request has moved, if any.
LEMMA RequestsMove ==
  ASSUME TypeOK, HasConnection, AnswersAreAwaited, Next, NEW r \in Requests
  PROVE  \/ pc'[r] = pc[r] /\ at'[r] = at[r]
         \/ pc[r] = "off" /\ pc'[r] = "wait" /\ at'[r] = at[r]
         \/ RequestStep(r) \/ GivesUp(r)
BY OthersRest, RequestMoves, NextIs DEF RequestsRest

LEMMA BeginsWithDialKept ==
  ASSUME Served, BeginsWithDial, Next
  PROVE  BeginsWithDial'
<1> USE Constants DEF Served
<1>1. closed' => conn' = None
  <2>1. CASE Close
    BY <2>1 DEF Close
  <2>2. ASSUME NEW c \in Conns, Connect(c) \/ Reconnect(c)  PROVE ~closed'
    BY <2>2 DEF Connect, Reconnect, run, requests
  <2>3. ASSUME conn' = conn \/ conn' = None, closed' = closed  PROVE closed' => conn' = None
    BY <2>3 DEF BeginsWithDial
  <2>4. \A r \in Requests : Detach(r) => conn' = conn \/ conn' = None
    BY DEF Detach, Detached
  <2>5. ReaderDetaches => conn' = conn \/ conn' = None
    BY DEF ReaderDetaches, Detached
  <2> QED BY <2>1, <2>2, <2>3, <2>4, <2>5, ReaderMoves, TableMoves
<1>2. ASSUME NEW c \in Conns, sock'[c] = "unused"  PROVE conn' # c /\ NotReplayed(c)'
  <2>1. ~Connect(c) /\ ~Reconnect(c)
    BY <1>2 DEF Connect, Reconnect, TypeOK
  <2>2. sock[c] = "unused"
    <3>1. ASSUME NEW d \in Conns, Connect(d) \/ Reconnect(d)  PROVE sock[c] = "unused"
      BY <1>2, <2>1, <3>1 DEF Connect, Reconnect, TypeOK
    <3>2. ASSUME NEW d \in Conns, Lose(d)  PROVE sock[c] = "unused"
      BY <1>2, <3>2 DEF Lose, TypeOK
    <3>3. ASSUME NEW r \in Requests, Detach(r)  PROVE sock[c] = "unused"
      BY <1>2, <3>3 DEF Detach, TypeOK
    <3>4. ASSUME Close  PROVE sock[c] = "unused"
      BY <1>2, <3>4 DEF Close
    <3>5. ASSUME ReaderDetaches  PROVE sock[c] = "unused"
      BY <1>2, <3>5 DEF ReaderDetaches, TypeOK
    <3> QED BY <1>2, <3>1, <3>2, <3>3, <3>4, <3>5, ReaderMoves
  <2>3. NotReplayed(c)'
    BY <2>1, <2>2, NotReplayedKept DEF BeginsWithDial
  <2>4. conn' # c
    <3>1. conn # c
      BY <2>2 DEF BeginsWithDial
    <3>2. ASSUME NEW d \in Conns, Connect(d) \/ Reconnect(d)  PROVE conn' # c
      BY <2>1, <3>2 DEF Connect, Reconnect
    <3>3. ASSUME NEW r \in Requests, Detach(r)  PROVE conn' # c
      BY <3>1, <3>3 DEF Detach, Detached
    <3>4. Close => conn' # c
      BY DEF Close
    <3>5. ReaderDetaches => conn' # c
      BY <3>1 DEF ReaderDetaches, Detached
    <3> QED BY <3>1, <3>2, <3>3, <3>4, <3>5, ReaderMoves
  <2> QED BY <2>3, <2>4
<1>3. ASSUME reader'.pc = "off"
      PROVE  /\ conn' = None
             /\ \A c \in Conns : NotReplayed(c)'
             /\ \A r \in Requests : pc'[r] \in {"off", "wait", "failed"}
  <2>1. /\ reader.pc = "off" /\ conn = None
        /\ \A c \in Conns : NotReplayed(c)
        /\ \A r \in Requests : pc[r] \in {"off", "wait", "failed"}
    BY <1>3, TableMoves DEF BeginsWithDial
  <2>2. \A c \in Conns : ~Connect(c) /\ ~Reconnect(c)
    BY <1>3, <2>1 DEF Connect, Reconnect
  <2>3. \A c \in Conns : NotReplayed(c)'
    BY <2>1, <2>2, NotReplayedKept
  <2>4. ASSUME NEW r \in Requests, RequestStep(r) \/ GivesUp(r)
        PROVE  pc'[r] = "failed" /\ conn' = None
    <3>1. GivesUp(r)
      BY <2>1, <2>4 DEF RequestStep, GetConn, Register, Write, WriteFails, Receives, Detach,
         FailPending
    <3> QED BY <2>1, <3>1 DEF GivesUp, TypeOK, run
  <2>5. \A r \in Requests : pc'[r] \in {"off", "wait", "failed"}
    BY <2>1, <2>4, RequestsMove
  <2>6. conn' = None
    BY <2>1, <2>2, <2>4, ReaderMoves DEF Close, ReaderDetaches, RequestStep
  <2> QED BY <2>3, <2>5, <2>6
<1>4. ASSUME NEW s \in Sids, pc[s] = "ok"  PROVE pc'[s] = "ok"
  BY <1>4, RequestsMove, RequestMoves DEF Ended
<1>5. \A s \in Sids : stage'[s] = "on" => pc'[s] = "ok"
  BY <1>4, TableMoves DEF BeginsWithDial
<1>6. ASSUME NEW s \in table'  PROVE pc'[s] # "off"
  <2>1. s \in Sids
    BY TypeKept DEF TypeOK
  <2>2. CASE Subscribe(s)
    BY <2>1, <2>2 DEF Subscribe, TypeOK
  <2>3. CASE s \in table
    <3>1. pc[s] # "off"
      BY <2>3 DEF BeginsWithDial
    <3>2. RequestStep(s) \/ GivesUp(s) => pc'[s] # "off"
      BY <2>1 DEF RequestStep, GetConn, Register, Write, WriteFails, Receives, Detach,
         FailPending, GivesUp, TypeOK
    <3> QED BY <2>1, <3>1, <3>2, RequestsMove
  <2> QED BY <2>2, <2>3, TableMoves
<1> QED BY <1>1, <1>2, <1>3, <1>5, <1>6 DEF BeginsWithDial

LEMMA ReplayAsksKept ==
  ASSUME Served, BeginsWithDial, ReplayAsks, Next
  PROVE  ReplayAsks'
<1> USE Constants DEF Served
<1> SUFFICES ASSUME NEW c \in Conns, NEW s \in Sids, Live(c)',
                    NEW r \in Requests, r = <<c, s>>
             PROVE  /\ pc'[r] \notin {"detach", "fail"}
                    /\ pc'[r] \in {"register", "write", "await"} => at'[r] = c
                    /\ pc'[r] \in {"await"} \cup Ended => <<c, r>> \in asked'
  BY DEF ReplayAsks
<1>1. CASE Connect(c) \/ Reconnect(c)
  <2>1. NotReplayed(c)
    BY <1>1 DEF Connect, Reconnect, BeginsWithDial
  <2>2. pc'[r] = "off"
    BY <1>1, <2>1 DEF Connect, Reconnect, NotReplayed, requests
  <2> QED BY <2>2 DEF Ended
<1>2. CASE Live(c) /\ \A q \in Requests : <<c, q>> \in asked => <<c, q>> \in asked'
  <2>1. /\ pc[r] \notin {"detach", "fail"}
        /\ pc[r] \in {"register", "write", "await"} => at[r] = c
        /\ pc[r] \in {"await"} \cup Ended => <<c, r>> \in asked
    BY <1>2 DEF ReplayAsks
  <2>2. conn = c /\ sock[c] = "open" /\ ~closed
    BY <1>2 DEF Live, BeginsWithDial
  <2>3. CASE pc'[r] = pc[r] /\ at'[r] = at[r]
    BY <1>2, <2>1, <2>3
  <2>4. CASE pc'[r] = "wait"
    BY <2>4 DEF Ended
  <2>5. CASE GetConn(r) \/ Register(r)
    <3>1. pc'[r] \in {"register", "write"} /\ at'[r] = c
      BY <2>1, <2>2, <2>5 DEF GetConn, Register, TypeOK
    <3> QED BY <3>1 DEF Ended
  <2>6. CASE Write(r)
    BY <2>1, <2>2, <2>6 DEF Write, TypeOK
  <2>7. CASE WriteFails(r) \/ Detach(r) \/ FailPending(r)
    BY <2>1, <2>2, <2>7 DEF WriteFails, Detach, FailPending
  <2>8. CASE Receives(r)
    <3>1. pc[r] = "await" /\ pc'[r] \in {"ok", "refused", "transport"}
      BY <2>8 DEF Receives, TypeOK
    <3> QED BY <1>2, <2>1, <3>1
  <2>9. CASE GivesUp(r)
    <3>1. pc'[r] = "failed"
      BY <2>9 DEF GivesUp, TypeOK
    <3>2. r \notin Calls /\ r \notin cancelled
      BY DEF TypeOK
    <3>3. pc[r] = "await"
      BY <2>2, <2>9, <3>2 DEF GivesUp, ContextDone
    <3> QED BY <1>2, <2>1, <3>1, <3>3
  <2> QED BY <2>3, <2>4, <2>5, <2>6, <2>7, <2>8, <2>9, RequestsMove DEF RequestStep
<1> QED BY <1>1, <1>2, LiveSinceDial

\* A replay that has not come to s yet is in its loop, or done with it.
LEMMA ReplayCovers ==
  ASSUME Served, BeginsWithDial, ReplayAsks, Next, NEW c \in Conns, Live(c),
         NEW s \in table, s \in table', s \notin cancelled,
         replayer[c] = "start" \/ s \in todo[c]
  PROVE  replayer'[c] = "start" \/ s \in todo'[c] \/ AskedFor(c, s)
<1> USE Constants DEF Served, run, requests, subs, gateway
<1>1. s \in Sids /\ ~closed
  BY DEF TypeOK, BeginsWithDial, Live
<1>2. ASSUME replayer'[c] = replayer[c], todo'[c] = todo[c]
      PROVE  replayer'[c] = "start" \/ s \in todo'[c]
  BY <1>2
<1>3. ASSUME NEW q \in Requests, RequestStep(q) \/ GivesUp(q)
      PROVE  replayer'[c] = "start" \/ s \in todo'[c]
  BY <1>2, <1>3, RequestMoves
<1>4. CASE ReaderStep
  BY <1>2, <1>4 DEF ReaderStep, ReadResponse, ReadEvent, ReadFails, ReaderStops, DeliverSends,
     DeliverPanics, DeliverIsCancelled, DeliverBlocks, ReaderRemoves, ReaderDetaches,
     ReaderFailsPending
<1>5. CASE GatewayStep
  BY <1>2, <1>5 DEF GatewayStep, Lose, Answer, Event
<1>6. ASSUME NEW d \in Conns, Connect(d) \/ Reconnect(d)
      PROVE  replayer'[c] = "start" \/ s \in todo'[c]
  BY <1>2, <1>6 DEF Connect, Reconnect, ReplayerOf, TypeOK
<1>7. ASSUME NEW d \in Conns, ReplayStarts(d)
      PROVE  replayer'[c] = "start" \/ s \in todo'[c]
  BY <1>2, <1>7 DEF ReplayStarts, TypeOK
<1>8. ASSUME NEW d \in Conns, ReplayStops(d)
      PROVE  replayer'[c] = "start" \/ s \in todo'[c]
  <2>1. CASE d = c
    BY <1>1, <1>8, <2>1 DEF ReplayStops
  <2>2. CASE d # c
    BY <1>2, <1>8, <2>2 DEF ReplayStops, TypeOK
  <2> QED BY <2>1, <2>2
<1>9. ASSUME NEW d \in Conns, NEW t \in Sids, Replay(d, t) \/ ReplayEnds(d, t)
      PROVE  replayer'[c] = "start" \/ s \in todo'[c] \/ AskedFor(c, s)
  <2>1. replayer' = replayer
    BY <1>9 DEF Replay, ReplayEnds
  <2>2. CASE d # c \/ t # s
    <3>1. s \in todo[c] => s \in todo'[c]
      BY <1>9, <2>2 DEF Replay, ReplayEnds, TypeOK
    <3> QED BY <2>1, <3>1
  <2>3. CASE d = c /\ t = s /\ Replay(c, s)
    <3>1. todo' = todo
      BY <2>3 DEF Replay
    <3> QED BY <2>1, <3>1
  <2>4. CASE d = c /\ t = s /\ ReplayEnds(c, s)
    <3>1. pc[<<c, s>>] \in {"ok", "failed"}
      BY <1>1, <2>4 DEF ReplayEnds, Drops, Removes, Ended
    <3>2. <<c, <<c, s>>>> \in asked
      BY <1>1, <3>1 DEF ReplayAsks, Ended
    <3> QED BY <1>1, <3>2, SessionOfRequest DEF AskedFor
  <2> QED BY <1>9, <2>2, <2>3, <2>4
<1>10. ASSUME NEW t \in Sids, SubscriberStep(t)
       PROVE  replayer'[c] = "start" \/ s \in todo'[c]
  BY <1>2, <1>10 DEF SubscriberStep, SubscribeEnds, CancelRemoves, Shut, Takes, HubGoesOn
<1>11. CASE CallerStep
  BY <1>2, <1>11 DEF CallerStep, Call, Subscribe, Cancel, Close
<1> QED BY <1>3, <1>4, <1>5, <1>6, <1>7, <1>8, <1>9, <1>10, <1>11 DEF Next, ReplayStep

\* The Subscribe of s writes to the connection it has got, or fails.
LEMMA SubscribeCovers ==
  ASSUME Served, Next, NEW c \in Conns, Live(c), Live(c)', NEW s \in Sids,
         \/ pc[s] = "wait"
         \/ pc[s] \in {"register", "write"} /\ at[s] = c
         \/ pc[s] \in {"detach", "fail", "refused", "transport", "failed"}
  PROVE  Covered(c, s)'
<1> USE Constants DEF Served
<1>1. CASE pc'[s] = pc[s] /\ at'[s] = at[s]
  BY <1>1 DEF Covered
<1>2. CASE GetConn(s) \/ Register(s)
  BY <1>2 DEF GetConn, Register, TypeOK, Live, Covered
<1>3. CASE Write(s)
  <2>1. <<c, s>> \in asked'
    BY <1>3 DEF Write, Live
  <2>2. AskedFor(c, s)'
    BY <2>1, SessionOfRequest DEF AskedFor
  <2> QED BY <2>2 DEF Covered
<1>4. CASE WriteFails(s) \/ Detach(s) \/ FailPending(s) \/ GivesUp(s)
  <2>1. pc'[s] \in {"detach", "fail", "failed"}
    BY <1>4 DEF WriteFails, Detach, FailPending, GivesUp, TypeOK
  <2> QED BY <2>1 DEF Covered
<1>5. CASE Receives(s)
  BY <1>5 DEF Receives
<1> QED BY <1>1, <1>2, <1>3, <1>4, <1>5, RequestsMove DEF RequestStep

LEMMA EverySubscriptionIsCoveredKept ==
  ASSUME Served, Replayed, Next
  PROVE  EverySubscriptionIsCovered'
<1> USE Constants DEF Served, Replayed
<1> SUFFICES ASSUME NEW c \in Conns, Live(c)', NEW s \in table' \ cancelled'
             PROVE  Covered(c, s)'
  BY DEF EverySubscriptionIsCovered
<1>1. s \in Sids /\ s \notin cancelled /\ (s \in table \/ Subscribe(s))
  BY TypeKept, TableMoves DEF TypeOK
<1>2. CASE Subscribe(s)
  BY <1>1, <1>2 DEF Subscribe, TypeOK, Covered
<1>3. CASE Reconnect(c)
  BY <1>3 DEF Reconnect, ReplayerOf, TypeOK, Covered
<1>4. CASE Connect(c) /\ s \in table
  <2>1. pc'[s] = pc[s] /\ pc[s] \in {"wait", "failed"}
    BY <1>1, <1>4 DEF Connect, requests, BeginsWithDial
  <2> QED BY <2>1 DEF Covered
<1>5. CASE /\ Live(c) /\ s \in table
           /\ \A r \in Requests : <<c, r>> \in asked => <<c, r>> \in asked'
  <2>1. Covered(c, s)
    BY <1>1, <1>5 DEF EverySubscriptionIsCovered
  <2>2. AskedFor(c, s) => AskedFor(c, s)'
    BY <1>5 DEF AskedFor
  <2>3. CASE replayer[c] = "start" \/ s \in todo[c]
    BY <1>1, <1>5, <2>2, <2>3, ReplayCovers DEF Covered
  <2>4. CASE AskedFor(c, s)
    BY <2>2, <2>4 DEF Covered
  <2>5. CASE \/ pc[s] = "wait"
             \/ pc[s] \in {"register", "write"} /\ at[s] = c
             \/ pc[s] \in {"detach", "fail", "refused", "transport", "failed"}
    BY <1>1, <1>5, <2>5, SubscribeCovers
  <2> QED BY <2>1, <2>3, <2>4, <2>5 DEF Covered
<1> QED BY <1>1, <1>2, <1>3, <1>4, <1>5, LiveSinceDial

LEMMA ReplayedKept ==
  ASSUME Served, Replayed, [Next]_vars
  PROVE  Replayed'
<1>1. CASE Next
  BY <1>1, BeginsWithDialKept, ReplayAsksKept, EverySubscriptionIsCoveredKept DEF Replayed
<1>2. CASE UNCHANGED vars
  BY <1>2 DEF vars, run, requests, subs, gateway, Replayed, BeginsWithDial, NotReplayed,
     ReplayAsks, EverySubscriptionIsCovered, Covered, AskedFor, Live
<1> QED BY <1>1, <1>2

(***************************************************************************)
(* The theorems.                                                           *)
(***************************************************************************)
\* Who waits for an answer is in the table, the reader reads the bridge's own
\* connection, and what a replay has still to ask for it asks for.
THEOREM ServedAndReplayed == Spec => [](Served /\ Replayed)
<1>1. Init => Served /\ Replayed
  BY ServedInit, ReplayedInit
<1>2. Served /\ Replayed /\ [Next]_vars => Served' /\ Replayed'
  BY ServedKept, ReplayedKept
<1> QED BY <1>1, <1>2, PTL DEF Spec

\* Every variable of the bridge keeps its type (hosts/openclaw/bridge.go).
THEOREM TypeCorrect == Spec => []TypeOK
<1>1. Served => TypeOK
  BY DEF Served
<1> QED BY <1>1, ServedAndReplayed, PTL

\* However many requests, connections and subscriptions there are, b.pending
\* holds the requests somebody waits for and nobody has answered.
THEOREM PendingStaysExact == Spec => []PendingIsExact
<1>1. Served => PendingIsExact
  BY DEF Served
<1> QED BY <1>1, ServedAndReplayed, PTL

\* However late a dead connection is detached, requests are written to the
\* connection that the reader reads.
THEOREM RequestsReachTheReader == Spec => []RequestsGoToTheReader
<1>1. Served => RequestsGoToTheReader
  BY DEF Served, ReaderHasConn, ReaderReads, RequestsGoToTheReader
<1> QED BY <1>1, ServedAndReplayed, PTL

\* However the replays of old connections, failures and Subscribe interleave,
\* no subscription is deaf when the replay of the current connection is over.
THEOREM SubscriptionsAreAskedAgain == Spec => []AskedAgain
<1>1. ASSUME Served, Replayed  PROVE AskedAgain
  <2> SUFFICES ASSUME conn # None, sock[conn] = "open",
                      replayer[conn] # "start", todo[conn] = {},
                      NEW s \in table \ cancelled, stage[s] = "on"
               PROVE  AskedFor(conn, s)
    BY DEF AskedAgain, AskedFor
  <2>1. conn \in Conns /\ Live(conn) /\ s \in Sids
    BY <1>1 DEF Served, TypeOK, Live
  <2>2. Covered(conn, s)
    BY <1>1, <2>1 DEF Replayed, EverySubscriptionIsCovered
  <2>3. pc[s] = "ok"
    BY <1>1, <2>1 DEF Replayed, BeginsWithDial
  <2> QED BY <2>2, <2>3 DEF Covered
<1> QED BY <1>1, ServedAndReplayed, PTL
=============================================================================
