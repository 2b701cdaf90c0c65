-------------------------------- MODULE Bridge --------------------------------
(***************************************************************************)
(* The client of the OpenClaw gateway (hosts/openclaw/bridge.go): requests *)
(* matched to answers by id, subscriptions fed by one reader goroutine,    *)
(* and reconnection with a replay of the subscriptions.                    *)
(*                                                                         *)
(* A step is one critical section of b.mu, one channel operation or one    *)
(* websocket call.  A request is named by what makes it: a call of         *)
(* SessionCreate or SessionsSend, the Subscribe of a session, or the       *)
(* replay of a session by the goroutine that a new connection starts.      *)
(***************************************************************************)
EXTENDS Naturals, Sequences

CONSTANTS
  Calls, Sids,     \* calls of SessionCreate and SessionsSend; session ids
  Conns,           \* connections, one for each successful dial
  HubSids,         \* the sessions whose reader is Hub.Start
  EventCap,        \* capacity of subscription.messages (32)
  MaxEvents,       \* bound of the model: session messages of the gateway
  None             \* no connection, no session, no message

Replays  == Conns \X Sids
Requests == Calls \cup Sids \cup Replays

ASSUME BridgeAssumption ==
  /\ HubSids \subseteq Sids
  /\ EventCap \in Nat \ {0} /\ MaxEvents \in Nat
  /\ Calls \cap Sids = {} /\ (Calls \cup Sids) \cap Replays = {}
  /\ None \notin Conns \cup Requests \cup {"ok", "refused", "transport"}

VARIABLES
  conn,       \* b.conn
  reader,     \* the goroutine of run: where, its connection, its event's sid
  replayer,   \* per connection, replaySubscriptions: where it is
  todo,       \* the subscriptions it has still to replay
  closed,     \* b.closed; b.ctx is cancelled in the same critical section
  panicked,   \* a goroutine has sent on a closed channel
  pc,         \* per request, where it is in request and handleDisconnect
  at,         \* the connection it is written to
  mail,       \* what is in its respCh
  pending,    \* b.pending
  table,      \* b.subscriptions
  closing,    \* taken out of the table, close() not yet called
  shut,       \* the subscriptions whose channel is closed
  stage,      \* per session: nobody asks for it, Subscribe runs, it returned
  cancelled,  \* the subscriptions whose ctx is done
  buffered,   \* how many messages wait in the channel
  waits,      \* the call that the reader of the channel is in
  sock,       \* per connection: unused, open, lost (nothing arrives), closed
  down,       \* what the gateway has sent on it, not yet read
  asked,      \* the requests that have reached the gateway, with connection
  answers,    \* and those it has answered
  events      \* how many session messages it has sent

run      == <<conn, reader, replayer, todo, closed, panicked>>
requests == <<pc, at, mail, pending>>
subs     == <<table, closing, shut, stage, cancelled, buffered, waits>>
gateway  == <<sock, down, asked, answers, events>>
vars == <<run, requests, subs, gateway>>

\* How request ends: with a result, with an answer of the gateway that is an
\* error, with the answer of failPending or Close, or with a plain error.
\* The second and the third have the same type, gatewayResponseError.
Ended == {"ok", "refused", "transport", "failed"}

\* The session a request subscribes to.
SidOf(r) == CASE r \in Sids -> r [] r \in Replays -> r[2] [] OTHER -> None

Responses == [type : {"res"}, of : Requests, body : {"ok", "refused"}]
Events    == [type : {"event"}, of : Sids, body : {None}]

TypeOK ==
  /\ conn \in Conns \cup {None}
  /\ reader \in [pc : {"off", "dial", "read", "deliver", "blocked", "remove",
                       "detach", "fail", "done"},
                 at : Conns \cup {None}, sid : Sids \cup {None}]
  /\ replayer \in [Conns -> {"off", "start", "loop", "end"}]
  /\ todo \in [Conns -> SUBSET Sids]
  /\ closed \in BOOLEAN /\ panicked \in BOOLEAN
  /\ pc \in [Requests -> Ended \cup
               {"off", "wait", "register", "write", "await", "detach", "fail"}]
  /\ at \in [Requests -> Conns \cup {None}]
  /\ mail \in [Requests -> {None, "ok", "refused", "transport"}]
  /\ pending \subseteq Requests
  /\ table \subseteq Sids /\ closing \subseteq Sids /\ shut \subseteq Sids
  /\ stage \in [Sids -> {"off", "asking", "on", "over"}]
  /\ cancelled \subseteq Sids
  /\ buffered \in [Sids -> 0..EventCap]
  /\ waits \in [Sids -> Calls \cup {None}]
  /\ sock \in [Conns -> {"unused", "open", "lost", "closed"}]
  /\ down \in [Conns -> Seq(Responses \cup Events)]
  /\ asked \subseteq Conns \X Requests /\ answers \subseteq asked
  /\ events \in 0..MaxEvents

Init ==
  /\ conn = None
  /\ reader = [pc |-> "off", at |-> None, sid |-> None]
  /\ replayer = [c \in Conns |-> "off"]
  /\ todo = [c \in Conns |-> {}]
  /\ closed = FALSE /\ panicked = FALSE
  /\ pc = [r \in Requests |-> "off"]
  /\ at = [r \in Requests |-> None]
  /\ mail = [r \in Requests |-> None]
  /\ pending = {}
  /\ table = {} /\ closing = {} /\ shut = {}
  /\ stage = [s \in Sids |-> "off"]
  /\ cancelled = {}
  /\ buffered = [s \in Sids |-> 0]
  /\ waits = [s \in Sids |-> None]
  /\ sock = [c \in Conns |-> "unused"]
  /\ down = [c \in Conns |-> <<>>]
  /\ asked = {} /\ answers = {}
  /\ events = 0

-----------------------------------------------------------------------------
(* The gateway and the network.                                            *)

\* The gateway keeps nothing for a connection that is gone.
Forgets(c) ==
  /\ asked' = {x \in asked : x[1] # c}
  /\ answers' = {x \in answers : x[1] # c}

\* The gateway answers a request, with a result or with an error.
Answer(c, r, body) ==
  /\ sock[c] = "open"
  /\ <<c, r>> \in asked \ answers
  /\ answers' = answers \cup {<<c, r>>}
  /\ down' = [down EXCEPT ![c] = Append(@, [type |-> "res", of |-> r, body |-> body])]
  /\ UNCHANGED <<run, requests, subs, sock, asked, events>>

\* A message of a session that was asked for on this connection.
Event(c, s) ==
  /\ sock[c] = "open"
  /\ events < MaxEvents
  /\ \E r \in Requests : SidOf(r) = s /\ <<c, r>> \in answers
  /\ events' = events + 1
  /\ down' = [down EXCEPT ![c] = Append(@, [type |-> "event", of |-> s, body |-> None])]
  /\ UNCHANGED <<run, requests, subs, sock, asked, answers>>

\* The network fails, or the read deadline set by the handshake passes:
\* nothing clears it, so it ends every connection in the end.
Lose(c) ==
  /\ sock[c] = "open"
  /\ sock' = [sock EXCEPT ![c] = "lost"]
  /\ Forgets(c)
  /\ UNCHANGED <<run, requests, subs, down, events>>

-----------------------------------------------------------------------------
(* request.                                                                *)

Goes(place) == [pc |-> place, at |-> reader.at, sid |-> reader.sid]

Reading  == [pc |-> "read", at |-> reader.at, sid |-> None]
Removing == Goes("remove")

\* What the select of a goroutine that sends to s does when s changes under
\* it: it is woken at that moment, and not by what comes later.
Woken(s, next) == IF reader.pc = "blocked" /\ reader.sid = s THEN next ELSE reader

\* The context of the caller is done.  Calls have one of any kind and
\* Subscribe the one of the subscription.  A replay has ten seconds: longer
\* than its connection is read for, since the dial has set the read deadline
\* before; so a replay gives up while it waits for a connection or holds
\* another one, after its connection is lost, or while the reader is away.
ContextDone(r) ==
  \/ r \in Calls
  \/ r \in cancelled
  \/ /\ r \in Replays
     /\ pc[r] = "wait" => conn = None
     /\ pc[r] = "await" => \/ at[r] # r[1]
                           \/ sock[at[r]] # "open"
                           \/ reader.pc # "read"

Call(r) ==
  /\ r \in Calls
  /\ pc[r] = "off"
  /\ pc' = [pc EXCEPT ![r] = "wait"]
  /\ UNCHANGED <<run, at, mail, pending, subs, gateway>>

\* waitForConn.
GetConn(r) ==
  /\ pc[r] = "wait"
  /\ conn # None
  /\ at' = [at EXCEPT ![r] = conn]
  /\ pc' = [pc EXCEPT ![r] = "register"]
  /\ UNCHANGED <<run, mail, pending, subs, gateway>>

Register(r) ==
  /\ pc[r] = "register"
  /\ ~closed
  /\ pending' = pending \cup {r}
  /\ pc' = [pc EXCEPT ![r] = "write"]
  /\ UNCHANGED <<run, at, mail, subs, gateway>>

\* A write to a lost connection may succeed, into a kernel buffer.
Write(r) ==
  /\ pc[r] = "write"
  /\ sock[at[r]] # "closed"
  /\ asked' = IF sock[at[r]] = "open" THEN asked \cup {<<at[r], r>>} ELSE asked
  /\ pc' = [pc EXCEPT ![r] = "await"]
  /\ UNCHANGED <<run, at, mail, pending, subs, sock, down, answers, events>>

WriteFails(r) ==
  /\ pc[r] = "write"
  /\ sock[at[r]] # "open"
  /\ pending' = pending \ {r}
  /\ mail' = [mail EXCEPT ![r] = None]
  /\ pc' = [pc EXCEPT ![r] = "detach"]
  /\ UNCHANGED <<run, at, subs, gateway>>

Receives(r) ==
  /\ pc[r] = "await"
  /\ mail[r] # None
  /\ pc' = [pc EXCEPT ![r] = mail[r]]
  /\ mail' = [mail EXCEPT ![r] = None]
  /\ at' = [at EXCEPT ![r] = None]
  /\ UNCHANGED <<run, pending, subs, gateway>>

\* What is left in the table when request r gives up.  Mutant: its entry.
LeftPendingAll(r) == pending
LeftPending(r) == pending \ {r}

\* The caller's context is done, or the bridge is closed.  In the select of
\* request this races an answer.
GivesUp(r) ==
  /\ \/ pc[r] \in {"wait", "await"} /\ (ContextDone(r) \/ closed)
     \/ pc[r] = "register" /\ closed
  /\ pending' = LeftPending(r)
  /\ mail' = [mail EXCEPT ![r] = None]
  /\ pc' = [pc EXCEPT ![r] = "failed"]
  /\ at' = [at EXCEPT ![r] = None]
  /\ UNCHANGED <<run, subs, gateway>>

-----------------------------------------------------------------------------
(* handleDisconnect, by a request whose write has failed or by the reader. *)

\* The connection is forgotten if it is still the current one.  Mutant: it is
\* forgotten whatever the current one is.
DetachedAny(c) == None
Detached(c) == IF conn = c THEN None ELSE conn

\* failPending: everything that waits, on whatever connection, gets an error.
\* Mutant: what is in the table is dropped without a word.
FailedMailNone(S) == mail
FailedMail(S) == [r \in Requests |-> IF r \in S THEN "transport" ELSE mail[r]]

Detach(r) ==
  /\ pc[r] = "detach"
  /\ conn' = Detached(at[r])
  /\ sock' = [sock EXCEPT ![at[r]] = "closed"]
  /\ Forgets(at[r])
  /\ pc' = [pc EXCEPT ![r] = "fail"]
  /\ UNCHANGED <<reader, replayer, todo, closed, panicked, at, mail, pending, subs,
                 down, events>>

FailPending(r) ==
  /\ pc[r] = "fail"
  /\ mail' = FailedMail(pending)
  /\ pending' = {}
  /\ pc' = [pc EXCEPT ![r] = "failed"]
  /\ at' = [at EXCEPT ![r] = None]
  /\ UNCHANGED <<run, subs, gateway>>

ReaderDetaches ==
  /\ reader.pc = "detach"
  /\ conn' = Detached(reader.at)
  /\ sock' = [sock EXCEPT ![reader.at] = "closed"]
  /\ down' = [down EXCEPT ![reader.at] = <<>>]
  /\ Forgets(reader.at)
  /\ reader' = Goes("fail")
  /\ UNCHANGED <<replayer, todo, closed, panicked, requests, subs, events>>

ReaderFailsPending ==
  /\ reader.pc = "fail"
  /\ mail' = FailedMail(pending)
  /\ pending' = {}
  /\ reader' = [pc |-> "dial", at |-> None, sid |-> None]
  /\ UNCHANGED <<conn, replayer, todo, closed, panicked, pc, at, subs, gateway>>

-----------------------------------------------------------------------------
(* Subscribe, removeSubscription and the reader of the channel.            *)

\* removeSubscription, under the lock; sub.close follows outside of it.
\* Mutant: it does not.
RemovesOnly(s) ==
  /\ table' = table \ {s}
  /\ UNCHANGED closing
Removes(s) ==
  /\ table' = table \ {s}
  /\ closing' = closing \cup ({s} \cap table)

\* A session is subscribed to once in the model.
Subscribe(s) ==
  /\ stage[s] = "off"
  /\ ~closed
  /\ stage' = [stage EXCEPT ![s] = "asking"]
  /\ table' = table \cup {s}
  /\ pc' = [pc EXCEPT ![s] = "wait"]
  /\ UNCHANGED <<run, at, mail, pending, closing, shut, cancelled, buffered, waits, gateway>>

SubscribeEnds(s) ==
  /\ stage[s] = "asking"
  /\ pc[s] \in Ended
  /\ IF pc[s] = "ok"
       THEN /\ stage' = [stage EXCEPT ![s] = "on"]
            /\ UNCHANGED <<table, closing>>
       ELSE /\ stage' = [stage EXCEPT ![s] = "over"]
            /\ Removes(s)
  /\ UNCHANGED <<run, requests, shut, cancelled, buffered, waits, gateway>>

\* The subscriber's context ends.
Cancel(s) ==
  /\ stage[s] \in {"asking", "on"}
  /\ s \notin cancelled
  /\ cancelled' = cancelled \cup {s}
  /\ reader' = Woken(s, Removing)
  /\ UNCHANGED <<conn, replayer, todo, closed, panicked, requests,
                 table, closing, shut, stage, buffered, waits, gateway>>

\* The goroutine that Subscribe leaves behind.
CancelRemoves(s) ==
  /\ stage[s] = "on"
  /\ s \in cancelled
  /\ stage' = [stage EXCEPT ![s] = "over"]
  /\ Removes(s)
  /\ UNCHANGED <<run, requests, shut, cancelled, buffered, waits, gateway>>

\* subscription.close, by whoever has taken s out of the table.  A goroutine
\* that is blocked in a send to the channel panics.
Shut(s) ==
  /\ s \in closing
  /\ closing' = closing \ {s}
  /\ shut' = shut \cup {s}
  /\ panicked' = (reader.pc = "blocked" /\ reader.sid = s)
  /\ UNCHANGED <<conn, reader, replayer, todo, closed, requests,
                 table, stage, cancelled, buffered, waits, gateway>>

\* Its reader takes a message; a blocked sender puts its own in the place.
\* Hub.Start sends the results of the actions in it before it takes another.
Takes(s) ==
  /\ stage[s] = "on"
  /\ buffered[s] > 0
  /\ waits[s] = None
  /\ reader' = Woken(s, Reading)
  /\ buffered' = [buffered EXCEPT ![s] = IF reader' = reader THEN @ - 1 ELSE @]
  /\ \/ /\ s \in HubSids
        /\ \E r \in Calls : /\ pc[r] = "off"
                            /\ pc' = [pc EXCEPT ![r] = "wait"]
                            /\ waits' = [waits EXCEPT ![s] = r]
     \/ /\ s \notin HubSids \/ \A r \in Calls : pc[r] # "off"
        /\ UNCHANGED <<pc, waits>>
  /\ UNCHANGED <<conn, replayer, todo, closed, panicked, at, mail, pending,
                 table, closing, shut, stage, cancelled, gateway>>

HubGoesOn(s) ==
  /\ waits[s] # None
  /\ pc[waits[s]] \in Ended
  /\ waits' = [waits EXCEPT ![s] = None]
  /\ UNCHANGED <<run, requests, table, closing, shut, stage, cancelled, buffered, gateway>>

-----------------------------------------------------------------------------
(* Connect, run, readLoop.                                                 *)

\* Connect dials for the first time; it is called once.
Connect(c) ==
  /\ reader.pc = "off"
  /\ ~closed
  /\ conn' = c
  /\ sock' = [sock EXCEPT ![c] = "open"]
  /\ reader' = [pc |-> "read", at |-> c, sid |-> None]
  /\ UNCHANGED <<replayer, todo, closed, panicked, requests, subs,
                 down, asked, answers, events>>

\* The goroutine a new connection starts.  Mutant: it is not started.
ReplayerOfNone(c) == "end"
ReplayerOf(c) == "start"

\* run has dialled again.  A dial that fails leaves it where it was.
Reconnect(c) ==
  /\ reader.pc = "dial"
  /\ ~closed
  /\ sock[c] = "unused"
  /\ conn' = c
  /\ sock' = [sock EXCEPT ![c] = "open"]
  /\ reader' = [pc |-> "read", at |-> c, sid |-> None]
  /\ replayer' = [replayer EXCEPT ![c] = ReplayerOf(c)]
  /\ UNCHANGED <<todo, closed, panicked, requests, subs, down, asked, answers, events>>

\* The message of the request with this id.  An id that is not in the table
\* any more is ignored.
ReadResponse ==
  /\ reader.pc = "read"
  /\ down[reader.at] # <<>>
  /\ LET m == Head(down[reader.at])
     IN  /\ m.type = "res"
         /\ pending' = pending \ {m.of}
         /\ mail' = IF m.of \in pending THEN [mail EXCEPT ![m.of] = m.body] ELSE mail
  /\ down' = [down EXCEPT ![reader.at] = Tail(@)]
  /\ UNCHANGED <<run, pc, at, subs, sock, asked, answers, events>>

\* An event: its subscription is looked up under the lock.
ReadEvent ==
  /\ reader.pc = "read"
  /\ down[reader.at] # <<>>
  /\ LET m == Head(down[reader.at])
     IN  /\ m.type = "event"
         /\ reader' = IF m.of \in table
                      THEN [pc |-> "deliver", at |-> reader.at, sid |-> m.of]
                      ELSE reader
  /\ down' = [down EXCEPT ![reader.at] = Tail(@)]
  /\ UNCHANGED <<conn, replayer, todo, closed, panicked, requests, subs,
                 sock, asked, answers, events>>

HasRoom(s) == buffered[s] < EventCap

\* deliverEvent's select, entered without the lock, takes a branch that is
\* ready; a send on a closed channel is ready, and panics.
DeliverSends ==
  /\ reader.pc = "deliver"
  /\ reader.sid \notin shut
  /\ HasRoom(reader.sid)
  /\ buffered' = [buffered EXCEPT ![reader.sid] = @ + 1]
  /\ reader' = Reading
  /\ UNCHANGED <<conn, replayer, todo, closed, panicked, requests,
                 table, closing, shut, stage, cancelled, waits, gateway>>

DeliverPanics ==
  /\ reader.pc = "deliver"
  /\ reader.sid \in shut
  /\ panicked' = TRUE
  /\ UNCHANGED <<conn, reader, replayer, todo, closed, requests, subs, gateway>>

DeliverIsCancelled ==
  /\ reader.pc = "deliver"
  /\ \/ /\ reader.sid \in cancelled
        /\ reader' = Removing
     \/ /\ closed
        /\ reader' = Reading
  /\ UNCHANGED <<conn, replayer, todo, closed, panicked, requests, subs, gateway>>

DeliverBlocks ==
  /\ reader.pc = "deliver"
  /\ reader.sid \notin shut \cup cancelled
  /\ ~HasRoom(reader.sid)
  /\ ~closed
  /\ reader' = Goes("blocked")
  /\ UNCHANGED <<conn, replayer, todo, closed, panicked, requests, subs, gateway>>

ReaderRemoves ==
  /\ reader.pc = "remove"
  /\ Removes(reader.sid)
  /\ reader' = Reading
  /\ UNCHANGED <<conn, replayer, todo, closed, panicked, requests,
                 shut, stage, cancelled, buffered, waits, gateway>>

ReadFails ==
  /\ reader.pc = "read"
  /\ sock[reader.at] # "open"
  /\ reader' = Goes("detach")
  /\ UNCHANGED <<conn, replayer, todo, closed, panicked, requests, subs, gateway>>

\* run returns: b.ctx is done at the top of a loop, or during a dial.
ReaderStops ==
  /\ reader.pc \in {"read", "dial"}
  /\ closed
  /\ reader' = Goes("done")
  /\ UNCHANGED <<conn, replayer, todo, closed, panicked, requests, subs, gateway>>

-----------------------------------------------------------------------------
(* replaySubscriptions.                                                    *)

ReplayStarts(c) ==
  /\ replayer[c] = "start"
  /\ replayer' = [replayer EXCEPT ![c] = "loop"]
  /\ todo' = [todo EXCEPT ![c] = table]
  /\ UNCHANGED <<conn, reader, closed, panicked, requests, subs, gateway>>

NoneInProgress(c) == \A s \in todo[c] : pc[<<c, s>>] = "off"

Replay(c, s) ==
  /\ replayer[c] = "loop"
  /\ s \in todo[c]
  /\ NoneInProgress(c)
  /\ ~closed
  /\ IF s \in cancelled
       THEN /\ Removes(s)
            /\ todo' = [todo EXCEPT ![c] = @ \ {s}]
            /\ UNCHANGED pc
       ELSE /\ pc' = [pc EXCEPT ![<<c, s>>] = "wait"]
            /\ UNCHANGED <<todo, table, closing>>
  /\ UNCHANGED <<conn, reader, replayer, closed, panicked, at, mail, pending,
                 shut, stage, cancelled, buffered, waits, gateway>>

\* The ends after which the subscription is dropped: of the error answers the
\* code cannot tell the gateway's from its own.
Drops(end) == end \in {"refused", "transport"}

ReplayEnds(c, s) ==
  /\ s \in todo[c]
  /\ pc[<<c, s>>] \in Ended
  /\ IF Drops(pc[<<c, s>>]) THEN Removes(s) ELSE UNCHANGED <<table, closing>>
  /\ todo' = [todo EXCEPT ![c] = @ \ {s}]
  /\ UNCHANGED <<conn, reader, replayer, closed, panicked, requests,
                 shut, stage, cancelled, buffered, waits, gateway>>

ReplayStops(c) ==
  /\ replayer[c] = "loop"
  /\ NoneInProgress(c)
  /\ todo[c] = {} \/ closed
  /\ replayer' = [replayer EXCEPT ![c] = "end"]
  /\ todo' = [todo EXCEPT ![c] = {}]
  /\ UNCHANGED <<conn, reader, closed, panicked, requests, subs, gateway>>

-----------------------------------------------------------------------------
(* Close.                                                                  *)

\* The channels that Close goes on to close.  Mutant: none.
ClosedSubsNone == {}
ClosedSubs == table

\* The socket is closed and the requests are answered outside of the lock;
\* nothing can tell.  A reader that is blocked in a send is woken.
Close ==
  /\ ~closed
  /\ closed' = TRUE
  /\ conn' = None
  /\ sock' = [c \in Conns |-> IF c = conn THEN "closed" ELSE sock[c]]
  /\ reader' = IF reader.pc = "blocked" THEN Reading ELSE reader
  /\ mail' = FailedMail(pending)
  /\ pending' = {}
  /\ closing' = closing \cup ClosedSubs
  /\ table' = {}
  /\ UNCHANGED <<replayer, todo, panicked, pc, at, shut, stage, cancelled,
                 buffered, waits, down, asked, answers, events>>

-----------------------------------------------------------------------------
RequestStep(r) ==
  \/ GetConn(r) \/ Register(r) \/ Write(r) \/ WriteFails(r) \/ Receives(r)
  \/ Detach(r) \/ FailPending(r)

ReaderStep ==
  \/ ReadResponse \/ ReadEvent \/ ReadFails \/ ReaderStops
  \/ DeliverSends \/ DeliverPanics \/ DeliverIsCancelled \/ DeliverBlocks
  \/ ReaderRemoves \/ ReaderDetaches \/ ReaderFailsPending

ReplayStep(c) ==
  ReplayStarts(c) \/ ReplayStops(c) \/ \E s \in Sids : Replay(c, s) \/ ReplayEnds(c, s)

SubscriberStep(s) ==
  SubscribeEnds(s) \/ CancelRemoves(s) \/ Shut(s) \/ Takes(s) \/ HubGoesOn(s)

GatewayStep ==
  \E c \in Conns :
    \/ Lose(c)
    \/ \E r \in Requests, body \in {"ok", "refused"} : Answer(c, r, body)
    \/ \E s \in Sids : Event(c, s)

CallerStep ==
  \/ \E r \in Calls : Call(r)
  \/ \E s \in Sids : Subscribe(s) \/ Cancel(s)
  \/ Close

Next ==
  /\ ~panicked
  /\ \/ \E r \in Requests : RequestStep(r) \/ GivesUp(r)
     \/ ReaderStep
     \/ \E c \in Conns : Connect(c) \/ Reconnect(c) \/ ReplayStep(c)
     \/ \E s \in Sids : SubscriberStep(s)
     \/ GatewayStep
     \/ CallerStep

Spec == Init /\ [][Next]_vars

\* Goroutines go on when they can; a blocked select sees that a context is
\* done; a connection is lost in the end, because its read deadline stays.
\* Nothing is assumed of the gateway, of callers, or of a dial.
Fairness ==
  /\ \A r \in Requests : WF_vars(~panicked /\ RequestStep(r))
  /\ \A r \in Requests \ Calls : WF_vars(~panicked /\ GivesUp(r))
  /\ \A r \in Calls : WF_vars(~panicked /\ closed /\ GivesUp(r))
  /\ WF_vars(~panicked /\ ReaderStep)
  /\ \A c \in Conns : /\ WF_vars(~panicked /\ ReplayStep(c))
                      /\ WF_vars(~panicked /\ Lose(c))
  /\ \A s \in Sids : WF_vars(~panicked /\ SubscriberStep(s))

FairSpec == Spec /\ Fairness

-----------------------------------------------------------------------------
(* Safety.                                                                 *)

\* b.pending is exact, whoever answers, gives up, fails or closes
\* (bridge.go:442-447, 536-571, 612-634): a request is in the table exactly
\* as long as somebody waits for it whom nobody has answered.  An entry too
\* many leaks, an entry too few is a caller who waits for ever.
PendingIsExact ==
  pending = {r \in Requests : pc[r] \in {"write", "await"} /\ mail[r] = None}

\* While the reader reads a connection that is there, requests are written to
\* it, however late the goroutines are that a dead connection has failed
\* (bridge.go:600-610): else requests wait, or are written where nobody reads.
RequestsGoToTheReader ==
  reader.pc = "read" /\ sock[reader.at] = "open" => conn = reader.at

\* After a reconnect no subscription is deaf (bridge.go:399, 741-773): when
\* the replay of the current connection is over, the gateway has been asked
\* on this connection for every subscription that is still in the table.
AskedAgain ==
  /\ conn # None
  /\ sock[conn] = "open"
  /\ replayer[conn] # "start" /\ todo[conn] = {}
  => \A s \in table \ cancelled :
       stage[s] = "on" => \E r \in Requests : SidOf(r) = s /\ <<conn, r>> \in asked

\* A subscription leaves the table for a reason of its own: its context is
\* done, the gateway refused it, or the bridge was closed.  The doc says that
\* a reconnect is transparent (docs/openclaw.md:66-67).
SurvivesReconnect ==
  [][\A s \in table \ table' :
       \/ stage[s] = "asking"
       \/ s \in cancelled
       \/ \E r \in Requests : SidOf(r) = s /\ pc[r] = "refused"
       \/ closed']_vars

\* Nobody sends on a closed channel: Close shuts the bridge down and closes
\* the subscription channels (bridge.go:318), and so does the end of a
\* subscriber's context, while the reader may be about to deliver.
NoPanic == ~panicked

-----------------------------------------------------------------------------
(* Liveness.                                                               *)

\* A request that waits for its answer ends, even if the gateway never
\* answers and the caller has no deadline (bridge.go:553-571): the read
\* deadline ends the connection, and failPending the request.
RequestsAlwaysEnd == \A r \in Requests : pc[r] = "await" ~> pc[r] \in Ended \/ panicked

\* The one way not to: the reader, which alone could take the answer off the
\* connection, is blocked in a channel (bridge.go:505) whose own reader waits
\* for an answer.
Entangled == reader.pc = "blocked" /\ waits[reader.sid] # None

RequestsEnd ==
  \A r \in Requests : pc[r] = "await" ~> pc[r] \in Ended \/ panicked \/ Entangled

\* A subscriber whose context is done sees its channel closed, and is out of
\* the table (bridge.go:269-272, 775-789).
CancelEnds ==
  \A s \in Sids :
    s \in cancelled /\ stage[s] = "on" ~> (s \notin table /\ s \in shut) \/ panicked

\* Close comes to an end: the reader returns, and every subscription that was
\* in the table has its channel closed (bridge.go:318-356).
CloseEnds ==
  closed ~> \/ /\ reader.pc \in {"off", "done"}
               /\ \A s \in Sids : stage[s] \in {"on", "over"} => s \in shut
            \/ panicked
=============================================================================
