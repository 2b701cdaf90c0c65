---------------------------- MODULE Conversation ----------------------------
(***************************************************************************)
(* What agents do with the stored conversation: the tools message and      *)
(* inbox, the subscriber that writes the turns of an OpenClaw session to a *)
(* thread, and the command listen.                                         *)
(*                                                                         *)
(* They are processes over one database, which the peers' envelopes reach  *)
(* through Inbound's module; a step is one statement.  Times are           *)
(* milliseconds of the clock of whoever made the envelope.                 *)
(***************************************************************************)
EXTENDS Naturals, Sequences, FiniteSets, Functions

CONSTANTS
  Peers, Threads, PeerOf,  \* whom a thread is with
  Tools, Gateways,         \* agents: callers of the tool message; RunSubscribers
  Readers, Scope,          \* callers of the tool inbox, and their filter's threads
  Followers,               \* processes of the command listen
  Casts,                   \* which of these may run side by side
  MaxNow, MaxLog,          \* bounds on the clock and on the log
  Salts,                   \* the random part of an id
  Flaky                    \* the readers whose statements may fail

ASSUME ConversationAssumption ==
  /\ PeerOf \in [Threads -> Peers] /\ Scope \in [Readers -> SUBSET Threads]
  /\ Casts \subseteq SUBSET (Tools \cup Gateways \cup Readers \cup Followers)
  /\ MaxNow \in Nat \ {0} /\ MaxLog \in Nat /\ Salts \subseteq Nat
  /\ Flaky \subseteq Readers
  /\ Tools \cap (Gateways \cup Peers) = {}

Agents == Tools \cup Gateways

VARIABLES
  cast,      \* the processes that run
  now,       \* this node's clock
  rows,      \* table threads: a sequence of [thread, ms]
  log,       \* table envelopes, in the order they were stored
  agent,     \* where each agent is
  cursor,    \* the next_cursor each reader has got last
  poll,      \* its call of collectInbox
  shown,     \* the ids it was shown
  follower   \* where each followAll is, and the ids it has seen

conversation == <<cast, now, rows, log, agent, cursor, poll, shown, follower>>

Ids == (0..MaxNow) \X Nat
Zero == <<0, 0>>

\* Whose envelope it is: an agent's of this node, or a peer's.
Kinds == {"say", "human", "ask"}
Envelope == [thread : Threads, by : Agents \cup Peers, kind : Kinds, id : Ids]

\* Where an agent is, and the thread it has chosen.
Acts(pc, thread) == [pc |-> pc, thread |-> thread, todo |-> <<>>, best |-> 0]
Idle == Acts("idle", CHOOSE t \in Threads : TRUE)
NoPoll == [pc |-> "idle", todo |-> <<>>, max |-> Zero, fresh |-> {}]
NotStarted == [pc |-> "off", todo |-> <<>>, seen |-> {}]

ConversationInit ==
  /\ cast \in Casts /\ now = 1 /\ rows = <<>> /\ log = <<>>
  /\ agent = [a \in Agents |-> Idle]
  /\ cursor = [r \in Readers |-> Zero] /\ poll = [r \in Readers |-> NoPoll]
  /\ shown = [r \in Readers |-> {}]
  /\ follower = [f \in Followers |-> NotStarted]

-----------------------------------------------------------------------------
(* The tables.                                                             *)

Ms(e) == e.id[1]
Opened == {rows[i].thread : i \in DOMAIN rows}

\* ListThreads and ListEnvelopes: by time, and as stored within a millisecond.
Earlier(ms, i, j) == ms[i] < ms[j] \/ (ms[i] = ms[j] /\ i < j)

\* S in this order.
Ordered(S, ms) ==
  CHOOSE s \in [1..Cardinality(S) -> S] :
    Range(s) = S /\ \A j, k \in DOMAIN s : j < k => Earlier(ms, s[j], s[k])

\* The threads among ts: whoever lists them passes over the others.
RowsOf(ts) == {i \in DOMAIN rows : rows[i].thread \in ts}
RowMs == [i \in DOMAIN rows |-> rows[i].ms]

ListThreads(ts) ==
  LET s == Ordered(RowsOf(ts), RowMs) IN [k \in DOMAIN s |-> rows[s[k]].thread]

InThread(t) == {i \in DOMAIN log : log[i].thread = t}
LogMs == [i \in DOMAIN log |-> Ms(log[i])]
Order(t) == Ordered(InThread(t), LogMs)

ListEnvelopes(t) == [k \in DOMAIN Order(t) |-> log[Order(t)[k]]]

ThreadsWith(p) == {t \in Threads : PeerOf[t] = p}
With(p) == ListThreads(ThreadsWith(p))

\* newULID: the time and random bits, whose order says nothing.
NewIds(ms) == {<<ms, s>> : s \in Salts} \ {log[i].id : i \in DOMAIN log}

Append1(t, who, kind, id) ==
  log' = Append(log, [thread |-> t, by |-> who, kind |-> kind, id |-> id])

Tick ==
  /\ now < MaxNow /\ now' = now + 1
  /\ UNCHANGED <<cast, rows, log, agent, cursor, poll, shown, follower>>

\* An envelope of a peer is stored, however long it was under way; its first one
\* creates the row of the thread, dated by the peer.
Arrive(t, kind, ms) ==
  /\ Len(log) < MaxLog
  /\ \E id \in NewIds(ms) : Append1(t, PeerOf[t], kind, id)
  /\ rows' = IF t \in Opened THEN rows ELSE Append(rows, [thread |-> t, ms |-> ms])
  /\ UNCHANGED <<cast, now, agent, cursor, poll, shown, follower>>

-----------------------------------------------------------------------------
(* Asks.                                                                   *)

IsAsk(e) == e.kind = "ask" /\ e.by \in Peers

\* Mutant: an ask is closed by the agent's word, not by the user's.
IsAnyWord(e) == e.kind = "say" /\ e.by \in Agents

IsAnswer(e) == e.kind = "human" /\ e.by \in Agents

\* The asks that no answer follows.
PendingAsks(envs) ==
  {i \in DOMAIN envs :
     IsAsk(envs[i]) /\ \A j \in DOMAIN envs : j > i => ~IsAnswer(envs[j])}

\* Mutant: an answer that nothing was waiting for counts too.
CountedFreely(n, e) ==
  IF IsAsk(e) THEN n + 1 ELSE IF IsAnswer(e) THEN n - 1 ELSE n

\* The node's own count, for the subscribers: an answer closes one ask.
Counted(n, e) ==
  IF IsAsk(e) THEN n + 1 ELSE IF IsAnswer(e) /\ n > 0 THEN n - 1 ELSE n

HasPendingAsk(envs) ==
  LET count[n \in 0..Len(envs)] == IF n = 0 THEN 0 ELSE Counted(count[n - 1], envs[n])
  IN count[Len(envs)] > 0

-----------------------------------------------------------------------------
(* The tool message, and RunSubscriber.                                    *)

\* ResolveOrOpenThread: the most recent thread, the first of those that tie.
Latest(p) ==
  LET mine == RowsOf(ThreadsWith(p))
  IN rows[CHOOSE i \in mine :
            \A j \in mine : rows[j].ms < rows[i].ms \/ (rows[j].ms = rows[i].ms /\ i <= j)].thread

Resolve(a, p) ==
  /\ a \in Tools /\ agent[a].pc = "idle" /\ Len(log) < MaxLog
  /\ \E fresh \in Threads :
       /\ PeerOf[fresh] = p
       /\ agent' = [agent EXCEPT ![a] =
            IF RowsOf(ThreadsWith(p)) # {} THEN Acts("say", Latest(p)) ELSE Acts("open", fresh)]
  /\ UNCHANGED <<cast, now, rows, log, cursor, poll, shown, follower>>

\* OpenThread: the id is new, whoever opens another thread meanwhile.
OpenThread(a) ==
  /\ agent[a].pc = "open" /\ agent[a].thread \notin Opened
  /\ rows' = Append(rows, [thread |-> agent[a].thread, ms |-> now])
  /\ agent' = [agent EXCEPT ![a] = Acts("say", agent[a].thread)]
  /\ UNCHANGED <<cast, now, log, cursor, poll, shown, follower>>

\* FindThreadWithPendingAsk: the threads are listed, and then read one by one.
StartFind(a, p) ==
  /\ a \in Tools /\ agent[a].pc = "idle" /\ Len(log) < MaxLog
  /\ agent' = [agent EXCEPT ![a] =
       [pc |-> "find", thread |-> Idle.thread, todo |-> With(p), best |-> 0]]
  /\ UNCHANGED <<cast, now, rows, log, cursor, poll, shown, follower>>

Find(a) ==
  /\ agent[a].pc = "find" /\ agent[a].todo # <<>>
  /\ LET t == Head(agent[a].todo)
         envs == ListEnvelopes(t)
         times == {Ms(envs[i]) : i \in PendingAsks(envs)}
         last == IF times = {} THEN 0 ELSE CHOOSE m \in times : \A n \in times : n <= m
         here == last > agent[a].best IN
     agent' = [agent EXCEPT ![a] =
       [pc |-> "find", todo |-> Tail(agent[a].todo),
        thread |-> IF here THEN t ELSE agent[a].thread,
        best |-> IF here THEN last ELSE agent[a].best]]
  /\ UNCHANGED <<cast, now, rows, log, cursor, poll, shown, follower>>

\* Without an ask, sendAsHuman is refused.
Found(a) ==
  /\ agent[a].pc = "find" /\ agent[a].todo = <<>>
  /\ agent' = [agent EXCEPT ![a] =
       IF agent[a].best = 0 THEN Idle ELSE Acts("human", agent[a].thread)]
  /\ UNCHANGED <<cast, now, rows, log, cursor, poll, shown, follower>>

\* A turn of the session: the user's answer if an ask waits, and the agent's word
\* otherwise.
Turn(a, t) ==
  /\ a \in Gateways /\ agent[a].pc = "idle" /\ t \in Opened /\ Len(log) < MaxLog
  /\ agent' = [agent EXCEPT ![a] =
       Acts(IF HasPendingAsk(ListEnvelopes(t)) THEN "human" ELSE "say", t)]
  /\ UNCHANGED <<cast, now, rows, log, cursor, poll, shown, follower>>

\* sendAs, up to the row in the log; see Outbox for the rest of it.
Send(a) ==
  /\ agent[a].pc \in {"say", "human"} /\ Len(log) < MaxLog
  /\ \E id \in NewIds(now) : Append1(agent[a].thread, a, agent[a].pc, id)
  /\ agent' = [agent EXCEPT ![a] = Idle]
  /\ UNCHANGED <<cast, now, rows, cursor, poll, shown, follower>>

-----------------------------------------------------------------------------
(* The tool inbox.                                                         *)

\* cursorLess: bytes, that is the time and then the random bits.
Less(a, b) == a[1] < b[1] \/ (a[1] = b[1] /\ a[2] < b[2])

\* Mutant: what is newer is asked of the table by its time.
NewerMs(after, id) == after[1] < id[1]

Newer(after, id) == Less(after, id)

\* Mutant: the cursor is the id that was read last.
LastRead(m, id) == id

Larger(m, id) == IF Less(m, id) THEN id ELSE m

Largest(m, envs) ==
  LET upTo[n \in 0..Len(envs)] == IF n = 0 THEN m ELSE Larger(upTo[n - 1], envs[n].id)
  IN upTo[Len(envs)]

Begin(r) ==
  /\ poll[r].pc = "idle"
  /\ poll' = [poll EXCEPT ![r] =
       [pc |-> "read", todo |-> ListThreads(Scope[r]), max |-> Zero, fresh |-> {}]]
  /\ UNCHANGED <<cast, now, rows, log, agent, cursor, shown, follower>>

Collect(r) ==
  /\ poll[r].pc = "read" /\ poll[r].todo # <<>>
  /\ LET envs == ListEnvelopes(Head(poll[r].todo))
         new == {e \in Range(envs) : Newer(cursor[r], e.id)} IN
     poll' = [poll EXCEPT ![r] =
       [pc |-> "read", todo |-> Tail(poll[r].todo), max |-> Largest(poll[r].max, envs),
        fresh |-> poll[r].fresh \cup {e.id : e \in new}]]
  /\ UNCHANGED <<cast, now, rows, log, agent, cursor, shown, follower>>

\* A thread that cannot be read is passed over.
CollectFails(r) ==
  /\ r \in Flaky /\ poll[r].pc = "read" /\ poll[r].todo # <<>>
  /\ poll' = [poll EXCEPT ![r].todo = Tail(@)]
  /\ UNCHANGED <<cast, now, rows, log, agent, cursor, shown, follower>>

\* encodeCursor: an empty store does not rewind the caller.
NextCursor(max, after) == IF max = Zero THEN after ELSE max

\* Something new, the first call, the end of the wait, or a cancellation: the
\* caller uses next_cursor in its next call.
Answer(r) ==
  /\ poll[r].pc = "read" /\ poll[r].todo = <<>>
  /\ shown' = [shown EXCEPT ![r] = @ \cup poll[r].fresh]
  /\ cursor' = [cursor EXCEPT ![r] = NextCursor(poll[r].max, @)]
  /\ poll' = [poll EXCEPT ![r] = NoPoll]
  /\ UNCHANGED <<cast, now, rows, log, agent, follower>>

\* Nothing is new and the caller waits: collectInbox runs again.
Again(r) ==
  /\ poll[r].pc = "read" /\ poll[r].todo = <<>>
  /\ poll[r].fresh = {} /\ cursor[r] # Zero
  /\ poll' = [poll EXCEPT ![r] = NoPoll]
  /\ UNCHANGED <<cast, now, rows, log, agent, cursor, shown, follower>>

-----------------------------------------------------------------------------
(* The command listen: followAll replays, and then looks at every thread     *)
(* again and again.                                                        *)

\* Mutant: the threads are listed once.
FollowsKnown(f) == <<>>

Follows(f) == ListThreads(Threads)

List(f) ==
  /\ follower[f].pc \in {"off", "live"} /\ follower[f].todo = <<>>
  /\ follower' = [follower EXCEPT ![f] =
       IF follower[f].pc = "off"
       THEN [pc |-> "replay", todo |-> ListThreads(Threads), seen |-> {}]
       ELSE [pc |-> "live", todo |-> Follows(f), seen |-> follower[f].seen]]
  /\ UNCHANGED <<cast, now, rows, log, agent, cursor, poll, shown>>

\* Whatever is not printed because of -tail is marked as seen.
Follow(f) ==
  /\ follower[f].pc \in {"replay", "live"} /\ follower[f].todo # <<>>
  /\ LET envs == ListEnvelopes(Head(follower[f].todo)) IN
     follower' = [follower EXCEPT ![f] =
       [pc |-> follower[f].pc, todo |-> Tail(follower[f].todo),
        seen |-> follower[f].seen \cup {e.id : e \in Range(envs)}]]
  /\ UNCHANGED <<cast, now, rows, log, agent, cursor, poll, shown>>

GoLive(f) ==
  /\ follower[f].pc = "replay" /\ follower[f].todo = <<>>
  /\ follower' = [follower EXCEPT ![f].pc = "live"]
  /\ UNCHANGED <<cast, now, rows, log, agent, cursor, poll, shown>>

-----------------------------------------------------------------------------
Act(a) ==
  \/ \E p \in Peers : Resolve(a, p) \/ StartFind(a, p)
  \/ OpenThread(a) \/ Find(a) \/ Found(a) \/ Send(a)
  \/ \E t \in Threads : Turn(a, t)

Read(r) == Begin(r) \/ Collect(r) \/ CollectFails(r) \/ Answer(r) \/ Again(r)

FollowStep(f) == List(f) \/ Follow(f) \/ GoLive(f)

ConversationNext ==
  \/ Tick
  \/ \E t \in Threads, kind \in {"ask", "human"}, ms \in 1..MaxNow : Arrive(t, kind, ms)
  \/ \E a \in Agents \cap cast : Act(a)
  \/ \E r \in Readers \cap cast : Read(r)
  \/ \E f \in Followers \cap cast : FollowStep(f)

ConversationSpec == ConversationInit /\ [][ConversationNext]_conversation

\* The command listen has a ticker.
FairConversation ==
  ConversationSpec /\ \A f \in Followers : WF_conversation(f \in cast /\ FollowStep(f))

-----------------------------------------------------------------------------
(* What must hold.                                                         *)

ConversationTypeOK ==
  /\ cast \in Casts /\ now \in 1..MaxNow
  /\ rows \in Seq([thread : Threads, ms : 1..MaxNow])
  /\ log \in Seq(Envelope) /\ Len(log) <= MaxLog
  /\ agent \in [Agents -> [pc : {"idle", "open", "say", "find", "human"},
                          thread : Threads \cup {Idle.thread},
                          todo : Seq(Threads), best : 0..MaxNow]]
  /\ cursor \in [Readers -> Ids] /\ shown \in [Readers -> SUBSET Ids]
  /\ poll \in [Readers -> [pc : {"idle", "read"}, todo : Seq(Threads), max : Ids,
                           fresh : SUBSET Ids]]
  /\ follower \in [Followers -> [pc : {"off", "replay", "live"}, todo : Seq(Threads),
                                 seen : SUBSET Ids]]

\* A caller that passes on its last next_cursor is shown no envelope twice,
\* though the ids do not come in order, threads are read at different moments and
\* other processes write meanwhile.
NothingTwice == \A r \in Readers \ Flaky : poll[r].fresh \cap shown[r] = {}

\* The next_cursor of a caller whose threads can all be read never goes back (a
\* theorem of NodeProofs).  A thread that could not be read may take it back:
\* CursorAdvances, below, does not hold.
CursorStaysAhead ==
  [][\A r \in Readers \ Flaky : ~Less(cursor'[r], cursor[r])]_conversation

\* An envelope that the cursor has passed was shown, or it was stored late: after
\* a larger id.  (A larger id of another thread may also have been read first.)
SkippedIsLate ==
  \A r \in Readers : \A i \in DOMAIN log :
    log[i].thread \in Scope[r] /\ ~Less(cursor[r], log[i].id) /\ log[i].id \notin shown[r] =>
      \E j \in DOMAIN log :
        Less(log[i].id, log[j].id) /\ (j < i \/ log[j].thread # log[i].thread)

\* Between two answers of one tool's caller in a thread there is an ask that the
\* first did not answer: it sorts after it, and was stored before the second
\* (tool_message.go: the tool cannot make up what the user said).
Before(i, j) == Earlier(LogMs, i, j)

EachAnswerHasItsAsk ==
  \A a \in Tools : \A i, j \in DOMAIN log :
    LET h1 == log[i]
        h2 == log[j] IN
    /\ i < j /\ h1.thread = h2.thread
    /\ h1.by = a /\ h1.kind = "human" /\ h2.by = a /\ h2.kind = "human"
    => \E k \in 1..j : IsAsk(log[k]) /\ log[k].thread = h1.thread /\ Before(i, k)

\* An ask that the tools show as pending is pending for the node: a turn of the
\* session is then sent as the user's.
PendingIsPending ==
  \A t \in Threads :
    LET envs == ListEnvelopes(t) IN PendingAsks(envs) # {} => HasPendingAsk(envs)

\* followAll comes to see everything, whatever the order of the ids and times.
EverythingIsFollowed ==
  <>[](\A f \in Followers \cap cast : \A i \in DOMAIN log : log[i].id \in follower[f].seen)

\* Does not hold (add it to MCConversation.cfg): the cursor does not go back.
CursorAdvances == [][\A r \in Readers : ~Less(cursor'[r], cursor[r])]_conversation

\* Does not hold (add it to MCConversation.cfg): what the cursor has passed was shown.
CursorIsSeen ==
  \A r \in Readers : \A i \in DOMAIN log :
    log[i].thread \in Scope[r] /\ ~Less(cursor[r], log[i].id) => log[i].id \in shown[r]

\* Does not hold (add it to MCConversation.cfg): the node waits for an answer only
\* where an ask is pending.
NothingElseIsPending ==
  \A t \in Threads :
    LET envs == ListEnvelopes(t) IN HasPendingAsk(envs) => PendingAsks(envs) # {}

\* Does not hold (add it to MCConversation.cfg): one conversation for each peer.
OneConversation == \A p \in Peers : Cardinality({t \in Opened : PeerOf[t] = p}) <= 1

\* Does not hold (add it to MCConversation.cfg): an ask is answered once.
OneAnswer ==
  \A i, j \in DOMAIN log :
    i < j /\ log[i].thread = log[j].thread /\ IsAnswer(log[i]) /\ IsAnswer(log[j])
    => \E k \in i..j : IsAsk(log[k])
=============================================================================
