------------------------------ MODULE Sessions ------------------------------
(***************************************************************************)
(* The OpenClaw sessions of the peers: EnsureSessionFor, called by the     *)
(* daemon's start, by the surfaces for every message, and by the hub for a *)
(* new peer; and the subscribers that carry the turns of a session back to *)
(* a thread.                                                               *)
(*                                                                         *)
(* A step is one critical section of the map's lock, one statement, or one *)
(* request to the gateway, whose sessions survive the daemon.  Between two *)
(* runs of the daemon the tables are what is left.                         *)
(***************************************************************************)
EXTENDS Naturals, FiniteSets

CONSTANTS
  Peers, Threads, PeerOf,  \* whom a thread is with
  Messages,                \* goroutines that hand a message to a surface
  Start, Hub,              \* the daemon's start, and the hub's goroutine
  Sids,                    \* session ids: the numbers the gateway gives out
  MaxStarts,               \* bound on the runs of the daemon
  Faults,                  \* "store": a statement fails; "create": a request
  None

Callers == Messages \cup {Start, Hub}

ASSUME SessionsAssumption ==
  /\ PeerOf \in [Threads -> Peers]
  /\ Sids \subseteq Nat /\ Start # Hub /\ {Start, Hub} \cap Messages = {}
  /\ MaxStarts \in Nat /\ Faults \subseteq {"store", "create"}
  /\ None \notin Sids \cup Peers \cup Threads

VARIABLES
  peers, threads,  \* the tables peers and threads: who is in them
  table,           \* table openclaw_sessions
  owner,           \* the gateway's sessions: the peer each was created for
  used,            \* the sessions that something was sent to
  cache,           \* the session map
  call,            \* where each caller is in EnsureSessionFor
  daemon,          \* where enableOpenClawMode is; "up" after it
  listed,          \* its list of peers
  todo,            \* what its loop has left
  surfaces,        \* the OpenClaw surfaces are set
  starting,        \* RunSubscribers that have not subscribed yet: session, thread
  subs,            \* b.subscriptions: the thread each session's turns go to
  starts           \* how often the daemon was started

database == <<peers, threads, table>>
gateway  == <<owner, used>>
process  == <<cache, call, daemon, listed, todo, surfaces, starting, subs, starts>>
vars     == <<database, gateway, process>>

Steps == {"idle", "cache", "table", "create", "set", "put", "use", "find"}
NoCall == [pc |-> "idle", peer |-> None, sid |-> None, thread |-> None]

TypeOK ==
  /\ peers \subseteq Peers /\ threads \subseteq Threads
  /\ table \in [Peers -> Sids \cup {None}]
  /\ owner \in [Sids -> Peers \cup {None}] /\ used \subseteq Sids
  /\ cache \in [Peers -> Sids \cup {None}]
  /\ call \in [Callers -> [pc : Steps, peer : Peers \cup {None},
                           sid : Sids \cup {None}, thread : Threads \cup {None}]]
  /\ daemon \in {"off", "peers", "set", "threads", "up", "failed"}
  /\ listed \subseteq Peers
  /\ todo \subseteq Peers \cup Threads /\ surfaces \in BOOLEAN
  /\ starting \subseteq Sids \X Threads
  /\ subs \in [Sids -> Threads \cup {None}]
  /\ starts \in 0..MaxStarts

Init ==
  /\ peers \in SUBSET Peers /\ threads \in SUBSET {t \in Threads : PeerOf[t] \in peers}
  /\ table = [p \in Peers |-> None]
  /\ owner = [s \in Sids |-> None] /\ used = {}
  /\ cache = [p \in Peers |-> None]
  /\ call = [c \in Callers |-> NoCall]
  /\ daemon = "off" /\ listed = {} /\ todo = {} /\ surfaces = FALSE
  /\ starting = {} /\ subs = [s \in Sids |-> None]
  /\ starts = 0

-----------------------------------------------------------------------------
(* EnsureSessionFor.                                                       *)

Calls(p, t) == [pc |-> "cache", peer |-> p, sid |-> None, thread |-> t]
Onward(c, pc, s) ==
  [pc |-> pc, peer |-> call[c].peer, sid |-> s, thread |-> call[c].thread]
GoesWith(c, pc, s) == call' = [call EXCEPT ![c] = Onward(c, pc, s)]
Goes(c, pc) == GoesWith(c, pc, call[c].sid)

\* An error: the message is dropped, and the daemon does not start.
Gives(c) ==
  /\ call' = [call EXCEPT ![c] = NoCall]
  /\ IF c = Start THEN daemon' = "failed" ELSE UNCHANGED daemon

LookCache(c) ==
  /\ call[c].pc = "cache"
  /\ LET s == cache[call[c].peer] IN
     IF s # None THEN GoesWith(c, "use", s) ELSE Goes(c, "table")
  /\ UNCHANGED <<database, gateway, cache, daemon, listed, todo, surfaces, starting, subs, starts>>

LookTable(c) ==
  /\ call[c].pc = "table"
  /\ LET s == table[call[c].peer] IN
     IF s # None THEN GoesWith(c, "put", s) ELSE Goes(c, "create")
  /\ UNCHANGED <<database, gateway, cache, daemon, listed, todo, surfaces, starting, subs, starts>>

Create(c) ==
  /\ call[c].pc = "create"
  /\ \E s \in Sids : /\ owner[s] = None
                     /\ \A r \in Sids : r < s => owner[r] # None
                     /\ owner' = [owner EXCEPT ![s] = call[c].peer]
                     /\ GoesWith(c, "set", s)
  /\ UNCHANGED <<database, used, cache, daemon, listed, todo, surfaces, starting, subs, starts>>

Set(c) ==
  /\ call[c].pc = "set"
  /\ table' = [table EXCEPT ![call[c].peer] = call[c].sid]
  /\ Goes(c, "put")
  /\ UNCHANGED <<peers, threads, gateway, cache, daemon, listed, todo, surfaces, starting, subs, starts>>

\* Mutant: a session that could not be written down is used all the same.
UsesItAnyhow(c) == IF call[c].pc = "set" THEN Goes(c, "put") /\ UNCHANGED daemon ELSE Gives(c)

OnError(c) == Gives(c)

Fails(c) ==
  /\ \/ call[c].pc \in {"table", "set"} /\ "store" \in Faults
     \/ call[c].pc = "create" /\ "create" \in Faults
  /\ OnError(c)
  /\ UNCHANGED <<database, gateway, cache, listed, todo, surfaces, starting, subs, starts>>

Put(c) ==
  /\ call[c].pc = "put"
  /\ cache' = [cache EXCEPT ![call[c].peer] = call[c].sid]
  /\ Goes(c, "use")
  /\ UNCHANGED <<database, gateway, daemon, listed, todo, surfaces, starting, subs, starts>>

-----------------------------------------------------------------------------
(* The surfaces: OnMessage, Notify and Ask.                                *)

\* A message of a peer comes, perhaps the first of a thread.
Receive(c, t) ==
  /\ surfaces /\ call[c].pc = "idle" /\ PeerOf[t] \in peers
  /\ threads' = threads \cup {t}
  /\ call' = [call EXCEPT ![c] = Calls(PeerOf[t], t)]
  /\ UNCHANGED <<peers, table, gateway, cache, daemon, listed, todo, surfaces, starting, subs, starts>>

Deliver(c) ==
  /\ c \in Messages /\ call[c].pc = "use"
  /\ used' = used \cup {call[c].sid}
  /\ call' = [call EXCEPT ![c] = NoCall]
  /\ UNCHANGED <<database, owner, cache, daemon, listed, todo, surfaces, starting, subs, starts>>

-----------------------------------------------------------------------------
(* A new peer: the command's pairing is known to the database only; the hub's is *)
(* followed by establishPeerSession.                                         *)

PairByCommand(p) ==
  /\ p \notin peers /\ peers' = peers \cup {p}
  /\ UNCHANGED <<threads, table, gateway, process>>

PairByHub(p) ==
  /\ daemon = "up" /\ call[Hub].pc = "idle" /\ p \notin peers
  /\ peers' = peers \cup {p}
  /\ call' = [call EXCEPT ![Hub] = Calls(p, None)]
  /\ UNCHANGED <<threads, table, gateway, cache, daemon, listed, todo, surfaces, starting, subs, starts>>

\* The context of the peer is sent, and then a thread is looked for.
Establish ==
  /\ call[Hub].pc = "use"
  /\ used' = used \cup {call[Hub].sid}
  /\ Goes(Hub, "find")
  /\ UNCHANGED <<database, owner, cache, daemon, listed, todo, surfaces, starting, subs, starts>>

FindThread ==
  /\ call[Hub].pc = "find"
  /\ LET found == {t \in threads : PeerOf[t] = call[Hub].peer} IN
     IF found = {} THEN UNCHANGED starting
     ELSE \E t \in found : starting' = starting \cup {<<call[Hub].sid, t>>}
  /\ call' = [call EXCEPT ![Hub] = NoCall]
  /\ UNCHANGED <<database, gateway, cache, daemon, listed, todo, surfaces, subs, starts>>

\* Bridge.Subscribe takes one reader for each session.
Subscribe(s, t) ==
  /\ <<s, t>> \in starting
  /\ starting' = starting \ {<<s, t>>}
  /\ subs' = IF subs[s] = None THEN [subs EXCEPT ![s] = t] ELSE subs
  /\ UNCHANGED <<database, gateway, cache, call, daemon, listed, todo, surfaces, starts>>

-----------------------------------------------------------------------------
(* enableOpenClawMode.                                                     *)

StartDaemon ==
  /\ daemon = "off" /\ starts < MaxStarts
  /\ starts' = starts + 1 /\ daemon' = "peers" /\ todo' = peers /\ listed' = peers
  /\ UNCHANGED <<database, gateway, cache, call, surfaces, starting, subs>>

StartCalls(p, t) ==
  /\ call[Start].pc = "idle"
  /\ call' = [call EXCEPT ![Start] = Calls(p, t)]

EnsurePeer(p) ==
  /\ daemon = "peers" /\ p \in todo /\ StartCalls(p, None)
  /\ UNCHANGED <<database, gateway, cache, daemon, listed, todo, surfaces, starting, subs, starts>>

EnsureThread(t) ==
  /\ daemon = "threads" /\ t \in todo /\ StartCalls(PeerOf[t], t)
  /\ UNCHANGED <<database, gateway, cache, daemon, listed, todo, surfaces, starting, subs, starts>>

\* A peer's session is ready; a thread's is told its context and is subscribed to.
Ensured ==
  /\ call[Start].pc = "use"
  /\ call' = [call EXCEPT ![Start] = NoCall]
  /\ LET t == call[Start].thread
         s == call[Start].sid IN
     IF t = None
     THEN todo' = todo \ {call[Start].peer} /\ UNCHANGED <<used, starting>>
     ELSE /\ todo' = todo \ {t} /\ used' = used \cup {s}
          /\ starting' = starting \cup {<<s, t>>}
  /\ UNCHANGED <<database, owner, cache, daemon, listed, surfaces, subs, starts>>

\* Mutant: the surfaces are set before the sessions are ready.
SetAtOnce == daemon = "peers"

MayBeSet == daemon = "peers" /\ todo = {}

SetSurfaces ==
  /\ MayBeSet /\ ~surfaces /\ call[Start].pc = "idle"
  /\ surfaces' = TRUE
  /\ daemon' = IF todo = {} THEN "set" ELSE daemon
  /\ UNCHANGED <<database, gateway, cache, call, listed, todo, starting, subs, starts>>

ListThreads ==
  /\ daemon \in {"set", "peers"} /\ surfaces /\ todo = {}
  /\ daemon' = "threads" /\ todo' = threads
  /\ UNCHANGED <<database, gateway, cache, call, listed, surfaces, starting, subs, starts>>

Started ==
  /\ daemon = "threads" /\ todo = {}
  /\ daemon' = "up"
  /\ UNCHANGED <<database, gateway, cache, call, listed, todo, surfaces, starting, subs, starts>>

\* The daemon ends, or crashes, at any point.
StopDaemon ==
  /\ daemon # "off"
  /\ daemon' = "off" /\ todo' = {} /\ listed' = {} /\ surfaces' = FALSE
  /\ cache' = [p \in Peers |-> None]
  /\ call' = [c \in Callers |-> NoCall]
  /\ starting' = {} /\ subs' = [s \in Sids |-> None]
  /\ UNCHANGED <<database, gateway, starts>>

-----------------------------------------------------------------------------
Ensure(c) == LookCache(c) \/ LookTable(c) \/ Create(c) \/ Set(c) \/ Fails(c) \/ Put(c)

Next ==
  \/ \E c \in Callers : Ensure(c)
  \/ \E c \in Messages : Deliver(c) \/ \E t \in Threads : Receive(c, t)
  \/ \E p \in Peers : PairByCommand(p) \/ PairByHub(p) \/ EnsurePeer(p)
  \/ \E t \in Threads : EnsureThread(t)
  \/ \E s \in Sids, t \in Threads : Subscribe(s, t)
  \/ Establish \/ FindThread
  \/ StartDaemon \/ Ensured \/ SetSurfaces \/ ListThreads \/ Started \/ StopDaemon

Spec == Init /\ [][Next]_vars

-----------------------------------------------------------------------------
(* What must hold.                                                         *)

\* Once a peer's session is in use and nobody is creating another, nobody will:
\* not the next message, and not the daemon when it is started again (doc.go).
Creating(p) == \E c \in Callers : call[c].peer = p /\ call[c].pc \in {"create", "set"}
Settled(p) == (\E s \in used : owner[s] = p) /\ ~Creating(p)

SettledStays == [][\A p \in Peers : Settled(p) => Settled(p)']_vars

\* The turns that come back are those of the session that gets the peer's
\* messages: for every peer the daemon listed when it started, whatever comes in
\* while it does, and whoever creates sessions meanwhile.
AnswersComeBack ==
  \A s \in Sids : subs[s] # None /\ PeerOf[subs[s]] \in listed =>
    cache[PeerOf[subs[s]]] = s

Quiet == daemon = "up" /\ starting = {} /\ \A c \in Callers : call[c].pc = "idle"

\* Does not hold (add it to MCDaemon.cfg): the turns of a session flow back on the
\* thread of its peer.
TurnsFlowBack ==
  Quiet => \A t \in threads :
    LET s == cache[PeerOf[t]] IN s # None => subs[s] # None

\* Does not hold (add it to MCDaemon.cfg): a peer has one session.
OneSession ==
  \A s, r \in used : owner[s] = owner[r] => s = r

\* Does not hold (add it to MCDaemon.cfg): the turns go to every thread of the peer.
EveryThreadIsHeard ==
  Quiet => \A t \in threads :
    PeerOf[t] \in listed /\ (\E s \in used : owner[s] = PeerOf[t]) =>
      \E s \in Sids : subs[s] = t
=============================================================================
