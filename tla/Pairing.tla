------------------------------- MODULE Pairing -------------------------------
(***************************************************************************)
(* Pairing by a code: the exchange of cards (core/pairing), what its       *)
(* callers do with the result (Pair, Consume, the tool, the command, the   *)
(* hub), and the rendezvous of the relay (servePair and pipe).             *)
(*                                                                         *)
(* A party is one call of Rendezvous.  A step is one critical section of   *)
(* r.mu, one websocket call, one operation on the channel stop, or one     *)
(* statement on the database.                                              *)
(***************************************************************************)
EXTENDS Naturals, FiniteSets

CONSTANTS
  Parties, Initiators,  \* calls of Rendezvous; those made by Pair
  Caller,               \* who called: the tool, the command, the OpenClaw hub
  Unreliable,           \* the parties whose process or connection may fail
  Nodes, NodeOf,        \* whose call it is
  Codes, CodeOf,        \* the code the call was made with
  Kex,                  \* the kex key of each node
  Faults,               \* how a process ends; the database; a slow party
  None

ASSUME PairingAssumption ==
  /\ Initiators \subseteq Parties
  /\ Caller \in [Parties -> {"tool", "command", "hub"}]
  /\ Unreliable \subseteq Parties
  /\ NodeOf \in [Parties -> Nodes] /\ CodeOf \in [Parties -> Codes]
  /\ Kex \in [Nodes -> Nat]
  /\ Faults \subseteq {"closed", "gone", "store", "slow"}
  /\ None \notin Parties

VARIABLES
  pc,       \* where Rendezvous and its caller are
  expired,  \* the parties whose deadline has passed
  got,      \* the party whose card was opened
  report,   \* what the user was told
  peers,    \* table peers of each node: the SAS stored for each other node
  client,   \* the party's end of its connection; "gone" without a word
  server,   \* the relay's end
  up,       \* the parties whose card is on its way to the relay
  down,     \* the card on its way from the relay to the party
  slot,     \* r.pairing
  handler,  \* the goroutine of servePair
  mate,     \* the slot's party, for the one that came second
  reader,   \* pipe's goroutine that reads from the party
  stop,     \* the second parties whose channel stop is closed
  panicked  \* stop was closed twice

calls == <<pc, expired, got, report, peers>>
net   == <<client, server, up, down>>
relay == <<slot, handler, mate, reader, stop, panicked>>
vars  == <<calls, net, relay>>

Words == Codes \X Nat \X Nat

TypeOK ==
  /\ pc \in [Parties -> {"idle", "send", "receive", "store", "done", "dead"}]
  /\ expired \subseteq Parties
  /\ got \in [Parties -> Parties \cup {None}]
  /\ report \in [Parties -> {None, "paired", "failed", "unheard"}]
  /\ peers \in [Nodes -> [Nodes -> Words \cup {None}]]
  /\ client \in [Parties -> {"none", "open", "closed", "gone"}]
  /\ server \in [Parties -> {"none", "open", "closed"}]
  /\ up \subseteq Parties
  /\ down \in [Parties -> Parties \cup {None}]
  /\ slot \in [Codes -> Parties \cup {None}]
  /\ handler \in [Parties -> {"none", "arrived", "waiting", "expiring",
                              "piping", "joining", "gone"}]
  /\ mate \in [Parties -> Parties \cup {None}]
  /\ reader \in [Parties -> {"off", "reading", "holding", "stopping", "ended"}]
  /\ stop \subseteq Parties /\ panicked \in BOOLEAN

Init ==
  /\ pc = [p \in Parties |-> "idle"] /\ expired = {}
  /\ got = [p \in Parties |-> None] /\ report = [p \in Parties |-> None]
  /\ peers = [n \in Nodes |-> [m \in Nodes |-> None]]
  /\ client = [p \in Parties |-> "none"] /\ server = [p \in Parties |-> "none"]
  /\ up = {} /\ down = [p \in Parties |-> None]
  /\ slot = [c \in Codes |-> None]
  /\ handler = [p \in Parties |-> "none"] /\ mate = [p \in Parties |-> None]
  /\ reader = [p \in Parties |-> "off"]
  /\ stop = {} /\ panicked = FALSE

-----------------------------------------------------------------------------
(* Rendezvous and its callers.                                             *)

\* Mutant: the consumer does not wait for the initiator's card.
BothSendFirst(p) == <<"send", "receive", "store">>

\* The initiator sends its card and then reads; the consumer the other way
\* round.  Afterwards Rendezvous returns, and closes its connection.
Steps(p) == IF p \in Initiators THEN <<"send", "receive", "store">>
                                ELSE <<"receive", "send", "store">>

After(p, step) == Steps(p)[1 + CHOOSE i \in 1..2 : Steps(p)[i] = step]

CloseIf(p, next) ==
  client' = IF next = "store" THEN [client EXCEPT ![p] = "closed"] ELSE client

Min2(a, b) == IF a < b THEN a ELSE b
Max2(a, b) == IF a < b THEN b ELSE a

SAS(c, mine, theirs) == <<c, Min2(mine, theirs), Max2(mine, theirs)>>

\* The command waits for the result and prints it; so does whoever consumes.
CommandTells(p, r) == r
ConsumerTells(p, r) == r

\* The tool has answered with the words long ago: what Pair yields is dropped.
ToolTells(p, r) == IF p \in Initiators THEN "unheard" ELSE ConsumerTells(p, r)

\* awaitPairResult may have given up, see HubGivesUp; the hub's consume has not.
HubTells(p, r) == IF report[p] = None THEN r ELSE report[p]

Tell(p, r) ==
  report' = [report EXCEPT ![p] =
    CASE Caller[p] = "command" -> IF p \in Initiators THEN CommandTells(p, r)
                                                      ELSE ConsumerTells(p, r)
      [] Caller[p] = "tool" -> ToolTells(p, r)
      [] Caller[p] = "hub"  -> HubTells(p, r)]

Dial(p) ==
  /\ pc[p] = "idle"
  /\ pc' = [pc EXCEPT ![p] = Steps(p)[1]]
  /\ client' = [client EXCEPT ![p] = "open"]
  /\ server' = [server EXCEPT ![p] = "open"]
  /\ handler' = [handler EXCEPT ![p] = "arrived"]
  /\ UNCHANGED <<expired, got, report, peers, up, down, slot, mate, reader,
                 stop, panicked>>

Send(p) ==
  /\ pc[p] = "send" /\ p \notin expired
  /\ pc' = [pc EXCEPT ![p] = After(p, "send")]
  /\ up' = IF server[p] = "open" THEN up \cup {p} ELSE up
  /\ CloseIf(p, After(p, "send"))
  /\ UNCHANGED <<expired, got, report, peers, server, down, relay>>

\* openAEAD refuses what was not sealed with the same code.
Receive(p) ==
  /\ pc[p] = "receive" /\ p \notin expired /\ down[p] # None
  /\ CodeOf[down[p]] = CodeOf[p]
  /\ got' = [got EXCEPT ![p] = down[p]]
  /\ down' = [down EXCEPT ![p] = None]
  /\ pc' = [pc EXCEPT ![p] = After(p, "receive")]
  /\ CloseIf(p, After(p, "receive"))
  /\ UNCHANGED <<expired, report, peers, server, up, relay>>

\* A read or a write fails: deadline, connection, or a frame that does not open.
\* A write to a connection that the relay has closed may also succeed: see Send.
Fails(p) ==
  /\ \/ pc[p] \in {"send", "receive"} /\ p \in expired
     \/ pc[p] = "send" /\ server[p] # "open"
     \/ pc[p] = "receive" /\ server[p] # "open" /\ down[p] = None
     \/ pc[p] = "receive" /\ down[p] # None /\ CodeOf[down[p]] # CodeOf[p]
  /\ pc' = [pc EXCEPT ![p] = "done"]
  /\ client' = [client EXCEPT ![p] = "closed"]
  /\ Tell(p, "failed")
  /\ UNCHANGED <<expired, got, peers, server, up, down, relay>>

\* UpsertPeer; Pair gives it a context without a deadline.
Store(p) ==
  /\ pc[p] = "store"
  /\ LET me == NodeOf[p]
         other == NodeOf[got[p]] IN
     peers' = [peers EXCEPT ![me][other] = SAS(CodeOf[p], Kex[me], Kex[other])]
  /\ pc' = [pc EXCEPT ![p] = "done"]
  /\ Tell(p, "paired")
  /\ UNCHANGED <<expired, got, net, relay>>

StoreFails(p) ==
  /\ pc[p] = "store"
  /\ "store" \in Faults \/ (p \notin Initiators /\ p \in expired)
  /\ pc' = [pc EXCEPT ![p] = "done"]
  /\ Tell(p, "failed")
  /\ UNCHANGED <<expired, got, peers, net, relay>>

Expire(p) ==
  /\ pc[p] \in {"send", "receive", "store"} /\ p \notin expired
  /\ expired' = expired \cup {p}
  /\ UNCHANGED <<pc, got, report, peers, net, relay>>

\* awaitPairResult: the context is done while Rendezvous may still store.
HubGivesUp(p) ==
  /\ Caller[p] = "hub" /\ p \in Initiators /\ p \in expired
  /\ report[p] = None /\ pc[p] # "dead"
  /\ Tell(p, "failed")
  /\ UNCHANGED <<pc, expired, got, peers, net, relay>>

\* The process ends, or its host or its network disappears: the relay is told of
\* the first only.
Crash(p) ==
  /\ p \in Unreliable /\ pc[p] \in {"send", "receive", "store"}
  /\ pc' = [pc EXCEPT ![p] = "dead"]
  /\ \E how \in Faults \cap {"closed", "gone"} :
       client' = [client EXCEPT ![p] = IF @ = "open" THEN how ELSE @]
  /\ UNCHANGED <<expired, got, report, peers, server, up, down, relay>>

Call(p) == Send(p) \/ Receive(p) \/ Fails(p) \/ Store(p) \/ StoreFails(p)

-----------------------------------------------------------------------------
(* servePair.                                                              *)

\* The first party waits in the slot; the second takes it out and runs pipe.
Arrive(p) ==
  /\ handler[p] = "arrived"
  /\ LET c == CodeOf[p] IN
     IF slot[c] = None
     THEN /\ slot' = [slot EXCEPT ![c] = p]
          /\ handler' = [handler EXCEPT ![p] = "waiting"]
          /\ UNCHANGED <<mate, reader>>
     ELSE /\ slot' = [slot EXCEPT ![c] = None]
          /\ handler' = [handler EXCEPT ![p] = "piping"]
          /\ mate' = [mate EXCEPT ![p] = slot[c]]
          /\ reader' = [reader EXCEPT ![p] = "reading", ![slot[c]] = "reading"]
  /\ UNCHANGED <<calls, net, stop, panicked>>

\* PairRendezvousTTL is over.  select may choose this when done is closed too.
TimeOut(p) ==
  /\ handler[p] = "waiting"
  /\ handler' = [handler EXCEPT ![p] = "expiring"]
  /\ UNCHANGED <<calls, net, slot, mate, reader, stop, panicked>>

\* Mutant: the slot is deleted whoever is in it.
EvictAnyone(p) == [slot EXCEPT ![CodeOf[p]] = None]

Evicted(p) == IF slot[CodeOf[p]] = p THEN [slot EXCEPT ![CodeOf[p]] = None] ELSE slot

\* The connection is closed even when a second party has come meanwhile.
Evict(p) ==
  /\ handler[p] = "expiring"
  /\ slot' = Evicted(p)
  /\ handler' = [handler EXCEPT ![p] = "gone"]
  /\ server' = [server EXCEPT ![p] = "closed"]
  /\ UNCHANGED <<calls, client, up, down, mate, reader, stop, panicked>>

\* case <-slot.done
Release(p) ==
  /\ handler[p] = "waiting"
  /\ \E q \in Parties : mate[q] = p /\ handler[q] = "gone"
  /\ handler' = [handler EXCEPT ![p] = "gone"]
  /\ UNCHANGED <<calls, net, slot, mate, reader, stop, panicked>>

-----------------------------------------------------------------------------
(* pipe, run by the handler of the party that came second.                 *)

Owner(x) == IF mate[x] # None THEN x ELSE CHOOSE q \in Parties : mate[q] = x
Opposite(x) == IF mate[x] # None THEN mate[x] ELSE Owner(x)

ReadFrame(x) ==
  /\ reader[x] = "reading" /\ server[x] = "open" /\ x \in up
  /\ up' = up \ {x}
  /\ reader' = [reader EXCEPT ![x] = "holding"]
  /\ UNCHANGED <<calls, client, server, down, slot, handler, mate, stop, panicked>>

\* An error: the goroutine looks at stop, and leaves or goes on to close it.
Error(x) ==
  reader' = [reader EXCEPT ![x] = IF Owner(x) \in stop THEN "ended" ELSE "stopping"]

\* The connection is closed by either side, or ReadWriteTimeout is over: the only
\* end of a party that is gone.  With "slow" it is over before a frame comes.
ReadFails(x) ==
  /\ reader[x] = "reading"
  /\ \/ server[x] # "open"
     \/ client[x] \in {"closed", "gone"} /\ x \notin up
     \/ "slow" \in Faults
  /\ Error(x)
  /\ UNCHANGED <<calls, net, slot, handler, mate, stop, panicked>>

WriteFrame(x) ==
  /\ reader[x] = "holding"
  /\ LET y == Opposite(x) IN
     IF server[y] = "open"
     THEN /\ down' = IF client[y] = "open" THEN [down EXCEPT ![y] = x] ELSE down
          /\ reader' = [reader EXCEPT ![x] = "reading"]
     ELSE Error(x) /\ UNCHANGED down
  /\ UNCHANGED <<calls, client, server, up, slot, handler, mate, stop, panicked>>

\* The relay process dies of the panic; started again, it knows nobody.
Restart ==
  /\ panicked' = TRUE
  /\ server' = [p \in Parties |-> IF server[p] = "none" THEN "none" ELSE "closed"]
  /\ up' = {}
  /\ slot' = [c \in Codes |-> None]
  /\ handler' = [p \in Parties |-> IF handler[p] = "none" THEN "none" ELSE "gone"]
  /\ reader' = [p \in Parties |-> IF reader[p] = "off" THEN "off" ELSE "ended"]

\* close(stop), some time after it was found open.
CloseStop(x) ==
  /\ reader[x] = "stopping"
  /\ IF Owner(x) \in stop
     THEN Restart /\ UNCHANGED <<down, mate, stop>>
     ELSE /\ stop' = stop \cup {Owner(x)}
          /\ reader' = [reader EXCEPT ![x] = "ended"]
          /\ UNCHANGED <<server, up, down, slot, handler, mate, panicked>>
  /\ UNCHANGED <<calls, client>>

\* Mutant: pipe closes the connection of the second party only.
CloseOne(q) == [server EXCEPT ![q] = "closed"]

CloseBoth(q) == [server EXCEPT ![q] = "closed", ![mate[q]] = "closed"]

\* a.Close and b.Close.
PipeCloses(q) ==
  /\ handler[q] = "piping" /\ q \in stop
  /\ server' = CloseBoth(q)
  /\ handler' = [handler EXCEPT ![q] = "joining"]
  /\ UNCHANGED <<calls, client, up, down, slot, mate, reader, stop, panicked>>

\* wg.Wait and close(done).
PipeEnds(q) ==
  /\ handler[q] = "joining"
  /\ reader[q] = "ended" /\ reader[mate[q]] = "ended"
  /\ handler' = [handler EXCEPT ![q] = "gone"]
  /\ UNCHANGED <<calls, net, slot, mate, reader, stop, panicked>>

Serve(p) ==
  \/ Arrive(p) \/ Evict(p) \/ Release(p)
  \/ ReadFrame(p) \/ ReadFails(p) \/ WriteFrame(p) \/ CloseStop(p)
  \/ PipeCloses(p) \/ PipeEnds(p)

-----------------------------------------------------------------------------
Next ==
  \E p \in Parties :
    \/ Dial(p) \/ Call(p) \/ Expire(p) \/ HubGivesUp(p) \/ Crash(p)
    \/ Serve(p) \/ TimeOut(p)

Spec == Init /\ [][Next]_vars

\* Goroutines run, and time passes: both deadlines arrive in the end.
Fairness ==
  \A p \in Parties :
    WF_vars(Call(p) \/ Expire(p)) /\ WF_vars(Serve(p)) /\ WF_vars(TimeOut(p))

FairSpec == Spec /\ Fairness

-----------------------------------------------------------------------------
(* What must hold.                                                         *)

\* An initiator that is paired is not alone: the other party has opened its
\* card too, and where both stored a row the words of the two rows are the same
\* (docs/design.md, step 6), whatever failed and however many used the code.
InitiatorIsKnown ==
  \A p \in Initiators : got[p] # None =>
    LET q == got[p]
        a == NodeOf[p]
        b == NodeOf[q] IN
    /\ got[q] = p
    /\ peers[a][b] # None /\ peers[b][a] # None => peers[a][b] = peers[b][a]

\* A party that waits at the relay and has not been matched can be found under
\* its code, and nobody else is: an eviction that comes late, when the slot was
\* taken and used again, must not touch the newcomer.
WaitingIsFound ==
  \A p \in Parties :
    handler[p] = "waiting" /\ (\A q \in Parties : mate[q] # p) => slot[CodeOf[p]] = p

\* Whoever calls learns how it ended, and the relay lets every connection go,
\* whether the parties answer, fail, disappear or come too late.
Settled(p) ==
  /\ report[p] # None \/ pc[p] = "dead"
  /\ server[p] = "closed" /\ handler[p] = "gone"

EverybodyIsLetGo == <>[](\A p \in Parties : pc[p] = "idle" \/ Settled(p))

\* Does not hold (add it to MCPairing.cfg): a pairing that has ended is known to both.
PairingIsMutual ==
  \A p, q \in Parties :
    got[p] = q /\ report[p] = "paired" /\ pc[q] = "done" => report[q] = "paired"

\* Does not hold (add it to MCPairing.cfg): stop is closed once.
NoPanic == ~panicked

\* Does not hold (add it to MCPairing.cfg): a pairing reported as failed left no row.
ReportIsTrue ==
  \A p \in Initiators : got[p] # None /\ report[p] = "failed" =>
    peers[NodeOf[p]][NodeOf[got[p]]] = None
=============================================================================
