-------------------------------- MODULE Outbox --------------------------------
(***************************************************************************)
(* The outbound half of one ClawdChan node (core/node, core/store):        *)
(* sendAs, the outbox table and the drain loop, run by several processes   *)
(* (daemon, MCP server, CLI) over one SQLite file, while the relay link    *)
(* comes and goes, processes crash, and the operator pairs, revokes and    *)
(* deletes peers from yet another process.                                 *)
(*                                                                         *)
(* Every database statement or transaction is one step; between two of     *)
(* them any other process may run.                                         *)
(***************************************************************************)
EXTENDS Naturals, Sequences, Functions

CONSTANTS
  Peers, Threads, Envelopes,   \* ids; newULID and the peers' keys are opaque
  Senders,                     \* goroutines that call Send
  Procs,                       \* processes that open the node's database
  Home,                        \* [Senders -> Procs]
  Linkers,                     \* the processes that Start a node
  Faults,                      \* which of "crash" and "store" may happen
  Operator,                    \* which of "revoke" and "delete" are issued
  None, Gone                   \* no row yet; the row was deleted

ASSUME OutboxAssumption ==
  /\ Home \in [Senders -> Procs]
  /\ Linkers \subseteq Procs
  /\ None # Gone
  /\ {None, Gone} \cap (Peers \cup Threads \cup Envelopes) = {}

VARIABLES
  trust,    \* peers table: [Peers -> "absent", "paired" or "revoked"]
  threads,  \* threads table: the row's peer_id
  dest,     \* the peer each envelope was made for, None if not made yet
  log,      \* envelopes table: the row's thread_id
  outbox,   \* outbox table, per peer_node in the order of the row ids
  link,     \* per process: n.link is nil, usable or broken
  sender,   \* per goroutine inside Send or OpenThread: where, and its locals
  drain,    \* per process, the drain loop: where, and its locals
  wire      \* per peer, the envelopes for which link.Send returned nil

vars == <<trust, threads, dest, log, outbox, link, sender, drain, wire>>

IdleSender == [pc |-> "idle", peer |-> None, thread |-> None, env |-> None]
IdleDrain  == [pc |-> "idle", todo |-> {}, peer |-> None, batch |-> <<>>]

SenderStates ==
  [pc : {"idle", "create", "append", "deliver", "enqueue"},
   peer : Peers \cup {None}, thread : Threads \cup {None},
   env : Envelopes \cup {None}]
DrainStates ==
  [pc : {"idle", "scan", "deliver", "requeue"}, todo : SUBSET Peers,
   peer : Peers \cup {None}, batch : Seq(Envelopes)]

TypeOK ==
  /\ trust \in [Peers -> {"absent", "paired", "revoked"}]
  /\ threads \in [Threads -> Peers \cup {None, Gone}]
  /\ dest \in [Envelopes -> Peers \cup {None}]
  /\ log \in [Envelopes -> Threads \cup {None, Gone}]
  /\ outbox \in [Peers -> Seq(Envelopes)]
  /\ link \in [Procs -> {"none", "up", "down"}]
  /\ sender \in [Senders -> SenderStates]
  /\ drain \in [Procs -> DrainStates]
  /\ wire \in [Peers -> Seq(Envelopes)]

Init ==
  /\ trust = [p \in Peers |-> "absent"]
  /\ threads = [t \in Threads |-> None]
  /\ dest = [e \in Envelopes |-> None]
  /\ log = [e \in Envelopes |-> None]
  /\ outbox = [p \in Peers |-> <<>>]
  /\ link = [k \in Procs |-> "none"]
  /\ sender = [s \in Senders |-> IdleSender]
  /\ drain = [k \in Procs |-> IdleDrain]
  /\ wire = [p \in Peers |-> <<>>]

-----------------------------------------------------------------------------
(* OpenThread: the peer row is looked up, then the thread row inserted.    *)
(* A revoked peer's row still exists, so it passes.                        *)

OpenCheck(s, p) ==
  /\ sender[s].pc = "idle"
  /\ trust[p] # "absent"
  /\ \E t \in Threads : threads[t] = None
  /\ sender' = [sender EXCEPT ![s] = [pc |-> "create", peer |-> p,
                                       thread |-> None, env |-> None]]
  /\ UNCHANGED <<trust, threads, dest, log, outbox, link, drain, wire>>

OpenCreate(s, t) ==
  /\ sender[s].pc = "create"
  /\ threads[t] = None
  /\ threads' = [threads EXCEPT ![t] = sender[s].peer]
  /\ sender' = [sender EXCEPT ![s] = IdleSender]
  /\ UNCHANGED <<trust, dest, log, outbox, link, drain, wire>>

\* The insert fails, or (a bound of the model) no fresh thread id is left.
OpenFails(s) ==
  /\ sender[s].pc = "create"
  /\ "store" \in Faults \/ \A t \in Threads : threads[t] # None
  /\ sender' = [sender EXCEPT ![s] = IdleSender]
  /\ UNCHANGED <<trust, threads, dest, log, outbox, link, drain, wire>>

-----------------------------------------------------------------------------
(* Send and SubmitHumanReply: both are sendAs.                             *)

\* The first thing done with a signed envelope.  Mutant: it is not stored.
AfterSignUnstored == "deliver"
AfterSign == "append"

\* The thread row, the peer row and its trust are read once, here; the
\* envelope gets its id and is signed.  Without a row, or when the peer is
\* revoked, the caller gets an error and nothing changes.
SendCheck(s, t, e) ==
  /\ sender[s].pc = "idle"
  /\ threads[t] \in Peers
  /\ trust[threads[t]] = "paired"
  /\ dest[e] = None
  /\ dest' = [dest EXCEPT ![e] = threads[t]]
  /\ sender' = [sender EXCEPT ![s] = [pc |-> AfterSign, peer |-> threads[t],
                                       thread |-> t, env |-> e]]
  /\ UNCHANGED <<trust, threads, log, outbox, link, drain, wire>>

\* AppendEnvelope: no column refers to the threads table, so the row goes in
\* whether or not the thread is still there.
SendAppend(s) ==
  /\ sender[s].pc = "append"
  /\ log' = [log EXCEPT ![sender[s].env] = sender[s].thread]
  /\ sender' = [sender EXCEPT ![s].pc = "deliver"]
  /\ UNCHANGED <<trust, threads, dest, outbox, link, drain, wire>>

\* Where a sender goes after deliver.  Mutants: it queues what the link has
\* accepted, or forgets what the link has refused.
AfterDeliverTwice(s, delivered) == [sender[s] EXCEPT !.pc = "enqueue"]
AfterDeliverLossy(s, delivered) == IdleSender
AfterDeliver(s, delivered) ==
  IF delivered THEN IdleSender ELSE [sender[s] EXCEPT !.pc = "enqueue"]

\* deliver hands the frame to the link, or fails: no link, or a broken one.
SendDeliver(s) ==
  /\ sender[s].pc = "deliver"
  /\ LET delivered == link[Home[s]] = "up"
     IN  /\ wire' = IF delivered
                      THEN [wire EXCEPT ![sender[s].peer] = Append(@, sender[s].env)]
                      ELSE wire
         /\ sender' = [sender EXCEPT ![s] = AfterDeliver(s, delivered)]
  /\ UNCHANGED <<trust, threads, dest, log, outbox, link, drain>>

\* The envelope_id of the new row.
QueuedId(s) == sender[s].env

SendEnqueue(s) ==
  /\ sender[s].pc = "enqueue"
  /\ outbox' = [outbox EXCEPT ![sender[s].peer] = Append(@, QueuedId(s))]
  /\ sender' = [sender EXCEPT ![s] = IdleSender]
  /\ UNCHANGED <<trust, threads, dest, log, link, drain, wire>>

\* Either insert fails and sendAs returns the error; nothing is undone.
SendStoreFails(s) ==
  /\ "store" \in Faults
  /\ sender[s].pc \in {"append", "enqueue"}
  /\ sender' = [sender EXCEPT ![s] = IdleSender]
  /\ UNCHANGED <<trust, threads, dest, log, outbox, link, drain, wire>>

-----------------------------------------------------------------------------
(* drainOutboxLoop and tryDrainOutbox.                                     *)

\* The peers a round visits.  Mutant: a revoked peer ends the round, not its
\* own turn.
DrainPeersStops ==
  IF \E p \in Peers : trust[p] = "revoked" THEN {}
  ELSE {p \in Peers : trust[p] = "paired"}
DrainPeers == {p \in Peers : trust[p] = "paired"}

\* A tick: ListPeers, and the trust of every peer as of that moment.
DrainTick(k) ==
  /\ drain[k].pc = "idle"
  /\ link[k] # "none"
  /\ drain' = [drain EXCEPT ![k] = [pc |-> "scan", todo |-> DrainPeers,
                                     peer |-> None, batch |-> <<>>]]
  /\ UNCHANGED <<trust, threads, dest, log, outbox, link, sender, wire>>

\* The peer's rows after DrainOutbox.  Mutant: selected but not deleted.
RowsLeftAll(p) == outbox[p]
RowsLeft(p) == <<>>

\* DrainOutbox: select and delete all the peer's rows in one transaction.
DrainTake(k, p) ==
  /\ drain[k].pc = "scan"
  /\ p \in drain[k].todo
  /\ drain' = [drain EXCEPT ![k] =
       [pc |-> IF outbox[p] = <<>> THEN "scan" ELSE "deliver",
        todo |-> drain[k].todo \ {p}, peer |-> p, batch |-> outbox[p]]]
  /\ outbox' = [outbox EXCEPT ![p] = RowsLeft(p)]
  /\ UNCHANGED <<trust, threads, dest, log, link, sender, wire>>

\* The transaction fails: nothing is deleted, the loop goes on to the next.
DrainTakeFails(k, p) ==
  /\ "store" \in Faults
  /\ drain[k].pc = "scan"
  /\ p \in drain[k].todo
  /\ drain' = [drain EXCEPT ![k] =
       [pc |-> "scan", todo |-> drain[k].todo \ {p}, peer |-> p, batch |-> <<>>]]
  /\ UNCHANGED <<trust, threads, dest, log, outbox, link, sender, wire>>

\* The loop of process k goes on at pc with this much of its batch.
DrainAt(k, pc, batch) ==
  [drain EXCEPT ![k] = [pc |-> pc, todo |-> drain[k].todo,
                        peer |-> drain[k].peer, batch |-> batch]]

DrainDeliver(k) ==
  /\ drain[k].pc = "deliver"
  /\ IF link[k] = "up"
       THEN /\ wire' = [wire EXCEPT ![drain[k].peer] = Append(@, Head(drain[k].batch))]
            /\ drain' = DrainAt(k, IF Len(drain[k].batch) = 1 THEN "scan" ELSE "deliver",
                                Tail(drain[k].batch))
       ELSE /\ drain' = DrainAt(k, "requeue", drain[k].batch)
            /\ UNCHANGED wire
  /\ UNCHANGED <<trust, threads, dest, log, outbox, link, sender>>

\* The envelope that failed gets a new row and the loop breaks: the rest of
\* the batch, whose rows are already deleted, is forgotten with it.
DrainRequeue(k) ==
  /\ drain[k].pc = "requeue"
  /\ outbox' = [outbox EXCEPT ![drain[k].peer] = Append(@, Head(drain[k].batch))]
  /\ drain' = DrainAt(k, "scan", <<>>)
  /\ UNCHANGED <<trust, threads, dest, log, link, sender, wire>>

\* The insert's error is ignored (the database may be closed by now).
DrainRequeueFails(k) ==
  /\ "store" \in Faults
  /\ drain[k].pc = "requeue"
  /\ drain' = DrainAt(k, "scan", <<>>)
  /\ UNCHANGED <<trust, threads, dest, log, outbox, link, sender, wire>>

DrainDone(k) ==
  /\ drain[k].pc = "scan"
  /\ drain[k].todo = {}
  /\ drain' = [drain EXCEPT ![k] = IdleDrain]
  /\ UNCHANGED <<trust, threads, dest, log, outbox, link, sender, wire>>

-----------------------------------------------------------------------------
(* The link and the process.                                               *)

\* Start connects the link and spawns the loops.
Start(k) ==
  /\ k \in Linkers
  /\ link[k] = "none"
  /\ drain[k].pc = "idle"
  /\ link' = [link EXCEPT ![k] = "up"]
  /\ UNCHANGED <<trust, threads, dest, log, outbox, sender, drain, wire>>

LinkBreaks(k) ==
  /\ link[k] = "up"
  /\ link' = [link EXCEPT ![k] = "down"]
  /\ UNCHANGED <<trust, threads, dest, log, outbox, sender, drain, wire>>

Reconnect(k) ==
  /\ link[k] = "down"
  /\ link' = [link EXCEPT ![k] = "up"]
  /\ UNCHANGED <<trust, threads, dest, log, outbox, sender, drain, wire>>

\* Stop drops the link at once; a drain in progress runs on without it.
Stop(k) ==
  /\ link[k] # "none"
  /\ link' = [link EXCEPT ![k] = "none"]
  /\ UNCHANGED <<trust, threads, dest, log, outbox, sender, drain, wire>>

\* Everything the process holds in memory is gone; the tables stay.
Crash(k) ==
  /\ "crash" \in Faults
  /\ link' = [link EXCEPT ![k] = "none"]
  /\ sender' = [s \in Senders |-> IF Home[s] = k THEN IdleSender ELSE sender[s]]
  /\ drain' = [drain EXCEPT ![k] = IdleDrain]
  /\ UNCHANGED <<trust, threads, dest, log, outbox, wire>>

-----------------------------------------------------------------------------
(* The operator, from a CLI process that shares the database.              *)

\* UpsertPeer after a pairing: also over a revoked record.
PairPeer(p) ==
  /\ trust[p] # "paired"
  /\ trust' = [trust EXCEPT ![p] = "paired"]
  /\ UNCHANGED <<threads, dest, log, outbox, link, sender, drain, wire>>

RevokePeer(p) ==
  /\ "revoke" \in Operator
  /\ trust[p] = "paired"
  /\ trust' = [trust EXCEPT ![p] = "revoked"]
  /\ UNCHANGED <<threads, dest, log, outbox, link, sender, drain, wire>>

\* One transaction: the envelopes of the peer's threads, the threads, the
\* outbox rows and the peer.
DeletePeer(p) ==
  /\ "delete" \in Operator
  /\ trust[p] # "absent"
  /\ LET itsThreads == {t \in Threads : threads[t] = p}
     IN  /\ log' = [e \in Envelopes |-> IF log[e] \in itsThreads THEN Gone ELSE log[e]]
         /\ threads' = [t \in Threads |-> IF t \in itsThreads THEN Gone ELSE threads[t]]
  /\ outbox' = [outbox EXCEPT ![p] = <<>>]
  /\ trust' = [trust EXCEPT ![p] = "absent"]
  /\ UNCHANGED <<dest, link, sender, drain, wire>>

-----------------------------------------------------------------------------
SenderStep(s) ==
  \/ \E t \in Threads : OpenCreate(s, t)
  \/ OpenFails(s)
  \/ SendAppend(s)
  \/ SendDeliver(s)
  \/ SendEnqueue(s)
  \/ SendStoreFails(s)

SenderCall(s) ==
  \/ \E p \in Peers : OpenCheck(s, p)
  \/ \E t \in Threads, e \in Envelopes : SendCheck(s, t, e)

DrainStep(k) ==
  \/ DrainTick(k)
  \/ \E p \in Peers : DrainTake(k, p) \/ DrainTakeFails(k, p)
  \/ DrainDeliver(k)
  \/ DrainRequeue(k)
  \/ DrainRequeueFails(k)
  \/ DrainDone(k)

ProcessStep(k) == Start(k) \/ LinkBreaks(k) \/ Reconnect(k) \/ Stop(k) \/ Crash(k)

OperatorStep(p) == PairPeer(p) \/ RevokePeer(p) \/ DeletePeer(p)

Next ==
  \/ \E s \in Senders : SenderCall(s) \/ SenderStep(s)
  \/ \E k \in Procs : DrainStep(k) \/ ProcessStep(k)
  \/ \E p \in Peers : OperatorStep(p)

Spec == Init /\ [][Next]_vars
-----------------------------------------------------------------------------
(* Where an envelope is.                                                   *)

InHand(s) == IF sender[s].env = None THEN {} ELSE {sender[s].env}
Handed(e) == \E p \in Peers : e \in Range(wire[p])
Held(e) ==
  \/ \E s \in Senders : e \in InHand(s)
  \/ \E p \in Peers : e \in Range(outbox[p])
  \/ \E k \in Procs : e \in Range(drain[k].batch)

\* A retry never hands an envelope to the link a second time, even though
\* the drain of one process, the senders of another and the outbox pass it
\* around: node.go:385 leaves repeats to the drivers, the code makes none.
AtMostOnce ==
  /\ \A p \in Peers : IsInjective(wire[p])
  /\ \A p, q \in Peers : p # q => Range(wire[p]) \cap Range(wire[q]) = {}

\* An envelope has one keeper at a time: the goroutine that sends it, the
\* outbox, one drain batch, or the link that accepted it (sendAs enqueues
\* after its own attempt has failed; DrainOutbox deletes what it returns).
SingleKeeper ==
  /\ \A s, r \in Senders : s # r => InHand(s) \cap InHand(r) = {}
  /\ \A p \in Peers : IsInjective(outbox[p])
  /\ \A k \in Procs : IsInjective(drain[k].batch)
  /\ \A p \in Peers, k \in Procs : Range(outbox[p]) \cap Range(drain[k].batch) = {}
  /\ \A k, l \in Procs : k # l => Range(drain[k].batch) \cap Range(drain[l].batch) = {}
  /\ \A s \in Senders, p \in Peers :
       InHand(s) \cap (Range(outbox[p]) \cup Range(wire[p])) = {}
  /\ \A s \in Senders, k \in Procs : InHand(s) \cap Range(drain[k].batch) = {}
  /\ \A k \in Procs, p \in Peers : Range(drain[k].batch) \cap Range(wire[p]) = {}
  /\ \A p, q \in Peers : Range(outbox[p]) \cap Range(wire[q]) = {}
  /\ \A p, q \in Peers : p # q => Range(outbox[p]) \cap Range(outbox[q]) = {}

\* What is queued, being drained or handed over was stored first (the order
\* node.go:385 states), and waits for the peer it was addressed to.
StoredFirst ==
  \A e \in Envelopes :
    /\ \A p \in Peers : e \in Range(outbox[p]) \cup Range(wire[p]) =>
         log[e] # None /\ dest[e] = p
    /\ \A k \in Procs : e \in Range(drain[k].batch) =>
         log[e] # None /\ dest[e] = drain[k].peer

\* Without crashes, failing statements or deletions there is one way to lose
\* an envelope: to stand behind one whose delivery failed in a drain batch.
LostOnlyBehindAFailure ==
  [][\A e \in Envelopes : Held(e) /\ ~(Held(e) \/ Handed(e))' =>
       \E k \in Procs : /\ drain[k].pc = "requeue"
                        /\ e \in Range(Tail(drain[k].batch))]_vars

\* sendAs promises a caller that sees no error: "stored + queued for retry"
\* (node.go:398).  A stored envelope is then always held or handed.
StoredIsQueuedOrHanded ==
  \A e \in Envelopes : log[e] \in Threads => Held(e) \/ Handed(e)

\* DeletePeer "hard-removes the peer row plus any threads/envelopes/outbox
\* entries tied to that peer. Use for full forget" (store.go:35-37).
ForgetIsFull ==
  \A p \in Peers : trust[p] = "absent" =>
    /\ outbox[p] = <<>>
    /\ \A t \in Threads : threads[t] # p
    /\ \A e \in Envelopes : dest[e] = p => log[e] \in {None, Gone}

-----------------------------------------------------------------------------
(* The step-by-step promise of Mailbox.                                    *)

\* A dropped envelope was accepted once and has no keeper any more.
Status ==
  [e \in Envelopes |-> CASE Handed(e) -> "handed"
                        [] ~Handed(e) /\ Held(e) -> "held"
                        [] ~Handed(e) /\ ~Held(e) /\ dest[e] = None -> "new"
                        [] OTHER -> "dropped"]

Mail == INSTANCE Mailbox WITH handed <- wire, status <- Status

\* The node implements Mailbox: no envelope is handed twice, to another
\* peer, or after it was given up, whatever crashes and whoever deletes.
ImplementsMailbox == Mail!MailSpec

-----------------------------------------------------------------------------
(* Progress.                                                               *)

\* Goroutines in progress go on; the ticker fires again and again.  Nothing
\* is assumed of the link, the operator or the callers.
Fairness ==
  /\ \A s \in Senders : WF_vars(SenderStep(s))
  /\ \A k \in Procs : WF_vars(DrainStep(k))

FairSpec == Spec /\ Fairness

Settled(p) == trust[p] = "paired" /\ \A k \in Linkers : link[k] = "up"

\* Once the peer stays paired and the link stays up, every row of the outbox
\* is handed to the link: a revoked or unreachable other peer does not stand
\* in the way (the continue at node.go:620).
QueuedIsHanded ==
  \A p \in Peers, e \in Envelopes :
    [](e \in Range(outbox[p]) /\ []Settled(p) => <>(e \in Range(wire[p])))
=============================================================================
