# ClawdChan in TLA+

Specifications of [ClawdChan](../src): two people's coding agents exchange
signed, encrypted envelopes through a store-and-forward relay. This directory
holds TLA+ modules of the parts that carry the program's own logic, the TLC
configurations that check them on small instances, and proofs for every value
of the constants that TLAPS checks.

- `tlasany M.tla` parses a module.
- `tlc -config X.cfg M` checks a configuration of an MC module.
- `tlapm M.tla` checks the proofs of the modules `OutboxProofs`, `InboundProofs`,
  `NodeProofs`, `RelayProofs`, `PairingProofs`, `BridgeProofs`, `DaemonProofs` and
  `SetupProofs`.
- `PROJECT.json` lists the components, the runs, the hazards, the source lines of
  every definition, and one mutant of the code for each property: a plausible
  bug that makes TLC find the property violated.

## 1. The system

| Component | State | Operations |
|---|---|---|
| Outbound path (`core/node/node.go`, `core/store/store.go`) | tables `peers`, `threads`, `envelopes`, `outbox`; `n.link` | `OpenThread`, `Send`, `SubmitHumanReply`, `deliver`, `drainOutboxLoop` |
| Inbound path (`core/node/node.go`, `core/policy`) | the same tables, the surfaces | `inboundLoop`, `handleInbound`, `route`, `handleAskHuman` |
| Lifecycle (`core/node/node.go`) | `running`, `stopCh`, `link`, `subs` | `Start`, `Stop`, `attemptReconnect`, `Subscribe`, `publish` |
| Relay links (`internal/relayserver`) | `links`, `queues`; per link the `send` buffer and `closed` | `serveLink`, `readLoop`, `writeLoop`, `deliver`, `enqueue`, `close` |
| Pairing (`core/pairing`, `internal/relayserver`) | the relay's slots and pipes, both tables `peers` | `Rendezvous`, `servePair`, `pipe`, `Pair`, `Consume`, and what the callers report |
| Asks, threads, inbox (`hosts/*.go`, `node.HasPendingAsk`, `cmd_listen.go`) | the log, a cursor, the listener's `seen` | `ResolveOrOpenThread`, `FindThreadWithPendingAsk`, `PendingAsks`, `collectInbox`, `followAll` |
| OpenClaw bridge (`hosts/openclaw/bridge.go`) | `conn`, `connReady`, `pending`, `subscriptions` | `Connect`, `request`, `Subscribe`, reconnection and replay |
| OpenClaw sessions and hub (`hosts/openclaw`) | session cache and table, the subscribers | `EnsureSessionFor`, the surfaces, `establishPeerSession`, `enableOpenClawMode` |
| Daemon (`cmd_daemon.go`, `daemon_notify.go`) | the debounce of each peer | `dispatch`, `inActiveSession`, `claimNotify` |
| Processes of a machine (`cmd/*`, `internal/listenerreg`) | the pidfiles, the link of each process | `Register`, `List`, `daemonStateForNode`, start and end of each process |
| Setup (`cmd_setup.go`, `cmd_daemon_install.go`, `cmd_init.go`, `cmd_uninstall.go`) | `config.json`, the unit of the service manager | the steps of `setup`, `daemonInstall`, `daemonStartInstalled`, `uninstall` |

How they interact:

- A node is run by several *processes* at once: the daemon, one MCP server per
  editor, CLI commands. They share one SQLite file, `config.json` and a directory
  of pidfiles. At least one of them holds the relay link; which one, an MCP server
  decides by the pidfiles when it starts.
- Inside a process, callers of `Send`, the inbound loop and the drain loop are
  goroutines over one `Node`; `n.mu` covers pointer reads, never a whole
  operation.
- Node and relay exchange frames over a websocket. `link.Send` returning nil
  means the frame is in the kernel's buffer, no more; there are no
  acknowledgements from the peer.
- The relay has two goroutines per link, and every handler may write to the
  buffer of any other link. A pairing is two connections of their own, piped into
  one another by the handler of the second.
- The OpenClaw bridge calls back into the node, and the node's inbound loop
  calls the bridge.
- The service manager starts and restarts the daemon, which reads the
  configuration once; `setup` writes it in two steps and starts the daemon last.

What is hard in it:

- *Interleaving*: every statement on the database stands alone; a thread row
  read by `Send` may be deleted before the envelope is inserted. The tools read
  the log thread by thread while others write it.
- *Partial failure and crashes*: storing, delivering and queueing are separate
  steps; `DrainOutbox` deletes before anything is delivered; files are truncated
  and then written; a session is created and then written down.
- *Retry*: two processes may drain one outbox; a code may be entered twice.
- *Replacement*: a node that connects again displaces its old link, whose
  handler still runs.
- *Bounded buffers*: 64 messages per link at the relay, and readers that block on
  other people's buffers.
- *Time*: read deadlines, retention, backoff, rendezvous timeouts, the windows of
  the notifications; and logs that are sorted by the clocks of two machines.

The properties that make each component correct:

| Component | What must hold | Where |
|---|---|---|
| Outbound | an envelope has one keeper; it is stored before it leaves; it is handed to the link at most once and for its addressee; queued means handed in the end; deleting a peer forgets it | `Outbox` |
| Relay links | the registry names the open link of each node; a frame has one copy; it reaches only its addressee; it is dropped for a known cause; what is queued does not stay behind | `Relay` |
| Inbound | what a paired peer sends is stored, in its own thread, unless the policy denies it, and a denied envelope leaves no trace; the surfaces see what was stored; nothing of a revoked peer is stored; all that arrives is handled | `Inbound` |
| Lifecycle | a running node has a loop and, in the end, a link; no link leaks; after `Stop` no loop runs and no link is open; no send on a closed channel | `Lifecycle` |
| Bridge | the table of requests is exact and every request ends; a subscription survives a reconnect; a cancelled one is gone; `Close` closes everything | `Bridge` |
| Pairing | the two parties of a code end up with each other under the same words, or both with an error; everybody learns how it ended; the relay keeps nothing | `Pairing` |
| Asks, inbox | the notions of a pending ask agree; nobody answers for the user without an ask; a reader is shown everything, and nothing twice | `Conversation` |
| Sessions | a peer has one session, whose answers come back to its thread | `Sessions` |
| Notifications | the user is told of what he does not know of, once | `Notify` |
| Machine, setup | the service runs with the saved configuration and comes back; one process holds the link | `Machine`, `Setup` |

`PROJECT.json` lists the hazards behind these with their lines.

## 2. Modules

| Module | What it is |
|---|---|
| `Mailbox` | what a node promises the callers of `Send`, whatever happens inside |
| `Outbox` | the outbound half of one node, in all its processes; implements `Mailbox` |
| `OutboxProofs` | its invariants, and that it implements `Mailbox`, for every instance |
| `Relay` | the `/link` side of the relay |
| `Inbound` | the inbound half of one node, in all its processes |
| `InboundProofs` | its safety properties, for every instance |
| `Lifecycle` | the goroutines of one `Node` and its links |
| `Bridge` | the client of the OpenClaw gateway |
| `Pairing` | the parties of a pairing, the relay's slots and pipes, and what the callers report |
| `Conversation` | the tools, the gateway's subscriber and the listener over one log |
| `Notify` | the daemon's toasts |
| `Sessions` | the OpenClaw sessions of the peers, over several runs of the daemon |
| `Daemon` | composes `Notify` and `Sessions`: the surfaces of one replace those of the other |
| `Machine` | the processes of a machine, the pidfiles, the service manager |
| `Setup` | the commands that install and remove, over `Machine` |
| `NodeProofs` | those of `Lifecycle` and of `Conversation` |
| `RelayProofs`, `PairingProofs`, `BridgeProofs` | the safety properties of these modules, for every instance |
| `DaemonProofs` | those of `Sessions`, of `Notify` and of `Daemon`, which composes them |
| `SetupProofs` | those of `Setup` with `Machine` |
| `MCOutbox`, `MCRelay`, `MCInbound`, `MCLifecycle`, `MCBridge`, `MCPairing`, `MCConversation`, `MCDaemon`, `MCSetup` | small instances of these |

`Outbox`, `Inbound` and `Lifecycle` look at one node from three sides. They meet
in few places: the tables (`trust`, `threads` and `log` mean the same in `Outbox`
and `Inbound`), `n.link` (a loss and a reconnection are events in the first two and
steps of the inbound loop in `Lifecycle`), and the calls of the loops (one `Recv` of
`Lifecycle` is one pass through `handleInbound`; one `work` of its drain loop is one
`tryDrainOutbox`).

### Outbox

One action is one database statement or transaction, or one call of the link;
between two of them any other process may run.

| State | Code |
|---|---|
| `trust` | table `peers`: no row, paired, revoked |
| `threads` | table `threads`: `peer_id` of the row; `Gone` after a deletion |
| `log` | table `envelopes`: `thread_id` of the row |
| `outbox` | table `outbox`, per `peer_node`, in the order of the row ids |
| `link` | per process: not started, usable, broken (`n.link`) |
| `sender` | per goroutine in `OpenThread` or `sendAs`: where it is and its locals |
| `drain` | per process: where `tryDrainOutbox` is, the peers still to visit, the batch |
| `dest` | whom an envelope was made for: the id is taken and the peer looked up in one action |
| `wire` | the envelopes for which `link.Send` returned nil |

| Actions | Code |
|---|---|
| `OpenCheck`, `OpenCreate`, `OpenFails` | `OpenThread` |
| `SendCheck`, `SendAppend`, `SendDeliver`, `SendEnqueue`, `SendStoreFails` | `sendAs`, with `deliver` |
| `DrainTick`, `DrainTake`, `DrainTakeFails`, `DrainDeliver`, `DrainRequeue`, `DrainRequeueFails`, `DrainDone` | `drainOutboxLoop`, `tryDrainOutbox` |
| `Start`, `Stop`, `LinkBreaks`, `Reconnect`, `Crash` | the process and its link |
| `PairPeer`, `RevokePeer`, `DeletePeer` | commands from a process that shares the database |

Simplifications, none of which hides a step from the properties:

- `GetThread` and `GetPeer` in `sendAs` are one action: nothing is written
  between them.
- `link.Send` fails only when the frame has not been written. A frame that is
  half written is never read by the relay.
- `Stop` does not wait for a drain in progress. When the process then closes the
  store, the requeue of `DrainRequeue` fails and its error is ignored: that is
  `DrainRequeueFails`.
- `PurgeConversations` is left out: no host in the repository sets it.
- `attemptReconnect` may install its link after `Stop` has run. To the
  outbound path this is a process whose link is up; it belongs to `Lifecycle`.

### Relay

One action is one critical section of `r.mu`, one channel operation or one
websocket call. Per connection there is a handler (`pc`) and a writer (`writer`),
with `send` between them.

| State | Code |
|---|---|
| `links`, `queues` | `r.links`, `r.queues` |
| `expired` | the queued frames whose `at` is older than `QueueRetention` |
| `pc`, `hand`, `target`, `backlog` | `serveLink`/`readLoop`: where, and `data`, `peer`, `queued` |
| `closed`, `send` | fields of `link` |
| `writer`, `message` | `writeLoop` |
| `socket`, `uplink`, `received` | the network and the client, as the relay can observe them |
| `written` | the frames the clients have written so far |

The frames are numbered in the order in which the clients write them; since a
frame has no other identity, this loses no behaviour, and it removes a symmetry
that would multiply the states. A connection's variables are used again for the
node's next connection once no goroutine holds the old link. A client that goes
`silent` is suspended, partitioned or stuck: its socket stays open, the read
deadline may fire, and a write may still succeed, into a kernel buffer.
The authentication of a link is taken as successful, and a node does not write
to itself.

### Inbound

One action is one database statement or one call of a surface.

| State | Code |
|---|---|
| `trust`, `threads`, `log` | the tables, as in `Outbox`; of a stored envelope the intent is kept |
| `linked`, `frames` | per process: its link is up; `Link.recv`, which outlives the connection |
| `loop` | per process: where `handleInbound` is, and its envelope |
| `shown` | the intent with which a surface was called for an envelope |
| `fate` | on the way, in a process, stored, dropped, deleted: for the properties |

| Actions | Code |
|---|---|
| `Receive` | `Recv`, `GetPeer`, the trust check, `Open`, decoding, verification |
| `FindThread`, `CreateThread`, `AppendEnvelope`, `StatementFails` | the statements of `handleInbound`, with `Evaluate` and the downgrade |
| `Route`, `ShowEnds` | `route`, `handleAskHuman`, the return of a surface |
| `LinkUp`, `LinkDown`, `Arrive`, `Crash` | the link and the process |
| `OpenThread`, `RevokePeer`, `DeletePeer` | other goroutines and processes |

Simplifications:

- `Receive` joins the read of one row with pure functions of the frame; nothing is
  written in between. The policy is a pure function of the row that was read.
- An envelope is at most once on its way. That it is not duplicated before is
  `OneCopy` of `Relay` and `AtMostOnce` of `Outbox`.
- A human's answer is a `SubmitHumanReply`: that is a sender of `Outbox`.
- `Stop` counts as a crash: the loop ends before its next frame, and what the link
  has buffered is lost.

### Lifecycle

One action is one critical section of `n.mu`, one look at `n.stopCh`, one channel
operation or one call of the transport. The loops read the field `n.stopCh` anew
each time and without the mutex. This is why `stopCh` is the number of a `Start` and
not a flag: a loop of the first `Start` may find the channel of the second.

| State | Code |
|---|---|
| `running`, `stopCh`, `link` | fields of `Node` |
| `stopped` | the stop channels that are closed |
| `state` | per link object: open, broken, closed by `Close` |
| `inbound`, `drain` | per `Start`, its two goroutines: where, and their locals |
| `subs`, `todo` | the subscriptions, and what a `publish` has copied of them |

| Actions | Code |
|---|---|
| `Start`, `Stop`, `Breaks` | `Start`, `Stop`; the connection fails |
| `Top`, `Look`, `Recv`, `RecvFails`, `Failed`, `Clear` | `inboundLoop` |
| `Redial`, `Dials`, `DialFails`, `Install`, `Backoff` | `attemptReconnect` |
| `DrainTicks`, `DrainSelects`, `DrainEnds` | `drainOutboxLoop` |
| `Subscribe`, `CancelRemoves`, `CancelCloses`, `Publish`, `PublishSends` | `Subscribe`, its cancel function, `publish` |

`Stop` sets the link to nil under the mutex and closes it afterwards; in between a
loop can only do what it could do before, so both are one action. A subscription is
cancelled at most once. A process that has panicked takes no more steps.

### Bridge

One action is one critical section of `b.mu`, one channel operation or one
websocket call. A request is named by what makes it, and there are three kinds:
a call of `SessionCreate` or `SessionsSend`, the `Subscribe` of a session, and the
replay of a session on a connection.

| State | Code |
|---|---|
| `conn`, `closed`, `pending`, `table` | `b.conn`, `b.closed`, `b.pending`, `b.subscriptions` |
| `pc`, `at`, `mail` | per request: where, the connection it got, its `respCh` |
| `reader` | the goroutine of `run` and `readLoop`: where, its connection, its event |
| `replayer`, `todo` | the goroutines of `replaySubscriptions` |
| `stage`, `cancelled`, `closing`, `shut`, `buffered` | per subscription: its `Subscribe`, its context, and its channel |
| `waits` | the request that the reader of the channel is in: `Hub.Start` makes requests between two messages |
| `sock`, `down`, `asked`, `answers`, `events` | the gateway and the network, external |

| Actions | Code |
|---|---|
| `Call`, `GetConn`, `Register`, `Write`, `WriteFails`, `Receives`, `GivesUp` | `request`, `waitForConn` |
| `Detach`, `FailPending`, `ReaderDetaches`, `ReaderFailsPending` | `handleDisconnect`, `failPending` |
| `Subscribe`, `SubscribeEnds`, `Cancel`, `CancelRemoves`, `Shut` | `Subscribe`, `removeSubscription`, `close` |
| `ReadResponse`, `ReadEvent`, `Deliver*`, `ReaderRemoves`, `ReadFails`, `ReaderStops` | `readLoop`, `deliverResponse`, `deliverEvent` |
| `Connect`, `Reconnect`, `Replay*`, `Close` | the functions of these names |
| `Takes`, `HubGoesOn` | the readers of a subscription's channel |

Simplifications:

- The gateway keeps nothing of a connection that is gone, and sends messages of a
  session only where it has been asked for it. It may answer late, with an error,
  or never.
- `Connect` is called once, and a session is subscribed to once: the hosts do no
  more.
- A replay has a deadline of ten seconds. The handshake sets a read deadline of
  the same length before the replay begins, and nobody clears it, so the deadline
  of the replay cannot pass while its connection is still read (`ContextDone`).
- An answer that is found in `respCh` and the reader that takes it are two steps;
  what `Close` does outside of the lock is not told apart from what it does inside.

### Pairing

One action is one call of the websocket, one statement, or one critical section
of `r.mu` at the relay. A party is one call of `Node.Pair` (an initiator) or
`Node.Consume`; several parties may use one code.

| State | Code |
|---|---|
| `pc`, `got`, `report` | per party: where `Rendezvous` is, whose card it opened, and what its caller has been told |
| `peers` | each node's table `peers`: the words stored with the row |
| `client`, `server`, `up`, `down` | per party: both ends of its connection, and the card on its way in each direction |
| `slot`, `handler`, `mate`, `reader`, `stop` | `r.pairing`; per party, the goroutine of `servePair` and the party it found; the two goroutines of `pipe` and their channel |

| Actions | Code |
|---|---|
| `Dial`, `Send`, `Receive`, `Fails`, `Expire` | `Rendezvous`: the order of sending and receiving is `Steps`, which differs for the two roles |
| `Store`, `StoreFails`, `Tell`, `HubGivesUp` | `UpsertPeer` and the reports of the command, the tool and the hub |
| `Arrive`, `TimeOut`, `Evict`, `Release` | `servePair` |
| `ReadFrame`, `ReadFails`, `WriteFrame`, `CloseStop`, `PipeCloses`, `PipeEnds` | `pipe` |

The key that is derived from the code, the sealing of the cards and the hash behind
the words are abstract: a card opens for whoever has the code, and the words are
the pair of the two keys in the order in which `computeSAS` sorts them (`SAS`), so
that a swap would show. A panic of the relay's process stops it; `NoPanic` tells
whether it comes to that.

### Conversation

One action is one statement of the store with the pure functions applied to its
result. An id is a time in milliseconds and some random bits, so two ids of one
millisecond come in either order (`newULID`); an envelope of the peer bears its own
clock's time. `ListThreads` and `ListEnvelopes` sort as the SQL does: `Ordered` chooses
the sequence in which earlier comes before later, and of equal times what was inserted
first. What the code computes in a loop over a listing (`HasPendingAsk`, the largest id
of `collectInbox`) is a recursive function over its places.

| State | Code |
|---|---|
| `rows`, `log` | the tables `threads` and `envelopes`, in the order in which rows were inserted |
| `now` | the clock of this machine |
| `agent` | per caller of the message tool, or subscriber of the gateway: where it is and its locals |
| `cursor`, `poll`, `shown` | per reader of the inbox: its last `next_cursor`, where `collectInbox` is, and what it has been shown |
| `follower` | the command `listen`: where `followAll` is, and its `seen` |
| `cast` | who takes part; settled in the initial state, to keep the instance small |

| Actions | Code |
|---|---|
| `Resolve`, `OpenThread`, `Send` | `ResolveOrOpenThread`, `Node.OpenThread`, `sendAs` up to the log |
| `StartFind`, `Find`, `Found` | `FindThreadWithPendingAsk` and `sendAsHuman` |
| `Turn` | a turn of the gateway's session in `RunSubscriber`, with `HasPendingAsk` |
| `Begin`, `Collect`, `CollectFails`, `Answer`, `Again` | `inboxHandler`, `collectInbox` |
| `List`, `Follow`, `GoLive` | `followAll` |
| `Arrive`, `Tick` | what `handleInbound` stores; time |

### Notify, Sessions and Daemon

In `Notify` one action is one look of `dispatch` at the store or one critical
section of `d.mu`. Time is counted in units of the debounce window (30 s in the
code, with 60 s and 3 min for the other two windows: 1, 2 and 6 units; the instance
has 1, 2 and 3). An ask is dispatched on a goroutine of its own, everything else on
the inbound loop (`Busy`).

| State | Code |
|---|---|
| `stored` | table `envelopes`: thread, date, whether it bears the collab marker |
| `pc` | per envelope of a peer: where `dispatch` is with it, or that another process has received it |
| `last`, `toasts` | `d.last`; the toasts fired, with their time |

In `Sessions` one action is one critical section of the session map's lock, one
statement, or one request to the gateway.

| State | Code |
|---|---|
| `peers`, `threads`, `table` | the tables `peers`, `threads`, `openclaw_sessions` |
| `owner`, `used` | external: the sessions the gateway has created, and those it was sent something for |
| `cache`, `call` | `SessionMap.cache`; per caller, where it is in `EnsureSessionFor` and after it |
| `daemon`, `listed`, `todo`, `surfaces` | where `enableOpenClawMode` is, with its locals; `SetSurfaces` has run |
| `starting`, `subs` | the goroutines of `RunSubscriber` before `Subscribe`; the thread each session's turns go to |

`Daemon` puts both in one process. Without a gateway it is `Notify`; with one,
`Sessions` runs and replaces the surfaces before it listens (`daemonRun`), so the
two never act in one behaviour: the mode is chosen in the initial state.

### Machine and Setup

In `Machine` one action is one file operation, one request to the outside, or one
action of the service manager. A process is a daemon (or the command `listen`, kind
`cli`) or an MCP server.

| State | Code |
|---|---|
| `conf` | `config.json`: absent, torn (truncated, not yet written), without or with OpenClaw |
| `svc`, `os` | the service: its process, whether the manager is about to start one; systemd, launchd or schtasks |
| `proc` | per process id: where it is, the configuration it has loaded, whether it has a link, what `List` has still to read and has seen |
| `file` | `listeners/<pid>.json`: absent, half-written, or the kind it names |

| Actions | Code |
|---|---|
| `Launch`, `Open`, `Load`, `Connect`, `EnableOpenClaw`, `ConnectFails`, `Truncate`, `Write`, `Stop`, `Crash` | the start and the end of `daemonRun`, `cmdListen` and `clawdchan-mcp`, with `Register` |
| `ReadDir`, `ReadEntry`, `Prune`, `Decide`, `Report` | `List` in `daemonStateForNode` and `buildSetupStatus` |

`Setup` runs one command at a time: `Identity`, `OpenClaw` and `Daemon` are the steps of
`cmdSetup` (the order is `Steps`), `Save` and `Saved` are `saveConfig`, `Install`,
`Bootout`, `Start` the service, `Remove`, `RemoveData` the command `uninstall`,
`Begin("install")` the command `daemon install`, `InitCommand` the command `init`.
What the user answers is a choice. `LogIn` is a restart of the machine.

Simplifications: what `setup` writes into other programs' files is left out; a service
manager does what its unit says (`Restarts`, read from the templates), and starts at
most one process; the relay and the gateway fail within `MaxFaults`.

## 3. Runs

Each run asks several questions of one instance.

| Run | Instance | What it shows |
|---|---|---|
| `outbox_safety` | 1 peer, 1 thread, 2 envelopes; a daemon and an MCP process that both have links; crashes, failing statements, revoking, deleting | an envelope has a single keeper; nothing is handed over twice; the node implements `Mailbox` |
| `outbox_progress` | 2 peers and threads, 2 envelopes; an MCP process that queues, a daemon that drains; revoking | what waits was stored and is for its addressee; it is lost in one place only, the tail of a batch; a queued row is handed over when its peer stays paired and the link stays up |
| `relay` | 1 connection of alice, 2 of bob, one of which may fail or fall silent; 3 frames for bob, a queue of 2; expiry, a restart; nodes dial again | the registry names the open link; a frame has one copy and reaches its addressee; it is dropped only for a cause; nothing lingers at the relay for ever |
| `inbound` | 2 peers, 3 envelopes that name 1 thread, 2 processes; crashes, failing statements, revoking, deleting, threads opened | what is stored lies in its sender's thread; the surfaces see what is stored; a good envelope is kept, but for the causes listed; a revoked peer's is not; all are handled although a human never answers |
| `lifecycle_loops` | 1 `Start`, 3 links, a subscriber, a publisher | a running node has a loop and gets a link; no link leaks; `Stop` ends both loops |
| `bridge_requests` | 1 call, 1 session, 2 connections | the table of requests is exact; requests go where somebody reads; after a replay no subscription is deaf |
| `bridge_ends` | 1 call, 1 session of the hub, 1 connection, 3 messages, a channel of 1 | requests end; a cancelled subscription is closed; `Close` closes all |
| `pairing` | an initiator through the hub that may disappear, two consumers (command and tool) of one code | a paired initiator is known to the other side under the same words; who waits can be found; everybody learns how it ended and the relay lets everybody go |
| `conversation` | 1 peer, 2 threads, 3 envelopes in 2 ms; a tool's caller with the gateway, a reader, a reader whose reads fail, or a listener | nothing is shown twice; what is skipped came late; one caller answers an ask once; what the tools call pending is pending for the node; the listener sees everything |
| `daemon` | with a gateway: 1 peer, 2 threads, 2 messages, 2 runs of the daemon, 3 sessions; without: 2 envelopes of a peer and 1 of this node, 3 units of time | answers come back from the session that gets the messages; a settled session stays; who is not told has a reason to know |
| `setup` | 3 service managers, 5 process ids, 2 commands, 1 other process, 1 fault | after `setup` the service runs with what was saved; the service comes back; an MCP server leaves the link to a daemon that had registered when it started to look |
| `outbox_no_loss` | 2 envelopes, no faults | **violated**: the finding below |

The bounds, and why they suffice:

- *Outbox.* Two envelopes are the least with which a batch has a head that fails
  and a tail, or one sender works while a row waits. Two processes are the least
  with which drains overlap. Two peers are only needed where a row could be filed
  under the wrong one. Nothing else in the code counts.
- *Relay.* The send buffer has one place instead of 64 and the queue two
  instead of 1024: the code compares lengths with these limits only, and what
  matters is whether a backlog is longer than the buffer, and whether a queue is
  full. Both happen. The third frame is the one that blocks: one in the writer, one
  in the buffer, one in the handler.
- *Inbound.* Three envelopes that name one thread: two of one peer race for it in
  two processes, and one of another peer comes to a thread that is not its own. A
  thread per envelope would let nothing meet.
- *Lifecycle.* A link object is used for one connection. With three links the node
  loses a link, dials, and loses that one too. The last link does not break
  (`Breaks`), else the model would run out of links and not of luck. No host in the
  repository calls `Start` again after `Stop`; `MCLifecycleRestart` shows what
  happens then.
- *Bridge.* Two connections are the least with which a goroutine is late with a dead
  one while the next is up. Three messages are the least with which one is taken,
  one fills the channel and one blocks the reader (`EventCap` is 1 instead of 32).
- *Pairing.* Three parties on one code are the least with which a slot is taken, given
  up and taken again while a late eviction is due, and with which two consumers meet
  one initiator. Two codes would not meet.
- *Conversation.* Two threads, so that a reader is between them while something is
  stored; two milliseconds and two random values, so that ids and times disagree;
  three envelopes, so that an ask, an answer and a second answer (or ask) fit. Readers
  and listeners only read: each is alone with those that write.
- *Daemon.* Three sessions let two callers and a second run of the daemon each create
  one. Three units of time let one debounce window end within the exchange window.
  `Dates` are those of the peer's clock: before and after.
- *Setup.* The second command meets the service the first one left. Five ids let every
  process that ends leave its pidfile, since an id is not given out again while its
  pidfile is there (`Reuse = FALSE`); `MCSetupReuse` shows what happens otherwise. The
  other process is a server that looks for the service's daemon, or a daemon. Two others
  (a daemon in a terminal and a server that looks for it, while a command removes the
  pidfiles) are the instance of `MCSetupServers`: with one of them no uninstall comes
  between the reads of a `List`. `Defers` holds there too; for any number it is proved.
- Bounds of the model are `Threads`, `Envelopes`, `Conns`, `To`, `Links`, `MaxStarts`,
  `MaxEvents`, `MaxNow`, `MaxLog`, `Salts`, `Sids`, `MaxTime`, `Pids`, `MaxOthers`, `MaxFaults` and
  `MaxJobs`: finitely many ids, frames, connections, moments. A system with all of them
  used stops, which is why the configurations switch the deadlock check off;
  deadlocks proper are the subject of the liveness properties.

Fairness:

- `Outbox`: a goroutine inside `sendAs` goes on, and the ticker fires again and
  again (`WF` on `SenderStep` and `DrainStep`). Nothing is assumed of callers, the
  link, the operator or faults; the property names the conditions it needs.
- `Relay`: a handler and a writer that can go on do. This includes the read
  deadline of a silent client (`ReadFails`) and the write deadline (`WriteFails`),
  which the code sets before every read and write. `RedialSpec` adds that a node
  without a usable connection dials again, which `attemptReconnect` does with a
  bounded backoff; `MCRelayStuck` shows why `NothingLingers` needs it.
- `Inbound`: the loop goes on and the surfaces return (`WF` on `LoopStep`). The one
  that asks a human is not among them: `ShowEnds` excludes it.
- `Lifecycle`: the loops go on (`WF`); a dial succeeds in the end, what a broken link
  has buffered runs out, and a `select` that finds its stop channel closed again and
  again takes that branch in the end (`SF`; Go chooses at random between the
  branches that are ready).
- `Bridge`: goroutines go on, and a blocked `select` sees that its context is done. A
  connection is lost in the end: the read deadline of the handshake
  (`bridge.go:820-824`) is never cleared. Callers need not give up until the bridge
  is closed, and nothing is assumed of the gateway or of a dial.
- `Pairing`: goroutines go on; the contexts of `Rendezvous` and of `servePair` run out,
  as both have a deadline. Nothing is assumed of who enters a code.
- `Conversation`: the listener's ticker fires.
- `Setup`: the service manager starts what is due, and the service's process goes on.
  Nothing is assumed of commands, agents and other processes.
- `daemon` and `outbox_safety` check no liveness and assume no fairness.

### Finding

`tryDrainOutbox` loses the rest of a batch (`node.go:629`). `DrainOutbox` deletes all
rows of the peer; on a failed delivery one envelope is queued again, then `break`. The
comment at `node.go:398` promises "stored + queued for retry".

### Counterexamples to keep

Each of these properties is one that one would like to have and that fails. Add it to
the configuration named, as an invariant or, where marked (P), as a property, and TLC
prints the behaviour (without the line `SYMMETRY`, if there is one and the property is
temporal).

| Configuration | Property | What happens |
|---|---|---|
| `MCOutboxSafety` | `ForgetIsFull` | `DeletePeer` runs after the checks of a `Send` and before its insert: rows of the deleted peer remain (`store.go:36`) |
| `MCInbound` | `ForgetIsFull` | the same with `handleInbound` between its statements |
| `MCInbound` | `RaceLosesNothing` (P) | two processes create the thread of two envelopes; the slower one's insert fails, and its envelope is dropped (`node.go:543-554`) |
| `MCInbound` | `StoredAsSigned` | a downgraded envelope is stored with another intent under the old signature (`docs/design.md:307`) |
| `MCRelay` | `QueuedMeansOffline` | `deliver` finds no link, unlocks, and queues the frame; its recipient has registered and flushed its backlog in between: the frame waits for the next reconnect of a node that is online (`relayserver.go:212`) |
| `MCLifecycleLoops` | `StopClosesLinks` (P) | `attemptReconnect` installs its link after `Stop`: nobody closes it (`node.go:494-501`) |
| `MCLifecycleLoops` | `NoPanic` | cancel closes the channel while `publish` holds a copy: a send on a closed channel |
| `MCBridgeEnds` | `NoPanic` | the same between `deliverEvent` and `removeSubscription` |
| `MCBridgeEnds` | `RequestsAlwaysEnd` (P) | the reader is blocked in the hub's channel while the hub waits for an answer that only the reader could bring |
| `MCBridgeRequests` | `SurvivesReconnect` (P) | a connection lost during the replay takes the subscription with it: the answer of `failPending` has the type of a refusal (`bridge.go:769`); "Reconnect is transparent" (`docs/openclaw.md:66-67`) |
| `MCPairing` | `PairingIsMutual` | the consumer has sent its card and is paired; the initiator disappears or fails before it reads it |
| `MCPairing` | `NoPanic` | both directions of `pipe` see `stop` open and close it (`relayserver.go:348`) |
| `MCPairing` | `ReportIsTrue` | the hub's deadline passes while the peer's row is stored: the user is told that the pairing failed, and it has not (`hub.go:208`) |
| `MCConversation` | `CursorIsSeen` | an envelope with a smaller id is stored after the cursor has passed it; "the caller has seen them" (`tool_inbox.go:186-187`) |
| `MCConversation` | `CursorAdvances` (P) | a thread with the largest id cannot be read, and the next cursor is a smaller one |
| `MCConversation` | `NothingElseIsPending` | one answer after two asks: `PendingAsks` finds none left, and `HasPendingAsk` takes one answer for one ask |
| `MCConversation` | `OneConversation` | the tool and the peer's first envelope, or two callers, open a thread each (`tools.go:102-104`) |
| `MCConversation` | `OneAnswer` | the tool and the gateway both find the ask pending and both answer it (`tool_message.go:94-98`) |
| `MCDaemon` | `OneSession` | two messages of a peer without a session at once: each creates one (`session.go:36`) |
| `MCDaemon` | `TurnsFlowBack` | a peer whose first thread comes after the daemon's start has no subscriber (`openclaw/doc.go:5-7`) |
| `MCDaemon` | `EveryThreadIsHeard` | the second thread of a peer finds its session subscribed to, and its `RunSubscriber` ends |
| `MCDaemon` | `OneToastAWindow` | the toast fires some time after its debounce was claimed, or a daemon that is started again has forgotten the debounce |
| `MCDaemon` | `AsksAreTold` | an ask is silent because this node has written to the peer a moment ago |
| `MCSetup` | `FreshEverywhere` | `systemctl enable --now` leaves a running daemon, with the old configuration, alone (`docs/openclaw.md:51-52`) |
| `MCSetup` | `OpenClawIsKept` (P) | updating the alias in the first step writes the configuration without its OpenClaw part (`cmd_setup.go:472`) |
| `MCSetup` | `SetupHeals` | a configuration torn by an interruption is passed over by every later `setup` (`cmd_setup.go:60-82`) |
| `MCSetup` | `OneHolder` | a server that looks while the daemon is connecting takes a link too (`docs/mcp.md:138`) |
| `MCSetup` | `UpIsListed` | `List` reads a pidfile half-written and removes it after it was written (`listenerreg.go:127-129`) |
| `MCSetup` | `OnlyListenerListens` (P) | the daemon that a server deferred to has ended: the server reports itself as the listener, without a link (`claudecode/tools.go:134`) |

Configurations of their own, since they need another instance:

| Configuration | Property | What happens |
|---|---|---|
| `MCInboundDeny` | `DenyLeavesNothing` | the thread is created before the policy is asked (`node.go:543`): a denied ask leaves an empty thread |
| `MCLifecycleRestart` | `OldLoopsEnd` | a `Start` after `Stop` replaces `n.stopCh` before the old loop has looked: two loops read one link |
| `MCRelayStuck` | `SendersKeepGoing` | a node vanishes while its backlog is flushed (`relayserver.go:147`) and leaves a link with a full buffer and no writer; every handler with a frame for it waits until the node comes back (`docs/deploy.md:124-125`) |
| `MCSetupReuse` | `DeferredToSomebody` | a server has the id of a crashed daemon, or another process has, and takes its pidfile for a daemon's: nobody holds the link |

## 4. Proofs

Eight modules hold the proofs. They state, for every value of the constants that
the named assumptions of the modules allow, finite or not, every safety property and
every action property that the passing runs check, and `CursorStaysAhead`, which TLC
finds to hold when it is added to `MCConversation.cfg`. TLC had checked the properties
on the instances of the runs before they were proved. The theorems without a hypothesis
of their own rest on nothing but the module's `ASSUME`, which says what the ids and
tables are made of.

| Theorem | States |
|---|---|
| `OutboxProofs!TypeCorrect`, `OneKeeper`, `HandedOnce`, `StoredBeforeSent` | `TypeOK`, `SingleKeeper`, `AtMostOnce`, `StoredFirst` always hold |
| `OutboxProofs!LostAtOnePlace` | `LostOnlyBehindAFailure`, without failing statements, crashes and deletions |
| `OutboxProofs!Implements` | `Spec => ImplementsMailbox` |
| `InboundProofs!TypeCorrect`, `StoredInOwnThread`, `WhatIsShownIsStored` | `TypeOK`, `InOwnThread`, `ShownIsStored` |
| `InboundProofs!DroppedForAReason`, `RevokedStaysOut` | the action property `KeptUnlessRefused`; `RevokedIsDropped` |
| `NodeProofs!TypeCorrect`, `NodeReceives` | `TypeOK`, `SomebodyReceives` of `Lifecycle` |
| `NodeProofs!NoLinkLeaks` | `OpenIsHeld`, for a node that is started once |
| `NodeProofs!RestartsInTurn` | `OpenIsHeld` and `OldLoopsEnd` for any number of restarts, if each finds the loops before it ended and no link |
| `NodeProofs!ConversationTypeCorrect`, `PendingIsCounted`, `AnswersHaveTheirAsk` | `ConversationTypeOK`, `PendingIsPending`, `EachAnswerHasItsAsk` |
| `NodeProofs!ShownOnce`, `SkippedWasLate`, `CursorsStayAhead` | `NothingTwice`, `SkippedIsLate`, the action property `CursorStaysAhead` |
| `RelayProofs!TypeCorrect`, `RegistryStaysCurrent`, `FramesReachTheirAddressee`, `FramesAreNotCopied` | `TypeOK`, `RegistryIsCurrent`, `RightRecipient`, `OneCopy` |
| `RelayProofs!LossesHaveACause` | the action property `DropsHaveACause` |
| `PairingProofs!TypeCorrect`, `WaitingPartiesAreFound` | `TypeOK`, `WaitingIsFound` |
| `PairingProofs!InitiatorsAreAnswered`, `InitiatorsAreKnown` | the answer of a party that was matched, and `InitiatorIsKnown`, under hypotheses on the codes |
| `BridgeProofs!TypeCorrect`, `PendingStaysExact`, `RequestsReachTheReader`, `SubscriptionsAreAskedAgain` | `TypeOK`, `PendingIsExact`, `RequestsGoToTheReader`, `AskedAgain` |
| `DaemonProofs!TypeCorrect`, `AnswersAreOfTheSessionInUse`, `SettledPeersStay` | `TypeOK` and `AnswersComeBack` of `Sessions`, the action property `SettledStays` |
| `DaemonProofs!RunsSessions`, `DaemonKeepsSessions` | `DaemonSpec => Spec`, and with it `AnswersComeBack` and `SettledStays` of the composed daemon |
| `DaemonProofs!SilenceHasAReason` | the action property `SilentForAReason` of `Daemon` |
| `SetupProofs!TypeCorrect`, `SetupIsFresh`, `ServersDefer` | `TypeOK`, `FreshAfterSetup`, the action property `Defers` |

### OutboxProofs

The inductive invariant is
`IInv == TypeOK /\ SenderShape /\ DrainShape /\ StoredFirst /\ SingleKeeper /\ AtMostOnce`:

- `AtMostOnce` alone is not inductive: a drain batch could hold what is on the
  wire already. `SingleKeeper` excludes this, and what makes it inductive is that
  `DrainTake` empties the outbox as it fills the batch.
- `SenderShape` says what a sender's locals are at each `pc`: an idle sender
  holds no envelope, one past its check holds one that was made for its peer. It
  gives `SendEnqueue` the addressee that `StoredFirst` needs.
- `DrainShape` says that a loop that delivers or requeues has a batch, and
  others have none: otherwise `Head` and `Tail` mean nothing.
- `StoredFirst` ties queue, batch and wire to `dest`; with it an envelope cannot
  be in two peers' queues.

Every step moves at most one envelope, or a whole queue, from one keeper to
another. The lemmas follow this: the facts about sequences without repetitions
(`EmptyQueue`, `AppendQueue`, `TailQueue`), what a change of one sender or one
loop leaves alone (`SenderMoves`, `DrainMoves`), one lemma per kind of move
(`KeepOrLose`, `JoinsWire`, `JoinsOutbox`), and one lemma per action.

`Implements` rests on the same invariant. Under the refinement mapping (`Status`
in `Outbox`) every step is one of three: it accepts a fresh envelope (`Submits`:
`HasAddressee` shows that an id nobody has taken is held nowhere), it hands one to
the link (`HandsOver`: the envelope was held and, by `SingleKeeper`, not handed
before), or it gives some up (`GivesUp`), none in most cases: all the steps after
which nobody holds what he did not hold before.

`LostAtOnePlace` goes through the actions once more, and asks of each who takes over
what the actor lets go of (`SendersKeep`, `DrainsKeep`, `OthersKeep`). Only
`DrainRequeue` has an envelope that nobody takes over: the tail of the batch. The
hypotheses are those of its run: `"store"` and `"crash"` do not happen, and nobody
issues `"delete"`; each of the three loses envelopes by itself.

### InboundProofs

The type invariant is not inductive by itself, since `AppendEnvelope` would store the
intent of no envelope: `Typed` adds that a loop that is not idle has an envelope.

For `InOwnThread` the invariant is `Owned`, with the part `AppendsOwn`: a loop that is
about to append has found or made the sender's own thread, or the sender has been
deleted since. `OwnerStays`: a row of `threads` changes its peer only with that peer's
deletion, and a peer that is deleted stays so. `ComesToAppend`: whoever comes to append
has compared the row in this very step.

For the rest it is `Followed == Typed /\ HeldOnce /\ FateIsLogged`. `HeldOnce` says
that a frame is at one place of one process. Without it two loops could store one
envelope, one of them after its deletion, and `fate` would say nothing of the log.
`FateIsLogged` ties `fate`, `log` and `shown` to one another.
`RevokedIsDropped` speaks of all later states; its proof is that `Barred(e)` (the sender
is not trusted, the log has no `e`, and no loop is past the check with it) is kept by
every step, and holds where a revoked peer's envelope has not arrived yet.

### NodeProofs

*Lifecycle.* `Current == Typed /\ LoopGoesOn` gives `SomebodyReceives`. The loop of the
last `Start` could end by the channel of an earlier one, had it read `n.stopCh` before
its backoff; `LoopGoesOn` bounds the channel that a loop in backoff has read, by its own
`Start` from below and the last one from above.

`Held == Typed /\ OneOwner /\ OpenIsHeld` is kept by every step under `StartsAlone`: a
`Start` comes when every earlier loop has ended and `n.link` is nil. `RestartsInTurn`
follows. Of a node that is started once the condition is true, hence `NoLinkLeaks`; that
is what the hosts of the repository do, since none calls `Start` a second time on one
`Node`. Nothing in `Start` and `Stop` sees to the condition, and both halves of it are
needed: a loop that goes on reads the new link (`MCLifecycleRestart`, section 3), and one
that has installed its link after the `Stop` leaves it to be overwritten.

*Conversation.* Its operators choose, sort and fold over tables of any length. The first
lemmas say what they give, without their definitions being expanded again afterwards:

- `ListingExists`, `OrderedHolds`: a finite set of places has a listing in the order of
  the statement, so that the `CHOOSE` of `Ordered` has something to choose;
  `ThreadsListed`, `EnvelopesListed`: the listings hold what is in the tables, and no more.
- `RecursionExists`, `CountHolds`, `LargestHolds`: the recursive functions satisfy their
  equations; the largest id is one of those read, and none of them is larger.
- `PendingHolds`: an ask that is pending sorts after every answer in its thread;
  `PendingCounts`: after it the node's count stays above 0. This is `PendingIsCounted`.

All of these are inductions over the length of a table. The library's induction theorem
takes an operator and cannot be used; `Induction` states it of a set of numbers instead,
and follows from `WFMin`: a set of numbers that is not empty has a least element.

`Kept` adds to the types that whoever is about to send has a thread with a row
(`ChosenIsOpen`), that the thread of each envelope has one (`LogIsOpen`), and that ids
are unique and later than the zero cursor.

`ReadersHold` is about one call of `inbox` among many processes that write.
`FreshIsNew` and `ShownIsPassed` give `NothingTwice`, but are not inductive: the next
cursor must not be smaller than the last one. `CursorIsFound` says why it is not: while
a call reads, its largest id is the cursor's already, or the cursor's envelope
is in a thread that is still to be read; here `LogIsOpen` is needed, and that no thread
fails. `MaxIsRead` says that all that was stored in a thread before the largest id has been
gathered with it, which is `SkippedIsLate` once the answer is given.

`AskIsOpen` is about one caller of `message`: from the moment it has found an ask until
its answer is stored, that ask sorts after every answer of its own, whoever else answers
or asks meanwhile. It needs that a caller is no peer and no gateway.

### RelayProofs

`Sound == TypeOK /\ HandlerShape /\ WriterShape /\ RegistryIsCurrent`: a handler's `pc`
tells what it holds, so that a frame it delivers is addressed to the node whose link it
looked up. `RegistryIsCurrent` needs no more than this.

`Tracked == OnePlace /\ Addressed /\ NoRepeats` follows the frames. The places (the
network, a handler's hand, its backlog, a buffer, a writer, a queue, the client) are
put under one predicate, `In(f, place, owner)`: a frame is in at most one place
(`OnePlace`), once (`NoRepeats`), and where the place belongs to a node it is the
addressee (`Addressed`). Each action moves one frame or empties one place, so one
lemma on moves serves them all.

That `Enqueue` always finds the row to displace when the queue is full would be an
induction over the queue; the action states the choice as a condition instead, and
TLC reaches it in the run `relay`.

### PairingProofs

`Exchange == Matching /\ GotInOrder /\ CardsGoToMates /\ RowsAreExchanged`. `Matching`
holds the slots, the handlers and the mates together (`MatchedOnce`, `SlotIsFree`,
`WaitingIsFound`). `CardsGoToMates`: a card is written to the sender's mate only, and a
consumer has sent its own only after it has opened an initiator's. `RowsAreExchanged`:
behind each row of `peers` there are two parties that exchanged cards.

The two theorems on initiators have hypotheses on `CodeOf`:

- `CodesAreFresh`: no two calls of `Pair` have one code. `Pair` draws 128 random bits.
- `TwoNodesPairOnce`: no two codes pair the same two nodes. The code does not
  enforce this: the operator may pair two nodes again, and a second pairing that is cut
  short may leave the first one's words on one side, where `InitiatorIsKnown` does not
  hold.

### BridgeProofs

`Served == TypeOK /\ HasConnection /\ AnswersAreAwaited /\ PendingIsExact /\ ReaderHasConn`:
`PendingIsExact` is inductive once it is known that an answer is put aside only for a
request that waits for it. `ReaderHasConn` extends `RequestsGoToTheReader` to the time
in which the reader is away with a message.

`Replayed == BeginsWithDial /\ ReplayAsks /\ EverySubscriptionIsCovered` is what
`AskedAgain` says when the replay is over, said of every moment before: while a
connection is the current one and open, each subscription has been asked for on it, or is
still on the list of its replay, or its request is on its way, or its own `Subscribe` is
where it will see the connection or fail.

### DaemonProofs

`Stored == TypeOK /\ Shaped /\ RowsAreOwned /\ CacheIsStored /\ UsedIsStored`: cache,
table and callers name sessions of the right peer, and what the cache has the table
has too, since `Put` comes after the statement. `SettledStays` follows from it.

`InUse` adds how the daemon starts: nobody else runs while it goes through the peers
(`StartIsAlone`, `OffIsEmpty`, `SurfacesWait`), the peers it is through with are in
the cache (`ReadyIsCached`, `StartFillsCache`), and whoever calls for one of those takes
its session from there (`UsesCache`, `StartingIsCached`). With it a session that gets
messages is the one whose answers come back.

`RunsSessions` shows step by step that the composition implements `Sessions`, so that
both properties carry over to it (`DaemonKeepsSessions`).

`Claimed` is about the toasts: `NewIsUnstored` and `ClaimIsForAToast`, that a claimed
debounce belongs to an envelope the user is being told of, or was told of no
earlier. That is why the third reason of `SilentForAReason` is one.

### SetupProofs

`Installed == Typed /\ Fresher`: `Typed` adds to `TypeOK` that an id without a process
does nothing (`FreeIsOff`); `Fresher` adds to `FreshAfterSetup` that the manager runs
nothing without a unit (`NoUnitNoService`), that a command that stops or starts the
service has written its unit (`JobHasUnit`), and that the manager has no process
when one is to be started in the place of another (`StartsFresh`).

`Watching == OnlyWhileLooking /\ AreThere /\ NotDoomed` is for `Defers`: each daemon
that was registered when a `List` began is still up and registered, and either still
to be read or seen; and no other `List` is about to prune its file. The daemons a
`List` must find are written down in `before` when it begins. `uninstall`, which
removes the directory under a `List`, has to clear it: without this the files that
are gone would count as overlooked, `AreThere` is not inductive, and TLC finds the
counterexample with `MCSetupServers`, where a server looks while a daemon is up.

### Only model-checked

- Liveness and `ENABLED`, which are out of the prover's reach: `QueuedIsHanded`,
  `NothingLingers`, `HandledInTheEnd`, `StopEndsLoops`, `StaysConnected`, `RequestsEnd`,
  `CancelEnds`, `CloseEnds`, `EverybodyIsLetGo`, `EverythingIsFollowed`, `ServiceComesBack`.
- `StoredIsQueuedOrHanded`, which the run `outbox_no_loss` refutes.

Type correctness is a theorem of every module, so the configurations do not list it.

## 5. Plan

Done: `Outbox`, `Relay`, `Inbound`, `Lifecycle`, `Bridge`, `Pairing`, `Notify`, `Sessions`,
`Conversation`, `Daemon`, `Machine`, `Setup` with their proofs, and `Outbox` with its
refinement. Next:

1. `EndToEnd`: nodes and relay composed; an envelope that is handed to the link
   is received, or one of the named losses has happened.

## 6. Not modelled

- Canonical encoding, signatures, key exchange and encryption: the models use
  their results (a frame decodes or not, a card opens or not), never their contents.
- The wiring of agents (`setup_agent_*.go`), the PATH, OpenClaw's own files
  (`openclaw_scopes.go`) and the deployment of assets: edits of other programs' files,
  without state shared with the rest of the system.
- The hub's answers to questions about peers and inbox, the toolkit, rendering, and
  argument parsing: they read and format. The desktop's notification programs.
- The identity row: `node.New` generates an identity when it finds none, and two first
  processes of a new data directory could both do so (`node.go:92-103`).
- Sizes and rates: a frame above the relay's read limit ends the sender's
  connection after its `Send` has returned; this needs the composition of both.
