-------------------------------- MODULE Relay --------------------------------
(***************************************************************************)
(* The /link side of the relay (internal/relayserver): for each websocket  *)
(* a handler goroutine (serveLink, then readLoop) and a writer goroutine   *)
(* (writeLoop) with a bounded buffer between them; the registry of links   *)
(* and the offline queues behind one mutex; clients that dial again, go    *)
(* silent or are cut off.                                                  *)
(*                                                                         *)
(* A step is one critical section of r.mu, one channel operation or one    *)
(* websocket call.                                                         *)
(***************************************************************************)
EXTENDS Naturals, Sequences, Functions

CONSTANTS
  Nodes, Conns,           \* node ids, link objects
  Unreliable,             \* the connections that may fail
  Of,                     \* [Conns -> Nodes]: who dials with the connection
  To,                     \* frame.To of the frames, in the order in which the
                          \* clients write them; None if it does not decode
  SendCap, MaxQueued,     \* capacity of l.send (64), MaxQueuedPerPeer (1024)
  Faults,                 \* which of "expire", "restart" may happen
  None, Ctl               \* nothing; a control message

Frames == DOMAIN To

ASSUME RelayAssumption ==
  /\ Of \in [Conns -> Nodes]
  /\ Unreliable \subseteq Conns
  /\ To \in Seq(Nodes \cup {None})
  /\ SendCap \in Nat \ {0} /\ MaxQueued \in Nat \ {0}
  /\ None \notin Nodes \cup Conns \cup Frames /\ Ctl \notin Frames \cup {None}

VARIABLES
  links,     \* r.links: per node its registered connection, or None
  queues,    \* r.queues: per node the frames kept for it, oldest first
  expired,   \* the frames queued longer ago than QueueRetention
  pc,        \* per connection: where its handler is, "free" when there is none
  hand,      \* the frame the handler is routing
  target,    \* the connection it found for that frame
  backlog,   \* the frames it still has to flush
  closed,    \* l.closed has been closed (and with it the socket)
  send,      \* l.send
  writer,    \* the writer goroutine: "idle", "busy" or "gone"
  message,   \* what the writer is writing
  socket,    \* "up", "silent" (the client is stuck or unreachable) or "cut"
  uplink,    \* the frames the client has written, not yet read by the relay
  written,   \* how many frames the clients have written
  received   \* per node, the frames its client has received

registry == <<links, queues, expired>>
handler  == <<pc, hand, target, backlog>>
buffer   == <<closed, send, writer, message>>
network  == <<socket, uplink, written, received>>
vars == <<registry, handler, buffer, network>>

\* The handler has registered its link and not left readLoop.
Serving == {"flush", "read", "deliver", "enqueue", "ctl"}

TypeOK ==
  /\ links \in [Nodes -> Conns \cup {None}]
  /\ queues \in [Nodes -> Seq(Frames)]
  /\ expired \subseteq Frames
  /\ pc \in [Conns -> Serving \cup {"free", "unregister", "close"}]
  /\ hand \in [Conns -> Frames \cup {None}]
  /\ target \in [Conns -> Conns \cup {None}]
  /\ backlog \in [Conns -> Seq(Frames)]
  /\ closed \in [Conns -> BOOLEAN]
  /\ send \in [Conns -> Seq(Frames \cup {Ctl})]
  /\ writer \in [Conns -> {"idle", "busy", "gone"}]
  /\ message \in [Conns -> Frames \cup {Ctl, None}]
  /\ socket \in [Conns -> {"up", "silent", "cut"}]
  /\ uplink \in [Conns -> Seq(Frames)]
  /\ written \in 0..Len(To)
  /\ received \in [Nodes -> Seq(Frames)]
  /\ \A n \in Nodes : Len(queues[n]) <= MaxQueued
  /\ \A c \in Conns : Len(send[c]) <= SendCap

Init ==
  /\ links = [n \in Nodes |-> None]
  /\ queues = [n \in Nodes |-> <<>>]
  /\ expired = {}
  /\ pc = [c \in Conns |-> "free"]
  /\ hand = [c \in Conns |-> None]
  /\ target = [c \in Conns |-> None]
  /\ backlog = [c \in Conns |-> <<>>]
  /\ closed = [c \in Conns |-> TRUE]
  /\ send = [c \in Conns |-> <<>>]
  /\ writer = [c \in Conns |-> "gone"]
  /\ message = [c \in Conns |-> None]
  /\ socket = [c \in Conns |-> "cut"]
  /\ uplink = [c \in Conns |-> <<>>]
  /\ written = 0
  /\ received = [n \in Nodes |-> <<>>]

-----------------------------------------------------------------------------
(* The clients and the network.                                            *)

\* A node is not its own peer.
ClientWrites(c) ==
  /\ socket[c] = "up"
  /\ written < Len(To)
  /\ To[written + 1] # Of[c]
  /\ written' = written + 1
  /\ uplink' = [uplink EXCEPT ![c] = Append(@, written + 1)]
  /\ UNCHANGED <<registry, handler, buffer, socket, received>>

\* The client is suspended, partitioned, or busy in a handler of its own.
GoesSilent(c) ==
  /\ c \in Unreliable
  /\ socket[c] = "up"
  /\ socket' = [socket EXCEPT ![c] = "silent"]
  /\ UNCHANGED <<registry, handler, buffer, uplink, written, received>>

IsCut(c) ==
  /\ c \in Unreliable
  /\ socket[c] # "cut"
  /\ socket' = [socket EXCEPT ![c] = "cut"]
  /\ UNCHANGED <<registry, handler, buffer, uplink, written, received>>

-----------------------------------------------------------------------------
(* serveLink.                                                              *)

\* What stays in r.queues.  Mutant: the entry is not deleted.
QueueLeftWhole(n) == queues[n]
QueueLeft(n) == <<>>

\* The link that connecting c closes.
Closes(c, d) == d = links[Of[c]]

\* The handler goes on with what was queued.  Mutant: it starts to read.
AfterConnectRead(c) == "read"
AfterConnect(c) == IF queues[Of[c]] = <<>> THEN "read" ELSE "flush"

\* A process of the node connects and authenticates.  In one critical section
\* the handler closes the node's previous link, registers this one and takes
\* the queue over; then it starts the writer.  The model uses a link object
\* again when no goroutine holds it any more.
Connect(c) ==
  /\ pc[c] = "free"
  /\ writer[c] = "gone"
  /\ \A d \in Conns : target[d] # c
  /\ LET n == Of[c]
     IN  /\ closed' = [d \in Conns |-> d # c /\ (closed[d] \/ Closes(c, d))]
         /\ socket' = [d \in Conns |-> IF d = c THEN "up"
                                       ELSE IF Closes(c, d) THEN "cut"
                                       ELSE socket[d]]
         /\ links' = [links EXCEPT ![n] = c]
         /\ backlog' = [backlog EXCEPT ![c] = queues[n]]
         /\ queues' = [queues EXCEPT ![n] = QueueLeft(n)]
         /\ expired' = expired \ Range(queues[n])
  /\ send' = [send EXCEPT ![c] = <<>>]
  /\ writer' = [writer EXCEPT ![c] = "idle"]
  /\ pc' = [pc EXCEPT ![c] = AfterConnect(c)]
  /\ UNCHANGED <<hand, target, message, uplink, written, received>>

\* deliver and sendCtl wait until the buffer has room or the link is closed;
\* when both hold, the select takes either branch.
HasRoom(c) == Len(send[c]) < SendCap

Flush(c) ==
  /\ pc[c] = "flush"
  /\ \/ /\ HasRoom(c)
        /\ send' = [send EXCEPT ![c] = Append(@, Head(backlog[c]))]
     \/ /\ closed[c]
        /\ UNCHANGED send
  /\ backlog' = [backlog EXCEPT ![c] = Tail(@)]
  /\ pc' = [pc EXCEPT ![c] = IF Len(backlog[c]) = 1 THEN "read" ELSE "flush"]
  /\ UNCHANGED <<registry, hand, target, closed, writer, message, network>>

\* The registry after readLoop has ended.  Mutant: whoever is registered now.
LinkLeftNone(c) == None
LinkLeft(c) == IF links[Of[c]] = c THEN None ELSE links[Of[c]]

Unregister(c) ==
  /\ pc[c] = "unregister"
  /\ links' = [links EXCEPT ![Of[c]] = LinkLeft(c)]
  /\ pc' = [pc EXCEPT ![c] = "close"]
  /\ UNCHANGED <<queues, expired, hand, target, backlog, buffer, network>>

Close(c) ==
  /\ pc[c] = "close"
  /\ closed' = [closed EXCEPT ![c] = TRUE]
  /\ socket' = [socket EXCEPT ![c] = "cut"]
  /\ uplink' = [uplink EXCEPT ![c] = <<>>]
  /\ pc' = [pc EXCEPT ![c] = "free"]
  /\ UNCHANGED <<registry, hand, target, backlog, send, writer, message, written, received>>

-----------------------------------------------------------------------------
(* readLoop.                                                               *)

\* Read a frame and look its destination up.  What is found is used after
\* the mutex has been released.  A closed or cut connection may still yield
\* what its reader has buffered.
ReadFrame(c) ==
  /\ pc[c] = "read"
  /\ uplink[c] # <<>>
  /\ LET f == Head(uplink[c])
         peer == IF To[f] = None THEN None ELSE links[To[f]]
     IN  /\ hand' = [hand EXCEPT ![c] = IF To[f] = None THEN None ELSE f]
         /\ target' = [target EXCEPT ![c] = peer]
         /\ pc' = [pc EXCEPT ![c] = IF To[f] = None THEN "ctl"
                                    ELSE IF peer # None THEN "deliver"
                                    ELSE "enqueue"]
  /\ uplink' = [uplink EXCEPT ![c] = Tail(@)]
  /\ UNCHANGED <<registry, backlog, buffer, socket, written, received>>

\* The read fails: the link was closed, the socket is cut, or the deadline
\* has passed in silence (a ping that cannot be answered because the writer
\* has failed ends the read as well).
ReadFails(c) ==
  /\ pc[c] = "read"
  /\ \/ closed[c]
     \/ socket[c] = "cut"
     \/ socket[c] = "silent" /\ uplink[c] = <<>>
  /\ pc' = [pc EXCEPT ![c] = "unregister"]
  /\ UNCHANGED <<registry, hand, target, backlog, buffer, network>>

Deliver(c) ==
  /\ pc[c] = "deliver"
  /\ \/ /\ HasRoom(target[c])
        /\ send' = [send EXCEPT ![target[c]] = Append(@, hand[c])]
     \/ /\ closed[target[c]]
        /\ UNCHANGED send
  /\ pc' = [pc EXCEPT ![c] = "read"]
  /\ hand' = [hand EXCEPT ![c] = None]
  /\ target' = [target EXCEPT ![c] = None]
  /\ UNCHANGED <<registry, backlog, closed, writer, message, network>>

\* The newest MaxQueued of a queue.  Mutant: the oldest.
KeptOldest(q) == SubSeq(q, 1, IF Len(q) > MaxQueued THEN MaxQueued ELSE Len(q))
Kept(q) == IF Len(q) > MaxQueued THEN SubSeq(q, Len(q) - MaxQueued + 1, Len(q)) ELSE q

\* Whose queue a frame goes to.  Mutant: enqueue's two node ids swapped.
QueueOfSender(c) == Of[c]
QueueOf(c) == To[hand[c]]

Unexpired(f) == f \notin expired

\* enqueue: drop what is too old, append, keep the newest.  The times of a queue
\* are in order: the k oldest entries are too old.
Enqueue(c) ==
  /\ pc[c] = "enqueue"
  /\ LET n == QueueOf(c)
         q == queues[n]
     IN  /\ \E k \in 0..Len(q) :
              /\ \A i \in 1..Len(q) : Unexpired(q[i]) <=> i > k
              /\ queues' = [queues EXCEPT ![n] =
                              Kept(Append(SubSeq(q, k + 1, Len(q)), hand[c]))]
         /\ expired' = expired \ Range(q)
  /\ hand' = [hand EXCEPT ![c] = None]
  /\ pc' = [pc EXCEPT ![c] = "ctl"]
  /\ UNCHANGED <<links, target, backlog, buffer, network>>

\* sendCtl, to the client that sent the frame.
SendCtl(c) ==
  /\ pc[c] = "ctl"
  /\ \/ /\ HasRoom(c)
        /\ send' = [send EXCEPT ![c] = Append(@, Ctl)]
     \/ /\ closed[c]
        /\ UNCHANGED send
  /\ pc' = [pc EXCEPT ![c] = "read"]
  /\ UNCHANGED <<registry, hand, target, backlog, closed, writer, message, network>>

-----------------------------------------------------------------------------
(* writeLoop.                                                              *)

\* The select may take a message although the link is closed.
WriterTakes(c) ==
  /\ writer[c] = "idle"
  /\ send[c] # <<>>
  /\ writer' = [writer EXCEPT ![c] = "busy"]
  /\ message' = [message EXCEPT ![c] = Head(send[c])]
  /\ send' = [send EXCEPT ![c] = Tail(@)]
  /\ UNCHANGED <<registry, handler, closed, network>>

WriterEnds(c) ==
  /\ writer[c] = "idle"
  /\ closed[c]
  /\ writer' = [writer EXCEPT ![c] = "gone"]
  /\ UNCHANGED <<registry, handler, closed, send, message, network>>

\* The write succeeds.  Only a client that is there receives anything: else
\* the bytes stay in a kernel buffer.
Write(c) ==
  /\ writer[c] = "busy"
  /\ ~closed[c]
  /\ received' = IF socket[c] = "up" /\ message[c] # Ctl
                   THEN [received EXCEPT ![Of[c]] = Append(@, message[c])]
                   ELSE received
  /\ writer' = [writer EXCEPT ![c] = "idle"]
  /\ message' = [message EXCEPT ![c] = None]
  /\ UNCHANGED <<registry, handler, closed, send, socket, uplink, written>>

\* It fails, at once or at the write deadline: the writer returns, and leaves
\* the link registered and open.
WriteFails(c) ==
  /\ writer[c] = "busy"
  /\ socket[c] # "up"
  /\ writer' = [writer EXCEPT ![c] = "gone"]
  /\ message' = [message EXCEPT ![c] = None]
  /\ UNCHANGED <<registry, handler, closed, send, network>>

-----------------------------------------------------------------------------
(* Time, and the relay's own process.                                      *)

\* The retention of the oldest unexpired frame of a queue runs out.
Expire(n) ==
  /\ "expire" \in Faults
  /\ \E i \in 1..Len(queues[n]) :
       /\ Unexpired(queues[n][i])
       /\ \A j \in 1..(i - 1) : ~Unexpired(queues[n][j])
       /\ expired' = expired \cup {queues[n][i]}
  /\ UNCHANGED <<links, queues, handler, buffer, network>>

\* The relay keeps everything in memory.
Restart ==
  /\ "restart" \in Faults
  /\ links' = [n \in Nodes |-> None]
  /\ queues' = [n \in Nodes |-> <<>>]
  /\ expired' = {}
  /\ pc' = [c \in Conns |-> "free"]
  /\ hand' = [c \in Conns |-> None]
  /\ target' = [c \in Conns |-> None]
  /\ backlog' = [c \in Conns |-> <<>>]
  /\ closed' = [c \in Conns |-> TRUE]
  /\ send' = [c \in Conns |-> <<>>]
  /\ writer' = [c \in Conns |-> "gone"]
  /\ message' = [c \in Conns |-> None]
  /\ socket' = [c \in Conns |-> "cut"]
  /\ uplink' = [c \in Conns |-> <<>>]
  /\ UNCHANGED <<written, received>>

-----------------------------------------------------------------------------
HandlerStep(c) ==
  \/ Flush(c)
  \/ ReadFrame(c) \/ ReadFails(c) \/ Deliver(c) \/ Enqueue(c) \/ SendCtl(c)
  \/ Unregister(c) \/ Close(c)

WriterStep(c) == WriterTakes(c) \/ WriterEnds(c) \/ Write(c) \/ WriteFails(c)

ClientStep(c) ==
  Connect(c) \/ GoesSilent(c) \/ IsCut(c) \/ ClientWrites(c)

Next ==
  \/ \E c \in Conns : HandlerStep(c) \/ WriterStep(c) \/ ClientStep(c)
  \/ \E n \in Nodes : Expire(n)
  \/ Restart

Spec == Init /\ [][Next]_vars

-----------------------------------------------------------------------------
(* Safety.                                                                 *)

\* The registry and the handlers agree, however an old handler's cleanup and
\* a new connection of the node interleave (relayserver.go:136-143, 153-157):
\* what is registered is open and belongs to the node; a handler that still
\* serves an open link is the one that is registered.
RegistryIsCurrent ==
  /\ \A n \in Nodes : links[n] # None =>
       /\ Of[links[n]] = n
       /\ ~closed[links[n]]
       /\ pc[links[n]] \in Serving \cup {"unregister"}
  /\ \A c \in Conns : pc[c] \in Serving /\ ~closed[c] => links[Of[c]] = c

\* The places of the relay in which a frame can be.
InHand(c) == IF hand[c] = None THEN {} ELSE {hand[c]}
InWriter(c) == IF message[c] \in Frames THEN {message[c]} ELSE {}
Buffered(c) == Range(send[c]) \cap Frames

InRelay(f) ==
  \/ \E n \in Nodes : f \in Range(queues[n])
  \/ \E c \in Conns : f \in InHand(c) \cup Range(backlog[c]) \cup Buffered(c) \cup InWriter(c)

\* A relayed frame has one copy: in one queue, one handler's hands or
\* backlog, one buffer, one writer, or at the recipient.
OneCopy ==
  /\ \A n \in Nodes : IsInjective(queues[n]) /\ IsInjective(received[n])
  /\ \A m, n \in Nodes : /\ m # n => Range(queues[m]) \cap Range(queues[n]) = {}
                         /\ m # n => Range(received[m]) \cap Range(received[n]) = {}
                         /\ Range(queues[m]) \cap Range(received[n]) = {}
  /\ \A c \in Conns, n \in Nodes :
       (InHand(c) \cup Range(backlog[c]) \cup Buffered(c) \cup InWriter(c))
         \cap (Range(queues[n]) \cup Range(received[n])) = {}
  /\ \A c, d \in Conns : c # d =>
       (InHand(c) \cup Range(backlog[c]) \cup Buffered(c) \cup InWriter(c))
         \cap (InHand(d) \cup Range(backlog[d]) \cup Buffered(d) \cup InWriter(d)) = {}

\* Whatever is kept for, buffered for or received by a node is addressed to
\* it, also when the link object was looked up before it was replaced.
RightRecipient ==
  /\ \A n \in Nodes : \A f \in Range(queues[n]) \cup Range(received[n]) : To[f] = n
  /\ \A c \in Conns :
       \A f \in Range(backlog[c]) \cup Buffered(c) \cup InWriter(c) : To[f] = Of[c]

\* The relay drops a frame only for a link that is closed or no longer works,
\* or from a queue: the oldest frame of a full one, or one past its retention.
DropsHaveACause ==
  [][\A f \in Frames : InRelay(f) /\ ~InRelay(f)' =>
       \/ \E n \in Nodes : f \in Range(received'[n])
       \/ \E c \in Conns : /\ f \in Range(backlog[c]) \cup Buffered(c) \cup InWriter(c)
                           /\ closed[c] \/ socket[c] # "up"
       \/ \E c, d \in Conns : f \in InHand(c) /\ target[c] = d /\ closed[d]
       \/ f \in expired
       \/ \E n \in Nodes : /\ Len(queues[n]) = MaxQueued
                           /\ f = Head(queues[n])
       \/ Restart]_vars

\* "recipient offline; frame queued" (relayserver.go:220), and what is queued
\* is delivered "on reconnect" (docs/design.md:199): nothing waits in the
\* queue of a node whose link is registered.
QueuedMeansOffline ==
  \A n \in Nodes : queues[n] # <<>> => links[n] = None

-----------------------------------------------------------------------------
(* Progress.                                                               *)

\* Goroutines that can go on do, and a read deadline fires.
Fairness ==
  \A c \in Conns : WF_vars(HandlerStep(c)) /\ WF_vars(WriterStep(c))

\* A node without a usable connection dials again (attemptReconnect).
Redial(n) ==
  /\ \A c \in Conns : Of[c] = n => socket[c] # "up"
  /\ \E c \in Conns : Of[c] = n /\ Connect(c)

FairSpec == Spec /\ Fairness
RedialSpec == FairSpec /\ \A n \in Nodes : WF_vars(Redial(n))

WaitsForAnother(c) == pc[c] = "deliver" /\ ~HasRoom(target[c])

\* One recipient does not stop the conversations of others, whether it comes
\* back or not: "One relay serves any number of pairings and conversations
\* simultaneously" (docs/deploy.md:124).
SendersKeepGoing == \A c \in Conns : WaitsForAnother(c) ~> ~WaitsForAnother(c)

\* What the relay holds outside of its queues: in the hands of a handler, or
\* on its way through a link that is open.
InTransit(f) ==
  \E c \in Conns :
    \/ f \in InHand(c)
    \/ ~closed[c] /\ f \in Range(backlog[c]) \cup Buffered(c) \cup InWriter(c)

\* As long as nodes dial again, no frame stays there for good, although handlers
\* wait for one another's buffers and a backlog is flushed into a buffer that is
\* shorter: it is delivered, queued, or lost for one of the causes above.
NothingLingers == \A f \in Frames : []<>~InTransit(f)
=============================================================================
