------------------------------- MODULE Lifecycle -------------------------------
(***************************************************************************)
(* Start, Stop and the goroutines of one core/node.Node: the inbound loop  *)
(* with attemptReconnect, the drain loop, and publish to subscribers.      *)
(*                                                                         *)
(* A step is one critical section of n.mu, one look at n.stopCh (a field   *)
(* that the loops read anew each time, without the mutex), one channel     *)
(* operation or one call of the transport.                                 *)
(***************************************************************************)
EXTENDS Naturals

CONSTANTS
  MaxStarts,    \* bound of the model: calls of Start
  Links,        \* bound of the model: link objects, one per successful dial
  Subs,         \* subscriptions
  Publishers,   \* goroutines that call publish: senders, the inbound loop
  None

Starts == 1..MaxStarts

ASSUME LifecycleAssumption ==
  /\ MaxStarts \in Nat \ {0}
  /\ None \notin Links

VARIABLES
  running,   \* n.running
  stopCh,    \* n.stopCh: the number of the Start that has made it, or 0
  stopped,   \* the stop channels that are closed
  link,      \* n.link
  state,     \* per link: "unused", "open", "broken", "closed" (by Close)
  inbound,   \* the inbound loop of each Start: where, its link, a stop channel
  drain,     \* its drain loop: where, and the stop channel it selects on
  subs,      \* per subscription: "off", "on", "removed", "closed"
  todo,      \* the subscriptions a publisher has copied and not sent to
  panicked   \* a goroutine has sent on a closed channel

vars == <<running, stopCh, stopped, link, state, inbound, drain, subs, todo, panicked>>
loops == <<inbound, drain>>
publishing == <<subs, todo, panicked>>

At(where, l, ch) == [pc |-> where, link |-> l, ch |-> ch]

TypeOK ==
  /\ running \in BOOLEAN
  /\ stopCh \in 0..MaxStarts
  /\ stopped \subseteq Starts
  /\ link \in Links \cup {None}
  /\ state \in [Links -> {"unused", "open", "broken", "closed"}]
  /\ inbound \in [Starts -> [pc : {"off", "top", "look", "recv", "failed", "clear",
                                   "redial", "dialing", "install", "backoff", "ended"},
                             link : Links \cup {None}, ch : 0..MaxStarts]]
  /\ \A i \in Starts : inbound[i].pc = "recv" => inbound[i].link \in Links
  /\ drain \in [Starts -> [pc : {"off", "select", "work", "ended"}, ch : 0..MaxStarts]]
  /\ subs \in [Subs -> {"off", "on", "removed", "closed"}]
  /\ todo \in [Publishers -> SUBSET Subs]
  /\ panicked \in BOOLEAN

Init ==
  /\ running = FALSE
  /\ stopCh = 0
  /\ stopped = {}
  /\ link = None
  /\ state = [l \in Links |-> "unused"]
  /\ inbound = [i \in Starts |-> At("off", None, 0)]
  /\ drain = [i \in Starts |-> [pc |-> "off", ch |-> 0]]
  /\ subs = [s \in Subs |-> "off"]
  /\ todo = [j \in Publishers |-> {}]
  /\ panicked = FALSE

-----------------------------------------------------------------------------
(* Start and Stop.                                                         *)

\* Start holds the mutex while it dials; when the dial fails nothing changes.
Start(l) ==
  /\ ~running
  /\ stopCh < MaxStarts
  /\ state[l] = "unused"
  /\ link' = l
  /\ state' = [state EXCEPT ![l] = "open"]
  /\ stopCh' = stopCh + 1
  /\ running' = TRUE
  /\ inbound' = [inbound EXCEPT ![stopCh + 1] = At("top", None, 0)]
  /\ drain' = [drain EXCEPT ![stopCh + 1] = [pc |-> "work", ch |-> 0]]
  /\ UNCHANGED <<stopped, publishing>>

\* The channels that are closed after Stop.  Mutant: Stop forgets its own.
StoppedNow(ch) == stopped
StoppedBy(ch) == stopped \cup {ch}

Stop ==
  /\ running
  /\ running' = FALSE
  /\ stopped' = StoppedBy(stopCh)
  /\ link' = None
  /\ state' = [l \in Links |-> IF l = link THEN "closed" ELSE state[l]]
  /\ UNCHANGED <<stopCh, loops, publishing>>

\* The connection fails.  Bound: not the last one.
Breaks(l) ==
  /\ state[l] = "open"
  /\ \E m \in Links : state[m] = "unused"
  /\ state' = [state EXCEPT ![l] = "broken"]
  /\ UNCHANGED <<running, stopCh, stopped, link, loops, publishing>>

-----------------------------------------------------------------------------
(* inboundLoop and attemptReconnect.                                       *)

IsStopped == stopCh \in stopped

GoesTo(i, where) == inbound' = [inbound EXCEPT ![i] = where]

Top(i) ==
  /\ inbound[i].pc = "top"
  /\ GoesTo(i, At(IF IsStopped THEN "ended" ELSE "look", None, 0))
  /\ UNCHANGED <<running, stopCh, stopped, link, state, drain, publishing>>

\* Where the loop goes with the node's link.
AfterLook == IF link = None THEN At("redial", None, 0) ELSE At("recv", link, 0)

Look(i) ==
  /\ inbound[i].pc = "look"
  /\ GoesTo(i, AfterLook)
  /\ UNCHANGED <<running, stopCh, stopped, link, state, drain, publishing>>

\* A frame is received and handled.  What a closed link has buffered counts.
Recv(i) ==
  /\ inbound[i].pc = "recv"
  /\ GoesTo(i, At("top", None, 0))
  /\ UNCHANGED <<running, stopCh, stopped, link, state, drain, publishing>>

RecvFails(i) ==
  /\ inbound[i].pc = "recv"
  /\ state[inbound[i].link] # "open"
  /\ GoesTo(i, At("failed", inbound[i].link, 0))
  /\ UNCHANGED <<running, stopCh, stopped, link, state, drain, publishing>>

\* Where the loop goes when Recv has failed.  Mutant: it ends.
AfterFailureEnds == "ended"
AfterFailure == IF IsStopped THEN "ended" ELSE "clear"

Failed(i) ==
  /\ inbound[i].pc = "failed"
  /\ GoesTo(i, At(AfterFailure, inbound[i].link, 0))
  /\ UNCHANGED <<running, stopCh, stopped, link, state, drain, publishing>>

\* The node's link after one has failed: forgotten, if it is still that one.
\* Mutant: it is kept.
LinkKept(l) == link
LinkAfter(l) == IF link = l THEN None ELSE link

\* Mutant: it is not closed.
StateLeft(l) == state
StateAfter(l) == [state EXCEPT ![l] = "closed"]

\* The link is forgotten and closed.
Clear(i) ==
  /\ inbound[i].pc = "clear"
  /\ link' = LinkAfter(inbound[i].link)
  /\ state' = StateAfter(inbound[i].link)
  /\ GoesTo(i, At("top", None, 0))
  /\ UNCHANGED <<running, stopCh, stopped, drain, publishing>>

Redial(i) ==
  /\ inbound[i].pc = "redial"
  /\ GoesTo(i, At(IF IsStopped THEN "ended" ELSE "dialing", None, 0))
  /\ UNCHANGED <<running, stopCh, stopped, link, state, drain, publishing>>

\* transport.Connect returns a link, or fails.
Dials(i, l) ==
  /\ inbound[i].pc = "dialing"
  /\ state[l] = "unused"
  /\ state' = [state EXCEPT ![l] = "open"]
  /\ GoesTo(i, At("install", l, 0))
  /\ UNCHANGED <<running, stopCh, stopped, link, drain, publishing>>

DialFails(i) ==
  /\ inbound[i].pc = "dialing"
  /\ GoesTo(i, At("backoff", None, stopCh))
  /\ UNCHANGED <<running, stopCh, stopped, link, state, drain, publishing>>

\* Nobody looks whether the node is still running.
Install(i) ==
  /\ inbound[i].pc = "install"
  /\ link' = inbound[i].link
  /\ GoesTo(i, At("top", None, 0))
  /\ UNCHANGED <<running, stopCh, stopped, state, drain, publishing>>

\* The select of the backoff: the stop channel it has read, or the timer.
Backoff(i) ==
  /\ inbound[i].pc = "backoff"
  /\ \/ /\ inbound[i].ch \in stopped
        /\ GoesTo(i, At("ended", None, 0))
     \/ GoesTo(i, At("redial", None, 0))
  /\ UNCHANGED <<running, stopCh, stopped, link, state, drain, publishing>>

-----------------------------------------------------------------------------
(* drainOutboxLoop.                                                        *)

DrainTicks(i) ==
  /\ drain[i].pc = "select"
  /\ drain' = [drain EXCEPT ![i] = [pc |-> "work", ch |-> 0]]
  /\ UNCHANGED <<running, stopCh, stopped, link, state, inbound, publishing>>

\* The loop begins, or tryDrainOutbox returns: the select reads n.stopCh.
DrainSelects(i) ==
  /\ drain[i].pc = "work"
  /\ drain' = [drain EXCEPT ![i] = [pc |-> "select", ch |-> stopCh]]
  /\ UNCHANGED <<running, stopCh, stopped, link, state, inbound, publishing>>

DrainEnds(i) ==
  /\ drain[i].pc = "select"
  /\ drain[i].ch \in stopped
  /\ drain' = [drain EXCEPT ![i] = [pc |-> "ended", ch |-> 0]]
  /\ UNCHANGED <<running, stopCh, stopped, link, state, inbound, publishing>>

-----------------------------------------------------------------------------
(* Subscribe, cancel and publish.                                          *)

Subscribe(s) ==
  /\ subs[s] = "off"
  /\ subs' = [subs EXCEPT ![s] = "on"]
  /\ UNCHANGED <<running, stopCh, stopped, link, state, loops, todo, panicked>>

\* cancel removes the subscription under the mutex, and then closes it.
CancelRemoves(s) ==
  /\ subs[s] = "on"
  /\ subs' = [subs EXCEPT ![s] = "removed"]
  /\ UNCHANGED <<running, stopCh, stopped, link, state, loops, todo, panicked>>

CancelCloses(s) ==
  /\ subs[s] = "removed"
  /\ subs' = [subs EXCEPT ![s] = "closed"]
  /\ UNCHANGED <<running, stopCh, stopped, link, state, loops, todo, panicked>>

\* publish copies the subscriptions under the mutex and sends afterwards.
Publish(j) ==
  /\ todo[j] = {}
  /\ todo' = [todo EXCEPT ![j] = {s \in Subs : subs[s] = "on"}]
  /\ UNCHANGED <<running, stopCh, stopped, link, state, loops, subs, panicked>>

PublishSends(j, s) ==
  /\ s \in todo[j]
  /\ todo' = [todo EXCEPT ![j] = @ \ {s}]
  /\ panicked' = (subs[s] = "closed")
  /\ UNCHANGED <<running, stopCh, stopped, link, state, loops, subs>>

-----------------------------------------------------------------------------
InboundStep(i) ==
  \/ Top(i) \/ Look(i) \/ Recv(i) \/ RecvFails(i) \/ Failed(i) \/ Clear(i)
  \/ Redial(i) \/ DialFails(i) \/ Install(i) \/ Backoff(i)
  \/ \E l \in Links : Dials(i, l)

DrainStep(i) == DrainTicks(i) \/ DrainSelects(i) \/ DrainEnds(i)

Next ==
  /\ ~panicked
  /\ \/ \E l \in Links : Start(l) \/ Breaks(l)
     \/ Stop
     \/ \E i \in Starts : InboundStep(i) \/ DrainStep(i)
     \/ \E s \in Subs : Subscribe(s) \/ CancelRemoves(s) \/ CancelCloses(s)
     \/ \E j \in Publishers : Publish(j) \/ \E s \in Subs : PublishSends(j, s)

Spec == Init /\ [][Next]_vars

\* The loops go on; when the network is back, a dial succeeds in the end; what
\* a broken link has buffered runs out; a select that finds its stop channel
\* closed again and again takes that branch.
Fairness ==
  \A i \in Starts :
    /\ WF_vars(~panicked /\ InboundStep(i))
    /\ WF_vars(~panicked /\ DrainStep(i))
    /\ SF_vars(~panicked /\ DrainEnds(i))
    /\ SF_vars(~panicked /\ RecvFails(i))
    /\ SF_vars(~panicked /\ \E l \in Links : Dials(i, l))

FairSpec == Spec /\ Fairness

-----------------------------------------------------------------------------
(* Safety.                                                                 *)

\* A running node has an inbound loop, whatever happens to its links: "without
\* it, the very first websocket failure silently bricks the node"
\* (node.go:480-484).
SomebodyReceives ==
  running => \E i \in Starts : inbound[i].pc \notin {"off", "ended"}

\* No link leaks while the node goes through its connections (node.go:467-474,
\* 494-501): one that is not closed is the node's or in a loop's hands.  It
\* holds for a node that is started once.
OpenIsHeld ==
  \A l \in Links :
    state[l] \in {"open", "broken"} =>
      \/ link = l
      \/ \E i \in Starts : inbound[i].link = l /\ inbound[i].pc # "ended"

\* Stop ends the inbound and outbox loops (node.go:203): a loop that was there
\* at a Stop does not go on with what a later Start has set up.
OldLoopsEnd ==
  \A i \in Starts : inbound[i].pc = "recv" /\ inbound[i].link = link => i = stopCh

\* The cancel function removes the subscription (node.go:635-636): nobody
\* sends on its channel afterwards.
NoPanic == ~panicked

-----------------------------------------------------------------------------
(* Liveness.  A process that has panicked is gone.                         *)

Ended(i) == inbound[i].pc \in {"off", "ended"} /\ drain[i].pc \in {"off", "ended"}

HasStopped == stopCh # 0 /\ ~running

\* After a Stop both loops end, wherever they are (node.go:203).
StopEndsLoops == HasStopped ~> running \/ panicked \/ \A i \in Starts : Ended(i)

\* After a Stop every link gets closed (node.go:203): the relay would go on
\* sending frames to one that is open.
StopClosesLinks ==
  HasStopped ~> running \/ panicked \/ \A l \in Links : state[l] \in {"unused", "closed"}

\* A node that runs has a working link again and again, as long as dials
\* succeed: attemptReconnect "keeps a long-running daemon alive" (node.go:482).
StaysConnected == []<>(running => panicked \/ (link # None /\ state[link] = "open"))
=============================================================================
