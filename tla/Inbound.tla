-------------------------------- MODULE Inbound --------------------------------
(***************************************************************************)
(* The inbound half of one ClawdChan node (core/node): the inbound loop    *)
(* and handleInbound with the policy, in one or several processes over one *)
(* database, each with its own buffer of received frames, while the        *)
(* operator pairs, revokes and deletes peers from another process.         *)
(*                                                                         *)
(* Every database statement and every call of a surface is one step.       *)
(***************************************************************************)
EXTENDS Sequences, Functions

CONSTANTS
  Peers, Threads, Envelopes,
  From, ThreadOf, Intent,  \* of an envelope, as its sender has signed it
  Genuine,                 \* the frames that open, decode and verify
  AskPolicy,               \* what the policy says of an ask_human of a peer
  Procs,                   \* processes that hold a link
  Faults,                  \* which of "crash" and "store" may happen
  Operator,                \* which of "revoke", "delete", "open" are issued
  None

Intents == {"say", "notify", "ask", "handoff"}

ASSUME InboundAssumption ==
  /\ From \in [Envelopes -> Peers]
  /\ ThreadOf \in [Envelopes -> Threads]
  /\ Intent \in [Envelopes -> Intents]
  /\ Genuine \subseteq Envelopes
  /\ AskPolicy \in [Peers -> {"allow", "downgrade", "deny"}]
  /\ None \notin Peers \cup Envelopes \cup Intents

VARIABLES
  trust,    \* peers table: [Peers -> "absent", "paired" or "revoked"]
  threads,  \* threads table: the row's peer_id, or None
  log,      \* envelopes table: the row's intent, or None
  linked,   \* the processes whose link is up
  frames,   \* per process, the channel of received frames
  loop,     \* per process, the inbound loop: where, and its envelope
  shown,    \* what the surfaces were called with for an envelope: an intent
  fate      \* of an envelope: "sent", "here", "stored", "deleted"; "dropped" by
            \* handleInbound, "lost" with its process or by a failing statement

vars == <<trust, threads, log, linked, frames, loop, shown, fate>>

Fates == {"sent", "here", "stored", "deleted", "dropped", "lost"}

IdleLoop == [pc |-> "idle", env |-> None]

TypeOK ==
  /\ trust \in [Peers -> {"absent", "paired", "revoked"}]
  /\ threads \in [Threads -> Peers \cup {None}]
  /\ log \in [Envelopes -> Intents \cup {None}]
  /\ linked \subseteq Procs
  /\ frames \in [Procs -> Seq(Envelopes)]
  /\ loop \in [Procs -> [pc : {"idle", "find", "create", "append", "route", "show"},
                         env : Envelopes \cup {None}]]
  /\ shown \in [Envelopes -> Intents \cup {None}]
  /\ fate \in [Envelopes -> Fates]

Init ==
  /\ trust = [p \in Peers |-> "paired"]
  /\ threads = [t \in Threads |-> None]
  /\ log = [e \in Envelopes |-> None]
  /\ linked = {}
  /\ frames = [k \in Procs |-> <<>>]
  /\ loop = [k \in Procs |-> IdleLoop]
  /\ shown = [e \in Envelopes |-> None]
  /\ fate = [e \in Envelopes |-> "sent"]

-----------------------------------------------------------------------------
(* The link.                                                               *)

\* The process connects, for the first time or again.
LinkUp(k) ==
  /\ k \notin linked
  /\ linked' = linked \cup {k}
  /\ UNCHANGED <<trust, threads, log, frames, loop, shown, fate>>

\* What was received before is still handed out by Recv.
LinkDown(k) ==
  /\ k \in linked
  /\ linked' = linked \ {k}
  /\ UNCHANGED <<trust, threads, log, frames, loop, shown, fate>>

\* The relay gives a frame to one link.
Arrive(k, e) ==
  /\ k \in linked
  /\ fate[e] = "sent"
  /\ frames' = [frames EXCEPT ![k] = Append(@, e)]
  /\ fate' = [fate EXCEPT ![e] = "here"]
  /\ UNCHANGED <<trust, threads, log, linked, loop, shown>>

-----------------------------------------------------------------------------
(* handleInbound.                                                          *)

\* handleInbound returns without storing its envelope.
Return(k, end) ==
  /\ loop' = [loop EXCEPT ![k] = IdleLoop]
  /\ fate' = [fate EXCEPT ![loop[k].env] = end]

Drop(k) == Return(k, "dropped")

\* Whom the loop listens to.  Mutant: revocation is not looked at.
KnownToPeers(e) == trust[From[e]] # "absent"
Known(e) == trust[From[e]] = "paired"

\* Recv, and the peer's row: without a row, or when the peer is revoked, the
\* frame is dropped, and so it is if it does not open, decode and verify.
Receive(k) ==
  /\ loop[k].pc = "idle"
  /\ frames[k] # <<>>
  /\ frames' = [frames EXCEPT ![k] = Tail(@)]
  /\ LET e == Head(frames[k])
     IN  IF Known(e) /\ e \in Genuine
           THEN /\ loop' = [loop EXCEPT ![k] = [pc |-> "find", env |-> e]]
                /\ UNCHANGED fate
           ELSE /\ fate' = [fate EXCEPT ![e] = "dropped"]
                /\ UNCHANGED loop
  /\ UNCHANGED <<trust, threads, log, linked, shown>>

\* Evaluate, with the peer's row as it was read: paired.
Decision(e) == IF Intent[e] = "ask" THEN AskPolicy[From[e]] ELSE "allow"

\* The intent that is stored and routed.
IntentKept(e) == IF Decision(e) = "downgrade" THEN "notify" ELSE Intent[e]

\* What follows when the thread is known to be owner's: the thread must be the
\* sender's own, and the policy must not deny.  Mutants: any thread
\* will do; what is downgraded is dropped.
MayAppendAnywhere(e, owner) == Decision(e) # "deny"
MayAppendAllowed(e, owner) == owner = From[e] /\ Decision(e) = "allow"
MayAppend(e, owner) == owner = From[e] /\ Decision(e) # "deny"

Decides(k, owner) ==
  IF MayAppend(loop[k].env, owner)
    THEN /\ loop' = [loop EXCEPT ![k].pc = "append"]
         /\ UNCHANGED fate
    ELSE Drop(k)

FindThread(k) ==
  /\ loop[k].pc = "find"
  /\ LET owner == threads[ThreadOf[loop[k].env]]
     IN  IF owner = None
           THEN /\ loop' = [loop EXCEPT ![k].pc = "create"]
                /\ UNCHANGED fate
           ELSE Decides(k, owner)
  /\ UNCHANGED <<trust, threads, log, linked, frames, shown>>

\* A plain INSERT: a row that has appeared meanwhile makes it fail, and the
\* envelope is dropped.
CreateThread(k) ==
  /\ loop[k].pc = "create"
  /\ LET e == loop[k].env
     IN  IF threads[ThreadOf[e]] = None
           THEN /\ threads' = [threads EXCEPT ![ThreadOf[e]] = From[e]]
                /\ Decides(k, From[e])
           ELSE /\ Drop(k)
                /\ UNCHANGED threads
  /\ UNCHANGED <<trust, log, linked, frames, shown>>

AppendEnvelope(k) ==
  /\ loop[k].pc = "append"
  /\ LET e == loop[k].env
     IN  /\ log' = [log EXCEPT ![e] = IntentKept(e)]
         /\ fate' = [fate EXCEPT ![e] = "stored"]
  /\ loop' = [loop EXCEPT ![k].pc = "route"]
  /\ UNCHANGED <<trust, threads, linked, frames, shown>>

\* A statement fails: handleInbound returns, but a thread that cannot be read
\* counts as one that is not there.
StatementFails(k) ==
  /\ "store" \in Faults
  /\ \/ /\ loop[k].pc = "find"
        /\ loop' = [loop EXCEPT ![k].pc = "create"]
        /\ UNCHANGED fate
     \/ /\ loop[k].pc \in {"create", "append"}
        /\ Return(k, "lost")
  /\ UNCHANGED <<trust, threads, log, linked, frames, shown>>

\* route: Ask runs in a goroutine of its own, the other calls on the loop.
\* Mutant: Ask too.
AfterRouteInline(e) == "show"
AfterRoute(e) == IF IntentKept(e) = "ask" THEN "idle" ELSE "show"

\* What a surface is called with.  Mutant: the intent that was sent.
ShownIntentSent(e) == Intent[e]
ShownIntent(e) == IntentKept(e)

Route(k) ==
  /\ loop[k].pc = "route"
  /\ LET e == loop[k].env
     IN  /\ shown' = [shown EXCEPT ![e] = ShownIntent(e)]
         /\ loop' = [loop EXCEPT ![k] = IF AfterRoute(e) = "idle" THEN IdleLoop
                                        ELSE [pc |-> "show", env |-> e]]
  /\ UNCHANGED <<trust, threads, log, linked, frames, fate>>

\* Notify, PresentThread and OnMessage return.  Ask waits for the human.
ShowEnds(k) ==
  /\ loop[k].pc = "show"
  /\ shown[loop[k].env] # "ask"
  /\ loop' = [loop EXCEPT ![k] = IdleLoop]
  /\ UNCHANGED <<trust, threads, log, linked, frames, shown, fate>>

-----------------------------------------------------------------------------
(* The process, and other processes.                                       *)

\* What the process has received and not stored.
InProcess(k) ==
  Range(frames[k]) \cup
  (IF loop[k].pc \in {"find", "create", "append"} THEN {loop[k].env} ELSE {})

\* It dies, or is stopped: Stop ends the loop before its next frame.
Crash(k) ==
  /\ "crash" \in Faults
  /\ linked' = linked \ {k}
  /\ fate' = [e \in Envelopes |-> IF e \in InProcess(k) THEN "lost" ELSE fate[e]]
  /\ frames' = [frames EXCEPT ![k] = <<>>]
  /\ loop' = [loop EXCEPT ![k] = IdleLoop]
  /\ UNCHANGED <<trust, threads, log, shown>>

\* OpenThread of this node: the peer may answer in the thread.
OpenThread(t, p) ==
  /\ "open" \in Operator
  /\ trust[p] # "absent"
  /\ threads[t] = None
  /\ \A e \in Envelopes : ThreadOf[e] = t => fate[e] = "sent"
  /\ threads' = [threads EXCEPT ![t] = p]
  /\ UNCHANGED <<trust, log, linked, frames, loop, shown, fate>>

RevokePeer(p) ==
  /\ "revoke" \in Operator
  /\ trust[p] = "paired"
  /\ trust' = [trust EXCEPT ![p] = "revoked"]
  /\ UNCHANGED <<threads, log, linked, frames, loop, shown, fate>>

\* One transaction: the peer's threads, the envelopes in them, and its row.
DeletePeer(p) ==
  /\ "delete" \in Operator
  /\ trust[p] # "absent"
  /\ LET gone == {e \in Envelopes : threads[ThreadOf[e]] = p}
     IN  /\ log' = [e \in Envelopes |-> IF e \in gone THEN None ELSE log[e]]
         /\ fate' = [e \in Envelopes |-> IF e \in gone /\ log[e] # None THEN "deleted"
                                         ELSE fate[e]]
  /\ threads' = [t \in Threads |-> IF threads[t] = p THEN None ELSE threads[t]]
  /\ trust' = [trust EXCEPT ![p] = "absent"]
  /\ UNCHANGED <<linked, frames, loop, shown>>

-----------------------------------------------------------------------------
LoopStep(k) ==
  \/ Receive(k) \/ FindThread(k) \/ CreateThread(k) \/ AppendEnvelope(k)
  \/ Route(k) \/ ShowEnds(k)

Next ==
  \/ \E k \in Procs :
       \/ LoopStep(k) \/ StatementFails(k)
       \/ LinkUp(k) \/ LinkDown(k) \/ Crash(k)
       \/ \E e \in Envelopes : Arrive(k, e)
  \/ \E p \in Peers : \/ RevokePeer(p) \/ DeletePeer(p)
                      \/ \E t \in Threads : OpenThread(t, p)

Spec == Init /\ [][Next]_vars

\* The loop goes on, and the surfaces return, but a human need never answer.
Fairness == \A k \in Procs : WF_vars(LoopStep(k))

FairSpec == Spec /\ Fairness

-----------------------------------------------------------------------------
(* Safety.                                                                 *)

\* What is stored lies in a thread of its sender, whatever races creating the
\* thread (node.go:543-554), unless the sender has been deleted: a deletion takes
\* the thread away from a loop that is about to append.
Owns(p, t) == threads[t] = p \/ trust[p] = "absent"

InOwnThread ==
  \A e \in Envelopes : log[e] # None => Owns(From[e], ThreadOf[e])

\* The surfaces are called with what the log says, and only after it says it:
\* a host that reads the log when it is called finds the envelope, as the
\* policy has changed it (node.go:559-568).
ShownIsStored ==
  \A e \in Envelopes :
    shown[e] # None => log[e] = shown[e] \/ fate[e] = "deleted"

\* There are two ways for handleInbound to drop a valid envelope of a paired peer
\* that the policy lets pass: its thread is somebody else's (node.go:552-554), or it
\* was not found and has a row when it is created (node.go:543-550).
\* "History is persisted per side" (docs/design.md:45).
KeptUnlessRefused ==
  [][\A e \in Genuine :
       /\ fate[e] # "dropped" /\ fate'[e] = "dropped"
       /\ trust[From[e]] = "paired"
       /\ Decision(e) # "deny"
       => \/ threads[ThreadOf[e]] \notin {None, From[e]}
          \/ \E k \in Procs : /\ loop[k] = [pc |-> "create", env |-> e]
                              /\ threads[ThreadOf[e]] # None]_vars

\* What comes from a peer that was revoked before it arrived is never stored,
\* even if it names a thread of better days (node.go:522-524, 280-281).
RevokedIsDropped ==
  \A e \in Envelopes :
    [](fate[e] = "sent" /\ trust[From[e]] = "revoked" => [](log[e] = None))

\* Two envelopes that open one thread are both kept, whichever process is first to
\* create it ("creator opens", node.go:541-542).
RaceLosesNothing ==
  [][\A e \in Envelopes :
       /\ fate[e] # "dropped" /\ fate'[e] = "dropped"
       /\ trust[From[e]] = "paired" /\ Decision(e) # "deny"
       => threads[ThreadOf[e]] # From[e]]_vars

\* A denied envelope has no side effects (core/policy/policy.go:20): a thread
\* exists only if this node has opened it, or for an envelope that was not denied.
DenyLeavesNothing ==
  \A t \in Threads :
    threads[t] # None /\ Operator = {} =>
      \E e \in Envelopes : ThreadOf[e] = t /\ fate[e] # "sent" /\ Decision(e) # "deny"

\* The log holds the "full envelope, verified signature" (docs/design.md:307):
\* what its sender has signed.
StoredAsSigned == \A e \in Envelopes : log[e] # None => log[e] = Intent[e]

\* DeletePeer is a full forget (core/store/store.go:36): when a peer is gone
\* and no loop is busy, no thread and no envelope of it is left.
ForgetIsFull ==
  \A p \in Peers :
    trust[p] = "absent" /\ (\A k \in Procs : loop[k] = IdleLoop) =>
      /\ \A t \in Threads : threads[t] # p
      /\ \A e \in Envelopes : From[e] = p => log[e] = None

-----------------------------------------------------------------------------
(* Liveness.                                                               *)

\* Whatever has arrived is stored or dropped in the end, even if a human who
\* was asked never answers (node.go:577-578).
HandledInTheEnd == \A e \in Envelopes : fate[e] = "here" ~> fate[e] # "here"
=============================================================================
