------------------------------- MODULE Notify -------------------------------
(***************************************************************************)
(* The daemon's toasts: which of the peers' envelopes the user is told of  *)
(* (dispatch, called through the surfaces by the node once it has stored   *)
(* an envelope).                                                           *)
(*                                                                         *)
(* A step is one statement or one critical section of d.mu.  The envelopes *)
(* of a peer come one after the other, but an ask is handed to the surface *)
(* on a goroutine of its own.  Time is counted in units of the debounce    *)
(* window, and envelopes are dated by whoever made them.                   *)
(***************************************************************************)
EXTENDS Naturals, FiniteSets

CONSTANTS
  Peers, Threads, PeerOf,  \* whom a thread is with
  Envelopes, Asks,         \* the peers' envelopes, and which of them ask the user
  Own,                     \* this node's envelopes, sent by other processes
  Debounce, Exchange, Collab,  \* the three windows
  MaxTime,                 \* bound on the clock
  Dates,                   \* the dates the peers' envelopes may bear
  Never

\* A row of the table: date and marker are the envelope's own.
Row == [thread : Threads, ms : 0..MaxTime, collab : BOOLEAN]

\* What the constants must be.
ConstantsFit ==
  /\ PeerOf \in [Threads -> Peers]
  /\ Debounce \in Nat \ {0} /\ Exchange \in Nat /\ Collab \in Nat /\ MaxTime \in Nat
  /\ Asks \subseteq Envelopes /\ Dates \subseteq 0..MaxTime
  /\ Envelopes \cap Own = {} /\ Never \notin Nat /\ Never \notin Row

VARIABLES
  now,     \* the daemon's clock
  stored,  \* table envelopes: Never, or its thread, date and marker
  pc,      \* where dispatch is with a peer's envelope; "lost" if not here
  last,    \* d.last
  toasts   \* the toasts: the envelope and the time

vars == <<now, stored, pc, last, toasts>>

Stored == {e \in Envelopes \cup Own : stored[e] # Never}
With(p) == {e \in Stored : PeerOf[stored[e].thread] = p}
Sender(e) == PeerOf[stored[e].thread]

TypeOK ==
  /\ now \in 0..MaxTime
  /\ stored \in [Envelopes \cup Own -> Row \cup {Never}]
  /\ pc \in [Envelopes -> {"new", "outbound", "collab", "claim", "fire", "done", "lost"}]
  /\ last \in [Peers -> 0..MaxTime \cup {Never}]
  /\ toasts \subseteq Envelopes \X (0..MaxTime)

Init ==
  /\ now = 0
  /\ stored = [e \in Envelopes \cup Own |-> Never]
  /\ pc = [e \in Envelopes |-> "new"]
  /\ last = [p \in Peers |-> Never] /\ toasts = {}

Tick ==
  /\ now < MaxTime /\ now' = now + 1
  /\ UNCHANGED <<stored, pc, last, toasts>>

-----------------------------------------------------------------------------
(* The daemon.                                                             *)

\* Mutant: the debounce is claimed before the session is looked at.
ClaimedFirst == <<"claim", "outbound", "collab", "fire">>

\* dispatch: silent mid-session, then the debounce, then the toast.
Order == <<"outbound", "collab", "claim", "fire">>

\* From step to the next, or the end of it.
Goes(e, step, on) ==
  pc' = [pc EXCEPT ![e] =
    IF on /\ step # Order[4] THEN Order[1 + CHOOSE i \in 1..3 : Order[i] = step] ELSE "done"]

\* The inbound loop stores an envelope and calls the surface, which returns
\* before the next envelope of any peer is read; an ask's goroutine is not
\* waited for.
Busy(e) == pc[e] \notin {"new", "done", "lost"} /\ e \notin Asks

Receive(e, t, ms, collab) ==
  /\ pc[e] = "new" /\ \A f \in Envelopes : ~Busy(f)
  /\ stored' = [stored EXCEPT ![e] =
       [thread |-> t, ms |-> ms, collab |-> collab]]
  /\ pc' = [pc EXCEPT ![e] = Order[1]]
  /\ UNCHANGED <<now, last, toasts>>

\* recentOutbound: any thread with the peer, by this node's clock.
RecentOutbound(p) == \E o \in Own \cap With(p) : stored[o].ms + Exchange > now

LookOutbound(e) ==
  /\ pc[e] = "outbound"
  /\ Goes(e, "outbound", ~RecentOutbound(Sender(e)))
  /\ UNCHANGED <<now, stored, last, toasts>>

\* inActiveSession: a marker on the thread, whoever sent it, dated before the
\* envelope, by the clock of its sender.
ActiveCollab(e) ==
  \E f \in Stored :
    /\ stored[f].thread = stored[e].thread /\ stored[f].collab
    /\ stored[f].ms < stored[e].ms /\ stored[f].ms + Collab >= stored[e].ms

LookCollab(e) ==
  /\ pc[e] = "collab"
  /\ Goes(e, "collab", ~ActiveCollab(e))
  /\ UNCHANGED <<now, stored, last, toasts>>

MayClaim(p) == last[p] = Never \/ last[p] + Debounce <= now

\* claimNotify
Claim(e) ==
  /\ pc[e] = "claim"
  /\ LET p == Sender(e) IN
     /\ last' = IF MayClaim(p) THEN [last EXCEPT ![p] = now] ELSE last
     /\ Goes(e, "claim", MayClaim(p))
  /\ UNCHANGED <<now, stored, toasts>>

\* fireNotification
Fire(e) ==
  /\ pc[e] = "fire"
  /\ toasts' = toasts \cup {<<e, now>>}
  /\ Goes(e, "fire", FALSE)
  /\ UNCHANGED <<now, stored, last>>

-----------------------------------------------------------------------------
(* The rest of the machine.                                                *)

\* An MCP server has the link: its surfaces say nothing.
ReceiveElsewhere(e, t, ms, collab) ==
  /\ pc[e] = "new"
  /\ stored' = [stored EXCEPT ![e] =
       [thread |-> t, ms |-> ms, collab |-> collab]]
  /\ pc' = [pc EXCEPT ![e] = "lost"]
  /\ UNCHANGED <<now, last, toasts>>

\* Another process of this node sends: sendAs stores before it sends.
Send(o, t, collab) ==
  /\ stored[o] = Never
  /\ stored' = [stored EXCEPT ![o] =
       [thread |-> t, ms |-> now, collab |-> collab]]
  /\ UNCHANGED <<now, pc, last, toasts>>

\* The daemon is started again: what it was about to tell is forgotten.
Restart ==
  /\ \E e \in Envelopes : pc[e] \in {"outbound", "collab", "claim", "fire"}
  /\ pc' = [e \in Envelopes |-> IF pc[e] \in {"new", "done"} THEN pc[e] ELSE "lost"]
  /\ last' = [p \in Peers |-> Never]
  /\ UNCHANGED <<now, stored, toasts>>

Dispatch(e) == LookOutbound(e) \/ LookCollab(e) \/ Claim(e) \/ Fire(e)

Next ==
  \/ Tick \/ Restart
  \/ \E e \in Envelopes :
       \/ Dispatch(e)
       \/ \E t \in Threads, ms \in Dates, collab \in BOOLEAN :
            Receive(e, t, ms, collab) \/ ReceiveElsewhere(e, t, ms, collab)
  \/ \E o \in Own, t \in Threads, collab \in BOOLEAN : Send(o, t, collab)

Spec == Init /\ [][Next]_vars

-----------------------------------------------------------------------------
(* What must hold.                                                         *)

\* The user is told of an envelope, or has a reason to know of it: the node has
\* written to that peer a moment ago, a live exchange is going on in the thread,
\* or another toast of the peer is on the screen or about to be.  The debounce
\* must not be used up by an envelope that is not told, whatever the order in
\* which two dispatches run, and whenever the daemon starts again.
Told(e) == \E t \in 0..MaxTime : <<e, t>> \in toasts'

Covered(p) ==
  \E f \in Envelopes \cap With(p) :
    pc[f] = "fire" \/ \E t \in 0..MaxTime : <<f, t>> \in toasts /\ t + Debounce > now

SilentForAReason ==
  [][\A e \in Envelopes : pc[e] # "done" /\ pc'[e] = "done" =>
       Told(e) \/ RecentOutbound(Sender(e)) \/ ActiveCollab(e) \/ Covered(Sender(e))]_vars

\* Does not hold (add it to MCDaemon.cfg): one toast of a peer in a window.
OneToastAWindow ==
  \A x, y \in toasts :
    PeerOf[stored[x[1]].thread] = PeerOf[stored[y[1]].thread] /\ x # y =>
      x[2] + Debounce <= y[2] \/ y[2] + Debounce <= x[2]

\* Does not hold (add it to MCDaemon.cfg): the user is told of an ask, or of one before.
AsksAreTold ==
  \A e \in Envelopes : pc[e] = "done" /\ e \in Asks =>
    \E x \in toasts : PeerOf[stored[x[1]].thread] = Sender(e)
=============================================================================
