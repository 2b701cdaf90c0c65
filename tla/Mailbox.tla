------------------------------- MODULE Mailbox -------------------------------
(***************************************************************************)
(* What a node promises the callers of Send, whatever the link, the        *)
(* database and the process do: an accepted envelope is held, then handed  *)
(* to the relay link at most once, for the peer it was addressed to, or it *)
(* is dropped for good.  It never comes back from either end.              *)
(*                                                                         *)
(* The node's threads, tables, link and background loops are not visible   *)
(* here; module Outbox has them and is shown to implement this module.     *)
(***************************************************************************)
EXTENDS Sequences, Functions

CONSTANTS Peers, Envelopes, None

VARIABLES
  dest,     \* the peer an envelope was accepted for, None before that
  status,   \* "new", "held", "handed" or "dropped"
  handed    \* per peer, the envelopes the link accepted, in order

mailVars == <<dest, status, handed>>

Statuses == {"new", "held", "handed", "dropped"}

MailTypeOK ==
  /\ dest \in [Envelopes -> Peers \cup {None}]
  /\ status \in [Envelopes -> Statuses]
  /\ handed \in [Peers -> Seq(Envelopes)]

MailInit ==
  /\ dest = [e \in Envelopes |-> None]
  /\ status = [e \in Envelopes |-> "new"]
  /\ handed = [p \in Peers |-> <<>>]

\* A caller's envelope is accepted for peer p.
Submit(e, p) ==
  /\ status[e] = "new"
  /\ status' = [status EXCEPT ![e] = "held"]
  /\ dest' = [dest EXCEPT ![e] = p]
  /\ UNCHANGED handed

\* The link accepts a held envelope, on its addressee's channel.
Hand(e, p) ==
  /\ status[e] = "held"
  /\ dest[e] = p
  /\ status' = [status EXCEPT ![e] = "handed"]
  /\ handed' = [handed EXCEPT ![p] = Append(@, e)]
  /\ UNCHANGED dest

\* A set of held envelopes is given up, all at once.
Drop(S) ==
  /\ \A e \in S : status[e] = "held"
  /\ status' = [e \in Envelopes |-> IF e \in S THEN "dropped" ELSE status[e]]
  /\ UNCHANGED <<dest, handed>>

MailNext ==
  \/ \E e \in Envelopes, p \in Peers : Submit(e, p) \/ Hand(e, p)
  \/ \E S \in SUBSET Envelopes : Drop(S)

MailSpec == MailInit /\ [][MailNext]_mailVars
=============================================================================
