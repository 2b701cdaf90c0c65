------------------------------- MODULE MCInbound -------------------------------
(***************************************************************************)
(* Small instances of Inbound.                                             *)
(***************************************************************************)
EXTENDS Inbound

CONSTANTS ann, bob, t1, e1, e2, e3, daemon, mcp

\* Two messages of ann in a thread; one of bob that names the same thread.
OneThread    == [e \in Envelopes |-> t1]
AnnAnnBob    == [e \in Envelopes |-> IF e = e3 THEN bob ELSE ann]
AllAnn       == [e \in Envelopes |-> ann]
AskSayAsk    == [e \in Envelopes |-> IF e = e2 THEN "say" ELSE "ask"]
AskSayHandoff ==
  [e \in Envelopes |-> CASE e = e1 -> "ask" [] e = e2 -> "say" [] OTHER -> "handoff"]

AllowAnn == [p \in Peers |-> IF p = ann THEN "allow" ELSE "downgrade"]
Deny     == [p \in Peers |-> "deny"]
=============================================================================
