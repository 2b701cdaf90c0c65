------------------------------ MODULE MCPairing ------------------------------
(***************************************************************************)
(* Small instances of Pairing.                                             *)
(***************************************************************************)
EXTENDS Pairing

CONSTANTS ann, bob, pair, consume, again, code

MCNodeOf == [p \in Parties |-> IF p = pair THEN ann ELSE bob]
MCCodeOf == [p \in Parties |-> code]
ByHub    == [p \in Parties |-> CASE p = pair -> "hub" [] p = consume -> "command"
                                  [] OTHER -> "tool"]
MCKex    == [n \in Nodes |-> IF n = ann THEN 2 ELSE 1]
=============================================================================
