------------------------------- MODULE MCOutbox -------------------------------
(***************************************************************************)
(* The small instances on which TLC checks Outbox.                         *)
(***************************************************************************)
EXTENDS Outbox, TLC

CONSTANTS d1, m1, daemon, mcp

\* d1 sends from the daemon, which Starts its node; m1 from the MCP server,
\* which does not: its deliver always fails with "link not started".
MCHome == d1 :> daemon @@ m1 :> mcp
MCMcpOnly == m1 :> mcp

Symm == Permutations(Peers) \cup Permutations(Threads) \cup Permutations(Envelopes)
=============================================================================
