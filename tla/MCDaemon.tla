------------------------------ MODULE MCDaemon ------------------------------
(***************************************************************************)
(* Small instances of Daemon, and of its two halves.                       *)
(***************************************************************************)
EXTENDS Daemon

CONSTANTS ann, t1, t2, m1, m2, e1, e2, own

MCPeerOf == [t \in Threads |-> ann]
=============================================================================
