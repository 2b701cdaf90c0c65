--------------------------- MODULE MCConversation ---------------------------
(***************************************************************************)
(* Small instances of Conversation.                                        *)
(***************************************************************************)
EXTENDS Conversation

CONSTANTS ann, t1, t2, tool, gateway, reader, listen, flaky

MCPeerOf == [t \in Threads |-> ann]
MCScope == [r \in Readers |-> Threads]
=============================================================================
