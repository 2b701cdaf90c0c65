------------------------------ MODULE MCLifecycle ------------------------------
(***************************************************************************)
(* Small instances of Lifecycle.                                           *)
(***************************************************************************)
EXTENDS Lifecycle

CONSTANTS l1, l2, l3, sub, sender, loop
=============================================================================
