------------------------------- MODULE MCBridge -------------------------------
(***************************************************************************)
(* Small instances of Bridge.                                              *)
(***************************************************************************)
EXTENDS Bridge, TLC

CONSTANTS call, hub, peer, c1, c2

\* A connection is as good as another; used where no liveness is checked.
Symmetry == Permutations({c1, c2})
=============================================================================
