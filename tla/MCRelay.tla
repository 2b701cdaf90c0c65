------------------------------- MODULE MCRelay -------------------------------
(***************************************************************************)
(* The small instances on which TLC checks Relay.                          *)
(***************************************************************************)
EXTENDS Relay, TLC

CONSTANTS alice, bob, a1, b1, b2

\* Alice has one connection, bob one or two.
MCOfOne == a1 :> alice @@ b1 :> bob
MCOfTwo == MCOfOne @@ b2 :> bob

\* Frames for bob: three, or the buffer's worth more.
MCToBob3 == <<bob, bob, bob>>
MCToBob4 == <<bob, bob, bob, bob>>
=============================================================================
