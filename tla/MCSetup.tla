------------------------------ MODULE MCSetup -------------------------------
(***************************************************************************)
(* Small instances of Setup.                                               *)
(***************************************************************************)
EXTENDS Setup
=============================================================================
