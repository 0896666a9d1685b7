-------------------------- MODULE MCDapConnection ---------------------------
(***************************************************************************)
(* Instances of DapConnection for TLC.                                     *)
(***************************************************************************)
EXTENDS DapConnection

=============================================================================
