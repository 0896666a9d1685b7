---------------------------- MODULE MCLifecycle -----------------------------
(* The program with a few clients, for TLC.                                *)
EXTENDS Lifecycle

=============================================================================
