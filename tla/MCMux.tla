------------------------------- MODULE MCMux --------------------------------
(* The multiplexer with its adapter and a few clients, for TLC.            *)
EXTENDS Mux

=============================================================================
