----------------------------- MODULE MCFraming ------------------------------
(* Streams of a few frames, for TLC.                                       *)
EXTENDS Framing

=============================================================================
