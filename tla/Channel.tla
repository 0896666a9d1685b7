------------------------------ MODULE Channel -------------------------------
(***************************************************************************)
(* What Mux and DapConnection take for granted of a connection: a queue of *)
(* whole messages, taken out one by one in the order in which they were    *)
(* put in.  The reader stops at the end, or at what it cannot read.        *)
(* Framing implements this specification over bytes.                       *)
(***************************************************************************)
EXTENDS Naturals, Sequences

VARIABLES
  sent,       \* the messages that arrive as a whole
  delivered,  \* those that were passed on
  status      \* of the reader: "open", "closed" or "failed"

channelVars == <<sent, delivered, status>>

ChannelInit ==
  /\ delivered = <<>>
  /\ status = "open"

Deliver ==
  /\ status = "open"
  /\ Len(delivered) < Len(sent)
  /\ delivered' = Append(delivered, sent[Len(delivered) + 1])
  /\ UNCHANGED <<sent, status>>

\* Only a reader that has delivered everything takes the end for the end.
Close ==
  /\ status = "open"
  /\ delivered = sent
  /\ status' = "closed"
  /\ UNCHANGED <<sent, delivered>>

Fail ==
  /\ status = "open"
  /\ status' = "failed"
  /\ UNCHANGED <<sent, delivered>>

ChannelNext == Deliver \/ Close \/ Fail

ChannelSpec == ChannelInit /\ [][ChannelNext]_channelVars

=============================================================================
