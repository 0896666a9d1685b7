------------------------------- MODULE Router -------------------------------
(***************************************************************************)
(* What the multiplexer promises to clients about their requests, without  *)
(* the adapter, the sequence map and the buffer behind it: a client that   *)
(* is there gets each of its requests answered at most once, whoever else  *)
(* asks or leaves at the same time.  Mux implements this specification.    *)
(***************************************************************************)
EXTENDS Naturals

CONSTANTS
  Clients,  \* client identifiers
  Numbers   \* the numbers that clients give their requests

VARIABLES
  status,   \* of each client
  asked,    \* how many requests each client has sent
  answers   \* how many answers there are to each request of each client

routerVars == <<status, asked, answers>>

RouterInit ==
  /\ status = [c \in Clients |-> "new"]
  /\ asked = [c \in Clients |-> 0]
  /\ answers = [c \in Clients |-> [n \in Numbers |-> 0]]

Join(c) ==
  /\ status[c] = "new"
  /\ status' = [status EXCEPT ![c] = "registered"]
  /\ UNCHANGED <<asked, answers>>

\* What was sent to the client is gone with it.
Leave(c) ==
  /\ status[c] = "registered"
  /\ status' = [status EXCEPT ![c] = "gone"]
  /\ answers' = [answers EXCEPT ![c] = [n \in Numbers |-> 0]]
  /\ UNCHANGED asked

\* A request is answered on the spot, or later.
Ask(c) ==
  /\ status[c] = "registered"
  /\ asked[c] + 1 \in Numbers
  /\ asked' = [asked EXCEPT ![c] = @ + 1]
  /\ \/ UNCHANGED answers
     \/ answers' = [answers EXCEPT ![c][asked[c] + 1] = 1]
  /\ UNCHANGED status

\* The requests of clients that are there and have no answer yet.
Open ==
  {q \in Clients \X Numbers :
     /\ status[q[1]] = "registered"
     /\ q[2] \in 1..asked[q[1]]
     /\ answers[q[1]][q[2]] = 0}

\* Some of them are answered together.
Reply ==
  /\ \E replies \in SUBSET Open :
       answers' = [c \in Clients |-> [n \in Numbers |->
                     IF <<c, n>> \in replies THEN 1 ELSE answers[c][n]]]
  /\ UNCHANGED <<status, asked>>

RouterNext == (\E c \in Clients : Join(c) \/ Leave(c) \/ Ask(c)) \/ Reply

RouterSpec == RouterInit /\ [][RouterNext]_routerVars

=============================================================================
