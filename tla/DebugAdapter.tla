---------------------------- MODULE DebugAdapter ----------------------------
(***************************************************************************)
(* The debug adapter upstream of the multiplexer.  It is not part of       *)
(* dap_mux: the model is what mux.py and tests/conftest.py (FakeAdapter)   *)
(* rely on.  Requests reach it in the order the upstream queue holds them. *)
(* It answers them in any order, may repeat an answer, emits events and    *)
(* reverse requests of its own, and its connection may be lost for good.   *)
(***************************************************************************)
EXTENDS Compat, Naturals

CONSTANTS
  Clients,            \* client identifiers
  MaxRequests,        \* bound on the requests one client sends
  Events,             \* the events the adapter may emit
  ReverseRequests,    \* the commands it may ask of the clients
  MaxEmitted,         \* bound on the events and reverse requests together
  MayFail,            \* the commands it may answer with success = false
  AnnouncesContinued  \* does it emit continued after a continue request?

ASSUME AdapterAssumption ==
  /\ MaxRequests \in Nat
  /\ MaxEmitted \in Nat
  /\ AnnouncesContinued \in BOOLEAN

Commands == {"initialize", "attach", "launch", "configurationDone", "disconnect",
             "terminate", "restart", "continue", "threads"}

VARIABLES
  upstream,  \* the requests the multiplexer queued for it, oldest first
  answers,   \* proxy number -> success, for the requests it has answered
  session,   \* the debug session as the adapter knows it
  emitted,   \* the events and reverse requests it has sent, oldest first
  adapterUp  \* is the connection still there?

adapterVars == <<upstream, answers, session, emitted, adapterUp>>

\* client and clientSeq stand for the content of the request, which the
\* adapter's answer is about; the message itself carries only seq.
Forwarded == [type : {"request"}, seq : Nat, command : Commands,
              client : Clients, clientSeq : 1..MaxRequests]

Emission == [type : {"event"}, name : Events, n : Nat] \cup
            [type : {"request"}, name : ReverseRequests, n : Nat]

Sessions == {"idle", "ready", "running", "stopped", "ended"}

AdapterTypeOK ==
  /\ upstream \in Seq(Forwarded)
  /\ answers = [s \in DOMAIN answers |-> answers[s]]
  /\ \A s \in DOMAIN answers : answers[s] \in BOOLEAN
  /\ session \in Sessions
  /\ emitted \in Seq(Emission)
  /\ adapterUp \in BOOLEAN

AdapterInit ==
  /\ upstream = <<>>
  /\ answers = [s \in {} |-> TRUE]
  /\ session = "idle"
  /\ emitted = <<>>
  /\ adapterUp = TRUE

-----------------------------------------------------------------------------

Outcomes(command) == IF command \in MayFail THEN BOOLEAN ELSE {TRUE}

\* What answering a request with success does to the session.  An adapter that
\* does not announce it has resumed does so by answering continue.
SessionAfter(command) ==
  CASE command = "initialize" /\ session = "idle" -> "ready"
    [] command = "configurationDone" /\ session = "ready" -> "running"
    [] command = "continue" /\ session = "stopped" /\ ~AnnouncesContinued -> "running"
    [] OTHER -> session

\* The adapter answers the request r, or repeats the answer it gave.
Answer(r, ok) ==
  /\ adapterUp
  /\ IF r.seq \in DOMAIN answers
     THEN ok = answers[r.seq] /\ UNCHANGED <<answers, session>>
     ELSE /\ ok \in Outcomes(r.command)
          /\ answers' = [s \in DOMAIN answers \cup {r.seq} |->
                           IF s = r.seq THEN ok ELSE answers[s]]
          /\ session' = IF ok THEN SessionAfter(r.command) ELSE session
  /\ UNCHANGED <<upstream, emitted, adapterUp>>

\* When the session lets the adapter emit an event, and what it is afterwards.
EventAllowed(event) ==
  CASE event = "initialized" -> session = "ready" /\ \A i \in DOMAIN emitted : emitted[i].name # event
    [] event = "stopped" -> session \in {"running", "stopped"}
    [] event = "continued" -> session = "stopped"
    [] event = "terminated" -> session \in {"running", "stopped"}
    [] OTHER -> TRUE

SessionAfterEvent(event) ==
  CASE event = "stopped" -> "stopped"
    [] event = "continued" -> "running"
    [] event = "terminated" -> "ended"
    [] OTHER -> session

NextEmission(type, name) == [type |-> type, name |-> name, n |-> Len(emitted) + 1]

Emit(message) ==
  /\ adapterUp
  /\ Len(emitted) < MaxEmitted
  /\ emitted' = Append(emitted, message)
  /\ UNCHANGED <<upstream, answers, adapterUp>>

EmitEvent(event) ==
  /\ EventAllowed(event)
  /\ Emit(NextEmission("event", event))
  /\ session' = SessionAfterEvent(event)

EmitReverseRequest(command) ==
  /\ session \in {"ready", "running", "stopped"}
  /\ Emit(NextEmission("request", command))
  /\ UNCHANGED session

\* The adapter exits or its connection breaks; upstream.py only logs it.
Lose ==
  /\ adapterUp
  /\ adapterUp' = FALSE
  /\ UNCHANGED <<upstream, answers, session, emitted>>

=============================================================================
