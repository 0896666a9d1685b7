-------------------------------- MODULE Mux --------------------------------
(***************************************************************************)
(* The multiplexer of dap_mux/mux.py: one debug adapter, many clients.     *)
(*                                                                         *)
(* Every handler runs to its end once it has started: it awaits nothing    *)
(* but put() on unbounded queues, which never suspends.  A handler is      *)
(* therefore one action.  A message's way over a socket is not a step of   *)
(* its own: the channels are FIFO and a party may send later what it could *)
(* send before, so an action is the sending of a message together with the *)
(* multiplexer's handling of it.                                           *)
(***************************************************************************)
EXTENDS DebugAdapter

CONSTANTS
  Requests, \* the commands clients send
  OptIn,    \* the clients that declare supportsRunInTerminalRequest
  Orderly   \* do clients wait for the answer to initialize before going on?

ASSUME MuxAssumption ==
  /\ Requests \subseteq Commands
  /\ OptIn \subseteq Clients
  /\ Orderly \in BOOLEAN

\* SessionPhase
PRE_INIT     == 0
INITIALIZING == 1
INITIALIZED  == 2
CONFIGURED   == 3

NoEvent == [type |-> "none"]

VARIABLES
  phase,             \* _phase
  connection,        \* _clients: which clients are registered
  outbox,            \* client.py _send_queue: all it was ever given, in order
  initOrder,         \* the keys of _client_init_args, in insertion order
  pendingInitialize, \* _pending_initialize
  capabilities,      \* _cached_capabilities: are they there?
  initializedEvent,  \* _initialized_event
  lastStoppedEvent,  \* _last_stopped_event
  nextSeq, pending,  \* _seq_map
  sent,              \* the commands each client has sent; the n-th has seq n
  joinedAt,          \* how many emissions preceded a client's connection
  replied            \* the reverse requests a client has answered

seqMap == <<nextSeq, pending>>
sessionCache == <<capabilities, initializedEvent, lastStoppedEvent>>
handshake == <<phase, pendingInitialize, initOrder>>
clientVars == <<connection, sent, joinedAt, replied>>
vars == <<seqMap, sessionCache, handshake, clientVars, outbox, adapterVars>>

Seqs == INSTANCE SeqMap WITH ClientSeqs <- 1..MaxRequests

\* answers names the request the body of the response is about, as <<client,
\* its number>>; the message itself carries request_seq (seq) and command.
\* caps: does the body carry the adapter's capabilities?
Response(c, n, command, success, caps, about) ==
  [type |-> "response", seq |-> n, command |-> command, success |-> success,
   caps |-> caps, answers |-> about]

Responses == [type : {"response"}, seq : Nat, command : Commands, success : BOOLEAN,
              caps : BOOLEAN, answers : Clients \X Nat]

BufferedRequests == [client : Clients, seq : 1..MaxRequests]

Messages == Responses \cup Emission

MuxTypeOK ==
  /\ phase \in {PRE_INIT, INITIALIZING, INITIALIZED, CONFIGURED}
  /\ connection \in [Clients -> {"new", "registered", "gone"}]
  /\ outbox \in [Clients -> Seq(Messages)]
  /\ initOrder \in Seq(Clients)
  /\ pendingInitialize \in Seq(BufferedRequests)
  /\ capabilities \in BOOLEAN
  /\ initializedEvent \in Emission \cup {NoEvent}
  /\ lastStoppedEvent \in Emission \cup {NoEvent}
  /\ sent \in [Clients -> Seq(Commands)]
  /\ joinedAt \in [Clients -> Nat]
  /\ replied \subseteq Nat

TypeOK == MuxTypeOK /\ AdapterTypeOK /\ Seqs!SeqMapTypeOK

Init ==
  /\ AdapterInit
  /\ Seqs!SeqMapInit
  /\ phase = PRE_INIT
  /\ connection = [c \in Clients |-> "new"]
  /\ outbox = [c \in Clients |-> <<>>]
  /\ initOrder = <<>>
  /\ pendingInitialize = <<>>
  /\ capabilities = FALSE
  /\ initializedEvent = NoEvent
  /\ lastStoppedEvent = NoEvent
  /\ sent = [c \in Clients |-> <<>>]
  /\ joinedAt = [c \in Clients |-> 0]
  /\ replied = {}

-----------------------------------------------------------------------------
(* Clients.                                                                *)

Registered(c) == connection[c] = "registered"

\* The number client c puts on its next request.
Number(c) == Len(sent[c]) + 1

\* client.send: the message goes to the end of the client's queue.
Enqueue(c, messages) == outbox' = [outbox EXCEPT ![c] = @ \o messages]

\* Was the initialize of client c answered with success?
IsInitialized(c) ==
  \E i \in DOMAIN outbox[c] : /\ outbox[c][i].type = "response"
                              /\ outbox[c][i].command = "initialize"
                              /\ outbox[c][i].success

\* The positions of the responses to request n in the queue of client c.
ResponsesTo(c, n) ==
  {i \in DOMAIN outbox[c] : outbox[c][i].type = "response" /\ outbox[c][i].seq = n}

\* A client does not send initialize while one of its own is unanswered.  An
\* orderly client sends nothing else before one was answered with success.
MaySend(c, command) ==
  IF command = "initialize"
  THEN \A n \in DOMAIN sent[c] : sent[c][n] = "initialize" => ResponsesTo(c, n) # {}
  ELSE Orderly => IsInitialized(c)

Send(c, command) ==
  /\ Registered(c)
  /\ command \in Requests
  /\ Len(sent[c]) < MaxRequests
  /\ MaySend(c, command)
  /\ sent' = [sent EXCEPT ![c] = Append(@, command)]
  /\ UNCHANGED <<connection, joinedAt, replied>>

\* _accept_client
Accept(c) ==
  /\ connection[c] = "new"
  /\ connection' = [connection EXCEPT ![c] = "registered"]
  /\ joinedAt' = [joinedAt EXCEPT ![c] = Len(emitted)]
  /\ UNCHANGED <<seqMap, sessionCache, handshake, sent, replied, outbox, adapterVars>>

\* The keys without that of client c; a dictionary has each key once.
WithoutKey(keys, c) ==
  IF c \in Range(keys) THEN RemoveAt(keys, CHOOSE i \in DOMAIN keys : keys[i] = c) ELSE keys

\* Variant for mutation: the sequence map is not cleaned up.
DisconnectKeepsPending(c) ==
  /\ Registered(c)
  /\ initOrder' = WithoutKey(initOrder, c)
  /\ connection' = [connection EXCEPT ![c] = "gone"]
  /\ outbox' = [outbox EXCEPT ![c] = <<>>]
  /\ UNCHANGED <<seqMap, sessionCache, phase, pendingInitialize, sent, joinedAt, replied,
                 adapterVars>>

\* _handle_client_disconnect, up to its first suspension; the queue is dropped
\* with the connection.  A buffered initialize stays in pendingInitialize.
Disconnect(c) ==
  /\ Registered(c)
  /\ Seqs!Cleanup(c)
  /\ initOrder' = WithoutKey(initOrder, c)
  /\ connection' = [connection EXCEPT ![c] = "gone"]
  /\ outbox' = [outbox EXCEPT ![c] = <<>>]
  /\ UNCHANGED <<sessionCache, phase, pendingInitialize, sent, joinedAt, replied, adapterVars>>

-----------------------------------------------------------------------------
(* _handle_client_message: a request of a client.                          *)

\* A new key goes to the end, an old one keeps its place.
CacheInitArgs(c) ==
  initOrder' = IF c \in Range(initOrder) THEN initOrder ELSE Append(initOrder, c)

\* Variant for mutation: the client's own number goes upstream.
ForwardUnrewritten(c, command) ==
  /\ Seqs!Allocate(c, Number(c))
  /\ upstream' = Append(upstream, [type |-> "request", seq |-> Number(c), command |-> command,
                                   client |-> c, clientSeq |-> Number(c)])
  /\ UNCHANGED <<answers, session, emitted, adapterUp>>

Forward(c, command) ==
  /\ Seqs!Allocate(c, Number(c))
  /\ upstream' = Append(upstream, [type |-> "request", seq |-> nextSeq, command |-> command,
                                   client |-> c, clientSeq |-> Number(c)])
  /\ UNCHANGED <<answers, session, emitted, adapterUp>>

\* _respond_synthetic_success
RespondSynthetic(c, command) ==
  /\ Enqueue(c, <<Response(c, Number(c), command, TRUE, FALSE, <<c, Number(c)>>)>>)
  /\ UNCHANGED <<seqMap, adapterVars>>

\* Variant for mutation: the cache is sent without looking whether it is filled.
ReplayAlways(event) == <<event>>

Replay(event) == IF event = NoEvent THEN <<>> ELSE <<event>>

\* Variant for mutation: initialized is not replayed.
CachedInitializeWithoutEvent(c, n, caps) ==
  <<Response(c, n, "initialize", TRUE, caps, <<c, n>>)>> \o Replay(lastStoppedEvent)

\* _respond_with_cached_initialize: what it queues for request n of client c.
CachedInitialize(c, n, caps) ==
  <<Response(c, n, "initialize", TRUE, caps, <<c, n>>)>>
    \o Replay(initializedEvent) \o Replay(lastStoppedEvent)

\* Late join: the session is initialized, the multiplexer answers.
InitializeFromCache(c) ==
  /\ Send(c, "initialize")
  /\ phase >= INITIALIZED
  /\ CacheInitArgs(c)
  /\ Enqueue(c, CachedInitialize(c, Number(c), capabilities))
  /\ UNCHANGED <<seqMap, sessionCache, phase, pendingInitialize, adapterVars>>

\* In-flight guard: another client's initialize has not been answered yet.
InitializeBuffered(c) ==
  /\ Send(c, "initialize")
  /\ phase = INITIALIZING
  /\ CacheInitArgs(c)
  /\ pendingInitialize' = Append(pendingInitialize, [client |-> c, seq |-> Number(c)])
  /\ UNCHANGED <<seqMap, sessionCache, phase, outbox, adapterVars>>

InitializeForwarded(c) ==
  /\ Send(c, "initialize")
  /\ phase = PRE_INIT
  /\ CacheInitArgs(c)
  /\ phase' = INITIALIZING
  /\ Forward(c, "initialize")
  /\ UNCHANGED <<sessionCache, pendingInitialize, outbox>>

\* attach, launch and configurationDone once the session is configured, and
\* the commands that would end the session for everyone, at any time.
Intercepted(command) ==
  \/ command \in {"attach", "launch", "configurationDone"} /\ phase = CONFIGURED
  \/ command \in {"disconnect", "terminate", "restart"}

RequestIntercepted(c, command) ==
  /\ Send(c, command)
  /\ Intercepted(command)
  /\ RespondSynthetic(c, command)
  /\ UNCHANGED <<sessionCache, handshake>>

\* Variant for mutation: the session is not marked configured before forwarding.
ConfigurationDoneUnmarked(c) ==
  /\ Send(c, "configurationDone")
  /\ ~Intercepted("configurationDone")
  /\ Forward(c, "configurationDone")
  /\ UNCHANGED <<sessionCache, handshake, outbox>>

ConfigurationDoneForwarded(c) ==
  /\ Send(c, "configurationDone")
  /\ ~Intercepted("configurationDone")
  /\ phase' = CONFIGURED
  /\ Forward(c, "configurationDone")
  /\ UNCHANGED <<sessionCache, pendingInitialize, initOrder, outbox>>

RequestForwarded(c, command) ==
  /\ command \notin {"initialize", "configurationDone"}
  /\ Send(c, command)
  /\ ~Intercepted(command)
  /\ Forward(c, command)
  /\ UNCHANGED <<sessionCache, handshake, outbox>>

\* A client answers a reverse request: not a request, so it is ignored.
ReverseResponseIgnored(c) ==
  /\ Registered(c)
  /\ \E i \in DOMAIN outbox[c] : /\ outbox[c][i].type = "request"
                                 /\ outbox[c][i].n \notin replied
                                 /\ replied' = replied \cup {outbox[c][i].n}
  /\ UNCHANGED <<seqMap, sessionCache, handshake, connection, sent, joinedAt, outbox, adapterVars>>

-----------------------------------------------------------------------------
(* _handle_upstream_message: a message of the adapter.                     *)

\* Variant for mutation: the buffer is flushed before the capabilities are cached.
BufferedRepliesTooEarly(c) ==
  LET mine == {i \in DOMAIN pendingInitialize : pendingInitialize[i].client = c}
  IN IF mine = {} \/ ~Registered(c) THEN <<>>
     ELSE CachedInitialize(c, pendingInitialize[CHOOSE i \in mine : TRUE].seq, capabilities)

\* What flushing the buffer queues for client c: nothing if it has left.
BufferedReplies(c) ==
  LET mine == {i \in DOMAIN pendingInitialize : pendingInitialize[i].client = c}
  IN IF mine = {} \/ ~Registered(c) THEN <<>>
     ELSE CachedInitialize(c, pendingInitialize[CHOOSE i \in mine : TRUE].seq, TRUE)

\* Variant for mutation: request_seq is not restored.
RouteResponseUnrestored(queues, r, ok) ==
  /\ LET caps == ok /\ r.command = "initialize"
         entry == pending[r.seq]
     IN outbox' =
          IF r.seq \in DOMAIN pending /\ Registered(entry.client)
          THEN [queues EXCEPT ![entry.client] =
                  Append(@, Response(entry.client, r.seq, r.command, ok, caps,
                                     <<r.client, r.clientSeq>>))]
          ELSE queues
  /\ Seqs!Resolve(r.seq)

\* Variant for mutation: the number stays in the map, so that a repeated answer is
\* delivered again.
RouteResponseUnresolved(queues, r, ok) ==
  /\ LET caps == ok /\ r.command = "initialize"
         entry == pending[r.seq]
     IN outbox' =
          IF r.seq \in DOMAIN pending /\ Registered(entry.client)
          THEN [queues EXCEPT ![entry.client] =
                  Append(@, Response(entry.client, entry.clientSeq, r.command, ok, caps,
                                     <<r.client, r.clientSeq>>))]
          ELSE queues
  /\ UNCHANGED seqMap

\* The rest of _route_response: the answer to the upstream request r goes to
\* the client it belongs to, if it still waits for it.
RouteResponse(queues, r, ok) ==
  /\ LET caps == ok /\ r.command = "initialize"
         entry == pending[r.seq]
     IN outbox' =
          IF r.seq \in DOMAIN pending /\ Registered(entry.client)
          THEN [queues EXCEPT ![entry.client] =
                  Append(@, Response(entry.client, entry.clientSeq, r.command, ok, caps,
                                     <<r.client, r.clientSeq>>))]
          ELSE queues
  /\ Seqs!Resolve(r.seq)

\* Variants for mutation: the response is resolved before the session is marked;
\* the phase is not looked at.
CompletesInitializeIfPending(r, ok) ==
  r.command = "initialize" /\ ok /\ phase = INITIALIZING /\ r.seq \in DOMAIN pending

CompletesInitializeInAnyPhase(r, ok) == r.command = "initialize" /\ ok

\* Does this response make the session initialized?
CompletesInitialize(r, ok) == r.command = "initialize" /\ ok /\ phase = INITIALIZING

\* Variant for mutation: the buffer is cleared without answering.
InitializeResponseDropsBuffer(r) ==
  /\ Answer(r, TRUE)
  /\ CompletesInitialize(r, TRUE)
  /\ phase' = INITIALIZED
  /\ capabilities' = TRUE
  /\ pendingInitialize' = <<>>
  /\ RouteResponse(outbox, r, TRUE)
  /\ UNCHANGED <<initOrder, initializedEvent, lastStoppedEvent, clientVars>>

InitializeResponse(r) ==
  /\ Answer(r, TRUE)
  /\ CompletesInitialize(r, TRUE)
  /\ phase' = INITIALIZED
  /\ capabilities' = TRUE
  /\ pendingInitialize' = <<>>
  /\ RouteResponse([c \in Clients |-> outbox[c] \o BufferedReplies(c)], r, TRUE)
  /\ UNCHANGED <<initOrder, initializedEvent, lastStoppedEvent, clientVars>>

OtherResponse(r, ok) ==
  /\ Answer(r, ok)
  /\ ~CompletesInitialize(r, ok)
  /\ RouteResponse(outbox, r, ok)
  /\ UNCHANGED <<handshake, sessionCache, clientVars>>

\* Variants for mutation: a stop is kept when the debuggee ends; when it goes on.
StopAfterKeptAtEnd(event) ==
  CASE event.name = "stopped" -> event
    [] event.name = "continued" -> NoEvent
    [] OTHER -> lastStoppedEvent

StopAfterKeptOnContinue(event) ==
  CASE event.name = "stopped" -> event
    [] event.name = "terminated" -> NoEvent
    [] OTHER -> lastStoppedEvent

\* What _last_stopped_event is after the event.
StopAfter(event) ==
  CASE event.name = "stopped" -> event
    [] event.name \in {"continued", "terminated"} -> NoEvent
    [] OTHER -> lastStoppedEvent

\* Variant for mutation: clients that have not initialized get no events.
BroadcastToInitialized(event) ==
  outbox' = [c \in Clients |-> IF Registered(c) /\ IsInitialized(c) THEN Append(outbox[c], event)
                               ELSE outbox[c]]

Broadcast(event) ==
  outbox' = [c \in Clients |-> IF Registered(c) THEN Append(outbox[c], event) ELSE outbox[c]]

\* _broadcast_event, for the events that should_filter_event lets through.
EventBroadcast(name) ==
  /\ ~ShouldFilterEvent(name)
  /\ EmitEvent(name)
  /\ LET event == NextEmission("event", name)
     IN /\ initializedEvent' = IF name = "initialized" THEN event ELSE initializedEvent
        /\ lastStoppedEvent' = StopAfter(event)
        /\ Broadcast(event)
  /\ UNCHANGED <<seqMap, capabilities, handshake, clientVars>>

EventFiltered(name) ==
  /\ ShouldFilterEvent(name)
  /\ EmitEvent(name)
  /\ UNCHANGED <<seqMap, sessionCache, handshake, clientVars, outbox>>

\* _route_reverse_request: it reaches the client picked, if that is registered.
ReverseRequestRouted(command) ==
  /\ IsKnownReverseRequest(command)
  /\ EmitReverseRequest(command)
  /\ LET target == PickReverseRequestTarget(initOrder, OptIn, command)
     IN outbox' = [c \in Clients |-> IF c \in target /\ Registered(c)
                                     THEN Append(outbox[c], NextEmission("request", command))
                                     ELSE outbox[c]]
  /\ UNCHANGED <<seqMap, sessionCache, handshake, clientVars>>

\* An adapter request of another command is only logged.
ReverseRequestUnknown(command) ==
  /\ ~IsKnownReverseRequest(command)
  /\ EmitReverseRequest(command)
  /\ UNCHANGED <<seqMap, sessionCache, handshake, clientVars, outbox>>

AdapterLost == Lose /\ UNCHANGED <<seqMap, sessionCache, handshake, clientVars, outbox>>

-----------------------------------------------------------------------------

ClientStep(c) ==
  \/ Accept(c)
  \/ Disconnect(c)
  \/ InitializeFromCache(c)
  \/ InitializeBuffered(c)
  \/ InitializeForwarded(c)
  \/ ConfigurationDoneForwarded(c)
  \/ \E command \in Requests : RequestIntercepted(c, command) \/ RequestForwarded(c, command)
  \/ ReverseResponseIgnored(c)

AnswerStep(r) == InitializeResponse(r) \/ \E ok \in BOOLEAN : OtherResponse(r, ok)

AdapterStep ==
  \/ \E i \in DOMAIN upstream : AnswerStep(upstream[i])
  \/ \E name \in Events : EventBroadcast(name) \/ EventFiltered(name)
  \/ \E command \in ReverseRequests : ReverseRequestRouted(command) \/ ReverseRequestUnknown(command)
  \/ AdapterLost

Next == (\E c \in Clients : ClientStep(c)) \/ AdapterStep

Spec == Init /\ [][Next]_vars

\* The adapter answers every request that reached it, sooner or later, and the
\* multiplexer handles the answer; nobody owes a request, an event or an exit.
AnswersRequest(c, n) ==
  \E i \in DOMAIN upstream : /\ upstream[i].client = c
                             /\ upstream[i].clientSeq = n
                             /\ AnswerStep(upstream[i])

Fairness == \A c \in Clients : \A n \in 1..MaxRequests : WF_vars(AnswersRequest(c, n))

FairSpec == Spec /\ Fairness

-----------------------------------------------------------------------------
(* What must hold.                                                         *)

Waiting(c, n) == [client |-> c, clientSeq |-> n] \in Range(pending)

Buffered(c, n) == [client |-> c, seq |-> n] \in Range(pendingInitialize)

\* A response goes to the client that asked, under the number and the command
\* the client used, and what it says is about that very request: answers out
\* of order, repeated, or for a client that left are never confused, although
\* every client counts from 1 (seq.py resolve, mux.py _route_response).
ResponsesMatchRequests ==
  \A c \in Clients : \A i \in DOMAIN outbox[c] :
    LET m == outbox[c][i]
    IN m.type = "response" => /\ m.seq \in DOMAIN sent[c]
                              /\ m.command = sent[c][m.seq]
                              /\ m.answers = <<c, m.seq>>

\* Every request of a registered client is answered, or waits for the adapter,
\* or is buffered: exactly one of the three, and answered at most once.  None
\* is lost between the branches of _handle_client_message (mux.py).
RequestsAccountedFor ==
  \A c \in Clients : Registered(c) =>
    \A n \in DOMAIN sent[c] :
      LET fates == {f \in {"answered", "waiting", "buffered"} :
                      \/ f = "answered" /\ ResponsesTo(c, n) # {}
                      \/ f = "waiting" /\ Waiting(c, n)
                      \/ f = "buffered" /\ Buffered(c, n)}
      IN Cardinality(fates) = 1 /\ Cardinality(ResponsesTo(c, n)) <= 1

\* Whatever clients do at the same time, the adapter sees one initialize, one
\* configurationDone, no attach or launch after that, and nothing that would
\* end the session the others share (mux.py:144-182).
SharedSessionProtected ==
  \A i \in DOMAIN upstream :
    /\ upstream[i].command \notin {"disconnect", "terminate", "restart"}
    /\ upstream[i].command \in {"initialize", "configurationDone"} =>
         \A j \in DOMAIN upstream : upstream[j].command = upstream[i].command => j = i
    /\ upstream[i].command = "configurationDone" =>
         \A j \in DOMAIN upstream : upstream[j].command \in {"attach", "launch"} => j < i

\* The adapter sees a single sequence, numbered in the order it is sent in,
\* whoever the requests come from (seq.py: allocate).
UpstreamIsNumbered == \A i \in DOMAIN upstream : upstream[i].seq = i

\* A client that left keeps nothing alive: no entry of the sequence map and no
\* initialize arguments, so that no response and no reverse request is sent
\* to it (mux.py _handle_client_disconnect).
OwnersRegistered ==
  \A c \in Clients : c \in Seqs!Owners \cup Range(initOrder) => Registered(c)

\* The buffer is never left behind: while it holds the initialize of a client
\* that is still there, one initialize is with the adapter, unanswered, even
\* if the client that sent it has left (mux.py:150-157, 214-220).
BufferAwaitsAnswer ==
  \A i \in DOMAIN pendingInitialize :
    Registered(pendingInitialize[i].client) =>
      /\ phase = INITIALIZING
      /\ \E j \in DOMAIN upstream : /\ upstream[j].command = "initialize"
                                    /\ upstream[j].seq \notin DOMAIN answers

\* Whoever is told that initialize succeeded gets the adapter's capabilities
\* with it, also from the cache (mux.py:40, 213-220, 251-252).
CapabilitiesDelivered ==
  \A c \in Clients : \A i \in DOMAIN outbox[c] :
    LET m == outbox[c][i]
    IN m.type = "response" /\ m.command = "initialize" /\ m.success => m.caps

\* Once the adapter has answered initialize, its capabilities are cached, and
\* whoever is told that initialize succeeded gets them (mux.py:36-40).
CapabilitiesShared ==
  (\E i \in DOMAIN upstream : /\ upstream[i].command = "initialize"
                              /\ upstream[i].seq \in DOMAIN answers
                              /\ answers[upstream[i].seq])
  => CapabilitiesDelivered

\* Once the adapter has emitted initialized, every client whose initialize
\* succeeded has it behind the response in its queue, whether it joined early,
\* was buffered or came late (mux.py:257-259, 284-285).
HandshakeCompleted ==
  \A c \in Clients : \A i \in DOMAIN outbox[c] :
    LET m == outbox[c][i]
    IN /\ m.type = "response" /\ m.command = "initialize" /\ m.success
       /\ \E k \in DOMAIN emitted : emitted[k].type = "event" /\ emitted[k].name = "initialized"
       => \E j \in i+1..Len(outbox[c]) : outbox[c][j] = initializedEvent

\* What one who reads these messages concludes: where the debuggee is stopped.
IsStopNews(m) == m.type = "event" /\ m.name \in {"stopped", "continued", "terminated"}

StopIn(messages) ==
  LET news == {i \in DOMAIN messages : IsStopNews(messages[i])}
      last == messages[Max(news)]
  IN IF news # {} /\ last.name = "stopped" THEN last ELSE NoEvent

\* All clients that have initialized see the same stop, the last one the
\* adapter reported, however their joining interleaved with the events
\* (README.md:37, mux.py:261-263, 286-291).
StopStateShared ==
  \A c \in Clients : IsInitialized(c) => StopIn(outbox[c]) = StopIn(emitted)

\* The position of emission k in the queue of client c, 0 if it is not there.
FirstSeen(c, k) == SelectInSeq(outbox[c], LAMBDA m : m = emitted[k])

\* A client misses no event the adapter emits while it is connected, and sees
\* them first in the order they were emitted, replays notwithstanding; events
\* that are filtered reach nobody (mux.py _broadcast_event).
NoEventMissed ==
  \A c \in Clients : Registered(c) =>
    \A k \in DOMAIN emitted : emitted[k].type = "event" =>
      IF ShouldFilterEvent(emitted[k].name) THEN FirstSeen(c, k) = 0
      ELSE k > joinedAt[c] =>
             /\ FirstSeen(c, k) > 0
             /\ \A l \in joinedAt[c]+1..k-1 : FirstSeen(c, l) < FirstSeen(c, k)

\* Replaying the cached stop tells a late joiner the truth: it is the stop the
\* debuggee is at, and there is none when it is not stopped (README.md:37, 306).
CachedStopIsCurrent ==
  lastStoppedEvent = IF session = "stopped" THEN StopIn(emitted) ELSE NoEvent

\* An adapter that asked a client something hears the answer (README.md:29).
ReverseResponsesDelivered ==
  \A n \in replied :
    \E i \in DOMAIN upstream : upstream[i].type = "response" /\ upstream[i].seq = n

-----------------------------------------------------------------------------
(* What a step may never do.                                               *)

\* The phase never goes back (mux.py:36, "Linear phases").
PhaseOnlyAdvances == [][phase' >= phase]_vars

AskedInitialize(c) == "initialize" \in Range(sent[c])

\* A known reverse request of the adapter reaches exactly one client as soon as
\* one has sent initialize, and a runInTerminal one that opted in if there is
\* such a client (compat.py pick_reverse_request_target).
ReverseRequestReachesOne ==
  [][\A command \in ReverseRequests :
       LET message == NextEmission("request", command)
           asked == {c \in Clients : Registered(c) /\ AskedInitialize(c)}
           willing == {c \in asked : c \in OptIn}
           target == {c \in Clients : outbox'[c] # outbox[c]}
       IN emitted' = Append(emitted, message) /\ IsKnownReverseRequest(command) =>
            /\ Cardinality(target) = IF asked = {} THEN 0 ELSE 1
            /\ target \subseteq asked
            /\ command = "runInTerminal" /\ willing # {} => target \subseteq willing]_vars

\* How many answers to request n are in the queue of client c.
AnswerCount(c, n) == Cardinality(ResponsesTo(c, n))

Routing == INSTANCE Router WITH
  Numbers <- 1..MaxRequests,
  status  <- connection,
  asked   <- [c \in Clients |-> Len(sent[c])],
  answers <- [c \in Clients |-> [n \in 1..MaxRequests |-> AnswerCount(c, n)]]

\* Every step of the multiplexer is one of the simple router that clients rely on:
\* a request is answered at most once, and only while its client is there and
\* waits, whatever is buffered, cached, repeated or late (mux.py:118-291).
Routes == Routing!RouterSpec

-----------------------------------------------------------------------------
(* What must happen, if the adapter answers what it is asked.              *)

\* Every request gets its answer, unless its client leaves or the connection
\* to the adapter breaks: buffered, intercepted, cached or forwarded.
RequestsAnswered ==
  \A c \in Clients : \A n \in 1..MaxRequests :
    n \in DOMAIN sent[c] ~> (ResponsesTo(c, n) # {} \/ connection[c] = "gone" \/ ~adapterUp)

\* In particular nobody waits forever for initialize when clients race
\* (mux.py:150-153).
InitializeAnswered ==
  \A c \in Clients :
    AskedInitialize(c) ~> (\/ connection[c] = "gone"
                           \/ ~adapterUp
                           \/ \E n \in DOMAIN sent[c] : sent[c][n] = "initialize" /\ ResponsesTo(c, n) # {})

=============================================================================
