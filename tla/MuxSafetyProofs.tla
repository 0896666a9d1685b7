-------------------------- MODULE MuxSafetyProofs ---------------------------
(***************************************************************************)
(* The safety of the multiplexer, for every set of clients and every       *)
(* bound: the shared session is protected, the phases are linear, numbers  *)
(* and responses are never confused, and what it keeps belongs to clients  *)
(* that are there.                                                         *)
(***************************************************************************)
EXTENDS MuxProofs

-----------------------------------------------------------------------------
(* The shared session.                                                     *)

\* The phase remembers what went upstream: that is why one look at it decides
\* whether a command may be forwarded (mux.py:146-175).
PhaseRemembers ==
  \A i \in DOMAIN upstream :
    /\ upstream[i].command = "initialize" => phase # PRE_INIT
    /\ upstream[i].command = "configurationDone" => phase = CONFIGURED

ProtectionInv == PhaseRemembers /\ SharedSessionProtected

\* Appending a request upstream, position by position.
LEMMA ForwardOnUpstream ==
  ASSUME TypeOK, NEW c, NEW command, Forward(c, command)
  PROVE  /\ Len(upstream) \in Nat
         /\ DOMAIN upstream = 1..Len(upstream)
         /\ DOMAIN upstream' = 1..Len(upstream)+1
         /\ \A i \in 1..Len(upstream) : upstream'[i] = upstream[i]
         /\ upstream'[Len(upstream)+1].seq = nextSeq
         /\ upstream'[Len(upstream)+1].command = command
         /\ upstream'[Len(upstream)+1].client = c
         /\ upstream'[Len(upstream)+1].clientSeq = Number(c)
<1> DEFINE request == [type |-> "request", seq |-> nextSeq, command |-> command, client |-> c,
                       clientSeq |-> Number(c)]
<1>1. /\ request.seq = nextSeq
      /\ request.command = command
      /\ request.client = c
      /\ request.clientSeq = Number(c)
  OBVIOUS
<1>2. upstream' = Append(upstream, request)
  BY DEF Forward
<1> HIDE DEF request
<1>3. /\ Len(upstream) \in Nat
      /\ DOMAIN upstream = 1..Len(upstream)
      /\ DOMAIN upstream' = 1..Len(upstream)+1
      /\ \A i \in 1..Len(upstream) : upstream'[i] = upstream[i]
      /\ upstream'[Len(upstream)+1] = request
  BY <1>2 DEF TypeOK, AdapterTypeOK
<1> QED
  BY <1>1, <1>3

\* The steps that forward nothing.
LEMMA ProtectionElsewhere ==
  ASSUME ProtectionInv, UNCHANGED upstream,
         phase' = phase \/ phase' = CONFIGURED \/ (phase = INITIALIZING /\ phase' = INITIALIZED)
  PROVE  ProtectionInv'
BY DEF ProtectionInv, PhaseRemembers, SharedSessionProtected, PRE_INIT, INITIALIZING,
       INITIALIZED, CONFIGURED

\* Forwarding is safe if the phase allows the command and remembers it.
LEMMA ProtectionForward ==
  ASSUME TypeOK, ProtectionInv, NEW c, NEW command, Forward(c, command),
         command \notin {"disconnect", "terminate", "restart"},
         command = "initialize" => phase = PRE_INIT,
         command \in {"configurationDone", "attach", "launch"} => phase # CONFIGURED,
         command = "initialize" => phase' = INITIALIZING,
         command = "configurationDone" => phase' = CONFIGURED,
         command \notin {"initialize", "configurationDone"} => phase' = phase
  PROVE  ProtectionInv'
<1> USE DEF PRE_INIT, INITIALIZING, INITIALIZED, CONFIGURED
<1> DEFINE last == Len(upstream) + 1
<1>1. /\ \A i \in DOMAIN upstream' : i # last => i \in DOMAIN upstream /\ i < last
      /\ \A i \in DOMAIN upstream : upstream'[i] = upstream[i] /\ i \in DOMAIN upstream'
      /\ upstream'[last].command = command
      /\ last \in DOMAIN upstream'
  BY ForwardOnUpstream
<1> HIDE DEF last
<1>2. PhaseRemembers'
  BY <1>1 DEF ProtectionInv, PhaseRemembers
<1>3. ASSUME NEW i \in DOMAIN upstream'
      PROVE  upstream'[i].command \notin {"disconnect", "terminate", "restart"}
  BY <1>1 DEF ProtectionInv, SharedSessionProtected
<1>4. ASSUME NEW i \in DOMAIN upstream', NEW j \in DOMAIN upstream',
             upstream'[i].command \in {"initialize", "configurationDone"},
             upstream'[j].command = upstream'[i].command
      PROVE  j = i
  BY <1>1, <1>4 DEF ProtectionInv, PhaseRemembers, SharedSessionProtected
<1>5. ASSUME NEW i \in DOMAIN upstream', NEW j \in DOMAIN upstream',
             upstream'[i].command = "configurationDone",
             upstream'[j].command \in {"attach", "launch"}
      PROVE  j < i
  BY <1>1, <1>5 DEF ProtectionInv, PhaseRemembers, SharedSessionProtected
<1> QED
  BY <1>2, <1>3, <1>4, <1>5 DEF ProtectionInv, SharedSessionProtected

LEMMA ProtectionStep == TypeOK /\ ProtectionInv /\ [Next]_vars => ProtectionInv'
<1> SUFFICES ASSUME TypeOK, ProtectionInv, [Next]_vars PROVE ProtectionInv'
  OBVIOUS
<1> USE DEF PRE_INIT, INITIALIZING, INITIALIZED, CONFIGURED
<1>1. ASSUME NEW c \in Clients, InitializeForwarded(c) PROVE ProtectionInv'
  BY <1>1, ProtectionForward DEF InitializeForwarded
<1>2. ASSUME NEW c \in Clients, ConfigurationDoneForwarded(c) PROVE ProtectionInv'
  <2>1. /\ Forward(c, "configurationDone")
        /\ phase # CONFIGURED
        /\ phase' = CONFIGURED
    BY <1>2 DEF ConfigurationDoneForwarded, Intercepted
  <2> QED
    BY <2>1, ProtectionForward
<1>3. ASSUME NEW c \in Clients, NEW command \in Requests, RequestForwarded(c, command)
      PROVE  ProtectionInv'
  <2>1. /\ Forward(c, command)
        /\ phase' = phase
        /\ command \notin {"initialize", "configurationDone", "disconnect", "terminate", "restart"}
        /\ command \in {"attach", "launch"} => phase # CONFIGURED
    BY <1>3 DEF RequestForwarded, Intercepted, handshake
  <2> QED
    BY <2>1, ProtectionForward
<1>4. ASSUME NEW c \in Clients, NEW command \in Requests, RequestIntercepted(c, command)
      PROVE  ProtectionInv'
  <2>1. UNCHANGED <<upstream, phase>>
    BY <1>4 DEF RequestIntercepted, RespondSynthetic, adapterVars, handshake
  <2> QED
    BY <2>1, ProtectionElsewhere
<1>5. ASSUME NEW c \in Clients,
             \/ Accept(c) \/ Disconnect(c) \/ InitializeFromCache(c) \/ InitializeBuffered(c)
             \/ ReverseResponseIgnored(c)
      PROVE  ProtectionInv'
  <2>1. CASE Accept(c) \/ Disconnect(c)
    BY <2>1, ProtectionElsewhere DEF Accept, Disconnect, adapterVars, handshake
  <2>2. CASE InitializeFromCache(c)
    BY <2>2, ProtectionElsewhere DEF InitializeFromCache, adapterVars
  <2>3. CASE InitializeBuffered(c)
    BY <2>3, ProtectionElsewhere DEF InitializeBuffered, adapterVars
  <2>4. CASE ReverseResponseIgnored(c)
    BY <2>4, ProtectionElsewhere DEF ReverseResponseIgnored, adapterVars, handshake
  <2> QED
    BY <1>5, <2>1, <2>2, <2>3, <2>4
<1>6. ASSUME NEW i \in DOMAIN upstream, AnswerStep(upstream[i]) PROVE ProtectionInv'
  <2>1. UNCHANGED upstream
    BY <1>6 DEF AnswerStep, InitializeResponse, OtherResponse, Answer
  <2>2. phase' = phase \/ (phase = INITIALIZING /\ phase' = INITIALIZED)
    BY <1>6 DEF AnswerStep, InitializeResponse, CompletesInitialize, OtherResponse, handshake
  <2> QED
    BY <2>1, <2>2, ProtectionElsewhere
<1>7. ASSUME NEW name \in Events, EventBroadcast(name) \/ EventFiltered(name)
      PROVE  ProtectionInv'
  BY <1>7, ProtectionElsewhere DEF EventBroadcast, EventFiltered, EmitEvent, Emit, handshake
<1>8. ASSUME NEW command \in ReverseRequests,
             ReverseRequestRouted(command) \/ ReverseRequestUnknown(command)
      PROVE  ProtectionInv'
  BY <1>8, ProtectionElsewhere
     DEF ReverseRequestRouted, ReverseRequestUnknown, EmitReverseRequest, Emit, handshake
<1>9. CASE AdapterLost
  BY <1>9, ProtectionElsewhere DEF AdapterLost, Lose, handshake
<1>10. CASE UNCHANGED vars
  BY <1>10, ProtectionElsewhere DEF vars, adapterVars, handshake
<1> QED
  BY <1>1, <1>2, <1>3, <1>4, <1>5, <1>6, <1>7, <1>8, <1>9, <1>10
     DEF Next, ClientStep, AdapterStep

\* One initialize, one configurationDone, no attach after it, and nothing that
\* ends the session ever reach the adapter, however many clients race and in
\* whatever order they send (mux.py:144-182).
THEOREM SessionIsProtected == Spec => []SharedSessionProtected
<1>1. Init => ProtectionInv
  BY DEF Init, AdapterInit, ProtectionInv, PhaseRemembers, SharedSessionProtected
<1>2. ProtectionInv => SharedSessionProtected
  BY DEF ProtectionInv
<1> QED
  BY <1>1, <1>2, ProtectionStep, TypeCorrect, PTL DEF Spec

\* Every step keeps the phase or takes it further.
LEMMA PhaseStep == TypeOK /\ [Next]_vars => phase' >= phase
<1> SUFFICES ASSUME TypeOK, [Next]_vars PROVE phase' >= phase
  OBVIOUS
<1> USE DEF PRE_INIT, INITIALIZING, INITIALIZED, CONFIGURED
<1>1. phase \in 0..3
  BY DEF TypeOK, MuxTypeOK
<1>2. ASSUME NEW c \in Clients, InitializeForwarded(c) PROVE phase' >= phase
  BY <1>2 DEF InitializeForwarded
<1>3. ASSUME NEW c \in Clients, ConfigurationDoneForwarded(c) PROVE phase' >= phase
  BY <1>1, <1>3 DEF ConfigurationDoneForwarded
<1>4. ASSUME NEW r, AnswerStep(r) PROVE phase' >= phase
  <2>1. CASE InitializeResponse(r)
    BY <2>1 DEF InitializeResponse, CompletesInitialize
  <2>2. ASSUME NEW ok, OtherResponse(r, ok) PROVE phase' >= phase
    BY <1>1, <2>2 DEF OtherResponse, handshake
  <2> QED
    BY <1>4, <2>1, <2>2 DEF AnswerStep
<1>5. ASSUME NEW c \in Clients,
             \/ Accept(c) \/ Disconnect(c) \/ InitializeFromCache(c) \/ InitializeBuffered(c)
             \/ ReverseResponseIgnored(c)
             \/ \E command \in Requests : RequestIntercepted(c, command) \/ RequestForwarded(c, command)
      PROVE  phase' = phase
  BY <1>5 DEF Accept, Disconnect, InitializeFromCache, InitializeBuffered, ReverseResponseIgnored,
              RequestIntercepted, RequestForwarded, handshake
<1>6. ASSUME \/ \E name \in Events : EventBroadcast(name) \/ EventFiltered(name)
             \/ \E command \in ReverseRequests :
                  ReverseRequestRouted(command) \/ ReverseRequestUnknown(command)
             \/ AdapterLost
             \/ UNCHANGED vars
      PROVE  phase' = phase
  BY <1>6 DEF EventBroadcast, EventFiltered, ReverseRequestRouted, ReverseRequestUnknown,
              AdapterLost, vars, handshake
<1> QED
  BY <1>1, <1>2, <1>3, <1>4, <1>5, <1>6 DEF Next, ClientStep, AdapterStep

\* The phase never goes back: a second initialize response cannot reopen a
\* configured session (mux.py:36, 214).
THEOREM PhasesAreLinear == Spec => PhaseOnlyAdvances
<1>1. TypeOK /\ [Next]_vars => [phase' >= phase]_vars
  BY PhaseStep
<1> QED
  BY <1>1, TypeCorrect, PTL DEF Spec, PhaseOnlyAdvances

-----------------------------------------------------------------------------
(* Numbers and responses.                                                  *)

\* The sequence map and the upstream queue agree on who asked what (seq.py:65,
\* mux.py:184-188).
Numbered ==
  /\ nextSeq = Len(upstream) + 1
  /\ UpstreamIsNumbered
  /\ DOMAIN pending \subseteq DOMAIN upstream

EntriesMatch ==
  \A s \in DOMAIN pending : /\ pending[s].client = upstream[s].client
                            /\ pending[s].clientSeq = upstream[s].clientSeq

\* In the log of what clients sent, request n of client c is this command.
Asked(log, c, n, command) == n \in DOMAIN log[c] /\ log[c][n] = command

UpstreamMatches ==
  \A i \in DOMAIN upstream :
    Asked(sent, upstream[i].client, upstream[i].clientSeq, upstream[i].command)

BufferMatches ==
  \A i \in DOMAIN pendingInitialize :
    Asked(sent, pendingInitialize[i].client, pendingInitialize[i].seq, "initialize")

RoutingInv ==
  Numbered /\ EntriesMatch /\ UpstreamMatches /\ BufferMatches /\ ResponsesMatchRequests

\* The message m may stand in the queue of client c.
Fits(log, c, m) ==
  m.type = "response" => Asked(log, c, m.seq, m.command) /\ m.answers = <<c, m.seq>>

LEMMA ResponsesFit ==
  ResponsesMatchRequests <=> \A c \in Clients : \A i \in DOMAIN outbox[c] : Fits(sent, c, outbox[c][i])
BY DEF ResponsesMatchRequests, Fits, Asked

\* The record of what clients sent only grows.
SentGrows ==
  \A c \in Clients : \A n, command : Asked(sent, c, n, command) => Asked(sent', c, n, command)

LEMMA SendGrows ==
  ASSUME TypeOK, NEW c \in Clients, NEW command, Send(c, command)
  PROVE  SentGrows /\ Asked(sent', c, Number(c), command)
<1>1. Asked(sent', c, Number(c), command)
  BY SendType DEF Asked
<1>2. ASSUME NEW d \in Clients, NEW n, NEW any, Asked(sent, d, n, any)
      PROVE  Asked(sent', d, n, any)
  <2>1. CASE d = c
    BY <1>2, <2>1, SendType DEF Asked
  <2>2. CASE d # c
    BY <1>2, <2>2, SendType DEF Asked
  <2> QED
    BY <2>1, <2>2
<1> QED
  BY <1>1, <1>2 DEF SentGrows

LEMMA SentUnchanged == ASSUME UNCHANGED sent PROVE SentGrows
BY DEF SentGrows, Asked

\* Upstream and the buffer hold requests of clients.
LEMMA UpstreamEntry ==
  ASSUME TypeOK, NEW i \in DOMAIN upstream
  PROVE  /\ upstream[i] \in Forwarded
         /\ upstream[i].client \in Clients
         /\ upstream[i].seq \in Nat
<1>1. upstream[i] \in Forwarded
  BY ElementOfSeq DEF TypeOK, AdapterTypeOK
<1> QED
  BY <1>1 DEF Forwarded

LEMMA BufferEntry ==
  ASSUME TypeOK, NEW i \in DOMAIN pendingInitialize
  PROVE  pendingInitialize[i].client \in Clients /\ pendingInitialize[i].seq \in Nat
<1>1. pendingInitialize[i] \in BufferedRequests
  BY ElementOfSeq DEF TypeOK, MuxTypeOK
<1> QED
  BY <1>1 DEF BufferedRequests

\* What was asked of the adapter stays asked while nothing is forwarded, also
\* when entries leave the sequence map.
LEMMA RoutingKeepsUpstream ==
  ASSUME TypeOK, RoutingInv, SentGrows, UNCHANGED <<upstream, nextSeq>>,
         DOMAIN pending' \subseteq DOMAIN pending,
         \A s \in DOMAIN pending' : pending'[s] = pending[s]
  PROVE  Numbered' /\ EntriesMatch' /\ UpstreamMatches'
<1>1. Numbered'
  BY DEF RoutingInv, Numbered, UpstreamIsNumbered
<1>2. EntriesMatch'
  BY DEF RoutingInv, EntriesMatch
<1>3. UpstreamMatches'
  <2>1. \A i \in DOMAIN upstream : upstream[i].client \in Clients
    BY UpstreamEntry
  <2> QED
    BY <2>1 DEF RoutingInv, UpstreamMatches, SentGrows
<1> QED
  BY <1>1, <1>2, <1>3

LEMMA RoutingKeepsBuffer ==
  ASSUME TypeOK, RoutingInv, SentGrows, UNCHANGED pendingInitialize
  PROVE  BufferMatches'
<1>1. \A i \in DOMAIN pendingInitialize : pendingInitialize[i].client \in Clients
  BY BufferEntry
<1> QED
  BY <1>1 DEF RoutingInv, BufferMatches, SentGrows

\* Messages that fit stay fitting.
LEMMA FitsLater ==
  ASSUME SentGrows, NEW c \in Clients, NEW m, Fits(sent, c, m) PROVE Fits(sent', c, m)
BY DEF Fits, SentGrows

LEMMA RoutingKeepsQueues ==
  ASSUME RoutingInv, SentGrows,
         \A c \in Clients : \A i \in DOMAIN outbox'[c] :
            \/ i \in DOMAIN outbox[c] /\ outbox'[c][i] = outbox[c][i]
            \/ Fits(sent', c, outbox'[c][i])
  PROVE  ResponsesMatchRequests'
<1>1. \A c \in Clients : \A i \in DOMAIN outbox[c] : Fits(sent, c, outbox[c][i])
  BY ResponsesFit DEF RoutingInv
<1>2. \A c \in Clients : \A i \in DOMAIN outbox'[c] : Fits(sent', c, outbox'[c][i])
  BY <1>1, FitsLater
<1> QED
  BY <1>2 DEF ResponsesMatchRequests, Fits, Asked

\* Forwarding a request that is recorded as sent.
LEMMA RoutingForward ==
  ASSUME TypeOK, RoutingInv, NEW c \in Clients, NEW command, Send(c, command),
         Forward(c, command), UNCHANGED <<pendingInitialize, outbox>>
  PROVE  RoutingInv'
<1>1. SentGrows /\ Asked(sent', c, Number(c), command)
  BY SendGrows
<1> DEFINE last == Len(upstream) + 1
<1>2. /\ \A i \in DOMAIN upstream' : i # last => i \in DOMAIN upstream
      /\ \A i \in DOMAIN upstream : upstream'[i] = upstream[i] /\ i # last /\ i \in DOMAIN upstream'
      /\ upstream'[last].seq = nextSeq
      /\ upstream'[last].command = command
      /\ upstream'[last].client = c
      /\ upstream'[last].clientSeq = Number(c)
      /\ last \in DOMAIN upstream' /\ Len(upstream') = last /\ last \in Nat
  BY ForwardOnUpstream DEF TypeOK, AdapterTypeOK, Forward
<1>3. nextSeq = last
  BY DEF RoutingInv, Numbered
<1>4. /\ DOMAIN pending' = DOMAIN pending \cup {nextSeq}
      /\ \A s \in DOMAIN pending : s # nextSeq => pending'[s] = pending[s]
      /\ pending'[nextSeq].client = c /\ pending'[nextSeq].clientSeq = Number(c)
      /\ nextSeq' = nextSeq + 1
  BY DEF Forward, Seqs!Allocate
<1> HIDE DEF last
<1>5. Numbered'
  BY <1>2, <1>3, <1>4 DEF RoutingInv, Numbered, UpstreamIsNumbered
<1>6. EntriesMatch'
  BY <1>2, <1>3, <1>4 DEF RoutingInv, Numbered, EntriesMatch
<1>7. UpstreamMatches'
  <2>1. \A i \in DOMAIN upstream : upstream[i].client \in Clients
    BY UpstreamEntry
  <2>2. ASSUME NEW i \in DOMAIN upstream'
        PROVE  Asked(sent', upstream'[i].client, upstream'[i].clientSeq, upstream'[i].command)
    <3>1. CASE i = last
      BY <1>1, <1>2, <3>1
    <3>2. CASE i # last
      <4>1. i \in DOMAIN upstream /\ upstream'[i] = upstream[i]
        BY <1>2, <3>2
      <4>2. Asked(sent, upstream[i].client, upstream[i].clientSeq, upstream[i].command)
        BY <4>1 DEF RoutingInv, UpstreamMatches
      <4> QED
        BY <1>1, <2>1, <4>1, <4>2 DEF SentGrows, Asked
    <3> QED
      BY <3>1, <3>2
  <2> QED
    BY <2>2 DEF UpstreamMatches
<1> QED
  BY <1>1, <1>5, <1>6, <1>7, RoutingKeepsBuffer, RoutingKeepsQueues DEF RoutingInv

\* What is queued for a client about its own request fits.
LEMMA OwnResponseFits ==
  ASSUME NEW c \in Clients, NEW n, NEW command, NEW ok, NEW caps, NEW log,
         Asked(log, c, n, command)
  PROVE  Fits(log, c, Response(c, n, command, ok, caps, <<c, n>>))
BY DEF Fits, Response

LEMMA EmissionsFit ==
  ASSUME NEW c, NEW log
  PROVE  /\ \A m \in Emission : m.type # "response" /\ Fits(log, c, m)
         /\ \A type, name : type # "response" => Fits(log, c, NextEmission(type, name))
BY DEF Fits, Emission, NextEmission

\* The cached answer to initialize: the response and replayed events.
LEMMA CachedInitializeFits ==
  ASSUME TypeOK, NEW c \in Clients, NEW n \in Nat, NEW caps \in BOOLEAN, NEW log,
         Asked(log, c, n, "initialize")
  PROVE  \A i \in DOMAIN CachedInitialize(c, n, caps) : Fits(log, c, CachedInitialize(c, n, caps)[i])
<1> DEFINE response == Response(c, n, "initialize", TRUE, caps, <<c, n>>)
<1>1. Fits(log, c, response)
  BY OwnResponseFits
<1>2. \A event \in Emission \cup {NoEvent} :
        /\ Replay(event) \in Seq(Emission)
        /\ \A i \in DOMAIN Replay(event) : Fits(log, c, Replay(event)[i])
  <2>1. ASSUME NEW event \in Emission PROVE <<event>> \in Seq(Emission)
    OBVIOUS
  <2> QED
    BY <2>1, EmissionsFit DEF Replay
<1> DEFINE first == Replay(initializedEvent)
           second == Replay(lastStoppedEvent)
<1>3. /\ first \in Seq(Emission) /\ \A i \in DOMAIN first : Fits(log, c, first[i])
      /\ second \in Seq(Emission) /\ \A i \in DOMAIN second : Fits(log, c, second[i])
  BY <1>2 DEF TypeOK, MuxTypeOK
<1>4. CachedInitialize(c, n, caps) = (<<response>> \o first) \o second
  BY DEF CachedInitialize
<1> HIDE DEF response, first, second
<1> DEFINE S == Emission \cup {response}
<1>5. <<response>> \in Seq(S) /\ Len(<<response>>) = 1 /\ <<response>>[1] = response
  OBVIOUS
<1>6. first \in Seq(S) /\ second \in Seq(S)
  BY <1>3, SeqMonotonic
<1> HIDE DEF S
<1>7. /\ <<response>> \o first \in Seq(S)
      /\ \A i \in DOMAIN (<<response>> \o first) : Fits(log, c, (<<response>> \o first)[i])
  BY <1>1, <1>3, <1>5, <1>6, ConcatProperties
<1>8. \A i \in DOMAIN ((<<response>> \o first) \o second) :
        Fits(log, c, ((<<response>> \o first) \o second)[i])
  <2> DEFINE front == <<response>> \o first
  <2> HIDE DEF front
  <2>1. \A i \in DOMAIN (front \o second) :
          front \in Seq(S) /\ (\A j \in DOMAIN front : Fits(log, c, front[j]))
            => Fits(log, c, (front \o second)[i])
    BY <1>3, <1>6, ConcatProperties
  <2> QED
    BY <1>7, <2>1 DEF front
<1> QED
  BY <1>4, <1>8

\* Queues that grow at their ends by messages that fit.
LEMMA ConcatFits ==
  ASSUME TypeOK, RoutingInv, SentGrows, NEW c \in Clients, NEW more \in Seq(Messages),
         \A i \in DOMAIN more : Fits(sent', c, more[i])
  PROVE  \A i \in DOMAIN (outbox[c] \o more) : Fits(sent', c, (outbox[c] \o more)[i])
<1>1. outbox[c] \in Seq(Messages)
  BY DEF TypeOK, MuxTypeOK
<1>2. \A i \in DOMAIN outbox[c] : Fits(sent', c, outbox[c][i])
  BY FitsLater, ResponsesFit DEF RoutingInv
<1> QED
  BY <1>1, <1>2, ConcatProperties

LEMMA RoutingEnqueue ==
  ASSUME TypeOK, RoutingInv, SentGrows, NEW c \in Clients, NEW more \in Seq(Messages),
         \A i \in DOMAIN more : Fits(sent', c, more[i]), Enqueue(c, more)
  PROVE  ResponsesMatchRequests'
<1>1. outbox'[c] = outbox[c] \o more /\ \A d \in Clients : d # c => outbox'[d] = outbox[d]
  BY DEF Enqueue, TypeOK, MuxTypeOK
<1> QED
  BY <1>1, ConcatFits, RoutingKeepsQueues

\* A response is routed to the client whose request the adapter answered
\* (mux.py:222-233): the entry it resolves is about that very request.
LEMMA RoutingResponse ==
  ASSUME TypeOK, RoutingInv, NEW k \in DOMAIN upstream, NEW ok \in BOOLEAN,
         NEW queues \in [Clients -> Seq(Messages)],
         \A c \in Clients : \A i \in DOMAIN queues[c] : Fits(sent, c, queues[c][i]),
         RouteResponse(queues, upstream[k], ok), UNCHANGED <<upstream, sent>>, BufferMatches'
  PROVE  RoutingInv'
<1> DEFINE r == upstream[k]
           entry == pending[r.seq]
           response == Response(entry.client, entry.clientSeq, r.command, ok,
                                ok /\ r.command = "initialize", <<r.client, r.clientSeq>>)
<1>1. Numbered' /\ EntriesMatch' /\ UpstreamMatches'
  BY ForgetType, SentUnchanged, RoutingKeepsUpstream DEF RouteResponse, Seqs!Resolve
<1>2. r.client \in Clients /\ r.seq = k /\ Asked(sent, r.client, r.clientSeq, r.command)
  BY UpstreamEntry DEF RoutingInv, Numbered, UpstreamIsNumbered, UpstreamMatches
<1>3. \A c \in Clients : \A i \in DOMAIN outbox'[c] : Fits(sent, c, outbox'[c][i])
  <2>1. CASE r.seq \in DOMAIN pending /\ Registered(entry.client)
    <3>1. entry.client = r.client /\ entry.clientSeq = r.clientSeq
      BY <1>2, <2>1 DEF RoutingInv, EntriesMatch
    <3>2. Fits(sent, r.client, response)
      BY <1>2, <3>1, OwnResponseFits
    <3>3. outbox' = [queues EXCEPT ![r.client] = Append(queues[r.client], response)]
      BY <2>1, <3>1 DEF RouteResponse
    <3> HIDE DEF response, r, entry
    <3>4. outbox'[r.client] = Append(queues[r.client], response)
      BY <1>2, <3>3
    <3>5. \A c \in Clients : c # r.client => outbox'[c] = queues[c]
      BY <3>3
    <3>6. \A i \in DOMAIN outbox'[r.client] :
            IF i \in DOMAIN queues[r.client] THEN outbox'[r.client][i] = queues[r.client][i]
            ELSE outbox'[r.client][i] = response
      <4>1. queues[r.client] \in Seq(Messages \cup {response})
        BY <1>2, SeqMonotonic
      <4> QED
        BY <3>4, <4>1, AppendProperties
    <3> QED
      BY <1>2, <3>2, <3>5, <3>6
  <2>2. CASE ~(r.seq \in DOMAIN pending /\ Registered(entry.client))
    BY <2>2 DEF RouteResponse
  <2> QED
    BY <2>1, <2>2
<1>4. ResponsesMatchRequests'
  BY <1>3 DEF ResponsesMatchRequests, Fits, Asked
<1> QED
  BY <1>1, <1>4 DEF RoutingInv

\* Flushing the buffer answers each buffered initialize under its own number.
LEMMA FlushFits ==
  ASSUME TypeOK, RoutingInv, NEW c \in Clients
  PROVE  \A i \in DOMAIN (outbox[c] \o BufferedReplies(c)) :
           Fits(sent, c, (outbox[c] \o BufferedReplies(c))[i])
<1> DEFINE mine == {i \in DOMAIN pendingInitialize : pendingInitialize[i].client = c}
           k == CHOOSE i \in mine : TRUE
           n == pendingInitialize[k].seq
<1>1. outbox[c] \in Seq(Messages) /\ \A i \in DOMAIN outbox[c] : Fits(sent, c, outbox[c][i])
  BY ResponsesFit DEF RoutingInv, TypeOK, MuxTypeOK
<1>2. /\ BufferedReplies(c) \in Seq(Messages)
      /\ \A i \in DOMAIN BufferedReplies(c) : Fits(sent, c, BufferedReplies(c)[i])
  <2>1. CASE mine = {} \/ ~Registered(c)
    <3>1. BufferedReplies(c) = <<>>
      BY <2>1 DEF BufferedReplies
    <3>2. <<>> \in Seq(Messages) /\ DOMAIN <<>> = {}
      OBVIOUS
    <3> QED
      BY <3>1, <3>2
  <2>2. CASE ~(mine = {} \/ ~Registered(c))
    <3>1. k \in DOMAIN pendingInitialize /\ pendingInitialize[k].client = c
      BY <2>2
    <3>2. BufferedReplies(c) = CachedInitialize(c, n, TRUE)
      BY <2>2 DEF BufferedReplies
    <3> HIDE DEF k
    <3>3. n \in Nat /\ Asked(sent, c, n, "initialize")
      BY <3>1, BufferEntry DEF RoutingInv, BufferMatches
    <3> HIDE DEF n
    <3> QED
      BY <3>2, <3>3, CachedInitializeType, CachedInitializeFits
  <2> QED
    BY <2>1, <2>2
<1> QED
  BY <1>1, <1>2, ConcatProperties

\* A step that forwards nothing and routes no response.
LEMMA RoutingElsewhere ==
  ASSUME TypeOK, RoutingInv, SentGrows, UNCHANGED <<upstream, seqMap>>,
         BufferMatches', ResponsesMatchRequests'
  PROVE  RoutingInv'
BY RoutingKeepsUpstream DEF RoutingInv, seqMap

LEMMA RoutingAnswers ==
  ASSUME TypeOK, RoutingInv, NEW k \in DOMAIN upstream, AnswerStep(upstream[k])
  PROVE  RoutingInv'
<1>1. CASE InitializeResponse(upstream[k])
  <2> DEFINE queues == [c \in Clients |-> outbox[c] \o BufferedReplies(c)]
  <2>1. RouteResponse(queues, upstream[k], TRUE)
    BY <1>1 DEF InitializeResponse
  <2>2. queues \in [Clients -> Seq(Messages)]
    BY FlushType
  <2>3. \A c \in Clients : \A i \in DOMAIN queues[c] : Fits(sent, c, queues[c][i])
    BY FlushFits
  <2>4. UNCHANGED <<upstream, sent>> /\ pendingInitialize' = <<>>
    BY <1>1 DEF InitializeResponse, Answer, clientVars
  <2>5. BufferMatches'
    BY <2>4 DEF BufferMatches
  <2> HIDE DEF queues
  <2> QED
    BY <2>1, <2>2, <2>3, <2>4, <2>5, RoutingResponse
<1>2. ASSUME NEW ok \in BOOLEAN, OtherResponse(upstream[k], ok) PROVE RoutingInv'
  <2>1. RouteResponse(outbox, upstream[k], ok)
    BY <1>2 DEF OtherResponse
  <2>2. outbox \in [Clients -> Seq(Messages)]
    BY DEF TypeOK, MuxTypeOK
  <2>3. \A c \in Clients : \A i \in DOMAIN outbox[c] : Fits(sent, c, outbox[c][i])
    BY ResponsesFit DEF RoutingInv
  <2>4. UNCHANGED <<upstream, sent, pendingInitialize>>
    BY <1>2 DEF OtherResponse, Answer, clientVars, handshake
  <2>5. BufferMatches'
    BY <2>4, SentUnchanged, RoutingKeepsBuffer
  <2> QED
    BY <2>1, <2>2, <2>3, <2>4, <2>5, RoutingResponse
<1> QED
  BY <1>1, <1>2 DEF AnswerStep

\* Events and reverse requests are appended; they are not responses.
LEMMA RoutingEmission ==
  ASSUME TypeOK, RoutingInv, NEW message \in Emission,
         UNCHANGED <<upstream, sent, pendingInitialize, seqMap>>,
         \A c \in Clients : outbox'[c] = outbox[c] \/ outbox'[c] = Append(outbox[c], message)
  PROVE  RoutingInv'
<1>1. SentGrows
  BY SentUnchanged
<1>2. ASSUME NEW c \in Clients, NEW i \in DOMAIN outbox'[c]
      PROVE  \/ i \in DOMAIN outbox[c] /\ outbox'[c][i] = outbox[c][i]
             \/ Fits(sent', c, outbox'[c][i])
  <2>1. outbox[c] \in Seq(Messages) /\ message \in Messages
    BY DEF TypeOK, MuxTypeOK, Messages
  <2>2. Fits(sent', c, message)
    BY EmissionsFit
  <2>3. CASE outbox'[c] = outbox[c]
    BY <1>2, <2>3
  <2>4. CASE outbox'[c] = Append(outbox[c], message)
    BY <1>2, <2>1, <2>2, <2>4, AppendProperties
  <2> QED
    BY <2>3, <2>4
<1> QED
  BY <1>1, <1>2, RoutingKeepsQueues, RoutingKeepsBuffer, RoutingElsewhere

LEMMA RoutingFromCache ==
  ASSUME TypeOK, RoutingInv, NEW c \in Clients, InitializeFromCache(c)
  PROVE  RoutingInv'
<1> DEFINE more == CachedInitialize(c, Number(c), capabilities)
<1>1. SentGrows /\ Asked(sent', c, Number(c), "initialize") /\ Number(c) \in Nat
  BY SendGrows, SendType DEF InitializeFromCache
<1>2. capabilities \in BOOLEAN
  BY DEF TypeOK, MuxTypeOK
<1>3. more \in Seq(Messages) /\ \A i \in DOMAIN more : Fits(sent', c, more[i])
  BY <1>1, <1>2, CachedInitializeType, CachedInitializeFits
<1>4. Enqueue(c, more)
  BY DEF InitializeFromCache
<1> HIDE DEF more
<1>5. ResponsesMatchRequests'
  BY <1>1, <1>3, <1>4, RoutingEnqueue
<1>6. UNCHANGED <<upstream, seqMap, pendingInitialize>>
  BY DEF InitializeFromCache, adapterVars
<1> QED
  BY <1>1, <1>5, <1>6, RoutingKeepsBuffer, RoutingElsewhere

LEMMA RoutingIntercepted ==
  ASSUME TypeOK, RoutingInv, NEW c \in Clients, NEW command, RequestIntercepted(c, command)
  PROVE  RoutingInv'
<1> DEFINE response == Response(c, Number(c), command, TRUE, FALSE, <<c, Number(c)>>)
<1>1. /\ SentGrows /\ Asked(sent', c, Number(c), command)
      /\ command \in Commands /\ Number(c) \in Nat
  BY SendGrows, SendType DEF RequestIntercepted
<1>2. response \in Messages /\ Fits(sent', c, response)
  BY <1>1, ResponseType, OwnResponseFits
<1>3. Enqueue(c, <<response>>)
  BY DEF RequestIntercepted, RespondSynthetic
<1> HIDE DEF response
<1>4. ResponsesMatchRequests'
  <2>1. <<response>> \in Seq(Messages) /\ \A i \in DOMAIN <<response>> : Fits(sent', c, <<response>>[i])
    BY <1>2
  <2> QED
    BY <1>1, <1>3, <2>1, RoutingEnqueue
<1>5. UNCHANGED <<upstream, seqMap, pendingInitialize>>
  BY DEF RequestIntercepted, RespondSynthetic, adapterVars, handshake
<1> QED
  BY <1>1, <1>4, <1>5, RoutingKeepsBuffer, RoutingElsewhere

LEMMA RoutingBuffered ==
  ASSUME TypeOK, RoutingInv, NEW c \in Clients, InitializeBuffered(c)
  PROVE  RoutingInv'
<1> DEFINE request == [client |-> c, seq |-> Number(c)]
<1>1. /\ SentGrows /\ Asked(sent', c, Number(c), "initialize")
      /\ Number(c) \in 1..MaxRequests
  BY SendGrows, SendType DEF InitializeBuffered
<1>2. BufferMatches'
  <2>1. pendingInitialize' = Append(pendingInitialize, request)
    BY DEF InitializeBuffered
  <2>2. pendingInitialize \in Seq(BufferedRequests) /\ request \in BufferedRequests
    BY <1>1 DEF TypeOK, MuxTypeOK, BufferedRequests
  <2>3. Asked(sent', request.client, request.seq, "initialize")
    BY <1>1
  <2> HIDE DEF request
  <2>4. \A i \in DOMAIN pendingInitialize' :
          IF i \in DOMAIN pendingInitialize THEN pendingInitialize'[i] = pendingInitialize[i]
          ELSE pendingInitialize'[i] = request
    BY <2>1, <2>2, AppendProperties
  <2>5. ASSUME NEW i \in DOMAIN pendingInitialize
        PROVE  Asked(sent', pendingInitialize[i].client, pendingInitialize[i].seq, "initialize")
    BY <1>1, BufferEntry DEF RoutingInv, BufferMatches, SentGrows
  <2> QED
    BY <2>3, <2>4, <2>5 DEF BufferMatches
<1>3. UNCHANGED <<upstream, seqMap, outbox>>
  BY DEF InitializeBuffered, adapterVars
<1> QED
  BY <1>1, <1>2, <1>3, RoutingKeepsQueues, RoutingElsewhere

LEMMA RoutingDisconnect ==
  ASSUME TypeOK, RoutingInv, NEW c \in Clients, Disconnect(c)
  PROVE  RoutingInv'
<1>1. UNCHANGED <<upstream, nextSeq, sent, pendingInitialize>>
  BY DEF Disconnect, adapterVars, Seqs!Cleanup
<1>2. SentGrows
  BY <1>1, SentUnchanged
<1>3. Numbered' /\ EntriesMatch' /\ UpstreamMatches'
  BY <1>1, <1>2, ForgetType, RoutingKeepsUpstream DEF Disconnect, Seqs!Cleanup
<1>4. outbox'[c] = <<>> /\ \A d \in Clients : d # c => outbox'[d] = outbox[d]
  BY DEF Disconnect, TypeOK, MuxTypeOK
<1>5. ResponsesMatchRequests'
  BY <1>2, <1>4, RoutingKeepsQueues
<1> QED
  BY <1>1, <1>2, <1>3, <1>5, RoutingKeepsBuffer DEF RoutingInv

LEMMA RoutingClientStep ==
  ASSUME TypeOK, RoutingInv, NEW c \in Clients, ClientStep(c)
  PROVE  RoutingInv'
<1>1. CASE Accept(c) \/ ReverseResponseIgnored(c)
  <2>1. UNCHANGED <<upstream, seqMap, outbox, sent, pendingInitialize>>
    BY <1>1 DEF Accept, ReverseResponseIgnored, adapterVars, handshake
  <2> QED
    BY <2>1, SentUnchanged, RoutingKeepsBuffer, RoutingKeepsQueues, RoutingElsewhere
<1>2. CASE InitializeForwarded(c)
  BY <1>2, RoutingForward DEF InitializeForwarded
<1>3. CASE ConfigurationDoneForwarded(c)
  BY <1>3, RoutingForward DEF ConfigurationDoneForwarded
<1>4. ASSUME NEW command \in Requests, RequestForwarded(c, command) PROVE RoutingInv'
  BY <1>4, RoutingForward DEF RequestForwarded, handshake
<1> QED
  BY <1>1, <1>2, <1>3, <1>4, RoutingDisconnect, RoutingFromCache, RoutingBuffered,
     RoutingIntercepted DEF ClientStep

LEMMA RoutingAdapterStep ==
  ASSUME TypeOK, RoutingInv, AdapterStep
  PROVE  RoutingInv'
<1>1. ASSUME NEW name \in Events, EventBroadcast(name) PROVE RoutingInv'
  <2>1. NextEmission("event", name) \in Emission
    BY EmissionType
  <2>2. UNCHANGED <<upstream, sent, pendingInitialize, seqMap>>
    BY <1>1 DEF EventBroadcast, EmitEvent, Emit, handshake, clientVars
  <2>3. \A c \in Clients : \/ outbox'[c] = outbox[c]
                           \/ outbox'[c] = Append(outbox[c], NextEmission("event", name))
    BY <1>1 DEF EventBroadcast, Broadcast
  <2> QED
    BY <2>1, <2>2, <2>3, RoutingEmission
<1>2. ASSUME NEW command \in ReverseRequests, ReverseRequestRouted(command) PROVE RoutingInv'
  <2>1. NextEmission("request", command) \in Emission
    BY EmissionType
  <2>2. UNCHANGED <<upstream, sent, pendingInitialize, seqMap>>
    BY <1>2 DEF ReverseRequestRouted, EmitReverseRequest, Emit, handshake, clientVars
  <2>3. \A c \in Clients : \/ outbox'[c] = outbox[c]
                           \/ outbox'[c] = Append(outbox[c], NextEmission("request", command))
    BY <1>2 DEF ReverseRequestRouted
  <2> QED
    BY <2>1, <2>2, <2>3, RoutingEmission
<1>3. ASSUME \/ \E name \in Events : EventFiltered(name)
             \/ \E command \in ReverseRequests : ReverseRequestUnknown(command)
             \/ AdapterLost
      PROVE  RoutingInv'
  <2>1. UNCHANGED <<upstream, seqMap, outbox, sent, pendingInitialize>>
    BY <1>3 DEF EventFiltered, ReverseRequestUnknown, AdapterLost, EmitEvent, EmitReverseRequest,
                Emit, Lose, handshake, clientVars
  <2> QED
    BY <2>1, SentUnchanged, RoutingKeepsBuffer, RoutingKeepsQueues, RoutingElsewhere
<1> QED
  BY <1>1, <1>2, <1>3, RoutingAnswers DEF AdapterStep

LEMMA RoutingInitially == Init => RoutingInv
BY DEF Init, AdapterInit, Seqs!SeqMapInit, RoutingInv, Numbered, UpstreamIsNumbered, EntriesMatch,
       UpstreamMatches, BufferMatches, ResponsesMatchRequests

LEMMA RoutingStep == TypeOK /\ RoutingInv /\ [Next]_vars => RoutingInv'
<1>1. ASSUME TypeOK, RoutingInv, UNCHANGED vars PROVE RoutingInv'
  <2>1. UNCHANGED <<upstream, seqMap, outbox, sent, pendingInitialize>>
    BY <1>1 DEF vars, adapterVars, handshake, clientVars
  <2> QED
    BY <1>1, <2>1, SentUnchanged, RoutingKeepsBuffer, RoutingKeepsQueues, RoutingElsewhere
<1> QED
  BY <1>1, RoutingClientStep, RoutingAdapterStep DEF Next

\* Responses go to the client that asked, under its own number and about its
\* own request, whatever the adapter answers, in which order and how often
\* (seq.py:76-84, mux.py:206-236).
THEOREM ResponsesAreRoutedBack == Spec => []ResponsesMatchRequests
<1>1. RoutingInv => ResponsesMatchRequests
  BY DEF RoutingInv
<1> QED
  BY <1>1, RoutingInitially, RoutingStep, TypeCorrect, PTL DEF Spec

\* The adapter sees one gapless numbering, whoever sends (seq.py:58-74).
THEOREM UpstreamNumbersAreGapless == Spec => []UpstreamIsNumbered
<1>1. RoutingInv => UpstreamIsNumbered
  BY DEF RoutingInv, Numbered
<1> QED
  BY <1>1, RoutingInitially, RoutingStep, TypeCorrect, PTL DEF Spec

-----------------------------------------------------------------------------
(* A client that left keeps nothing.                                       *)

\* Entries are made for registered clients only, and only leaving ends that.
LEMMA OwnersElsewhere ==
  ASSUME OwnersRegistered,
         \A s \in DOMAIN pending' : s \in DOMAIN pending /\ pending'[s] = pending[s],
         UNCHANGED initOrder,
         \A c \in Clients : Registered(c) => Registered(c)'
  PROVE  OwnersRegistered'
BY DEF OwnersRegistered, Seqs!Owners

LEMMA OwnersRequest ==
  ASSUME TypeOK, OwnersRegistered, NEW c \in Clients, Registered(c), UNCHANGED connection,
         Range(initOrder') \subseteq Range(initOrder) \cup {c},
         \A s \in DOMAIN pending' : \/ s \in DOMAIN pending /\ pending'[s] = pending[s]
                                    \/ pending'[s].client = c
  PROVE  OwnersRegistered'
BY DEF OwnersRegistered, Seqs!Owners, Registered

LEMMA OwnersForward ==
  ASSUME NEW c \in Clients, NEW command, Forward(c, command)
  PROVE  \A s \in DOMAIN pending' : \/ s \in DOMAIN pending /\ pending'[s] = pending[s]
                                    \/ pending'[s].client = c
BY DEF Forward, Seqs!Allocate

LEMMA OwnersDisconnect ==
  ASSUME TypeOK, KeysDistinct, OwnersRegistered, NEW c \in Clients, Disconnect(c)
  PROVE  OwnersRegistered'
<1>1. /\ \A s \in DOMAIN pending' : s \in DOMAIN pending /\ pending'[s] = pending[s]
      /\ \A s \in DOMAIN pending' : pending'[s].client # c
  <2> DEFINE stale == {s \in DOMAIN pending : pending[s].client = c}
  <2>1. pending' = Seqs!Forget(stale) /\ nextSeq' = nextSeq
    BY DEF Disconnect, Seqs!Cleanup
  <2>2. \A s \in DOMAIN pending \ stale : pending[s].client # c
    OBVIOUS
  <2> HIDE DEF stale
  <2> QED
    BY <2>1, <2>2, ForgetType
<1>2. Range(initOrder') \subseteq Range(initOrder) \ {c}
  BY WithoutKeyProperties DEF Disconnect, KeysDistinct, TypeOK, MuxTypeOK
<1>3. \A d \in Clients : d # c => connection'[d] = connection[d]
  BY DEF Disconnect, TypeOK, MuxTypeOK
<1> QED
  BY <1>1, <1>2, <1>3 DEF OwnersRegistered, Seqs!Owners, Registered

LEMMA OwnersStep == TypeOK /\ KeysDistinct /\ OwnersRegistered /\ [Next]_vars => OwnersRegistered'
<1> SUFFICES ASSUME TypeOK, KeysDistinct, OwnersRegistered, [Next]_vars PROVE OwnersRegistered'
  OBVIOUS
<1>1. ASSUME NEW c \in Clients, InitializeForwarded(c) PROVE OwnersRegistered'
  BY <1>1, OwnersForward, OwnersRequest, CacheInitArgsType DEF InitializeForwarded, Send
<1>2. ASSUME NEW c \in Clients, ConfigurationDoneForwarded(c) PROVE OwnersRegistered'
  BY <1>2, OwnersForward, OwnersRequest DEF ConfigurationDoneForwarded, Send
<1>3. ASSUME NEW c \in Clients, NEW command, RequestForwarded(c, command) PROVE OwnersRegistered'
  BY <1>3, OwnersForward, OwnersRequest DEF RequestForwarded, Send, handshake
<1>4. ASSUME NEW c \in Clients, InitializeFromCache(c) \/ InitializeBuffered(c)
      PROVE  OwnersRegistered'
  <2>1. UNCHANGED pending /\ Send(c, "initialize") /\ CacheInitArgs(c)
    BY <1>4 DEF InitializeFromCache, InitializeBuffered, seqMap
  <2> QED
    BY <2>1, OwnersRequest, CacheInitArgsType DEF Send
<1>5. ASSUME NEW c \in Clients, NEW command, RequestIntercepted(c, command)
      PROVE  OwnersRegistered'
  BY <1>5, OwnersElsewhere
     DEF RequestIntercepted, Send, RespondSynthetic, seqMap, handshake, Registered
<1>6. ASSUME NEW c \in Clients, Accept(c) PROVE OwnersRegistered'
  <2>1. \A d \in Clients : Registered(d) => Registered(d)'
    BY <1>6 DEF Accept, Registered, TypeOK, MuxTypeOK
  <2> QED
    BY <1>6, <2>1, OwnersElsewhere DEF Accept, seqMap, handshake
<1>7. ASSUME NEW c \in Clients, ReverseResponseIgnored(c) PROVE OwnersRegistered'
  BY <1>7, OwnersElsewhere DEF ReverseResponseIgnored, seqMap, handshake, Registered
<1>8. ASSUME NEW r, AnswerStep(r) PROVE OwnersRegistered'
  <2>1. Seqs!Resolve(r.seq) /\ UNCHANGED <<initOrder, connection>>
    BY <1>8 DEF AnswerStep, InitializeResponse, OtherResponse, RouteResponse, handshake, clientVars
  <2>2. \A s \in DOMAIN pending' : s \in DOMAIN pending /\ pending'[s] = pending[s]
    BY <2>1, ForgetType DEF Seqs!Resolve
  <2> QED
    BY <2>1, <2>2, OwnersElsewhere DEF Registered
<1>9. ASSUME \/ \E name \in Events : EventBroadcast(name) \/ EventFiltered(name)
             \/ \E command \in ReverseRequests :
                  ReverseRequestRouted(command) \/ ReverseRequestUnknown(command)
             \/ AdapterLost
             \/ UNCHANGED vars
      PROVE  OwnersRegistered'
  <2>1. UNCHANGED <<pending, initOrder, connection>>
    BY <1>9 DEF EventBroadcast, EventFiltered, ReverseRequestRouted, ReverseRequestUnknown,
                AdapterLost, vars, seqMap, handshake, clientVars
  <2> QED
    BY <2>1, OwnersElsewhere DEF Registered
<1> QED
  BY <1>1, <1>2, <1>3, <1>4, <1>5, <1>6, <1>7, <1>8, <1>9, OwnersDisconnect
     DEF Next, ClientStep, AdapterStep

\* What the multiplexer keeps about a client goes with the client: hence the
\* client a response is resolved to is registered, and so is the client picked
\* for a reverse request (mux.py:227-230, 295-304, 306-313).
THEOREM LeaversAreForgotten == Spec => []OwnersRegistered
<1>1. Init => OwnersRegistered
  BY DEF Init, OwnersRegistered, Seqs!SeqMapInit, Seqs!Owners, Range
<1> QED
  BY <1>1, OwnersStep, TypesInvariant, PTL DEF Spec

=============================================================================
