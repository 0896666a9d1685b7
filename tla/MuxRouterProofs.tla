-------------------------- MODULE MuxRouterProofs ---------------------------
(***************************************************************************)
(* The fate of requests: each has exactly one, and the multiplexer         *)
(* implements the abstract router of module Router.                        *)
(***************************************************************************)
EXTENDS MuxSafetyProofs, FiniteSetTheorems

-----------------------------------------------------------------------------
(* The inductive invariant.                                                *)

\* A client that has not connected yet has sent nothing (mux.py:111).
NewIsSilent == \A c \in Clients : connection[c] = "new" => sent[c] = <<>>

\* A request stands in the map under one number only (seq.py:65-73).
PendingOnce == \A s, t \in DOMAIN pending : pending[s] = pending[t] => s = t

\* A client is in the buffer once (mux.py:154-157).
BufferedOnce ==
  \A i, j \in DOMAIN pendingInitialize :
    pendingInitialize[i].client = pendingInitialize[j].client => i = j

\* Request n of client c is answered once, or waits, or is buffered.
Fated(c, n) ==
  /\ \A i, j \in ResponsesTo(c, n) : i = j
  /\ ResponsesTo(c, n) # {} \/ Waiting(c, n) \/ Buffered(c, n)
  /\ ResponsesTo(c, n) # {} => ~Waiting(c, n) /\ ~Buffered(c, n)
  /\ ~(Waiting(c, n) /\ Buffered(c, n))

OneFate == \A c \in Clients : Registered(c) => \A n \in DOMAIN sent[c] : Fated(c, n)

FateInv == NewIsSilent /\ PendingOnce /\ BufferedOnce /\ OneFate

\* What has a fate was sent.
LEMMA FatesAreOfRequests ==
  ASSUME TypeOK, RoutingInv, NEW c \in Clients, NEW n,
         ResponsesTo(c, n) # {} \/ Waiting(c, n) \/ Buffered(c, n)
  PROVE  n \in DOMAIN sent[c]
<1>1. CASE ResponsesTo(c, n) # {}
  BY <1>1 DEF ResponsesTo, RoutingInv, ResponsesMatchRequests
<1>2. CASE Waiting(c, n)
  <2>1. PICK s \in DOMAIN pending : pending[s] = [client |-> c, clientSeq |-> n]
    BY <1>2 DEF Waiting, Range
  <2>2. s \in DOMAIN upstream /\ upstream[s].client = c /\ upstream[s].clientSeq = n
    BY <2>1 DEF RoutingInv, Numbered, EntriesMatch
  <2> QED
    BY <2>2 DEF RoutingInv, UpstreamMatches, Asked
<1>3. CASE Buffered(c, n)
  <2>1. PICK i \in DOMAIN pendingInitialize : pendingInitialize[i] = [client |-> c, seq |-> n]
    BY <1>3 DEF Buffered, Range
  <2> QED
    BY <2>1 DEF RoutingInv, BufferMatches, Asked
<1> QED
  BY <1>1, <1>2, <1>3

\* The next request of a client has no fate yet.
LEMMA NextIsOpen ==
  ASSUME TypeOK, RoutingInv, NEW c \in Clients
  PROVE  /\ ResponsesTo(c, Number(c)) = {}
         /\ ~Waiting(c, Number(c)) /\ ~Buffered(c, Number(c))
<1>1. Number(c) \notin DOMAIN sent[c]
  BY DEF Number, TypeOK, MuxTypeOK
<1> QED
  BY <1>1, FatesAreOfRequests

-----------------------------------------------------------------------------
(* Responses in a queue.                                                   *)

ResponsesIn(q, n) == {i \in DOMAIN q : q[i].type = "response" /\ q[i].seq = n}

\* Messages that are not about request n change nothing for it.
LEMMA AppendOther ==
  ASSUME NEW q \in Seq(Messages), NEW m \in Messages, NEW n, m.type = "response" => m.seq # n
  PROVE  ResponsesIn(Append(q, m), n) = ResponsesIn(q, n)
BY AppendProperties DEF ResponsesIn

LEMMA AppendResponse ==
  ASSUME NEW q \in Seq(Messages), NEW m \in Messages, m.type = "response"
  PROVE  /\ ResponsesIn(Append(q, m), m.seq) = ResponsesIn(q, m.seq) \cup {Len(q) + 1}
         /\ \A n : n # m.seq => ResponsesIn(Append(q, m), n) = ResponsesIn(q, n)
BY AppendProperties DEF ResponsesIn

LEMMA ReplayType == \A event \in Emission \cup {NoEvent} : Replay(event) \in Seq(Messages)
<1>1. \A event \in Emission : <<event>> \in Seq(Messages)
  BY DEF Messages
<1>2. <<>> \in Seq(Messages)
  BY EmptySeq
<1> QED
  BY <1>1, <1>2 DEF Replay

LEMMA ReplayIsNoResponse ==
  ASSUME NEW q \in Seq(Messages), NEW event \in Emission \cup {NoEvent}
  PROVE  /\ q \o Replay(event) \in Seq(Messages)
         /\ \A n : ResponsesIn(q \o Replay(event), n) = ResponsesIn(q, n)
<1>1. CASE event = NoEvent
  <2>1. Replay(event) = <<>>
    BY <1>1 DEF Replay
  <2> QED
    BY <2>1, ConcatEmptySeq
<1>2. CASE event # NoEvent
  <2>1. event \in Messages /\ event.type # "response"
    BY <1>2 DEF Messages, Emission
  <2>2. q \o Replay(event) = Append(q, event)
    BY <1>2, <2>1, AppendIsConcat DEF Replay
  <2> QED
    BY <2>1, <2>2, AppendOther, AppendProperties
<1> QED
  BY <1>1, <1>2

\* The cached answer is one response, to the request it is for (mux.py:238-263).
LEMMA CachedInitializeAnswers ==
  ASSUME TypeOK, NEW q \in Seq(Messages), NEW c \in Clients, NEW n \in Nat, NEW caps \in BOOLEAN
  PROVE  LET longer == q \o CachedInitialize(c, n, caps)
         IN /\ ResponsesIn(longer, n) = ResponsesIn(q, n) \cup {Len(q) + 1}
            /\ \A k : k # n => ResponsesIn(longer, k) = ResponsesIn(q, k)
<1> DEFINE response == Response(c, n, "initialize", TRUE, caps, <<c, n>>)
           first == Replay(initializedEvent)
           second == Replay(lastStoppedEvent)
<1>1. response \in Messages /\ response.type = "response" /\ response.seq = n
  <2>1. "initialize" \in Commands
    BY DEF Commands
  <2> QED
    BY <2>1, ResponseType DEF Response
<1>2. /\ initializedEvent \in Emission \cup {NoEvent}
      /\ lastStoppedEvent \in Emission \cup {NoEvent}
  BY DEF TypeOK, MuxTypeOK
<1>3. first \in Seq(Messages) /\ second \in Seq(Messages)
  BY <1>2, ReplayType
<1>4. CachedInitialize(c, n, caps) = (<<response>> \o first) \o second
  BY DEF CachedInitialize
<1> HIDE DEF response
<1> DEFINE q1 == Append(q, response)
           q2 == q1 \o first
<1>5. q1 \in Seq(Messages) /\ q1 = q \o <<response>> /\ <<response>> \in Seq(Messages)
  BY <1>1, AppendProperties, AppendIsConcat
<1>6. q2 \in Seq(Messages) /\ \A k : ResponsesIn(q2, k) = ResponsesIn(q1, k)
  BY <1>2, <1>5, ReplayIsNoResponse
<1>7. \A k : ResponsesIn(q2 \o second, k) = ResponsesIn(q2, k)
  BY <1>2, <1>6, ReplayIsNoResponse
<1>8. q \o CachedInitialize(c, n, caps) = q2 \o second
  <2> HIDE DEF first, second
  <2>1. q \o ((<<response>> \o first) \o second) = (q \o (<<response>> \o first)) \o second
    BY <1>3, <1>5, ConcatAssociative, ConcatProperties, SMTT(30)
  <2>2. q \o (<<response>> \o first) = (q \o <<response>>) \o first
    BY <1>3, <1>5, ConcatAssociative, SMTT(30)
  <2> QED
    BY <1>4, <1>5, <2>1, <2>2
<1>9. /\ ResponsesIn(q1, n) = ResponsesIn(q, n) \cup {Len(q) + 1}
      /\ \A k : k # n => ResponsesIn(q1, k) = ResponsesIn(q, k)
  BY <1>1, AppendResponse
<1> HIDE DEF q1, q2, second
<1> QED
  BY <1>6, <1>7, <1>8, <1>9

-----------------------------------------------------------------------------
(* Steps that change no fate, or that of one request.                      *)

SameFate(c, n) ==
  /\ ResponsesTo(c, n)' = ResponsesTo(c, n)
  /\ Waiting(c, n)' <=> Waiting(c, n)
  /\ Buffered(c, n)' <=> Buffered(c, n)

LEMMA QueueResponses ==
  ASSUME NEW c, NEW n
  PROVE  /\ ResponsesTo(c, n) = ResponsesIn(outbox[c], n)
         /\ ResponsesTo(c, n)' = ResponsesIn(outbox'[c], n)
BY DEF ResponsesTo, ResponsesIn

\* The queue of another client is none of a step's business.
LEMMA EnqueueElsewhere ==
  ASSUME TypeOK, NEW c \in Clients, NEW more, Enqueue(c, more)
  PROVE  /\ outbox'[c] = outbox[c] \o more
         /\ \A d \in Clients : d # c => outbox'[d] = outbox[d]
BY DEF Enqueue, TypeOK, MuxTypeOK

\* A client sends a request, which gets a fate; the others keep theirs.
LEMMA FateOfSent ==
  ASSUME TypeOK, RoutingInv, OneFate, NewIsSilent,
         NEW c \in Clients, NEW command, Send(c, command),
         \A d \in Clients : \A n : <<d, n>> # <<c, Number(c)>> => SameFate(d, n),
         \A n : n = Number(c) => Fated(c, n)'
  PROVE  OneFate' /\ NewIsSilent'
<1>1. /\ connection' = connection
      /\ connection[c] # "new"
      /\ \A d \in Clients : d # c => sent'[d] = sent[d]
      /\ \A n \in DOMAIN sent'[c] : n \in DOMAIN sent[c] \/ n = Number(c)
  <2>1. sent[c] \in Seq(Commands) /\ sent' = [sent EXCEPT ![c] = Append(sent[c], command)]
    BY DEF Send, TypeOK, MuxTypeOK
  <2>2. sent'[c] = Append(sent[c], command)
    BY <2>1 DEF TypeOK, MuxTypeOK
  <2>3. DOMAIN sent'[c] = 1..Len(sent[c])+1 /\ DOMAIN sent[c] = 1..Len(sent[c])
    BY <2>1, <2>2
  <2> QED
    BY <2>3, SendType DEF Send, Registered, Number
<1>2. ASSUME NEW d \in Clients, Registered(d)', NEW n \in DOMAIN sent'[d]
      PROVE  Fated(d, n)'
  <2>1. CASE d = c /\ n = Number(c)
    BY <2>1
  <2>2. CASE ~(d = c /\ n = Number(c))
    <3>1. n \in DOMAIN sent[d] /\ Registered(d)
      BY <1>1, <1>2, <2>2 DEF Registered
    <3>2. Fated(d, n) /\ SameFate(d, n)
      BY <2>2, <3>1 DEF OneFate
    <3> QED
      BY <3>2 DEF Fated, SameFate
  <2> QED
    BY <2>1, <2>2
<1> QED
  BY <1>1, <1>2 DEF OneFate, NewIsSilent

\* A step of the adapter's side or one that sends nothing.
LEMMA FateUndisturbed ==
  ASSUME OneFate, NewIsSilent, UNCHANGED <<connection, sent>>,
         \A d \in Clients : \A n : Registered(d) => SameFate(d, n)
  PROVE  OneFate' /\ NewIsSilent'
<1>1. NewIsSilent'
  BY DEF NewIsSilent
<1>2. ASSUME NEW d \in Clients, Registered(d)', NEW n \in DOMAIN sent'[d]
      PROVE  Fated(d, n)'
  BY <1>2 DEF OneFate, Registered, Fated, SameFate
<1> QED
  BY <1>1, <1>2 DEF OneFate

LEMMA FateUntouched ==
  ASSUME UNCHANGED <<outbox, pending, pendingInitialize>>, NEW c, NEW n
  PROVE  SameFate(c, n)
BY DEF SameFate, ResponsesTo, Waiting, Buffered

-----------------------------------------------------------------------------
(* The steps of clients.                                                   *)

\* A request that is forwarded waits in the map (mux.py:184-190).
LEMMA FateForwarded ==
  ASSUME TypeOK, RoutingInv, FateInv, NEW c \in Clients, NEW command, Send(c, command),
         Forward(c, command), UNCHANGED <<pendingInitialize, outbox>>
  PROVE  FateInv'
<1> DEFINE entry == [client |-> c, clientSeq |-> Number(c)]
<1>1. /\ DOMAIN pending' = DOMAIN pending \cup {nextSeq}
      /\ nextSeq \notin DOMAIN pending
      /\ pending'[nextSeq] = entry
      /\ \A s \in DOMAIN pending : pending'[s] = pending[s]
  <2>1. nextSeq \notin DOMAIN pending
    BY DEF RoutingInv, Numbered, TypeOK, AdapterTypeOK
  <2> QED
    BY <2>1 DEF Forward, Seqs!Allocate
<1>2. /\ ResponsesTo(c, Number(c)) = {}
      /\ ~Waiting(c, Number(c)) /\ ~Buffered(c, Number(c))
  BY NextIsOpen
<1>3. PendingOnce'
  <2>1. \A s \in DOMAIN pending : pending[s] # entry
    BY <1>2 DEF Waiting, Range
  <2> HIDE DEF entry
  <2> QED
    BY <1>1, <2>1 DEF FateInv, PendingOnce
<1>4. BufferedOnce'
  BY DEF FateInv, BufferedOnce
<1>5. \A d, n : Waiting(d, n)' <=> Waiting(d, n) \/ <<d, n>> = <<c, Number(c)>>
  BY <1>1 DEF Waiting, Range
<1>6. \A d, n : /\ ResponsesTo(d, n)' = ResponsesTo(d, n)
                /\ Buffered(d, n)' <=> Buffered(d, n)
  BY DEF ResponsesTo, Buffered
<1>7. \A d, n : <<d, n>> # <<c, Number(c)>> => SameFate(d, n)
  BY <1>5, <1>6 DEF SameFate
<1>8. \A n : n = Number(c) => Fated(c, n)'
  BY <1>2, <1>5, <1>6 DEF Fated
<1> QED
  BY <1>3, <1>4, <1>7, <1>8, FateOfSent DEF FateInv

\* A request that is answered on the spot (mux.py:146-148, 162-182).
LEMMA FateAnswered ==
  ASSUME TypeOK, RoutingInv, FateInv, NEW c \in Clients, NEW command, Send(c, command),
         UNCHANGED <<pendingInitialize, pending>>,
         \A d \in Clients : d # c => outbox'[d] = outbox[d],
         NEW p, ResponsesIn(outbox'[c], Number(c)) = ResponsesIn(outbox[c], Number(c)) \cup {p},
         \A n : n # Number(c) => ResponsesIn(outbox'[c], n) = ResponsesIn(outbox[c], n)
  PROVE  /\ FateInv'
         /\ \A n : n = Number(c) => ResponsesTo(c, n)' = {p}
         /\ \A d \in Clients : \A n :
              <<d, n>> # <<c, Number(c)>> => ResponsesTo(d, n)' = ResponsesTo(d, n)
<1>1. /\ ResponsesTo(c, Number(c)) = {}
      /\ ~Waiting(c, Number(c)) /\ ~Buffered(c, Number(c))
  BY NextIsOpen
<1>2. PendingOnce' /\ BufferedOnce'
  BY DEF FateInv, PendingOnce, BufferedOnce
<1>3. \A d, n : /\ Waiting(d, n)' <=> Waiting(d, n)
                /\ Buffered(d, n)' <=> Buffered(d, n)
  BY DEF Waiting, Buffered
<1>4. \A d \in Clients : \A n :
        <<d, n>> # <<c, Number(c)>> => ResponsesTo(d, n)' = ResponsesTo(d, n)
  BY QueueResponses
<1>5. \A n : n = Number(c) => ResponsesTo(c, n)' = {p}
  BY <1>1, QueueResponses
<1>6. \A n : n = Number(c) => Fated(c, n)'
  BY <1>1, <1>3, <1>5 DEF Fated
<1>7. \A d \in Clients : \A n : <<d, n>> # <<c, Number(c)>> => SameFate(d, n)
  BY <1>3, <1>4 DEF SameFate
<1> QED
  BY <1>2, <1>4, <1>5, <1>6, <1>7, FateOfSent DEF FateInv

LEMMA FateFromCache ==
  ASSUME TypeOK, RoutingInv, FateInv, NEW c \in Clients, InitializeFromCache(c)
  PROVE  /\ FateInv'
         /\ \E p : \A n : n = Number(c) => ResponsesTo(c, n)' = {p}
         /\ \A d \in Clients : \A n :
              <<d, n>> # <<c, Number(c)>> => ResponsesTo(d, n)' = ResponsesTo(d, n)
<1> DEFINE more == CachedInitialize(c, Number(c), capabilities)
<1>1. /\ Number(c) \in Nat /\ capabilities \in BOOLEAN
      /\ outbox[c] \in Seq(Messages)
  BY SendType DEF InitializeFromCache, TypeOK, MuxTypeOK
<1>2. /\ ResponsesIn(outbox[c] \o more, Number(c))
           = ResponsesIn(outbox[c], Number(c)) \cup {Len(outbox[c]) + 1}
      /\ \A n : n # Number(c) => ResponsesIn(outbox[c] \o more, n) = ResponsesIn(outbox[c], n)
  BY <1>1, CachedInitializeAnswers
<1>3. outbox'[c] = outbox[c] \o more /\ \A d \in Clients : d # c => outbox'[d] = outbox[d]
  BY EnqueueElsewhere DEF InitializeFromCache
<1> HIDE DEF more
<1>4. Send(c, "initialize") /\ UNCHANGED <<pendingInitialize, pending>>
  BY DEF InitializeFromCache, seqMap
<1> QED
  BY <1>2, <1>3, <1>4, FateAnswered

LEMMA FateIntercepted ==
  ASSUME TypeOK, RoutingInv, FateInv, NEW c \in Clients, NEW command,
         RequestIntercepted(c, command)
  PROVE  /\ FateInv'
         /\ \E p : \A n : n = Number(c) => ResponsesTo(c, n)' = {p}
         /\ \A d \in Clients : \A n :
              <<d, n>> # <<c, Number(c)>> => ResponsesTo(d, n)' = ResponsesTo(d, n)
<1> DEFINE response == Response(c, Number(c), command, TRUE, FALSE, <<c, Number(c)>>)
<1>1. Number(c) \in Nat /\ command \in Commands /\ outbox[c] \in Seq(Messages)
  BY SendType DEF RequestIntercepted, TypeOK, MuxTypeOK
<1>2. response \in Messages /\ response.type = "response" /\ response.seq = Number(c)
  <2>1. response \in Messages
    BY <1>1, ResponseType
  <2> QED
    BY <2>1 DEF Response
<1>3. outbox'[c] = outbox[c] \o <<response>> /\ \A d \in Clients : d # c => outbox'[d] = outbox[d]
  BY EnqueueElsewhere DEF RequestIntercepted, RespondSynthetic
<1> HIDE DEF response
<1>4. outbox'[c] = Append(outbox[c], response)
  BY <1>1, <1>2, <1>3, AppendIsConcat
<1>5. /\ ResponsesIn(outbox'[c], Number(c))
           = ResponsesIn(outbox[c], Number(c)) \cup {Len(outbox[c]) + 1}
      /\ \A n : n # Number(c) => ResponsesIn(outbox'[c], n) = ResponsesIn(outbox[c], n)
  <2> DEFINE q == outbox[c]
  <2>1. q \in Seq(Messages)
    BY <1>1
  <2> HIDE DEF q
  <2>2. /\ ResponsesIn(Append(q, response), response.seq)
             = ResponsesIn(q, response.seq) \cup {Len(q) + 1}
        /\ \A n : n # response.seq => ResponsesIn(Append(q, response), n) = ResponsesIn(q, n)
    BY <1>2, <2>1, AppendResponse
  <2> QED
    BY <1>2, <1>4, <2>2 DEF q
<1>6. Send(c, command) /\ UNCHANGED <<pendingInitialize, pending>>
  BY DEF RequestIntercepted, RespondSynthetic, seqMap, handshake
<1> QED
  BY <1>3, <1>5, <1>6, FateAnswered

\* An initialize that is buffered (mux.py:150-157): the client has none there
\* yet, as it would be unanswered.
LEMMA FateBuffered ==
  ASSUME TypeOK, RoutingInv, FateInv, NEW c \in Clients, InitializeBuffered(c)
  PROVE  FateInv'
<1> DEFINE request == [client |-> c, seq |-> Number(c)]
<1>1. /\ Send(c, "initialize")
      /\ Number(c) \in 1..MaxRequests
      /\ UNCHANGED <<outbox, pending>>
      /\ pendingInitialize' = Append(pendingInitialize, request)
      /\ pendingInitialize \in Seq(BufferedRequests)
  BY SendType DEF InitializeBuffered, seqMap, TypeOK, MuxTypeOK
<1>2. request \in BufferedRequests
  BY <1>1 DEF BufferedRequests
<1>3. /\ ResponsesTo(c, Number(c)) = {}
      /\ ~Waiting(c, Number(c)) /\ ~Buffered(c, Number(c))
  BY NextIsOpen
<1>4. \A i \in DOMAIN pendingInitialize : pendingInitialize[i].client # c
  <2>1. ASSUME NEW i \in DOMAIN pendingInitialize, pendingInitialize[i].client = c PROVE FALSE
    <3> DEFINE n == pendingInitialize[i].seq
    <3>1. pendingInitialize[i] \in BufferedRequests
      BY <1>1, ElementOfSeq
    <3>2. pendingInitialize[i] = [client |-> c, seq |-> n]
      BY <2>1, <3>1 DEF BufferedRequests
    <3>3. Buffered(c, n)
      BY <3>2 DEF Buffered, Range
    <3>4. n \in DOMAIN sent[c] /\ sent[c][n] = "initialize"
      BY <2>1 DEF RoutingInv, BufferMatches, Asked
    <3>5. ResponsesTo(c, n) # {} /\ Registered(c)
      BY <1>1, <3>4 DEF Send, MaySend
    <3> QED
      BY <3>3, <3>4, <3>5 DEF FateInv, OneFate, Fated
  <2> QED
    BY <2>1
<1>5. /\ Len(pendingInitialize) \in Nat
      /\ DOMAIN pendingInitialize = 1..Len(pendingInitialize)
      /\ DOMAIN pendingInitialize' = 1..Len(pendingInitialize)+1
      /\ \A i \in 1..Len(pendingInitialize) : pendingInitialize'[i] = pendingInitialize[i]
      /\ pendingInitialize'[Len(pendingInitialize)+1] = request
  BY <1>1, <1>2, AppendProperties
<1>6. BufferedOnce'
  BY <1>4, <1>5 DEF FateInv, BufferedOnce
<1>7. PendingOnce'
  BY <1>1 DEF FateInv, PendingOnce
<1>8. \A d, n : Buffered(d, n)' <=> Buffered(d, n) \/ <<d, n>> = <<c, Number(c)>>
  <2>1. Range(pendingInitialize') = Range(pendingInitialize) \cup {request}
    <3> HIDE DEF request
    <3> QED
      BY <1>5 DEF Range
  <2> QED
    BY <2>1 DEF Buffered
<1>9. \A d, n : /\ ResponsesTo(d, n)' = ResponsesTo(d, n)
                /\ Waiting(d, n)' <=> Waiting(d, n)
  BY <1>1 DEF ResponsesTo, Waiting
<1>10. \A d, n : <<d, n>> # <<c, Number(c)>> => SameFate(d, n)
  BY <1>8, <1>9 DEF SameFate
<1>11. \A n : n = Number(c) => Fated(c, n)'
  BY <1>3, <1>8, <1>9 DEF Fated
<1> QED
  BY <1>1, <1>6, <1>7, <1>10, <1>11, FateOfSent DEF FateInv

\* A client leaves: the entries of the others stay (mux.py:306-313, seq.py:86-99).
LEMMA FateDisconnect ==
  ASSUME TypeOK, RoutingInv, FateInv, NEW c \in Clients, Disconnect(c)
  PROVE  /\ FateInv'
         /\ \A n : ResponsesTo(c, n)' = {}
         /\ \A d \in Clients : \A n : d # c => ResponsesTo(d, n)' = ResponsesTo(d, n)
<1>1. /\ UNCHANGED <<sent, pendingInitialize>>
      /\ connection' = [connection EXCEPT ![c] = "gone"]
      /\ Registered(c)
      /\ outbox'[c] = <<>>
      /\ \A d \in Clients : d # c => outbox'[d] = outbox[d]
  BY DEF Disconnect, TypeOK, MuxTypeOK
<1>2. /\ DOMAIN pending' = DOMAIN pending \ {s \in DOMAIN pending : pending[s].client = c}
      /\ \A s \in DOMAIN pending' : pending'[s] = pending[s]
  BY ForgetType DEF Disconnect, Seqs!Cleanup
<1>3. /\ connection'[c] = "gone"
      /\ \A d \in Clients : d # c => connection'[d] = connection[d]
  BY <1>1 DEF TypeOK, MuxTypeOK
<1>4. PendingOnce' /\ BufferedOnce' /\ NewIsSilent'
  BY <1>1, <1>2, <1>3 DEF FateInv, PendingOnce, BufferedOnce, NewIsSilent
<1>5. \A d \in Clients : \A n : d # c => SameFate(d, n)
  <2> TAKE d \in Clients
  <2> TAKE n
  <2> HAVE d # c
  <2>1. Waiting(d, n)' <=> Waiting(d, n)
    <3>1. \A s \in DOMAIN pending :
            pending[s] = [client |-> d, clientSeq |-> n] => s \in DOMAIN pending'
      BY <1>2
    <3> QED
      BY <1>2, <3>1 DEF Waiting, Range
  <2>2. ResponsesTo(d, n)' = ResponsesTo(d, n)
    BY <1>1, QueueResponses
  <2>3. Buffered(d, n)' <=> Buffered(d, n)
    BY <1>1 DEF Buffered
  <2> QED
    BY <2>1, <2>2, <2>3 DEF SameFate
<1>6. OneFate'
  <2>1. ASSUME NEW d \in Clients, Registered(d)', NEW n \in DOMAIN sent'[d]
        PROVE  Fated(d, n)'
    BY <1>1, <1>3, <1>5, <2>1 DEF FateInv, OneFate, Registered, Fated, SameFate
  <2> QED
    BY <2>1 DEF OneFate
<1>7. \A n : ResponsesTo(c, n)' = {}
  BY <1>1 DEF ResponsesTo
<1> QED
  BY <1>4, <1>5, <1>6, <1>7 DEF FateInv, SameFate

\* A client connects (mux.py:111-126): it has sent nothing yet.
LEMMA FateAccept ==
  ASSUME TypeOK, FateInv, NEW c \in Clients, Accept(c)
  PROVE  FateInv'
<1>1. /\ UNCHANGED <<sent, pending, pendingInitialize, outbox>>
      /\ sent[c] = <<>>
      /\ connection'[c] = "registered"
      /\ \A d \in Clients : d # c => connection'[d] = connection[d]
  BY DEF Accept, seqMap, handshake, FateInv, NewIsSilent, TypeOK, MuxTypeOK
<1>2. PendingOnce' /\ BufferedOnce' /\ NewIsSilent'
  BY <1>1 DEF FateInv, PendingOnce, BufferedOnce, NewIsSilent
<1>3. ASSUME NEW d \in Clients, Registered(d)', NEW n \in DOMAIN sent'[d]
      PROVE  Fated(d, n)'
  <2>1. d # c
    BY <1>1, <1>3
  <2>2. Fated(d, n) /\ SameFate(d, n)
    BY <1>1, <1>3, <2>1, FateUntouched DEF FateInv, OneFate, Registered
  <2> QED
    BY <2>2 DEF Fated, SameFate
<1> QED
  BY <1>2, <1>3 DEF FateInv, OneFate

-----------------------------------------------------------------------------
(* The steps of the adapter.                                               *)

\* Is request n of client d the one that waits under the proxy number s?
Hit(s, d, n) == s \in DOMAIN pending /\ pending[s] = [client |-> d, clientSeq |-> n]

\* The response reaches the queue of the client that waits for it, and it waits
\* no longer (mux.py:222-233).
LEMMA FateRouted ==
  ASSUME TypeOK, PendingOnce, NEW k \in DOMAIN upstream, NEW ok \in BOOLEAN,
         NEW queues \in [Clients -> Seq(Messages)], RouteResponse(queues, upstream[k], ok)
  PROVE  /\ PendingOnce'
         /\ \A d \in Clients : \A n :
              /\ Waiting(d, n)' <=> Waiting(d, n) /\ ~Hit(upstream[k].seq, d, n)
              /\ IF Hit(upstream[k].seq, d, n) /\ Registered(d)
                 THEN \E p : ResponsesTo(d, n)' = ResponsesIn(queues[d], n) \cup {p}
                 ELSE ResponsesTo(d, n)' = ResponsesIn(queues[d], n)
<1> DEFINE r == upstream[k]
           s == r.seq
           entry == pending[s]
           caps == ok /\ r.command = "initialize"
           response == Response(entry.client, entry.clientSeq, r.command, ok, caps,
                                <<r.client, r.clientSeq>>)
<1>1. /\ DOMAIN pending' = DOMAIN pending \ {s}
      /\ \A t \in DOMAIN pending' : pending'[t] = pending[t]
  BY ForgetType DEF RouteResponse, Seqs!Resolve
<1>2. PendingOnce'
  BY <1>1 DEF PendingOnce
<1>3. \A d, n : Waiting(d, n)' <=> Waiting(d, n) /\ ~Hit(s, d, n)
  <2> TAKE d, n
  <2> DEFINE e == [client |-> d, clientSeq |-> n]
  <2>1. /\ Waiting(d, n) <=> \E t \in DOMAIN pending : pending[t] = e
        /\ Waiting(d, n)' <=> \E t \in DOMAIN pending' : pending'[t] = e
        /\ Hit(s, d, n) <=> s \in DOMAIN pending /\ pending[s] = e
    BY DEF Waiting, Range, Hit
  <2> HIDE DEF e, s
  <2> QED
    BY <1>1, <2>1 DEF PendingOnce
<1>4. CASE s \in DOMAIN pending /\ Registered(entry.client)
  <2>1. entry.client \in Clients /\ entry.clientSeq \in Nat
    BY <1>4 DEF TypeOK, Seqs!SeqMapTypeOK, Seqs!PendingRequest
  <2>2. r.command \in Commands /\ r.client \in Clients /\ r.clientSeq \in Nat
    BY UpstreamEntry DEF Forwarded
  <2>3. response \in Messages
    BY <2>1, <2>2, ResponseType
  <2>4. response.type = "response" /\ response.seq = entry.clientSeq
    BY DEF Response
  <2>5. outbox' = [queues EXCEPT ![entry.client] = Append(queues[entry.client], response)]
    BY <1>4 DEF RouteResponse
  <2>6. \A d, n : Hit(s, d, n) <=> d = entry.client /\ n = entry.clientSeq
    <3>1. entry = [client |-> entry.client, clientSeq |-> entry.clientSeq]
      BY <1>4 DEF TypeOK, Seqs!SeqMapTypeOK, Seqs!PendingRequest
    <3> HIDE DEF s
    <3> QED
      BY <1>4, <3>1 DEF Hit
  <2> HIDE DEF response
  <2> DEFINE c == entry.client
             q == queues[c]
             last == Len(q) + 1
  <2>7. q \in Seq(Messages)
    BY <2>1
  <2>8. outbox'[c] = Append(q, response) /\ \A d \in Clients : d # c => outbox'[d] = queues[d]
    BY <2>1, <2>5
  <2> HIDE DEF q
  <2>9. /\ ResponsesIn(Append(q, response), response.seq) = ResponsesIn(q, response.seq) \cup {last}
        /\ \A n : n # response.seq => ResponsesIn(Append(q, response), n) = ResponsesIn(q, n)
    BY <2>3, <2>4, <2>7, AppendResponse
  <2> HIDE DEF last, c, s, entry
  <2>10. ASSUME NEW d \in Clients, NEW n
         PROVE  IF Hit(s, d, n) /\ Registered(d)
                THEN \E p : ResponsesTo(d, n)' = ResponsesIn(queues[d], n) \cup {p}
                ELSE ResponsesTo(d, n)' = ResponsesIn(queues[d], n)
    <3>1. CASE d # c
      BY <2>6, <2>8, <3>1, QueueResponses DEF c
    <3>2. CASE d = c
      <4>1. /\ ResponsesTo(d, n)' = ResponsesIn(Append(q, response), n)
            /\ ResponsesIn(queues[d], n) = ResponsesIn(q, n)
        BY <2>8, <3>2, QueueResponses DEF q
      <4>2. Registered(d)
        BY <1>4, <3>2 DEF c
      <4>3. Hit(s, d, n) <=> n = response.seq
        BY <2>4, <2>6, <3>2 DEF c
      <4> QED
        BY <2>9, <4>1, <4>2, <4>3
    <3> QED
      BY <3>1, <3>2
  <2> QED
    BY <1>2, <1>3, <2>10 DEF s
<1>5. CASE ~(s \in DOMAIN pending /\ Registered(entry.client))
  <2>1. outbox' = queues
    BY <1>5 DEF RouteResponse
  <2>2. \A d \in Clients : \A n : ~(Hit(s, d, n) /\ Registered(d))
    BY <1>5 DEF Hit
  <2>3. \A d \in Clients : \A n : ResponsesTo(d, n)' = ResponsesIn(queues[d], n)
    BY <2>1, QueueResponses
  <2> HIDE DEF s
  <2> QED
    BY <1>2, <1>3, <2>2, <2>3 DEF s
<1> QED
  BY <1>4, <1>5

\* Flushing answers the buffered initialize of each client that is there, and
\* nothing else (mux.py:218-219).
LEMMA FateFlushed ==
  ASSUME TypeOK, BufferedOnce, NEW d \in Clients, NEW n
  PROVE  LET queue == outbox[d] \o BufferedReplies(d)
         IN IF Registered(d) /\ Buffered(d, n)
            THEN \E p : ResponsesIn(queue, n) = ResponsesTo(d, n) \cup {p}
            ELSE ResponsesIn(queue, n) = ResponsesTo(d, n)
<1> DEFINE mine == {i \in DOMAIN pendingInitialize : pendingInitialize[i].client = d}
           i == CHOOSE j \in mine : TRUE
           m == pendingInitialize[i].seq
           queue == outbox[d] \o BufferedReplies(d)
<1>1. outbox[d] \in Seq(Messages) /\ ResponsesTo(d, n) = ResponsesIn(outbox[d], n)
  BY QueueResponses DEF TypeOK, MuxTypeOK
<1>2. \A j \in DOMAIN pendingInitialize :
        pendingInitialize[j] = [client |-> pendingInitialize[j].client,
                                seq |-> pendingInitialize[j].seq]
  <2>1. \A j \in DOMAIN pendingInitialize : pendingInitialize[j] \in BufferedRequests
    BY ElementOfSeq DEF TypeOK, MuxTypeOK
  <2> QED
    BY <2>1 DEF BufferedRequests
<1>3. CASE mine = {} \/ ~Registered(d)
  <2>1. queue = outbox[d]
    BY <1>1, <1>3, ConcatEmptySeq DEF BufferedReplies
  <2>2. ~(Registered(d) /\ Buffered(d, n))
    BY <1>3 DEF Buffered, Range
  <2> HIDE DEF queue
  <2> QED
    BY <1>1, <2>1, <2>2 DEF queue
<1>4. CASE ~(mine = {} \/ ~Registered(d))
  <2>1. i \in DOMAIN pendingInitialize /\ pendingInitialize[i].client = d
    BY <1>4
  <2>2. BufferedReplies(d) = CachedInitialize(d, m, TRUE)
    BY <1>4 DEF BufferedReplies
  <2> HIDE DEF i
  <2>3. m \in Nat
    BY <2>1, BufferEntry
  <2>4. Buffered(d, n) <=> n = m
    <3>1. ASSUME Buffered(d, n) PROVE n = m
      <4>1. PICK j \in DOMAIN pendingInitialize : pendingInitialize[j] = [client |-> d, seq |-> n]
        BY <3>1 DEF Buffered, Range
      <4>2. j = i
        BY <2>1, <4>1 DEF BufferedOnce
      <4> QED
        BY <4>1, <4>2
    <3>2. Buffered(d, m)
      BY <1>2, <2>1 DEF Buffered, Range
    <3> QED
      BY <3>1, <3>2
  <2> HIDE DEF m
  <2>5. /\ ResponsesIn(outbox[d] \o CachedInitialize(d, m, TRUE), m)
             = ResponsesIn(outbox[d], m) \cup {Len(outbox[d]) + 1}
        /\ \A k : k # m => ResponsesIn(outbox[d] \o CachedInitialize(d, m, TRUE), k)
                             = ResponsesIn(outbox[d], k)
    BY <1>1, <2>3, CachedInitializeAnswers
  <2> QED
    BY <1>1, <1>4, <2>2, <2>4, <2>5
<1> QED
  BY <1>3, <1>4

\* A request that waited, for the adapter or in the buffer, gets one response.
Served(c, n) ==
  /\ Waiting(c, n) \/ Buffered(c, n)
  /\ ~Waiting(c, n)' /\ ~Buffered(c, n)'
  /\ \E p : ResponsesTo(c, n)' = ResponsesTo(c, n) \cup {p}

\* An answer of the adapter serves requests of clients that are there and leaves
\* all others alone.
FatesAdvance ==
  \A d \in Clients : \A n :
    IF Registered(d) THEN SameFate(d, n) \/ Served(d, n)
    ELSE ResponsesTo(d, n)' = ResponsesTo(d, n)

LEMMA AnswersAdvance ==
  ASSUME TypeOK, RoutingInv, FateInv, NEW k \in DOMAIN upstream, AnswerStep(upstream[k])
  PROVE  FatesAdvance /\ PendingOnce' /\ BufferedOnce'
<1> DEFINE s == upstream[k].seq
<1>1. ASSUME NEW d \in Clients, Registered(d), NEW n PROVE ~(Waiting(d, n) /\ Buffered(d, n))
  BY <1>1, FatesAreOfRequests DEF FateInv, OneFate, Fated
<1>2. \A d, n : Hit(s, d, n) => Waiting(d, n)
  BY DEF Hit, Waiting, Range
<1>3. CASE InitializeResponse(upstream[k])
  <2> DEFINE queues == [c \in Clients |-> outbox[c] \o BufferedReplies(c)]
  <2>1. /\ RouteResponse(queues, upstream[k], TRUE)
        /\ queues \in [Clients -> Seq(Messages)]
        /\ pendingInitialize' = <<>>
    BY <1>3, FlushType DEF InitializeResponse
  <2>2. BufferedOnce' /\ \A d, n : ~Buffered(d, n)'
    BY <2>1 DEF BufferedOnce, Buffered, Range
  <2>3. \A d \in Clients : \A n :
          IF Registered(d) /\ Buffered(d, n)
          THEN \E p : ResponsesIn(queues[d], n) = ResponsesTo(d, n) \cup {p}
          ELSE ResponsesIn(queues[d], n) = ResponsesTo(d, n)
    BY FateFlushed DEF FateInv
  <2> HIDE DEF queues
  <2>4. /\ PendingOnce'
        /\ \A d \in Clients : \A n :
             /\ Waiting(d, n)' <=> Waiting(d, n) /\ ~Hit(s, d, n)
             /\ IF Hit(s, d, n) /\ Registered(d)
                THEN \E p : ResponsesTo(d, n)' = ResponsesIn(queues[d], n) \cup {p}
                ELSE ResponsesTo(d, n)' = ResponsesIn(queues[d], n)
    BY <2>1, FateRouted DEF FateInv
  <2> HIDE DEF s
  <2>5. ASSUME NEW d \in Clients, NEW n
        PROVE  IF Registered(d) THEN SameFate(d, n) \/ Served(d, n)
               ELSE ResponsesTo(d, n)' = ResponsesTo(d, n)
    <3>1. CASE ~Registered(d)
      BY <2>3, <2>4, <3>1
    <3>2. CASE Registered(d) /\ Buffered(d, n)
      <4>1. ~Waiting(d, n) /\ ~Hit(s, d, n)
        BY <1>1, <1>2, <3>2
      <4> QED
        BY <2>2, <2>3, <2>4, <3>2, <4>1 DEF Served
    <3>3. CASE Registered(d) /\ ~Buffered(d, n) /\ Hit(s, d, n)
      BY <1>2, <2>2, <2>3, <2>4, <3>3 DEF Served
    <3>4. CASE Registered(d) /\ ~Buffered(d, n) /\ ~Hit(s, d, n)
      BY <2>2, <2>3, <2>4, <3>4 DEF SameFate
    <3> QED
      BY <3>1, <3>2, <3>3, <3>4
  <2> QED
    BY <2>2, <2>4, <2>5 DEF FatesAdvance
<1>4. ASSUME NEW ok \in BOOLEAN, OtherResponse(upstream[k], ok)
      PROVE  FatesAdvance /\ PendingOnce' /\ BufferedOnce'
  <2>1. /\ RouteResponse(outbox, upstream[k], ok)
        /\ outbox \in [Clients -> Seq(Messages)]
        /\ UNCHANGED pendingInitialize
    BY <1>4 DEF OtherResponse, handshake, TypeOK, MuxTypeOK
  <2>2. BufferedOnce' /\ \A d, n : Buffered(d, n)' <=> Buffered(d, n)
    BY <2>1 DEF FateInv, BufferedOnce, Buffered
  <2>3. /\ PendingOnce'
        /\ \A d \in Clients : \A n :
             /\ Waiting(d, n)' <=> Waiting(d, n) /\ ~Hit(s, d, n)
             /\ IF Hit(s, d, n) /\ Registered(d)
                THEN \E p : ResponsesTo(d, n)' = ResponsesIn(outbox[d], n) \cup {p}
                ELSE ResponsesTo(d, n)' = ResponsesIn(outbox[d], n)
    BY <2>1, FateRouted DEF FateInv
  <2>4. \A d, n : ResponsesIn(outbox[d], n) = ResponsesTo(d, n)
    BY QueueResponses
  <2> HIDE DEF s
  <2>5. ASSUME NEW d \in Clients, NEW n
        PROVE  IF Registered(d) THEN SameFate(d, n) \/ Served(d, n)
               ELSE ResponsesTo(d, n)' = ResponsesTo(d, n)
    <3>1. CASE ~Registered(d)
      BY <2>3, <2>4, <3>1
    <3>2. CASE Registered(d) /\ Hit(s, d, n)
      <4>1. Waiting(d, n) /\ ~Buffered(d, n)
        BY <1>1, <1>2, <3>2
      <4> QED
        BY <2>2, <2>3, <2>4, <3>2, <4>1 DEF Served
    <3>3. CASE Registered(d) /\ ~Hit(s, d, n)
      BY <2>2, <2>3, <2>4, <3>3 DEF SameFate
    <3> QED
      BY <3>1, <3>2, <3>3
  <2> QED
    BY <2>2, <2>3, <2>5 DEF FatesAdvance
<1> QED
  BY <1>3, <1>4 DEF AnswerStep

\* What the adapter says of its own accord is no response (mux.py:280-304).
LEMMA EmissionsAdvance ==
  ASSUME TypeOK, FateInv, NEW message \in Emission, UNCHANGED <<pending, pendingInitialize>>,
         \A c \in Clients : outbox'[c] = outbox[c] \/ outbox'[c] = Append(outbox[c], message)
  PROVE  FatesAdvance /\ PendingOnce' /\ BufferedOnce'
<1>1. message \in Messages /\ message.type # "response"
  BY DEF Messages, Emission
<1>2. ASSUME NEW d \in Clients, NEW n PROVE ResponsesTo(d, n)' = ResponsesTo(d, n)
  <2>1. outbox[d] \in Seq(Messages)
    BY DEF TypeOK, MuxTypeOK
  <2>2. ResponsesIn(Append(outbox[d], message), n) = ResponsesIn(outbox[d], n)
    BY <1>1, <2>1, AppendOther
  <2> QED
    BY <2>2, QueueResponses
<1>3. \A d, n : /\ Waiting(d, n)' <=> Waiting(d, n)
                /\ Buffered(d, n)' <=> Buffered(d, n)
  BY DEF Waiting, Buffered
<1>4. FatesAdvance
  BY <1>2, <1>3 DEF FatesAdvance, SameFate
<1> QED
  BY <1>4 DEF FateInv, PendingOnce, BufferedOnce

LEMMA UntouchedAdvance ==
  ASSUME FateInv, UNCHANGED <<outbox, pending, pendingInitialize>>
  PROVE  FatesAdvance /\ PendingOnce' /\ BufferedOnce'
BY FateUntouched DEF FatesAdvance, SameFate, FateInv, PendingOnce, BufferedOnce

LEMMA AdapterAdvances ==
  ASSUME TypeOK, RoutingInv, FateInv, AdapterStep
  PROVE  /\ FatesAdvance /\ PendingOnce' /\ BufferedOnce'
         /\ UNCHANGED <<connection, sent>>
<1>1. ASSUME NEW k \in DOMAIN upstream, AnswerStep(upstream[k])
      PROVE  /\ FatesAdvance /\ PendingOnce' /\ BufferedOnce'
             /\ UNCHANGED <<connection, sent>>
  <2>1. UNCHANGED <<connection, sent>>
    BY <1>1 DEF AnswerStep, InitializeResponse, OtherResponse, clientVars
  <2> QED
    BY <1>1, <2>1, AnswersAdvance
<1>2. ASSUME NEW name \in Events, EventBroadcast(name)
      PROVE  /\ FatesAdvance /\ PendingOnce' /\ BufferedOnce'
             /\ UNCHANGED <<connection, sent>>
  <2>1. NextEmission("event", name) \in Emission
    BY EmissionType
  <2>2. UNCHANGED <<connection, sent, pendingInitialize, pending>>
    BY <1>2 DEF EventBroadcast, handshake, clientVars, seqMap
  <2>3. \A c \in Clients : \/ outbox'[c] = outbox[c]
                           \/ outbox'[c] = Append(outbox[c], NextEmission("event", name))
    BY <1>2 DEF EventBroadcast, Broadcast
  <2> QED
    BY <2>1, <2>2, <2>3, EmissionsAdvance
<1>3. ASSUME NEW command \in ReverseRequests, ReverseRequestRouted(command)
      PROVE  /\ FatesAdvance /\ PendingOnce' /\ BufferedOnce'
             /\ UNCHANGED <<connection, sent>>
  <2>1. NextEmission("request", command) \in Emission
    BY EmissionType
  <2>2. UNCHANGED <<connection, sent, pendingInitialize, pending>>
    BY <1>3 DEF ReverseRequestRouted, handshake, clientVars, seqMap
  <2>3. \A c \in Clients : \/ outbox'[c] = outbox[c]
                           \/ outbox'[c] = Append(outbox[c], NextEmission("request", command))
    BY <1>3 DEF ReverseRequestRouted
  <2> QED
    BY <2>1, <2>2, <2>3, EmissionsAdvance
<1>4. ASSUME \/ \E name \in Events : EventFiltered(name)
             \/ \E command \in ReverseRequests : ReverseRequestUnknown(command)
             \/ AdapterLost
      PROVE  /\ FatesAdvance /\ PendingOnce' /\ BufferedOnce'
             /\ UNCHANGED <<connection, sent>>
  <2>1. UNCHANGED <<pending, outbox, connection, sent, pendingInitialize>>
    BY <1>4 DEF EventFiltered, ReverseRequestUnknown, AdapterLost, handshake, clientVars, seqMap
  <2> QED
    BY <2>1, UntouchedAdvance
<1> QED
  BY <1>1, <1>2, <1>3, <1>4 DEF AdapterStep

LEMMA FateAdvances ==
  ASSUME TypeOK, RoutingInv, FateInv, FatesAdvance, PendingOnce', BufferedOnce',
         UNCHANGED <<connection, sent>>
  PROVE  FateInv'
<1>1. NewIsSilent'
  BY DEF FateInv, NewIsSilent
<1>2. ASSUME NEW d \in Clients, Registered(d)', NEW n \in DOMAIN sent'[d]
      PROVE  Fated(d, n)'
  <2>1. Registered(d) /\ Fated(d, n)
    BY <1>2 DEF Registered, FateInv, OneFate
  <2>2. CASE SameFate(d, n)
    BY <2>1, <2>2 DEF SameFate, Fated
  <2>3. CASE Served(d, n)
    <3>1. ResponsesTo(d, n) = {}
      BY <2>1, <2>3 DEF Served, Fated
    <3>2. PICK p : ResponsesTo(d, n)' = {p}
      BY <2>3, <3>1 DEF Served
    <3> QED
      BY <2>3, <3>2 DEF Served, Fated
  <2> QED
    BY <2>1, <2>2, <2>3 DEF FatesAdvance
<1> QED
  BY <1>1, <1>2 DEF FateInv, OneFate

-----------------------------------------------------------------------------
(* Every request has one fate.                                             *)

LEMMA FateInitially == Init => FateInv
BY DEF Init, Seqs!SeqMapInit, FateInv, NewIsSilent, PendingOnce, BufferedOnce, OneFate, Registered

LEMMA FateClientStep ==
  ASSUME TypeOK, RoutingInv, FateInv, NEW c \in Clients, ClientStep(c)
  PROVE  FateInv'
<1>1. CASE ReverseResponseIgnored(c)
  <2>1. UNCHANGED <<pending, pendingInitialize, outbox, connection, sent>>
    BY <1>1 DEF ReverseResponseIgnored, seqMap, handshake
  <2> QED
    BY <2>1, UntouchedAdvance, FateAdvances
<1>2. CASE InitializeForwarded(c)
  BY <1>2, FateForwarded DEF InitializeForwarded
<1>3. CASE ConfigurationDoneForwarded(c)
  BY <1>3, FateForwarded DEF ConfigurationDoneForwarded
<1>4. ASSUME NEW command \in Requests, RequestForwarded(c, command) PROVE FateInv'
  BY <1>4, FateForwarded DEF RequestForwarded, handshake
<1> QED
  BY <1>1, <1>2, <1>3, <1>4, FateAccept, FateDisconnect, FateFromCache, FateBuffered,
     FateIntercepted DEF ClientStep

LEMMA FateStep == TypeOK /\ RoutingInv /\ FateInv /\ [Next]_vars => FateInv'
<1> SUFFICES ASSUME TypeOK, RoutingInv, FateInv, [Next]_vars PROVE FateInv'
  OBVIOUS
<1>1. CASE UNCHANGED vars
  <2>1. UNCHANGED <<pending, pendingInitialize, outbox, connection, sent>>
    BY <1>1 DEF vars, seqMap, handshake, clientVars
  <2> QED
    BY <2>1, UntouchedAdvance, FateAdvances
<1>2. CASE AdapterStep
  BY <1>2, AdapterAdvances, FateAdvances
<1> QED
  BY <1>1, <1>2, FateClientStep DEF Next

\* A set with one element at most, counted.
LEMMA CountsOne ==
  ASSUME NEW S, \A i, j \in S : i = j
  PROVE  Cardinality(S) = IF S = {} THEN 0 ELSE 1
<1>1. CASE S = {}
  BY <1>1, FS_EmptySet
<1>2. CASE S # {}
  <2>1. PICK x : S = {x}
    BY <1>2
  <2> QED
    BY <2>1, FS_Singleton
<1> QED
  BY <1>1, <1>2

\* Every request of a client that is there is answered once, or waits for the
\* adapter, or is buffered, and never two of these, for every set of clients
\* and every adapter, orderly or not (mux.py:132-190, 206-236).
THEOREM EveryRequestHasOneFate == Spec => []RequestsAccountedFor
<1>1. FateInv => RequestsAccountedFor
  <2> SUFFICES ASSUME FateInv, NEW c \in Clients, Registered(c), NEW n \in DOMAIN sent[c]
               PROVE  LET fates == {f \in {"answered", "waiting", "buffered"} :
                                      \/ f = "answered" /\ ResponsesTo(c, n) # {}
                                      \/ f = "waiting" /\ Waiting(c, n)
                                      \/ f = "buffered" /\ Buffered(c, n)}
                      IN Cardinality(fates) = 1 /\ Cardinality(ResponsesTo(c, n)) <= 1
    BY DEF RequestsAccountedFor
  <2> DEFINE fates == {f \in {"answered", "waiting", "buffered"} :
                         \/ f = "answered" /\ ResponsesTo(c, n) # {}
                         \/ f = "waiting" /\ Waiting(c, n)
                         \/ f = "buffered" /\ Buffered(c, n)}
  <2>1. Fated(c, n)
    BY DEF FateInv, OneFate
  <2>2. fates # {} /\ \A f, g \in fates : f = g
    BY <2>1 DEF Fated
  <2> HIDE DEF fates
  <2>3. Cardinality(fates) = 1 /\ Cardinality(ResponsesTo(c, n)) \in {0, 1}
    BY <2>1, <2>2, CountsOne DEF Fated
  <2> QED
    BY <2>3 DEF fates
<1> QED
  BY <1>1, FateInitially, FateStep, RoutingInitially, RoutingStep, TypeCorrect, PTL DEF Spec

-----------------------------------------------------------------------------
(* The multiplexer implements the router.                                  *)

\* The answers of the router, counted in the queues.
Counted == [c \in Clients |-> [n \in 1..MaxRequests |-> AnswerCount(c, n)]]

LEMMA CountOf ==
  ASSUME NEW c, NEW n
  PROVE  /\ ResponsesTo(c, n) = {} => AnswerCount(c, n) = 0
         /\ ResponsesTo(c, n)' = {} => AnswerCount(c, n)' = 0
         /\ \A p : ResponsesTo(c, n)' = {p} => AnswerCount(c, n)' = 1
         /\ ResponsesTo(c, n)' = ResponsesTo(c, n) => AnswerCount(c, n)' = AnswerCount(c, n)
BY FS_EmptySet, FS_Singleton DEF AnswerCount

LEMMA RoutesInitially == Init => Routing!RouterInit
<1> SUFFICES ASSUME Init PROVE Routing!RouterInit
  OBVIOUS
<1>1. \A c \in Clients : \A n : AnswerCount(c, n) = 0
  BY CountOf DEF Init, ResponsesTo
<1> QED
  BY <1>1 DEF Init, Routing!RouterInit

\* A client that sends is asking; what it asks may be answered at once.
LEMMA RoutesAsk ==
  ASSUME TypeOK, NEW c \in Clients, NEW command, Send(c, command),
         \A d \in Clients : \A n :
           <<d, n>> # <<c, Number(c)>> => ResponsesTo(d, n)' = ResponsesTo(d, n),
         \A n : n = Number(c) => \/ ResponsesTo(c, n)' = ResponsesTo(c, n)
                                 \/ \E p : ResponsesTo(c, n)' = {p}
  PROVE  Routing!Ask(c)
<1>1. /\ Registered(c) /\ connection' = connection
      /\ Number(c) = Len(sent[c]) + 1 /\ Number(c) \in 1..MaxRequests
      /\ Len(sent'[c]) = Len(sent[c]) + 1
      /\ \A d \in Clients : d # c => sent'[d] = sent[d]
  <2>1. sent[c] \in Seq(Commands) /\ sent' = [sent EXCEPT ![c] = Append(sent[c], command)]
    BY DEF Send, TypeOK, MuxTypeOK
  <2>2. sent'[c] = Append(sent[c], command)
    BY <2>1 DEF TypeOK, MuxTypeOK
  <2>3. Len(sent'[c]) = Len(sent[c]) + 1
    BY <2>1, <2>2
  <2>4. Registered(c) /\ connection' = connection
    BY DEF Send
  <2> QED
    BY <2>3, <2>4, SendType DEF Number
<1>2. [d \in Clients |-> Len(sent'[d])] = [[d \in Clients |-> Len(sent[d])] EXCEPT ![c] = @ + 1]
  BY <1>1
<1>3. \A d \in Clients : \A n \in 1..MaxRequests :
        <<d, n>> # <<c, Number(c)>> => AnswerCount(d, n)' = AnswerCount(d, n)
  BY CountOf
<1>4. \A n : n = Number(c) => AnswerCount(c, n)' = AnswerCount(c, n) \/ AnswerCount(c, n)' = 1
  BY CountOf
<1>5. CASE \A n : n = Number(c) => AnswerCount(c, n)' = AnswerCount(c, n)
  <2>1. \A d \in Clients : \A n \in 1..MaxRequests : AnswerCount(d, n)' = AnswerCount(d, n)
    BY <1>3, <1>5
  <2>2. Counted' = Counted
    BY <2>1 DEF Counted
  <2> QED
    BY <1>1, <1>2, <2>2 DEF Routing!Ask, Registered, Counted
<1>6. CASE \A n : n = Number(c) => AnswerCount(c, n)' = 1
  <2> DEFINE k == Len(sent[c]) + 1
             F == [d \in Clients |-> [n \in 1..MaxRequests |-> AnswerCount(d, n)']]
  <2>2. k = Number(c)
    BY <1>1
  <2> HIDE DEF k
  <2>3. \A d \in Clients : \A n \in 1..MaxRequests :
          AnswerCount(d, n)' = IF d = c /\ n = k THEN 1 ELSE AnswerCount(d, n)
    BY <1>3, <1>6, <2>2
  <2>4. F = [Counted EXCEPT ![c][k] = 1]
    BY <2>3 DEF Counted
  <2>5. Counted' = F
    BY DEF Counted
  <2>1. Counted' = [Counted EXCEPT ![c][Len(sent[c]) + 1] = 1]
    BY <2>4, <2>5 DEF k
  <2> QED
    BY <1>1, <1>2, <2>1 DEF Routing!Ask, Registered, Counted
<1> QED
  BY <1>4, <1>5, <1>6

\* An adapter's step is a reply to what was open, or none at all.
LEMMA RoutesReply ==
  ASSUME TypeOK, RoutingInv, FateInv, FatesAdvance, UNCHANGED <<connection, sent>>
  PROVE  Routing!Reply
<1> DEFINE open == Routing!Open
           replies == {q \in Clients \X (1..MaxRequests) :
                         AnswerCount(q[1], q[2])' # AnswerCount(q[1], q[2])}
<1>1. ASSUME NEW d \in Clients, NEW n \in 1..MaxRequests,
             AnswerCount(d, n)' # AnswerCount(d, n)
      PROVE  <<d, n>> \in open /\ AnswerCount(d, n)' = 1
  <2>1. Registered(d) /\ Served(d, n)
    BY <1>1, CountOf DEF FatesAdvance, SameFate
  <2>2. n \in DOMAIN sent[d]
    BY <2>1, FatesAreOfRequests DEF Served
  <2>3. ResponsesTo(d, n) = {}
    BY <2>1, <2>2 DEF FateInv, OneFate, Fated, Served
  <2>4. AnswerCount(d, n) = 0 /\ AnswerCount(d, n)' = 1
    BY <2>1, <2>3, CountOf DEF Served
  <2>5. n \in 1..Len(sent[d])
    BY <2>2 DEF TypeOK, MuxTypeOK
  <2> QED
    BY <2>1, <2>4, <2>5 DEF Routing!Open, Registered
<1>2. replies \in SUBSET open
  BY <1>1
<1>3. \A d \in Clients : \A n \in 1..MaxRequests :
        AnswerCount(d, n)' = IF <<d, n>> \in replies THEN 1 ELSE AnswerCount(d, n)
  BY <1>1
<1> HIDE DEF replies
<1>4. Counted' = [c \in Clients |-> [n \in 1..MaxRequests |->
                    IF <<c, n>> \in replies THEN 1 ELSE Counted[c][n]]]
  BY <1>3 DEF Counted
<1> QED
  BY <1>2, <1>4 DEF Routing!Reply, Counted

LEMMA RoutesJoin ==
  ASSUME TypeOK, NEW c \in Clients, Accept(c)
  PROVE  Routing!Join(c)
<1>1. /\ connection[c] = "new" /\ connection' = [connection EXCEPT ![c] = "registered"]
      /\ UNCHANGED <<sent, outbox>>
  BY DEF Accept
<1>2. \A d, n : AnswerCount(d, n)' = AnswerCount(d, n)
  BY <1>1 DEF AnswerCount, ResponsesTo
<1> QED
  BY <1>1, <1>2 DEF Routing!Join

LEMMA RoutesLeave ==
  ASSUME TypeOK, RoutingInv, FateInv, NEW c \in Clients, Disconnect(c)
  PROVE  Routing!Leave(c)
<1>1. /\ Registered(c) /\ connection' = [connection EXCEPT ![c] = "gone"]
      /\ UNCHANGED sent
  BY DEF Disconnect
<1>2. /\ \A n : AnswerCount(c, n)' = 0
      /\ \A d \in Clients : \A n : d # c => AnswerCount(d, n)' = AnswerCount(d, n)
  BY FateDisconnect, CountOf
<1>3. Counted' = [Counted EXCEPT ![c] = [n \in 1..MaxRequests |-> 0]]
  BY <1>2 DEF Counted
<1> QED
  BY <1>1, <1>3 DEF Routing!Leave, Registered, Counted

LEMMA RoutesClientStep ==
  ASSUME TypeOK, RoutingInv, FateInv, NEW c \in Clients, ClientStep(c)
  PROVE  [Routing!RouterNext]_(Routing!routerVars)
<1>1. ASSUME NEW command, Send(c, command), UNCHANGED outbox PROVE Routing!Ask(c)
  BY <1>1, RoutesAsk DEF ResponsesTo
<1>2. CASE InitializeBuffered(c) \/ InitializeForwarded(c) \/ ConfigurationDoneForwarded(c)
  BY <1>1, <1>2 DEF InitializeBuffered, InitializeForwarded, ConfigurationDoneForwarded,
                    Routing!RouterNext
<1>3. ASSUME NEW command, RequestForwarded(c, command) PROVE Routing!RouterNext
  BY <1>1, <1>3 DEF RequestForwarded, Routing!RouterNext
<1>4. CASE InitializeFromCache(c)
  <2>1. Send(c, "initialize")
    BY <1>4 DEF InitializeFromCache
  <2>2. Routing!Ask(c)
    BY <1>4, <2>1, FateFromCache, RoutesAsk
  <2> QED
    BY <2>2 DEF Routing!RouterNext
<1>5. ASSUME NEW command, RequestIntercepted(c, command) PROVE Routing!RouterNext
  <2>1. Send(c, command)
    BY <1>5 DEF RequestIntercepted
  <2>2. Routing!Ask(c)
    BY <1>5, <2>1, FateIntercepted, RoutesAsk
  <2> QED
    BY <2>2 DEF Routing!RouterNext
<1>6. CASE Accept(c) \/ Disconnect(c)
  BY <1>6, RoutesJoin, RoutesLeave DEF Routing!RouterNext
<1>7. CASE ReverseResponseIgnored(c)
  BY <1>7 DEF ReverseResponseIgnored, Routing!routerVars, AnswerCount, ResponsesTo
<1> QED
  BY <1>2, <1>3, <1>4, <1>5, <1>6, <1>7 DEF ClientStep

\* The multiplexer is a router: whatever it buffers, caches and renumbers, and
\* whatever the adapter repeats, clients see their requests answered at most
\* once and only while they are there (mux.py:118-313).
THEOREM ImplementsRouter == Spec => Routes
<1>1. ASSUME TypeOK, RoutingInv, FateInv, [Next]_vars
      PROVE  [Routing!RouterNext]_(Routing!routerVars)
  <2>1. CASE AdapterStep
    BY <1>1, <2>1, AdapterAdvances, RoutesReply DEF Routing!RouterNext
  <2>2. CASE UNCHANGED vars
    BY <2>2 DEF vars, clientVars, Routing!routerVars, AnswerCount, ResponsesTo
  <2> QED
    BY <1>1, <2>1, <2>2, RoutesClientStep DEF Next
<1> QED
  BY <1>1, RoutesInitially, FateInitially, FateStep, RoutingInitially, RoutingStep, TypeCorrect, PTL
     DEF Spec, Routes, Routing!RouterSpec

=============================================================================
