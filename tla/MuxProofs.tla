------------------------------ MODULE MuxProofs -----------------------------
(***************************************************************************)
(* Proofs about the multiplexer, for every set of clients and of commands, *)
(* every bound and every adapter of module DebugAdapter.                   *)
(***************************************************************************)
EXTENDS Mux, SequenceTheorems, TLAPS

USE AdapterAssumption, MuxAssumption

-----------------------------------------------------------------------------
(* Types.                                                                  *)

\* What the multiplexer builds is a message (mux.py:244-250, 270-276, 232).
LEMMA ResponseType ==
  ASSUME NEW c \in Clients, NEW n \in Nat, NEW command \in Commands, NEW ok \in BOOLEAN,
         NEW caps \in BOOLEAN, NEW d \in Clients, NEW k \in Nat
  PROVE  Response(c, n, command, ok, caps, <<d, k>>) \in Messages
BY DEF Response, Messages, Responses

\* A request that is accepted has a number within the bound.
LEMMA SendType ==
  ASSUME TypeOK, NEW c \in Clients, NEW command, Send(c, command)
  PROVE  /\ command \in Commands
         /\ Number(c) \in 1..MaxRequests
         /\ sent' \in [Clients -> Seq(Commands)]
         /\ \A n \in DOMAIN sent[c] : n \in DOMAIN sent'[c] /\ sent'[c][n] = sent[c][n]
         /\ Number(c) \in DOMAIN sent'[c] /\ sent'[c][Number(c)] = command
         /\ \A d \in Clients : d # c => sent'[d] = sent[d]
<1> sent \in [Clients -> Seq(Commands)]
  BY DEF TypeOK, MuxTypeOK
<1>1. command \in Commands /\ Len(sent[c]) \in Nat /\ Len(sent[c]) < MaxRequests
  BY DEF Send
<1>2. sent' = [sent EXCEPT ![c] = Append(sent[c], command)]
  BY DEF Send
<1>3. sent'[c] = Append(sent[c], command)
  BY <1>2
<1> QED
  BY <1>1, <1>2, <1>3, AppendProperties DEF Number

\* The cached answer is a sequence of messages (mux.py:238-263).
LEMMA CachedInitializeType ==
  ASSUME TypeOK, NEW c \in Clients, NEW n \in Nat, NEW caps \in BOOLEAN
  PROVE  CachedInitialize(c, n, caps) \in Seq(Messages)
<1>1. \A event \in Emission \cup {NoEvent} : Replay(event) \in Seq(Messages)
  BY DEF Replay, Messages
<1>2. <<Response(c, n, "initialize", TRUE, caps, <<c, n>>)>> \in Seq(Messages)
  <2>1. "initialize" \in Commands
    BY DEF Commands
  <2> DEFINE response == Response(c, n, "initialize", TRUE, caps, <<c, n>>)
  <2>2. response \in Messages
    BY <2>1, ResponseType
  <2> HIDE DEF response
  <2>3. <<response>> \in Seq(Messages)
    BY <2>2
  <2> QED
    BY <2>3 DEF response
<1>3. Replay(initializedEvent) \in Seq(Messages) /\ Replay(lastStoppedEvent) \in Seq(Messages)
  BY <1>1 DEF TypeOK, MuxTypeOK
<1> QED
  BY <1>2, <1>3, ConcatProperties DEF CachedInitialize

LEMMA EnqueueType ==
  ASSUME TypeOK, NEW c \in Clients, NEW messages \in Seq(Messages), Enqueue(c, messages)
  PROVE  outbox' \in [Clients -> Seq(Messages)]
<1>1. outbox[c] \o messages \in Seq(Messages)
  BY ConcatProperties DEF TypeOK, MuxTypeOK
<1> QED
  BY <1>1 DEF Enqueue, TypeOK, MuxTypeOK

\* RemoveAt closes the gap and keeps the order.
LEMMA RemoveAtProperties ==
  ASSUME NEW S, NEW s \in Seq(S), NEW i \in 1..Len(s)
  PROVE  /\ RemoveAt(s, i) \in Seq(S)
         /\ Len(RemoveAt(s, i)) = Len(s) - 1
         /\ \A k \in 1..Len(s)-1 : RemoveAt(s, i)[k] = IF k < i THEN s[k] ELSE s[k + 1]
<1> DEFINE left == SubSeq(s, 1, i - 1)
           right == SubSeq(s, i + 1, Len(s))
<1>1. /\ left \in Seq(S) /\ Len(left) = i - 1
      /\ \A k \in 1..i-1 : left[k] = s[k]
  <2>1. 1 \in Int /\ i - 1 \in Int /\ \A k \in 1..i-1 : s[k] \in S
    OBVIOUS
  <2> QED
    BY <2>1, SubSeqProperties
<1>2. /\ right \in Seq(S) /\ Len(right) = Len(s) - i
      /\ \A k \in 1..Len(s)-i : right[k] = s[k + i]
  <2>1. i + 1 \in Int /\ Len(s) \in Int /\ \A k \in i+1..Len(s) : s[k] \in S
    OBVIOUS
  <2> QED
    BY <2>1, SubSeqProperties
<1> HIDE DEF left, right
<1>3. /\ left \o right \in Seq(S)
      /\ Len(left \o right) = Len(left) + Len(right)
      /\ \A k \in 1..Len(left)+Len(right) :
           (left \o right)[k] = IF k <= Len(left) THEN left[k] ELSE right[k - Len(left)]
  BY <1>1, <1>2, ConcatProperties
<1>4. RemoveAt(s, i) = left \o right
  BY DEF RemoveAt, left, right
<1>5. Len(left) + Len(right) = Len(s) - 1
  BY <1>1, <1>2
<1>6. ASSUME NEW k \in 1..Len(s)-1
      PROVE  (left \o right)[k] = IF k < i THEN s[k] ELSE s[k + 1]
  <2>1. CASE k < i
    BY <1>1, <1>3, <1>5, <2>1
  <2>2. CASE ~(k < i)
    <3>1. k - Len(left) \in 1..Len(s)-i /\ (k - Len(left)) + i = k + 1
      BY <1>1, <2>2
    <3>2. (left \o right)[k] = right[k - Len(left)]
      BY <1>1, <1>3, <1>5, <2>2
    <3> QED
      BY <1>2, <2>2, <3>1, <3>2
  <2> QED
    BY <2>1, <2>2
<1> QED
  BY <1>3, <1>4, <1>5, <1>6

\* Taking out a key leaves the other keys; each key stands once (mux.py:309).
LEMMA WithoutKeyProperties ==
  ASSUME NEW keys \in Seq(Clients), NEW c \in Clients,
         \A i, j \in DOMAIN keys : keys[i] = keys[j] => i = j
  PROVE  /\ WithoutKey(keys, c) \in Seq(Clients)
         /\ Range(WithoutKey(keys, c)) \subseteq Range(keys) \ {c}
         /\ \A i, j \in DOMAIN WithoutKey(keys, c) :
              WithoutKey(keys, c)[i] = WithoutKey(keys, c)[j] => i = j
<1>1. CASE c \notin Range(keys)
  BY <1>1 DEF WithoutKey
<1>2. CASE c \in Range(keys)
  <2> DEFINE i == CHOOSE k \in DOMAIN keys : keys[k] = c
             rest == RemoveAt(keys, i)
  <2>1. i \in 1..Len(keys) /\ keys[i] = c
    BY <1>2 DEF Range
  <2>2. WithoutKey(keys, c) = rest
    BY <1>2 DEF WithoutKey
  <2> HIDE DEF i
  <2>3. /\ rest \in Seq(Clients)
        /\ Len(rest) = Len(keys) - 1
        /\ \A k \in 1..Len(keys)-1 : rest[k] = IF k < i THEN keys[k] ELSE keys[k + 1]
    BY <2>1, RemoveAtProperties
  <2> HIDE DEF rest
  <2>4. ASSUME NEW k \in DOMAIN rest
        PROVE  rest[k] \in Range(keys) /\ rest[k] # c
    BY <2>1, <2>3, <2>4 DEF Range
  <2>5. ASSUME NEW k \in DOMAIN rest, NEW l \in DOMAIN rest, rest[k] = rest[l]
        PROVE  k = l
    <3> DEFINE at(m) == IF m < i THEN m ELSE m + 1
    <3>1. \A m \in DOMAIN rest : at(m) \in DOMAIN keys /\ rest[m] = keys[at(m)]
      BY <2>1, <2>3
    <3>2. at(k) = at(l)
      BY <2>5, <3>1
    <3> QED
      BY <2>1, <2>3, <3>2
  <2> QED
    BY <2>2, <2>3, <2>4, <2>5 DEF Range
<1> QED
  BY <1>1, <1>2

\* Forwarding a request (mux.py:184-188).
LEMMA ForwardType ==
  ASSUME TypeOK, NEW c \in Clients, NEW command \in Commands, Number(c) \in 1..MaxRequests,
         Forward(c, command)
  PROVE  AdapterTypeOK' /\ Seqs!SeqMapTypeOK'
<1>1. Seqs!SeqMapTypeOK' /\ nextSeq \in Nat
  BY DEF TypeOK, Forward, Seqs!SeqMapTypeOK, Seqs!Allocate, Seqs!PendingRequest
<1>2. [type |-> "request", seq |-> nextSeq, command |-> command, client |-> c,
       clientSeq |-> Number(c)] \in Forwarded
  BY <1>1 DEF Forwarded
<1>3. upstream' \in Seq(Forwarded)
  BY <1>2, AppendProperties DEF Forward, TypeOK, AdapterTypeOK
<1> QED
  BY <1>1, <1>3 DEF Forward, TypeOK, AdapterTypeOK, Emission

\* Taking entries out of the sequence map (seq.py:84, 94-96).
LEMMA ForgetType ==
  ASSUME TypeOK, NEW stale, pending' = Seqs!Forget(stale), nextSeq' = nextSeq
  PROVE  /\ Seqs!SeqMapTypeOK'
         /\ DOMAIN pending' = DOMAIN pending \ stale
         /\ \A s \in DOMAIN pending' : pending'[s] = pending[s]
<1>1. /\ DOMAIN pending' = DOMAIN pending \ stale
      /\ \A s \in DOMAIN pending' : pending'[s] = pending[s]
      /\ pending' = [s \in DOMAIN pending' |-> pending'[s]]
  BY DEF Seqs!Forget, Seqs!Restrict
<1> QED
  BY <1>1 DEF TypeOK, Seqs!SeqMapTypeOK, Seqs!PendingRequest

\* The adapter's answer changes its own state only.
LEMMA AnswerType ==
  ASSUME TypeOK, NEW r \in Forwarded, NEW ok, Answer(r, ok)
  PROVE  AdapterTypeOK' /\ ok \in BOOLEAN
<1>1. \A command : SessionAfter(command) \in Sessions
  BY DEF SessionAfter, Sessions, TypeOK, AdapterTypeOK
<1>2. CASE r.seq \in DOMAIN answers
  BY <1>2 DEF Answer, TypeOK, AdapterTypeOK, Emission, Forwarded
<1>3. CASE r.seq \notin DOMAIN answers
  <2>1. ok \in BOOLEAN /\ session' \in Sessions
    BY <1>1, <1>3 DEF Answer, Outcomes, TypeOK, AdapterTypeOK
  <2>2. /\ answers' = [s \in DOMAIN answers' |-> answers'[s]]
        /\ \A s \in DOMAIN answers' : answers'[s] \in BOOLEAN
    BY <1>3, <2>1 DEF Answer, TypeOK, AdapterTypeOK
  <2> QED
    BY <2>1, <2>2 DEF Answer, TypeOK, AdapterTypeOK, Emission, Forwarded
<1> QED
  BY <1>2, <1>3

\* The response that is routed is a message for its client (mux.py:222-233).
LEMMA RouteResponseType ==
  ASSUME TypeOK, NEW queues \in [Clients -> Seq(Messages)], NEW r \in Forwarded,
         NEW ok \in BOOLEAN, RouteResponse(queues, r, ok)
  PROVE  outbox' \in [Clients -> Seq(Messages)] /\ Seqs!SeqMapTypeOK'
<1>1. Seqs!SeqMapTypeOK'
  BY ForgetType DEF RouteResponse, Seqs!Resolve
<1>2. CASE r.seq \in DOMAIN pending /\ Registered(pending[r.seq].client)
  <2> DEFINE entry == pending[r.seq]
             caps == ok /\ r.command = "initialize"
             response == Response(entry.client, entry.clientSeq, r.command, ok, caps,
                                  <<r.client, r.clientSeq>>)
  <2>1. entry \in Seqs!PendingRequest
    BY <1>2 DEF TypeOK, Seqs!SeqMapTypeOK
  <2>2. entry.client \in Clients /\ entry.clientSeq \in Nat
    BY <2>1 DEF Seqs!PendingRequest
  <2>3. r.command \in Commands /\ r.client \in Clients /\ r.clientSeq \in Nat
    BY DEF Forwarded
  <2>4. response \in Messages
    BY <2>2, <2>3, ResponseType
  <2>5. outbox' = [queues EXCEPT ![entry.client] = Append(queues[entry.client], response)]
    BY <1>2 DEF RouteResponse
  <2> HIDE DEF response, entry
  <2>6. Append(queues[entry.client], response) \in Seq(Messages)
    BY <2>2, <2>4, AppendProperties
  <2> QED
    BY <1>1, <2>5, <2>6
<1>3. CASE ~(r.seq \in DOMAIN pending /\ Registered(pending[r.seq].client))
  BY <1>1, <1>3 DEF RouteResponse
<1> QED
  BY <1>2, <1>3

\* Every client's share of the flushed buffer is a sequence of messages
\* (mux.py:218-219).
LEMMA FlushType ==
  ASSUME TypeOK
  PROVE  [c \in Clients |-> outbox[c] \o BufferedReplies(c)] \in [Clients -> Seq(Messages)]
<1> SUFFICES ASSUME NEW c \in Clients PROVE outbox[c] \o BufferedReplies(c) \in Seq(Messages)
  OBVIOUS
<1> DEFINE mine == {i \in DOMAIN pendingInitialize : pendingInitialize[i].client = c}
           k == CHOOSE i \in mine : TRUE
           entry == pendingInitialize[k]
<1>1. CASE mine = {} \/ ~Registered(c)
  <2>1. BufferedReplies(c) = <<>>
    BY <1>1 DEF BufferedReplies
  <2>2. outbox[c] \in Seq(Messages) /\ BufferedReplies(c) \in Seq(Messages)
    BY <2>1 DEF TypeOK, MuxTypeOK
  <2> QED
    BY <2>2, ConcatProperties
<1>2. CASE ~(mine = {} \/ ~Registered(c))
  <2>1. k \in DOMAIN pendingInitialize
    BY <1>2
  <2>2. entry.seq \in Nat
    <3> HIDE DEF k
    <3>1. entry \in BufferedRequests
      BY <2>1, ElementOfSeq DEF TypeOK, MuxTypeOK
    <3> QED
      BY <3>1 DEF BufferedRequests
  <2>3. BufferedReplies(c) = CachedInitialize(c, entry.seq, TRUE)
    BY <1>2 DEF BufferedReplies
  <2> HIDE DEF entry
  <2>4. BufferedReplies(c) \in Seq(Messages)
    BY <2>2, <2>3, CachedInitializeType
  <2>5. outbox[c] \in Seq(Messages)
    BY DEF TypeOK, MuxTypeOK
  <2> QED
    BY <2>4, <2>5, ConcatProperties
<1> QED
  BY <1>1, <1>2

\* What the adapter emits is numbered and typed, and keeps its state typed.
LEMMA EmissionType ==
  ASSUME TypeOK, NEW type \in {"event", "request"}, NEW name,
         type = "event" => name \in Events, type = "request" => name \in ReverseRequests
  PROVE  /\ NextEmission(type, name) \in Emission
         /\ EmitEvent(name) /\ type = "event" => AdapterTypeOK'
         /\ EmitReverseRequest(name) /\ type = "request" => AdapterTypeOK'
<1>1. Len(emitted) \in Nat
  BY DEF TypeOK, AdapterTypeOK
<1>2. NextEmission(type, name) \in Emission
  BY <1>1 DEF NextEmission, Emission
<1>3. Append(emitted, NextEmission(type, name)) \in Seq(Emission)
  BY <1>2, AppendProperties DEF TypeOK, AdapterTypeOK
<1>4. SessionAfterEvent(name) \in Sessions
  BY DEF SessionAfterEvent, Sessions, TypeOK, AdapterTypeOK
<1>5. ASSUME Emit(NextEmission(type, name)), session' \in Sessions PROVE AdapterTypeOK'
  BY <1>3, <1>5 DEF Emit, TypeOK, AdapterTypeOK, Forwarded
<1> QED
  BY <1>2, <1>4, <1>5 DEF EmitEvent, EmitReverseRequest, TypeOK, AdapterTypeOK

\* The initialize arguments get the client's key (mux.py:141-142).
LEMMA CacheInitArgsType ==
  ASSUME TypeOK, NEW c \in Clients, CacheInitArgs(c)
  PROVE  /\ initOrder' \in Seq(Clients)
         /\ Range(initOrder') = Range(initOrder) \cup {c}
         /\ (\A i, j \in DOMAIN initOrder : initOrder[i] = initOrder[j] => i = j)
              => \A i, j \in DOMAIN initOrder' : initOrder'[i] = initOrder'[j] => i = j
<1>1. initOrder \in Seq(Clients)
  BY DEF TypeOK, MuxTypeOK
<1>2. CASE c \in Range(initOrder)
  BY <1>1, <1>2 DEF CacheInitArgs
<1>3. CASE c \notin Range(initOrder)
  <2>1. initOrder' = Append(initOrder, c)
    BY <1>3 DEF CacheInitArgs
  <2>2. /\ initOrder' \in Seq(Clients)
        /\ Len(initOrder') = Len(initOrder) + 1
        /\ \A i \in 1..Len(initOrder) : initOrder'[i] = initOrder[i]
        /\ initOrder'[Len(initOrder) + 1] = c
    BY <1>1, <2>1, AppendProperties
  <2> QED
    BY <1>1, <1>3, <2>2 DEF Range
<1> QED
  BY <1>2, <1>3

\* Every variable keeps its type (mux.py:54-65, client.py:41-47).  The keys of
\* the initialize arguments are distinct, as the keys of a dictionary are.
KeysDistinct == \A i, j \in DOMAIN initOrder : initOrder[i] = initOrder[j] => i = j

LEMMA TypesInit == Init => TypeOK /\ KeysDistinct
<1> SUFFICES ASSUME Init PROVE TypeOK /\ KeysDistinct
  OBVIOUS
<1>1. AdapterTypeOK
  BY DEF Init, AdapterInit, AdapterTypeOK, Sessions
<1>2. Seqs!SeqMapTypeOK
  BY DEF Init, Seqs!SeqMapInit, Seqs!SeqMapTypeOK
<1>3. \A S : <<>> \in Seq(S)
  OBVIOUS
<1>4. outbox \in [Clients -> Seq(Messages)] /\ sent \in [Clients -> Seq(Commands)]
  BY <1>3 DEF Init
<1>5. MuxTypeOK
  BY <1>3, <1>4 DEF Init, MuxTypeOK
<1>6. KeysDistinct
  BY DEF Init, KeysDistinct
<1> QED
  BY <1>1, <1>2, <1>5, <1>6 DEF TypeOK

LEMMA TypesClientStep ==
  ASSUME TypeOK, KeysDistinct, NEW c \in Clients, ClientStep(c)
  PROVE  TypeOK' /\ KeysDistinct'
<1> USE DEF TypeOK, KeysDistinct
<1>1. CASE Accept(c)
  <2>1. joinedAt' \in [Clients -> Nat]
    BY <1>1 DEF Accept, MuxTypeOK, AdapterTypeOK
  <2>2. connection' \in [Clients -> {"new", "registered", "gone"}]
    BY <1>1 DEF Accept, MuxTypeOK
  <2> QED
    BY <1>1, <2>1, <2>2, SMTT(30)
       DEF Accept, MuxTypeOK, AdapterTypeOK, Seqs!SeqMapTypeOK, seqMap, sessionCache, handshake,
           adapterVars, Messages, Emission
<1>2. CASE Disconnect(c)
  <2>1. Seqs!SeqMapTypeOK'
    BY <1>2, ForgetType DEF Disconnect, Seqs!Cleanup
  <2>2. initOrder' \in Seq(Clients) /\ KeysDistinct'
    BY <1>2, WithoutKeyProperties DEF Disconnect, MuxTypeOK
  <2>3. outbox' \in [Clients -> Seq(Messages)]
    BY <1>2 DEF Disconnect, MuxTypeOK
  <2>4. connection' \in [Clients -> {"new", "registered", "gone"}]
    BY <1>2 DEF Disconnect, MuxTypeOK
  <2>5. AdapterTypeOK'
    BY <1>2 DEF Disconnect, adapterVars, AdapterTypeOK
  <2> QED
    BY <1>2, <2>1, <2>2, <2>3, <2>4, <2>5 DEF Disconnect, MuxTypeOK, sessionCache
<1>3. CASE InitializeFromCache(c)
  <2>1. sent' \in [Clients -> Seq(Commands)] /\ Number(c) \in Nat
    BY <1>3, SendType DEF InitializeFromCache
  <2>2. outbox' \in [Clients -> Seq(Messages)]
    BY <1>3, <2>1, CachedInitializeType, EnqueueType DEF InitializeFromCache, MuxTypeOK
  <2>3. initOrder' \in Seq(Clients) /\ KeysDistinct'
    BY <1>3, CacheInitArgsType DEF InitializeFromCache
  <2>4. AdapterTypeOK' /\ Seqs!SeqMapTypeOK'
    BY <1>3 DEF InitializeFromCache, adapterVars, seqMap, AdapterTypeOK, Seqs!SeqMapTypeOK
  <2> QED
    BY <1>3, <2>1, <2>2, <2>3, <2>4 DEF InitializeFromCache, Send, MuxTypeOK, sessionCache
<1>4. CASE InitializeBuffered(c)
  <2>1. sent' \in [Clients -> Seq(Commands)] /\ Number(c) \in 1..MaxRequests
    BY <1>4, SendType DEF InitializeBuffered
  <2>2. pendingInitialize' \in Seq(BufferedRequests)
    BY <1>4, <2>1, AppendProperties DEF InitializeBuffered, MuxTypeOK, BufferedRequests
  <2>3. initOrder' \in Seq(Clients) /\ KeysDistinct'
    BY <1>4, CacheInitArgsType DEF InitializeBuffered
  <2>4. AdapterTypeOK' /\ Seqs!SeqMapTypeOK'
    BY <1>4 DEF InitializeBuffered, adapterVars, seqMap, AdapterTypeOK, Seqs!SeqMapTypeOK
  <2> QED
    BY <1>4, <2>1, <2>2, <2>3, <2>4 DEF InitializeBuffered, Send, MuxTypeOK, sessionCache
<1>5. CASE InitializeForwarded(c)
  <2>1. /\ sent' \in [Clients -> Seq(Commands)]
        /\ Number(c) \in 1..MaxRequests
        /\ "initialize" \in Commands
    BY <1>5, SendType DEF InitializeForwarded
  <2>2. initOrder' \in Seq(Clients) /\ KeysDistinct'
    BY <1>5, CacheInitArgsType DEF InitializeForwarded
  <2>3. AdapterTypeOK' /\ Seqs!SeqMapTypeOK'
    BY <1>5, <2>1, ForwardType DEF InitializeForwarded
  <2> QED
    BY <1>5, <2>1, <2>2, <2>3 DEF InitializeForwarded, Send, MuxTypeOK, sessionCache
<1>6. CASE ConfigurationDoneForwarded(c)
  <2>1. /\ sent' \in [Clients -> Seq(Commands)]
        /\ Number(c) \in 1..MaxRequests
        /\ "configurationDone" \in Commands
    BY <1>6, SendType DEF ConfigurationDoneForwarded
  <2>2. AdapterTypeOK' /\ Seqs!SeqMapTypeOK'
    BY <1>6, <2>1, ForwardType DEF ConfigurationDoneForwarded
  <2> QED
    BY <1>6, <2>1, <2>2 DEF ConfigurationDoneForwarded, Send, MuxTypeOK, sessionCache
<1>7. ASSUME NEW command \in Requests, RequestIntercepted(c, command)
      PROVE  TypeOK' /\ KeysDistinct'
  <2>1. sent' \in [Clients -> Seq(Commands)] /\ Number(c) \in Nat /\ command \in Commands
    BY <1>7, SendType DEF RequestIntercepted
  <2> DEFINE response == Response(c, Number(c), command, TRUE, FALSE, <<c, Number(c)>>)
  <2>2. response \in Messages
    BY <2>1, ResponseType
  <2>3. Enqueue(c, <<response>>)
    BY <1>7 DEF RequestIntercepted, RespondSynthetic
  <2> HIDE DEF response
  <2>4. <<response>> \in Seq(Messages)
    BY <2>2
  <2>5. outbox' \in [Clients -> Seq(Messages)]
    BY <2>3, <2>4, EnqueueType
  <2>6. AdapterTypeOK' /\ Seqs!SeqMapTypeOK'
    BY <1>7 DEF RequestIntercepted, RespondSynthetic, adapterVars, seqMap, AdapterTypeOK,
                Seqs!SeqMapTypeOK
  <2> QED
    BY <1>7, <2>1, <2>5, <2>6 DEF RequestIntercepted, Send, MuxTypeOK, sessionCache, handshake
<1>8. ASSUME NEW command \in Requests, RequestForwarded(c, command)
      PROVE  TypeOK' /\ KeysDistinct'
  <2>1. /\ sent' \in [Clients -> Seq(Commands)]
        /\ Number(c) \in 1..MaxRequests
        /\ command \in Commands
    BY <1>8, SendType DEF RequestForwarded
  <2>2. AdapterTypeOK' /\ Seqs!SeqMapTypeOK'
    BY <1>8, <2>1, ForwardType DEF RequestForwarded
  <2> QED
    BY <1>8, <2>1, <2>2 DEF RequestForwarded, Send, MuxTypeOK, sessionCache, handshake
<1>9. CASE ReverseResponseIgnored(c)
  <2>1. replied' \subseteq Nat
    <3>1. ASSUME NEW i \in DOMAIN outbox[c], outbox[c][i].type = "request"
          PROVE  outbox[c][i].n \in Nat
      <4>1. outbox[c][i] \in Messages
        BY <3>1, ElementOfSeq DEF MuxTypeOK
      <4> QED
        BY <3>1, <4>1 DEF Messages, Responses, Emission
    <3> QED
      BY <1>9, <3>1 DEF ReverseResponseIgnored, MuxTypeOK
  <2>2. AdapterTypeOK' /\ Seqs!SeqMapTypeOK'
    BY <1>9 DEF ReverseResponseIgnored, adapterVars, seqMap, AdapterTypeOK, Seqs!SeqMapTypeOK
  <2> QED
    BY <1>9, <2>1, <2>2 DEF ReverseResponseIgnored, MuxTypeOK, sessionCache, handshake
<1> QED
  BY <1>1, <1>2, <1>3, <1>4, <1>5, <1>6, <1>7, <1>8, <1>9 DEF ClientStep

LEMMA TypesAdapterStep ==
  ASSUME TypeOK, KeysDistinct, AdapterStep
  PROVE  TypeOK' /\ KeysDistinct'
<1> USE DEF TypeOK, KeysDistinct
<1>1. ASSUME NEW i \in DOMAIN upstream, InitializeResponse(upstream[i])
      PROVE  TypeOK' /\ KeysDistinct'
  <2> DEFINE r == upstream[i]
  <2>1. r \in Forwarded
    BY ElementOfSeq DEF AdapterTypeOK
  <2> HIDE DEF r
  <2>2. InitializeResponse(r)
    BY <1>1 DEF r
  <2>3. AdapterTypeOK'
    BY <2>1, <2>2, AnswerType DEF InitializeResponse
  <2>4. outbox' \in [Clients -> Seq(Messages)] /\ Seqs!SeqMapTypeOK'
    BY <2>1, <2>2, FlushType, RouteResponseType DEF InitializeResponse
  <2>5. pendingInitialize' \in Seq(BufferedRequests)
    BY <2>2 DEF InitializeResponse
  <2> QED
    BY <2>2, <2>3, <2>4, <2>5 DEF InitializeResponse, MuxTypeOK, clientVars
<1>2. ASSUME NEW i \in DOMAIN upstream, NEW ok \in BOOLEAN, OtherResponse(upstream[i], ok)
      PROVE  TypeOK' /\ KeysDistinct'
  <2> DEFINE r == upstream[i]
  <2>1. r \in Forwarded
    BY ElementOfSeq DEF AdapterTypeOK
  <2> HIDE DEF r
  <2>2. OtherResponse(r, ok)
    BY <1>2 DEF r
  <2>3. AdapterTypeOK'
    BY <2>1, <2>2, AnswerType DEF OtherResponse
  <2>4. outbox' \in [Clients -> Seq(Messages)] /\ Seqs!SeqMapTypeOK'
    BY <2>1, <2>2, RouteResponseType DEF OtherResponse, MuxTypeOK
  <2> QED
    BY <2>2, <2>3, <2>4 DEF OtherResponse, MuxTypeOK, handshake, sessionCache, clientVars
<1>3. ASSUME NEW name \in Events, EventBroadcast(name)
      PROVE  TypeOK' /\ KeysDistinct'
  <2> DEFINE event == NextEmission("event", name)
  <2>1. event \in Emission /\ AdapterTypeOK'
    BY <1>3, EmissionType DEF EventBroadcast
  <2>2. /\ initializedEvent' \in {event, initializedEvent}
        /\ lastStoppedEvent' \in {event, NoEvent, lastStoppedEvent}
    BY <1>3 DEF EventBroadcast, StopAfter
  <2>3. Broadcast(event)
    BY <1>3 DEF EventBroadcast
  <2> HIDE DEF event
  <2>4. \A c \in Clients : Append(outbox[c], event) \in Seq(Messages)
    BY <2>1, AppendProperties DEF MuxTypeOK, Messages
  <2>5. outbox' \in [Clients -> Seq(Messages)]
    BY <2>3, <2>4 DEF Broadcast, MuxTypeOK
  <2>6. Seqs!SeqMapTypeOK'
    BY <1>3 DEF EventBroadcast, seqMap, Seqs!SeqMapTypeOK
  <2> QED
    BY <1>3, <2>1, <2>2, <2>5, <2>6 DEF EventBroadcast, MuxTypeOK, handshake, clientVars
<1>4. ASSUME NEW name \in Events, EventFiltered(name)
      PROVE  TypeOK' /\ KeysDistinct'
  <2>1. AdapterTypeOK'
    BY <1>4, EmissionType DEF EventFiltered
  <2> QED
    BY <1>4, <2>1 DEF EventFiltered, MuxTypeOK, handshake, sessionCache, clientVars, seqMap,
                      Seqs!SeqMapTypeOK
<1>5. ASSUME NEW command \in ReverseRequests, ReverseRequestRouted(command)
      PROVE  TypeOK' /\ KeysDistinct'
  <2> DEFINE message == NextEmission("request", command)
             target == PickReverseRequestTarget(initOrder, OptIn, command)
  <2>1. message \in Emission /\ AdapterTypeOK'
    BY <1>5, EmissionType DEF ReverseRequestRouted
  <2>2. outbox' = [c \in Clients |-> IF c \in target /\ Registered(c)
                                     THEN Append(outbox[c], message) ELSE outbox[c]]
    BY <1>5 DEF ReverseRequestRouted
  <2> HIDE DEF message, target
  <2>3. \A c \in Clients : Append(outbox[c], message) \in Seq(Messages)
    BY <2>1, AppendProperties DEF MuxTypeOK, Messages
  <2>4. outbox' \in [Clients -> Seq(Messages)]
    BY <2>2, <2>3 DEF MuxTypeOK
  <2> QED
    BY <1>5, <2>1, <2>4 DEF ReverseRequestRouted, MuxTypeOK, handshake, sessionCache, clientVars,
                            seqMap, Seqs!SeqMapTypeOK
<1>6. ASSUME NEW command \in ReverseRequests, ReverseRequestUnknown(command)
      PROVE  TypeOK' /\ KeysDistinct'
  <2>1. AdapterTypeOK'
    BY <1>6, EmissionType DEF ReverseRequestUnknown
  <2> QED
    BY <1>6, <2>1 DEF ReverseRequestUnknown, MuxTypeOK, handshake, sessionCache, clientVars,
                      seqMap, Seqs!SeqMapTypeOK
<1>7. CASE AdapterLost
  BY <1>7 DEF AdapterLost, Lose, MuxTypeOK, AdapterTypeOK, handshake, sessionCache, clientVars,
              seqMap, Seqs!SeqMapTypeOK
<1> QED
  BY <1>1, <1>2, <1>3, <1>4, <1>5, <1>6, <1>7 DEF AdapterStep, AnswerStep

LEMMA TypesStutter ==
  ASSUME TypeOK, KeysDistinct, UNCHANGED vars
  PROVE  TypeOK' /\ KeysDistinct'
BY DEF vars, TypeOK, KeysDistinct, MuxTypeOK, AdapterTypeOK, Seqs!SeqMapTypeOK, handshake,
       sessionCache, clientVars, seqMap, adapterVars

THEOREM TypesInvariant == Spec => [](TypeOK /\ KeysDistinct)
<1>1. TypeOK /\ KeysDistinct /\ [Next]_vars => (TypeOK /\ KeysDistinct)'
  BY TypesClientStep, TypesAdapterStep, TypesStutter DEF Next
<1> QED
  BY <1>1, TypesInit, PTL DEF Spec

THEOREM TypeCorrect == Spec => []TypeOK
BY TypesInvariant, PTL

=============================================================================
