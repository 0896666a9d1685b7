------------------------ MODULE DapConnectionProofs -------------------------
(***************************************************************************)
(* Proofs about the REPL's client, for any number of threads, connections  *)
(* and requests: requests stand on each wire in the order of their         *)
(* numbers, and a thread gets the answer to its own request or none.       *)
(***************************************************************************)
EXTENDS DapConnection, FiniteSetTheorems, SequenceTheorems, TLAPS

-----------------------------------------------------------------------------
(* The inductive invariant.                                                *)

\* From having registered a queue to having removed it.
Registered == {t \in Callers : at[t] \in {"locked", "waiting"}}

\* A thread in send_request has a request to send.
ScriptsGoOn == \A t \in Callers : at[t] \in InCall \cup {"ready"} => script[t] # <<>>

\* Who has the lock is about to send, with the newest number.
LockIsHeld ==
  \A t \in Callers :
    /\ at[t] = "locked" <=> sendLock = t
    /\ at[t] = "locked" => number[t] = nextSeq - 1

\* Each registered thread has a queue of its own.
QueuesAreOwn ==
  /\ \A t \in Registered : number[t] \in DOMAIN queues
  /\ \A t, u \in Registered : number[t] = number[u] => t = u

\* What is on the wires has numbers that were taken, but not the one of the
\* thread that is about to send.
WiresAreOlder ==
  \A s \in Sockets : \A i \in DOMAIN wire[s] :
    /\ wire[s][i].seq < nextSeq
    /\ \A t \in Callers : at[t] = "locked" => wire[s][i].seq < number[t]

\* A number stands at one place.
NumbersStandOnce ==
  \A s, r \in Sockets : \A i \in DOMAIN wire[s], j \in DOMAIN wire[r] :
    wire[s][i].seq = wire[r][j].seq => s = r /\ i = j

\* Request n was put at place p.
StandsAt(n, p) == p[1] \in Sockets /\ p[2] \in DOMAIN wire[p[1]] /\ wire[p[1]][p[2]].seq = n

\* A waiting thread knows the place of its request, and a queue holds answers to
\* the request of its number.
PlacesAreKnown == \A t \in Callers : at[t] = "waiting" => StandsAt(number[t], place[t])
QueuesHoldOwn ==
  \A n \in DOMAIN queues : \A i \in DOMAIN queues[n] : StandsAt(n, queues[n][i].about)

CallInv ==
  /\ LockIsHeld
  /\ QueuesAreOwn
  /\ WiresAreOlder
  /\ NumbersStandOnce
  /\ PlacesAreKnown
  /\ QueuesHoldOwn
  /\ WireIsOrdered

-----------------------------------------------------------------------------
(* Types.                                                                  *)

LEMMA ThreadFacts ==
  /\ Main \in Callers /\ Fetchers \subseteq Callers
  /\ Callers \subseteq Threads /\ Readers \subseteq Threads /\ Callers \cap Readers = {}
  /\ None \notin Callers /\ None \notin Sockets /\ Sockets \subseteq Nat
  /\ Cardinality(Fetchers) \in Nat
<1>1. Cardinality(Fetchers) \in Nat
  BY ConnectionAssumption, FS_CardinalityType
<1> QED
  BY <1>1, ConnectionAssumption DEF Callers, Threads, Readers, Sockets, None

\* Going from one place to another keeps the types.
LEMMA GoType ==
  ASSUME at \in [Threads -> Places], NEW t \in Threads, NEW to \in Places, Go(t, to)
  PROVE  /\ at' \in [Threads -> Places]
         /\ at'[t] = to
         /\ \A u \in Threads : u # t => at'[u] = at[u]
BY DEF Go

LEMMA RestType ==
  ASSUME NEW t
  PROVE  Rest(t) \in {"idle", "dead"}
BY DEF Rest

\* What a call leaves when it returns (ipython_ext.py:130-144): the thread is out
\* of the call, or at its next request.
LEMMA ReturnEffect ==
  ASSUME TypeOK, NEW t \in Callers, script[t] # <<>>,
         NEW result \in Answers \cup {NoAnswer}, Return(t, result)
  PROVE  /\ fetched' \in [Callers -> Stops \cup {None}]
         /\ script' \in [Callers -> Seq(Commands)]
         /\ at' \in [Threads -> Places]
         /\ at'[t] \in {"idle", "dead", "ready", "synced", "fetched"}
         /\ at'[t] = "ready" => script'[t] # <<>>
         /\ \A u \in Threads : u # t => at'[u] = at[u]
         /\ \A u \in Callers : u # t => script'[u] = script[u]
<1> DEFINE gaveUp == Head(script[t]) = "threads" /\ result = NoAnswer
           next == CASE result.frame = None -> IF Len(script[t]) = 1 \/ gaveUp THEN Rest(t) ELSE "ready"
                     [] result.frame # None -> IF Head(script[t]) = "stackTraceSync" THEN "synced" ELSE "fetched"
           left == IF gaveUp THEN <<>> ELSE Tail(script[t])
<1>1. script[t] \in Seq(Commands) /\ t \in Threads
  BY ThreadFacts DEF TypeOK
<1>2. left \in Seq(Commands) /\ (~gaveUp => Len(left) = Len(script[t]) - 1) /\ Len(script[t]) \in Nat \ {0}
  BY <1>1, HeadTailProperties, EmptySeq
<1>3. next \in {"idle", "dead", "ready", "synced", "fetched"}
  BY RestType
<1>4. ASSUME next = "ready" PROVE left # <<>>
  <2>1. ~gaveUp /\ Len(script[t]) # 1
    BY <1>4 DEF Rest
  <2>2. Len(left) = Len(script[t]) - 1
    BY <1>2, <2>1
  <2> HIDE DEF left, next
  <2>3. Len(left) # 0
    BY <1>2, <2>1, <2>2
  <2> QED
    BY <2>3, EmptySeq
<1>5. fetched' = [fetched EXCEPT ![t] = result.frame] /\ script' = [script EXCEPT ![t] = left] /\ Go(t, next)
  BY DEF Return
<1>7. result.frame \in Stops \cup {None}
  BY DEF Answers, NoAnswer
<1> HIDE DEF gaveUp, next, left
<1>6. next \in Places
  BY <1>3 DEF Places
<1> QED
  BY <1>1, <1>2, <1>3, <1>4, <1>5, <1>6, <1>7, GoType DEF TypeOK

LEMMA UnregisterEffect ==
  ASSUME TypeOK, NEW t \in Callers, Unregister(t)
  PROVE  /\ DOMAIN queues' = DOMAIN queues \ {number[t]}
         /\ \A n \in DOMAIN queues' : queues'[n] = queues[n]
BY DEF Unregister, Restrict

\* What was sent, whole or not, stands at the end of the socket's wire, with the
\* thread's number (ipython_ext.py:129).
LEMMA WriteEffect ==
  ASSUME TypeOK, NEW t \in Callers, script[t] # <<>>, NEW whole \in BOOLEAN, Write(t, whole)
  PROVE  /\ sock \in Sockets
         /\ wire' \in [Sockets -> Seq(Frames)]
         /\ Len(wire[sock]) + 1 \in Nat \ {0}
         /\ DOMAIN wire[sock] = 1..Len(wire[sock])
         /\ DOMAIN wire'[sock] = 1..Len(wire[sock]) + 1
         /\ wire'[sock][Len(wire[sock]) + 1].seq = number[t]
         /\ \A i \in DOMAIN wire[sock] : wire'[sock][i] = wire[sock][i]
         /\ \A s \in Sockets : s # sock => wire'[s] = wire[s]
<1> DEFINE request == [seq |-> number[t], command |-> Head(script[t]),
                       readable |-> whole /\ \A i \in DOMAIN wire[sock] : wire[sock][i].readable]
<1>1. /\ sock \in Sockets /\ script[t] \in Seq(Commands) /\ number[t] \in Nat
      /\ wire \in [Sockets -> Seq(Frames)]
  BY DEF Write, TypeOK, LinkTypeOK, NumberingTypeOK
<1>2. Head(script[t]) \in Commands /\ (whole /\ \A i \in DOMAIN wire[sock] : wire[sock][i].readable) \in BOOLEAN
  BY <1>1, HeadTailProperties
<1>3. request \in Frames /\ request.seq = number[t]
  BY <1>1, <1>2 DEF Frames
<1>4. wire' = [wire EXCEPT ![sock] = Append(wire[sock], request)]
  BY <1>1 DEF Write
<1> HIDE DEF request
<1>5. wire[sock] \in Seq(Frames) /\ wire'[sock] = Append(wire[sock], request)
  BY <1>1, <1>4
<1>6. \A s \in Sockets : s # sock => wire'[s] = wire[s]
  BY <1>1, <1>4
<1>7. /\ Append(wire[sock], request) \in Seq(Frames)
      /\ Len(Append(wire[sock], request)) = Len(wire[sock]) + 1
      /\ \A i \in 1..Len(wire[sock]) : Append(wire[sock], request)[i] = wire[sock][i]
      /\ Append(wire[sock], request)[Len(wire[sock]) + 1] = request
  BY <1>3, <1>5, AppendProperties
<1>8. DOMAIN wire[sock] = 1..Len(wire[sock]) /\ Len(wire[sock]) \in Nat
      /\ DOMAIN wire'[sock] = 1..Len(wire[sock]) + 1
  BY <1>5, <1>7, LenProperties
<1>9. wire' \in [Sockets -> Seq(Frames)]
  BY <1>1, <1>4, <1>7
<1> QED
  BY <1>1, <1>3, <1>5, <1>6, <1>7, <1>8, <1>9

\* What leaves the numbers, the queues and the wires alone keeps their types.
LEMMA SameTypes ==
  ASSUME TypeOK
  PROVE  /\ UNCHANGED link => LinkTypeOK'
         /\ UNCHANGED numbering => NumberingTypeOK'
         /\ UNCHANGED <<view, session>> => ViewTypeOK'
<1>1. UNCHANGED link => LinkTypeOK'
  BY DEF TypeOK, LinkTypeOK, link
<1>2. UNCHANGED numbering => NumberingTypeOK'
  BY DEF TypeOK, NumberingTypeOK, numbering
<1>3. UNCHANGED <<view, session>> => ViewTypeOK'
  BY DEF TypeOK, ViewTypeOK, view, session
<1> QED
  BY <1>1, <1>2, <1>3

\* Init has the types, and no thread is in send_request.
LEMMA InitTypes == Init => TypeOK /\ ScriptsGoOn
<1> SUFFICES ASSUME Init PROVE TypeOK /\ ScriptsGoOn
  OBVIOUS
<1>1. LinkTypeOK
  <2>1. sock = None /\ reader = None /\ opened \in 0..MaxSockets /\ closed = {} /\ hungUp = {}
    BY ConnectionAssumption DEF Init
  <2>2. running \in BOOLEAN
    BY DEF Init
  <2> QED
    BY <2>1, <2>2, Zenon DEF LinkTypeOK
<1>2. NumberingTypeOK
  <2>1. DOMAIN queues = {} /\ nextSeq \in Nat \ {0} /\ sendLock \in Callers \cup {None}
    BY DEF Init
  <2>2. wire \in [Sockets -> Seq(Frames)]
    BY EmptySeq DEF Init
  <2>3. place \in [Callers -> (Sockets \cup {None}) \X Nat] /\ number \in [Callers -> Nat]
    BY DEF Init
  <2> QED
    BY <2>1, <2>2, <2>3, Zenon DEF NumberingTypeOK
<1>3. ViewTypeOK
  BY DEF Init, ViewTypeOK, None
<1>4. at \in [Threads -> Places] /\ \A t \in Threads : at[t] \in {"idle", "unborn"}
  BY DEF Init, Places
<1>5. script \in [Callers -> Seq(Commands)] /\ fetched \in [Callers -> Stops \cup {None}]
  BY EmptySeq DEF Init
<1>6. ScriptsGoOn
  BY <1>4, ThreadFacts DEF ScriptsGoOn, InCall
<1> QED
  BY <1>1, <1>2, <1>3, <1>4, <1>5, <1>6 DEF TypeOK

\* The steps of send_request, and of storing what it returned.
LEMMA CallerTypes ==
  ASSUME TypeOK, ScriptsGoOn, QueuesAreOwn, NEW t \in Callers, CallerStep(t)
  PROVE  TypeOK' /\ ScriptsGoOn'
<1> USE DEF ScriptsGoOn
<1>1. /\ t \in Threads /\ Callers \subseteq Threads
      /\ at \in [Threads -> Places]
      /\ script \in [Callers -> Seq(Commands)]
      /\ fetched \in [Callers -> Stops \cup {None}]
  BY ThreadFacts DEF TypeOK
<1>2. at[t] \in InCall \cup {"ready"} => script[t] # <<>>
  OBVIOUS
<1>3. ASSUME NEW result \in Answers \cup {NoAnswer}, Return(t, result), script[t] # <<>>,
             UNCHANGED <<view, session, link>>, NumberingTypeOK'
      PROVE  TypeOK' /\ ScriptsGoOn'
  BY <1>1, <1>3, ReturnEffect, SameTypes DEF TypeOK, InCall
<1>4. ASSUME NEW to \in Places, Go(t, to), to \in InCall \cup {"ready"} => script[t] # <<>>,
             UNCHANGED script, LinkTypeOK', NumberingTypeOK', ViewTypeOK',
             fetched' \in [Callers -> Stops \cup {None}]
      PROVE  TypeOK' /\ ScriptsGoOn'
  BY <1>1, <1>4, GoType DEF TypeOK
<1>5. CASE Check(t)
  <2>1. script[t] # <<>> /\ LinkTypeOK' /\ NumberingTypeOK' /\ ViewTypeOK'
    BY <1>2, <1>5, SameTypes DEF Check
  <2>2. CASE sock = None
    BY <1>3, <1>5, <2>1, <2>2 DEF Check
  <2>3. CASE sock # None
    <3>1. Go(t, "checked") /\ "checked" \in Places /\ UNCHANGED <<fetched, script>>
      BY <1>5, <2>3 DEF Check, Places, InCall
    <3> QED
      BY <1>1, <1>4, <2>1, <3>1
  <2> QED
    BY <2>2, <2>3
<1>6. CASE Register(t)
  <2>1. Go(t, "locked") /\ "locked" \in Places /\ script[t] # <<>>
    BY <1>2, <1>6 DEF Register, Places, InCall
  <2>2. queues' = [n \in DOMAIN queues \cup {nextSeq} |-> IF n = nextSeq THEN <<>> ELSE queues[n]]
    BY <1>6 DEF Register
  <2>3. DOMAIN queues' \subseteq 1..nextSeq'-1 /\ \A n \in DOMAIN queues' : queues'[n] \in Seq(Answers)
    BY <1>6, <2>2, EmptySeq DEF Register, TypeOK, NumberingTypeOK
  <2>4. NumberingTypeOK'
    <3>1. nextSeq' \in Nat \ {0} /\ sendLock' \in Callers /\ number' \in [Callers -> Nat]
      BY <1>6 DEF Register, TypeOK, NumberingTypeOK
    <3>2. UNCHANGED <<place, wire>>
      BY <1>6 DEF Register
    <3> QED
      BY <2>3, <3>1, <3>2, Zenon DEF TypeOK, NumberingTypeOK
  <2>5. UNCHANGED <<view, session, link, fetched, script>>
    BY <1>6 DEF Register
  <2> QED
    BY <1>1, <1>4, <2>1, <2>4, <2>5, SameTypes
<1>7. CASE Transmit(t)
  <2>1. Go(t, "waiting") /\ "waiting" \in Places /\ script[t] # <<>>
    BY <1>2, <1>7 DEF Transmit, Places, InCall
  <2>2. /\ sock \in Sockets /\ Len(wire[sock]) + 1 \in Nat
        /\ wire' \in [Sockets -> Seq(Frames)]
    BY <1>7, <2>1, WriteEffect DEF Transmit
  <2>3. place' \in [Callers -> (Sockets \cup {None}) \X Nat]
    BY <1>7, <2>2 DEF Transmit, TypeOK, NumberingTypeOK
  <2>4. NumberingTypeOK'
    BY <1>7, <2>2, <2>3 DEF Transmit, TypeOK, NumberingTypeOK
  <2>5. UNCHANGED <<view, session, link, fetched, script>>
    BY <1>7 DEF Transmit
  <2> QED
    BY <1>1, <1>4, <2>1, <2>4, <2>5, SameTypes
<1>8. ASSUME Unregister(t), UNCHANGED <<nextSeq, number, place>>, sendLock' \in {sendLock, None},
             wire' \in [Sockets -> Seq(Frames)]
      PROVE  NumberingTypeOK'
  BY <1>8, UnregisterEffect DEF TypeOK, NumberingTypeOK
<1>9. CASE TransmitFails(t) \/ TimeOut(t)
  <2>1. script[t] # <<>> /\ wire \in [Sockets -> Seq(Frames)]
    BY <1>2, <1>9 DEF TransmitFails, TimeOut, InCall, TypeOK, NumberingTypeOK
  <2>2. wire' \in [Sockets -> Seq(Frames)]
    BY <1>9, <2>1, WriteEffect DEF TransmitFails, TimeOut
  <2> QED
    BY <1>3, <1>8, <1>9, <2>1, <2>2 DEF TransmitFails, TimeOut
<1>10. CASE TransmitRaises(t)
  <2>1. Go(t, Rest(t)) /\ Rest(t) \in Places /\ Rest(t) \notin InCall \cup {"ready"}
    BY <1>10, RestType DEF TransmitRaises, Places, InCall
  <2>2. NumberingTypeOK' /\ LinkTypeOK' /\ ViewTypeOK' /\ UNCHANGED fetched
    BY <1>10, SameTypes DEF TransmitRaises, TypeOK, NumberingTypeOK
  <2>3. script' = [script EXCEPT ![t] = <<>>] /\ <<>> \in Seq(Commands)
    BY <1>10, EmptySeq DEF TransmitRaises
  <2> QED
    BY <1>1, <2>1, <2>2, <2>3, GoType DEF TypeOK
<1>11. CASE Receive(t)
  <2>1. number[t] \in DOMAIN queues
    BY <1>11 DEF Receive, QueuesAreOwn, Registered
  <2>2. Head(queues[number[t]]) \in Answers /\ wire \in [Sockets -> Seq(Frames)]
    BY <1>11, <2>1, HeadTailProperties DEF Receive, TypeOK, NumberingTypeOK
  <2> QED
    BY <1>2, <1>3, <1>8, <1>11, <2>2 DEF Receive, InCall
<1>12. CASE StoreFrame(t)
  <2>1. Go(t, Rest(t)) /\ Rest(t) \in {"idle", "dead"}
    BY <1>12, RestType DEF StoreFrame
  <2>2. fetched[t] \in Stops \cup {None} /\ fetched' \in [Callers -> Stops \cup {None}]
    BY <1>1, <1>12 DEF StoreFrame
  <2>3. ViewTypeOK'
    BY <1>12, <2>2 DEF StoreFrame, TypeOK, ViewTypeOK, session
  <2>4. UNCHANGED <<session, link, numbering, script>>
    BY <1>12 DEF StoreFrame
  <2> QED
    BY <1>4, <2>1, <2>2, <2>3, <2>4, SameTypes DEF Places, InCall
<1> QED
  BY <1>5, <1>6, <1>7, <1>9, <1>10, <1>11, <1>12 DEF CallerStep

\* disconnect.
LEMMA DisconnectTypes ==
  ASSUME TypeOK, ScriptsGoOn, NEW t \in {Main} \cup Readers, DisconnectStep(t)
  PROVE  TypeOK' /\ ScriptsGoOn'
<1> USE DEF DisconnectStep, SocketChecked, SocketClosed, SocketDropped, ReaderChecked, ReaderJoined
<1>1. t \in Threads /\ Callers \subseteq Threads /\ at \in [Threads -> Places]
  BY ThreadFacts DEF TypeOK
<1>2. PICK to \in (InDisconnect \ {"disconnecting"}) \cup {"idle", "dead", "reading"} : Go(t, to)
  BY RestType DEF ReaderForgotten, ThreadForgotten, FrameForgotten, InDisconnect
<1>3. at' \in [Threads -> Places] /\ \A u \in Callers : at'[u] \in InCall \cup {"ready"} => at[u] = at'[u]
  BY <1>1, <1>2, GoType DEF Places, InDisconnect, InReadLoop, InCall
<1>4. UNCHANGED <<script, fetched>> /\ NumberingTypeOK'
  BY SameTypes DEF ReaderForgotten, ThreadForgotten, FrameForgotten
<1>5. LinkTypeOK'
  <2>1. sock' \in {sock, None} /\ UNCHANGED <<running, opened, hungUp>> /\ reader' \in {reader, None}
    BY DEF ReaderForgotten, ThreadForgotten, FrameForgotten, link
  <2>2. closed' \in {closed, closed \cup ({sock} \ {None})}
    BY DEF ReaderForgotten, ThreadForgotten, FrameForgotten, link
  <2>3. closed' \subseteq Sockets
    BY <2>2 DEF TypeOK, LinkTypeOK
  <2> QED
    BY <2>1, <2>3, Zenon DEF TypeOK, LinkTypeOK
<1>6. ViewTypeOK'
  <2>1. CASE ThreadForgotten(t)
    <3>1. hasThread' \in BOOLEAN /\ UNCHANGED <<frame, session>>
      BY <2>1 DEF ThreadForgotten
    <3> QED
      BY <3>1, Zenon DEF TypeOK, ViewTypeOK, session
  <2>2. CASE FrameForgotten(t)
    <3>1. frame' = None /\ UNCHANGED <<hasThread, session>>
      BY <2>2 DEF FrameForgotten
    <3> QED
      BY <3>1, Zenon DEF TypeOK, ViewTypeOK, session
  <2>3. CASE UNCHANGED <<view, session>>
    BY <2>3, SameTypes
  <2> QED
    BY <2>1, <2>2, <2>3 DEF ReaderForgotten
<1> QED
  BY <1>3, <1>4, <1>5, <1>6 DEF TypeOK, ScriptsGoOn

\* The reader threads; frames are those of stops (ipython_ext.py:146-233).
LEMMA ReaderTypes ==
  ASSUME TypeOK, ScriptsGoOn, NEW k \in Readers, ReaderStep(k)
  PROVE  TypeOK' /\ ScriptsGoOn'
<1>1. k \in Threads /\ k \notin Callers /\ Callers \subseteq Threads /\ at \in [Threads -> Places]
  BY ThreadFacts DEF TypeOK
<1>2. UNCHANGED <<script, fetched>>
  BY DEF ReaderStep, ReadResponse, ReadStopped, ReadContinued, ReadTerminated,
         HandleStopped, HandleContinued, HandleTerminated, ReadEnd, ReaderStops
<1>3. at' \in [Threads -> Places] /\ \A u \in Callers : at'[u] \in InCall \cup {"ready"} => at[u] = at'[u]
  <2>1. CASE ReadResponse(k)
    BY <1>1, <2>1 DEF ReadResponse
  <2>2. CASE HandleStopped(k)
    <3>1. PICK f \in Fetchers : at' = [at EXCEPT ![k] = "reading", ![f] = "started"]
      BY <2>2 DEF HandleStopped
    <3> QED
      BY <1>1, <3>1, ThreadFacts DEF Places, InReadLoop, InCall
  <2>3. CASE ~(ReadResponse(k) \/ HandleStopped(k))
    <3>1. PICK to \in InReadLoop \cup {"terminated", "disconnecting", "dead"} : Go(k, to)
      BY <2>3 DEF ReaderStep, ReadStopped, ReadContinued, ReadTerminated,
         HandleContinued, HandleTerminated, ReadEnd, ReaderStops, Leave, InReadLoop
    <3> QED
      BY <1>1, <3>1, GoType DEF Places, InDisconnect, InReadLoop
  <2> QED
    BY <2>1, <2>2, <2>3
<1>4. LinkTypeOK'
  <2>1. CASE UNCHANGED link
    BY <2>1, SameTypes
  <2>2. CASE HandleTerminated(k)
    <3>1. running' \in BOOLEAN
      BY <2>2 DEF HandleTerminated, Leave
    <3>2. UNCHANGED <<sock, reader, opened, closed, hungUp>>
      BY <2>2 DEF HandleTerminated, Leave
    <3> QED
      BY <3>1, <3>2, Zenon DEF TypeOK, LinkTypeOK
  <2>3. CASE ReadEnd(k)
    <3>1. hungUp' \subseteq Sockets /\ UNCHANGED <<sock, running, reader, opened, closed>>
      BY <2>3 DEF ReadEnd, Reads, TypeOK, LinkTypeOK
    <3> QED
      BY <3>1, Zenon DEF TypeOK, LinkTypeOK
  <2> QED
    BY <2>1, <2>2, <2>3 DEF ReaderStep, ReadResponse, ReadStopped, ReadContinued, ReadTerminated,
       HandleStopped, HandleContinued, ReaderStops
<1>5. NumberingTypeOK'
  <2>1. CASE ReadResponse(k)
    <3>1. sock \in Sockets /\ wire[sock] \in Seq(Frames)
      BY <2>1 DEF ReadResponse, Hears, Reads, TypeOK, LinkTypeOK, NumberingTypeOK
    <3>2. PICK i \in DOMAIN wire[sock], f \in {stop, None} :
            /\ wire[sock][i].seq \in DOMAIN queues
            /\ queues' = [queues EXCEPT ![wire[sock][i].seq] =
                            Append(@, [about |-> <<sock, i>>, frame |-> f])]
      BY <2>1 DEF ReadResponse
    <3> DEFINE answered == [about |-> <<sock, i>>, frame |-> f]
               n == wire[sock][i].seq
    <3>3. answered \in Answers
      <4>1. i \in Nat
        BY <3>1, LenProperties
      <4> QED
        BY <3>1, <4>1 DEF Answers, TypeOK, ViewTypeOK
    <3> HIDE DEF answered
    <3>4. queues[n] \in Seq(Answers) /\ Append(queues[n], answered) \in Seq(Answers)
      BY <3>2, <3>3, AppendProperties DEF TypeOK, NumberingTypeOK
    <3>5. queues' = [queues EXCEPT ![n] = Append(queues[n], answered)]
      BY <3>2 DEF answered
    <3>6. DOMAIN queues' = DOMAIN queues /\ \A m \in DOMAIN queues' : queues'[m] \in Seq(Answers)
      BY <3>4, <3>5 DEF TypeOK, NumberingTypeOK
    <3>7. UNCHANGED <<nextSeq, sendLock, number, place, wire>>
      BY <2>1 DEF ReadResponse
    <3> QED
      BY <3>6, <3>7, Zenon DEF TypeOK, NumberingTypeOK
  <2>2. CASE UNCHANGED numbering
    BY <2>2, SameTypes
  <2> QED
    BY <2>1, <2>2 DEF ReaderStep, ReadStopped, ReadContinued, ReadTerminated,
       HandleStopped, HandleContinued, HandleTerminated, ReadEnd, ReaderStops
<1>6. ViewTypeOK'
  <2>1. CASE ReadStopped(k)
    <3>1. stop' \in Stops \cup {None} /\ stops' \in Stops \cup {0} /\ UNCHANGED <<view, over>>
      BY <2>1, Zenon DEF ReadStopped, TypeOK, ViewTypeOK
    <3> QED
      BY <3>1, Zenon DEF TypeOK, ViewTypeOK, view
  <2>2. CASE ReadContinued(k)
    <3>1. stop' = None /\ UNCHANGED <<view, stops, over>>
      BY <2>2 DEF ReadContinued
    <3> QED
      BY <3>1, Zenon DEF TypeOK, ViewTypeOK, view
  <2>3. CASE ReadTerminated(k)
    <3>1. stop' = None /\ UNCHANGED <<view, stops>>
      BY <2>3 DEF ReadTerminated
    <3>2. over' \in BOOLEAN
      BY <2>3 DEF ReadTerminated
    <3> QED
      BY <3>1, <3>2, Zenon DEF TypeOK, ViewTypeOK, view
  <2>4. CASE HandleStopped(k)
    <3>1. hasThread' \in BOOLEAN /\ UNCHANGED <<frame, session>>
      BY <2>4 DEF HandleStopped
    <3> QED
      BY <3>1, Zenon DEF TypeOK, ViewTypeOK, session
  <2>5. CASE HandleContinued(k)
    <3>1. frame' = None /\ UNCHANGED <<hasThread, session>>
      BY <2>5 DEF HandleContinued
    <3> QED
      BY <3>1, Zenon DEF TypeOK, ViewTypeOK, session
  <2>6. CASE UNCHANGED <<view, session>>
    BY <2>6, SameTypes
  <2> QED
    BY <2>1, <2>2, <2>3, <2>4, <2>5, <2>6 DEF ReaderStep, ReadResponse, HandleTerminated, ReadEnd, ReaderStops
<1> QED
  BY <1>2, <1>3, <1>4, <1>5, <1>6 DEF TypeOK, ScriptsGoOn

\* What the main thread does between its calls, and the start of a fetcher.
UserStep == ConnectStep \/ Disconnect \/ UseMagic \/ StoreThread \/ \E f \in Fetchers : StartFetch(f)

LEMMA UserTypes ==
  ASSUME TypeOK, ScriptsGoOn, UserStep
  PROVE  TypeOK' /\ ScriptsGoOn'
<1>1. /\ Main \in Threads /\ Main \in Callers /\ Callers \subseteq Threads
      /\ at \in [Threads -> Places] /\ script \in [Callers -> Seq(Commands)]
  BY ThreadFacts DEF TypeOK
<1>2. \A requests \in {<<"initialize">>, <<"initialize", "attach", "configurationDone">>,
                       <<"stackTrace">>, <<"other">>, <<"threads", "stackTraceSync">>} :
        requests \in Seq(Commands) /\ requests # <<>>
  <2>1. \A a, b, c \in Commands : /\ <<a>> \in Seq(Commands) /\ <<a, b>> \in Seq(Commands)
                                /\ <<a, b, c>> \in Seq(Commands)
    OBVIOUS
  <2>2. \A a, b, c : <<a>> # <<>> /\ <<a, b>> # <<>> /\ <<a, b, c>> # <<>>
    OBVIOUS
  <2>3. {"initialize", "attach", "configurationDone",
         "stackTrace", "other", "threads", "stackTraceSync"} \subseteq Commands
    BY DEF Commands
  <2> QED
    BY <2>1, <2>2, <2>3
<1>3. UNCHANGED fetched /\ NumberingTypeOK'
  BY SameTypes DEF UserStep, ConnectStep, Connect, SetTimeout, SetRunning, SetReader, StartReader,
     Disconnect, UseMagic, StoreThread, StartFetch
<1>4. ASSUME NEW t \in Callers, NEW to \in Places, Go(t, to), NEW requests \in Seq(Commands),
             script' = [script EXCEPT ![t] = requests],
             to \in InCall \cup {"ready"} => requests # <<>>
      PROVE  at' \in [Threads -> Places] /\ script' \in [Callers -> Seq(Commands)] /\ ScriptsGoOn'
  <2>1. at' \in [Threads -> Places] /\ at'[t] = to /\ \A u \in Callers : u # t => at'[u] = at[u]
    <3>1. t \in Threads
      BY <1>1
    <3>2. at \in [Threads -> Places] /\ Go(t, to)
      BY <1>1, <1>4
    <3> QED
      BY <1>1, <3>1, <3>2, GoType
  <2>2. /\ script' \in [Callers -> Seq(Commands)]
        /\ script'[t] = requests /\ \A u \in Callers : u # t => script'[u] = script[u]
    BY <1>1, <1>4
  <2> QED
    BY <1>4, <2>1, <2>2 DEF ScriptsGoOn
<1>5. CASE ConnectStep
  <2>1. CASE Connect
    <3>1. opened' \in Sockets /\ opened' \in 0..MaxSockets /\ sock' = opened'
      BY <2>1, ConnectionAssumption DEF Connect, Sockets, TypeOK, LinkTypeOK
    <3>2. UNCHANGED <<running, reader, closed, hungUp, script>> /\ Go(Main, "opened") /\ ViewTypeOK'
      BY <2>1, SameTypes DEF Connect
    <3>3. LinkTypeOK'
      BY <3>1, <3>2, Zenon DEF TypeOK, LinkTypeOK
    <3>4. at' \in [Threads -> Places] /\ ScriptsGoOn'
      BY <1>1, <3>2, GoType DEF ScriptsGoOn, Places, InConnect, InCall
    <3> QED
      BY <1>3, <3>2, <3>3, <3>4 DEF TypeOK
  <2>2. CASE SetTimeout
    <3>1. /\ UNCHANGED script /\ ViewTypeOK' /\ LinkTypeOK'
          /\ \E to \in {"idle", "timed"} : Go(Main, to)
      BY <2>2, SameTypes DEF SetTimeout
    <3>2. at' \in [Threads -> Places] /\ ScriptsGoOn'
      BY <1>1, <3>1, GoType DEF ScriptsGoOn, Places, InConnect, InCall
    <3> QED
      BY <1>3, <3>1, <3>2 DEF TypeOK
  <2>3. CASE SetRunning
    <3>1. UNCHANGED <<sock, reader, opened, closed, hungUp, script>> /\ Go(Main, "enabled") /\ ViewTypeOK'
      BY <2>3, SameTypes DEF SetRunning
    <3>2. running' \in BOOLEAN
      BY <2>3 DEF SetRunning
    <3>3. LinkTypeOK'
      BY <3>1, <3>2, Zenon DEF TypeOK, LinkTypeOK
    <3>4. at' \in [Threads -> Places] /\ ScriptsGoOn'
      BY <1>1, <3>1, GoType DEF ScriptsGoOn, Places, InConnect, InCall
    <3> QED
      BY <1>3, <3>1, <3>3, <3>4 DEF TypeOK
  <2>4. CASE SetReader
    <3>1. UNCHANGED <<sock, running, opened, closed, hungUp, script>> /\ Go(Main, "appointed") /\ ViewTypeOK'
      BY <2>4, SameTypes DEF SetReader
    <3>2. reader' \in Readers \cup {None}
      BY <2>4 DEF SetReader, Readers, Sockets, None, TypeOK, LinkTypeOK
    <3>3. LinkTypeOK'
      BY <3>1, <3>2, Zenon DEF TypeOK, LinkTypeOK
    <3>4. at' \in [Threads -> Places] /\ ScriptsGoOn'
      BY <1>1, <3>1, GoType DEF ScriptsGoOn, Places, InConnect, InCall
    <3> QED
      BY <1>3, <3>1, <3>3, <3>4 DEF TypeOK
  <2>5. CASE StartReader /\ reader = None
    <3>1. UNCHANGED script /\ Go(Main, "idle") /\ ViewTypeOK' /\ LinkTypeOK'
      BY <2>5, SameTypes DEF StartReader
    <3>2. at' \in [Threads -> Places] /\ ScriptsGoOn'
      BY <1>1, <3>1, GoType DEF ScriptsGoOn, Places, InCall
    <3> QED
      BY <1>3, <3>1, <3>2 DEF TypeOK
  <2>6. CASE StartReader /\ reader # None
    <3>1. /\ ViewTypeOK' /\ LinkTypeOK' /\ reader \in Readers
          /\ at' = [at EXCEPT ![Main] = "ready", ![reader] = "reading"]
      BY <2>6, SameTypes DEF StartReader, TypeOK, LinkTypeOK
    <3>2. PICK requests \in {<<"initialize">>, <<"initialize", "attach", "configurationDone">>} :
            script' = [script EXCEPT ![Main] = requests]
      BY <2>6 DEF StartReader
    <3>3. requests \in Seq(Commands) /\ requests # <<>>
      BY <1>2, <3>2
    <3>4. at' \in [Threads -> Places] /\ \A u \in Callers : u # Main => at'[u] = at[u]
      BY <1>1, <3>1, ThreadFacts DEF Places, InReadLoop
    <3>5. script' \in [Callers -> Seq(Commands)] /\ ScriptsGoOn'
      BY <1>1, <3>2, <3>3, <3>4 DEF ScriptsGoOn
    <3> QED
      BY <1>3, <3>1, <3>4, <3>5 DEF TypeOK
  <2> QED
    BY <1>5, <2>1, <2>2, <2>3, <2>4, <2>5, <2>6 DEF ConnectStep
<1>6. CASE Disconnect
  <2>1. Go(Main, "disconnecting") /\ UNCHANGED script /\ ViewTypeOK'
    BY <1>6, SameTypes DEF Disconnect, Leave
  <2>2. running' \in BOOLEAN
    BY <1>6 DEF Disconnect, Leave
  <2>3. LinkTypeOK'
    <3>1. UNCHANGED <<sock, reader, opened, closed, hungUp>>
      BY <1>6 DEF Disconnect, Leave
    <3> QED
      BY <2>2, <3>1, Zenon DEF TypeOK, LinkTypeOK
  <2>4. at' \in [Threads -> Places] /\ ScriptsGoOn'
    BY <1>1, <2>1, GoType DEF ScriptsGoOn, Places, InDisconnect, InCall
  <2> QED
    BY <1>3, <2>1, <2>3, <2>4 DEF TypeOK
<1>7. CASE UseMagic
  <2>1. PICK requests \in {<<"stackTrace">>, <<"other">>, <<"threads", "stackTraceSync">>} :
          script' = [script EXCEPT ![Main] = requests]
    BY <1>7 DEF UseMagic
  <2>2. Go(Main, "ready") /\ "ready" \in Places /\ requests \in Seq(Commands) /\ requests # <<>>
    BY <1>2, <1>7, <2>1 DEF UseMagic, Places
  <2>3. LinkTypeOK' /\ ViewTypeOK'
    BY <1>7, SameTypes DEF UseMagic
  <2> QED
    BY <1>1, <1>3, <1>4, <2>1, <2>2, <2>3 DEF TypeOK
<1>8. CASE StoreThread
  <2>1. Go(Main, "fetched") /\ UNCHANGED script /\ LinkTypeOK'
    BY <1>8, SameTypes DEF StoreThread
  <2>2. hasThread' \in BOOLEAN
    BY <1>8 DEF StoreThread
  <2>3. ViewTypeOK'
    <3>1. UNCHANGED <<frame, session>>
      BY <1>8 DEF StoreThread
    <3> QED
      BY <2>2, <3>1, Zenon DEF TypeOK, ViewTypeOK, session
  <2>4. at' \in [Threads -> Places] /\ ScriptsGoOn'
    BY <1>1, <2>1, GoType DEF ScriptsGoOn, Places, InCall
  <2> QED
    BY <1>3, <2>1, <2>3, <2>4 DEF TypeOK
<1>9. CASE \E f \in Fetchers : StartFetch(f)
  <2>1. PICK f \in Fetchers : StartFetch(f)
    BY <1>9
  <2>2. f \in Callers /\ LinkTypeOK' /\ ViewTypeOK'
    BY <2>1, SameTypes, ThreadFacts DEF StartFetch
  <2>3. CASE hasThread
    <3>1. Go(f, "ready") /\ "ready" \in Places /\ script' = [script EXCEPT ![f] = <<"stackTrace">>]
      BY <2>1, <2>3 DEF StartFetch, Places
    <3> QED
      BY <1>2, <1>3, <1>4, <2>2, <3>1 DEF TypeOK
  <2>4. CASE ~hasThread
    <3>1. /\ Go(f, "dead") /\ "dead" \in Places \ (InCall \cup {"ready"})
          /\ script' = [script EXCEPT ![f] = <<>>] /\ <<>> \in Seq(Commands)
      BY <2>1, <2>4, EmptySeq DEF StartFetch, Places, InCall
    <3> QED
      BY <1>3, <1>4, <2>2, <3>1 DEF TypeOK
  <2> QED
    BY <2>3, <2>4
<1> QED
  BY <1>5, <1>6, <1>7, <1>8, <1>9 DEF UserStep

-----------------------------------------------------------------------------
(* Numbers, queues and wires.                                              *)

LEMMA InitCalls == Init => CallInv
<1> SUFFICES ASSUME Init PROVE CallInv
  OBVIOUS
<1>1. \A t \in Callers : at[t] \in {"idle", "unborn"}
  BY ThreadFacts DEF Init
<1>2. sendLock = None /\ DOMAIN queues = {} /\ \A s \in Sockets : DOMAIN wire[s] = {}
  BY DEF Init
<1>3. LockIsHeld /\ QueuesAreOwn /\ PlacesAreKnown
  BY <1>1, <1>2, ThreadFacts DEF LockIsHeld, QueuesAreOwn, Registered, PlacesAreKnown
<1>4. WiresAreOlder /\ NumbersStandOnce /\ QueuesHoldOwn /\ WireIsOrdered
  BY <1>1, <1>2 DEF WiresAreOlder, NumbersStandOnce, QueuesHoldOwn, WireIsOrdered
<1> QED
  BY <1>3, <1>4 DEF CallInv

\* What neither takes a number nor sends, and brings nobody to or from a queue, has
\* no effect on the calls.
LEMMA ElsewhereKeeps ==
  ASSUME CallInv, UNCHANGED numbering,
         \A u \in Callers : at'[u] # at[u] => {at[u], at'[u]} \cap {"locked", "waiting"} = {}
  PROVE  CallInv'
<1> USE DEF CallInv, numbering
<1>1. \A u \in Callers : /\ at'[u] = "locked" <=> at[u] = "locked"
                         /\ at'[u] = "waiting" <=> at[u] = "waiting"
  OBVIOUS
<1>2. LockIsHeld'
  BY <1>1 DEF LockIsHeld
<1>3. QueuesAreOwn'
  BY <1>1 DEF QueuesAreOwn, Registered
<1>4. WiresAreOlder' /\ NumbersStandOnce' /\ WireIsOrdered'
  BY <1>1 DEF WiresAreOlder, NumbersStandOnce, WireIsOrdered
<1>5. PlacesAreKnown' /\ QueuesHoldOwn'
  BY <1>1 DEF PlacesAreKnown, QueuesHoldOwn, StandsAt
<1> QED
  BY <1>2, <1>3, <1>4, <1>5

LEMMA OtherStepsKeepCalls ==
  ASSUME TypeOK, CallInv,
         \/ UserStep
         \/ \E t \in {Main} \cup Readers : DisconnectStep(t)
         \/ \E k \in Readers : ReaderStep(k) /\ ~ReadResponse(k)
  PROVE  CallInv'
<1>1. /\ Main \in Threads /\ Main \in Callers /\ Callers \subseteq Threads /\ Readers \subseteq Threads
      /\ Callers \cap Readers = {} /\ Fetchers \subseteq Callers /\ at \in [Threads -> Places]
  BY ThreadFacts DEF TypeOK
<1>2. ASSUME NEW t \in Threads, NEW to, Go(t, to), UNCHANGED numbering,
             t \in Callers => {at[t], to} \cap {"locked", "waiting"} = {}
      PROVE  CallInv'
  <2>1. at'[t] = to /\ \A u \in Threads : u # t => at'[u] = at[u]
    BY <1>1, <1>2 DEF Go
  <2> QED
    BY <1>1, <1>2, <2>1, ElsewhereKeeps
<1>3. CASE UserStep
  <2>1. CASE ConnectStep
    <3>1. CASE Connect \/ SetTimeout \/ SetRunning \/ SetReader \/ (StartReader /\ reader = None)
      <4>1. /\ UNCHANGED numbering /\ at[Main] \in {"idle"} \cup InConnect
            /\ \E to \in {"idle"} \cup InConnect : Go(Main, to)
        BY <3>1 DEF Connect, SetTimeout, SetRunning, SetReader, StartReader, InConnect
      <4> QED
        BY <1>1, <1>2, <4>1 DEF InConnect
    <3>2. CASE StartReader /\ reader # None
      <4>1. /\ UNCHANGED numbering /\ at[Main] = "appointed" /\ reader \in Readers
            /\ at' = [at EXCEPT ![Main] = "ready", ![reader] = "reading"]
        BY <3>2 DEF StartReader, TypeOK, LinkTypeOK
      <4>2. at'[Main] = "ready" /\ \A u \in Callers : u # Main => at'[u] = at[u]
        BY <1>1, <4>1
      <4> QED
        BY <1>1, <4>1, <4>2, ElsewhereKeeps
    <3> QED
      BY <2>1, <3>1, <3>2 DEF ConnectStep
  <2>2. CASE Disconnect
    BY <1>1, <1>2, <2>2 DEF Disconnect, Leave
  <2>3. CASE UseMagic
    BY <1>1, <1>2, <2>3 DEF UseMagic
  <2>4. CASE StoreThread
    BY <1>1, <1>2, <2>4 DEF StoreThread
  <2>5. CASE \E f \in Fetchers : StartFetch(f)
    BY <1>1, <1>2, <2>5 DEF StartFetch
  <2> QED
    BY <1>3, <2>1, <2>2, <2>3, <2>4, <2>5 DEF UserStep
<1>4. CASE \E t \in {Main} \cup Readers : DisconnectStep(t)
  <2>1. PICK t \in {Main} \cup Readers : DisconnectStep(t)
    BY <1>4
  <2>2. /\ UNCHANGED numbering /\ at[t] \in InDisconnect
        /\ \E to \in InDisconnect \cup {"idle", "dead", "reading"} : Go(t, to)
    BY <2>1, RestType DEF DisconnectStep, SocketChecked, SocketClosed, SocketDropped,
       ReaderChecked, ReaderJoined, ReaderForgotten, ThreadForgotten, FrameForgotten, InDisconnect
  <2> QED
    BY <1>1, <1>2, <2>2 DEF InDisconnect
<1>5. CASE \E k \in Readers : ReaderStep(k) /\ ~ReadResponse(k)
  <2>1. PICK k \in Readers : ReaderStep(k) /\ ~ReadResponse(k)
    BY <1>5
  <2>2. CASE HandleStopped(k)
    <3>1. PICK f \in Fetchers : at[f] = "unborn" /\ at' = [at EXCEPT ![k] = "reading", ![f] = "started"]
      BY <2>2 DEF HandleStopped
    <3>2. UNCHANGED numbering /\ at'[f] = "started" /\ \A u \in Callers : u # f => at'[u] = at[u]
      BY <1>1, <2>1, <2>2, <3>1 DEF HandleStopped
    <3> QED
      BY <3>1, <3>2, ElsewhereKeeps
  <2>3. CASE ~HandleStopped(k)
    <3>1. UNCHANGED numbering /\ \E to : Go(k, to)
      BY <2>1, <2>3 DEF ReaderStep, ReadStopped, ReadContinued, ReadTerminated,
         HandleContinued, HandleTerminated, ReadEnd, ReaderStops, Leave
    <3> QED
      BY <1>1, <1>2, <2>1, <3>1
  <2> QED
    BY <2>2, <2>3
<1> QED
  BY <1>3, <1>4, <1>5

LEMMA WireNumbers ==
  ASSUME TypeOK, NEW s \in Sockets, NEW i \in DOMAIN wire[s]
  PROVE  wire[s][i].seq \in Nat
<1>1. wire[s] \in Seq(Frames)
  BY DEF TypeOK, NumberingTypeOK
<1>2. wire[s][i] \in Frames
  BY <1>1, LenProperties
<1> QED
  BY <1>2 DEF Frames

\* A thread takes a number: the newest, so that its queue is its own
\* (ipython_ext.py:114-119).
LEMMA RegisterKeepsCalls ==
  ASSUME TypeOK, CallInv, NEW t \in Callers, Register(t)
  PROVE  CallInv'
<1> USE DEF CallInv
<1>1. /\ t \in Threads /\ Callers \subseteq Threads /\ None \notin Callers
      /\ at \in [Threads -> Places] /\ number \in [Callers -> Nat]
      /\ nextSeq \in Nat \ {0} /\ DOMAIN queues \subseteq 1..nextSeq-1
  BY ThreadFacts DEF TypeOK, NumberingTypeOK
<1>2. /\ at'[t] = "locked" /\ \A u \in Callers : u # t => at'[u] = at[u]
      /\ number'[t] = nextSeq /\ \A u \in Callers : u # t => number'[u] = number[u]
      /\ nextSeq' = nextSeq + 1 /\ sendLock = None /\ sendLock' = t
      /\ UNCHANGED <<place, wire>>
  BY <1>1 DEF Register, Go
<1>3. /\ queues' = [n \in DOMAIN queues \cup {nextSeq} |-> IF n = nextSeq THEN <<>> ELSE queues[n]]
      /\ at[t] = "checked"
  BY DEF Register
<1>4. \A u \in Callers : at[u] # "locked"
  BY <1>1, <1>2 DEF LockIsHeld
<1>5. \A u \in Registered : u # t /\ number[u] \in DOMAIN queues /\ number[u] # nextSeq
  BY <1>1, <1>3 DEF QueuesAreOwn, Registered
<1>6. LockIsHeld'
  BY <1>1, <1>2, <1>4 DEF LockIsHeld
<1>7. QueuesAreOwn'
  <2>1. Registered' \subseteq Registered \cup {t}
    BY <1>2 DEF Registered
  <2>2. \A u \in Registered : u \in Callers
    BY DEF Registered
  <2> QED
    BY <1>2, <1>3, <1>5, <2>1, <2>2 DEF QueuesAreOwn
<1>8. WiresAreOlder'
  <2>1. \A s \in Sockets : \A i \in DOMAIN wire[s] : wire[s][i].seq \in Nat /\ wire[s][i].seq < nextSeq
    BY WireNumbers DEF WiresAreOlder
  <2>2. \A u \in Callers : at'[u] = "locked" => number'[u] = nextSeq
    BY <1>2, <1>4
  <2> QED
    BY <1>1, <1>2, <2>1, <2>2 DEF WiresAreOlder
<1>9. NumbersStandOnce' /\ WireIsOrdered'
  BY <1>2 DEF NumbersStandOnce, WireIsOrdered
<1>10. PlacesAreKnown'
  BY <1>2 DEF PlacesAreKnown, StandsAt
<1>11. QueuesHoldOwn'
  <2>1. \A n \in DOMAIN queues' : DOMAIN queues'[n] = {} \/ (n \in DOMAIN queues /\ queues'[n] = queues[n])
    BY <1>3
  <2> QED
    BY <1>2, <2>1 DEF QueuesHoldOwn, StandsAt
<1> QED
  BY <1>6, <1>7, <1>8, <1>9, <1>10, <1>11

\* A request is written, or its beginning is: its number is above those on every
\* wire (ipython_ext.py:121-129).
LEMMA WriteKeepsWires ==
  ASSUME TypeOK, ScriptsGoOn, CallInv, NEW t \in Callers, at[t] = "locked",
         NEW whole \in BOOLEAN, Write(t, whole)
  PROVE  /\ \A n, p : StandsAt(n, p) => StandsAt(n, p)'
         /\ \A s \in Sockets : \A i \in DOMAIN wire'[s] : wire'[s][i].seq < nextSeq
         /\ NumbersStandOnce' /\ WireIsOrdered'
         /\ sock \in Sockets /\ Len(wire[sock]) + 1 \in DOMAIN wire'[sock]
         /\ wire'[sock][Len(wire[sock]) + 1].seq = number[t]
<1> USE DEF CallInv
<1> DEFINE last == Len(wire[sock]) + 1
<1>1. script[t] # <<>>
  BY DEF ScriptsGoOn, InCall
<1>2. number[t] \in Nat /\ nextSeq \in Nat /\ number[t] = nextSeq - 1
  BY DEF TypeOK, NumberingTypeOK, LockIsHeld
<1>3. /\ sock \in Sockets /\ last \in Nat \ {0}
      /\ DOMAIN wire[sock] = 1..last-1 /\ DOMAIN wire'[sock] = 1..last
      /\ wire'[sock][last].seq = number[t]
      /\ \A i \in DOMAIN wire[sock] : wire'[sock][i] = wire[sock][i]
      /\ \A s \in Sockets : s # sock => wire'[s] = wire[s]
  <2>1. /\ sock \in Sockets /\ Len(wire[sock]) + 1 \in Nat \ {0}
        /\ DOMAIN wire[sock] = 1..Len(wire[sock])
        /\ DOMAIN wire'[sock] = 1..Len(wire[sock]) + 1
        /\ wire'[sock][Len(wire[sock]) + 1].seq = number[t]
        /\ \A i \in DOMAIN wire[sock] : wire'[sock][i] = wire[sock][i]
        /\ \A s \in Sockets : s # sock => wire'[s] = wire[s]
    BY <1>1, WriteEffect
  <2>2. Len(wire[sock]) \in Nat
    BY <2>1, LenProperties DEF TypeOK, NumberingTypeOK
  <2> QED
    BY <2>1, <2>2
<1> HIDE DEF last
\* An entry of a wire stood there before, or is the new one.
<1>4. \A s \in Sockets : \A i \in DOMAIN wire'[s] :
        \/ i \in DOMAIN wire[s] /\ wire'[s][i] = wire[s][i]
        \/ s = sock /\ i = last /\ wire'[s][i].seq = number[t]
  BY <1>3
<1>5. \A s \in Sockets : \A i \in DOMAIN wire[s] : wire[s][i].seq < number[t] /\ wire[s][i].seq \in Nat
  BY WireNumbers DEF WiresAreOlder
<1>6. \A n, p : StandsAt(n, p) => StandsAt(n, p)'
  BY <1>3 DEF StandsAt
<1>7. \A s \in Sockets : \A i \in DOMAIN wire'[s] : wire'[s][i].seq < nextSeq
  <2>1. \A s \in Sockets : \A i \in DOMAIN wire[s] : wire[s][i].seq < nextSeq
    BY DEF WiresAreOlder
  <2> QED
    BY <1>2, <1>4, <2>1
<1>8. NumbersStandOnce'
  <2> SUFFICES ASSUME NEW s \in Sockets, NEW r \in Sockets,
                      NEW i \in DOMAIN wire'[s], NEW j \in DOMAIN wire'[r],
                      wire'[s][i].seq = wire'[r][j].seq
               PROVE  s = r /\ i = j
    BY DEF NumbersStandOnce
  <2>1. \/ i \in DOMAIN wire[s] /\ wire'[s][i] = wire[s][i] /\ wire[s][i].seq # number[t]
        \/ s = sock /\ i = last /\ wire'[s][i].seq = number[t]
    BY <1>2, <1>4, <1>5
  <2>2. \/ j \in DOMAIN wire[r] /\ wire'[r][j] = wire[r][j] /\ wire[r][j].seq # number[t]
        \/ r = sock /\ j = last /\ wire'[r][j].seq = number[t]
    BY <1>2, <1>4, <1>5
  <2> QED
    BY <2>1, <2>2 DEF NumbersStandOnce
<1>9. WireIsOrdered'
  <2> SUFFICES ASSUME NEW s \in Sockets, NEW i \in DOMAIN wire'[s], NEW j \in DOMAIN wire'[s], i < j
               PROVE  wire'[s][i].seq < wire'[s][j].seq
    BY DEF WireIsOrdered
  <2>1. CASE j \in DOMAIN wire[s] /\ wire'[s][j] = wire[s][j]
    <3>1. i \in DOMAIN wire[s] /\ wire'[s][i] = wire[s][i]
      BY <1>3, <1>4, <2>1
    <3> QED
      BY <2>1, <3>1 DEF WireIsOrdered
  <2>2. CASE s = sock /\ j = last /\ wire'[s][j].seq = number[t]
    <3>1. i \in DOMAIN wire[s] /\ wire'[s][i] = wire[s][i]
      BY <1>3, <1>4, <2>2
    <3> QED
      BY <1>3, <1>5, <2>2, <3>1
  <2> QED
    BY <1>4, <2>1, <2>2
<1>10. last \in DOMAIN wire'[sock]
  BY <1>3
<1> QED
  BY <1>3, <1>6, <1>7, <1>8, <1>9, <1>10 DEF last

\* The thread goes on to wait, and knows where its request stands.
LEMMA TransmitKeepsCalls ==
  ASSUME TypeOK, ScriptsGoOn, CallInv, NEW t \in Callers, Transmit(t)
  PROVE  CallInv'
<1> USE DEF CallInv
<1>1. /\ t \in Threads /\ Callers \subseteq Threads /\ None \notin Callers
      /\ at \in [Threads -> Places] /\ place \in [Callers -> (Sockets \cup {None}) \X Nat]
  BY ThreadFacts DEF TypeOK, NumberingTypeOK
<1>2. /\ at[t] = "locked" /\ Write(t, TRUE)
      /\ at'[t] = "waiting" /\ \A u \in Callers : u # t => at'[u] = at[u]
      /\ place'[t] = <<sock, Len(wire[sock]) + 1>> /\ \A u \in Callers : u # t => place'[u] = place[u]
      /\ sendLock' = None /\ UNCHANGED <<nextSeq, queues, number>>
  BY <1>1 DEF Transmit, Go
<1>3. /\ \A n, p : StandsAt(n, p) => StandsAt(n, p)'
      /\ \A s \in Sockets : \A i \in DOMAIN wire'[s] : wire'[s][i].seq < nextSeq
      /\ NumbersStandOnce' /\ WireIsOrdered'
  BY <1>2, WriteKeepsWires
<1>4. /\ sock \in Sockets /\ Len(wire[sock]) + 1 \in DOMAIN wire'[sock]
      /\ wire'[sock][Len(wire[sock]) + 1].seq = number[t]
  BY <1>2, WriteKeepsWires
<1>5. LockIsHeld'
  BY <1>1, <1>2 DEF LockIsHeld
<1>6. QueuesAreOwn'
  BY <1>2 DEF QueuesAreOwn, Registered
<1>7. WiresAreOlder'
  <2>1. \A u \in Callers : at'[u] # "locked"
    BY <1>1, <1>2 DEF LockIsHeld
  <2> QED
    BY <1>2, <1>3, <2>1 DEF WiresAreOlder
<1>8. PlacesAreKnown'
  <2>1. \A u \in Callers : at'[u] = "waiting" /\ u # t => StandsAt(number[u], place[u])'
    BY <1>2, <1>3 DEF PlacesAreKnown, StandsAt
  <2> QED
    BY <1>2, <1>4, <2>1 DEF PlacesAreKnown, StandsAt
<1>9. QueuesHoldOwn'
  BY <1>2, <1>3 DEF QueuesHoldOwn
<1> QED
  BY <1>3, <1>5, <1>6, <1>7, <1>8, <1>9

\* A call ends: its queue goes, and those of the others stay (ipython_ext.py:130-144).
LEMMA EndKeepsCalls ==
  ASSUME TypeOK, CallInv, NEW t \in Registered, Unregister(t),
         at'[t] \notin {"locked", "waiting"}, \A u \in Callers : u # t => at'[u] = at[u],
         sendLock' = IF sendLock = t THEN None ELSE sendLock,
         UNCHANGED <<nextSeq, number, place>>,
         WiresAreOlder', NumbersStandOnce', WireIsOrdered',
         \A n, p : StandsAt(n, p) => StandsAt(n, p)'
  PROVE  CallInv'
<1> USE DEF CallInv
<1>1. t \in Callers /\ None \notin Callers
  BY ThreadFacts DEF Registered
<1>2. /\ DOMAIN queues' = DOMAIN queues \ {number[t]}
      /\ \A n \in DOMAIN queues' : queues'[n] = queues[n]
  BY <1>1, UnregisterEffect
<1>3. Registered' = Registered \ {t}
  BY <1>1 DEF Registered
<1>4. LockIsHeld'
  BY <1>1 DEF LockIsHeld
<1>5. QueuesAreOwn'
  BY <1>2, <1>3 DEF QueuesAreOwn
<1>6. PlacesAreKnown'
  <2>1. \A u \in Callers : at'[u] = "waiting" => at[u] = "waiting" /\ number'[u] = number[u] /\ place'[u] = place[u]
    OBVIOUS
  <2> QED
    BY <2>1 DEF PlacesAreKnown, StandsAt
<1>7. QueuesHoldOwn'
  BY <1>2 DEF QueuesHoldOwn
<1> QED
  BY <1>4, <1>5, <1>6, <1>7

LEMMA CallerKeepsCalls ==
  ASSUME TypeOK, ScriptsGoOn, CallInv, NEW t \in Callers, CallerStep(t)
  PROVE  CallInv'
<1>1. /\ t \in Threads /\ Callers \subseteq Threads /\ None \notin Callers
      /\ at \in [Threads -> Places]
      /\ NoAnswer \in Answers \cup {NoAnswer}
  BY ThreadFacts DEF TypeOK
<1>2. at[t] \in InCall \cup {"ready"} => script[t] # <<>>
  BY DEF ScriptsGoOn
<1>3. at[t] = "locked" <=> sendLock = t
  BY DEF CallInv, LockIsHeld
<1>4. CASE Check(t)
  <2>1. at[t] = "ready" /\ script[t] # <<>> /\ UNCHANGED numbering
    BY <1>2, <1>4 DEF Check
  <2>2. CASE sock = None
    <3>1. Return(t, NoAnswer)
      BY <1>4, <2>2 DEF Check
    <3>2. at'[t] \notin {"locked", "waiting"} /\ \A u \in Threads : u # t => at'[u] = at[u]
      BY <1>1, <2>1, <3>1, ReturnEffect
    <3> QED
      BY <1>1, <2>1, <3>2, ElsewhereKeeps
  <2>3. CASE sock # None
    <3>1. Go(t, "checked")
      BY <1>4, <2>3 DEF Check
    <3>2. at'[t] = "checked" /\ \A u \in Threads : u # t => at'[u] = at[u]
      BY <1>1, <3>1 DEF Go
    <3> QED
      BY <1>1, <2>1, <3>1, <3>2, ElsewhereKeeps
  <2> QED
    BY <2>2, <2>3
<1>5. CASE Register(t)
  BY <1>5, RegisterKeepsCalls
<1>6. CASE Transmit(t)
  BY <1>6, TransmitKeepsCalls
<1>7. ASSUME UNCHANGED wire, \A u \in Callers : at'[u] = "locked" => at[u] = "locked",
             UNCHANGED <<nextSeq, number>>
      PROVE  /\ WiresAreOlder' /\ NumbersStandOnce' /\ WireIsOrdered'
             /\ \A n, p : StandsAt(n, p) => StandsAt(n, p)'
  BY <1>7 DEF CallInv, WiresAreOlder, NumbersStandOnce, WireIsOrdered, StandsAt
<1>8. ASSUME NEW result \in Answers \cup {NoAnswer}, at[t] \in {"locked", "waiting"}, Return(t, result),
             Unregister(t), UNCHANGED <<nextSeq, number, place>>,
             sendLock' = IF sendLock = t THEN None ELSE sendLock,
             UNCHANGED wire \/ (at[t] = "locked" /\ Write(t, FALSE))
      PROVE  CallInv'
  <2>1. script[t] # <<>> /\ t \in Registered
    BY <1>2, <1>8 DEF Registered, InCall
  <2>2. at'[t] \notin {"locked", "waiting"} /\ \A u \in Threads : u # t => at'[u] = at[u]
    BY <1>1, <1>8, <2>1, ReturnEffect
  <2>3. \A u \in Callers : at'[u] = "locked" => at[u] = "locked" /\ u # t
    BY <1>1, <2>2
  <2>4. /\ WiresAreOlder' /\ NumbersStandOnce' /\ WireIsOrdered'
        /\ \A n, p : StandsAt(n, p) => StandsAt(n, p)'
    <3>1. CASE UNCHANGED wire
      BY <1>7, <1>8, <2>3, <3>1
    <3>2. CASE at[t] = "locked" /\ Write(t, FALSE)
      <4>1. /\ \A n, p : StandsAt(n, p) => StandsAt(n, p)'
            /\ \A s \in Sockets : \A i \in DOMAIN wire'[s] : wire'[s][i].seq < nextSeq
            /\ NumbersStandOnce' /\ WireIsOrdered'
        BY <3>2, WriteKeepsWires
      <4>2. \A u \in Callers : at'[u] # "locked"
        BY <1>1, <1>3, <2>3, <3>2 DEF CallInv, LockIsHeld
      <4> QED
        BY <1>8, <4>1, <4>2 DEF WiresAreOlder
    <3> QED
      BY <1>8, <3>1, <3>2
  <2> QED
    BY <1>1, <1>8, <2>1, <2>2, <2>4, EndKeepsCalls
<1>9. CASE TransmitFails(t) \/ TimeOut(t)
  <2>1. /\ at[t] \in {"locked", "waiting"} /\ Return(t, NoAnswer) /\ Unregister(t)
        /\ UNCHANGED <<nextSeq, number, place>>
        /\ sendLock' = IF sendLock = t THEN None ELSE sendLock
        /\ UNCHANGED wire \/ (at[t] = "locked" /\ Write(t, FALSE))
    BY <1>3, <1>9 DEF TransmitFails, TimeOut
  <2> QED
    BY <1>1, <1>8, <2>1
<1>10. CASE TransmitRaises(t)
  <2>1. /\ at[t] = "locked" /\ sendLock' = None /\ Go(t, Rest(t))
        /\ UNCHANGED <<nextSeq, queues, number, place, wire>>
    BY <1>10 DEF TransmitRaises
  <2>2. at'[t] \in {"idle", "dead"} /\ \A u \in Threads : u # t => at'[u] = at[u]
    BY <1>1, <2>1, RestType DEF Go
  <2> USE DEF CallInv
  <2>3. LockIsHeld'
    BY <1>1, <1>3, <2>1, <2>2 DEF LockIsHeld
  <2>4. QueuesAreOwn'
    BY <1>1, <2>1, <2>2 DEF QueuesAreOwn, Registered
  <2>5. WiresAreOlder' /\ NumbersStandOnce' /\ WireIsOrdered'
    BY <1>1, <2>1, <2>2 DEF WiresAreOlder, NumbersStandOnce, WireIsOrdered
  <2>6. PlacesAreKnown' /\ QueuesHoldOwn'
    BY <1>1, <2>1, <2>2 DEF PlacesAreKnown, QueuesHoldOwn, StandsAt
  <2> QED
    BY <2>3, <2>4, <2>5, <2>6
<1>11. CASE Receive(t)
  <2>1. /\ at[t] = "waiting" /\ t \in Registered /\ queues[number[t]] # <<>>
        /\ Return(t, Head(queues[number[t]])) /\ Unregister(t)
        /\ UNCHANGED <<nextSeq, sendLock, number, place, wire>>
    BY <1>11 DEF Receive, Registered
  <2>2. number[t] \in DOMAIN queues /\ queues[number[t]] \in Seq(Answers)
    BY <2>1 DEF CallInv, QueuesAreOwn, TypeOK, NumberingTypeOK
  <2>3. Head(queues[number[t]]) \in Answers /\ sendLock # t
    BY <1>3, <2>1, <2>2, HeadTailProperties
  <2> QED
    BY <1>8, <2>1, <2>3
<1>12. CASE StoreFrame(t)
  <2>1. UNCHANGED numbering /\ at[t] = "fetched" /\ Go(t, Rest(t)) /\ Rest(t) \in {"idle", "dead"}
    BY <1>12, RestType DEF StoreFrame
  <2>2. at'[t] = Rest(t) /\ \A u \in Threads : u # t => at'[u] = at[u]
    BY <1>1, <2>1 DEF Go
  <2> QED
    BY <1>1, <2>1, <2>2, ElsewhereKeeps
<1> QED
  BY <1>4, <1>5, <1>6, <1>9, <1>10, <1>11, <1>12 DEF CallerStep

\* The first answer in a waiting thread's queue is about its request: a queue holds
\* answers to its number, and a number stands at one place
\* (ipython_ext.py:121-122, 137, 194-197).
LEMMA AnswerIsOwn ==
  ASSUME TypeOK, CallInv, NEW t \in Callers, at[t] = "waiting", queues[number[t]] # <<>>
  PROVE  Head(queues[number[t]]).about = place[t]
<1> DEFINE received == Head(queues[number[t]])
<1>1. number[t] \in DOMAIN queues /\ queues[number[t]] \in Seq(Answers)
  BY DEF CallInv, QueuesAreOwn, Registered, TypeOK, NumberingTypeOK
<1>2. received \in Answers /\ 1 \in DOMAIN queues[number[t]] /\ received = queues[number[t]][1]
  BY <1>1, HeadTailProperties, EmptySeq
<1>3. StandsAt(number[t], received.about) /\ StandsAt(number[t], place[t])
  BY <1>1, <1>2 DEF CallInv, QueuesHoldOwn, PlacesAreKnown
<1> HIDE DEF received
<1>4. received.about \in Sockets \X Nat /\ place[t] \in (Sockets \cup {None}) \X Nat
  BY <1>2 DEF Answers, TypeOK, NumberingTypeOK
<1>5. received.about[1] = place[t][1] /\ received.about[2] = place[t][2]
  BY <1>3 DEF CallInv, NumbersStandOnce, StandsAt
<1> QED
  BY <1>4, <1>5 DEF received

\* A response is put into the queue of the number that it carries
\* (ipython_ext.py:189-197).
LEMMA ResponseKeepsCalls ==
  ASSUME TypeOK, CallInv, NEW k \in Readers, ReadResponse(k)
  PROVE  CallInv'
<1> USE DEF CallInv
<1>1. sock \in Sockets /\ UNCHANGED <<nextSeq, sendLock, number, place, wire, at>>
  BY DEF ReadResponse, Hears, Reads, TypeOK, LinkTypeOK
<1>2. PICK i \in DOMAIN wire[sock], f \in {stop, None} :
        /\ wire[sock][i].seq \in DOMAIN queues
        /\ queues[wire[sock][i].seq] = <<>>
        /\ queues' = [queues EXCEPT ![wire[sock][i].seq] =
                        Append(@, [about |-> <<sock, i>>, frame |-> f])]
  BY DEF ReadResponse
<1> DEFINE answered == [about |-> <<sock, i>>, frame |-> f]
           n == wire[sock][i].seq
<1>3. StandsAt(n, answered.about)
  BY <1>1, <1>2 DEF StandsAt
<1>4. queues' = [queues EXCEPT ![n] = <<answered>>]
  <2>1. Append(<<>>, answered) = <<answered>>
    OBVIOUS
  <2> QED
    BY <1>2, <2>1
<1> HIDE DEF answered
<1>5. DOMAIN queues' = DOMAIN queues
  BY <1>4
<1>6. \A m \in DOMAIN queues' : \A j \in DOMAIN queues'[m] :
        \/ j \in DOMAIN queues[m] /\ queues'[m][j] = queues[m][j]
        \/ m = n /\ queues'[m][j] = answered
  BY <1>2, <1>4
<1>7. LockIsHeld' /\ QueuesAreOwn'
  BY <1>1, <1>5 DEF LockIsHeld, QueuesAreOwn, Registered
<1>8. WiresAreOlder' /\ NumbersStandOnce' /\ WireIsOrdered'
  BY <1>1 DEF WiresAreOlder, NumbersStandOnce, WireIsOrdered
<1>9. PlacesAreKnown'
  BY <1>1 DEF PlacesAreKnown, StandsAt
<1>10. QueuesHoldOwn'
  BY <1>1, <1>3, <1>5, <1>6 DEF QueuesHoldOwn, StandsAt
<1> QED
  BY <1>7, <1>8, <1>9, <1>10

-----------------------------------------------------------------------------
(* Who reads the socket.                                                   *)

\* A thread that is about to close whatever socket there is.
Closing == {"terminated", "disconnecting", "closing"}
SomebodyCloses == \E t \in {Main} \cup Readers : at[t] \in Closing

\* The socket is the last that was opened, readers of later ones are not started,
\* and the one that %connect starts is the last socket's, if it is not forgotten.
SocketsInOrder ==
  /\ sock \in {None, opened}
  /\ \A k \in Readers : k > opened \/ (k = opened /\ at[Main] \in InConnect) => at[k] = "unborn"
  /\ at[Main] = "appointed" => reader \in {None, opened}

\* Unless somebody is about to close the socket, _running is set from SetRunning on,
\* for as long as it is open, and the thread started with it reads it.
SocketIsRead ==
  \/ SomebodyCloses
  \/ sock \in closed \cup {None}
  \/ /\ at[sock] = "unborn" /\ at[Main] \in {"enabled", "appointed"} => running
     /\ at[sock] # "unborn" => running /\ (sock \in hungUp \/ at[sock] \in InReadLoop)

ReadersInv == SocketsInOrder /\ SocketIsRead

\* Where a call leaves its thread.
LEMMA ReturnPlace ==
  ASSUME NEW t, NEW result, Return(t, result)
  PROVE  \E to \in {"idle", "dead", "ready", "synced", "fetched"} : Go(t, to)
BY RestType DEF Return

LEMMA ReadersStep ==
  ASSUME TypeOK, ReadersInv, Next
  PROVE  ReadersInv'
<1>1. /\ Main \in Threads /\ Readers \subseteq Threads /\ Callers \subseteq Threads
      /\ at \in [Threads -> Places] /\ sock \in Readers \cup {None} /\ opened \in Nat
      /\ Callers \cap Readers = {} /\ Fetchers \subseteq Callers /\ Main \in Callers
      /\ None \notin Readers /\ Readers \subseteq Nat /\ Main \notin Fetchers
  BY ThreadFacts, ConnectionAssumption DEF TypeOK, LinkTypeOK, Readers
<1>2. ASSUME UNCHANGED <<sock, running, opened, closed>>, hungUp \subseteq hungUp',
             reader' \in {reader, None}, at'[Main] \in InConnect => at'[Main] = at[Main],
             \A u \in {Main} \cup Readers : at[u] \in Closing => at'[u] \in Closing,
             \A k \in Readers : (at'[k] = "unborn") <=> (at[k] = "unborn"),
             \A k \in Readers : at[k] \in InReadLoop => at'[k] \in InReadLoop \cup Closing
      PROVE  ReadersInv'
  <2>1. SocketsInOrder'
    <3>1. at'[Main] = "appointed" => at[Main] = "appointed"
      BY <1>2 DEF InConnect
    <3>2. at'[Main] \in InConnect => at[Main] \in InConnect
      BY <1>2
    <3>3. \A k \in Readers : at[k] = "unborn" => at'[k] = "unborn"
      BY <1>2
    <3>4. UNCHANGED <<sock, opened>> /\ reader' \in {reader, None}
      BY <1>2
    <3> QED
      BY <3>1, <3>2, <3>3, <3>4 DEF ReadersInv, SocketsInOrder
  <2>2. SocketIsRead'
    <3>1. UNCHANGED <<sock, running, closed>> /\ hungUp \subseteq hungUp'
      BY <1>2
    <3>2. CASE SomebodyCloses
      BY <1>2, <3>2 DEF SomebodyCloses, SocketIsRead
    <3>3. CASE sock \in closed \cup {None}
      BY <3>1, <3>3 DEF SocketIsRead
    <3>4. CASE /\ sock \notin closed \cup {None}
               /\ at[sock] = "unborn" /\ at[Main] \in {"enabled", "appointed"} => running
               /\ at[sock] # "unborn" => running /\ (sock \in hungUp \/ at[sock] \in InReadLoop)
      <4>1. sock \in Readers
        BY <1>1, <3>4
      <4>2. CASE at'[sock] \in Closing
        BY <4>1, <4>2, <3>1 DEF SomebodyCloses, SocketIsRead
      <4>3. CASE at'[sock] \notin Closing
        <5>1. (at'[sock] = "unborn") <=> (at[sock] = "unborn")
          BY <1>2, <4>1
        <5>2. at[sock] \in InReadLoop => at'[sock] \in InReadLoop
          BY <1>2, <4>1, <4>3
        <5>3. at'[Main] \in {"enabled", "appointed"} => at'[Main] = at[Main]
          BY <1>2 DEF InConnect
        <5>4. at'[sock] # "unborn" => running /\ (sock \in hungUp' \/ at'[sock] \in InReadLoop)
          BY <3>1, <3>4, <5>1, <5>2
        <5>5. at'[sock] = "unborn" /\ at'[Main] \in {"enabled", "appointed"} => running
          BY <3>4, <5>1, <5>3
        <5> QED
          BY <3>1, <5>4, <5>5 DEF SocketIsRead
      <4> QED
        BY <4>2, <4>3
    <3> QED
      BY <3>2, <3>3, <3>4 DEF ReadersInv, SocketIsRead
  <2> QED
    BY <2>1, <2>2 DEF ReadersInv
<1>3. ASSUME NEW t \in Threads, NEW to, Go(t, to), UNCHANGED <<sock, running, opened, closed, hungUp>>,
             reader' \in {reader, None}, at[t] \notin Closing \cup {"unborn"},
             to \notin {"unborn"} \cup InConnect, at[t] \in InReadLoop => to \in InReadLoop \cup Closing
      PROVE  ReadersInv'
  <2>1. at'[t] = to /\ \A u \in Threads : u # t => at'[u] = at[u]
    BY <1>1, <1>3 DEF Go
  <2>2. \A u \in {Main} \cup Readers : at[u] \in Closing => at'[u] \in Closing
    BY <1>1, <1>3, <2>1
  <2>3. /\ \A k \in Readers : (at'[k] = "unborn") <=> (at[k] = "unborn")
        /\ \A k \in Readers : at[k] \in InReadLoop => at'[k] \in InReadLoop \cup Closing
    BY <1>1, <1>3, <2>1
  <2>4. at'[Main] \in InConnect => at'[Main] = at[Main]
    BY <1>1, <1>3, <2>1
  <2> QED
    BY <1>2, <1>3, <2>2, <2>3, <2>4
<1>4. CASE \E t \in Callers : CallerStep(t)
  <2>1. PICK t \in Callers : CallerStep(t)
    BY <1>4
  <2>2. \E to \in {"idle", "dead", "ready", "synced", "fetched"} \cup InCall : Go(t, to)
    <3>1. CASE Check(t)
      BY <3>1, ReturnPlace DEF Check, InCall
    <3>2. CASE Register(t) \/ Transmit(t)
      BY <3>2 DEF Register, Transmit, InCall
    <3>3. CASE TransmitFails(t) \/ Receive(t) \/ TimeOut(t)
      BY <3>3, ReturnPlace DEF TransmitFails, Receive, TimeOut
    <3>4. CASE TransmitRaises(t) \/ StoreFrame(t)
      BY <3>4, RestType DEF TransmitRaises, StoreFrame
    <3> QED
      BY <2>1, <3>1, <3>2, <3>3, <3>4 DEF CallerStep
  <2>3. UNCHANGED link /\ at[t] \in InCall \cup {"ready", "fetched"}
    BY <2>1 DEF CallerStep, Check, Register, Transmit, TransmitFails, TransmitRaises, Receive,
                TimeOut, StoreFrame, InCall
  <2> QED
    BY <1>1, <1>3, <2>2, <2>3 DEF InCall, InConnect, Closing, InReadLoop, link
<1>5. CASE \E f \in Fetchers : StartFetch(f)
  BY <1>1, <1>3, <1>5 DEF StartFetch, InConnect, Closing, InReadLoop, link
<1>6. CASE UseMagic \/ StoreThread
  BY <1>1, <1>3, <1>6 DEF UseMagic, StoreThread, InConnect, Closing, InReadLoop, link
<1>7. ASSUME NEW t \in {Main} \cup Readers, at[t] \in {"idle", "terminated"}, Leave(t)
      PROVE  ReadersInv'
  <2>1. at'[t] = "disconnecting" /\ \A u \in Threads : u # t => at'[u] = at[u]
    BY <1>1, <1>7 DEF Leave, Go
  <2>2. SocketsInOrder'
    BY <1>1, <1>7, <2>1 DEF ReadersInv, SocketsInOrder, Leave, InConnect
  <2> QED
    BY <1>7, <2>1, <2>2 DEF ReadersInv, SocketIsRead, SomebodyCloses, Closing
<1>8. CASE Disconnect
  BY <1>7, <1>8 DEF Disconnect
<1>9. CASE Connect
  <2>1. opened' \in Readers /\ opened' = opened + 1 /\ sock' = opened' /\ UNCHANGED reader
    BY <1>1, <1>9, ConnectionAssumption DEF Connect, TypeOK, LinkTypeOK, Readers, Sockets
  <2>2. at'[Main] = "opened" /\ \A u \in Readers : at'[u] = at[u]
    BY <1>1, <1>9 DEF Connect, Go
  <2>3. \A k \in Readers : k >= opened' => at'[k] = "unborn"
    BY <1>1, <2>1, <2>2 DEF ReadersInv, SocketsInOrder
  <2>4. SocketsInOrder'
    BY <1>1, <2>1, <2>2, <2>3 DEF SocketsInOrder
  <2>5. at'[sock'] = "unborn"
    BY <1>1, <2>1, <2>3
  <2> QED
    BY <2>2, <2>4, <2>5 DEF ReadersInv, SocketIsRead
<1>10. CASE SetTimeout /\ sock \in closed \cup {None}
  BY <1>1, <1>3, <1>10 DEF SetTimeout, InConnect, Closing, InReadLoop, link
<1>11. CASE (SetTimeout /\ sock \notin closed \cup {None}) \/ SetRunning \/ SetReader
  <2>1. /\ at[Main] \in InConnect /\ at'[Main] \in InConnect
        /\ \A u \in Readers : at'[u] = at[u]
        /\ UNCHANGED <<sock, opened, closed, hungUp>>
    BY <1>1, <1>11 DEF SetTimeout, SetRunning, SetReader, Go, InConnect, link
  <2>2. /\ running => running'
        /\ at'[Main] \in {"enabled", "appointed"} => running' \/ at[Main] \in {"enabled", "appointed"}
    BY <1>1, <1>11 DEF SetTimeout, SetRunning, SetReader, Go, link
  <2>3. at'[Main] = "appointed" => reader' = opened
    BY <1>1, <1>11 DEF SetTimeout, SetRunning, SetReader, Go
  <2>4. SocketsInOrder'
    BY <2>1, <2>3 DEF ReadersInv, SocketsInOrder
  <2>5. SomebodyCloses => SomebodyCloses'
    BY <2>1 DEF SomebodyCloses, Closing, InConnect
  <2>6. CASE SomebodyCloses \/ sock \in closed \cup {None}
    BY <2>1, <2>4, <2>5, <2>6 DEF ReadersInv, SocketIsRead
  <2>7. CASE ~SomebodyCloses /\ sock \notin closed \cup {None}
    <3>1. /\ sock \in Readers
          /\ at[sock] = "unborn" /\ at[Main] \in {"enabled", "appointed"} => running
          /\ at[sock] # "unborn" => running /\ (sock \in hungUp \/ at[sock] \in InReadLoop)
      BY <1>1, <2>7 DEF ReadersInv, SocketIsRead
    <3> QED
      BY <2>1, <2>2, <2>4, <3>1 DEF ReadersInv, SocketIsRead
  <2> QED
    BY <2>6, <2>7
<1>12. CASE StartReader /\ reader = None
  BY <1>1, <1>3, <1>12 DEF StartReader, InConnect, Closing, InReadLoop, link
<1>13. CASE StartReader /\ reader # None
  <2>1. /\ reader = opened /\ reader \in Readers /\ at[Main] = "appointed" /\ UNCHANGED link
        /\ at' = [at EXCEPT ![Main] = "ready", ![reader] = "reading"]
    BY <1>1, <1>13 DEF StartReader, ReadersInv, SocketsInOrder, TypeOK, LinkTypeOK
  <2>2. at'[Main] = "ready" /\ at'[reader] = "reading" /\ \A u \in Readers : u # reader => at'[u] = at[u]
    BY <1>1, <2>1
  <2>3. at[reader] = "unborn"
    BY <2>1 DEF ReadersInv, SocketsInOrder, InConnect
  <2>4. SocketsInOrder'
    BY <1>1, <2>1, <2>2 DEF ReadersInv, SocketsInOrder, InConnect, link
  <2>5. SomebodyCloses => SomebodyCloses'
    BY <1>1, <2>1, <2>2, <2>3 DEF SomebodyCloses, Closing
  <2>6. CASE SomebodyCloses \/ sock \in closed \cup {None}
    BY <2>1, <2>4, <2>5, <2>6 DEF ReadersInv, SocketIsRead, link
  <2>7. CASE ~SomebodyCloses /\ sock \notin closed \cup {None}
    <3>1. sock = reader /\ running
      BY <2>1, <2>3, <2>7 DEF ReadersInv, SocketsInOrder, SocketIsRead
    <3> QED
      BY <2>1, <2>2, <2>4, <3>1 DEF ReadersInv, SocketIsRead, InReadLoop, link
  <2> QED
    BY <2>6, <2>7
<1>14. CASE \E t \in {Main} \cup Readers : DisconnectStep(t)
  <2>1. PICK t \in {Main} \cup Readers : DisconnectStep(t)
    BY <1>14
  <2>2. CASE SocketChecked(t)
    <3>1. /\ at'[t] = (IF sock = None THEN "unlinked" ELSE "closing") /\ UNCHANGED link
          /\ \A u \in Threads : u # t => at'[u] = at[u]
      BY <1>1, <2>1, <2>2 DEF SocketChecked, Go
    <3>2. SocketsInOrder'
      BY <1>1, <2>1, <2>2, <3>1 DEF SocketChecked, ReadersInv, SocketsInOrder, InConnect, link
    <3> QED
      BY <2>1, <3>1, <3>2 DEF ReadersInv, SocketIsRead, SomebodyCloses, Closing, link
  <2>3. CASE SocketClosed(t) \/ SocketDropped(t)
    <3>1. /\ sock' \in closed' \cup {None} /\ sock' \in {sock, None} /\ UNCHANGED <<opened, reader>>
          /\ at[t] \in {"closing", "closed"} /\ at'[t] \in {"closed", "unlinked", "idle", "dead"}
          /\ \A u \in Threads : u # t => at'[u] = at[u]
      BY <1>1, <2>1, <2>3, RestType DEF SocketClosed, SocketDropped, Go
    <3>2. SocketsInOrder'
      BY <1>1, <2>1, <3>1 DEF ReadersInv, SocketsInOrder, InConnect
    <3> QED
      BY <3>1, <3>2 DEF ReadersInv, SocketIsRead
  <2>4. CASE ReaderChecked(t) \/ ReaderJoined(t) \/ ReaderForgotten(t) \/ ThreadForgotten(t) \/ FrameForgotten(t)
    <3>1. /\ at[t] \in InDisconnect \ Closing /\ UNCHANGED <<sock, running, opened, closed, hungUp>>
          /\ reader' \in {reader, None}
          /\ \E to \in (InDisconnect \ Closing) \cup {"idle", "dead", "reading"} : Go(t, to)
      BY <2>4, RestType DEF ReaderChecked, ReaderJoined, ReaderForgotten, ThreadForgotten, FrameForgotten,
         InDisconnect, Closing, link
    <3> QED
      BY <1>1, <1>3, <2>1, <3>1 DEF InDisconnect, InConnect, InReadLoop, Closing
  <2> QED
    BY <2>1, <2>2, <2>3, <2>4 DEF DisconnectStep
<1>15. CASE \E k \in Readers : ReaderStep(k)
  <2>1. PICK k \in Readers : ReaderStep(k)
    BY <1>15
  <2>2. CASE ReadResponse(k)
    BY <1>2, <2>2 DEF ReadResponse, link
  <2>3. CASE ReadStopped(k) \/ ReadContinued(k) \/ ReadTerminated(k) \/ HandleContinued(k)
    <3>1. /\ at[k] \in InReadLoop /\ UNCHANGED link
          /\ \E to \in InReadLoop \cup {"terminated"} : Go(k, to)
      BY <2>3 DEF ReadStopped, ReadContinued, ReadTerminated, HandleContinued, Hears, Reads, InReadLoop
    <3> QED
      BY <1>1, <1>3, <2>1, <3>1 DEF InReadLoop, InConnect, Closing, link
  <2>4. CASE HandleStopped(k)
    <3>1. PICK f \in Fetchers : at[f] = "unborn" /\ at' = [at EXCEPT ![k] = "reading", ![f] = "started"]
      BY <2>4 DEF HandleStopped
    <3>2. /\ at[k] = "stopped" /\ at'[k] = "reading" /\ f \notin {Main} \cup Readers /\ UNCHANGED link
          /\ \A u \in {Main} \cup Readers : u # k => at'[u] = at[u]
      BY <1>1, <2>1, <2>4, <3>1 DEF HandleStopped
    <3> QED
      BY <1>1, <1>2, <2>1, <3>2 DEF InReadLoop, Closing, link
  <2>5. CASE HandleTerminated(k)
    BY <1>7, <2>1, <2>5 DEF HandleTerminated
  <2>6. CASE ReadEnd(k) \/ ReaderStops(k)
    <3>1. /\ at[k] = "reading" /\ UNCHANGED <<sock, running, reader, opened, closed>> /\ hungUp \subseteq hungUp'
          /\ at'[k] = "dead" /\ \A u \in Threads : u # k => at'[u] = at[u]
      BY <1>1, <2>1, <2>6 DEF ReadEnd, ReaderStops, Reads, link, Go
    <3>2. SocketsInOrder'
      BY <1>1, <2>1, <3>1 DEF ReadersInv, SocketsInOrder
    <3>3. SomebodyCloses => SomebodyCloses'
      BY <1>1, <3>1 DEF SomebodyCloses, Closing
    <3>4. CASE SomebodyCloses \/ sock \in closed \cup {None}
      BY <3>1, <3>2, <3>3, <3>4 DEF ReadersInv, SocketIsRead
    <3>5. CASE ~SomebodyCloses /\ sock \notin closed \cup {None}
      <4>1. /\ sock \in Readers
            /\ at[sock] = "unborn" /\ at[Main] \in {"enabled", "appointed"} => running
            /\ at[sock] # "unborn" => running /\ (sock \in hungUp \/ at[sock] \in InReadLoop)
        BY <1>1, <3>5 DEF ReadersInv, SocketIsRead
      <4>2. at'[Main] = at[Main]
        BY <1>1, <2>1, <3>1, ThreadFacts DEF Readers
      <4>3. at'[sock] = "unborn" => at[sock] = "unborn"
        BY <1>1, <3>1, <4>1
      <4>4. at'[sock] # "unborn" => running' /\ (sock \in hungUp' \/ at'[sock] \in InReadLoop)
        <5>1. CASE k # sock
          BY <1>1, <3>1, <4>1, <5>1
        <5>2. CASE k = sock /\ ReadEnd(k)
          BY <3>1, <4>1, <5>2 DEF ReadEnd
        <5>3. CASE k = sock /\ ReaderStops(k)
          BY <3>1, <3>5, <4>1, <5>3 DEF ReaderStops, Reads, link
        <5> QED
          BY <2>6, <5>1, <5>2, <5>3
      <4> QED
        BY <3>1, <3>2, <4>1, <4>2, <4>3, <4>4 DEF ReadersInv, SocketIsRead
    <3> QED
      BY <3>4, <3>5
  <2> QED
    BY <2>1, <2>2, <2>3, <2>4, <2>5, <2>6 DEF ReaderStep
<1>16. CASE ConnectStep
  BY <1>9, <1>10, <1>11, <1>12, <1>13, <1>16 DEF ConnectStep
<1> QED
  BY <1>4, <1>5, <1>6, <1>8, <1>14, <1>15, <1>16 DEF Next

-----------------------------------------------------------------------------
(* The theorems.                                                           *)

ReplInv == TypeOK /\ ScriptsGoOn /\ CallInv

LEMMA ReplStep == ReplInv /\ [Next]_vars => ReplInv'
<1> SUFFICES ASSUME ReplInv, [Next]_vars PROVE ReplInv'
  OBVIOUS
<1> USE DEF ReplInv
<1>1. CASE \E t \in Callers : CallerStep(t)
  BY <1>1, CallerTypes, CallerKeepsCalls DEF CallInv
<1>2. CASE \E t \in {Main} \cup Readers : DisconnectStep(t)
  BY <1>2, DisconnectTypes, OtherStepsKeepCalls
<1>3. CASE \E k \in Readers : ReaderStep(k)
  BY <1>3, ReaderTypes, ResponseKeepsCalls, OtherStepsKeepCalls
<1>4. CASE UserStep
  BY <1>4, UserTypes, OtherStepsKeepCalls
<1>5. CASE UNCHANGED vars
  <2>1. UNCHANGED <<view, session, link, numbering, fetched, script, at>>
    BY <1>5 DEF vars
  <2> QED
    BY <2>1, SameTypes, ElsewhereKeeps DEF TypeOK, ScriptsGoOn
<1> QED
  BY <1>1, <1>2, <1>3, <1>4, <1>5 DEF Next, UserStep

LEMMA ReplInvariant == Spec => []ReplInv
<1>1. Init => ReplInv
  BY InitTypes, InitCalls DEF ReplInv
<1> QED
  BY <1>1, ReplStep, PTL DEF Spec

\* Whatever the threads, the user and the multiplexer do, the fields and the
\* threads' variables have their types (ipython_ext.py:42-240).
THEOREM ReplTypeCorrect == Spec => []TypeOK
<1>1. ReplInv => TypeOK
  BY DEF ReplInv
<1> QED
  BY <1>1, ReplInvariant, PTL

\* send_request returns the response to its own request or none, for any number of
\* threads, connections and late answers (ipython_ext.py:113-144, 194-197).
THEOREM ThreadsGetTheirOwnAnswers == Spec => AnswersAreOwn
<1>1. ReplInv => \A t \in Callers : Receive(t) => Head(queues[number[t]]).about = place[t]
  BY AnswerIsOwn DEF ReplInv, Receive
<1> QED
  BY <1>1, ReplInvariant, PTL DEF AnswersAreOwn

\* Requests stand on each wire in the order of their numbers (ipython_ext.py:114-129).
THEOREM WiresAreOrdered == Spec => []WireIsOrdered
<1>1. ReplInv => WireIsOrdered
  BY DEF ReplInv, CallInv
<1> QED
  BY <1>1, ReplInvariant, PTL

\* The reader that %connect started reads its socket, and _running is set, however
\* many connections there were before and however late their readers disconnect
\* (ipython_ext.py:64-68, 86-95, 149).
THEOREM ConnectedIsAlwaysRead == Spec => []ConnectedIsRead
<1>1. Init => ReadersInv
  BY ThreadFacts DEF Init, ReadersInv, SocketsInOrder, SocketIsRead, Threads, Readers
<1>2. TypeOK /\ ReadersInv /\ [Next]_vars => ReadersInv'
  <2>1. ASSUME ReadersInv, UNCHANGED vars PROVE ReadersInv'
    BY <2>1 DEF vars, link, ReadersInv, SocketsInOrder, SocketIsRead, SomebodyCloses
  <2> QED
    BY <2>1, ReadersStep
<1>3. TypeOK /\ ReadersInv => ConnectedIsRead
  BY DEF TypeOK, LinkTypeOK, ReadersInv, SocketIsRead, SomebodyCloses, Closing, ConnectedIsRead,
     InDisconnect, Readers
<1> QED
  BY <1>1, <1>2, <1>3, ReplTypeCorrect, PTL DEF Spec

=============================================================================
