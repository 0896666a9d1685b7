-------------------------- MODULE LifecycleProofs ---------------------------
(***************************************************************************)
(* Safety of start-up, serving and clean-up, for any clients.              *)
(***************************************************************************)
EXTENDS Lifecycle, TLAPS

-----------------------------------------------------------------------------
(* The inductive invariant.                                                *)

\* The clean-up from where no client can come any more, and the part of it in
\* which the adapter's connection is, or has been, closed.
Late == {"closing", "readerAwaited", "writerAwaited", "wireAwaited", "finished"} \cup Stopping
UpstreamIsNext ==
  at \in {"readerAwaited", "writerAwaited", "wireAwaited"} => current = Upstream

\* A connection that was not opened has no tasks.
UnopenedIsIdle ==
  \A k \in Connections :
    wire[k] = "none" =>
      /\ reader[k] = "none" /\ writer[k] = "none"
      /\ k \notin listed
      /\ <<k, "reader">> \notin cancelled /\ <<k, "writer">> \notin cancelled

\* What close awaits was opened: a connection without tasks has none to await.
CurrentWasOpened == at \in {"readerAwaited", "writerAwaited"} => wire[current] # "none"

\* Connections are opened in their stages of the program.
OpenedInTime ==
  /\ at \in {"start", "connecting"} => wire[Upstream] = "none"
  /\ server = "none" => \A c \in Clients : wire[c] = "none"
  /\ \A c \in clients \cup toClose : wire[c] # "none"
  /\ CurrentWasOpened

\* A read loop is a listed task of a known connection; one that closes its
\* connection has been forgotten, and cancelled if it awaits itself.
ReadersAreKept ==
  \A k \in Connections :
    /\ reader[k] = "reading" => k \in listed /\ k \in clients \cup {Upstream}
    /\ reader[k] \in {"awaitsItself", "awaitsWriter"} => k \notin clients
    /\ reader[k] = "awaitsItself" => <<k, "reader">> \in cancelled

\* Before the connections are closed nobody but a client's own read loop cancels
\* its tasks, and then the client is forgotten already.
ClientsAreServed ==
  at \notin Late \cup {"raised"} =>
    \A c \in clients :
      /\ <<c, "reader">> \notin cancelled /\ <<c, "writer">> \notin cancelled
      /\ reader[c] \in {"reading", "failed"}
      /\ writer[c] = "done" => wire[c] = "lost"

\* When the clients' turn comes they are disconnected, and a read loop that has
\* not noticed is closed before close goes on.
ClientsAreGone ==
  /\ at \in Late \cup {"serverAwaited"} => server # "listening"
  /\ at \in Late =>
       \A c \in Clients :
         /\ wire[c] \in {"none", "lost"}
         /\ reader[c] = "reading" => c \in toClose \/ (at = "readerAwaited" /\ current = c)

\* The adapter's connection comes last, and its process after that.
UpstreamIsLast ==
  /\ at \in Late \ {"closing"} /\ UpstreamIsNext => clients = {} /\ toClose = {}
  /\ at \in {"writerAwaited", "wireAwaited"} => reader[current] # "reading"
  /\ at \in Stopping \cup {"finished"} =>
       reader[Upstream] # "reading" /\ wire[Upstream] \in {"none", "lost"}
  /\ at = "finished" => process # "running"

\* A write loop fails on what it cannot encode.
OnlyUnencodableFails == \A k \in Connections : writer[k] = "failed" => k \in Unencodable

LifecycleInv ==
  /\ TypeOK
  /\ UnopenedIsIdle
  /\ OpenedInTime
  /\ ReadersAreKept
  /\ ClientsAreServed
  /\ ClientsAreGone
  /\ UpstreamIsLast
  /\ OnlyUnreadableFails
  /\ OnlyUnencodableFails
  /\ ForgottenIsClosed

-----------------------------------------------------------------------------
(* Lemmas about what the actions share.                                    *)

\* cancel is called on tasks of one connection, and on its read loop if that is
\* listed and has not ended (client.py:64-68).
LEMMA CancelTasksEffect ==
  ASSUME NEW k \in Connections, CancelTasks(k)
  PROVE  /\ cancelled \subseteq cancelled'
         /\ cancelled' \subseteq cancelled \cup {<<k, "reader">>, <<k, "writer">>}
         /\ k \notin listed => cancelled' = cancelled
         /\ k \in listed /\ reader[k] \notin HasEnded => <<k, "reader">> \in cancelled'
         /\ k \in listed /\ writer[k] \notin HasEnded => <<k, "writer">> \in cancelled'
<1>1. \A t \in {k} \X {"reader", "writer"} : t = <<k, "reader">> \/ t = <<k, "writer">>
  OBVIOUS
<1>2. /\ <<k, "reader">> \in {k} \X {"reader", "writer"} /\ <<k, "reader">>[2] = "reader"
      /\ <<k, "writer">> \in {k} \X {"reader", "writer"} /\ <<k, "writer">>[2] # "reader"
  OBVIOUS
<1>3. CASE k \notin listed
  BY <1>3 DEF CancelTasks
<1>4. CASE k \in listed
  <2> DEFINE asked == {t \in {k} \X {"reader", "writer"} :
            IF t[2] = "reader" THEN reader[k] \notin HasEnded ELSE writer[k] \notin HasEnded}
  <2>1. cancelled' = cancelled \cup asked
    BY <1>4 DEF CancelTasks
  <2>2. asked \subseteq {<<k, "reader">>, <<k, "writer">>}
    BY <1>1
  <2>3. /\ reader[k] \notin HasEnded => <<k, "reader">> \in asked
        /\ writer[k] \notin HasEnded => <<k, "writer">> \in asked
    BY <1>2
  <2> QED
    BY <1>4, <2>1, <2>2, <2>3
<1> QED
  BY <1>3, <1>4

LEMMA InitLifecycle == Init => LifecycleInv
<1> SUFFICES ASSUME Init PROVE LifecycleInv
  OBVIOUS
<1> USE ConnectionsAssumption DEF Init, ConnectionsInit, Connections
<1>1. TypeOK
  BY DEF TypeOK, ConnectionsTypeOK, Startup, Wires, Readers, Writers, Tasks
<1>2. UnopenedIsIdle /\ OpenedInTime /\ ReadersAreKept
  BY DEF UnopenedIsIdle, OpenedInTime, CurrentWasOpened, ReadersAreKept
<1>3. ClientsAreServed /\ ClientsAreGone /\ UpstreamIsLast
  BY DEF ClientsAreServed, ClientsAreGone, UpstreamIsLast, Late, Stopping
<1>4. OnlyUnreadableFails /\ OnlyUnencodableFails /\ ForgottenIsClosed
  BY DEF OnlyUnreadableFails, OnlyUnencodableFails, ForgottenIsClosed
<1> QED
  BY <1>1, <1>2, <1>3, <1>4 DEF LifecycleInv

-----------------------------------------------------------------------------
(* Every step keeps the invariant.  The conjuncts support each other, so all *)
(* of them are used throughout.                                            *)

USE ConnectionsAssumption
  DEF LifecycleInv, TypeOK, ConnectionsTypeOK, Connections, connectionVars, closeVars,
      programVars, Go, Running, Ended, Startup, Late, Stopping, Closing, UpstreamIsNext,
      UnopenedIsIdle, CurrentWasOpened, OpenedInTime, ReadersAreKept, ClientsAreServed, ClientsAreGone,
      UpstreamIsLast, OnlyUnreadableFails, OnlyUnencodableFails, ForgottenIsClosed,
      Wires, Readers, Writers, HasEnded

\* The steps of the coroutine before a connection is closed.
LEMMA StartupKeeps ==
  ASSUME LifecycleInv, StartupStep
  PROVE  LifecycleInv'
<1>1. CASE Begin
  BY <1>1 DEF Begin
<1>2. CASE BeginFails \/ ConnectTimesOut \/ ServeFails
  BY <1>2 DEF BeginFails, ConnectTimesOut, ServeFails, Fail
<1>3. CASE ConnectUpstream
  BY <1>3 DEF ConnectUpstream, Start, Move
<1>4. CASE Serve
  BY <1>4 DEF Serve
<1> QED
  BY <1>1, <1>2, <1>3, <1>4 DEF StartupStep

\* A client is accepted while the server listens.
LEMMA AcceptKeeps ==
  ASSUME LifecycleInv, NEW c \in Clients, Accept(c)
  PROVE  LifecycleInv'
BY DEF Accept, Start, Move

\* The end of serving, the process, and the main thread.
LEMMA OutsideKeeps ==
  ASSUME LifecycleInv, Interrupt \/ ShutdownSeen \/ ProcessExits \/ MainStep
  PROVE  LifecycleInv'
<1>1. CASE Interrupt
  <2>1. CASE at \in {"readerAwaited", "writerAwaited"}
    <3>1. PICK task \in {"reader", "writer"} : cancelled' = cancelled \cup {<<current, task>>}
      BY <1>1, <2>1 DEF Interrupt
    <3>2. wire[current] # "none"
      BY <2>1
    <3> QED
      BY <1>1, <2>1, <3>1, <3>2 DEF Interrupt, Tasks
  <2>2. CASE at \notin {"readerAwaited", "writerAwaited"}
    BY <1>1, <2>2 DEF Interrupt
  <2> QED
    BY <2>1, <2>2
<1>2. CASE ShutdownSeen
  BY <1>2 DEF ShutdownSeen
<1>3. CASE ProcessExits
  BY <1>3 DEF ProcessExits
<1>4. CASE MainStep
  BY <1>4 DEF MainStep, StartIPython, ReportError, GiveUp, IPythonEnds, Join, MainGoes
<1> QED
  BY <1>1, <1>2, <1>3, <1>4

\* close of the multiplexer, up to the first await in the close of a connection.
LEMMA CloseBeginKeeps ==
  ASSUME LifecycleInv,
         CloseServer \/ NoServer \/ ServerClosed \/ CloseClient \/ CloseUpstream
  PROVE  LifecycleInv'
<1>1. CASE CloseServer
  BY <1>1 DEF CloseServer
<1>2. CASE NoServer
  <2>1. \A k \in Clients : wire[k] = "none" /\ reader[k] # "reading"
    BY <1>2 DEF NoServer
  <2> QED
    BY <1>2, <2>1 DEF NoServer
<1>3. CASE ServerClosed
  <2>1. \A c \in Clients : wire[c] \in {"none", "lost"} /\ (reader[c] = "reading" => c \in clients)
    BY <1>3 DEF ServerClosed
  <2>2. server # "listening" /\ \A c \in clients : wire[c] # "none"
    BY <1>3 DEF ServerClosed
  <2> QED
    BY <1>3, <2>1, <2>2 DEF ServerClosed
<1>4. CASE CloseClient
  <2>1. PICK c \in toClose : toClose' = toClose \ {c} /\ BeginClose(c)
    BY <1>4 DEF CloseClient
  <2>2. /\ cancelled \subseteq cancelled'
        /\ cancelled' \subseteq cancelled \cup {<<c, "reader">>, <<c, "writer">>}
        /\ c \notin listed => cancelled' = cancelled
    BY <2>1, CancelTasksEffect DEF BeginClose
  <2>3. c \in Clients /\ wire[c] \in {"lost"} /\ at = "closing"
    BY <1>4 DEF CloseClient, BeginClose
  <2>4. CASE c \in listed
    <3>1. /\ UNCHANGED <<clients, wire, reader, writer, listed, server, process>>
          /\ UNCHANGED <<main, portQueue, interrupted>>
          /\ toClose' = toClose \ {c} /\ current' = c /\ at' = "readerAwaited"
      BY <1>4, <2>1, <2>4 DEF CloseClient, BeginClose
    <3> QED
      BY <2>2, <2>3, <2>4, <3>1 DEF Tasks
  <2>5. CASE c \notin listed
    <3>1. wire' = wire /\ listed' = listed /\ at' = "wireAwaited"
      <4>1. CloseWire(c) /\ wire[c] = "lost" /\ at' = "wireAwaited"
        BY <2>1, <2>3, <2>5 DEF BeginClose
      <4> QED
        BY <2>5, <4>1 DEF CloseWire
    <3>2. reader[c] # "reading" /\ current' = c /\ cancelled' = cancelled
      BY <2>1, <2>2, <2>5 DEF BeginClose
    <3> QED
      BY <1>4, <2>1, <2>3, <2>5, <3>1, <3>2 DEF CloseClient, BeginClose
  <2> QED
    BY <2>4, <2>5
<1>5. CASE CloseUpstream
  <2>1. /\ cancelled \subseteq cancelled'
        /\ cancelled' \subseteq cancelled \cup {<<Upstream, "reader">>, <<Upstream, "writer">>}
        /\ Upstream \notin listed => cancelled' = cancelled
    BY <1>5, CancelTasksEffect DEF BeginClose, CloseUpstream
  <2>2. at = "closing" /\ \A c \in Clients : wire[c] \in {"none", "lost"} /\ reader[c] # "reading"
    BY <1>5 DEF CloseUpstream
  <2>3. CASE Upstream \in listed
    <3>1. /\ UNCHANGED <<wire, reader, writer, listed, server, process, toClose>>
          /\ clients' = {} /\ toClose = {} /\ current' = Upstream /\ at' = "readerAwaited"
      BY <1>5, <2>3 DEF CloseUpstream, BeginClose
    <3>2. wire[Upstream] # "none"
      BY <2>3
    <3> QED
      BY <1>5, <2>1, <2>2, <2>3, <3>1, <3>2 DEF CloseUpstream, BeginClose, Tasks
  <2>4. CASE Upstream \notin listed
    <3>1. /\ listed' = listed /\ wire' \in [Connections -> Wires]
          /\ \A k \in Connections :
               IF k = Upstream THEN (wire'[k] = "none") = (wire[k] = "none") ELSE wire'[k] = wire[k]
      <4>1. CloseWire(Upstream)
        BY <1>5, <2>4 DEF CloseUpstream, BeginClose
      <4> QED
        BY <2>4, <4>1 DEF CloseWire
    <3>2. at' = IF wire[Upstream] = "none" THEN "closed" ELSE "wireAwaited"
      BY <1>5, <2>4 DEF CloseUpstream, BeginClose
    <3>3. reader[Upstream] # "reading" /\ current' = Upstream /\ cancelled' = cancelled
      BY <1>5, <2>1, <2>4 DEF CloseUpstream, BeginClose
    <3> QED
      BY <1>5, <2>2, <2>4, <3>1, <3>2, <3>3 DEF CloseUpstream, BeginClose
  <2> QED
    BY <2>3, <2>4
<1> QED
  BY <1>1, <1>2, <1>3, <1>4, <1>5

\* The rest of the close of a connection, and the stop of the adapter process.
LEMMA CloseEndKeeps ==
  ASSUME LifecycleInv,
         \/ ReaderAwaited \/ WriterDone \/ WireClosed
         \/ Terminate \/ Exited \/ TerminateTimesOut \/ Kill
  PROVE  LifecycleInv'
<1>1. CASE ReaderAwaited
  BY <1>1 DEF ReaderAwaited, Raises
<1>2. CASE WriterDone
  BY <1>2 DEF WriterDone, CloseWire, Raises
<1>3. CASE WireClosed
  BY <1>3 DEF WireClosed
<1>4. CASE Terminate \/ Exited \/ TerminateTimesOut \/ Kill
  BY <1>4 DEF Terminate, Exited, TerminateTimesOut, Kill
<1> QED
  BY <1>1, <1>2, <1>3, <1>4

\* A transport, or a peer, does something.
LEMMA PeerKeeps ==
  ASSUME LifecycleInv, NEW k \in Connections, Connection(PeerStep(k))
  PROVE  LifecycleInv'
<1> USE DEF Connection
<1>1. CASE Shut(k) \/ Reset(k)
  BY <1>1 DEF Shut, Reset
<1>2. CASE ReadFails(k)
  BY <1>2 DEF ReadFails, Reading, Move
<1>3. CASE WriteFails(k) \/ WriteRaises(k)
  BY <1>3 DEF WriteFails, WriteRaises
<1> QED
  BY <1>1, <1>2, <1>3 DEF PeerStep

\* The event loop goes on with a connection.
LEMMA LoopKeeps ==
  ASSUME LifecycleInv, NEW k \in Connections, Connection(LoopStep(k))
  PROVE  LifecycleInv'
<1> USE DEF Connection
<1>1. CASE ReadEnd(k)
  <2>1. CASE k \in clients
    <3>1. /\ cancelled \subseteq cancelled'
          /\ cancelled' \subseteq cancelled \cup {<<k, "reader">>, <<k, "writer">>}
          /\ <<k, "reader">> \in cancelled'
      BY <1>1, <2>1, CancelTasksEffect DEF ReadEnd, Reading
    <3> QED
      BY <1>1, <2>1, <3>1 DEF ReadEnd, Reading, Move, Tasks
  <2>2. CASE k \notin clients
    BY <1>1, <2>2 DEF ReadEnd, Reading, Move
  <2> QED
    BY <2>1, <2>2
<1>2. CASE SelfAwaited(k)
  BY <1>2 DEF SelfAwaited, Move
<1>3. CASE WriterAwaited(k)
  <2>1. CASE writer[k] = "done"
    BY <1>3, <2>1 DEF WriterAwaited, CloseWire, Move
  <2>2. CASE writer[k] = "failed"
    <3>1. /\ reader[k] = "awaitsWriter" /\ reader' = [reader EXCEPT ![k] = "failed"]
          /\ cancelled' = cancelled \ {<<k, "reader">>}
          /\ UNCHANGED <<clients, wire, writer, listed, closeVars, server, process, programVars>>
      BY <1>3, <2>2 DEF WriterAwaited, Move
    <3>2. k \in Unencodable /\ k \notin clients
      BY <2>2, <3>1
    <3> QED
      BY <2>2, <3>1, <3>2
  <2> QED
    BY <1>3, <2>1, <2>2 DEF WriterAwaited
<1>4. CASE WireAwaited(k)
  BY <1>4 DEF WireAwaited, Move
<1>5. CASE ReadCancelled(k)
  BY <1>5 DEF ReadCancelled, Move
<1>6. CASE WriteCancelled(k)
  BY <1>6 DEF WriteCancelled
<1>7. CASE Flushed(k)
  BY <1>7 DEF Flushed
<1> QED
  BY <1>1, <1>2, <1>3, <1>4, <1>5, <1>6, <1>7 DEF LoopStep

\* A step in which nothing happens.
LEMMA StutterKeeps ==
  ASSUME LifecycleInv, UNCHANGED vars
  PROVE  LifecycleInv'
BY DEF vars

HIDE DEF LifecycleInv, TypeOK, ConnectionsTypeOK, Connections, connectionVars, closeVars,
         programVars, Go, Running, Ended, Startup, Late, Stopping, Closing, UpstreamIsNext,
         UnopenedIsIdle, CurrentWasOpened, OpenedInTime, ReadersAreKept, ClientsAreServed, ClientsAreGone,
         UpstreamIsLast, OnlyUnreadableFails, OnlyUnencodableFails, ForgottenIsClosed,
         Wires, Readers, Writers, HasEnded

\* Every step of the program keeps the invariant.
LEMMA StepKeeps == LifecycleInv /\ [Next]_vars => LifecycleInv'
<1> SUFFICES ASSUME LifecycleInv, [Next]_vars PROVE LifecycleInv'
  OBVIOUS
<1>1. CASE StartupStep
  BY <1>1, StartupKeeps
<1>2. CASE Interrupt \/ ShutdownSeen \/ ProcessExits \/ MainStep
  BY <1>2, OutsideKeeps
<1>3. CASE MuxStep
  BY <1>3, CloseBeginKeeps, CloseEndKeeps DEF MuxStep
<1>4. CASE \E c \in Clients : Accept(c)
  BY <1>4, AcceptKeeps
<1>5. CASE \E k \in Connections : Connection(PeerStep(k)) \/ Connection(LoopStep(k))
  BY <1>5, PeerKeeps, LoopKeeps
<1>6. CASE UNCHANGED vars
  BY <1>6, StutterKeeps
<1> QED
  BY <1>1, <1>2, <1>3, <1>4, <1>5, <1>6 DEF Next

LEMMA LifecycleInvariant == Spec => []LifecycleInv
<1>1. Init => LifecycleInv
  BY InitLifecycle
<1>2. LifecycleInv /\ [Next]_vars => LifecycleInv'
  BY StepKeeps
<1> QED
  BY <1>1, <1>2, PTL DEF Spec

\* What the following proofs use of the invariant.
LEMMA InvFacts ==
  ASSUME LifecycleInv
  PROVE  /\ wire \in [Connections -> Wires]
         /\ reader \in [Connections -> Readers]
         /\ writer \in [Connections -> Writers]
         /\ current \in Connections /\ toClose \subseteq Clients /\ clients \subseteq Clients
         /\ Clients \subseteq Connections /\ Upstream \in Connections
         /\ \A k \in Connections : wire[k] = "none" => reader[k] = "none" /\ k \notin listed
         /\ \A k \in Connections : reader[k] = "reading" => k \in listed
         /\ at \in {"readerAwaited", "writerAwaited"} => wire[current] # "none"
BY DEF LifecycleInv, TypeOK, ConnectionsTypeOK, UnopenedIsIdle, OpenedInTime, CurrentWasOpened,
       ReadersAreKept, Connections

-----------------------------------------------------------------------------
(* The write loops.                                                        *)

\* A write loop that was not told to end is a listed task of a known connection;
\* at the end these are told one after the other, the adapter's last.
Writing(k) == writer[k] = "running" /\ <<k, "writer">> \notin cancelled
UpstreamEnds == at \in Late \ {"closing"} /\ UpstreamIsNext

WritersAreKept ==
  \A k \in Connections :
    Writing(k) =>
      /\ k \in listed
      /\ k \in clients \cup {Upstream}
      /\ at \in Late /\ k # Upstream => k \in toClose
      /\ UpstreamEnds => k # Upstream

LEMMA StepKeepsWriters ==
  ASSUME LifecycleInv, WritersAreKept, [Next]_vars
  PROVE  WritersAreKept'
<1>1. ASSUME \A k \in Connections :
               Writing(k)' => Writing(k) /\ (k \in listed => k \in listed') /\ (k \in clients => k \in clients'),
             at' \in Late => at \in Late /\ toClose' = toClose,
             UpstreamEnds' => UpstreamEnds
      PROVE  WritersAreKept'
  BY <1>1 DEF WritersAreKept
<1>2. ASSUME UNCHANGED <<wire, reader, writer, listed, clients>>, cancelled \subseteq cancelled'
      PROVE  \A k \in Connections :
               Writing(k)' => Writing(k) /\ (k \in listed => k \in listed') /\ (k \in clients => k \in clients')
  BY <1>2 DEF Writing
<1>3. ASSUME UNCHANGED closeVars
      PROVE  (at' \in Late => at \in Late /\ toClose' = toClose) /\ (UpstreamEnds' => UpstreamEnds)
  BY <1>3 DEF closeVars, UpstreamEnds, UpstreamIsNext
<1>4. CASE StartupStep \/ ShutdownSeen \/ CloseServer
  <2>1. CASE ConnectUpstream
    <3>1. at' \notin Late /\ at' = "connected" /\ Start(Upstream) /\ UNCHANGED clients
      BY <2>1 DEF ConnectUpstream, Go, Late, Stopping
    <3> QED
      BY <3>1, InvFacts DEF Start, Writing, WritersAreKept, UpstreamEnds
  <2>2. CASE ~ConnectUpstream
    <3>1. UNCHANGED connectionVars /\ at' \in {"connecting", "serving", "close", "serverAwaited"}
      BY <1>4, <2>2 DEF StartupStep, Begin, BeginFails, ConnectTimesOut, Serve, ServeFails, Fail,
                        ShutdownSeen, CloseServer, Go
    <3>2. at' \notin Late
      BY <3>1 DEF Late, Stopping
    <3> QED
      BY <1>1, <1>2, <3>1, <3>2 DEF connectionVars, UpstreamEnds
  <2> QED
    BY <2>1, <2>2
<1>5. CASE \E c \in Clients : Accept(c)
  <2>1. PICK c \in Clients : Accept(c)
    BY <1>5
  <2>2. /\ at' = at /\ at \notin Late /\ Start(c) /\ clients' = clients \cup {c}
    BY <2>1 DEF Accept, closeVars, LifecycleInv, ClientsAreGone
  <2> QED
    BY <2>2, InvFacts DEF Start, Writing, WritersAreKept, UpstreamEnds
<1>6. CASE Interrupt
  <2>1. /\ UNCHANGED <<wire, reader, writer, listed, clients, toClose, current>> /\ cancelled \subseteq cancelled'
        /\ at' = at \/ at' \in {"close", "raised"}
    BY <1>6 DEF Interrupt
  <2>2. at' \in Late => at' = at
    BY <2>1 DEF Late, Stopping
  <2> QED
    BY <1>1, <1>2, <2>1, <2>2 DEF UpstreamEnds, UpstreamIsNext
<1>7. CASE ProcessExits \/ MainStep \/ UNCHANGED vars
  <2>1. UNCHANGED connectionVars /\ UNCHANGED closeVars
    BY <1>7 DEF ProcessExits, MainStep, StartIPython, ReportError, GiveUp, IPythonEnds, Join,
                MainGoes, vars
  <2> QED
    BY <1>1, <1>2, <1>3, <2>1 DEF connectionVars
<1>8. CASE NoServer \/ ServerClosed
  <2>1. UNCHANGED connectionVars /\ toClose' = clients /\ at' = "closing"
    BY <1>8 DEF NoServer, ServerClosed, Go
  <2> QED
    BY <2>1 DEF connectionVars, Writing, WritersAreKept, UpstreamEnds
<1>9. ASSUME NEW k \in Connections, BeginClose(k), NEW j \in Connections, Writing(j)'
      PROVE  Writing(j) /\ j # k /\ (j \in listed => j \in listed')
  <2>1. CancelTasks(k) /\ UNCHANGED writer
    BY <1>9 DEF BeginClose
  <2>2. /\ cancelled \subseteq cancelled'
        /\ k \in listed /\ writer[k] \notin HasEnded => <<k, "writer">> \in cancelled'
    BY <2>1, CancelTasksEffect
  <2>3. Writing(j)
    BY <1>9, <2>1, <2>2 DEF Writing
  <2>4. j \in listed /\ writer[j] \notin HasEnded
    BY <2>3 DEF WritersAreKept, Writing, HasEnded
  <2>5. j # k
    BY <1>9, <2>2, <2>4 DEF Writing
  <2>6. listed' = listed \/ listed' = listed \ {k}
    BY <1>9 DEF BeginClose, CloseWire
  <2> QED
    BY <2>3, <2>5, <2>6
<1>10. CASE CloseClient
  <2>1. PICK c \in toClose : toClose' = toClose \ {c} /\ BeginClose(c)
    BY <1>10 DEF CloseClient
  <2>2. /\ at = "closing" /\ clients' = clients /\ c \in Connections /\ c # Upstream /\ wire[c] # "none"
    BY <1>10, <2>1, InvFacts, ConnectionsAssumption DEF CloseClient, LifecycleInv, OpenedInTime
  <2>3. at' \in {"readerAwaited", "wireAwaited"} /\ current' = c
    BY <2>1, <2>2 DEF BeginClose, Go
  <2>4. ~UpstreamEnds' /\ at \in Late
    BY <2>2, <2>3 DEF UpstreamEnds, UpstreamIsNext, Late
  <2> QED
    BY <1>9, <2>1, <2>2, <2>4 DEF WritersAreKept
<1>11. CASE CloseUpstream
  <2>1. at = "closing" /\ toClose = {} /\ BeginClose(Upstream) /\ Upstream \in Connections
    BY <1>11, InvFacts DEF CloseUpstream
  <2>2. \A j \in Connections : ~Writing(j)'
    BY <1>9, <2>1 DEF WritersAreKept, Late
  <2> QED
    BY <2>2 DEF WritersAreKept
<1>12. CASE ReaderAwaited \/ WireClosed \/ Terminate \/ Exited \/ TerminateTimesOut \/ Kill
  <2>1. UNCHANGED <<connectionVars, toClose, current>>
    BY <1>12 DEF ReaderAwaited, WireClosed, Terminate, Exited, TerminateTimesOut, Kill
  <2>2. at \in Late
    BY <1>12 DEF ReaderAwaited, WireClosed, Terminate, Exited, TerminateTimesOut, Kill, Late, Stopping
  <2>3. UpstreamEnds' => UpstreamEnds
    BY <1>12, <2>1 DEF ReaderAwaited, WireClosed, Terminate, Exited, TerminateTimesOut, Kill, Go,
                       UpstreamEnds, UpstreamIsNext, Late, Stopping
  <2> QED
    BY <1>1, <1>2, <2>1, <2>2, <2>3 DEF connectionVars
<1>13. CASE WriterDone
  <2>1. /\ at = "writerAwaited" /\ writer[current] \in HasEnded /\ at' \in {"raised", "wireAwaited"}
        /\ listed' = listed \/ listed' = listed \ {current}
        /\ UNCHANGED <<clients, writer, cancelled, toClose, current>>
    BY <1>13 DEF WriterDone, Go, CloseWire
  <2>2. at \in Late /\ (UpstreamEnds' => UpstreamEnds)
    BY <2>1 DEF UpstreamEnds, UpstreamIsNext, Late, Stopping
  <2> QED
    BY <1>1, <2>1, <2>2 DEF Writing, HasEnded
<1>14. ASSUME NEW k \in Connections, PeerStep(k) \/ LoopStep(k), UNCHANGED closeVars
       PROVE  WritersAreKept'
  <2>1. CASE ReadEnd(k)
    <3>1. /\ UNCHANGED <<writer, listed>> /\ clients' = clients \ {k} /\ k \in listed
          /\ IF k \in clients THEN CancelTasks(k) ELSE UNCHANGED cancelled
      BY <2>1, InvFacts DEF ReadEnd, Reading
    <3>2. /\ cancelled \subseteq cancelled'
          /\ k \in clients /\ writer[k] \notin HasEnded => <<k, "writer">> \in cancelled'
      BY <3>1, CancelTasksEffect
    <3>3. \A j \in Connections : Writing(j)' => Writing(j) /\ (j \in clients => j \in clients')
      BY <3>1, <3>2 DEF Writing, HasEnded
    <3> QED
      BY <1>1, <1>3, <1>14, <3>1, <3>3
  <2>2. CASE WriterAwaited(k)
    <3>1. /\ writer[k] \in HasEnded /\ UNCHANGED <<clients, writer>>
          /\ listed' = listed \/ listed' = listed \ {k}
          /\ cancelled' = cancelled \ {<<k, "reader">>}
      BY <2>2 DEF WriterAwaited, CloseWire, HasEnded
    <3> QED
      BY <1>1, <1>3, <1>14, <3>1 DEF Writing, HasEnded
  <2>3. CASE Shut(k) \/ Reset(k) \/ Flushed(k) \/ ReadFails(k)
    <3>1. UNCHANGED <<clients, listed, writer, cancelled>>
      BY <2>3 DEF Shut, Reset, Flushed, ReadFails
    <3> QED
      BY <1>1, <1>3, <1>14, <3>1 DEF Writing
  <2>4. CASE WriteFails(k) \/ WriteRaises(k) \/ WriteCancelled(k)
    <3>1. UNCHANGED <<clients, listed>> /\ \A j \in Connections : Writing(j)' => Writing(j)
      BY <2>4, InvFacts DEF WriteFails, WriteRaises, WriteCancelled, Writing
    <3> QED
      BY <1>1, <1>3, <1>14, <3>1
  <2>5. CASE SelfAwaited(k) \/ WireAwaited(k) \/ ReadCancelled(k)
    <3>1. UNCHANGED <<clients, listed, writer>> /\ cancelled' = cancelled \ {<<k, "reader">>}
      BY <2>5 DEF SelfAwaited, WireAwaited, ReadCancelled
    <3> QED
      BY <1>1, <1>3, <1>14, <3>1 DEF Writing
  <2> QED
    BY <1>14, <2>1, <2>2, <2>3, <2>4, <2>5 DEF PeerStep, LoopStep
<1>15. CASE \E k \in Connections : Connection(PeerStep(k)) \/ Connection(LoopStep(k))
  BY <1>14, <1>15 DEF Connection
<1> QED
  BY <1>4, <1>5, <1>6, <1>7, <1>8, <1>10, <1>11, <1>12, <1>13, <1>15 DEF Next, MuxStep

LEMMA WritersInvariant == Spec => []WritersAreKept
<1>1. Init => WritersAreKept
  BY DEF Init, ConnectionsInit, WritersAreKept, Writing
<1>2. LifecycleInv /\ WritersAreKept /\ [Next]_vars => WritersAreKept'
  BY StepKeepsWriters
<1> QED
  BY <1>1, <1>2, LifecycleInvariant, PTL DEF Spec

-----------------------------------------------------------------------------
(* The theorems.                                                           *)

\* However a program starts, serves and ends, its variables have their types
\* (Connections and Lifecycle).
THEOREM LifecycleTypeCorrect == Spec => []TypeOK
<1>1. LifecycleInv => TypeOK
  BY DEF LifecycleInv
<1> QED
  BY <1>1, LifecycleInvariant, PTL

\* A clean-up that comes to its end has closed every connection, forgotten every
\* client, told every write loop to end, left no read loop that would handle a
\* message, and stopped the adapter's process (mux.py:88-100, adapter.py:139-172).
THEOREM TeardownIsComplete == Spec => []TeardownComplete
<1>1. LifecycleInv /\ WritersAreKept => TeardownComplete
  <2> SUFFICES ASSUME LifecycleInv, WritersAreKept, at = "finished" PROVE TeardownComplete
    BY DEF TeardownComplete
  <2>1. /\ process # "running" /\ server # "listening" /\ clients = {} /\ toClose = {}
        /\ at \in Late \ {"closing"} /\ UpstreamIsNext
    BY DEF LifecycleInv, UpstreamIsLast, UpstreamIsNext, ClientsAreGone, Late
  <2>2. \A k \in Connections : wire[k] \in {"none", "lost"} /\ reader[k] # "reading"
    BY <2>1 DEF LifecycleInv, UpstreamIsLast, ClientsAreGone, Connections, Late
  <2>3. \A k \in Connections : writer[k] # "none" => WriterIsEnding(k)
    <3>1. \A k \in Connections : writer[k] \in Writers
      BY DEF LifecycleInv, TypeOK, ConnectionsTypeOK
    <3> QED
      BY <2>1, <3>1 DEF WritersAreKept, Writing, UpstreamEnds, Connections, WriterIsEnding, Writers, HasEnded
  <2> QED
    BY <2>1, <2>2, <2>3 DEF TeardownComplete, Reading
<1> QED
  BY <1>1, LifecycleInvariant, WritersInvariant, PTL

\* A read loop survives that it closes its own connection, unless its write loop
\* had failed on what it could not encode (client.py:61-76, 95-98).
THEOREM ReadLoopsSurviveClose == Spec => []OnlyUnreadableFails
<1>1. LifecycleInv => OnlyUnreadableFails
  BY DEF LifecycleInv
<1> QED
  BY <1>1, LifecycleInvariant, PTL

\* A forgotten client's connection is closed, or about to be, or both of its loops
\* have failed (client.py:65-71, mux.py:306-312).
THEOREM ForgottenAreClosed == Spec => []ForgottenIsClosed
<1>1. LifecycleInv => ForgottenIsClosed
  BY DEF LifecycleInv
<1> QED
  BY <1>1, LifecycleInvariant, PTL

\* While the program serves, no client is left with a write loop that has ended
\* and a transport that has not, unless it could not encode a message
\* (client.py:102-111).
THEOREM DeadWritersAreNoticed == Spec => []DeadWriterIsNoticed
<1>1. LifecycleInv => DeadWriterIsNoticed
  BY DEF LifecycleInv, TypeOK, ConnectionsTypeOK, Connections, ClientsAreServed,
         OnlyUnencodableFails, Late, Stopping, HasEnded, DeadWriterIsNoticed
<1> QED
  BY <1>1, LifecycleInvariant, PTL

-----------------------------------------------------------------------------
(* Nobody waits in vain.                                                   *)

\* What is ending goes on to end: nobody takes a cancellation back, and no step
\* opens a connection again (client.py:62-68, mux.py:90-100).
StaysEnding(k) ==
  wire[k] # "none" =>
    /\ wire'[k] # "none"
    /\ WriterIsEnding(k) => WriterIsEnding(k)'
    /\ WireIsClosing(k) => WireIsClosing(k)'
    /\ ~Reading(k) => ~Reading(k)'

\* A step that opens a connection leaves the others alone.
LEMMA OpeningStaysEnding ==
  ASSUME LifecycleInv, NEW j \in Connections, wire[j] = "none", Start(j), NEW k \in Connections
  PROVE  StaysEnding(k)
BY InvFacts DEF Start, Move, StaysEnding, WriterIsEnding, WireIsClosing, Reading

\* Tasks of a connection may be cancelled, its transport closed.
LEMMA ClosingStaysEnding ==
  ASSUME LifecycleInv, NEW j \in Connections, UNCHANGED <<reader, writer>>,
         CancelTasks(j) \/ UNCHANGED cancelled,
         CloseWire(j) \/ UNCHANGED wire,
         NEW k \in Connections
  PROVE  StaysEnding(k)
<1>1. cancelled \subseteq cancelled'
  BY DEF CancelTasks
<1>2. wire'[k] = wire[k] \/ (wire[k] # "none" /\ wire'[k] = "closing" /\ wire[k] # "lost")
  BY InvFacts DEF CloseWire
<1> QED
  BY <1>1, <1>2 DEF StaysEnding, WriterIsEnding, WireIsClosing, Reading

LEMMA LoopStaysEnding ==
  ASSUME LifecycleInv, NEW j \in Connections, PeerStep(j) \/ LoopStep(j), NEW k \in Connections
  PROVE  StaysEnding(k)
<1> USE InvFacts DEF StaysEnding, WriterIsEnding, WireIsClosing, Reading, HasEnded
<1>1. CASE Shut(j) \/ Reset(j) \/ Flushed(j)
  BY <1>1 DEF Shut, Reset, Flushed
<1>2. CASE ReadFails(j) \/ WriteFails(j) \/ WriteRaises(j)
  BY <1>2 DEF ReadFails, WriteFails, WriteRaises, Move
<1>3. CASE ReadEnd(j)
  <2>1. cancelled \subseteq cancelled' /\ UNCHANGED <<wire, writer>>
    BY <1>3 DEF ReadEnd, CancelTasks
  <2>2. reader'[k] = reader[k] \/ reader'[k] \in {"awaitsItself", "done"}
    BY <1>3 DEF ReadEnd, Move
  <2> QED
    BY <2>1, <2>2
<1>4. CASE SelfAwaited(j) \/ WireAwaited(j)
  BY <1>4 DEF SelfAwaited, WireAwaited, Move
<1>5. CASE WriterAwaited(j)
  BY <1>5 DEF WriterAwaited, CloseWire, Move
<1>6. CASE ReadCancelled(j) \/ WriteCancelled(j)
  BY <1>6 DEF ReadCancelled, WriteCancelled, Move
<1> QED
  BY <1>1, <1>2, <1>3, <1>4, <1>5, <1>6 DEF PeerStep, LoopStep

\* What waits goes on to wait for something that is ending.
LEMMA WaitKept ==
  ASSUME LifecycleInv, AwaitedIsEnding,
         \A k \in Connections : StaysEnding(k)
  PROVE  /\ \A k \in Connections :
              reader'[k] = reader[k] =>
                /\ reader'[k] \in {"awaitsItself", "awaitsWriter"} => WriterIsEnding(k)'
                /\ reader'[k] = "awaitsWire" => WireIsClosing(k)'
         /\ current' = current /\ at' = at =>
              /\ at' = "readerAwaited" => ~Reading(current)'
              /\ at' \in {"readerAwaited", "writerAwaited"} => WriterIsEnding(current)'
              /\ at' = "wireAwaited" => WireIsClosing(current)'
<1>1. \A k \in Connections : reader[k] # "none" => wire[k] # "none"
  BY InvFacts
<1>2. at = "wireAwaited" => wire[current] # "none"
  BY DEF AwaitedIsEnding, WireIsClosing
<1> QED
  BY <1>1, <1>2, InvFacts DEF AwaitedIsEnding, StaysEnding

\* The steps of connections, which leave close alone.
LEMMA LoopsWaitWell ==
  ASSUME LifecycleInv, AwaitedIsEnding,
         NEW j \in Connections, PeerStep(j) \/ LoopStep(j), UNCHANGED closeVars
  PROVE  AwaitedIsEnding'
<1>1. \A k \in Connections : StaysEnding(k)
  BY LoopStaysEnding
<1>2. current' = current /\ at' = at
  BY DEF closeVars
<1>3. \A k \in Connections : reader'[k] # reader[k] =>
        /\ reader'[k] \in {"awaitsItself", "awaitsWriter"} => WriterIsEnding(k)'
        /\ reader'[k] = "awaitsWire" => WireIsClosing(k)'
  <2> SUFFICES ASSUME NEW k \in Connections, reader'[k] # reader[k]
               PROVE  /\ reader'[k] \in {"awaitsItself", "awaitsWriter"} => WriterIsEnding(k)'
                      /\ reader'[k] = "awaitsWire" => WireIsClosing(k)'
    OBVIOUS
  <2>1. CASE ReadEnd(j)
    <3>1. k = j /\ reader[k] = "reading"
      BY <2>1, InvFacts DEF ReadEnd, Reading, Move
    <3>2. CASE k \in clients
      <4>1. CancelTasks(k) /\ reader'[k] = "awaitsItself" /\ UNCHANGED writer
        BY <2>1, <3>1, <3>2, InvFacts DEF ReadEnd, Move
      <4>2. writer[k] \notin HasEnded => <<k, "writer">> \in cancelled'
        BY <3>1, <4>1, InvFacts, CancelTasksEffect
      <4> QED
        BY <4>1, <4>2 DEF WriterIsEnding
    <3>3. CASE k \notin clients
      BY <2>1, <3>1, <3>3, InvFacts DEF ReadEnd, Move
    <3> QED
      BY <3>2, <3>3
  <2>2. CASE SelfAwaited(j)
    <3>1. k = j /\ reader[k] = "awaitsItself" /\ reader'[k] \in {"awaitsWriter", "failed"}
      BY <2>2, InvFacts DEF SelfAwaited, Move
    <3>2. WriterIsEnding(k)'
      BY <1>1, <3>1, InvFacts DEF AwaitedIsEnding, StaysEnding
    <3> QED
      BY <3>1, <3>2
  <2>3. CASE WriterAwaited(j) /\ reader'[k] \notin {"done", "failed"}
    <3>1. k = j /\ reader[k] = "awaitsWriter" /\ reader'[k] = "awaitsWire" /\ CloseWire(k)
      BY <2>3, InvFacts DEF WriterAwaited, Move
    <3>2. wire[k] # "none"
      BY <3>1, InvFacts
    <3>3. WireIsClosing(k)'
      BY <3>1, <3>2, InvFacts DEF CloseWire, WireIsClosing, Wires
    <3> QED
      BY <3>1, <3>3
  <2>4. CASE reader'[k] \in {"done", "failed"}
    BY <2>4
  <2>5. CASE UNCHANGED reader
    BY <2>5
  <2>6. WireAwaited(j) \/ ReadCancelled(j) \/ ReadFails(j) => k = j /\ reader'[k] \in {"done", "failed"}
    BY InvFacts DEF WireAwaited, ReadCancelled, ReadFails, Reading, Move
  <2>7. Shut(j) \/ Reset(j) \/ Flushed(j) \/ WriteFails(j) \/ WriteRaises(j) \/ WriteCancelled(j)
          => UNCHANGED reader
    BY DEF Shut, Reset, Flushed, WriteFails, WriteRaises, WriteCancelled
  <2> QED
    BY <2>1, <2>2, <2>3, <2>4, <2>5, <2>6, <2>7 DEF PeerStep, LoopStep
<1> QED
  BY <1>1, <1>2, <1>3, WaitKept DEF AwaitedIsEnding

\* What close has just begun to wait for (mux.py:95-99, client.py:63-74).
LEMMA BeginWaitsWell ==
  ASSUME LifecycleInv, AwaitedIsEnding, NEW k \in Connections, BeginClose(k)
  PROVE  AwaitedIsEnding'
<1>1. UNCHANGED <<reader, writer>> /\ (CloseWire(k) \/ UNCHANGED wire) /\ CancelTasks(k) /\ current' = k
  BY DEF BeginClose
<1>2. \A j \in Connections : StaysEnding(j)
  BY <1>1, ClosingStaysEnding
<1>3. \A j \in Connections :
        /\ reader'[j] \in {"awaitsItself", "awaitsWriter"} => WriterIsEnding(j)'
        /\ reader'[j] = "awaitsWire" => WireIsClosing(j)'
  BY <1>1, <1>2, InvFacts DEF AwaitedIsEnding, StaysEnding
<1>4. CASE k \in listed
  <2>1. at' = "readerAwaited" /\ wire' = wire /\ wire[k] # "none"
    BY <1>4, InvFacts DEF BeginClose, Go
  <2>2. /\ reader[k] = "reading" => <<k, "reader">> \in cancelled'
        /\ writer[k] \notin HasEnded => <<k, "writer">> \in cancelled'
    BY <1>1, <1>4, CancelTasksEffect DEF HasEnded
  <2> QED
    BY <1>1, <1>3, <2>1, <2>2 DEF AwaitedIsEnding, WriterIsEnding, Reading
<1>5. CASE k \notin listed
  <2>1. at' = IF wire[k] = "none" THEN "closed" ELSE "wireAwaited"
    BY <1>5 DEF BeginClose, Go
  <2>2. wire[k] # "none" => WireIsClosing(k)'
    BY <1>5, InvFacts DEF BeginClose, CloseWire, WireIsClosing, Wires
  <2> QED
    BY <1>1, <1>3, <2>1, <2>2 DEF AwaitedIsEnding
<1> QED
  BY <1>4, <1>5

\* The other steps of the coroutine, the process and the main thread.
LEMMA RestWaitsWell ==
  ASSUME LifecycleInv, AwaitedIsEnding,
         \/ StartupStep \/ Interrupt \/ ShutdownSeen \/ ProcessExits \/ MainStep
         \/ CloseServer \/ NoServer \/ ServerClosed \/ ReaderAwaited \/ WriterDone \/ WireClosed
         \/ Terminate \/ Exited \/ TerminateTimesOut \/ Kill
         \/ UNCHANGED vars
  PROVE  AwaitedIsEnding'
<1> DEFINE Awaiting == {"readerAwaited", "writerAwaited", "wireAwaited"}
<1>1. CASE UNCHANGED connectionVars /\ UNCHANGED current /\ (at' = at \/ at' \notin Awaiting)
  BY <1>1 DEF connectionVars, AwaitedIsEnding, WriterIsEnding, WireIsClosing, Reading
<1>2. CASE ConnectUpstream
  <2>1. at' = "connected" /\ wire[Upstream] = "none" /\ Start(Upstream)
    BY <1>2 DEF ConnectUpstream, Go, LifecycleInv, OpenedInTime
  <2>2. \A k \in Connections : StaysEnding(k)
    BY <2>1, InvFacts, OpeningStaysEnding
  <2>3. \A k \in Connections : reader'[k] # reader[k] => reader'[k] = "reading"
    BY <2>1, InvFacts DEF Start, Move
  <2> QED
    BY <2>1, <2>2, <2>3, WaitKept DEF AwaitedIsEnding
<1>3. CASE ReaderAwaited
  <2>1. UNCHANGED <<connectionVars, current>> /\ at = "readerAwaited" /\ at' \in {"raised", "writerAwaited"}
    BY <1>3 DEF ReaderAwaited, Go
  <2> QED
    BY <2>1 DEF connectionVars, AwaitedIsEnding, WriterIsEnding, WireIsClosing
<1>4. CASE WriterDone /\ ~(at' = "raised" /\ UNCHANGED wire)
  <2>1. /\ at = "writerAwaited" /\ at' = "wireAwaited" /\ current' = current
        /\ CloseWire(current) /\ UNCHANGED <<reader, writer, cancelled>>
    BY <1>4 DEF WriterDone, Go
  <2>2. \A k \in Connections : StaysEnding(k)
    BY <2>1, InvFacts, ClosingStaysEnding
  <2>3. WireIsClosing(current)'
    BY <2>1, InvFacts DEF CloseWire, WireIsClosing, Wires
  <2> QED
    BY <2>1, <2>2, <2>3, WaitKept DEF AwaitedIsEnding
<1>9. CASE WriterDone /\ at' = "raised" /\ UNCHANGED wire
  <2>1. UNCHANGED <<wire, reader, writer, cancelled, current>>
    BY <1>9 DEF WriterDone
  <2> QED
    BY <1>9, <2>1 DEF AwaitedIsEnding, WriterIsEnding, WireIsClosing
<1>10. CASE Interrupt
  <2>1. /\ UNCHANGED <<wire, reader, writer, current>> /\ cancelled \subseteq cancelled'
        /\ at' = at \/ at' \notin Awaiting
    BY <1>10 DEF Interrupt
  <2> QED
    BY <2>1 DEF AwaitedIsEnding, WriterIsEnding, WireIsClosing, Reading
<1>5. UNCHANGED vars => UNCHANGED connectionVars /\ UNCHANGED current /\ at' = at
  BY DEF vars, closeVars
<1>6. Begin \/ BeginFails \/ ConnectTimesOut \/ Serve \/ ServeFails =>
        UNCHANGED connectionVars /\ UNCHANGED current /\ at' \notin Awaiting
  BY DEF Begin, BeginFails, ConnectTimesOut, Serve, ServeFails, Fail, Go
<1>7. ShutdownSeen \/ ProcessExits \/ MainStep =>
        UNCHANGED connectionVars /\ UNCHANGED current /\ (at' = at \/ at' \notin Awaiting)
  BY DEF ShutdownSeen, ProcessExits, MainStep, StartIPython, ReportError, GiveUp,
         IPythonEnds, Join, MainGoes, Go, closeVars
<1>8. CloseServer \/ NoServer \/ ServerClosed \/ WireClosed
      \/ Terminate \/ Exited \/ TerminateTimesOut \/ Kill =>
        UNCHANGED connectionVars /\ UNCHANGED current /\ at' \notin Awaiting
  BY DEF CloseServer, NoServer, ServerClosed, WireClosed, Terminate, Exited, TerminateTimesOut,
         Kill, Go
<1> QED
  BY <1>1, <1>2, <1>3, <1>4, <1>5, <1>6, <1>7, <1>8, <1>9, <1>10 DEF StartupStep

LEMMA StepWaitsWell ==
  ASSUME LifecycleInv, AwaitedIsEnding, [Next]_vars
  PROVE  AwaitedIsEnding'
<1>1. CASE \E c \in Clients : Accept(c)
  <2>1. PICK c \in Clients : Accept(c)
    BY <1>1
  <2>2. wire[c] = "none" /\ Start(c) /\ UNCHANGED closeVars
    BY <2>1 DEF Accept
  <2>3. \A k \in Connections : StaysEnding(k)
    BY <2>2, InvFacts, OpeningStaysEnding
  <2>4. \A k \in Connections : reader'[k] # reader[k] => reader'[k] = "reading"
    BY <2>2, InvFacts DEF Start, Move
  <2> QED
    BY <2>2, <2>3, <2>4, WaitKept DEF closeVars, AwaitedIsEnding
<1>2. CASE CloseClient \/ CloseUpstream
  BY <1>2, BeginWaitsWell, InvFacts DEF CloseClient, CloseUpstream
<1>3. CASE \E k \in Connections : Connection(PeerStep(k)) \/ Connection(LoopStep(k))
  BY <1>3, LoopsWaitWell DEF Connection
<1> QED
  BY <1>1, <1>2, <1>3, RestWaitsWell DEF Next, MuxStep

\* Nobody waits for a task or a transport that was not told to end: nothing in the
\* closing of connections waits for ever (client.py:61-76, upstream.py:80-96).
THEOREM AwaitedAreEnding == Spec => []AwaitedIsEnding
<1>1. Init => AwaitedIsEnding
  BY DEF Init, ConnectionsInit, AwaitedIsEnding, Connections
<1>2. LifecycleInv /\ AwaitedIsEnding /\ [Next]_vars => AwaitedIsEnding'
  BY StepWaitsWell
<1> QED
  BY <1>1, <1>2, LifecycleInvariant, PTL DEF Spec

=============================================================================
