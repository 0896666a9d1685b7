----------------------------- MODULE Lifecycle -----------------------------
(***************************************************************************)
(* One run of the program: it starts a debug adapter or attaches to one,   *)
(* connects, listens for clients, and tears everything down again.         *)
(*                                                                         *)
(* One coroutine does this (_run_headless or _run_mux_until of             *)
(* dap_mux/cli.py, with close of mux.py and stop of adapter.py), and "at"  *)
(* is where it is suspended, or about to go on.  The tasks of Connections  *)
(* run beside it.  With --headless the main thread runs the event loop and *)
(* Ctrl-C cancels the coroutine; otherwise the main thread runs IPython    *)
(* and the event loop is in a daemon thread, which ends with the program.  *)
(***************************************************************************)
EXTENDS Connections

VARIABLES
  at,           \* where the coroutine is
  server,       \* _server: the listening socket
  toClose,      \* the clients that close has still to close
  current,      \* the connection that it is closing
  process,      \* the adapter's process; "attached" is somebody else's
  main,         \* the main thread; "loop" runs the event loop itself
  portQueue,    \* port_queue
  interrupted   \* was Ctrl-C pressed?

closeVars == <<at, toClose, current>>
programVars == <<main, portQueue, interrupted>>
vars == <<connectionVars, closeVars, server, process, programVars>>

Startup == {"start", "connecting", "connected"}
Closing == {"close", "serverAwaited", "closing", "readerAwaited", "writerAwaited", "wireAwaited"}
Stopping == {"closed", "terminating", "timedOut", "killing"}
Ended == {"finished", "raised"}

TypeOK ==
  /\ ConnectionsTypeOK
  /\ at \in Startup \cup {"serving"} \cup Closing \cup Stopping \cup Ended
  /\ server \in {"none", "listening", "closed"}
  /\ toClose \subseteq Clients
  /\ current \in Connections
  /\ process \in {"attached", "none", "running", "exited"}
  /\ main \in {"loop", "waiting", "repl", "joining", "exited"}
  /\ portQueue \in {"empty", "port", "error"}
  /\ interrupted \in BOOLEAN

Init ==
  /\ ConnectionsInit
  /\ at = "start"
  /\ server = "none"
  /\ toClose = {} /\ current = Upstream
  /\ process \in {"attached", "none"}
  /\ main \in {"loop", "waiting"}
  /\ portQueue = "empty"
  /\ interrupted = FALSE

\* The event loop runs until the coroutine is through or the program is.
Running == at \notin Ended /\ main # "exited"

Go(place) == Running /\ at' = place

-----------------------------------------------------------------------------
(* Start-up.                                                               *)

\* Whatever fails, close comes next; the REPL's main thread is told.
Fail ==
  /\ Go("close")
  /\ portQueue' = IF main = "loop" THEN portQueue ELSE "error"
  /\ UNCHANGED <<connectionVars, server, toClose, current, process, main, interrupted>>

\* The adapter is spawned, or the address to attach to is understood.
Begin ==
  /\ at = "start"
  /\ Go("connecting")
  /\ process' = IF process = "none" THEN "running" ELSE process
  /\ UNCHANGED <<connectionVars, server, toClose, current, programVars>>

BeginFails == at = "start" /\ Fail

\* An attempt is accepted, be it the last.
ConnectUpstream ==
  /\ at = "connecting"
  /\ process \in {"attached", "running"}
  /\ Go("connected")
  /\ Start(Upstream)
  /\ UNCHANGED <<clients, server, toClose, current, process, programVars>>

\* An attempt is refused, and the deadline has passed.
ConnectTimesOut == at = "connecting" /\ Fail

Serve ==
  /\ at = "connected"
  /\ Go("serving")
  /\ server' = "listening"
  /\ portQueue' = IF main = "loop" THEN portQueue ELSE "port"
  /\ UNCHANGED <<connectionVars, toClose, current, process, main, interrupted>>

\* The port is taken.
ServeFails == at = "connected" /\ Fail

\* _accept_client
Accept(c) ==
  /\ Running
  /\ server = "listening"
  /\ wire[c] = "none"
  /\ clients' = clients \cup {c}
  /\ Start(c)
  /\ UNCHANGED <<closeVars, server, process, programVars>>

-----------------------------------------------------------------------------
(* What ends the serving.                                                  *)

\* Ctrl-C, once: asyncio.run cancels the coroutine where it waits.  If that is for a
\* task, the task is cancelled and the coroutine goes on when it has ended;
\* elsewhere in the clean-up the cancellation cuts off the rest.
Interrupt ==
  /\ main = "loop" /\ Running
  /\ ~interrupted
  /\ interrupted' = TRUE
  /\ \/ at \in Startup \cup {"serving"} /\ at' = "close" /\ UNCHANGED cancelled
     \/ /\ at \in {"readerAwaited", "writerAwaited"}
        /\ cancelled' = cancelled \cup {<<current, IF at = "readerAwaited" THEN "reader" ELSE "writer">>}
        /\ UNCHANGED at
     \/ /\ at \in {"serverAwaited", "wireAwaited", "terminating", "killing"}
        /\ at' = "raised" /\ UNCHANGED cancelled
  /\ UNCHANGED <<clients, wire, reader, writer, listed>>
  /\ UNCHANGED <<server, toClose, current, process, main, portQueue>>

\* The loop that polls the shutdown event sees it.
ShutdownSeen ==
  /\ at = "serving"
  /\ main = "joining"
  /\ Go("close")
  /\ UNCHANGED <<connectionVars, server, toClose, current, process, programVars>>

-----------------------------------------------------------------------------
(* close of the multiplexer.                                               *)

CloseServer ==
  /\ at = "close"
  /\ server = "listening"
  /\ server' = "closed"
  /\ Go("serverAwaited")
  /\ UNCHANGED <<connectionVars, toClose, current, process, programVars>>

NoServer ==
  /\ at = "close"
  /\ server = "none"
  /\ Go("closing")
  /\ toClose' = clients
  /\ UNCHANGED <<connectionVars, server, current, process, programVars>>

\* Variant for mutation: the adapter's connection is closed with the clients'.
ServerClosedWithUpstream ==
  /\ at = "serverAwaited"
  /\ \A c \in Clients : wire[c] \in {"none", "lost"}
  /\ Go("closing")
  /\ toClose' = clients \cup {Upstream}
  /\ UNCHANGED <<connectionVars, server, current, process, programVars>>

\* wait_closed waits for the accepted connections too (Python 3.12 and later, and
\* the project requires 3.14).  Then the list of the clients is taken.
ServerClosed ==
  /\ at = "serverAwaited"
  /\ \A c \in Clients : wire[c] \in {"none", "lost"}
  /\ Go("closing")
  /\ toClose' = clients
  /\ UNCHANGED <<connectionVars, server, current, process, programVars>>

\* Begin to close a connection: cancel its tasks and await the first, or, if its
\* list is empty, close the transport if there is one.
BeginClose(k) ==
  /\ current' = k
  /\ CancelTasks(k)
  /\ IF k \in listed
     THEN Go("readerAwaited") /\ UNCHANGED <<wire, listed>>
     ELSE Go(IF wire[k] = "none" THEN "closed" ELSE "wireAwaited") /\ CloseWire(k)
  /\ UNCHANGED <<reader, writer, server, process, programVars>>

CloseClient ==
  /\ at = "closing"
  /\ \E c \in toClose : toClose' = toClose \ {c} /\ BeginClose(c)
  /\ UNCHANGED clients

\* The clients are forgotten and the adapter's connection is next.
CloseUpstream ==
  /\ at = "closing"
  /\ toClose = {}
  /\ clients' = {}
  /\ BeginClose(Upstream)
  /\ UNCHANGED toClose

\* An exception of the awaited task is raised here and ends the clean-up, unless
\* Ctrl-C comes in its place.
Raises(place, task) == place = "failed" /\ <<current, task>> \notin cancelled

ReaderAwaited ==
  /\ at = "readerAwaited"
  /\ reader[current] \in HasEnded
  /\ Go(IF Raises(reader[current], "reader") THEN "raised" ELSE "writerAwaited")
  /\ UNCHANGED <<connectionVars, server, toClose, current, process, programVars>>

WriterDone ==
  /\ at = "writerAwaited"
  /\ writer[current] \in HasEnded
  /\ IF Raises(writer[current], "writer")
     THEN Go("raised") /\ UNCHANGED <<wire, listed>>
     ELSE Go("wireAwaited") /\ CloseWire(current)
  /\ UNCHANGED <<clients, reader, writer, cancelled, server, toClose, current, process, programVars>>

WireClosed ==
  /\ at = "wireAwaited"
  /\ wire[current] = "lost"
  /\ Go(IF current = Upstream THEN "closed" ELSE "closing")
  /\ UNCHANGED <<connectionVars, server, toClose, current, process, programVars>>

-----------------------------------------------------------------------------
(* stop of the adapter process.  An exit counts when asyncio has seen it.  *)

ProcessExits ==
  /\ Running
  /\ process = "running"
  /\ process' = "exited"
  /\ UNCHANGED <<connectionVars, closeVars, server, programVars>>

\* SIGTERM, if there is somebody to send it to.
Terminate ==
  /\ at = "closed"
  /\ Go(IF process = "running" THEN "terminating" ELSE "finished")
  /\ UNCHANGED <<connectionVars, server, toClose, current, process, programVars>>

Exited ==
  /\ at \in {"terminating", "killing"}
  /\ process = "exited"
  /\ Go("finished")
  /\ UNCHANGED <<connectionVars, server, toClose, current, process, programVars>>

\* Variant for mutation: the wait has no timeout.
TerminateWaits ==
  /\ at = "terminating"
  /\ process = "exited"
  /\ Go("timedOut")
  /\ UNCHANGED <<connectionVars, server, toClose, current, process, programVars>>

\* The timer goes off, perhaps as the process exits.
TerminateTimesOut ==
  /\ at = "terminating"
  /\ Go("timedOut")
  /\ UNCHANGED <<connectionVars, server, toClose, current, process, programVars>>

\* Variant for mutation: after the timeout the process is left alone.
KillNot ==
  /\ at = "timedOut"
  /\ Go("finished")
  /\ UNCHANGED <<connectionVars, server, toClose, current, process, programVars>>

\* SIGKILL.  If the process is gone, so may be asyncio's handle of it, and kill
\* raises ProcessLookupError.
Kill ==
  /\ at = "timedOut"
  /\ \/ Go("killing")
     \/ process = "exited" /\ Go("raised")
  /\ UNCHANGED <<connectionVars, server, toClose, current, process, programVars>>

-----------------------------------------------------------------------------
(* The main thread of the REPL mode.                                       *)

MainGoes(from, to) ==
  /\ main = from
  /\ main' = to
  /\ UNCHANGED <<connectionVars, closeVars, server, process, portQueue, interrupted>>

StartIPython == portQueue = "port" /\ MainGoes("waiting", "repl")

\* The error is shown and the program ends.
ReportError == portQueue = "error" /\ MainGoes("waiting", "exited")

\* Fifteen seconds have passed, or Ctrl-C was pressed.
GiveUp == portQueue = "empty" /\ MainGoes("waiting", "exited")

IPythonEnds == MainGoes("repl", "joining")

\* The thread has ended, or five seconds have passed.
Join == MainGoes("joining", "exited")

-----------------------------------------------------------------------------

MuxStep ==
  \/ CloseServer \/ NoServer \/ ServerClosed \/ CloseClient \/ CloseUpstream
  \/ ReaderAwaited \/ WriterDone \/ WireClosed
  \/ Terminate \/ Exited \/ TerminateTimesOut \/ Kill

StartupStep ==
  \/ Begin \/ BeginFails \/ ConnectUpstream \/ ConnectTimesOut \/ Serve \/ ServeFails

MainStep == StartIPython \/ ReportError \/ GiveUp \/ IPythonEnds \/ Join

\* A step of a connection leaves the rest alone.
Connection(step) ==
  /\ Running
  /\ step
  /\ UNCHANGED <<closeVars, server, process, programVars>>

Next ==
  \/ StartupStep
  \/ Interrupt \/ ShutdownSeen
  \/ MuxStep
  \/ ProcessExits
  \/ MainStep
  \/ \E c \in Clients : Accept(c)
  \/ \E k \in Connections : Connection(PeerStep(k)) \/ Connection(LoopStep(k))

Spec == Init /\ [][Next]_vars

\* The event loop runs what can run; peers take what is written to them, so that
\* a transport being closed is flushed; SIGKILL ends a process.
FairSpec ==
  /\ Spec
  /\ \A k \in Connections : WF_vars(Connection(LoopStep(k)))
  /\ WF_vars(MuxStep)
  /\ WF_vars(at = "killing" /\ ProcessExits)

-----------------------------------------------------------------------------
(* What must hold.                                                         *)

WriterIsEnding(k) == writer[k] \in HasEnded \/ <<k, "writer">> \in cancelled

\* Clean-up that comes to its end leaves nothing behind: no adapter process, no
\* listening socket, no connection, no client, no read loop that would still
\* handle a message and no write loop that was not told to end (mux.py:88-100,
\* adapter.py:139-172).
TeardownComplete ==
  at = "finished" =>
    /\ process # "running"
    /\ server # "listening"
    /\ clients = {}
    /\ \A k \in Connections :
         /\ wire[k] \in {"none", "lost"}
         /\ ~Reading(k)
         /\ writer[k] # "none" => WriterIsEnding(k)

\* A read loop fails on what it cannot read, and on nothing else but this: in the
\* close of its own connection, which it survives otherwise, the exception of a
\* write loop that could not encode a message is raised (client.py:61-76, 95-98).
OnlyUnreadableFails ==
  \A k \in Connections : reader[k] = "failed" =>
    k \in Unreadable \/ (k \in Unencodable /\ writer[k] = "failed" /\ k \notin clients)

\* A client that the multiplexer has forgotten is closed, or its read loop is on
\* its way to close it, or was stopped on that way by the failure of the write
\* loop, which leaves the transport open (client.py:65-71, mux.py:306-312).
ForgottenIsClosed ==
  \A c \in Clients \ clients :
    \/ wire[c] \in {"none", "closing", "lost"}
    \/ reader[c] \in {"awaitsItself", "awaitsWriter"}
    \/ reader[c] = "failed" /\ writer[c] = "failed"

\* While the program serves, the write loop of a client ends only if its read loop
\* is about to notice, or had failed, or else of a message that it cannot encode
\* (client.py:102-111).
DeadWriterIsNoticed ==
  at = "serving" =>
    \A c \in clients : writer[c] \in HasEnded =>
      \/ wire[c] = "lost" /\ reader[c] \in {"reading", "failed"}
      \/ writer[c] = "failed" /\ c \in Unencodable

WireIsClosing(k) == wire[k] \in {"closing", "lost"}

\* Nobody waits for a task or a transport that goes on: a read loop that closes
\* its connection, and close, await what has ended or was told to end, although
\* both cancel and await the same tasks and each swallows the cancellations that
\* come meanwhile (client.py:61-76, upstream.py:80-96).
AwaitedIsEnding ==
  /\ \A k \in Connections :
       /\ reader[k] \in {"awaitsItself", "awaitsWriter"} => WriterIsEnding(k)
       /\ reader[k] = "awaitsWire" => WireIsClosing(k)
  /\ at = "readerAwaited" => ~Reading(current)
  /\ at \in {"readerAwaited", "writerAwaited"} => WriterIsEnding(current)
  /\ at = "wireAwaited" => WireIsClosing(current)

-----------------------------------------------------------------------------
(* What must happen.                                                       *)

\* A client that is gone is forgotten and its connection closed, unless its read
\* loop has failed or the program ends first (client.py:95-98, mux.py:306-312).
GoneIsForgotten ==
  \A c \in Clients :
    wire[c] \in {"shut", "lost"} ~>
      \/ c \notin clients /\ wire[c] = "lost"
      \/ reader[c] = "failed"
      \/ ~Running

\* Once the server is closed and no client is connected, the clean-up comes to
\* its end, or to an exception, unless a read loop has failed, whatever the
\* adapter process does (mux.py:95-100, adapter.py:154-160).
ShutdownEnds ==
  at \in Closing \cup Stopping /\ server # "listening"
    /\ (\A c \in Clients : wire[c] # "open") ~>
      \/ ~Running
      \/ \E c \in Clients : reader[c] = "failed"

\* close comes to its end (mux.py:89, "Shut down all connections and the client
\* listener").
CloseEnds == at \in Closing ~> at \notin Closing \/ ~Running

=============================================================================
