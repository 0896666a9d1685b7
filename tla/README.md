# dap-mux: a TLA+ specification

dap-mux puts one debug adapter behind a multiplexer that several DAP clients
(editors, a REPL) share.  This directory specifies, in TLA+, the
multiplexer, its connections and their wire format, the program's start and end,
and the bundled REPL client.  TLC checks small instances, and TLAPS proves the
central properties for every instance.

## The system

| part | source | state | operations |
| --- | --- | --- | --- |
| multiplexer | `mux.py` | `_phase`, `_clients`, `_pending_initialize`, `_cached_capabilities`, `_client_init_args`, `_initialized_event`, `_last_stopped_event` | accept a client; handle a client message, an adapter message, a disconnection; connect, serve, close |
| sequence map | `seq.py` | `_next_seq`, `_pending` | `allocate`, `resolve`, `cleanup`, `expire` |
| adapter compatibility | `compat.py` | none | event filter, known reverse requests, choice of their target, rewording of one error |
| client connection | `client.py` | `_send_queue`, two tasks | `start`, `send`, `close`, read loop, write loop |
| upstream connection | `upstream.py` | `_writer`, `_send_queue`, two tasks | `connect` (with retries), `send`, `close`, read loop, write loop |
| wire protocol | `protocol.py` | none | encode and decode `Content-Length` frames |
| adapter process | `adapter.py` | `_process`, `_output_task` | `start`, `stop`, output capture |
| command line | `cli.py` | the two run modes | start-up, REPL thread, shutdown |
| REPL client | `ipython_ext.py` | socket, response queues, current thread, frame and stop position | `connect`, `disconnect`, `send_request`, reader thread, frame fetcher, magics |
| debug adapter | external (debugpy, codelldb) | its session | answers, events, reverse requests |

How they interact.  The multiplexer runs in one asyncio loop.  Each connection
has a read loop that calls a handler of the multiplexer per message, and a write
loop that drains a queue.  Handlers communicate through the fields above, and
with connections through `send`, which puts a message at the end of a queue.
The REPL client is an ordinary client in the same process but in other threads:
it talks to the multiplexer over a socket.  The command line starts the adapter
process, connects the multiplexer to it and tears both down.

What is hard.  Clients act at the same time and number their requests
independently; they may be in the middle of the DAP handshake while others have
finished it or have left; the adapter answers late, in another order, with a
failure, or never; events arrive between a client's connection and its
handshake; the state replayed to late joiners may be stale.  `PROJECT.json`
lists each hazard at its line, with the property that covers it.

What makes each part correct:

* multiplexer: a response reaches the client that asked, about what it asked;
  every request has exactly one fate; the shared session is initialized and
  configured once and never ended by a client; all clients see the same stop,
  early or late; nothing is kept of a client that left;
* sequence map: a number identifies one request for ever;
* compatibility: a known reverse request goes to exactly one client, a willing
  one if there is one; filtered events reach nobody;
* connections: what was queued is written in order; the end of a connection is
  noticed once; a failing loop does not leave a half-dead client;
* REPL client: each waiting thread gets its own response or a timeout; the stop
  position shown is that of the current stop;
* wire protocol: any chunking of the bytes gives the same messages;
* start-up and shutdown: both end, and no adapter process is left behind.

## The modules

| module | what it is | source |
| --- | --- | --- |
| `SeqMap` | the sequence map, with its own specification | `seq.py` |
| `Compat` | the pure decisions about adapter messages | `compat.py` |
| `DebugAdapter` | the adapter: external, actions for the multiplexer's environment | - |
| `Router` | an abstract specification: what clients may rely on | - |
| `Mux` | the multiplexer, composed with `SeqMap` (an instance), `Compat` and `DebugAdapter`; implements `Router` | `mux.py`, `send` of `client.py` |
| `Connections` | the two loops of each connection, how they end, and what closing one does | `client.py`, `upstream.py` |
| `Lifecycle` | one run of the program, composed with `Connections` | `cli.py`, `adapter.py`; `serve` and `close` of `mux.py`; `connect` of `upstream.py` |
| `Channel` | an abstract specification: the queue of messages that a connection is | - |
| `Framing` | both parsers of the wire format; implements `Channel` | `protocol.py`, `_read_loop` of `ipython_ext.py` |
| `DapConnection` | the REPL's client and its threads, by itself | `ipython_ext.py` |
| `MCSeqMap`, `MCMux`, `MCLifecycle`, `MCFraming`, `MCDapConnection` | instances for TLC | - |
| `SeqMapProofs` | theorems about `SeqMap` | - |
| `MuxProofs` | type correctness of `Mux` | - |
| `MuxSafetyProofs` | protection of the session, phases, numbering, routing; leavers are forgotten | - |
| `MuxRouterProofs` | each request has one fate; `Mux` implements `Router` | - |
| `MuxSessionProofs` | what clients see of the session; reverse requests | - |
| `LifecycleProofs` | safety of serving and of the clean-up | - |
| `FramingProofs` | both parsers find the messages; `Framing` implements `Channel` | - |
| `DapConnectionProofs` | safety of the REPL's threads | - |

The modules look at the program at three scales.  `Mux` takes connections to be
queues and a handler to be a step.  `Connections` and `Lifecycle` leave messages
out, since handlers do not suspend, and look at tasks, sockets and processes.
`Framing` looks at bytes.  What one takes for granted another shows: `Mux` and
`DapConnection` start from queues of whole messages, which is what `Channel` says
and `Framing` implements (`CarriesMessages`), and `Mux` from a connection whose
end is noticed (`GoneIsForgotten`).

### How `Mux` corresponds to the code

One handler call is one action.  This is what asyncio does here: the handlers
await nothing but `put` on queues without a bound (`client.py:46`,
`upstream.py:38`), which never suspends.  The one exception is the last line of
`_handle_client_disconnect`, which awaits the closing of the connection after
every field has been changed.

| code | action |
| --- | --- |
| `_accept_client` | `Accept` |
| `_handle_client_message`, not a request | `ReverseResponseIgnored` (the only such message a DAP client sends) |
| - `initialize`, session initialized | `InitializeFromCache` |
| - `initialize`, first one in flight | `InitializeBuffered` |
| - `initialize`, first one | `InitializeForwarded` |
| - `attach`, `launch`, `configurationDone` once configured; `disconnect`, `terminate`, `restart` | `RequestIntercepted` |
| - `configurationDone`, first one | `ConfigurationDoneForwarded` |
| - any other request | `RequestForwarded` |
| `_route_response`, the first successful initialize | `InitializeResponse`, which flushes the buffer |
| `_route_response`, otherwise | `OtherResponse` |
| `_broadcast_event` | `EventBroadcast` |
| `should_filter_event` | `EventFiltered` |
| `_route_reverse_request` | `ReverseRequestRouted` |
| unknown adapter request | `ReverseRequestUnknown` |
| `_handle_client_disconnect` | `Disconnect` |
| the adapter's connection ends (`upstream.py:122`) | `AdapterLost` |

Each variable is named after the field it stands for, with the field in its
comment.  Some need a word:

* `outbox[c]` is everything ever put into the send queue of client `c`, a
  history rather than what is left of it.  A client's knowledge is a function of
  it.  It is emptied when the client leaves, as nobody will read it.
* `upstream` is likewise the history of the upstream queue.
* `initOrder` is the dictionary of initialize arguments, of which only the
  order of the keys and the set `OptIn` of opted-in clients matter.
* `sent[c]` is what client `c` has sent; its `n`-th request has the number `n`.
  All clients number from 1, so their numbers collide all the time.
* `answers` in a response is what the body is about, which the multiplexer does
  not look at: it lets a property say that a response was not confused with
  another.

A message's way over a socket is not a step of its own.  The channels are FIFO
and what a party may send at one moment it may still send later, so a step is
the sending together with the handling.  Joining two moves in this way leaves
out no state of the multiplexer.

What is assumed of the environment: clients send well-formed requests, each with
a `seq`; a client does not send `initialize` while one of its own is unanswered;
an orderly client (`Orderly`) sends nothing else before that was answered, and runs
with `Orderly = FALSE` drop this.  The adapter answers a request any number of
times, in any order, the same way each time; it emits events its session allows;
it may disappear.  Requests are taken from a small set that has one command for
each branch of the handler, and `threads` and `continue` for the last one.

`Router` knows of each client only whether it is there, how many requests it has
sent and how many answers each of them has.  These are `connection`,
`Len(sent)` and the number of matching responses in `outbox`.  `Ask` is a step of
a client that is answered at once or later; `Reply` answers any set of requests
that are open, since the flushing of the buffer answers several in one handler.

`SeqMap.Expire` is not called by the multiplexer.  It is an operation of the map
and checked with it.  A timestamp is replaced by the order of allocation: it is
taken from a monotonic clock in `allocate`, so what is older than a cutoff is a
prefix of the numbers.

### How `Connections` and `Lifecycle` correspond to the code

A step is what a task does from one point where it is suspended to the next.
The tasks are the read and the write loop of each connection and the one
coroutine that runs the program; `reader`, `writer` and `at` say where they are.

| code | actions |
| --- | --- |
| `start`; `connect`, once it is accepted | `Start` |
| `_read_loop` | `ReadEnd`, `ReadFails`, `ReadCancelled` |
| - its `on_disconnect`, which calls `close` | `ReadEnd`, `SelfAwaited`, `WriterAwaited`, `WireAwaited` |
| `_write_loop` | `WriteFails`, `WriteRaises`, `WriteCancelled` |
| the transports | `Shut`, `Reset`, `Flushed` |
| `_run_headless`, `_run_mux_until` | `Begin`, `BeginFails`, `ShutdownSeen`, `Interrupt` |
| - adapter `start`, `connect_upstream`, `serve` | `Begin`, `ConnectUpstream`, `ConnectTimesOut`, `Serve`, `ServeFails` |
| - `_accept_client` | `Accept` |
| - `close` of the multiplexer | `CloseServer`, `NoServer`, `ServerClosed`, `CloseClient`, `CloseUpstream`, `ReaderAwaited`, `WriterDone`, `WireClosed` |
| - `stop` of the adapter process | `Terminate`, `Exited`, `TerminateTimesOut`, `Kill`, `ProcessExits` |
| `_run_repl`, the main thread | `StartIPython`, `ReportError`, `GiveUp`, `IPythonEnds`, `Join` |

Some of this is the behaviour of asyncio, as of the Python the project requires
(`pyproject.toml:20`):

* `task.cancel()` only asks: the task gets `CancelledError` when it runs next
  (`cancelled`).
* A read loop that closes its own connection awaits itself.  That would raise a
  `RuntimeError`, but the pending cancellation takes its place and is suppressed
  (`SelfAwaited`).
* `wait_closed` of a listening server waits for the accepted connections.
* A process that has exited may lose its handle just before `kill`, which then
  raises `ProcessLookupError` (`Kill`).
* Cancelling a coroutine that awaits a task cancels the task, and the coroutine
  goes on, or not, when that has ended (`Interrupt`).
* Awaiting a task that ended with an exception raises that exception.  `close`
  suppresses `CancelledError` only (`client.py:65-69`), so what a loop failed of is
  raised out of it: in the read loop that closes its own connection
  (`WriterAwaited`) or in the multiplexer's `close` (`Raises`).

`toClose` is a set although the code walks over a list: nothing depends on the
order.  Where the code runs on without suspending, as between two clients that
are closed, the model allows other tasks to run in between; it has more
behaviours than the program, never fewer.  The REPL's event loop runs in a
daemon thread: once `main` has exited nothing moves (`Running`).  `Unreadable`
are the connections whose peer may make the read loop fail with an exception it
does not expect.  `Unencodable` are those to which a message may go that the write
loop cannot encode: `json.loads` accepts an escaped lone surrogate, and
`encode_message` writes UTF-8 (`protocol.py:124`).  `client.py:108` does not
expect that exception either, so the write loop ends with it, on an open
transport, and nobody is told (`WriteRaises`).  A client opens one connection at
most; Ctrl-C comes once.

### How `Framing` corresponds to the code

A byte is a record.  A whole `Content-Length: n` is one byte, as no parser looks
at a header before its end is there; `{` is what makes a body JSON, `a` any other
character, and `e` one that has two bytes, so that characters and bytes are told
apart.  The peer writes frames of `encode_message` and foreign ones: further
header fields, a body with the separator in it, a header without length, a body
that is no JSON or no text, a header that is unreadable.  The stream ends
anywhere.

| code | actions |
| --- | --- |
| `read_message`: `read(1)` with `decode_header`; `readexactly` with `decode_body`; the end | `ReadByte`, `ReadBody`, `ReadEof` |
| `DapConnection._read_loop`: `recv`; its inner loop | `Recv`, `RecvEof`; `NothingToCut`, `CutHeader`, `CutMessage` |

The two treat foreign frames differently.  The REPL's parser skips a header
without a length and a body that is no JSON; with `read_message` either ends the
read loop.  `read_message` promises a `ConnectionError` at the end of the stream
(`protocol.py:167`) and within a body raises `IncompleteReadError` instead; the
callers expect both.

### How `DapConnection` corresponds to the code

Here the actors are threads, and the code of one thread between two uses of
something shared (a field, the lock, a queue, the socket) is one step.  `at`
says where in the code a thread is, `script` which requests it has still to
send: a magic or a frame fetcher is a list of requests and what it stores.

| code | actions |
| --- | --- |
| `send_request` | `Check`, `Register` (takes the lock), `Transmit` or `TransmitFails` or `TransmitRaises` (release it), `Receive` or `TimeOut` |
| `_auto_fetch_frame`, `%frame`, `%sync` | `StartFetch`, `StoreThread`, `StoreFrame` |
| `disconnect` | `Leave`, `SocketChecked`, `SocketClosed`, `SocketDropped`, `ReaderChecked`, `ReaderJoined`, `ReaderForgotten`, `ThreadForgotten`, `FrameForgotten` |
| `_read_loop`, `_dispatch_response` | `ReadResponse`, `ReadEnd`, `ReaderStops` |
| - `_handle_event` | `ReadStopped`, `ReadContinued`, `ReadTerminated` take the event, `HandleStopped`, `HandleContinued`, `HandleTerminated` handle it |
| `connect` with `%connect` | `Connect`, `SetTimeout`, `SetRunning`, `SetReader`, `StartReader`, then the requests of `send_request` |
| `%disconnect`; the other magics | `Disconnect`, `UseMagic` |

`disconnect` is taken apart as finely as this because the reader thread runs it
too, after `terminated`, and both threads may be in it at once: the second to
close finds `None`.  A reader that is through with it goes back to its loop and
reads on if a new connection has been made meanwhile.  `connect` is taken apart
for the same reason: the old reader's `disconnect` may close the new socket or
drop it, clear the flag or forget the thread between any two of its stores, and
`settimeout` or `start` then raises.  A call may fail in `sendall` with part of its
frame sent, as the socket has a timeout of a second: what follows on that
connection cannot be read (`readable`).

`wire`, `place` and `Answers` record what was asked, so that a property can tell
whose answer a thread got.  The wait of ten seconds and the join of two may end
at any time.  `stopped_file` and `stopped_line` are left out: they are printed by
the thread that stores them, and nothing else reads them.

The multiplexer is external here: it answers a request once, or never, and
sends the events of a debuggee that stops, goes on and ends.  `stop` is the stop
the debuggee is at, as far as the reader thread has been told.

## The runs

| run | question | bounds |
| --- | --- | --- |
| `session` | do orderly clients share one session, and is every request answered? | 2 clients, 2 requests each, 3 emissions |
| `unruly` | what if clients send anything, the adapter refuses and asks things? | 2 clients, 2 requests each, 1 emission |
| `seqmap` | is the map right under any calls? | 2 clients, 2 numbers, 5 allocations |
| `lifecycle` | does the program start, serve and end properly? | 2 clients; one and the adapter may send what cannot be read, the other may be sent what cannot be encoded |
| `framing` | do both parsers find the same messages? | 2 frames, 2 characters |
| `repl` | do the REPL's threads get along? | 2 connections, 1 frame fetcher, 2 requests, up to 4 on the first |
| `init_refused`, `early_done`, `silent_resume`, `reverse_reply`, `stale_frame`, `close_hangs` | six disagreements, see below | |

`MaxRequests` bounds what a client sends, `MaxEmitted` what the adapter emits,
`MaxAllocated` the numbers of the map.  Two clients suffice for a race: the one
whose initialize is forwarded, and one that is buffered or late.  Two requests
are the handshake and one more.  Three emissions contain `initialized`,
`stopped`, then `continued` or `terminated`.  In `unruly` only the second client
has opted in to running programs, so that the order of joining and the option
disagree.  What needs a third client is left to the proofs, which hold for any
number.

In `repl` a magic starts only if two numbers are enough for it and those taken
before; the fetcher may take one more.  On the first connection the handshake of
`--stop-on-entry`, which needs three, and a %sync, which needs two, are let
through if one is left.  Two
connections are the least for a thread or a reader to outlive its connection,
and one fetcher beside the main thread the least for two senders.

In `lifecycle` the clients are closed one after the other while the other may be
in the middle of its own end, or half-dead; a third adds nothing to that.  Both
run modes, and both ways to get an adapter, are initial states.  In `framing`
two frames are the least for a boundary between messages to be missed, and a
foreign one can precede or follow an own one; every cut of the stream and every
size of a piece is covered.

Deadlock is not checked because the system may stop: at a bound, at the end of
the program or of a stream.

What the passing runs show:

* `RequestsAccountedFor`: a request of a client that is there is answered, waits
  in the map or is buffered, exactly one of these, and is answered once.
* `Routes`: `Mux` refines `Router`: seen from its clients the multiplexer answers
  each request at most once, and only while its client is there.
* `ResponsesMatchRequests`, `UpstreamIsNumbered`: routing by number is right.
* `SharedSessionProtected`, `PhaseOnlyAdvances`: the guards on the phase protect
  the session under any interleaving, also of clients that keep no order.
* `BufferAwaitsAnswer`, `CapabilitiesDelivered`, `HandshakeCompleted`: nobody is
  stuck in the buffer; who is told that initialize succeeded gets what comes
  with it.
* `StopStateShared`, `NoEventMissed`, `CachedStopIsCurrent`: clients agree on
  the stop, wherever they joined, and what is replayed is the stop that the
  debuggee is at, or nothing while it is not stopped.  A client that was connected before it
  initialized sees events twice, which `NoEventMissed` allows on purpose.
* `OwnersRegistered`: the branch of `_route_response` for a client that is gone
  (`mux.py:228`) cannot be reached, since leaving cleans the map.
* `ReverseRequestReachesOne`: the target is one client that has initialized, and
  for `runInTerminal` one that opted in, if there is such a client.
* `RequestsAnswered`: with an adapter that answers, everyone is answered.
* `TeardownComplete`: a clean-up that comes to its end leaves no client, no read
  loop that would handle another message, no write loop that goes on, no
  connection, no listening socket and no adapter process.
* `OnlyUnreadableFails`: a read loop that closes its own connection, and awaits
  and cancels itself in doing so, survives that, also while the multiplexer
  closes the same connection.  What it does not survive is the exception of a write
  loop that could not encode a message.
* `ForgottenIsClosed`, `DeadWriterIsNoticed`: a client that is forgotten is closed,
  and one that cannot be written to is about to be noticed by its read loop.  The
  exceptions are those of the code: a read loop that failed, and a write loop
  that failed on a message it could not encode, which nobody notices and which
  later keeps the transport open.
* `AwaitedIsEnding`: whatever a step of closing waits for, a task or the
  transport, was told to end before and has stayed so, although several tasks
  cancel and await the same ones and swallow cancellations.
* `GoneIsForgotten`, `ShutdownEnds`: clients that are gone are forgotten in the
  end, and without connected clients the clean-up ends.
* `WholeMessages`: however the bytes are cut, each message is passed on once,
  whole, in order, and as soon as its last byte is there.
* `TruncationIsNoFailure`: the end of a stream, wherever it comes, looks like a
  disconnection.
* `CarriesMessages`: `Framing` refines `Channel`: with the bytes hidden a parser
  delivers the next message, closes when there is none left, or fails.
* `EveryStepCounts`, `ParsersFinish`: neither parser spins on what it cannot use.
* `AnswersAreOwn`, `WireIsOrdered`: in the REPL a late answer, or one for another
  thread or connection, never comes through, and requests reach the wire in the
  order of their numbers.
* `ConnectedIsRead`: once `%connect` has started its reader thread, that thread
  goes on reading the new socket, however late the old one leaves, until somebody
  disconnects.  A `%connect` that the old reader's `disconnect` has made to raise
  leaves a socket that nobody reads, which the property excuses.
* `CallsReturn`: `send_request` always comes back, also when the socket is lost
  or dropped under it.

### Fairness

In `Mux`, `FairSpec` assumes one thing: a request that has reached the adapter is answered
and the answer is handled (weak fairness of each client's each request, as long
as the connection is there).  The read loop runs whenever there is a message, so
the assumption is about the adapter.  Nothing is assumed of clients, of events
or of departures.

In `DapConnection`, `FairSpec` assumes that a thread inside `send_request` is
scheduled: the operating system does that, and the wait has a timeout.  Nothing
is assumed of the reader threads, of the multiplexer or of the user.  A thread
that wants the lock gets it because every holder releases it and the number of
requests is bounded; that a lock is fair is not shown.

In `Lifecycle`, `FairSpec` assumes that the event loop runs what can run (the
steps of each connection, and those of the coroutine once the clean-up has
begun), which asyncio does.  A closing transport is flushed, as the peer takes
what was written or breaks off, and SIGKILL ends a process.  Nothing is assumed
of clients, of start-up, of Ctrl-C, of the main thread or of SIGTERM.

In `Framing`, the parser runs as long as there is something to read.

### Where code and documents disagree

* `init_refused`: only a successful answer to the first initialize ends the
  phase INITIALIZING (`mux.py:214`).  If the adapter refuses, clients that were
  buffered wait forever, which the comment above the buffer wants to prevent.
* `early_done`: `configurationDone` during INITIALIZING makes the phase
  CONFIGURED.  From then on other clients get a success from the empty cache, and
  the answer to initialize, when it comes, is not cached (`CapabilitiesShared`).
* `silent_resume`: the cached stop is dropped on a `continued` event.  DAP does
  not require that event after a `continue` request, and without it a late
  joiner is shown a stop that is over.
* `reverse_reply`: the answer of a client to a reverse request is dropped.
* `stale_frame`: a fetched frame is stored without a look at whether `continued`
  was handled since.  The program runs, every thread of the REPL rests, and
  `%eval` still has a frame, that of the past stop.
* `close_hangs`: `close` waits for the listening server before it closes the
  clients, and the server waits for their connections (`mux.py:92`).  With a
  client connected the clean-up goes no further and the adapter process is not
  stopped.  The REPL's own connection is open when IPython ends, so in REPL mode
  the join of five seconds runs out every time.  `ShutdownEnds`, which does hold,
  is about the case in which no client is connected.

Met on the way, and in the model as the code has it:

* When start-up fails in REPL mode the main thread returns as soon as it is told,
  and may end the program while the daemon thread still stops the adapter
  (`cli.py:182`).
* A message that cannot be read ends a client's read loop without a
  disconnection (`client.py:96`).  The client stays registered, and its exception
  is raised in `close`, which then leaves out the rest.
* A message that cannot be encoded ends a client's write loop (`client.py:108`).
  The client gets nothing more.  When it leaves, `close` raises the exception before
  it closes the transport; in the multiplexer's `close` it cuts off the rest.
* A `%connect` that races the old reader's `disconnect` may raise and leave a
  socket that counts as connected and is read by nobody (`ipython_ext.py:64-68`).
* A `sendall` that times out half-way leaves a connection on which no request can
  be read any more (`ipython_ext.py:130`).
* Ctrl-C during the clean-up cuts off the rest of it.
* `find_free_port` gives the port back before the adapter takes it
  (`adapter.py:38`).

## The proofs

All theorems hold for every set of clients, connections, threads and requests,
every bound, every adapter of `DebugAdapter`, clients in any order, and streams
of any length.  The only
assumptions are the named ones on the constants.  `MuxAssumption` and
`AdapterAssumption`: the bounds are natural numbers, the flags are Boolean,
`Requests` are DAP commands and `OptIn` are clients.  `ConnectionsAssumption`:
the adapter's connection is not a client's, and `Unreadable` and `Unencodable` are
connections.
`ConnectionAssumption` (of `DapConnection`): the main thread is not a fetcher and
the bounds are natural numbers.  `FramingAssumption`: so are those of `Framing`.
Three theorems of `MuxSessionProofs` ask for more, in their statements: that
clients wait for the answer to initialize (`Orderly`), that the adapter does not
refuse initialize, or that it announces when the program goes on.  The runs `early_done`, `init_refused` and `silent_resume` show
that they fail without.

* `SeqMapProofs`.  Every step of the map either adds the number `nextSeq` or
  removes some (`StepAllocatesOrForgets`, `ForgettingKeepsTheRest`).  From this
  `PendingAllocated` (pending numbers are below `nextSeq`) is inductive with the
  types, and `NumbersAreFresh` is a step property.
* `MuxProofs`: `TypeCorrect`.  Inductive together with `KeysDistinct`: the keys
  of a dictionary occur once, which is needed to know what removing one leaves.
* `MuxSafetyProofs`, `SessionIsProtected`.  The property is not inductive: it
  says nothing of the phase.  The strengthening `PhaseRemembers` says that the
  phase has recorded what was forwarded, which is why a look at the phase is
  enough.
* `MuxSafetyProofs`, `ResponsesAreRoutedBack` and `UpstreamNumbersAreGapless`.
  `RoutingInv` joins five facts: the upstream queue is numbered and `nextSeq` is
  its next position (`Numbered`); entries of the map agree with it
  (`EntriesMatch`); it, and the buffer, hold what clients sent
  (`UpstreamMatches`, `BufferMatches`); queued responses fit
  (`ResponsesMatchRequests`).  When a response comes, the entry it resolves is
  about the request at that very position.
* `MuxSafetyProofs`, `PhasesAreLinear`: the phase never goes back.
* `MuxSafetyProofs`, `LeaversAreForgotten`: `OwnersRegistered`, inductive with
  the types and `KeysDistinct`.
* `MuxRouterProofs`, `EveryRequestHasOneFate` and `ImplementsRouter`.  That a
  request has one fate is not inductive: an entry that stood in the map twice
  would be answered twice.  `FateInv` adds that it stands there once
  (`PendingOnce`), that a client is in the buffer once (`BufferedOnce`) and that a
  client that has not come has sent nothing (`NewIsSilent`), and rests on
  `RoutingInv`.  A response that arrives leaves the fate of a request alone, or it
  turns a waiting or a buffered one into an answered one (`OneFate`).  For
  `Router` each action is then a step of it under the mapping, or a stutter.
  Clients need no order for this, and the adapter may refuse.
* `MuxSessionProofs`.  `SessionInv` relates each queue to what was emitted and to
  the caches: a queue holds only what was emitted (`OnlyEmitted`), a success of
  initialize is followed by the initialized event (`Handshaken`), who has heard
  any news of the stop, or is through the handshake, has the cached stop as the
  last of it (`StopKnown`), and nothing is missed or out of order (`NoneMissed`).
  A success comes from the cache, with the replays behind it, or from the
  adapter's first answer, and then the session is still idle and there is nothing
  to replay (`IdleIsSilent`).  This gives `HandshakesComplete`, `StopIsShared` and
  `EventsReachEveryone`, which need no order among clients.
* `MuxSessionProofs`, `CapabilitiesReachOrderlyClients` and `BufferIsNotLeftBehind`.
  With orderly clients nothing but the answer to initialize ends the phase
  INITIALIZING, so that answer fills the cache (`CapsInv`); and if it must be a
  success it flushes the buffer, so who is in it has one to wait for
  (`BufferInv`).  `CachedStopIsTrue` joins two facts: the
  cached stop is what the emissions say (`CachesFit`), and one is cached only while
  the debuggee is stopped (`CachedOnlyWhenStopped`), which is inductive.
* `MuxSessionProofs`, `ReverseRequestsReachOne`: the keys of `initOrder` are the
  clients that are there and sent initialize (`KeysAreAsked`), so the choice among
  the keys takes one of them, and a willing one if there is one.
* `LifecycleProofs`.  `LifecycleInv` follows the stages of the program: before the
  clean-up a known client's tasks are not cancelled but by its own read loop,
  which has then forgotten it (`ClientsAreServed`); when the clients' turn comes
  they are disconnected, and a read loop that has not noticed is closed before
  `close` goes on (`ClientsAreGone`); the adapter's connection and process come
  last (`UpstreamIsLast`).  `ReadersAreKept` has the fact that lets a read loop
  survive its own `close`: who awaits itself has been cancelled; what it may still
  meet there is a write loop that failed.  From it follow `TeardownIsComplete`, `ReadLoopsSurviveClose`, `ForgottenAreClosed` and
  `DeadWritersAreNoticed`.
* `LifecycleProofs`, `AwaitedAreEnding`: the safety half of `ShutdownEnds`.  A wait
  begins behind the call that told its object to end; the proof is that nothing
  takes that back.  Only a start or an accepted connection makes a task that is
  not told to end, and neither can happen to a connection that was open when its
  closing began (`CurrentWasOpened`).
* `DapConnectionProofs`.  `CallInv` is about the callers: who sends holds the lock
  (`LockIsHeld`), the queues are those of the calls under way (`QueuesAreOwn`),
  numbers on the wire are older than the next one and stand there once
  (`WiresAreOlder`, `NumbersStandOnce`), and what is in a queue is about the
  request the queue was made for (`PlacesAreKnown`, `QueuesHoldOwn`).
  `ThreadsGetTheirOwnAnswers` and `WiresAreOrdered` follow.  `ReadersInv` says that
  sockets and their readers begin in order (`SocketsInOrder`), and that the current
  socket, unless somebody is closing, has the flag set for it and its reader in its
  loop or still to be started (`SocketIsRead`), for `ConnectedIsAlwaysRead`.

* `FramingProofs`.  What a parser has passed on says nothing of where in the stream
  it is.  `IInv` says it: some number `k` of frames were parsed (`Parsed`), the
  messages among them are what was passed on (`Done`), and the bytes that are
  buffered, or the header that was read, begin the frame behind them.  It rests on
  a fact about what is written, `WellFormed`: header lines hold no line break, so
  in a stream the first separator behind frame `k` ends the header of frame
  `k + 1` (`HeaderFound`), also if the body has one; and the first length of a
  header is that of the body, so the next header begins where the next frame does.
  `MessagesAreWhole` and `TruncationNeverFails` follow for any number of frames.
  `ImplementsChannel` reads the queue off the stream: what is in it is the messages
  of which all bytes come before the end.  What a parser has passed on is always a
  prefix of that, and all of it where it may close (`Passed`); so to append is to
  deliver the next one (`OneMore`).  `EveryStepIsProgress` gives the work that is
  left as a natural number; a header takes at least the four bytes of its end, so
  also a round of the REPL's inner loop that passes nothing on makes it smaller.
  What `ParsersFinish` says beyond that is that some step is always possible.
  The provers cannot instantiate a predicate, so the facts about joined sequences
  are proved by the least counterexample in a set (`FirstOfSome`,
  `SetInduction`), not by induction over data.

Only model-checked: liveness (`RequestsAnswered`, `CallsReturn`,
`GoneIsForgotten`, `ShutdownEnds`, `ParsersFinish`), which the prover does not do.

## What is not modelled

* the wording of messages, including `rewrite_stale_variable_error`; bodies and
  arguments other than capabilities and the opt-in;
* option parsing, logging, the capture of the adapter's output, the package's
  exports, and `wait_for_port`, which only tests call;
* a second Ctrl-C, and the same client connecting again (it is another client);
* header values that are negative numbers;
* in the REPL: output, %sync with several threads, and the bytes that two readers
  of one socket may take from each other after a reconnection.

## Plan

Done, in this order: `SeqMap`, `Compat`, `DebugAdapter` and `Mux`;
`DapConnection`; `Connections` and `Lifecycle`; `Framing`; `Router`; `Channel`;
and the proofs above.  Every safety property that the passing runs check is
proved.  What could follow:

1. Work that is left, as `EveryStepCounts` has it, for the closing of connections
   and for the REPL's calls: the part of `ShutdownEnds` and `CallsReturn` that
   the prover can do.
2. `%sync` over several threads, and a second Ctrl-C.
3. Two readers of one socket at the scale of bytes, which would join `Framing`
   and `DapConnection`.
