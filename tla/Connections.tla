---------------------------- MODULE Connections ----------------------------
(***************************************************************************)
(* The connections of the multiplexer: one to the adapter                  *)
(* (dap_mux/upstream.py) and one to each client (dap_mux/client.py).  Each *)
(* has a read loop and a write loop, two tasks of the same event loop.     *)
(*                                                                         *)
(* A step is what a task does from one point where it is suspended to the  *)
(* next.  Messages are left out: handlers never suspend (see Mux), so that *)
(* here a loop waits, or comes to its end.  task.cancel() only asks: the   *)
(* task is cancelled when it runs the next time.                           *)
(* To await a task that has ended takes no time; here it is a step.         *)
(***************************************************************************)
EXTENDS FiniteSets

CONSTANTS
  Clients,    \* connections that clients may open, each at most once
  Upstream,   \* the connection to the adapter
  Unreadable, \* connections whose peer may send what ends the read loop with
              \* another exception than those it expects: a broken header or
              \* body, or for a remote adapter a network that times out
  Unencodable \* connections to which a message may go that the write loop
              \* cannot encode: JSON lets in a lone surrogate, UTF-8 does not

ASSUME ConnectionsAssumption ==
  /\ Upstream \notin Clients
  /\ Unreadable \subseteq Clients \cup {Upstream}
  /\ Unencodable \subseteq Clients \cup {Upstream}

Connections == Clients \cup {Upstream}

VARIABLES
  clients,    \* _clients: those the multiplexer knows
  wire,       \* each transport
  reader,     \* where each _read_loop is
  writer,     \* where each _write_loop is
  cancelled,  \* the tasks cancel() was called on since they last ran, or, for
              \* one that has ended, whose awaiter is cancelled in its place
  listed      \* connections whose _tasks is not empty

connectionVars == <<clients, wire, reader, writer, cancelled, listed>>

\* "shut": the peer has sent its end of file; "closing": closed on this side,
\* but not yet flushed; "lost": gone, and forgotten by the listening server.
Wires == {"none", "open", "shut", "closing", "lost"}

\* "awaitsItself" to "awaitsWire" are in close, called from the read loop;
\* "failed" has ended with an exception.
Readers == {"none", "reading", "awaitsItself", "awaitsWriter", "awaitsWire", "done", "failed"}
Writers == {"none", "running", "done", "failed"}
HasEnded == {"done", "failed"}
Tasks == Connections \X {"reader", "writer"}

ConnectionsTypeOK ==
  /\ clients \subseteq Clients
  /\ wire \in [Connections -> Wires]
  /\ reader \in [Connections -> Readers]
  /\ writer \in [Connections -> Writers]
  /\ cancelled \subseteq Tasks
  /\ listed \subseteq Connections

ConnectionsInit ==
  /\ clients = {}
  /\ wire = [k \in Connections |-> "none"]
  /\ reader = [k \in Connections |-> "none"]
  /\ writer = [k \in Connections |-> "none"]
  /\ cancelled = {}
  /\ listed = {}

Move(k, place) == reader' = [reader EXCEPT ![k] = place]

-----------------------------------------------------------------------------
(* What start, connect and close share.                                    *)

\* The transport is there and both loops are tasks.
Start(k) ==
  /\ wire' = [wire EXCEPT ![k] = "open"]
  /\ Move(k, "reading")
  /\ writer' = [writer EXCEPT ![k] = "running"]
  /\ listed' = listed \cup {k}
  /\ UNCHANGED cancelled

\* Variant for mutation: only the read loop is told to end.
CancelReader(k) ==
  cancelled' = cancelled \cup
    IF k \in listed /\ reader[k] \notin HasEnded THEN {<<k, "reader">>} ELSE {}

\* Cancelling a task that has ended does nothing.
CancelTasks(k) ==
  cancelled' = cancelled \cup
    IF k \notin listed THEN {}
    ELSE {t \in {k} \X {"reader", "writer"} :
            IF t[2] = "reader" THEN reader[k] \notin HasEnded ELSE writer[k] \notin HasEnded}

\* _tasks is cleared and the transport told to close.
CloseWire(k) ==
  /\ listed' = listed \ {k}
  /\ wire' = [wire EXCEPT ![k] = IF @ \in {"open", "shut"} THEN "closing" ELSE @]

-----------------------------------------------------------------------------
(* The transports.                                                         *)

\* The peer sends no more.
Shut(k) ==
  /\ wire[k] = "open"
  /\ wire' = [wire EXCEPT ![k] = "shut"]
  /\ UNCHANGED <<clients, reader, writer, cancelled, listed>>

\* A reset, or an error of the socket.
Reset(k) ==
  /\ wire[k] \in {"open", "shut"}
  /\ wire' = [wire EXCEPT ![k] = "lost"]
  /\ UNCHANGED <<clients, reader, writer, cancelled, listed>>

\* What was written has been flushed.
Flushed(k) ==
  /\ wire[k] = "closing"
  /\ wire' = [wire EXCEPT ![k] = "lost"]
  /\ UNCHANGED <<clients, reader, writer, cancelled, listed>>

-----------------------------------------------------------------------------
(* The read loop.                                                          *)

Reading(k) == reader[k] = "reading" /\ <<k, "reader">> \notin cancelled

\* Variants for mutation: the client is forgotten and not closed; the end is only
\* logged, as it is for the adapter; the task does not cancel itself.
ReadEndUnclosed(k) ==
  /\ Reading(k)
  /\ wire[k] \in {"shut", "lost"}
  /\ clients' = clients \ {k}
  /\ Move(k, "done")
  /\ UNCHANGED <<wire, writer, cancelled, listed>>

ReadEndIgnored(k) ==
  /\ Reading(k)
  /\ wire[k] \in {"shut", "lost"}
  /\ Move(k, "done")
  /\ UNCHANGED <<clients, wire, writer, cancelled, listed>>

ReadEndUncancelled(k) ==
  /\ Reading(k)
  /\ wire[k] \in {"shut", "lost"}
  /\ clients' = clients \ {k}
  /\ IF k \in clients
     THEN cancelled' = cancelled \cup {<<k, "writer">>} /\ Move(k, "awaitsItself")
     ELSE UNCHANGED cancelled /\ Move(k, "done")
  /\ UNCHANGED <<wire, writer, listed>>

\* The stream ends.  For a client, _handle_client_disconnect forgets it and closes
\* it, which cancels the running task as well; for the adapter it is only logged.
ReadEnd(k) ==
  /\ Reading(k)
  /\ wire[k] \in {"shut", "lost"}
  /\ clients' = clients \ {k}
  /\ IF k \in clients
     THEN CancelTasks(k) /\ Move(k, "awaitsItself")
     ELSE UNCHANGED cancelled /\ Move(k, "done")
  /\ UNCHANGED <<wire, writer, listed>>

\* Any other exception ends the task, and nothing else.
ReadFails(k) ==
  /\ Reading(k)
  /\ k \in Unreadable
  /\ Move(k, "failed")
  /\ UNCHANGED <<clients, wire, writer, cancelled, listed>>

\* A task that awaits itself gets a RuntimeError, unless it was cancelled: then it
\* gets CancelledError in its place, and close goes on.
SelfAwaited(k) ==
  /\ reader[k] = "awaitsItself"
  /\ Move(k, IF <<k, "reader">> \in cancelled THEN "awaitsWriter" ELSE "failed")
  /\ cancelled' = cancelled \ {<<k, "reader">>}
  /\ UNCHANGED <<clients, wire, writer, listed>>

\* A cancellation, also one by the multiplexer's close meanwhile, is swallowed; what
\* the write loop failed of is raised here, and the transport is left as it is.
WriterAwaited(k) ==
  /\ reader[k] = "awaitsWriter"
  /\ \/ writer[k] = "done" /\ CloseWire(k) /\ Move(k, "awaitsWire")
     \/ writer[k] = "failed" /\ Move(k, "failed") /\ UNCHANGED <<wire, listed>>
  /\ cancelled' = cancelled \ {<<k, "reader">>}
  /\ UNCHANGED <<clients, writer>>

\* A cancellation that reaches the task here ends it as well.
WireAwaited(k) ==
  /\ reader[k] = "awaitsWire"
  /\ wire[k] = "lost" \/ <<k, "reader">> \in cancelled
  /\ Move(k, "done")
  /\ cancelled' = cancelled \ {<<k, "reader">>}
  /\ UNCHANGED <<clients, wire, writer, listed>>

ReadCancelled(k) ==
  /\ reader[k] = "reading"
  /\ <<k, "reader">> \in cancelled
  /\ cancelled' = cancelled \ {<<k, "reader">>}
  /\ Move(k, "done")
  /\ UNCHANGED <<clients, wire, writer, listed>>

-----------------------------------------------------------------------------
(* The write loop, which waits for a message or for the transport to drain. *)

\* Variant for mutation: the loop ends while the transport is still there.
WriteFailsEarly(k) ==
  /\ writer[k] = "running"
  /\ <<k, "writer">> \notin cancelled
  /\ wire[k] \in {"shut", "lost"}
  /\ writer' = [writer EXCEPT ![k] = "done"]
  /\ UNCHANGED <<clients, wire, reader, cancelled, listed>>

\* drain raises once the transport is lost, if there is something to write.
WriteFails(k) ==
  /\ writer[k] = "running"
  /\ <<k, "writer">> \notin cancelled
  /\ wire[k] = "lost"
  /\ writer' = [writer EXCEPT ![k] = "done"]
  /\ UNCHANGED <<clients, wire, reader, cancelled, listed>>

\* A message that cannot be encoded ends the task with an exception that nobody
\* catches; the transport stays as it is, and nobody is told.
WriteRaises(k) ==
  /\ writer[k] = "running"
  /\ <<k, "writer">> \notin cancelled
  /\ k \in Unencodable
  /\ writer' = [writer EXCEPT ![k] = "failed"]
  /\ UNCHANGED <<clients, wire, reader, cancelled, listed>>

WriteCancelled(k) ==
  /\ writer[k] = "running"
  /\ <<k, "writer">> \in cancelled
  /\ cancelled' = cancelled \ {<<k, "writer">>}
  /\ writer' = [writer EXCEPT ![k] = "done"]
  /\ UNCHANGED <<clients, wire, reader, listed>>

-----------------------------------------------------------------------------

PeerStep(k) == Shut(k) \/ Reset(k) \/ ReadFails(k) \/ WriteFails(k) \/ WriteRaises(k)

\* What the event loop gets done by itself.
LoopStep(k) ==
  \/ ReadEnd(k) \/ SelfAwaited(k) \/ WriterAwaited(k) \/ WireAwaited(k) \/ ReadCancelled(k)
  \/ WriteCancelled(k)
  \/ Flushed(k)

=============================================================================
