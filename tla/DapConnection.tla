--------------------------- MODULE DapConnection ---------------------------
(***************************************************************************)
(* The REPL's client of dap_mux/ipython_ext.py: class DapConnection, used  *)
(* by three kinds of threads.  The main thread runs the magics, one after  *)
(* another.  Each connection has a reader thread, which hands responses to *)
(* the threads that wait for them and handles events.  Each stop starts a  *)
(* thread that fetches the frame.                                          *)
(*                                                                         *)
(* A step is the code of one thread from one use of a shared field, lock,  *)
(* queue or socket to the next.  Sending a message and the reader thread's *)
(* receiving it are one step: the multiplexer sends in order, and may send *)
(* later what it could send before.  stopped_file and stopped_line are     *)
(* left out: they are printed as they are stored and used nowhere else.    *)
(***************************************************************************)
EXTENDS SequencesExt

CONSTANTS
  Main,         \* the main thread
  Fetchers,     \* the threads that fetch frames; each stop starts a new one
  MaxSockets,   \* bound on the connections the user opens
  MaxRequests   \* bound on the numbers taken: no magic starts that may exceed it,
                \* but on the first connection, where its first request must not

ASSUME ConnectionAssumption ==
  /\ MaxSockets \in Nat
  /\ MaxRequests \in Nat
  /\ IsFiniteSet(Fetchers)
  /\ Main \notin Fetchers
  /\ \A s \in 0..MaxSockets : s \notin Fetchers /\ s # Main

None == 0

Sockets == 1..MaxSockets       \* in the order they are opened
Readers == Sockets             \* the reader thread started with each of them
Callers == {Main} \cup Fetchers
Threads == Callers \cup Readers
Stops == 1..Cardinality(Fetchers)

\* "stackTraceSync" is the stackTrace request of %sync.
Commands == {"initialize", "attach", "configurationDone",
             "stackTrace", "threads", "stackTraceSync", "other"}

VARIABLES
  sock,       \* _sock: the socket, or None
  running,    \* _running
  reader,     \* _reader: the reader thread, or None
  nextSeq,    \* _seq
  sendLock,   \* who holds _send_lock, or None
  queues,     \* _response_queues: number -> the responses put there
  hasThread,  \* is current_thread_id set?
  frame,      \* current_frame_id: the stop whose frame it is, or None
  at,         \* where each thread is in its code
  script,     \* the requests a thread has still to send, the current first
  number,     \* seq in send_request
  place,      \* where on a wire its request was put
  fetched,    \* the frame that a thread got and has yet to store, or None
  opened,     \* how many sockets were opened
  closed,     \* the sockets closed on this side
  hungUp,     \* the sockets the multiplexer has closed
  wire,       \* the frames written to each socket
  stop,       \* the stop the debuggee is at, or None
  stops,      \* how many stops there were
  over        \* has the debuggee terminated?

view == <<hasThread, frame>>
session == <<stop, stops, over>>
link == <<sock, running, reader, opened, closed, hungUp>>
numbering == <<nextSeq, sendLock, queues, number, place, wire>>
vars == <<view, session, link, numbering, fetched, script, at>>

\* An answer is told apart by the request it is about, found at a place on a
\* wire; its frame is that of the stop the debuggee is at when it answers.
Answers == [about : Sockets \X Nat, frame : Stops \cup {None}]
NoAnswer == [about |-> <<None, 0>>, frame |-> None]

InCall == {"checked", "locked", "waiting"}
InConnect == {"opened", "timed", "enabled", "appointed"}
InDisconnect == {"disconnecting", "closing", "closed", "unlinked", "joining", "joined",
                 "forgotten", "threadless"}
InReadLoop == {"reading", "stopped", "continued"}   \* with an event in hand or none
Places == InCall \cup InConnect \cup InDisconnect \cup InReadLoop \cup
          {"unborn", "started", "ready", "synced", "fetched", "idle", "terminated", "dead"}

\* Once only the beginning of a frame was sent, neither it nor what follows it can
\* be read.
Frames == [seq : Nat, command : Commands, readable : BOOLEAN]

LinkTypeOK ==
  /\ sock \in Sockets \cup {None}
  /\ running \in BOOLEAN
  /\ reader \in Readers \cup {None}
  /\ opened \in 0..MaxSockets /\ closed \subseteq Sockets /\ hungUp \subseteq Sockets

NumberingTypeOK ==
  /\ nextSeq \in Nat \ {0}
  /\ sendLock \in Callers \cup {None}
  /\ DOMAIN queues \subseteq 1..nextSeq-1
  /\ \A n \in DOMAIN queues : queues[n] \in Seq(Answers)
  /\ number \in [Callers -> Nat]
  /\ place \in [Callers -> (Sockets \cup {None}) \X Nat]
  /\ wire \in [Sockets -> Seq(Frames)]

ViewTypeOK ==
  /\ hasThread \in BOOLEAN
  /\ frame \in Stops \cup {None}
  /\ stop \in Stops \cup {None} /\ stops \in Stops \cup {0} /\ over \in BOOLEAN

TypeOK ==
  /\ LinkTypeOK /\ NumberingTypeOK /\ ViewTypeOK
  /\ at \in [Threads -> Places]
  /\ script \in [Callers -> Seq(Commands)]
  /\ fetched \in [Callers -> Stops \cup {None}]

Init ==
  /\ sock = None /\ running = FALSE /\ reader = None
  /\ opened = 0 /\ closed = {} /\ hungUp = {}
  /\ nextSeq = 1 /\ sendLock = None /\ queues = [n \in {} |-> <<>>]
  /\ number = [t \in Callers |-> 0] /\ place = [t \in Callers |-> <<None, 0>>]
  /\ wire = [s \in Sockets |-> <<>>]
  /\ fetched = [t \in Callers |-> None] /\ script = [t \in Callers |-> <<>>]
  /\ hasThread = FALSE /\ frame = None
  /\ stop = None /\ stops = 0 /\ over = FALSE
  /\ at = [t \in Threads |-> IF t = Main THEN "idle" ELSE "unborn"]

Go(t, to) == at' = [at EXCEPT ![t] = to]

\* Where a thread is when it has finished or an exception has ended its code.
Rest(t) == IF t = Main THEN "idle" ELSE "dead"

-----------------------------------------------------------------------------
(* send_request, run by the main thread and by those that fetch frames.    *)

\* What the caller does with what it got.  A frame is stored, by %sync after its
\* thread.  Otherwise the next request follows, whether this one was answered or
\* not, except that %sync gives up without a list of threads.
Return(t, result) ==
  LET gaveUp == Head(script[t]) = "threads" /\ result = NoAnswer
      next == CASE result.frame = None -> IF Len(script[t]) = 1 \/ gaveUp THEN Rest(t) ELSE "ready"
                [] result.frame # None -> IF Head(script[t]) = "stackTraceSync" THEN "synced" ELSE "fetched"
  IN /\ fetched' = [fetched EXCEPT ![t] = result.frame]
     /\ script' = [script EXCEPT ![t] = IF gaveUp THEN <<>> ELSE Tail(@)]
     /\ Go(t, next)

Unregister(t) == queues' = Restrict(queues, DOMAIN queues \ {number[t]})

\* Is there a socket?
Check(t) ==
  /\ at[t] = "ready"
  /\ IF sock = None THEN Return(t, NoAnswer)
     ELSE Go(t, "checked") /\ UNCHANGED <<fetched, script>>
  /\ UNCHANGED <<view, session, link, numbering>>

\* Variants for mutation: the number is read after the counter was advanced; the
\* lock is released before the request is sent.
RegisterAfterAdvancing(t) ==
  /\ at[t] = "checked"
  /\ sendLock = None
  /\ sendLock' = t
  /\ nextSeq' = nextSeq + 1
  /\ number' = [number EXCEPT ![t] = nextSeq']
  /\ queues' = [n \in DOMAIN queues \cup {nextSeq'} |-> IF n = nextSeq' THEN <<>> ELSE queues[n]]
  /\ Go(t, "locked")
  /\ UNCHANGED <<view, session, link, place, wire, fetched, script>>

RegisterUnlocked(t) ==
  /\ at[t] = "checked"
  /\ number' = [number EXCEPT ![t] = nextSeq]
  /\ nextSeq' = nextSeq + 1
  /\ queues' = [n \in DOMAIN queues \cup {nextSeq} |-> IF n = nextSeq THEN <<>> ELSE queues[n]]
  /\ Go(t, "locked")
  /\ UNCHANGED <<view, session, link, sendLock, place, wire, fetched, script>>

\* Take the lock and a number, and register a queue under it.
Register(t) ==
  /\ at[t] = "checked"
  /\ sendLock = None
  /\ sendLock' = t
  /\ number' = [number EXCEPT ![t] = nextSeq]
  /\ nextSeq' = nextSeq + 1
  /\ queues' = [n \in DOMAIN queues \cup {nextSeq} |-> IF n = nextSeq THEN <<>> ELSE queues[n]]
  /\ Go(t, "locked")
  /\ UNCHANGED <<view, session, link, place, wire, fetched, script>>

\* What thread t sends reaches the other side, all of it or the beginning.
Write(t, whole) ==
  /\ sock \notin closed \cup {None}
  /\ wire' = [wire EXCEPT ![sock] =
                Append(@, [seq |-> number[t], command |-> Head(script[t]),
                           readable |-> whole /\ \A i \in DOMAIN @ : @[i].readable])]

\* sendall; a hang-up of the other side is noticed or not.
Transmit(t) ==
  /\ at[t] = "locked"
  /\ Write(t, TRUE)
  /\ place' = [place EXCEPT ![t] = <<sock, Len(wire[sock]) + 1>>]
  /\ sendLock' = None
  /\ Go(t, "waiting")
  /\ UNCHANGED <<view, session, link, nextSeq, queues, number, fetched, script>>

\* Variant for mutation: the early return leaves the lock taken.
TransmitFailsLocked(t) ==
  /\ at[t] = "locked"
  /\ sock # None
  /\ Write(t, FALSE) \/ UNCHANGED wire
  /\ Unregister(t)
  /\ Return(t, NoAnswer)
  /\ UNCHANGED <<view, session, link, nextSeq, sendLock, number, place>>

\* OSError: the socket is closed, the connection lost, or the send timed out, with
\* part of the frame sent or nothing of it.  The call gives up, the socket stays.
TransmitFails(t) ==
  /\ at[t] = "locked"
  /\ sock # None
  /\ Write(t, FALSE) \/ UNCHANGED wire
  /\ Unregister(t)
  /\ sendLock' = None
  /\ Return(t, NoAnswer)
  /\ UNCHANGED <<view, session, link, nextSeq, number, place>>

\* The socket was dropped since the check: None has no sendall.  The exception
\* passes the handler by; with releases the lock, the queue stays registered.
TransmitRaises(t) ==
  /\ at[t] = "locked"
  /\ sock = None
  /\ sendLock' = None
  /\ script' = [script EXCEPT ![t] = <<>>]
  /\ Go(t, Rest(t))
  /\ UNCHANGED <<view, session, link, nextSeq, queues, number, place, wire, fetched>>

Receive(t) ==
  /\ at[t] = "waiting"
  /\ queues[number[t]] # <<>>
  /\ Unregister(t)
  /\ Return(t, Head(queues[number[t]]))
  /\ UNCHANGED <<view, session, link, nextSeq, sendLock, number, place, wire>>

\* Variant for mutation: the number of a request that timed out is used again.
TimeOutReusesNumber(t) ==
  /\ at[t] = "waiting"
  /\ queues[number[t]] = <<>>
  /\ Unregister(t)
  /\ nextSeq' = IF nextSeq = number[t] + 1 THEN number[t] ELSE nextSeq
  /\ Return(t, NoAnswer)
  /\ UNCHANGED <<view, session, link, sendLock, number, place, wire>>

TimeOut(t) ==
  /\ at[t] = "waiting"
  /\ queues[number[t]] = <<>>
  /\ Unregister(t)
  /\ Return(t, NoAnswer)
  /\ UNCHANGED <<view, session, link, nextSeq, sendLock, number, place, wire>>

\* %sync sets the thread first.
StoreThread ==
  /\ at[Main] = "synced"
  /\ hasThread' = TRUE
  /\ Go(Main, "fetched")
  /\ UNCHANGED <<frame, session, link, numbering, fetched, script>>

\* In _auto_fetch_frame, %frame and %sync.
StoreFrame(t) ==
  /\ at[t] = "fetched"
  /\ frame' = fetched[t]
  /\ fetched' = [fetched EXCEPT ![t] = None]
  /\ Go(t, Rest(t))
  /\ UNCHANGED <<hasThread, session, link, numbering, script>>

\* _auto_fetch_frame starts.
StartFetch(f) ==
  /\ at[f] = "started"
  /\ script' = [script EXCEPT ![f] = IF hasThread THEN <<"stackTrace">> ELSE <<>>]
  /\ Go(f, IF hasThread THEN "ready" ELSE "dead")
  /\ UNCHANGED <<view, session, link, numbering, fetched>>

-----------------------------------------------------------------------------
(* disconnect, run by the main thread or by a reader thread.               *)

Leave(t) ==
  /\ running' = FALSE
  /\ Go(t, "disconnecting")
  /\ UNCHANGED <<sock, reader, opened, closed, hungUp>>

SocketChecked(t) ==
  /\ at[t] = "disconnecting"
  /\ Go(t, IF sock = None THEN "unlinked" ELSE "closing")
  /\ UNCHANGED <<view, session, link, numbering, fetched, script>>

\* If another thread has dropped the socket meanwhile, None has no close.
SocketClosed(t) ==
  /\ at[t] = "closing"
  /\ closed' = closed \cup ({sock} \ {None})
  /\ Go(t, IF sock = None THEN Rest(t) ELSE "closed")
  /\ UNCHANGED <<view, session, sock, running, reader, opened, hungUp, numbering, fetched, script>>

SocketDropped(t) ==
  /\ at[t] = "closed"
  /\ sock' = None
  /\ Go(t, "unlinked")
  /\ UNCHANGED <<view, session, running, reader, opened, closed, hungUp, numbering, fetched, script>>

ReaderChecked(t) ==
  /\ at[t] = "unlinked"
  /\ Go(t, IF reader \in {None, t} THEN "joined" ELSE "joining")
  /\ UNCHANGED <<view, session, link, numbering, fetched, script>>

\* join waits two seconds at most: it may give up at any time.  None has no join,
\* and a thread that was not started cannot be joined.
ReaderJoined(t) ==
  /\ at[t] = "joining"
  /\ Go(t, IF reader = None \/ at[reader] = "unborn" THEN Rest(t) ELSE "joined")
  /\ UNCHANGED <<view, session, link, numbering, fetched, script>>

ReaderForgotten(t) ==
  /\ at[t] = "joined"
  /\ reader' = None
  /\ Go(t, "forgotten")
  /\ UNCHANGED <<view, session, sock, running, opened, closed, hungUp, numbering, fetched, script>>

ThreadForgotten(t) ==
  /\ at[t] = "forgotten"
  /\ hasThread' = FALSE
  /\ Go(t, "threadless")
  /\ UNCHANGED <<frame, session, link, numbering, fetched, script>>

\* A reader thread goes back to its loop.
FrameForgotten(t) ==
  /\ at[t] = "threadless"
  /\ frame' = None
  /\ Go(t, IF t = Main THEN "idle" ELSE "reading")
  /\ UNCHANGED <<hasThread, session, link, numbering, fetched, script>>

-----------------------------------------------------------------------------
(* The reader thread: _read_loop and what it calls.                        *)

\* Reader k is in its loop and its socket, which is whatever _sock is, works.
Reads(k) == at[k] = "reading" /\ running /\ sock \notin closed \cup {None}

Hears(k) == Reads(k) /\ sock \notin hungUp

\* _dispatch_response.  The multiplexer answers a request that it can read, once; an
\* answer for which no queue is registered any more changes nothing.  The adapter
\* may refuse, or have no frame that was asked for.
ReadResponse(k) ==
  /\ Hears(k)
  /\ \E i \in DOMAIN wire[sock] :
       LET request == wire[sock][i]
           frames == IF request.command \in {"stackTrace", "stackTraceSync"} THEN {stop} ELSE {}
       IN /\ request.readable
          /\ request.seq \in DOMAIN queues
          /\ queues[request.seq] = <<>>
          /\ \E f \in frames \cup {None} :
               queues' = [queues EXCEPT ![request.seq] =
                            Append(@, [about |-> <<sock, i>>, frame |-> f])]
  /\ UNCHANGED <<view, session, link, nextSeq, sendLock, number, place, wire, fetched, script, at>>

\* A stop, or the current one once more, as late joiners get it.  Fetchers bound
\* the stops that are handled.
ReadStopped(k) ==
  /\ Hears(k)
  /\ ~over
  /\ Cardinality({r \in Readers : at[r] = "stopped"}) < Cardinality({f \in Fetchers : at[f] = "unborn"})
  /\ \/ stops + 1 \in Stops /\ stops' = stops + 1 /\ stop' = stops + 1
     \/ stop # None /\ UNCHANGED <<stop, stops>>
  /\ Go(k, "stopped")
  /\ UNCHANGED <<view, over, link, numbering, fetched, script>>

HandleStopped(k) ==
  /\ at[k] = "stopped"
  /\ hasThread' = TRUE
  /\ \E f \in Fetchers : at[f] = "unborn" /\ at' = [at EXCEPT ![k] = "reading", ![f] = "started"]
  /\ UNCHANGED <<frame, session, link, numbering, fetched, script>>

ReadContinued(k) ==
  /\ Hears(k)
  /\ stop # None
  /\ stop' = None
  /\ Go(k, "continued")
  /\ UNCHANGED <<view, stops, over, link, numbering, fetched, script>>

HandleContinued(k) ==
  /\ at[k] = "continued"
  /\ frame' = None
  /\ Go(k, "reading")
  /\ UNCHANGED <<hasThread, session, link, numbering, fetched, script>>

ReadTerminated(k) ==
  /\ Hears(k)
  /\ ~over
  /\ over' = TRUE
  /\ stop' = None
  /\ Go(k, "terminated")
  /\ UNCHANGED <<view, stops, link, numbering, fetched, script>>

\* Whatever the connection is by now.
HandleTerminated(k) ==
  /\ at[k] = "terminated"
  /\ Leave(k)
  /\ UNCHANGED <<view, session, numbering, fetched, script>>

\* End of the stream; _sock stays.
ReadEnd(k) ==
  /\ Reads(k)
  /\ hungUp' = hungUp \cup {sock}
  /\ Go(k, "dead")
  /\ UNCHANGED <<view, session, sock, running, reader, opened, closed, numbering, fetched, script>>

ReaderStops(k) ==
  /\ at[k] = "reading"
  /\ ~Reads(k)
  /\ Go(k, "dead")
  /\ UNCHANGED <<view, session, link, numbering, fetched, script>>

-----------------------------------------------------------------------------
(* The magics, on the main thread.                                         *)

Affordable(requests) ==
  \/ nextSeq + Len(requests) <= MaxRequests + 1
  \/ opened = 1 /\ nextSeq <= MaxRequests

\* %connect, refused while connected.  The reader thread of an earlier connection
\* may still be in disconnect, here and in the steps that follow.
Connect ==
  /\ at[Main] = "idle"
  /\ sock = None
  /\ opened < MaxSockets
  /\ Affordable(<<"initialize">>)
  /\ opened' = opened + 1
  /\ sock' = opened'
  /\ Go(Main, "opened")
  /\ UNCHANGED <<view, session, running, reader, closed, hungUp, numbering, fetched, script>>

\* settimeout raises if the socket was closed, or dropped, meanwhile.
SetTimeout ==
  /\ at[Main] = "opened"
  /\ Go(Main, IF sock \in closed \cup {None} THEN "idle" ELSE "timed")
  /\ UNCHANGED <<view, session, link, numbering, fetched, script>>

\* Variant for mutation: the flag that ended the last reader is not set again.
SetRunningOnce ==
  /\ at[Main] = "timed"
  /\ running' = (running \/ opened = 1)
  /\ Go(Main, "enabled")
  /\ UNCHANGED <<view, session, sock, reader, opened, closed, hungUp, numbering, fetched, script>>

SetRunning ==
  /\ at[Main] = "timed"
  /\ running' = TRUE
  /\ Go(Main, "enabled")
  /\ UNCHANGED <<view, session, sock, reader, opened, closed, hungUp, numbering, fetched, script>>

SetReader ==
  /\ at[Main] = "enabled"
  /\ reader' = opened
  /\ Go(Main, "appointed")
  /\ UNCHANGED <<view, session, sock, running, opened, closed, hungUp, numbering, fetched, script>>

\* If the reader was forgotten meanwhile, None has no start.  Then the handshake,
\* with or without --stop-on-entry.
StartReader ==
  /\ at[Main] = "appointed"
  /\ \/ /\ reader = None
        /\ Go(Main, "idle")
        /\ UNCHANGED script
     \/ /\ reader # None
        /\ at' = [at EXCEPT ![Main] = "ready", ![reader] = "reading"]
        /\ \E requests \in {<<"initialize">>, <<"initialize", "attach", "configurationDone">>} :
             /\ Len(requests) > 1 => Affordable(requests)
             /\ script' = [script EXCEPT ![Main] = requests]
  /\ UNCHANGED <<view, session, link, numbering, fetched>>

\* %disconnect
Disconnect ==
  /\ at[Main] = "idle"
  /\ sock # None
  /\ Leave(Main)
  /\ UNCHANGED <<view, session, numbering, fetched, script>>

\* %frame, refused without a thread, asks for the stack and stores a frame; %bt,
\* %eval, %break, %clear, %step, %next, %continue_ and %finish send one request
\* and store nothing; %sync asks for the threads, then for a stack.
UseMagic ==
  /\ at[Main] = "idle"
  /\ \E requests \in {<<"stackTrace">>, <<"other">>, <<"threads", "stackTraceSync">>} :
       /\ Affordable(requests)
       /\ requests = <<"stackTrace">> => hasThread
       /\ requests = <<"threads", "stackTraceSync">> => sock # None
       /\ script' = [script EXCEPT ![Main] = requests]
  /\ Go(Main, "ready")
  /\ UNCHANGED <<view, session, link, numbering, fetched>>

-----------------------------------------------------------------------------

CallerStep(t) ==
  \/ Check(t) \/ Register(t)
  \/ Transmit(t) \/ TransmitFails(t) \/ TransmitRaises(t)
  \/ Receive(t) \/ TimeOut(t)
  \/ StoreFrame(t)

DisconnectStep(t) ==
  \/ SocketChecked(t) \/ SocketClosed(t) \/ SocketDropped(t)
  \/ ReaderChecked(t) \/ ReaderJoined(t)
  \/ ReaderForgotten(t) \/ ThreadForgotten(t) \/ FrameForgotten(t)

ReaderStep(k) ==
  \/ ReadResponse(k) \/ ReadStopped(k) \/ ReadContinued(k) \/ ReadTerminated(k)
  \/ HandleStopped(k) \/ HandleContinued(k) \/ HandleTerminated(k)
  \/ ReadEnd(k) \/ ReaderStops(k)

ConnectStep == Connect \/ SetTimeout \/ SetRunning \/ SetReader \/ StartReader

Next ==
  \/ \E t \in Callers : CallerStep(t)
  \/ \E f \in Fetchers : StartFetch(f)
  \/ \E t \in {Main} \cup Readers : DisconnectStep(t)
  \/ \E k \in Readers : ReaderStep(k)
  \/ ConnectStep
  \/ Disconnect \/ UseMagic \/ StoreThread

Spec == Init /\ [][Next]_vars

\* Every thread that runs send_request is scheduled, and its wait times out.
FairSpec == Spec /\ \A t \in Callers : WF_vars(CallerStep(t))

-----------------------------------------------------------------------------
(* What must hold.                                                         *)

\* send_request returns the response to its own request or none: late answers,
\* and those meant for other threads or for an earlier connection, never come
\* through (ipython_ext.py:113-144, 194-197).
AnswersAreOwn ==
  [][\A t \in Callers : Receive(t) => Head(queues[number[t]]).about = place[t]]_vars

\* Requests stand on a wire in the order of their numbers, whichever threads send
\* at the same time and whatever sends fail half-way (ipython_ext.py:114-134).
WireIsOrdered ==
  \A s \in Sockets : \A i, j \in DOMAIN wire[s] : i < j => wire[s][i].seq < wire[s][j].seq

\* The reader that %connect has started goes on reading its socket for as long as
\* it is the connection's and works, through earlier readers' late disconnects and
\* reconnections, unless somebody disconnects or is about to.  (A %connect that was
\* made to raise leaves a socket whose reader was not started.)
\* ipython_ext.py:64-68, 86-95, 149.
ConnectedIsRead ==
  /\ sock \notin closed \cup hungUp \cup {None}
  /\ at[sock] # "unborn"
  /\ \A t \in {Main} \cup Readers : at[t] \notin InDisconnect \cup {"terminated"}
  => running /\ at[sock] \in InReadLoop

\* When every thread rests, the frame that %eval would evaluate in is one of the
\* stop the debuggee is at (README.md:298).
FrameIsCurrent ==
  (\A t \in Threads : at[t] \in {"unborn", "idle", "reading", "dead"}) /\ frame # None
    => frame = stop

-----------------------------------------------------------------------------
(* What must happen.                                                       *)

\* Every call of send_request returns, whatever else fails: nobody keeps the
\* lock (ipython_ext.py:114, 130-139).
CallsReturn == \A t \in Callers : at[t] \in InCall ~> at[t] \notin InCall

=============================================================================
