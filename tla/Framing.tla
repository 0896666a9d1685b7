------------------------------ MODULE Framing ------------------------------
(***************************************************************************)
(* The framing of messages on a byte stream: read_message and              *)
(* encode_message of dap_mux/protocol.py, and the parser that the REPL's   *)
(* reader thread has of its own in dap_mux/ipython_ext.py.                 *)
(*                                                                         *)
(* A peer writes frames and closes its side, perhaps within one.  One of   *)
(* the two parsers reads them, in pieces of any size.                      *)
(*                                                                         *)
(* A byte is a record.  "Content-Length: n" is one byte here: nobody looks *)
(* at a header before it is complete.  In a body, "{" is what makes it     *)
(* JSON and "a" any other character, of which "e" has two bytes in UTF-8.  *)
(***************************************************************************)
EXTENDS Integers, SequencesExt, FiniteSetsExt

CONSTANTS
  MaxFrames,  \* bound on the frames of a stream
  MaxChars    \* bound on the characters of a message

ASSUME FramingAssumption == MaxFrames \in Nat /\ MaxChars \in Nat

Byte(is) == [is |-> is, value |-> 0]
ContentLength(n) == [is |-> "Content-Length", value |-> n]
Separator == <<Byte("CR"), Byte("LF"), Byte("CR"), Byte("LF")>>

NoLength == -1

VARIABLES
  frames,  \* what the peer writes
  stream,  \* the bytes of it before it closes
  parser,  \* who reads them, "mux" or "repl"
  taken,   \* how many bytes were taken from the stream
  buf,     \* buf: those that are not used yet
  length,  \* content_length of read_message while it waits for a body
  state,   \* "reading", "cutting" (the REPL's inner loop), "closed" or "failed"
  got      \* the bodies of the messages passed on

input == <<frames, stream, parser>>
vars == <<input, taken, buf, length, state, got>>

Kinds == {"Content-Length", "field", "unreadable", "{", "a", "e1", "e2", "CR", "LF"}
Bytes == [is : Kinds, value : Nat]
BodyBytes == [is : Kinds, value : {0}]

TypeOK ==
  /\ frames \in Seq([lines : Seq(Bytes), body : Seq(BodyBytes)])
  /\ stream \in Seq(Bytes)
  /\ parser \in {"mux", "repl"}
  /\ taken \in 0..Len(stream)
  /\ buf \in Seq(Bytes)
  /\ length \in Nat \cup {NoLength}
  /\ state \in {"reading", "cutting", "closed", "failed"}
  /\ got \in Seq(Seq(BodyBytes))

-----------------------------------------------------------------------------
(* What is written.                                                        *)

\* encode_message, which never writes a line break into the body.
EncodeMessage(message) ==
  LET utf8(c) == IF c = "e" THEN <<Byte("e1"), Byte("e2")>> ELSE <<Byte(c)>>
      body == FlattenSeq([i \in DOMAIN message |-> utf8(message[i])])
  IN [lines |-> <<ContentLength(Len(body))>>, body |-> body]

\* An adapter or an editor may also add header fields, lay out its JSON, forget
\* the length, or write what is no JSON, no number, no ASCII or no UTF-8.
ForeignFrames ==
  LET laidOut == <<Byte("{")>> \o Separator \o <<Byte("a")>>
  IN {[lines |-> <<Byte("field"), ContentLength(Len(laidOut)), Byte("field")>>, body |-> laidOut],
      [lines |-> <<Byte("field")>>, body |-> <<>>],
      [lines |-> <<ContentLength(1)>>, body |-> <<Byte("a")>>],
      [lines |-> <<ContentLength(2)>>, body |-> <<Byte("{"), Byte("unreadable")>>],
      [lines |-> <<Byte("unreadable")>>, body |-> <<>>]}

Messages == {<<"{">> \o rest : rest \in BoundedSeq({"a", "e"}, MaxChars)}

Frames == {EncodeMessage(m) : m \in Messages} \cup ForeignFrames

\* Header lines end with CR LF, and the header with an empty one.
Header(lines) ==
  FlattenSeq([i \in DOMAIN lines |-> <<lines[i], Byte("CR"), Byte("LF")>>])
    \o <<Byte("CR"), Byte("LF")>>

Written(fs) == FlattenSeq([i \in DOMAIN fs |-> Header(fs[i].lines) \o fs[i].body])

-----------------------------------------------------------------------------
(* Parts of both parsers.                                                  *)

\* Where in a buffer a header ends, if one does.
HeaderEnds(bytes) ==
  {i \in 4..Len(bytes) : SubSeq(bytes, i - 3, i) = Separator}

\* Decoding the bytes, or taking the number, raises an exception.
Unreadable(bytes) == Byte("unreadable") \in Range(bytes)

\* The first line of the header that is a length.
DecodeHeader(header) ==
  LET starts == {i \in DOMAIN header :
                   /\ header[i].is = "Content-Length"
                   /\ i = 1 \/ header[i-1] = Byte("LF")}
  IN IF starts = {} THEN NoLength ELSE header[Min(starts)].value

IsJson(body) == Byte("{") \in Range(body) /\ ~Unreadable(body)

Init ==
  /\ frames \in BoundedSeq(Frames, MaxFrames)
  /\ \E cut \in 0..Len(Written(frames)) : stream = SubSeq(Written(frames), 1, cut)
  /\ parser \in {"mux", "repl"}
  /\ taken = 0 /\ buf = <<>> /\ length = NoLength
  /\ state = "reading" /\ got = <<>>

-----------------------------------------------------------------------------
(* read_message, called again and again by a read loop.                    *)

\* read(1), and decode_header once the separator is there.
ReadByte ==
  /\ parser = "mux" /\ state = "reading" /\ length = NoLength
  /\ taken < Len(stream)
  /\ taken' = taken + 1
  /\ LET bytes == Append(buf, stream[taken + 1])
         missing == Unreadable(bytes) \/ DecodeHeader(bytes) = NoLength
     IN IF HeaderEnds(bytes) = {}
        THEN buf' = bytes /\ UNCHANGED <<length, state>>
        ELSE /\ buf' = <<>>
             /\ length' = IF missing THEN NoLength ELSE DecodeHeader(bytes)
             /\ state' = IF missing THEN "failed" ELSE state
  /\ UNCHANGED <<input, got>>

\* Variant for mutation: the body is not awaited.
ReadBodyAtOnce ==
  /\ parser = "mux" /\ state = "reading" /\ length # NoLength
  /\ taken' = taken + length
  /\ length' = NoLength
  /\ LET body == SubSeq(stream, taken + 1, Min({taken + length, Len(stream)}))
     IN IF IsJson(body) THEN got' = Append(got, body) /\ UNCHANGED state
                        ELSE state' = "failed" /\ UNCHANGED got
  /\ UNCHANGED <<input, buf>>

\* readexactly and decode_body.
ReadBody ==
  /\ parser = "mux" /\ state = "reading" /\ length # NoLength
  /\ taken + length <= Len(stream)
  /\ taken' = taken + length
  /\ length' = NoLength
  /\ LET body == SubSeq(stream, taken + 1, taken + length)
     IN IF IsJson(body) THEN got' = Append(got, body) /\ UNCHANGED state
                        ELSE state' = "failed" /\ UNCHANGED got
  /\ UNCHANGED <<input, buf>>

\* Variant for mutation: what there is of a body is decoded.
ReadShortBody ==
  /\ parser = "mux" /\ state = "reading"
  /\ Len(stream) < taken + (IF length = NoLength THEN 1 ELSE length)
  /\ taken' = Len(stream)
  /\ state' = IF length = NoLength \/ IsJson(SubSeq(stream, taken + 1, Len(stream)))
              THEN "closed" ELSE "failed"
  /\ UNCHANGED <<input, buf, length, got>>

\* The stream ends in a header (ConnectionError) or a body (IncompleteReadError).
ReadEof ==
  /\ parser = "mux" /\ state = "reading"
  /\ Len(stream) < taken + (IF length = NoLength THEN 1 ELSE length)
  /\ taken' = Len(stream)
  /\ state' = "closed"
  /\ UNCHANGED <<input, buf, length, got>>

-----------------------------------------------------------------------------
(* The REPL's parser, DapConnection._read_loop.                            *)

\* A piece of any size, whatever was written at once.
Recv ==
  /\ parser = "repl" /\ state = "reading"
  /\ \E n \in taken + 1..Len(stream) :
       /\ buf' = buf \o SubSeq(stream, taken + 1, n)
       /\ taken' = n
  /\ state' = "cutting"
  /\ UNCHANGED <<input, length, got>>

RecvEof ==
  /\ parser = "repl" /\ state = "reading"
  /\ taken = Len(stream)
  /\ state' = "closed"
  /\ UNCHANGED <<input, taken, buf, length, got>>

\* The buffer holds no complete message.
NothingToCut ==
  /\ parser = "repl" /\ state = "cutting"
  /\ HeaderEnds(buf) # {} =>
       LET end == Min(HeaderEnds(buf))
           header == SubSeq(buf, 1, end)
       IN ~Unreadable(header) /\ end + DecodeHeader(header) > Len(buf)
  /\ state' = "reading"
  /\ UNCHANGED <<input, taken, buf, length, got>>

\* Variant for mutation: the header is not removed from the buffer.
CutHeaderAgain ==
  /\ parser = "repl" /\ state = "cutting"
  /\ HeaderEnds(buf) # {}
  /\ Unreadable(SubSeq(buf, 1, Min(HeaderEnds(buf))))
  /\ state' = "failed"
  /\ UNCHANGED <<input, taken, buf, length, got>>

\* A header without a length is skipped; one that is not readable ends the thread.
CutHeader ==
  /\ parser = "repl" /\ state = "cutting"
  /\ HeaderEnds(buf) # {}
  /\ LET end == Min(HeaderEnds(buf))
         header == SubSeq(buf, 1, end)
     IN IF Unreadable(header)
        THEN state' = "failed" /\ UNCHANGED buf
        ELSE /\ DecodeHeader(header) = NoLength
             /\ buf' = SubSeq(buf, end + 1, Len(buf))
             /\ UNCHANGED state
  /\ UNCHANGED <<input, taken, length, got>>

\* Variant for mutation: one message is cut out per recv.
CutOneMessage ==
  /\ parser = "repl" /\ state = "cutting"
  /\ HeaderEnds(buf) # {}
  /\ LET end == Min(HeaderEnds(buf))
         header == SubSeq(buf, 1, end)
         total == end + DecodeHeader(header)
         body == SubSeq(buf, end + 1, total)
     IN /\ ~Unreadable(header) /\ DecodeHeader(header) # NoLength
        /\ total <= Len(buf)
        /\ buf' = SubSeq(buf, total + 1, Len(buf))
        /\ got' = IF IsJson(body) THEN Append(got, body) ELSE got
  /\ state' = "reading"
  /\ UNCHANGED <<input, taken, length>>

\* Variant for mutation: the message is not removed from the buffer.
CutMessageAgain ==
  /\ parser = "repl" /\ state = "cutting"
  /\ HeaderEnds(buf) # {}
  /\ LET end == Min(HeaderEnds(buf))
         header == SubSeq(buf, 1, end)
         total == end + DecodeHeader(header)
         body == SubSeq(buf, end + 1, total)
     IN /\ ~Unreadable(header) /\ DecodeHeader(header) # NoLength
        /\ total <= Len(buf)
        /\ got' = IF IsJson(body) THEN Append(got, body) ELSE got
        /\ state' = IF Unreadable(body) THEN "failed" ELSE state
  /\ UNCHANGED <<input, taken, buf, length>>

\* A whole message is passed on, if it is JSON; bytes that are no text end the
\* thread.
CutMessage ==
  /\ parser = "repl" /\ state = "cutting"
  /\ HeaderEnds(buf) # {}
  /\ LET end == Min(HeaderEnds(buf))
         header == SubSeq(buf, 1, end)
         total == end + DecodeHeader(header)
         body == SubSeq(buf, end + 1, total)
     IN /\ ~Unreadable(header) /\ DecodeHeader(header) # NoLength
        /\ total <= Len(buf)
        /\ buf' = SubSeq(buf, total + 1, Len(buf))
        /\ got' = IF IsJson(body) THEN Append(got, body) ELSE got
        /\ state' = IF Unreadable(body) THEN "failed" ELSE state
  /\ UNCHANGED <<input, taken, length>>

-----------------------------------------------------------------------------

Next ==
  \/ ReadByte \/ ReadBody \/ ReadEof
  \/ Recv \/ RecvEof \/ NothingToCut \/ CutHeader \/ CutMessage

Spec == Init /\ [][Next]_vars

\* The parsers run as long as there is something to read.
FairSpec == Spec /\ WF_vars(Next)

-----------------------------------------------------------------------------
(* What must hold.                                                         *)

IsMessage(frame) ==
  /\ IsJson(frame.body)
  /\ \E i \in DOMAIN frame.lines : frame.lines[i] = ContentLength(Len(frame.body))

\* The frames of which all, or only the header, is among the first n bytes.
FramesWithin(n) ==
  {i \in DOMAIN frames : Len(Written(SubSeq(frames, 1, i))) <= n}
HeadersWithin(n) ==
  {i \in DOMAIN frames :
     Len(Written(SubSeq(frames, 1, i - 1))) + Len(Header(frames[i].lines)) <= n}

\* The messages among the first k frames.
MessagesOf(k) ==
  FlattenSeq([i \in 1..k |-> IF IsMessage(frames[i]) THEN <<frames[i].body>> ELSE <<>>])

Bodies(n) == MessagesOf(Cardinality(FramesWithin(n)))

\* However the bytes are cut into pieces, the parsers pass on each message once,
\* whole and in order, as soon as its last byte is there (protocol.py:163-206,
\* ipython_ext.py:146-187).
WholeMessages ==
  /\ parser = "mux" \/ state \in {"reading", "closed"} => got = Bodies(taken)
  /\ IsPrefix(got, Bodies(taken))

\* A stream that ends anywhere is a disconnection; a read loop fails on a frame
\* that it cannot read and nothing else (protocol.py:167, client.py:96).
TruncationIsNoFailure ==
  state = "failed" =>
    \E i \in HeadersWithin(taken) :
      IF parser = "mux" THEN ~IsMessage(frames[i])
                        ELSE Unreadable(frames[i].lines) \/ Unreadable(frames[i].body)

Wire == INSTANCE Channel WITH
  sent      <- Bodies(Len(stream)),
  delivered <- got,
  status    <- IF state \in {"closed", "failed"} THEN state ELSE "open"

\* Every step of a parser is one of the simple queue of messages that the rest of
\* the program relies on: it delivers the next message, finds the end when there
\* is no further one, fails, or nobody sees it (protocol.py:163-206,
\* ipython_ext.py:146-187).
CarriesMessages == Wire!ChannelSpec

\* What is left to do: bytes to take from the stream and out of the buffer, a
\* body to read, a buffer to cut, an end to notice.
Left ==
  3 * (Len(stream) - taken) + Len(buf) + (IF length = NoLength THEN 0 ELSE 1)
    + CASE state = "cutting" -> 2 [] state = "reading" -> 1 [] OTHER -> 0

\* Neither loop goes round without getting on, whatever the bytes are: a header
\* without a length and a body that is no JSON are used up as well, or are the end
\* (protocol.py:163-206, ipython_ext.py:156-182).
EveryStepCounts == [][Left' < Left]_vars

\* A parser comes to the end of every stream, or fails: neither loop spins.
ParsersFinish == <>(state \in {"closed", "failed"})

=============================================================================
