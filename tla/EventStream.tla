----------------------------- MODULE EventStream -----------------------------
(***************************************************************************)
(* The translation of a Bedrock event stream into server-sent events       *)
(* (translate_bedrock_eventstream, decode_bedrock_frame and                *)
(* decode_bedrock_headers in src/src/providers.rs).                        *)
(*                                                                         *)
(* The upstream body arrives in chunks cut anywhere.  The translator       *)
(* appends them to a buffer, splits off frames as soon as they are whole,  *)
(* reads a frame's headers with a cursor, and yields one item per frame.   *)
(* The first thing that does not decode ends the stream with an error.     *)
(*                                                                         *)
(* Abstractions.  A frame is                                               *)
(*     total length, headers length, headers, payload, checksum            *)
(* with fields of 2, 1 and 1 bytes in place of 4, 4 and 4; the checksum    *)
(* byte says whether both checksums match.  A value's length is 1 byte in  *)
(* place of 2.  A name or value the code compares with is a single byte.   *)
(* A payload is one byte that says whether it unwraps to an event.         *)
(***************************************************************************)
EXTENDS Naturals, Sequences

CONSTANTS
    Streams,      \* what the upstream may send
    ChunkSizes,   \* how many bytes may arrive at once
    MaxFrame,     \* BEDROCK_MAX_FRAME_BYTES
    MaxHeaders    \* BEDROCK_MAX_HEADERS_BYTES

VARIABLES
    upstream,   \* the bytes of this stream
    received,   \* how many of them have arrived
    input,      \* "open", "ended", or "broken" by a transport error
    buffer, frame, cursor, headers, output, pc

vars == <<upstream, received, input, buffer, frame, cursor, headers, output,
          pc>>

Byte == 0 .. 255

LengthBytes == 2

\* Bytes of a frame besides headers and payload.
MinFrame == 4

ASSUME StreamAssumption ==
    /\ Streams \subseteq Seq(Byte)
    /\ ChunkSizes \subseteq Nat
    /\ MaxFrame \in Nat /\ MaxFrame >= MinFrame
    /\ MaxHeaders \in Nat

\* Names that start with a colon, the values they are compared with, a
\* payload that unwraps, bytes that are no text, and a matching checksum.
MessageType == 31
EventType == 32
ExceptionType == 33
ErrorCode == 34
Pseudo == {MessageType, EventType, ExceptionType, ErrorCode}
Event == 41
Chunk == 42
Exception == 43
Error == 44
Unwraps == 51
NotText == 255
Matches == 1

total_length(bytes) == bytes[1] * 256 + bytes[2]

headers_length(f) == f[3]

\* The header section of a frame, and its payload.
Section(f) == SubSeq(f, LengthBytes + 2, LengthBytes + 1 + headers_length(f))

Payload(f) == SubSeq(f, LengthBytes + 2 + headers_length(f), Len(f) - 1)

\* The checks of decode_bedrock_frame before it looks at the headers.
Intact(f) ==
    /\ headers_length(f) <= MaxHeaders
    /\ headers_length(f) <= Len(f) - MinFrame
    /\ f[Len(f)] = Matches
-----------------------------------------------------------------------------
(***************************************************************************)
(* One header: the length of its name, the name, the type of its value,    *)
(* the value.  c bytes of the section s come before it.                    *)
(***************************************************************************)
\* Types whose values have a fixed length.
Width == [t \in {0, 1, 2, 3, 4, 5, 8, 9} |->
            CASE t \in {0, 1} -> 0
              [] t = 2 -> 1
              [] t = 3 -> 2
              [] t = 4 -> 4
              [] t \in {5, 8} -> 8
              [] t = 9 -> 16]

ByteArray == 6
String == 7

TooFar(s) == Len(s) + 1

\* Where a value of type t ends that begins after c bytes.
ValueEnd(s, c, t) ==
    IF t \in DOMAIN Width THEN c + Width[t]
    ELSE IF t \in {ByteArray, String} /\ c + 1 <= Len(s) THEN c + 1 + s[c + 1]
    ELSE TooFar(s)

NameEnd(s, c) == c + 1 + s[c + 1]

ValueType(s, c) == s[NameEnd(s, c) + 1]

\* Where the header ends; past the section if it does not fit.
EntryEnd(s, c) ==
    IF s[c + 1] = 0 \/ NameEnd(s, c) + 1 > Len(s)
    THEN TooFar(s)
    ELSE ValueEnd(s, NameEnd(s, c) + 1, ValueType(s, c))

Name(s, c) == SubSeq(s, c + 2, NameEnd(s, c))

\* The value of a string header.
Value(s, c) == SubSeq(s, NameEnd(s, c) + 3, EntryEnd(s, c))

IsText(bytes) == \A i \in DOMAIN bytes : bytes[i] # NotText

IsPseudo(name) == name[1] \in Pseudo

\* What a header that fits must satisfy, given those read before it.
Acceptable(s, c) ==
    /\ IsText(Name(s, c))
    /\ ValueType(s, c) = String => IsText(Value(s, c))
    /\ IsPseudo(Name(s, c)) =>
        ValueType(s, c) = String /\ Name(s, c) \notin DOMAIN headers

\* Mutant: a value of fixed length is not checked to fit.
EntryOkUnchecked(s, c) ==
    /\ \/ EntryEnd(s, c) <= Len(s)
       \/ /\ s[c + 1] # 0 /\ NameEnd(s, c) < Len(s)
          /\ ValueType(s, c) \in DOMAIN Width
    /\ Acceptable(s, c)

EntryOk(s, c) == EntryEnd(s, c) <= Len(s) /\ Acceptable(s, c)

NoHeaders == [n \in {} |-> <<>>]

WithHeader(s, c) ==
    [n \in DOMAIN headers \cup {Name(s, c)} |->
        IF n = Name(s, c) THEN Value(s, c) ELSE headers[n]]

\* What a frame with the headers h yields: one item, or none if it does not
\* decode.
Decoded(f, h) ==
    LET has(name) == <<name>> \in DOMAIN h
        is(name, value) == has(name) /\ h[<<name>>] = <<value>>
    IN  {[item |-> "exception", data |-> <<>>] : x \in {y \in {1} :
            /\ is(MessageType, Exception) \/ is(MessageType, Error)
            /\ has(EventType) \/ has(ExceptionType) \/ has(ErrorCode)}}
        \cup
        {[item |-> "event", data |-> Payload(f)] : x \in {y \in {1} :
            /\ is(MessageType, Event) /\ is(EventType, Chunk)
            /\ Payload(f) = <<Unwraps>>}}

Failure == [item |-> "error", data |-> <<>>]
-----------------------------------------------------------------------------
Init ==
    /\ upstream \in Streams
    /\ received = 0
    /\ input = "open"
    /\ buffer = <<>>
    /\ frame = <<>>
    /\ cursor = 0
    /\ headers = NoHeaders
    /\ output = <<>>
    /\ pc = "frames"

\* An error is yielded and the stream ends.
Fail == output' = Append(output, Failure) /\ pc' = "done"

\* Mutant: a frame is split off only when a byte of the next has arrived.
WholeFrameLate ==
    Len(buffer) >= LengthBytes /\ Len(buffer) > total_length(buffer)

WholeFrame ==
    Len(buffer) >= LengthBytes /\ Len(buffer) >= total_length(buffer)

ValidLength ==
    Len(buffer) >= LengthBytes => total_length(buffer) \in MinFrame .. MaxFrame

InvalidLength ==
    /\ pc = "frames"
    /\ ~ ValidLength
    /\ Fail
    /\ UNCHANGED <<upstream, received, input, buffer, frame, cursor, headers>>

\* Mutant: the buffer is emptied with the frame.
SplitFrameClearing ==
    /\ pc = "frames"
    /\ ValidLength /\ WholeFrame
    /\ LET f == SubSeq(buffer, 1, total_length(buffer))
       IN  /\ buffer' = <<>>
           /\ frame' = f
           /\ IF Intact(f) THEN pc' = "headers" /\ UNCHANGED output ELSE Fail
    /\ cursor' = 0
    /\ headers' = NoHeaders
    /\ UNCHANGED <<upstream, received, input>>

SplitFrame ==
    /\ pc = "frames"
    /\ ValidLength /\ WholeFrame
    /\ LET f == SubSeq(buffer, 1, total_length(buffer))
       IN  /\ buffer' = SubSeq(buffer, total_length(buffer) + 1, Len(buffer))
           /\ frame' = f
           /\ IF Intact(f) THEN pc' = "headers" /\ UNCHANGED output ELSE Fail
    /\ cursor' = 0
    /\ headers' = NoHeaders
    /\ UNCHANGED <<upstream, received, input>>

\* Mutant: a value without bytes does not move the cursor.
DecodeHeaderStuck ==
    LET s == Section(frame)
    IN  /\ pc = "headers"
        /\ cursor < Len(s)
        /\ IF EntryOk(s, cursor)
           THEN /\ cursor' = IF ValueType(s, cursor) \in {0, 1} THEN cursor
                             ELSE EntryEnd(s, cursor)
                /\ headers' = IF IsPseudo(Name(s, cursor))
                              THEN WithHeader(s, cursor) ELSE headers
                /\ UNCHANGED <<output, pc>>
           ELSE Fail /\ UNCHANGED <<cursor, headers>>
        /\ UNCHANGED <<upstream, received, input, buffer, frame>>

DecodeHeader ==
    LET s == Section(frame)
    IN  /\ pc = "headers"
        /\ cursor < Len(s)
        /\ IF EntryOk(s, cursor)
           THEN /\ cursor' = EntryEnd(s, cursor)
                /\ headers' = IF IsPseudo(Name(s, cursor))
                              THEN WithHeader(s, cursor) ELSE headers
                /\ UNCHANGED <<output, pc>>
           ELSE Fail /\ UNCHANGED <<cursor, headers>>
        /\ UNCHANGED <<upstream, received, input, buffer, frame>>

\* The headers are read: the frame is yielded, or does not decode.
YieldFrame ==
    /\ pc = "headers"
    /\ cursor >= Len(Section(frame))
    /\ \/ \E item \in Decoded(frame, headers) :
            output' = Append(output, item) /\ pc' = "frames"
       \/ Decoded(frame, headers) = {} /\ Fail
    /\ UNCHANGED <<upstream, received, input, buffer, frame, cursor, headers>>

AwaitInput ==
    /\ pc = "frames"
    /\ ValidLength /\ ~ WholeFrame
    /\ pc' = "input"
    /\ UNCHANGED <<upstream, received, input, buffer, frame, cursor, headers,
                   output>>

ReceiveChunk(n) ==
    /\ pc = "input"
    /\ received + n <= Len(upstream)
    /\ buffer' = buffer \o SubSeq(upstream, received + 1, received + n)
    /\ received' = received + n
    /\ pc' = "frames"
    /\ UNCHANGED <<upstream, input, frame, cursor, headers, output>>

\* The upstream body ends; bytes that are left over are an error.
ReceiveEnd ==
    /\ pc = "input"
    /\ input' = "ended"
    /\ IF buffer # <<>> THEN Fail ELSE pc' = "done" /\ UNCHANGED output
    /\ UNCHANGED <<upstream, received, buffer, frame, cursor, headers>>

ReceiveError ==
    /\ pc = "input"
    /\ input' = "broken"
    /\ Fail
    /\ UNCHANGED <<upstream, received, buffer, frame, cursor, headers>>

Translate ==
    \/ InvalidLength
    \/ SplitFrame
    \/ DecodeHeader
    \/ YieldFrame
    \/ AwaitInput

Next ==
    \/ Translate
    \/ \E n \in ChunkSizes : ReceiveChunk(n)
    \/ ReceiveEnd
    \/ ReceiveError

Spec == Init /\ [][Next]_vars
-----------------------------------------------------------------------------
\* Type invariant of the translator.
StreamTypeOK ==
    /\ upstream \in Seq(Byte)
    /\ received \in 0 .. Len(upstream)
    /\ input \in {"open", "ended", "broken"}
    /\ buffer \in Seq(Byte)
    /\ frame \in Seq(Byte)
    /\ cursor \in Nat
    /\ pc \in {"frames", "headers", "input", "done"}

\* Reading headers never leaves the header section, whatever lengths and
\* types the bytes claim: every offset decode_bedrock_headers slices at is
\* within the slice it was given (providers.rs:288-352).
CursorInBounds ==
    pc = "headers" =>
        /\ headers_length(frame) <= Len(frame) - MinFrame
        /\ cursor <= Len(Section(frame))

\* While the translator waits for input it holds less than one frame, so a
\* stream of any length needs a bounded buffer (providers.rs:400-415).
BufferBounded ==
    pc = "input" => Len(buffer) < MaxFrame

(***************************************************************************)
(* Liveness: a consumer that keeps polling lets the translator run until   *)
(* it waits for input or has ended.                                        *)
(***************************************************************************)
FairSpec == Spec /\ WF_vars(Translate)

\* No bytes make the translator loop for ever without asking for input: each
\* round of its three nested loops consumes something (providers.rs:288-352,
\* 399-431).
AlwaysReturns == []<>(pc \in {"input", "done"})
=============================================================================
