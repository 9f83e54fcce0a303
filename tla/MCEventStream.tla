---------------------------- MODULE MCEventStream ----------------------------
(***************************************************************************)
(* Streams of one and two frames, each with at most one byte changed, and  *)
(* frames around every short header section.                               *)
(***************************************************************************)
EXTENDS EventStreamReference

Frame(h, payload) ==
    <<0, Len(h) + Len(payload) + MinFrame, Len(h)>> \o h \o payload
        \o <<Matches>>

EventFrame ==
    Frame(StringHeader(MessageType, Event) \o StringHeader(EventType, Chunk),
          <<Unwraps>>)

ExceptionFrame ==
    Frame(StringHeader(MessageType, Exception) \o
            StringHeader(ExceptionType, 61), <<>>)

\* Headers of each class of types, none of them a pseudo header, and a section
\* that is one byte too long.
FixedHeaders == <<1, 61, 0, 1, 61, 3, 9, 9>>
ArrayHeaders == <<2, 61, MessageType, ByteArray, 0, 1, 61, ByteArray, 1, 9>>
LongSection == FixedHeaders \o <<1, 61, 1>>

\* Bytes a byte may be changed into.
Changed == {0, 1, 2, 3, String, 13, 15, 16, MessageType, EventType, Chunk,
            Error, NotText}

OneByteChanged(s) ==
    {s} \cup {ReplaceAt(s, i, b) : i \in DOMAIN s, b \in Changed}

\* Every section of at most four bytes, inside a frame that is in order.
ShortSections ==
    {Frame(h, <<>>) :
        h \in SeqOf({0, 1, 2, 3, ByteArray, String, MessageType, NotText}, 4)}

MCStreams ==
    OneByteChanged(EventFrame)
    \cup OneByteChanged(ExceptionFrame)
    \cup OneByteChanged(EventFrame \o ExceptionFrame)
    \cup OneByteChanged(Frame(FixedHeaders, <<>>))
    \cup OneByteChanged(Frame(ArrayHeaders, <<>>))
    \cup {Frame(LongSection, <<>>),
          EventFrame \o EventFrame \o EventFrame,
          EventFrame \o Frame(<<>>, <<>>) \o EventFrame}
    \cup ShortSections
=============================================================================
