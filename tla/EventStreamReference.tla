------------------------ MODULE EventStreamReference ------------------------
(***************************************************************************)
(* What the translation of an event stream should be, as a function of the *)
(* bytes received and nothing else: the grammar of frames and headers,     *)
(* without buffer, cursor or chunks.                                       *)
(***************************************************************************)
EXTENDS EventStream, SequencesExt

\* b is the encoding of one header.
IsHeader(b) ==
    \E n \in 1 .. Len(b) - 2 :
        LET type == b[n + 2]
            rest == SubSeq(b, n + 3, Len(b))
        IN  /\ b[1] = n
            /\ IsText(SubSeq(b, 2, n + 1))
            /\ \/ type \in DOMAIN Width /\ Len(rest) = Width[type]
               \/ /\ type \in {ByteArray, String}
                  /\ rest # <<>> /\ Head(rest) = Len(rest) - 1
                  /\ type = String => IsText(Tail(rest))

\* The ways to read s as a sequence of headers.
Readings(s) ==
    LET from[i \in 0 .. Len(s)] ==
            IF i = Len(s) THEN {<<>>}
            ELSE UNION {{<<SubSeq(s, i + 1, j)>> \o r : r \in from[j]} :
                    j \in {k \in i + 1 .. Len(s) :
                            IsHeader(SubSeq(s, i + 1, k))}}
    IN  from[0]

NameOf(h) == SubSeq(h, 2, h[1] + 1)

\* Pseudo headers are strings and do not repeat.
Proper(reading) ==
    \A i \in DOMAIN reading : IsPseudo(NameOf(reading[i])) =>
        /\ reading[i][reading[i][1] + 2] = String
        /\ \A j \in DOMAIN reading :
            NameOf(reading[j]) = NameOf(reading[i]) => i = j

StringHeader(name, value) == <<1, name, String, 1, value>>

Has(reading, name) == \E h \in Range(reading) : NameOf(h) = <<name>>

Says(reading, name, value) == StringHeader(name, value) \in Range(reading)

\* The item a frame stands for, if any.
Meaning(f) ==
    IF ~ Intact(f) THEN {}
    ELSE UNION {
        {[item |-> "event", data |-> <<Unwraps>>] : x \in {y \in {1} :
            /\ Says(r, MessageType, Event)
            /\ Says(r, EventType, Chunk)
            /\ Payload(f) = <<Unwraps>>}}
        \cup
        {[item |-> "exception", data |-> <<>>] : x \in {y \in {1} :
            /\ \E m \in {Exception, Error} : Says(r, MessageType, m)
            /\ \E n \in {EventType, ExceptionType, ErrorCode} : Has(r, n)}} :
        r \in {q \in Readings(Section(f)) : Proper(q)}}

\* The items of the byte string s, and how many bytes they leave over.
Translation(s) ==
    LET after[i \in 0 .. Len(s)] ==
            LET rest == SubSeq(s, i + 1, Len(s))
                f == SubSeq(rest, 1, total_length(rest))
            IN  IF Len(rest) < LengthBytes
                THEN [items |-> <<>>, left |-> Len(rest)]
                ELSE IF total_length(rest) \notin MinFrame .. MaxFrame
                THEN [items |-> <<Failure>>, left |-> 0]
                ELSE IF Len(rest) < total_length(rest)
                THEN [items |-> <<>>, left |-> Len(rest)]
                ELSE IF Meaning(f) = {}
                THEN [items |-> <<Failure>>, left |-> 0]
                ELSE LET next == after[i + total_length(rest)]
                     IN  [items |-> SetToSeq(Meaning(f)) \o next.items,
                          left |-> next.left]
    IN  after[0]

Fails(items) == items # <<>> /\ Last(items) = Failure

\* Wherever the upstream is cut into chunks, what has been yielded is what
\* the bytes received so far mean: a prefix of it while frames are being
\* decoded, all of it when the translator waits for input, and at the end
\* all of it, with an error exactly if the stream broke off or was cut
\* inside a frame (providers.rs:392-446).
TranslationAgrees ==
    LET t == Translation(SubSeq(upstream, 1, received))
    IN  CASE pc \in {"frames", "headers"} -> IsPrefix(output, t.items)
          [] pc = "input" -> output = t.items
          [] pc = "done" ->
                output = IF Fails(t.items) \/ (input = "ended" /\ t.left = 0)
                         THEN t.items ELSE Append(t.items, Failure)
=============================================================================
