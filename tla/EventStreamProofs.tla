-------------------------- MODULE EventStreamProofs --------------------------
(***************************************************************************)
(* For every upstream byte string, every way to cut it into chunks and     *)
(* every limit, the translator of EventStream stays within its slices and  *)
(* its buffer.                                                             *)
(***************************************************************************)
EXTENDS EventStream, SequenceTheorems, TLAPS

\* Headers are read only of frames that passed the length check.
FrameLength == pc = "headers" => Len(frame) >= MinFrame

\* Typing, the cursor and the buffer together: the cursor's bound rests on
\* the frame being typed and intact, the buffer's on the length check.
Inv == StreamTypeOK /\ CursorInBounds /\ BufferBounded /\ FrameLength

\* The bytes of a byte string are numbers.
LEMMA ByteAt ==
    ASSUME NEW s \in Seq(Byte), NEW i \in Nat, 1 <= i, i <= Len(s)
    PROVE  s[i] \in Nat
<1>1. i \in 1 .. Len(s)
  OBVIOUS
<1>2. s[i] \in Byte
  BY <1>1, ElementOfSeq
<1>3. \A b \in Byte : b \in Nat
  BY DEF Byte
<1> QED
  BY <1>2, <1>3

\* Slicing a byte string.
LEMMA SliceTyped ==
    ASSUME NEW s \in Seq(Byte), NEW m \in Nat, NEW n \in Nat,
           m >= 1, n <= Len(s)
    PROVE  /\ SubSeq(s, m, n) \in Seq(Byte)
           /\ Len(SubSeq(s, m, n)) = IF m <= n THEN n - m + 1 ELSE 0
           /\ \A i \in 1 .. n - m + 1 : SubSeq(s, m, n)[i] = s[m + i - 1]
<1>1. \A i \in m .. n : s[i] \in Byte
  OBVIOUS
<1>2. m \in Int /\ n \in Int
  OBVIOUS
<1> QED
  BY <1>1, <1>2, SubSeqProperties

\* The length in front of a byte string is a number.
LEMMA LengthTyped ==
    ASSUME NEW s \in Seq(Byte), Len(s) >= LengthBytes
    PROVE  total_length(s) \in Nat
<1>1. s[1] \in Nat /\ s[2] \in Nat
  BY ByteAt DEF LengthBytes
<1> QED
  BY <1>1 DEF total_length

\* The header section of a frame whose headers length fits.
LEMMA SectionTyped ==
    ASSUME NEW f \in Seq(Byte), Len(f) >= MinFrame,
           headers_length(f) <= Len(f) - MinFrame
    PROVE  /\ Section(f) \in Seq(Byte)
           /\ Len(Section(f)) = headers_length(f)
<1>1. headers_length(f) \in Nat
  BY ByteAt DEF headers_length, MinFrame
<1> DEFINE n == 3 + headers_length(f)
<1>2. n \in Nat /\ n <= Len(f)
  BY <1>1 DEF MinFrame
<1>3. Section(f) = SubSeq(f, 4, n)
  BY DEF Section, LengthBytes
<1> HIDE DEF n
<1>4. /\ SubSeq(f, 4, n) \in Seq(Byte)
      /\ Len(SubSeq(f, 4, n)) = IF 4 <= n THEN n - 4 + 1 ELSE 0
  BY <1>2, SliceTyped
<1> QED
  BY <1>1, <1>3, <1>4 DEF n

\* A header that fits ends at a number of bytes.
LEMMA EntryEndTyped ==
    ASSUME NEW s \in Seq(Byte), NEW c \in Nat, c < Len(s)
    PROVE  EntryEnd(s, c) \in Nat
<1>1. s[c + 1] \in Nat
  BY ByteAt
<1>2. NameEnd(s, c) \in Nat
  BY <1>1 DEF NameEnd
<1>3. ASSUME NEW d \in Nat, NEW t \in Nat
      PROVE  ValueEnd(s, d, t) \in Nat
  <2>1. CASE t \in DOMAIN Width
    <3>1. Width[t] \in Nat
      BY <2>1 DEF Width
    <3> QED
      BY <2>1, <3>1 DEF ValueEnd
  <2>2. CASE t \notin DOMAIN Width /\ t \in {ByteArray, String}
             /\ d + 1 <= Len(s)
    <3>1. s[d + 1] \in Nat
      BY <2>2, ByteAt
    <3> QED
      BY <2>2, <3>1 DEF ValueEnd
  <2>3. CASE t \notin DOMAIN Width
             /\ ~ (t \in {ByteArray, String} /\ d + 1 <= Len(s))
    BY <2>3 DEF ValueEnd, TooFar
  <2> QED
    BY <2>1, <2>2, <2>3
<1>4. CASE s[c + 1] = 0 \/ NameEnd(s, c) + 1 > Len(s)
  BY <1>4 DEF EntryEnd, TooFar
<1>5. CASE ~ (s[c + 1] = 0 \/ NameEnd(s, c) + 1 > Len(s))
  <2>1. ValueType(s, c) \in Nat
    BY <1>2, <1>5, ByteAt DEF ValueType
  <2>2. NameEnd(s, c) + 1 \in Nat
    BY <1>2
  <2>3. ValueEnd(s, NameEnd(s, c) + 1, ValueType(s, c)) \in Nat
    BY <1>3, <2>1, <2>2, Zenon
  <2> QED
    BY <1>5, <2>3 DEF EntryEnd
<1> QED
  BY <1>4, <1>5
-----------------------------------------------------------------------------
LEMMA InitInv == Init => Inv
BY StreamAssumption
   DEF Init, Inv, StreamTypeOK, CursorInBounds, BufferBounded, FrameLength

LEMMA SplitFrameInv == Inv /\ SplitFrame => Inv'
<1> SUFFICES ASSUME Inv, SplitFrame PROVE Inv'
  OBVIOUS
<1> DEFINE n == total_length(buffer)
           f == SubSeq(buffer, 1, n)
<1>1. buffer \in Seq(Byte) /\ Len(buffer) >= LengthBytes /\ Len(buffer) >= n
  BY DEF Inv, StreamTypeOK, SplitFrame, WholeFrame
<1>2. n \in Nat /\ n >= MinFrame
  BY <1>1, LengthTyped, StreamAssumption
     DEF SplitFrame, ValidLength, MinFrame
<1> HIDE DEF n
<1>3. f \in Seq(Byte) /\ Len(f) = n
  BY <1>1, <1>2, SliceTyped DEF MinFrame
<1>4. SubSeq(buffer, n + 1, Len(buffer)) \in Seq(Byte)
  <2>1. n + 1 \in Nat /\ Len(buffer) \in Nat /\ n + 1 >= 1
    BY <1>1, <1>2
  <2> QED
    BY <1>1, <2>1, SliceTyped
<1>5. /\ buffer' \in Seq(Byte) /\ frame' = f /\ frame' \in Seq(Byte)
      /\ cursor' = 0
      /\ UNCHANGED <<upstream, received, input>>
      /\ pc' \in {"headers", "done"}
      /\ pc' = "headers" => Intact(f)
  BY <1>3, <1>4 DEF SplitFrame, Fail, n
<1>6. StreamTypeOK'
  BY <1>5 DEF Inv, StreamTypeOK
<1>7. CursorInBounds'
  <2> SUFFICES ASSUME pc' = "headers"
               PROVE  /\ headers_length(f) <= Len(f) - MinFrame
                      /\ 0 <= Len(Section(f))
    BY <1>5 DEF CursorInBounds
  <2>1. headers_length(f) <= Len(f) - MinFrame
    BY <1>5 DEF Intact
  <2> QED
    BY <1>2, <1>3, <2>1, SectionTyped
<1>8. BufferBounded'
  BY <1>5 DEF BufferBounded
<1> QED
  BY <1>2, <1>3, <1>5, <1>6, <1>7, <1>8 DEF Inv, FrameLength

LEMMA DecodeHeaderInv ==
    Inv /\ DecodeHeader => Inv'
<1> SUFFICES ASSUME Inv, DecodeHeader PROVE Inv'
  OBVIOUS
<1> DEFINE s == Section(frame)
<1>1. /\ pc = "headers" /\ cursor < Len(s)
      /\ UNCHANGED <<upstream, received, input, buffer, frame>>
      /\ \/ /\ cursor' = EntryEnd(s, cursor) /\ EntryEnd(s, cursor) <= Len(s)
            /\ pc' = pc
         \/ cursor' = cursor /\ pc' = "done"
  BY DEF DecodeHeader, EntryOk, Fail
<1>2. frame \in Seq(Byte) /\ cursor \in Nat
      /\ headers_length(frame) <= Len(frame) - MinFrame
  BY <1>1 DEF Inv, StreamTypeOK, CursorInBounds
<1>3. Section(frame)' = s
  BY <1>1 DEF Section, headers_length
<1>4. CASE cursor' = cursor /\ pc' = "done"
  BY <1>1, <1>4
     DEF Inv, StreamTypeOK, CursorInBounds, BufferBounded, FrameLength
<1>5. CASE cursor' = EntryEnd(s, cursor) /\ EntryEnd(s, cursor) <= Len(s)
           /\ pc' = pc
  <2>1. s \in Seq(Byte)
    BY <1>1, <1>2, SectionTyped DEF Inv, FrameLength
  <2>2. cursor' \in Nat
    BY <1>1, <1>2, <1>5, <2>1, EntryEndTyped
  <2> QED
    BY <1>1, <1>2, <1>3, <1>5, <2>2
       DEF Inv, StreamTypeOK, CursorInBounds, BufferBounded, FrameLength,
         headers_length
<1> QED
  BY <1>1, <1>4, <1>5

LEMMA AwaitInputInv == Inv /\ AwaitInput => Inv'
<1> SUFFICES ASSUME Inv, AwaitInput PROVE Inv'
  OBVIOUS
<1>1. buffer \in Seq(Byte)
  BY DEF Inv, StreamTypeOK
<1>2. Len(buffer) < MaxFrame
  <2>1. CASE Len(buffer) < LengthBytes
    BY <1>1, <2>1, StreamAssumption DEF LengthBytes, MinFrame
  <2>2. CASE Len(buffer) >= LengthBytes
    BY <1>1, <2>2, LengthTyped, StreamAssumption
       DEF AwaitInput, ValidLength, WholeFrame, MinFrame
  <2> QED
    BY <1>1, <2>1, <2>2 DEF LengthBytes
<1> QED
  BY <1>2 DEF Inv, StreamTypeOK, CursorInBounds, BufferBounded, FrameLength,
         AwaitInput

LEMMA ReceiveChunkInv ==
    ASSUME NEW n \in ChunkSizes, Inv, ReceiveChunk(n)
    PROVE  Inv'
<1>1. /\ upstream \in Seq(Byte) /\ buffer \in Seq(Byte)
      /\ received \in Nat /\ n \in Nat /\ received + n <= Len(upstream)
  BY StreamAssumption DEF Inv, StreamTypeOK, ReceiveChunk
<1>2. SubSeq(upstream, received + 1, received + n) \in Seq(Byte)
  <2>1. received + 1 \in Nat /\ received + n \in Nat /\ received + 1 >= 1
    BY <1>1
  <2> QED
    BY <1>1, <2>1, SliceTyped
<1>3. buffer' \in Seq(Byte)
  BY <1>1, <1>2 DEF ReceiveChunk
<1> QED
  BY <1>1, <1>3
     DEF Inv, StreamTypeOK, CursorInBounds, BufferBounded, FrameLength,
         ReceiveChunk

\* Steps that end the stream or yield an item leave cursor, frame and buffer.
LEMMA OtherStepsInv ==
    Inv /\ (InvalidLength \/ YieldFrame \/ ReceiveEnd \/ ReceiveError
            \/ UNCHANGED vars) => Inv'
<1>1. Inv /\ InvalidLength => Inv'
  BY DEF InvalidLength, Fail, Inv, StreamTypeOK, CursorInBounds, BufferBounded,
         FrameLength
<1>2. Inv /\ YieldFrame => Inv'
  BY DEF YieldFrame, Fail, Inv, StreamTypeOK, CursorInBounds, BufferBounded,
         FrameLength
<1>3. Inv /\ ReceiveEnd => Inv'
  BY DEF ReceiveEnd, Fail, Inv, StreamTypeOK, CursorInBounds, BufferBounded,
         FrameLength
<1>4. Inv /\ ReceiveError => Inv'
  BY DEF ReceiveError, Fail, Inv, StreamTypeOK, CursorInBounds, BufferBounded,
         FrameLength
<1>5. Inv /\ UNCHANGED vars => Inv'
  BY Zenon DEF vars, Section, headers_length, Inv, StreamTypeOK, CursorInBounds,
         BufferBounded, FrameLength
<1> QED
  BY <1>1, <1>2, <1>3, <1>4, <1>5

LEMMA NextInv == Inv /\ [Next]_vars => Inv'
BY SplitFrameInv, DecodeHeaderInv, AwaitInputInv, ReceiveChunkInv,
   OtherStepsInv DEF Next, Translate

\* Whatever bytes arrive in whatever pieces, the header loop slices only
\* within the section of an intact frame.
THEOREM HeadersStayInSection == Spec => []CursorInBounds
BY InitInv, NextInv, PTL DEF Spec, Inv

\* Whatever bytes arrive in whatever pieces, less than one frame is held back
\* while the translator waits for more.
THEOREM BufferStaysBounded == Spec => []BufferBounded
BY InitInv, NextInv, PTL DEF Spec, Inv

\* The translator's state stays typed.
THEOREM StreamTyped == Spec => []StreamTypeOK
BY InitInv, NextInv, PTL DEF Spec, Inv
=============================================================================
