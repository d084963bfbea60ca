-------------------------- MODULE MjpegInputStream --------------------------
(***************************************************************************)
(* The frame reader (MjpegInputStream.java): it cuts the byte stream of a  *)
(* camera into JPEG images, by the Content-Length of each part's header    *)
(* when there is one and by searching for the end marker when there is     *)
(* not.  A header is a sequence of bytes before the start marker; the      *)
(* line "Content-Length: n" in it is one symbol, LengthLine(n).            *)
(*                                                                         *)
(* The camera sends well-formed frames and then closes the connection.     *)
(* pos counts the bytes consumed; mark and reset are "look ahead of pos".  *)
(***************************************************************************)
EXTENDS Integers, Sequences, FiniteSetsExt, SequencesExt

CONSTANTS
  Bodies,             \* what an image holds between its two markers
  Preambles,          \* what a header holds beside the length line
  Counted,            \* subset of BOOLEAN: may headers have a length line?
  MaxFrames,          \* bound: frames per stream
  FRAME_MAX_LENGTH,
  HEADER_MAX_LENGTH

\* A header is text: it has no byte 0xFF.
ASSUME StreamAssumption ==
  /\ Bodies \subseteq Seq(0..255)
  /\ Preambles \subseteq Seq(0..254)
  /\ Counted \subseteq BOOLEAN
  /\ MaxFrames \in Nat \ {0}
  /\ FRAME_MAX_LENGTH \in Nat \ {0}
  /\ HEADER_MAX_LENGTH \in Nat

VARIABLES
  sent,            \* the frames the camera sends before it closes
  bytes,           \* the same as one sequence of bytes
  pos,             \* bytes of them consumed so far
  mContentLength,  \* field mContentLength
  headerLenPrev,   \* field headerLenPrev
  frameCapacity,   \* length of the array frameData, 0 before it is made
  out,             \* images handed to the bitmap decoder: where, how long
  outcome          \* how the last call of readMjpegFrame ended

vars == <<sent, bytes, pos, mContentLength, headerLenPrev, frameCapacity, out, outcome>>

FF == 255
SOI_MARKER == <<FF, 216>>
EOF_MARKER == <<FF, 217>>
LengthLine(n) == 256 + n

\* A frame of the camera: [header, jpeg].
Frame(preamble, body, counted) ==
  LET jpeg == SOI_MARKER \o body \o EOF_MARKER
  IN  [header |-> IF counted THEN Append(preamble, LengthLine(Len(jpeg)))
                             ELSE preamble,
       jpeg   |-> jpeg]

\* What a camera may send with lengths, and without them after one preamble.
CountedFrames == {Frame(f[1], f[2], TRUE) : f \in Preambles \X Bodies}
BareFrames(preamble) == {Frame(preamble, b, FALSE) : b \in Bodies}

Bytes(frames) == FlattenSeq([i \in DOMAIN frames |-> frames[i].header \o frames[i].jpeg])

\* Offset of the image of frame i, and of the end of frame i.
EndOf(i)   == Len(Bytes(SubSeq(sent, 1, i)))
ImageAt(i) == EndOf(i) - Len(sent[i].jpeg)

IsCounted(frame) == \E n \in 0..Len(frame.jpeg) : LengthLine(n) \in ToSet(frame.header)

Running == outcome \in {"none", "frame", "ioException"}

-----------------------------------------------------------------------------
(* Searching for a marker *)

Eof == -2        \* the stream ended: EOFException
NotFound == -1   \* the search gave up

\* How many bytes of sequence have matched after n more bytes from offset p
\* (getEndOfSeqeunce: a mismatch starts over at the NEXT byte).
Matched(p, sequence) ==
  LET after(b) == [k \in 0..Len(sequence) |->
                     IF k < Len(sequence) /\ b = sequence[k + 1] THEN k + 1 ELSE 0]
      seqIndex[n \in 0..(Len(bytes) - p)] ==
        IF n = 0 THEN 0 ELSE after(bytes[p + n])[seqIndex[n - 1]]
  IN  seqIndex

\* The search over at most limit bytes from p: bytes read when sequence is
\* complete, or NotFound, or Eof.
EndOfSequence(p, sequence, limit) ==
  LET seqIndex == Matched(p, sequence)
      hits == {n \in DOMAIN seqIndex : n <= limit /\ seqIndex[n] = Len(sequence)}
  IN  IF hits # {} THEN Min(hits)
      ELSE IF Len(bytes) - p < limit THEN Eof ELSE NotFound

\* Mutant: the header length counts the marker.
StartOfSequenceEnd(p) == EndOfSequence(p, SOI_MARKER, FRAME_MAX_LENGTH)

StartOfSequence(p) ==
  LET end == EndOfSequence(p, SOI_MARKER, FRAME_MAX_LENGTH)
  IN  IF end < 0 THEN end ELSE end - Len(SOI_MARKER)

\* Java's division of ints, rounding towards zero.
Half(n) == IF n < 0 THEN 0 - (0 - n) \div 2 ELSE n \div 2

\* Mutant: the search starts at the previous length, not at half of it.
StartPosFull == mContentLength

\* getEndOfSeqeunceSimplified after a header of headerLen bytes looks around
\* the length of the previous frame.  It counts from the FIELD headerLen,
\* which stays -1; the header itself has been read already.
StartPos == Half(mContentLength)
EndPos == Half(3 * mContentLength)
Skipped(headerLen) == Max({0, Min({StartPos - 1, Len(bytes) - pos - headerLen})})

NearEnd(headerLen) ==
  IF EndPos <= StartPos THEN NotFound
  ELSE EndOfSequence(pos + headerLen + Skipped(headerLen), EOF_MARKER,
                     EndPos - StartPos)

\* Bytes read since mark when that search is over.
ReadAhead(headerLen, near) ==
  headerLen + Skipped(headerLen)
    + IF near >= 0 THEN near ELSE Max({0, EndPos - StartPos})

\* Mutant: the last byte of the header is not parsed.
ParsedLengthCut(headerLen) ==
  LET lines == {i \in pos + 1..pos + headerLen - 1 : bytes[i] > 256}
  IN  IF lines = {} THEN NotFound ELSE bytes[Max(lines)] - 256

\* parseContentLength: the last length line of the header, or NotFound for
\* the NumberFormatException of a header without one.
ParsedLength(headerLen) ==
  LET lines == {i \in pos + 1..pos + headerLen : bytes[i] > 256}
  IN  IF lines = {} THEN NotFound ELSE bytes[Max(lines)] - 256

\* Mutant: no worst-case search after a miss.
ImageLengthNoWorstCase(headerLen, parsed, near) ==
  CASE parsed # NotFound -> parsed
    [] parsed = NotFound /\ near >= 0 -> StartPos - 1 + near
    [] OTHER -> near

\* The length readMjpegFrame settles on: the header's, else the one found
\* near the previous length, else the distance of the end marker from mark.
ImageLength(headerLen, parsed, near) ==
  CASE parsed # NotFound -> parsed
    [] parsed = NotFound /\ near >= 0 -> StartPos - 1 + near
    [] parsed = NotFound /\ near = Eof -> Eof
    [] OTHER -> EndOfSequence(pos, EOF_MARKER, FRAME_MAX_LENGTH)

\* reset throws when more than FRAME_MAX_LENGTH bytes were read since mark.
MarkLost(headerLen, parsed, near) ==
  /\ parsed = NotFound
  /\ near # Eof
  /\ ReadAhead(headerLen, near) > FRAME_MAX_LENGTH

-----------------------------------------------------------------------------
(* readMjpegFrame, by the way it ends *)

\* The connection ended before a start marker: reset, return null.
EndOfStream(headerLen) ==
  /\ headerLen = Eof
  /\ outcome' = "null"
  /\ UNCHANGED <<sent, bytes, pos, mContentLength, headerLenPrev,
                 frameCapacity, out>>

\* No start marker in FRAME_MAX_LENGTH bytes: new byte[-1].
NoStartMarker(headerLen) ==
  /\ headerLen = NotFound
  /\ outcome' = "negativeArraySize"
  /\ UNCHANGED <<sent, bytes, pos, mContentLength, headerLenPrev,
                 frameCapacity, out>>

\* The search for the end of the image runs out of the mark: reset throws,
\* and what was read ahead is lost.  (A near hit is returned and reset after
\* mContentLength is set, a miss before.)
MarkFails(headerLen, parsed, near) ==
  /\ MarkLost(headerLen, parsed, near)
  /\ pos' = pos + ReadAhead(headerLen, near)
  /\ mContentLength' = IF near >= 0 THEN StartPos - 1 + near ELSE mContentLength
  /\ headerLenPrev' = headerLen
  /\ outcome' = "ioException"
  /\ UNCHANGED <<sent, bytes, frameCapacity, out>>

\* Mutant: the stream is reset before the EOFException is passed on.
SearchFailsReset(headerLen, image) ==
  /\ image = Eof
  /\ headerLenPrev' = headerLen
  /\ outcome' = "ioException"
  /\ UNCHANGED <<sent, bytes, pos, mContentLength, frameCapacity, out>>

\* It runs out of the stream: EOFException, all is consumed.
SearchFails(headerLen, image) ==
  /\ image = Eof
  /\ pos' = Len(bytes)
  /\ headerLenPrev' = headerLen
  /\ outcome' = "ioException"
  /\ UNCHANGED <<sent, bytes, mContentLength, frameCapacity, out>>

\* The length of frameData when an image of this length is read.
Capacity(image) ==
  IF image + HEADER_MAX_LENGTH > FRAME_MAX_LENGTH
    THEN image + HEADER_MAX_LENGTH
    ELSE Max({frameCapacity, FRAME_MAX_LENGTH})

\* skipBytes, and readFully(frameData, 0, mContentLength), which throws on a
\* negative length and at the end of the stream; what it read goes to the
\* bitmap decoder.
ReadImage(headerLen, image) ==
  LET start == pos + headerLen
  IN  /\ image # Eof
      /\ headerLenPrev' = headerLen
      /\ mContentLength' = image
      /\ frameCapacity' = Capacity(image)
      /\ \/ /\ image < 0
            /\ pos' = start
            /\ outcome' = "indexOutOfBounds"
            /\ UNCHANGED out
         \/ /\ start + image > Len(bytes)
            /\ pos' = Len(bytes)
            /\ outcome' = "ioException"
            /\ UNCHANGED out
         \/ /\ image >= 0
            /\ start + image <= Len(bytes)
            /\ pos' = start + image
            /\ outcome' = "frame"
            /\ out' = Append(out, [at |-> start, len |-> image])
      /\ UNCHANGED <<sent, bytes>>

\* One call.  (Each value is computed once and handed on.)
ReadMjpegFrame ==
  /\ Running
  /\ \E headerLen \in {StartOfSequence(pos)} :
       \/ EndOfStream(headerLen)
       \/ NoStartMarker(headerLen)
       \/ /\ headerLen >= 0
          /\ \E parsed \in {ParsedLength(headerLen)},
                near \in {NearEnd(headerLen)} :
               \/ MarkFails(headerLen, parsed, near)
               \/ /\ ~MarkLost(headerLen, parsed, near)
                  /\ \E image \in {ImageLength(headerLen, parsed, near)} :
                       SearchFails(headerLen, image) \/ ReadImage(headerLen, image)

\* A camera that gives no lengths writes all its headers alike.
Init ==
  /\ \E n \in 1..MaxFrames :
       \/ /\ TRUE \in Counted
          /\ sent \in [1..n -> CountedFrames]
       \/ /\ FALSE \in Counted
          /\ \E p \in Preambles : sent \in [1..n -> BareFrames(p)]
  /\ bytes = Bytes(sent)
  /\ pos = 0
  /\ mContentLength = -1
  /\ headerLenPrev = -1
  /\ frameCapacity = 0
  /\ out = <<>>
  /\ outcome = "none"

Next == ReadMjpegFrame

Spec == Init /\ [][Next]_vars

-----------------------------------------------------------------------------
(* Properties *)

AllCounted == \A i \in DOMAIN sent : IsCounted(sent[i])

\* With a length in every header, the images come out exactly as sent, in
\* order and without a loss, whatever bytes they hold.
CountedLossless ==
  AllCounted =>
    out = [i \in 1..Len(out) |-> [at |-> ImageAt(i), len |-> Len(sent[i].jpeg)]]

\* The start marker comes before a search for it gives up.
HeadersFit == \A i \in DOMAIN sent :
                Len(sent[i].header) + Len(SOI_MARKER) <= FRAME_MAX_LENGTH

\* No image holds another one, as one with a thumbnail does.
Plain ==
  \A i \in DOMAIN sent :
    LET jpeg == sent[i].jpeg
    IN  \A k \in 1..(Len(jpeg) - 1) :
          /\ <<jpeg[k], jpeg[k + 1]>> = SOI_MARKER => k = 1
          /\ <<jpeg[k], jpeg[k + 1]>> = EOF_MARKER => k = Len(jpeg) - 1

\* Also when it has to search for the end of plain images, what is handed to
\* the decoder starts at an image the camera sent and holds all of it.
ImagesAreWhole ==
  AllCounted \/ Plain => \A j \in DOMAIN out : \E i \in DOMAIN sent :
    out[j].at = ImageAt(i) /\ out[j].len >= Len(sent[i].jpeg)

\* A search sees the end marker of every image: the frame is below the limit
\* and the marker is not after a fill byte (0xFF), which hides it, since a
\* mismatch starts over at the byte after.
EndsSeen ==
  \A i \in DOMAIN sent :
    LET jpeg == sent[i].jpeg
    IN  /\ Len(sent[i].header) + Len(jpeg) < FRAME_MAX_LENGTH
        /\ jpeg[Len(jpeg) - 2] # FF

\* The search starts before the end marker: no image is half as long as the
\* one before it or less.
Similar ==
  \A i \in 1..(Len(sent) - 1) :
    Len(sent[i].header) + Len(sent[i].jpeg) < 2 * Len(sent[i + 1].jpeg)

\* Under these three conditions a stream without lengths comes out frame by
\* frame too, none lost, doubled or run together with the next: the header
\* length added in the worst case is made up for by the next call.
SearchedInStep ==
  EndsSeen /\ Similar /\ (AllCounted \/ Plain) =>
    \A j \in DOMAIN out :
      /\ j <= Len(sent)
      /\ out[j].at = ImageAt(j)
      /\ j < Len(sent) => out[j].at + out[j].len <= ImageAt(j + 1)

\* The process never ends (the -1 of a failed search reaches new byte[] and
\* readFully unchecked) as long as the headers are within the limit and each
\* frame has a length line or an end marker the search can see. (A frame of
\* exactly the limit is too long: a search that begins at its second byte comes
\* to the limit one byte before the next start marker is complete.)
NoCrash == HeadersFit /\ (AllCounted \/ EndsSeen)
             => outcome \notin {"negativeArraySize", "indexOutOfBounds"}

\* Each call gets on in the stream, so that the retry after an IOException
\* does not spin.
CallsProgress == [][pos' > pos \/ ~Running']_vars
=============================================================================
