------------------------ MODULE MjpegInputStreamProofs ------------------------
(***************************************************************************)
(* Machine-checked theorems about MjpegInputStream: what the reader cuts   *)
(* out of a stream, for any images, headers, number of frames and limits.  *)
(***************************************************************************)
EXTENDS MjpegInputStream, InductionFacts

-----------------------------------------------------------------------------
(* The search for a marker <<a, b>> *)

\* m[n] bytes of the marker are matched after n bytes from p.
Counts(m, p, a, b) ==
  /\ m \in [0..(Len(bytes) - p) -> 0..2]
  /\ m[0] = 0
  /\ \A n \in 1..(Len(bytes) - p) :
       m[n] = IF m[n - 1] = 0 /\ bytes[p + n] = a THEN 1
              ELSE IF m[n - 1] = 1 /\ bytes[p + n] = b THEN 2 ELSE 0

\* The recursion of Matched has its solution: a search counts the bytes of the
\* marker it has seen, and a mismatch starts over at the byte after.
LEMMA MatchedSteps ==
  ASSUME bytes \in Seq(Nat), NEW p \in 0..Len(bytes), NEW a \in Nat, NEW b \in Nat, a # b
  PROVE  Counts(Matched(p, <<a, b>>), p, a, b)
<1> DEFINE D == Len(bytes) - p
           seq == <<a, b>>
           after(x) == [k \in 0..Len(seq) |-> IF k < Len(seq) /\ x = seq[k + 1] THEN k + 1 ELSE 0]
           step == [n \in 1..D |-> after(bytes[p + n])]
           IsMatched(f) == f = [n \in 0..D |-> IF n = 0 THEN 0 ELSE after(bytes[p + n])[f[n - 1]]]
           m == CHOOSE f : IsMatched(f)
<1>1. D \in Nat
  OBVIOUS
<1>2. ASSUME NEW x
      PROVE  /\ after(x) \in [0..2 -> 0..2]
             /\ after(x)[0] = IF x = a THEN 1 ELSE 0
             /\ after(x)[1] = IF x = b THEN 2 ELSE 0
             /\ after(x)[2] = 0
  OBVIOUS
<1> HIDE DEF after
<1>3. step \in [1..D -> [0..2 -> 0..2]]
  BY <1>2
<1>4. PICK f \in [0..D -> 0..2] : f[0] = 0 /\ \A n \in 1..D : f[n] = step[n][f[n - 1]]
  <2>1. 0 \in 0..2
    OBVIOUS
  <2>2. \E f \in [0..D -> 0..2] : IsChain(f, 0, D, step)
    <3> HIDE DEF D, step
    <3> QED
      BY <1>1, <1>3, <2>1, ChainExists
  <2> QED
    BY <2>2 DEF IsChain
<1>5. IsMatched(f)
  BY <1>4
<1>6. IsMatched(m)
  <2> HIDE DEF IsMatched
  <2> QED
    BY <1>5
<1>7. m[0] = 0 /\ \A n \in 1..D : m[n] = after(bytes[p + n])[m[n - 1]]
  <2> HIDE DEF m
  <2>1. m = [n \in 0..D |-> IF n = 0 THEN 0 ELSE after(bytes[p + n])[m[n - 1]]]
    BY <1>6
  <2>2. 0 \in 0..D /\ \A n \in 1..D : n \in 0..D /\ n # 0
    BY <1>1
  <2> HIDE DEF D
  <2>3. \A n \in 0..D : m[n] = IF n = 0 THEN 0 ELSE after(bytes[p + n])[m[n - 1]]
    BY <2>1, Zenon
  <2> QED
    BY <2>2, <2>3
<1>8. \A n \in 0..D : m[n] = f[n]
  <2>1. IsChain(m, 0, D, step)
    <3> HIDE DEF m
    <3> QED
      BY <1>7 DEF IsChain
  <2>2. IsChain(f, 0, D, step)
    BY <1>4 DEF IsChain
  <2> HIDE DEF m, D, step
  <2> QED
    BY <1>1, <2>1, <2>2, ChainUnique
<1>9. Matched(p, <<a, b>>) = m
  BY Zenon DEF Matched, after
<1>10. m \in [0..D -> 0..2]
  <2> HIDE DEF m
  <2>1. m = [n \in 0..D |-> IF n = 0 THEN 0 ELSE after(bytes[p + n])[m[n - 1]]]
    BY <1>6
  <2> QED
    BY <1>8, <2>1
<1>11. ASSUME NEW n \in 1..D
       PROVE  m[n] = IF m[n - 1] = 0 /\ bytes[p + n] = a THEN 1
                     ELSE IF m[n - 1] = 1 /\ bytes[p + n] = b THEN 2 ELSE 0
  <2> HIDE DEF m
  <2>1. m[n - 1] \in 0..2
    <3>1. n - 1 \in 0..D
      BY <1>1
    <3> QED
      BY <1>10, <3>1
  <2> QED
    BY <1>2, <1>7, <2>1
<1> HIDE DEF m
<1> QED
  BY <1>7, <1>9, <1>10, <1>11 DEF Counts

\* What a search returns: the bytes up to the end of a marker, or that the
\* stream ended, or that the limit came first.
Found(p, a, b, limit, e) ==
  /\ e \in 2..limit
  /\ p + e <= Len(bytes)
  /\ bytes[p + e - 1] = a
  /\ bytes[p + e] = b

\* What a search returns is one of these three.
LEMMA SearchSound ==
  ASSUME bytes \in Seq(Nat), NEW p \in 0..Len(bytes), NEW limit \in Nat,
         NEW a \in Nat, NEW b \in Nat, a # b
  PROVE  LET e == EndOfSequence(p, <<a, b>>, limit)
         IN  \/ e = Eof /\ Len(bytes) - p < limit
             \/ e = NotFound /\ Len(bytes) - p >= limit
             \/ Found(p, a, b, limit, e)
<1> DEFINE m == Matched(p, <<a, b>>)
           D == Len(bytes) - p
           hits == {n \in DOMAIN m : n <= limit /\ m[n] = Len(<<a, b>>)}
<1>0. Counts(m, p, a, b)
  BY MatchedSteps
<1> HIDE DEF m
<1>1. /\ m \in [0..D -> 0..2] /\ m[0] = 0
      /\ \A n \in 1..D : m[n] = IF m[n - 1] = 0 /\ bytes[p + n] = a THEN 1
                                ELSE IF m[n - 1] = 1 /\ bytes[p + n] = b THEN 2 ELSE 0
  BY <1>0 DEF Counts
<1>2. D \in Nat /\ Len(<<a, b>>) = 2 /\ DOMAIN m = 0..D
  BY <1>1
<1>3. EndOfSequence(p, <<a, b>>, limit)
        = IF hits # {} THEN Min(hits) ELSE IF D < limit THEN Eof ELSE NotFound
  BY DEF EndOfSequence, m
<1>4. CASE hits # {}
  <2>1. hits \subseteq Nat
    BY <1>2
  <2>2. Min(hits) \in hits
    <3> HIDE DEF hits
    <3> QED
      BY <1>4, <2>1, MinIsLeast
  <2> DEFINE e == Min(hits)
  <2>3. e \in 0..D /\ e <= limit /\ m[e] = 2
    BY <1>2, <2>2
  <2> HIDE DEF hits, e
  <2>4. e \in 1..D /\ m[e - 1] = 1 /\ bytes[p + e] = b
    BY <1>1, <1>2, <2>3
  <2>5. e - 1 \in 1..D /\ bytes[p + (e - 1)] = a
    <3>1. e - 1 \in 1..D
      BY <1>1, <1>2, <2>4
    <3>2. ASSUME NEW d \in 1..D, m[d] = 1
          PROVE  bytes[p + d] = a
      <4>1. m[d] = IF m[d - 1] = 0 /\ bytes[p + d] = a THEN 1
                   ELSE IF m[d - 1] = 1 /\ bytes[p + d] = b THEN 2 ELSE 0
        BY <1>1, Zenon
      <4> QED
        BY <3>2, <4>1
    <3> QED
      BY <2>4, <3>1, <3>2
  <2>6. p + (e - 1) = p + e - 1
    BY <2>4
  <2>7. Found(p, a, b, limit, e)
    BY <1>2, <2>3, <2>4, <2>5, <2>6 DEF Found
  <2> QED
    BY <1>3, <1>4, <2>7 DEF e
<1>5. CASE hits = {}
  BY <1>2, <1>3, <1>5
<1> QED
  BY <1>4, <1>5

\* A marker within the limit is not passed over, unless the byte before it is
\* its first one.
Seen(p, a, b, limit, n) ==
  /\ p + n + 2 <= Len(bytes) /\ n + 2 <= limit
  /\ bytes[p + n + 1] = a /\ bytes[p + n + 2] = b
  /\ n = 0 \/ bytes[p + n] # a

\* Such a marker ends a search, or one before it does.
LEMMA SearchSees ==
  ASSUME bytes \in Seq(Nat), NEW p \in 0..Len(bytes), NEW limit \in Nat,
         NEW a \in Nat, NEW b \in Nat, a # b,
         NEW n \in Nat, Seen(p, a, b, limit, n)
  PROVE  EndOfSequence(p, <<a, b>>, limit) \in 2..(n + 2)
<1> SUFFICES ASSUME p + n + 2 <= Len(bytes), n + 2 <= limit,
                    bytes[p + n + 1] = a, bytes[p + n + 2] = b, n = 0 \/ bytes[p + n] # a
             PROVE  EndOfSequence(p, <<a, b>>, limit) \in 2..(n + 2)
  BY DEF Seen
<1> DEFINE m == Matched(p, <<a, b>>)
           D == Len(bytes) - p
           hits == {k \in DOMAIN m : k <= limit /\ m[k] = Len(<<a, b>>)}
<1>0. Counts(m, p, a, b)
  BY MatchedSteps
<1> HIDE DEF m
<1>1. /\ m \in [0..D -> 0..2] /\ m[0] = 0
      /\ \A k \in 1..D : m[k] = IF m[k - 1] = 0 /\ bytes[p + k] = a THEN 1
                                ELSE IF m[k - 1] = 1 /\ bytes[p + k] = b THEN 2 ELSE 0
  BY <1>0 DEF Counts
<1>2. D \in Nat /\ Len(<<a, b>>) = 2 /\ DOMAIN m = 0..D /\ n + 2 \in 0..D
  BY <1>1
<1>3. EndOfSequence(p, <<a, b>>, limit)
        = IF hits # {} THEN Min(hits) ELSE IF D < limit THEN Eof ELSE NotFound
  BY DEF EndOfSequence, m
<1>4. m[n] = 0 \/ (n >= 2 /\ m[n] = 2)
  BY <1>1, <1>2
<1>5. \E k \in hits : k <= n + 2
  <2>1. CASE m[n] = 0
    <3>1. n + 1 \in 1..D /\ n + 2 \in 1..D /\ (n + 1) - 1 = n /\ (n + 2) - 1 = n + 1
      BY <1>2
    <3>2. bytes[p + (n + 1)] = a /\ bytes[p + (n + 2)] = b
      <4>1. p + (n + 1) = p + n + 1 /\ p + (n + 2) = p + n + 2
        OBVIOUS
      <4> QED
        BY <4>1
    <3>3. m[n + 1] = 1
      BY <1>1, <2>1, <3>1, <3>2
    <3>4. m[n + 2] = 2
      BY <1>1, <3>1, <3>2, <3>3
    <3>5. n + 2 \in hits
      BY <1>2, <3>4
    <3> HIDE DEF hits
    <3> QED
      BY <3>5
  <2>2. CASE n >= 2 /\ m[n] = 2
    <3>1. n \in hits
      BY <1>2, <2>2
    <3> HIDE DEF hits
    <3> QED
      BY <3>1
  <2> QED
    BY <1>4, <2>1, <2>2
<1>6. Min(hits) \in hits /\ \A k \in hits : Min(hits) <= k
  <2>1. hits \subseteq Nat /\ hits # {}
    BY <1>2, <1>5
  <2> HIDE DEF hits
  <2> QED
    BY <2>1, MinIsLeast
<1>7. Min(hits) \in Nat /\ Min(hits) <= n + 2
  <2>1. hits \subseteq Nat
    BY <1>2
  <2> HIDE DEF hits
  <2>2. PICK k \in hits : k <= n + 2
    BY <1>5
  <2>3. Min(hits) \in Nat /\ k \in Nat /\ Min(hits) <= k
    BY <1>6, <2>1
  <2> HIDE DEF D
  <2> QED
    BY <2>2, <2>3
<1>8. EndOfSequence(p, <<a, b>>, limit) = Min(hits)
  BY <1>3, <1>5
<1> DEFINE e == EndOfSequence(p, <<a, b>>, limit)
<1>9. e = Eof \/ e = NotFound \/ Found(p, a, b, limit, e)
  BY SearchSound
<1> HIDE DEF hits, e
<1>10. e \in 2..(n + 2)
  BY <1>7, <1>8, <1>9 DEF Found, Eof, NotFound, e
<1> QED
  BY <1>10 DEF e

-----------------------------------------------------------------------------
(* The layout of the stream *)

\* What the camera sends, all along: frames with length lines, or frames
\* without and with one header.
WellSent ==
  /\ bytes = Bytes(sent)
  /\ \E n \in 1..MaxFrames :
       \/ sent \in [1..n -> CountedFrames]
       \/ \E p \in Preambles : sent \in [1..n -> BareFrames(p)]

Header(i) == sent[i].header
Jpeg(i) == sent[i].jpeg
Prefix(i) == Bytes(SubSeq(sent, 1, i))

\* A frame holds bytes and length lines, no byte of its header begins a marker
\* and its image lies between two.
GoodFrame(f) ==
  /\ f.header \in Seq(Nat) /\ Len(f.header) \in Nat
  /\ f.jpeg \in Seq(Nat) /\ Len(f.jpeg) \in Nat /\ Len(f.jpeg) >= 4
  /\ \A k \in 1..Len(f.header) : f.header[k] \in Nat /\ f.header[k] # FF
  /\ \A k \in 1..Len(f.jpeg) : f.jpeg[k] \in 0..255
  /\ f.jpeg[1] = FF /\ f.jpeg[2] = 216
  /\ f.jpeg[Len(f.jpeg) - 1] = FF /\ f.jpeg[Len(f.jpeg)] = 217

\* Its header has no length line.
NoLength(f) == \A k \in 1..Len(f.header) : f.header[k] \in 0..254

\* Its header ends with one, and has no other.
HasLength(f) ==
  /\ Len(f.header) >= 1
  /\ f.header[Len(f.header)] = 256 + Len(f.jpeg)
  /\ \A k \in 1..(Len(f.header) - 1) : f.header[k] \in 0..254

\* An image lies between its two markers.
LEMMA JpegShape ==
  ASSUME NEW p, NEW b \in Bodies, NEW c
  PROVE  LET jpeg == Frame(p, b, c).jpeg
         IN  /\ jpeg \in Seq(0..255)
             /\ Len(jpeg) \in Nat /\ Len(jpeg) >= 4
             /\ jpeg[1] = FF /\ jpeg[2] = 216
             /\ jpeg[Len(jpeg) - 1] = FF /\ jpeg[Len(jpeg)] = 217
<1> DEFINE jpeg == SOI_MARKER \o b \o EOF_MARKER
<1>1. Frame(p, b, c).jpeg = jpeg
  BY DEF Frame
<1>2. b \in Seq(0..255) /\ SOI_MARKER \in Seq(0..255) /\ EOF_MARKER \in Seq(0..255)
  BY StreamAssumption DEF SOI_MARKER, EOF_MARKER, FF
<1>3. /\ Len(SOI_MARKER) = 2 /\ SOI_MARKER[1] = FF /\ SOI_MARKER[2] = 216
      /\ Len(EOF_MARKER) = 2 /\ EOF_MARKER[1] = FF /\ EOF_MARKER[2] = 217
  BY DEF SOI_MARKER, EOF_MARKER
<1>4. /\ jpeg \in Seq(0..255)
      /\ Len(jpeg) = Len(b) + 4
      /\ jpeg[1] = SOI_MARKER[1] /\ jpeg[2] = SOI_MARKER[2]
      /\ jpeg[Len(b) + 3] = EOF_MARKER[1] /\ jpeg[Len(b) + 4] = EOF_MARKER[2]
  <2> DEFINE u == SOI_MARKER \o b
  <2>1. /\ u \in Seq(0..255) /\ Len(u) = Len(b) + 2
        /\ u[1] = SOI_MARKER[1] /\ u[2] = SOI_MARKER[2]
    <3> DEFINE B == 0..255
    <3> HIDE DEF B
    <3>1. SOI_MARKER \in Seq(B) /\ b \in Seq(B)
      BY <1>2 DEF B
    <3>2. /\ u \in Seq(B) /\ Len(u) = Len(SOI_MARKER) + Len(b)
          /\ \A i \in 1..(Len(SOI_MARKER) + Len(b)) :
               u[i] = IF i <= Len(SOI_MARKER) THEN SOI_MARKER[i] ELSE b[i - Len(SOI_MARKER)]
      BY <3>1, ConcatProperties
    <3>3. Len(b) \in Nat
      BY <1>2
    <3> HIDE DEF u
    <3> QED
      BY <1>3, <3>2, <3>3 DEF B
  <2> HIDE DEF u
  <2>2. /\ u \o EOF_MARKER \in Seq(0..255) /\ Len(u \o EOF_MARKER) = Len(b) + 4
        /\ (u \o EOF_MARKER)[1] = u[1] /\ (u \o EOF_MARKER)[2] = u[2]
        /\ (u \o EOF_MARKER)[Len(b) + 3] = EOF_MARKER[1]
        /\ (u \o EOF_MARKER)[Len(b) + 4] = EOF_MARKER[2]
    <3> DEFINE B == 0..255
               v == u \o EOF_MARKER
    <3> HIDE DEF B
    <3>1. u \in Seq(B) /\ EOF_MARKER \in Seq(B)
      BY <1>2, <2>1 DEF B
    <3>2. /\ v \in Seq(B) /\ Len(v) = Len(u) + Len(EOF_MARKER)
          /\ \A i \in 1..(Len(u) + Len(EOF_MARKER)) :
               v[i] = IF i <= Len(u) THEN u[i] ELSE EOF_MARKER[i - Len(u)]
      BY <3>1, ConcatProperties
    <3>3. Len(b) \in Nat
      BY <1>2
    <3> HIDE DEF v
    <3>4. /\ v[1] = u[1] /\ v[2] = u[2]
          /\ v[Len(b) + 3] = EOF_MARKER[1] /\ v[Len(b) + 4] = EOF_MARKER[2]
      BY <1>3, <2>1, <3>2, <3>3
    <3> QED
      BY <1>3, <2>1, <3>2, <3>4 DEF B, v
  <2> QED
    BY <2>1, <2>2 DEF u
<1>5. Len(b) \in Nat /\ (Len(b) + 4) - 1 = Len(b) + 3
  BY <1>2
<1> HIDE DEF jpeg
<1> QED
  BY <1>1, <1>3, <1>4, <1>5

\* The frames the camera sends are good ones, of the one kind or of the other.
LEMMA FrameGood ==
  ASSUME NEW p \in Preambles, NEW b \in Bodies
  PROVE  /\ GoodFrame(Frame(p, b, FALSE)) /\ NoLength(Frame(p, b, FALSE))
         /\ Frame(p, b, FALSE).header = p
         /\ GoodFrame(Frame(p, b, TRUE)) /\ HasLength(Frame(p, b, TRUE))
<1> DEFINE B == 0..254
           C == 0..255
<1>1. p \in Seq(B) /\ B \subseteq Nat /\ \A x \in B : x # FF
  BY StreamAssumption DEF FF
<1>2. /\ p \in Seq(Nat) /\ Len(p) \in Nat
      /\ \A k \in 1..Len(p) : p[k] \in B /\ p[k] \in Nat /\ p[k] # FF
  <2> HIDE DEF B
  <2>1. p \in Seq(Nat)
    BY <1>1, SeqMonotonic
  <2>2. \A k \in 1..Len(p) : p[k] \in B
    BY <1>1, ElementOfSeq
  <2> QED
    BY <1>1, <2>1, <2>2
<1>3. ASSUME NEW c \in BOOLEAN
      PROVE  LET jpeg == Frame(p, b, c).jpeg
             IN  /\ jpeg \in Seq(Nat) /\ Len(jpeg) \in Nat /\ Len(jpeg) >= 4
                 /\ \A k \in 1..Len(jpeg) : jpeg[k] \in C
                 /\ jpeg[1] = FF /\ jpeg[2] = 216
                 /\ jpeg[Len(jpeg) - 1] = FF /\ jpeg[Len(jpeg)] = 217
  <2> DEFINE jpeg == Frame(p, b, c).jpeg
  <2>1. /\ jpeg \in Seq(C) /\ Len(jpeg) \in Nat /\ Len(jpeg) >= 4
        /\ jpeg[1] = FF /\ jpeg[2] = 216
        /\ jpeg[Len(jpeg) - 1] = FF /\ jpeg[Len(jpeg)] = 217
    BY JpegShape
  <2>2. C \subseteq Nat
    OBVIOUS
  <2> HIDE DEF jpeg, C
  <2>3. jpeg \in Seq(Nat)
    BY <2>1, <2>2, SeqMonotonic
  <2>4. \A k \in 1..Len(jpeg) : jpeg[k] \in C
    BY <2>1, ElementOfSeq
  <2> QED
    BY <2>1, <2>3, <2>4 DEF jpeg
<1>4. Frame(p, b, FALSE).header = p
  BY DEF Frame
<1>5. GoodFrame(Frame(p, b, FALSE)) /\ NoLength(Frame(p, b, FALSE))
  <2> DEFINE f == Frame(p, b, FALSE)
  <2> HIDE DEF f, B
  <2>1. f.header = p
    BY <1>4 DEF f
  <2>2. NoLength(f)
    BY <1>2, <2>1 DEF NoLength, B
  <2>3. /\ f.jpeg \in Seq(Nat) /\ Len(f.jpeg) \in Nat /\ Len(f.jpeg) >= 4
        /\ \A k \in 1..Len(f.jpeg) : f.jpeg[k] \in 0..255
        /\ f.jpeg[1] = FF /\ f.jpeg[2] = 216
        /\ f.jpeg[Len(f.jpeg) - 1] = FF /\ f.jpeg[Len(f.jpeg)] = 217
    BY <1>3 DEF f
  <2>4. GoodFrame(f)
    BY <1>2, <2>1, <2>3 DEF GoodFrame
  <2> QED
    BY <2>2, <2>4 DEF f
<1>6. GoodFrame(Frame(p, b, TRUE)) /\ HasLength(Frame(p, b, TRUE))
  <2> DEFINE f == Frame(p, b, TRUE)
             x == 256 + Len(f.jpeg)
  <2>1. f.header = Append(p, x)
    BY DEF Frame, LengthLine
  <2>2. /\ f.jpeg \in Seq(Nat) /\ Len(f.jpeg) \in Nat /\ Len(f.jpeg) >= 4
        /\ \A k \in 1..Len(f.jpeg) : f.jpeg[k] \in 0..255
        /\ f.jpeg[1] = FF /\ f.jpeg[2] = 216
        /\ f.jpeg[Len(f.jpeg) - 1] = FF /\ f.jpeg[Len(f.jpeg)] = 217
    BY <1>3
  <2> HIDE DEF f
  <2>3. x \in Nat /\ x # FF
    BY <2>2 DEF FF
  <2> HIDE DEF x
  <2>4. /\ Append(p, x) \in Seq(Nat)
        /\ Len(Append(p, x)) = Len(p) + 1
        /\ \A k \in 1..Len(p) : Append(p, x)[k] = p[k]
        /\ Append(p, x)[Len(p) + 1] = x
    BY <1>2, <2>3, AppendProperties
  <2> DEFINE q == Append(p, x)
  <2> HIDE DEF q
  <2>5. /\ f.header \in Seq(Nat) /\ Len(f.header) = Len(p) + 1
        /\ \A k \in 1..Len(p) : f.header[k] = p[k]
        /\ f.header[Len(p) + 1] = x
    BY <2>1, <2>4
  <2>6. Len(f.header) \in Nat
    BY <1>2, <2>5
  <2>7. ASSUME NEW k \in 1..Len(f.header)
        PROVE  f.header[k] \in Nat /\ f.header[k] # FF
    <3>1. CASE k \in 1..Len(p)
      <4>1. f.header[k] = p[k]
        BY <2>5, <3>1
      <4> QED
        BY <1>2, <3>1, <4>1
    <3>2. CASE k \notin 1..Len(p)
      <4>1. Len(p) \in Nat /\ Len(f.header) = Len(p) + 1
        BY <1>2, <2>5
      <4>2. k = Len(p) + 1
        BY <3>2, <4>1
      <4> QED
        BY <2>3, <2>5, <4>2
    <3> QED
      BY <3>1, <3>2
  <2>8. HasLength(f)
    <3>1. Len(f.header) >= 1 /\ Len(f.header) - 1 = Len(p)
      BY <1>2, <2>5
    <3>2. f.header[Len(f.header)] = 256 + Len(f.jpeg)
      BY <1>2, <2>5 DEF x
    <3>3. \A k \in 1..(Len(f.header) - 1) : f.header[k] \in 0..254
      BY <1>2, <2>5, <3>1 DEF B
    <3> QED
      BY <3>1, <3>2, <3>3 DEF HasLength
  <2>9. GoodFrame(f)
    BY <2>2, <2>5, <2>6, <2>7 DEF GoodFrame
  <2> QED
    BY <2>8, <2>9 DEF f
<1> QED
  BY <1>4, <1>5, <1>6

\* So is every stream the camera may send.
LEMMA FramesGood ==
  ASSUME WellSent
  PROVE  /\ sent \in Seq([header : Seq(Nat), jpeg : Seq(Nat)])
         /\ Len(sent) \in Nat \ {0}
         /\ \A i \in 1..Len(sent) : GoodFrame(sent[i])
         /\ \/ \A i \in 1..Len(sent) : HasLength(sent[i])
            \/ \E h \in Nat : \A i \in 1..Len(sent) :
                 NoLength(sent[i]) /\ Len(sent[i].header) = h
<1> DEFINE R == [header : Seq(Nat), jpeg : Seq(Nat)]
<1>1. PICK n \in 1..MaxFrames :
          \/ sent \in [1..n -> CountedFrames]
          \/ \E p \in Preambles : sent \in [1..n -> BareFrames(p)]
  BY DEF WellSent
<1>2. n \in Nat \ {0} /\ DOMAIN sent = 1..n /\ sent = [i \in 1..n |-> sent[i]]
  BY <1>1, StreamAssumption
<1>3. \/ \A i \in 1..n : \E p \in Preambles, b \in Bodies : sent[i] = Frame(p, b, TRUE)
      \/ \E p \in Preambles : \A i \in 1..n : \E b \in Bodies : sent[i] = Frame(p, b, FALSE)
  <2>1. \A x \in CountedFrames : \E p \in Preambles, b \in Bodies : x = Frame(p, b, TRUE)
    <3> SUFFICES ASSUME NEW x \in CountedFrames
                 PROVE  \E p \in Preambles, b \in Bodies : x = Frame(p, b, TRUE)
      OBVIOUS
    <3>1. PICK f \in Preambles \X Bodies : x = Frame(f[1], f[2], TRUE)
      BY Zenon DEF CountedFrames
    <3>2. f[1] \in Preambles /\ f[2] \in Bodies
      BY <3>1
    <3> QED
      BY <3>1, <3>2, Zenon
  <2>2. \A p \in Preambles : \A x \in BareFrames(p) : \E b \in Bodies : x = Frame(p, b, FALSE)
    BY Zenon DEF BareFrames
  <2>3. CASE sent \in [1..n -> CountedFrames]
    BY <2>1, <2>3
  <2>4. CASE \E p \in Preambles : sent \in [1..n -> BareFrames(p)]
    <3>1. PICK p \in Preambles : sent \in [1..n -> BareFrames(p)]
      BY <2>4
    <3>2. \A i \in 1..n : sent[i] \in BareFrames(p)
      BY <3>1
    <3>3. \A i \in 1..n : \E b \in Bodies : sent[i] = Frame(p, b, FALSE)
      BY <2>2, <3>2, Zenon
    <3> QED
      BY <3>3, Zenon
  <2> QED
    BY <1>1, <2>3, <2>4
<1>4. \A i \in 1..n : GoodFrame(sent[i])
  BY <1>3, FrameGood, Zenon
<1>5. ASSUME NEW p, NEW b, NEW c, GoodFrame(Frame(p, b, c))
      PROVE  Frame(p, b, c) \in R
  BY <1>5 DEF GoodFrame, Frame
<1>6. \A i \in 1..n : sent[i] \in R
  <2> HIDE DEF R
  <2> QED
    BY <1>3, <1>4, <1>5, Zenon
<1>7. sent \in Seq(R) /\ Len(sent) = n
  <2> HIDE DEF R
  <2> QED
    BY <1>2, <1>6
<1>8. \/ \A i \in 1..n : HasLength(sent[i])
      \/ \E h \in Nat : \A i \in 1..n : NoLength(sent[i]) /\ Len(sent[i].header) = h
  <2>1. CASE \A i \in 1..n : \E p \in Preambles, b \in Bodies : sent[i] = Frame(p, b, TRUE)
    BY <2>1, FrameGood, Zenon
  <2>2. CASE \E p \in Preambles : \A i \in 1..n : \E b \in Bodies : sent[i] = Frame(p, b, FALSE)
    <3>1. PICK p \in Preambles : \A i \in 1..n : \E b \in Bodies : sent[i] = Frame(p, b, FALSE)
      BY <2>2
    <3>2. Len(p) \in Nat
      BY StreamAssumption
    <3>3. \A i \in 1..n : NoLength(sent[i]) /\ sent[i].header = p
      BY <3>1, FrameGood, Zenon
    <3> QED
      BY <3>2, <3>3, Zenon
  <2> QED
    BY <1>3, <2>1, <2>2
<1> QED
  BY <1>2, <1>4, <1>7, <1>8

\* The stream is its frames one after the other: where frame i and its image
\* lie in it, and that they are there.
Layout ==
  /\ bytes \in Seq(Nat)
  /\ Len(sent) \in Nat \ {0} /\ DOMAIN sent = 1..Len(sent)
  /\ EndOf(0) = 0 /\ EndOf(Len(sent)) = Len(bytes)
  /\ \A i \in 0..Len(sent) : EndOf(i) \in 0..Len(bytes)
  /\ \A i \in 1..Len(sent) :
       /\ GoodFrame(sent[i])
       /\ ImageAt(i) = EndOf(i - 1) + Len(sent[i].header)
       /\ EndOf(i) = ImageAt(i) + Len(sent[i].jpeg)
       /\ \A k \in 1..Len(sent[i].header) : bytes[EndOf(i - 1) + k] = sent[i].header[k]
       /\ \A k \in 1..Len(sent[i].jpeg) : bytes[ImageAt(i) + k] = sent[i].jpeg[k]

\* Prefix by prefix, the stream is put together from the frames.
LEMMA PrefixStep ==
  ASSUME WellSent
  PROVE  /\ Prefix(0) = <<>> /\ Prefix(Len(sent)) = bytes
         /\ \A i \in 0..Len(sent) : Prefix(i) \in Seq(Nat)
         /\ \A i \in 1..Len(sent) : Prefix(i) = Prefix(i - 1) \o (sent[i].header \o sent[i].jpeg)
<1> DEFINE R == [header : Seq(Nat), jpeg : Seq(Nat)]
           n == Len(sent)
           part(i) == sent[i].header \o sent[i].jpeg
           parts == [i \in 1..n |-> part(i)]
<1>1. sent \in Seq(R) /\ n \in Nat /\ DOMAIN sent = 1..n
  BY FramesGood
<1>2. ASSUME NEW i \in 1..n
      PROVE  part(i) \in Seq(Nat)
  <2>2. sent[i].header \in Seq(Nat) /\ sent[i].jpeg \in Seq(Nat)
    BY FramesGood DEF GoodFrame
  <2> QED
    BY <2>2, ConcatProperties
<1>3. parts \in Seq(Seq(Nat)) /\ Len(parts) = n
  <2> DEFINE Q == Seq(Nat)
  <2>1. \A i \in 1..n : part(i) \in Q
    BY <1>2
  <2> HIDE DEF Q, n, part
  <2>2. parts \in Seq(Q) /\ Len(parts) = n
    BY <1>1, <2>1
  <2> QED
    BY <2>2 DEF Q
<1>4. ASSUME NEW i \in 0..n
      PROVE  Prefix(i) = FlattenSeq(SubSeq(parts, 1, i))
  <2> DEFINE t == SubSeq(sent, 1, i)
             u == SubSeq(parts, 1, i)
  <2>1. DOMAIN t = 1..i /\ \A j \in 1..i : t[j] = sent[j]
    <3> HIDE DEF R
    <3> QED
      BY <1>1
  <2>2. u = [j \in 1..i |-> part(j)]
    <3> HIDE DEF part, n
    <3> DEFINE Q == Seq(Nat)
    <3>1. parts \in Seq(Q)
      BY <1>3
    <3> HIDE DEF Q
    <3>2. u = [j \in 1..i |-> parts[j]]
      <4> HIDE DEF parts
      <4>1. i \in Nat /\ Len(parts) = n /\ i <= n
        BY <1>1, <1>3
      <4> QED
        BY <3>1, <4>1
    <3>3. \A j \in 1..i : parts[j] = part(j)
      BY <1>1
    <3> HIDE DEF parts
    <3> QED
      BY <3>2, <3>3
  <2>3. [j \in DOMAIN t |-> t[j].header \o t[j].jpeg] = u
    <3> HIDE DEF t, u
    <3> QED
      BY <2>1, <2>2
  <2> HIDE DEF t, u
  <2>4. Bytes(t) = FlattenSeq(u)
    BY <2>3 DEF Bytes
  <2> QED
    BY <2>4 DEF Prefix, t, u
<1>5. /\ FlattenSeq(SubSeq(parts, 1, 0)) = <<>>
      /\ \A i \in 1..n :
           FlattenSeq(SubSeq(parts, 1, i)) = FlattenSeq(SubSeq(parts, 1, i - 1)) \o parts[i]
      /\ \A i \in 0..n : FlattenSeq(SubSeq(parts, 1, i)) \in Seq(Nat)
  <2> HIDE DEF parts, n
  <2> QED
    BY <1>3, FlattenStep
<1>6. Prefix(n) = bytes
  <2>1. SubSeq(sent, 1, n) = sent
    <3> HIDE DEF R
    <3> QED
      BY <1>1
  <2> QED
    BY <2>1 DEF Prefix, WellSent
<1>7. \A i \in 1..n : i \in 0..n /\ i - 1 \in 0..n /\ parts[i] = part(i)
  <2> HIDE DEF part, n
  <2> QED
    BY <1>1
<1>8. 0 \in 0..n
  BY <1>1
<1> HIDE DEF n, parts, part
<1>9. \A i \in 1..n : Prefix(i) = Prefix(i - 1) \o part(i)
  BY <1>4, <1>5, <1>7, Zenon
<1>10. Prefix(0) = <<>> /\ \A i \in 0..n : Prefix(i) \in Seq(Nat)
  BY <1>4, <1>5, <1>8, Zenon
<1> QED
  BY <1>6, <1>9, <1>10 DEF n, part

\* What a prefix holds stays where it is.
LEMMA PrefixKept ==
  ASSUME WellSent, NEW i \in 0..Len(sent), NEW k \in 1..Len(Prefix(i))
  PROVE  /\ Len(bytes) \in Nat /\ Len(Prefix(i)) \in 0..Len(bytes)
         /\ bytes[k] = Prefix(i)[k]
<1> DEFINE n == Len(sent)
           Kept(d) == i + d <= n => /\ Len(Prefix(i)) <= Len(Prefix(i + d))
                                    /\ Prefix(i + d)[k] = Prefix(i)[k]
           T == {d \in Nat : Kept(d)}
<1>1. n \in Nat /\ i \in Nat /\ i <= n
  BY FramesGood
<1>2. \A j \in 0..n : Prefix(j) \in Seq(Nat) /\ Len(Prefix(j)) \in Nat
  BY PrefixStep
<1>3. 0 \in T
  <2>1. i + 0 = i
    BY <1>1
  <2> QED
    BY <1>1, <1>2, <2>1
<1>4. ASSUME NEW d \in Nat, d \in T
      PROVE  d + 1 \in T
  <2> SUFFICES ASSUME i + (d + 1) <= n
               PROVE  /\ Len(Prefix(i)) <= Len(Prefix(i + (d + 1)))
                      /\ Prefix(i + (d + 1))[k] = Prefix(i)[k]
    OBVIOUS
  <2>1. i + d \in 0..n /\ i + (d + 1) \in 1..n /\ i + (d + 1) - 1 = i + d
    BY <1>1
  <2> DEFINE u == Prefix(i + d)
             v == sent[i + (d + 1)].header \o sent[i + (d + 1)].jpeg
             w == Prefix(i + (d + 1))
  <2>2. u \in Seq(Nat) /\ Len(u) \in Nat
    BY <1>2, <2>1
  <2>3. v \in Seq(Nat)
    BY <2>1, FramesGood, ConcatProperties DEF GoodFrame
  <2>4. w = u \o v
    <3> DEFINE j == i + (d + 1)
    <3>1. j \in 1..Len(sent) /\ j - 1 = i + d
      BY <2>1
    <3> HIDE DEF j
    <3>2. Prefix(j) = Prefix(j - 1) \o (sent[j].header \o sent[j].jpeg)
      BY <3>1, PrefixStep
    <3>3. Prefix(j) = Prefix(i + d) \o (sent[j].header \o sent[j].jpeg)
      BY <3>1, <3>2
    <3> QED
      BY <3>3 DEF j
  <2>5. Len(Prefix(i)) <= Len(u) /\ u[k] = Prefix(i)[k] /\ Len(Prefix(i)) \in Nat
    BY <1>1, <1>2, <1>4, <2>1
  <2> HIDE DEF u, v, w
  <2>6. /\ Len(w) = Len(u) + Len(v)
        /\ \A j \in 1..(Len(u) + Len(v)) : w[j] = IF j <= Len(u) THEN u[j] ELSE v[j - Len(u)]
    <3>1. /\ Len(u \o v) = Len(u) + Len(v)
          /\ \A j \in 1..(Len(u) + Len(v)) :
               (u \o v)[j] = IF j <= Len(u) THEN u[j] ELSE v[j - Len(u)]
      BY <2>2, <2>3, ConcatProperties
    <3> QED
      BY <2>4, <3>1, Zenon
  <2>7. Len(v) \in Nat
    BY <2>3
  <2>8. k \in 1..(Len(u) + Len(v)) /\ k <= Len(u) /\ Len(u) <= Len(w)
    BY <2>2, <2>5, <2>6, <2>7
  <2>9. w[k] = u[k]
    BY <2>6, <2>8
  <2>10. Len(Prefix(i)) <= Len(w) /\ w[k] = Prefix(i)[k]
    <3>1. Len(w) \in Nat
      BY <2>2, <2>6, <2>7
    <3> QED
      BY <2>2, <2>5, <2>8, <2>9, <3>1
  <2> QED
    BY <2>10 DEF w
<1>5. \A d \in Nat : d \in T
  <2> HIDE DEF T
  <2> QED
    BY <1>3, <1>4, SetInduction
<1>6. n - i \in Nat /\ i + (n - i) = n
  BY <1>1
<1>7. Kept(n - i)
  BY <1>5, <1>6
<1>8. Prefix(n) = bytes /\ n \in 0..n
  BY <1>1, PrefixStep
<1> HIDE DEF n
<1>9. Len(Prefix(i)) <= Len(bytes) /\ bytes[k] = Prefix(i)[k]
  BY <1>1, <1>6, <1>7, <1>8
<1>10. Len(bytes) \in Nat /\ Len(Prefix(i)) \in Nat
  BY <1>1, <1>2, <1>8
<1> QED
  BY <1>9, <1>10

\* What the camera sends is laid out so.
LEMMA StreamLayout ==
  ASSUME WellSent
  PROVE  Layout
<1> DEFINE n == Len(sent)
<1>1. /\ n \in Nat \ {0} /\ DOMAIN sent = 1..n
      /\ \A i \in 1..n : GoodFrame(sent[i]) /\ i \in 0..n /\ i - 1 \in 0..n
  <2> DEFINE R == [header : Seq(Nat), jpeg : Seq(Nat)]
  <2>1. n \in Nat \ {0} /\ sent \in Seq(R) /\ \A i \in 1..n : GoodFrame(sent[i])
    BY FramesGood
  <2> HIDE DEF R
  <2> QED
    BY <2>1
<1>2. /\ Prefix(0) = <<>> /\ Prefix(n) = bytes
      /\ \A i \in 0..n : Prefix(i) \in Seq(Nat) /\ Len(Prefix(i)) \in Nat
  BY PrefixStep
<1>3. \A i : EndOf(i) = Len(Prefix(i))
  BY DEF EndOf, Prefix
<1>4. bytes \in Seq(Nat) /\ Len(bytes) \in Nat
  BY <1>1, <1>2
<1>5. EndOf(0) = 0 /\ EndOf(n) = Len(bytes)
  BY <1>2, <1>3
<1>6. ASSUME NEW i \in 0..n
      PROVE  EndOf(i) \in 0..Len(bytes)
  <2>1. Len(Prefix(i)) \in Nat
    BY <1>2
  <2>2. CASE Len(Prefix(i)) = 0
    BY <1>3, <1>4, <2>2
  <2>3. CASE Len(Prefix(i)) # 0
    <3>1. 1 \in 1..Len(Prefix(i))
      BY <2>1, <2>3
    <3> QED
      BY <1>3, <3>1, PrefixKept
  <2> QED
    BY <2>2, <2>3
<1>7. ASSUME NEW i \in 1..n
      PROVE  /\ ImageAt(i) = EndOf(i - 1) + Len(sent[i].header)
             /\ EndOf(i) = ImageAt(i) + Len(sent[i].jpeg)
             /\ \A k \in 1..Len(sent[i].header) : bytes[EndOf(i - 1) + k] = sent[i].header[k]
             /\ \A k \in 1..Len(sent[i].jpeg) : bytes[ImageAt(i) + k] = sent[i].jpeg[k]
  <2> DEFINE u == Prefix(i - 1)
             a == sent[i].header
             b == sent[i].jpeg
             v == a \o b
             w == Prefix(i)
  <2>1. u \in Seq(Nat) /\ Len(u) \in Nat /\ w \in Seq(Nat)
    BY <1>1, <1>2
  <2>2. a \in Seq(Nat) /\ Len(a) \in Nat /\ b \in Seq(Nat) /\ Len(b) \in Nat
    BY <1>1 DEF GoodFrame
  <2>3. w = u \o v
    BY PrefixStep
  <2>4. EndOf(i - 1) = Len(u) /\ EndOf(i) = Len(w) /\ ImageAt(i) = Len(w) - Len(b)
    BY <1>3 DEF ImageAt
  <2>5. \A k \in 1..Len(w) : bytes[k] = w[k]
    BY <1>1, PrefixKept
  <2> HIDE DEF u, a, b, w
  <2>6. /\ v \in Seq(Nat) /\ Len(v) = Len(a) + Len(b)
        /\ \A k \in 1..(Len(a) + Len(b)) : v[k] = IF k <= Len(a) THEN a[k] ELSE b[k - Len(a)]
    BY <2>2, ConcatProperties
  <2> HIDE DEF v
  <2>7. /\ Len(w) = Len(u) + Len(v)
        /\ \A k \in 1..(Len(u) + Len(v)) : w[k] = IF k <= Len(u) THEN u[k] ELSE v[k - Len(u)]
    <3>1. v \in Seq(Nat)
      BY <2>6
    <3>2. /\ Len(u \o v) = Len(u) + Len(v)
          /\ \A k \in 1..(Len(u) + Len(v)) :
               (u \o v)[k] = IF k <= Len(u) THEN u[k] ELSE v[k - Len(u)]
      BY <2>1, <3>1, ConcatProperties
    <3> QED
      BY <2>3, <3>2, Zenon
  <2>8. ImageAt(i) = Len(u) + Len(a)
    BY <2>1, <2>2, <2>4, <2>6, <2>7
  <2>9. ASSUME NEW k \in 1..Len(a)
        PROVE  bytes[Len(u) + k] = a[k]
    <3>1. /\ Len(u) + k \in 1..(Len(u) + Len(v)) /\ ~(Len(u) + k <= Len(u)) /\ (Len(u) + k) - Len(u) = k
          /\ k \in 1..(Len(a) + Len(b)) /\ k <= Len(a)
      <4>1. Len(u) \in Nat /\ Len(a) \in Nat /\ Len(b) \in Nat /\ Len(v) = Len(a) + Len(b)
        BY <2>1, <2>2, <2>6
      <4> QED
        BY <4>1
    <3>2. w[Len(u) + k] = v[k]
      BY <2>7, <3>1
    <3>3. v[k] = a[k]
      BY <2>6, <3>1
    <3>4. bytes[Len(u) + k] = w[Len(u) + k]
      BY <2>5, <2>7, <3>1
    <3> QED
      BY <3>2, <3>3, <3>4
  <2>10. ASSUME NEW k \in 1..Len(b)
         PROVE  bytes[(Len(u) + Len(a)) + k] = b[k]
    <3> DEFINE q == (Len(u) + Len(a)) + k
               r == Len(a) + k
    <3>1. /\ q \in 1..(Len(u) + Len(v)) /\ ~(q <= Len(u)) /\ q - Len(u) = r
          /\ r \in 1..(Len(a) + Len(b)) /\ ~(r <= Len(a)) /\ r - Len(a) = k
      BY <2>1, <2>2, <2>6
    <3> HIDE DEF q, r
    <3>2. w[q] = v[r]
      BY <2>7, <3>1
    <3>3. v[r] = b[k]
      BY <2>6, <3>1
    <3>4. bytes[q] = w[q]
      BY <2>5, <2>7, <3>1
    <3>5. bytes[q] = b[k]
      BY <3>2, <3>3, <3>4
    <3> QED
      BY <3>5 DEF q
  <2>11. EndOf(i) = ImageAt(i) + Len(b)
    BY <2>1, <2>2, <2>4, <2>6, <2>7, <2>8
  <2>12. /\ ImageAt(i) = EndOf(i - 1) + Len(a)
         /\ \A k \in 1..Len(a) : bytes[EndOf(i - 1) + k] = a[k]
         /\ \A k \in 1..Len(b) : bytes[ImageAt(i) + k] = b[k]
    BY <2>4, <2>8, <2>9, <2>10
  <2> QED
    BY <2>11, <2>12 DEF a, b
<1> HIDE DEF n
<1>8. \A i \in 0..n : EndOf(i) \in 0..Len(bytes)
  BY <1>6
<1> QED
  BY <1>1, <1>4, <1>5, <1>7, <1>8 DEF Layout, n

\* Where the parts of a frame begin and end, and its markers.
LEMMA FrameAt ==
  ASSUME Layout, NEW i \in 1..Len(sent)
  PROVE  /\ Len(bytes) \in Nat /\ EndOf(i - 1) \in Nat /\ ImageAt(i) \in Nat /\ EndOf(i) \in Nat
         /\ Len(sent[i].header) \in Nat /\ Len(sent[i].jpeg) \in Nat /\ Len(sent[i].jpeg) >= 4
         /\ ImageAt(i) = EndOf(i - 1) + Len(sent[i].header)
         /\ EndOf(i) = ImageAt(i) + Len(sent[i].jpeg)
         /\ EndOf(i) <= Len(bytes)
         /\ \A q \in (EndOf(i - 1) + 1)..ImageAt(i) : bytes[q] # FF
         /\ bytes[ImageAt(i) + 1] = FF /\ bytes[ImageAt(i) + 2] = 216
         /\ bytes[EndOf(i) - 1] = FF /\ bytes[EndOf(i)] = 217
         /\ bytes[EndOf(i) - 2] = sent[i].jpeg[Len(sent[i].jpeg) - 2]
<1> DEFINE H == Len(sent[i].header)
           J == Len(sent[i].jpeg)
           hd == sent[i].header
           jp == sent[i].jpeg
<1>1. Len(bytes) \in Nat /\ i \in 0..Len(sent) /\ i - 1 \in 0..Len(sent)
  BY DEF Layout
<1>2. EndOf(i - 1) \in 0..Len(bytes) /\ EndOf(i) \in 0..Len(bytes)
  BY <1>1 DEF Layout
<1>3. GoodFrame(sent[i])
  BY DEF Layout
<1>4. /\ H \in Nat /\ J \in Nat /\ J >= 4
      /\ \A k \in 1..H : hd[k] # FF
      /\ jp[1] = FF /\ jp[2] = 216 /\ jp[J - 1] = FF /\ jp[J] = 217
  BY <1>3 DEF GoodFrame
<1>5. /\ ImageAt(i) = EndOf(i - 1) + H
      /\ EndOf(i) = ImageAt(i) + J
      /\ \A k \in 1..H : bytes[EndOf(i - 1) + k] = hd[k]
      /\ \A k \in 1..J : bytes[ImageAt(i) + k] = jp[k]
  BY DEF Layout
<1> DEFINE e == EndOf(i - 1)
           a == ImageAt(i)
<1> HIDE DEF H, J, hd, jp, e, a
<1>6. e \in Nat /\ a \in Nat /\ EndOf(i) = a + J /\ a = e + H
  BY <1>1, <1>2, <1>4, <1>5 DEF e, a
<1>7. \A q \in (e + 1)..a : bytes[q] # FF
  <2> SUFFICES ASSUME NEW q \in (e + 1)..a
               PROVE  bytes[q] # FF
    OBVIOUS
  <2>1. q - e \in 1..H /\ e + (q - e) = q
    BY <1>4, <1>6
  <2>2. bytes[e + (q - e)] = hd[q - e]
    BY <1>5, <2>1 DEF e
  <2> QED
    BY <1>4, <2>1, <2>2
<1>8. bytes[a + 1] = FF /\ bytes[a + 2] = 216
  BY <1>4, <1>5 DEF a
<1>9. /\ bytes[a + (J - 1)] = FF /\ bytes[a + J] = 217 /\ bytes[a + (J - 2)] = jp[J - 2]
  <2>1. J - 1 \in 1..J /\ J \in 1..J /\ J - 2 \in 1..J
    BY <1>4
  <2> QED
    BY <1>4, <1>5, <2>1 DEF a
<1>10. a + (J - 1) = EndOf(i) - 1 /\ a + (J - 2) = EndOf(i) - 2
  BY <1>4, <1>6
<1>11. EndOf(i) <= Len(bytes) /\ EndOf(i) \in Nat
  BY <1>1, <1>2
<1>12. bytes[EndOf(i) - 1] = FF /\ bytes[EndOf(i)] = 217 /\ bytes[EndOf(i) - 2] = jp[J - 2]
  BY <1>6, <1>9, <1>10
<1>13. Len(bytes) \in Nat /\ H \in Nat /\ J \in Nat /\ J >= 4
  BY <1>1, <1>4
<1> QED
  BY <1>6, <1>7, <1>8, <1>11, <1>12, <1>13 DEF e, a, H, J, jp

\* The frames end one after the other.
LEMMA EndsGrow ==
  ASSUME Layout, NEW i \in 0..Len(sent), NEW j \in 0..Len(sent), i <= j
  PROVE  EndOf(i) \in Nat /\ EndOf(j) \in Nat /\ EndOf(i) <= EndOf(j)
<1> DEFINE n == Len(sent)
           T == {d \in Nat : i + d <= n => EndOf(i) <= EndOf(i + d)}
<1>1. n \in Nat /\ \A k \in 0..n : EndOf(k) \in Nat
  BY DEF Layout
<1>2. 0 \in T
  <2>1. i + 0 = i
    BY <1>1
  <2> QED
    BY <1>1, <2>1
<1>3. ASSUME NEW d \in Nat, d \in T
      PROVE  d + 1 \in T
  <2> SUFFICES ASSUME i + (d + 1) <= n
               PROVE  EndOf(i) <= EndOf(i + (d + 1))
    OBVIOUS
  <2> DEFINE k == i + (d + 1)
  <2>1. k \in 1..n /\ k - 1 = i + d /\ i + d \in 0..n
    BY <1>1
  <2>2. EndOf(i) <= EndOf(i + d)
    BY <1>3, <2>1
  <2> HIDE DEF k
  <2>3. EndOf(k - 1) <= EndOf(k)
    <3>1. k \in 1..Len(sent)
      BY <2>1
    <3>2. /\ EndOf(k - 1) \in Nat /\ Len(sent[k].header) \in Nat /\ Len(sent[k].jpeg) \in Nat
          /\ ImageAt(k) = EndOf(k - 1) + Len(sent[k].header)
          /\ EndOf(k) = ImageAt(k) + Len(sent[k].jpeg)
      BY <3>1, FrameAt
    <3> QED
      BY <3>2
  <2>4. EndOf(i) \in Nat /\ EndOf(i + d) \in Nat /\ EndOf(k) \in Nat
    BY <1>1, <2>1
  <2>5. EndOf(i) <= EndOf(k)
    BY <2>1, <2>2, <2>3, <2>4
  <2> QED
    BY <2>5 DEF k
<1>4. \A d \in Nat : d \in T
  <2> HIDE DEF T
  <2> QED
    BY <1>2, <1>3, SetInduction
<1>5. j - i \in Nat /\ i + (j - i) = j
  BY <1>1
<1> QED
  BY <1>1, <1>4, <1>5

\* Every byte is in some frame.
LEMMA Locate ==
  ASSUME Layout, NEW q \in 1..Len(bytes)
  PROVE  \E i \in 1..Len(sent) : EndOf(i - 1) < q /\ q <= EndOf(i)
<1> DEFINE n == Len(sent)
           T == {i \in 0..n : q <= EndOf(i)}
<1>1. n \in Nat /\ EndOf(0) = 0 /\ EndOf(n) = Len(bytes) /\ n \in 0..n
      /\ \A i \in 0..n : EndOf(i) \in Nat
  BY DEF Layout
<1>2. n \in T /\ T \subseteq Nat /\ 0 \notin T /\ T \subseteq 0..n
  BY <1>1
<1>3. PICK i \in T : \A k \in T : i <= k
  <2> HIDE DEF T
  <2> QED
    BY <1>2, LeastNumber
<1>4. i \in 1..n /\ i - 1 \in 0..n /\ i - 1 \notin T
  <2> HIDE DEF T
  <2>1. i \in 0..n /\ i # 0
    BY <1>2
  <2> QED
    BY <1>1, <1>3, <2>1
<1>5. EndOf(i - 1) < q
  BY <1>1, <1>4
<1> QED
  BY <1>4, <1>5

\* 0xFF is only in images; in plain ones a start marker is where the image
\* starts, an end marker where it ends.
LEMMA MarkerPlace ==
  ASSUME Layout, NEW q \in 1..(Len(bytes) - 1), bytes[q] = FF,
         bytes[q + 1] = 216 \/ bytes[q + 1] = 217
  PROVE  \E i \in 1..Len(sent) :
           /\ ImageAt(i) < q /\ q < EndOf(i)
           /\ Plain /\ bytes[q + 1] = 216 => q = ImageAt(i) + 1
           /\ Plain /\ bytes[q + 1] = 217 => q = EndOf(i) - 1
<1>0. Len(bytes) \in Nat /\ q \in 1..Len(bytes)
  BY DEF Layout
<1>1. PICK i \in 1..Len(sent) : EndOf(i - 1) < q /\ q <= EndOf(i)
  BY <1>0, Locate
<1> DEFINE J == Len(sent[i].jpeg)
           jp == sent[i].jpeg
           a == ImageAt(i)
           k == q - a
<1>2. EndOf(i - 1) \in Nat /\ a \in Nat /\ J \in Nat /\ J >= 4 /\ EndOf(i) = a + J
  BY FrameAt
<1>3. a < q
  <2>1. \A r \in (EndOf(i - 1) + 1)..a : bytes[r] # FF
    BY FrameAt
  <2>2. q \in Nat
    BY <1>0
  <2> HIDE DEF a
  <2>3. q <= a => q \in (EndOf(i - 1) + 1)..a
    BY <1>1, <1>2, <2>2
  <2> QED
    BY <1>2, <2>1, <2>2, <2>3
<1>4. q < EndOf(i)
  <2>1. q # EndOf(i)
    <3>1. bytes[EndOf(i)] = 217
      BY FrameAt
    <3> QED
      BY <3>1 DEF FF
  <2> HIDE DEF a, J
  <2>2. q \in Nat
    BY <1>0
  <2> QED
    BY <1>1, <1>2, <2>1, <2>2
<1>5. k \in 1..(J - 1) /\ k + 1 \in 1..J /\ k \in 1..J /\ a + k = q /\ a + (k + 1) = q + 1
  <2> HIDE DEF a, J
  <2>1. q \in Nat
    BY <1>0
  <2> QED
    BY <1>2, <1>3, <1>4, <2>1
<1>6. bytes[q] = jp[k] /\ bytes[q + 1] = jp[k + 1]
  <2>1. \A r \in 1..J : bytes[a + r] = jp[r]
    BY DEF Layout
  <2> HIDE DEF a, k, J, jp
  <2> QED
    BY <1>5, <2>1
<1>7. Plain => /\ <<jp[k], jp[k + 1]>> = SOI_MARKER => k = 1
               /\ <<jp[k], jp[k + 1]>> = EOF_MARKER => k = J - 1
  <2>1. i \in DOMAIN sent
    BY DEF Layout
  <2> HIDE DEF k
  <2> QED
    BY <1>5, <2>1 DEF Plain
<1>8. bytes[q + 1] = 216 => <<jp[k], jp[k + 1]>> = SOI_MARKER
  BY <1>6 DEF SOI_MARKER
<1>9. bytes[q + 1] = 217 => <<jp[k], jp[k + 1]>> = EOF_MARKER
  BY <1>6 DEF EOF_MARKER
<1>10. k = 1 => q = a + 1
  BY <1>5
<1>11. k = J - 1 => q = EndOf(i) - 1
  <2> HIDE DEF a, J, k
  <2> QED
    BY <1>2, <1>5
<1> HIDE DEF k, J, jp, a
<1> QED
  BY <1>3, <1>4, <1>7, <1>8, <1>9, <1>10, <1>11 DEF a

-----------------------------------------------------------------------------
(* What the searches of a call find *)

\* The search for a start marker: how far it is, when it is found.
StartSeen(p, s) ==
  /\ s \in Nat /\ s + 2 <= FRAME_MAX_LENGTH /\ p + s + 2 <= Len(bytes)
  /\ bytes[p + s + 1] = FF /\ bytes[p + s + 2] = 216

\* The search for a start marker ends at one, or at the end, or gives up.
LEMMA StartFound ==
  ASSUME Layout, NEW p \in 0..Len(bytes)
  PROVE  LET s == StartOfSequence(p)
         IN  \/ s = Eof /\ Len(bytes) - p < FRAME_MAX_LENGTH
             \/ s = NotFound /\ Len(bytes) - p >= FRAME_MAX_LENGTH
             \/ StartSeen(p, s)
<1> DEFINE e == EndOfSequence(p, <<FF, 216>>, FRAME_MAX_LENGTH)
<1>1. FRAME_MAX_LENGTH \in Nat /\ bytes \in Seq(Nat) /\ FF \in Nat /\ 216 \in Nat /\ FF # 216
  BY StreamAssumption DEF Layout, FF
<1>2. \/ e = Eof /\ Len(bytes) - p < FRAME_MAX_LENGTH
      \/ e = NotFound /\ Len(bytes) - p >= FRAME_MAX_LENGTH
      \/ Found(p, FF, 216, FRAME_MAX_LENGTH, e)
  BY <1>1, SearchSound
<1>3. StartOfSequence(p) = IF e < 0 THEN e ELSE e - 2
  BY DEF StartOfSequence, SOI_MARKER
<1> HIDE DEF e
<1>4. CASE Found(p, FF, 216, FRAME_MAX_LENGTH, e)
  <2>1. /\ e \in 2..FRAME_MAX_LENGTH /\ p + e <= Len(bytes)
        /\ bytes[p + e - 1] = FF /\ bytes[p + e] = 216
    BY <1>4 DEF Found
  <2> DEFINE s == e - 2
  <2>2. s \in Nat /\ p + s + 1 = p + e - 1 /\ p + s + 2 = p + e /\ StartOfSequence(p) = s
        /\ s + 2 = e
    BY <1>1, <1>3, <2>1
  <2> HIDE DEF s
  <2>3. StartSeen(p, s)
    <3>1. s + 2 <= FRAME_MAX_LENGTH
      BY <1>1, <2>1, <2>2
    <3> QED
      BY <2>1, <2>2, <3>1 DEF StartSeen
  <2> QED
    BY <2>2, <2>3
<1>5. CASE e = Eof \/ e = NotFound
  BY <1>2, <1>3, <1>4, <1>5 DEF Eof, NotFound
<1> QED
  BY <1>2, <1>4, <1>5

\* From a place in a header it finds the start of the image, if it gets there.
LEMMA StartInHeader ==
  ASSUME Layout, NEW i \in 1..Len(sent), NEW p \in EndOf(i - 1)..ImageAt(i)
  PROVE  /\ p \in 0..Len(bytes)
         /\ IF ImageAt(i) - p + 2 <= FRAME_MAX_LENGTH
              THEN StartOfSequence(p) = ImageAt(i) - p
              ELSE StartOfSequence(p) = NotFound
<1> DEFINE n == ImageAt(i) - p
           e == EndOfSequence(p, <<FF, 216>>, FRAME_MAX_LENGTH)
           s == StartOfSequence(p)
<1>1. /\ Len(bytes) \in Nat /\ EndOf(i - 1) \in Nat /\ ImageAt(i) \in Nat /\ EndOf(i) \in Nat
      /\ EndOf(i) <= Len(bytes) /\ Len(sent[i].jpeg) \in Nat /\ Len(sent[i].jpeg) >= 4
      /\ EndOf(i) = ImageAt(i) + Len(sent[i].jpeg)
  BY FrameAt
<1>2. /\ \A q \in (EndOf(i - 1) + 1)..ImageAt(i) : bytes[q] # FF
      /\ bytes[ImageAt(i) + 1] = FF /\ bytes[ImageAt(i) + 2] = 216
  BY FrameAt
<1>3. p \in 0..Len(bytes) /\ p \in Nat /\ n \in Nat /\ p + n = ImageAt(i) /\ p + n + 2 <= Len(bytes)
      /\ EndOf(i - 1) <= p /\ ImageAt(i) + 4 <= Len(bytes)
  <2> DEFINE l == Len(bytes)
             b == EndOf(i - 1)
             a == ImageAt(i)
             j == Len(sent[i].jpeg)
  <2>1. l \in Nat /\ b \in Nat /\ a \in Nat /\ j \in Nat /\ j >= 4 /\ a + j <= l /\ p \in b..a
    BY <1>1
  <2> HIDE DEF l, b, a, j
  <2>2. p \in 0..l /\ p \in Nat /\ a - p \in Nat /\ p + (a - p) = a /\ p + (a - p) + 2 <= l
        /\ b <= p /\ a + 4 <= l
    BY <2>1
  <2> QED
    BY <2>2 DEF l, b, a
<1>4. FRAME_MAX_LENGTH \in Nat
  BY StreamAssumption
<1>5. s \in Nat => s >= n
  <2>1. SUFFICES ASSUME StartSeen(p, s), s < n
                 PROVE  FALSE
    <3>1. s = Eof \/ s = NotFound \/ StartSeen(p, s)
      BY <1>3, StartFound
    <3> HIDE DEF s, n
    <3> QED
      BY <1>3, <3>1 DEF Eof, NotFound
  <2> HIDE DEF s, n
  <2>2. s \in Nat /\ bytes[p + s + 1] = FF
    BY <2>1 DEF StartSeen
  <2>3. p + s + 1 \in (EndOf(i - 1) + 1)..ImageAt(i)
    <3> DEFINE b == EndOf(i - 1)
               a == ImageAt(i)
    <3>1. b \in Nat /\ a \in Nat /\ p \in Nat /\ n \in Nat /\ p + n = a /\ b <= p
      BY <1>1, <1>3
    <3> HIDE DEF a, b
    <3>2. p + s + 1 \in (b + 1)..a
      BY <2>1, <2>2, <3>1
    <3> QED
      BY <3>2 DEF a, b
  <2> QED
    BY <1>2, <2>2, <2>3
<1>6. CASE n + 2 <= FRAME_MAX_LENGTH
  <2>1. n = 0 \/ bytes[p + n] # FF
    <3> HIDE DEF n
    <3>1. n # 0 => p + n \in (EndOf(i - 1) + 1)..ImageAt(i)
      BY <1>1, <1>3
    <3> QED
      BY <1>2, <3>1
  <2>2. bytes[p + n + 1] = FF /\ bytes[p + n + 2] = 216
    BY <1>2, <1>3
  <2>3. bytes \in Seq(Nat) /\ FF \in Nat /\ 216 \in Nat /\ FF # 216
    BY DEF Layout, FF
  <2>4. e \in 2..(n + 2)
    <3>1. p \in 0..Len(bytes) /\ n \in Nat /\ p + n + 2 <= Len(bytes)
      BY <1>3
    <3> HIDE DEF n
    <3>2. /\ bytes \in Seq(Nat) /\ p \in 0..Len(bytes) /\ FRAME_MAX_LENGTH \in Nat
          /\ FF \in Nat /\ 216 \in Nat /\ FF # 216 /\ n \in Nat
      BY <1>4, <2>3, <3>1
    <3>3. p + n + 2 <= Len(bytes) /\ n + 2 <= FRAME_MAX_LENGTH
      BY <1>6, <3>1
    <3> HIDE DEF e
    <3>4. e = EndOfSequence(p, <<FF, 216>>, FRAME_MAX_LENGTH)
      BY DEF e
    <3>5. EndOfSequence(p, <<FF, 216>>, FRAME_MAX_LENGTH) \in 2..(n + 2)
      <4>1. Seen(p, FF, 216, FRAME_MAX_LENGTH, n)
        BY <2>1, <2>2, <3>3 DEF Seen
      <4> QED
        BY <3>2, <4>1, SearchSees
    <3> QED
      BY <3>4, <3>5
  <2>5. s = IF e < 0 THEN e ELSE e - 2
    BY DEF StartOfSequence, SOI_MARKER
  <2> HIDE DEF e, s, n
  <2>6. s \in Nat /\ s <= n
    BY <1>3, <2>4, <2>5
  <2> QED
    BY <1>3, <1>5, <1>6, <2>6 DEF s, n
<1>7. CASE ~(n + 2 <= FRAME_MAX_LENGTH)
  <2>1. \/ s = Eof /\ Len(bytes) - p < FRAME_MAX_LENGTH
        \/ s = NotFound
        \/ StartSeen(p, s)
    BY <1>3, StartFound
  <2> HIDE DEF s, n
  <2>2. ~StartSeen(p, s)
    BY <1>3, <1>4, <1>5, <1>7 DEF StartSeen
  <2>3. ~(Len(bytes) - p < FRAME_MAX_LENGTH)
    BY <1>1, <1>3, <1>4, <1>7
  <2> QED
    BY <1>3, <1>7, <2>1, <2>2, <2>3 DEF s, n
<1> QED
  BY <1>3, <1>6, <1>7

\* At the end of the stream it finds nothing.
LEMMA StartAtEnd ==
  ASSUME Layout
  PROVE  StartOfSequence(Len(bytes)) = Eof
<1>1. Len(bytes) \in Nat /\ FRAME_MAX_LENGTH \in Nat /\ FRAME_MAX_LENGTH > 0
  BY StreamAssumption DEF Layout
<1> DEFINE s == StartOfSequence(Len(bytes))
<1>2. \/ s = Eof
      \/ s = NotFound /\ Len(bytes) - Len(bytes) >= FRAME_MAX_LENGTH
      \/ StartSeen(Len(bytes), s)
  <2>1. Len(bytes) \in 0..Len(bytes)
    BY <1>1
  <2> QED
    BY <2>1, StartFound
<1> HIDE DEF s
<1>3. ~StartSeen(Len(bytes), s)
  BY <1>1 DEF StartSeen
<1> QED
  BY <1>1, <1>2, <1>3 DEF s

AllHaveLength == \A i \in 1..Len(sent) : HasLength(sent[i])
NoneHasLength == \A i \in 1..Len(sent) : NoLength(sent[i])

\* The length line of a header is parsed as the length of its image.
LEMMA ParsedCounted ==
  ASSUME Layout, AllHaveLength, NEW i \in 1..Len(sent), pos = EndOf(i - 1)
  PROVE  ParsedLength(Len(sent[i].header)) = Len(sent[i].jpeg)
<1> DEFINE H == Len(sent[i].header)
           J == Len(sent[i].jpeg)
           lines == {q \in pos + 1..pos + H : bytes[q] > 256}
<1>1. pos \in Nat /\ H \in Nat /\ J \in Nat /\ J >= 4
  BY FrameAt
<1>2. H >= 1 /\ bytes[pos + H] = 256 + J
  <2>1. H >= 1 /\ sent[i].header[H] = 256 + J
    BY DEF AllHaveLength, HasLength
  <2>2. \A k \in 1..H : bytes[pos + k] = sent[i].header[k]
    BY DEF Layout
  <2> HIDE DEF H, J
  <2>3. H \in 1..H
    BY <1>1, <2>1
  <2> QED
    BY <2>1, <2>2, <2>3
<1>3. ParsedLength(H) = IF lines = {} THEN NotFound ELSE bytes[Max(lines)] - 256
  BY DEF ParsedLength
<1> HIDE DEF H, J
<1>4. lines \subseteq Nat /\ pos + H \in lines /\ \A q \in lines : q <= pos + H
  BY <1>1, <1>2
<1>5. Max(lines) = pos + H
  <2> HIDE DEF lines
  <2>1. pos + H \in Nat
    BY <1>1
  <2>2. Max(lines) \in lines /\ \A q \in lines : q <= Max(lines)
    BY <1>4, <2>1, MaxIsGreatest
  <2>3. Max(lines) \in Nat /\ Max(lines) <= pos + H /\ pos + H <= Max(lines)
    BY <1>4, <2>2
  <2> QED
    BY <2>1, <2>3
<1> HIDE DEF lines
<1>6. ParsedLength(H) = J
  BY <1>1, <1>2, <1>3, <1>4, <1>5
<1> QED
  BY <1>6 DEF H, J

\* Without length lines there is none to parse.
LEMMA ParsedSearched ==
  ASSUME Layout, NoneHasLength, pos \in Nat, NEW h \in Nat, pos + h <= Len(bytes)
  PROVE  ParsedLength(h) = NotFound
<1>1. Len(bytes) \in Nat /\ bytes \in Seq(Nat)
  BY DEF Layout
<1>2. ASSUME NEW q \in 1..Len(bytes)
      PROVE  bytes[q] \in 0..255
  <2>1. PICK i \in 1..Len(sent) : EndOf(i - 1) < q /\ q <= EndOf(i)
    BY Locate
  <2> DEFINE b == EndOf(i - 1)
             a == ImageAt(i)
             e == EndOf(i)
             H == Len(sent[i].header)
             J == Len(sent[i].jpeg)
  <2>2. b \in Nat /\ a \in Nat /\ H \in Nat /\ J \in Nat /\ a = b + H /\ e = a + J /\ q \in Nat
    BY <1>1, FrameAt
  <2>3. /\ \A k \in 1..H : bytes[b + k] = sent[i].header[k]
        /\ \A k \in 1..J : bytes[a + k] = sent[i].jpeg[k]
    BY DEF Layout
  <2>4. /\ \A k \in 1..H : sent[i].header[k] \in 0..254
        /\ \A k \in 1..J : sent[i].jpeg[k] \in 0..255
    BY DEF Layout, GoodFrame, NoneHasLength, NoLength
  <2>5. b < q /\ q <= e
    BY <2>1
  <2> HIDE DEF b, a, e, H, J
  <2>6. CASE q <= a
    <3>1. PICK k \in 1..H : q = b + k
      <4>1. q - b \in 1..H /\ q = b + (q - b)
        BY <2>2, <2>5, <2>6
      <4> QED
        BY <4>1
    <3>2. bytes[b + k] = sent[i].header[k]
      BY <2>3, <3>1, Zenon
    <3>3. sent[i].header[k] \in 0..254
      <4>1. \A r \in 1..H : sent[i].header[r] \in 0..254
        BY <2>4
      <4> QED
        BY <3>1, <4>1
    <3> QED
      BY <3>1, <3>2, <3>3
  <2>7. CASE ~(q <= a)
    <3>1. PICK k \in 1..J : q = a + k
      <4>1. q - a \in 1..J /\ q = a + (q - a)
        BY <2>2, <2>5, <2>7
      <4> QED
        BY <4>1
    <3>2. bytes[a + k] = sent[i].jpeg[k]
      BY <2>3, <3>1, Zenon
    <3>3. sent[i].jpeg[k] \in 0..255
      <4>1. \A r \in 1..J : sent[i].jpeg[r] \in 0..255
        BY <2>4
      <4> QED
        BY <3>1, <4>1
    <3> QED
      BY <3>1, <3>2, <3>3
  <2> QED
    BY <2>6, <2>7
<1>3. {q \in pos + 1..pos + h : bytes[q] > 256} = {}
  <2> SUFFICES ASSUME NEW q \in pos + 1..pos + h, bytes[q] > 256
               PROVE  FALSE
    OBVIOUS
  <2>1. Len(bytes) \in Nat
    BY <1>1
  <2>2. q \in 1..Len(bytes)
    BY <2>1
  <2> DEFINE x == bytes[q]
  <2>3. x \in 0..255 /\ x > 256
    BY <1>2, <2>2
  <2> HIDE DEF x
  <2> QED
    BY <2>3
<1> QED
  BY <1>3 DEF ParsedLength

\* What a call may rely on when it has to search: a place in the stream, and
\* no previous length or that of an image.
Placed == pos \in 0..Len(bytes) /\ mContentLength \in Int
            /\ (mContentLength = -1 \/ mContentLength >= 2)

\* The search near the previous length looks at as many bytes as that length,
\* from half of it on; without a previous length there is none.
LEMMA HalfLengths ==
  ASSUME Placed
  PROVE  /\ mContentLength = -1 => StartPos = 0 /\ EndPos = -1
         /\ mContentLength # -1 =>
              /\ mContentLength \in Nat /\ mContentLength >= 2
              /\ StartPos \in Nat /\ StartPos >= 1
              /\ 2 * StartPos <= mContentLength /\ mContentLength <= 2 * StartPos + 1
              /\ EndPos = StartPos + mContentLength
<1> DEFINE m == mContentLength
<1>1. m \in Int /\ (m = -1 \/ m >= 2)
  BY DEF Placed
<1>2. StartPos = (IF m < 0 THEN 0 - (0 - m) \div 2 ELSE m \div 2)
  BY DEF StartPos, Half
<1>3. EndPos = (IF 3 * m < 0 THEN 0 - (0 - (3 * m)) \div 2 ELSE (3 * m) \div 2)
  BY DEF EndPos, Half
<1> HIDE DEF m
<1>4. CASE m = -1
  <2>1. StartPos = 0 /\ EndPos = -1
    BY <1>2, <1>3, <1>4
  <2> QED
    BY <1>4, <2>1 DEF m
<1>5. CASE m # -1
  <2>1. m \in Nat /\ m >= 2 /\ StartPos = m \div 2 /\ EndPos = (3 * m) \div 2
    BY <1>1, <1>2, <1>3, <1>5
  <2> DEFINE a == m \div 2
  <2>2. a \in Nat /\ 2 * a <= m /\ m <= 2 * a + 1 /\ a >= 1
    BY <2>1
  <2>3. (3 * m) \div 2 = a + m
    BY <2>1
  <2> HIDE DEF a
  <2> QED
    BY <1>5, <2>1, <2>2, <2>3 DEF m, a
<1> QED
  BY <1>4, <1>5

\* After a header of s bytes: how far ahead of it the search for the end
\* marker begins, and what it finds.
Ahead(s) == IF StartPos - 1 <= Len(bytes) - pos - s THEN StartPos - 1 ELSE Len(bytes) - pos - s

NearFound(s, near) ==
  /\ mContentLength >= 2 /\ near \in 2..mContentLength
  /\ pos + s + (StartPos - 1 + near) <= Len(bytes)
  /\ bytes[pos + s + (StartPos - 1 + near) - 1] = FF
  /\ bytes[pos + s + (StartPos - 1 + near)] = 217

\* How the search near the previous length ends, and how much it read ahead.
LEMMA NearCases ==
  ASSUME Layout, Placed, NEW s \in Nat, pos + s <= Len(bytes)
  PROVE  LET near == NearEnd(s)
         IN  /\ mContentLength = -1 => near = NotFound /\ ReadAhead(s, near) = s
             /\ mContentLength # -1 =>
                  /\ near = EndOfSequence(pos + s + Ahead(s), <<FF, 217>>, mContentLength)
                  /\ \/ near = Eof
                     \/ /\ near = NotFound
                        /\ ReadAhead(s, near) = s + EndPos - 1
                        /\ pos + s + EndPos - 1 <= Len(bytes)
                     \/ /\ NearFound(s, near)
                        /\ ReadAhead(s, near) = s + (StartPos - 1 + near)
<1> DEFINE near == NearEnd(s)
           m == mContentLength
           rest == Len(bytes) - pos - s
<1>1. Len(bytes) \in Nat /\ bytes \in Seq(Nat) /\ pos \in Nat /\ pos <= Len(bytes) /\ rest \in Nat
      /\ m \in Int
  BY DEF Layout, Placed
<1>2. CASE m = -1
  <2>1. StartPos = 0 /\ EndPos = -1
    BY <1>2, HalfLengths
  <2>2. near = NotFound
    BY <2>1 DEF NearEnd
  <2>3. Skipped(s) = 0
    <3>1. Min({-1, rest}) = -1
      BY <1>1, MinOfTwo
    <3>2. Max({0, -1}) = 0
      BY MaxOfTwo
    <3>3. StartPos - 1 = -1
      BY <2>1
    <3> QED
      BY <3>1, <3>2, <3>3 DEF Skipped
  <2>4. Max({0, EndPos - StartPos}) = 0
    <3>1. EndPos - StartPos = -1 /\ Max({0, -1}) = 0
      BY <2>1, MaxOfTwo
    <3> QED
      BY <3>1
  <2>5. ReadAhead(s, near) = s
    BY <2>2, <2>3, <2>4 DEF ReadAhead, NotFound
  <2> QED
    BY <1>2, <2>2, <2>5
<1>3. CASE m # -1
  <2>1. /\ m \in Nat /\ m >= 2 /\ StartPos \in Nat /\ StartPos >= 1 /\ EndPos = StartPos + m
    BY <1>3, HalfLengths
  <2>2. Skipped(s) = Ahead(s) /\ Ahead(s) \in Nat /\ Ahead(s) <= rest /\ Ahead(s) <= StartPos - 1
    <3>1. Min({StartPos - 1, rest}) = Ahead(s)
      <4>1. StartPos - 1 \in Int /\ rest \in Int
        BY <1>1, <2>1
      <4> QED
        BY <4>1, MinOfTwo DEF Ahead
    <3>2. Ahead(s) \in Nat /\ Ahead(s) <= rest /\ Ahead(s) <= StartPos - 1
      <4> HIDE DEF rest
      <4>1. Ahead(s) = IF StartPos - 1 <= rest THEN StartPos - 1 ELSE rest
        BY DEF Ahead, rest
      <4> QED
        BY <1>1, <2>1, <4>1
    <3>3. Max({0, Ahead(s)}) = Ahead(s)
      <4>1. Ahead(s) \in Int /\ 0 \in Int
        BY <3>2
      <4>2. Max({0, Ahead(s)}) = IF 0 >= Ahead(s) THEN 0 ELSE Ahead(s)
        BY <4>1, MaxOfTwo
      <4> QED
        BY <3>2, <4>2
    <3> QED
      BY <3>1, <3>2, <3>3 DEF Skipped
  <2> DEFINE p == pos + s + Ahead(s)
  <2>3. near = EndOfSequence(p, <<FF, 217>>, m)
    <3>1. ~(EndPos <= StartPos) /\ EndPos - StartPos = m
      BY <2>1
    <3> QED
      BY <2>2, <3>1 DEF NearEnd, EOF_MARKER
  <2>4. p \in 0..Len(bytes) /\ p = pos + s + Ahead(s) /\ Len(bytes) - p = rest - Ahead(s)
    BY <1>1, <2>2
  <2>5. FF \in Nat /\ 217 \in Nat /\ FF # 217
    BY DEF FF
  <2> HIDE DEF p, near
  <2>6. \/ near = Eof
        \/ near = NotFound /\ Len(bytes) - p >= m
        \/ Found(p, FF, 217, m, near)
    <3> DEFINE e == EndOfSequence(p, <<FF, 217>>, m)
    <3>1. bytes \in Seq(Nat) /\ p \in 0..Len(bytes) /\ m \in Nat
      BY <1>1, <2>1, <2>4
    <3> HIDE DEF m
    <3>2. \/ e = Eof
          \/ e = NotFound /\ Len(bytes) - p >= m
          \/ Found(p, FF, 217, m, e)
      BY <2>5, <3>1, SearchSound
    <3> QED
      BY <2>3, <3>2 DEF m
  <2>7. Ahead(s) = StartPos - 1 \/ Ahead(s) = rest
    BY DEF Ahead
  <2> HIDE DEF rest, m
  <2>8. ASSUME near = NotFound, Len(bytes) - p >= m
        PROVE  ReadAhead(s, near) = s + EndPos - 1 /\ pos + s + EndPos - 1 <= Len(bytes)
    <3>1. Ahead(s) = StartPos - 1
      BY <1>1, <2>1, <2>2, <2>4, <2>7, <2>8
    <3>2. EndPos - StartPos = m /\ Max({0, m}) = m
      BY <2>1, MaxOfTwo
    <3>3. ReadAhead(s, near) = s + (StartPos - 1) + m
      <4>1. ReadAhead(s, near) = s + Skipped(s) + IF near >= 0 THEN near ELSE Max({0, m})
        BY <3>2 DEF ReadAhead
      <4>2. ~(near >= 0)
        BY <2>8 DEF NotFound
      <4> QED
        BY <2>2, <3>1, <3>2, <4>1, <4>2
    <3> QED
      BY <1>1, <2>1, <2>4, <2>8, <3>1, <3>3
  <2>9. ASSUME Found(p, FF, 217, m, near)
        PROVE  NearFound(s, near) /\ ReadAhead(s, near) = s + (StartPos - 1 + near)
    <3>1. near \in 2..m /\ p + near <= Len(bytes) /\ bytes[p + near - 1] = FF /\ bytes[p + near] = 217
      BY <2>9 DEF Found
    <3>2. Ahead(s) = StartPos - 1
      BY <1>1, <2>1, <2>2, <2>4, <2>7, <3>1
    <3>3. ReadAhead(s, near) = s + (StartPos - 1) + near
      BY <2>1, <2>2, <3>1, <3>2 DEF ReadAhead
    <3>4. p + near = pos + s + (StartPos - 1 + near)
      BY <1>1, <2>1, <2>4, <3>1, <3>2
    <3> DEFINE e == pos + s + (StartPos - 1 + near)
    <3>5. NearFound(s, near)
      <4>1. e = p + near
        BY <3>4, Zenon
      <4>2. /\ pos + s + (StartPos - 1 + near) <= Len(bytes)
            /\ bytes[pos + s + (StartPos - 1 + near) - 1] = FF
            /\ bytes[pos + s + (StartPos - 1 + near)] = 217
        <5>1. p \in Nat /\ near \in Nat /\ StartPos \in Nat /\ pos \in Nat
          BY <1>1, <2>1, <2>4, <3>1
        <5>2. pos + s + (StartPos - 1 + near) - 1 = p + near - 1
          BY <4>1, <5>1
        <5> QED
          BY <3>1, <4>1, <5>2, Zenon
      <4>3. mContentLength >= 2 /\ near \in 2..mContentLength
        BY <2>1, <3>1 DEF m
      <4> QED
        BY <4>2, <4>3, Zenon DEF NearFound
    <3> QED
      BY <2>1, <3>1, <3>3, <3>5
  <2>10. near = EndOfSequence(pos + s + Ahead(s), <<FF, 217>>, m)
    BY <2>3 DEF p
  <2> QED
    BY <1>3, <2>6, <2>8, <2>9, <2>10 DEF near, m
<1> QED
  BY <1>2, <1>3

-----------------------------------------------------------------------------
(* A call that has to search, by the way it ends *)

Stopped(why) == outcome' = why /\ pos' = pos /\ out' = out /\ mContentLength' = mContentLength

Image(at, len) == [at |-> at, len |-> len]

\* The end marker is near the previous length: the image is read, unless more
\* than FRAME_MAX_LENGTH bytes were read ahead.
NearHit(s, near) ==
  LET len == StartPos - 1 + near
  IN  /\ mContentLength # -1
      /\ NearFound(s, near)
      /\ pos' = pos + s + len
      /\ mContentLength' = len
      /\ \/ outcome' = "ioException" /\ out' = out /\ s + len > FRAME_MAX_LENGTH
         \/ outcome' = "frame" /\ out' = Append(out, Image(pos + s, len))
              /\ s + len <= FRAME_MAX_LENGTH

\* It is not, and so many bytes were read ahead.
MissLost(s) ==
  /\ mContentLength # -1
  /\ s + EndPos - 1 > FRAME_MAX_LENGTH
  /\ pos' = pos + s + EndPos - 1 /\ pos' <= Len(bytes)
  /\ mContentLength' = mContentLength
  /\ outcome' = "ioException" /\ out' = out

\* The stream ends before the image does.
Ended ==
  /\ pos' = Len(bytes) /\ outcome' = "ioException" /\ out' = out
  /\ mContentLength' \in Int
  /\ mContentLength' = mContentLength \/ mContentLength' >= 2

\* The image is as long as the end marker is far from the place of the call.
WorstHit(s, worst) ==
  /\ mContentLength # -1 => s + EndPos - 1 <= FRAME_MAX_LENGTH
  /\ Found(pos, FF, 217, FRAME_MAX_LENGTH, worst)
  /\ pos + s + worst <= Len(bytes)
  /\ pos' = pos + s + worst
  /\ mContentLength' = worst
  /\ outcome' = "frame" /\ out' = Append(out, Image(pos + s, worst))

\* There is none.
Crashed(worst) ==
  /\ worst = NotFound /\ outcome' = "indexOutOfBounds" /\ out' = out

\* A call that has to search ends in one of these ways.
LEMMA SearchedCall ==
  ASSUME Layout, NoneHasLength, Placed, ReadMjpegFrame
  PROVE  LET s == StartOfSequence(pos)
             near == NearEnd(s)
             worst == EndOfSequence(pos, <<FF, 217>>, FRAME_MAX_LENGTH)
         IN  /\ sent' = sent /\ bytes' = bytes
             /\ \/ s = Eof /\ Stopped("null")
                \/ s = NotFound /\ Stopped("negativeArraySize")
                \/ /\ StartSeen(pos, s)
                   /\ \/ NearHit(s, near)
                      \/ near = NotFound /\ MissLost(s)
                      \/ Ended
                      \/ near = NotFound /\ WorstHit(s, worst)
                      \/ near = NotFound /\ Crashed(worst)
<1> DEFINE s == StartOfSequence(pos)
           near == NearEnd(s)
           parsed == ParsedLength(s)
           worst == EndOfSequence(pos, <<FF, 217>>, FRAME_MAX_LENGTH)
           image == ImageLength(s, parsed, near)
           Read == \/ NearHit(s, near)
                   \/ near = NotFound /\ MissLost(s)
                   \/ Ended
                   \/ near = NotFound /\ WorstHit(s, worst)
                   \/ near = NotFound /\ Crashed(worst)
<1>1. \/ EndOfStream(s)
      \/ NoStartMarker(s)
      \/ /\ s >= 0
         /\ \/ MarkFails(s, parsed, near)
            \/ /\ ~MarkLost(s, parsed, near)
               /\ SearchFails(s, image) \/ ReadImage(s, image)
  BY DEF ReadMjpegFrame
<1> HIDE DEF s
<1>2. Len(bytes) \in Nat /\ bytes \in Seq(Nat) /\ pos \in Nat /\ pos \in 0..Len(bytes)
      /\ FRAME_MAX_LENGTH \in Nat /\ mContentLength \in Int
      /\ (mContentLength = -1 \/ mContentLength >= 2)
  BY StreamAssumption DEF Layout, Placed
<1>3. sent' = sent /\ bytes' = bytes
  BY <1>1 DEF EndOfStream, NoStartMarker, MarkFails, SearchFails, ReadImage
<1>4. s = Eof \/ s = NotFound \/ StartSeen(pos, s)
  BY <1>2, StartFound DEF s
<1>5. ASSUME s = Eof
      PROVE  Stopped("null")
  BY <1>1, <1>5 DEF EndOfStream, NoStartMarker, Stopped, Eof, NotFound
<1>6. ASSUME s = NotFound
      PROVE  Stopped("negativeArraySize")
  BY <1>1, <1>6 DEF EndOfStream, NoStartMarker, Stopped, Eof, NotFound
<1>7. ASSUME StartSeen(pos, s)
      PROVE  Read
  <2>1. s \in Nat /\ pos + s <= Len(bytes) /\ s + 2 <= FRAME_MAX_LENGTH
    <3>1. s \in Nat /\ pos + s + 2 <= Len(bytes) /\ s + 2 <= FRAME_MAX_LENGTH
      BY <1>7 DEF StartSeen
    <3> QED
      BY <1>2, <3>1
  <2>2. parsed = NotFound
    BY <1>2, <2>1, ParsedSearched
  <2>3. /\ mContentLength = -1 => near = NotFound /\ ReadAhead(s, near) = s
        /\ mContentLength # -1 =>
             \/ near = Eof
             \/ /\ near = NotFound
                /\ ReadAhead(s, near) = s + EndPos - 1
                /\ pos + s + EndPos - 1 <= Len(bytes)
             \/ /\ NearFound(s, near)
                /\ ReadAhead(s, near) = s + (StartPos - 1 + near)
    BY <2>1, NearCases
  <2> HIDE DEF parsed, near, worst, image
  <2>4. /\ mContentLength # -1 => StartPos \in Nat /\ StartPos >= 1 /\ EndPos \in Int
        /\ mContentLength = -1 => StartPos = 0 /\ EndPos = -1
    BY HalfLengths
  <2>5. /\ near >= 0 => image = StartPos - 1 + near
        /\ near = Eof => image = Eof
        /\ near = NotFound => image = worst
    BY <2>2 DEF ImageLength, image, worst, EOF_MARKER, Eof, NotFound
  <2>6. MarkLost(s, parsed, near) <=> near # Eof /\ ReadAhead(s, near) > FRAME_MAX_LENGTH
    BY <2>2 DEF MarkLost
  <2>7. \/ MarkFails(s, parsed, near)
        \/ ~MarkLost(s, parsed, near) /\ SearchFails(s, image)
        \/ ~MarkLost(s, parsed, near) /\ ReadImage(s, image)
    BY <1>1, <2>1 DEF EndOfStream, NoStartMarker, Eof, NotFound
  <2>8. image = Eof /\ SearchFails(s, image) => Ended
    BY <1>2 DEF SearchFails, Ended
  <2>9. CASE near = Eof
    <3>1. ~MarkLost(s, parsed, near) /\ image = Eof
      BY <2>5, <2>6, <2>9
    <3> QED
      BY <2>7, <2>8, <3>1 DEF MarkFails, ReadImage
  <2>10. CASE near = NotFound
    <3> DEFINE R == ReadAhead(s, near)
    <3>1. /\ mContentLength = -1 => R = s
          /\ mContentLength # -1 => R = s + EndPos - 1 /\ pos + s + EndPos - 1 <= Len(bytes)
      BY <2>3, <2>10 DEF Eof, NotFound, NearFound
    <3>2. R \in Int /\ near # Eof /\ ~(near >= 0)
      <4>1. mContentLength # -1 => s + EndPos - 1 \in Int
        BY <2>1, <2>4
      <4> QED
        BY <2>1, <2>10, <3>1, <4>1 DEF Eof, NotFound
    <3>3. ASSUME MarkFails(s, parsed, near)
          PROVE  MissLost(s)
      <4>1. /\ R > FRAME_MAX_LENGTH /\ pos' = pos + R /\ mContentLength' = mContentLength
            /\ outcome' = "ioException" /\ out' = out
        BY <2>6, <3>2, <3>3 DEF MarkFails
      <4> HIDE DEF R
      <4>2. mContentLength # -1
        BY <1>2, <2>1, <3>1, <3>2, <4>1
      <4>3. R = s + EndPos - 1 /\ pos + R <= Len(bytes) /\ pos + R = pos + s + EndPos - 1
        BY <1>2, <2>1, <2>4, <3>1, <4>2
      <4> QED
        BY <4>1, <4>2, <4>3 DEF MissLost
    <3>4. ASSUME ~MarkLost(s, parsed, near), ReadImage(s, image)
          PROVE  Ended \/ WorstHit(s, worst) \/ Crashed(worst)
      <4>1. image = worst /\ worst # Eof
        BY <2>5, <2>10, <3>4 DEF ReadImage
      <4>2. worst = NotFound \/ Found(pos, FF, 217, FRAME_MAX_LENGTH, worst)
        <5>1. FF \in Nat /\ 217 \in Nat /\ FF # 217
          BY DEF FF
        <5> QED
          BY <1>2, <4>1, <5>1, SearchSound DEF worst
      <4>3. mContentLength # -1 => s + EndPos - 1 <= FRAME_MAX_LENGTH
        <5>1. R <= FRAME_MAX_LENGTH
          BY <1>2, <2>6, <3>2, <3>4
        <5> HIDE DEF R
        <5> QED
          BY <3>1, <5>1
      <4>4. /\ mContentLength' = worst
            /\ \/ outcome' = "indexOutOfBounds" /\ out' = out /\ worst < 0
               \/ /\ pos' = Len(bytes) /\ outcome' = "ioException" /\ out' = out
                  /\ pos + s + worst > Len(bytes)
               \/ /\ pos' = pos + s + worst /\ outcome' = "frame" /\ pos + s + worst <= Len(bytes)
                  /\ out' = Append(out, Image(pos + s, worst)) /\ worst >= 0
        BY <3>4, <4>1 DEF ReadImage, Image
      <4>5. CASE worst = NotFound
        <5>1. ~(pos + s + worst > Len(bytes)) /\ ~(worst >= 0)
          BY <1>2, <2>1, <4>5 DEF NotFound
        <5> QED
          BY <4>4, <4>5, <5>1 DEF Crashed
      <4>6. CASE Found(pos, FF, 217, FRAME_MAX_LENGTH, worst)
        <5>1. worst \in Nat /\ worst >= 2
          BY <1>2, <4>6 DEF Found
        <5> QED
          BY <4>3, <4>4, <4>6, <5>1 DEF Ended, WorstHit
      <4> QED
        BY <4>2, <4>5, <4>6
    <3> QED
      BY <2>7, <2>8, <2>10, <3>3, <3>4 DEF SearchFails
  <2>11. CASE mContentLength # -1 /\ NearFound(s, near)
    <3> DEFINE len == StartPos - 1 + near
    <3>1. near \in Nat /\ near >= 2 /\ StartPos \in Nat /\ StartPos >= 1 /\ pos + s + len <= Len(bytes)
      BY <1>2, <2>4, <2>11 DEF NearFound
    <3>2. len \in Nat /\ len >= 2 /\ near >= 0 /\ near # Eof
      BY <3>1 DEF Eof
    <3>3. ReadAhead(s, near) = s + len
      BY <2>3, <2>11, <3>1 DEF Eof, NotFound
    <3>4. image = len
      BY <2>5, <3>2
    <3> HIDE DEF len
    <3>5. ASSUME MarkFails(s, parsed, near)
          PROVE  /\ s + len > FRAME_MAX_LENGTH /\ pos' = pos + s + len /\ mContentLength' = len
                 /\ outcome' = "ioException" /\ out' = out
      <4>1. /\ s + len > FRAME_MAX_LENGTH /\ pos' = pos + (s + len)
            /\ outcome' = "ioException" /\ out' = out
        BY <2>6, <3>3, <3>5 DEF MarkFails
      <4>2. mContentLength' = len
        BY <3>2, <3>5 DEF MarkFails, len
      <4> QED
        BY <1>2, <2>1, <3>2, <4>1, <4>2
    <3>6. ASSUME ~MarkLost(s, parsed, near), ReadImage(s, image)
          PROVE  /\ s + len <= FRAME_MAX_LENGTH /\ pos' = pos + s + len /\ mContentLength' = len
                 /\ outcome' = "frame" /\ out' = Append(out, Image(pos + s, len))
      <4>1. s + len <= FRAME_MAX_LENGTH
        BY <1>2, <2>1, <2>6, <3>2, <3>3, <3>6
      <4>2. ~(len < 0) /\ ~(pos + s + len > Len(bytes))
        BY <1>2, <2>1, <3>1, <3>2 DEF len
      <4> QED
        BY <3>4, <3>6, <4>1, <4>2 DEF ReadImage, Image
    <3>7. ~SearchFails(s, image)
      BY <3>2, <3>4 DEF SearchFails, Eof
    <3>8. NearHit(s, near)
      BY <2>7, <2>11, <3>5, <3>6, <3>7 DEF NearHit, len
    <3> QED
      BY <3>8
  <2> QED
    BY <1>2, <2>3, <2>9, <2>10, <2>11
<1> QED
  BY <1>3, <1>4, <1>5, <1>6, <1>7 DEF s

\* A call at the start of a frame with a length line reads that frame.
LEMMA CountedCall ==
  ASSUME Layout, AllHaveLength, NEW j \in 0..Len(sent), pos = EndOf(j), ReadMjpegFrame
  PROVE  /\ sent' = sent /\ bytes' = bytes
         /\ \/ j = Len(sent) /\ Stopped("null")
            \/ /\ j < Len(sent) /\ Stopped("negativeArraySize")
               /\ Len(sent[j + 1].header) + 2 > FRAME_MAX_LENGTH
            \/ /\ j < Len(sent) /\ outcome' = "frame" /\ pos' = EndOf(j + 1)
               /\ out' = Append(out, Image(ImageAt(j + 1), Len(sent[j + 1].jpeg)))
<1> DEFINE s == StartOfSequence(pos)
           near == NearEnd(s)
           parsed == ParsedLength(s)
           image == ImageLength(s, parsed, near)
<1>1. \/ EndOfStream(s)
      \/ NoStartMarker(s)
      \/ /\ s >= 0
         /\ \/ MarkFails(s, parsed, near)
            \/ /\ ~MarkLost(s, parsed, near)
               /\ SearchFails(s, image) \/ ReadImage(s, image)
  BY DEF ReadMjpegFrame
<1>2. sent' = sent /\ bytes' = bytes
  BY <1>1 DEF EndOfStream, NoStartMarker, MarkFails, SearchFails, ReadImage
<1>3. Len(sent) \in Nat /\ Len(bytes) \in Nat /\ EndOf(Len(sent)) = Len(bytes) /\ FRAME_MAX_LENGTH \in Nat
  BY StreamAssumption DEF Layout
<1>4. CASE j = Len(sent)
  <2>1. s = Eof
    BY <1>3, <1>4, StartAtEnd
  <2> HIDE DEF s
  <2>2. Stopped("null")
    BY <1>1, <2>1 DEF EndOfStream, NoStartMarker, Stopped, Eof, NotFound
  <2> QED
    BY <1>2, <1>4, <2>2
<1>5. CASE j # Len(sent)
  <2> DEFINE i == j + 1
             H == Len(sent[i].header)
             J == Len(sent[i].jpeg)
             a == ImageAt(i)
  <2>1. i \in 1..Len(sent) /\ i - 1 = j /\ j < Len(sent)
    BY <1>3, <1>5
  <2>2. /\ pos \in Nat /\ a \in Nat /\ H \in Nat /\ J \in Nat /\ J >= 4
        /\ a = pos + H /\ EndOf(i) = a + J /\ EndOf(i) <= Len(bytes)
    <3> HIDE DEF i
    <3> QED
      BY <2>1, FrameAt
  <2>3. IF H + 2 <= FRAME_MAX_LENGTH THEN s = H ELSE s = NotFound
    <3>1. pos \in EndOf(i - 1)..a /\ a - pos = H
      <4>1. pos = EndOf(i - 1)
        BY <2>1
      <4> HIDE DEF a, H, i
      <4> QED
        BY <2>2, <4>1
    <3>2. IF ImageAt(i) - pos + 2 <= FRAME_MAX_LENGTH
            THEN s = ImageAt(i) - pos ELSE s = NotFound
      <4> HIDE DEF i
      <4> QED
        BY <2>1, <3>1, StartInHeader
    <3> QED
      BY <3>1, <3>2
  <2>4. CASE ~(H + 2 <= FRAME_MAX_LENGTH)
    <3>1. s = NotFound
      BY <2>3, <2>4
    <3>2. H + 2 > FRAME_MAX_LENGTH
      BY <1>3, <2>2, <2>4
    <3> HIDE DEF s
    <3>3. Stopped("negativeArraySize")
      BY <1>1, <3>1 DEF EndOfStream, NoStartMarker, Stopped, Eof, NotFound
    <3> QED
      BY <1>2, <2>1, <3>2, <3>3
  <2>5. CASE H + 2 <= FRAME_MAX_LENGTH
    <3>1. s = H
      BY <2>3, <2>5
    <3>2. ParsedLength(H) = J
      <4>1. pos = EndOf(i - 1)
        BY <2>1
      <4> HIDE DEF i
      <4> QED
        BY <2>1, <4>1, ParsedCounted
    <3>3. parsed = J
      BY <3>1, <3>2
    <3> HIDE DEF s, parsed, near
    <3>4. image = J /\ ~MarkLost(s, parsed, near) /\ J # Eof
      BY <2>2, <3>3 DEF ImageLength, MarkLost, NotFound, Eof
    <3> HIDE DEF image
    <3>5. ReadImage(s, image)
      BY <1>1, <2>2, <3>1, <3>4
         DEF EndOfStream, NoStartMarker, MarkFails, SearchFails, Eof, NotFound
    <3>6. pos + H = a /\ ~(J < 0) /\ ~(a + J > Len(bytes))
      BY <2>2
    <3>7. outcome' = "frame" /\ pos' = a + J /\ out' = Append(out, Image(a, J))
      <4> HIDE DEF H, J, a, i
      <4> QED
        BY <3>1, <3>4, <3>5, <3>6 DEF ReadImage, Image
    <3> QED
      BY <1>2, <2>1, <2>2, <3>7
  <2> QED
    BY <2>4, <2>5
<1> QED
  BY <1>4, <1>5

-----------------------------------------------------------------------------
(* Streams with lengths come out without a loss *)

\* A stream either gives all lengths or none, and then under one header.
LEMMA Kinds ==
  ASSUME WellSent
  PROVE  \/ AllHaveLength
         \/ /\ NoneHasLength /\ ~AllCounted
            /\ \E h \in Nat : \A i \in 1..Len(sent) : Len(sent[i].header) = h
<1> DEFINE n == Len(sent)
<1>1. /\ n \in Nat \ {0} /\ 1 \in 1..n
      /\ \/ AllHaveLength
         \/ \E h \in Nat : \A i \in 1..n : NoLength(sent[i]) /\ Len(sent[i].header) = h
  BY FramesGood DEF AllHaveLength
<1>2. CASE AllHaveLength
  BY <1>2
<1>3. ASSUME NEW h \in Nat, \A i \in 1..n : NoLength(sent[i]) /\ Len(sent[i].header) = h
      PROVE  ~AllCounted
  <2> SUFFICES ASSUME AllCounted
               PROVE  FALSE
    OBVIOUS
  <2>1. 1 \in DOMAIN sent
    BY <1>1, StreamLayout DEF Layout
  <2>2. PICK k \in 0..Len(sent[1].jpeg) : LengthLine(k) \in ToSet(sent[1].header)
    BY <2>1 DEF AllCounted, IsCounted
  <2>3. sent[1].header \in Seq(Nat) /\ Len(sent[1].jpeg) \in Nat
    BY <1>1, FramesGood DEF GoodFrame
  <2>4. PICK q \in 1..Len(sent[1].header) : sent[1].header[q] = 256 + k
    BY <2>2, <2>3 DEF ToSet, LengthLine
  <2>5. sent[1].header[q] \in 0..254
    BY <1>1, <1>3, <2>4 DEF NoLength
  <2> DEFINE x == sent[1].header[q]
  <2>6. x = 256 + k /\ x \in 0..254 /\ k \in Nat
    BY <2>3, <2>4, <2>5
  <2> HIDE DEF x
  <2> QED
    BY <2>6
<1> QED
  BY <1>1, <1>2, <1>3 DEF NoneHasLength

\* The images of the first n frames, as sent.
AsSent(n) == [k \in 1..n |-> Image(ImageAt(k), Len(sent[k].jpeg))]

\* One more frame is one more image.
LEMMA AsSentStep ==
  ASSUME NEW n \in Nat
  PROVE  /\ Len(AsSent(n)) = n
         /\ Append(AsSent(n), Image(ImageAt(n + 1), Len(sent[n + 1].jpeg))) = AsSent(n + 1)
<1> DEFINE f(k) == Image(ImageAt(k), Len(sent[k].jpeg))
<1>1. AsSent(n) = [k \in 1..n |-> f(k)] /\ AsSent(n + 1) = [k \in 1..(n + 1) |-> f(k)]
  BY DEF AsSent
<1> HIDE DEF f
<1> DEFINE S == {f(k) : k \in 1..(n + 1)}
<1>2. \A k \in 1..(n + 1) : f(k) \in S
  OBVIOUS
<1> HIDE DEF S
<1>3. AsSent(n) \in Seq(S) /\ Len(AsSent(n)) = n
  BY <1>1, <1>2
<1>4. Append(AsSent(n), f(n + 1)) = AsSent(n + 1)
  <2>1. f(n + 1) \in S
    BY <1>2
  <2> DEFINE t == Append(AsSent(n), f(n + 1))
  <2>2. /\ t \in Seq(S) /\ Len(t) = n + 1
        /\ \A k \in 1..n : t[k] = AsSent(n)[k]
        /\ t[n + 1] = f(n + 1)
    BY <1>3, <2>1, AppendProperties
  <2> HIDE DEF t
  <2>3. t = [k \in 1..(n + 1) |-> t[k]]
    BY <2>2
  <2>4. \A k \in 1..(n + 1) : t[k] = f(k)
    BY <1>1, <2>2
  <2>5. t = [k \in 1..(n + 1) |-> f(k)]
    BY <2>3, <2>4
  <2> QED
    BY <1>1, <2>5 DEF t
<1> QED
  BY <1>3, <1>4 DEF f

\* Each call takes one frame, and the reader is always between two.
CountedInv ==
  /\ Len(out) \in 0..Len(sent)
  /\ out = AsSent(Len(out))
  /\ Running => pos = EndOf(Len(out))

\* The stream is well formed,
LEMMA WellSentInit ==
  ASSUME Init
  PROVE  WellSent
BY DEF Init, WellSent

\* and no call changes it.
LEMMA WellSentStep ==
  ASSUME WellSent, [Next]_vars
  PROVE  WellSent' /\ sent' = sent /\ bytes' = bytes
<1>1. sent' = sent /\ bytes' = bytes
  BY DEF Next, vars, ReadMjpegFrame, EndOfStream, NoStartMarker, MarkFails, SearchFails, ReadImage
<1>2. WellSent'
  BY <1>1 DEF WellSent
<1> QED
  BY <1>1, <1>2

\* At first no frame was taken.
LEMMA CountedInit ==
  ASSUME Init
  PROVE  CountedInv
<1>1. WellSent
  BY WellSentInit
<1>2. Len(sent) \in Nat /\ EndOf(0) = 0
  BY <1>1, StreamLayout DEF Layout
<1>3. out = <<>> /\ Len(out) = 0 /\ pos = 0
  BY DEF Init
<1>4. out = AsSent(0)
  BY <1>3 DEF AsSent
<1> QED
  BY <1>2, <1>3, <1>4 DEF CountedInv

\* A call takes the next frame, or is the last.
LEMMA CountedStep ==
  ASSUME WellSent, AllHaveLength, CountedInv, Next
  PROVE  CountedInv'
<1> DEFINE j == Len(out)
           n == Len(sent)
<1>1. Layout /\ Running /\ ReadMjpegFrame
  BY StreamLayout DEF Next, ReadMjpegFrame
<1>2. j \in 0..n /\ out = AsSent(j) /\ pos = EndOf(j) /\ j \in Nat /\ n \in Nat
  BY <1>1 DEF CountedInv, Layout
<1>3. /\ sent' = sent
      /\ \/ j = n /\ Stopped("null")
         \/ j < n /\ Stopped("negativeArraySize")
         \/ /\ j < n /\ outcome' = "frame" /\ pos' = EndOf(j + 1)
            /\ out' = Append(out, Image(ImageAt(j + 1), Len(sent[j + 1].jpeg)))
  BY <1>1, <1>2, CountedCall
<1>4. \A k : EndOf(k)' = EndOf(k) /\ AsSent(k)' = AsSent(k)
  BY <1>3 DEF EndOf, AsSent, ImageAt
<1>5. CASE out' = out /\ outcome' \in {"null", "negativeArraySize"}
  <2>1. ~Running'
    BY <1>5 DEF Running
  <2>2. AsSent(Len(out))' = AsSent(Len(out))
    BY <1>3, <1>5 DEF AsSent, ImageAt, EndOf
  <2> QED
    BY <1>2, <1>3, <1>5, <2>1, <2>2 DEF CountedInv
<1>6. CASE /\ j < n /\ outcome' = "frame" /\ pos' = EndOf(j + 1)
           /\ out' = Append(out, Image(ImageAt(j + 1), Len(sent[j + 1].jpeg)))
  <2>1. out' = AsSent(j + 1) /\ Len(out') = j + 1
    <3>1. j \in Nat /\ j + 1 \in Nat /\ out = AsSent(j)
      BY <1>2
    <3> HIDE DEF j
    <3>2. Append(AsSent(j), Image(ImageAt(j + 1), Len(sent[j + 1].jpeg))) = AsSent(j + 1)
      BY <3>1, AsSentStep
    <3>3. Len(AsSent(j + 1)) = j + 1
      BY <3>1, AsSentStep
    <3>4. out' = Append(out, Image(ImageAt(j + 1), Len(sent[j + 1].jpeg)))
      BY <1>6
    <3> QED
      BY <3>1, <3>2, <3>3, <3>4, Zenon
  <2>2. AsSent(Len(out))' = AsSent(j + 1) /\ EndOf(Len(out))' = EndOf(j + 1)
    BY <1>3, <2>1 DEF AsSent, ImageAt, EndOf
  <2> QED
    BY <1>2, <1>3, <1>6, <2>1, <2>2 DEF CountedInv
<1> QED
  BY <1>3, <1>5, <1>6 DEF Stopped

\* A stream with a length in every header comes out exactly as sent: every
\* image at its place, in order, none lost or cut, whatever bytes it holds.
THEOREM CountedStreamLossless == Spec => []CountedLossless
<1> DEFINE Inv == WellSent /\ (AllHaveLength => CountedInv)
<1>1. Init => Inv
  BY WellSentInit, CountedInit
<1>2. Inv /\ [Next]_vars => Inv'
  <2> SUFFICES ASSUME Inv, [Next]_vars
               PROVE  Inv'
    OBVIOUS
  <2>1. WellSent' /\ sent' = sent
    BY WellSentStep
  <2>2. AllHaveLength' => AllHaveLength
    BY <2>1 DEF AllHaveLength
  <2>3. CASE Next
    BY <2>1, <2>2, <2>3, CountedStep
  <2>4. CASE UNCHANGED vars
    <3>1. CountedInv' = CountedInv
      BY <2>4 DEF vars, CountedInv, Running, AsSent, ImageAt, EndOf
    <3> QED
      BY <2>1, <2>2, <3>1
  <2> QED
    BY <2>3, <2>4
<1>3. Inv => CountedLossless
  <2> SUFFICES ASSUME Inv, AllCounted
               PROVE  out = [i \in 1..Len(out) |-> [at |-> ImageAt(i), len |-> Len(sent[i].jpeg)]]
    BY DEF CountedLossless
  <2>1. AllHaveLength
    BY Kinds
  <2>2. out = AsSent(Len(out))
    BY <2>1 DEF CountedInv
  <2> QED
    BY <2>2 DEF AsSent, Image
<1> QED
  BY <1>1, <1>2, <1>3, PTL DEF Spec

-----------------------------------------------------------------------------
(* The limits: no search gives up before its marker *)

\* All headers have h bytes.
OneHeader(h) == \A i \in 1..Len(sent) : Len(sent[i].header) = h

\* The start marker of an image is seen from any place before it, wherever
\* the limit allows.
LEMMA StartAhead ==
  ASSUME Layout, NEW i \in 1..Len(sent), NEW p \in Nat, p <= ImageAt(i),
         ImageAt(i) - p + 2 <= FRAME_MAX_LENGTH
  PROVE  StartOfSequence(p) # NotFound
<1> DEFINE a == ImageAt(i)
           n == a - p
           s == StartOfSequence(p)
           e == EndOfSequence(p, <<FF, 216>>, FRAME_MAX_LENGTH)
           H == Len(sent[i].header)
           b == EndOf(i - 1)
<1>1. /\ Len(bytes) \in Nat /\ b \in Nat /\ a \in Nat /\ H \in Nat /\ a = b + H /\ a + 4 <= Len(bytes)
      /\ FRAME_MAX_LENGTH \in Nat
  <2>1. /\ Len(bytes) \in Nat /\ b \in Nat /\ a \in Nat /\ H \in Nat /\ a = b + H
        /\ Len(sent[i].jpeg) \in Nat /\ Len(sent[i].jpeg) >= 4 /\ EndOf(i) \in Nat
        /\ EndOf(i) = a + Len(sent[i].jpeg) /\ EndOf(i) <= Len(bytes)
    BY FrameAt
  <2>2. a + 4 <= Len(bytes)
    <3> DEFINE j == Len(sent[i].jpeg)
               z == EndOf(i)
               l == Len(bytes)
    <3>1. j \in Nat /\ j >= 4 /\ z = a + j /\ z <= l /\ a \in Nat /\ l \in Nat
      BY <2>1
    <3> HIDE DEF a, j, z, l
    <3>2. a + 4 <= l
      BY <3>1
    <3> QED
      BY <3>2 DEF l
  <2> QED
    BY <2>1, <2>2, StreamAssumption
<1>2. n \in Nat /\ p + n = a /\ n + 2 <= FRAME_MAX_LENGTH /\ p + n + 2 <= Len(bytes)
      /\ p \in 0..Len(bytes)
  <2>1. p <= a /\ a - p + 2 <= FRAME_MAX_LENGTH
    OBVIOUS
  <2> DEFINE l == Len(bytes)
  <2>2. l \in Nat /\ a \in Nat /\ a + 4 <= l
    BY <1>1
  <2> HIDE DEF a, l
  <2>3. n \in Nat /\ p + n = a /\ n + 2 <= FRAME_MAX_LENGTH /\ p + n + 2 <= l /\ p \in 0..l
    BY <2>1, <2>2
  <2> QED
    BY <2>3 DEF l
<1>3. a >= 1 => bytes[a] # FF
  <2>1. CASE H >= 1
    <3>1. \A q \in (b + 1)..a : bytes[q] # FF
      BY FrameAt
    <3> HIDE DEF a, b, H
    <3> QED
      BY <1>1, <2>1, <3>1
  <2>2. CASE H = 0 /\ i = 1
    <3>1. b = 0
      BY <2>2 DEF Layout
    <3> HIDE DEF a, b, H
    <3> QED
      BY <1>1, <2>2, <3>1
  <2>3. CASE H = 0 /\ i # 1
    <3>1. Len(sent) \in Nat
      BY DEF Layout
    <3>2. i - 1 \in 1..Len(sent)
      BY <2>3, <3>1
    <3>3. bytes[b] = 217
      BY <3>2, FrameAt
    <3> HIDE DEF a, b, H
    <3>4. a = b
      BY <1>1, <2>3
    <3> QED
      BY <3>3, <3>4 DEF FF
  <2> HIDE DEF a, b, H
  <2> QED
    BY <1>1, <2>1, <2>2, <2>3
<1>4. bytes[a + 1] = FF /\ bytes[a + 2] = 216
  BY FrameAt
<1> HIDE DEF a, n
<1>5. Seen(p, FF, 216, FRAME_MAX_LENGTH, n)
  <2>1. n = 0 \/ bytes[p + n] # FF
    BY <1>1, <1>2, <1>3
  <2>2. bytes[p + n + 1] = FF /\ bytes[p + n + 2] = 216
    <3>1. p + n + 1 = a + 1 /\ p + n + 2 = a + 2
      BY <1>1, <1>2
    <3> QED
      BY <1>4, <3>1
  <2> QED
    BY <1>2, <2>1, <2>2 DEF Seen
<1>6. e \in 2..(n + 2)
  <2>1. bytes \in Seq(Nat) /\ FF \in Nat /\ 216 \in Nat /\ FF # 216
    BY DEF Layout, FF
  <2> QED
    BY <1>1, <1>2, <1>5, <2>1, SearchSees
<1>7. s = IF e < 0 THEN e ELSE e - 2
  BY DEF StartOfSequence, SOI_MARKER
<1> HIDE DEF e, s
<1>8. s # NotFound
  BY <1>2, <1>6, <1>7 DEF NotFound
<1> QED
  BY <1>8 DEF s

\* The end marker of an image likewise, unless a fill byte hides it.
LEMMA EndAhead ==
  ASSUME Layout, EndsSeen, NEW i \in 1..Len(sent), NEW p \in Nat, p + 2 <= EndOf(i),
         NEW limit \in Nat, EndOf(i) - p <= limit
  PROVE  EndOfSequence(p, <<FF, 217>>, limit) \in 2..(EndOf(i) - p)
<1> DEFINE z == EndOf(i)
           J == Len(sent[i].jpeg)
           n == z - 2 - p
           e == EndOfSequence(p, <<FF, 217>>, limit)
<1>1. /\ Len(bytes) \in Nat /\ z \in Nat /\ z <= Len(bytes)
      /\ bytes[z - 1] = FF /\ bytes[z] = 217 /\ bytes[z - 2] = sent[i].jpeg[J - 2]
  BY FrameAt
<1>2. sent[i].jpeg[J - 2] # FF
  BY DEF EndsSeen, Layout
<1>3. /\ n \in Nat /\ p + n = z - 2 /\ p + n + 1 = z - 1 /\ p + n + 2 = z /\ n + 2 = z - p
      /\ n + 2 <= limit /\ p + n + 2 <= Len(bytes) /\ p \in 0..Len(bytes)
  <2>1. p + 2 <= z /\ z - p <= limit
    OBVIOUS
  <2> HIDE DEF z
  <2> QED
    BY <1>1, <2>1
<1> HIDE DEF z, n, J
<1>4. Seen(p, FF, 217, limit, n)
  BY <1>1, <1>2, <1>3 DEF Seen
<1>5. e \in 2..(n + 2)
  <2>1. bytes \in Seq(Nat) /\ FF \in Nat /\ 217 \in Nat /\ FF # 217
    BY DEF Layout, FF
  <2> QED
    BY <1>3, <1>4, <2>1, SearchSees
<1> QED
  BY <1>3, <1>5 DEF z

\* A place before the end of the stream is in some frame.
LEMMA PlaceIn ==
  ASSUME Layout, NEW p \in Nat, p < Len(bytes)
  PROVE  \E i \in 1..Len(sent) : EndOf(i - 1) <= p /\ p < EndOf(i)
<1>1. Len(bytes) \in Nat
  BY DEF Layout
<1>2. p + 1 \in 1..Len(bytes)
  BY <1>1
<1>3. PICK i \in 1..Len(sent) : EndOf(i - 1) < p + 1 /\ p + 1 <= EndOf(i)
  BY <1>2, Locate
<1>4. EndOf(i - 1) \in Nat /\ EndOf(i) \in Nat
  BY FrameAt
<1>5. EndOf(i - 1) <= p /\ p < EndOf(i)
  BY <1>3, <1>4
<1> QED
  BY <1>5

\* With frames below the limit no search gives up before the stream ends.
LEMMA WithinLimit ==
  ASSUME Layout, EndsSeen, NEW h \in Nat, OneHeader(h), NEW p \in 0..Len(bytes)
  PROVE  /\ StartOfSequence(p) # NotFound
         /\ EndOfSequence(p, <<FF, 217>>, FRAME_MAX_LENGTH) # NotFound
<1> DEFINE s == StartOfSequence(p)
           e == EndOfSequence(p, <<FF, 217>>, FRAME_MAX_LENGTH)
           l == Len(bytes)
           n == Len(sent)
           J(i) == Len(sent[i].jpeg)
<1>1. /\ l \in Nat /\ n \in Nat /\ n >= 1 /\ p \in Nat /\ p <= l /\ EndOf(n) = l
      /\ bytes \in Seq(Nat) /\ FRAME_MAX_LENGTH \in Nat
  BY StreamAssumption DEF Layout
<1>2. ASSUME NEW i \in 1..n
      PROVE  /\ EndOf(i - 1) \in Nat /\ ImageAt(i) \in Nat /\ EndOf(i) \in Nat
             /\ J(i) \in Nat /\ J(i) >= 4 /\ h + J(i) < FRAME_MAX_LENGTH
             /\ ImageAt(i) = EndOf(i - 1) + h /\ EndOf(i) = ImageAt(i) + J(i)
  <2>1. Len(sent[i].header) = h
    BY DEF OneHeader
  <2>2. Len(sent[i].header) + Len(sent[i].jpeg) < FRAME_MAX_LENGTH
    BY DEF EndsSeen, Layout
  <2> QED
    BY <2>1, <2>2, FrameAt
<1>3. s = NotFound => l - p >= FRAME_MAX_LENGTH
  <2>1. \/ s = Eof
        \/ s = NotFound /\ l - p >= FRAME_MAX_LENGTH
        \/ StartSeen(p, s)
    BY StartFound
  <2>2. StartSeen(p, s) => s \in Nat
    BY DEF StartSeen
  <2> HIDE DEF s, l
  <2> QED
    BY <2>1, <2>2 DEF Eof, NotFound
<1>4. e = NotFound => l - p >= FRAME_MAX_LENGTH
  <2>1. FF \in Nat /\ 217 \in Nat /\ FF # 217
    BY DEF FF
  <2>2. \/ e = Eof
        \/ e = NotFound /\ l - p >= FRAME_MAX_LENGTH
        \/ Found(p, FF, 217, FRAME_MAX_LENGTH, e)
    BY <1>1, <2>1, SearchSound
  <2>3. Found(p, FF, 217, FRAME_MAX_LENGTH, e) => e \in 2..FRAME_MAX_LENGTH
    BY DEF Found
  <2> HIDE DEF e, l
  <2> QED
    BY <2>2, <2>3 DEF Eof, NotFound
<1>5. CASE p = l
  <2> HIDE DEF s, e, l
  <2>1. 1 \in 1..n
    BY <1>1
  <2>2. ~(l - p >= FRAME_MAX_LENGTH)
    <3>1. J(1) \in Nat /\ h + J(1) < FRAME_MAX_LENGTH
      BY <1>2, <2>1
    <3> HIDE DEF J
    <3> QED
      BY <1>1, <1>5, <3>1
  <2> QED
    BY <1>3, <1>4, <2>2 DEF s, e
<1>6. CASE p # l
  <2>1. PICK i \in 1..n : EndOf(i - 1) <= p /\ p < EndOf(i)
    <3>1. p < l
      <4> HIDE DEF l
      <4> QED
        BY <1>1, <1>6
    <3> QED
      BY <1>1, <3>1, PlaceIn
  <2>2. /\ EndOf(i - 1) \in Nat /\ ImageAt(i) \in Nat /\ EndOf(i) \in Nat
        /\ J(i) \in Nat /\ J(i) >= 4 /\ h + J(i) < FRAME_MAX_LENGTH
        /\ ImageAt(i) = EndOf(i - 1) + h /\ EndOf(i) = ImageAt(i) + J(i)
    BY <1>2
  <2>3. i # n => i + 1 \in 1..n /\ (i + 1) - 1 = i
    BY <1>1
  <2>4. i # n => /\ ImageAt(i + 1) \in Nat /\ EndOf(i + 1) \in Nat /\ J(i + 1) \in Nat
                 /\ h + J(i + 1) < FRAME_MAX_LENGTH
                 /\ ImageAt(i + 1) = EndOf(i) + h /\ EndOf(i + 1) = ImageAt(i + 1) + J(i + 1)
    <3> SUFFICES ASSUME i # n
                 PROVE  /\ ImageAt(i + 1) \in Nat /\ EndOf(i + 1) \in Nat /\ J(i + 1) \in Nat
                        /\ h + J(i + 1) < FRAME_MAX_LENGTH
                        /\ ImageAt(i + 1) = EndOf(i) + h
                        /\ EndOf(i + 1) = ImageAt(i + 1) + J(i + 1)
      OBVIOUS
    <3> DEFINE k == i + 1
    <3>1. k \in 1..n /\ k - 1 = i
      BY <2>3
    <3> HIDE DEF k, J
    <3>2. /\ ImageAt(k) \in Nat /\ EndOf(k) \in Nat /\ J(k) \in Nat
          /\ h + J(k) < FRAME_MAX_LENGTH
          /\ ImageAt(k) = EndOf(k - 1) + h /\ EndOf(k) = ImageAt(k) + J(k)
      BY <1>2, <3>1
    <3> QED
      BY <3>1, <3>2 DEF k
  <2> DEFINE b == EndOf(i - 1)
             a == ImageAt(i)
             z == EndOf(i)
             a1 == ImageAt(i + 1)
             z1 == EndOf(i + 1)
             j == J(i)
             j1 == J(i + 1)
  <2>5. /\ b \in Nat /\ a \in Nat /\ z \in Nat /\ j \in Nat /\ j >= 4 /\ h + j < FRAME_MAX_LENGTH
        /\ a = b + h /\ z = a + j /\ b <= p /\ p < z
        /\ i = n => z = l
        /\ i # n => /\ a1 \in Nat /\ z1 \in Nat /\ j1 \in Nat /\ h + j1 < FRAME_MAX_LENGTH
                    /\ a1 = z + h /\ z1 = a1 + j1
    BY <1>1, <2>1, <2>2, <2>4
  <2>6. i \in 1..Len(sent) /\ (i # n => i + 1 \in 1..Len(sent))
    BY <2>3
  <2>7. s # NotFound
    <3>1. CASE p <= a
      <4>1. a - p + 2 <= FRAME_MAX_LENGTH
        <5> HIDE DEF a, b, z, a1, z1, j, j1, n, l
        <5> QED
          BY <1>1, <2>5, <3>1
      <4> QED
        BY <1>1, <2>6, <3>1, <4>1, StartAhead
    <3>2. CASE ~(p <= a) /\ i = n
      <4>1. ~(l - p >= FRAME_MAX_LENGTH)
        <5> HIDE DEF a, b, z, a1, z1, j, j1, n, l
        <5> QED
          BY <1>1, <2>5, <3>2
      <4> QED
        BY <1>3, <4>1
    <3>3. CASE ~(p <= a) /\ i # n
      <4>1. p <= a1 /\ a1 - p + 2 <= FRAME_MAX_LENGTH
        <5> HIDE DEF a, b, z, a1, z1, j, j1, n, l
        <5> QED
          BY <1>1, <2>5, <3>3
      <4>2. i + 1 \in 1..Len(sent)
        BY <2>6, <3>3
      <4> QED
        BY <1>1, <4>1, <4>2, StartAhead
    <3> QED
      BY <3>1, <3>2, <3>3
  <2>8. e # NotFound
    <3>1. CASE p + 2 <= z
      <4>1. z - p <= FRAME_MAX_LENGTH
        <5> HIDE DEF a, b, z, a1, z1, j, j1, n, l
        <5> QED
          BY <1>1, <2>5
      <4>2. e \in 2..(z - p)
        BY <1>1, <2>6, <3>1, <4>1, EndAhead
      <4> HIDE DEF e, z
      <4> QED
        BY <4>2 DEF NotFound
    <3>2. CASE ~(p + 2 <= z) /\ i = n
      <4>1. ~(l - p >= FRAME_MAX_LENGTH)
        <5> HIDE DEF a, b, z, a1, z1, j, j1, n, l
        <5> QED
          BY <1>1, <2>5, <3>2
      <4> QED
        BY <1>4, <4>1
    <3>3. CASE ~(p + 2 <= z) /\ i # n
      <4>1. p + 2 <= z1 /\ z1 - p <= FRAME_MAX_LENGTH
        <5>1. j1 >= 4
          <6>1. i + 1 \in 1..n
            BY <2>3, <3>3
          <6> HIDE DEF n
          <6> QED
            BY <1>2, <6>1
        <5> HIDE DEF a, b, z, a1, z1, j, j1, n, l
        <5> QED
          BY <1>1, <2>5, <3>3, <5>1
      <4>2. i + 1 \in 1..Len(sent)
        BY <2>6, <3>3
      <4>3. e \in 2..(z1 - p)
        BY <1>1, <4>1, <4>2, EndAhead
      <4> HIDE DEF e, z1
      <4> QED
        BY <4>3 DEF NotFound
    <3> QED
      BY <3>1, <3>2, <3>3
  <2> QED
    BY <2>7, <2>8
<1> QED
  BY <1>5, <1>6

-----------------------------------------------------------------------------
(* Every call gets on, and none crashes within the limits *)

\* What a call that searches leaves behind it.
LEMMA SearchedEffect ==
  ASSUME Layout, NoneHasLength, Placed, ReadMjpegFrame
  PROVE  /\ sent' = sent /\ bytes' = bytes
         /\ Running' => Placed' /\ pos' > pos
<1> DEFINE s == StartOfSequence(pos)
           near == NearEnd(s)
           worst == EndOfSequence(pos, <<FF, 217>>, FRAME_MAX_LENGTH)
           l == Len(bytes)
           m == mContentLength
<1>1. sent' = sent /\ bytes' = bytes
  BY SearchedCall
<1>2. l \in Nat /\ pos \in Nat /\ pos <= l /\ m \in Int /\ (m = -1 \/ m >= 2)
  BY DEF Layout, Placed
<1>3. \/ s = Eof /\ Stopped("null")
      \/ s = NotFound /\ Stopped("negativeArraySize")
      \/ /\ StartSeen(pos, s)
         /\ \/ NearHit(s, near)
            \/ near = NotFound /\ MissLost(s)
            \/ Ended
            \/ near = NotFound /\ WorstHit(s, worst)
            \/ near = NotFound /\ Crashed(worst)
  BY SearchedCall
<1>4. StartSeen(pos, s) => s \in Nat /\ pos + s + 2 <= l
  BY DEF StartSeen
<1>5. m # -1 => StartPos \in Nat /\ StartPos >= 1 /\ EndPos = StartPos + m
  BY HalfLengths
<1>6. Placed' <=> pos' \in 0..l /\ mContentLength' \in Int /\ (mContentLength' = -1 \/ mContentLength' >= 2)
  BY <1>1 DEF Placed
<1> SUFFICES ASSUME Running'
             PROVE  Placed' /\ pos' > pos
  BY <1>1
<1>7. outcome' \notin {"null", "negativeArraySize", "indexOutOfBounds"}
  BY DEF Running
<1> HIDE DEF s, near, worst, l, m
<1>8. StartSeen(pos, s)
  BY <1>3, <1>7 DEF Stopped
<1>9. CASE NearHit(s, near)
  <2> DEFINE len == StartPos - 1 + near
  <2>1. m # -1 /\ near \in 2..m /\ pos + s + len <= l /\ pos' = pos + s + len /\ mContentLength' = len
    BY <1>9 DEF NearHit, NearFound, l, m
  <2>2. len \in Nat /\ len >= 2
    BY <1>2, <1>5, <2>1
  <2> HIDE DEF len
  <2> QED
    BY <1>2, <1>4, <1>6, <1>8, <2>1, <2>2
<1>10. CASE MissLost(s)
  <2> DEFINE len == EndPos - 1
  <2>1. m # -1 /\ pos' = pos + s + len /\ pos' <= l /\ mContentLength' = m
    BY <1>10 DEF MissLost, l, m
  <2>2. len \in Nat /\ len >= 2
    BY <1>2, <1>5, <2>1
  <2> HIDE DEF len
  <2> QED
    BY <1>2, <1>4, <1>6, <1>8, <2>1, <2>2
<1>11. CASE Ended
  <2>1. pos' = l /\ mContentLength' \in Int /\ (mContentLength' = m \/ mContentLength' >= 2)
    BY <1>11 DEF Ended, l, m
  <2> QED
    BY <1>2, <1>4, <1>6, <1>8, <2>1
<1>12. CASE WorstHit(s, worst)
  <2>1. /\ worst \in 2..FRAME_MAX_LENGTH /\ pos + s + worst <= l /\ pos' = pos + s + worst
        /\ mContentLength' = worst
    BY <1>12 DEF WorstHit, Found, l
  <2>2. FRAME_MAX_LENGTH \in Nat
    BY StreamAssumption
  <2>3. worst \in Nat /\ worst >= 2
    BY <2>1, <2>2
  <2> QED
    BY <1>2, <1>4, <1>6, <1>8, <2>1, <2>3
<1>13. CASE Crashed(worst)
  BY <1>7, <1>13 DEF Crashed
<1> QED
  BY <1>3, <1>7, <1>9, <1>10, <1>11, <1>12, <1>13 DEF Stopped

\* Between two frames where there are lengths, somewhere in the stream else.
ReaderInv ==
  /\ WellSent
  /\ AllHaveLength => CountedInv
  /\ ~AllHaveLength => (Running => Placed)

\* It holds at first,
LEMMA ReaderInit ==
  ASSUME Init
  PROVE  ReaderInv
<1>1. WellSent
  BY WellSentInit
<1>2. bytes \in Seq(Nat) /\ Len(bytes) \in Nat
  BY <1>1, StreamLayout DEF Layout
<1>3. pos = 0 /\ mContentLength = -1
  BY DEF Init
<1>4. Placed
  BY <1>2, <1>3 DEF Placed
<1> QED
  BY <1>1, <1>4, CountedInit DEF ReaderInv

\* The invariant is kept, and the call moves on in the stream.
LEMMA ReaderStep ==
  ASSUME ReaderInv, Next
  PROVE  ReaderInv' /\ (pos' > pos \/ ~Running')
<1>1. WellSent /\ Layout /\ Running /\ ReadMjpegFrame
  BY StreamLayout DEF ReaderInv, Next, ReadMjpegFrame
<1>2. WellSent' /\ sent' = sent
  BY <1>1, WellSentStep
<1>3. AllHaveLength' <=> AllHaveLength
  BY <1>2 DEF AllHaveLength
<1>4. CASE AllHaveLength
  <2> DEFINE j == Len(out)
             n == Len(sent)
  <2>1. CountedInv /\ CountedInv'
    BY <1>1, <1>4, CountedStep DEF ReaderInv
  <2>2. j \in 0..n /\ pos = EndOf(j) /\ n \in Nat
    BY <1>1, <2>1 DEF CountedInv, Layout
  <2>3. \/ Stopped("null")
        \/ Stopped("negativeArraySize")
        \/ j < n /\ pos' = EndOf(j + 1)
    <3> HIDE DEF j
    <3> QED
      BY <1>1, <1>4, <2>2, CountedCall
  <2>4. j < n => EndOf(j) < EndOf(j + 1)
    <3> SUFFICES ASSUME j < n
                 PROVE  EndOf(j) < EndOf(j + 1)
      OBVIOUS
    <3> DEFINE i == j + 1
    <3>1. i \in 1..n /\ i - 1 = j
      BY <2>2
    <3> HIDE DEF i, j
    <3>2. /\ EndOf(i - 1) \in Nat /\ Len(sent[i].header) \in Nat /\ Len(sent[i].jpeg) \in Nat
          /\ Len(sent[i].jpeg) >= 4 /\ ImageAt(i) = EndOf(i - 1) + Len(sent[i].header)
          /\ EndOf(i) = ImageAt(i) + Len(sent[i].jpeg) /\ ImageAt(i) \in Nat
      BY <1>1, <3>1, FrameAt
    <3>3. EndOf(i - 1) < EndOf(i)
      BY <3>2
    <3> QED
      BY <3>1, <3>3 DEF i
  <2>5. EndOf(j) \in Nat /\ (j < n => EndOf(j + 1) \in Nat)
    <3>1. j < n => j + 1 \in 0..n
      BY <2>2
    <3>2. \A k \in 0..n : EndOf(k) \in 0..Len(bytes)
      BY <1>1 DEF Layout
    <3> HIDE DEF j, n
    <3> QED
      BY <2>2, <3>1, <3>2
  <2>6. pos' > pos \/ ~Running'
    BY <2>2, <2>3, <2>4, <2>5 DEF Stopped, Running
  <2> QED
    BY <1>2, <1>3, <1>4, <2>1, <2>6 DEF ReaderInv
<1>5. CASE ~AllHaveLength
  <2>1. NoneHasLength /\ Placed
    BY <1>1, <1>5, Kinds DEF ReaderInv
  <2>2. Running' => Placed' /\ pos' > pos
    BY <1>1, <2>1, SearchedEffect
  <2> QED
    BY <1>2, <1>3, <1>5, <2>2 DEF ReaderInv
<1> QED
  BY <1>4, <1>5

\* and between the calls.
LEMMA ReaderStutter ==
  ASSUME ReaderInv, UNCHANGED vars
  PROVE  ReaderInv'
<1> USE DEF vars
<1>1. WellSent' /\ (AllHaveLength' <=> AllHaveLength)
  BY DEF ReaderInv, WellSent, AllHaveLength
<1>2. CountedInv' = CountedInv
  BY DEF CountedInv, Running, AsSent, ImageAt, EndOf
<1>3. (Running => Placed)' <=> (Running => Placed)
  BY DEF Placed, Running
<1> QED
  BY <1>1, <1>2, <1>3 DEF ReaderInv

\* The reader is at all times between two frames of a stream with lengths, at
\* some place of a stream without, with a previous length that makes sense.
THEOREM ReaderInvariant == Spec => []ReaderInv
<1>1. Init => ReaderInv
  BY ReaderInit
<1>2. ReaderInv /\ [Next]_vars => ReaderInv'
  BY ReaderStep, ReaderStutter
<1> QED
  BY <1>1, <1>2, PTL DEF Spec

\* Each call consumes something or is the last: the retry of the decoder after
\* an IOException never finds the stream where it was.
THEOREM EachCallProgresses == Spec => CallsProgress
<1>1. ReaderInv /\ [Next]_vars => [pos' > pos \/ ~Running']_vars
  BY ReaderStep
<1> QED
  BY <1>1, ReaderInvariant, PTL DEF Spec, CallsProgress

\* Within the limits the process never ends: no failed search reaches the
\* array that is made for the header or the read of the image.
THEOREM WithinLimitsNoCrash == Spec => []NoCrash
<1> DEFINE Safe == outcome \notin {"negativeArraySize", "indexOutOfBounds"}
           Fits == HeadersFit /\ (AllCounted \/ EndsSeen)
<1>1. Init => NoCrash
  BY DEF Init, NoCrash
<1>2. ASSUME ReaderInv, Next, Fits
      PROVE  Safe'
  <2>1. WellSent /\ Layout /\ Running /\ ReadMjpegFrame
    BY <1>2, StreamLayout DEF ReaderInv, Next, ReadMjpegFrame
  <2>2. CASE AllHaveLength
    <3> DEFINE j == Len(out)
               n == Len(sent)
    <3>1. j \in 0..n /\ pos = EndOf(j) /\ n \in Nat
      BY <1>2, <2>1, <2>2 DEF ReaderInv, CountedInv, Layout
    <3>2. \/ Stopped("null")
          \/ j < n /\ Len(sent[j + 1].header) + 2 > FRAME_MAX_LENGTH
          \/ outcome' = "frame"
      <4> HIDE DEF j
      <4> QED
        BY <2>1, <2>2, <3>1, CountedCall
    <3>3. j < n => ~(Len(sent[j + 1].header) + 2 > FRAME_MAX_LENGTH)
      <4> SUFFICES ASSUME j < n
                   PROVE  ~(Len(sent[j + 1].header) + 2 > FRAME_MAX_LENGTH)
        OBVIOUS
      <4> DEFINE i == j + 1
      <4>1. i \in 1..n
        BY <3>1
      <4> HIDE DEF i, j
      <4>2. i \in DOMAIN sent /\ Len(sent[i].header) \in Nat /\ FRAME_MAX_LENGTH \in Nat
        BY <2>1, <4>1, StreamAssumption DEF Layout, GoodFrame
      <4>3. Len(SOI_MARKER) = 2
        BY DEF SOI_MARKER
      <4>4. Len(sent[i].header) + 2 <= FRAME_MAX_LENGTH
        BY <1>2, <4>2, <4>3 DEF HeadersFit
      <4>5. ~(Len(sent[i].header) + 2 > FRAME_MAX_LENGTH)
        BY <4>2, <4>4
      <4> QED
        BY <4>5 DEF i
    <3> QED
      BY <3>2, <3>3 DEF Stopped
  <2>3. CASE ~AllHaveLength
    <3>1. /\ NoneHasLength /\ Placed /\ EndsSeen
          /\ \E h \in Nat : \A i \in 1..Len(sent) : Len(sent[i].header) = h
      BY <1>2, <2>1, <2>3, Kinds DEF ReaderInv
    <3>2. PICK h \in Nat : OneHeader(h)
      BY <3>1 DEF OneHeader
    <3>3. /\ StartOfSequence(pos) # NotFound
          /\ EndOfSequence(pos, <<FF, 217>>, FRAME_MAX_LENGTH) # NotFound
      <4>1. pos \in 0..Len(bytes)
        BY <3>1 DEF Placed
      <4> QED
        BY <2>1, <3>1, <3>2, <4>1, WithinLimit
    <3>4. \/ Stopped("null")
          \/ NearHit(StartOfSequence(pos), NearEnd(StartOfSequence(pos)))
          \/ MissLost(StartOfSequence(pos))
          \/ Ended
          \/ WorstHit(StartOfSequence(pos), EndOfSequence(pos, <<FF, 217>>, FRAME_MAX_LENGTH))
      BY <2>1, <3>1, <3>3, SearchedCall DEF Crashed
    <3> QED
      BY <3>4 DEF Stopped, NearHit, MissLost, Ended, WorstHit
  <2> QED
    BY <2>2, <2>3
<1>3. ReaderInv /\ NoCrash /\ [Next]_vars => NoCrash'
  <2> SUFFICES ASSUME ReaderInv, NoCrash, [Next]_vars
               PROVE  NoCrash'
    OBVIOUS
  <2>1. sent' = sent
    BY WellSentStep DEF ReaderInv
  <2>2. Fits' = Fits
    BY <2>1 DEF HeadersFit, AllCounted, IsCounted, EndsSeen
  <2>3. CASE Next
    <3>1. Fits => Safe'
      BY <1>2, <2>3
    <3> QED
      BY <2>2, <3>1 DEF NoCrash
  <2>4. CASE UNCHANGED vars
    BY <2>2, <2>4 DEF NoCrash, vars
  <2> QED
    BY <2>3, <2>4
<1> QED
  BY <1>1, <1>3, ReaderInvariant, PTL DEF Spec

-----------------------------------------------------------------------------
(* Plain images come out whole *)

\* A start marker is where an image starts.
LEMMA PlainStart ==
  ASSUME Layout, Plain, NEW p \in Nat, NEW s \in Nat, StartSeen(p, s)
  PROVE  \E i \in 1..Len(sent) : p + s = ImageAt(i)
<1>1. /\ p + s + 2 <= Len(bytes) /\ bytes[p + s + 1] = FF /\ bytes[p + s + 2] = 216
      /\ Len(bytes) \in Nat
  BY DEF StartSeen, Layout
<1> DEFINE q == p + s + 1
<1>2. q \in 1..(Len(bytes) - 1) /\ q + 1 = p + s + 2 /\ p + s = q - 1
  BY <1>1
<1>3. bytes[q] = FF /\ bytes[q + 1] = 216
  BY <1>1, <1>2
<1> HIDE DEF q
<1>4. PICK i \in 1..Len(sent) : q = ImageAt(i) + 1
  BY <1>2, <1>3, MarkerPlace
<1>5. ImageAt(i) \in Nat
  BY FrameAt
<1> QED
  BY <1>2, <1>4, <1>5

\* And an end marker where one ends.
LEMMA PlainEnd ==
  ASSUME Layout, Plain, NEW q \in 2..Len(bytes), bytes[q - 1] = FF, bytes[q] = 217
  PROVE  \E i \in 1..Len(sent) : q = EndOf(i)
<1> DEFINE r == q - 1
<1>1. Len(bytes) \in Nat
  BY DEF Layout
<1>2. r \in 1..(Len(bytes) - 1) /\ r + 1 = q
  BY <1>1
<1>3. bytes[r] = FF /\ bytes[r + 1] = 217
  BY <1>2
<1> HIDE DEF r
<1>4. PICK i \in 1..Len(sent) : r = EndOf(i) - 1
  BY <1>2, <1>3, MarkerPlace
<1>5. EndOf(i) \in Nat
  BY FrameAt
<1>6. q = EndOf(i)
  BY <1>2, <1>4, <1>5
<1> QED
  BY <1>6

\* What ends after a place in or after a frame ends no sooner than the frame.
LEMMA EndOrder ==
  ASSUME Layout, NEW i \in 1..Len(sent), NEW k \in 1..Len(sent), NEW p \in Nat,
         EndOf(i - 1) <= p, p < EndOf(k)
  PROVE  EndOf(i) \in Nat /\ EndOf(k) \in Nat /\ EndOf(i) <= EndOf(k)
<1> DEFINE n == Len(sent)
<1>1. n \in Nat
  BY DEF Layout
<1>2. i \in 0..n /\ k \in 0..n /\ i - 1 \in 0..n
  BY <1>1
<1>3. EndOf(i) \in Nat /\ EndOf(k) \in Nat /\ EndOf(i - 1) \in Nat
  BY <1>2, EndsGrow, FrameAt
<1>4. k <= i - 1 => EndOf(k) <= EndOf(i - 1)
  BY <1>2, EndsGrow
<1>5. ~(k <= i - 1)
  BY <1>3, <1>4
<1>6. i <= k
  BY <1>1, <1>2, <1>5
<1> QED
  BY <1>2, <1>3, <1>6, EndsGrow

AtHeader(p) == \E i \in 1..Len(sent) : EndOf(i - 1) <= p /\ p <= ImageAt(i)

\* After a frame there is the next header, or the end of the stream.
LEMMA AfterFrame ==
  ASSUME Layout, NEW h \in Nat, OneHeader(h), NEW i \in 1..Len(sent),
         NEW d \in 0..h, EndOf(i) + d <= Len(bytes)
  PROVE  AtHeader(EndOf(i) + d) \/ EndOf(i) + d = Len(bytes)
<1> DEFINE n == Len(sent)
           p == EndOf(i) + d
<1>1. n \in Nat /\ EndOf(n) = Len(bytes) /\ Len(bytes) \in Nat /\ EndOf(i) \in Nat
  BY FrameAt DEF Layout
<1>2. CASE i = n
  <2>1. p = Len(bytes)
    BY <1>1, <1>2
  <2> QED
    BY <2>1
<1>3. CASE i # n
  <2> DEFINE k == i + 1
  <2>1. k \in 1..n /\ k - 1 = i
    BY <1>1, <1>3
  <2> HIDE DEF k
  <2>2. ImageAt(k) = EndOf(k - 1) + Len(sent[k].header) /\ Len(sent[k].header) = h
    BY <2>1, FrameAt DEF OneHeader
  <2>3. EndOf(k - 1) <= p /\ p <= ImageAt(k)
    BY <1>1, <2>1, <2>2
  <2> QED
    BY <2>1, <2>3 DEF AtHeader
<1> QED
  BY <1>2, <1>3

\* A reader that lost the place: it is not in a header, but what it would read
\* ahead before a miss near the previous length is beyond the limit, so that
\* it never measures an image from where it is.
Lost(h) == mContentLength # -1 /\ h + EndPos - 1 > FRAME_MAX_LENGTH

Somewhere(h) == AtHeader(pos) \/ pos = Len(bytes) \/ Lost(h)

\* An image handed on: from the start of one that was sent, with all of it.
Whole(image) == \E i \in 1..Len(sent) : image.at = ImageAt(i) /\ image.len >= Len(sent[i].jpeg)

Images == [at : Nat, len : Nat]

\* Where the parts of a frame are when all headers have h bytes.
LEMMA EvenFrame ==
  ASSUME Layout, NEW h \in Nat, OneHeader(h), NEW i \in 1..Len(sent)
  PROVE  /\ EndOf(i - 1) \in Nat /\ ImageAt(i) \in Nat /\ EndOf(i) \in Nat /\ Len(bytes) \in Nat
         /\ Len(sent[i].jpeg) \in Nat /\ Len(sent[i].jpeg) >= 4
         /\ ImageAt(i) = EndOf(i - 1) + h
         /\ EndOf(i) = ImageAt(i) + Len(sent[i].jpeg)
         /\ EndOf(i) <= Len(bytes)
<1>1. Len(sent[i].header) = h
  BY DEF OneHeader
<1> QED
  BY <1>1, FrameAt

\* From a header the start marker is at most the header away, from elsewhere
\* farther.
LEMMA HeaderAway ==
  ASSUME Layout, NEW h \in Nat, OneHeader(h), NEW p \in 0..Len(bytes),
         NEW s \in Nat, s = StartOfSequence(p), StartSeen(p, s),
         NEW k \in 1..Len(sent), p + s = ImageAt(k)
  PROVE  IF AtHeader(p) THEN s <= h /\ EndOf(k - 1) <= p
                        ELSE s > h
<1> DEFINE b == EndOf(k - 1)
           a == ImageAt(k)
<1>1. p \in Nat /\ b \in Nat /\ a \in Nat /\ a = b + h /\ p + s = a
  <2>1. b \in Nat /\ a \in Nat /\ a = b + h /\ Len(bytes) \in Nat
    BY EvenFrame
  <2> HIDE DEF b
  <2> QED
    BY <2>1
<1>2. CASE AtHeader(p)
  <2>1. PICK i \in 1..Len(sent) : EndOf(i - 1) <= p /\ p <= ImageAt(i)
    BY <1>2 DEF AtHeader
  <2> DEFINE c == EndOf(i - 1)
             d == ImageAt(i)
  <2>2. c \in Nat /\ d \in Nat /\ d = c + h /\ c <= p /\ p <= d
    BY <2>1, EvenFrame
  <2>3. s = d - p
    <3>1. p \in c..d
      <4> HIDE DEF c, d
      <4> QED
        BY <1>1, <2>2
    <3>2. s = d - p \/ s = NotFound
      BY <3>1, StartInHeader
    <3> HIDE DEF d
    <3> QED
      BY <3>2 DEF NotFound
  <2> HIDE DEF a, b, c, d
  <2>4. s <= h /\ b <= p
    BY <1>1, <2>2, <2>3
  <2> QED
    BY <1>2, <2>4 DEF b
<1>3. CASE ~AtHeader(p)
  <2>1. p <= a
    <3> HIDE DEF a, b
    <3> QED
      BY <1>1
  <2>2. ~(b <= p)
    BY <1>3, <2>1 DEF AtHeader
  <2> HIDE DEF a, b
  <2>3. s > h
    BY <1>1, <2>2
  <2> QED
    BY <1>3, <2>3
<1> QED
  BY <1>2, <1>3

\* A call that hands an image on hands on a whole one, and a call after which
\* another may come leaves the reader somewhere it knows, or lost.
Landed(h) == AtHeader(pos') \/ pos' = Len(bytes) \/ Lost(h)'

\* Found near the previous length, an image is whole.
LEMMA NearWhole ==
  ASSUME Layout, Plain, Placed, NEW h \in Nat, OneHeader(h), NEW s, StartSeen(pos, s),
         NEW i \in 1..Len(sent), pos + s = ImageAt(i), NEW near, NearHit(s, near)
  PROVE  Whole(Image(pos + s, StartPos - 1 + near)) /\ StartPos - 1 + near \in Nat /\ Landed(h)
<1> DEFINE len == StartPos - 1 + near
           q == pos + s + len
           l == Len(bytes)
           a == ImageAt(i)
<1>1. mContentLength # -1 /\ near \in 2..mContentLength /\ pos' = q /\ q <= l
  BY DEF NearHit, NearFound
<1>2. s \in Nat /\ pos \in Nat /\ l \in Nat
  BY DEF StartSeen, Placed, Layout
<1>3. StartPos \in Nat /\ StartPos >= 1 /\ mContentLength \in Nat
  BY <1>1, HalfLengths
<1>4. len \in Nat /\ len >= 2
  BY <1>1, <1>3
<1>5. q \in 2..l /\ q \in Nat /\ bytes[q - 1] = FF /\ bytes[q] = 217
  <2>1. bytes[pos + s + (len - 1)] = FF /\ bytes[q] = 217
    BY DEF NearHit, NearFound
  <2> HIDE DEF len, l
  <2>2. q \in 2..l /\ q \in Nat /\ pos + s + (len - 1) = q - 1
    BY <1>1, <1>2, <1>4
  <2> QED
    BY <2>1, <2>2
<1> HIDE DEF len
<1>6. PICK k \in 1..Len(sent) : q = EndOf(k)
  <2> HIDE DEF q
  <2> QED
    BY <1>5, PlainEnd
<1>7. EndOf(i - 1) \in Nat /\ a \in Nat /\ EndOf(i - 1) <= a /\ EndOf(i) = a + Len(sent[i].jpeg)
      /\ Len(sent[i].jpeg) \in Nat
  <2>1. EndOf(i - 1) \in Nat /\ a \in Nat /\ a = EndOf(i - 1) + h /\ Len(sent[i].jpeg) \in Nat
        /\ EndOf(i) = a + Len(sent[i].jpeg)
    BY EvenFrame
  <2> HIDE DEF a
  <2> QED
    BY <2>1
<1>8. q = a + len /\ a < q
  <2>1. pos + s = a
    OBVIOUS
  <2> HIDE DEF a
  <2> QED
    BY <1>4, <1>7, <2>1
<1> HIDE DEF q, a
<1>9. EndOf(i) <= q
  BY <1>6, <1>7, <1>8, EndOrder DEF a
<1>10. len >= Len(sent[i].jpeg)
  BY <1>4, <1>7, <1>8, <1>9
<1>11. AtHeader(q) \/ q = Len(bytes)
  <2>1. EndOf(k) \in Nat /\ 0 \in 0..h /\ EndOf(k) + 0 = EndOf(k) /\ EndOf(k) <= Len(bytes)
    BY EvenFrame
  <2>2. AtHeader(EndOf(k) + 0) \/ EndOf(k) + 0 = Len(bytes)
    BY <2>1, AfterFrame
  <2> QED
    BY <1>6, <2>1, <2>2
<1>12. Landed(h)
  BY <1>1, <1>11 DEF Landed
<1>13. Whole(Image(pos + s, len))
  BY <1>10 DEF Whole, Image
<1> QED
  BY <1>4, <1>12, <1>13 DEF len

\* Measured from the place of the call, it is whole too: a lost reader never
\* gets there.
LEMMA WorstWhole ==
  ASSUME Layout, Plain, Placed, NEW h \in Nat, OneHeader(h), Somewhere(h),
         NEW s, s = StartOfSequence(pos), StartSeen(pos, s),
         NEW i \in 1..Len(sent), pos + s = ImageAt(i), NEW worst, WorstHit(s, worst)
  PROVE  Whole(Image(pos + s, worst)) /\ worst \in Nat /\ Landed(h)
<1> DEFINE q == pos + worst
           l == Len(bytes)
           a == ImageAt(i)
           M == FRAME_MAX_LENGTH
<1>1. /\ worst \in 2..M /\ q <= l /\ bytes[pos + (worst - 1)] = FF /\ bytes[q] = 217
      /\ mContentLength # -1 => s + EndPos - 1 <= M
      /\ pos + s + worst <= l /\ pos' = pos + s + worst
  BY DEF WorstHit, Found
<1>2. s \in Nat /\ pos \in Nat /\ l \in Nat /\ M \in Nat /\ worst \in Nat /\ pos + s + 2 <= l
  <2>1. s \in Nat /\ pos \in Nat /\ l \in Nat /\ M \in Nat /\ pos + s + 2 <= l
    BY StreamAssumption DEF StartSeen, Placed, Layout
  <2> QED
    BY <1>1, <2>1
<1> HIDE DEF M
<1>3. AtHeader(pos) /\ s <= h /\ EndOf(i - 1) <= pos
  <2>1. IF AtHeader(pos) THEN s <= h /\ EndOf(i - 1) <= pos ELSE s > h
    <3>1. pos \in 0..Len(bytes)
      BY DEF Placed
    <3> QED
      BY <1>2, <3>1, HeaderAway
  <2>2. ASSUME ~AtHeader(pos)
        PROVE  FALSE
    <3>1. Lost(h)
      BY <1>2, <2>2 DEF Somewhere
    <3>2. mContentLength # -1 /\ h + EndPos - 1 > M
      BY <3>1 DEF Lost, M
    <3>3. EndPos \in Nat
      BY <3>2, HalfLengths
    <3> QED
      BY <1>1, <1>2, <2>1, <2>2, <3>2, <3>3
  <2> QED
    BY <2>1, <2>2
<1>4. q \in 2..l /\ q \in Nat /\ pos < q /\ bytes[q - 1] = FF
  <2> HIDE DEF l
  <2>1. q \in 2..l /\ q \in Nat /\ pos < q /\ pos + (worst - 1) = q - 1
    BY <1>1, <1>2
  <2> QED
    BY <1>1, <2>1
<1>5. PICK k \in 1..Len(sent) : q = EndOf(k)
  <2> HIDE DEF q
  <2> QED
    BY <1>1, <1>4, PlainEnd
<1>6. EndOf(i) <= EndOf(k) /\ EndOf(i) \in Nat /\ EndOf(k) \in Nat
  BY <1>2, <1>3, <1>4, <1>5, EndOrder
<1>7. worst >= Len(sent[i].jpeg)
  <2> DEFINE J == Len(sent[i].jpeg)
  <2>1. EndOf(i) = a + J /\ a \in Nat /\ J \in Nat
    BY EvenFrame
  <2>2. pos + s = a
    OBVIOUS
  <2> HIDE DEF a, J
  <2>3. worst >= J
    BY <1>2, <1>5, <1>6, <2>1, <2>2
  <2> QED
    BY <2>3 DEF J
<1>8. pos' = EndOf(k) + s /\ s \in 0..h
  BY <1>1, <1>2, <1>3, <1>5
<1>9. AtHeader(EndOf(k) + s) \/ EndOf(k) + s = Len(bytes)
  BY <1>1, <1>8, AfterFrame
<1>10. Landed(h)
  BY <1>8, <1>9 DEF Landed
<1>11. Whole(Image(pos + s, worst))
  BY <1>7 DEF Whole, Image
<1> QED
  BY <1>2, <1>10, <1>11

\* So is whatever a call hands on.
LEMMA PlainCall ==
  ASSUME Layout, NoneHasLength, Plain, Placed, NEW h \in Nat, OneHeader(h), Somewhere(h),
         ReadMjpegFrame
  PROVE  /\ Running' => Landed(h)
         /\ \/ out' = out
            \/ \E image \in Images : Whole(image) /\ out' = Append(out, image)
<1> DEFINE s == StartOfSequence(pos)
           near == NearEnd(s)
           worst == EndOfSequence(pos, <<FF, 217>>, FRAME_MAX_LENGTH)
<1>1. /\ sent' = sent /\ bytes' = bytes
      /\ \/ s = Eof /\ Stopped("null")
         \/ s = NotFound /\ Stopped("negativeArraySize")
         \/ /\ StartSeen(pos, s)
            /\ \/ NearHit(s, near)
               \/ near = NotFound /\ MissLost(s)
               \/ Ended
               \/ near = NotFound /\ WorstHit(s, worst)
               \/ near = NotFound /\ Crashed(worst)
  BY SearchedCall
<1> HIDE DEF near, worst
<1>2. CASE Stopped("null") \/ Stopped("negativeArraySize") \/ Crashed(worst)
  BY <1>2 DEF Stopped, Crashed, Running
<1>3. CASE Ended
  BY <1>3 DEF Ended, Landed
<1>4. ASSUME StartSeen(pos, s), NearHit(s, near) \/ MissLost(s) \/ WorstHit(s, worst)
      PROVE  /\ Landed(h)
             /\ \/ out' = out
                \/ \E image \in Images : Whole(image) /\ out' = Append(out, image)
  <2>1. s \in Nat /\ pos \in Nat /\ pos \in 0..Len(bytes) /\ pos + s + 2 <= Len(bytes)
        /\ Len(bytes) \in Nat /\ FRAME_MAX_LENGTH \in Nat
    BY <1>4, StreamAssumption DEF StartSeen, Placed, Layout
  <2>2. PICK i \in 1..Len(sent) : pos + s = ImageAt(i)
    BY <1>4, <2>1, PlainStart
  <2>3. pos + s \in Nat
    BY <2>1
  <2>4. CASE NearHit(s, near)
    <3> DEFINE len == StartPos - 1 + near
    <3>1. Whole(Image(pos + s, len)) /\ len \in Nat /\ Landed(h)
      BY <1>4, <2>2, <2>4, NearWhole
    <3>2. Image(pos + s, len) \in Images
      BY <2>3, <3>1 DEF Image, Images
    <3>3. out' = out \/ out' = Append(out, Image(pos + s, len))
      BY <2>4 DEF NearHit
    <3> QED
      BY <3>1, <3>2, <3>3
  <2>5. CASE WorstHit(s, worst)
    <3>1. Whole(Image(pos + s, worst)) /\ worst \in Nat /\ Landed(h)
      BY <1>4, <2>2, <2>5, WorstWhole
    <3>2. Image(pos + s, worst) \in Images
      BY <2>3, <3>1 DEF Image, Images
    <3>3. out' = Append(out, Image(pos + s, worst))
      BY <2>5 DEF WorstHit
    <3> QED
      BY <3>1, <3>2, <3>3
  <2>6. CASE MissLost(s)
    <3>1. /\ mContentLength # -1 /\ s + EndPos - 1 > FRAME_MAX_LENGTH
          /\ mContentLength' = mContentLength /\ out' = out
      BY <2>6 DEF MissLost
    <3>2. EndPos' = EndPos /\ EndPos \in Nat
      BY <3>1, HalfLengths DEF EndPos
    <3>3. Lost(h)
      <4>1. CASE AtHeader(pos)
        <5>1. s <= h
          BY <1>4, <2>1, <2>2, <4>1, HeaderAway
        <5> HIDE DEF s
        <5>2. h + EndPos - 1 > FRAME_MAX_LENGTH
          BY <2>1, <3>1, <3>2, <5>1
        <5> QED
          BY <3>1, <5>2 DEF Lost
      <4>2. CASE ~AtHeader(pos)
        <5>1. pos # Len(bytes)
          <6> HIDE DEF s
          <6> QED
            BY <2>1
        <5> QED
          BY <4>2, <5>1 DEF Somewhere
      <4> QED
        BY <4>1, <4>2
    <3>4. Lost(h)'
      BY <3>1, <3>2, <3>3 DEF Lost
    <3> QED
      BY <3>1, <3>4 DEF Landed
  <2> QED
    BY <1>4, <2>4, <2>5, <2>6
<1> QED
  BY <1>1, <1>2, <1>3, <1>4

\* Of a stream of plain images without lengths: what was handed on is whole,
\* and the reader is somewhere it knows, or lost.
PlainInv ==
  /\ out \in Seq(Images)
  /\ \A j \in 1..Len(out) : Whole(out[j])
  /\ Running => \E h \in Nat : OneHeader(h) /\ Somewhere(h)

WholeInv == ReaderInv /\ (~AllHaveLength /\ Plain => PlainInv)

\* No image has come out yet, and the reader is at the first header.
LEMMA PlainInit ==
  ASSUME Init, ~AllHaveLength
  PROVE  PlainInv
<1>1. WellSent /\ Layout
  BY WellSentInit, StreamLayout
<1>2. PICK h \in Nat : OneHeader(h)
  BY <1>1, Kinds DEF OneHeader
<1>3. pos = 0 /\ out = <<>>
  BY DEF Init
<1>4. out \in Seq(Images) /\ Len(out) = 0
  BY <1>3
<1>5. AtHeader(pos)
  <2>1. 1 \in 1..Len(sent) /\ EndOf(0) = 0 /\ 1 - 1 = 0
    BY <1>1 DEF Layout
  <2>2. ImageAt(1) \in Nat /\ EndOf(1 - 1) = 0
    BY <1>1, <2>1, FrameAt
  <2>3. EndOf(1 - 1) <= pos /\ pos <= ImageAt(1)
    BY <1>3, <2>2
  <2> QED
    BY <2>1, <2>3 DEF AtHeader
<1> QED
  BY <1>2, <1>4, <1>5 DEF PlainInv, Somewhere

\* It is kept: what a call appends is whole.
LEMMA PlainStep ==
  ASSUME ReaderInv, ~AllHaveLength, Plain, PlainInv, Next
  PROVE  PlainInv'
<1>1. WellSent /\ Layout /\ Running /\ ReadMjpegFrame /\ NoneHasLength /\ Placed
  BY StreamLayout, Kinds DEF ReaderInv, Next, ReadMjpegFrame
<1>2. sent' = sent /\ bytes' = bytes
  BY <1>1, WellSentStep
<1>3. PICK h \in Nat : OneHeader(h) /\ Somewhere(h)
  BY <1>1 DEF PlainInv
<1>4. /\ Running' => Landed(h)
      /\ \/ out' = out
         \/ \E image \in Images : Whole(image) /\ out' = Append(out, image)
  BY <1>1, <1>3, PlainCall
<1>5. /\ \A image : Whole(image)' = Whole(image)
      /\ Landed(h) => Somewhere(h)'
      /\ OneHeader(h)' = OneHeader(h)
  BY <1>2 DEF Whole, Landed, Somewhere, AtHeader, OneHeader, ImageAt, EndOf
<1>6. (Running => \E g \in Nat : OneHeader(g) /\ Somewhere(g))'
  BY <1>3, <1>4, <1>5
<1>7. out \in Seq(Images) /\ \A j \in 1..Len(out) : Whole(out[j])
  BY DEF PlainInv
<1>8. out' \in Seq(Images) /\ \A j \in 1..Len(out') : Whole(out'[j])
  <2>1. CASE out' = out
    BY <1>7, <2>1
  <2>2. ASSUME NEW image \in Images, Whole(image), out' = Append(out, image)
        PROVE  out' \in Seq(Images) /\ \A j \in 1..Len(out') : Whole(out'[j])
    <3> DEFINE n == Len(out)
    <3> HIDE DEF Images
    <3>1. /\ out' \in Seq(Images) /\ Len(out') = n + 1 /\ out'[n + 1] = image
          /\ \A j \in 1..n : out'[j] = out[j]
      BY <1>7, <2>2, AppendProperties
    <3>2. n \in Nat
      BY <1>7
    <3>3. \A j \in 1..(n + 1) : j \in 1..n \/ j = n + 1
      BY <3>2
    <3> QED
      BY <1>7, <2>2, <3>1, <3>3
  <2> QED
    BY <1>4, <2>1, <2>2
<1>9. (\A j \in 1..Len(out) : Whole(out[j]))'
  BY <1>2, <1>8 DEF Whole, ImageAt, EndOf
<1> QED
  BY <1>6, <1>8, <1>9 DEF PlainInv, Images

\* Whatever the reader had to search for, each image handed to the decoder
\* starts where one that was sent starts, and holds all of it.
THEOREM ImagesComeWhole == Spec => []ImagesAreWhole
<1>1. Init => WholeInv
  BY ReaderInit, PlainInit DEF WholeInv
<1>2. WholeInv /\ [Next]_vars => WholeInv'
  <2> SUFFICES ASSUME WholeInv, [Next]_vars
               PROVE  WholeInv'
    OBVIOUS
  <2>1. ReaderInv' /\ sent' = sent
    BY ReaderStep, ReaderStutter, WellSentStep DEF WholeInv, ReaderInv
  <2>2. AllHaveLength' = AllHaveLength /\ Plain' = Plain
    BY <2>1 DEF AllHaveLength, Plain
  <2>3. CASE Next
    BY <2>1, <2>2, <2>3, PlainStep DEF WholeInv
  <2>4. CASE UNCHANGED vars
    <3>1. PlainInv' = PlainInv
      BY <2>4 DEF vars, PlainInv, Running, OneHeader, Somewhere, Lost, AtHeader, Whole, EndPos,
                  ImageAt, EndOf, Images
    <3> QED
      BY <2>1, <2>2, <3>1 DEF WholeInv
  <2> QED
    BY <2>3, <2>4
<1>3. WholeInv => ImagesAreWhole
  <2> SUFFICES ASSUME WholeInv, AllCounted \/ Plain, NEW j \in DOMAIN out
               PROVE  \E i \in DOMAIN sent : out[j].at = ImageAt(i) /\ out[j].len >= Len(sent[i].jpeg)
    BY DEF ImagesAreWhole
  <2>1. Layout /\ DOMAIN sent = 1..Len(sent)
    BY StreamLayout DEF WholeInv, ReaderInv, Layout
  <2>2. CASE AllHaveLength
    <3> DEFINE n == Len(out)
    <3>1. CountedInv
      BY <2>2 DEF WholeInv, ReaderInv
    <3>2. n \in 0..Len(sent) /\ out = AsSent(n) /\ Len(sent) \in Nat
      BY <2>1, <3>1 DEF CountedInv, Layout
    <3> HIDE DEF n
    <3>3. j \in 1..n
      BY <3>2 DEF AsSent
    <3>4. out[j] = Image(ImageAt(j), Len(sent[j].jpeg)) /\ j \in 1..Len(sent)
      BY <3>2, <3>3 DEF AsSent
    <3>5. Len(sent[j].jpeg) \in Nat
      BY <2>1, <3>4, FrameAt
    <3> QED
      BY <2>1, <3>4, <3>5 DEF Image
  <2>3. CASE ~AllHaveLength
    <3>1. Plain
      BY <2>3, Kinds DEF WholeInv, ReaderInv
    <3>2. out \in Seq(Images) /\ \A k \in 1..Len(out) : Whole(out[k])
      BY <2>3, <3>1 DEF WholeInv, PlainInv
    <3> HIDE DEF Images
    <3>3. j \in 1..Len(out)
      BY <3>2
    <3> QED
      BY <2>1, <3>2, <3>3 DEF Whole
  <2> QED
    BY <2>2, <2>3
<1> QED
  BY <1>1, <1>2, <1>3, PTL DEF Spec

-----------------------------------------------------------------------------
(* Streams that are searched come out frame by frame *)

\* Before frame i: in its header, with a previous length that is at most one
\* header too long.
InStep(h, i) ==
  /\ EndOf(i - 1) <= pos /\ pos <= ImageAt(i)
  /\ IF i = 1 THEN mContentLength = -1
              ELSE mContentLength \in 2..(h + Len(sent[i - 1].jpeg))

\* What the streams in question have in common.
Searched(h) == Layout /\ NoneHasLength /\ EndsSeen /\ Similar /\ Plain /\ OneHeader(h)

\* The search near the previous length starts before the end marker of the
\* image, so it finds that one or none, and a miss is far from the limit.
LEMMA NearInStep ==
  ASSUME NEW h \in Nat, Searched(h), Placed, NEW i \in 1..Len(sent), InStep(h, i),
         mContentLength # -1, NEW s \in Nat, pos + s = ImageAt(i),
         NEW near, near = NearEnd(s)
  PROVE  /\ NearFound(s, near) => StartPos - 1 + near = Len(sent[i].jpeg)
         /\ near = NotFound => StartPos + mContentLength - 1 < Len(sent[i].jpeg)
         /\ StartPos \in Nat /\ mContentLength \in Nat
<1> USE DEF Searched
<1> DEFINE n == Len(sent)
           m == mContentLength
           t == StartPos
           a == ImageAt(i)
           z == EndOf(i)
           J == Len(sent[i].jpeg)
           l == Len(bytes)
           p == a + t - 1
<1>1. /\ EndOf(i - 1) \in Nat /\ a \in Nat /\ z \in Nat /\ l \in Nat /\ J \in Nat /\ J >= 4
      /\ z = a + J /\ z <= l /\ a = EndOf(i - 1) + h
  BY EvenFrame
<1>2. m \in Nat /\ m >= 2 /\ t \in Nat /\ t >= 1 /\ 2 * t <= m
  BY HalfLengths
<1>3. m < 2 * J
  <2>1. i # 1 /\ n \in Nat
    BY DEF InStep, Layout
  <2> DEFINE k == i - 1
             K == Len(sent[k].jpeg)
  <2>2. k \in 1..n /\ k \in 1..(n - 1) /\ k + 1 = i
    BY <2>1
  <2> HIDE DEF n
  <2>3. Len(sent[k].header) + K < 2 * Len(sent[k + 1].jpeg)
    BY <2>2 DEF Similar, n
  <2>4. Len(sent[k].header) = h /\ K \in Nat
    BY <2>2, EvenFrame DEF OneHeader, n
  <2>5. m \in 2..(h + K)
    BY <2>1 DEF InStep
  <2>6. h + K < 2 * J
    <3>1. Len(sent[k + 1].jpeg) = J
      BY <2>2
    <3> HIDE DEF J, K, k
    <3> QED
      BY <2>3, <2>4, <3>1
  <2> HIDE DEF J, K, m
  <2> QED
    BY <1>1, <1>2, <2>4, <2>5, <2>6
<1>4. t - 1 <= J - 2
  <2> HIDE DEF t, J, m
  <2> QED
    BY <1>1, <1>2, <1>3
<1>5. p \in Nat /\ p + 2 <= z /\ a < p + 2 /\ t - 1 <= l - a
  <2>1. /\ a \in Nat /\ z \in Nat /\ l \in Nat /\ J \in Nat /\ z = a + J /\ z <= l
        /\ t \in Nat /\ t >= 1
    BY <1>1, <1>2
  <2> HIDE DEF t, J, m, a, z, l
  <2>2. p \in Nat /\ a < p + 2
    BY <2>1
  <2>3. p + 2 <= z
    BY <1>4, <2>1
  <2>4. t - 1 <= l - a
    BY <1>4, <2>1
  <2> QED
    BY <2>2, <2>3, <2>4
<1>6. pos \in Nat /\ pos + s <= l /\ l - pos - s = l - a /\ pos + s = a
  <2>1. pos \in Nat
    BY DEF Placed, Layout
  <2>2. pos + s = a
    OBVIOUS
  <2> HIDE DEF a, l, z, J
  <2> QED
    BY <1>1, <2>1, <2>2
<1>7. Ahead(s) = t - 1
  BY <1>5, <1>6 DEF Ahead
<1>8. near = EndOfSequence(pos + s + Ahead(s), <<FF, 217>>, m)
  BY <1>6, NearCases
<1>9. pos + s + Ahead(s) = p
  <2> HIDE DEF a, t
  <2> QED
    BY <1>1, <1>2, <1>6, <1>7
<1>10. near = EndOfSequence(p, <<FF, 217>>, m)
  BY <1>8, <1>9
<1>11. z - p <= m => near \in 2..(z - p)
  <2> HIDE DEF p
  <2> QED
    BY <1>2, <1>5, <1>10, EndAhead
<1>12. ASSUME near = NotFound
       PROVE  t + m - 1 < J
  <2>1. ~(z - p <= m)
    <3> HIDE DEF p, z
    <3> QED
      BY <1>11, <1>12 DEF NotFound
  <2> HIDE DEF t, J, m, a, z, l
  <2> QED
    BY <1>1, <1>2, <2>1
<1>13. ASSUME NearFound(s, near)
       PROVE  t - 1 + near = J
  <2> DEFINE len == t - 1 + near
             q == a + len
  <2>1. near \in 2..m /\ pos + s + len <= l /\ bytes[pos + s + (len - 1)] = FF
        /\ bytes[pos + s + len] = 217
    BY <1>13 DEF NearFound
  <2>2. len \in Nat /\ len >= 2 /\ near \in Nat
    <3> HIDE DEF t, m
    <3> QED
      BY <1>2, <2>1
  <2>3. q \in 2..l /\ pos + s + (len - 1) = q - 1 /\ pos + s + len = q /\ a < q /\ q \in Nat
    <3>1. a \in Nat /\ l \in Nat /\ pos + s = a /\ pos + s + len <= l /\ pos \in Nat
      BY <1>1, <1>6, <2>1
    <3> HIDE DEF len, a, l
    <3>2. pos + s + len = q /\ pos + s + (len - 1) = q - 1
      BY <2>2, <3>1
    <3>3. q \in 2..l /\ a < q /\ q \in Nat
      BY <2>2, <3>1, <3>2
    <3> QED
      BY <3>2, <3>3
  <2>4. PICK k \in 1..Len(sent) : q = EndOf(k)
    <3>1. bytes[q - 1] = FF /\ bytes[q] = 217
      BY <2>1, <2>3
    <3> HIDE DEF q
    <3> QED
      BY <2>3, <3>1, PlainEnd
  <2>5. z <= q
    <3>1. EndOf(i - 1) <= a
      <4> HIDE DEF a
      <4> QED
        BY <1>1
    <3> HIDE DEF q
    <3> QED
      BY <1>1, <2>3, <2>4, <3>1, EndOrder
  <2>6. a \in Nat /\ z \in Nat /\ J \in Nat /\ z = a + J /\ t \in Nat /\ t >= 1 /\ m \in Nat
    BY <1>1, <1>2
  <2>7. near \in Nat /\ near <= m
    BY <2>1, <2>2
  <2>8. q = p + near
    <3> HIDE DEF J, m, a, z, t
    <3> QED
      BY <2>2, <2>6
  <2>9. z - p <= m => near <= z - p
    <3> HIDE DEF p, z, m
    <3> QED
      BY <1>5, <1>11, <2>6
  <2>10. q <= z
    <3>1. p \in Nat /\ z \in Nat /\ m \in Nat
      BY <1>5, <2>6
    <3> HIDE DEF p, q, z, m, a, t, J, l, len, n
    <3>2. near <= z - p
      BY <2>7, <2>9, <3>1
    <3> QED
      BY <2>7, <2>8, <3>1, <3>2
  <2>11. q = z
    <3> HIDE DEF q, z
    <3> QED
      BY <2>3, <2>5, <2>6, <2>10
  <2>12. a + len = a + J
    BY <2>6, <2>11
  <2> HIDE DEF J, m, a, z, t, len
  <2>13. len = J
    BY <2>2, <2>6, <2>12
  <2> QED
    BY <2>13 DEF len
<1> QED
  BY <1>2, <1>12, <1>13

\* The worst case measures the image from the place of the call, which is in
\* its header.
LEMMA WorstInStep ==
  ASSUME NEW h \in Nat, Searched(h), Placed, NEW i \in 1..Len(sent), InStep(h, i),
         NEW worst, worst = EndOfSequence(pos, <<FF, 217>>, FRAME_MAX_LENGTH),
         Found(pos, FF, 217, FRAME_MAX_LENGTH, worst)
  PROVE  worst \in Nat /\ pos + worst = EndOf(i)
<1> USE DEF Searched
<1> DEFINE a == ImageAt(i)
           z == EndOf(i)
           b == EndOf(i - 1)
           J == Len(sent[i].jpeg)
           l == Len(bytes)
           M == FRAME_MAX_LENGTH
           q == pos + worst
<1>1. /\ b \in Nat /\ a \in Nat /\ z \in Nat /\ l \in Nat /\ J \in Nat /\ J >= 4
      /\ z = a + J /\ z <= l /\ a = b + h
  BY EvenFrame
<1>2. pos \in Nat /\ b <= pos /\ pos <= a /\ M \in Nat /\ h + J < M
  <2>1. pos \in Nat /\ M \in Nat /\ b <= pos /\ pos <= a
    BY StreamAssumption DEF Placed, Layout, InStep
  <2>2. Len(sent[i].header) = h /\ Len(sent[i].header) + J < M
    BY DEF OneHeader, EndsSeen, Layout
  <2> QED
    BY <2>1, <2>2
<1>3. pos + 2 <= z /\ z - pos <= M
  <2> HIDE DEF a, z, b, J, M
  <2> QED
    BY <1>1, <1>2
<1>4. worst \in 2..(z - pos)
  BY <1>2, <1>3, EndAhead
<1>5. bytes[pos + (worst - 1)] = FF /\ bytes[q] = 217 /\ q <= l
  BY DEF Found
<1>6. worst \in Nat /\ q \in 2..l /\ pos + (worst - 1) = q - 1 /\ pos < q /\ q <= z
  <2>1. z \in Nat /\ l \in Nat /\ pos \in Nat
    BY <1>1, <1>2
  <2> HIDE DEF z, l
  <2>2. worst \in Nat /\ worst >= 2 /\ worst <= z - pos
    BY <1>4, <2>1
  <2>3. q \in 2..l
    BY <1>5, <2>1, <2>2
  <2>4. pos + (worst - 1) = q - 1 /\ pos < q /\ q <= z
    BY <2>1, <2>2
  <2> QED
    BY <2>2, <2>3, <2>4
<1>7. PICK k \in 1..Len(sent) : q = EndOf(k)
  <2> HIDE DEF q
  <2> QED
    BY <1>5, <1>6, PlainEnd
<1>8. z <= q /\ q \in Nat
  BY <1>2, <1>6, <1>7, EndOrder
<1> HIDE DEF q, z
<1>9. q = z
  BY <1>1, <1>6, <1>8
<1> QED
  BY <1>6, <1>9 DEF q, z

\* The place and the previous length after frame i.
Stepped(h, i) ==
  \/ pos' = Len(bytes)
  \/ /\ i + 1 \in 1..Len(sent)
     /\ EndOf(i) <= pos' /\ pos' <= ImageAt(i + 1)
     /\ mContentLength' \in 2..(h + Len(sent[i].jpeg))

\* What frame i came out as: from its first byte, and not into the next image.
InPlace(i, len) ==
  i + 1 \in 1..Len(sent) => ImageAt(i) + len <= ImageAt(i + 1)

\* After the end of frame i, in the header that follows.
LEMMA NextHeader ==
  ASSUME NEW h \in Nat, Searched(h), NEW i \in 1..Len(sent), NEW d \in 0..h,
         NEW p, p = EndOf(i) + d, p <= Len(bytes)
  PROVE  /\ i + 1 \in 1..Len(sent) => EndOf(i) <= p /\ p <= ImageAt(i + 1)
         /\ i + 1 \notin 1..Len(sent) => p = Len(bytes)
<1> USE DEF Searched
<1>1. Len(sent) \in Nat /\ EndOf(Len(sent)) = Len(bytes) /\ Len(bytes) \in Nat /\ EndOf(i) \in Nat
  BY FrameAt DEF Layout
<1>2. ASSUME i + 1 \in 1..Len(sent)
      PROVE  EndOf(i) <= p /\ p <= ImageAt(i + 1)
  <2> DEFINE k == i + 1
  <2>1. k \in 1..Len(sent) /\ k - 1 = i
    BY <1>1, <1>2
  <2> HIDE DEF k
  <2>2. ImageAt(k) = EndOf(k - 1) + h
    BY <2>1, EvenFrame
  <2>3. EndOf(i) <= p /\ p <= ImageAt(k)
    BY <1>1, <2>1, <2>2
  <2> QED
    BY <2>3 DEF k
<1>3. ASSUME i + 1 \notin 1..Len(sent)
      PROVE  p = Len(bytes)
  <2>1. i = Len(sent)
    BY <1>1, <1>3
  <2> QED
    BY <1>1, <2>1
<1> QED
  BY <1>2, <1>3

\* A call at the end of the stream is the last.  One before frame i hands that
\* frame on and is then before the next, or at the end of the stream.
LEMMA StepCall ==
  ASSUME NEW h \in Nat, Searched(h), Placed, NEW i \in 1..Len(sent), InStep(h, i),
         ReadMjpegFrame
  PROVE  \/ out' = out /\ (Running' => pos' = Len(bytes))
         \/ \E len \in Nat : /\ out' = Append(out, Image(ImageAt(i), len))
                             /\ InPlace(i, len) /\ Stepped(h, i)
<1> USE DEF Searched
<1> DEFINE s == StartOfSequence(pos)
           near == NearEnd(s)
           worst == EndOfSequence(pos, <<FF, 217>>, FRAME_MAX_LENGTH)
           J == Len(sent[i].jpeg)
           a == ImageAt(i)
           b == EndOf(i - 1)
           z == EndOf(i)
           l == Len(bytes)
           M == FRAME_MAX_LENGTH
           m == mContentLength
<1>1. \/ s = Eof /\ Stopped("null")
      \/ s = NotFound /\ Stopped("negativeArraySize")
      \/ /\ StartSeen(pos, s)
         /\ \/ NearHit(s, near)
            \/ near = NotFound /\ MissLost(s)
            \/ Ended
            \/ near = NotFound /\ WorstHit(s, worst)
            \/ near = NotFound /\ Crashed(worst)
  BY SearchedCall
<1>2. /\ b \in Nat /\ a \in Nat /\ z \in Nat /\ l \in Nat /\ J \in Nat /\ J >= 4
      /\ z = a + J /\ z <= l /\ a = b + h
  BY EvenFrame
<1>3. pos \in Nat /\ b <= pos /\ pos <= a /\ M \in Nat /\ h + J < M
  <2>1. pos \in Nat /\ M \in Nat /\ b <= pos /\ pos <= a
    BY StreamAssumption DEF Placed, Layout, InStep
  <2>2. Len(sent[i].header) = h /\ Len(sent[i].header) + J < M
    BY DEF OneHeader, EndsSeen, Layout
  <2> QED
    BY <2>1, <2>2
<1>4. s = NotFound \/ s = a - pos
  <2>1. pos \in b..a
    <3> HIDE DEF a, b
    <3> QED
      BY <1>2, <1>3
  <2> QED
    BY <2>1, StartInHeader
<1> HIDE DEF s, near, worst
<1>5. CASE Ended
  BY <1>5 DEF Ended
<1>6. CASE Stopped("null") \/ Stopped("negativeArraySize") \/ Crashed(worst)
  BY <1>6 DEF Stopped, Crashed, Running
<1>7. ASSUME StartSeen(pos, s)
      PROVE  s = a - pos /\ s \in Nat /\ s <= h /\ pos + s = a /\ z = pos + s + J
  <2>1. s \in Nat
    BY <1>7 DEF StartSeen
  <2> HIDE DEF a, b, z, J
  <2>2. s = a - pos
    BY <1>4, <2>1 DEF NotFound
  <2>3. s <= h /\ pos + s = a
    BY <1>2, <1>3, <2>2
  <2>4. z = pos + s + J
    BY <1>2, <2>3
  <2> QED
    BY <2>1, <2>2, <2>3, <2>4
<1>8. ASSUME StartSeen(pos, s), m # -1
      PROVE  /\ NearFound(s, near) => StartPos - 1 + near = J
             /\ near = NotFound => StartPos + m - 1 < J
             /\ StartPos \in Nat /\ m \in Nat
  BY <1>7, <1>8, NearInStep DEF near
<1>9. ASSUME StartSeen(pos, s), NearHit(s, near)
      PROVE  \E len \in Nat : /\ out' = Append(out, Image(ImageAt(i), len))
                              /\ InPlace(i, len) /\ Stepped(h, i)
  <2>1. s \in Nat /\ s <= h /\ pos + s = a /\ z = pos + s + J
    BY <1>7, <1>9
  <2>2. /\ m # -1 /\ NearFound(s, near) /\ pos' = pos + s + (StartPos - 1 + near)
        /\ mContentLength' = StartPos - 1 + near
        /\ \/ s + (StartPos - 1 + near) > M
           \/ out' = Append(out, Image(pos + s, StartPos - 1 + near))
    BY <1>9 DEF NearHit
  <2>3. StartPos - 1 + near = J
    BY <1>8, <1>9, <2>2
  <2>4. pos' = z /\ mContentLength' = J /\ out' = Append(out, Image(a, J))
    <3>1. ~(s + J > M)
      <4> HIDE DEF J, M
      <4> QED
        BY <1>2, <1>3, <2>1
    <3> QED
      BY <2>1, <2>2, <2>3, <3>1
  <2>5. /\ i + 1 \in 1..Len(sent) => EndOf(i) <= z /\ z <= ImageAt(i + 1)
        /\ i + 1 \notin 1..Len(sent) => z = l
    <3>1. 0 \in 0..h /\ z = z + 0
      BY <1>2
    <3> QED
      BY <1>2, <3>1, NextHeader
  <2>6. InPlace(i, J)
    <3> SUFFICES ASSUME i + 1 \in 1..Len(sent)
                 PROVE  a + J <= ImageAt(i + 1)
      BY DEF InPlace
    <3> QED
      BY <1>2, <2>5
  <2>7. J \in 2..(h + J)
    <3> HIDE DEF J
    <3> QED
      BY <1>2
  <2>8. Stepped(h, i)
    BY <2>4, <2>5, <2>7 DEF Stepped
  <2> QED
    BY <1>2, <2>4, <2>6, <2>8
<1>10. ASSUME StartSeen(pos, s), near = NotFound, MissLost(s)
       PROVE  FALSE
  <2>1. m # -1 /\ s + EndPos - 1 > M
    BY <1>10 DEF MissLost
  <2>2. StartPos + m - 1 < J /\ StartPos \in Nat /\ m \in Nat /\ EndPos = StartPos + m
    BY <1>8, <1>10, <2>1, HalfLengths
  <2>3. s \in Nat /\ s <= h
    BY <1>7, <1>10
  <2> DEFINE x == EndPos - 1
  <2>4. J \in Nat /\ M \in Nat /\ h + J < M /\ s + x > M
    BY <1>2, <1>3, <2>1
  <2> HIDE DEF J, M, m
  <2>5. x < J /\ x \in Int
    BY <2>2
  <2> HIDE DEF x
  <2> QED
    BY <2>3, <2>4, <2>5
<1>11. ASSUME StartSeen(pos, s), WorstHit(s, worst)
       PROVE  \E len \in Nat : /\ out' = Append(out, Image(ImageAt(i), len))
                               /\ InPlace(i, len) /\ Stepped(h, i)
  <2>1. s \in Nat /\ s <= h /\ pos + s = a
    BY <1>7, <1>11
  <2>2. /\ Found(pos, FF, 217, FRAME_MAX_LENGTH, worst) /\ pos + s + worst <= l
        /\ pos' = pos + s + worst /\ mContentLength' = worst
        /\ out' = Append(out, Image(pos + s, worst))
    BY <1>11 DEF WorstHit
  <2>3. worst \in Nat /\ pos + worst = z
    BY <2>2, WorstInStep DEF worst
  <2>4. pos' = z + s /\ pos' <= l
    <3> HIDE DEF z, l
    <3>1. pos + s + worst = z + s
      BY <1>3, <2>1, <2>3
    <3> QED
      BY <2>2, <3>1
  <2>5. /\ i + 1 \in 1..Len(sent) => EndOf(i) <= pos' /\ pos' <= ImageAt(i + 1)
        /\ i + 1 \notin 1..Len(sent) => pos' = l
    <3>1. s \in 0..h
      BY <2>1
    <3> QED
      BY <2>4, <3>1, NextHeader
  <2>6. a + worst = pos'
    <3> HIDE DEF a
    <3> QED
      BY <1>3, <2>1, <2>2, <2>3
  <2>7. InPlace(i, worst)
    BY <2>5, <2>6 DEF InPlace
  <2>8. worst \in 2..(h + J)
    <3>1. worst >= 2
      BY <1>3, <2>2 DEF Found
    <3> HIDE DEF a, b, z, J
    <3>2. worst <= h + J
      BY <1>2, <1>3, <2>3
    <3> QED
      BY <1>2, <2>3, <3>1, <3>2
  <2>9. Stepped(h, i)
    BY <2>2, <2>5, <2>8 DEF Stepped
  <2> QED
    BY <2>1, <2>2, <2>3, <2>7, <2>9
<1> QED
  BY <1>1, <1>5, <1>6, <1>9, <1>10, <1>11

\* Frame by frame: as many images as frames that were passed, each from where
\* its frame's image starts and none into the next.
StepInv ==
  /\ out \in Seq(Images) /\ Len(out) <= Len(sent)
  /\ \A j \in 1..Len(out) : out[j].at = ImageAt(j) /\ InPlace(j, out[j].len)
  /\ Running => \/ pos = Len(bytes)
                \/ Len(out) + 1 \in 1..Len(sent)
                     /\ \E h \in Nat : OneHeader(h) /\ InStep(h, Len(out) + 1)

Condition == ~AllHaveLength /\ EndsSeen /\ Similar /\ Plain

\* At first the reader is before frame 1.
LEMMA StepInit ==
  ASSUME Init, ~AllHaveLength
  PROVE  StepInv
<1>1. WellSent /\ Layout
  BY WellSentInit, StreamLayout
<1>2. PICK h \in Nat : OneHeader(h)
  BY <1>1, Kinds DEF OneHeader
<1>3. pos = 0 /\ out = <<>> /\ mContentLength = -1
  BY DEF Init
<1>4. out \in Seq(Images) /\ Len(out) = 0
  BY <1>3
<1>5. 1 \in 1..Len(sent) /\ EndOf(0) = 0 /\ 1 - 1 = 0 /\ 0 <= Len(sent) /\ 0 + 1 = 1
  BY <1>1 DEF Layout
<1>6. InStep(h, 1)
  <2>1. ImageAt(1) \in Nat /\ EndOf(1 - 1) = 0
    BY <1>1, <1>5, FrameAt
  <2>2. EndOf(1 - 1) <= pos /\ pos <= ImageAt(1)
    BY <1>3, <2>1
  <2> QED
    BY <1>3, <2>2 DEF InStep
<1> QED
  BY <1>2, <1>4, <1>5, <1>6 DEF StepInv

\* It is kept.
LEMMA StepStep ==
  ASSUME ReaderInv, Condition, StepInv, Next
  PROVE  StepInv'
<1> USE DEF Condition
<1>1. WellSent /\ Layout /\ Running /\ ReadMjpegFrame /\ NoneHasLength /\ Placed
  BY StreamLayout, Kinds DEF ReaderInv, Next, ReadMjpegFrame
<1>2. sent' = sent /\ bytes' = bytes
  BY <1>1, WellSentStep
<1> DEFINE k == Len(out)
           i == k + 1
           Fine(o) == \A j \in 1..Len(o) : o[j].at = ImageAt(j) /\ InPlace(j, o[j].len)
<1>3. out \in Seq(Images) /\ k \in Nat /\ k <= Len(sent) /\ Len(sent) \in Nat /\ Fine(out)
  BY <1>1 DEF StepInv, Layout
<1>4. Fine(out') = (\A j \in 1..Len(out) : out[j].at = ImageAt(j) /\ InPlace(j, out[j].len))'
  BY <1>2 DEF ImageAt, EndOf, InPlace
<1>5. CASE out' = out /\ (Running' => pos' = Len(bytes))
  <2>1. Fine(out') /\ out' \in Seq(Images) /\ Len(out') <= Len(sent)
    BY <1>3, <1>5
  <2> QED
    BY <1>2, <1>4, <1>5, <2>1 DEF StepInv, Images
<1>6. CASE pos = Len(bytes)
  <2>1. StartOfSequence(pos) = Eof
    BY <1>1, <1>6, StartAtEnd
  <2>2. Stopped("null")
    <3>1. ~StartSeen(pos, StartOfSequence(pos))
      BY <2>1 DEF StartSeen, Eof
    <3> QED
      BY <1>1, <2>1, <3>1, SearchedCall DEF Eof, NotFound
  <2>3. out' = out /\ ~Running'
    BY <2>2 DEF Stopped, Running
  <2> QED
    BY <1>5, <2>3
<1>7. ASSUME i \in 1..Len(sent), NEW h \in Nat, OneHeader(h), InStep(h, i)
      PROVE  StepInv'
  <2>1. Searched(h)
    BY <1>1, <1>7 DEF Searched
  <2>2. \/ out' = out /\ (Running' => pos' = Len(bytes))
        \/ \E len \in Nat : /\ out' = Append(out, Image(ImageAt(i), len))
                            /\ InPlace(i, len) /\ Stepped(h, i)
    <3> HIDE DEF i
    <3> QED
      BY <1>1, <1>7, <2>1, StepCall
  <2>3. ASSUME NEW len \in Nat, out' = Append(out, Image(ImageAt(i), len)), InPlace(i, len),
               Stepped(h, i)
        PROVE  StepInv'
    <3> DEFINE image == Image(ImageAt(i), len)
    <3>1. image \in Images /\ image.at = ImageAt(i) /\ image.len = len
      <4>1. ImageAt(i) \in Nat
        BY <1>1, <1>7, FrameAt
      <4> QED
        BY <4>1 DEF Images, Image
    <3> HIDE DEF image, Images
    <3>2. /\ out' \in Seq(Images) /\ Len(out') = i /\ out'[i] = image
          /\ \A j \in 1..k : out'[j] = out[j]
      BY <1>3, <2>3, <3>1, AppendProperties DEF image
    <3>3. Fine(out')
      <4> SUFFICES ASSUME NEW j \in 1..i
                   PROVE  out'[j].at = ImageAt(j) /\ InPlace(j, out'[j].len)
        BY <3>2
      <4>1. CASE j \in 1..k
        BY <1>3, <3>2, <4>1
      <4>2. CASE j \notin 1..k
        <5>1. j = i
          BY <1>3, <4>2
        <5> QED
          BY <2>3, <3>1, <3>2, <5>1
      <4> QED
        BY <4>1, <4>2
    <3>4. i <= Len(sent)
      BY <1>3, <1>7
    <3>5. \/ pos' = Len(bytes)
          \/ (Len(out) + 1 \in 1..Len(sent) /\ InStep(h, Len(out) + 1))'
      <4> SUFFICES ASSUME /\ i + 1 \in 1..Len(sent)
                          /\ EndOf(i) <= pos' /\ pos' <= ImageAt(i + 1)
                          /\ mContentLength' \in 2..(h + Len(sent[i].jpeg))
                   PROVE  (Len(out) + 1 \in 1..Len(sent) /\ InStep(h, Len(out) + 1))'
        BY <2>3 DEF Stepped
      <4> DEFINE r == Len(out') + 1
      <4>1. r = i + 1 /\ r - 1 = i /\ r # 1
        BY <1>3, <3>2
      <4> HIDE DEF r
      <4>2. /\ r \in 1..Len(sent) /\ EndOf(r - 1) <= pos' /\ pos' <= ImageAt(r)
            /\ mContentLength' \in 2..(h + Len(sent[r - 1].jpeg))
        BY <4>1
      <4> QED
        BY <1>2, <4>1, <4>2 DEF InStep, EndOf, ImageAt, r
    <3>6. OneHeader(h)'
      BY <1>2, <1>7 DEF OneHeader
    <3> QED
      BY <1>2, <1>4, <3>2, <3>3, <3>4, <3>5, <3>6 DEF StepInv, Images
  <2> QED
    BY <1>5, <2>2, <2>3
<1> QED
  BY <1>1, <1>6, <1>7 DEF StepInv

SearchedInv == ReaderInv /\ (Condition => StepInv)

\* Within the limits, and when no image is half as long as the one before it
\* or less, a stream that is searched comes out frame by frame: image j of the
\* output starts where image j of the camera does, and ends before the next.
THEOREM SearchedStaysInStep == Spec => []SearchedInStep
<1>1. Init => SearchedInv
  BY ReaderInit, StepInit DEF SearchedInv, Condition
<1>2. SearchedInv /\ [Next]_vars => SearchedInv'
  <2> SUFFICES ASSUME SearchedInv, [Next]_vars
               PROVE  SearchedInv'
    OBVIOUS
  <2>1. ReaderInv' /\ sent' = sent
    BY ReaderStep, ReaderStutter, WellSentStep DEF SearchedInv, ReaderInv
  <2>2. Condition' = Condition
    BY <2>1 DEF Condition, AllHaveLength, EndsSeen, Similar, Plain
  <2>3. CASE Next
    BY <2>1, <2>2, <2>3, StepStep DEF SearchedInv
  <2>4. CASE UNCHANGED vars
    <3>1. StepInv' = StepInv
      BY <2>4 DEF vars, StepInv, Running, OneHeader, InStep, InPlace, ImageAt, EndOf, Images
    <3> QED
      BY <2>1, <2>2, <3>1 DEF SearchedInv
  <2> QED
    BY <2>3, <2>4
<1>3. SearchedInv => SearchedInStep
  <2> SUFFICES ASSUME SearchedInv, EndsSeen, Similar, AllCounted \/ Plain, NEW j \in DOMAIN out
               PROVE  /\ j <= Len(sent)
                      /\ out[j].at = ImageAt(j)
                      /\ j < Len(sent) => out[j].at + out[j].len <= ImageAt(j + 1)
    BY DEF SearchedInStep
  <2> DEFINE k == Len(out)
             n == Len(sent)
  <2>1. WellSent /\ Layout /\ n \in Nat
    BY StreamLayout DEF SearchedInv, ReaderInv, Layout
  <2>2. j < n /\ j \in Nat => j + 1 \in 1..n
    BY <2>1
  <2>3. CASE AllHaveLength
    <3>1. k \in 0..n /\ out = AsSent(k)
      BY <2>3 DEF SearchedInv, ReaderInv, CountedInv
    <3> HIDE DEF k
    <3>2. j \in 1..k /\ j \in 1..n
      <4>1. j \in 1..k
        BY <3>1 DEF AsSent
      <4> QED
        BY <2>1, <3>1, <4>1
    <3>3. out[j].at = ImageAt(j) /\ out[j].len = Len(sent[j].jpeg)
      BY <3>1, <3>2 DEF AsSent, Image
    <3>4. ASSUME j < n
          PROVE  ImageAt(j) + Len(sent[j].jpeg) <= ImageAt(j + 1)
      <4> DEFINE i == j + 1
      <4>1. i \in 1..n /\ i - 1 = j
        BY <2>1, <3>2, <3>4
      <4> HIDE DEF i
      <4>2. ImageAt(i) \in Nat /\ ImageAt(i) = EndOf(i - 1) + Len(sent[i].header)
            /\ Len(sent[i].header) \in Nat /\ EndOf(i - 1) \in Nat
        BY <2>1, <4>1, FrameAt
      <4>3. EndOf(j) = ImageAt(j) + Len(sent[j].jpeg)
        BY <2>1, <3>2, FrameAt
      <4>4. EndOf(i - 1) <= ImageAt(i)
        BY <4>2
      <4>5. EndOf(j) <= ImageAt(i)
        BY <4>1, <4>4
      <4> QED
        BY <4>3, <4>5 DEF i
    <3>5. j <= n
      BY <2>1, <3>2
    <3> QED
      BY <3>3, <3>4, <3>5
  <2>4. CASE ~AllHaveLength
    <3>1. StepInv
      BY <2>1, <2>4, Kinds DEF SearchedInv, Condition
    <3>2. out \in Seq(Images) /\ k <= n /\ k \in Nat
      BY <3>1 DEF StepInv
    <3>3. j \in 1..k /\ j \in Nat
      <4> HIDE DEF Images
      <4> QED
        BY <3>2
    <3>4. out[j].at = ImageAt(j) /\ InPlace(j, out[j].len)
      BY <3>1, <3>3 DEF StepInv
    <3>5. j <= n
      BY <2>1, <3>2, <3>3
    <3>6. j < n => ImageAt(j) + out[j].len <= ImageAt(j + 1)
      BY <2>2, <3>3, <3>4 DEF InPlace
    <3> QED
      BY <3>4, <3>5, <3>6
  <2> QED
    BY <2>3, <2>4
<1> QED
  BY <1>1, <1>2, <1>3, PTL DEF Spec
=============================================================================
