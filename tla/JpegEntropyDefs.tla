--------------------------- MODULE JpegEntropyDefs ---------------------------
(***************************************************************************)
(* What the entropy coders of jpeg8d share: coefficient order, numbers as  *)
(* bits, and the reader of markers (jdmarker.c) that both decoders call.   *)
(*                                                                         *)
(* A block is a function from its 64 natural positions to coefficients; a  *)
(* byte stream is a sequence of 0..255.                                    *)
(***************************************************************************)
EXTENDS Integers, Sequences, FiniteSets, FiniteSetsExt, SequencesExt

Positions == 0..63
ZeroBlock == [i \in Positions |-> 0]

\* The zigzag runs through the anti-diagonals of an n by n block, up the even
\* ones and down the odd ones.
Before(p, q) ==
  \/ p[1] + p[2] < q[1] + q[2]
  \/ p[1] + p[2] = q[1] + q[2] /\ IF (p[1] + p[2]) % 2 = 1 THEN p[1] < q[1] ELSE p[1] > q[1]
jpeg_zigzag_order ==
  [n \in 1..8 |-> [p \in (0..n - 1) \X (0..n - 1) |->
     Cardinality({q \in (0..n - 1) \X (0..n - 1) : Before(q, p)})]]

\* The inverse, as positions of an 8 by 8 block; a run that leads past the end
\* of the block, which only damaged data has, ends in the last position.
jpeg_natural_order ==
  [n \in 1..8 |-> [k \in 0..n * n + 15 |->
     IF k >= n * n THEN 63
     ELSE LET p == CHOOSE q \in (0..n - 1) \X (0..n - 1) : jpeg_zigzag_order[n][q] = k
          IN  8 * p[1] + p[2]]]

\* How many coefficients of an n by n block an inverse DCT of v by h needs.
CoefLimit(n, v, h) == 1 + jpeg_zigzag_order[n][<<(IF v > n THEN n ELSE v) - 1, (IF h > n THEN n ELSE h) - 1>>]

\* JCOEF is a short.
JCOEF(x) == ((x + 32768) % 65536) - 32768

-----------------------------------------------------------------------------
Abs(x) == IF x < 0 THEN -x ELSE x
NBits(v) == IF v = 0 THEN 0 ELSE CHOOSE n \in 1..17 : 2^(n - 1) <= v /\ v < 2^n
Bits(code, size) == [i \in 1..size |-> (code \div 2^(size - i)) % 2]
Number(bits) == FoldLeft(LAMBDA n, b : 2 * n + b, 0, bits)
Times(n, x) == [i \in 1..n |-> x]

\* The bits that follow a magnitude category, and back.
Extra(v) == LET n == NBits(Abs(v)) IN Bits(IF v < 0 THEN v + 2^n - 1 ELSE v, n)
HUFF_EXTEND(x, s) == IF s = 0 THEN 0 ELSE IF x < 2^(s - 1) THEN x - (2^s - 1) ELSE x

\* The point transform of a scan: DC by an arithmetic shift, AC towards zero.
ShiftDC(v, Al) == v \div 2^Al
ShiftAC(v, Al) == IF v < 0 THEN -((-v) \div 2^Al) ELSE v \div 2^Al

-----------------------------------------------------------------------------
\* Markers.  A reader is a record with at least pos, the next byte to read,
\* unread, the marker read but not yet used or 0, next_rst, the number of the
\* next restart marker, and ok, FALSE once a call needs more data than there is.
SOF0 == 192
RST0 == 208
EOI == 217
SOS == 218

\* The rest of a call, unless it had to stop for data.
Then(r, Rest(_)) == IF r.ok THEN Rest(r) ELSE r

\* A byte of entropy coded data: a zero after 0xFF is dropped, any other byte
\* after a run of 0xFF is a marker.
DataByte(src, pos) ==
  IF pos > Len(src) THEN [ok |-> FALSE]
  ELSE IF src[pos] # 255 THEN [ok |-> TRUE, byte |-> src[pos], marker |-> 0, pos |-> pos + 1]
  ELSE LET ends == {q \in pos + 1..Len(src) : src[q] # 255}
       IN  IF ends = {} THEN [ok |-> FALSE]
           ELSE LET q == Min(ends)
                IN  [ok |-> TRUE, pos |-> q + 1, marker |-> src[q],
                     byte |-> IF src[q] = 0 THEN 255 ELSE 0]

\* A byte that is neither 0 nor 0xFF after a 0xFF is a marker; what is before it
\* is discarded.
next_marker(src, r) ==
  LET found == {i \in r.pos + 1..Len(src) : src[i - 1] = 255 /\ src[i] \notin {0, 255}}
  IN  IF found = {} THEN [r EXCEPT !.ok = FALSE]
      ELSE [r EXCEPT !.unread = src[Min(found)], !.pos = Min(found) + 1]

\* Not the restart marker that was due.  One a little behind is passed over and
\* one a little ahead is left for later, as is the end of the scan; one that
\* may be either is taken for the one that was due.
ResyncAny(src, r, desired) == IF r.unread \in RST0..RST0 + 7 THEN [r EXCEPT !.unread = 0] ELSE r
RECURSIVE jpeg_resync_to_restart(_, _, _)
jpeg_resync_to_restart(src, r, desired) ==
  LET near(x) == RST0 + ((desired + x) % 8)
      forward == \/ r.unread < SOF0
                 \/ r.unread \in {near(7), near(6)}
      leave == r.unread \notin RST0..RST0 + 7 \/ r.unread \in {near(1), near(2)}
  IN  IF forward
      THEN Then(next_marker(src, r), LAMBDA n : jpeg_resync_to_restart(src, n, desired))
      ELSE IF leave THEN r ELSE [r EXCEPT !.unread = 0]

read_restart_marker(src, r) ==
  LET resync(m) == IF m.unread = RST0 + m.next_rst THEN [m EXCEPT !.unread = 0]
                   ELSE jpeg_resync_to_restart(src, m, m.next_rst)
      found == IF r.unread = 0 THEN next_marker(src, r) ELSE r
  IN  Then(Then(found, resync), LAMBDA s : [s EXCEPT !.next_rst = (@ + 1) % 8])
=============================================================================
