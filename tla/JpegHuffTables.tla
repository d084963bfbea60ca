---------------------------- MODULE JpegHuffTables ----------------------------
(***************************************************************************)
(* The Huffman tables of jpeg8d: how the encoder makes one that is optimal *)
(* for the symbols a pass has counted (jpeg_gen_optimal_table, jchuff.c),  *)
(* and the codes that encoder and decoder derive from a table.             *)
(*                                                                         *)
(* A table is a record of bits, the number of codes of each length, and    *)
(* huffval, the symbols in the order of their codes.  Counts are assumed   *)
(* to stay below the sentinel of the search for the rarest, 1000000000.    *)
(***************************************************************************)
EXTENDS Integers, Sequences, FiniteSets, FiniteSetsExt

CONSTANTS
  MaxCodeLength,  \* bits in the longest code of a file, 16
  MAX_CLEN        \* bits in the longest code before it is shortened, 32

ASSUME LengthsAssumption ==
  MaxCodeLength \in Nat \ {0} /\ MAX_CLEN \in Nat /\ MaxCodeLength <= MAX_CLEN

\* 1 << n
PowerOf2[n \in 0..MAX_CLEN] == IF n = 0 THEN 1 ELSE 2 * PowerOf2[n - 1]

-----------------------------------------------------------------------------
\* huffsize and huffcode, by position in huffval.  Upto(bits)[l] is the number of
\* codes of at most l bits.
Upto(bits) ==
  LET upto[l \in 0..MaxCodeLength] == IF l = 0 THEN 0 ELSE upto[l - 1] + bits[l]
  IN  upto
SizeOf(tbl) ==
  LET upto == Upto(tbl.bits)
  IN  [p \in 1..upto[MaxCodeLength] |-> Min({l \in 1..MaxCodeLength : p <= upto[l]})]
CodeOf(size) ==
  LET code[p \in DOMAIN size] ==
        IF p = 1 THEN 0 ELSE (code[p - 1] + 1) * PowerOf2[size[p] - size[p - 1]]
  IN  code
Codes(tbl) ==
  LET size == SizeOf(tbl)
      code == CodeOf(size)
  IN  [p \in DOMAIN size |-> [size |-> size[p], code |-> code[p]]]

-----------------------------------------------------------------------------
\* Huffman's algorithm.  The symbols form trees, one at first for each that was
\* counted: root[i] is the symbol that stands for the tree of symbol i, freq the
\* counts by tree, zero for a symbol that stands for none.  The pseudo-symbol 256
\* takes the code of all ones out of use.
PSEUDO == 256
Trees(freq) == {i \in DOMAIN freq : freq[i] > 0}

\* In case of ties, the larger symbol.
Rarest(freq, among) == Max({i \in among : \A j \in among : freq[i] <= freq[j]})

\* The two rarest trees become one, with codes longer by a bit.
Merge(t) ==
  LET c1 == Rarest(t.freq, Trees(t.freq))
      c2 == Rarest(t.freq, Trees(t.freq) \ {c1})
  IN  [freq |-> [t.freq EXCEPT ![c1] = @ + t.freq[c2], ![c2] = 0],
       root |-> [i \in DOMAIN t.root |-> IF t.root[i] = c2 THEN c1 ELSE t.root[i]],
       codesize |-> [i \in DOMAIN t.codesize |->
                       t.codesize[i] + IF t.root[i] \in {c1, c2} THEN 1 ELSE 0]]

Leaves(counts) ==
  LET freq == [i \in DOMAIN counts \cup {PSEUDO} |-> IF i = PSEUDO THEN 1 ELSE counts[i]]
  IN  [freq |-> freq, root |-> [i \in DOMAIN freq |-> i], codesize |-> [i \in DOMAIN freq |-> 0]]
Merges(counts) == Cardinality(Trees(Leaves(counts).freq)) - 1
Huffman(counts) ==
  LET merged[k \in 0..Merges(counts)] == IF k = 0 THEN Leaves(counts) ELSE Merge(merged[k - 1])
  IN  merged[Merges(counts)]

\* JERR_HUFF_CLEN_OVERFLOW
Overflows(codesize) == \E i \in DOMAIN codesize : codesize[i] > MAX_CLEN

-----------------------------------------------------------------------------
\* No code is longer than MaxCodeLength: of a pair of codes of length i one gets
\* their prefix, and a shorter code is lengthened by a bit for the other.
ShortenPair(bits, i) ==
  LET j == Max({l \in 1..i - 2 : bits[l] > 0})
      prefix == [bits EXCEPT ![i] = @ - 2, ![i - 1] = @ + 1]
  IN  [prefix EXCEPT ![j + 1] = @ + 2, ![j] = @ - 1]
ShortenLength(bits, i) ==
  LET round[n \in 0..bits[i]] ==
        IF n = 0 THEN bits
        ELSE IF round[n - 1][i] > 0 THEN ShortenPair(round[n - 1], i) ELSE round[n - 1]
  IN  round[bits[i]]
ShortenNever(bits) == bits
Shorten(bits) ==
  LET down[n \in 0..MAX_CLEN - MaxCodeLength] ==
        IF n = 0 THEN bits ELSE ShortenLength(down[n - 1], MAX_CLEN + 1 - n)
  IN  down[MAX_CLEN - MaxCodeLength]

\* The pseudo-symbol gives its code up, one of the longest.
WithoutPseudo(bits) ==
  LET longest == Max({l \in 1..MaxCodeLength : bits[l] > 0})
  IN  [l \in 1..MaxCodeLength |-> IF l = longest THEN bits[l] - 1 ELSE bits[l]]

\* The symbols by the length their codes had before any was shortened.
Earlier(codesize, i, j) ==
  codesize[i] < codesize[j] \/ (codesize[i] = codesize[j] /\ i < j)
Sorted(codesize) ==
  LET symbols == {i \in DOMAIN codesize \ {PSEUDO} : codesize[i] > 0}
  IN  [p \in 1..Cardinality(symbols) |->
         CHOOSE i \in symbols : Cardinality({j \in symbols : Earlier(codesize, j, i)}) = p - 1]

Lengths(codesize) == [l \in 1..MAX_CLEN |-> Cardinality({i \in DOMAIN codesize : codesize[i] = l})]
TableOf(codesize) ==
  [bits |-> WithoutPseudo(Shorten(Lengths(codesize))), huffval |-> Sorted(codesize)]

jpeg_gen_optimal_table(counts) == TableOf(Huffman(counts).codesize)
=============================================================================
