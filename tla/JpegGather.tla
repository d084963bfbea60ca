------------------------------ MODULE JpegGather ------------------------------
(***************************************************************************)
(* The statistics passes of the Huffman encoder (jchuff.c).  A scan that   *)
(* is to have optimal tables is coded twice: the first pass counts its     *)
(* symbols by table, finish_pass_gather makes the tables anew, and the     *)
(* second pass writes the same symbols.  What they are is left open here:  *)
(* JpegEntropy has the passes with real coefficients.                      *)
(***************************************************************************)
EXTENDS JpegHuffTables

CONSTANTS
  Symbols,     \* those that may occur, of 0..255
  Tables,      \* tables, by kind, DC or AC, and number
  Script,      \* the scans: the tables of each one's components, in their order
  EobScans,    \* the scans of AC in progressive mode, which may end in a run of blocks
  MaxSymbols,  \* bound: symbols in each scan, a last run of blocks apart
  NULL

\* All codes have room within MaxCodeLength bits, also the pseudo-symbol's: the
\* coder has at most 176 symbols, so that no count in the UINT8 bits wraps, and it
\* and they are far fewer than 2^16.
ASSUME GatherAssumption ==
  /\ Symbols \subseteq 0..255 /\ Cardinality(Symbols) < 255
  /\ Cardinality(Symbols) + 1 <= PowerOf2[MaxCodeLength]
  /\ Script \in Seq(Seq(Tables) \ {<<>>})
  /\ MaxSymbols \in [DOMAIN Script -> Nat]
  /\ NULL \notin [bits : [1..MaxCodeLength -> Nat], huffval : Seq(Symbols)]

VARIABLES
  pass,           \* between passes, gathering, writing, or ended by ERREXIT
  scan,           \* number of the scan, 0 before the first
  written,        \* table -> the symbols of the scan that use it
  count_ptrs,     \* entropy->dc_count_ptrs and ac_count_ptrs: table -> counts or NULL
  huff_tbl_ptrs,  \* cinfo->dc_huff_tbl_ptrs and ac_huff_tbl_ptrs: table -> table or NULL
  symbols         \* how many symbols of the scan were counted

vars == <<pass, scan, written, count_ptrs, huff_tbl_ptrs, symbols>>

NoCounts == [i \in Symbols \cup {PSEUDO} |-> 0]
TablesOf(s) == {Script[s][ci] : ci \in DOMAIN Script[s]}

Init ==
  /\ pass = "none"
  /\ scan = 0
  /\ written = [t \in Tables |-> {}]
  /\ count_ptrs = [t \in Tables |-> NULL]
  /\ huff_tbl_ptrs = [t \in Tables |-> NULL]
  /\ symbols = 0

\* start_pass_huff with gather_statistics.
StartGather ==
  /\ pass = "none" /\ scan < Len(Script)
  /\ pass' = "gather"
  /\ scan' = scan + 1
  /\ count_ptrs' = [t \in Tables |-> IF t \in TablesOf(scan + 1) THEN NoCounts ELSE count_ptrs[t]]
  /\ written' = [t \in Tables |-> {}]
  /\ symbols' = 0
  /\ UNCHANGED huff_tbl_ptrs

Counted(counts, t, sym) == [counts EXCEPT ![t][sym] = @ + 1]
Wrote(syms, t, sym) == [syms EXCEPT ![t] = @ \cup {sym}]

\* htest_one_block or emit_symbol, for a symbol of a component that uses table t.
CountSymbol ==
  /\ pass = "gather" /\ symbols < MaxSymbols[scan]
  /\ \E t \in TablesOf(scan) : \E sym \in Symbols :
       /\ count_ptrs' = Counted(count_ptrs, t, sym)
       /\ written' = Wrote(written, t, sym)
  /\ symbols' = symbols + 1
  /\ UNCHANGED <<pass, scan, huff_tbl_ptrs>>

\* One round of the loop of finish_pass_gather, for table t.  The table is made
\* once only, since that spoils the counts: what is left of them is the count of
\* the last tree.
MakeTable(m, t) ==
  LET h == Huffman(m.counts[t])
  IN  IF t \in m.did \/ ~m.ok THEN m
      ELSE IF Overflows(h.codesize) THEN [m EXCEPT !.ok = FALSE, !.counts[t] = h.freq]
      ELSE [m EXCEPT !.did = @ \cup {t}, !.counts[t] = h.freq, !.tables[t] = TableOf(h.codesize)]
MakeTables(counts) ==
  LET made[k \in 0..Len(Script[scan])] ==
        IF k = 0 THEN [did |-> {}, counts |-> counts, tables |-> huff_tbl_ptrs, ok |-> TRUE]
        ELSE MakeTable(made[k - 1], Script[scan][k])
  IN  made[Len(Script[scan])]

\* The run of blocks that the scan may end in is one symbol more (emit_eobrun).
LastRuns == IF scan \in EobScans THEN Symbols ELSE {}

\* finish_pass_gather, the tables made of counts.  Every component has blocks, and
\* a block, or in the end the run of blocks it belongs to, has a symbol.
Make(counts, syms) ==
  /\ \A t \in TablesOf(scan) : syms[t] # {}
  /\ \E m \in {MakeTables(counts)} :
       /\ pass' = IF m.ok THEN "output" ELSE "error"
       /\ count_ptrs' = m.counts
       /\ huff_tbl_ptrs' = m.tables
  /\ written' = syms
FinishGather ==
  /\ pass = "gather"
  /\ \/ Make(count_ptrs, written)
     \/ \E t \in TablesOf(scan) : \E sym \in LastRuns : Make(Counted(count_ptrs, t, sym), Wrote(written, t, sym))
  /\ UNCHANGED <<scan, symbols>>

\* finish_pass_huff
FinishOutput ==
  /\ pass = "output"
  /\ pass' = "none"
  /\ UNCHANGED <<scan, written, count_ptrs, huff_tbl_ptrs, symbols>>

Next == StartGather \/ CountSymbol \/ FinishGather \/ FinishOutput
Spec == Init /\ [][Next]_vars

-----------------------------------------------------------------------------
(* Properties *)

\* The passes come in turn, and a table that is there has the codes and the symbols
\* its JHUFF_TBL declares.
TypeOK ==
  /\ pass \in {"none", "gather", "output", "error"}
  /\ scan \in 0..Len(Script) /\ (pass # "none" => scan # 0)
  /\ written \in [Tables -> SUBSET Symbols]
  /\ count_ptrs \in [Tables -> [Symbols \cup {PSEUDO} -> Nat] \cup {NULL}]
  /\ huff_tbl_ptrs \in [Tables -> [bits : [1..MaxCodeLength -> Nat], huffval : Seq(Symbols)] \cup {NULL}]
  /\ symbols \in Nat

\* No code begins another one, and none is all ones, which would be taken for
\* the fill bits at the end of a scan.
PrefixFree(codes) ==
  \A p \in DOMAIN codes :
    /\ codes[p].code + 1 < PowerOf2[codes[p].size]
    /\ \A q \in p + 1..Len(codes) :
         codes[q].code \div PowerOf2[codes[q].size - codes[p].size] # codes[p].code

\* The codes are as many as the symbols, and each symbol the scan has is one of them.
Covers(tbl, syms) ==
  /\ Len(Codes(tbl)) = Len(tbl.huffval)
  /\ \A sym \in syms : \E p \in DOMAIN tbl.huffval : tbl.huffval[p] = sym
  /\ \A p, q \in DOMAIN tbl.huffval : tbl.huffval[p] = tbl.huffval[q] => p = q

\* When a scan is written, whatever its symbols and however its components share
\* tables, each of its symbols has a code in its table, which is at most
\* MaxCodeLength bits long and can be told from every other: neither the encoder
\* nor the decoder complains (JERR_BAD_HUFF_TABLE, JERR_HUFF_MISSING_CODE), also
\* where codes had to be shortened, of which the comment at jchuff.c:1374 says
\* that it is not clear why it works.
TablesSound ==
  pass = "output" =>
    \A t \in TablesOf(scan) :
      /\ huff_tbl_ptrs[t] # NULL
      /\ PrefixFree(Codes(huff_tbl_ptrs[t]))
      /\ Covers(huff_tbl_ptrs[t], written[t])
=============================================================================
