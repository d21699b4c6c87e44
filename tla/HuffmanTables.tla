---------------------------- MODULE HuffmanTables ----------------------------
(***************************************************************************)
(* What the decompressor makes of the codeword lengths: the decode tables  *)
(* for the codes that the compressor makes, and for lengths of any origin. *)
(***************************************************************************)
EXTENDS HuffmanCodes, DecodeTable

CONSTANT LensTableBits  (* the sizes of the main table tried *)

(* The decode tables, with and without subtables, give back every symbol     *)
(* from its codeword, whatever bits follow it.                               *)
CodesDecode ==
  Compressing =>
    LET made == Made(code.max)
    IN  \A bits \in 1..code.max :
          LET built == build_decode_table(made.lens, bits, code.max, FALSE)
          IN  /\ built.ok
              /\ \A s \in Used : \A more \in 0..(2^(code.max - made.lens[s]) - 1) :
                   Lookup(built.table, bits, made.codewords[s] + more * 2^made.lens[s])
                     = [sym |-> s, len |-> made.lens[s]]

(* The canonical codeword of RFC 1951, first bit highest: the codespace taken *)
(* by what sorts before it.                                                   *)
Canonical(ls, s) ==
  MapThenSumSet(LAMBDA t : 2^(ls[s] - ls[t]),
    {t \in DOMAIN ls : ls[t] # 0 /\ (ls[t] < ls[s] \/ (ls[t] = ls[s] /\ t < s))})

Given     == [s \in 0..(LensSyms - 1) |-> lens[s + 1]]
Present   == {s \in DOMAIN Given : Given[s] # 0}
FullCode  == Kraft(Given, LensMax) = 2^LensMax
OneShort  == Present = {} \/ (Cardinality(Present) = 1 /\ \A s \in Present : Given[s] = 1)
AllRead   == ReadingLens /\ Len(lens) = LensSyms

(* Untrusted lengths are accepted exactly when they form a complete code, or  *)
(* use no symbol, or one symbol with one bit (build_decode_table).            *)
LensJudged ==
  AllRead =>
    \A bits \in LensTableBits, dynamic \in BOOLEAN :
      build_decode_table(Given, bits, LensMax, dynamic).ok <=> FullCode \/ OneShort

(* An accepted table decodes every possible sequence of bits: to the symbol   *)
(* whose canonical codeword they begin with, never to an entry that was not   *)
(* written.                                                                   *)
LensDecoded ==
  AllRead =>
    \A bits \in LensTableBits, dynamic \in BOOLEAN :
      LET built == build_decode_table(Given, bits, LensMax, dynamic)
      IN  built.ok => \A word \in 0..(2^LensMax - 1) :
            LET got == Lookup(built.table, built.table_bits, word)
            IN  /\ got.sym \in DOMAIN Given
                /\ FullCode => /\ got.len = Given[got.sym]
                               /\ reverse_codeword(word % 2^got.len, got.len)
                                    = Canonical(Given, got.sym)
                /\ ~FullCode => got.len = 1 /\ got.sym \in (IF Present = {} THEN {0} ELSE Present)

(* Whatever the code, made here or read, its table decodes it: each of the    *)
(* bits' prefixes to its symbol, with main tables of any size and subtables   *)
(* behind them (build_decode_table, and the lookups of decompress_template.h).*)
TablesDecode == CodesDecode /\ LensDecoded
=============================================================================
