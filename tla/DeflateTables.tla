--------------------------- MODULE DeflateTables ---------------------------
(***************************************************************************)
(* The constant tables of the DEFLATE format as libdeflate has them, once  *)
(* for the compressor and once for the decompressor, with their real       *)
(* values.  Slots and symbols count from 0; a table is a sequence, so slot *)
(* s is its element s + 1.  The two maps from a length or an offset to its *)
(* slot are given by how often each slot is repeated in them.              *)
(***************************************************************************)
EXTENDS Integers, Sequences

MIN_MATCH_LEN    == 3
MAX_MATCH_LEN    == 258
MAX_MATCH_OFFSET == 32768

length_slot_base ==
  <<3, 4, 5, 6, 7, 8, 9, 10, 11, 13, 15, 17, 19, 23, 27, 31,
    35, 43, 51, 59, 67, 83, 99, 115, 131, 163, 195, 227, 258>>
extra_length_bits ==
  <<0, 0, 0, 0, 0, 0, 0, 0, 1, 1, 1, 1, 2, 2, 2, 2,
    3, 3, 3, 3, 4, 4, 4, 4, 5, 5, 5, 5, 0>>
offset_slot_base ==
  <<1, 2, 3, 4, 5, 7, 9, 13, 17, 25, 33, 49, 65, 97, 129, 193, 257, 385, 513, 769,
    1025, 1537, 2049, 3073, 4097, 6145, 8193, 12289, 16385, 24577>>
extra_offset_bits ==
  <<0, 0, 0, 0, 1, 1, 2, 2, 3, 3, 4, 4, 5, 5, 6, 6, 7, 7, 8, 8,
    9, 9, 10, 10, 11, 11, 12, 12, 13, 13>>

(* A map in which slot s is repeated runs[s + 1] times: index to slot. *)
SlotAt(runs, index) ==
  LET upto[s \in 0..Len(runs)] == IF s = 0 THEN 0 ELSE upto[s - 1] + runs[s]
  IN  CHOOSE s \in 0..(Len(runs) - 1) : upto[s] <= index /\ index < upto[s + 1]

length_slot_runs ==
  <<4, 1, 1, 1, 1, 1, 1, 1, 2, 2, 2, 2, 4, 4, 4, 4, 8, 8, 8, 8,
    16, 16, 16, 16, 32, 32, 32, 31, 1>>
offset_slot_runs == <<1, 1, 1, 1, 2, 2, 4, 4, 8, 8, 16, 16, 32, 32, 64, 64>>

length_slot(len)   == SlotAt(length_slot_runs, len)
offset_slot(index) == SlotAt(offset_slot_runs, index)

(* mutant: the small map is used for one offset too many *)
get_offset_slot_late(offset) ==
  LET n == IF offset <= 257 THEN 0 ELSE 7
  IN  IF n = 0 THEN offset_slot((offset - 1) % 256) ELSE offset_slot((offset - 1) \div 2^n) + 2 * n
(* The map of 256 offsets serves all: from 257 on it is read at              *)
(* (offset - 1) >> 7, and 14 is added.                                        *)
get_offset_slot(offset) ==
  LET n == IF offset <= 256 THEN 0 ELSE 7
  IN  offset_slot((offset - 1) \div 2^n) + 2 * n

(* init_offset_slot_full: a table with every offset, filled slot by slot. *)
OffsetsOfSlot(slot) ==
  offset_slot_base[slot + 1]..(offset_slot_base[slot + 1] + 2^extra_offset_bits[slot + 1] - 1)
offset_slot_full(offset) ==
  CHOOSE slot \in 0..29 : offset \in OffsetsOfSlot(slot)

(***************************************************************************)
(* The decompressor's tables, by symbol: the last two offset symbols and   *)
(* the last two length symbols are not in use, and read as the ones before *)
(* them.                                                                   *)
(***************************************************************************)
litlen_decode_results(sym) ==
  LET base  == length_slot_base \o <<258, 258>>
      extra == extra_length_bits \o <<0, 0>>
  IN  [base |-> base[sym - 256], extra |-> extra[sym - 256]]
offset_decode_results(sym) ==
  LET base  == offset_slot_base \o <<24577, 24577>>
      extra == extra_offset_bits \o <<13, 13>>
  IN  [base |-> base[sym + 1], extra |-> extra[sym + 1]]

(* The largest numbers of bits that make a codeword or its extra bits. *)
MAX_LITLEN_CODEWORD_LEN         == 14
MAX_OFFSET_CODEWORD_LEN         == 15
MAX_PRE_CODEWORD_LEN            == 7
DEFLATE_MAX_LITLEN_CODEWORD_LEN == 15
DEFLATE_MAX_OFFSET_CODEWORD_LEN == 15
MAX_EXTRA_LENGTH_BITS           == 5
MAX_EXTRA_OFFSET_BITS           == 13
NUM_PRECODE_SYMS                == 19
LITLEN_TABLEBITS                == 11
OFFSET_TABLEBITS                == 8
LENGTH_MAXBITS     == DEFLATE_MAX_LITLEN_CODEWORD_LEN + MAX_EXTRA_LENGTH_BITS
LENGTH_MAXFASTBITS == LITLEN_TABLEBITS + MAX_EXTRA_LENGTH_BITS
OFFSET_MAXBITS     == DEFLATE_MAX_OFFSET_CODEWORD_LEN + MAX_EXTRA_OFFSET_BITS
OFFSET_MAXFASTBITS == OFFSET_TABLEBITS + MAX_EXTRA_OFFSET_BITS
=============================================================================
