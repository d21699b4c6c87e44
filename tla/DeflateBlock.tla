---------------------------- MODULE DeflateBlock ----------------------------
(***************************************************************************)
(* How deflate_compress.c writes a block (deflate_finish_block and         *)
(* deflate_flush_block), a stream of stored blocks and the bound on the    *)
(* size of a stream.  Alphabets, codeword lengths and headers are real.    *)
(*                                                                         *)
(* An output bitstream os is [bits, avail, overflow, cost]: bits has every *)
(* bit that was added, so os->next is Len(bits) \div 8 and os->bitcount is *)
(* Len(bits) % 8 (BitWriter models the buffer itself); cost is best_cost   *)
(* of the block that was written last.  The sequences of   *)
(* a block, or the path through its optimum nodes, are a list of items:    *)
(* <<1, byte>> is a literal and <<length, offset>> a match.                *)
(***************************************************************************)
EXTENDS Huffman, DeflateTables, SequencesExt, FiniteSetsExt

CONSTANTS MaxStored,  (* longest stored block: UINT16_MAX                              *)
          MinBlock    (* MIN_BLOCK_LENGTH: shortest block before the last one          *)
ASSUME StoredAssumption ==
  /\ MaxStored \in 1..65535 /\ MinBlock \in Nat \ {0}
  /\ 2 * MinBlock <= MaxStored    (* asserted by libdeflate_deflate_compress_bound *)

(* The sequences seqs[from], ..., seqs[to] joined: FlattenSeq nests as deep   *)
(* as there are sequences, which is too deep for the items of a block.       *)
RECURSIVE JoinedFrom(_, _, _)
JoinedFrom(seqs, from, to) ==
  LET mid == (from + to) \div 2
  IN  CASE from > to -> <<>>
        [] from = to -> seqs[from]
        [] OTHER -> JoinedFrom(seqs, from, mid) \o JoinedFrom(seqs, mid + 1, to)
Joined(seqs) == JoinedFrom(seqs, 1, Len(seqs))

BitsOf(value, n) == [i \in 1..n |-> (value \div 2^(i - 1)) % 2]
Padding(nbits) == (8 - (nbits % 8)) % 8
DivRoundUp(n, d) == (n + d - 1) \div d
Bytes(data) == Joined([i \in DOMAIN data |-> BitsOf(data[i], 8)])
EncodeSym(code, s) == BitsOf(code.codewords[s], code.lens[s])

EOB == 256

(***************************************************************************)
(* Codes.                                                                  *)
(***************************************************************************)
LitlenSym(item) == IF item[1] = 1 THEN item[2] ELSE 257 + length_slot(item[1])

tally_item_list(items) ==
  [litlen |-> [s \in 0..287 |-> Cardinality({i \in DOMAIN items : LitlenSym(items[i]) = s})],
   offset |-> [s \in 0..31 |-> Cardinality({i \in DOMAIN items :
                 items[i][1] # 1 /\ get_offset_slot(items[i][2]) = s})]]

deflate_make_huffman_codes(freqs) ==
  [litlen |-> make_huffman_code(288, MAX_LITLEN_CODEWORD_LEN, freqs.litlen),
   offset |-> make_huffman_code(32, MAX_OFFSET_CODEWORD_LEN, freqs.offset)]

(* init_static_codes: frequencies that make the lengths 8, 9, 7, 8 and, for   *)
(* offsets, 5.                                                               *)
static_freqs ==
  [litlen |-> [s \in 0..287 |-> CASE s \in 144..255 -> 1 [] s \in 256..279 -> 4 [] OTHER -> 2],
   offset |-> [s \in 0..31 |-> 1]]
static_codes == deflate_make_huffman_codes(static_freqs)

precode_lens_permutation ==
  <<16, 17, 18, 0, 8, 7, 9, 6, 10, 5, 11, 4, 12, 3, 13, 2, 14, 1, 15>>
extra_precode_bits == [s \in 0..18 |-> CASE s = 16 -> 2 [] s = 17 -> 3 [] s = 18 -> 7 [] OTHER -> 0]

(* How many of the first n are left when zeroes at the end go, down to least. *)
Trimmed(n, least, Len_(_)) ==
  CHOOSE k \in least..n : (k = least \/ Len_(k) # 0) /\ \A j \in (k + 1)..n : Len_(j) = 0

(* The offset lengths are moved next to the litlen lengths while the items   *)
(* are computed.                                                             *)
Explicit(code) ==
  LET Pre(k) == code.lens[precode_lens_permutation[k]] IN Trimmed(19, 4, Pre)
HeaderOf(nlit, noff, lens) ==
  LET Header(items, freqs, code) ==
        [num_litlen_syms |-> nlit, num_offset_syms |-> noff, items |-> items,
         freqs |-> freqs, code |-> code, num_explicit_lens |-> Explicit(code)]
      Items(items) ==
        LET Freqs(freqs) ==
              With(make_huffman_code(NUM_PRECODE_SYMS, MAX_PRE_CODEWORD_LEN, freqs),
                   LAMBDA code : Header(items, freqs, code))
        IN  With(precode_freqs(items), Freqs)
  IN  With(compute_precode_items(lens), Items)
precompute_huffman_header(codes) ==
  LET Litlen(k) == codes.litlen.lens[k - 1]
      Offset(k) == codes.offset.lens[k - 1]
      Header(n) == With([k \in 1..(n[1] + n[2]) |->
                           IF k <= n[1] THEN Litlen(k) ELSE Offset(k - n[1])],
                        LAMBDA lens : HeaderOf(n[1], n[2], lens))
  IN  With(<<Trimmed(288, 257, Litlen), Trimmed(32, 1, Offset)>>, Header)

(***************************************************************************)
(* Costs in bits, counted before anything is written.                      *)
(***************************************************************************)
Weighted(freqs, Cost(_)) ==
  MapThenSumSet(LAMBDA s : freqs[s] * Cost(s), {s \in DOMAIN freqs : freqs[s] # 0})

HeaderCost(h) ==
  LET Item(s) == extra_precode_bits[s] + h.code.lens[s]
  IN  5 + 5 + 4 + 3 * h.num_explicit_lens + Weighted(h.freqs, Item)
ItemsCost(freqs, codes) ==
  LET Litlen(s) == codes.litlen.lens[s] + (IF s > EOB THEN extra_length_bits[s - EOB] ELSE 0)
      Offset(s) == codes.offset.lens[s] + extra_offset_bits[s + 1]
  IN  Weighted(freqs.litlen, Litlen) + Weighted(freqs.offset, Offset)

DynamicCost(freqs, codes, h) == 3 + HeaderCost(h) + ItemsCost(freqs, codes)
StaticCost(freqs, static) ==
  LET Litlen(s) == CASE s < 144 -> 8 [] s \in 144..255 -> 9 [] s = EOB -> 7
                     [] OTHER -> static.litlen.lens[s] + extra_length_bits[s - EOB]
      Offset(s) == 5 + extra_offset_bits[s + 1]
  IN  3 + Weighted(freqs.litlen, Litlen) + Weighted(freqs.offset, Offset)

(* mutant: the block is counted as one stored block, however long it is *)
UncompressedCostOfOne(bitcount, n) == 3 + Padding(bitcount + 3) + 32 + 8 * n
UncompressedCost(bitcount, n) ==
  3 + Padding(bitcount + 3) + 32 + 40 * (DivRoundUp(n, MaxStored) - 1) + 8 * n

(***************************************************************************)
(* What is written.                                                        *)
(***************************************************************************)
Align(bits) == bits \o BitsOf(0, Padding(Len(bits)))

RECURSIVE StoredBlocks(_, _, _)
StoredBlocks(bits, data, is_final) ==
  LET last == Len(data) <= MaxStored
      len  == IF last THEN Len(data) ELSE MaxStored
      to   == Align(bits \o BitsOf(IF last /\ is_final THEN 1 ELSE 0, 3))
              \o BitsOf(len, 16) \o BitsOf(65535 - len, 16) \o Bytes(SubSeq(data, 1, len))
  IN  IF last THEN to ELSE StoredBlocks(to, SubSeq(data, len + 1, Len(data)), is_final)

DynamicHeader(h) ==
  BitsOf(h.num_litlen_syms - 257, 5) \o BitsOf(h.num_offset_syms - 1, 5)
  \o BitsOf(h.num_explicit_lens - 4, 4)
  \o Joined([k \in 1..h.num_explicit_lens |->
                   BitsOf(h.code.lens[precode_lens_permutation[k]], 3)])
  \o Joined([i \in DOMAIN h.items |->
                   EncodeSym(h.code, h.items[i][1])
                   \o BitsOf(h.items[i][2], extra_precode_bits[h.items[i][1]])])

WriteMatch(codes, length, offset) ==
  LET slot  == length_slot(length)
      oslot == get_offset_slot(offset)
  IN  EncodeSym(codes.litlen, 257 + slot)
      \o BitsOf(length - length_slot_base[slot + 1], extra_length_bits[slot + 1])
      \o EncodeSym(codes.offset, oslot)
      \o BitsOf(offset - offset_slot_base[oslot + 1], extra_offset_bits[oslot + 1])

Body(codes, items) ==
  Joined([i \in DOMAIN items |->
                IF items[i][1] = 1 THEN EncodeSym(codes.litlen, items[i][2])
                ELSE WriteMatch(codes, items[i][1], items[i][2])])
  \o EncodeSym(codes.litlen, EOB)

(* Everything that deflate_flush_block decides by: ties go to uncompressed,  *)
(* then static.                                                              *)
BlockCosts(os, data, freqs, codes, static) ==
  With(precompute_huffman_header(codes),
       LAMBDA h : [header  |-> h,
                   dynamic |-> DynamicCost(freqs, codes, h), static |-> StaticCost(freqs, static),
                   stored  |-> UncompressedCost(Len(os.bits) % 8, Len(data))])
BestCost(c) == Less(c.dynamic, Less(c.static, c.stored))

BlockBits(os, c, codes, static, data, items, is_final) ==
  LET best == BestCost(c)
      bit  == IF is_final THEN <<1>> ELSE <<0>>
  IN  CASE best = c.stored -> StoredBlocks(os.bits, data, is_final)
        [] best # c.stored /\ best = c.static ->
             os.bits \o bit \o BitsOf(1, 2) \o Body(static, items)
        [] OTHER -> os.bits \o bit \o BitsOf(2, 2) \o DynamicHeader(c.header) \o Body(codes, items)

Fits(os, cost) == DivRoundUp((Len(os.bits) % 8) + cost, 8) <= os.avail - (Len(os.bits) \div 8)

flush_block(os, freqs, codes, data, items, is_final) ==
  LET Flush(static) ==
        LET Write(c) ==
              IF Fits(os, BestCost(c))
              THEN [os EXCEPT !.bits = BlockBits(os, c, codes, static, data, items, is_final),
                              !.cost = BestCost(c)]
              ELSE [os EXCEPT !.overflow = TRUE]
        IN  With(BlockCosts(os, data, freqs, codes, static), Write)
  IN  With(static_codes, Flush)

(* The end of block symbol is counted, codes are made, the block is written. *)
BlockFreqs(items) == [tally_item_list(items) EXCEPT !.litlen[EOB] = @ + 1]
finish_block(os, data, items, is_final) ==
  LET Flush(freqs) ==
        LET WithCodes(codes) == flush_block(os, freqs, codes, data, items, is_final)
        IN  With(deflate_make_huffman_codes(freqs), WithCodes)
  IN  With(BlockFreqs(items), Flush)

(***************************************************************************)
(* Level 0 and short inputs; the last byte; the bound.                     *)
(***************************************************************************)
NeedOf(data) ==
  IF data = <<>> THEN 5 ELSE Len(data) + 5 * DivRoundUp(Len(data), MaxStored)
deflate_compress_none(os, data) ==
  IF NeedOf(data) > os.avail THEN [os EXCEPT !.overflow = TRUE]
  ELSE [os EXCEPT !.bits = StoredBlocks(<<>>, data, TRUE)]

FinalByte(os) == IF os.overflow THEN os ELSE [os EXCEPT !.bits = Align(@)]

ToBytes(bits) ==
  [k \in 1..(Len(bits) \div 8) |->
     bits[8 * k - 7] + 2 * bits[8 * k - 6] + 4 * bits[8 * k - 5] + 8 * bits[8 * k - 4]
     + 16 * bits[8 * k - 3] + 32 * bits[8 * k - 2] + 64 * bits[8 * k - 1] + 128 * bits[8 * k]]

(* mutant: room for the header of one stored block *)
BoundOfOneBlock(n) == 5 + n
deflate_compress_bound(n) ==
  5 * (IF DivRoundUp(n, MinBlock) >= 1 THEN DivRoundUp(n, MinBlock) ELSE 1) + n
=============================================================================
