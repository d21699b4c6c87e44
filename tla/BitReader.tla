----------------------------- MODULE BitReader -----------------------------
(***************************************************************************)
(* The bit budget of the decompressor: which refills decompress_template.h *)
(* makes, what they guarantee, and what is consumed between them.          *)
(*                                                                         *)
(* Only counts are modelled, with the real sizes of tables and codewords.  *)
(* bitsleft counts the bits that may be consumed, valid those that a table *)
(* may be indexed with: after a whole-word refill some more bits are there *)
(* than are counted.  A step is what is done between two table lookups.    *)
(***************************************************************************)
EXTENDS Machine

CONSTANTS Lens,         (* match lengths *)
          CopyOffsets   (* match offsets *)
ASSUME ReaderAssumption ==
  /\ Lens \subseteq MIN_MATCH_LEN..MAX_MATCH_LEN
  /\ CopyOffsets \subseteq 1..MAX_MATCH_OFFSET

VARIABLES pc,        (* where the decoder is                                    *)
          bitsleft,  (* bits that may be consumed                               *)
          valid,     (* low bits of the buffer that come from the stream        *)
          advanced,  (* bytes read since the loop compared in_next with the end *)
          written,   (* bytes of output since the loop compared out_next        *)
          starved,   (* bits were consumed or used as an index that are not there *)
          strayed    (* a byte was touched beyond the distances compared        *)
rvars == <<pc, bitsleft, valid, advanced, written, starved, strayed>>

(***************************************************************************)
(* A buffer is [left, valid, adv, touched, bad]; refills, consumptions and *)
(* table lookups make one from another.                                    *)
(***************************************************************************)
Buffer == [left |-> bitsleft, valid |-> valid, adv |-> advanced, touched |-> advanced,
           bad |-> starved]

Consume(b, n) ==
  [b EXCEPT !.left = AtLeast(0, @ - n), !.valid = AtLeast(0, @ - n), !.bad = @ \/ n > b.left]
(* The entry for the next n bits: all of them have to be there. *)
Preload(b, n) == [b EXCEPT !.bad = @ \/ n > b.valid]

(* REFILL_BITS_BRANCHLESS: a word is read, as many of its bytes as fit are   *)
(* counted: bitsleft |= MAX_BITSLEFT & ~7.                                   *)
WholeWord(b) ==
  [b EXCEPT !.left    = (MAX_BITSLEFT \div 8) * 8 + (b.left % 8),
            !.valid   = NBITS,
            !.adv     = @ + (WordBytes - 1) - (b.left \div 8),
            !.touched = AtLeast(@, b.adv + WordBytes)]

(* Byte by byte, until CONSUMABLE_NBITS bits are there. *)
ByBytes(b) ==
  LET k == IF b.left >= CONSUMABLE_NBITS THEN 0 ELSE (CONSUMABLE_NBITS - b.left + 7) \div 8
  IN  [b EXCEPT !.left = @ + 8 * k, !.valid = b.left + 8 * k, !.adv = @ + k,
                !.touched = AtLeast(@, b.adv + k)]

REFILL_BITS_IN_FASTLOOP(b) == IF FastAccess THEN WholeWord(b) ELSE ByBytes(b)
RefillIf(cond, b) == IF cond THEN REFILL_BITS_IN_FASTLOOP(b) ELSE b

(* The end of a step in the fast loop, and outside of it, where in_next is    *)
(* compared with the end at each byte.                                        *)
Become(b, to) ==
  /\ bitsleft' = b.left /\ valid' = b.valid /\ advanced' = b.adv
  /\ starved' = b.bad
  /\ pc' = to
In(b, to) == Become(b, to) /\ strayed' = (strayed \/ b.touched > FASTLOOP_MAX_BYTES_READ)
Out(b, to) == Become([b EXCEPT !.adv = 0], to) /\ written' = 0 /\ UNCHANGED strayed

RInit ==
  /\ AnyMachine
  /\ pc = "block" /\ bitsleft = 0 /\ valid = 0 /\ advanced = 0 /\ written = 0
  /\ starved = FALSE /\ strayed = FALSE

(***************************************************************************)
(* Headers and the generic loop.  REFILL_BITS works byte by byte near the  *)
(* end of the input; the bits behind the end are zeroes that count.        *)
(***************************************************************************)
Refilled(b) == {ByBytes(b)} \cup (IF FastAccess THEN {WholeWord(b)} ELSE {})

MergedLen == CAN_CONSUME(3 * (NUM_PRECODE_SYMS - 1))

(* An uncompressed block ends at a byte, with an empty buffer; a static one  *)
(* has no more in its header.                                                *)
ReadBlockHeader(type) ==
  /\ pc = "block"
  /\ \E b \in Refilled(Buffer) :
       \/ type = "stored"  /\ Out([Consume(b, 3) EXCEPT !.left = 0, !.valid = 0], "block")
       \/ type = "dynamic" /\ Out(Consume(b, IF MergedLen THEN 20 ELSE 17), "precode")
       \/ type = "static"  /\ Out(Consume(b, 3), "huffman")

ReadPrecodeLens(explicit) ==
  /\ pc = "precode"
  /\ IF MergedLen
     THEN \E b \in Refilled(Buffer) : Out(Consume(b, 3 * (explicit - 1)), "lens")
     ELSE \E b \in IF bitsleft < 3 THEN Refilled(Buffer) ELSE {Buffer} :
            Out(Consume(b, 3), IF explicit = 4 THEN "lens" ELSE "precode")

(* A precode symbol of n bits and the extra bits of its repetition. *)
LenItem(n, last) ==
  /\ pc = "lens"
  /\ \E b \in IF bitsleft < MAX_PRE_CODEWORD_LEN + 7 THEN Refilled(Buffer) ELSE {Buffer} :
       Out(Consume(b, n), IF last THEN "huffman" ELSE "lens")

GenericSymbol(n, to) ==
  /\ pc = "huffman"
  /\ \E b \in Refilled(Buffer) : Out(Consume(Preload(b, LITLEN_TABLEBITS), n), to)

GenericOffset(n, extra) ==
  /\ pc = "generic_offset"
  /\ \E b \in IF CAN_CONSUME(LENGTH_MAXBITS + OFFSET_MAXBITS) THEN {Buffer}
              ELSE Refilled(Buffer) :
       IF n <= OFFSET_TABLEBITS THEN Out(Consume(b, n + extra), "huffman")
       ELSE LET s == Consume(b, OFFSET_TABLEBITS)
            IN  \E r \in IF CAN_CONSUME(OFFSET_MAXBITS) THEN {s} ELSE Refilled(s) :
                  Out(Consume(r, n - OFFSET_TABLEBITS + extra), "huffman")

(***************************************************************************)
(* The fast loop.                                                          *)
(***************************************************************************)
(* Into it: refill, preload. *)
Enter ==
  /\ pc = "huffman"
  /\ In(Preload(REFILL_BITS_IN_FASTLOOP(Buffer), LITLEN_TABLEBITS), "primary")
  /\ UNCHANGED written

(* An iteration ends with the next entry preloaded and a refill; the loop    *)
(* condition then compares both pointers again.                              *)
Iterate(b) == In(REFILL_BITS_IN_FASTLOOP(Preload(b, LITLEN_TABLEBITS)), "again")
Again(to) == pc = "again" /\ Out(Buffer, to)

(* A literal that needs no subtable: the first two are followed by another   *)
(* entry at once where the buffer allows it, otherwise by a refill.          *)
FastLiteral(n) ==
  /\ pc \in {"primary", "extra1", "extra2"}
  /\ IF pc # "extra2" /\ ExtraLiterals
     THEN In(Preload(Consume(Buffer, n), LITLEN_TABLEBITS),
             IF pc = "primary" THEN "extra1" ELSE "extra2")
     ELSE Iterate(Consume(Buffer, n))
  /\ written' = written + 1

(* A pointer to a subtable of k bits: the main table's bits are consumed. *)
LitlenSubtable(k) ==
  /\ pc \in {"primary", "extra1", "extra2"}
  /\ In(Preload(Consume(Buffer, LITLEN_TABLEBITS), k), "subtable")
  /\ UNCHANGED written

SlowLiteral(n) ==
  /\ pc = "subtable"
  /\ Iterate(RefillIf(SubtableRefill, Consume(Buffer, n)))
  /\ written' = written + 1

(* The end of the block is found with either table. *)
FastEndOfBlock(n) ==
  /\ pc \in {"primary", "extra1", "extra2", "subtable"}
  /\ Out(RefillIf(pc = "subtable" /\ SubtableRefill, Consume(Buffer, n)), "block")

(* A length, from the main table (n bits) or a subtable, with its extra bits; *)
(* then the offset table is indexed.                                          *)
Length(n, extra) ==
  /\ pc \in {"primary", "extra1", "extra2", "subtable"}
  /\ In(Preload(RefillIf(pc = "subtable" /\ SubtableRefill, Consume(Buffer, n + extra)),
                OFFSET_TABLEBITS), "offset")
  /\ UNCHANGED written

(* An offset that needs a subtable of k bits. *)
OffsetSubtable(k) ==
  /\ pc = "offset"
  /\ LET b == Consume(RefillIf(OffsetSubtableRefill(bitsleft), Buffer), OFFSET_TABLEBITS)
     IN  In(RefillIf(~WideOffset, Preload(b, k)), "offset2")
  /\ UNCHANGED written

(* How far the copy of a match stores: words in groups of five, words of one  *)
(* byte in groups of four, words that advance by the offset in pairs.         *)
CopyEnd(len, offset) ==
  CASE FastAccess /\ offset >= WordBytes ->
         5 * WordBytes * ((len + 5 * WordBytes - 1) \div (5 * WordBytes))
    [] FastAccess /\ offset = 1 ->
         4 * WordBytes * ((len + 4 * WordBytes - 1) \div (4 * WordBytes))
    [] FastAccess /\ offset \in 2..(WordBytes - 1) ->
         LET pairs == AtLeast(2, (len + 2 * offset - 1) \div (2 * offset))
         IN  (2 * pairs - 1) * offset + WordBytes
    [] OTHER -> AtLeast(3, len)

(* The offset is consumed and the match is copied. *)
Offset(n, extra, len, offset) ==
  /\ pc \in {"offset", "offset2"}
  /\ LET b == Consume(RefillIf(pc = "offset" /\ OffsetRefill(bitsleft), Buffer), n + extra)
         c == RefillIf(RefillAfterOffset(b.left), b)
         d == REFILL_BITS_IN_FASTLOOP(Preload(c, LITLEN_TABLEBITS))
     IN  /\ Become(d, "again")
         /\ strayed' = (\/ strayed
                        \/ d.touched > FASTLOOP_MAX_BYTES_READ
                        \/ written + CopyEnd(len, offset) > FASTLOOP_MAX_BYTES_WRITTEN)
  /\ written' = written + len

(* The bits that the codeword of an entry may have at this place. *)
MostBits(main, max, sub) == IF pc = sub THEN max - main ELSE main

RNext ==
  /\ \/ \E type \in {"stored", "static", "dynamic"} : ReadBlockHeader(type)
     \/ \E explicit \in {4, NUM_PRECODE_SYMS} : ReadPrecodeLens(explicit)
     \/ \E n \in {1, MAX_PRE_CODEWORD_LEN + 7}, last \in BOOLEAN : LenItem(n, last)
     \/ \E n \in {1, DEFLATE_MAX_LITLEN_CODEWORD_LEN}, to \in {"huffman", "block"} :
          GenericSymbol(n, to)
     \/ \E n \in {1, LENGTH_MAXBITS} : GenericSymbol(n, "generic_offset")
     \/ \E n \in {1, OFFSET_TABLEBITS, DEFLATE_MAX_OFFSET_CODEWORD_LEN}, x \in {0, MAX_EXTRA_OFFSET_BITS} :
          GenericOffset(n, x)
     \/ Enter
     \/ \E to \in {"primary", "huffman"} : Again(to)
     \/ \E n \in {1, 6, LITLEN_TABLEBITS} : FastLiteral(n)
     \/ \E k \in {1, 4} : LitlenSubtable(k)
     \/ \E n \in {1, 4} : SlowLiteral(n)
     \/ \E n \in {1, MostBits(LITLEN_TABLEBITS, DEFLATE_MAX_LITLEN_CODEWORD_LEN, "subtable")} :
          FastEndOfBlock(n)
     \/ \E n \in {1, MostBits(LITLEN_TABLEBITS, DEFLATE_MAX_LITLEN_CODEWORD_LEN, "subtable")},
           x \in {0, MAX_EXTRA_LENGTH_BITS} : Length(n, x)
     \/ \E k \in {1, 7} : OffsetSubtable(k)
     \/ \E n \in {1, MostBits(OFFSET_TABLEBITS, DEFLATE_MAX_OFFSET_CODEWORD_LEN, "offset2")},
           x \in {0, MAX_EXTRA_OFFSET_BITS}, len \in Lens, offset \in CopyOffsets :
          Offset(n, x, len, offset)
  /\ UNCHANGED machine

RSpec == RInit /\ [][RNext]_<<machine, rvars>>

(***************************************************************************)
(* Properties.                                                             *)
(***************************************************************************)
(* Nothing is consumed that was not refilled, and no table is indexed with  *)
(* bits that the buffer does not have: the first would shift in zeroes, the *)
(* second would decode another symbol.  And an iteration of the fast loop,  *)
(* which does not look at the ends of the buffers, stays within the         *)
(* distances that its condition has compared.                               *)
ReaderWithinMargins == ~starved /\ ~strayed
=============================================================================
