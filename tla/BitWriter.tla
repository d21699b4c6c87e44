----------------------------- MODULE BitWriter -----------------------------
(***************************************************************************)
(* The bit budget of the compressor's output: how many bits the word-sized *)
(* bit buffer holds between two flushes, and how far a flush stores.       *)
(*                                                                         *)
(* Only counts are modelled.  One action is a group of ADD_BITS up to and  *)
(* including its FLUSH_BITS, with the real maximum codeword lengths; the   *)
(* groups of deflate_flush_block may come in any order.  The cost of a     *)
(* block, computed before it is written, is exact (DeflateBlock checks it) *)
(* and is what bounds the groups.                                          *)
(***************************************************************************)
EXTENDS Machine

CONSTANTS Space,   (* bytes of the output buffer *)
          Costs    (* bit costs of the blocks    *)
ASSUME WriterAssumption == Space \in Nat /\ Costs \subseteq Nat

VARIABLES bitcount,  (* bits in the buffer                                 *)
          lost,      (* more bits were added than the buffer holds         *)
          next,      (* position of the next byte in the output buffer     *)
          fast_end,  (* out_fast_end of the block                          *)
          overran,   (* a byte was stored behind the output buffer         *)
          left,      (* bits of the current block that are not written yet *)
          stopped    (* os->overflow, or the last byte is written          *)
wvars == <<bitcount, lost, next, fast_end, overran, left, stopped>>

BITBUF_NBITS == 8 * WordBytes - 1
CAN_BUFFER(n) == 7 + n <= BITBUF_NBITS

WInit ==
  /\ AnyMachine
  /\ bitcount = 0 /\ lost = FALSE /\ next = 0 /\ fast_end = 0
  /\ overran = FALSE /\ left = 0 /\ stopped = FALSE

FitsInRoom(count, cost, room) == (count + cost + 7) \div 8 <= room

(* mutant: the last words of the buffer are not kept from whole-word stores *)
FastEndLate(at) == Space
FastEnd(at) == IF WordBytes - 1 <= Space - at THEN Space - (WordBytes - 1) ELSE at

StartBlock(cost) ==
  /\ left = 0 /\ ~stopped
  /\ IF FitsInRoom(bitcount, cost, Space - next)
     THEN left' = cost /\ fast_end' = FastEnd(next) /\ UNCHANGED stopped
     ELSE stopped' = TRUE /\ UNCHANGED <<left, fast_end>>
  /\ UNCHANGED <<bitcount, lost, next, overran>>

(* ADD_BITS n in all, then FLUSH_BITS: a whole word, or byte by byte. *)
Put(n) ==
  LET count == bitcount + n
      end   == IF FastAccess /\ next < fast_end THEN next + WordBytes
               ELSE next + (count \div 8)
  IN  /\ ~stopped
      /\ n <= left
      /\ lost' = (lost \/ count > BITBUF_NBITS)
      /\ overran' = (overran \/ end > Space)
      /\ left' = left - n
      /\ next' = next + (count \div 8)
      /\ bitcount' = count % 8
      /\ UNCHANGED <<fast_end, stopped>>

(* BFINAL, BTYPE and, of a dynamic block, the three counts; where the buffer *)
(* holds the other 18 precode lengths at once, the first one comes with them. *)
MergeFirstLen == CAN_BUFFER(3 * (NUM_PRECODE_SYMS - 1))
BlockHeader(dynamic) ==
  Put(3 + (IF dynamic THEN 5 + 5 + 4 + (IF MergeFirstLen THEN 3 ELSE 0) ELSE 0))
PrecodeLens(explicit) ==
  IF MergeFirstLen THEN Put(3 * (explicit - 1)) ELSE Put(3)
PrecodeItem == \E n \in 1..(MAX_PRE_CODEWORD_LEN + 7) : Put(n)

(* mutant: five literals between two flushes *)
LiteralRunFive == IF CAN_BUFFER(4 * MAX_LITLEN_CODEWORD_LEN) THEN 5 ELSE 1
LiteralRun == IF CAN_BUFFER(4 * MAX_LITLEN_CODEWORD_LEN) THEN 4 ELSE 1
Literals == \E n \in 1..(LiteralRun * MAX_LITLEN_CODEWORD_LEN) : Put(n)

(* WRITE_MATCH, with the flushes that its three parts need on this word. *)
MatchInOne ==
  CAN_BUFFER(MAX_LITLEN_CODEWORD_LEN + MAX_EXTRA_LENGTH_BITS
             + MAX_OFFSET_CODEWORD_LEN + MAX_EXTRA_OFFSET_BITS)
OffsetInOne == CAN_BUFFER(MAX_OFFSET_CODEWORD_LEN + MAX_EXTRA_OFFSET_BITS)
LengthBits ==
  \E n \in 1..(MAX_LITLEN_CODEWORD_LEN + MAX_EXTRA_LENGTH_BITS
               + (IF MatchInOne THEN MAX_OFFSET_CODEWORD_LEN + MAX_EXTRA_OFFSET_BITS ELSE 0)) :
    Put(n)
OffsetBits ==
  /\ ~MatchInOne
  /\ \E n \in 1..(MAX_OFFSET_CODEWORD_LEN
                  + (IF OffsetInOne THEN MAX_EXTRA_OFFSET_BITS ELSE 0)) : Put(n)
ExtraOffsetBits ==
  /\ ~MatchInOne /\ ~OffsetInOne
  /\ \E n \in 0..MAX_EXTRA_OFFSET_BITS : Put(n)

EndOfBlock == \E n \in 1..MAX_LITLEN_CODEWORD_LEN : Put(n)

(* One uncompressed block: up to a byte and the rest, LEN, NLEN, the bytes. *)
StoredBlock(len) ==
  LET to == next + ((bitcount + 3 + 7) \div 8) + 4 + len
  IN  /\ ~stopped
      /\ 8 * (to - next) - bitcount <= left
      /\ left' = left - (8 * (to - next) - bitcount)
      /\ next' = to /\ overran' = (overran \/ to > Space)
      /\ bitcount' = 0
      /\ UNCHANGED <<lost, fast_end, stopped>>

(* The last bits of the stream, which deflate_compress puts out as a byte. *)
FinalByte ==
  /\ left = 0 /\ ~stopped /\ bitcount > 0
  /\ next' = next + 1 /\ overran' = (overran \/ next + 1 > Space)
  /\ bitcount' = 0 /\ stopped' = TRUE
  /\ UNCHANGED <<lost, fast_end, left>>

WNext ==
  /\ \/ \E cost \in Costs : StartBlock(cost)
     \/ \E dynamic \in BOOLEAN : BlockHeader(dynamic)
     \/ \E explicit \in 4..NUM_PRECODE_SYMS : PrecodeLens(explicit)
     \/ PrecodeItem \/ Literals \/ LengthBits \/ OffsetBits \/ ExtraOffsetBits \/ EndOfBlock
     \/ \E len \in 0..Space : StoredBlock(len)
     \/ FinalByte
  /\ UNCHANGED machine

WSpec == WInit /\ [][WNext]_<<machine, wvars>>

(***************************************************************************)
(* Properties.                                                             *)
(***************************************************************************)
(* No bit is shifted out of the buffer, which is good for one bit less than *)
(* a word: each group of ADD_BITS fits behind the 7 bits that a flush may   *)
(* leave.                                                                   *)
NoBitLost == ~lost

(* Whatever a flush stores, whole words included, lies in the output buffer, *)
(* although only the start of a block looks at its end.                      *)
StoresWithinOutput == ~overran /\ next <= Space
=============================================================================
