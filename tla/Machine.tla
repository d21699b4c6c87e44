------------------------------- MODULE Machine -------------------------------
(***************************************************************************)
(* What the build knows of the machine, chosen once and never changed: the *)
(* size of a word and whether unaligned access is fast.  From these        *)
(* deflate_decompress.c computes what it may count on after a refill of    *)
(* its bit buffer, and how far an iteration of the fast loop may read and  *)
(* write.                                                                  *)
(***************************************************************************)
EXTENDS DeflateTables

VARIABLE machine

WordBytes  == machine.word
FastAccess == machine.fast

Machines   == [word : {4, 8}, fast : BOOLEAN]
AnyMachine == machine \in Machines

-----------------------------------------------------------------------------
(* The bit buffer of the decompressor.                                       *)

AtLeast(a, b) == IF a >= b THEN a ELSE b
DivUp(n, d) == (n + d - 1) \div d

NBITS == 8 * WordBytes
MAX_BITSLEFT     == IF FastAccess THEN NBITS - 1 ELSE NBITS
CONSUMABLE_NBITS == MAX_BITSLEFT - 7
FASTLOOP_PRELOADABLE_NBITS == IF FastAccess THEN NBITS ELSE CONSUMABLE_NBITS
PRELOAD_SLACK == AtLeast(0, FASTLOOP_PRELOADABLE_NBITS - MAX_BITSLEFT)
CAN_CONSUME(n) == CONSUMABLE_NBITS >= n
CAN_CONSUME_AND_THEN_PRELOAD(n, p) ==
  CONSUMABLE_NBITS >= n /\ FASTLOOP_PRELOADABLE_NBITS >= n + p

FASTLOOP_MAX_BYTES_WRITTEN == 2 + MAX_MATCH_LEN + 5 * WordBytes - 1
FASTLOOP_MAX_BYTES_READ ==
  ((MAX_BITSLEFT + 2 * LITLEN_TABLEBITS + LENGTH_MAXBITS + OFFSET_MAXBITS + 7) \div 8)
  + WordBytes

ExtraLiterals ==
  /\ CAN_CONSUME_AND_THEN_PRELOAD(2 * LITLEN_TABLEBITS + LENGTH_MAXBITS, OFFSET_TABLEBITS)
  /\ CAN_CONSUME_AND_THEN_PRELOAD(
       2 * LITLEN_TABLEBITS + DEFLATE_MAX_LITLEN_CODEWORD_LEN, LITLEN_TABLEBITS)
SubtableRefill ==
  \/ ~CAN_CONSUME_AND_THEN_PRELOAD(DEFLATE_MAX_LITLEN_CODEWORD_LEN, LITLEN_TABLEBITS)
  \/ ~CAN_CONSUME_AND_THEN_PRELOAD(LENGTH_MAXBITS, OFFSET_TABLEBITS)
WideOffset == CAN_CONSUME_AND_THEN_PRELOAD(OFFSET_MAXBITS, LITLEN_TABLEBITS)

(* mutant: no refill before an offset from the main table *)
NoOffsetRefill(bits) == FALSE
OffsetRefill(bits) ==
  ~WideOffset \/ bits < OFFSET_MAXFASTBITS + LITLEN_TABLEBITS - PRELOAD_SLACK
OffsetSubtableRefill(bits) ==
  ~WideOffset \/ bits < OFFSET_MAXBITS + LITLEN_TABLEBITS - PRELOAD_SLACK
RefillAfterOffset(bits) ==
  /\ ~CAN_CONSUME_AND_THEN_PRELOAD(
        AtLeast(OFFSET_MAXBITS - OFFSET_TABLEBITS, OFFSET_MAXFASTBITS), LITLEN_TABLEBITS)
  /\ bits < LITLEN_TABLEBITS - PRELOAD_SLACK
=============================================================================
