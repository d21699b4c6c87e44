------------------------------ MODULE Inflate ------------------------------
(***************************************************************************)
(* decompress_template.h: the decompressor with its bit buffer, its decode *)
(* tables, its fast loop, and what it keeps between blocks and streams.    *)
(*                                                                         *)
(* The header of a block, with its tables, is one action; in the loops an  *)
(* action decodes one literal, match or end of block.  The local variables *)
(* bitbuf, bitsleft, in_next and overread_count are buf, left, next and    *)
(* over; "b" in an operator is the record of them, and what an operator    *)
(* returns is what the code has in them afterwards.                        *)
(***************************************************************************)
EXTENDS Machine, DecodeTable, Loops

VARIABLES in, avail, wants_size,        (* the call: input, room, actual_out_nbytes_ret given   *)
          next, buf, left, over, wild,  (* wild: the input was read beyond its end              *)
          mem,            (* bytes stored to the output, those past out_next included           *)
          out_next,
          u,              (* the union in the decompressor: what of it was written last         *)
          offset_table,
          litlen_tablebits,
          static_codes_loaded,
          entry,          (* the litlen entry that the fast loop has looked up ahead            *)
          pc,             (* "idle", "block", "loop", "fast0".."fast2", "generic", "block_done", "done" *)
          is_final,
          code,           (* for the proof of refinement only: the lengths the tables are for   *)
          result, consumed
bvars == <<next, buf, left, over, wild>>
dvars == <<u, offset_table, litlen_tablebits, static_codes_loaded, code>>
call == <<in, avail, wants_size>>
ivars == <<call, bvars, mem, out_next, dvars, entry, pc, is_final, result, consumed>>

InEnd == Len(in)
(* A byte that is not there: junk that is read counts as wild. *)
ByteAt(k) == IF k < InEnd THEN in[k + 1] ELSE 0
BitAt(k) == (ByteAt(k \div 8) \div 2^(k % 8)) % 2

(***************************************************************************)
(* The bit buffer: bit i of bitbuf is buf[i + 1].                          *)
(***************************************************************************)
Buf == [next |-> next, buf |-> buf, left |-> left, over |-> over, wild |-> wild, bad |-> FALSE]
SetBuf(b) == next' = b.next /\ buf' = b.buf /\ left' = b.left /\ over' = b.over /\ wild' = b.wild
Empty == [i \in 1..NBITS |-> 0]

(* bitbuf |= the n bytes at in_next << bitsleft *)
OrIn(b, n) ==
  [i \in 1..NBITS |->
     IF b.buf[i] = 1 \/ (i > b.left /\ i <= b.left + 8 * n /\ BitAt(8 * b.next + i - 1 - b.left) = 1)
     THEN 1 ELSE 0]

REFILL_BITS_BRANCHLESS(b) ==
  [b EXCEPT !.buf  = OrIn(b, WordBytes),
            !.next = @ + (WordBytes - 1) - (b.left \div 8),
            !.left = (MAX_BITSLEFT \div 8) * 8 + (b.left % 8),
            !.wild = @ \/ b.next + WordBytes > InEnd]

RECURSIVE ByteRefill(_, _)
ByteRefill(b, checked) ==
  CASE b.bad \/ b.left >= CONSUMABLE_NBITS -> b
    [] ~b.bad /\ b.left < CONSUMABLE_NBITS /\ checked /\ b.next >= InEnd ->
         ByteRefill([b EXCEPT !.over = @ + 1, !.left = @ + 8, !.bad = b.over + 1 > WordBytes],
                    checked)
    [] OTHER ->
         ByteRefill([b EXCEPT !.buf = OrIn(b, 1), !.next = @ + 1, !.left = @ + 8,
                              !.wild = @ \/ b.next >= InEnd], checked)

(* mutant: the whole-word refill does not look at the end of the input *)
RefillUnchecked(b) == IF FastAccess THEN REFILL_BITS_BRANCHLESS(b) ELSE ByteRefill(b, TRUE)
REFILL_BITS(b) ==
  IF FastAccess /\ InEnd - b.next >= WordBytes THEN REFILL_BITS_BRANCHLESS(b)
  ELSE ByteRefill(b, TRUE)
REFILL_BITS_IN_FASTLOOP(b) ==
  IF FastAccess THEN REFILL_BITS_BRANCHLESS(b) ELSE ByteRefill(b, FALSE)
FastRefillIf(cond, b) == IF cond THEN REFILL_BITS_IN_FASTLOOP(b) ELSE b
RefillIf(cond, b) == IF cond THEN REFILL_BITS(b) ELSE b

RECURSIVE Low(_, _, _)
Low(bits, from, n) == IF n = 0 THEN 0 ELSE bits[from] + 2 * Low(bits, from + 1, n - 1)
BitsOfBuf(b, from, n) == Low(b.buf, from + 1, n)
Consume(b, n) ==
  [b EXCEPT !.buf = [i \in 1..NBITS |-> IF i + n <= NBITS THEN @[i + n] ELSE 0], !.left = @ - n]

(***************************************************************************)
(* The header of a dynamic block.                                          *)
(***************************************************************************)
Permutation == <<16, 17, 18, 0, 8, 7, 9, 6, 10, 5, 11, 4, 12, 3, 13, 2, 14, 1, 15>>

(* The loop that takes precode lengths i.. (from 0) up to n. *)
RECURSIVE PrecodeLens(_, _, _, _)
PrecodeLens(b, i, n, lens) ==
  IF i = n \/ b.bad THEN [b |-> b, lens |-> lens]
  ELSE LET r == RefillIf(b.left < 3, b)
       IN  PrecodeLens(Consume(r, 3), i + 1, n,
                       [lens EXCEPT ![Permutation[i + 1]] = BitsOfBuf(r, 0, 3)])

(* The first length comes with the counts where the buffer holds the others. *)
ReadPrecode(b, n) ==
  LET none == [s \in 0..18 |-> 0]
  IN  IF CAN_CONSUME(3 * (NUM_PRECODE_SYMS - 1))
      THEN PrecodeLens(REFILL_BITS(Consume(b, 20)), 1, n,
                       [none EXCEPT ![Permutation[1]] = BitsOfBuf(b, 17, 3)])
      ELSE PrecodeLens(Consume(b, 17), 0, n, none)

RepeatsPrevious(lens) == lens # <<>>

RECURSIVE LenItems(_, _, _, _)
LenItems(b, table, count, lens) ==
  LET r  == RefillIf(b.left < MAX_PRE_CODEWORD_LEN + 7, b)
      e  == Lookup(table, 7, BitsOfBuf(r, 0, 7))
      c  == Consume(r, e.len)
      nx == CASE e.sym = 16 -> 2 [] e.sym = 17 -> 3 [] e.sym = 18 -> 7 [] OTHER -> 0
      n  == IF e.sym < 16 THEN 1 ELSE IF e.sym = 18 THEN 11 + BitsOfBuf(c, 0, 7)
            ELSE 3 + BitsOfBuf(c, 0, nx)
      v  == IF e.sym < 16 THEN e.sym ELSE IF e.sym = 16 /\ lens # <<>> THEN lens[Len(lens)] ELSE 0
  IN  IF b.bad \/ Len(lens) >= count THEN [b |-> b, lens |-> lens, ok |-> Len(lens) = count]
      ELSE IF e.sym = 16 /\ ~RepeatsPrevious(lens) THEN [b |-> b, lens |-> lens, ok |-> FALSE]
      ELSE LenItems(Consume(c, nx), table, count, lens \o [k \in 1..n |-> v])

ReadDynamic(b) ==
  LET nlit   == 257 + BitsOfBuf(b, 3, 5)
      noff   == 1 + BitsOfBuf(b, 8, 5)
      npre   == 4 + BitsOfBuf(b, 13, 4)
      failed == [ok |-> FALSE, b |-> b, lens |-> <<>>, nlit |-> nlit, noff |-> noff]
      Items(i) == IF i.b.bad \/ ~i.ok THEN failed
                  ELSE [ok |-> TRUE, b |-> i.b, lens |-> i.lens, nlit |-> nlit, noff |-> noff]
      Precode(pre) ==
        With(build_decode_table(pre.lens, 7, MAX_PRE_CODEWORD_LEN, FALSE),
             LAMBDA precode :
               IF pre.b.bad \/ ~precode.ok THEN failed
               ELSE With(LenItems(pre.b, precode.table, nlit + noff, <<>>), Items))
  IN  With(ReadPrecode(b, npre), Precode)

(***************************************************************************)
(* The tables.  The litlen table and the array of lengths share the union: *)
(* once one of them is written the other one is gone.                      *)
(***************************************************************************)
Part(lens, from, n) == [s \in 0..(n - 1) |-> lens[from + s + 1]]
Clobbered(lens) == [k \in DOMAIN lens |-> 0]

(* mutant: the litlen table is built while the offset lengths are still needed *)
BuildLitlenFirst(lens, nlit, noff) ==
  [litlen |-> build_decode_table(Part(lens, 0, nlit), LITLEN_TABLEBITS, 15, TRUE),
   offset |-> build_decode_table(Part(Clobbered(lens), nlit, noff), OFFSET_TABLEBITS, 15, FALSE)]
BuildTables(lens, nlit, noff) ==
  [offset |-> build_decode_table(Part(lens, nlit, noff), OFFSET_TABLEBITS, 15, FALSE),
   litlen |-> build_decode_table(Part(lens, 0, nlit), LITLEN_TABLEBITS, 15, TRUE)]

StaticLensSeq ==
  [k \in 1..320 |-> IF k <= 144 THEN 8 ELSE IF k <= 256 THEN 9 ELSE IF k <= 280 THEN 7
                    ELSE IF k <= 288 THEN 8 ELSE 5]
StaticTables == BuildTables(StaticLensSeq, 288, 32)
CodeOf(lens, nlit, noff) == [litlen |-> Part(lens, 0, nlit), offset |-> Part(lens, nlit, noff)]

UseTables(t, lens, nlit, noff) ==
  /\ u' = t.litlen.table /\ litlen_tablebits' = t.litlen.table_bits
  /\ offset_table' = t.offset.table
  /\ code' = CodeOf(lens, nlit, noff)

(***************************************************************************)
(* Steps.                                                                  *)
(***************************************************************************)
Return(r) ==
  /\ result' = r /\ pc' = "done"
  /\ UNCHANGED <<call, bvars, mem, out_next, entry, is_final, consumed>>
Fail(r) == Return(r) /\ UNCHANGED dvars

Begin(i, room, wants) ==
  /\ in' = i /\ avail' = room /\ wants_size' = wants
  /\ next' = 0 /\ buf' = Empty /\ left' = 0 /\ over' = 0 /\ wild' = FALSE
  /\ mem' = <<>> /\ out_next' = 0 /\ pc' = "block" /\ result' = "none"
  /\ UNCHANGED <<dvars, entry, is_final, consumed>>

(* A byte of the output that was never written is junk. *)
Junk == -1
Load(m, at) == IF at < Len(m) THEN m[at + 1] ELSE Junk
Store(m, at, bytes) ==
  [i \in 1..(IF at + Len(bytes) > Len(m) THEN at + Len(bytes) ELSE Len(m)) |->
     IF i > at /\ i <= at + Len(bytes) THEN bytes[i - at] ELSE m[i]]

BlockType(b) == BitsOfBuf(b, 1, 2)

(* mutant: the flag survives a dynamic block *)
KeepsFlag == static_codes_loaded
FlagAfterDynamic == FALSE

(* Whatever the outcome, the union has been written to. *)
Overwritten == [k \in DOMAIN u |-> Uninit]

Abandoned ==
  Return("BAD_DATA") /\ u' = Overwritten /\ UNCHANGED <<offset_table, litlen_tablebits, code>>

DynamicBlock ==
  /\ pc = "block"
  /\ \E b \in {REFILL_BITS(Buf)} :
       /\ ~b.bad /\ BlockType(b) = 2
       /\ static_codes_loaded' = FlagAfterDynamic
       /\ \E h \in {ReadDynamic(b)} :
            IF ~h.ok THEN Abandoned
            ELSE \E t \in {BuildTables(h.lens, h.nlit, h.noff)} :
                   IF ~t.offset.ok \/ ~t.litlen.ok THEN Abandoned
                   ELSE /\ SetBuf(h.b) /\ is_final' = (BitsOfBuf(b, 0, 1) = 1) /\ pc' = "loop"
                        /\ UseTables(t, h.lens, h.nlit, h.noff)
                        /\ UNCHANGED <<call, mem, out_next, entry, result, consumed>>

StaticBlock ==
  pc = "block" /\ \E b \in {REFILL_BITS(Buf)} :
      /\ ~b.bad /\ BlockType(b) = 1
      /\ SetBuf(Consume(b, 3)) /\ is_final' = (BitsOfBuf(b, 0, 1) = 1) /\ pc' = "loop"
      /\ IF static_codes_loaded
         THEN /\ code' = CodeOf(StaticLensSeq, 288, 32)
              /\ UNCHANGED <<u, offset_table, litlen_tablebits, static_codes_loaded>>
         ELSE /\ static_codes_loaded' = TRUE
              /\ \E t \in {StaticTables} : UseTables(t, StaticLensSeq, 288, 32)
      /\ UNCHANGED <<call, mem, out_next, entry, result, consumed>>

Rewound(b) == b.next - ((b.left \div 8) - b.over)

(* len and its complement nlen at the next byte of the input, which is at. *)
StoredLen(at) == [at |-> at, len |-> ByteAt(at) + 256 * ByteAt(at + 1),
                  nlen |-> ByteAt(at + 2) + 256 * ByteAt(at + 3)]
StoredBad(c, s) == c.over > c.left \div 8 \/ InEnd - s.at < 4 \/ s.len # 65535 - s.nlen
StoredBlock ==
  pc = "block" /\ \E b \in {REFILL_BITS(Buf)} : \E c \in {Consume(b, 3)} : \E s \in {StoredLen(Rewound(c))} :
    /\ ~b.bad /\ BlockType(b) = 0
    /\ UNCHANGED dvars
    /\ IF StoredBad(c, s) THEN Return("BAD_DATA")
       ELSE IF s.len > avail - out_next THEN Return("INSUFFICIENT_SPACE")
       ELSE IF s.len > InEnd - (s.at + 4) THEN Return("BAD_DATA")
       ELSE /\ mem' = Store(mem, out_next, SubSeq(in, s.at + 5, s.at + 4 + s.len))
            /\ out_next' = out_next + s.len
            /\ SetBuf([b EXCEPT !.next = s.at + 4 + s.len, !.buf = Empty, !.left = 0, !.over = 0])
            /\ is_final' = (BitsOfBuf(b, 0, 1) = 1) /\ pc' = "block_done"
            /\ UNCHANGED <<call, entry, result, consumed>>

BadBlock ==
  /\ pc = "block"
  /\ \E b \in {REFILL_BITS(Buf)} : (b.bad \/ BlockType(b) = 3) /\ Fail("BAD_DATA")

(***************************************************************************)
(* Entries, matches and copies.                                            *)
(***************************************************************************)
LitlenEntry(b) == u[BitsOfBuf(b, 0, litlen_tablebits)]
(* What an entry consumes: its codeword, with the extra bits of a length or  *)
(* an offset; a pointer to a subtable consumes the bits of the main table.   *)
LitlenBits(e) ==
  IF e.sub THEN litlen_tablebits
  ELSE e.len + (IF e.sym > 256 THEN litlen_decode_results(e.sym).extra ELSE 0)
OffsetBits(e) == e.len + offset_decode_results(e.sym).extra
SubEntry(table, e, b) == table[e.start + BitsOfBuf(b, 0, e.bits)]
(* The extra bits lie behind the codeword in what the buffer was before. *)
LengthOf(e, b) ==
  LET r == litlen_decode_results(e.sym) IN r.base + BitsOfBuf(b, e.len, r.extra)
OffsetOf(e, b) ==
  LET r == offset_decode_results(e.sym) IN r.base + BitsOfBuf(b, e.len, r.extra)

StoreWord(m, src, dst) == Store(m, dst, [i \in 1..WordBytes |-> Load(m, src + i - 1)])

(* n words, both pointers advancing by step. *)
RECURSIVE Words(_, _, _, _, _)
Words(m, src, dst, step, n) ==
  IF n = 0 THEN m ELSE Words(StoreWord(m, src, dst), src + step, dst + step, step, n - 1)
(* Byte by byte: a copy that overlaps itself repeats its beginning. *)
CopyBytes(m, src, dst, n) ==
  LET at[i \in src..(dst + n - 1)] == IF i < dst THEN Load(m, i) ELSE at[i - (dst - src)]
  IN  Store(m, dst, [i \in 1..n |-> at[dst + i - 1]])

FastCopy(m, dst, len, offset) ==
  CASE FastAccess /\ offset >= WordBytes ->
         Words(m, dst - offset, dst, WordBytes, 5 * DivUp(len, 5 * WordBytes))
    [] FastAccess /\ offset = 1 ->
         Store(m, dst, [i \in 1..(4 * WordBytes * DivUp(len, 4 * WordBytes)) |-> Load(m, dst - 1)])
    [] FastAccess /\ offset \in 2..(WordBytes - 1) ->
         Words(m, dst - offset, dst, offset, 2 * AtLeast(2, DivUp(len, 2 * offset)))
    [] OTHER -> CopyBytes(m, dst - offset, dst, AtLeast(3, len))

(***************************************************************************)
(* The fast loop.                                                          *)
(***************************************************************************)
InFastEnd == InEnd - (IF InEnd < FASTLOOP_MAX_BYTES_READ THEN InEnd ELSE FASTLOOP_MAX_BYTES_READ)
OutFastEnd ==
  avail - (IF avail < FASTLOOP_MAX_BYTES_WRITTEN THEN avail ELSE FASTLOOP_MAX_BYTES_WRITTEN)
InFastloop(b, out) == b.next < InFastEnd /\ out < OutFastEnd

EnterLoop ==
  /\ pc = "loop"
  /\ IF InFastloop(Buf, out_next)
     THEN \E b \in {REFILL_BITS_IN_FASTLOOP(Buf)} :
            SetBuf(b) /\ entry' = LitlenEntry(b) /\ pc' = "fast0"
     ELSE pc' = "generic" /\ UNCHANGED <<bvars, entry>>
  /\ UNCHANGED <<call, mem, out_next, dvars, is_final, result, consumed>>

(* The end of an iteration: the next entry was looked up in before, the       *)
(* buffer is after, out bytes are written.                                    *)
Iterate(before, after, out) ==
  /\ SetBuf(after) /\ entry' = LitlenEntry(before)
  /\ pc' = IF InFastloop(after, out) THEN "fast0" ELSE "generic"

PutLiteral(lit) ==
  /\ mem' = Store(mem, out_next, <<lit>>) /\ out_next' = out_next + 1
  /\ UNCHANGED <<call, dvars, is_final, result, consumed>>
BlockDone(b) ==
  /\ SetBuf(b) /\ pc' = "block_done"
  /\ UNCHANGED <<call, mem, out_next, dvars, entry, is_final, result, consumed>>

FastLiteral ==
  /\ pc \in {"fast0", "fast1", "fast2"} /\ ~entry.sub /\ entry.sym < 256
  /\ PutLiteral(entry.sym)
  /\ \E b \in {Consume(Buf, LitlenBits(entry))} :
       IF ExtraLiterals /\ pc # "fast2"
       THEN SetBuf(b) /\ entry' = LitlenEntry(b) /\ pc' = IF pc = "fast0" THEN "fast1" ELSE "fast2"
       ELSE \E r \in {REFILL_BITS_IN_FASTLOOP(b)} : Iterate(b, r, out_next + 1)

(* Any other entry: e with the buffer before and after it. *)
FastItem ==
  LET ItemOf(e, b) ==
        [e |-> e, before |-> b, after |-> FastRefillIf(SubtableRefill, Consume(b, LitlenBits(e)))]
      Sub(b) == ItemOf(SubEntry(u, entry, b), b)
  IN  IF entry.sub THEN With(Consume(Buf, LitlenBits(entry)), Sub)
      ELSE [e |-> entry, before |-> Buf, after |-> Consume(Buf, LitlenBits(entry))]
AtFastItem == pc \in {"fast0", "fast1", "fast2"} /\ (~entry.sub => entry.sym >= 256)

(* The offset, with the refills of this machine: its value and the buffer. *)
FastOffset(b) ==
  LET InMain(e, r) == [offset |-> OffsetOf(e, r), b |-> Consume(r, OffsetBits(e))]
      InSub(e, c)  == With(FastRefillIf(~WideOffset, c),
                           LAMBDA d : InMain(SubEntry(offset_table, e, c), d))
      Entry(e) ==
        IF e.sub
        THEN InSub(e, Consume(FastRefillIf(OffsetSubtableRefill(b.left), b), OFFSET_TABLEBITS))
        ELSE With(FastRefillIf(OffsetRefill(b.left), b), LAMBDA r : InMain(e, r))
  IN  With(offset_table[BitsOfBuf(b, 0, OFFSET_TABLEBITS)], Entry)

FastMatch(i) ==
  \E len \in {LengthOf(i.e, i.before)} : \E o \in {FastOffset(i.after)} :
    IF o.offset > out_next THEN Fail("BAD_DATA")
    ELSE /\ mem' = FastCopy(mem, out_next, len, o.offset)
         /\ out_next' = out_next + len
         /\ \E c \in {FastRefillIf(RefillAfterOffset(o.b.left), o.b)} :
              \E r \in {REFILL_BITS_IN_FASTLOOP(c)} : Iterate(c, r, out_next + len)
         /\ UNCHANGED <<call, dvars, is_final, result, consumed>>

FastOther ==
  /\ AtFastItem
  /\ \E i \in {FastItem} :
       \/ /\ i.e.sym < 256
          /\ PutLiteral(i.e.sym)
          /\ \E r \in {REFILL_BITS_IN_FASTLOOP(i.after)} : Iterate(i.after, r, out_next + 1)
       \/ i.e.sym = 256 /\ BlockDone(i.after)
       \/ i.e.sym > 256 /\ FastMatch(i)

(***************************************************************************)
(* The generic loop.                                                       *)
(***************************************************************************)
GenericItem(b) ==
  LET ItemOf(e, c) == [e |-> e, before |-> c, after |-> Consume(c, LitlenBits(e))]
      Main(m) == IF m.sub THEN With(Consume(b, LitlenBits(m)), LAMBDA c : ItemOf(SubEntry(u, m, c), c))
                 ELSE ItemOf(m, b)
  IN  With(LitlenEntry(b), Main)

GenericOffset(b) ==
  LET InMain(e, r) == [offset |-> OffsetOf(e, r), b |-> Consume(r, OffsetBits(e))]
      InSub(e, c)  == With(RefillIf(~CAN_CONSUME(OFFSET_MAXBITS), c),
                           LAMBDA d : InMain(SubEntry(offset_table, e, c), d))
      Offset(r) ==
        IF r.bad THEN [offset |-> 0, b |-> r]
        ELSE With(offset_table[BitsOfBuf(r, 0, OFFSET_TABLEBITS)],
                  LAMBDA e : IF e.sub THEN InSub(e, Consume(r, OFFSET_TABLEBITS)) ELSE InMain(e, r))
  IN  With(RefillIf(~CAN_CONSUME(LENGTH_MAXBITS + OFFSET_MAXBITS), b), Offset)

LengthFits(len) == len <= avail - out_next

GenericLiteral(i) ==
  IF out_next = avail THEN Fail("INSUFFICIENT_SPACE")
  ELSE PutLiteral(i.e.sym) /\ SetBuf(i.after) /\ UNCHANGED <<entry, pc>>

GenericMatch(i) ==
  \E len \in {LengthOf(i.e, i.before)} :
    IF ~LengthFits(len) THEN Fail("INSUFFICIENT_SPACE")
    ELSE \E o \in {GenericOffset(i.after)} :
           IF o.b.bad \/ o.offset > out_next THEN Fail("BAD_DATA")
           ELSE /\ mem' = CopyBytes(mem, out_next - o.offset, out_next, AtLeast(3, len))
                /\ out_next' = out_next + len
                /\ SetBuf(o.b)
                /\ UNCHANGED <<call, dvars, entry, pc, is_final, result, consumed>>

Generic ==
  /\ pc = "generic"
  /\ \E b \in {REFILL_BITS(Buf)} :
       IF b.bad THEN Fail("BAD_DATA")
       ELSE \E i \in {GenericItem(b)} :
              \/ i.e.sym < 256 /\ GenericLiteral(i)
              \/ i.e.sym = 256 /\ BlockDone(i.after)
              \/ i.e.sym > 256 /\ GenericMatch(i)

(***************************************************************************)
(* Between blocks, and the end.                                            *)
(***************************************************************************)
NextBlock ==
  /\ pc = "block_done" /\ ~is_final
  /\ pc' = "block"
  /\ UNCHANGED <<call, bvars, mem, out_next, dvars, entry, is_final, result, consumed>>

Finish ==
  /\ pc = "block_done" /\ is_final
  /\ CASE over > left \div 8 -> Fail("BAD_DATA")
       [] over <= left \div 8 /\ ~wants_size /\ out_next # avail -> Fail("SHORT_OUTPUT")
       [] OTHER -> /\ result' = "SUCCESS" /\ pc' = "done" /\ consumed' = Rewound(Buf)
                   /\ UNCHANGED <<call, bvars, mem, out_next, dvars, entry, is_final>>

Step ==
  \/ DynamicBlock \/ StaticBlock \/ StoredBlock \/ BadBlock \/ EnterLoop
  \/ FastLiteral \/ FastOther \/ Generic
  \/ NextBlock \/ Finish
=============================================================================
