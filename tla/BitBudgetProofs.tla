-------------------------- MODULE BitBudgetProofs --------------------------
(* The bit budgets of both sides of a stream, and the tables that turn a     *)
(* match into symbols and back, as theorems of the specification that the    *)
(* model checker runs.  The refills of the decompressor come first: for      *)
(* every match length and offset and on every machine each one comes in      *)
(* time, and an iteration of its fast loop stays within the distances that   *)
(* the loop compares.                                                        *)
EXTENDS BitBudget, Induction, TLAPS

-----------------------------------------------------------------------------
(* The four machines, and what the refills guarantee on each. *)
LEMMA MachineTable ==
  ASSUME AnyMachine
  PROVE  \/ /\ FastAccess /\ WordBytes = 8 /\ NBITS = 64 /\ MAX_BITSLEFT = 63
            /\ CONSUMABLE_NBITS = 56 /\ FASTLOOP_PRELOADABLE_NBITS = 64 /\ PRELOAD_SLACK = 1
            /\ ExtraLiterals /\ ~SubtableRefill /\ WideOffset
            /\ FASTLOOP_MAX_BYTES_READ = 25 /\ FASTLOOP_MAX_BYTES_WRITTEN = 299
         \/ /\ ~FastAccess /\ WordBytes = 8 /\ NBITS = 64 /\ MAX_BITSLEFT = 64
            /\ CONSUMABLE_NBITS = 57 /\ FASTLOOP_PRELOADABLE_NBITS = 57 /\ PRELOAD_SLACK = 0
            /\ ExtraLiterals /\ ~SubtableRefill /\ WideOffset
            /\ FASTLOOP_MAX_BYTES_READ = 25 /\ FASTLOOP_MAX_BYTES_WRITTEN = 299
         \/ /\ FastAccess /\ WordBytes = 4 /\ NBITS = 32 /\ MAX_BITSLEFT = 31
            /\ CONSUMABLE_NBITS = 24 /\ FASTLOOP_PRELOADABLE_NBITS = 32 /\ PRELOAD_SLACK = 1
            /\ ~ExtraLiterals /\ ~SubtableRefill /\ ~WideOffset
            /\ FASTLOOP_MAX_BYTES_READ = 17 /\ FASTLOOP_MAX_BYTES_WRITTEN = 279
         \/ /\ ~FastAccess /\ WordBytes = 4 /\ NBITS = 32 /\ MAX_BITSLEFT = 32
            /\ CONSUMABLE_NBITS = 25 /\ FASTLOOP_PRELOADABLE_NBITS = 25 /\ PRELOAD_SLACK = 0
            /\ ~ExtraLiterals /\ SubtableRefill /\ ~WideOffset
            /\ FASTLOOP_MAX_BYTES_READ = 17 /\ FASTLOOP_MAX_BYTES_WRITTEN = 279
<1> USE DEF AnyMachine, Machines, WordBytes, FastAccess, NBITS, MAX_BITSLEFT, CONSUMABLE_NBITS,
            FASTLOOP_PRELOADABLE_NBITS, PRELOAD_SLACK, AtLeast
<1> USE DEF CAN_CONSUME_AND_THEN_PRELOAD, LENGTH_MAXBITS, OFFSET_MAXBITS, LITLEN_TABLEBITS,
            OFFSET_TABLEBITS, DEFLATE_MAX_LITLEN_CODEWORD_LEN, DEFLATE_MAX_OFFSET_CODEWORD_LEN,
            MAX_EXTRA_LENGTH_BITS, MAX_EXTRA_OFFSET_BITS, MAX_MATCH_LEN
<1>1. CASE FastAccess /\ WordBytes = 8
  BY <1>1 DEF ExtraLiterals, SubtableRefill, WideOffset, FASTLOOP_MAX_BYTES_READ,
              FASTLOOP_MAX_BYTES_WRITTEN
<1>2. CASE ~FastAccess /\ WordBytes = 8
  BY <1>2 DEF ExtraLiterals, SubtableRefill, WideOffset, FASTLOOP_MAX_BYTES_READ,
              FASTLOOP_MAX_BYTES_WRITTEN
<1>3. CASE FastAccess /\ WordBytes = 4
  BY <1>3 DEF ExtraLiterals, SubtableRefill, WideOffset, FASTLOOP_MAX_BYTES_READ,
              FASTLOOP_MAX_BYTES_WRITTEN
<1>4. CASE ~FastAccess /\ WordBytes = 4
  BY <1>4 DEF ExtraLiterals, SubtableRefill, WideOffset, FASTLOOP_MAX_BYTES_READ,
              FASTLOOP_MAX_BYTES_WRITTEN
<1> QED BY <1>1, <1>2, <1>3, <1>4

LEMMA MachineBounds ==
  ASSUME AnyMachine
  PROVE  /\ MAX_BITSLEFT \in Nat /\ NBITS \in Nat /\ PRELOAD_SLACK \in Nat
         /\ CONSUMABLE_NBITS \in Nat /\ CONSUMABLE_NBITS >= 24
         /\ FASTLOOP_PRELOADABLE_NBITS \in Nat /\ FASTLOOP_PRELOADABLE_NBITS >= 24
         /\ PRELOAD_SLACK <= 1 /\ WordBytes \in {4, 8}
         /\ WideOffset => CONSUMABLE_NBITS >= 39
         /\ ~WideOffset => FASTLOOP_PRELOADABLE_NBITS >= 32 \/ PRELOAD_SLACK = 0
BY MachineTable

LEMMA SameMachine ==
  ASSUME UNCHANGED machine
  PROVE  /\ AnyMachine' = AnyMachine
         /\ NBITS' = NBITS /\ MAX_BITSLEFT' = MAX_BITSLEFT
         /\ CONSUMABLE_NBITS' = CONSUMABLE_NBITS
         /\ FASTLOOP_PRELOADABLE_NBITS' = FASTLOOP_PRELOADABLE_NBITS
         /\ PRELOAD_SLACK' = PRELOAD_SLACK
         /\ ExtraLiterals' = ExtraLiterals /\ WideOffset' = WideOffset
BY DEF AnyMachine, WordBytes, FastAccess, NBITS, MAX_BITSLEFT, CONSUMABLE_NBITS,
       FASTLOOP_PRELOADABLE_NBITS, PRELOAD_SLACK, CAN_CONSUME_AND_THEN_PRELOAD,
       ExtraLiterals, WideOffset

-----------------------------------------------------------------------------
(* Buffers from which nothing has been consumed that was not there. *)
Sound(b) ==
  /\ b \in [left : 0..MAX_BITSLEFT, valid : 0..NBITS, adv : Nat, touched : Nat, bad : BOOLEAN]
  /\ b.left <= b.valid /\ ~b.bad

(* In the fast loop some of the bits behind the counted ones may be an index. *)
Ahead(b) == b.valid >= b.left + PRELOAD_SLACK

LEMMA ConsumeOk ==
  ASSUME NEW b, AnyMachine, Sound(b), NEW n \in Nat, n <= b.left
  PROVE  /\ Sound(Consume(b, n))
         /\ Consume(b, n).left = b.left - n
         /\ Consume(b, n).valid = b.valid - n
         /\ Consume(b, n).adv = b.adv
         /\ Consume(b, n).touched = b.touched
<1>1. /\ AtLeast(0, b.left - n) = b.left - n
      /\ AtLeast(0, b.valid - n) = b.valid - n
      /\ b.left - n \in 0..MAX_BITSLEFT /\ b.valid - n \in 0..NBITS
  BY MachineTable DEF Sound, AtLeast
<1>2. ~(n > b.left) /\ ~b.bad /\ b.left - n <= b.valid - n
  BY MachineTable DEF Sound
<1>3. (b.bad \/ n > b.left) = FALSE
  BY <1>2, Zenon
<1>4. Consume(b, n) = [b EXCEPT !.left = b.left - n, !.valid = b.valid - n, !.bad = FALSE]
  BY <1>1, <1>3, Zenon DEF Consume
<1>5. /\ b \in [left : 0..MAX_BITSLEFT, valid : 0..NBITS, adv : Nat, touched : Nat,
                bad : BOOLEAN]
      /\ FALSE \in BOOLEAN
  BY DEF Sound
<1> QED BY <1>1, <1>2, <1>4, <1>5 DEF Sound

LEMMA PreloadOk ==
  ASSUME NEW b, AnyMachine, Sound(b), NEW n \in Nat, n <= b.valid
  PROVE  Preload(b, n) = b
<1>1. ~(n > b.valid) /\ ~b.bad
  BY MachineTable DEF Sound
<1>2. (b.bad \/ n > b.valid) = b.bad
  <2>1. b.bad = FALSE
    BY Zenon DEF Sound
  <2> QED BY <1>1, <2>1, Zenon
<1>3. Preload(b, n) = [b EXCEPT !.bad = b.bad]
  BY <1>2, Zenon DEF Preload
<1> QED BY <1>3 DEF Sound

(* What all refills have in common: as many bits are counted as are guaranteed, *)
(* and as many bytes are read as are counted.                                   *)
Refills(r, b) ==
  /\ Sound(r)
  /\ r.left >= CONSUMABLE_NBITS
  /\ 8 * r.adv - r.left = 8 * b.adv - b.left
  /\ r.touched <= b.touched \/ r.touched <= b.adv + WordBytes

LEMMA WordSplit ==
  ASSUME NEW n \in Nat
  PROVE  /\ n \div 8 \in Nat /\ n % 8 \in 0..7
         /\ n = 8 * (n \div 8) + (n % 8)
OBVIOUS

Buffers == [left : 0..MAX_BITSLEFT, valid : 0..NBITS, adv : Nat, touched : Nat, bad : BOOLEAN]

Filled(b, l, v, a, t) == [b EXCEPT !.left = l, !.valid = v, !.adv = a, !.touched = t]

LEMMA FilledFields ==
  ASSUME NEW b \in Buffers, NEW l \in 0..MAX_BITSLEFT, NEW v \in 0..NBITS,
         NEW a \in Nat, NEW t \in Nat
  PROVE  /\ Filled(b, l, v, a, t) \in Buffers
         /\ Filled(b, l, v, a, t).left = l /\ Filled(b, l, v, a, t).valid = v
         /\ Filled(b, l, v, a, t).adv = a /\ Filled(b, l, v, a, t).touched = t
         /\ Filled(b, l, v, a, t).bad = b.bad
<1> DEFINE r == Filled(b, l, v, a, t)
<1>1. r \in Buffers
  BY DEF Buffers, Filled
<1>2. r.left = l /\ r.valid = v /\ r.adv = a /\ r.touched = t
  BY DEF Buffers, Filled
<1>3. r.bad = b.bad
  BY Zenon DEF Buffers, Filled
<1> QED BY <1>1, <1>2, <1>3

LEMMA WholeWordOk ==
  ASSUME NEW b, AnyMachine, FastAccess, Sound(b)
  PROVE  Refills(WholeWord(b), b) /\ WholeWord(b).valid = NBITS
<1> DEFINE l    == b.left
           rest == l % 8
           more == (MAX_BITSLEFT \div 8) * 8
           gain == (WordBytes - 1) - (l \div 8)
<1>1. /\ l \in 0..MAX_BITSLEFT /\ b.adv \in Nat /\ b.touched \in Nat
  BY DEF Sound
<1>2. /\ rest \in 0..7 /\ l \div 8 \in Nat /\ l = 8 * (l \div 8) + rest
  BY <1>1, MachineTable, WordSplit
<1>3. more = 8 * (WordBytes - 1)
  BY MachineTable
<1> DEFINE total == more + rest
<1>4. /\ total \in 0..MAX_BITSLEFT /\ total >= CONSUMABLE_NBITS
      /\ total <= NBITS /\ NBITS \in Nat
  <2> HIDE DEF more, rest
  <2> QED BY <1>2, <1>3, MachineTable
<1>5. gain \in Nat /\ 8 * gain = total - l
  <2> HIDE DEF more, rest, l
  <2> QED BY <1>1, <1>2, <1>3, MachineTable
<1> DEFINE t == AtLeast(b.touched, b.adv + WordBytes)
<1>6. t \in Nat /\ (t <= b.touched \/ t <= b.adv + WordBytes)
  BY <1>1, MachineTable DEF AtLeast
<1>7. WholeWord(b) = [b EXCEPT !.left = total, !.valid = NBITS,
                               !.adv = b.adv + gain, !.touched = t]
  BY <1>1, MachineTable DEF WholeWord, Sound
<1> HIDE DEF rest, more, gain, t, total
<1> DEFINE r == WholeWord(b)
<1>8. /\ r \in Buffers /\ r.left = total /\ r.valid = NBITS /\ r.adv = b.adv + gain
      /\ r.touched = t /\ r.bad = b.bad
  <2>1. b \in Buffers
    BY DEF Sound, Buffers
  <2>2. NBITS \in 0..NBITS /\ b.adv + gain \in Nat
    BY <1>1, <1>4, <1>5
  <2>3. r = Filled(b, total, NBITS, b.adv + gain, t)
    BY <1>7, Zenon DEF Filled
  <2> HIDE DEF r
  <2>4. total \in 0..MAX_BITSLEFT /\ t \in Nat
    BY <1>4, <1>6
  <2> DEFINE a == b.adv + gain
             v == NBITS
  <2>5. a \in Nat /\ v \in 0..NBITS
    BY <2>2
  <2>6. r = Filled(b, total, v, a, t)
    BY <2>3
  <2> HIDE DEF a, r, v
  <2>7. r \in Buffers /\ r.left = total /\ r.valid = v /\ r.adv = a /\ r.touched = t
    BY <2>1, <2>4, <2>5, <2>6, FilledFields
  <2>8. r.bad = b.bad
    BY <2>1, <2>4, <2>5, <2>6, FilledFields
  <2> QED BY <2>7, <2>8, Zenon DEF a, v
<1>9. r.left <= r.valid /\ 8 * r.adv - r.left = 8 * b.adv - l
  BY <1>1, <1>4, <1>5, <1>8
<1>10. ~r.bad
  BY <1>8, Zenon DEF Sound
<1> HIDE DEF r
<1> QED BY <1>1, <1>4, <1>6, <1>8, <1>9, <1>10 DEF Sound, Buffers, Refills, r

LEMMA ByBytesOk ==
  ASSUME NEW b, AnyMachine, Sound(b)
  PROVE  /\ Refills(ByBytes(b), b)
         /\ ByBytes(b).valid = ByBytes(b).left
<1> DEFINE l == b.left
           k == IF l >= CONSUMABLE_NBITS THEN 0 ELSE (CONSUMABLE_NBITS - l + 7) \div 8
<1>1. l \in 0..MAX_BITSLEFT /\ b.adv \in Nat /\ b.touched \in Nat
  BY DEF Sound
<1>2. /\ k \in 0..WordBytes /\ l + 8 * k >= CONSUMABLE_NBITS
      /\ l + 8 * k \in 0..MAX_BITSLEFT
  BY <1>1, MachineTable
<1> HIDE DEF k
<1> DEFINE t == AtLeast(b.touched, b.adv + k)
<1>3. t \in Nat /\ (t <= b.touched \/ t <= b.adv + WordBytes)
  BY <1>1, <1>2, MachineTable DEF AtLeast
<1>4. ByBytes(b) = [b EXCEPT !.left = l + 8 * k, !.valid = l + 8 * k,
                             !.adv = b.adv + k, !.touched = t]
  BY <1>1 DEF ByBytes, Sound, k
<1>5. MAX_BITSLEFT <= NBITS /\ MAX_BITSLEFT \in Nat /\ NBITS \in Nat
  BY MachineTable
<1> HIDE DEF t
<1> DEFINE r == ByBytes(b)
<1>6. /\ r \in Buffers /\ r.left = l + 8 * k /\ r.valid = l + 8 * k /\ r.adv = b.adv + k
      /\ r.touched = t /\ r.bad = b.bad
  <2>1. b \in Buffers
    BY DEF Sound, Buffers
  <2>2. l + 8 * k \in 0..NBITS /\ b.adv + k \in Nat
    BY <1>1, <1>2, <1>5
  <2> DEFINE n == l + 8 * k
             a == b.adv + k
  <2>3. n \in 0..MAX_BITSLEFT /\ n \in 0..NBITS /\ a \in Nat /\ t \in Nat
    BY <1>2, <1>3, <2>2
  <2>4. r = Filled(b, n, n, a, t)
    BY <1>4, Zenon DEF Filled
  <2> HIDE DEF n, a, r
  <2>5. r \in Buffers /\ r.left = n /\ r.valid = n /\ r.adv = a /\ r.touched = t
    BY <2>1, <2>3, <2>4, FilledFields
  <2>6. r.bad = b.bad
    BY <2>1, <2>3, <2>4, FilledFields
  <2> QED BY <2>5, <2>6, Zenon DEF n, a
<1>7. r.left <= r.valid /\ 8 * r.adv - r.left = 8 * b.adv - l
  BY <1>1, <1>2, <1>6
<1>8. ~r.bad
  BY <1>6, Zenon DEF Sound
<1> HIDE DEF r
<1> QED BY <1>1, <1>2, <1>3, <1>6, <1>7, <1>8 DEF Sound, Buffers, Refills, r

LEMMA RefilledOk ==
  ASSUME NEW b, AnyMachine, Sound(b), NEW r \in Refilled(b)
  PROVE  Refills(r, b)
BY WholeWordOk, ByBytesOk DEF Refilled

(* The refill of the fast loop fills the preloadable bits as well. *)
FastRefills(r, b) == Refills(r, b) /\ Ahead(r) /\ r.valid >= FASTLOOP_PRELOADABLE_NBITS

LEMMA FastRefillOk ==
  ASSUME NEW b, AnyMachine, Sound(b)
  PROVE  FastRefills(REFILL_BITS_IN_FASTLOOP(b), b)
<1>1. CASE FastAccess
  <2>1. Refills(WholeWord(b), b) /\ WholeWord(b).valid = NBITS
    BY <1>1, WholeWordOk
  <2>2. Ahead(WholeWord(b)) /\ NBITS >= FASTLOOP_PRELOADABLE_NBITS
    BY <1>1, <2>1, MachineTable DEF Refills, Sound, Ahead
  <2> QED BY <1>1, <2>1, <2>2 DEF REFILL_BITS_IN_FASTLOOP, FastRefills
<1>2. CASE ~FastAccess
  <2>1. Refills(ByBytes(b), b) /\ ByBytes(b).valid = ByBytes(b).left
    BY ByBytesOk
  <2>2. Ahead(ByBytes(b)) /\ ByBytes(b).valid >= FASTLOOP_PRELOADABLE_NBITS
    BY <1>2, <2>1, MachineTable DEF Refills, Sound, Ahead
  <2> QED BY <1>2, <2>1, <2>2 DEF REFILL_BITS_IN_FASTLOOP, FastRefills
<1> QED BY <1>1, <1>2

(* Two records that leave the buffer. *)
LEMMA ForgetOk ==
  ASSUME NEW b, AnyMachine, Sound(b)
  PROVE  /\ [b EXCEPT !.adv = 0].left = b.left /\ [b EXCEPT !.adv = 0].valid = b.valid
         /\ [b EXCEPT !.adv = 0].adv = 0 /\ [b EXCEPT !.adv = 0].bad = FALSE
<1>1. b \in [left : 0..MAX_BITSLEFT, valid : 0..NBITS, adv : Nat, touched : Nat, bad : BOOLEAN]
      /\ ~b.bad
  BY DEF Sound
<1>2. [b EXCEPT !.adv = 0].bad = b.bad /\ b.bad = FALSE
  <2>1. [b EXCEPT !.adv = 0].bad = b.bad
    BY <1>1
  <2>2. b.bad = FALSE
    BY Zenon DEF Sound
  <2> QED BY <2>1, <2>2
<1>3. [b EXCEPT !.adv = 0].left = b.left /\ [b EXCEPT !.adv = 0].valid = b.valid
      /\ [b EXCEPT !.adv = 0].adv = 0
  BY <1>1
<1> QED BY <1>1, <1>2, <1>3, Zenon

LEMMA DropOk ==
  ASSUME NEW b, AnyMachine, Sound(b)
  PROVE  Sound([b EXCEPT !.left = 0, !.valid = 0])
<1> DEFINE r == [b EXCEPT !.left = 0, !.valid = 0]
<1>1. b \in Buffers /\ ~b.bad
  BY DEF Sound, Buffers
<1>2. 0 \in 0..MAX_BITSLEFT /\ 0 \in 0..NBITS
  BY MachineTable
<1>3. r \in Buffers /\ r.left = 0 /\ r.valid = 0
  BY <1>1, <1>2 DEF Buffers
<1>4. r.bad = b.bad
  BY <1>1 DEF Buffers
<1>5. ~r.bad
  BY <1>1, <1>4, Zenon
<1>6. Sound(r)
  <2> HIDE DEF r
  <2> QED BY <1>3, <1>5 DEF Sound, Buffers
<1> QED BY <1>6

-----------------------------------------------------------------------------
(* How far the copy of a match stores, for all three ways to copy. *)
LEMMA CopyMargin ==
  ASSUME AnyMachine, NEW len \in 3..258, NEW offset \in Nat, offset > 0
  PROVE  CopyEnd(len, offset) \in Nat /\ CopyEnd(len, offset) <= len + 5 * WordBytes - 1
<1>0. WordBytes \in {4, 8}
  BY MachineTable
<1> HIDE DEF WordBytes
<1>1. CASE FastAccess /\ offset >= WordBytes
  <2>1. ~(offset = 1) /\ ~(offset \in 2..(WordBytes - 1))
    BY <1>0, <1>1
  <2>2. CASE WordBytes = 8
    <3>1. CopyEnd(len, offset) = 40 * ((len + 39) \div 40)
      BY <1>1, <2>1, <2>2 DEF CopyEnd
    <3> QED BY <2>2, <3>1
  <2>3. CASE WordBytes = 4
    <3>1. CopyEnd(len, offset) = 20 * ((len + 19) \div 20)
      BY <1>1, <2>1, <2>3 DEF CopyEnd
    <3> QED BY <2>3, <3>1
  <2> QED BY <1>0, <2>2, <2>3
<1>2. CASE FastAccess /\ offset = 1
  <2>1. CopyEnd(len, offset) = 4 * WordBytes * ((len + 4 * WordBytes - 1) \div (4 * WordBytes))
    BY <1>0, <1>2 DEF CopyEnd
  <2>2. CASE WordBytes = 8
    <3>1. CopyEnd(len, offset) = 32 * ((len + 31) \div 32)
      BY <2>1, <2>2
    <3> QED BY <2>2, <3>1
  <2>3. CASE WordBytes = 4
    <3>1. CopyEnd(len, offset) = 16 * ((len + 15) \div 16)
      BY <2>1, <2>3
    <3> QED BY <2>3, <3>1
  <2> QED BY <1>0, <2>2, <2>3
<1>3. CASE FastAccess /\ offset \in 2..(WordBytes - 1)
  <2> DEFINE up    == (len + 2 * offset - 1) \div (2 * offset)
             pairs == AtLeast(2, up)
  <2>1. CopyEnd(len, offset) = (2 * pairs - 1) * offset + WordBytes
    BY <1>0, <1>3 DEF CopyEnd
  <2>2. up \in Nat /\ 2 * up * offset <= len + 2 * offset - 1
    BY <1>0, <1>3
  <2> HIDE DEF up
  <2>3. pairs \in Nat /\ (pairs = 2 \/ pairs = up) /\ pairs >= 2
    BY <2>2 DEF AtLeast
  <2> HIDE DEF pairs
  <2>4. CASE pairs = 2
    BY <1>0, <1>3, <2>1, <2>4
  <2>5. CASE pairs = up
    <3>1. (2 * pairs - 1) * offset = 2 * up * offset - offset
      BY <2>2, <2>5
    <3>2. (2 * pairs - 1) * offset >= 0
      BY <1>0, <1>3, <2>3
    <3> QED BY <1>0, <1>3, <2>1, <2>2, <3>1, <3>2
  <2> QED BY <2>3, <2>4, <2>5
<1>4. CASE ~FastAccess
  BY <1>0, <1>4 DEF CopyEnd, AtLeast
<1>5. FastAccess => offset >= WordBytes \/ offset = 1 \/ offset \in 2..(WordBytes - 1)
  BY <1>0
<1> QED BY <1>1, <1>2, <1>3, <1>4, <1>5

-----------------------------------------------------------------------------
(* The inductive invariant: what is left of a refill at each place of the    *)
(* loop, with the most that can have been consumed since.                    *)
Counts ==
  /\ bitsleft \in 0..MAX_BITSLEFT /\ valid \in 0..NBITS /\ bitsleft <= valid
  /\ advanced \in Nat /\ written \in Nat

(* An iteration that has consumed at most this many bits has read the bytes   *)
(* for them and for what is in the buffer.                                    *)
Iteration(consumed, out) ==
  /\ 8 * advanced <= bitsleft + consumed
  /\ written <= out
  /\ valid >= bitsleft + PRELOAD_SLACK

(* At most this many bits were consumed since the refill. *)
SinceRefill(consumed) ==
  /\ bitsleft >= CONSUMABLE_NBITS - consumed
  /\ valid >= FASTLOOP_PRELOADABLE_NBITS - consumed

LoopInv ==
  /\ pc = "primary" => Iteration(0, 0) /\ SinceRefill(0)
  /\ pc = "extra1" => ExtraLiterals /\ Iteration(11, 1) /\ SinceRefill(11)
  /\ pc = "extra2" => ExtraLiterals /\ Iteration(22, 2) /\ SinceRefill(22)
  /\ pc = "subtable" => /\ Iteration(33, 2)
                        /\ IF ExtraLiterals THEN SinceRefill(33) ELSE SinceRefill(11)
  /\ pc = "offset" => Iteration(42, 2)
  /\ pc = "offset2" => /\ Iteration(50, 2)
                       /\ IF WideOffset THEN bitsleft >= 31 - PRELOAD_SLACK ELSE SinceRefill(0)
  /\ pc = "again" => SinceRefill(0) /\ valid >= bitsleft + PRELOAD_SLACK

OutsideInv ==
  /\ pc \in {"block", "precode", "lens", "huffman", "generic_offset"} =>
       advanced = 0 /\ written = 0
  /\ pc = "generic_offset" => bitsleft >= CONSUMABLE_NBITS - 20

RInv == /\ AnyMachine /\ Counts /\ LoopInv /\ OutsideInv
        /\ starved = FALSE /\ strayed = FALSE

USE DEF LITLEN_TABLEBITS, OFFSET_TABLEBITS, DEFLATE_MAX_LITLEN_CODEWORD_LEN,
        DEFLATE_MAX_OFFSET_CODEWORD_LEN, MAX_EXTRA_LENGTH_BITS, MAX_EXTRA_OFFSET_BITS,
        LENGTH_MAXBITS, OFFSET_MAXBITS, OFFSET_MAXFASTBITS, MAX_PRE_CODEWORD_LEN,
        NUM_PRECODE_SYMS

LEMMA BufferSound ==
  ASSUME RInv
  PROVE  /\ Sound(Buffer) /\ Buffer.left = bitsleft /\ Buffer.valid = valid
         /\ Buffer.adv = advanced /\ Buffer.touched = advanced
         /\ AnyMachine /\ bitsleft \in Nat /\ valid \in Nat /\ advanced \in Nat
<1>2. starved = FALSE
  BY DEF RInv
<1>3. Buffer = [left |-> bitsleft, valid |-> valid, adv |-> advanced, touched |-> advanced,
                bad |-> FALSE]
  BY <1>2, Zenon DEF Buffer
<1>4. ~Buffer.bad
  <2>1. Buffer.bad = starved
    BY Zenon DEF Buffer
  <2> QED BY <1>2, <2>1, Zenon
<1>5. AnyMachine /\ Counts
  BY DEF RInv
<1>6. bitsleft \in Nat /\ valid \in Nat /\ advanced \in Nat
  BY <1>5, MachineBounds DEF Counts
<1>7. Sound(Buffer)
  BY <1>3, <1>4, <1>5 DEF Counts, Sound
<1> QED BY <1>3, <1>5, <1>6, <1>7

(* How a sound buffer becomes the next state, outside of the loop and in it. *)
LEMMA OutOk ==
  ASSUME RInv, UNCHANGED machine, NEW b, Sound(b), NEW to, Out(b, to)
  PROVE  /\ bitsleft' = b.left /\ valid' = b.valid /\ advanced' = 0 /\ written' = 0
         /\ pc' = to /\ AnyMachine' /\ Counts' /\ starved' = FALSE /\ strayed' = FALSE
<1>1. /\ [b EXCEPT !.adv = 0].left = b.left /\ [b EXCEPT !.adv = 0].valid = b.valid
      /\ [b EXCEPT !.adv = 0].adv = 0 /\ [b EXCEPT !.adv = 0].bad = FALSE
  BY ForgetOk DEF RInv
<1>2. /\ bitsleft' = b.left /\ valid' = b.valid /\ advanced' = 0 /\ written' = 0
      /\ pc' = to /\ strayed' = strayed
  BY <1>1 DEF Out, Become
<1>3. starved' = FALSE /\ strayed' = FALSE
  <2>1. starved' = [b EXCEPT !.adv = 0].bad /\ strayed' = strayed
    BY Zenon DEF Out, Become
  <2> QED BY <1>1, <2>1, Zenon DEF RInv
<1>4. AnyMachine' /\ Counts'
  BY <1>2, SameMachine DEF RInv, Counts, Sound
<1> QED BY <1>2, <1>3, <1>4

(* In the loop, what was read for at most 70 consumed bits is within reach. *)
Within(b) ==
  \E a \in Nat : /\ 8 * a <= MAX_BITSLEFT + 70
                 /\ b.touched <= a \/ b.touched <= a + WordBytes

LEMMA Reach ==
  ASSUME AnyMachine, NEW b, Sound(b), Within(b)
  PROVE  (b.touched > FASTLOOP_MAX_BYTES_READ) = FALSE
<1>1. b.touched \in Nat
  BY DEF Sound
<1>2. PICK a \in Nat : /\ 8 * a <= MAX_BITSLEFT + 70
                       /\ b.touched <= a \/ b.touched <= a + WordBytes
  BY DEF Within
<1> HIDE DEF Within
<1> QED BY <1>1, <1>2, MachineTable

LEMMA InOk ==
  ASSUME RInv, UNCHANGED machine, NEW b, Sound(b), Within(b), NEW to, In(b, to)
  PROVE  /\ bitsleft' = b.left /\ valid' = b.valid /\ advanced' = b.adv
         /\ pc' = to /\ AnyMachine' /\ starved' = FALSE /\ strayed' = FALSE
         /\ bitsleft' \in 0..MAX_BITSLEFT' /\ valid' \in 0..NBITS' /\ bitsleft' <= valid'
         /\ advanced' \in Nat
<1>1. /\ bitsleft' = b.left /\ valid' = b.valid /\ advanced' = b.adv /\ pc' = to
  BY DEF In, Become
<1>2. starved' = FALSE /\ strayed' = FALSE
  <2>1. starved' = b.bad /\ strayed' = (strayed \/ b.touched > FASTLOOP_MAX_BYTES_READ)
    BY Zenon DEF In, Become
  <2>2. strayed = FALSE /\ b.bad = FALSE
    BY Zenon DEF RInv, Sound
  <2>3. (b.touched > FASTLOOP_MAX_BYTES_READ) = FALSE
    BY Reach DEF RInv
  <2> QED BY <2>1, <2>2, <2>3, Zenon
<1>3. /\ AnyMachine' /\ bitsleft' \in 0..MAX_BITSLEFT' /\ valid' \in 0..NBITS'
      /\ bitsleft' <= valid' /\ advanced' \in Nat
  BY <1>1, SameMachine DEF RInv, Sound
<1> QED BY <1>1, <1>2, <1>3

-----------------------------------------------------------------------------
(* Headers and the generic loop. *)
LEMMA OutsideKeeps ==
  ASSUME RInv, UNCHANGED machine, NEW b, Sound(b), NEW to, Out(b, to),
         to \in {"block", "precode", "lens", "huffman"}
  PROVE  RInv'
BY OutOk DEF RInv, LoopInv, OutsideInv

LEMMA ReadBlockHeaderKeeps ==
  ASSUME RInv, UNCHANGED machine, NEW type, ReadBlockHeader(type)
  PROVE  RInv'
<1> DEFINE Empty(b) == [b EXCEPT !.left = 0, !.valid = 0]
<1>1. PICK b \in Refilled(Buffer) :
        \/ Out(Empty(Consume(b, 3)), "block")
        \/ Out(Consume(b, IF MergedLen THEN 20 ELSE 17), "precode")
        \/ Out(Consume(b, 3), "huffman")
  BY Zenon DEF ReadBlockHeader
<1>2. Sound(b) /\ b.left >= 24 /\ AnyMachine
  <2>1. AnyMachine /\ Sound(Buffer)
    BY BufferSound
  <2>2. Sound(b) /\ b.left >= CONSUMABLE_NBITS
    BY <2>1, RefilledOk DEF Refills
  <2> QED BY <2>1, <2>2, MachineBounds DEF Sound
<1>3. Sound(Consume(b, 3)) /\ Sound(Consume(b, IF MergedLen THEN 20 ELSE 17))
  <2>1. 3 <= b.left /\ 20 <= b.left /\ 17 <= b.left
    BY <1>2, MachineTable DEF Sound
  <2>2. Sound(Consume(b, 3)) /\ Sound(Consume(b, 20)) /\ Sound(Consume(b, 17))
    BY <1>2, <2>1, ConsumeOk
  <2> QED BY <2>2
<1>4. Sound(Empty(Consume(b, 3)))
  BY <1>2, <1>3, DropOk
<1> HIDE DEF Empty
<1> QED BY <1>1, <1>3, <1>4, OutsideKeeps

LEMMA ReadPrecodeLensKeeps ==
  ASSUME RInv, UNCHANGED machine, NEW explicit \in 4..19, ReadPrecodeLens(explicit)
  PROVE  RInv'
<1>1. AnyMachine /\ Sound(Buffer) /\ Buffer.left = bitsleft /\ bitsleft \in Nat
  BY BufferSound
<1>2. CASE MergedLen
  <2>1. PICK b \in Refilled(Buffer) : Out(Consume(b, 3 * (explicit - 1)), "lens")
    BY <1>2 DEF ReadPrecodeLens
  <2>2. Sound(b) /\ b.left >= CONSUMABLE_NBITS
    BY <1>1, RefilledOk DEF Refills
  <2>3. 3 * (explicit - 1) \in Nat /\ 3 * (explicit - 1) <= b.left
    BY <1>1, <1>2, <2>2, MachineTable DEF MergedLen, CAN_CONSUME, Sound
  <2>4. Sound(Consume(b, 3 * (explicit - 1)))
    <3> HIDE DEF MergedLen
    <3> QED BY <1>1, <2>2, <2>3, ConsumeOk
  <2> QED BY <2>1, <2>4, OutsideKeeps
<1>3. CASE ~MergedLen
  <2>1. PICK b \in IF bitsleft < 3 THEN Refilled(Buffer) ELSE {Buffer} :
               Out(Consume(b, 3), IF explicit = 4 THEN "lens" ELSE "precode")
    BY <1>3 DEF ReadPrecodeLens
  <2>2. Sound(b) /\ b.left >= 3
    BY <1>1, RefilledOk, MachineTable DEF Refills, Sound
  <2>3. Sound(Consume(b, 3))
    BY <1>1, <2>2, ConsumeOk
  <2>4. (IF explicit = 4 THEN "lens" ELSE "precode") \in {"precode", "lens"}
    OBVIOUS
  <2> QED BY <2>1, <2>3, <2>4, OutsideKeeps
<1> QED BY <1>2, <1>3

LEMMA LenItemKeeps ==
  ASSUME RInv, UNCHANGED machine, NEW n \in 1..14, NEW last \in BOOLEAN, LenItem(n, last)
  PROVE  RInv'
<1>1. AnyMachine /\ Sound(Buffer) /\ Buffer.left = bitsleft /\ bitsleft \in Nat
  BY BufferSound
<1>2. PICK b \in IF bitsleft < 14 THEN Refilled(Buffer) ELSE {Buffer} :
             Out(Consume(b, n), IF last THEN "huffman" ELSE "lens")
  BY DEF LenItem
<1>3. Sound(b) /\ b.left >= 14
  BY <1>1, RefilledOk, MachineTable DEF Refills, Sound
<1>4. n <= b.left
  BY <1>3, <1>1, MachineTable DEF Sound
<1>5. Sound(Consume(b, n))
  BY <1>1, <1>3, <1>4, ConsumeOk
<1>6. (IF last THEN "huffman" ELSE "lens") \in {"huffman", "lens"}
  OBVIOUS
<1> QED BY <1>2, <1>5, <1>6, OutsideKeeps

(* Enough bits for an offset are left behind a length, where the buffer can    *)
(* hold both, and otherwise they are refilled.                                 *)
LEMMA GenericSymbolKeeps ==
  ASSUME RInv, UNCHANGED machine, NEW n \in 1..20,
         NEW to \in {"huffman", "block", "generic_offset"}, GenericSymbol(n, to)
  PROVE  RInv'
<1>1. AnyMachine /\ Sound(Buffer)
  BY BufferSound DEF RInv
<1>2. PICK b \in Refilled(Buffer) : Out(Consume(Preload(b, 11), n), to)
  BY DEF GenericSymbol
<1>3. Sound(b) /\ b.left >= CONSUMABLE_NBITS
  BY <1>1, RefilledOk DEF Refills
<1>4. n <= b.left /\ 11 <= b.valid
  BY <1>1, <1>3, MachineTable DEF Sound
<1>5. Preload(b, 11) = b
  BY <1>1, <1>3, <1>4, PreloadOk
<1>6. Sound(Consume(b, n)) /\ Consume(b, n).left = b.left - n /\ Out(Consume(b, n), to)
  BY <1>1, <1>2, <1>3, <1>4, <1>5, ConsumeOk
<1>7. CASE to = "generic_offset"
  <2>1. /\ bitsleft' = b.left - n /\ advanced' = 0 /\ written' = 0 /\ pc' = to
        /\ AnyMachine' /\ Counts' /\ starved' = FALSE /\ strayed' = FALSE
    BY <1>6, OutOk
  <2>2. bitsleft' >= CONSUMABLE_NBITS' - 20
    BY <1>1, <1>3, <2>1, SameMachine, MachineTable DEF Sound
  <2> QED BY <1>7, <2>1, <2>2 DEF RInv, LoopInv, OutsideInv
<1>8. CASE to # "generic_offset"
  BY <1>6, <1>8, OutsideKeeps
<1> QED BY <1>7, <1>8

LEMMA GenericOffsetKeeps ==
  ASSUME RInv, UNCHANGED machine, NEW n \in 1..15, NEW extra \in 0..13,
         GenericOffset(n, extra)
  PROVE  RInv'
<1>1. /\ AnyMachine /\ Sound(Buffer) /\ Buffer.left = bitsleft /\ bitsleft \in Nat
      /\ bitsleft >= CONSUMABLE_NBITS - 20
  BY BufferSound DEF RInv, OutsideInv, GenericOffset
<1>2. PICK b \in IF CAN_CONSUME(48) THEN {Buffer} ELSE Refilled(Buffer) :
        IF n <= 8 THEN Out(Consume(b, n + extra), "huffman")
        ELSE \E r \in IF CAN_CONSUME(28) THEN {Consume(b, 8)} ELSE Refilled(Consume(b, 8)) :
               Out(Consume(r, n - 8 + extra), "huffman")
  BY DEF GenericOffset
<1>3. Sound(b) /\ b.left >= 24
  BY <1>1, RefilledOk, MachineTable DEF Refills, Sound, CAN_CONSUME
<1>4. CAN_CONSUME(28) => b.left >= 28
  BY <1>1, RefilledOk, MachineTable DEF Refills, Sound, CAN_CONSUME
<1>5. CASE n <= 8
  <2>1. n + extra \in Nat /\ n + extra <= b.left
    BY <1>1, <1>3, <1>5, MachineTable DEF Sound
  <2>2. Sound(Consume(b, n + extra))
    BY <1>1, <1>3, <2>1, ConsumeOk
  <2>3. Out(Consume(b, n + extra), "huffman")
    BY <1>2, <1>5
  <2> QED BY <2>2, <2>3, OutsideKeeps
<1>6. CASE ~(n <= 8)
  <2>1. PICK r \in IF CAN_CONSUME(28) THEN {Consume(b, 8)} ELSE Refilled(Consume(b, 8)) :
               Out(Consume(r, n - 8 + extra), "huffman")
    BY <1>2, <1>6
  <2>2. 8 <= b.left
    BY <1>1, <1>3, MachineTable DEF Sound
  <2>3. Sound(Consume(b, 8)) /\ Consume(b, 8).left = b.left - 8
    BY <1>1, <1>3, <2>2, ConsumeOk
  <2>4. Sound(r) /\ r.left >= 20
    <3>1. CASE CAN_CONSUME(28)
      BY <1>1, <1>3, <1>4, <2>1, <2>3, <3>1, MachineTable DEF Sound
    <3>2. CASE ~CAN_CONSUME(28)
      BY <1>1, <2>1, <2>3, <3>2, RefilledOk, MachineTable DEF Refills, Sound
    <3> QED BY <3>1, <3>2
  <2>5. n - 8 + extra \in Nat /\ n - 8 + extra <= r.left
    BY <1>1, <1>6, <2>4, MachineTable DEF Sound
  <2>6. Sound(Consume(r, n - 8 + extra))
    BY <1>1, <2>4, <2>5, ConsumeOk
  <2> QED BY <2>1, <2>6, OutsideKeeps
<1> QED BY <1>5, <1>6

-----------------------------------------------------------------------------
(* Buffers in an iteration of the loop that has consumed at most m bits. *)
Reading(b, m) == Sound(b) /\ Within(b) /\ 8 * b.adv <= b.left + m
InLoop(b, m) == Reading(b, m) /\ Ahead(b)

LEMMA LoopBuffer ==
  ASSUME RInv, NEW m \in 0..70, 8 * advanced <= bitsleft + m
  PROVE  Reading(Buffer, m)
<1>1. /\ Sound(Buffer) /\ Buffer.left = bitsleft /\ Buffer.adv = advanced
      /\ Buffer.touched = advanced /\ AnyMachine /\ advanced \in Nat
  BY BufferSound
<1>2. 8 * advanced <= MAX_BITSLEFT + 70
  BY <1>1, MachineBounds DEF RInv, Counts
<1> QED BY <1>1, <1>2 DEF Reading, Within

LEMMA LoopTypes ==
  ASSUME AnyMachine, NEW m, NEW b, InLoop(b, m)
  PROVE  b.left \in Nat /\ b.valid \in Nat /\ b.adv \in Nat
<1>1. b.left \in 0..MAX_BITSLEFT /\ b.valid \in 0..NBITS /\ b.adv \in Nat
  BY DEF InLoop, Reading, Sound
<1> QED BY <1>1, MachineBounds

LEMMA LoopConsume ==
  ASSUME AnyMachine, NEW m \in 0..70, NEW n \in Nat, NEW b, InLoop(b, m), n <= b.left
  PROVE  /\ InLoop(Consume(b, n), m + n)
         /\ Consume(b, n).left = b.left - n /\ Consume(b, n).valid = b.valid - n
<1>1. /\ Sound(Consume(b, n)) /\ Consume(b, n).left = b.left - n
      /\ Consume(b, n).valid = b.valid - n /\ Consume(b, n).adv = b.adv
      /\ Consume(b, n).touched = b.touched
  BY ConsumeOk DEF InLoop, Reading
<1>2. Within(Consume(b, n))
  BY <1>1 DEF InLoop, Reading, Within
<1>3. b.left \in Nat /\ b.valid \in Nat /\ b.adv \in Nat
  BY MachineBounds DEF InLoop, Reading, Sound
<1>4. 8 * b.adv <= b.left - n + (m + n)
  BY <1>3 DEF InLoop, Reading
<1>5. b.valid - n >= b.left - n + PRELOAD_SLACK
  BY <1>3, MachineBounds DEF InLoop, Ahead
<1> QED BY <1>1, <1>2, <1>4, <1>5 DEF InLoop, Reading, Ahead

LEMMA LoopRefill ==
  ASSUME AnyMachine, NEW m \in 0..70, NEW b, Reading(b, m)
  PROVE  /\ InLoop(REFILL_BITS_IN_FASTLOOP(b), m)
         /\ REFILL_BITS_IN_FASTLOOP(b).left >= CONSUMABLE_NBITS
         /\ REFILL_BITS_IN_FASTLOOP(b).valid >= FASTLOOP_PRELOADABLE_NBITS
<1> DEFINE r == REFILL_BITS_IN_FASTLOOP(b)
<1>1. FastRefills(r, b)
  BY FastRefillOk DEF Reading
<1> HIDE DEF r
<1>2. /\ b.left \in 0..MAX_BITSLEFT /\ b.adv \in Nat /\ b.touched \in Nat
      /\ r.left \in 0..MAX_BITSLEFT /\ r.adv \in Nat /\ r.touched \in Nat
  BY <1>1 DEF Reading, Sound, FastRefills, Refills
<1>3. Within(r)
  <2>1. CASE r.touched <= b.touched
    <3>1. PICK a \in Nat : /\ 8 * a <= MAX_BITSLEFT + 70
                           /\ b.touched <= a \/ b.touched <= a + WordBytes
      BY DEF Reading, Within
    <3>2. r.touched <= a \/ r.touched <= a + WordBytes
      BY <1>2, <2>1, <3>1, MachineBounds
    <3> QED BY <3>1, <3>2 DEF Within
  <2>2. CASE r.touched <= b.adv + WordBytes
    <3>1. 8 * b.adv <= MAX_BITSLEFT + 70
      BY <1>2, MachineBounds DEF Reading
    <3> QED BY <1>2, <2>2, <3>1 DEF Within
  <2> QED BY <1>1, <2>1, <2>2 DEF FastRefills, Refills
<1>4. 8 * r.adv <= r.left + m
  <2>1. 8 * r.adv - r.left = 8 * b.adv - b.left /\ 8 * b.adv <= b.left + m
    BY <1>1 DEF FastRefills, Refills, Reading
  <2> QED BY <1>2, <2>1, MachineBounds
<1>5. InLoop(r, m) /\ r.left >= CONSUMABLE_NBITS /\ r.valid >= FASTLOOP_PRELOADABLE_NBITS
  BY <1>1, <1>3, <1>4 DEF InLoop, Reading, FastRefills, Refills
<1> QED BY <1>5 DEF r

LEMMA LoopRefillIf ==
  ASSUME AnyMachine, NEW m \in 0..70, NEW b, InLoop(b, m), NEW cond \in BOOLEAN
  PROVE  /\ InLoop(RefillIf(cond, b), m)
         /\ cond => /\ RefillIf(cond, b).left >= CONSUMABLE_NBITS
                    /\ RefillIf(cond, b).valid >= FASTLOOP_PRELOADABLE_NBITS
         /\ ~cond => RefillIf(cond, b) = b
<1>1. CASE cond
  <2>1. RefillIf(cond, b) = REFILL_BITS_IN_FASTLOOP(b)
    BY <1>1 DEF RefillIf
  <2> QED BY <1>1, <2>1, LoopRefill DEF InLoop
<1>2. CASE ~cond
  BY <1>2 DEF RefillIf
<1> QED BY <1>1, <1>2

LEMMA LoopPreload ==
  ASSUME AnyMachine, NEW m \in 0..70, NEW b, InLoop(b, m), NEW n \in Nat, n <= b.valid
  PROVE  Preload(b, n) = b
BY PreloadOk DEF InLoop, Reading

(* What every step of the loop leaves, apart from its margins. *)
Held ==
  /\ AnyMachine /\ starved = FALSE /\ strayed = FALSE
  /\ bitsleft \in 0..MAX_BITSLEFT /\ valid \in 0..NBITS /\ bitsleft <= valid
  /\ advanced \in Nat

LEMMA LoopIn ==
  ASSUME RInv, UNCHANGED machine, NEW m \in 0..70, NEW b, InLoop(b, m), NEW to, In(b, to)
  PROVE  /\ Held' /\ bitsleft' = b.left /\ valid' = b.valid /\ pc' = to
         /\ 8 * advanced' <= b.left + m /\ valid' >= b.left + PRELOAD_SLACK
<1>1. /\ bitsleft' = b.left /\ valid' = b.valid /\ advanced' = b.adv
      /\ pc' = to /\ AnyMachine' /\ starved' = FALSE /\ strayed' = FALSE
      /\ bitsleft' \in 0..MAX_BITSLEFT' /\ valid' \in 0..NBITS' /\ bitsleft' <= valid'
      /\ advanced' \in Nat
  BY InOk DEF InLoop, Reading
<1>2. 8 * advanced' <= b.left + m /\ valid' >= b.left + PRELOAD_SLACK
  BY <1>1 DEF InLoop, Reading, Ahead
<1> QED BY <1>1, <1>2 DEF Held

LEMMA AfterIn ==
  ASSUME RInv, UNCHANGED machine, NEW m \in 0..70, NEW b, InLoop(b, m), NEW to, In(b, to),
         NEW most \in Nat, m <= most, NEW out \in Nat, written' \in Nat, written' <= out
  PROVE  Held' /\ Counts' /\ pc' = to /\ Iteration(most, out)'
<1>1. /\ Held' /\ bitsleft' = b.left /\ pc' = to
      /\ 8 * advanced' <= b.left + m /\ valid' >= b.left + PRELOAD_SLACK
  BY LoopIn
<1>2. b.left \in Nat /\ PRELOAD_SLACK' = PRELOAD_SLACK
  BY MachineBounds, SameMachine DEF RInv, InLoop, Reading, Sound
<1>3. Iteration(most, out)'
  <2>1. 8 * advanced' <= bitsleft' + most
    BY <1>1, <1>2 DEF Held
  <2>2. valid' >= bitsleft' + PRELOAD_SLACK'
    BY <1>1, <1>2
  <2> QED BY <2>1, <2>2 DEF Iteration
<1> QED BY <1>1, <1>3 DEF Held, Counts

LEMMA AfterSince ==
  ASSUME RInv, UNCHANGED machine, NEW m \in 0..70, NEW b, InLoop(b, m), NEW to, In(b, to),
         NEW k \in Nat, b.left >= CONSUMABLE_NBITS - k, b.valid >= FASTLOOP_PRELOADABLE_NBITS - k
  PROVE  SinceRefill(k)'
<1>1. bitsleft' = b.left /\ valid' = b.valid
  BY LoopIn
<1> QED BY <1>1, SameMachine DEF SinceRefill

(* The end of an iteration. *)
LEMMA IterateKeeps ==
  ASSUME RInv, UNCHANGED machine, NEW m \in 0..70, NEW b, InLoop(b, m), 11 <= b.valid,
         Iterate(b), written' \in Nat
  PROVE  RInv'
<1>1. AnyMachine
  BY DEF RInv
<1>2. Preload(b, 11) = b
  BY <1>1, LoopPreload
<1>3. In(REFILL_BITS_IN_FASTLOOP(b), "again")
  BY <1>2 DEF Iterate
<1>4. /\ InLoop(REFILL_BITS_IN_FASTLOOP(b), m)
      /\ REFILL_BITS_IN_FASTLOOP(b).left >= CONSUMABLE_NBITS
      /\ REFILL_BITS_IN_FASTLOOP(b).valid >= FASTLOOP_PRELOADABLE_NBITS
  BY <1>1, LoopRefill DEF InLoop
<1>5. SinceRefill(0)'
  BY <1>1, <1>3, <1>4, AfterSince, MachineBounds
<1>6. /\ Held' /\ pc' = "again"
      /\ valid' >= REFILL_BITS_IN_FASTLOOP(b).left + PRELOAD_SLACK
      /\ bitsleft' = REFILL_BITS_IN_FASTLOOP(b).left
  BY <1>3, <1>4, LoopIn
<1>7. valid' >= bitsleft' + PRELOAD_SLACK'
  BY <1>6, SameMachine
<1> QED BY <1>5, <1>6, <1>7 DEF Held, RInv, Counts, LoopInv, OutsideInv

-----------------------------------------------------------------------------
(* The fast loop. *)
LEMMA EnterKeeps ==
  ASSUME RInv, UNCHANGED machine, Enter
  PROVE  RInv'
<1> DEFINE r == REFILL_BITS_IN_FASTLOOP(Buffer)
<1>1. /\ AnyMachine /\ advanced = 0 /\ written = 0 /\ bitsleft \in Nat
      /\ written' = written /\ In(Preload(r, 11), "primary")
  BY BufferSound DEF RInv, OutsideInv, Enter
<1>2. Reading(Buffer, 0)
  BY <1>1, LoopBuffer
<1>3. /\ InLoop(r, 0) /\ r.left >= CONSUMABLE_NBITS /\ r.valid >= FASTLOOP_PRELOADABLE_NBITS
  BY <1>1, <1>2, LoopRefill
<1> HIDE DEF r
<1>4. 11 <= r.valid
  BY <1>1, <1>3, MachineTable DEF InLoop, Reading, Sound
<1>5. In(r, "primary")
  BY <1>1, <1>3, <1>4, LoopPreload
<1>6. Held' /\ Counts' /\ pc' = "primary" /\ Iteration(0, 0)'
  BY <1>1, <1>3, <1>5, AfterIn
<1>7. SinceRefill(0)'
  BY <1>1, <1>3, <1>5, AfterSince, MachineBounds
<1> QED BY <1>6, <1>7 DEF Held, RInv, LoopInv, OutsideInv

LEMMA AgainKeeps ==
  ASSUME RInv, UNCHANGED machine, NEW to \in {"primary", "huffman"}, Again(to)
  PROVE  RInv'
<1>1. CASE to = "huffman"
  BY <1>1, BufferSound, OutsideKeeps DEF Again
<1>2. CASE to = "primary"
  <2>1. /\ AnyMachine /\ pc = "again" /\ Out(Buffer, "primary") /\ Sound(Buffer)
        /\ Buffer.left = bitsleft /\ Buffer.valid = valid
        /\ bitsleft \in Nat /\ valid \in Nat
    BY <1>2, BufferSound DEF Again
  <2>2. SinceRefill(0) /\ valid >= bitsleft + PRELOAD_SLACK
    BY <2>1 DEF RInv, LoopInv
  <2>3. /\ bitsleft' = bitsleft /\ valid' = valid /\ advanced' = 0 /\ written' = 0
        /\ pc' = "primary" /\ AnyMachine' /\ Counts' /\ starved' = FALSE /\ strayed' = FALSE
    BY <2>1, OutOk
  <2>4. Iteration(0, 0)' /\ SinceRefill(0)'
    BY <2>1, <2>2, <2>3, SameMachine, MachineBounds DEF Iteration, SinceRefill
  <2> QED BY <2>3, <2>4 DEF RInv, LoopInv, OutsideInv
<1> QED BY <1>1, <1>2

(* What the invariant gives an action of the loop to start from. *)
LEMMA LoopStart ==
  ASSUME RInv
  PROVE  /\ AnyMachine /\ bitsleft \in Nat /\ valid \in Nat /\ written \in Nat
         /\ Buffer.left = bitsleft /\ Buffer.valid = valid
         /\ pc = "primary" => InLoop(Buffer, 0) /\ SinceRefill(0) /\ written = 0
         /\ pc = "extra1" => /\ InLoop(Buffer, 11) /\ SinceRefill(11) /\ written <= 1
                             /\ ExtraLiterals
         /\ pc = "extra2" => /\ InLoop(Buffer, 22) /\ SinceRefill(22) /\ written <= 2
                             /\ ExtraLiterals
         /\ pc = "subtable" => /\ InLoop(Buffer, 33) /\ written <= 2
                               /\ IF ExtraLiterals THEN SinceRefill(33) ELSE SinceRefill(11)
         /\ pc = "offset" => InLoop(Buffer, 42) /\ written <= 2
         /\ pc = "offset2" => InLoop(Buffer, 50) /\ written <= 2
<1>1. /\ AnyMachine /\ bitsleft \in Nat /\ valid \in Nat /\ written \in Nat /\ Sound(Buffer)
      /\ Buffer.left = bitsleft /\ Buffer.valid = valid
  BY BufferSound DEF RInv, Counts
<1>2. ASSUME NEW m \in {0, 11, 22, 33, 42, 50}, NEW out \in 0..2, Iteration(m, out)
      PROVE  InLoop(Buffer, m) /\ written <= out
  <2>1. Reading(Buffer, m)
    BY <1>2, LoopBuffer DEF Iteration
  <2> QED BY <1>1, <1>2, <2>1 DEF Iteration, InLoop, Ahead
<1>3. ASSUME NEW m \in {0, 11, 22, 33, 42, 50}, Iteration(m, 2)
      PROVE  InLoop(Buffer, m) /\ written <= 2
  BY <1>2, <1>3
<1>4. LoopInv
  BY DEF RInv
<1>5. pc = "primary" => InLoop(Buffer, 0) /\ SinceRefill(0) /\ written = 0
  BY <1>1, <1>2, <1>4 DEF LoopInv
<1>6. pc = "extra1" => /\ InLoop(Buffer, 11) /\ SinceRefill(11) /\ written <= 1
                      /\ ExtraLiterals
  BY <1>2, <1>4 DEF LoopInv
<1> QED BY <1>1, <1>3, <1>4, <1>5, <1>6 DEF LoopInv

LEMMA FastLiteralKeeps ==
  ASSUME RInv, UNCHANGED machine, NEW n \in 1..11, FastLiteral(n)
  PROVE  RInv'
<1> DEFINE c == Consume(Buffer, n)
<1>1. /\ AnyMachine /\ bitsleft \in Nat /\ valid \in Nat /\ written \in Nat
      /\ Buffer.left = bitsleft /\ Buffer.valid = valid /\ written' = written + 1
      /\ pc \in {"primary", "extra1", "extra2"}
  BY LoopStart DEF FastLiteral
<1>2. n <= bitsleft /\ 11 <= valid - n
  BY <1>1, LoopStart, MachineTable DEF SinceRefill
<1>3. ASSUME NEW m \in {0, 11, 22}, InLoop(Buffer, m)
      PROVE  InLoop(c, m + n) /\ c.left = bitsleft - n /\ c.valid = valid - n /\ Preload(c, 11) = c
  <2>1. InLoop(c, m + n) /\ c.left = bitsleft - n /\ c.valid = valid - n
    BY <1>1, <1>2, <1>3, LoopConsume
  <2> HIDE DEF c
  <2>2. m + n \in 0..70 /\ 11 <= c.valid
    BY <1>2, <2>1
  <2>3. Preload(c, 11) = c
    BY <1>1, <2>1, <2>2, LoopPreload
  <2> QED BY <2>1, <2>3
<1>4. CASE ExtraLiterals /\ pc = "primary"
  <2>1. InLoop(Buffer, 0) /\ SinceRefill(0) /\ written = 0
    BY <1>4, LoopStart
  <2>2. InLoop(c, n) /\ c.left = bitsleft - n /\ c.valid = valid - n /\ Preload(c, 11) = c
    BY <1>3, <2>1
  <2>3. In(c, "extra1")
    BY <1>4, <2>2 DEF FastLiteral
  <2> HIDE DEF c
  <2>4. written' \in Nat /\ written' <= 1 /\ n \in 0..70 /\ n <= 11
    BY <1>1, <2>1
  <2>5. Held' /\ Counts' /\ pc' = "extra1" /\ Iteration(11, 1)'
    BY <2>2, <2>3, <2>4, AfterIn
  <2>6. c.left >= CONSUMABLE_NBITS - 11 /\ c.valid >= FASTLOOP_PRELOADABLE_NBITS - 11
    BY <1>1, <2>1, <2>2, MachineBounds DEF SinceRefill
  <2>7. SinceRefill(11)' /\ ExtraLiterals'
    BY <1>4, <2>2, <2>3, <2>4, <2>6, AfterSince, SameMachine
  <2> QED BY <2>5, <2>7 DEF Held, RInv, LoopInv, OutsideInv
<1>5. CASE ExtraLiterals /\ pc = "extra1"
  <2>1. InLoop(Buffer, 11) /\ SinceRefill(11) /\ written <= 1
    BY <1>5, LoopStart
  <2>2. InLoop(c, 11 + n) /\ c.left = bitsleft - n /\ c.valid = valid - n /\ Preload(c, 11) = c
    BY <1>3, <2>1
  <2>3. In(c, "extra2")
    BY <1>5, <2>2 DEF FastLiteral
  <2> HIDE DEF c
  <2>4. written' \in Nat /\ written' <= 2 /\ (11 + n) \in 0..70 /\ (11 + n) <= 22
    BY <1>1, <2>1
  <2>5. Held' /\ Counts' /\ pc' = "extra2" /\ Iteration(22, 2)'
    BY <2>2, <2>3, <2>4, AfterIn
  <2>6. c.left >= CONSUMABLE_NBITS - 22 /\ c.valid >= FASTLOOP_PRELOADABLE_NBITS - 22
    BY <1>1, <2>1, <2>2, MachineBounds DEF SinceRefill
  <2>7. SinceRefill(22)' /\ ExtraLiterals'
    BY <1>5, <2>2, <2>3, <2>4, <2>6, AfterSince, SameMachine
  <2> QED BY <2>5, <2>7 DEF Held, RInv, LoopInv, OutsideInv
<1>6. CASE ~(ExtraLiterals /\ pc \in {"primary", "extra1"})
  <2>1. Iterate(c)
    BY <1>1, <1>6 DEF FastLiteral
  <2>2. PICK m \in {0, 11, 22} : InLoop(Buffer, m)
    BY <1>1, LoopStart
  <2>3. InLoop(c, m + n) /\ c.left = bitsleft - n /\ c.valid = valid - n
    BY <1>3, <2>2
  <2> HIDE DEF c
  <2>4. m + n \in 0..70 /\ 11 <= c.valid /\ written' \in Nat
    BY <1>1, <1>2, <2>3
  <2> QED BY <2>1, <2>3, <2>4, IterateKeeps
<1> QED BY <1>1, <1>4, <1>5, <1>6

(* A codeword of the main table and, where it is a length, its extra bits may *)
(* be consumed wherever the loop has an entry; more bits are there behind it. *)
Entry == {"primary", "extra1", "extra2", "subtable"}
MostAt == IF pc = "subtable" THEN 4 ELSE 11

LEMMA EntryStart ==
  ASSUME RInv, pc \in Entry
  PROVE  \E m \in {0, 11, 22, 33} :
           /\ InLoop(Buffer, m) /\ written <= 2 /\ m + MostAt <= 37
           /\ bitsleft >= MostAt + 5
           /\ (pc = "subtable" /\ SubtableRefill) \/ valid >= MostAt + 5 + 8
           /\ (pc = "subtable" /\ SubtableRefill) \/ valid >= MostAt + 11
<1>1. /\ AnyMachine /\ bitsleft \in Nat /\ valid \in Nat /\ written \in Nat
  BY LoopStart
<1>2. CASE pc = "primary"
  BY <1>1, <1>2, LoopStart, MachineTable DEF SinceRefill, MostAt
<1>3. CASE pc = "extra1"
  BY <1>1, <1>3, LoopStart, MachineTable DEF SinceRefill, MostAt
<1>4. CASE pc = "extra2"
  BY <1>1, <1>4, LoopStart, MachineTable DEF SinceRefill, MostAt
<1>5. CASE pc = "subtable"
  BY <1>1, <1>5, LoopStart, MachineTable DEF SinceRefill, MostAt
<1> QED BY <1>2, <1>3, <1>4, <1>5 DEF Entry

LEMMA LitlenSubtableKeeps ==
  ASSUME RInv, UNCHANGED machine, NEW k \in 1..4, LitlenSubtable(k)
  PROVE  RInv'
<1> DEFINE c == Consume(Buffer, 11)
<1>1. /\ AnyMachine /\ bitsleft \in Nat /\ valid \in Nat /\ written \in Nat
      /\ Buffer.left = bitsleft /\ Buffer.valid = valid /\ written' = written
      /\ pc \in {"primary", "extra1", "extra2"} /\ In(Preload(c, k), "subtable")
  BY LoopStart DEF LitlenSubtable
<1>2. PICK m \in {0, 11, 22} :
        /\ InLoop(Buffer, m) /\ SinceRefill(m) /\ written <= 2 /\ (m = 0 \/ ExtraLiterals)
  BY <1>1, LoopStart
<1>3. 11 <= bitsleft /\ k <= valid - 11
  BY <1>1, <1>2, MachineTable DEF SinceRefill
<1>4. InLoop(c, m + 11) /\ c.left = bitsleft - 11 /\ c.valid = valid - 11
  BY <1>1, <1>2, <1>3, LoopConsume
<1> HIDE DEF c
<1>5. In(c, "subtable")
  BY <1>1, <1>3, <1>4, LoopPreload
<1>6. Held' /\ Counts' /\ pc' = "subtable" /\ Iteration(33, 2)'
  BY <1>1, <1>2, <1>4, <1>5, AfterIn
<1>7. /\ c.left >= CONSUMABLE_NBITS - (m + 11)
      /\ c.valid >= FASTLOOP_PRELOADABLE_NBITS - (m + 11)
  BY <1>1, <1>2, <1>4, MachineBounds DEF SinceRefill
<1>8. SinceRefill(m + 11)'
  BY <1>4, <1>5, <1>7, AfterSince
<1>9. IF ExtraLiterals THEN SinceRefill(33)' ELSE SinceRefill(11)'
  <2>1. CASE m = 0 \/ m = 22
    <3>1. /\ c.left >= CONSUMABLE_NBITS - 33 /\ c.valid >= FASTLOOP_PRELOADABLE_NBITS - 33
      BY <1>1, <1>2, <1>4, <1>7, MachineBounds
    <3>2. SinceRefill(33)'
      BY <1>2, <1>4, <1>5, <3>1, AfterSince
    <3> QED BY <1>2, <1>8, <2>1, <3>2
  <2>2. CASE m = 11
    <3>1. /\ c.left >= CONSUMABLE_NBITS - 33 /\ c.valid >= FASTLOOP_PRELOADABLE_NBITS - 33
      BY <1>1, <1>2, <1>4, <1>7, MachineBounds
    <3>2. SinceRefill(33)'
      BY <1>2, <1>4, <1>5, <3>1, AfterSince
    <3> QED BY <1>2, <2>2, <3>2
  <2> QED BY <1>2, <2>1, <2>2
<1>10. IF ExtraLiterals' THEN SinceRefill(33)' ELSE SinceRefill(11)'
  BY <1>9, SameMachine
<1> QED BY <1>6, <1>10 DEF Held, RInv, LoopInv, OutsideInv

LEMMA SlowLiteralKeeps ==
  ASSUME RInv, UNCHANGED machine, NEW n \in 1..4, SlowLiteral(n)
  PROVE  RInv'
<1> DEFINE c == Consume(Buffer, n)
           r == RefillIf(SubtableRefill, c)
<1>1. /\ AnyMachine /\ bitsleft \in Nat /\ valid \in Nat /\ written \in Nat
      /\ Buffer.left = bitsleft /\ Buffer.valid = valid /\ written' = written + 1
      /\ pc = "subtable" /\ Iterate(r)
  BY LoopStart DEF SlowLiteral
<1>2. /\ InLoop(Buffer, 33) /\ n <= bitsleft /\ (SubtableRefill \/ 11 <= valid - n)
  BY <1>1, LoopStart, MachineTable DEF SinceRefill
<1>3. InLoop(c, 33 + n) /\ c.valid = valid - n
  BY <1>1, <1>2, LoopConsume
<1> HIDE DEF c
<1>4. SubtableRefill \in BOOLEAN
  BY DEF SubtableRefill
<1>5. /\ InLoop(r, 33 + n)
      /\ SubtableRefill => r.valid >= FASTLOOP_PRELOADABLE_NBITS
      /\ ~SubtableRefill => r = c
  BY <1>1, <1>3, <1>4, LoopRefillIf
<1> HIDE DEF r
<1>6. 11 <= r.valid
  <2>1. r.valid \in Nat
    BY <1>1, <1>5, LoopTypes
  <2>2. CASE SubtableRefill
    BY <1>1, <1>5, <2>1, <2>2, MachineBounds
  <2>3. CASE ~SubtableRefill
    BY <1>2, <1>3, <1>5, <2>3
  <2> QED BY <2>2, <2>3
<1> QED BY <1>1, <1>5, <1>6, IterateKeeps

LEMMA FastEndOfBlockKeeps ==
  ASSUME RInv, UNCHANGED machine, NEW n \in 1..MostAt, FastEndOfBlock(n)
  PROVE  RInv'
<1> DEFINE c    == Consume(Buffer, n)
           cond == pc = "subtable" /\ SubtableRefill
           r    == RefillIf(cond, c)
<1>1. /\ AnyMachine /\ bitsleft \in Nat /\ Buffer.left = bitsleft
      /\ pc \in Entry /\ Out(r, "block")
  BY LoopStart DEF FastEndOfBlock, Entry
<1>2. PICK m \in {0, 11, 22, 33} :
        InLoop(Buffer, m) /\ m + MostAt <= 37 /\ bitsleft >= MostAt + 5
  BY <1>1, EntryStart
<1>3. n \in Nat /\ n <= bitsleft /\ m + n \in 0..70
  BY <1>1, <1>2 DEF MostAt
<1>4. InLoop(c, m + n)
  BY <1>1, <1>2, <1>3, LoopConsume
<1> HIDE DEF c
<1>5. cond \in BOOLEAN
  OBVIOUS
<1> HIDE DEF cond
<1>6. InLoop(r, m + n)
  BY <1>1, <1>3, <1>4, <1>5, LoopRefillIf
<1> QED BY <1>1, <1>6, OutsideKeeps DEF InLoop, Reading

LEMMA LengthKeeps ==
  ASSUME RInv, UNCHANGED machine, NEW n \in 1..MostAt, NEW extra \in 0..5, Length(n, extra)
  PROVE  RInv'
<1> DEFINE c    == Consume(Buffer, n + extra)
           cond == pc = "subtable" /\ SubtableRefill
           r    == RefillIf(cond, c)
<1>1. /\ AnyMachine /\ bitsleft \in Nat /\ valid \in Nat /\ written \in Nat
      /\ Buffer.left = bitsleft /\ Buffer.valid = valid /\ written' = written
      /\ pc \in Entry /\ In(Preload(r, 8), "offset")
  BY LoopStart DEF Length, Entry
<1>2. PICK m \in {0, 11, 22, 33} :
        /\ InLoop(Buffer, m) /\ written <= 2 /\ m + MostAt <= 37 /\ bitsleft >= MostAt + 5
        /\ (pc = "subtable" /\ SubtableRefill) \/ valid >= MostAt + 5 + 8
  BY <1>1, EntryStart
<1>3. /\ n + extra \in Nat /\ n + extra <= bitsleft /\ m + (n + extra) \in 0..42
      /\ (pc = "subtable" /\ SubtableRefill) \/ 8 <= valid - (n + extra)
  BY <1>1, <1>2 DEF MostAt
<1>4. InLoop(c, m + (n + extra)) /\ c.valid = valid - (n + extra)
  BY <1>1, <1>2, <1>3, LoopConsume
<1> HIDE DEF c
<1>5. cond \in BOOLEAN /\ (cond \/ 8 <= c.valid)
  BY <1>3, <1>4
<1> HIDE DEF cond
<1>6. /\ InLoop(r, m + (n + extra))
      /\ cond => r.valid >= FASTLOOP_PRELOADABLE_NBITS
      /\ ~cond => r = c
  BY <1>1, <1>3, <1>4, <1>5, LoopRefillIf
<1> HIDE DEF r
<1>7. 8 <= r.valid
  <2>1. r.valid \in Nat
    BY <1>1, <1>6, LoopTypes
  <2>2. CASE cond
    BY <1>1, <1>6, <2>1, <2>2, MachineBounds
  <2>3. CASE ~cond
    BY <1>5, <1>6, <2>3
  <2> QED BY <2>2, <2>3
<1>8. In(r, "offset")
  BY <1>1, <1>3, <1>6, <1>7, LoopPreload
<1>9. Held' /\ Counts' /\ pc' = "offset" /\ Iteration(42, 2)'
  BY <1>1, <1>2, <1>3, <1>6, <1>8, AfterIn
<1> QED BY <1>9 DEF Held, RInv, LoopInv, OutsideInv

(* An offset that needs a subtable: either the buffer can hold a whole offset *)
(* and enough of it is there, or it is refilled before the second part.       *)
LEMMA OffsetSubtableKeeps ==
  ASSUME RInv, UNCHANGED machine, NEW k \in 1..7, OffsetSubtable(k)
  PROVE  RInv'
<1> DEFINE first == OffsetSubtableRefill(bitsleft)
           a     == RefillIf(first, Buffer)
           b     == Consume(a, 8)
           d     == RefillIf(~WideOffset, Preload(b, k))
<1>1. /\ AnyMachine /\ bitsleft \in Nat /\ valid \in Nat /\ written \in Nat
      /\ Buffer.left = bitsleft /\ Buffer.valid = valid /\ written' = written /\ written <= 2
      /\ InLoop(Buffer, 42) /\ In(d, "offset2")
  BY LoopStart DEF OffsetSubtable
<1>2. first \in BOOLEAN /\ (~WideOffset) \in BOOLEAN
  BY DEF OffsetSubtableRefill
<1>3. /\ InLoop(a, 42)
      /\ first => a.left >= CONSUMABLE_NBITS
      /\ ~first => a = Buffer
  BY <1>1, <1>2, LoopRefillIf
<1>4. /\ ~first => WideOffset /\ bitsleft >= 39 - PRELOAD_SLACK
      /\ WideOffset => CONSUMABLE_NBITS >= 39 - PRELOAD_SLACK
  BY <1>1, MachineTable DEF OffsetSubtableRefill
<1> HIDE DEF first
<1>5. a.left >= 24 /\ (WideOffset => a.left >= 39 - PRELOAD_SLACK) /\ a.left \in Nat
  <2>1. a.left \in Nat
    BY <1>1, <1>3, LoopTypes
  <2> HIDE DEF a
  <2>2. CASE first
    BY <1>1, <1>3, <2>1, <2>2, MachineBounds
  <2>3. CASE ~first
    BY <1>1, <1>3, <1>4, <2>1, <2>3, MachineBounds
  <2> QED BY <2>1, <2>2, <2>3
<1> HIDE DEF a
<1>6. InLoop(b, 50) /\ b.left = a.left - 8
  <2>1. 42 \in 0..70 /\ 8 \in Nat /\ 8 <= a.left /\ 42 + 8 = 50
    BY <1>5
  <2>2. InLoop(Consume(a, 8), 42 + 8) /\ Consume(a, 8).left = a.left - 8
    BY <1>1, <1>3, <2>1, LoopConsume
  <2> QED BY <2>1, <2>2
<1> HIDE DEF b
<1>7. k <= b.valid
  BY <1>1, <1>5, <1>6, LoopTypes DEF InLoop, Reading, Sound
<1>8. Preload(b, k) = b
  BY <1>1, <1>6, <1>7, LoopPreload
<1>9. /\ InLoop(d, 50)
      /\ ~WideOffset => /\ d.left >= CONSUMABLE_NBITS
                        /\ d.valid >= FASTLOOP_PRELOADABLE_NBITS
      /\ WideOffset => d = b
  <2>1. d = RefillIf(~WideOffset, b)
    BY <1>8, Zenon
  <2> DEFINE narrow == ~WideOffset
  <2>2. narrow \in BOOLEAN /\ d = RefillIf(narrow, b)
    BY <1>2, <2>1
  <2> HIDE DEF narrow, d
  <2>3. /\ InLoop(d, 50)
        /\ narrow => /\ d.left >= CONSUMABLE_NBITS
                     /\ d.valid >= FASTLOOP_PRELOADABLE_NBITS
        /\ ~narrow => d = b
    BY <1>1, <1>6, <2>2, LoopRefillIf
  <2> QED BY <2>3 DEF narrow
<1> HIDE DEF d
<1>10. Held' /\ Counts' /\ pc' = "offset2" /\ Iteration(50, 2)'
  BY <1>1, <1>9, AfterIn
<1>11. IF WideOffset' THEN bitsleft' >= 31 - PRELOAD_SLACK' ELSE SinceRefill(0)'
  <2>1. CASE WideOffset
    <3>1. bitsleft' = b.left /\ b.left = a.left - 8 /\ a.left >= 39 - PRELOAD_SLACK
      BY <1>1, <1>5, <1>6, <1>9, <2>1, LoopIn
    <3>2. bitsleft' >= 31 - PRELOAD_SLACK
      BY <1>1, <1>5, <3>1, MachineBounds
    <3> QED BY <2>1, <3>2, SameMachine
  <2>2. CASE ~WideOffset
    <3>1. SinceRefill(0)'
      BY <1>1, <1>9, <2>2, AfterSince, MachineBounds
    <3> QED BY <2>2, <3>1, SameMachine
  <2> QED BY <2>1, <2>2
<1> QED BY <1>10, <1>11 DEF Held, RInv, LoopInv, OutsideInv

(* The last bits of a match: its offset, the next entry, the refill, the copy. *)
MostOffsetAt == IF pc = "offset2" THEN 7 ELSE 8

LEMMA OffsetKeeps ==
  ASSUME RInv, UNCHANGED machine, NEW n \in 1..MostOffsetAt, NEW extra \in 0..13,
         NEW len \in 3..258, NEW offset \in Nat, offset > 0, Offset(n, extra, len, offset)
  PROVE  RInv'
<1> DEFINE first == pc = "offset" /\ OffsetRefill(bitsleft)
           a     == RefillIf(first, Buffer)
           b     == Consume(a, n + extra)
           late  == RefillAfterOffset(b.left)
           c     == RefillIf(late, b)
           e     == Preload(c, 11)
           d     == REFILL_BITS_IN_FASTLOOP(e)
<1>1. /\ AnyMachine /\ bitsleft \in Nat /\ valid \in Nat /\ written \in Nat
      /\ Buffer.left = bitsleft /\ Buffer.valid = valid /\ written' = written + len
      /\ written <= 2 /\ pc \in {"offset", "offset2"}
  BY LoopStart DEF Offset
<1>2. /\ Become(d, "again")
      /\ strayed' = (\/ strayed
                     \/ d.touched > FASTLOOP_MAX_BYTES_READ
                     \/ written + CopyEnd(len, offset) > FASTLOOP_MAX_BYTES_WRITTEN)
  BY Zenon DEF Offset
<1> DEFINE m == IF pc = "offset" THEN 42 ELSE 50
<1>3. InLoop(Buffer, m) /\ m \in 0..70 /\ n + extra \in Nat /\ m + (n + extra) \in 0..70
  BY <1>1, LoopStart DEF MostOffsetAt
<1> HIDE DEF m
<1>4. first \in BOOLEAN
  OBVIOUS
<1>5. /\ InLoop(a, m)
      /\ first => a.left >= CONSUMABLE_NBITS /\ a.valid >= FASTLOOP_PRELOADABLE_NBITS
      /\ ~first => a = Buffer
  BY <1>1, <1>3, <1>4, LoopRefillIf
<1>6. a.left \in Nat /\ a.valid \in Nat
  BY <1>1, <1>5, LoopTypes
(* Where the buffer can hold a whole offset, some bits of the next entry are *)
(* left; where it cannot, the refill has just been made.                     *)
<1>7. /\ n + extra <= a.left
      /\ WideOffset => a.left - (n + extra) >= 11 - PRELOAD_SLACK
      /\ ~WideOffset => a.left >= CONSUMABLE_NBITS /\ a.valid >= FASTLOOP_PRELOADABLE_NBITS
  <2>1. CASE pc = "offset"
    <3>1. ~first => WideOffset /\ bitsleft >= 32 - PRELOAD_SLACK
      BY <1>1, <2>1, MachineTable DEF OffsetRefill
    <3>2. first \/ a.left = bitsleft
      BY <1>1, <1>5
    <3>3. n + extra <= 21
      BY <2>1 DEF MostOffsetAt
    <3> HIDE DEF first, a
    <3>4. CASE first
      BY <1>1, <1>5, <1>6, <3>3, <3>4, MachineBounds
    <3>5. CASE ~first
      BY <1>1, <1>6, <3>1, <3>2, <3>3, <3>5, MachineBounds
    <3> QED BY <3>4, <3>5
  <2>2. CASE pc = "offset2"
    <3>1. ~first /\ a = Buffer /\ a.left = bitsleft /\ a.valid = valid
      BY <1>1, <1>5, <2>2
    <3>2. IF WideOffset THEN bitsleft >= 31 - PRELOAD_SLACK ELSE SinceRefill(0)
      BY <2>2 DEF RInv, LoopInv
    <3>3. n + extra <= 20
      BY <2>2 DEF MostOffsetAt
    <3> HIDE DEF first, a
    <3>4. CASE WideOffset
      BY <1>1, <1>6, <3>1, <3>2, <3>3, <3>4, MachineTable
    <3>5. CASE ~WideOffset
      BY <1>1, <1>6, <3>1, <3>2, <3>3, <3>5, MachineBounds DEF SinceRefill
    <3> QED BY <3>4, <3>5
  <2> QED BY <1>1, <2>1, <2>2
<1> HIDE DEF first, a
<1>8. /\ InLoop(b, m + (n + extra)) /\ b.left = a.left - (n + extra)
      /\ b.valid = a.valid - (n + extra)
  BY <1>1, <1>3, <1>5, <1>7, LoopConsume, ZenonT(40)
<1> HIDE DEF b
<1>9. late \in BOOLEAN
  BY DEF RefillAfterOffset
<1>10. /\ InLoop(c, m + (n + extra))
       /\ late => c.valid >= FASTLOOP_PRELOADABLE_NBITS
       /\ ~late => c = b
  BY <1>1, <1>3, <1>8, <1>9, LoopRefillIf
<1>11. b.left \in Nat /\ b.valid \in Nat /\ c.valid \in Nat
  BY <1>1, <1>8, <1>10, LoopTypes
<1>12. late \/ b.valid >= 11
  <2>1. n + extra <= 21
    BY DEF MostOffsetAt
  <2>2. b.valid >= b.left + PRELOAD_SLACK
    BY <1>8 DEF InLoop, Ahead
  <2>3. CASE WideOffset
    BY <1>1, <1>3, <1>6, <1>7, <1>8, <1>11, <2>2, <2>3, MachineBounds
  <2>4. CASE ~WideOffset /\ FASTLOOP_PRELOADABLE_NBITS >= 32
    BY <1>1, <1>3, <1>6, <1>7, <1>8, <1>11, <2>1, <2>4, MachineBounds
  <2>5. CASE ~WideOffset /\ ~(FASTLOOP_PRELOADABLE_NBITS >= 32)
    <3>1. PRELOAD_SLACK = 0 /\ b.valid >= b.left
      BY <1>1, <1>11, <2>2, <2>5, MachineBounds
    <3>2. late \/ b.left >= 11
      BY <1>1, <1>11, <2>5, <3>1, MachineBounds
         DEF RefillAfterOffset, CAN_CONSUME_AND_THEN_PRELOAD, AtLeast
    <3> HIDE DEF late
    <3> QED BY <1>11, <3>1, <3>2
  <2> QED BY <2>3, <2>4, <2>5
<1> HIDE DEF late, c
<1>13. 11 <= c.valid
  <2>1. CASE late
    BY <1>1, <1>10, <1>11, <2>1, MachineBounds
  <2>2. CASE ~late
    BY <1>10, <1>12, <2>2
  <2> QED BY <2>1, <2>2
<1>14. e = c
  BY <1>1, <1>3, <1>10, <1>13, LoopPreload
<1> HIDE DEF e
<1>15. /\ InLoop(d, m + (n + extra)) /\ d.left >= CONSUMABLE_NBITS
       /\ d.valid >= FASTLOOP_PRELOADABLE_NBITS
  BY <1>1, <1>3, <1>10, <1>14, LoopRefill DEF InLoop
<1> HIDE DEF d
(* Nothing was read or written beyond the distances that the loop compares. *)
<1>16. strayed' = FALSE
  <2>1. (d.touched > FASTLOOP_MAX_BYTES_READ) = FALSE
    BY <1>1, <1>15, Reach DEF InLoop, Reading
  <2>2. CopyEnd(len, offset) \in Nat /\ CopyEnd(len, offset) <= len + 5 * WordBytes - 1
    BY <1>1, CopyMargin
  <2>3. FASTLOOP_MAX_BYTES_WRITTEN = 259 + 5 * WordBytes
    BY <1>1, MachineTable
  <2>4. (written + CopyEnd(len, offset) > FASTLOOP_MAX_BYTES_WRITTEN) = FALSE
    BY <1>1, <2>2, <2>3, MachineBounds
  <2>5. strayed = FALSE
    BY DEF RInv
  <2> QED BY <1>2, <2>1, <2>4, <2>5, Zenon
<1>17. In(d, "again")
  <2>1. (d.touched > FASTLOOP_MAX_BYTES_READ) = FALSE
    BY <1>1, <1>15, Reach DEF InLoop, Reading
  <2>2. strayed = FALSE
    BY DEF RInv
  <2> QED BY <1>2, <1>16, <2>1, <2>2, Zenon DEF In
<1>18. /\ Held' /\ pc' = "again" /\ bitsleft' = d.left /\ valid' >= d.left + PRELOAD_SLACK
  BY <1>3, <1>15, <1>17, LoopIn
<1>19. SinceRefill(0)'
  BY <1>1, <1>3, <1>15, <1>17, AfterSince, MachineBounds
<1>20. valid' >= bitsleft' + PRELOAD_SLACK' /\ written' \in Nat
  BY <1>1, <1>18, SameMachine
<1> QED BY <1>18, <1>19, <1>20 DEF Held, RInv, Counts, LoopInv, OutsideInv

-----------------------------------------------------------------------------
LEMMA ReaderInit == RInit => RInv
<1> SUFFICES ASSUME RInit PROVE RInv
  OBVIOUS
<1>1. AnyMachine /\ pc = "block" /\ starved = FALSE /\ strayed = FALSE
  BY DEF RInit
<1>2. Counts
  BY <1>1, MachineBounds DEF RInit, Counts
<1> QED BY <1>1, <1>2 DEF RInit, RInv, LoopInv, OutsideInv

LEMMA Matches ==
  ASSUME NEW len \in Lens, NEW offset \in CopyOffsets
  PROVE  len \in 3..258 /\ offset \in Nat /\ offset > 0
<1>1. len \in MIN_MATCH_LEN..MAX_MATCH_LEN /\ offset \in 1..MAX_MATCH_OFFSET
  BY ReaderAssumption DEF ReaderAssumption
<1> QED BY <1>1, SMTT(40) DEF MIN_MATCH_LEN, MAX_MATCH_LEN, MAX_MATCH_OFFSET

LEMMA ReaderNext == RInv /\ [RNext]_<<machine, rvars>> => RInv'
<1> SUFFICES ASSUME RInv, [RNext]_<<machine, rvars>>
             PROVE  RInv'
  OBVIOUS
<1>1. CASE UNCHANGED <<machine, rvars>>
  <2>1. /\ UNCHANGED machine /\ pc' = pc /\ bitsleft' = bitsleft /\ valid' = valid
        /\ advanced' = advanced /\ written' = written
        /\ starved' = starved /\ strayed' = strayed
    BY <1>1 DEF rvars
  <2>2. AnyMachine' /\ Counts' /\ starved' = FALSE /\ strayed' = FALSE
    BY <2>1, SameMachine DEF RInv, Counts
  <2>3. LoopInv' /\ OutsideInv'
    BY <2>1, SameMachine DEF RInv, LoopInv, OutsideInv, Iteration, SinceRefill
  <2> QED BY <2>2, <2>3 DEF RInv
<1>2. CASE RNext
  <2> USE <1>2
  <2>0. UNCHANGED machine
    BY DEF RNext
  <2>1. ASSUME NEW type, ReadBlockHeader(type) PROVE RInv'
    BY <2>0, <2>1, ReadBlockHeaderKeeps
  <2>2. ASSUME NEW explicit \in {4, NUM_PRECODE_SYMS}, ReadPrecodeLens(explicit) PROVE RInv'
    BY <2>0, <2>2, ReadPrecodeLensKeeps
  <2>3. ASSUME NEW n \in {1, MAX_PRE_CODEWORD_LEN + 7}, NEW last \in BOOLEAN, LenItem(n, last)
        PROVE  RInv'
    BY <2>0, <2>3, LenItemKeeps
  <2>4. ASSUME NEW n \in {1, DEFLATE_MAX_LITLEN_CODEWORD_LEN, LENGTH_MAXBITS},
               NEW to \in {"huffman", "block", "generic_offset"}, GenericSymbol(n, to)
        PROVE  RInv'
    BY <2>0, <2>4, GenericSymbolKeeps
  <2>5. ASSUME NEW n \in {1, OFFSET_TABLEBITS, DEFLATE_MAX_OFFSET_CODEWORD_LEN},
               NEW x \in {0, MAX_EXTRA_OFFSET_BITS}, GenericOffset(n, x)
        PROVE  RInv'
    BY <2>0, <2>5, GenericOffsetKeeps
  <2>6. CASE Enter
    BY <2>0, <2>6, EnterKeeps
  <2>7. ASSUME NEW to \in {"primary", "huffman"}, Again(to) PROVE RInv'
    BY <2>0, <2>7, AgainKeeps
  <2>8. ASSUME NEW n \in {1, 6, LITLEN_TABLEBITS}, FastLiteral(n) PROVE RInv'
    BY <2>0, <2>8, FastLiteralKeeps
  <2>9. ASSUME NEW k \in {1, 4}, LitlenSubtable(k) PROVE RInv'
    BY <2>0, <2>9, LitlenSubtableKeeps
  <2>10. ASSUME NEW n \in {1, 4}, SlowLiteral(n) PROVE RInv'
    BY <2>0, <2>10, SlowLiteralKeeps
  <2> DEFINE litlen == MostBits(LITLEN_TABLEBITS, DEFLATE_MAX_LITLEN_CODEWORD_LEN, "subtable")
  <2>11. litlen = MostAt /\ 1 \in 1..MostAt /\ MostAt \in 1..MostAt
    BY DEF MostBits, MostAt
  <2>12. ASSUME NEW n \in {1, litlen}, FastEndOfBlock(n) PROVE RInv'
    BY <2>0, <2>11, <2>12, FastEndOfBlockKeeps
  <2>13. ASSUME NEW n \in {1, litlen}, NEW x \in {0, MAX_EXTRA_LENGTH_BITS}, Length(n, x)
         PROVE  RInv'
    <3>1. n \in 1..MostAt /\ x \in 0..5
      BY <2>11
    <3> QED BY <2>0, <2>13, <3>1, LengthKeeps
  <2>14. ASSUME NEW k \in {1, 7}, OffsetSubtable(k) PROVE RInv'
    BY <2>0, <2>14, OffsetSubtableKeeps
  <2> DEFINE off == MostBits(OFFSET_TABLEBITS, DEFLATE_MAX_OFFSET_CODEWORD_LEN, "offset2")
  <2>15. off = MostOffsetAt /\ 1 \in 1..MostOffsetAt /\ MostOffsetAt \in 1..MostOffsetAt
    BY DEF MostBits, MostOffsetAt
  <2>16. ASSUME NEW n \in {1, off}, NEW x \in {0, MAX_EXTRA_OFFSET_BITS}, NEW len \in Lens,
                NEW offset \in CopyOffsets, Offset(n, x, len, offset)
         PROVE  RInv'
    <3>1. n \in 1..MostOffsetAt /\ x \in 0..13
      BY <2>15
    <3>2. len \in 3..258 /\ offset \in Nat /\ offset > 0
      BY Matches
    <3> QED BY <2>0, <2>16, <3>1, <3>2, OffsetKeeps
  <2> HIDE DEF litlen, off
  <2> QED BY <2>1, <2>2, <2>3, <2>4, <2>5, <2>6, <2>7, <2>8, <2>9, <2>10, <2>12, <2>13,
             <2>14, <2>16 DEF RNext, litlen, off
<1> QED BY <1>1, <1>2

(* The invariant holds in every reachable state, for every set of match       *)
(* lengths and offsets that the format has.                                   *)
THEOREM ReaderInvariance == RSpec => []RInv
BY ReaderInit, ReaderNext, PTL DEF RSpec

-----------------------------------------------------------------------------
(* The compressor: for every output buffer, every cost of a block and both   *)
(* word sizes no bit is lost and nothing is stored behind the buffer.        *)
USE WriterAssumption
USE DEF BITBUF_NBITS, CAN_BUFFER, WordBytes, FastAccess, Machines, AnyMachine,
        MAX_LITLEN_CODEWORD_LEN, MAX_OFFSET_CODEWORD_LEN, MAX_PRE_CODEWORD_LEN,
        MAX_EXTRA_LENGTH_BITS, MAX_EXTRA_OFFSET_BITS, NUM_PRECODE_SYMS

(* What a flush leaves is part of a byte, and what is still to be written of *)
(* the block fits behind it: only the start of a block looks at the end of   *)
(* the buffer, so this has to survive every group of bits.                   *)
CountsInv ==
  /\ bitcount \in 0..7 /\ left \in Nat /\ next \in 0..Space
  /\ 8 * (Space - next) >= bitcount + left

(* Whole words are stored only where one still fits. *)
FastEndInv ==
  /\ fast_end \in Int
  /\ fast_end <= next \/ fast_end = Space - (WordBytes - 1)

WInv == AnyMachine /\ CountsInv /\ FastEndInv /\ ~lost /\ ~overran

-----------------------------------------------------------------------------
(* How a count splits into the bytes that a flush stores and the bits left. *)
LEMMA FlushedBytes ==
  ASSUME NEW count \in Nat, NEW room \in Nat, 8 * room >= count
  PROVE  /\ count \div 8 \in Nat
         /\ count % 8 \in 0..7
         /\ count = 8 * (count \div 8) + (count % 8)
         /\ count \div 8 <= room
OBVIOUS

LEMMA RoundedUp ==
  ASSUME NEW bits \in Nat, NEW room \in Nat, (bits + 7) \div 8 <= room
  PROVE  8 * room >= bits
OBVIOUS

(* A group of at most as many bits as the buffer holds behind 7 others. *)
LEMMA PutKeeps ==
  ASSUME WInv, NEW n \in Nat, CAN_BUFFER(n), Put(n), UNCHANGED machine
  PROVE  WInv'
<1> DEFINE count == bitcount + n
           end   == IF FastAccess /\ next < fast_end THEN next + WordBytes
                    ELSE next + (count \div 8)
<1>1. /\ count \in Nat /\ Space - next \in Nat
      /\ n <= left /\ 8 * (Space - next) >= count
  BY DEF WInv, CountsInv, Put
<1>2. /\ count \div 8 \in Nat /\ count % 8 \in 0..7
      /\ count = 8 * (count \div 8) + (count % 8)
      /\ count \div 8 <= Space - next
  BY <1>1, FlushedBytes
<1>3. /\ next' = next + (count \div 8)
      /\ bitcount' = count % 8
      /\ left' = left - n
      /\ fast_end' = fast_end
      /\ lost' = (lost \/ count > BITBUF_NBITS)
      /\ overran' = (overran \/ end > Space)
  BY DEF Put
<1>4. AnyMachine' /\ WordBytes' = WordBytes
  BY DEF WInv
<1>5. CountsInv'
  <2> HIDE DEF count
  <2> QED BY <1>1, <1>2, <1>3, count = bitcount + n DEF WInv, CountsInv, count
<1>6. FastEndInv'
  BY <1>2, <1>3, <1>4 DEF WInv, CountsInv, FastEndInv
<1>7. ~lost'
  <2>1. ~(count > BITBUF_NBITS)
    BY <1>1 DEF WInv, CountsInv
  <2>2. ~lost
    BY DEF WInv
  <2> QED BY <1>3, <2>1, <2>2, Zenon
<1>8. end <= Space
  <2>1. CASE FastAccess /\ next < fast_end
    BY <2>1 DEF WInv, CountsInv, FastEndInv
  <2>2. CASE ~(FastAccess /\ next < fast_end)
    BY <2>2, <1>2 DEF WInv, CountsInv
  <2> QED BY <2>1, <2>2
<1>9. ~overran'
  <2>1. end \in Int
    BY <1>1, <1>2 DEF WInv, CountsInv
  <2> HIDE DEF end
  <2>2. ~(end > Space)
    BY <1>8, <2>1
  <2>3. ~overran
    BY DEF WInv
  <2> QED BY <1>3, <2>2, <2>3, Zenon
<1> QED BY <1>4, <1>5, <1>6, <1>7, <1>9 DEF WInv

-----------------------------------------------------------------------------
LEMMA WriterInit == WInit => WInv
BY DEF WInit, WInv, CountsInv, FastEndInv

LEMMA StartBlockKeeps ==
  ASSUME WInv, NEW cost \in Costs, StartBlock(cost), UNCHANGED machine
  PROVE  WInv'
<1> cost \in Nat
  OBVIOUS
<1>1. CASE FitsInRoom(bitcount, cost, Space - next)
  <2>1. bitcount + cost \in Nat /\ Space - next \in Nat
    BY DEF WInv, CountsInv
  <2>2. 8 * (Space - next) >= bitcount + cost
    BY <1>1, <2>1, RoundedUp DEF FitsInRoom
  <2>3. left' = cost /\ fast_end' = FastEnd(next)
    BY <1>1 DEF StartBlock
  <2>4. FastEnd(next) \in Int
        /\ (FastEnd(next) <= next \/ FastEnd(next) = Space - (WordBytes - 1))
    BY DEF FastEnd, WInv, CountsInv
  <2> QED BY <2>2, <2>3, <2>4 DEF StartBlock, WInv, CountsInv, FastEndInv
<1>2. CASE ~FitsInRoom(bitcount, cost, Space - next)
  BY <1>2 DEF StartBlock, WInv, CountsInv, FastEndInv
<1> QED BY <1>1, <1>2

LEMMA StoredBlockKeeps ==
  ASSUME WInv, NEW len \in 0..Space, StoredBlock(len), UNCHANGED machine
  PROVE  WInv'
<1> DEFINE head == (bitcount + 3 + 7) \div 8
           to   == next + head + 4 + len
<1>1. head \in Nat /\ 8 * head >= bitcount + 3
  BY DEF WInv, CountsInv
<1>2. /\ 8 * (to - next) - bitcount <= left
      /\ left' = left - (8 * (to - next) - bitcount)
      /\ next' = to /\ overran' = (overran \/ to > Space)
      /\ bitcount' = 0 /\ lost' = lost /\ fast_end' = fast_end
  BY DEF StoredBlock
<1> HIDE DEF head
<1>3. to \in 0..Space /\ next <= to
  BY <1>1, <1>2 DEF WInv, CountsInv
<1>4. CountsInv'
  BY <1>1, <1>2, <1>3 DEF WInv, CountsInv
<1>5. FastEndInv' /\ AnyMachine'
  <2> HIDE DEF to
  <2> QED BY <1>2, <1>3 DEF WInv, CountsInv, FastEndInv
<1>6. ~lost' /\ ~overran'
  <2>1. ~(to > Space) /\ ~lost /\ ~overran
    BY <1>3 DEF WInv
  <2> HIDE DEF to
  <2> QED BY <1>2, <2>1, Zenon
<1> QED BY <1>4, <1>5, <1>6 DEF WInv

LEMMA FinalByteKeeps ==
  ASSUME WInv, FinalByte, UNCHANGED machine
  PROVE  WInv'
<1>1. CountsInv' /\ FastEndInv' /\ AnyMachine'
  BY DEF FinalByte, WInv, CountsInv, FastEndInv
<1>2. ~(next + 1 > Space)
  BY DEF FinalByte, WInv, CountsInv
<1>3. ~lost /\ ~overran /\ lost' = lost /\ overran' = (overran \/ next + 1 > Space)
  BY DEF FinalByte, WInv
<1>4. ~lost' /\ ~overran'
  BY <1>2, <1>3, Zenon
<1> QED BY <1>1, <1>4 DEF WInv

-----------------------------------------------------------------------------
(* Every group that the writer puts together between two flushes fits the   *)
(* buffer on a word of 4 and of 8 bytes.                                    *)
LEMMA GroupsFit ==
  ASSUME WInv
  PROVE  /\ \A dynamic \in BOOLEAN : BlockHeader(dynamic) =>
              \E n \in Nat : CAN_BUFFER(n) /\ Put(n)
         /\ \A explicit \in 4..NUM_PRECODE_SYMS : PrecodeLens(explicit) =>
              \E n \in Nat : CAN_BUFFER(n) /\ Put(n)
         /\ PrecodeItem \/ EndOfBlock \/ Literals => \E n \in Nat : CAN_BUFFER(n) /\ Put(n)
         /\ LengthBits \/ OffsetBits \/ ExtraOffsetBits =>
              \E n \in Nat : CAN_BUFFER(n) /\ Put(n)
<1> WordBytes \in {4, 8}
  BY DEF WInv
<1>1. ASSUME NEW dynamic \in BOOLEAN, BlockHeader(dynamic)
      PROVE  \E n \in Nat : CAN_BUFFER(n) /\ Put(n)
  <2> DEFINE n == 3 + (IF dynamic THEN 5 + 5 + 4 + (IF MergeFirstLen THEN 3 ELSE 0) ELSE 0)
  <2>1. n \in Nat /\ n <= 20
    OBVIOUS
  <2>2. Put(n)
    BY <1>1 DEF BlockHeader
  <2>3. CAN_BUFFER(n)
    <3> HIDE DEF n
    <3> QED BY <2>1
  <2> QED BY <2>1, <2>2, <2>3
<1>2. ASSUME NEW explicit \in 4..NUM_PRECODE_SYMS, PrecodeLens(explicit)
      PROVE  \E n \in Nat : CAN_BUFFER(n) /\ Put(n)
  <2>1. CASE MergeFirstLen
    <3>1. Put(3 * (explicit - 1)) /\ 3 * (explicit - 1) \in Nat
      BY <1>2, <2>1 DEF PrecodeLens
    <3>2. CAN_BUFFER(3 * (explicit - 1))
      BY <2>1 DEF MergeFirstLen
    <3> QED BY <3>1, <3>2
  <2>2. CASE ~MergeFirstLen
    <3>1. Put(3)
      BY <1>2, <2>2 DEF PrecodeLens
    <3> QED BY <3>1
  <2> QED BY <2>1, <2>2
<1>3. ASSUME PrecodeItem \/ EndOfBlock
      PROVE  \E n \in Nat : CAN_BUFFER(n) /\ Put(n)
  BY <1>3 DEF PrecodeItem, EndOfBlock
<1>4. ASSUME Literals
      PROVE  \E n \in Nat : CAN_BUFFER(n) /\ Put(n)
  <2>1. CASE CAN_BUFFER(4 * MAX_LITLEN_CODEWORD_LEN)
    BY <1>4, <2>1 DEF Literals, LiteralRun
  <2>2. CASE ~CAN_BUFFER(4 * MAX_LITLEN_CODEWORD_LEN)
    BY <1>4, <2>2 DEF Literals, LiteralRun
  <2> QED BY <2>1, <2>2
<1>5. ASSUME LengthBits
      PROVE  \E n \in Nat : CAN_BUFFER(n) /\ Put(n)
  <2>1. CASE MatchInOne
    BY <1>5, <2>1 DEF LengthBits, MatchInOne
  <2>2. CASE ~MatchInOne
    BY <1>5, <2>2 DEF LengthBits
  <2> QED BY <2>1, <2>2
<1>6. ASSUME OffsetBits
      PROVE  \E n \in Nat : CAN_BUFFER(n) /\ Put(n)
  <2>1. CASE OffsetInOne
    BY <1>6, <2>1 DEF OffsetBits, OffsetInOne
  <2>2. CASE ~OffsetInOne
    BY <1>6, <2>2 DEF OffsetBits
  <2> QED BY <2>1, <2>2
<1>7. ASSUME ExtraOffsetBits
      PROVE  \E n \in Nat : CAN_BUFFER(n) /\ Put(n)
  BY <1>7 DEF ExtraOffsetBits
<1> QED BY <1>1, <1>2, <1>3, <1>4, <1>5, <1>6, <1>7

LEMMA WriterNext == WInv /\ [WNext]_<<machine, wvars>> => WInv'
<1> SUFFICES ASSUME WInv, [WNext]_<<machine, wvars>>
             PROVE  WInv'
  OBVIOUS
<1>1. CASE UNCHANGED <<machine, wvars>>
  BY <1>1 DEF wvars, WInv, CountsInv, FastEndInv
<1>2. ASSUME UNCHANGED machine, \E n \in Nat : CAN_BUFFER(n) /\ Put(n)
      PROVE  WInv'
  BY <1>2, PutKeeps
<1>3. ASSUME NEW cost \in Costs, StartBlock(cost), UNCHANGED machine
      PROVE  WInv'
  BY <1>3, StartBlockKeeps
<1>4. ASSUME NEW len \in 0..Space, StoredBlock(len), UNCHANGED machine
      PROVE  WInv'
  BY <1>4, StoredBlockKeeps
<1>5. CASE WNext
  BY <1>2, <1>3, <1>4, <1>5, GroupsFit, FinalByteKeeps DEF WNext
<1> QED BY <1>1, <1>5

(* The invariant holds in every reachable state, for every buffer and cost. *)
THEOREM WriterInvariance == WSpec => []WInv
BY WriterInit, WriterNext, PTL DEF WSpec

-----------------------------------------------------------------------------
(* Neither side disturbs the other, nor does the sending of matches. *)
LEMMA Writes == Spec => WSpec
<1>1. Init => WInit
  BY DEF Init
<1>2. [Next]_<<side, machine, wvars, rvars, mvars>> => [WNext]_<<machine, wvars>>
  BY DEF Next, RNext
<1> QED BY <1>1, <1>2, PTL DEF Spec, WSpec

LEMMA Reads == Spec => RSpec
<1>1. Init => RInit
  BY DEF Init
<1>2. [Next]_<<side, machine, wvars, rvars, mvars>> => [RNext]_<<machine, rvars>>
  BY DEF Next, WNext
<1> QED BY <1>1, <1>2, PTL DEF Spec, RSpec

(* Every ADD_BITS of deflate_compress.c finds room in the bit buffer, with     *)
(* the flushes that are compiled in for either size of a word: from the start *)
(* of a flushed buffer, no group of codewords of maximal length exceeds it.   *)
THEOREM BitsKept == Spec => []NoBitLost
<1>1. WInv => NoBitLost
  BY DEF WInv, NoBitLost
<1> QED BY <1>1, Writes, WriterInvariance, PTL

(* No store of a flush, of a stored block or of the last byte passes the end  *)
(* of the output buffer, whatever its size and whatever the blocks cost,      *)
(* although only the start of a block looks at it.                            *)
THEOREM OutputBounded == Spec => []StoresWithinOutput
<1>1. WInv => StoresWithinOutput
  BY WriterAssumption DEF WInv, CountsInv, StoresWithinOutput
<1> QED BY <1>1, Writes, WriterInvariance, PTL

(* decompress_template.h never consumes a bit that it has not refilled, never *)
(* indexes a table with bits that are not there, and an iteration of its fast *)
(* loop stays within the distances that the loop compares, for every length   *)
(* and offset of a match and on every machine.                                *)
THEOREM MarginsKept == Spec => []ReaderWithinMargins
<1>1. RInv => ReaderWithinMargins
  BY DEF RInv, ReaderWithinMargins
<1> QED BY <1>1, Reads, ReaderInvariance, PTL

-----------------------------------------------------------------------------
(* The third side: a match that is sent.                                     *)

(* A number between the ends of the totals lies in one of their steps.       *)
LEMMA StepFound ==
  ASSUME NEW n \in Nat, NEW upto \in [0..n -> Int], NEW x \in Int, upto[0] <= x, x < upto[n]
  PROVE  \E s \in 0..(n - 1) : upto[s] <= x /\ x < upto[s + 1]
<1> SUFFICES ASSUME \A s \in 0..(n - 1) : upto[s] <= x => upto[s + 1] <= x PROVE FALSE
  <2>1. ASSUME NEW s \in 0..(n - 1) PROVE upto[s + 1] \in Int
    <3>1. s + 1 \in 0..n
      OBVIOUS
    <3> QED BY <3>1
  <2> QED BY <2>1
<1> DEFINE S == {k \in 0..n : upto[k] <= x}
<1>1. 0 \in S
  OBVIOUS
<1>2. \A k \in 0..(n - 1) : k \in S => k + 1 \in S
  OBVIOUS
<1>3. \A k \in 0..n : k \in S
  <2> HIDE DEF S
  <2> QED BY <1>1, <1>2, UpTo
<1>4. n \in 0..n
  OBVIOUS
<1>5. upto[n] <= x /\ upto[n] \in Int
  BY <1>3, <1>4
<1> QED BY <1>5

LEMMA SlotOf ==
  ASSUME NEW n \in Nat, NEW runs, Len(runs) = n, NEW upto \in [0..n -> Int],
         upto[0] = 0, \A k \in 1..n : runs[k] \in Nat /\ upto[k] = upto[k - 1] + runs[k],
         NEW x \in Int, NEW s \in 0..(n - 1), upto[s] <= x, x < upto[s + 1]
  PROVE  SlotAt(runs, x) = s
<1> DEFINE Rec(g) == [k \in 0..Len(runs) |-> IF k = 0 THEN 0 ELSE g[k - 1] + runs[k]]
<1> DEFINE t == CHOOSE g : g = Rec(g)
<1>1. upto = Rec(upto)
  <2>1. ASSUME NEW k \in 0..n PROVE upto[k] = Rec(upto)[k]
    <3>1. CASE k = 0
      BY <3>1
    <3>2. CASE k # 0
      <4>1. k \in 1..n
        BY <3>2
      <4> QED BY <3>2, <4>1
    <3> QED BY <3>1, <3>2
  <2>2. Rec(upto) = [k \in 0..n |-> Rec(upto)[k]]
    OBVIOUS
  <2> HIDE DEF Rec
  <2> QED BY <2>1, <2>2
<1>2. t = Rec(t)
  <2> HIDE DEF Rec
  <2> QED BY <1>1
<1>3. SlotAt(runs, x) = CHOOSE i \in 0..(n - 1) : t[i] <= x /\ x < t[i + 1]
  BY DEF SlotAt
<1> HIDE DEF t
<1>4. t[0] = 0
  BY <1>2
<1>5. ASSUME NEW k \in 1..n PROVE t[k] = t[k - 1] + runs[k]
  <2>1. k \in 0..n /\ k # 0
    OBVIOUS
  <2>2. t[k] = Rec(t)[k]
    <3> HIDE DEF Rec
    <3> QED BY <1>2
  <2>3. Rec(t)[k] = t[k - 1] + runs[k]
    BY <2>1
  <2> QED BY <2>2, <2>3
<1> DEFINE S == {k \in 0..n : t[k] = upto[k]}
<1>6. \A k \in 0..n : k \in S
  <2>1. 0 \in S
    BY <1>4
  <2>2. \A k \in 0..(n - 1) : k \in S => k + 1 \in S
    <3> SUFFICES ASSUME NEW k \in 0..(n - 1), k \in S PROVE k + 1 \in S
      OBVIOUS
    <3>1. PICK j \in 1..n : j = k + 1 /\ j - 1 = k
      OBVIOUS
    <3>2. t[k] = upto[k]
      OBVIOUS
    <3>3. t[j] = t[j - 1] + runs[j] /\ upto[j] = upto[j - 1] + runs[j]
      BY <1>5
    <3>4. t[j - 1] = upto[j - 1]
      BY <3>1, <3>2, Zenon
    <3>5. t[j] = upto[j]
      BY <3>3, <3>4, Zenon
    <3>6. j \in 0..n
      OBVIOUS
    <3> QED BY <3>1, <3>5, <3>6
  <2> HIDE DEF S
  <2> QED BY <2>1, <2>2, UpTo
<1>7. \A i, j \in 0..n : i <= j => upto[i] <= upto[j]
  <2>1. ASSUME NEW k \in 1..n PROVE upto[k - 1] <= upto[k]
    <3>1. k - 1 \in 0..n /\ upto[k - 1] \in Int
      OBVIOUS
    <3> QED BY <3>1
  <2> QED BY <2>1, Increasing
<1>8. ASSUME NEW i \in 0..(n - 1), t[i] <= x, x < t[i + 1] PROVE i = s
  <2>1. /\ i \in 0..n /\ i + 1 \in 0..n /\ s \in 0..n /\ s + 1 \in 0..n
    OBVIOUS
  <2>2. upto[i] <= x /\ x < upto[i + 1]
    BY <1>6, <1>8, <2>1
  <2>3. upto[i] \in Int /\ upto[i + 1] \in Int /\ upto[s] \in Int /\ upto[s + 1] \in Int
    BY <2>1
  <2>4. ~(i + 1 <= s)
    <3>1. i + 1 <= s => upto[i + 1] <= upto[s]
      BY <1>7, <2>1
    <3> QED BY <2>2, <2>3, <3>1, SMTT(40)
  <2>5. ~(s + 1 <= i)
    <3>1. s + 1 <= i => upto[s + 1] <= upto[i]
      BY <1>7, <2>1
    <3> QED BY <2>2, <2>3, <3>1, SMTT(40)
  <2> QED BY <2>4, <2>5
<1>9. t[s] <= x /\ x < t[s + 1]
  <2>1. s \in 0..n /\ s + 1 \in 0..n
    OBVIOUS
  <2> QED BY <1>6, <2>1
<1> QED BY <1>3, <1>8, <1>9

LengthUpto == [s \in 0..29 |-> IF s = 0 THEN 0 ELSE IF s = 29 THEN 259 ELSE length_slot_base[s + 1]]

LEMMA LengthTable ==
  /\ Len(length_slot_runs) = 29 /\ LengthUpto \in [0..29 -> Int]
  /\ LengthUpto[0] = 0 /\ LengthUpto[29] = 259
  /\ \A k \in 1..29 : /\ length_slot_runs[k] \in Nat
                      /\ LengthUpto[k] = LengthUpto[k - 1] + length_slot_runs[k]
<1>1. \A k \in 1..29 : length_slot_base[k] \in Nat /\ length_slot_runs[k] \in Nat
  BY DEF length_slot_base, length_slot_runs
<1>2. Len(length_slot_runs) = 29
  BY DEF length_slot_runs
<1>3. LengthUpto \in [0..29 -> Int]
  <2>1. ASSUME NEW s \in 0..29
        PROVE  (IF s = 0 THEN 0 ELSE IF s = 29 THEN 259 ELSE length_slot_base[s + 1]) \in Int
    <3>1. s # 0 /\ s # 29 => s + 1 \in 1..29
      OBVIOUS
    <3> QED BY <1>1, <3>1
  <2> QED BY <2>1 DEF LengthUpto
<1>4. LengthUpto[0] = 0 /\ LengthUpto[29] = 259
  BY DEF LengthUpto
<1>5. LengthUpto[1] = 0 + length_slot_runs[1] /\ 259 = LengthUpto[28] + length_slot_runs[29]
  BY DEF LengthUpto, length_slot_base, length_slot_runs
<1>6. \A k \in 2..28 : length_slot_base[k + 1] = length_slot_base[k] + length_slot_runs[k]
  BY DEF length_slot_base, length_slot_runs
<1>7. ASSUME NEW k \in 2..28 PROVE LengthUpto[k] = LengthUpto[k - 1] + length_slot_runs[k]
  <2>1. /\ k \in 0..29 /\ k # 0 /\ k # 29 /\ k - 1 \in 0..29 /\ k - 1 # 0 /\ k - 1 # 29
        /\ k - 1 + 1 = k
    OBVIOUS
  <2>2. LengthUpto[k] = length_slot_base[k + 1] /\ LengthUpto[k - 1] = length_slot_base[k]
    BY <2>1 DEF LengthUpto
  <2> QED BY <1>6, <2>2
<1>8. ASSUME NEW k \in 1..29 PROVE LengthUpto[k] = LengthUpto[k - 1] + length_slot_runs[k]
  <2>1. CASE k = 1
    BY <1>4, <1>5, <2>1
  <2>2. CASE k = 29
    BY <1>4, <1>5, <2>2
  <2>3. CASE k # 1 /\ k # 29
    <3>1. k \in 2..28
      BY <2>3
    <3> QED BY <1>7, <3>1
  <2> QED BY <2>1, <2>2, <2>3
<1> QED BY <1>1, <1>2, <1>3, <1>4, <1>8

LEMMA PowerZero == 2^0 = 1
BY SMT

LEMMA Powers ==
  /\ 2^0 = 1 /\ 2^1 = 2 /\ 2^2 = 4 /\ 2^3 = 8 /\ 2^4 = 16 /\ 2^5 = 32 /\ 2^6 = 64
  /\ 2^7 = 128 /\ 2^8 = 256 /\ 2^9 = 512 /\ 2^10 = 1024 /\ 2^11 = 2048 /\ 2^12 = 4096
  /\ 2^13 = 8192
BY SMT

PowerTable == <<1, 2, 4, 8, 16, 32, 64, 128, 256, 512, 1024, 2048, 4096, 8192>>

LEMMA PowerOf == ASSUME NEW e \in 0..13 PROVE 2^e = PowerTable[e + 1]
<1>1. \/ e = 0 \/ e = 1 \/ e = 2 \/ e = 3 \/ e = 4 \/ e = 5 \/ e = 6 \/ e = 7 \/ e = 8
      \/ e = 9 \/ e = 10 \/ e = 11 \/ e = 12 \/ e = 13
  OBVIOUS
<1>2. /\ 2^0 = PowerTable[0 + 1] /\ 2^1 = PowerTable[1 + 1] /\ 2^2 = PowerTable[2 + 1]
      /\ 2^3 = PowerTable[3 + 1] /\ 2^4 = PowerTable[4 + 1] /\ 2^5 = PowerTable[5 + 1]
      /\ 2^6 = PowerTable[6 + 1] /\ 2^7 = PowerTable[7 + 1] /\ 2^8 = PowerTable[8 + 1]
      /\ 2^9 = PowerTable[9 + 1] /\ 2^10 = PowerTable[10 + 1] /\ 2^11 = PowerTable[11 + 1]
      /\ 2^12 = PowerTable[12 + 1] /\ 2^13 = PowerTable[13 + 1]
  BY Powers DEF PowerTable
<1> QED BY <1>1, <1>2, Zenon

LEMMA LengthExtra ==
  ASSUME NEW s \in 0..28
  PROVE  LengthUpto[s + 1] - length_slot_base[s + 1] <= 2^extra_length_bits[s + 1]
<1>1. \A k \in 1..29 : extra_length_bits[k] \in 0..5
  BY DEF extra_length_bits
<1>2. \A k \in 2..28 :
         length_slot_base[k + 1] - length_slot_base[k] <= PowerTable[extra_length_bits[k] + 1]
  BY DEF length_slot_base, extra_length_bits, PowerTable
<1>3. PICK k \in 1..29 : s + 1 = k
  OBVIOUS
<1>4. CASE k \in 2..28
  <2>1. LengthUpto[k] = length_slot_base[k + 1]
    BY <1>4 DEF LengthUpto
  <2>2. 2^extra_length_bits[k] = PowerTable[extra_length_bits[k] + 1]
    <3>1. extra_length_bits[k] \in 0..13
      BY <1>1
    <3> QED BY <3>1, PowerOf
  <2>3. length_slot_base[k + 1] - length_slot_base[k] <= PowerTable[extra_length_bits[k] + 1]
    BY <1>2, <1>4
  <2>4. s + 1 = k
    BY <1>3
  <2> QED BY <2>1, <2>2, <2>3, <2>4
<1>5. CASE k = 1
  <2>1. LengthUpto[1] = 4 /\ length_slot_base[1] = 3 /\ extra_length_bits[1] = 0
    BY DEF LengthUpto, length_slot_base, extra_length_bits
  <2>2. 2^extra_length_bits[1] = 1
    BY <2>1, PowerZero, Zenon
  <2>3. LengthUpto[1] - length_slot_base[1] <= 2^extra_length_bits[1]
    BY <2>1, <2>2
  <2> QED BY <1>3, <1>5, <2>3, Zenon
<1>6. CASE k = 29
  <2>1. LengthUpto[29] = 259 /\ length_slot_base[29] = 258 /\ extra_length_bits[29] = 0
    BY DEF LengthUpto, length_slot_base, extra_length_bits
  <2>2. 2^extra_length_bits[29] = 1
    BY <2>1, PowerZero, Zenon
  <2>3. LengthUpto[29] - length_slot_base[29] <= 2^extra_length_bits[29]
    BY <2>1, <2>2
  <2> QED BY <1>3, <1>6, <2>3, Zenon
<1> QED BY <1>4, <1>5, <1>6
OffsetUpto == [s \in 0..16 |-> IF s = 16 THEN 256 ELSE offset_slot_base[s + 1] - 1]

LEMMA OffsetTable ==
  /\ Len(offset_slot_runs) = 16 /\ OffsetUpto \in [0..16 -> Int]
  /\ OffsetUpto[0] = 0 /\ OffsetUpto[16] = 256 /\ OffsetUpto[2] = 2
  /\ \A k \in 1..16 : /\ offset_slot_runs[k] \in Nat
                      /\ OffsetUpto[k] = OffsetUpto[k - 1] + offset_slot_runs[k]
<1>1. \A k \in 1..16 : offset_slot_base[k] \in Nat /\ offset_slot_runs[k] \in Nat
  BY DEF offset_slot_base, offset_slot_runs
<1>2. Len(offset_slot_runs) = 16
  BY DEF offset_slot_runs
<1>3. OffsetUpto \in [0..16 -> Int]
  <2>1. ASSUME NEW s \in 0..16
        PROVE  (IF s = 16 THEN 256 ELSE offset_slot_base[s + 1] - 1) \in Int
    <3>1. s # 16 => s + 1 \in 1..16
      OBVIOUS
    <3> QED BY <1>1, <3>1
  <2> QED BY <2>1 DEF OffsetUpto
<1>4. OffsetUpto[0] = 0 /\ OffsetUpto[16] = 256 /\ OffsetUpto[2] = 2
  BY DEF OffsetUpto, offset_slot_base
<1>5. 256 = OffsetUpto[15] + offset_slot_runs[16]
  BY DEF OffsetUpto, offset_slot_base, offset_slot_runs
<1>6. \A k \in 1..15 : offset_slot_base[k + 1] = offset_slot_base[k] + offset_slot_runs[k]
  BY DEF offset_slot_base, offset_slot_runs
<1>7. ASSUME NEW k \in 1..15 PROVE OffsetUpto[k] = OffsetUpto[k - 1] + offset_slot_runs[k]
  <2>1. k \in 0..16 /\ k # 16 /\ k - 1 \in 0..16 /\ k - 1 # 16 /\ k - 1 + 1 = k /\ k \in 1..16
    OBVIOUS
  <2>2. OffsetUpto[k] = offset_slot_base[k + 1] - 1 /\ OffsetUpto[k - 1] = offset_slot_base[k] - 1
    BY <2>1 DEF OffsetUpto
  <2> QED BY <1>1, <1>6, <2>1, <2>2
<1>8. ASSUME NEW k \in 1..16 PROVE OffsetUpto[k] = OffsetUpto[k - 1] + offset_slot_runs[k]
  <2>1. CASE k = 16
    BY <1>4, <1>5, <2>1
  <2>2. CASE k # 16
    <3>1. k \in 1..15
      BY <2>2
    <3> QED BY <1>7, <3>1
  <2> QED BY <2>1, <2>2
<1> QED BY <1>1, <1>2, <1>3, <1>4, <1>8

(* Each slot of offsets starts where the one before it ends. *)
LEMMA OffsetSteps ==
  /\ \A k \in 1..30 : offset_slot_base[k] \in Nat /\ extra_offset_bits[k] \in 0..13
  /\ \A k \in 1..29 : offset_slot_base[k] + PowerTable[extra_offset_bits[k] + 1]
                         = offset_slot_base[k + 1]
<1>1. \A k \in 1..30 : offset_slot_base[k] \in Nat
  BY DEF offset_slot_base
<1>2. \A k \in 1..30 : extra_offset_bits[k] \in 0..13
  BY DEF extra_offset_bits
<1>3. \A k \in 1..29 : offset_slot_base[k] + PowerTable[extra_offset_bits[k] + 1]
                         = offset_slot_base[k + 1]
  BY DEF offset_slot_base, extra_offset_bits, PowerTable
<1> QED BY <1>1, <1>2, <1>3

LEMMA NearRuns == \A k \in 1..16 : offset_slot_runs[k] = PowerTable[extra_offset_bits[k] + 1]
BY DEF offset_slot_runs, extra_offset_bits, PowerTable

LEMMA FarRuns ==
  \A k \in 3..16 : /\ offset_slot_base[k + 14] - 1 = 128 * (offset_slot_base[k] - 1)
                   /\ 128 * offset_slot_runs[k] = PowerTable[extra_offset_bits[k + 14] + 1]
<1>1. \A k \in 3..16 : offset_slot_base[k + 14] - 1 = 128 * (offset_slot_base[k] - 1)
  BY DEF offset_slot_base
<1>2. \A k \in 3..16 : 128 * offset_slot_runs[k] = PowerTable[extra_offset_bits[k + 14] + 1]
  BY DEF offset_slot_runs, extra_offset_bits, PowerTable
<1> QED BY <1>1, <1>2

(* The offsets of a slot, in the full table of the near-optimal parser: they  *)
(* are one slot's alone.                                                      *)
OffsetStarts == [s \in 0..30 |-> IF s = 30 THEN 32769 ELSE offset_slot_base[s + 1]]

LEMMA SlotEnds ==
  ASSUME NEW s \in 0..29
  PROVE  /\ OffsetStarts[s] \in Nat /\ OffsetStarts[s + 1] \in Nat
         /\ OffsetsOfSlot(s) = OffsetStarts[s]..(OffsetStarts[s + 1] - 1)
         /\ OffsetStarts[s] <= OffsetStarts[s + 1]
<1>1. PICK k \in 1..30 : s + 1 = k
  OBVIOUS
<1>2. offset_slot_base[k] \in Nat /\ extra_offset_bits[k] \in 0..13
  BY OffsetSteps
<1>3. OffsetStarts[s] = offset_slot_base[k]
  BY <1>1 DEF OffsetStarts
<1>4. PICK p \in Nat : p = 2^extra_offset_bits[k] /\ p = PowerTable[extra_offset_bits[k] + 1]
  <2>1. 2^extra_offset_bits[k] = PowerTable[extra_offset_bits[k] + 1]
    BY <1>2, PowerOf
  <2>2. \A e \in 0..13 : PowerTable[e + 1] \in Nat
    BY DEF PowerTable
  <2> QED BY <1>2, <2>1, <2>2
<1>5. OffsetStarts[s + 1] = offset_slot_base[k] + p
  <2>1. CASE k = 30
    <3>1. offset_slot_base[30] = 24577 /\ PowerTable[extra_offset_bits[30] + 1] = 8192
      BY DEF offset_slot_base, extra_offset_bits, PowerTable
    <3>2. OffsetStarts[30] = 32769
      BY DEF OffsetStarts
    <3> QED BY <1>1, <1>4, <2>1, <3>1, <3>2
  <2>2. CASE k # 30
    <3>1. k \in 1..29 /\ k \in 0..30
      BY <2>2
    <3>2. OffsetStarts[k] = offset_slot_base[k + 1]
      BY <2>2, <3>1 DEF OffsetStarts
    <3>3. offset_slot_base[k] + PowerTable[extra_offset_bits[k] + 1] = offset_slot_base[k + 1]
      BY <3>1, OffsetSteps
    <3> QED BY <1>1, <1>4, <3>2, <3>3
  <2> QED BY <2>1, <2>2
<1>6. OffsetsOfSlot(s) = offset_slot_base[k]..(offset_slot_base[k] + p - 1)
  BY <1>1, <1>4 DEF OffsetsOfSlot
<1> QED BY <1>2, <1>3, <1>5, <1>6

LEMMA SlotFull ==
  ASSUME NEW s \in 0..29, NEW offset \in Int, offset \in OffsetsOfSlot(s)
  PROVE  offset_slot_full(offset) = s
<1>1. OffsetStarts \in [0..30 -> Int]
  <2>1. ASSUME NEW i \in 0..30
        PROVE  (IF i = 30 THEN 32769 ELSE offset_slot_base[i + 1]) \in Int
    <3>1. i # 30 => i + 1 \in 1..30
      OBVIOUS
    <3> QED BY <3>1, OffsetSteps
  <2> QED BY <2>1 DEF OffsetStarts
<1>2. \A k \in 1..30 : OffsetStarts[k - 1] <= OffsetStarts[k]
  <2>1. ASSUME NEW k \in 1..30 PROVE OffsetStarts[k - 1] <= OffsetStarts[k]
    <3>1. PICK i \in 0..29 : i = k - 1 /\ i + 1 = k
      OBVIOUS
    <3> QED BY <3>1, SlotEnds
  <2> QED BY <2>1
<1>3. \A i, j \in 0..30 : i <= j => OffsetStarts[i] <= OffsetStarts[j]
  BY <1>1, <1>2, Increasing
<1>4. ASSUME NEW i \in 0..29, NEW j \in 0..29, i < j,
             offset \in OffsetsOfSlot(i), offset \in OffsetsOfSlot(j)
      PROVE  FALSE
  <2>1. offset < OffsetStarts[i + 1] /\ OffsetStarts[i + 1] \in Nat
    <3>1. /\ OffsetsOfSlot(i) = OffsetStarts[i]..(OffsetStarts[i + 1] - 1)
          /\ OffsetStarts[i] \in Nat /\ OffsetStarts[i + 1] \in Nat
      BY SlotEnds
    <3>2. offset \in OffsetStarts[i]..(OffsetStarts[i + 1] - 1)
      BY <1>4, <3>1, Zenon
    <3> QED BY <3>1, <3>2
  <2>2. OffsetStarts[j] <= offset /\ OffsetStarts[j] \in Nat
    <3>1. /\ OffsetsOfSlot(j) = OffsetStarts[j]..(OffsetStarts[j + 1] - 1)
          /\ OffsetStarts[j] \in Nat /\ OffsetStarts[j + 1] \in Nat
      BY SlotEnds
    <3>2. offset \in OffsetStarts[j]..(OffsetStarts[j + 1] - 1)
      BY <1>4, <3>1, Zenon
    <3> QED BY <3>1, <3>2
  <2>3. i + 1 \in 0..30 /\ j \in 0..30 /\ i + 1 <= j
    BY <1>4
  <2>4. OffsetStarts[i + 1] <= OffsetStarts[j]
    BY <1>3, <2>3
  <2> QED BY <2>1, <2>2, <2>4
<1>5. \A i \in 0..29 : offset \in OffsetsOfSlot(i) => i = s
  <2>1. ASSUME NEW i \in 0..29, offset \in OffsetsOfSlot(i) PROVE ~(i < s) /\ ~(s < i)
    BY <1>4, <2>1
  <2> QED BY <2>1
<1> QED BY <1>5 DEF offset_slot_full

(* get_offset_slot finds the slot that holds the offset. *)
LEMMA SlotFound ==
  ASSUME NEW offset \in 1..MAX_MATCH_OFFSET
  PROVE  get_offset_slot(offset) \in 0..29 /\ offset \in OffsetsOfSlot(get_offset_slot(offset))
<1>0. MAX_MATCH_OFFSET = 32768
  BY DEF MAX_MATCH_OFFSET
<1>1. ASSUME NEW x \in 0..255
      PROVE  \E s \in 0..15 : /\ offset_slot(x) = s
                              /\ OffsetUpto[s] <= x
                              /\ x < OffsetUpto[s] + offset_slot_runs[s + 1]
                              /\ x >= 2 => s >= 2
  <2>0. PICK n \in Nat : n = 16
    OBVIOUS
  <2>1. PICK s \in 0..15 : OffsetUpto[s] <= x /\ x < OffsetUpto[s + 1]
    <3>1. OffsetUpto[0] <= x /\ x < OffsetUpto[n] /\ x \in Int
      BY <2>0, OffsetTable
    <3>2. OffsetUpto \in [0..n -> Int]
      BY <2>0, OffsetTable, Zenon
    <3>3. \E s \in 0..(n - 1) : OffsetUpto[s] <= x /\ x < OffsetUpto[s + 1]
      BY <3>1, <3>2, StepFound
    <3>4. n - 1 = 15
      BY <2>0
    <3> QED BY <3>3, <3>4, Zenon
  <2>2. offset_slot(x) = s
    <3>1. s \in 0..(n - 1) /\ x \in Int
      BY <2>0
    <3>2. OffsetUpto \in [0..n -> Int] /\ Len(offset_slot_runs) = n /\ OffsetUpto[0] = 0
      BY <2>0, OffsetTable, Zenon
    <3>3. \A k \in 1..n : /\ offset_slot_runs[k] \in Nat
                         /\ OffsetUpto[k] = OffsetUpto[k - 1] + offset_slot_runs[k]
      BY <2>0, OffsetTable, Zenon
    <3>4. SlotAt(offset_slot_runs, x) = s
      BY <2>1, <3>1, <3>2, <3>3, SlotOf, Zenon
    <3> QED BY <3>4 DEF offset_slot
  <2>3. OffsetUpto[s + 1] = OffsetUpto[s] + offset_slot_runs[s + 1]
    <3>1. PICK k \in 1..16 : k = s + 1 /\ k - 1 = s
      OBVIOUS
    <3>2. OffsetUpto[k] = OffsetUpto[k - 1] + offset_slot_runs[k]
      BY OffsetTable
    <3> QED BY <3>1, <3>2, Zenon
  <2>4. x >= 2 => s >= 2
    <3>1. OffsetUpto[1] = 1 /\ OffsetUpto[2] = 2
      BY DEF OffsetUpto, offset_slot_base
    <3>2. s = 0 \/ s = 1 \/ s >= 2
      OBVIOUS
    <3> QED BY <2>1, <3>1, <3>2
  <2> QED BY <2>1, <2>2, <2>3, <2>4
<1>2. CASE offset <= 256
  <2>1. offset - 1 \in 0..255
    BY <1>2, SMTT(40)
  <2>2. PICK s \in 0..15 : /\ offset_slot(offset - 1) = s
                           /\ OffsetUpto[s] <= offset - 1
                           /\ offset - 1 < OffsetUpto[s] + offset_slot_runs[s + 1]
    BY <1>1, <2>1
  <2>3. get_offset_slot(offset) = s
    <3>1. (offset - 1) \div 2^0 = offset - 1
      BY PowerZero
    <3>2. get_offset_slot(offset) = offset_slot((offset - 1) \div 2^0) + 2 * 0
      BY <1>2 DEF get_offset_slot
    <3> QED BY <2>2, <3>1, <3>2
  <2>4. PICK k \in 1..16 : s + 1 = k
    OBVIOUS
  <2>5. OffsetUpto[s] = offset_slot_base[k] - 1
    BY <2>4 DEF OffsetUpto
  <2>6. /\ offset_slot_runs[k] = 2^extra_offset_bits[k] /\ offset_slot_base[k] \in Nat
        /\ offset_slot_runs[k] \in Nat
    <3>1. extra_offset_bits[k] \in 0..13 /\ offset_slot_base[k] \in Nat
      BY OffsetSteps
    <3>2. offset_slot_runs[k] = PowerTable[extra_offset_bits[k] + 1]
      BY NearRuns
    <3>3. 2^extra_offset_bits[k] = PowerTable[extra_offset_bits[k] + 1]
      BY <3>1, PowerOf
    <3>4. offset_slot_runs[k] \in Nat
      BY OffsetTable
    <3> QED BY <3>1, <3>2, <3>3, <3>4, Zenon
  <2>7. offset \in OffsetsOfSlot(s)
    BY <2>2, <2>4, <2>5, <2>6 DEF OffsetsOfSlot
  <2> QED BY <2>3, <2>7
<1>3. CASE offset > 256
  <2>1. PICK x \in 2..255 : /\ x = (offset - 1) \div 128
                           /\ 128 * x <= offset - 1 /\ offset - 1 < 128 * x + 128
    <3> DEFINE q == (offset - 1) \div 128
    <3>1. q \in Int /\ 128 * q <= offset - 1 /\ offset - 1 < 128 * q + 128
      OBVIOUS
    <3>2. offset <= 32768
      BY <1>0, SMTT(40)
    <3>3. q \in 2..255
      <4> HIDE DEF q
      <4> QED BY <1>3, <3>1, <3>2
    <3> QED BY <3>1, <3>3, ZenonT(60)
  <2>2. PICK s \in 0..15 : /\ offset_slot(x) = s
                           /\ OffsetUpto[s] <= x
                           /\ x < OffsetUpto[s] + offset_slot_runs[s + 1]
                           /\ s >= 2
    <3>1. x \in 0..255 /\ x >= 2
      OBVIOUS
    <3> QED BY <1>1, <3>1
  <2>3. get_offset_slot(offset) = s + 14
    <3>1. 2^7 = 128
      BY SMT
    <3>2. get_offset_slot(offset) = offset_slot((offset - 1) \div 2^7) + 2 * 7
      BY <1>3 DEF get_offset_slot
    <3> QED BY <2>1, <2>2, <3>1, <3>2
  <2>4. PICK k \in 3..16 : s + 1 = k
    BY <2>2
  <2>5. OffsetUpto[s] = offset_slot_base[k] - 1
    BY <2>4 DEF OffsetUpto
  <2>6. PICK j \in 17..30 : s + 14 + 1 = j /\ k + 14 = j
    BY <2>4
  <2>7. /\ offset_slot_base[j] - 1 = 128 * (offset_slot_base[k] - 1)
        /\ 128 * offset_slot_runs[k] = 2^extra_offset_bits[j]
        /\ offset_slot_base[j] \in Nat /\ offset_slot_base[k] \in Nat
        /\ offset_slot_runs[k] \in Nat
    <3>1. k \in 1..30 /\ j \in 1..30 /\ k \in 1..16
      OBVIOUS
    <3>2. extra_offset_bits[j] \in 0..13 /\ offset_slot_base[j] \in Nat /\ offset_slot_base[k] \in Nat
      BY <3>1, OffsetSteps
    <3>3. 2^extra_offset_bits[j] = PowerTable[extra_offset_bits[j] + 1]
      BY <3>2, PowerOf
    <3>4. /\ offset_slot_base[j] - 1 = 128 * (offset_slot_base[k] - 1)
          /\ 128 * offset_slot_runs[k] = PowerTable[extra_offset_bits[j] + 1]
      BY <2>6, FarRuns
    <3>5. offset_slot_runs[k] \in Nat
      BY <3>1, OffsetTable
    <3> QED BY <3>2, <3>3, <3>4, <3>5
  <2>8. PICK b \in Nat, r \in Nat : b = offset_slot_base[k] /\ r = offset_slot_runs[k]
    BY <2>7
  <2>9. b - 1 <= x /\ x < b - 1 + r
    BY <2>2, <2>4, <2>5, <2>8
  <2>10. 128 * (b - 1) <= offset - 1 /\ offset - 1 < 128 * (b - 1) + 128 * r
    BY <2>1, <2>9
  <2>11. OffsetsOfSlot(s + 14) = offset_slot_base[j]..(offset_slot_base[j] + 2^extra_offset_bits[j] - 1)
    BY <2>6 DEF OffsetsOfSlot
  <2>12. PICK p \in Nat, c \in Nat : p = 2^extra_offset_bits[j] /\ c = offset_slot_base[j]
    BY <2>7
  <2>13. c - 1 = 128 * (b - 1) /\ 128 * r = p
    BY <2>7, <2>8, <2>12, Zenon
  <2>14. offset \in c..(c + p - 1)
    BY <2>10, <2>13
  <2>15. offset \in OffsetsOfSlot(s + 14)
    BY <2>11, <2>12, <2>14, Zenon
  <2> QED BY <2>3, <2>15
<1> QED BY <1>2, <1>3

(* length_slot finds the slot that holds the length, and its extra bits do. *)
LEMMA LengthFound ==
  ASSUME NEW len \in MIN_MATCH_LEN..MAX_MATCH_LEN
  PROVE  \E s \in 0..28 : /\ length_slot(len) = s
                          /\ length_slot_base[s + 1] \in Nat
                          /\ len - length_slot_base[s + 1] \in Nat
                          /\ len - length_slot_base[s + 1] < 2^extra_length_bits[s + 1]
<1>0. len \in 3..258
  BY DEF MIN_MATCH_LEN, MAX_MATCH_LEN
<1>1. PICK n \in Nat : n = 29
  OBVIOUS
<1>2. n - 1 = 28
  BY <1>1
<1>3. LengthUpto \in [0..n -> Int] /\ Len(length_slot_runs) = n /\ LengthUpto[0] = 0
  BY <1>1, LengthTable, Zenon
<1>4. \A k \in 1..n : /\ length_slot_runs[k] \in Nat
                      /\ LengthUpto[k] = LengthUpto[k - 1] + length_slot_runs[k]
  BY <1>1, LengthTable, Zenon
<1>5. PICK s \in 0..28 : LengthUpto[s] <= len /\ len < LengthUpto[s + 1]
  <2>1. LengthUpto[0] <= len /\ len < LengthUpto[n] /\ len \in Int
    BY <1>0, <1>1, LengthTable
  <2>2. \E s \in 0..(n - 1) : LengthUpto[s] <= len /\ len < LengthUpto[s + 1]
    BY <1>3, <2>1, StepFound
  <2> QED BY <1>2, <2>2, Zenon
<1>6. length_slot(len) = s
  <2>1. s \in 0..(n - 1) /\ len \in Int
    BY <1>0, <1>2
  <2>2. SlotAt(length_slot_runs, len) = s
    BY <1>3, <1>4, <1>5, <2>1, SlotOf, Zenon
  <2> QED BY <2>2 DEF length_slot
<1>7. PICK b \in Nat : b = length_slot_base[s + 1] /\ b <= len
  <2>1. \A k \in 1..29 : length_slot_base[k] \in Nat
    BY DEF length_slot_base
  <2>2. length_slot_base[s + 1] \in Nat
    BY <2>1
  <2>3. CASE s = 0
    <3>1. length_slot_base[0 + 1] = 3
      BY DEF length_slot_base
    <3> QED BY <1>0, <2>2, <2>3, <3>1
  <2>4. CASE s # 0
    <3>1. LengthUpto[s] = length_slot_base[s + 1]
      BY <2>4 DEF LengthUpto
    <3> QED BY <1>5, <2>2, <3>1
  <2> QED BY <2>3, <2>4
<1>8. PICK u \in Nat : u = LengthUpto[s + 1]
  <2>1. s + 1 \in 0..29
    OBVIOUS
  <2>2. LengthUpto[s + 1] \in Int
    BY <2>1, LengthTable
  <2> QED BY <1>0, <1>5, <2>2
<1>9. PICK p \in Nat : p = 2^extra_length_bits[s + 1]
  <2>1. \A k \in 1..29 : extra_length_bits[k] \in 0..5
    BY DEF extra_length_bits
  <2>2. extra_length_bits[s + 1] \in 0..13
    BY <2>1
  <2>3. 2^extra_length_bits[s + 1] = PowerTable[extra_length_bits[s + 1] + 1]
    BY <2>2, PowerOf
  <2>4. \A e \in 0..13 : PowerTable[e + 1] \in Nat
    BY DEF PowerTable
  <2> QED BY <2>2, <2>3, <2>4
<1>10. u - b <= p
  BY <1>7, <1>8, <1>9, LengthExtra, Zenon
<1>11. len < u
  BY <1>5, <1>8
<1>12. len - b \in Nat /\ len - b < p
  BY <1>0, <1>7, <1>10, <1>11
<1> QED BY <1>6, <1>7, <1>9, <1>12, Zenon

LEMMA OffsetFound ==
  ASSUME NEW offset \in 1..MAX_MATCH_OFFSET
  PROVE  \E s \in 0..29 : /\ get_offset_slot(offset) = s /\ offset_slot_full(offset) = s
                          /\ offset_slot_base[s + 1] \in Nat
                          /\ offset - offset_slot_base[s + 1] \in Nat
                          /\ offset - offset_slot_base[s + 1] < 2^extra_offset_bits[s + 1]
<1>1. PICK s \in 0..29 : get_offset_slot(offset) = s /\ offset \in OffsetsOfSlot(s)
  BY SlotFound
<1>2. offset_slot_full(offset) = s
  BY <1>1, SlotFull
<1>3. offset_slot_base[s + 1] \in Nat /\ extra_offset_bits[s + 1] \in 0..13
  <2>1. s + 1 \in 1..30
    OBVIOUS
  <2> QED BY <2>1, OffsetSteps
<1>4. PICK p \in Nat, b \in Nat : p = 2^extra_offset_bits[s + 1] /\ b = offset_slot_base[s + 1]
  <2>1. 2^extra_offset_bits[s + 1] = PowerTable[extra_offset_bits[s + 1] + 1]
    BY <1>3, PowerOf
  <2>2. \A e \in 0..13 : PowerTable[e + 1] \in Nat
    BY DEF PowerTable
  <2> QED BY <1>3, <2>1, <2>2
<1>5. offset \in b..(b + p - 1)
  BY <1>1, <1>4, Zenon DEF OffsetsOfSlot
<1>6. offset - b \in Nat /\ offset - b < p
  BY <1>5
<1> QED BY <1>1, <1>2, <1>4, <1>6, Zenon

(* The tables of the decompressor hold what the compressor's do: what is      *)
(* appended to them does not change what is in them.                          *)
LEMMA LitlenRead ==
  ASSUME NEW s \in 0..28
  PROVE  /\ litlen_decode_results(257 + s).base = length_slot_base[s + 1]
         /\ litlen_decode_results(257 + s).extra = extra_length_bits[s + 1]
<1> DEFINE b == length_slot_base \o <<258, 258>>
           e == extra_length_bits \o <<0, 0>>
<1>1. \A k \in 1..29 : b[k] = length_slot_base[k]
  BY DEF length_slot_base
<1>2. \A k \in 1..29 : e[k] = extra_length_bits[k]
  BY DEF extra_length_bits
<1>3. ASSUME NEW sym
      PROVE  litlen_decode_results(sym) = [base |-> b[sym - 256], extra |-> e[sym - 256]]
  BY Z3 DEF litlen_decode_results
<1> HIDE DEF b, e
<1>4. PICK sym \in Nat : sym = 257 + s
  OBVIOUS
<1>5. PICK k \in 1..29 : sym - 256 = k /\ s + 1 = k
  BY <1>4
<1>6. litlen_decode_results(sym) = [base |-> b[k], extra |-> e[k]]
  BY <1>3, <1>5
<1>7. litlen_decode_results(sym).base = b[k] /\ litlen_decode_results(sym).extra = e[k]
  BY <1>6
<1>8. b[k] = length_slot_base[s + 1] /\ e[k] = extra_length_bits[s + 1]
  BY <1>5, <1>1, <1>2, Zenon
<1> QED BY <1>4, <1>7, <1>8, Zenon

LEMMA OffsetRead ==
  ASSUME NEW s \in 0..29
  PROVE  /\ offset_decode_results(s).base = offset_slot_base[s + 1]
         /\ offset_decode_results(s).extra = extra_offset_bits[s + 1]
<1> DEFINE b == offset_slot_base \o <<24577, 24577>>
           e == extra_offset_bits \o <<13, 13>>
<1>1. \A k \in 1..30 : b[k] = offset_slot_base[k]
  BY DEF offset_slot_base
<1>2. \A k \in 1..30 : e[k] = extra_offset_bits[k]
  BY DEF extra_offset_bits
<1>3. offset_decode_results(s) = [base |-> b[s + 1], extra |-> e[s + 1]]
  BY Z3 DEF offset_decode_results
<1> HIDE DEF b, e
<1>4. PICK k \in 1..30 : s + 1 = k
  OBVIOUS
<1>5. offset_decode_results(s).base = b[k] /\ offset_decode_results(s).extra = e[k]
  BY <1>3, <1>4
<1> QED BY <1>4, <1>5, <1>1, <1>2, Zenon

MatchInv ==
  match # Nothing => /\ \E len \in MIN_MATCH_LEN..MAX_MATCH_LEN, offset \in 1..MAX_MATCH_OFFSET :
                           match = [len |-> len, offset |-> offset]
                     /\ sent = Encode(match)

LEMMA SentReadsBack == MatchInv => MatchesReadBack
<1> SUFFICES ASSUME MatchInv, match # Nothing PROVE MatchesReadBack
  BY DEF MatchesReadBack
<1>1. PICK len \in MIN_MATCH_LEN..MAX_MATCH_LEN, offset \in 1..MAX_MATCH_OFFSET :
         match = [len |-> len, offset |-> offset]
  BY DEF MatchInv
<1>2. PICK s \in 0..28 : /\ length_slot(len) = s
                         /\ length_slot_base[s + 1] \in Nat
                         /\ len - length_slot_base[s + 1] \in Nat
                         /\ len - length_slot_base[s + 1] < 2^extra_length_bits[s + 1]
  BY LengthFound
<1>3. PICK o \in 0..29 : /\ get_offset_slot(offset) = o /\ offset_slot_full(offset) = o
                         /\ offset_slot_base[o + 1] \in Nat
                         /\ offset - offset_slot_base[o + 1] \in Nat
                         /\ offset - offset_slot_base[o + 1] < 2^extra_offset_bits[o + 1]
  BY OffsetFound
<1>4. PICK b \in Nat, c \in Nat : b = length_slot_base[s + 1] /\ c = offset_slot_base[o + 1]
  BY <1>2, <1>3
<1>5. sent = [litlen |-> 257 + s, extra |-> len - b, offset |-> o, more |-> offset - c,
              optimal |-> o]
  <2>1. sent = Encode(match) /\ match.len = len /\ match.offset = offset
    BY <1>1 DEF MatchInv
  <2> QED BY <1>2, <1>3, <1>4, <2>1, ZenonT(60) DEF Encode
<1>6. /\ litlen_decode_results(257 + s).base = b
      /\ litlen_decode_results(257 + s).extra = extra_length_bits[s + 1]
  BY <1>4, LitlenRead, Zenon
<1>7. offset_decode_results(o).base = c /\ offset_decode_results(o).extra = extra_offset_bits[o + 1]
  BY <1>4, OffsetRead, Zenon
<1>8. /\ sent.litlen = 257 + s /\ sent.extra = len - b /\ sent.offset = o
      /\ sent.more = offset - c /\ sent.optimal = o
  BY <1>5
<1>9. Decode(sent) = match
  <2>1. b + (len - b) = len /\ c + (offset - c) = offset
    BY SMTT(40) DEF MIN_MATCH_LEN, MAX_MATCH_LEN, MAX_MATCH_OFFSET
  <2>2. Decode(sent) = [len |-> b + (len - b), offset |-> c + (offset - c)]
    BY <1>6, <1>7, <1>8, ZenonT(60) DEF Decode
  <2> QED BY <1>1, <2>1, <2>2, Zenon
<1>10. sent.extra < 2^litlen_decode_results(sent.litlen).extra
  BY <1>2, <1>4, <1>6, <1>8, Zenon
<1>11. sent.more < 2^offset_decode_results(sent.offset).extra
  BY <1>3, <1>4, <1>7, <1>8, Zenon
<1>12. extra_length_bits[sent.litlen - 256] = litlen_decode_results(sent.litlen).extra
  <2>1. sent.litlen - 256 = s + 1
    BY <1>8
  <2> QED BY <1>6, <1>8, <2>1, ZenonT(60)
<1>13. extra_offset_bits[sent.offset + 1] = offset_decode_results(sent.offset).extra
  BY <1>7, <1>8, Zenon
<1> QED BY <1>8, <1>9, <1>10, <1>11, <1>12, <1>13, Zenon DEF MatchesReadBack

(* For every length and every offset that DEFLATE has, what WRITE_MATCH sends *)
(* is what the decompressor's tables read: the slots cover the lengths and    *)
(* the offsets without a gap or an overlap, no extra value needs more bits    *)
(* than its slot has, and the small map of offsets that the greedy parsers    *)
(* fold in two agrees with the full one of the near-optimal parser.           *)
THEOREM MatchesAgree == Spec => []MatchesReadBack
<1>1. Init => MatchInv
  BY DEF Init, MatchInv
<1>2. MatchInv /\ [Next]_<<side, machine, wvars, rvars, mvars>> => MatchInv'
  <2> SUFFICES ASSUME MatchInv, [Next]_<<side, machine, wvars, rvars, mvars>> PROVE MatchInv'
    OBVIOUS
  <2>1. CASE UNCHANGED mvars
    <3>1. match' = match /\ sent' = sent
      BY <2>1 DEF mvars
    <3> QED BY <3>1 DEF MatchInv
  <2>2. ASSUME NEW len \in MIN_MATCH_LEN..MAX_MATCH_LEN, NEW offset \in Offsets,
               SendMatch([len |-> len, offset |-> offset])
        PROVE  MatchInv'
    <3>1. offset \in 1..MAX_MATCH_OFFSET
      BY OffsetsAssumption
    <3>2. match' = [len |-> len, offset |-> offset] /\ sent' = Encode(match')
      BY <2>2 DEF SendMatch
    <3> QED BY <3>1, <3>2 DEF MatchInv
  <2> QED BY <2>1, <2>2 DEF Next, mvars
<1> QED BY <1>1, <1>2, SentReadsBack, PTL DEF Spec
=============================================================================
