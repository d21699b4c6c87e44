---------------------------- MODULE DecodeTable ----------------------------
(***************************************************************************)
(* build_decode_table of deflate_decompress.c: a main table indexed by the *)
(* next table_bits bits, and subtables behind it for longer codewords.     *)
(*                                                                         *)
(* An entry is [sub |-> FALSE, sym, len] or, for a pointer to a subtable,  *)
(* [sub |-> TRUE, start, bits].  What the source leaves uninitialised is   *)
(* Uninit.  lens is a function on 0..num_syms-1.                           *)
(***************************************************************************)
EXTENDS Sequences, Loops

Uninit == [sub |-> FALSE, sym |-> -1, len |-> 0]
make_decode_table_entry(sym, len) == [sub |-> FALSE, sym |-> sym, len |-> len]

len_counts(lens, max_len) ==
  [l \in 0..max_len |-> Cardinality({s \in DOMAIN lens : lens[s] = l})]

(* The longest length in use, at least 1. *)
UsedMaxLen(counts, max_len) ==
  CHOOSE l \in 1..max_len :
    (l = 1 \/ counts[l] # 0) /\ \A k \in (l + 1)..max_len : counts[k] = 0

(* The codespace used, in codewords of max_len bits. *)
CodespaceUsed(counts, max_len) ==
  Loop(max_len, 0, [len \in 1..max_len |-> [used \in Nat |-> 2 * used + counts[len]]])[max_len]

(* The used symbols by increasing length, then symbol. *)
SortedSyms(lens) == Arranged({s \in DOMAIN lens : lens[s] # 0}, lens)

(* The next codeword with its bits reversed: set the last bit that is 0 and  *)
(* clear the ones behind it.  The codeword of all ones has no successor.     *)
NextCodeword(codeword, len) ==
  IF codeword = 2^len - 1 THEN codeword
  ELSE LET bit == 2^(CHOOSE b \in 0..(len - 1) :
                       /\ (codeword \div 2^b) % 2 = 0
                       /\ \A c \in (b + 1)..(len - 1) : (codeword \div 2^c) % 2 = 1)
       IN  (codeword % bit) + bit

(* The doubling of the table, up to 2^bits: its first half is copied to the  *)
(* second.                                                                   *)
Doubled(table, bits) ==
  LET size == Cardinality(DOMAIN table)
  IN  IF size = 2^bits THEN table ELSE [i \in 0..(2^bits - 1) |-> table[i % size]]

(* st is [table, codeword]: the table so far, and the next codeword. *)
PutDirect(sym, len, st) ==
  [table |-> [Doubled(st.table, len) EXCEPT ![st.codeword] = make_decode_table_entry(sym, len)],
   codeword |-> NextCodeword(st.codeword, len)]

(* The first n symbols: their codewords fit the main table. *)
FillDirect(lens, sorted, n) ==
  Steps(n, [table |-> [i \in {0} |-> Uninit], codeword |-> 0],
        LAMBDA k, st : PutDirect(sorted[k], lens[sorted[k]], st))

(* mutant: a subtable is made as small as its first codeword allows *)
FirstCodewordBits(counts, table_bits, bits, used) == bits
(* Longer codewords are brought in until they fill the subtable. *)
subtable_bits(counts, table_bits, bits, used) ==
  LET longest == Cardinality(DOMAIN counts) - 1 - table_bits
      filled[b \in bits..longest] ==
        IF b = bits THEN used ELSE 2 * filled[b - 1] + counts[table_bits + b]
  IN  CHOOSE b \in bits..longest : filled[b] >= 2^b /\ \A c \in bits..(b - 1) : filled[c] < 2^c

Remaining(lens, sorted, k) ==
  Cardinality({j \in k..Len(sorted) : lens[sorted[j]] = lens[sorted[k]]})

(* prefix is the part of the codeword before that indexes the main table. *)
PutInSubtable(lens, counts, sorted, table_bits, k, st) ==
  LET len   == lens[sorted[k]]
      main  == st.codeword % 2^table_bits
      start == Cardinality(DOMAIN st.table)
      bits  == subtable_bits(counts, table_bits, len - table_bits, Remaining(lens, sorted, k))
      opened == IF main = st.prefix THEN st.table
                ELSE [i \in 0..(start + 2^bits - 1) |->
                        IF i = main THEN [sub |-> TRUE, start |-> start, bits |-> bits]
                        ELSE IF i < start THEN st.table[i] ELSE Uninit]
      base   == opened[main].start
      stride == 2^(len - table_bits)
      high   == st.codeword \div 2^table_bits
      entry  == make_decode_table_entry(sorted[k], len - table_bits)
  IN  [table |-> [i \in DOMAIN opened |->
                    IF i >= base /\ (i - base) % stride = high THEN entry ELSE opened[i]],
       codeword |-> NextCodeword(st.codeword, len), prefix |-> main]

FillSubtables(lens, counts, sorted, table_bits, n, direct) ==
  Steps(Len(sorted) - n, direct,
        LAMBDA k, st : PutInSubtable(lens, counts, sorted, table_bits, n + k, st))

Complete(lens, counts, table_bits) ==
  LET Filled(sorted) ==
        LET n == Cardinality({k \in DOMAIN sorted : lens[sorted[k]] <= table_bits})
            Subtables(direct) ==
              FillSubtables(lens, counts, sorted, table_bits, n,
                [table |-> Doubled(direct.table, table_bits), codeword |-> direct.codeword,
                 prefix |-> -1]).table
        IN  With(FillDirect(lens, sorted, n), Subtables)
  IN  With(SortedSyms(lens), Filled)

(* The two incomplete codes that are accepted: none used, or one of length 1. *)
OneEntry(lens, used, table_bits) ==
  LET sym == IF used = 0 THEN 0 ELSE CHOOSE s \in DOMAIN lens : lens[s] # 0
  IN  [i \in 0..(2^table_bits - 1) |-> make_decode_table_entry(sym, 1)]

(* mutant: any incomplete code with a codeword of length 1 is accepted *)
AcceptsShort(counts, used, max_len) == used = 0 \/ counts[1] = 1
IncompleteAccepted(counts, used, max_len) ==
  used = 0 \/ (used = 2^(max_len - 1) /\ counts[1] = 1)

(* Not overfull, and not incomplete but for these two. *)
Accepted(counts, max_len) ==
  LET used == CodespaceUsed(counts, max_len)
  IN  /\ used <= 2^max_len
      /\ used < 2^max_len => IncompleteAccepted(counts, used, max_len)

(* dynamic: table_bits is only a maximum and shrinks to the longest codeword. *)
TableFor(lens, counts, table_bits_max, max_codeword_len, dynamic) ==
  LET max_len    == UsedMaxLen(counts, max_codeword_len)
      table_bits == IF dynamic /\ max_len < table_bits_max THEN max_len ELSE table_bits_max
      used       == CodespaceUsed(counts, max_len)
  IN  [ok         |-> Accepted(counts, max_len),
       table_bits |-> table_bits,
       table      |-> CASE ~Accepted(counts, max_len) -> <<>>
                        [] Accepted(counts, max_len) /\ used < 2^max_len ->
                             OneEntry(lens, used, table_bits)
                        [] OTHER -> Complete(lens, counts, table_bits)]

build_decode_table(lens, table_bits_max, max_codeword_len, dynamic) ==
  With(len_counts(lens, max_codeword_len),
       LAMBDA counts : TableFor(lens, counts, table_bits_max, max_codeword_len, dynamic))

(***************************************************************************)
(* A lookup in the bits of a number, its low bit first: the symbol and the *)
(* bits it consumes.                                                       *)
(***************************************************************************)
Lookup(table, table_bits, bits) ==
  LET entry == table[bits % 2^table_bits]
      sub   == table[entry.start + ((bits \div 2^table_bits) % 2^entry.bits)]
  IN  IF entry.sub THEN [sym |-> sub.sym, len |-> table_bits + sub.len]
      ELSE [sym |-> entry.sym, len |-> entry.len]
=============================================================================
