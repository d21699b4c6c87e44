------------------------------ MODULE Huffman ------------------------------
(***************************************************************************)
(* Length-limited canonical Huffman codes as deflate_compress.c makes them *)
(* (deflate_make_huffman_code and the functions under it), and the run     *)
(* lengths (precode items) in which the codeword lengths are transmitted.  *)
(*                                                                         *)
(* Arrays are functions on 0..n-1, as in the source.  The array 'A' of the *)
(* source packs a symbol into the low bits of each word and a frequency, a *)
(* parent index or a depth into the high bits.  Here the symbols are the   *)
(* sequence syms, which building the tree leaves alone, and A holds only   *)
(* the high parts; A is overwritten in place, as in the source.            *)
(***************************************************************************)
EXTENDS Sequences, Loops

Less(a, b) == IF a <= b THEN a ELSE b
Entries == Nat \X Nat

(***************************************************************************)
(* Heap sort of the symbols.  A word of the source compares by frequency,  *)
(* then by symbol, which is the order of the pairs <<frequency, symbol>>.  *)
(***************************************************************************)
Greater(v, w) == v[1] > w[1] \/ (v[1] = w[1] /\ v[2] > w[2])

Child(A, length, parent) ==
  LET left == parent * 2
  IN  IF left < length /\ Greater(A[left + 1], A[left]) THEN left + 1 ELSE left
Settled(A, length, v, parent) ==
  parent * 2 > length \/ ~Greater(A[Child(A, length, parent)], v)

(* v goes down from parent; the children on its way move up. *)
heapify_subtree(A, length, v, parent) ==
  LET levels == CHOOSE k \in 0..length : length < 2^k /\ (k > 0 => 2^(k - 1) <= length)
      Heaps == [A : [DOMAIN A -> Entries], at : DOMAIN A]
      Sift(h) == LET child == Child(h.A, length, h.at)
                 IN  IF Settled(h.A, length, v, h.at) THEN h
                     ELSE [A |-> [h.A EXCEPT ![h.at] = h.A[child]], at |-> child]
      down == Repeat(levels, [A |-> A, at |-> parent], Heaps, [h \in Heaps |-> Sift(h)])
  IN  [down.A EXCEPT ![down.at] = v]

heapify_array(A) ==
  LET half == Len(A) \div 2
  IN  Loop(half, A, [k \in 1..half |-> [B \in [DOMAIN A -> Entries] |->
             heapify_subtree(B, Len(A), B[half + 1 - k], half + 1 - k)]])[half]

(* The maximum of the first length goes behind the others. *)
ExtractMax(A, length) ==
  heapify_subtree([A EXCEPT ![length] = A[1], ![1] = A[length]], length - 1, A[length], 1)

heap_sort(A) ==
  IF Len(A) < 2 THEN A
  ELSE Loop(Len(A) - 1, heapify_array(A),
            [k \in 1..(Len(A) - 1) |-> [B \in [DOMAIN A -> Entries] |->
               ExtractMax(B, Len(A) + 1 - k)]])[Len(A) - 1]

(* Count sort on the frequencies below num_counters - 1; what falls into the *)
(* last counter is heap sorted.  Unused symbols are left out.                *)
sort_symbols(num_syms, freqs) ==
  LET Counted(counter) ==
        LET low == Cardinality({s \in DOMAIN counter : counter[s] < num_syms - 1})
            Sorted(syms) ==
              LET entries == [i \in 1..Len(syms) |-> <<freqs[syms[i]], syms[i]>>]
              IN  SubSeq(entries, 1, low) \o heap_sort(SubSeq(entries, low + 1, Len(syms)))
        IN  With(Arranged(DOMAIN counter, counter), Sorted)
  IN  With([s \in {t \in 0..(num_syms - 1) : freqs[t] # 0} |-> Less(freqs[s], num_syms - 1)], Counted)

(***************************************************************************)
(* The tree, in place: i is the next leaf, b the next non-leaf that has no *)
(* parent, e the slot of the new non-leaf.                                 *)
(***************************************************************************)
(* mutant: two leaves are joined without a look at the non-leaves *)
TwoLeavesFirst(A, last, i, b, e) == i + 1 <= last
TwoLeaves(A, last, i, b, e)    == i + 1 <= last /\ (b = e \/ A[i + 1] <= A[b])
TwoNonLeaves(A, last, i, b, e) == b + 2 <= e /\ (i > last \/ A[b + 1] < A[i])

BuildNode(last, t) ==
  LET i == t.i
      b == t.b
      e == t.e
  IN  CASE TwoLeaves(t.A, last, i, b, e) ->
             [A |-> [t.A EXCEPT ![e] = t.A[i] + t.A[i + 1]], i |-> i + 2, b |-> b, e |-> e + 1]
        [] ~TwoLeaves(t.A, last, i, b, e) /\ TwoNonLeaves(t.A, last, i, b, e) ->
             [A |-> [t.A EXCEPT ![b] = e, ![b + 1] = e, ![e] = t.A[b] + t.A[b + 1]],
              i |-> i, b |-> b + 2, e |-> e + 1]
        [] OTHER ->
             [A |-> [t.A EXCEPT ![b] = e, ![e] = t.A[i] + t.A[b]],
              i |-> i + 1, b |-> b + 1, e |-> e + 1]

(* Each node takes one of the sym_count trees away. *)
Trees(n) == [A : [0..(n - 1) -> Nat], i : Nat, b : Nat, e : Nat]
build_tree(A, sym_count) ==
  Repeat(sym_count - 1, [A |-> A, i |-> 0, b |-> 0, e |-> 0], Trees(sym_count),
         [t \in Trees(sym_count) |-> BuildNode(sym_count - 1, t)]).A

(***************************************************************************)
(* How many codewords get each length.  A node deeper than the limit takes *)
(* the longest length that still has a codeword to give.                   *)
(***************************************************************************)
(* mutant: a length that has no codeword left is not skipped *)
ClippedDepth(depth, counts, max_len) == Less(depth, max_len - 1)
LimitedDepth(depth, counts, max_len) ==
  IF depth < max_len THEN depth
  ELSE CHOOSE k \in 1..(max_len - 1) :
         counts[k] # 0 /\ \A l \in (k + 1)..(max_len - 1) : counts[l] = 0

CountNode(t, max_len) ==
  LET depth == t.A[t.A[t.node]] + 1
      d     == LimitedDepth(depth, t.counts, max_len)
  IN  [A |-> [t.A EXCEPT ![t.node] = depth], node |-> t.node - 1,
       counts |-> [t.counts EXCEPT ![d] = @ - 1, ![d + 1] = @ + 2]]

(* The nodes from root - 1 down to 0. *)
Countings(n, max_len) == [A : [0..(n - 1) -> Nat], node : Int, counts : [0..max_len -> Nat]]
compute_length_counts(A, sym_count, root, max_len) ==
  LET start == [A      |-> [A EXCEPT ![root] = 0],
                node   |-> root - 1,
                counts |-> [l \in 0..max_len |-> IF l = 1 THEN 2 ELSE 0]]
  IN  Repeat(root, start, Countings(sym_count, max_len),
             [t \in Countings(sym_count, max_len) |-> CountNode(t, max_len)]).counts

(***************************************************************************)
(* Codewords: lengths in decreasing order to the symbols in increasing     *)
(* order of frequency, then consecutive codewords per length in the order  *)
(* of the symbols, each with its bits reversed.                            *)
(***************************************************************************)
reverse_codeword(codeword, len) ==
  SumTo(len, [k \in 1..len |-> ((codeword \div 2^(k - 1)) % 2) * 2^(len - k)])

next_codewords(len_counts, len) ==
  Loop(len - 1, 0, [k \in 1..(len - 1) |-> [c \in Nat |-> (c + len_counts[k]) * 2]])[len - 1]

(* How many codewords are at least l bits long. *)
NoShorter(len_counts, max_len, l) ==
  SumTo(max_len + 1 - l, [k \in 1..(max_len + 1 - l) |-> len_counts[max_len + 1 - k]])
AssignedLens(syms, len_counts, max_len, num_syms) ==
  With([l \in 1..(max_len + 1) |-> NoShorter(len_counts, max_len, l)],
       LAMBDA atleast :
         [s \in 0..(num_syms - 1) |->
            IF \E i \in DOMAIN syms : syms[i] = s
            THEN LET i == CHOOSE j \in DOMAIN syms : syms[j] = s
                 IN  CHOOSE l \in 1..max_len : atleast[l + 1] < i /\ i <= atleast[l]
            ELSE 0])

gen_codewords(lens, len_counts) ==
  [s \in DOMAIN lens |->
     IF lens[s] = 0 THEN 0
     ELSE reverse_codeword(next_codewords(len_counts, lens[s])
                             + Cardinality({t \in DOMAIN lens : t < s /\ lens[t] = lens[s]}),
                           lens[s])]

(* With fewer than two used symbols the code is made complete with one more. *)
TwoCodewords(num_syms, used) ==
  LET sym == IF used = <<>> \/ used[1] = 0 THEN 1 ELSE used[1]
  IN  [lens |-> [s \in 0..(num_syms - 1) |-> IF s \in {0, sym} THEN 1 ELSE 0],
       codewords |-> [s \in 0..(num_syms - 1) |-> IF s = sym THEN 1 ELSE 0]]

make_huffman_code(num_syms, max_len, freqs) ==
  LET Code(sorted) ==
        LET n    == Len(sorted)
            syms == [i \in 1..n |-> sorted[i][2]]
            Lens(counts) ==
              With(AssignedLens(syms, counts, max_len, num_syms),
                   LAMBDA lens : [lens |-> lens, codewords |-> gen_codewords(lens, counts)])
        IN  IF n < 2 THEN TwoCodewords(num_syms, syms)
            ELSE With(compute_length_counts(build_tree([i \in 0..(n - 1) |-> sorted[i + 1][1]], n),
                                            n, n - 2, max_len),
                      Lens)
  IN  With(sort_symbols(num_syms, freqs), Code)

(***************************************************************************)
(* Precode items <<symbol, extra bits>>: 16 repeats the previous length 3  *)
(* to 6 times, 17 is 3 to 10 zeroes, 18 is 11 to 138 zeroes.  A loop takes *)
(* as long a repetition as there is, until what is left is too short.      *)
(***************************************************************************)
Plain(len, n) == [k \in 1..n |-> <<len, 0>>]
Full(item, n) == [k \in 1..n |-> item]

ZeroRun(n) ==
  LET left == n % 138
  IN  Full(<<18, 127>>, n \div 138) \o
        CASE left >= 11 -> <<<<18, left - 11>>>>
          [] left \in 3..10 -> <<<<17, left - 3>>>>
          [] OTHER -> Plain(0, left)

Repeats(len, n) ==
  LET left == n % 6
  IN  Full(<<16, 3>>, n \div 6) \o (IF left >= 3 THEN <<<<16, left - 3>>>> ELSE Plain(len, left))

(* mutant: a repetition is not preceded by the length it repeats *)
LengthRunBare(len, n) == IF len = 0 THEN ZeroRun(n) ELSE Repeats(len, n)
LengthRun(len, n) ==
  IF len = 0 THEN ZeroRun(n)
  ELSE IF n >= 4 THEN Plain(len, 1) \o Repeats(len, n - 1)
  ELSE Plain(len, n)

(* lens is a sequence here: the litlen lengths followed by the offset lengths. *)
Runs == [at : Nat, items : Seq(Entries)]
TakeRun(lens, t) ==
  IF t.at > Len(lens) THEN t
  ELSE LET past == CHOOSE e \in (t.at + 1)..(Len(lens) + 1) :
                     /\ \A i \in t.at..(e - 1) : lens[i] = lens[t.at]
                     /\ e <= Len(lens) => lens[e] # lens[t.at]
       IN  [at |-> past, items |-> t.items \o LengthRun(lens[t.at], past - t.at)]

compute_precode_items(lens) ==
  Repeat(Len(lens), [at |-> 1, items |-> <<>>], Runs, [t \in Runs |-> TakeRun(lens, t)]).items
precode_freqs(items) ==
  [s \in 0..18 |-> Cardinality({i \in DOMAIN items : items[i][1] = s})]
=============================================================================
