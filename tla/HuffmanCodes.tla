---------------------------- MODULE HuffmanCodes ----------------------------
(***************************************************************************)
(* The Huffman codes of a block, from both ends.                           *)
(*                                                                         *)
(*   compress  the compressor counts the symbols of a block (Tally); at    *)
(*             any moment it could make a code from the counts             *)
(*   lens      the decompressor reads untrusted codeword lengths (ReadLen) *)
(*             and would build a decode table from them                    *)
(*   runs      codeword lengths with long runs, to be written as precode   *)
(*             items                                                       *)
(*                                                                         *)
(* Every state is an input of the algorithms of Huffman and DecodeTable;   *)
(* the properties, here and in HuffmanTables, compare what they make of it *)
(* with reference definitions.                                             *)
(***************************************************************************)
EXTENDS Huffman, SequencesExt

CONSTANTS
  Codes,        (* the codes to make: [syms, max, start, tally]: the counts begin *)
                (* at start, and tally bounds their sum                           *)
  LensSyms,     (* alphabet size of the codes whose lengths are read              *)
  LensMax,      (* their longest codeword                                         *)
  RunLens,      (* the codeword lengths that the runs repeat                      *)
  RunLengths,   (* how many times                                                 *)
  MaxRuns       (* runs written one after the other                               *)

ASSUME CodesAssumption ==
  \A c \in Codes : c.syms \in Nat /\ c.syms >= 3 /\ 2^c.max >= c.syms /\ c.tally \in Nat
                   /\ c.max \in Nat /\ c.start \in [0..(c.syms - 1) -> Nat]
(* No codeword length exceeds 15 bits, which the precode can tell apart. *)
ASSUME LensAssumption ==
  LensSyms \in Nat \ {0} /\ LensMax \in Nat \ {0} /\ RunLens \subseteq 0..15 /\ RunLengths \subseteq Nat \ {0}

VARIABLES code,  (* the member of Codes that is being made; Read; None for the runs *)
          freqs, (* freqs[s]: how often the block uses symbol s                     *)
          lens   (* codeword lengths, a sequence                                    *)
vars == <<code, freqs, lens>>

None == [syms |-> 0, max |-> 0, start |-> <<>>, tally |-> 0]
Read == [None EXCEPT !.syms = LensSyms, !.max = LensMax]
Compressing == code \in Codes
ReadingLens == code = Read
WritingRuns == code = None

(* deflate_reset_symbol_frequencies *)
Init ==
  /\ code \in Codes \cup {None, Read}
  /\ freqs = code.start
  /\ lens = <<>>

Tally(s) ==
  /\ Compressing
  /\ SumTo(code.syms, [k \in 1..code.syms |-> freqs[k - 1]]) < code.tally
  /\ freqs' = [freqs EXCEPT ![s] = @ + 1]
  /\ UNCHANGED <<code, lens>>

ReadLen(l) ==
  /\ ReadingLens
  /\ Len(lens) < LensSyms
  /\ lens' = Append(lens, l)
  /\ UNCHANGED <<code, freqs>>

AddRun(l, n) ==
  /\ WritingRuns
  /\ Cardinality({i \in 1..(Len(lens) - 1) : lens[i] # lens[i + 1]}) < MaxRuns - 1
  /\ lens # <<>> => lens[Len(lens)] # l
  /\ lens' = lens \o [i \in 1..n |-> l]
  /\ UNCHANGED <<code, freqs>>

Next ==
  \/ \E s \in DOMAIN freqs : Tally(s)
  \/ \E l \in 0..LensMax : ReadLen(l)
  \/ \E l \in RunLens, n \in RunLengths : AddRun(l, n)

Spec == Init /\ [][Next]_vars

-----------------------------------------------------------------------------
(* What the Huffman code construction and the decode tables promise.         *)

Made(max) == make_huffman_code(code.syms, max, freqs)
Used      == {s \in DOMAIN freqs : freqs[s] # 0}
(* The share of the codespace that the codewords take, in codewords of max bits. *)
Kraft(ls, max) ==
  SumTo(max, [l \in 1..max |-> Cardinality({s \in DOMAIN ls : ls[s] = l}) * 2^(max - l)])

(* A code that the compressor makes is complete, within the limit on the     *)
(* codeword length, covers every used symbol, and has no other symbol unless *)
(* fewer than two are used: the decompressor rejects anything else.          *)
CodesComplete ==
  Compressing =>
    LET made == Made(code.max)
        L    == {s \in DOMAIN freqs : made.lens[s] # 0}
    IN  /\ Kraft(made.lens, code.max) = 2^code.max
        /\ \A s \in L : made.lens[s] <= code.max
        /\ Used \subseteq L
        /\ Cardinality(Used) >= 2 => L = Used
        /\ Cardinality(Used) < 2 => Cardinality(L) = 2

(* The cost of an optimal code: join the two lightest nodes until one is     *)
(* left.  Nodes are a set of <<weight, name>>.                               *)
MergeCost(n, nodes) ==
  LET Lightest(S) == CHOOSE v \in S : \A w \in S : v[1] < w[1] \/ (v[1] = w[1] /\ v[2] <= w[2])
      Join(t, fresh) ==
        LET v == Lightest(t.nodes)
            w == Lightest(t.nodes \ {v})
        IN  [nodes |-> (t.nodes \ {v, w}) \cup {<<v[1] + w[1], fresh>>}, cost |-> t.cost + v[1] + w[1]]
      joins == Cardinality(nodes) - 1
      Forests == [nodes : SUBSET (Nat \X Nat), cost : Nat]
  IN  Loop(joins, [nodes |-> nodes, cost |-> 0],
           [k \in 1..joins |-> [t \in Forests |-> Join(t, n + k)]])[joins].cost
Cost(made) == MapThenSumSet(LAMBDA s : freqs[s] * made.lens[s], DOMAIN freqs)

(* The sort and the in-place tree give an optimal code whenever the limit on *)
(* the length does not bind, and the limit changes nothing then; with or     *)
(* without it a more frequent symbol never has the longer codeword.          *)
CodesOptimal ==
  (Compressing /\ Cardinality(Used) >= 2) =>
    LET free    == Made(code.syms - 1)
        limited == Made(code.max)
    IN  /\ Cost(free) = MergeCost(code.syms, {<<freqs[s], s>> : s \in Used})
        /\ (\A s \in Used : free.lens[s] <= code.max) => limited = free
        /\ \A s, t \in Used : freqs[s] > freqs[t] => limited.lens[s] <= limited.lens[t]

(* What the items stand for when they are read back. *)
Copied(item, out) ==
  CASE item[1] = 16 -> [k \in 1..(3 + item[2]) |-> out[Len(out)]]
    [] item[1] = 17 -> [k \in 1..(3 + item[2]) |-> 0]
    [] item[1] = 18 -> [k \in 1..(11 + item[2]) |-> 0]
    [] OTHER        -> <<item[1]>>
Expanded(items) ==
  Loop(Len(items), <<>>,
       [i \in 1..Len(items) |-> [out \in Seq(Nat) |-> out \o Copied(items[i], out)]])[Len(items)]

(* Runs of any length, at and around 3, 6, 10, 11, 138 and their sums, are    *)
(* written as items whose extra bits fit their fields and that read back as   *)
(* the same lengths; a repetition never comes first.                          *)
ItemsReadBack ==
  (WritingRuns /\ lens # <<>>) =>
    LET items == compute_precode_items(lens)
    IN  /\ items[1][1] # 16
        /\ \A i \in DOMAIN items :
             items[i][2] <= CASE items[i][1] = 16 -> 3 [] items[i][1] = 17 -> 7
                              [] items[i][1] = 18 -> 127 [] OTHER -> 0
        /\ Expanded(items) = lens
        /\ SumTo(19, [k \in 1..19 |-> precode_freqs(items)[k - 1]]) = Len(items)
=============================================================================
