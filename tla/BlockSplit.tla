----------------------------- MODULE BlockSplit -----------------------------
(***************************************************************************)
(* When the compressor ends a block, and how short a match it considers:   *)
(* statistics of the literals and matches seen since the start of a block  *)
(* (old) and since the last look at them (new).                            *)
(***************************************************************************)
EXTENDS Integers, Sequences, FiniteSetsExt

CONSTANTS MinBlock,             (* MIN_BLOCK_LENGTH                                  *)
          SoftMaxBlock,         (* SOFT_MAX_BLOCK_LENGTH                             *)
          FastSoftMaxBlock,     (* FAST_SOFT_MAX_BLOCK_LENGTH                        *)
          ObservationsPerCheck, (* NUM_OBSERVATIONS_PER_BLOCK_CHECK                  *)
          ShortBlock,           (* below this length no match is too short: 512      *)
          Literals,             (* the bytes that occur                              *)
          MaxMatch              (* DEFLATE_MAX_MATCH_LEN                             *)
ASSUME SplitAssumption ==
  /\ Literals \subseteq 0..255 /\ MaxMatch \in 5..258
  /\ {MinBlock, ObservationsPerCheck} \subseteq Nat \ {0} /\ ShortBlock \in Nat
  /\ SoftMaxBlock \in Nat /\ FastSoftMaxBlock \in MinBlock..SoftMaxBlock

(* Eight types of literals, by three of their bits, and two of matches. *)
ObservationTypes == 0..9
LiteralType(lit) == 2 * (lit \div 64) + (lit % 2)
MatchType(length) == IF length >= 9 THEN 9 ELSE 8

NoObservations == [t \in ObservationTypes |-> 0]
init_block_split_stats ==
  [new |-> NoObservations, old |-> NoObservations, num_new |-> 0, num_old |-> 0]

Observe(stats, t) == [stats EXCEPT !.new[t] = @ + 1, !.num_new = @ + 1]
observe_literal(stats, lit)  == Observe(stats, LiteralType(lit))
observe_match(stats, length) == Observe(stats, MatchType(length))

merge_new_observations(stats) ==
  [new |-> NoObservations, old |-> [t \in ObservationTypes |-> stats.old[t] + stats.new[t]],
   num_new |-> 0, num_old |-> stats.num_old + stats.num_new]

AbsDiff(a, b) == IF a > b THEN a - b ELSE b - a

(* The probabilities of the types differ by 200/512 in all, or by more if    *)
(* the block is short; a long block ends more readily.                       *)
do_end_block_check(stats, block_length) ==
  LET delta == MapThenSumSet(LAMBDA t : AbsDiff(stats.new[t] * stats.num_old,
                                                stats.old[t] * stats.num_new), ObservationTypes)
      items  == stats.num_old + stats.num_new
      cutoff == ((stats.num_new * 200) \div 512) * stats.num_old
      more   == IF block_length < 10000 /\ items < 8192
                THEN (cutoff * (8192 - items)) \div 8192 ELSE 0
  IN  stats.num_old > 0 /\ delta + (block_length \div 4096) * stats.num_old >= cutoff + more

ready_to_check_block(stats, begin, at, end) ==
  /\ stats.num_new >= ObservationsPerCheck
  /\ at - begin >= MinBlock
  /\ end - at >= MinBlock

choose_max_block_end(begin, end, soft_max_len) ==
  IF end - begin < soft_max_len + MinBlock THEN end ELSE begin + soft_max_len

(***************************************************************************)
(* The shortest match the greedy and lazy parsers take.                    *)
(***************************************************************************)
min_lens(num_used_literals) ==
  CASE num_used_literals < 6 -> 9 [] num_used_literals \in 6..7 -> 8
    [] num_used_literals \in 8..9 -> 7 [] num_used_literals \in 10..15 -> 6
    [] num_used_literals \in 16..44 -> 5 [] num_used_literals \in 45..79 -> 4 [] OTHER -> 3
MaxMinLen(depth) ==
  CASE depth < 5 -> 4 [] depth \in 5..9 -> 5 [] depth \in 10..15 -> 7 [] OTHER -> 9
choose_min_match_len(num_used_literals, depth) == Min({min_lens(num_used_literals), MaxMinLen(depth)})

calculate_min_match_len(data, depth) ==
  IF Len(data) < ShortBlock THEN 3
  ELSE choose_min_match_len(Cardinality({data[i] : i \in 1..Min({Len(data), 4096})}), depth)

(* literals[b]: how often the literal b was chosen in the block. *)
UsedLiterals(literals, shift) ==
  LET cutoff == MapThenSumSet(LAMBDA b : literals[b], DOMAIN literals) \div 2^shift
  IN  Cardinality({b \in DOMAIN literals : literals[b] > cutoff})
recalculate_min_match_len(literals, depth) ==
  choose_min_match_len(UsedLiterals(literals, 10), depth)
=============================================================================
