---------------------------- MODULE MinCostPath ----------------------------
(***************************************************************************)
(* How the near-optimal parser chooses the items of a block: the cheapest  *)
(* path through the matches it has cached, under a model of what each      *)
(* symbol costs, again and again with the costs that the last path's codes *)
(* give (deflate_optimize_and_flush_block).                                *)
(*                                                                         *)
(* The cache is a list of [length, offset]: for each position its matches, *)
(* and behind them an entry with how many they are and the literal.        *)
(* Items are <<1, byte>> and <<length, offset>>, as in DeflateBlock.       *)
(***************************************************************************)
EXTENDS BlockSplit, DeflateTables, Loops

CONSTANTS MaxOffset,     (* the farthest match                                        *)
          MakeCodes(_),  (* codeword lengths and bits of the header for frequencies:
                            Huffman and DeflateBlock model how they are made          *)
          Unreachable,   (* 0x80000000: costs more than any path                      *)
          Infinite       (* UINT32_MAX                                                *)
ASSUME PathAssumption ==
  /\ MaxOffset \in 1..MAX_MATCH_OFFSET /\ Unreachable \in Nat /\ Infinite \in Nat
  /\ Cardinality(Literals) \in 1..4  (* as many as the tables of defaults below have *)

BIT_COST == 16
LITERAL_NOSTAT_BITS == 13
LENGTH_NOSTAT_BITS  == 13
OFFSET_NOSTAT_BITS  == 10

MatchLens   == MIN_MATCH_LEN..MaxMatch
LengthSlots == 0..length_slot(MaxMatch)
OffsetSlots == 0..offset_slot_full(MaxOffset)

AtMost(a, b) == IF a < b THEN a ELSE b

(***************************************************************************)
(* Cost models.                                                            *)
(***************************************************************************)
Bits(lens, sym, nostat) == IF lens[sym] # 0 THEN lens[sym] ELSE nostat

set_costs_from_codes(lens) ==
  [literal |-> [b \in Literals |-> BIT_COST * Bits(lens.literal, b, LITERAL_NOSTAT_BITS)],
   length  |-> [len \in MatchLens |->
                  BIT_COST * (Bits(lens.length, length_slot(len), LENGTH_NOSTAT_BITS)
                              + extra_length_bits[length_slot(len) + 1])],
   offset  |-> [slot \in OffsetSlots |->
                  BIT_COST * (Bits(lens.offset, slot, OFFSET_NOSTAT_BITS)
                              + extra_offset_bits[slot + 1])]]

StaticLens ==
  [literal |-> [b \in Literals |-> IF b < 144 THEN 8 ELSE 9], length |-> [s \in LengthSlots |-> 7],
   offset  |-> [s \in OffsetSlots |-> 5]]

(* The tables of defaults, by whether there are few, some or many matches;   *)
(* of the cost of a literal, the entries for up to four literals.            *)
used_lits_to_lit_cost == << <<6, 6, 22, 32, 38>>, <<16, 16, 32, 41, 48>>, <<32, 32, 48, 57, 64>> >>
len_sym_cost == <<109, 93, 84>>

default_costs(kind, num_used_literals) ==
  [literal |-> [b \in Literals |-> used_lits_to_lit_cost[kind][num_used_literals + 1]],
   length  |-> [len \in MatchLens |->
                  len_sym_cost[kind] + BIT_COST * extra_length_bits[length_slot(len) + 1]],
   offset  |-> [slot \in OffsetSlots |->
                  4 * BIT_COST + ((907 * BIT_COST) \div 1000)
                  + BIT_COST * extra_offset_bits[slot + 1]]]

(* Frequencies of a greedy parse with matches of at least min_len: few, some *)
(* or many matches.                                                          *)
MatchKind(match_len_freqs, min_len, block_length) ==
  LET lens     == {len \in DOMAIN match_len_freqs : len >= min_len}
      matches  == MapThenSumSet(LAMBDA len : match_len_freqs[len], lens)
      literals == block_length - MapThenSumSet(LAMBDA len : len * match_len_freqs[len], lens)
      positive == IF literals < 0 THEN 0 ELSE literals
  IN  CASE matches > positive -> 3
        [] matches <= positive /\ 4 * matches > positive -> 2
        [] OTHER -> 1

(* From 0, for a block much like the one before, to 3. *)
MixedCost(cost, default, change) ==
  CASE change = 0 -> (default + 3 * cost) \div 4
    [] change = 1 -> (default + cost) \div 2
    [] change = 2 -> (5 * default + 3 * cost) \div 8
    [] change = 3 -> (3 * default + cost) \div 4
    [] OTHER -> default
ChangeAmount(delta, cutoff) ==
  CASE delta > 3 * cutoff -> 4
    [] delta <= 3 * cutoff /\ 4 * delta > 9 * cutoff -> 3
    [] 4 * delta <= 9 * cutoff /\ 2 * delta > 3 * cutoff -> 2
    [] 2 * delta <= 3 * cutoff /\ 2 * delta > cutoff -> 1
    [] OTHER -> 0
adjust_costs(costs, defaults, change) ==
  [kind \in DOMAIN costs |->
     [x \in DOMAIN costs[kind] |-> MixedCost(costs[kind][x], defaults[kind][x], change)]]

(***************************************************************************)
(* The cheapest path: backwards from the end of the block.  nodes[i] is    *)
(* the node i - 1 positions behind the one that is looked at.              *)
(***************************************************************************)
EndNodes == [i \in 1..MaxMatch |-> [cost_to_end |-> IF i = 1 THEN 0 ELSE Unreachable, item |-> <<>>]]

(* The last position of the cache; what is in front of it. *)
NumMatches(cache)  == cache[Len(cache)].length
MatchesHere(cache) == SubSeq(cache, Len(cache) - NumMatches(cache), Len(cache) - 1)
CacheBefore(cache) == SubSeq(cache, 1, Len(cache) - 1 - NumMatches(cache))

(* Every length, each with the first match that has it. *)
MatchItems(matches) ==
  UNION {{<<len, matches[m].offset>> :
            len \in (IF m = 1 THEN 3 ELSE matches[m - 1].length + 1)..matches[m].length}
         : m \in DOMAIN matches}

ItemCost(costs, item) ==
  IF item[1] = 1 THEN costs.literal[item[2]]
  ELSE costs.offset[offset_slot_full(item[2])] + costs.length[item[1]]

(* Among equal ones the literal, then the shortest match. *)
BestNode(costs, items, nodes) ==
  LET priced == {[cost_to_end |-> ItemCost(costs, item) + nodes[item[1]].cost_to_end,
                  item |-> item] : item \in items}
  IN  CHOOSE x \in priced : \A y \in priced :
        \/ x.cost_to_end < y.cost_to_end
        \/ x.cost_to_end = y.cost_to_end /\ x.item[1] <= y.item[1]

RECURSIVE NodesFrom(_, _, _, _)
NodesFrom(costs, cache, n, nodes) ==
  IF n = 0 THEN nodes
  ELSE With(BestNode(costs, {<<1, cache[Len(cache)].offset>>} \cup MatchItems(MatchesHere(cache)), nodes),
            LAMBDA node : With(CacheBefore(cache),
              LAMBDA before : NodesFrom(costs, before, n - 1, <<node>> \o nodes)))

RECURSIVE ItemsOnPath(_, _, _)
ItemsOnPath(nodes, at, n) ==
  IF at >= n THEN <<>>
  ELSE <<nodes[at + 1].item>> \o ItemsOnPath(nodes, at + nodes[at + 1].item[1], n)

find_min_cost_path(costs, cache, block_length) ==
  With(NodesFrom(costs, cache, block_length, EndNodes),
       LAMBDA nodes : [cost |-> nodes[1].cost_to_end, items |-> ItemsOnPath(nodes, 0, block_length)])

(***************************************************************************)
(* What a list of items really costs.                                      *)
(***************************************************************************)
Count(items, Is(_)) == Cardinality({i \in DOMAIN items : Is(items[i])})
Tally(items) ==
  [literal |-> [b \in Literals |-> Count(items, LAMBDA it : it = <<1, b>>)],
   length  |-> [s \in LengthSlots |-> Count(items, LAMBDA it : it[1] # 1 /\ length_slot(it[1]) = s)],
   offset  |-> [s \in OffsetSlots |-> Count(items, LAMBDA it : it[1] # 1 /\ offset_slot_full(it[2]) = s)]]

TrueCost(freqs, codes) ==
  LET Sum(kind, Cost(_)) ==
        MapThenSumSet(LAMBDA s : freqs[kind][s] * (codes[kind][s] + Cost(s)), DOMAIN freqs[kind])
  IN  codes.header + codes.end_of_block
      + Sum("literal", LAMBDA b : 0) + Sum("length", LAMBDA s : extra_length_bits[s + 1])
      + Sum("offset", LAMBDA s : extra_offset_bits[s + 1])

Priced(items) ==
  With(Tally(items),
       LAMBDA freqs : With(MakeCodes(freqs),
         LAMBDA codes : [items |-> items, codes |-> codes, cost |-> TrueCost(freqs, codes)]))

choose_all_literals(data) == Priced([i \in DOMAIN data |-> <<1, data[i]>>])

(***************************************************************************)
(* Passes.  p has the costs for the next pass, the last pass's path and    *)
(* the costs it was found under, the best cost so far and the costs that   *)
(* gave it; limits are the fields of the level that say when to stop.      *)
(***************************************************************************)
RECURSIVE Passes(_, _, _, _)
Passes(limits, cache, n, p) ==
  LET Pass(now) ==
        LET better == [p EXCEPT !.last = now, !.under = p.costs, !.best = now.cost, !.saved = p.costs,
                                !.costs = set_costs_from_codes(now.codes), !.left = @ - 1,
                                !.tried = @ \cup {now.cost}]
        IN  CASE now.cost + limits.min_improvement > p.best ->
                   [p EXCEPT !.last = now, !.under = p.costs, !.tried = @ \cup {now.cost}]
              [] now.cost + limits.min_improvement <= p.best /\ p.left = 1 -> better
              [] OTHER -> With(better, LAMBDA q : Passes(limits, cache, n, q))
  IN  With(Priced(find_min_cost_path(p.costs, cache, n).items), Pass)

(* The items of the block and the costs that are left behind; under is the   *)
(* model that the items are the cheapest under, if they are not all          *)
(* literals; real is what they really cost, tried what everything that was   *)
(* tried would have cost.                                                    *)
Chosen(only_lits, items, costs, under, real, tried) ==
  [only_lits |-> only_lits, items |-> items, costs |-> costs, under |-> under,
   real |-> real, tried |-> tried]

(* mutant: a worse last pass is kept *)
KeepsLastAlways(limits, p) == TRUE
KeepsLast(limits, p) == p.last.cost < p.best + limits.min_bits

optimize_block(limits, data, cache, initial_costs) ==
  LET n == Len(data)
      static_costs == set_costs_from_codes(StaticLens)
      StaticPath == find_min_cost_path(static_costs, cache, n)
      Choose(lits, static, p) ==
        LET tried == p.tried \cup {lits.cost} \cup (IF static.cost = Infinite THEN {} ELSE {static.cost})
        IN  CASE AtMost(lits.cost, static.cost) < p.best /\ lits.cost < static.cost ->
                   Chosen(TRUE, lits.items, set_costs_from_codes(lits.codes), static_costs, lits.cost, tried)
              [] AtMost(lits.cost, static.cost) < p.best /\ lits.cost >= static.cost ->
                   Chosen(FALSE, static.items, static_costs, static_costs, static.cost, tried)
              [] AtMost(lits.cost, static.cost) >= p.best /\ ~KeepsLast(limits, p) ->
                   With(Priced(find_min_cost_path(p.saved, cache, n).items),
                        LAMBDA best : Chosen(FALSE, best.items, set_costs_from_codes(best.codes),
                                             p.saved, best.cost, tried))
              [] OTHER ->
                   Chosen(FALSE, p.last.items, p.costs, p.under, p.last.cost, tried)
      first == [costs |-> initial_costs, saved |-> initial_costs, best |-> Infinite,
                left |-> limits.passes, last |-> <<>>, under |-> <<>>, tried |-> {}]
      Static(path) == [items |-> path.items, cost |-> (path.cost \div BIT_COST) + 7]
  IN  With(choose_all_literals(data), LAMBDA lits :
        With(IF n <= limits.max_static THEN Static(StaticPath) ELSE [items |-> <<>>, cost |-> Infinite],
             LAMBDA static :
               With(Passes(limits, cache, n, first), LAMBDA p : Choose(lits, static, p))))
=============================================================================
