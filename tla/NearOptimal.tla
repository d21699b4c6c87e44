---------------------------- MODULE NearOptimal ----------------------------
(***************************************************************************)
(* The near-optimal parser (deflate_compress_near_optimal): the matches of *)
(* a block are cached position by position; when the data changes, the     *)
(* parser goes back to where it last looked, ends the block there, and     *)
(* keeps what it has cached behind that place for the next block.          *)
(***************************************************************************)
EXTENDS Parsers, MinCostPath

CONSTANTS CacheLength  (* MATCH_CACHE_LENGTH *)
MAX_MATCHES_PER_POS == MaxMatch - MIN_MATCH_LEN + 1
ASSUME CacheAssumption == MinBlock * MAX_MATCHES_PER_POS <= CacheLength  (* asserted in the code *)
ASSUME OffsetAssumption == MaxOffset >= Window - 1

VARIABLES cache,       (* match_cache, up to cache_ptr                                *)
          checked,     (* prev_end_block_check, or None                               *)
          observe_at,  (* next_observation                                            *)
          only_lits,   (* prev_block_used_only_literals                               *)
          len_freqs,   (* new_match_len_freqs and match_len_freqs                     *)
          prev,        (* prev_observations and prev_num_observations                 *)
          costs        (* the cost model                                              *)
nearvars == <<cache, checked, observe_at, only_lits, len_freqs, prev, costs>>

None == -1
NoFreqs == [len \in MatchLens |-> 0]
NoLenFreqs == [new |-> NoFreqs, old |-> NoFreqs]
NearInit ==
  /\ cache = <<>> /\ checked = None /\ observe_at = 0 /\ only_lits = FALSE
  /\ len_freqs = NoLenFreqs
  /\ prev = [obs |-> NoObservations, num |-> 0]
  /\ costs = set_costs_from_codes(StaticLens)

IsNear == Parser = "near_optimal"

(* The length that no match has stands for gathering literals only. *)
BeginNear ==
  /\ phase = "begin" /\ IsNear
  /\ checked' = None /\ observe_at' = at /\ phase' = "item"
  /\ min_len' = IF only_lits THEN MaxMatch + 1 ELSE BlockMinLen(begin)
  /\ UNCHANGED <<text, level, at, mf, begin, seqs, literals, stats, recalc, held, found, last,
                 cache, only_lits, len_freqs, prev, costs>>

(***************************************************************************)
(* One position, and all the positions of a very long match behind it.     *)
(***************************************************************************)
BtFind(m) ==
  IF MaxLen(at) >= BT_REQUIRED_NBYTES
  THEN bt_advance_one_byte(m, at, MaxLen(at), NiceLen(at), level.depth, TRUE)
  ELSE [mf |-> m, matches |-> <<>>]

RECURSIVE BtSkip(_, _, _)
BtSkip(m, from, count) ==
  LET One(slid) ==
        IF MaxLen(from) >= BT_REQUIRED_NBYTES
        THEN bt_advance_one_byte(slid, from, NiceLen(from), NiceLen(from), level.depth, FALSE).mf
        ELSE slid
  IN  IF count = 0 THEN m
      ELSE With(With(BtSlid(m, from), One), LAMBDA n : BtSkip(n, from + 1, count - 1))

Entry(p, matches) == <<[length |-> Len(matches), offset |-> Byte(p)]>>

(* Statistics are those of a greedy parse with matches of min_len or more. *)
ObserveItem(best_len) ==
  CASE at >= observe_at /\ best_len >= min_len ->
         /\ stats' = observe_match(stats, best_len)
         /\ observe_at' = at + best_len
         /\ len_freqs' = [len_freqs EXCEPT !.new[best_len] = @ + 1]
    [] at >= observe_at /\ best_len < min_len ->
         /\ stats' = observe_literal(stats, Byte(at))
         /\ observe_at' = at + 1
         /\ UNCHANGED len_freqs
    [] OTHER -> UNCHANGED <<stats, observe_at, len_freqs>>

Passed(best_len) == IF best_len >= 3 /\ best_len >= NiceLen(at) THEN best_len - 1 ELSE 0

NearItem ==
  /\ phase = "item" /\ IsNear
  /\ \E r \in {BtFind(BtSlid(mf, at))} :
       \E best_len \in {IF r.matches = <<>> THEN 0 ELSE r.matches[Len(r.matches)].length} :
         /\ found' = Search(0, level.depth, r.matches)
         /\ ObserveItem(best_len)
         /\ cache' = cache \o r.matches \o Entry(at, r.matches)
                     \o [i \in 1..Passed(best_len) |-> [length |-> 0, offset |-> Byte(at + i)]]
         /\ mf' = BtSkip(r.mf, at + 1, Passed(best_len))
         /\ at' = at + 1 + Passed(best_len)
  /\ phase' = "check"
  /\ UNCHANGED <<text, level, begin, seqs, literals, min_len, recalc, held, last,
                 checked, only_lits, prev, costs>>

(***************************************************************************)
(* Ending a block.                                                         *)
(***************************************************************************)
CacheFull == Len(cache) >= CacheLength

MergedFreqs == [len \in MatchLens |-> len_freqs.old[len] + len_freqs.new[len]]
CheckNear ==
  /\ phase = "check" /\ IsNear
  /\ \/ /\ ~CacheFull => at >= MaxBlockEnd
        /\ phase' = "finish" /\ UNCHANGED <<stats, len_freqs, checked>>
     \/ /\ at < MaxBlockEnd /\ ~CacheFull /\ ~Ready
        /\ phase' = "item" /\ UNCHANGED <<stats, len_freqs, checked>>
     \/ /\ at < MaxBlockEnd /\ ~CacheFull /\ Ready
        /\ do_end_block_check(stats, at - begin)
        /\ phase' = (IF checked = None THEN "finish" ELSE "rewind")
        /\ UNCHANGED <<stats, len_freqs, checked>>
     \/ /\ at < MaxBlockEnd /\ ~CacheFull /\ Ready
        /\ ~do_end_block_check(stats, at - begin)
        /\ phase' = "item" /\ checked' = at
        /\ stats' = merge_new_observations(stats)
        /\ len_freqs' = [new |-> NoFreqs, old |-> MergedFreqs]
  /\ UNCHANGED <<text, level, at, mf, begin, seqs, literals, min_len, recalc, held, found, last,
                 cache, observe_at, only_lits, prev, costs>>

(* How much the block differs from the one before. *)
Change(st) ==
  ChangeAmount(MapThenSumSet(LAMBDA t : AbsDiff(prev.obs[t] * st.num_old, st.old[t] * prev.num),
                             ObservationTypes),
               (prev.num * st.num_old * 200) \div 512)

initial_costs(data, st, freqs) ==
  LET counts == [b \in Literals |-> Cardinality({i \in DOMAIN data : data[i] = b})]
      used   == Max({1, Cardinality({b \in Literals : counts[b] > Len(data) \div 2^11})})
      defaults ==
        default_costs(MatchKind(freqs, choose_min_match_len(used, level.depth), Len(data)), used)
  IN  IF begin = 0 THEN defaults
      ELSE With(defaults, LAMBDA d : adjust_costs(costs, d, Change(st)))

(* The block up to block_end is optimised and written; its statistics are    *)
(* st and freqs, its matches what is in c.                                   *)
optimize_and_flush_block(block_end, st, freqs, c) ==
  \E data \in {SubSeq(text, begin + 1, block_end)} :
    \E choice \in {optimize_block(level, data, c, initial_costs(data, st, freqs))} :
      /\ costs' = choice.costs
      /\ only_lits' = choice.only_lits
      /\ last' = [begin |-> begin, length |-> block_end - begin, items |-> choice.items,
                  literals |-> <<>>, cache |-> c, choice |-> <<choice>>]

SaveStats(st) == prev' = [obs |-> st.old, num |-> st.num_old]

FinishNear ==
  /\ phase = "finish" /\ IsNear
  /\ optimize_and_flush_block(at, merge_new_observations(stats), MergedFreqs, cache)
  /\ SaveStats(merge_new_observations(stats))
  /\ cache' = <<>> /\ stats' = init_block_split_stats /\ len_freqs' = NoLenFreqs
  /\ begin' = at /\ phase' = AfterBlock
  /\ UNCHANGED <<text, level, at, mf, seqs, literals, min_len, recalc, held, found,
                 checked, observe_at>>

RECURSIVE Rewound(_, _)
Rewound(c, count) == IF count = 0 THEN c ELSE With(CacheBefore(c), LAMBDA d : Rewound(d, count - 1))

(* What was cached and observed behind the end of the block is kept. *)
RewindNear ==
  /\ phase = "rewind"
  /\ \E c \in {Rewound(cache, at - checked)} :
       /\ optimize_and_flush_block(checked, stats, len_freqs.old, c)
       /\ cache' = SubSeq(cache, Len(c) + 1, Len(cache))
  /\ SaveStats(stats)
  /\ stats' = [stats EXCEPT !.old = NoObservations, !.num_old = 0]
  /\ len_freqs' = [len_freqs EXCEPT !.old = NoFreqs]
  /\ begin' = checked /\ phase' = "begin"
  /\ UNCHANGED <<text, level, at, mf, seqs, literals, min_len, recalc, held, found,
                 checked, observe_at>>

NearNext == BeginNear \/ NearItem \/ CheckNear \/ FinishNear \/ RewindNear

(***************************************************************************)
(* One call of the compression function of a level.                        *)
(***************************************************************************)
vars == <<parsevars, nearvars>>
Init == ParseInit /\ NearInit
Compressed == phase = "done" /\ UNCHANGED vars
Next == (ParseNext /\ UNCHANGED nearvars) \/ NearNext \/ Compressed
Spec == Init /\ [][Next]_vars
=============================================================================
