------------------------------ MODULE Parsers ------------------------------
(***************************************************************************)
(* How the fastest, greedy, lazy and lazy2 parsers of deflate_compress.c   *)
(* divide the text into literals, matches and blocks.  An action is one    *)
(* search and what is decided by it, a look whether to end the block, or   *)
(* the end of one.  phase is where the loop of the parser is:              *)
(*   begin   a block starts              item    the next item is chosen   *)
(*   match   lazy: held may be bettered  match2  lazy2: once more          *)
(*   check   end the block here?         finish  the block is written      *)
(***************************************************************************)
EXTENDS MatchFinders, BlockSplit

CONSTANTS Texts,       (* the texts that are compressed                                 *)
          Levels,      (* records: parser, max_search_depth as depth, nice_match_length
                          as nice, and the limits of the near-optimal parser            *)
          SeqStore,    (* SEQ_STORE_LENGTH                                              *)
          FastSeqStore,(* FAST_SEQ_STORE_LENGTH                                         *)
          GreedyFar,   (* greedy: the farthest match of three bytes: 4096               *)
          LazyFar,     (* lazy: 8192                                                    *)
          RecalcAfter  (* lazy: bytes before the shortest match is chosen anew: 10000   *)
ASSUME ParserAssumption ==
  /\ {GreedyFar, LazyFar, RecalcAfter} \subseteq Nat
  (* check_buildtime_parameters *)
  /\ 3 * SeqStore \in MinBlock..(SoftMaxBlock + MinBlock)
  /\ 4 * FastSeqStore \in MinBlock..(FastSoftMaxBlock + MinBlock)

VARIABLES level,     (* the level of compression                                       *)
          at,        (* in_next                                                        *)
          mf,        (* the match finder                                               *)
          phase,     (* see above                                                      *)
          begin,     (* in_block_begin                                                 *)
          seqs,      (* the sequences of the block: a run of literals, then a match    *)
          literals,  (* freqs.litlen: how often each literal was chosen                *)
          stats,     (* split_stats                                                    *)
          min_len,   (* shortest match that is taken                                   *)
          recalc,    (* next_recalc_min_len                                            *)
          held,      (* lazy: cur_len and cur_offset                                   *)
          found,     (* history: the last search, and what it found                    *)
          last       (* history: the block written last                                *)
parsevars == <<text, level, at, mf, phase, begin, seqs, literals, stats, min_len, recalc, held,
               found, last>>

Parser == level.parser
MaxLen(p)  == Min({MaxMatch, End - p})
NiceLen(p) == Min({level.nice, MaxLen(p)})

SoftMax == IF Parser = "fastest" THEN FastSoftMaxBlock ELSE SoftMaxBlock
Store   == IF Parser = "fastest" THEN FastSeqStore ELSE SeqStore
MaxBlockEnd == choose_max_block_end(begin, End, SoftMax)
BlockMinLen(from) ==
  calculate_min_match_len(SubSeq(text, from + 1, choose_max_block_end(from, End, SoftMax)),
                          level.depth)

NoLiterals == [b \in Literals |-> 0]
NewSeq == [run |-> 0, len |-> 0, offset |-> 0]

(* What a search with these limits found: the matches that better best. *)
Search(best, depth, matches) ==
  [at |-> at, best |-> best, max |-> MaxLen(at), nice |-> NiceLen(at), depth |-> depth,
   parser |-> Parser, matches |-> matches]
Bettered(best, f) ==
  IF f.len > best THEN <<[length |-> f.len, offset |-> f.offset]>> ELSE <<>>

NoSearch == [at |-> 0, best |-> 0, max |-> 0, nice |-> 0, depth |-> 0, parser |-> "none",
             matches |-> <<>>]
NoBlock  == [begin |-> 0, length |-> 0, items |-> <<>>, literals |-> <<>>,
             cache |-> <<>>, choice |-> <<>>]

ParseInit ==
  /\ text \in Texts /\ level \in Levels
  /\ at = 0 /\ begin = 0 /\ phase = "begin"
  /\ mf = (CASE Parser = "fastest" -> ht_init
             [] Parser \in {"greedy", "lazy", "lazy2"} -> hc_init
             [] OTHER -> bt_init)
  /\ seqs = <<NewSeq>> /\ literals = NoLiterals /\ stats = init_block_split_stats
  /\ min_len = 3 /\ recalc = 0 /\ held = [len |-> 0, offset |-> 0]
  /\ found = NoSearch /\ last = NoBlock

(***************************************************************************)
(* deflate_choose_literal, deflate_choose_match.                           *)
(***************************************************************************)
WithLiteral(ss) == [ss EXCEPT ![Len(ss)].run = @ + 1]
Observed(st) == IF Parser = "fastest" THEN stats ELSE st

ChooseLiteral(p) ==
  /\ seqs' = WithLiteral(seqs)
  /\ literals' = [literals EXCEPT ![Byte(p)] = @ + 1]
  /\ stats' = Observed(observe_literal(stats, Byte(p)))

ChooseMatch(len, offset) ==
  /\ seqs' = Append([seqs EXCEPT ![Len(seqs)].len = len, ![Len(seqs)].offset = offset], NewSeq)
  /\ stats' = Observed(observe_match(stats, len))
  /\ UNCHANGED literals

(***************************************************************************)
(* Blocks.                                                                 *)
(***************************************************************************)
BeginBlock ==
  /\ phase = "begin" /\ Parser # "near_optimal"
  /\ begin' = at /\ phase' = "item"
  /\ seqs' = <<NewSeq>> /\ literals' = NoLiterals /\ stats' = init_block_split_stats
  /\ min_len' = BlockMinLen(at)
  /\ recalc' = at + Min({End - at, RecalcAfter})
  /\ UNCHANGED <<text, level, at, mf, held, found, last>>

Full == at >= MaxBlockEnd \/ Len(seqs) > Store

Ready == Parser # "fastest" /\ ready_to_check_block(stats, begin, at, End)
Check ==
  /\ phase = "check" /\ Parser # "near_optimal"
  /\ \/ (~Full => Ready /\ do_end_block_check(stats, at - begin))
        /\ phase' = "finish" /\ UNCHANGED stats
     \/ ~Full /\ ~Ready /\ phase' = "item" /\ UNCHANGED stats
     \/ ~Full /\ Ready /\ ~do_end_block_check(stats, at - begin)
        /\ phase' = "item" /\ stats' = merge_new_observations(stats)
  /\ UNCHANGED <<text, level, at, mf, begin, seqs, literals, min_len, recalc, held, found, last>>

(* The literals of a run are read from the text when the block is written. *)
RECURSIVE Items(_, _)
Items(ss, from) ==
  IF ss = <<>> THEN <<>>
  ELSE LET seq == Head(ss)
       IN  [i \in 1..seq.run |-> <<1, Byte(from + i - 1)>>]
           \o (IF seq.len = 0 THEN <<>>
               ELSE <<<<seq.len, seq.offset>>>> \o Items(Tail(ss), from + seq.run + seq.len))

AfterBlock == IF at = End THEN "done" ELSE "begin"
FinishBlock ==
  /\ phase = "finish" /\ Parser # "near_optimal"
  /\ last' = [begin |-> begin, length |-> at - begin, items |-> Items(seqs, begin),
              literals |-> literals, cache |-> <<>>, choice |-> <<>>]
  /\ phase' = AfterBlock
  /\ UNCHANGED <<text, level, at, mf, begin, seqs, literals, stats, min_len, recalc, held, found>>

(***************************************************************************)
(* Fastest.                                                                *)
(***************************************************************************)
FastestTail ==
  /\ phase = "item" /\ Parser = "fastest" /\ MaxLen(at) < HT_REQUIRED_NBYTES
  /\ seqs' = [seqs EXCEPT ![Len(seqs)].run = @ + (End - at)]
  /\ literals' = [b \in Literals |-> literals[b] + Cardinality({p \in at..(End - 1) : Byte(p) = b})]
  /\ at' = End /\ phase' = "finish"
  /\ UNCHANGED <<text, level, mf, begin, stats, min_len, recalc, held, found, last>>

FastestItem ==
  /\ phase = "item" /\ Parser = "fastest" /\ MaxLen(at) >= HT_REQUIRED_NBYTES
  /\ \E r \in {ht_longest_match(mf, at, MaxLen(at), NiceLen(at))} :
       /\ found' = Search(0, 2, Bettered(0, r.found))
       /\ \/ /\ r.found.len > 0
             /\ ChooseMatch(r.found.len, r.found.offset)
             /\ mf' = ht_skip_bytes(r.mf, at + 1, r.found.len - 1)
             /\ at' = at + r.found.len
          \/ /\ r.found.len = 0
             /\ ChooseLiteral(at)
             /\ mf' = r.mf /\ at' = at + 1
  /\ phase' = "check"
  /\ UNCHANGED <<text, level, begin, min_len, recalc, held, last>>

(***************************************************************************)
(* Greedy.                                                                 *)
(***************************************************************************)
GreedyItem ==
  /\ phase = "item" /\ Parser = "greedy"
  /\ \E r \in {hc_longest_match(mf, at, min_len - 1, MaxLen(at), NiceLen(at), level.depth)} :
       LET takes == /\ r.found.len >= min_len
                    /\ (r.found.len > 3 \/ r.found.offset <= GreedyFar)
       IN  /\ found' = Search(min_len - 1, level.depth, Bettered(min_len - 1, r.found))
           /\ \/ /\ takes
                 /\ ChooseMatch(r.found.len, r.found.offset)
                 /\ mf' = hc_skip_bytes(r.mf, at + 1, r.found.len - 1)
                 /\ at' = at + r.found.len
              \/ /\ ~takes
                 /\ ChooseLiteral(at)
                 /\ mf' = r.mf /\ at' = at + 1
  /\ phase' = "check"
  /\ UNCHANGED <<text, level, begin, min_len, recalc, held, last>>

(***************************************************************************)
(* Lazy: a match is held while the next position, with lazy2 the next two, *)
(* may have a better one.                                                  *)
(***************************************************************************)
IsLazy == Parser \in {"lazy", "lazy2"}

RecalcedMinLen ==
  IF at >= recalc THEN recalculate_min_match_len(literals, level.depth) ELSE min_len
LazyItem ==
  /\ phase = "item" /\ IsLazy
  /\ min_len' = RecalcedMinLen
  /\ recalc' = IF at >= recalc THEN recalc + Min({End - recalc, at - begin}) ELSE recalc
  /\ \E m \in {RecalcedMinLen} :
       \E r \in {hc_longest_match(mf, at, m - 1, MaxLen(at), NiceLen(at), level.depth)} :
         LET takes == r.found.len >= m /\ ~(r.found.len = 3 /\ r.found.offset > LazyFar)
         IN  /\ found' = Search(m - 1, level.depth, Bettered(m - 1, r.found))
             /\ mf' = r.mf /\ at' = at + 1
             /\ \/ /\ takes
                   /\ held' = r.found /\ phase' = "match"
                   /\ UNCHANGED <<seqs, literals, stats>>
                \/ /\ ~takes
                   /\ ChooseLiteral(at)
                   /\ phase' = "check" /\ UNCHANGED held
  /\ UNCHANGED <<text, level, begin, last>>

(* mutant: the position of the match itself is skipped again *)
TakeHeldTwice(m, from, looked) ==
  /\ ChooseMatch(held.len, held.offset)
  /\ mf' = hc_skip_bytes(m, from, held.len - looked + 1)
  /\ at' = from + held.len - looked + 1
  /\ phase' = "check"
  /\ UNCHANGED held
(* The match that is held is taken: looked of its positions were searched. *)
TakeHeld(m, from, looked) ==
  /\ ChooseMatch(held.len, held.offset)
  /\ mf' = IF held.len = looked THEN m ELSE hc_skip_bytes(m, from, held.len - looked)
  /\ at' = from + held.len - looked
  /\ phase' = "check"
  /\ UNCHANGED held

TakeLongMatch ==
  /\ phase = "match" /\ held.len >= found.nice
  /\ TakeHeld(mf, at, 1)
  /\ UNCHANGED <<text, level, begin, min_len, recalc, found, last>>

bsr32(n) == CHOOSE k \in 0..15 : 2^k <= n /\ n < 2^(k + 1)
Better(next, by) ==
  next.len >= held.len /\ 4 * (next.len - held.len) + (bsr32(held.offset) - bsr32(next.offset)) > by

LookAhead ==
  /\ phase = "match" /\ held.len < found.nice
  /\ \E r \in {hc_longest_match(mf, at, held.len - 1, MaxLen(at), NiceLen(at), level.depth \div 2)} :
       /\ found' = Search(held.len - 1, level.depth \div 2, Bettered(held.len - 1, r.found))
       /\ \/ /\ Better(r.found, 2)
             /\ ChooseLiteral(at - 1)
             /\ held' = r.found /\ mf' = r.mf /\ at' = at + 1
             /\ UNCHANGED phase
          \/ /\ ~Better(r.found, 2) /\ Parser = "lazy2"
             /\ mf' = r.mf /\ at' = at + 1 /\ phase' = "match2"
             /\ UNCHANGED <<seqs, literals, stats, held>>
          \/ /\ ~Better(r.found, 2) /\ Parser = "lazy"
             /\ TakeHeld(r.mf, at + 1, 2)
  /\ UNCHANGED <<text, level, begin, min_len, recalc, last>>

LookFurther ==
  /\ phase = "match2"
  /\ \E r \in {hc_longest_match(mf, at, held.len - 1, MaxLen(at), NiceLen(at), level.depth \div 4)} :
       /\ found' = Search(held.len - 1, level.depth \div 4, Bettered(held.len - 1, r.found))
       /\ \/ /\ Better(r.found, 6)
             /\ seqs' = WithLiteral(WithLiteral(seqs))
             /\ literals' = [b \in Literals |->
                  literals[b] + Cardinality({p \in {at - 2, at - 1} : Byte(p) = b})]
             /\ stats' = observe_literal(observe_literal(stats, Byte(at - 2)), Byte(at - 1))
             /\ held' = r.found /\ mf' = r.mf /\ at' = at + 1 /\ phase' = "match"
          \/ /\ ~Better(r.found, 6)
             /\ TakeHeld(r.mf, at + 1, 3)
  /\ UNCHANGED <<text, level, begin, min_len, recalc, last>>

ParseNext ==
  \/ BeginBlock \/ Check \/ FinishBlock
  \/ FastestTail \/ FastestItem \/ GreedyItem
  \/ LazyItem \/ TakeLongMatch \/ LookAhead \/ LookFurther
=============================================================================
