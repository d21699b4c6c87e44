---------------------------- MODULE LzProperties ----------------------------
(***************************************************************************)
(* What the match finders and the parsers promise.                         *)
(***************************************************************************)
EXTENDS NearOptimal, SequencesExt

(* How many bytes at p and at q agree, at most max. *)
Agreement(p, q, max) ==
  CHOOSE n \in 0..max :
    /\ \A i \in 0..(n - 1) : text[p + i + 1] = text[q + i + 1]
    /\ n < max => text[p + n + 1] # text[q + n + 1]

(***************************************************************************)
(* Searches.                                                               *)
(***************************************************************************)
(* A match that is reported lies in the window and in front of the position, *)
(* and its bytes are those at the position.                                  *)
MatchesTrue ==
  \A m \in ToSet(found.matches) :
    /\ m.offset \in 1..(Window - 1) /\ m.offset <= found.at
    /\ m.length \in (found.best + 1)..found.max
    /\ Agreement(found.at, found.at - m.offset, m.length) = m.length

(* The list of a position: at most one match of each length up to the nice   *)
(* one, the longer the farther.                                              *)
MatchesOrdered ==
  /\ Len(found.matches) <= MAX_MATCHES_PER_POS
  /\ found.matches # <<>> => Len(found.matches) <= found.nice - 2
  /\ \A i, j \in DOMAIN found.matches : i < j =>
       /\ found.matches[i].length < found.matches[j].length
       /\ found.matches[i].offset <= found.matches[j].offset

(* The first position of all is entered under the wrong hash. *)
Candidates == {q \in (found.at - Window + 1)..(found.at - 1) : q >= 1}
Reports(length, q) ==
  \E m \in ToSet(found.matches) :
    m.length >= length /\ (found.parser = "near_optimal" => m.offset <= found.at - q)

(* With depth enough, no longer match is missed, whichever way the hashes    *)
(* collide and the window slides; nor is, of equally long ones, the nearest. *)
ChainsMissNone ==
  found.depth >= Window /\ found.best < found.nice =>
    \A q \in Candidates :
      LET n == Agreement(found.at, q, found.max)
      IN  n >= 4 /\ n > found.best =>
            /\ Reports(Min({n, found.nice}), q)
            /\ \A m \in ToSet(found.matches) :
                 m.length = Min({n, found.nice}) => m.offset <= found.at - q

(* The latest two positions of a bucket are looked at. *)
SameBucket(n) == {q \in Candidates : Bucket(q, n) = Bucket(found.at, n)}
LatestSeen ==
  \A q \in SameBucket(4) :
    found.parser = "fastest" /\ Cardinality({r \in SameBucket(4) : r > q}) < 2 =>
      LET n == Agreement(found.at, q, found.max)
      IN  n >= 4 => Reports(Min({n, found.nice}), q)
ThreesSeen ==
  \A q \in SameBucket(3) :
    /\ found.parser \in {"greedy", "lazy", "lazy2", "near_optimal"}
    /\ found.best < 3 /\ q = Max(SameBucket(3)) /\ Agreement(found.at, q, 3) = 3
    => Reports(3, q)

(* Every search of every match finder: what it reports is true and in order, *)
(* and what it must find is not missed, although positions slide out of the  *)
(* window, tables are reused uncleared, hashes collide and are computed one  *)
(* position ahead (ht_, hc_ and bt_matchfinder.h).                           *)
MatchesBest ==
  found.parser # "none" =>
    /\ MatchesTrue /\ MatchesOrdered
    /\ found.max >= 5 => ChainsMissNone /\ LatestSeen /\ ThreesSeen

(***************************************************************************)
(* Blocks.                                                                 *)
(***************************************************************************)
ItemLen(item) == item[1]
Starts(items, from) ==
  LET start[i \in 1..(Len(items) + 1)] ==
        IF i = 1 THEN from ELSE start[i - 1] + ItemLen(items[i - 1])
  IN  start

(* Decoded one after the other behind the text before the block, the items   *)
(* give the block: the literals are its bytes, the matches its repetitions.  *)
Reproduced(items, from, to) ==
  LET start == Starts(items, from)
  IN  /\ start[Len(items) + 1] = to
      /\ \A i \in DOMAIN items :
           IF items[i][1] = 1 THEN items[i][2] = text[start[i] + 1]
           ELSE /\ items[i][2] \in 1..(Window - 1) /\ items[i][2] <= start[i]
                /\ items[i][1] \in 3..MaxMatch
                /\ Agreement(start[i], start[i] - items[i][2], items[i][1]) = items[i][1]

(* The frequencies that the literals' codewords are made from. *)
LiteralsCounted(block) ==
  \A b \in DOMAIN block.literals :
    block.literals[b] = Cardinality({i \in DOMAIN block.items : block.items[i] = <<1, b>>})

(* MAX_BLOCK_LENGTH, which the nodes of the near-optimal parser are made for. *)
(* The lazy parsers may choose literals beyond the end of a block as long as *)
(* each next match is better, which 4 * length - bsr32(offset) bounds.       *)
MaxBlock ==
  IF IsLazy THEN SoftMaxBlock + ((4 * MaxMatch + 3) \div 3) + MinBlock + MaxMatch
  ELSE Max({SoftMaxBlock + MinBlock - 1, SoftMaxBlock + 1 + MaxMatch})

StoresFit ==
  /\ Len(seqs) <= Store + 1
  /\ Len(cache) <= CacheLength + MAX_MATCHES_PER_POS + MaxMatch - 1

(* Every block that is written stands for its part of the text and follows   *)
(* the block before it; none but the last is shorter than MIN_BLOCK_LENGTH,  *)
(* which libdeflate_deflate_compress_bound depends on, and none is too long  *)
(* for the optimum nodes; the sequence store and the match cache suffice.    *)
BlocksFaithful ==
  /\ StoresFit
  /\ phase \in {"begin", "done"} /\ last.length > 0 =>
       /\ Reproduced(last.items, last.begin, last.begin + last.length)
       /\ LiteralsCounted(last)
       /\ last.length <= MaxBlock
       /\ last.begin + last.length < End => last.length >= MinBlock
       /\ phase = "done" => last.begin + last.length = End
  /\ phase \notin {"begin", "done"} => begin = last.begin + last.length

(***************************************************************************)
(* Paths.                                                                  *)
(***************************************************************************)
(* The entry of each position of the block, found from its end. *)
RECURSIVE HeadsOf(_, _)
HeadsOf(c, n) ==
  IF n = 0 THEN <<>> ELSE Append(HeadsOf(CacheBefore(c), n - 1), Len(c))

(* Forwards, from node to node: the least cost of reaching each of them with *)
(* a literal, or with the nearest match of every length that was found.      *)
Edges(c, heads, n) ==
  {<<p, p + 1, <<1, c[heads[p + 1]].offset>>>> : p \in 0..(n - 1)} \cup
  UNION {UNION {{<<p, p + len, <<len, c[k].offset>>>> : len \in 3..c[k].length}
                : k \in (heads[p + 1] - c[heads[p + 1]].length)..(heads[p + 1] - 1)} : p \in 0..(n - 1)}
Nearest(edges) ==
  {e \in edges : \A f \in edges : f[1] = e[1] /\ f[2] = e[2] /\ e[3][1] # 1 => e[3][2] <= f[3][2]}
RECURSIVE LeastCosts(_, _, _, _)
LeastCosts(under, edges, n, least) ==  \* least[p + 1]: of reaching the node p
  IF Len(least) > n THEN least
  ELSE With(Append(least, Min({least[e[1] + 1] + ItemCost(under, e[3])
                                 : e \in {e \in edges : e[2] = Len(least)}})),
            LAMBDA more : LeastCosts(under, edges, n, more))
LeastCost(under, edges, n) == LeastCosts(under, edges, n, <<0>>)[n + 1]
CostOf(under, items) ==
  LET cost[i \in 0..Len(items)] == IF i = 0 THEN 0 ELSE cost[i - 1] + ItemCost(under, items[i])
  IN  cost[Len(items)]

(* What is written is the cheapest path through the matches of the block     *)
(* under the costs it was chosen by (deflate_find_min_cost_path), which no   *)
(* match that reaches beyond the block takes part in; and it costs no more   *)
(* than anything else that was tried, or less than                           *)
(* min_bits_to_use_nonfinal_path more.                                       *)
PathMinimal ==
  phase \in {"begin", "done"} =>
    \A choice \in ToSet(last.choice) :
      /\ ~choice.only_lits =>
           CostOf(choice.under, last.items) =
             LeastCost(choice.under,
                       Nearest(Edges(last.cache, HeadsOf(last.cache, last.length), last.length)),
                       last.length)
      /\ choice.real < Min(choice.tried) + level.min_bits
=============================================================================
