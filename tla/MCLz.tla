-------------------------------- MODULE MCLz --------------------------------
(***************************************************************************)
(* LzProperties with a window of sixteen bytes and texts of words that     *)
(* come again and again, long enough for two windows and several blocks.   *)
(***************************************************************************)
EXTENDS LzProperties

MCWords == {<<0, 0, 0, 0>>, <<0, 1, 1>>, <<1, 0, 0, 1, 0>>, <<1, 200, 1, 0>>, <<0, 1, 0, 1, 0, 1>>}
MCTexts == {a \o b \o c \o d \o b \o d \o a \o c \o a \o d : a, b, c, d \in MCWords}
MCLiterals == {0, 1, 200}

(* Few buckets, so that hashes collide. *)
MCHashes == 0..4
MCHash(bytes) ==
  (bytes[1] + 2 * bytes[2] + 3 * bytes[3] + (IF Len(bytes) = 4 THEN bytes[4] ELSE 0)) % 5
MCJunk == -1

Level(parser, depth, nice) ==
  [parser |-> parser, depth |-> depth, nice |-> nice, passes |-> 2, min_improvement |-> 4,
   min_bits |-> 4, max_static |-> 0]
MCLevels ==
  {Level("fastest", 2, 6), Level("greedy", 16, 8), Level("greedy", 2, 5), Level("lazy", 32, 8),
   Level("lazy2", 64, 8), Level("lazy2", 4, 5), Level("near_optimal", 3, 5),
   [Level("near_optimal", 16, 8) EXCEPT !.passes = 4, !.min_improvement = 1, !.min_bits = 1,
                                        !.max_static = 12]}

Total(freqs) == MapThenSumSet(LAMBDA s : freqs[s], DOMAIN freqs)
(* The shortest lengths that a code of such frequencies can have. *)
LensOf(freqs, total) ==
  [s \in DOMAIN freqs |->
     IF freqs[s] = 0 THEN 0
     ELSE CHOOSE k \in 1..14 : freqs[s] * 2^k >= total /\ (k > 1 => freqs[s] * 2^(k - 1) < total)]
(* The bits of the header go up and down with the lengths, as they do when   *)
(* runs of equal lengths come and go.                                        *)
MCMakeCodes(freqs) ==
  LET litlen == Total(freqs.literal) + Total(freqs.length) + 1
      lens == [literal |-> LensOf(freqs.literal, litlen), length |-> LensOf(freqs.length, litlen),
               offset  |-> LensOf(freqs.offset, Total(freqs.offset))]
      Mixed(kind) == MapThenSumSet(LAMBDA s : (s + 1) * lens[kind][s], DOMAIN lens[kind])
  IN  lens @@ [end_of_block |-> LensOf(<<1>>, litlen)[1],
               header |-> 14 + 5 * ((Mixed("literal") + Mixed("length") + Mixed("offset")) % 7)]
=============================================================================
