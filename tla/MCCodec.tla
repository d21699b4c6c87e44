------------------------------ MODULE MCCodec ------------------------------
(***************************************************************************)
(* Jobs that between them take every way through a block: stored blocks of *)
(* one and of two parts, static and dynamic codes, blocks of each kind     *)
(* behind each other, codewords too long for the main decode tables, a     *)
(* match copied from every kind of offset, and streams and rooms long      *)
(* enough for the fast loop of every machine.                              *)
(***************************************************************************)
EXTENDS Codec

Lit(bytes)   == [i \in DOMAIN bytes |-> <<1, bytes[i]>>]
Block(items) == [items |-> items, data |-> Expand(items, <<>>)]
Untreated    == {<<"none">>}
Job(blocks, level, format) ==
  [blocks |-> blocks, foreign |-> <<>>, level |-> level, format |-> format, slack |-> {0},
   damage |-> Untreated, calls |-> {<<400, TRUE>>}, before |-> <<>>]

Noise   == <<200, 17, 66, 3, 250, 91, 128, 77, 34, 159>>
(* n bytes that every Huffman code makes longer: stored, in two parts if n is  *)
(* greater than MaxStored.                                                    *)
Wide(n) == Lit([i \in 1..n |-> 144 + 2 * ((37 * i) % 56)])
Equal   == <<<<1, 97>>, <<23, 1>>>>
(* 48 bytes of four high values: dynamic codes. *)
Few     == Lit([i \in 1..48 |-> <<251, 252, 251, 253, 251, 254, 251, 252>>[((i * i) % 8) + 1]])
Matches == Lit(<<1, 2, 3, 1, 2, 3, 4, 5, 6, 7, 8, 9, 10>>)
           \o <<<<3, 13>>, <<7, 2>>, <<20, 3>>, <<9, 7>>, <<11, 8>>, <<45, 30>>, <<4, 1>>, <<12, 80>>>>

(* What a decompressor may have been through: a static block; a static block *)
(* and then a dynamic one that is wrong.                                     *)
StaticStream == <<75, 4, 0>>
Wrong        == <<74, 4, 20, 255, 255, 255>>

(* Another compressor's codes: codewords of up to 14 bits. *)
Skew(n, m) == [s \in 0..(n - 1) |-> IF s < m THEN 2^s ELSE 0]
SkewedCodes ==
  deflate_make_huffman_codes(
    [litlen |-> [s \in 0..287 |-> IF s < 10 THEN 2^(s + 4) ELSE IF s \in 254..270 THEN 2 ELSE 0],
     offset |-> [Skew(32, 13) EXCEPT ![12] = 5000]])
SkewedItems ==
  Lit(<<0, 1, 2, 3, 4, 5, 6, 7, 8, 9, 254, 255>>)
  \o <<<<3, 1>>, <<4, 2>>, <<5, 5>>, <<12, 9>>, <<13, 33>>, <<3, 45>>>> \o Lit(<<9, 254, 0, 9>>)
Skewed ==
  ToBytes(Align(<<1>> \o BitsOf(2, 2) \o DynamicHeader(precompute_huffman_header(SkewedCodes))
                \o Body(SkewedCodes, SkewedItems)))

(* A gzip stream with every optional field. *)
Fields ==
  <<31, 139, 8, 30, 0, 0, 0, 0, 0, 3>> \o <<6, 0, 1, 2, 3, 4, 8, 9>> \o <<110, 97, 109, 101, 95, 110, 97, 109, 101, 0>> \o <<99, 0>> \o <<7, 7>>
  \o StaticStream \o FooterBytes("gzip", <<97>>)

MCJobs ==
  {[Job(<<Block(Wide(72))>>, 12, "gzip") EXCEPT !.slack = {-16, -15, 0}],
   [Job(<<Block(Lit(Noise))>>, 11, "gzip") EXCEPT
      !.slack = {-19, -5, -1, 0}, !.calls = {<<10, FALSE>>, <<12, FALSE>>, <<9, TRUE>>}],
   [Job(<<Block(Lit(Noise))>>, 11, "zlib") EXCEPT !.slack = {-1, 0}],
   [Job(<<Block(Wide(32)), Block(Wide(34))>>, 12, "deflate") EXCEPT
      !.slack = {-16, -15, -1, 0}, !.damage = {<<"none">>, <<"cut", 40>>, <<"cut", 74>>}],
   Job(<<Block(<<>>)>>, 6, "deflate"),
   [Job(<<Block(Equal)>>, 12, "zlib") EXCEPT
      !.slack = {0, -30, -31, -34},
      !.damage = Untreated \cup {<<"cut", n>> : n \in {0, 5, 6, 7, 9}} \cup {<<"flip", k>> : k \in {0, 5, 12, 13, 16, 17, 18, 19, 23, 30, 31, 35, 40, 47, 48, 70}},
      !.calls = {<<24, FALSE>>, <<23, TRUE>>}],
   [Job(<<Block(Equal), Block(Wide(36)), Block(Few), Block(Equal)>>, 12, "deflate") EXCEPT
      !.slack = {0, -105, -106}, !.damage = {<<"none">>, <<"pad", 30>>}, !.before = <<StaticStream>>],
   [Job(<<Block(Few), Block(Equal)>>, 9, "gzip") EXCEPT
      !.damage = Untreated \cup {<<"cut", n>> : n \in {19, 30, 40}}
                 \cup {<<"flip", k>> : k \in {3, 24, 85, 90, 100, 130, 200}},
      !.before = <<Wrong, StaticStream, Wrong>>],
   [Job(<<Block(Matches)>>, 12, "deflate") EXCEPT !.damage = {<<"none">>, <<"pad", 30>>, <<"cut", 20>>}],
   [Job(<<Block(SkewedItems)>>, 12, "deflate") EXCEPT
      !.foreign = Skewed, !.damage = {<<"none">>, <<"pad", 30>>, <<"cut", 45>>}],
   [Job(<<Block(Lit(<<97>>))>>, 12, "gzip") EXCEPT
      !.foreign = Fields, !.damage = Untreated \cup {<<"cut", n>> : n \in {18, 20, 26, 27, 28, 30, 32, 40}}]}
=============================================================================
