----------------------------- MODULE MCCompress -----------------------------
(* Small instances of the compression of a unit for TLC.  Files of more than *)
(* five bytes are not read into memory; inputs of three bytes are probed.    *)
EXTENDS Compress, TLC

Plain(size, jdk, native) ==
  [size |-> size, magic |-> FALSE, jdkSniff |-> FALSE, nativeSniff |-> FALSE,
   jdk |-> jdk, native |-> native]

(* contents that shrink, grow, do not fit the native buffer, bear a signature *)
(* or look incompressible to one of the probes, on both sides of the limits   *)
MCTrait ==
  0 :> Plain(0, 2, 1) @@ 1 :> Plain(2, 1, 1) @@ 2 :> Plain(2, 3, 0) @@
  3 :> [Plain(2, 1, 1) EXCEPT !.magic = TRUE] @@
  4 :> [Plain(4, 3, 4) EXCEPT !.nativeSniff = TRUE] @@
  5 :> Plain(6, 4, 3) @@ 6 :> Plain(6, 7, 0) @@ 7 :> Plain(6, 5, 6) @@
  8 :> [Plain(6, 6, 6) EXCEPT !.jdkSniff = TRUE] @@ 9 :> Plain(9, 5, 4)

dir          == [kind |-> "dir", content |-> 0, temp |-> FALSE]
inline(c)    == [kind |-> "inline", content |-> c, temp |-> FALSE]
file(c)      == [kind |-> "file", content |-> c, temp |-> FALSE]
temp(c)      == [kind |-> "file", content |-> c, temp |-> TRUE]

Larges       == {5, 6, 7, 8, 9}
Singletons   == {<<dir>>} \cup {<<inline(c)>> : c \in DOMAIN MCTrait}
                \cup {<<file(c)>> : c \in DOMAIN MCTrait} \cup {<<temp(c)>> : c \in Larges}
Pairs        == {<<file(1), file(c)>> : c \in {1, 2}}
Triples      == {<<inline(a), file(b), inline(c)>> : a \in {1, 2, 3}, b \in {0, 1}, c \in {1, 2, 3}}

MCBatches    == Singletons \cup Pairs \cup Triples
=============================================================================
