----------------------------- MODULE MCFrontEnds -----------------------------
(* Small trees whose names collide across sources, prefixes in every form,   *)
(* and copy walks with contents below, at and over the spill threshold.      *)
EXTENDS FrontEndsProperties

a == 97
b == 98
dash == 45                     (* sorts before the slash *)

at(year, month, day, hour, minute, second) ==
  [year |-> year, month |-> month, day |-> day, hour |-> hour, minute |-> minute, second |-> second]

file(rel, size, modified, mode) ==
  [rel |-> rel, dir |-> FALSE, filtered |-> FALSE, size |-> size, modified |-> modified, mode |-> mode]
dir(rel, modified, mode) ==
  [rel |-> rel, dir |-> TRUE, filtered |-> FALSE, size |-> 0, modified |-> modified, mode |-> mode]
filtered(rel, size, modified, mode) == [file(rel, size, modified, mode) EXCEPT !.filtered = TRUE]

first  == at(1980, 1, 1, 0, 0, 0)
last   == at(2107, 12, 31, 23, 59, 59)
before == at(1979, 12, 31, 23, 59, 59)
after  == at(2108, 3, 1, 0, 0, 0)
plain  == at(2024, 2, 29, 12, 34, 57)

source1 == [prefix |-> <<>>,
            files |-> {dir(<<a>>, plain, 493), file(<<a, Slash, b>>, 1, first, 511), file(<<a, dash>>, 2, last, 0)}]
(* the same names by way of a prefix, which is written in three ways *)
source2(prefix) ==
  [prefix |-> prefix,
   files |-> {file(<<b>>, 3, after, 256), file(<<a, Backslash, b>>, 2, before, NoMode), dir(<<b>>, last, NoMode)}]

MCSourceLists ==
  { <<source1, source2(p)>> : p \in {<<a>>, <<Slash, a, Slash>>, <<a, Backslash>>} }
    \union {<<source2(<<a>>), source1>>, <<source2(<<Slash>>)>>}

MCCopyWalks ==
  { <<filtered(<<a>>, n, plain, 420), filtered(<<b>>, 3, last, 0)>> : n \in 0..4 }
    \union {<<dir(<<a>>, first, 493), file(<<a, Slash, b>>, 3, after, 64)>>}
    \union {<<filtered(<<a>>, 3, before, NoMode), file(<<b>>, 3, after, 511)>>}

MCFaultSets == {{}, {"caller"}, {"task"}, {"write"}}
=============================================================================
