-------------------------------- MODULE MCZip --------------------------------
(* A small zip format for TLC: the largest 4-byte value is 100 and the       *)
(* largest count 3, so that every limit is met exactly, missed by one and    *)
(* exceeded.                                                                 *)
EXTENDS ZipProperties

entry(name, raw, comp) ==
  [name |-> name, nameLen |-> 1, crc |-> IF raw = 0 THEN 0 ELSE 100, raw |-> raw, comp |-> comp,
   method |-> IF raw = comp THEN 0 ELSE 8]

(* comp = 69 puts the next header at 100, the largest 4-byte value; the name *)
(* of four bytes makes a directory of two records that large                 *)
MCEntries ==
  { entry("a", 0, 0), entry("b", 99, 69), entry("c", 100, 68), entry("d", 101, 100),
    entry("e", 101, 101), [entry("f", 1, 1) EXCEPT !.nameLen = 4] }
=============================================================================
