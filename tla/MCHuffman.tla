----------------------------- MODULE MCHuffman -----------------------------
(***************************************************************************)
(* Four symbols with counts up to 14 reach every branch of the heap sort   *)
(* (four symbols in the last counter).  Counts around 1,1,1,3,4,7 give a   *)
(* tree two levels deeper than the limit of three bits.                    *)
(***************************************************************************)
EXTENDS HuffmanTables

Zero(n) == [s \in 0..(n - 1) |-> 0]
Deep    == [s \in 0..5 |-> <<3, 1, 4, 1, 7, 1>>[s + 1]]
MCCodes == {[syms |-> 4, max |-> 2, start |-> Zero(4), tally |-> 14],
            [syms |-> 4, max |-> 3, start |-> Zero(4), tally |-> 14],
            [syms |-> 6, max |-> 3, start |-> Zero(6), tally |-> 8],
            [syms |-> 6, max |-> 3, start |-> Deep,    tally |-> 22],
            [syms |-> 5, max |-> 4, start |-> Zero(5), tally |-> 12]}
MCRunLengths == {1, 2, 3, 4, 6, 7, 9, 10, 11, 138, 140, 141, 149}
=============================================================================
