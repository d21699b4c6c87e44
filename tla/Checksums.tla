------------------------------ MODULE Checksums ------------------------------
(***************************************************************************)
(* The generic implementations of the checksums of adler32.c and crc32.c,  *)
(* next to what the checksums are.  Loops go over positions of the data:   *)
(* a loop over n bytes behind the first p reads data[p + 1]..data[p + n].  *)
(***************************************************************************)
EXTENDS Sequences, Loops

CONSTANT MAX_CHUNK_LEN   (* bytes between two reductions of Adler-32: 5552 *)
ASSUME ChunkAssumption == MAX_CHUNK_LEN \in Nat /\ MAX_CHUNK_LEN >= 4

-----------------------------------------------------------------------------
(* Adler-32 as <<s1, s2>>: after each byte of the data.                      *)
DIVISOR == 65521
Sums    == Nat \X Nat

Adler(a, data) ==
  Loop(Len(data), a,
    [k \in 1..Len(data) |->
       [s \in Sums |-> LET s1 == (s[1] + data[k]) % DIVISOR IN <<s1, (s[2] + s1) % DIVISOR>>]])

OneByOne(a, data, p, n) ==
  Loop(n, a, [k \in 1..n |-> [s \in Sums |-> <<s[1] + data[p + k], s[2] + s[1] + data[p + k]>>]])

(* s1, s1_sum, byte_0_sum, ..., byte_3_sum *)
Lanes == [s1 : Nat, sum : Nat, b0 : Nat, b1 : Nat, b2 : Nat, b3 : Nat]
ByFours(s1, data, p, n) ==
  Loop(n, [s1 |-> s1, sum |-> 0, b0 |-> 0, b1 |-> 0, b2 |-> 0, b3 |-> 0],
    [k \in 1..n |-> [t \in Lanes |->
       LET D(i) == data[p + 4 * (k - 1) + i]
       IN  [s1 |-> t.s1 + D(1) + D(2) + D(3) + D(4), sum |-> t.sum + t.s1,
            b0 |-> t.b0 + D(1), b1 |-> t.b1 + D(2), b2 |-> t.b2 + D(3), b3 |-> t.b3 + D(4)]]])
Collected(s2, t) == s2 + 4 * (t.sum + t.b0) + 3 * t.b1 + 2 * t.b2 + t.b3

ADLER32_CHUNK(a, data, p, n) ==
  LET fours == n \div 4
      t     == ByFours(a[1], data, p, fours)[fours]
      s     == OneByOne(<<t.s1, Collected(a[2], t)>>, data, p + 4 * fours, n % 4)[n % 4]
  IN  <<s[1] % DIVISOR, s[2] % DIVISOR>>

adler32_generic(a, data) ==
  LET most   == MAX_CHUNK_LEN - (MAX_CHUNK_LEN % 4)
      chunks == (Len(data) + most - 1) \div most
      At(k)  == most * (k - 1)
      Rest(k) == Len(data) - At(k)
  IN  Loop(chunks, a,
        [k \in 1..chunks |-> [s \in Sums |->
           ADLER32_CHUNK(s, data, At(k), IF Rest(k) < most THEN Rest(k) ELSE most)]])[chunks]

libdeflate_adler32(data) == adler32_generic(<<1, 0>>, data)

-----------------------------------------------------------------------------
(* CRC-32.  A register is the set of its bits that are 1, so exclusive or is *)
(* the symmetric difference.                                                 *)
Xor(a, b) == (a \ b) \cup (b \ a)
Shr(a, n) == {i - n : i \in {j \in a : j >= n}}
Shl(a, n) == {i + n : i \in {j \in a : j + n <= 31}}
BitSet(byte) == {i \in 0..7 : (byte \div 2^i) % 2 = 1}
LowByte(a) == {i \in a : i < 8}
All  == 0..31
Poly == {31, 30, 29, 27, 26, 24, 23, 21, 20, 19, 15, 9, 8, 5}

(* n bits that are 0 are pushed through the register. *)
ZeroBit(crc)   == IF 0 \in crc THEN Xor(Shr(crc, 1), Poly) ELSE Shr(crc, 1)
Zeroes(crc, n) == Loop(n, crc, [k \in 1..n |-> [c \in SUBSET All |-> ZeroBit(c)]])[n]

(* The register after each byte of the data. *)
Crc(crc, data) ==
  Loop(Len(data), crc,
    [k \in 1..Len(data) |-> [c \in SUBSET All |-> Zeroes(Xor(c, BitSet(data[k])), 8)]])

(* The generated tables: entry b of table t is b pushed through t + 1 bytes. *)
slice8_table == [t \in 0..7 |-> [b \in SUBSET (0..7) |-> Zeroes(b, 8 * (t + 1))]]
slice1_table == slice8_table[0]

crc32_slice1(crc, data, p, n) ==
  Loop(n, crc,
    [k \in 1..n |-> [c \in SUBSET All |->
       Xor(Shr(c, 8), slice1_table[LowByte(Xor(c, BitSet(data[p + k])))])]])[n]

Word4(data, p) ==
  LET B(k) == BitSet(data[p + k])
  IN  B(1) \cup Shl(B(2), 8) \cup Shl(B(3), 16) \cup Shl(B(4), 24)
Byte(a, k) == LowByte(Shr(a, 8 * k))
(* mutant: the second word goes through the tables of the first *)
EightSwapped(crc, data, p) ==
  LET x == Xor(crc, Word4(data, p))
      y == Word4(data, p + 4)
      X(t, b) == slice8_table[t][b]
  IN  Xor(Xor(Xor(X(3, Byte(x, 0)), X(2, Byte(x, 1))), Xor(X(1, Byte(x, 2)), X(0, Byte(x, 3)))),
          Xor(Xor(X(7, Byte(y, 0)), X(6, Byte(y, 1))), Xor(X(5, Byte(y, 2)), X(4, Byte(y, 3)))))
Eight(crc, data, p) ==
  LET x == Xor(crc, Word4(data, p))
      y == Word4(data, p + 4)
      X(t, b) == slice8_table[t][b]
  IN  Xor(Xor(Xor(X(7, Byte(x, 0)), X(6, Byte(x, 1))), Xor(X(5, Byte(x, 2)), X(4, Byte(x, 3)))),
          Xor(Xor(X(3, Byte(y, 0)), X(2, Byte(y, 1))), Xor(X(1, Byte(y, 2)), X(0, Byte(y, 3)))))

(* ahead: bytes up to the next address that is a multiple of 8. *)
crc32_slice8(crc, data, ahead) ==
  LET head   == IF Len(data) < ahead THEN Len(data) ELSE ahead
      eights == (Len(data) - head) \div 8
      middle == Loop(eights, crc32_slice1(crc, data, 0, head),
                  [k \in 1..eights |-> [c \in SUBSET All |-> Eight(c, data, head + 8 * (k - 1))]])[eights]
  IN  crc32_slice1(middle, data, head + 8 * eights, (Len(data) - head) % 8)

libdeflate_crc32(data, ahead) == All \ crc32_slice8(All, data, ahead)

-----------------------------------------------------------------------------
(* The optimised ways of both checksums come to what they are.               *)
Agree(data, ahead) ==
  /\ libdeflate_adler32(data) = Adler(<<1, 0>>, data)[Len(data)]
  /\ libdeflate_crc32(data, ahead) = All \ Crc(All, data)[Len(data)]
=============================================================================
