--------------------------- MODULE ChecksumsProofs ---------------------------
(* The optimised checksums are the checksums, for all data, and no sum of    *)
(* Adler-32 exceeds its 32 bits before it is reduced.                        *)
EXTENDS Checksums, Induction, TLAPS

-----------------------------------------------------------------------------
(* Remainders.  The divisor stays a name: its numeral slows the provers.     *)
LEMMA DivMod ==
  ASSUME NEW d \in Nat, d > 0, NEW x \in Nat
  PROVE  /\ x = d * (x \div d) + (x % d) /\ x \div d \in Nat
         /\ x % d \in 0..(d - 1) /\ x % d \in Nat
BY SMT

LEMMA ModSmall ==
  ASSUME NEW d \in Nat, d > 0, NEW r \in 0..(d - 1)
  PROVE  r % d = r
BY SMT

LEMMA Divisor == DIVISOR \in Nat /\ DIVISOR > 0
BY DEF DIVISOR

LEMMA Wrap ==
  ASSUME NEW x \in Nat, NEW q \in Nat
  PROVE  (x + DIVISOR * q) % DIVISOR = x % DIVISOR
BY SMT DEF DIVISOR

LEMMA ModAdd ==
  ASSUME NEW x \in Nat, NEW y \in Nat
  PROVE  ((x % DIVISOR) + y) % DIVISOR = (x + y) % DIVISOR
<1>1. PICK q \in Nat, r \in Nat : x = DIVISOR * q + r /\ r = x % DIVISOR
  BY Divisor, DivMod
<1>2. x + y = (r + y) + DIVISOR * q
  <2>1. DIVISOR * q \in Nat
    BY Divisor
  <2> QED BY <1>1, <2>1
<1>3. ((r + y) + DIVISOR * q) % DIVISOR = (r + y) % DIVISOR
  <2>1. r + y \in Nat
    OBVIOUS
  <2> QED BY <2>1, Wrap
<1> QED BY <1>1, <1>2, <1>3

LEMMA ModNat ==
  ASSUME NEW x \in Nat
  PROVE  x % DIVISOR \in Nat /\ x % DIVISOR \in 0..(DIVISOR - 1)
BY Divisor, DivMod

LEMMA ModIdle ==
  ASSUME NEW x \in 0..(DIVISOR - 1)
  PROVE  x % DIVISOR = x
BY Divisor, ModSmall

-----------------------------------------------------------------------------
(* Adler-32.                                                                 *)
Bytes == 0..255

LEMMA BytesNat == Bytes \subseteq Nat
BY DEF Bytes

LEMMA AdlerFacts ==
  ASSUME NEW a \in Sums, NEW data \in Seq(Bytes)
  PROVE  /\ Adler(a, data) \in [0..Len(data) -> Sums] /\ Adler(a, data)[0] = a
         /\ \A k \in 1..Len(data) :
              Adler(a, data)[k] =
                <<(Adler(a, data)[k - 1][1] + data[k]) % DIVISOR,
                  (Adler(a, data)[k - 1][2] + ((Adler(a, data)[k - 1][1] + data[k]) % DIVISOR)) % DIVISOR>>
<1> DEFINE n == Len(data)
           Step(k, s) == <<(s[1] + data[k]) % DIVISOR, (s[2] + ((s[1] + data[k]) % DIVISOR)) % DIVISOR>>
           step == [k \in 1..n |-> [s \in Sums |-> Step(k, s)]]
<1>1. n \in Nat
  OBVIOUS
<1>2. ASSUME NEW k \in 1..n, NEW s \in Sums PROVE Step(k, s) \in Sums
  <2>1. data[k] \in Nat /\ s[1] \in Nat /\ s[2] \in Nat
    <3>1. data[k] \in Bytes
      OBVIOUS
    <3>2. s[1] \in Nat /\ s[2] \in Nat
      BY DEF Sums
    <3>3. data[k] \in Nat
      BY <3>1, BytesNat
    <3> QED BY <3>2, <3>3
  <2>2. (s[1] + data[k]) % DIVISOR \in Nat
    <3>1. s[1] + data[k] \in Nat
      BY <2>1
    <3> QED BY <3>1, ModNat
  <2>3. (s[2] + ((s[1] + data[k]) % DIVISOR)) % DIVISOR \in Nat
    <3>1. s[2] + ((s[1] + data[k]) % DIVISOR) \in Nat
      BY <2>1, <2>2
    <3> QED BY <3>1, ModNat
  <2> QED BY <2>2, <2>3 DEF Sums
<1>3. step \in [1..n -> [Sums -> Sums]]
  <2> HIDE DEF Step
  <2> QED BY <1>2
<1>4. Adler(a, data) = Loop(n, a, step)
  BY DEF Adler
<1> DEFINE f == Loop(n, a, step)
<1>5. /\ f \in [0..n -> Sums] /\ f[0] = a
      /\ \A k \in 1..n : f[k] = step[k][f[k - 1]]
  <2> HIDE DEF step, n
  <2> QED BY <1>1, <1>3, LoopFacts
<1>6. ASSUME NEW k \in 1..n PROVE f[k] = Step(k, f[k - 1])
  <2>1. f[k - 1] \in Sums
    <3>1. k - 1 \in 0..n
      OBVIOUS
    <3> HIDE DEF f
    <3> QED BY <1>5, <3>1
  <2> HIDE DEF Step, f
  <2> QED BY <1>5, <2>1
<1> HIDE DEF f, n
<1> QED BY <1>4, <1>5, <1>6 DEF f, n

(* R adds the n bytes behind the first p one by one to the sums a. *)
Adding(R, a, data, p, n) ==
  /\ R \in [0..n -> Sums] /\ R[0] = a
  /\ \A k \in 1..n :
       /\ data[p + k] \in Bytes
       /\ R[k] = <<R[k - 1][1] + data[p + k], R[k - 1][2] + R[k - 1][1] + data[p + k]>>

LEMMA OneByOneFacts ==
  ASSUME NEW a \in Sums, NEW data \in Seq(Bytes), NEW p \in Nat, NEW n \in Nat,
         p + n <= Len(data)
  PROVE  Adding(OneByOne(a, data, p, n), a, data, p, n)
<1> DEFINE Step(k, s) == <<s[1] + data[p + k], s[2] + s[1] + data[p + k]>>
           step == [k \in 1..n |-> [s \in Sums |-> Step(k, s)]]
           f == OneByOne(a, data, p, n)
<1>1. ASSUME NEW k \in 1..n PROVE data[p + k] \in Bytes /\ data[p + k] \in Nat
  <2>1. p + k \in 1..Len(data)
    OBVIOUS
  <2>2. data[p + k] \in Bytes
    BY <2>1
  <2>3. data[p + k] \in Nat
    BY <2>2, BytesNat
  <2> QED BY <2>2, <2>3
<1>2. ASSUME NEW k \in 1..n, NEW s \in Sums PROVE Step(k, s) \in Sums
  <2>1. s[1] \in Nat /\ s[2] \in Nat
    BY DEF Sums
  <2>2. PICK d \in Nat : d = data[p + k]
    BY <1>1
  <2>3. s[1] + d \in Nat /\ s[2] + s[1] + d \in Nat
    BY <2>1
  <2> QED BY <2>2, <2>3 DEF Sums
<1>3. step \in [1..n -> [Sums -> Sums]]
  <2> HIDE DEF Step
  <2> QED BY <1>2
<1>4. f = Loop(n, a, step)
  BY DEF OneByOne
<1> HIDE DEF f
<1>5. /\ f \in [0..n -> Sums] /\ f[0] = a
      /\ \A k \in 1..n : f[k] = step[k][f[k - 1]]
  <2> HIDE DEF step
  <2>1. /\ Loop(n, a, step) \in [0..n -> Sums] /\ Loop(n, a, step)[0] = a
        /\ \A k \in 1..n : Loop(n, a, step)[k] = step[k][Loop(n, a, step)[k - 1]]
    BY <1>3, LoopFacts
  <2> QED BY <1>4, <2>1
<1>6. ASSUME NEW k \in 1..n PROVE f[k] = Step(k, f[k - 1])
  <2>1. f[k - 1] \in Sums
    <3>1. k - 1 \in 0..n
      OBVIOUS
    <3> QED BY <1>5, <3>1
  <2> HIDE DEF Step
  <2> QED BY <1>5, <2>1
<1>7. Adding(f, a, data, p, n)
  BY <1>1, <1>5, <1>6 DEF Adding
<1> QED BY <1>7 DEF f

Next4(u, data, j) ==
  [s1  |-> u.s1 + data[j + 1] + data[j + 2] + data[j + 3] + data[j + 4], sum |-> u.sum + u.s1,
   b0 |-> u.b0 + data[j + 1], b1 |-> u.b1 + data[j + 2],
   b2 |-> u.b2 + data[j + 3], b3 |-> u.b3 + data[j + 4]]

(* t adds the 4 * n bytes behind the first p in fours. *)
AddingFours(t, s1, data, p, n) ==
  /\ t \in [0..n -> Lanes]
  /\ t[0] = [s1 |-> s1, sum |-> 0, b0 |-> 0, b1 |-> 0, b2 |-> 0, b3 |-> 0]
  /\ \A k \in 1..n : t[k] = Next4(t[k - 1], data, p + 4 * (k - 1))

LEMMA ByFoursFacts ==
  ASSUME NEW s1 \in Nat, NEW data \in Seq(Bytes), NEW p \in Nat, NEW n \in Nat,
         p + 4 * n <= Len(data),
         NEW t, t = ByFours(s1, data, p, n)
  PROVE  AddingFours(t, s1, data, p, n)
<1> DEFINE D(k, i) == data[p + 4 * (k - 1) + i]
           Step(k, u) == [s1 |-> u.s1 + D(k, 1) + D(k, 2) + D(k, 3) + D(k, 4), sum |-> u.sum + u.s1,
                          b0 |-> u.b0 + D(k, 1), b1 |-> u.b1 + D(k, 2),
                          b2 |-> u.b2 + D(k, 3), b3 |-> u.b3 + D(k, 4)]
           step == [k \in 1..n |-> [u \in Lanes |-> Step(k, u)]]
           a == [s1 |-> s1, sum |-> 0, b0 |-> 0, b1 |-> 0, b2 |-> 0, b3 |-> 0]
<1>1. ASSUME NEW k \in 1..n, NEW i \in 1..4 PROVE D(k, i) \in Nat
  <2>1. p + 4 * (k - 1) + i \in 1..Len(data)
    OBVIOUS
  <2>2. D(k, i) \in Bytes
    BY <2>1
  <2> HIDE DEF D
  <2> QED BY <2>2, BytesNat
<1>2. ASSUME NEW k \in 1..n, NEW u \in Lanes PROVE Step(k, u) \in Lanes
  <2>1. D(k, 1) \in Nat /\ D(k, 2) \in Nat /\ D(k, 3) \in Nat /\ D(k, 4) \in Nat
    <3> HIDE DEF D
    <3> QED BY <1>1
  <2>2. /\ u.s1 \in Nat /\ u.sum \in Nat /\ u.b0 \in Nat /\ u.b1 \in Nat
        /\ u.b2 \in Nat /\ u.b3 \in Nat
    BY DEF Lanes
  <2>3. PICK d1, d2, d3, d4 \in Nat :
          d1 = D(k, 1) /\ d2 = D(k, 2) /\ d3 = D(k, 3) /\ d4 = D(k, 4)
    BY <2>1
  <2> HIDE DEF D
  <2>4. PICK x1, xs, x2, x3, x4, x5 \in Nat :
          u.s1 = x1 /\ u.sum = xs /\ u.b0 = x2 /\ u.b1 = x3 /\ u.b2 = x4 /\ u.b3 = x5
    BY <2>2
  <2>5. /\ x1 + d1 + d2 + d3 + d4 \in Nat /\ xs + x1 \in Nat
        /\ x2 + d1 \in Nat /\ x3 + d2 \in Nat /\ x4 + d3 \in Nat /\ x5 + d4 \in Nat
    OBVIOUS
  <2> QED BY <2>3, <2>4, <2>5 DEF Lanes
<1>3. step \in [1..n -> [Lanes -> Lanes]]
  <2> HIDE DEF Step
  <2> QED BY <1>2
<1>4. t = Loop(n, a, step)
  BY DEF ByFours
<1>5. a \in Lanes
  BY DEF Lanes
<1>6. /\ t \in [0..n -> Lanes] /\ t[0] = a
      /\ \A k \in 1..n : t[k] = step[k][t[k - 1]]
  <2> HIDE DEF step, a
  <2>1. /\ Loop(n, a, step) \in [0..n -> Lanes] /\ Loop(n, a, step)[0] = a
        /\ \A k \in 1..n : Loop(n, a, step)[k] = step[k][Loop(n, a, step)[k - 1]]
    BY <1>3, <1>5, LoopFacts
  <2> QED BY <1>4, <2>1
<1>7. ASSUME NEW k \in 1..n PROVE t[k] = Step(k, t[k - 1])
  <2>1. t[k - 1] \in Lanes
    <3>1. k - 1 \in 0..n
      OBVIOUS
    <3> QED BY <1>6, <3>1
  <2> HIDE DEF Step
  <2> QED BY <1>6, <2>1
<1> QED BY <1>6, <1>7 DEF Next4, AddingFours

(* One byte more, with the number it adds. *)
Adds(R, data, p, j) ==
  /\ data[p + j + 1] \in Nat
  /\ R[j] \in Sums /\ R[j][1] \in Nat /\ R[j][2] \in Nat /\ R[j + 1] \in Sums
  /\ R[j + 1][1] = R[j][1] + data[p + j + 1]
  /\ R[j + 1][2] = R[j][2] + R[j][1] + data[p + j + 1]

LEMMA OneMore ==
  ASSUME NEW a \in Sums, NEW data \in Seq(Bytes), NEW p \in Nat, NEW n \in Nat,
         p + n <= Len(data), NEW R, R = OneByOne(a, data, p, n), NEW j \in 0..(n - 1)
  PROVE  Adds(R, data, p, j)
<1>1. PICK k \in 1..n : k = j + 1 /\ k - 1 = j /\ p + k = p + j + 1 /\ j \in 0..n /\ k \in 0..n
  OBVIOUS
<1>2. Adding(R, a, data, p, n)
  BY OneByOneFacts
<1>3. /\ R \in [0..n -> Sums] /\ data[p + k] \in Bytes
      /\ R[k] = <<R[k - 1][1] + data[p + k], R[k - 1][2] + R[k - 1][1] + data[p + k]>>
  BY <1>2 DEF Adding
<1>4. R[j] \in Sums /\ R[k] \in Sums
  BY <1>1, <1>3
<1>5. R[j][1] \in Nat /\ R[j][2] \in Nat
  BY <1>4 DEF Sums
<1>6. data[p + j + 1] \in Nat
  BY <1>1, <1>3, BytesNat
<1>7. R[j + 1] = <<R[j][1] + data[p + j + 1], R[j][2] + R[j][1] + data[p + j + 1]>>
  BY <1>1, <1>3
<1> QED BY <1>1, <1>4, <1>5, <1>6, <1>7 DEF Adds

(* Four bytes more. *)
Sum4(r, q, d1, d2, d3, d4) ==
  r[1] = q[1] + d1 + d2 + d3 + d4 /\ r[2] = q[2] + 4 * (q[1] + d1) + 3 * d2 + 2 * d3 + d4
Adds4(R, data, p, j) ==
  /\ R[j][1] \in Nat /\ R[j][2] \in Nat
  /\ data[p + j + 1] \in Nat /\ data[p + j + 2] \in Nat
  /\ data[p + j + 3] \in Nat /\ data[p + j + 4] \in Nat
  /\ Sum4(R[j + 4], R[j], data[p + j + 1], data[p + j + 2], data[p + j + 3], data[p + j + 4])

LEMMA LaneSums ==
  ASSUME NEW a \in Nat, NEW s \in Nat, NEW u \in Nat,
         NEW b0 \in Nat, NEW b1 \in Nat, NEW b2 \in Nat, NEW b3 \in Nat,
         NEW d1 \in Nat, NEW d2 \in Nat, NEW d3 \in Nat, NEW d4 \in Nat
  PROVE  (a + 4 * (u + b0) + 3 * b1 + 2 * b2 + b3) + 4 * (s + d1) + 3 * d2 + 2 * d3 + d4
           = a + 4 * ((u + s) + (b0 + d1)) + 3 * (b1 + d2) + 2 * (b2 + d3) + (b3 + d4)
OBVIOUS

LEMMA FourMore ==
  ASSUME NEW a \in Sums, NEW data \in Seq(Bytes), NEW p \in Nat, NEW n \in Nat,
         p + n <= Len(data), NEW R, R = OneByOne(a, data, p, n), NEW j \in Nat, j + 4 <= n
  PROVE  Adds4(R, data, p, j)
<1>1. \A i \in 0..(n - 1) : Adds(R, data, p, i)
  BY OneMore
<1>2. PICK j1, j2, j3, j4 \in Nat :
        /\ j1 = j + 1 /\ j2 = j + 2 /\ j3 = j + 3 /\ j4 = j + 4
        /\ j2 = j1 + 1 /\ j3 = j2 + 1 /\ j4 = j3 + 1
        /\ j \in 0..(n - 1) /\ j1 \in 0..(n - 1) /\ j2 \in 0..(n - 1) /\ j3 \in 0..(n - 1)
        /\ p + j1 + 1 = p + j + 2 /\ p + j2 + 1 = p + j + 3 /\ p + j3 + 1 = p + j + 4
  OBVIOUS
<1>3. Adds(R, data, p, j) /\ Adds(R, data, p, j1) /\ Adds(R, data, p, j2) /\ Adds(R, data, p, j3)
  BY <1>1, <1>2
<1>4. PICK d1, d2, d3, d4 \in Nat :
        /\ d1 = data[p + j + 1] /\ d2 = data[p + j + 2]
        /\ d3 = data[p + j + 3] /\ d4 = data[p + j + 4]
  BY <1>2, <1>3 DEF Adds
<1>5. /\ R[j][1] \in Nat /\ R[j][2] \in Nat
      /\ R[j1][1] = R[j][1] + d1 /\ R[j1][2] = R[j][2] + R[j][1] + d1
  BY <1>2, <1>3, <1>4 DEF Adds
<1>6. R[j2][1] = R[j1][1] + d2 /\ R[j2][2] = R[j1][2] + R[j1][1] + d2
  BY <1>2, <1>3, <1>4 DEF Adds
<1>7. R[j3][1] = R[j2][1] + d3 /\ R[j3][2] = R[j2][2] + R[j2][1] + d3
  BY <1>2, <1>3, <1>4 DEF Adds
<1>8. R[j4][1] = R[j3][1] + d4 /\ R[j4][2] = R[j3][2] + R[j3][1] + d4
  BY <1>2, <1>3, <1>4 DEF Adds
<1>9. /\ R[j4][1] = R[j][1] + d1 + d2 + d3 + d4
      /\ R[j4][2] = R[j][2] + 4 * (R[j][1] + d1) + 3 * d2 + 2 * d3 + d4
  <2> DEFINE x == R[j][1]
             y == R[j][2]
             x1 == R[j1][1]
             y1 == R[j1][2]
             x2 == R[j2][1]
             y2 == R[j2][2]
             x3 == R[j3][1]
             y3 == R[j3][2]
             x4 == R[j4][1]
             y4 == R[j4][2]
  <2>1. x \in Nat /\ y \in Nat
    BY <1>5
  <2>2. /\ x1 = x + d1 /\ x2 = x1 + d2 /\ x3 = x2 + d3 /\ x4 = x3 + d4
        /\ y1 = y + x + d1 /\ y2 = y1 + x1 + d2 /\ y3 = y2 + x2 + d3 /\ y4 = y3 + x3 + d4
    BY <1>5, <1>6, <1>7, <1>8
  <2> HIDE DEF x, y, x1, y1, x2, y2, x3, y3, x4, y4
  <2>3. x4 = x + d1 + d2 + d3 + d4 /\ y4 = y + 4 * (x + d1) + 3 * d2 + 2 * d3 + d4
    BY <2>1, <2>2
  <2> QED BY <2>3 DEF x, y, x4, y4
<1>10. Sum4(R[j4], R[j], d1, d2, d3, d4)
  BY <1>9 DEF Sum4
<1>11. Sum4(R[j + 4], R[j], data[p + j + 1], data[p + j + 2], data[p + j + 3], data[p + j + 4])
  BY <1>2, <1>4, <1>10, Zenon
<1> QED BY <1>4, <1>5, <1>11, Zenon DEF Adds4

(* The sums over every fourth byte come to the sums over all of them. *)
LEMMA FourSteps ==
  ASSUME NEW a \in Sums, NEW data \in Seq(Bytes), NEW p \in Nat, NEW n \in Nat, NEW m \in Nat,
         4 * m <= n, p + n <= Len(data),
         NEW R, R = OneByOne(a, data, p, n), NEW t, t = ByFours(a[1], data, p, m)
  PROVE  /\ t \in [0..m -> Lanes]
         /\ \A k \in 0..m : R[4 * k][1] = t[k].s1 /\ R[4 * k][2] = Collected(a[2], t[k])
<1>1. PICK a1, a2 \in Nat : a1 = a[1] /\ a2 = a[2]
  BY DEF Sums
<1>2. /\ t \in [0..m -> Lanes]
      /\ t[0] = [s1 |-> a1, sum |-> 0, b0 |-> 0, b1 |-> 0, b2 |-> 0, b3 |-> 0]
      /\ \A k \in 1..m : t[k] = Next4(t[k - 1], data, p + 4 * (k - 1))
  <2>1. t = ByFours(a1, data, p, m) /\ p + 4 * m <= Len(data)
    BY <1>1
  <2>2. AddingFours(t, a1, data, p, m)
    BY <2>1, ByFoursFacts
  <2> QED BY <2>2 DEF AddingFours
<1> DEFINE S == {k \in 0..m : R[4 * k][1] = t[k].s1 /\ R[4 * k][2] = Collected(a2, t[k])}
<1>3. 0 \in S
  <2>1. R[0] = a
    <3>1. Adding(R, a, data, p, n)
      BY OneByOneFacts
    <3> QED BY <3>1 DEF Adding
  <2>2. Collected(a2, t[0]) = a2 /\ t[0].s1 = a1
    BY <1>2 DEF Collected
  <2>3. 4 * 0 = 0 /\ 0 \in 0..m
    OBVIOUS
  <2> QED BY <1>1, <2>1, <2>2, <2>3
<1>4. ASSUME NEW k \in 0..(m - 1), k \in S PROVE k + 1 \in S
  <2>1. PICK l \in 1..m : l = k + 1 /\ l - 1 = k /\ l \in 0..m /\ k \in 0..m
    OBVIOUS
  <2>2. PICK j \in Nat : j = 4 * k /\ j + 4 <= n /\ 4 * l = j + 4
    BY <2>1
  <2>12. Adds4(R, data, p, j)
    BY <2>2, FourMore
  <2>13. PICK d1, d2, d3, d4 \in Nat :
           /\ d1 = data[p + j + 1] /\ d2 = data[p + j + 2]
           /\ d3 = data[p + j + 3] /\ d4 = data[p + j + 4]
    BY <2>12 DEF Adds4
  <2>3. /\ R[j][1] \in Nat /\ R[j][2] \in Nat
        /\ R[j + 4][1] = R[j][1] + d1 + d2 + d3 + d4
        /\ R[j + 4][2] = R[j][2] + 4 * (R[j][1] + d1) + 3 * d2 + 2 * d3 + d4
    <3>1. R[j][1] \in Nat /\ R[j][2] \in Nat /\ Sum4(R[j + 4], R[j], d1, d2, d3, d4)
      BY <2>12, <2>13 DEF Adds4
    <3> QED BY <3>1 DEF Sum4
  <2>4. t[k] \in Lanes
    BY <1>2, <2>1
  <2>5. PICK s, u, b0, b1, b2, b3 \in Nat :
          t[k].s1 = s /\ t[k].sum = u /\ t[k].b0 = b0 /\ t[k].b1 = b1 /\ t[k].b2 = b2 /\ t[k].b3 = b3
    BY <2>4 DEF Lanes
  <2>6. t[l] = [s1 |-> s + d1 + d2 + d3 + d4, sum |-> u + s, b0 |-> b0 + d1, b1 |-> b1 + d2,
                b2 |-> b2 + d3, b3 |-> b3 + d4]
    <3>1. t[l] = Next4(t[k], data, p + j)
      BY <1>2, <2>1, <2>2
    <3> QED BY <2>13, <2>5, <3>1 DEF Next4
  <2>7. R[j][1] = s /\ R[j][2] = a2 + 4 * (u + b0) + 3 * b1 + 2 * b2 + b3
    <3>1. R[j][1] = t[k].s1 /\ R[j][2] = Collected(a2, t[k])
      BY <1>4, <2>2
    <3> QED BY <2>5, <3>1 DEF Collected
  <2>8. Collected(a2, t[l]) = a2 + 4 * ((u + s) + (b0 + d1)) + 3 * (b1 + d2) + 2 * (b2 + d3) + (b3 + d4)
    BY <2>6 DEF Collected
  <2>9. R[j + 4][2] = a2 + 4 * ((u + s) + (b0 + d1)) + 3 * (b1 + d2) + 2 * (b2 + d3) + (b3 + d4)
    <3>1. R[j + 4][2] = (a2 + 4 * (u + b0) + 3 * b1 + 2 * b2 + b3) + 4 * (s + d1) + 3 * d2 + 2 * d3 + d4
      BY <2>3, <2>7
    <3>2. (a2 + 4 * (u + b0) + 3 * b1 + 2 * b2 + b3) + 4 * (s + d1) + 3 * d2 + 2 * d3 + d4
            = a2 + 4 * ((u + s) + (b0 + d1)) + 3 * (b1 + d2) + 2 * (b2 + d3) + (b3 + d4)
      BY LaneSums
    <3> QED BY <3>1, <3>2
  <2>10. R[j + 4][1] = s + d1 + d2 + d3 + d4 /\ t[l].s1 = s + d1 + d2 + d3 + d4
    BY <2>3, <2>6, <2>7
  <2>11. R[4 * l][1] = t[l].s1 /\ R[4 * l][2] = Collected(a2, t[l])
    BY <2>2, <2>8, <2>9, <2>10
  <2> QED BY <2>1, <2>11
<1>5. \A k \in 0..m : k \in S
  <2> HIDE DEF S
  <2> QED BY <1>3, <1>4, UpTo
<1> QED BY <1>1, <1>2, <1>5

LEMMA SamePair ==
  ASSUME NEW r \in Sums, NEW q \in Sums, r[1] = q[1], r[2] = q[2]
  PROVE  r = q
<1>1. r = <<r[1], r[2]>> /\ q = <<q[1], q[2]>>
  BY DEF Sums
<1> QED BY <1>1

(* The sums of a stretch go on where those of its first part ended. *)
LEMMA SplitSums ==
  ASSUME NEW a \in Sums, NEW data \in Seq(Bytes), NEW p \in Nat, NEW n \in Nat, NEW m \in Nat,
         NEW l \in Nat, m + l <= n, p + n <= Len(data),
         NEW R, R = OneByOne(a, data, p, n), NEW Q, Q = OneByOne(R[m], data, p + m, l)
  PROVE  Q[l] = R[m + l]
<1>1. R[m] \in Sums /\ p + m \in Nat /\ (p + m) + l <= Len(data)
  <2>1. R \in [0..n -> Sums] /\ m \in 0..n
    <3>1. Adding(R, a, data, p, n)
      BY OneByOneFacts
    <3>2. m \in 0..n
      OBVIOUS
    <3> QED BY <3>1, <3>2 DEF Adding
  <2> QED BY <2>1
<1>2. Q[0] = R[m]
  <2>1. PICK b \in Sums, q \in Nat : b = R[m] /\ q = p + m /\ q + l <= Len(data)
    BY <1>1
  <2>2. Adding(OneByOne(b, data, q, l), b, data, q, l)
    BY <2>1, OneByOneFacts
  <2>3. OneByOne(b, data, q, l)[0] = b
    BY <2>2 DEF Adding
  <2> QED BY <2>1, <2>3
<1>3. \A k \in 0..(l - 1) : Adds(Q, data, p + m, k)
  BY <1>1, OneMore
<1>4. \A k \in 0..(n - 1) : Adds(R, data, p, k)
  BY OneMore
<1> DEFINE S == {k \in 0..l : Q[k] = R[m + k]}
<1>5. 0 \in S
  BY <1>2
<1>6. ASSUME NEW k \in 0..(l - 1), k \in S PROVE k + 1 \in S
  <2>1. PICK i \in 0..(n - 1) : i = m + k /\ i + 1 = m + (k + 1) /\ p + i + 1 = (p + m) + k + 1
    OBVIOUS
  <2>2. Q[k] = R[i]
    BY <1>6, <2>1
  <2>3. Adds(Q, data, p + m, k) /\ Adds(R, data, p, i)
    BY <1>3, <1>4, <2>1
  <2>4. PICK d \in Nat : d = data[(p + m) + k + 1] /\ d = data[p + i + 1]
    BY <2>1, <2>3 DEF Adds
  <2>5. Q[k + 1][1] = R[i + 1][1] /\ Q[k + 1][2] = R[i + 1][2] /\ Q[k + 1] \in Sums /\ R[i + 1] \in Sums
    BY <2>2, <2>3, <2>4 DEF Adds
  <2>6. Q[k + 1] = R[i + 1]
    BY <2>5, SamePair
  <2> QED BY <2>1, <2>6
<1>7. \A k \in 0..l : k \in S
  <2> HIDE DEF S
  <2> QED BY <1>5, <1>6, UpTo
<1> QED BY <1>7

(* The sums of the checksum are those without a reduction, reduced. *)
Reduced(a) == a[1] \in 0..(DIVISOR - 1) /\ a[2] \in 0..(DIVISOR - 1)

LEMMA AdlerReduced ==
  ASSUME NEW a \in Sums, Reduced(a), NEW data \in Seq(Bytes)
  PROVE  \A k \in 0..Len(data) : Adler(a, data)[k] \in Sums /\ Reduced(Adler(a, data)[k])
<1> DEFINE A == Adler(a, data)
<1>1. Len(data) \in Nat
  OBVIOUS
<1>2. /\ A \in [0..Len(data) -> Sums] /\ A[0] = a
      /\ \A k \in 1..Len(data) :
           A[k] = <<(A[k - 1][1] + data[k]) % DIVISOR,
                    (A[k - 1][2] + ((A[k - 1][1] + data[k]) % DIVISOR)) % DIVISOR>>
  BY AdlerFacts
<1> HIDE DEF A
<1>3. ASSUME NEW k \in 1..Len(data) PROVE Reduced(A[k])
  <2>1. data[k] \in Nat
    <3>1. data[k] \in Bytes
      OBVIOUS
    <3> QED BY <3>1, BytesNat
  <2>2. A[k - 1] \in Sums
    <3>1. k - 1 \in 0..Len(data)
      OBVIOUS
    <3> QED BY <1>2, <3>1
  <2>3. PICK x, y, d \in Nat : x = A[k - 1][1] /\ y = A[k - 1][2] /\ d = data[k]
    BY <2>1, <2>2 DEF Sums
  <2>4. A[k] = <<(x + d) % DIVISOR, (y + ((x + d) % DIVISOR)) % DIVISOR>>
    BY <1>2, <2>3
  <2>5. (x + d) % DIVISOR \in Nat /\ (x + d) % DIVISOR \in 0..(DIVISOR - 1)
    <3>1. x + d \in Nat
      OBVIOUS
    <3> QED BY <3>1, ModNat
  <2>6. (y + ((x + d) % DIVISOR)) % DIVISOR \in 0..(DIVISOR - 1)
    <3>1. y + ((x + d) % DIVISOR) \in Nat
      BY <2>5
    <3> QED BY <3>1, ModNat
  <2> QED BY <2>4, <2>5, <2>6 DEF Reduced
<1>4. \A k \in 0..Len(data) : k = 0 \/ k \in 1..Len(data)
  BY <1>1
<1> QED BY <1>2, <1>3, <1>4 DEF A

Residue(r, q) == r[1] = q[1] % DIVISOR /\ r[2] = q[2] % DIVISOR

LEMMA LateReduction ==
  ASSUME NEW a \in Sums, Reduced(a), NEW data \in Seq(Bytes), NEW p \in Nat, NEW n \in Nat,
         p + n <= Len(data), NEW A, A = Adler(a, data), NEW R, R = OneByOne(A[p], data, p, n)
  PROVE  \A k \in 0..n : Residue(A[p + k], R[k])
<1>1. Len(data) \in Nat /\ p \in 0..Len(data)
  OBVIOUS
<1>2. /\ A \in [0..Len(data) -> Sums]
      /\ \A k \in 1..Len(data) :
           A[k] = <<(A[k - 1][1] + data[k]) % DIVISOR,
                    (A[k - 1][2] + ((A[k - 1][1] + data[k]) % DIVISOR)) % DIVISOR>>
  BY AdlerFacts
<1>3. A[p] \in Sums /\ Reduced(A[p])
  BY <1>1, AdlerReduced
<1>4. R[0] = A[p]
  <2>1. Adding(R, A[p], data, p, n)
    BY <1>3, OneByOneFacts
  <2> QED BY <2>1 DEF Adding
<1>5. \A k \in 0..(n - 1) : Adds(R, data, p, k)
  BY <1>3, OneMore
<1> DEFINE S == {k \in 0..n : Residue(A[p + k], R[k])}
<1>6. 0 \in S
  <2>1. A[p][1] % DIVISOR = A[p][1] /\ A[p][2] % DIVISOR = A[p][2]
    BY <1>3, ModIdle DEF Reduced
  <2>2. p + 0 = p /\ 0 \in 0..n
    OBVIOUS
  <2> QED BY <1>4, <2>1, <2>2 DEF Residue
<1>7. ASSUME NEW k \in 0..(n - 1), k \in S PROVE k + 1 \in S
  <2>1. PICK i \in 1..Len(data) : i = p + k + 1 /\ i - 1 = p + k /\ i = p + (k + 1)
    OBVIOUS
  <2>2. Adds(R, data, p, k)
    BY <1>5
  <2>3. PICK x, y, d \in Nat : x = R[k][1] /\ y = R[k][2] /\ d = data[i]
    BY <2>1, <2>2 DEF Adds
  <2>4. R[k + 1][1] = x + d /\ R[k + 1][2] = y + x + d
    BY <2>1, <2>2, <2>3 DEF Adds
  <2>5. A[i - 1][1] = x % DIVISOR /\ A[i - 1][2] = y % DIVISOR
    BY <1>7, <2>1, <2>3 DEF Residue
  <2>6. A[i] = <<((x % DIVISOR) + d) % DIVISOR,
                 ((y % DIVISOR) + (((x % DIVISOR) + d) % DIVISOR)) % DIVISOR>>
    BY <1>2, <2>3, <2>5
  <2>7. ((x % DIVISOR) + d) % DIVISOR = (x + d) % DIVISOR
    BY ModAdd
  <2>8. ((y % DIVISOR) + ((x + d) % DIVISOR)) % DIVISOR = (y + x + d) % DIVISOR
    <3>1. PICK e \in Nat : e = x + d
      OBVIOUS
    <3>2. PICK f \in Nat : f = e % DIVISOR
      BY ModNat
    <3>3. ((y % DIVISOR) + f) % DIVISOR = (y + f) % DIVISOR
      BY ModAdd
    <3>4. ((e % DIVISOR) + y) % DIVISOR = (e + y) % DIVISOR
      BY ModAdd
    <3>5. y + f = (e % DIVISOR) + y /\ e + y = y + x + d
      BY <3>1, <3>2
    <3> QED BY <3>1, <3>2, <3>3, <3>4, <3>5
  <2>9. A[i] = <<(x + d) % DIVISOR, (y + x + d) % DIVISOR>>
    BY <2>6, <2>7, <2>8
  <2>10. Residue(A[p + (k + 1)], R[k + 1])
    BY <2>1, <2>4, <2>9 DEF Residue
  <2> QED BY <2>10
<1>8. \A k \in 0..n : k \in S
  <2> HIDE DEF S
  <2> QED BY <1>6, <1>7, UpTo
<1> QED BY <1>8

LEMMA SumsAre ==
  ASSUME NEW r \in Sums
  PROVE  r = <<r[1], r[2]>> /\ r[1] \in Nat /\ r[2] \in Nat
BY DEF Sums

(* A chunk. *)
LEMMA ChunkIs ==
  ASSUME NEW a \in Sums, NEW data \in Seq(Bytes), NEW p \in Nat, NEW n \in Nat,
         p + n <= Len(data), NEW R, R = OneByOne(a, data, p, n)
  PROVE  /\ R[n] \in Sums
         /\ ADLER32_CHUNK(a, data, p, n) = <<R[n][1] % DIVISOR, R[n][2] % DIVISOR>>
<1>1. PICK f, r \in Nat : f = n \div 4 /\ r = n % 4 /\ n = 4 * f + r
  BY DivMod
<1>2. PICK m \in Nat : m = 4 * f /\ m <= n /\ m + r = n /\ m \in 0..n /\ f \in 0..f
  BY <1>1
<1> DEFINE T == ByFours(a[1], data, p, f)
           t == T[f]
<1>3. R[m][1] = t.s1 /\ R[m][2] = Collected(a[2], t)
  <2>1. \A k \in 0..f : R[4 * k][1] = T[k].s1 /\ R[4 * k][2] = Collected(a[2], T[k])
    BY <1>2, FourSteps
  <2> QED BY <1>2, <2>1
<1>4. R \in [0..n -> Sums]
  <2>1. Adding(R, a, data, p, n)
    BY OneByOneFacts
  <2> QED BY <2>1 DEF Adding
<1>5. R[m] = <<t.s1, Collected(a[2], t)>>
  <2>1. R[m] \in Sums
    BY <1>2, <1>4
  <2> HIDE DEF t
  <2> QED BY <1>3, <2>1, SumsAre
<1>6. OneByOne(R[m], data, p + m, r)[r] = R[n]
  <2>1. OneByOne(R[m], data, p + m, r)[r] = R[m + r]
    BY <1>2, SplitSums
  <2> QED BY <1>2, <2>1
<1>7. OneByOne(<<t.s1, Collected(a[2], t)>>, data, p + 4 * f, r)[r] = R[n]
  BY <1>2, <1>5, <1>6
<1>8. ADLER32_CHUNK(a, data, p, n) =
        LET s == OneByOne(<<t.s1, Collected(a[2], t)>>, data, p + 4 * f, r)[r]
        IN  <<s[1] % DIVISOR, s[2] % DIVISOR>>
  BY <1>1, Zenon DEF ADLER32_CHUNK
<1> QED BY <1>4, <1>7, <1>8

LEMMA ChunkSums ==
  ASSUME NEW a \in Sums, NEW data \in Seq(Bytes), NEW p \in Nat, NEW n \in Nat, p + n <= Len(data)
  PROVE  ADLER32_CHUNK(a, data, p, n) \in Sums
<1>1. PICK r \in Sums : ADLER32_CHUNK(a, data, p, n) = <<r[1] % DIVISOR, r[2] % DIVISOR>>
  <2> DEFINE r == OneByOne(a, data, p, n)[n]
  <2>1. r \in Sums /\ ADLER32_CHUNK(a, data, p, n) = <<r[1] % DIVISOR, r[2] % DIVISOR>>
    BY ChunkIs
  <2> HIDE DEF r
  <2> QED BY <2>1
<1>2. r[1] % DIVISOR \in Nat /\ r[2] % DIVISOR \in Nat
  BY SumsAre, ModNat
<1> QED BY <1>1, <1>2 DEF Sums

LEMMA ChunkGoesOn ==
  ASSUME NEW a \in Sums, Reduced(a), NEW data \in Seq(Bytes), NEW p \in Nat, NEW n \in Nat,
         p + n <= Len(data), NEW A, A = Adler(a, data)
  PROVE  ADLER32_CHUNK(A[p], data, p, n) = A[p + n]
<1> DEFINE R == OneByOne(A[p], data, p, n)
<1>1. p \in 0..Len(data) /\ p + n \in 0..Len(data) /\ n \in 0..n
  OBVIOUS
<1>2. A[p] \in Sums /\ A[p + n] \in Sums
  BY <1>1, AdlerReduced
<1>3. ADLER32_CHUNK(A[p], data, p, n) = <<R[n][1] % DIVISOR, R[n][2] % DIVISOR>>
  <2>1. PICK b \in Sums : b = A[p]
    BY <1>2
  <2>2. ADLER32_CHUNK(b, data, p, n)
          = <<OneByOne(b, data, p, n)[n][1] % DIVISOR, OneByOne(b, data, p, n)[n][2] % DIVISOR>>
    BY ChunkIs
  <2> QED BY <2>1, <2>2
<1>4. Residue(A[p + n], R[n])
  BY <1>1, LateReduction
<1>5. A[p + n] = <<A[p + n][1], A[p + n][2]>>
  BY <1>2, SumsAre
<1> QED BY <1>3, <1>4, <1>5 DEF Residue

(* The chunks, one behind the other. *)
LEMMA Chunks ==
  ASSUME NEW most \in Nat, most > 0, NEW n \in Nat, NEW c, c = (n + most - 1) \div most
  PROVE  /\ c \in Nat /\ most * c >= n
         /\ \A k \in 1..c : most * (k - 1) \in Nat /\ most * (k - 1) < n /\ most * k = most * (k - 1) + most
<1>1. PICK m \in Nat : m = n + most - 1
  OBVIOUS
<1>2. PICK r \in Nat : c \in Nat /\ m = most * c + r /\ r < most
  BY <1>1, DivMod
<1>3. most * c >= n
  BY <1>1, <1>2
<1>4. ASSUME NEW k \in 1..c
      PROVE  most * (k - 1) \in Nat /\ most * (k - 1) < n /\ most * k = most * (k - 1) + most
  <2>1. PICK j \in Nat, e \in Nat : j = k - 1 /\ c = k + e
    BY <1>2
  <2>2. most * c = most * k + most * e /\ most * k = most * j + most
    BY <1>2, <2>1
  <2>3. most * e \in Nat /\ most * j \in Nat /\ most * k \in Nat
    BY <2>1
  <2>4. most * k <= m
    BY <1>2, <2>2, <2>3
  <2> QED BY <1>1, <2>1, <2>2, <2>3, <2>4
<1> QED BY <1>2, <1>3, <1>4

LEMMA AdlerIs ==
  ASSUME NEW a \in Sums, Reduced(a), NEW data \in Seq(Bytes)
  PROVE  adler32_generic(a, data) = Adler(a, data)[Len(data)]
<1> DEFINE n == Len(data)
           A == Adler(a, data)
           most == MAX_CHUNK_LEN - (MAX_CHUNK_LEN % 4)
           chunks == (n + most - 1) \div most
           At(k) == most * (k - 1)
           Rest(k) == n - At(k)
           Size(k) == IF Rest(k) < most THEN Rest(k) ELSE most
           step == [k \in 1..chunks |-> [s \in Sums |-> ADLER32_CHUNK(s, data, At(k), Size(k))]]
           C == Loop(chunks, a, step)
<1>1. adler32_generic(a, data) = C[chunks]
  BY DEF adler32_generic
<1>2. n \in Nat
  OBVIOUS
<1>3. most \in Nat /\ most > 0
  <2>1. MAX_CHUNK_LEN % 4 \in 0..3
    BY ChunkAssumption, DivMod
  <2> QED BY <2>1, ChunkAssumption
<1> HIDE DEF most, n
<1>4. /\ chunks \in Nat /\ most * chunks >= n
      /\ \A k \in 1..chunks :
           At(k) \in Nat /\ At(k) < n /\ most * k = At(k) + most
  BY <1>2, <1>3, Chunks
<1> HIDE DEF chunks, At
<1>5. ASSUME NEW k \in 1..chunks
      PROVE  At(k) \in Nat /\ Size(k) \in Nat /\ At(k) + Size(k) <= n
  BY <1>2, <1>3, <1>4
<1> HIDE DEF Size
<1>6. step \in [1..chunks -> [Sums -> Sums]]
  <2>1. ASSUME NEW k \in 1..chunks, NEW s \in Sums
        PROVE  ADLER32_CHUNK(s, data, At(k), Size(k)) \in Sums
    BY <1>5, ChunkSums DEF n
  <2> QED BY <2>1
<1>7. C[0] = a /\ \A k \in 1..chunks : C[k] = step[k][C[k - 1]]
  <2> HIDE DEF step
  <2>1. chunks \in Nat
    BY <1>4
  <2> QED BY <1>6, <2>1, LoopFacts
<1>8. \A k \in 0..n : A[k] \in Sums
  <2> HIDE DEF A
  <2> QED BY AdlerReduced DEF A, n
<1>9. A[0] = a
  BY AdlerFacts
<1> HIDE DEF A, C
<1> DEFINE End(k) == IF most * k < n THEN most * k ELSE n
           S == {k \in 0..chunks : C[k] = A[End(k)]}
<1>10. 0 \in S
  <2>1. most * 0 = 0
    BY <1>3
  <2>2. End(0) = 0 /\ 0 \in 0..chunks
    BY <1>2, <1>4, <2>1
  <2> QED BY <1>7, <1>9, <2>2
<1>11. ASSUME NEW k \in 0..(chunks - 1), k \in S PROVE k + 1 \in S
  <2>1. PICK l \in 1..chunks : l = k + 1 /\ l - 1 = k /\ l \in 0..chunks
    BY <1>4
  <2>2. At(l) = most * k
    BY <2>1 DEF At
  <2>3. At(l) \in Nat /\ At(l) < n /\ most * l = At(l) + most
    BY <1>4
  <2>4. End(k) = At(l)
    BY <2>2, <2>3
  <2>5. At(l) + Size(l) = End(l)
    BY <1>2, <1>3, <2>3 DEF Size
  <2>6. C[k] = A[At(l)]
    BY <1>11, <2>4
  <2>7. A[At(l)] \in Sums
    BY <1>2, <1>8, <2>3
  <2>8. C[l] = ADLER32_CHUNK(A[At(l)], data, At(l), Size(l))
    BY <1>7, <2>1, <2>6, <2>7
  <2>9. ADLER32_CHUNK(A[At(l)], data, At(l), Size(l)) = A[At(l) + Size(l)]
    <3>1. At(l) \in Nat /\ Size(l) \in Nat /\ At(l) + Size(l) <= Len(data)
      BY <1>5 DEF n
    <3>2. A = Adler(a, data)
      BY DEF A
    <3> QED BY <3>1, <3>2, ChunkGoesOn
  <2>10. C[l] = A[End(l)]
    BY <2>5, <2>8, <2>9
  <2> HIDE DEF End
  <2> QED BY <2>1, <2>10
<1>12. chunks \in S
  <2> HIDE DEF S
  <2>1. \A k \in 0..chunks : k \in S
    BY <1>4, <1>10, <1>11, UpTo
  <2> QED BY <1>4, <2>1
<1>13. End(chunks) = n
  <2>1. most * chunks \in Nat
    BY <1>3, <1>4
  <2> QED BY <1>2, <1>4, <2>1
<1> QED BY <1>1, <1>12, <1>13 DEF A, n, C

(* No sum of a chunk exceeds 32 bits. *)
Word == 65536 * 65536
Top  == DIVISOR - 1
Bounded(x, y, k) == x <= Top + 255 * k /\ 2 * y <= 2 * Top * (k + 1) + 255 * (k * (k + 1))

LEMMA BoundStart ==
  ASSUME NEW x \in Nat, NEW y \in Nat, x \in 0..(DIVISOR - 1), y \in 0..(DIVISOR - 1)
  PROVE  Bounded(x, y, 0)
<1>1. Top \in Nat /\ x <= Top /\ y <= Top
  BY Divisor DEF Top
<1>2. 2 * Top * (0 + 1) = 2 * Top
  BY <1>1
<1> QED BY <1>1, <1>2 DEF Bounded

LEMMA BoundStep ==
  ASSUME NEW x \in Nat, NEW y \in Nat, NEW d \in Bytes, NEW k \in Nat, Bounded(x, y, k)
  PROVE  Bounded(x + d, y + x + d, k + 1)
<1>1. d \in Nat /\ d <= 255
  BY DEF Bytes
<1>2. PICK q, top \in Nat : q = k * k /\ top = Top
  BY Divisor DEF Top
<1>3. k * (k + 1) = q + k /\ (k + 1) * ((k + 1) + 1) = q + 3 * k + 2
  BY <1>2
<1>4. PICK w \in Nat : w = top * k
  BY <1>2
<1>5. 2 * top * (k + 1) = 2 * w + 2 * top /\ 2 * top * ((k + 1) + 1) = 2 * w + 4 * top
  BY <1>4
<1>6. x <= top + 255 * k /\ 2 * y <= 2 * w + 2 * top + 255 * (q + k)
  BY <1>2, <1>3, <1>5 DEF Bounded
<1>7. /\ x + d <= top + 255 * (k + 1)
      /\ 2 * (y + x + d) <= 2 * w + 4 * top + 255 * (q + 3 * k + 2)
  BY <1>1, <1>6
<1> QED BY <1>2, <1>3, <1>5, <1>7 DEF Bounded

LEMMA BoundFits ==
  ASSUME NEW x \in Nat, NEW y \in Nat, NEW k \in Nat, k <= 5552, Bounded(x, y, k)
  PROVE  x < Word /\ y < Word
<1>1. k * (k + 1) <= 5552 * 5553
  <2>1. k * (k + 1) <= 5552 * (k + 1)
    OBVIOUS
  <2>2. 5552 * (k + 1) <= 5552 * 5553
    OBVIOUS
  <2>3. k * (k + 1) \in Nat
    OBVIOUS
  <2> QED BY <2>1, <2>2, <2>3
<1>2. PICK q \in Nat : q = k * (k + 1) /\ q <= 5552 * 5553
  BY <1>1
<1>3. x <= 65520 + 255 * k /\ 2 * y <= 131040 * (k + 1) + 255 * q
  BY <1>2 DEF Bounded, Top, DIVISOR
<1> QED BY <1>2, <1>3 DEF Word

LEMMA SumsBounded ==
  ASSUME NEW a \in Sums, Reduced(a), NEW data \in Seq(Bytes), NEW p \in Nat, NEW n \in Nat,
         p + n <= Len(data), NEW R, R = OneByOne(a, data, p, n)
  PROVE  \A k \in 0..n : R[k] \in Sums /\ Bounded(R[k][1], R[k][2], k)
<1>1. R \in [0..n -> Sums] /\ R[0] = a
  <2>1. Adding(R, a, data, p, n)
    BY OneByOneFacts
  <2> QED BY <2>1 DEF Adding
<1>2. \A k \in 0..(n - 1) : Adds(R, data, p, k)
  BY OneMore
<1> DEFINE S == {k \in 0..n : Bounded(R[k][1], R[k][2], k)}
<1>3. 0 \in S
  <2>1. Bounded(a[1], a[2], 0)
    BY SumsAre, BoundStart DEF Reduced
  <2> QED BY <1>1, <2>1
<1>4. ASSUME NEW k \in 0..(n - 1), k \in S PROVE k + 1 \in S
  <2>1. Adds(R, data, p, k)
    BY <1>2
  <2>2. data[p + k + 1] \in Bytes
    <3>1. p + k + 1 \in 1..Len(data)
      OBVIOUS
    <3> QED BY <3>1
  <2>3. PICK x, y \in Nat, d \in Bytes : x = R[k][1] /\ y = R[k][2] /\ d = data[p + k + 1]
    BY <2>1, <2>2 DEF Adds
  <2>4. R[k + 1][1] = x + d /\ R[k + 1][2] = y + x + d
    BY <2>1, <2>3 DEF Adds
  <2>5. Bounded(x, y, k)
    BY <1>4, <2>3
  <2>6. Bounded(x + d, y + x + d, k + 1)
    BY <2>5, BoundStep
  <2>7. Bounded(R[k + 1][1], R[k + 1][2], k + 1)
    BY <2>4, <2>6, Zenon
  <2>8. k + 1 \in 0..n
    OBVIOUS
  <2> QED BY <2>7, <2>8
<1>5. \A k \in 0..n : k \in S
  <2> HIDE DEF S
  <2> QED BY <1>3, <1>4, UpTo
<1> QED BY <1>1, <1>5

(* What a chunk of at most 5552 bytes keeps in a 32-bit word, between two      *)
(* reductions (adler32.c:33-75), stays below 2^32: the two sums, the six lanes *)
(* of the unrolled loop, and what the lanes are collected to.                  *)
THEOREM ChunkFits ==
  ASSUME NEW a \in Sums, Reduced(a), NEW data \in Seq(Bytes), NEW p \in Nat, NEW n \in Nat,
         n <= 5552, p + n <= Len(data),
         NEW m \in Nat, 4 * m <= n
  PROVE  /\ \A k \in 0..n : OneByOne(a, data, p, n)[k][1] < Word /\ OneByOne(a, data, p, n)[k][2] < Word
         /\ \A k \in 0..m :
              LET t == ByFours(a[1], data, p, m)[k]
              IN  /\ t.s1 < Word /\ t.sum < Word /\ Collected(a[2], t) < Word
                  /\ t.b0 < Word /\ t.b1 < Word /\ t.b2 < Word /\ t.b3 < Word
<1> DEFINE R == OneByOne(a, data, p, n)
           T == ByFours(a[1], data, p, m)
<1>1. ASSUME NEW k \in 0..n PROVE R[k][1] < Word /\ R[k][2] < Word
  <2>1. R[k] \in Sums /\ Bounded(R[k][1], R[k][2], k)
    BY SumsBounded
  <2> HIDE DEF R
  <2>2. R[k][1] \in Nat /\ R[k][2] \in Nat
    BY <2>1, SumsAre
  <2>3. k \in Nat /\ k <= 5552
    OBVIOUS
  <2> QED BY <2>1, <2>2, <2>3, BoundFits
<1>2. T \in [0..m -> Lanes] /\ \A k \in 0..m : R[4 * k][1] = T[k].s1 /\ R[4 * k][2] = Collected(a[2], T[k])
  <2>1. PICK r, t : r = R /\ t = T
    OBVIOUS
  <2>2. /\ t \in [0..m -> Lanes]
        /\ \A k \in 0..m : r[4 * k][1] = t[k].s1 /\ r[4 * k][2] = Collected(a[2], t[k])
    BY <2>1, FourSteps
  <2> HIDE DEF T, R
  <2> QED BY <2>1, <2>2
<1>3. ASSUME NEW k \in 0..m
      PROVE  /\ T[k].s1 < Word /\ T[k].sum < Word /\ Collected(a[2], T[k]) < Word
             /\ T[k].b0 < Word /\ T[k].b1 < Word /\ T[k].b2 < Word /\ T[k].b3 < Word
  <2>1. T \in [0..m -> Lanes] /\ R[4 * k][1] = T[k].s1 /\ R[4 * k][2] = Collected(a[2], T[k])
    <3> HIDE DEF T, R
    <3> QED BY <1>2
  <2>2. 4 * k \in 0..n
    OBVIOUS
  <2>3. R[4 * k][1] < Word /\ R[4 * k][2] < Word
    BY <1>1, <2>2
  <2>4. T[k] \in Lanes /\ a[2] \in Nat
    BY <2>1, SumsAre
  <2> HIDE DEF T, R
  <2>5. /\ T[k].s1 \in Nat /\ T[k].sum \in Nat /\ T[k].b0 \in Nat
        /\ T[k].b1 \in Nat /\ T[k].b2 \in Nat /\ T[k].b3 \in Nat
    BY <2>4 DEF Lanes
  <2>11. PICK c \in Nat : c = a[2]
    BY <2>4
  <2>12. PICK u \in Nat : u = T[k].sum
    BY <2>5
  <2>13. PICK b0, b1 \in Nat : b0 = T[k].b0 /\ b1 = T[k].b1
    BY <2>5
  <2>6. PICK b2, b3 \in Nat : b2 = T[k].b2 /\ b3 = T[k].b3
    BY <2>5
  <2>7. Collected(a[2], T[k]) = c + 4 * (u + b0) + 3 * b1 + 2 * b2 + b3
    BY <2>6, <2>11, <2>12, <2>13 DEF Collected
  <2>8. PICK w \in Nat : w = Word
    BY DEF Word
  <2>9. c + 4 * (u + b0) + 3 * b1 + 2 * b2 + b3 < w
    BY <2>1, <2>3, <2>7, <2>8
  <2>10. u < w /\ b0 < w /\ b1 < w /\ b2 < w /\ b3 < w
    BY <2>9
  <2> QED BY <2>1, <2>3, <2>6, <2>8, <2>10, <2>12, <2>13
<1> QED BY <1>1, <1>3

-----------------------------------------------------------------------------
(* CRC-32: exclusive or and shifts.                                          *)
LEMMA XorIs ==
  ASSUME NEW a, NEW b
  PROVE  /\ \A i : i \in Xor(a, b) <=> ((i \in a /\ i \notin b) \/ (i \in b /\ i \notin a))
         /\ \A V : a \subseteq V /\ b \subseteq V => Xor(a, b) \subseteq V
BY DEF Xor

LEMMA XorLaws ==
  ASSUME NEW a, NEW b, NEW c
  PROVE  Xor(a, b) = Xor(b, a) /\ Xor(Xor(a, b), c) = Xor(a, Xor(b, c))
BY DEF Xor

LEMMA XorApart ==
  ASSUME NEW a, NEW b, a \cap b = {}
  PROVE  Xor(a, b) = a \cup b
BY DEF Xor

LEMMA SameNumbers ==
  ASSUME NEW a, NEW b, a \subseteq Nat, b \subseteq Nat, \A i \in Nat : i \in a <=> i \in b
  PROVE  a = b
OBVIOUS

LEMMA ShrIs ==
  ASSUME NEW a, a \subseteq Nat, NEW n \in Nat
  PROVE  /\ Shr(a, n) \subseteq Nat
         /\ \A i \in Nat : i \in Shr(a, n) <=> i + n \in a
<1>1. ASSUME NEW i \in Nat PROVE i \in Shr(a, n) <=> i + n \in a
  <2>1. ASSUME i \in Shr(a, n) PROVE i + n \in a
    <3>1. PICK j \in a : j \in Nat /\ i = j - n
      BY <2>1 DEF Shr
    <3> QED BY <3>1
  <2>2. ASSUME i + n \in a PROVE i \in Shr(a, n)
    <3>1. i + n \in {j \in a : j >= n} /\ i = (i + n) - n
      BY <2>2
    <3> QED BY <3>1 DEF Shr
  <2> QED BY <2>1, <2>2
<1>2. ASSUME NEW i \in Shr(a, n) PROVE i \in Nat
  BY <1>2 DEF Shr
<1> QED BY <1>1, <1>2

LEMMA ShlIs ==
  ASSUME NEW a, a \subseteq Nat, NEW n \in Nat
  PROVE  /\ Shl(a, n) \in SUBSET All
         /\ \A i \in Nat : i \in Shl(a, n) <=> (i >= n /\ i <= 31 /\ i - n \in a)
<1>1. ASSUME NEW i \in Nat PROVE i \in Shl(a, n) <=> (i >= n /\ i <= 31 /\ i - n \in a)
  <2>1. ASSUME i \in Shl(a, n) PROVE i >= n /\ i <= 31 /\ i - n \in a
    <3>1. PICK j \in a : j \in Nat /\ i = j + n /\ j + n <= 31
      BY <2>1 DEF Shl
    <3> QED BY <3>1
  <2>2. ASSUME i >= n, i <= 31, i - n \in a PROVE i \in Shl(a, n)
    <3>1. i - n \in {j \in a : j + n <= 31} /\ i = (i - n) + n
      BY <2>2
    <3> QED BY <3>1 DEF Shl
  <2> QED BY <2>1, <2>2
<1>2. ASSUME NEW i \in Shl(a, n) PROVE i \in All
  BY <1>2 DEF Shl, All
<1> QED BY <1>1, <1>2

LEMMA AllNat == All \subseteq Nat /\ Poly \subseteq All
BY DEF All, Poly

LEMMA ShrXor ==
  ASSUME NEW a \in SUBSET All, NEW b \in SUBSET All, NEW n \in Nat
  PROVE  Shr(Xor(a, b), n) = Xor(Shr(a, n), Shr(b, n))
<1>1. a \subseteq Nat /\ b \subseteq Nat /\ Xor(a, b) \subseteq Nat
  BY AllNat, XorIs
<1>2. Shr(a, n) \subseteq Nat /\ Shr(b, n) \subseteq Nat /\ Shr(Xor(a, b), n) \subseteq Nat
  BY <1>1, ShrIs
<1>3. ASSUME NEW i \in Nat PROVE i \in Shr(Xor(a, b), n) <=> i \in Xor(Shr(a, n), Shr(b, n))
  <2>1. i \in Shr(Xor(a, b), n) <=> i + n \in Xor(a, b)
    BY <1>1, ShrIs
  <2>2. (i \in Shr(a, n) <=> i + n \in a) /\ (i \in Shr(b, n) <=> i + n \in b)
    BY <1>1, ShrIs
  <2> QED BY <2>1, <2>2, XorIs
<1>4. Xor(Shr(a, n), Shr(b, n)) \subseteq Nat
  BY <1>2, XorIs
<1> QED BY <1>2, <1>3, <1>4, SameNumbers

LEMMA ShrShr ==
  ASSUME NEW a \in SUBSET Nat, NEW m \in Nat, NEW n \in Nat
  PROVE  Shr(Shr(a, m), n) = Shr(a, m + n) /\ Shr(a, 0) = a
<1>1. Shr(a, m) \subseteq Nat /\ Shr(Shr(a, m), n) \subseteq Nat /\ Shr(a, m + n) \subseteq Nat
  <2>1. Shr(a, m) \subseteq Nat
    BY ShrIs
  <2>2. PICK k \in Nat : k = m + n
    OBVIOUS
  <2> QED BY <2>1, <2>2, ShrIs
<1>2. ASSUME NEW i \in Nat PROVE i \in Shr(Shr(a, m), n) <=> i \in Shr(a, m + n)
  <2>1. PICK j \in Nat, k \in Nat : j = i + n /\ k = m + n /\ j + m = i + k
    OBVIOUS
  <2>2. i \in Shr(Shr(a, m), n) <=> j \in Shr(a, m)
    BY <1>1, <2>1, ShrIs
  <2>3. j \in Shr(a, m) <=> j + m \in a
    BY ShrIs
  <2>4. i \in Shr(a, k) <=> i + k \in a
    BY ShrIs
  <2> QED BY <2>1, <2>2, <2>3, <2>4
<1>3. Shr(a, 0) \subseteq Nat /\ \A i \in Nat : i \in Shr(a, 0) <=> i \in a
  <2>1. \A i \in Nat : i + 0 = i
    OBVIOUS
  <2>2. Shr(a, 0) \subseteq Nat /\ \A i \in Nat : i \in Shr(a, 0) <=> i + 0 \in a
    BY ShrIs
  <2> QED BY <2>1, <2>2
<1> QED BY <1>1, <1>2, <1>3

LEMMA ShrAll ==
  ASSUME NEW a \in SUBSET All, NEW n \in Nat
  PROVE  Shr(a, n) \in SUBSET All
<1>1. ASSUME NEW i \in Shr(a, n) PROVE i \in All
  <2>1. i \in Nat /\ i + n \in a
    BY AllNat, ShrIs
  <2> QED BY <2>1 DEF All
<1> QED BY <1>1

LEMMA ShrShl ==
  ASSUME NEW a \in SUBSET (0..7), NEW n \in 0..24
  PROVE  Shr(Shl(a, n), n) = a /\ \A i \in Shl(a, n) : i >= n /\ i <= n + 7
<1>1. a \subseteq Nat /\ n \in Nat
  OBVIOUS
<1>2. Shl(a, n) \subseteq Nat
  BY <1>1, ShlIs, AllNat
<1>3. Shr(Shl(a, n), n) \subseteq Nat
  BY <1>1, <1>2, ShrIs
<1>4. ASSUME NEW i \in Nat PROVE i \in Shr(Shl(a, n), n) <=> i \in a
  <2>1. PICK j \in Nat : j = i + n /\ j - n = i /\ j >= n
    BY <1>1
  <2>2. i \in Shr(Shl(a, n), n) <=> j \in Shl(a, n)
    BY <1>1, <1>2, <2>1, ShrIs
  <2>3. j \in Shl(a, n) <=> (j >= n /\ j <= 31 /\ j - n \in a)
    BY <1>1, ShlIs
  <2>4. i \in a => j <= 31
    BY <2>1
  <2> QED BY <2>1, <2>2, <2>3, <2>4
<1>5. ASSUME NEW i \in Shl(a, n) PROVE i >= n /\ i <= n + 7
  <2>1. i \in Nat /\ i >= n /\ i - n \in a
    BY <1>1, <1>2, ShlIs
  <2>2. i - n \in 0..7
    BY <2>1
  <2> QED BY <2>1, <2>2
<1> QED BY <1>1, <1>3, <1>4, <1>5

-----------------------------------------------------------------------------
(* Bits that are 0, pushed through the register.                             *)
LEMMA ZeroBitAll ==
  ASSUME NEW c \in SUBSET All
  PROVE  ZeroBit(c) \in SUBSET All
<1>1. Shr(c, 1) \in SUBSET All
  BY ShrAll
<1>2. Xor(Shr(c, 1), Poly) \subseteq All
  BY <1>1, AllNat DEF Xor
<1> QED BY <1>1, <1>2 DEF ZeroBit

LEMMA XorSwap ==
  ASSUME NEW a, NEW b, NEW c
  PROVE  /\ Xor(Xor(a, c), b) = Xor(Xor(a, b), c) /\ Xor(a, Xor(b, c)) = Xor(Xor(a, b), c)
         /\ Xor(Xor(a, c), Xor(b, c)) = Xor(a, b)
BY DEF Xor

LEMMA ZeroBitXor ==
  ASSUME NEW a \in SUBSET All, NEW b \in SUBSET All
  PROVE  ZeroBit(Xor(a, b)) = Xor(ZeroBit(a), ZeroBit(b))
<1>1. PICK x, y : x = Shr(a, 1) /\ y = Shr(b, 1)
  OBVIOUS
<1>2. Shr(Xor(a, b), 1) = Xor(x, y)
  BY <1>1, ShrXor
<1>3. 0 \in Xor(a, b) <=> ((0 \in a /\ 0 \notin b) \/ (0 \in b /\ 0 \notin a))
  BY XorIs
<1>4. ZeroBit(a) = IF 0 \in a THEN Xor(x, Poly) ELSE x
  BY <1>1 DEF ZeroBit
<1>5. ZeroBit(b) = IF 0 \in b THEN Xor(y, Poly) ELSE y
  BY <1>1 DEF ZeroBit
<1>6. ZeroBit(Xor(a, b)) = IF 0 \in Xor(a, b) THEN Xor(Xor(x, y), Poly) ELSE Xor(x, y)
  BY <1>2 DEF ZeroBit
<1>7. CASE 0 \in a /\ 0 \in b
  BY <1>3, <1>4, <1>5, <1>6, <1>7, XorSwap
<1>8. CASE 0 \in a /\ 0 \notin b
  <2>1. ZeroBit(a) = Xor(x, Poly) /\ ZeroBit(b) = y /\ ZeroBit(Xor(a, b)) = Xor(Xor(x, y), Poly)
    BY <1>3, <1>4, <1>5, <1>6, <1>8
  <2>2. Xor(Xor(x, Poly), y) = Xor(Xor(x, y), Poly)
    BY DEF Xor
  <2> QED BY <2>1, <2>2
<1>9. CASE 0 \notin a /\ 0 \in b
  BY <1>3, <1>4, <1>5, <1>6, <1>9, XorSwap
<1>10. CASE 0 \notin a /\ 0 \notin b
  BY <1>3, <1>4, <1>5, <1>6, <1>10
<1> QED BY <1>7, <1>8, <1>9, <1>10

LEMMA ZeroesFacts ==
  ASSUME NEW c \in SUBSET All, NEW n \in Nat
  PROVE  /\ Zeroes(c, n) \in SUBSET All /\ Zeroes(c, 0) = c
         /\ Zeroes(c, n + 1) = ZeroBit(Zeroes(c, n))
<1> DEFINE V == SUBSET All
           step(m) == [k \in 1..m |-> [x \in V |-> ZeroBit(x)]]
<1>1. ASSUME NEW m \in Nat PROVE step(m) \in [1..m -> [V -> V]]
  <2>1. \A x \in V : ZeroBit(x) \in V
    BY ZeroBitAll
  <2> HIDE DEF V
  <2> QED BY <2>1
<1>2. \A m : Zeroes(c, m) = Loop(m, c, step(m))[m]
  BY DEF Zeroes
<1>3. c \in V
  OBVIOUS
<1> HIDE DEF V
<1>4. ASSUME NEW m \in Nat
      PROVE  /\ Loop(m, c, step(m)) \in [0..m -> V] /\ Loop(m, c, step(m))[0] = c
             /\ \A k \in 1..m : Loop(m, c, step(m))[k] = step(m)[k][Loop(m, c, step(m))[k - 1]]
  <2>1. step(m) \in [1..m -> [V -> V]]
    BY <1>1
  <2> HIDE DEF step
  <2> QED BY <1>3, <2>1, LoopFacts
<1>5. Zeroes(c, n) \in V
  <2> HIDE DEF step
  <2>1. n \in 0..n
    OBVIOUS
  <2>2. Loop(n, c, step(n))[n] \in V
    BY <1>4, <2>1
  <2> QED BY <1>2, <2>2
<1>6. Zeroes(c, 0) = c
  <2> HIDE DEF step
  <2> QED BY <1>2, <1>4
<1>7. PICK m \in Nat : m = n + 1 /\ m - 1 = n /\ m \in 1..m /\ n \in 0..m
  OBVIOUS
<1> DEFINE G == Loop(m, c, step(m))
<1>8. Zeroes(c, m) = step(m)[m][G[n]] /\ G[n] \in V
  <2> HIDE DEF step
  <2>1. G \in [0..m -> V] /\ G[m] = step(m)[m][G[m - 1]]
    BY <1>4, <1>7
  <2> QED BY <1>2, <1>7, <2>1
<1>9. G[n] = Zeroes(c, n)
  <2>1. step(m) \in [1..m -> [V -> V]] /\ step(n) \in [1..n -> [V -> V]]
    BY <1>1
  <2>2. \A k \in 1..n : step(n)[k] = step(m)[k]
    BY <1>7
  <2> HIDE DEF step
  <2>3. Loop(n, c, step(n))[n] = Loop(m, c, step(m))[n]
    <3>1. FirstSteps(V, n, m, step(n), step(m))
      BY <1>7, <2>1, <2>2 DEF FirstSteps
    <3> QED BY <1>3, <3>1, LoopPrefix
  <2> QED BY <1>2, <2>3
<1>10. step(m)[m] = [x \in V |-> ZeroBit(x)]
  BY <1>7
<1>11. Zeroes(c, m) = ZeroBit(Zeroes(c, n))
  <2> HIDE DEF step, G
  <2> QED BY <1>8, <1>9, <1>10
<1> QED BY <1>5, <1>6, <1>7, <1>11 DEF V

LEMMA ZeroesXor ==
  ASSUME NEW a \in SUBSET All, NEW b \in SUBSET All
  PROVE  \A n \in Nat : Zeroes(Xor(a, b), n) = Xor(Zeroes(a, n), Zeroes(b, n))
<1>1. PICK x \in SUBSET All : x = Xor(a, b)
  BY DEF Xor
<1> DEFINE S == {n \in Nat : Zeroes(x, n) = Xor(Zeroes(a, n), Zeroes(b, n))}
<1>2. 0 \in S
  BY <1>1, ZeroesFacts
<1>3. ASSUME NEW n \in Nat, n \in S PROVE n + 1 \in S
  <2>1. PICK y, z \in SUBSET All : y = Zeroes(a, n) /\ z = Zeroes(b, n)
    BY ZeroesFacts
  <2>2. Zeroes(x, n) = Xor(y, z)
    BY <1>3, <2>1
  <2>3. Zeroes(x, n + 1) = ZeroBit(Xor(y, z))
    BY <2>2, ZeroesFacts
  <2>4. Zeroes(a, n + 1) = ZeroBit(y) /\ Zeroes(b, n + 1) = ZeroBit(z)
    BY <2>1, ZeroesFacts
  <2>5. ZeroBit(Xor(y, z)) = Xor(ZeroBit(y), ZeroBit(z))
    BY ZeroBitXor
  <2> QED BY <2>3, <2>4, <2>5
<1>4. \A n \in Nat : n \in S
  <2> HIDE DEF S
  <2> QED BY <1>2, <1>3, Induction
<1> QED BY <1>1, <1>4

LEMMA ZeroesAdd ==
  ASSUME NEW c \in SUBSET All, NEW m \in Nat
  PROVE  \A n \in Nat : Zeroes(Zeroes(c, m), n) = Zeroes(c, m + n)
<1>1. PICK x \in SUBSET All : x = Zeroes(c, m)
  BY ZeroesFacts
<1> DEFINE S == {n \in Nat : Zeroes(x, n) = Zeroes(c, m + n)}
<1>2. 0 \in S
  <2>1. m + 0 = m
    OBVIOUS
  <2> QED BY <1>1, <2>1, ZeroesFacts
<1>3. ASSUME NEW n \in Nat, n \in S PROVE n + 1 \in S
  <2>1. PICK k \in Nat : k = m + n /\ m + (n + 1) = k + 1
    OBVIOUS
  <2>2. Zeroes(x, n + 1) = ZeroBit(Zeroes(x, n)) /\ Zeroes(c, k + 1) = ZeroBit(Zeroes(c, k))
    BY ZeroesFacts
  <2>3. Zeroes(x, n) = Zeroes(c, k)
    BY <1>3, <2>1
  <2>4. Zeroes(x, n + 1) = Zeroes(c, m + (n + 1))
    BY <2>1, <2>2, <2>3
  <2> QED BY <2>4
<1>4. \A n \in Nat : n \in S
  <2> HIDE DEF S
  <2> QED BY <1>2, <1>3, Induction
<1> QED BY <1>1, <1>4

(* As long as only bits that are 0 leave the register, it is shifted. *)
LEMMA ZeroesShift ==
  ASSUME NEW c \in SUBSET All, NEW n \in Nat, \A i \in c : i >= n
  PROVE  Zeroes(c, n) = Shr(c, n)
<1> DEFINE S == {k \in 0..n : Zeroes(c, k) = Shr(c, k)}
<1>1. c \subseteq Nat
  BY AllNat
<1>2. 0 \in S
  <2>1. Zeroes(c, 0) = c
    BY ZeroesFacts
  <2>2. Shr(c, 0) = c
    BY <1>1, ShrShr
  <2> QED BY <2>1, <2>2
<1>3. ASSUME NEW k \in 0..(n - 1), k \in S PROVE k + 1 \in S
  <2>1. k \in Nat /\ k + 1 \in 0..n /\ ~(k >= n) /\ 0 + k = k /\ 0 \in Nat
    OBVIOUS
  <2>2. Zeroes(c, k + 1) = ZeroBit(Shr(c, k))
    <3>1. Zeroes(c, k + 1) = ZeroBit(Zeroes(c, k))
      BY <2>1, ZeroesFacts
    <3> QED BY <1>3, <3>1
  <2>3. 0 \in Shr(c, k) <=> 0 + k \in c
    BY <1>1, <2>1, ShrIs
  <2>4. 0 \notin Shr(c, k)
    BY <2>1, <2>3
  <2>7. c \in SUBSET Nat
    BY <1>1
  <2>5. Shr(Shr(c, k), 1) = Shr(c, k + 1)
    <3>1. PICK one \in Nat : one = 1
      OBVIOUS
    <3>2. Shr(Shr(c, k), one) = Shr(c, k + one)
      BY <2>1, <2>7, ShrShr
    <3> QED BY <3>1, <3>2
  <2>6. Zeroes(c, k + 1) = Shr(c, k + 1)
    BY <2>2, <2>4, <2>5 DEF ZeroBit
  <2> QED BY <2>1, <2>6
<1>4. \A k \in 0..n : k \in S
  <2> HIDE DEF S
  <2> QED BY <1>2, <1>3, UpTo
<1> QED BY <1>4

(* The low byte apart. *)
High(c) == {i \in c : i >= 8}

LEMMA HighAndLow ==
  ASSUME NEW c \in SUBSET All
  PROVE  /\ High(c) \in SUBSET All /\ LowByte(c) \in SUBSET All /\ LowByte(c) \in SUBSET (0..7)
         /\ c = Xor(LowByte(c), High(c))
         /\ Zeroes(High(c), 8) = Shr(c, 8)
<1>1. c \subseteq Nat
  BY AllNat
<1>2. /\ High(c) \in SUBSET All /\ LowByte(c) \in SUBSET All /\ LowByte(c) \in SUBSET (0..7)
      /\ \A i \in High(c) : i >= 8
  <2>1. High(c) \in SUBSET All /\ LowByte(c) \in SUBSET All
    BY DEF High, LowByte
  <2>2. \A i \in High(c) : i >= 8
    BY DEF High
  <2>3. ASSUME NEW i \in LowByte(c) PROVE i \in 0..7
    <3>1. i \in Nat /\ i < 8
      BY <1>1 DEF LowByte
    <3> QED BY <3>1
  <2> QED BY <2>1, <2>2, <2>3
<1>3. c = Xor(LowByte(c), High(c))
  <2>1. LowByte(c) \subseteq Nat /\ High(c) \subseteq Nat
    BY <1>1 DEF High, LowByte
  <2>2. Xor(LowByte(c), High(c)) \subseteq Nat
    BY <2>1 DEF Xor
  <2>3. ASSUME NEW i \in Nat PROVE i \in c <=> i \in Xor(LowByte(c), High(c))
    <3>1. i \in LowByte(c) <=> i \in c /\ i < 8
      BY DEF LowByte
    <3>2. i \in High(c) <=> i \in c /\ ~(i < 8)
      BY DEF High
    <3> QED BY <3>1, <3>2 DEF Xor
  <2> QED BY <1>1, <2>2, <2>3, SameNumbers
<1>4. Shr(High(c), 8) = Shr(c, 8)
  <2>1. High(c) \subseteq Nat
    BY <1>1 DEF High
  <2>2. Shr(High(c), 8) \subseteq Nat /\ Shr(c, 8) \subseteq Nat
    BY <1>1, <2>1, ShrIs
  <2>3. ASSUME NEW i \in Nat PROVE i \in Shr(High(c), 8) <=> i \in Shr(c, 8)
    <3>1. i \in Shr(High(c), 8) <=> i + 8 \in High(c)
      BY <2>1, ShrIs
    <3>2. i \in Shr(c, 8) <=> i + 8 \in c
      BY <1>1, ShrIs
    <3>3. i + 8 \in High(c) <=> i + 8 \in c
      BY DEF High
    <3> QED BY <3>1, <3>2, <3>3
  <2> QED BY <2>2, <2>3, SameNumbers
<1>5. Zeroes(High(c), 8) = Shr(High(c), 8)
  BY <1>2, ZeroesShift
<1> QED BY <1>2, <1>3, <1>4, <1>5

LEMMA LowByteApart ==
  ASSUME NEW c \in SUBSET All, NEW n \in Nat
  PROVE  Zeroes(c, 8 + n) = Xor(Zeroes(LowByte(c), 8 + n), Zeroes(Shr(c, 8), n))
<1>1. PICK l \in SUBSET All, h \in SUBSET All :
        l = LowByte(c) /\ h = High(c) /\ c = Xor(l, h) /\ Zeroes(h, 8) = Shr(c, 8)
  BY HighAndLow
<1>2. 8 + n \in Nat
  OBVIOUS
<1>3. Zeroes(c, 8 + n) = Xor(Zeroes(l, 8 + n), Zeroes(h, 8 + n))
  BY <1>1, <1>2, ZeroesXor
<1>4. Zeroes(h, 8 + n) = Zeroes(Shr(c, 8), n)
  BY <1>1, ZeroesAdd
<1> QED BY <1>1, <1>3, <1>4

-----------------------------------------------------------------------------
(* One byte at a time.                                                       *)
Push(c, byte) == Zeroes(Xor(c, BitSet(byte)), 8)

LEMMA BitSetLow == ASSUME NEW byte PROVE BitSet(byte) \in SUBSET (0..7) /\ BitSet(byte) \in SUBSET All
<1>1. BitSet(byte) \in SUBSET (0..7)
  BY DEF BitSet
<1>2. 0..7 \subseteq All
  BY DEF All
<1> QED BY <1>1, <1>2

LEMMA XorAll ==
  ASSUME NEW a \in SUBSET All, NEW b \in SUBSET All
  PROVE  Xor(a, b) \in SUBSET All
BY DEF Xor

LEMMA PushAll ==
  ASSUME NEW c \in SUBSET All, NEW byte
  PROVE  Push(c, byte) \in SUBSET All
<1>1. Xor(c, BitSet(byte)) \in SUBSET All
  BY BitSetLow, XorAll
<1> QED BY <1>1, ZeroesFacts DEF Push

LEMMA CrcFacts ==
  ASSUME NEW c \in SUBSET All, NEW data \in Seq(Bytes)
  PROVE  /\ Crc(c, data) \in [0..Len(data) -> SUBSET All] /\ Crc(c, data)[0] = c
         /\ \A k \in 1..Len(data) : Crc(c, data)[k] = Push(Crc(c, data)[k - 1], data[k])
<1> DEFINE n == Len(data)
           V == SUBSET All
           step == [k \in 1..n |-> [x \in V |-> Push(x, data[k])]]
           F == Loop(n, c, step)
<1>1. n \in Nat /\ c \in V
  OBVIOUS
<1>2. step \in [1..n -> [V -> V]]
  <2>1. ASSUME NEW k \in 1..n, NEW x \in V PROVE Push(x, data[k]) \in V
    BY PushAll
  <2> HIDE DEF V
  <2> QED BY <2>1
<1>3. Crc(c, data) = F
  BY DEF Crc, Push
<1>4. F \in [0..n -> V] /\ F[0] = c /\ \A k \in 1..n : F[k] = step[k][F[k - 1]]
  <2> HIDE DEF step, V, n
  <2> QED BY <1>1, <1>2, LoopFacts
<1>5. ASSUME NEW k \in 1..n PROVE F[k] = Push(F[k - 1], data[k])
  <2>1. F[k - 1] \in V
    <3>1. k - 1 \in 0..n
      OBVIOUS
    <3> HIDE DEF F
    <3> QED BY <1>4, <3>1
  <2> HIDE DEF F, V
  <2> QED BY <1>4, <2>1
<1> HIDE DEF F
<1> QED BY <1>3, <1>4, <1>5

Step1(c, byte) == Xor(Shr(c, 8), slice1_table[LowByte(Xor(c, BitSet(byte)))])

LEMMA Step1Is ==
  ASSUME NEW c \in SUBSET All, NEW byte
  PROVE  Step1(c, byte) = Push(c, byte)
<1>1. PICK b \in SUBSET All : b = BitSet(byte) /\ b \in SUBSET (0..7)
  BY BitSetLow
<1>2. PICK x \in SUBSET All : x = Xor(c, b)
  BY XorAll
<1>3. Zeroes(x, 8) = Xor(Zeroes(LowByte(x), 8), Shr(x, 8))
  <2>1. Zeroes(x, 8 + 0) = Xor(Zeroes(LowByte(x), 8 + 0), Zeroes(Shr(x, 8), 0))
    BY LowByteApart
  <2>2. Zeroes(Shr(x, 8), 0) = Shr(x, 8)
    <3>1. Shr(x, 8) \in SUBSET All
      BY ShrAll
    <3> QED BY <3>1, ZeroesFacts
  <2> QED BY <2>1, <2>2
<1>4. Shr(x, 8) = Shr(c, 8)
  <2>1. Shr(b, 8) = {}
    <3>1. b \subseteq Nat
      BY AllNat
    <3>2. Shr(b, 8) \subseteq Nat /\ \A i \in Nat : i \in Shr(b, 8) <=> i + 8 \in b
      BY <3>1, ShrIs
    <3>3. \A i \in Nat : i + 8 \notin b
      BY <1>1
    <3> QED BY <3>2, <3>3
  <2>2. Shr(x, 8) = Xor(Shr(c, 8), Shr(b, 8))
    BY <1>2, ShrXor
  <2> QED BY <2>1, <2>2 DEF Xor
<1>5. slice1_table[LowByte(x)] = Zeroes(LowByte(x), 8)
  <2>1. LowByte(x) \in SUBSET (0..7)
    BY HighAndLow
  <2>2. slice8_table[0] = [y \in SUBSET (0..7) |-> Zeroes(y, 8 * (0 + 1))]
    BY DEF slice8_table
  <2>3. 8 * (0 + 1) = 8
    OBVIOUS
  <2> QED BY <2>1, <2>2, <2>3 DEF slice1_table
<1>6. Step1(c, byte) = Xor(Shr(c, 8), Zeroes(LowByte(x), 8))
  BY <1>1, <1>2, <1>5 DEF Step1
<1>7. Push(c, byte) = Zeroes(x, 8)
  BY <1>1, <1>2 DEF Push
<1> QED BY <1>3, <1>4, <1>6, <1>7, XorLaws

(* F pushes the bytes one by one. *)
Pushing(F, data) ==
  /\ F \in [0..Len(data) -> SUBSET All]
  /\ \A k \in 1..Len(data) : F[k] = Push(F[k - 1], data[k])

LEMMA Slice1Is ==
  ASSUME NEW data \in Seq(Bytes), NEW F, Pushing(F, data),
         NEW p \in Nat, NEW n \in Nat, p + n <= Len(data)
  PROVE  crc32_slice1(F[p], data, p, n) = F[p + n]
<1> DEFINE V == SUBSET All
           step == [k \in 1..n |-> [x \in V |-> Step1(x, data[p + k])]]
           G == Loop(n, F[p], step)
<1>1. F \in [0..Len(data) -> V] /\ \A k \in 1..Len(data) : F[k] = Push(F[k - 1], data[k])
  BY DEF Pushing
<1>2. F[p] \in V /\ p \in 0..Len(data)
  BY <1>1
<1>3. step \in [1..n -> [V -> V]]
  <2>1. ASSUME NEW k \in 1..n, NEW x \in V PROVE Step1(x, data[p + k]) \in V
    BY Step1Is, PushAll
  <2> HIDE DEF V
  <2> QED BY <2>1
<1>4. crc32_slice1(F[p], data, p, n) = G[n]
  BY DEF crc32_slice1, Step1
<1>5. G[0] = F[p] /\ \A k \in 1..n : G[k] = step[k][G[k - 1]]
  <2>1. PICK b \in V : b = F[p]
    BY <1>2
  <2>2. /\ Loop(n, b, step)[0] = b
        /\ \A k \in 1..n : Loop(n, b, step)[k] = step[k][Loop(n, b, step)[k - 1]]
    <3> HIDE DEF step, V
    <3> QED BY <1>3, LoopFacts
  <2> HIDE DEF step, V
  <2> QED BY <2>1, <2>2
<1> HIDE DEF G
<1> DEFINE S == {k \in 0..n : G[k] = F[p + k]}
<1>6. 0 \in S
  <2>1. p + 0 = p /\ 0 \in 0..n
    OBVIOUS
  <2> QED BY <1>5, <2>1
<1>7. ASSUME NEW k \in 0..(n - 1), k \in S PROVE k + 1 \in S
  <2>1. PICK l \in 1..n, q \in 1..Len(data) :
          /\ l = k + 1 /\ l - 1 = k /\ q = p + l /\ q - 1 = p + k /\ l \in 0..n
          /\ p + k \in 0..Len(data)
    OBVIOUS
  <2>2. G[k] = F[p + k]
    BY <1>7
  <2>3. F[p + k] \in V /\ F[q] = Push(F[p + k], data[q])
    BY <1>1, <2>1
  <2>4. G[l] = step[l][F[p + k]]
    <3> HIDE DEF step, V
    <3>1. G[l] = step[l][G[l - 1]]
      BY <1>5, <2>1
    <3>2. G[l - 1] = F[p + k]
      BY <2>1, <2>2
    <3> QED BY <3>1, <3>2, Zenon
  <2>5. G[l] = Step1(F[p + k], data[q])
    <3> HIDE DEF V
    <3> QED BY <2>1, <2>3, <2>4
  <2>6. G[l] = F[q]
    BY <2>3, <2>5, Step1Is
  <2> QED BY <2>1, <2>6
<1>8. \A k \in 0..n : k \in S
  <2> HIDE DEF S
  <2> QED BY <1>6, <1>7, UpTo
<1> QED BY <1>4, <1>8

-----------------------------------------------------------------------------
(* Four bytes, and eight bytes, at a time.                                   *)
LEMMA JoinByte ==
  ASSUME NEW w \in SUBSET All, NEW byte, NEW m \in 0..24
  PROVE  Push(Zeroes(w, m), byte) = Zeroes(Xor(w, Shl(BitSet(byte), m)), m + 8)
<1>1. PICK b \in SUBSET (0..7) : b = BitSet(byte)
  BY BitSetLow
<1>2. PICK s \in SUBSET All : s = Shl(b, m)
  <2>1. b \subseteq Nat /\ m \in Nat
    OBVIOUS
  <2> QED BY <2>1, ShlIs
<1>3. m \in Nat /\ 8 \in Nat
  OBVIOUS
<1>4. Zeroes(s, m) = b
  <2>1. Shr(s, m) = b /\ \A i \in s : i >= m
    BY <1>2, ShrShl
  <2> QED BY <1>3, <2>1, ZeroesShift
<1>5. PICK x \in SUBSET All : x = Xor(w, s)
  BY XorAll
<1>6. Zeroes(x, m) = Xor(Zeroes(w, m), b)
  BY <1>3, <1>4, <1>5, ZeroesXor
<1>7. Zeroes(Zeroes(x, m), 8) = Zeroes(x, m + 8)
  BY <1>3, ZeroesAdd
<1> QED BY <1>1, <1>2, <1>5, <1>6, <1>7 DEF Push

LEMMA ShlAll ==
  ASSUME NEW a \in SUBSET (0..7), NEW n \in Nat
  PROVE  Shl(a, n) \in SUBSET All
<1>1. a \subseteq Nat
  OBVIOUS
<1> QED BY <1>1, ShlIs

LEMMA XorUnion ==
  ASSUME NEW c, NEW a, NEW b, a \cap b = {}
  PROVE  Xor(c, a \cup b) = Xor(Xor(c, a), b)
BY DEF Xor

Four(c, data, p) == Push(Push(Push(Push(c, data[p + 1]), data[p + 2]), data[p + 3]), data[p + 4])

LEMMA FourIs ==
  ASSUME NEW c \in SUBSET All, NEW data, NEW p
  PROVE  /\ Word4(data, p) \in SUBSET All
         /\ Four(c, data, p) = Zeroes(Xor(c, Word4(data, p)), 32)
<1>1. PICK b1, b2, b3, b4 \in SUBSET (0..7) :
        /\ b1 = BitSet(data[p + 1]) /\ b2 = BitSet(data[p + 2])
        /\ b3 = BitSet(data[p + 3]) /\ b4 = BitSet(data[p + 4])
  BY BitSetLow
<1>2. PICK s1, s2, s3, s4 : s1 = Shl(b1, 0) /\ s2 = Shl(b2, 8) /\ s3 = Shl(b3, 16) /\ s4 = Shl(b4, 24)
  OBVIOUS
<1>3. s1 = b1
  <2>1. b1 \subseteq Nat /\ 0 \in 0..24
    OBVIOUS
  <2>2. Shl(b1, 0) \subseteq Nat
    BY <2>1, ShlIs, AllNat
  <2>3. Shr(Shl(b1, 0), 0) = b1
    BY <2>1, ShrShl
  <2>4. Shr(Shl(b1, 0), 0) = Shl(b1, 0)
    BY <2>2, ShrShr
  <2> QED BY <1>2, <2>3, <2>4
<1>4. s1 \in SUBSET All /\ s2 \in SUBSET All /\ s3 \in SUBSET All /\ s4 \in SUBSET All
  <2>1. 0 \in Nat /\ 8 \in Nat /\ 16 \in Nat /\ 24 \in Nat
    OBVIOUS
  <2> QED BY <1>2, <2>1, ShlAll
<1>5. /\ \A i \in s1 : i >= 0 /\ i <= 7
      /\ \A i \in s2 : i >= 8 /\ i <= 15
      /\ \A i \in s3 : i >= 16 /\ i <= 23
      /\ \A i \in s4 : i >= 24 /\ i <= 31
  <2>1. 0 \in 0..24 /\ 8 \in 0..24 /\ 16 \in 0..24 /\ 24 \in 0..24
    OBVIOUS
  <2>2. \A i \in s1 : i >= 0 /\ i <= 0 + 7
    BY <1>2, <2>1, ShrShl
  <2>3. \A i \in s2 : i >= 8 /\ i <= 8 + 7
    BY <1>2, <2>1, ShrShl
  <2>4. \A i \in s3 : i >= 16 /\ i <= 16 + 7
    BY <1>2, <2>1, ShrShl
  <2>5. \A i \in s4 : i >= 24 /\ i <= 24 + 7
    BY <1>2, <2>1, ShrShl
  <2>6. 0 + 7 = 7 /\ 8 + 7 = 15 /\ 16 + 7 = 23 /\ 24 + 7 = 31
    OBVIOUS
  <2> QED BY <2>2, <2>3, <2>4, <2>5, <2>6
<1>6. Word4(data, p) = s1 \cup s2 \cup s3 \cup s4
  BY <1>1, <1>2, <1>3 DEF Word4
<1>7. /\ s1 \cap s2 = {} /\ (s1 \cup s2) \cap s3 = {} /\ (s1 \cup s2 \cup s3) \cap s4 = {}
  <2>1. s1 \subseteq Nat /\ s2 \subseteq Nat /\ s3 \subseteq Nat /\ s4 \subseteq Nat
    BY <1>4, AllNat
  <2> QED BY <1>5, <2>1
<1>8. Xor(c, Word4(data, p)) = Xor(Xor(Xor(Xor(c, s1), s2), s3), s4)
  <2>1. Xor(c, Word4(data, p)) = Xor(Xor(c, s1 \cup s2 \cup s3), s4)
    BY <1>6, <1>7, XorUnion
  <2>2. Xor(c, s1 \cup s2 \cup s3) = Xor(Xor(c, s1 \cup s2), s3)
    BY <1>7, XorUnion
  <2>3. Xor(c, s1 \cup s2) = Xor(Xor(c, s1), s2)
    BY <1>7, XorUnion
  <2> QED BY <2>1, <2>2, <2>3
<1>9. PICK w1, w2, w3, w4 \in SUBSET All :
        w1 = Xor(c, s1) /\ w2 = Xor(w1, s2) /\ w3 = Xor(w2, s3) /\ w4 = Xor(w3, s4)
  <2>1. PICK w1 \in SUBSET All : w1 = Xor(c, s1)
    BY <1>4, XorAll
  <2>2. PICK w2 \in SUBSET All : w2 = Xor(w1, s2)
    BY <1>4, XorAll
  <2>3. PICK w3 \in SUBSET All : w3 = Xor(w2, s3)
    BY <1>4, XorAll
  <2>4. PICK w4 \in SUBSET All : w4 = Xor(w3, s4)
    BY <1>4, XorAll
  <2> QED BY <2>1, <2>2, <2>3, <2>4
<1>10. Push(c, data[p + 1]) = Zeroes(w1, 8)
  BY <1>1, <1>3, <1>9 DEF Push
<1>11. Push(Zeroes(w1, 8), data[p + 2]) = Zeroes(w2, 16)
  <2>1. Push(Zeroes(w1, 8), data[p + 2]) = Zeroes(Xor(w1, Shl(BitSet(data[p + 2]), 8)), 8 + 8)
    BY JoinByte
  <2>2. 8 + 8 = 16
    OBVIOUS
  <2> QED BY <1>1, <1>2, <1>9, <2>1, <2>2
<1>12. Push(Zeroes(w2, 16), data[p + 3]) = Zeroes(w3, 24)
  <2>1. Push(Zeroes(w2, 16), data[p + 3]) = Zeroes(Xor(w2, Shl(BitSet(data[p + 3]), 16)), 16 + 8)
    BY JoinByte
  <2>2. 16 + 8 = 24
    OBVIOUS
  <2> QED BY <1>1, <1>2, <1>9, <2>1, <2>2
<1>13. Push(Zeroes(w3, 24), data[p + 4]) = Zeroes(w4, 32)
  <2>1. Push(Zeroes(w3, 24), data[p + 4]) = Zeroes(Xor(w3, Shl(BitSet(data[p + 4]), 24)), 24 + 8)
    BY JoinByte
  <2>2. 24 + 8 = 32
    OBVIOUS
  <2> QED BY <1>1, <1>2, <1>9, <2>1, <2>2
<1>14. Four(c, data, p) = Zeroes(w4, 32)
  BY <1>10, <1>11, <1>12, <1>13 DEF Four
<1>15. Xor(c, Word4(data, p)) = w4
  BY <1>8, <1>9
<1>16. Word4(data, p) \in SUBSET All
  BY <1>4, <1>6
<1> QED BY <1>14, <1>15, <1>16

(* Four bytes of a register, each through a table of its own. *)
LEMMA FourApart ==
  ASSUME NEW x \in SUBSET All, NEW n \in Nat
  PROVE  Zeroes(x, n + 32) = Xor(Xor(Zeroes(Byte(x, 0), n + 32), Zeroes(Byte(x, 1), n + 24)),
                                 Xor(Zeroes(Byte(x, 2), n + 16), Zeroes(Byte(x, 3), n + 8)))
<1>1. x \in SUBSET Nat /\ 8 \in Nat /\ 16 \in Nat /\ 24 \in Nat /\ 32 \in Nat
  BY AllNat
<1>2. PICK x1, x2, x3, x4 \in SUBSET All :
        x1 = Shr(x, 8) /\ x2 = Shr(x, 16) /\ x3 = Shr(x, 24) /\ x4 = Shr(x, 32)
  BY <1>1, ShrAll
<1>3. x2 = Shr(x1, 8) /\ x3 = Shr(x2, 8) /\ x4 = Shr(x3, 8) /\ Shr(x, 0) = x
  <2>1. \A i, j \in Nat : Shr(Shr(x, i), j) = Shr(x, i + j) /\ Shr(x, 0) = x
    BY <1>1, ShrShr
  <2>2. Shr(Shr(x, 8), 8) = Shr(x, 8 + 8) /\ Shr(Shr(x, 16), 8) = Shr(x, 16 + 8)
    BY <1>1, <2>1, Zenon
  <2>3. Shr(Shr(x, 24), 8) = Shr(x, 24 + 8) /\ Shr(x, 0) = x
    BY <1>1, <2>1, Zenon
  <2>4. 8 + 8 = 16 /\ 16 + 8 = 24 /\ 24 + 8 = 32
    OBVIOUS
  <2> QED BY <1>2, <2>2, <2>3, <2>4
<1>4. /\ Byte(x, 0) = LowByte(x) /\ Byte(x, 1) = LowByte(x1)
      /\ Byte(x, 2) = LowByte(x2) /\ Byte(x, 3) = LowByte(x3)
  <2>1. 8 * 0 = 0 /\ 8 * 1 = 8 /\ 8 * 2 = 16 /\ 8 * 3 = 24
    OBVIOUS
  <2> QED BY <1>2, <1>3, <2>1 DEF Byte
<1>5. x4 = {}
  <2>1. x4 \subseteq Nat /\ \A i \in Nat : i \in x4 <=> i + 32 \in x
    BY <1>1, <1>2, ShrIs
  <2>2. \A i \in Nat : i + 32 \notin x
    BY DEF All
  <2> QED BY <2>1, <2>2
<1>6. PICK m1, m2, m3, m4 \in Nat : m1 = n + 24 /\ m2 = n + 16 /\ m3 = n + 8 /\ m4 = n
  OBVIOUS
<1>7. n + 32 = 8 + m1 /\ m1 = 8 + m2 /\ m2 = 8 + m3 /\ m3 = 8 + m4
  BY <1>6
<1>8. Zeroes(x, 8 + m1) = Xor(Zeroes(LowByte(x), 8 + m1), Zeroes(x1, m1))
  BY <1>2, LowByteApart
<1>9. Zeroes(x1, 8 + m2) = Xor(Zeroes(LowByte(x1), 8 + m2), Zeroes(x2, m2))
  BY <1>3, LowByteApart
<1>10. Zeroes(x2, 8 + m3) = Xor(Zeroes(LowByte(x2), 8 + m3), Zeroes(x3, m3))
  BY <1>3, LowByteApart
<1>11. Zeroes(x3, 8 + m4) = Xor(Zeroes(LowByte(x3), 8 + m4), Zeroes(x4, m4))
  BY <1>3, LowByteApart
<1>12. Zeroes(x4, m4) = {}
  <2>1. x4 \subseteq Nat /\ Shr(x4, m4) \subseteq Nat /\ \A i \in Nat : i \in Shr(x4, m4) <=> i + m4 \in x4
    BY <1>5, ShrIs
  <2>2. Shr(x4, m4) = {}
    BY <1>5, <2>1
  <2>3. Zeroes(x4, m4) = Shr(x4, m4)
    BY <1>5, ZeroesShift
  <2> QED BY <2>2, <2>3
<1> DEFINE z0 == Zeroes(Byte(x, 0), n + 32)
           z1 == Zeroes(Byte(x, 1), m1)
           z2 == Zeroes(Byte(x, 2), m2)
           z3 == Zeroes(Byte(x, 3), m3)
<1>13. Zeroes(x, n + 32) = Xor(z0, Xor(z1, Xor(z2, Xor(z3, {}))))
  <2>1. Zeroes(x, n + 32) = Xor(z0, Zeroes(x1, m1))
    BY <1>4, <1>7, <1>8
  <2>2. Zeroes(x1, m1) = Xor(z1, Zeroes(x2, m2))
    BY <1>4, <1>7, <1>9
  <2>3. Zeroes(x2, m2) = Xor(z2, Zeroes(x3, m3))
    BY <1>4, <1>7, <1>10
  <2>4. Zeroes(x3, m3) = Xor(z3, {})
    BY <1>4, <1>7, <1>11, <1>12
  <2> HIDE DEF z0, z1, z2, z3
  <2> QED BY <2>1, <2>2, <2>3, <2>4
<1>14. Xor(z0, Xor(z1, Xor(z2, Xor(z3, {})))) = Xor(Xor(z0, z1), Xor(z2, z3))
  <2> HIDE DEF z0, z1, z2, z3
  <2>1. Xor(z3, {}) = z3
    BY DEF Xor
  <2>2. Xor(z0, Xor(z1, Xor(z2, z3))) = Xor(Xor(z0, z1), Xor(z2, z3))
    BY XorLaws
  <2> QED BY <2>1, <2>2
<1> QED BY <1>6, <1>13, <1>14

LEMMA EightIs ==
  ASSUME NEW c \in SUBSET All, NEW data, NEW p \in Nat
  PROVE  /\ Eight(c, data, p) \in SUBSET All
         /\ Eight(c, data, p) = Four(Four(c, data, p), data, p + 4)
<1>1. PICK w, v \in SUBSET All : w = Word4(data, p) /\ v = Word4(data, p + 4)
  BY FourIs
<1>2. PICK x \in SUBSET All : x = Xor(c, w)
  BY XorAll
<1>3. PICK f \in SUBSET All : f = Zeroes(x, 32) /\ f = Four(c, data, p)
  <2>1. Four(c, data, p) = Zeroes(x, 32)
    BY <1>1, <1>2, FourIs
  <2>2. Zeroes(x, 32) \in SUBSET All
    BY ZeroesFacts
  <2> QED BY <2>1, <2>2
<1>4. PICK y \in SUBSET All : y = Xor(f, v)
  BY XorAll
<1>5. Four(f, data, p + 4) = Zeroes(y, 32)
  BY <1>1, <1>4, FourIs
<1>6. Zeroes(y, 32) = Xor(Zeroes(x, 64), Zeroes(v, 32))
  <2>1. Zeroes(y, 32) = Xor(Zeroes(f, 32), Zeroes(v, 32))
    BY <1>4, ZeroesXor
  <2>2. Zeroes(Zeroes(x, 32), 32) = Zeroes(x, 32 + 32)
    BY ZeroesAdd
  <2>3. 32 + 32 = 64
    OBVIOUS
  <2> QED BY <1>3, <2>1, <2>2, <2>3
<1> DEFINE X(t, b) == slice8_table[t][b]
<1>7. ASSUME NEW t \in 0..7, NEW a \in SUBSET All, NEW k \in Nat
      PROVE  X(t, Byte(a, k)) = Zeroes(Byte(a, k), 8 * (t + 1))
  <2>1. Byte(a, k) \in SUBSET (0..7)
    <3>1. 8 * k \in Nat
      OBVIOUS
    <3>2. Shr(a, 8 * k) \in SUBSET All
      BY <3>1, ShrAll
    <3> QED BY <3>2, HighAndLow DEF Byte
  <2>2. slice8_table[t] = [b \in SUBSET (0..7) |-> Zeroes(b, 8 * (t + 1))]
    BY DEF slice8_table
  <2> QED BY <2>1, <2>2
<1>8. Zeroes(x, 64) = Xor(Xor(X(7, Byte(x, 0)), X(6, Byte(x, 1))), Xor(X(5, Byte(x, 2)), X(4, Byte(x, 3))))
  <2>1. Zeroes(x, 32 + 32) = Xor(Xor(Zeroes(Byte(x, 0), 32 + 32), Zeroes(Byte(x, 1), 32 + 24)),
                                 Xor(Zeroes(Byte(x, 2), 32 + 16), Zeroes(Byte(x, 3), 32 + 8)))
    BY FourApart
  <2>2. /\ X(7, Byte(x, 0)) = Zeroes(Byte(x, 0), 8 * (7 + 1)) /\ X(6, Byte(x, 1)) = Zeroes(Byte(x, 1), 8 * (6 + 1))
        /\ X(5, Byte(x, 2)) = Zeroes(Byte(x, 2), 8 * (5 + 1)) /\ X(4, Byte(x, 3)) = Zeroes(Byte(x, 3), 8 * (4 + 1))
    <3> HIDE DEF X
    <3>1. 7 \in 0..7 /\ 6 \in 0..7 /\ 5 \in 0..7 /\ 4 \in 0..7 /\ 0 \in Nat /\ 1 \in Nat /\ 2 \in Nat /\ 3 \in Nat
      OBVIOUS
    <3> QED BY <1>7, <3>1
  <2>3. /\ 32 + 32 = 64 /\ 8 * (7 + 1) = 64 /\ 32 + 24 = 56 /\ 8 * (6 + 1) = 56
        /\ 32 + 16 = 48 /\ 8 * (5 + 1) = 48 /\ 32 + 8 = 40 /\ 8 * (4 + 1) = 40
    OBVIOUS
  <2> HIDE DEF X
  <2> QED BY <2>1, <2>2, <2>3
<1>9. Zeroes(v, 32) = Xor(Xor(X(3, Byte(v, 0)), X(2, Byte(v, 1))), Xor(X(1, Byte(v, 2)), X(0, Byte(v, 3))))
  <2>1. Zeroes(v, 0 + 32) = Xor(Xor(Zeroes(Byte(v, 0), 0 + 32), Zeroes(Byte(v, 1), 0 + 24)),
                                Xor(Zeroes(Byte(v, 2), 0 + 16), Zeroes(Byte(v, 3), 0 + 8)))
    BY FourApart
  <2>2. /\ X(3, Byte(v, 0)) = Zeroes(Byte(v, 0), 8 * (3 + 1)) /\ X(2, Byte(v, 1)) = Zeroes(Byte(v, 1), 8 * (2 + 1))
        /\ X(1, Byte(v, 2)) = Zeroes(Byte(v, 2), 8 * (1 + 1)) /\ X(0, Byte(v, 3)) = Zeroes(Byte(v, 3), 8 * (0 + 1))
    <3> HIDE DEF X
    <3>1. 3 \in 0..7 /\ 2 \in 0..7 /\ 1 \in 0..7 /\ 0 \in 0..7 /\ 0 \in Nat /\ 1 \in Nat /\ 2 \in Nat /\ 3 \in Nat
      OBVIOUS
    <3> QED BY <1>7, <3>1
  <2>3. /\ 0 + 32 = 32 /\ 8 * (3 + 1) = 32 /\ 0 + 24 = 24 /\ 8 * (2 + 1) = 24
        /\ 0 + 16 = 16 /\ 8 * (1 + 1) = 16 /\ 0 + 8 = 8 /\ 8 * (0 + 1) = 8
    OBVIOUS
  <2> HIDE DEF X
  <2> QED BY <2>1, <2>2, <2>3
<1>10. Eight(c, data, p) =
         Xor(Xor(Xor(X(7, Byte(x, 0)), X(6, Byte(x, 1))), Xor(X(5, Byte(x, 2)), X(4, Byte(x, 3)))),
             Xor(Xor(X(3, Byte(v, 0)), X(2, Byte(v, 1))), Xor(X(1, Byte(v, 2)), X(0, Byte(v, 3)))))
  BY <1>1, <1>2, Zenon DEF Eight
<1>11. Eight(c, data, p) = Zeroes(y, 32)
  <2> HIDE DEF X
  <2> QED BY <1>6, <1>8, <1>9, <1>10
<1>12. Zeroes(y, 32) \in SUBSET All
  BY ZeroesFacts
<1> QED BY <1>3, <1>5, <1>11, <1>12

LEMMA EightGoesOn ==
  ASSUME NEW data \in Seq(Bytes), NEW F, Pushing(F, data), NEW p \in Nat, p + 8 <= Len(data)
  PROVE  F[p] \in SUBSET All /\ Eight(F[p], data, p) = F[p + 8]
<1>1. F \in [0..Len(data) -> SUBSET All] /\ \A k \in 1..Len(data) : F[k] = Push(F[k - 1], data[k])
  BY DEF Pushing
<1>2. PICK q \in Nat : q = p + 4 /\ p \in 0..Len(data) /\ q \in 0..Len(data)
  OBVIOUS
<1>3. ASSUME NEW r \in Nat, r + 4 <= Len(data) PROVE F[r + 4] = Four(F[r], data, r)
  <2>1. PICK r1, r2, r3, r4 \in 1..Len(data) :
          /\ r1 = r + 1 /\ r2 = r + 2 /\ r3 = r + 3 /\ r4 = r + 4
          /\ r1 - 1 = r /\ r2 - 1 = r1 /\ r3 - 1 = r2 /\ r4 - 1 = r3
    BY <1>3
  <2>2. F[r1] = Push(F[r], data[r1]) /\ F[r2] = Push(F[r1], data[r2])
    BY <1>1, <2>1
  <2>3. F[r3] = Push(F[r2], data[r3]) /\ F[r4] = Push(F[r3], data[r4])
    BY <1>1, <2>1
  <2> QED BY <2>1, <2>2, <2>3 DEF Four
<1>4. F[q] = Four(F[p], data, p)
  BY <1>2, <1>3
<1>5. F[q + 4] = Four(F[q], data, q)
  BY <1>2, <1>3
<1>6. F[p] \in SUBSET All
  BY <1>1, <1>2
<1>7. Eight(F[p], data, p) = Four(Four(F[p], data, p), data, p + 4)
  BY <1>6, EightIs
<1>8. q + 4 = p + 8
  BY <1>2
<1> QED BY <1>2, <1>4, <1>5, <1>6, <1>7, <1>8

LEMMA CrcIs ==
  ASSUME NEW a \in SUBSET All, NEW data \in Seq(Bytes), NEW ahead \in Nat
  PROVE  crc32_slice8(a, data, ahead) = Crc(a, data)[Len(data)]
<1> DEFINE n == Len(data)
           F == Crc(a, data)
           V == SUBSET All
           head == IF n < ahead THEN n ELSE ahead
           eights == (n - head) \div 8
           step == [k \in 1..eights |-> [c \in V |-> Eight(c, data, head + 8 * (k - 1))]]
           G == Loop(eights, crc32_slice1(a, data, 0, head), step)
<1>1. n \in Nat /\ head \in 0..n /\ n - head \in Nat
  OBVIOUS
<1>2. crc32_slice8(a, data, ahead) = crc32_slice1(G[eights], data, head + 8 * eights, (n - head) % 8)
  BY DEF crc32_slice8
<1> HIDE DEF head, n, F
<1>3. PICK r \in Nat : eights \in Nat /\ r = (n - head) % 8 /\ n - head = 8 * eights + r
  BY <1>1, DivMod
<1> HIDE DEF eights
<1>facts. /\ Crc(a, data) \in [0..Len(data) -> SUBSET All] /\ Crc(a, data)[0] = a
          /\ \A k \in 1..Len(data) : Crc(a, data)[k] = Push(Crc(a, data)[k - 1], data[k])
  BY CrcFacts
<1>4. F \in [0..n -> V] /\ F[0] = a
  BY <1>facts DEF F, n
<1>pushing. Pushing(F, data)
  BY <1>facts DEF F, Pushing
<1>5. crc32_slice1(a, data, 0, head) = F[head]
  <2>1. crc32_slice1(F[0], data, 0, head) = F[0 + head]
    <3>1. 0 \in Nat /\ head \in Nat /\ 0 + head <= Len(data)
      BY <1>1 DEF n
    <3> QED BY <1>pushing, <3>1, Slice1Is
  <2>2. 0 + head = head
    BY <1>1
  <2> QED BY <1>4, <2>1, <2>2
<1>6. F[head] \in V
  BY <1>1, <1>4
<1>7. step \in [1..eights -> [V -> V]]
  <2>1. ASSUME NEW k \in 1..eights, NEW c \in V PROVE Eight(c, data, head + 8 * (k - 1)) \in V
    <3>1. head + 8 * (k - 1) \in Nat
      BY <1>1, <1>3
    <3> QED BY <3>1, EightIs
  <2> HIDE DEF V
  <2> QED BY <2>1
<1>8. G[0] = F[head] /\ \A k \in 1..eights : G[k] = step[k][G[k - 1]]
  <2> HIDE DEF step, V
  <2>1. PICK b \in V : b = F[head]
    BY <1>6
  <2>2. /\ Loop(eights, b, step)[0] = b
        /\ \A k \in 1..eights : Loop(eights, b, step)[k] = step[k][Loop(eights, b, step)[k - 1]]
    <3>1. eights \in Nat
      BY <1>3
    <3> QED BY <1>7, <3>1, LoopFacts
  <2> QED BY <1>5, <2>1, <2>2
<1> HIDE DEF G
<1> DEFINE S == {k \in 0..eights : G[k] = F[head + 8 * k]}
<1>9. 0 \in S
  <2>1. head + 8 * 0 = head /\ 0 \in 0..eights
    BY <1>1, <1>3
  <2> QED BY <1>8, <2>1
<1>10. ASSUME NEW k \in 0..(eights - 1), k \in S PROVE k + 1 \in S
  <2>1. PICK l \in 1..eights : l = k + 1 /\ l - 1 = k /\ l \in 0..eights
    BY <1>3
  <2>2. PICK q \in Nat : q = head + 8 * k /\ q + 8 = head + 8 * l /\ q + 8 <= n
    BY <1>1, <1>3, <2>1
  <2>3. G[k] = F[q]
    BY <1>10, <2>2
  <2>4. F[q] \in V /\ Eight(F[q], data, q) = F[q + 8]
    <3>1. q + 8 <= Len(data)
      BY <2>2 DEF n
    <3> QED BY <1>pushing, <3>1, EightGoesOn
  <2>5. G[l] = Eight(F[q], data, q)
    <3> HIDE DEF V
    <3>1. G[l] = step[l][F[q]]
      BY <1>8, <2>1, <2>3
    <3>2. step[l] = [c \in V |-> Eight(c, data, q)]
      BY <2>1, <2>2
    <3> HIDE DEF step
    <3> QED BY <2>4, <3>1, <3>2
  <2>6. G[l] = F[head + 8 * l]
    BY <2>2, <2>4, <2>5
  <2> QED BY <2>1, <2>6
<1>11. G[eights] = F[head + 8 * eights]
  <2>1. \A k \in 0..eights : k \in S
    <3> HIDE DEF S
    <3> QED BY <1>3, <1>9, <1>10, UpTo
  <2>2. eights \in 0..eights
    BY <1>3
  <2> QED BY <2>1, <2>2
<1>12. PICK q \in Nat : q = head + 8 * eights /\ q + r = n
  BY <1>1, <1>3
<1>13. crc32_slice1(F[q], data, q, r) = F[q + r]
  <2>1. q + r <= Len(data)
    BY <1>1, <1>12 DEF n
  <2> QED BY <1>pushing, <2>1, Slice1Is
<1>14. crc32_slice8(a, data, ahead) = F[n]
  BY <1>2, <1>3, <1>11, <1>12, <1>13
<1> QED BY <1>14 DEF F, n

(* Both generic checksums, adler32.c:105-119 with its chunks and its unrolled  *)
(* loop, and crc32.c's slice-by-8 from any alignment, come to the checksum by  *)
(* its definition, for all data.                                               *)
THEOREM ChecksumsAreRight ==
  ASSUME NEW data \in Seq(Bytes), NEW ahead \in Nat
  PROVE  Agree(data, ahead)
<1>1. <<1, 0>> \in Sums /\ Reduced(<<1, 0>>)
  BY DEF Sums, Reduced, DIVISOR
<1>2. libdeflate_adler32(data) = Adler(<<1, 0>>, data)[Len(data)]
  BY <1>1, AdlerIs DEF libdeflate_adler32
<1>3. libdeflate_crc32(data, ahead) = All \ Crc(All, data)[Len(data)]
  <2>1. All \in SUBSET All
    OBVIOUS
  <2> QED BY <2>1, CrcIs DEF libdeflate_crc32
<1> QED BY <1>2, <1>3 DEF Agree
=============================================================================
