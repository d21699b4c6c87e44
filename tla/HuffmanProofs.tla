---------------------------- MODULE HuffmanProofs ----------------------------
(* The Huffman codes that the compressor makes are complete, and the runs in *)
(* which it transmits their lengths read back as these lengths: for every    *)
(* alphabet, all frequencies and all lengths.                                *)
EXTENDS HuffmanTables, Induction, SequenceTheorems, FunctionTheorems, TLAPS

-----------------------------------------------------------------------------
(* The codeword lengths.  (The provers see a name better than an interval.)   *)
Lengths == 0..15

LEMMA LengthsSmall == \A v \in Lengths : v \in Nat /\ v <= 15
BY DEF Lengths

(* Precode items.  item stands for the lengths behind the p-th, up to the    *)
(* q-th.                                                                     *)
Stands(item, lengths, p, q) ==
  /\ p \in Nat /\ q \in Nat /\ p < q /\ q <= Len(lengths)
  /\ \/ /\ item[1] = 16 /\ item[2] \in Nat /\ item[2] <= 3 /\ q = p + 3 + item[2]
        /\ p > 0 /\ \A k \in (p + 1)..q : lengths[k] = lengths[p]
     \/ /\ item[1] = 17 /\ item[2] \in Nat /\ item[2] <= 7 /\ q = p + 3 + item[2]
        /\ \A k \in (p + 1)..q : lengths[k] = 0
     \/ /\ item[1] = 18 /\ item[2] \in Nat /\ item[2] <= 127 /\ q = p + 11 + item[2]
        /\ \A k \in (p + 1)..q : lengths[k] = 0
     \/ item[1] \in Nat /\ item[1] <= 15 /\ item[2] = 0 /\ q = p + 1 /\ lengths[q] = item[1]

(* The items stand for these lengths one after the other; pos says how far.  *)
Marks(items, lengths, p, q, pos) ==
  /\ pos \in [0..Len(items) -> Nat] /\ pos[0] = p /\ pos[Len(items)] = q
  /\ \A k \in 1..Len(items) : Stands(items[k], lengths, pos[k - 1], pos[k])
Writes(items, lengths, p, q) ==
  items \in Seq(Entries) /\ \E pos : Marks(items, lengths, p, q, pos)

LEMMA WritesBoth ==
  ASSUME NEW xs, NEW ys, NEW lengths, NEW p, NEW q, NEW r,
         Writes(xs, lengths, p, q), Writes(ys, lengths, q, r)
  PROVE  Writes(xs \o ys, lengths, p, r)
<1>1. PICK f : Marks(xs, lengths, p, q, f)
  BY DEF Writes
<1>2. PICK g : Marks(ys, lengths, q, r, g)
  BY DEF Writes
<1>3. PICK m \in Nat, n \in Nat : m = Len(xs) /\ n = Len(ys)
  BY DEF Writes
<1>4. f \in [0..m -> Nat] /\ f[0] = p /\ f[m] = q /\ g \in [0..n -> Nat] /\ g[0] = q /\ g[n] = r
  BY <1>1, <1>2, <1>3 DEF Marks
<1>5. /\ \A k \in 1..m : Stands(xs[k], lengths, f[k - 1], f[k])
      /\ \A k \in 1..n : Stands(ys[k], lengths, g[k - 1], g[k])
  BY <1>1, <1>2, <1>3 DEF Marks
<1> DEFINE zs == xs \o ys
           h == [k \in 0..(m + n) |-> IF k <= m THEN f[k] ELSE g[k - m]]
<1>6. zs \in Seq(Entries) /\ Len(zs) = m + n
  BY <1>3 DEF Writes
<1>7. \A k \in 1..(m + n) : zs[k] = IF k <= m THEN xs[k] ELSE ys[k - m]
  BY <1>3 DEF Writes
<1>8. /\ DOMAIN h = 0..(m + n)
      /\ \A k \in 0..m : h[k] = f[k]
      /\ \A k \in 0..n : k > 0 => h[m + k] = g[k]
  OBVIOUS
<1> HIDE DEF zs
<1>9. h = [k \in 0..(m + n) |-> h[k]]
  OBVIOUS
<1> HIDE DEF h
<1>10. \A k \in 0..n : h[m + k] = g[k]
  <2> SUFFICES ASSUME NEW k \in 0..n, k = 0 PROVE h[m + k] = g[k]
    BY <1>8
  <2> QED BY <1>4, <1>8
<1>11. \A k \in 0..(m + n) : k \in 0..m \/ \E j \in 0..n : k = m + j
  <2> SUFFICES ASSUME NEW k \in 0..(m + n), k > m PROVE \E j \in 0..n : k = m + j
    OBVIOUS
  <2>1. k - m \in 0..n /\ k = m + (k - m)
    OBVIOUS
  <2> QED BY <2>1
<1>12. h \in [0..(m + n) -> Nat]
  <2>1. ASSUME NEW k \in 0..(m + n) PROVE h[k] \in Nat
    BY <1>4, <1>8, <1>10, <1>11
  <2> QED BY <1>9, <2>1
<1>13. h[0] = p /\ h[m + n] = r
  BY <1>4, <1>8, <1>10
<1>14. ASSUME NEW k \in 1..(m + n) PROVE Stands(zs[k], lengths, h[k - 1], h[k])
  <2>1. CASE k <= m
    <3>1. PICK l \in 0..m : l = k - 1 /\ k \in 1..m /\ k \in 0..m
      BY <2>1
    <3>2. zs[k] = xs[k] /\ h[k] = f[k] /\ h[l] = f[l]
      BY <1>7, <1>8, <2>1, <3>1
    <3> QED BY <1>5, <3>1, <3>2
  <2>2. CASE k > m
    <3>1. PICK j \in 1..n : j = k - m
      BY <2>2
    <3>2. PICK i \in 0..n : i = j - 1 /\ m + i = k - 1 /\ m + j = k /\ j \in 0..n
      BY <3>1
    <3>3. zs[k] = ys[j]
      BY <1>7, <2>2, <3>1
    <3>4. h[k] = g[j] /\ h[k - 1] = g[i]
      BY <1>10, <3>2
    <3>5. Stands(ys[j], lengths, g[i], g[j])
      BY <1>5, <3>2
    <3> QED BY <3>3, <3>4, <3>5
  <2> QED BY <2>1, <2>2
<1>15. Marks(zs, lengths, p, r, h)
  BY <1>6, <1>12, <1>13, <1>14 DEF Marks
<1> QED BY <1>6, <1>15 DEF Writes, zs

(* m times the same item, each for c lengths. *)
LEMMA WritesFull ==
  ASSUME NEW item \in Entries, NEW lengths, NEW m \in Nat, NEW p \in Nat, NEW q,
         NEW pos \in [0..m -> Nat], pos[0] = p, pos[m] = q,
         \A k \in 1..m : Stands(item, lengths, pos[k - 1], pos[k])
  PROVE  Writes(Full(item, m), lengths, p, q)
<1>1. Full(item, m) \in Seq(Entries) /\ Len(Full(item, m)) = m /\ \A k \in 1..m : Full(item, m)[k] = item
  BY DEF Full
<1>2. Marks(Full(item, m), lengths, p, q, pos)
  BY <1>1 DEF Marks
<1> QED BY <1>1, <1>2 DEF Writes

LEMMA WritesOne ==
  ASSUME NEW item \in Entries, NEW lengths, NEW p, NEW q, Stands(item, lengths, p, q)
  PROVE  Writes(<<item>>, lengths, p, q)
<1> DEFINE pos == [k \in 0..1 |-> IF k = 0 THEN p ELSE q]
<1>1. p \in Nat /\ q \in Nat
  BY DEF Stands
<1>2. pos \in [0..1 -> Nat] /\ pos[0] = p /\ pos[1] = q
  BY <1>1
<1> HIDE DEF pos
<1>3. <<item>> \in Seq(Entries) /\ Len(<<item>>) = 1 /\ <<item>>[1] = item
  OBVIOUS
<1>4. \A k \in 1..1 : Stands(<<item>>[k], lengths, pos[k - 1], pos[k])
  BY <1>2, <1>3
<1>5. Marks(<<item>>, lengths, p, q, pos)
  BY <1>2, <1>3, <1>4 DEF Marks
<1> QED BY <1>3, <1>5 DEF Writes

-----------------------------------------------------------------------------
(* The lengths behind the p-th, n of them, are all v. *)
Equal(lengths, p, n, v) ==
  /\ lengths \in Seq(Lengths) /\ v \in Lengths /\ p \in Nat /\ n \in Nat /\ p + n <= Len(lengths)
  /\ \A k \in (p + 1)..(p + n) : lengths[k] = v

LEMMA EqualParts ==
  ASSUME NEW lengths, NEW p, NEW n, NEW v, Equal(lengths, p, n, v), NEW m \in Nat, m <= n
  PROVE  Equal(lengths, p, m, v) /\ Equal(lengths, p + m, n - m, v)
BY DEF Equal

LEMMA PlainWrites ==
  ASSUME NEW lengths, NEW p, NEW n, NEW v, Equal(lengths, p, n, v)
  PROVE  Writes(Plain(v, n), lengths, p, p + n)
<1> DEFINE pos == [k \in 0..n |-> p + k]
           item == <<v, 0>>
<1>1. n \in Nat /\ p \in Nat /\ v \in Lengths /\ p + n <= Len(lengths)
      /\ lengths \in Seq(Lengths)
      /\ \A k \in (p + 1)..(p + n) : lengths[k] = v
  BY DEF Equal
<1>2. pos \in [0..n -> Nat] /\ pos[0] = p /\ pos[n] = p + n
  BY <1>1
<1>3. item \in Entries /\ item[1] = v /\ item[2] = 0
  BY <1>1, LengthsSmall DEF Entries
<1>4. Plain(v, n) = Full(item, n)
  BY DEF Plain, Full
<1>5. ASSUME NEW k \in 1..n PROVE Stands(item, lengths, pos[k - 1], pos[k])
  <2>1. pos[k - 1] = p + k - 1 /\ pos[k] = p + k
    BY <1>1
  <2>2. p + k \in (p + 1)..(p + n) /\ p + k - 1 \in Nat /\ p + k \in Nat /\ p + k <= Len(lengths)
    BY <1>1
  <2>3. lengths[p + k] = v
    BY <1>1, <2>2
  <2> HIDE DEF pos, item
  <2> QED BY <1>1, <1>3, <2>1, <2>2, <2>3, LengthsSmall DEF Stands
<1> HIDE DEF pos, item
<1>6. Writes(Full(item, n), lengths, p, p + n)
  BY <1>1, <1>2, <1>3, <1>5, WritesFull
<1> QED BY <1>4, <1>6

(* Zeroes in items of 138. *)
LEMMA ZeroFull ==
  ASSUME NEW lengths, NEW p, NEW q \in Nat, Equal(lengths, p, 138 * q, 0)
  PROVE  Writes(Full(<<18, 127>>, q), lengths, p, p + 138 * q)
<1> DEFINE pos == [k \in 0..q |-> p + 138 * k]
           item == <<18, 127>>
<1>1. p \in Nat /\ p + 138 * q <= Len(lengths) /\ \A k \in (p + 1)..(p + 138 * q) : lengths[k] = 0
  BY DEF Equal
<1>2. pos \in [0..q -> Nat] /\ pos[0] = p /\ pos[q] = p + 138 * q
  BY <1>1
<1>3. item \in Entries /\ item[1] = 18 /\ item[2] = 127
  BY DEF Entries
<1>4. ASSUME NEW k \in 1..q PROVE Stands(item, lengths, pos[k - 1], pos[k])
  <2>1. PICK a \in Nat, b \in Nat : a = pos[k - 1] /\ b = pos[k] /\ b = a + 138 /\ p <= a /\ b <= p + 138 * q
    <3>1. pos[k - 1] = p + 138 * (k - 1) /\ pos[k] = p + 138 * k
      BY <1>1
    <3> HIDE DEF pos
    <3> QED BY <1>1, <3>1
  <2>2. b <= Len(lengths) /\ \A l \in (a + 1)..b : lengths[l] = 0
    <3>1. Len(lengths) \in Nat
      BY DEF Equal
    <3> QED BY <1>1, <2>1, <3>1
  <2> HIDE DEF pos, item
  <2> QED BY <1>3, <2>1, <2>2 DEF Stands
<1> HIDE DEF pos, item
<1>5. Writes(Full(item, q), lengths, p, p + 138 * q)
  <2>1. PICK e : e = p + 138 * q
    OBVIOUS
  <2>2. p \in Nat /\ pos[q] = e /\ item \in Entries
    BY <1>1, <1>2, <1>3, <2>1
  <2>3. Writes(Full(item, q), lengths, p, e)
    BY <1>2, <1>4, <2>2, WritesFull
  <2> QED BY <2>1, <2>3
<1> QED BY <1>5 DEF item

LEMMA ZeroRunWrites ==
  ASSUME NEW lengths, NEW p, NEW n, Equal(lengths, p, n, 0)
  PROVE  Writes(ZeroRun(n), lengths, p, p + n)
<1>1. n \in Nat /\ p \in Nat
  BY DEF Equal
<1>2. PICK q \in Nat, left \in 0..137 : q = n \div 138 /\ left = n % 138 /\ n = 138 * q + left
  BY <1>1
<1> DEFINE rest == CASE left >= 11 -> <<<<18, left - 11>>>>
                     [] left \in 3..10 -> <<<<17, left - 3>>>>
                     [] OTHER -> Plain(0, left)
<1>3. ZeroRun(n) = Full(<<18, 127>>, q) \o rest
  BY <1>2 DEF ZeroRun
<1>4. PICK m \in Nat, r \in Nat : m = 138 * q /\ r = p + m /\ r + left = p + n /\ m <= n /\ left = n - m
  BY <1>1, <1>2
<1>5. Equal(lengths, p, m, 0) /\ Equal(lengths, r, left, 0)
  BY <1>4, EqualParts
<1>6. Writes(Full(<<18, 127>>, q), lengths, p, r)
  BY <1>4, <1>5, ZeroFull
<1>7. \A k \in (r + 1)..(r + left) : lengths[k] = 0
  BY <1>5 DEF Equal
<1>8. r + left <= Len(lengths) /\ Len(lengths) \in Nat
  BY <1>5 DEF Equal
<1>9. Writes(rest, lengths, r, r + left)
  <2>1. CASE left >= 11
    <3> DEFINE item == <<18, left - 11>>
    <3>1. item \in Entries /\ item[1] = 18 /\ item[2] = left - 11
      BY <2>1 DEF Entries
    <3> HIDE DEF item
    <3>2. Stands(item, lengths, r, r + left)
      BY <1>7, <1>8, <2>1, <3>1 DEF Stands
    <3>3. Writes(<<item>>, lengths, r, r + left)
      BY <3>1, <3>2, WritesOne
    <3> QED BY <2>1, <3>3 DEF item
  <2>2. CASE left \in 3..10
    <3> DEFINE item == <<17, left - 3>>
    <3>1. item \in Entries /\ item[1] = 17 /\ item[2] = left - 3
      BY <2>2 DEF Entries
    <3> HIDE DEF item
    <3>2. Stands(item, lengths, r, r + left)
      BY <1>7, <1>8, <2>2, <3>1 DEF Stands
    <3>3. Writes(<<item>>, lengths, r, r + left)
      BY <3>1, <3>2, WritesOne
    <3>4. ~(left >= 11)
      BY <2>2
    <3> QED BY <2>2, <3>3, <3>4 DEF item
  <2>3. CASE left < 3
    <3>1. ~(left >= 11) /\ left \notin 3..10
      BY <2>3
    <3>2. rest = Plain(0, left)
      BY <3>1
    <3> QED BY <1>5, <3>2, PlainWrites
  <2> QED BY <2>1, <2>2, <2>3
<1> HIDE DEF rest
<1> QED BY <1>3, <1>4, <1>6, <1>9, WritesBoth

(* Repetitions of the length before, six at a time. *)
LEMMA RepeatFull ==
  ASSUME NEW lengths, NEW p, NEW v, NEW q \in Nat, Equal(lengths, p, 6 * q, v), p > 0, lengths[p] = v
  PROVE  Writes(Full(<<16, 3>>, q), lengths, p, p + 6 * q)
<1> DEFINE pos == [k \in 0..q |-> p + 6 * k]
           item == <<16, 3>>
<1>1. p \in Nat /\ p + 6 * q <= Len(lengths) /\ \A k \in (p + 1)..(p + 6 * q) : lengths[k] = v
  BY DEF Equal
<1>2. pos \in [0..q -> Nat] /\ pos[0] = p /\ pos[q] = p + 6 * q
  BY <1>1
<1>3. item \in Entries /\ item[1] = 16 /\ item[2] = 3
  BY DEF Entries
<1>4. ASSUME NEW k \in 1..q PROVE Stands(item, lengths, pos[k - 1], pos[k])
  <2>1. PICK a \in Nat, b \in Nat : a = pos[k - 1] /\ b = pos[k] /\ b = a + 6 /\ p <= a /\ b <= p + 6 * q
    <3>1. pos[k - 1] = p + 6 * (k - 1) /\ pos[k] = p + 6 * k
      BY <1>1
    <3> HIDE DEF pos
    <3> QED BY <1>1, <3>1
  <2>2. b <= Len(lengths) /\ \A l \in (a + 1)..b : lengths[l] = v
    <3>1. Len(lengths) \in Nat
      BY DEF Equal
    <3> QED BY <1>1, <2>1, <3>1
  <2>3. lengths[a] = v /\ a > 0
    <3>1. a = p \/ a \in (p + 1)..(p + 6 * q)
      BY <1>1, <2>1
    <3> QED BY <1>1, <3>1
  <2> HIDE DEF pos, item
  <2> QED BY <1>3, <2>1, <2>2, <2>3 DEF Stands
<1> HIDE DEF pos, item
<1>5. Writes(Full(item, q), lengths, p, p + 6 * q)
  <2>1. PICK e : e = p + 6 * q
    OBVIOUS
  <2>2. p \in Nat /\ pos[q] = e /\ item \in Entries
    BY <1>1, <1>2, <1>3, <2>1
  <2>3. Writes(Full(item, q), lengths, p, e)
    BY <1>2, <1>4, <2>2, WritesFull
  <2> QED BY <2>1, <2>3
<1> QED BY <1>5 DEF item

LEMMA RepeatsWrites ==
  ASSUME NEW lengths, NEW p, NEW n, NEW v, Equal(lengths, p, n, v), p > 0, lengths[p] = v
  PROVE  Writes(Repeats(v, n), lengths, p, p + n)
<1>1. n \in Nat /\ p \in Nat
  BY DEF Equal
<1>2. PICK q \in Nat, left \in 0..5 : q = n \div 6 /\ left = n % 6 /\ n = 6 * q + left
  BY <1>1
<1> DEFINE rest == IF left >= 3 THEN <<<<16, left - 3>>>> ELSE Plain(v, left)
<1>3. Repeats(v, n) = Full(<<16, 3>>, q) \o rest
  BY <1>2 DEF Repeats
<1>4. PICK m \in Nat, r \in Nat : m = 6 * q /\ r = p + m /\ r + left = p + n /\ m <= n /\ left = n - m
  BY <1>1, <1>2
<1>5. Equal(lengths, p, m, v) /\ Equal(lengths, r, left, v)
  BY <1>4, EqualParts
<1>6. Writes(Full(<<16, 3>>, q), lengths, p, r)
  BY <1>4, <1>5, RepeatFull
<1>7. \A k \in (r + 1)..(r + left) : lengths[k] = v
  BY <1>5 DEF Equal
<1>8. r + left <= Len(lengths) /\ Len(lengths) \in Nat
  BY <1>5 DEF Equal
<1>9. lengths[r] = v /\ r > 0
  <2>1. r = p \/ r \in (p + 1)..(p + m)
    BY <1>1, <1>4
  <2>2. \A k \in (p + 1)..(p + m) : lengths[k] = v
    BY <1>5 DEF Equal
  <2> QED BY <1>1, <1>4, <2>1, <2>2
<1>10. Writes(rest, lengths, r, r + left)
  <2>1. CASE left >= 3
    <3> DEFINE item == <<16, left - 3>>
    <3>1. item \in Entries /\ item[1] = 16 /\ item[2] = left - 3
      BY <2>1 DEF Entries
    <3> HIDE DEF item
    <3>2. Stands(item, lengths, r, r + left)
      BY <1>7, <1>8, <1>9, <2>1, <3>1 DEF Stands
    <3>3. Writes(<<item>>, lengths, r, r + left)
      BY <3>1, <3>2, WritesOne
    <3> QED BY <2>1, <3>3 DEF item
  <2>2. CASE ~(left >= 3)
    <3>1. rest = Plain(v, left)
      BY <2>2
    <3> QED BY <1>5, <3>1, PlainWrites
  <2> QED BY <2>1, <2>2
<1> HIDE DEF rest
<1> QED BY <1>3, <1>4, <1>6, <1>10, WritesBoth

LEMMA LengthRunWrites ==
  ASSUME NEW lengths, NEW p, NEW n, NEW v, Equal(lengths, p, n, v)
  PROVE  Writes(LengthRun(v, n), lengths, p, p + n)
<1>1. CASE v = 0
  BY <1>1, ZeroRunWrites DEF LengthRun
<1>2. CASE v # 0 /\ n >= 4
  <2>1. n \in Nat /\ p \in Nat /\ 1 <= n
    BY <1>2 DEF Equal
  <2>2. PICK m \in Nat, q \in Nat : m = n - 1 /\ q = p + 1 /\ q + m = p + n
    BY <2>1
  <2>3. Equal(lengths, p, 1, v) /\ Equal(lengths, q, m, v)
    BY <2>1, <2>2, EqualParts
  <2>4. Writes(Plain(v, 1), lengths, p, q)
    BY <2>2, <2>3, PlainWrites
  <2>5. lengths[q] = v /\ q > 0
    BY <2>1, <2>2, <2>3 DEF Equal
  <2>6. Writes(Repeats(v, m), lengths, q, p + n)
    BY <2>2, <2>3, <2>5, RepeatsWrites
  <2>7. LengthRun(v, n) = Plain(v, 1) \o Repeats(v, m)
    BY <1>2, <2>2 DEF LengthRun
  <2> QED BY <2>4, <2>6, <2>7, WritesBoth
<1>3. CASE v # 0 /\ ~(n >= 4)
  BY <1>3, PlainWrites DEF LengthRun
<1> QED BY <1>1, <1>2, <1>3

-----------------------------------------------------------------------------
(* The loop over the runs has written what is before the next run. *)
Written(lengths, t, k) ==
  /\ t \in Runs /\ t.at \in 1..(Len(lengths) + 1) /\ (t.at > k \/ t.at = Len(lengths) + 1)
  /\ Writes(t.items, lengths, 0, t.at - 1)

LEMMA RunEnds ==
  ASSUME NEW lengths \in Seq(Lengths), NEW a \in 1..Len(lengths)
  PROVE  \E e \in (a + 1)..(Len(lengths) + 1) :
           /\ \A i \in a..(e - 1) : lengths[i] = lengths[a]
           /\ e <= Len(lengths) => lengths[e] # lengths[a]
<1> DEFINE n == Len(lengths)
           S == {j \in 0..(n - a) : \A i \in a..(a + j) : lengths[i] = lengths[a]}
<1>1. n \in Nat
  OBVIOUS
<1> HIDE DEF n
<1> SUFFICES ASSUME ~ \E e \in (a + 1)..(n + 1) :
                        /\ \A i \in a..(e - 1) : lengths[i] = lengths[a]
                        /\ e <= n => lengths[e] # lengths[a]
             PROVE  FALSE
  BY DEF n
<1>2. 0 \in S /\ n - a \in Nat
  BY <1>1 DEF n
<1>3. ASSUME NEW j \in 0..(n - a - 1), j \in S PROVE j + 1 \in S
  <2>1. PICK e \in (a + 1)..n : e = a + j + 1 /\ e - 1 = a + j /\ e \in (a + 1)..(n + 1) /\ e <= n
    BY <1>1 DEF n
  <2>2. \A i \in a..(e - 1) : lengths[i] = lengths[a]
    BY <1>3, <2>1
  <2>3. lengths[e] = lengths[a]
    BY <2>1, <2>2
  <2>4. \A i \in a..(a + (j + 1)) : lengths[i] = lengths[a]
    <3> SUFFICES ASSUME NEW i \in a..(a + (j + 1)) PROVE lengths[i] = lengths[a]
      OBVIOUS
    <3>1. i \in a..(e - 1) \/ i = e
      BY <2>1 DEF n
    <3> QED BY <2>2, <2>3, <3>1
  <2>5. j + 1 \in 0..(n - a)
    BY <1>1 DEF n
  <2> QED BY <2>4, <2>5
<1>4. n - a \in S
  <2>1. PICK m \in Nat : m = n - a
    BY <1>2
  <2>2. 0 \in S /\ \A j \in 0..(m - 1) : j \in S => j + 1 \in S
    BY <1>2, <1>3, <2>1
  <2> HIDE DEF S
  <2>3. \A j \in 0..m : j \in S
    BY <2>2, UpTo
  <2> QED BY <2>1, <2>3
<1>5. PICK e \in (a + 1)..(n + 1) : e = n + 1
  BY <1>1 DEF n
<1>6. \A i \in a..(e - 1) : lengths[i] = lengths[a]
  BY <1>1, <1>4, <1>5
<1> QED BY <1>1, <1>5, <1>6

LEMMA TakeRunWritten ==
  ASSUME NEW lengths \in Seq(Lengths), NEW k \in Nat, NEW t, Written(lengths, t, k)
  PROVE  Written(lengths, TakeRun(lengths, t), k + 1)
<1>1. PICK n \in Nat : n = Len(lengths)
  OBVIOUS
<1>2. t \in Runs /\ t.at \in 1..(n + 1) /\ (t.at > k \/ t.at = n + 1) /\ Writes(t.items, lengths, 0, t.at - 1)
  BY <1>1 DEF Written
<1>3. CASE t.at > n
  <2>1. TakeRun(lengths, t) = t
    BY <1>1, <1>3 DEF TakeRun
  <2>2. t.at = n + 1
    BY <1>2, <1>3
  <2> QED BY <1>1, <1>2, <2>1, <2>2 DEF Written
<1>4. CASE t.at <= n
  <2>1. PICK a \in 1..n : a = t.at
    BY <1>2, <1>4
  <2> DEFINE past == CHOOSE e \in (a + 1)..(n + 1) :
                       /\ \A i \in a..(e - 1) : lengths[i] = lengths[a]
                       /\ e <= n => lengths[e] # lengths[a]
  <2>2. past \in (a + 1)..(n + 1) /\ \A i \in a..(past - 1) : lengths[i] = lengths[a]
    <3>1. \E e \in (a + 1)..(n + 1) :
            /\ \A i \in a..(e - 1) : lengths[i] = lengths[a]
            /\ e <= n => lengths[e] # lengths[a]
      BY <1>1, RunEnds
    <3> QED BY <3>1
  <2>3. TakeRun(lengths, t) = [at |-> past, items |-> t.items \o LengthRun(lengths[a], past - a)]
    BY <1>1, <1>4, <2>1 DEF TakeRun
  <2> HIDE DEF past
  <2>4. PICK m \in Nat, p \in Nat, v \in Lengths :
          m = past - a /\ p = a - 1 /\ v = lengths[a] /\ p + m = past - 1
    <3>1. lengths[a] \in Lengths
      BY <1>1
    <3>2. past - a \in Nat /\ a - 1 \in Nat /\ (a - 1) + (past - a) = past - 1
      BY <2>2
    <3> QED BY <3>1, <3>2
  <2>5. Equal(lengths, p, m, v)
    <3>1. \A i \in (p + 1)..(p + m) : lengths[i] = v
      BY <2>2, <2>4
    <3> QED BY <1>1, <2>2, <2>4, <3>1 DEF Equal
  <2>6. Writes(LengthRun(v, m), lengths, p, past - 1)
    BY <2>4, <2>5, LengthRunWrites
  <2>7. Writes(t.items, lengths, 0, p)
    BY <1>2, <2>1, <2>4
  <2> DEFINE items == t.items \o LengthRun(v, m)
  <2>8. Writes(items, lengths, 0, past - 1)
    BY <2>6, <2>7, WritesBoth
  <2> HIDE DEF items
  <2>9. TakeRun(lengths, t) = [at |-> past, items |-> items]
    BY <2>3, <2>4 DEF items
  <2>10. items \in Seq(Entries) /\ past \in Nat /\ past \in 1..(n + 1)
    BY <2>2, <2>8 DEF Writes
  <2>11. [at |-> past, items |-> items] \in Runs
    BY <2>10 DEF Runs
  <2>12. past > k + 1
    BY <1>2, <2>1, <2>2, <1>4
  <2> QED BY <1>1, <2>8, <2>9, <2>10, <2>11, <2>12 DEF Written
<1> QED BY <1>2, <1>3, <1>4

LEMMA AllWritten ==
  ASSUME NEW lengths \in Seq(Lengths)
  PROVE  Writes(compute_precode_items(lengths), lengths, 0, Len(lengths))
<1>1. PICK n \in Nat : n = Len(lengths)
  OBVIOUS
<1> DEFINE Phase == [k \in 0..n |-> {t \in Runs : Written(lengths, t, k)}]
           start == [at |-> 1, items |-> <<>>]
           step == [t \in Runs |-> TakeRun(lengths, t)]
<1>2. start \in Phase[0]
  <2>1. start \in Runs
    BY DEF Runs
  <2> DEFINE pos == [k \in 0..0 |-> 0]
  <2>2. pos \in [0..0 -> Nat] /\ pos[0] = 0
    OBVIOUS
  <2> HIDE DEF pos
  <2>3. <<>> \in Seq(Entries) /\ Len(<<>>) = 0
    OBVIOUS
  <2>4. Marks(<<>>, lengths, 0, 0, pos)
    BY <2>2, <2>3 DEF Marks
  <2>5. Writes(<<>>, lengths, 0, 0)
    BY <2>3, <2>4 DEF Writes
  <2>6. Written(lengths, start, 0)
    BY <1>1, <2>1, <2>5 DEF Written
  <2> QED BY <2>1, <2>6
<1>3. ASSUME NEW k \in 0..n, NEW t \in Phase[k] PROVE t \in Runs /\ Written(lengths, t, k)
  OBVIOUS
<1>4. ASSUME NEW k \in 1..n, NEW t \in Phase[k - 1] PROVE step[t] \in Phase[k]
  <2>1. PICK l \in 0..n : l = k - 1 /\ k = l + 1 /\ k \in 0..n /\ l \in Nat
    OBVIOUS
  <2>2. t \in Runs /\ Written(lengths, t, l)
    BY <1>3, <2>1
  <2>3. Written(lengths, TakeRun(lengths, t), k)
    BY <2>1, <2>2, TakeRunWritten
  <2>4. TakeRun(lengths, t) \in Runs
    BY <2>3 DEF Written
  <2>5. step[t] = TakeRun(lengths, t)
    BY <2>2
  <2> QED BY <2>1, <2>3, <2>4, <2>5
<1> DEFINE last == Repeat(n, start, Runs, step)
<1>5. last \in Phase[n]
  <2> HIDE DEF Phase, start, step
  <2> QED BY <1>2, <1>3, <1>4, RepeatStaysIn
<1>6. Written(lengths, last, n)
  <2> HIDE DEF last
  <2>1. n \in 0..n
    OBVIOUS
  <2> QED BY <1>3, <1>5, <2>1
<1>7. compute_precode_items(lengths) = last.items
  BY <1>1 DEF compute_precode_items
<1> HIDE DEF last
<1>8. last.at - 1 = n
  BY <1>1, <1>6 DEF Written
<1> QED BY <1>1, <1>6, <1>7, <1>8 DEF Written

-----------------------------------------------------------------------------
(* Reading the items back. *)
Prefix(lengths, p) == [k \in 1..p |-> lengths[k]]

LEMMA PrefixIs ==
  ASSUME NEW lengths \in Seq(Lengths), NEW p \in 0..Len(lengths)
  PROVE  /\ Prefix(lengths, p) \in Seq(Nat) /\ Len(Prefix(lengths, p)) = p
         /\ \A k \in 1..p : Prefix(lengths, p)[k] = lengths[k]
<1>1. \A k \in 1..p : lengths[k] \in Nat
  BY LengthsSmall
<1> QED BY <1>1 DEF Prefix

(* Equal elements behind the front make a longer front. *)
GoesOn(lengths, p, m, v, c) ==
  /\ lengths \in Seq(Lengths) /\ p \in Nat /\ m \in Nat /\ p + m <= Len(lengths)
  /\ v \in Nat /\ \A k \in 1..m : lengths[p + k] = v
  /\ c \in Seq(Nat) /\ Len(c) = m /\ \A k \in 1..m : c[k] = v
Lengthens(lengths, p, m, c) == Prefix(lengths, p) \o c = Prefix(lengths, p + m)

LEMMA PrefixGoesOn ==
  ASSUME NEW lengths, NEW p, NEW m, NEW v, NEW c, GoesOn(lengths, p, m, v, c)
  PROVE  Lengthens(lengths, p, m, c)
<1> SUFFICES ASSUME lengths \in Seq(Lengths), p \in Nat, m \in Nat, p + m <= Len(lengths),
                    v \in Nat, \A k \in 1..m : lengths[p + k] = v,
                    c \in Seq(Nat), Len(c) = m, \A k \in 1..m : c[k] = v
             PROVE  Prefix(lengths, p) \o c = Prefix(lengths, p + m)
  BY DEF GoesOn, Lengthens
<1>1. PICK n \in Nat, q \in Nat : n = Len(lengths) /\ q = p + m /\ q <= n
  OBVIOUS
<1>4. PICK a : a = Prefix(lengths, p)
  OBVIOUS
<1>5. PICK b : b = Prefix(lengths, q)
  OBVIOUS
<1>6. a \in Seq(Nat) /\ Len(a) = p /\ \A k \in 1..p : a[k] = lengths[k]
  <2>1. p \in 0..Len(lengths)
    BY <1>1
  <2> QED BY <1>4, <2>1, PrefixIs
<1>7. b \in Seq(Nat) /\ Len(b) = q /\ \A k \in 1..q : b[k] = lengths[k]
  <2>1. q \in 0..Len(lengths)
    BY <1>1
  <2> QED BY <1>5, <2>1, PrefixIs
<1> DEFINE d == a \o c
<1>8. d \in Seq(Nat) /\ Len(d) = p + m /\ \A k \in 1..(p + m) : d[k] = IF k <= p THEN a[k] ELSE c[k - p]
  <2>1. d \in Seq(Nat) /\ Len(d) = Len(a) + Len(c)
    BY <1>6, ConcatProperties
  <2>2. \A k \in 1..(Len(a) + Len(c)) : d[k] = IF k <= Len(a) THEN a[k] ELSE c[k - Len(a)]
    BY <1>6, ConcatProperties
  <2> HIDE DEF d
  <2> QED BY <1>6, <2>1, <2>2
<1> HIDE DEF d
<1>9. ASSUME NEW k \in 1..q PROVE d[k] = b[k]
  <2>1. CASE k <= p
    BY <1>1, <1>6, <1>7, <1>8, <2>1
  <2>2. CASE k > p
    <3>1. PICK j \in 1..m : j = k - p /\ k = p + j
      BY <1>1, <2>2
    <3>2. d[k] = c[j] /\ b[k] = lengths[p + j]
      BY <1>1, <1>7, <1>8, <2>2, <3>1
    <3> QED BY <3>2
  <2> QED BY <2>1, <2>2
<1>10. d = [k \in 1..q |-> d[k]] /\ b = [k \in 1..q |-> b[k]]
  BY <1>1, <1>7, <1>8
<1>11. d = b
  BY <1>9, <1>10
<1> QED BY <1>1, <1>4, <1>5, <1>11 DEF d

LEMMA Regroup ==
  ASSUME NEW p \in Nat, NEW e \in Nat
  PROVE  p + 3 + e = p + (3 + e) /\ p + 11 + e = p + (11 + e)
OBVIOUS

LEMMA ReadsOne ==
  ASSUME NEW lengths \in Seq(Lengths), NEW item, NEW p, NEW q, Stands(item, lengths, p, q)
  PROVE  Prefix(lengths, p) \o Copied(item, Prefix(lengths, p)) = Prefix(lengths, q)
<1>1. q <= Len(lengths) /\ q \in Nat /\ p \in Nat /\ p < q
  BY DEF Stands
<1>9. p \in Nat /\ q \in Nat
  BY <1>1
<1>2. PICK out : out = Prefix(lengths, p)
  OBVIOUS
<1>3. out \in Seq(Nat) /\ Len(out) = p /\ \A k \in 1..p : out[k] = lengths[k]
  <2>1. p \in 0..Len(lengths)
    BY <1>1
  <2> QED BY <1>2, <2>1, PrefixIs
<1>8. ASSUME NEW m \in Nat, NEW v \in Nat, q = p + m, \A k \in 1..m : lengths[p + k] = v,
             Copied(item, out) = [k \in 1..m |-> v]
      PROVE  Prefix(lengths, p) \o Copied(item, Prefix(lengths, p)) = Prefix(lengths, q)
  <2>1. PICK c \in Seq(Nat) : c = Copied(item, out) /\ Len(c) = m /\ \A k \in 1..m : c[k] = v
    BY <1>8
  <2>2. p + m <= Len(lengths)
    BY <1>1, <1>8
  <2>4. \A k \in 1..m : lengths[p + k] = v
    BY <1>8
  <2>5. p \in Nat /\ m \in Nat /\ v \in Nat /\ c \in Seq(Nat) /\ Len(c) = m
    BY <1>1, <1>8, <2>1
  <2>6. \A k \in 1..m : c[k] = v
    BY <2>1
  <2>3. Prefix(lengths, p) \o c = Prefix(lengths, p + m)
    <3>1. GoesOn(lengths, p, m, v, c)
      BY <2>2, <2>4, <2>5, <2>6 DEF GoesOn
    <3>2. Lengthens(lengths, p, m, c)
      BY ONLY <3>1, PrefixGoesOn
    <3> QED BY ONLY <3>2 DEF Lengthens
  <2> QED BY <1>2, <1>8, <2>1, <2>3
<1>4. CASE item[1] = 16
  <2>1. item[2] \in Nat /\ q = p + 3 + item[2] /\ \A k \in (p + 1)..q : lengths[k] = lengths[p]
    BY <1>4 DEF Stands
  <2>8. p > 0
    BY <1>4 DEF Stands
  <2>3. PICK v \in Nat : v = lengths[p] /\ v = out[Len(out)]
    BY <1>1, <1>3, <2>8
  <2>2. PICK e \in Nat : e = item[2] /\ q = p + 3 + e
    BY <2>1
  <2>4. PICK m \in Nat : m = 3 + e
    OBVIOUS
  <2>5. q = p + m
    BY <1>9, <2>2, <2>4, Regroup
  <2>6. \A k \in 1..m : lengths[p + k] = v
    BY <1>1, <2>1, <2>3, <2>5
  <2>7. Copied(item, out) = [k \in 1..m |-> v]
    <3>1. Copied(item, out) = [k \in 1..(3 + item[2]) |-> out[Len(out)]]
      BY <1>4 DEF Copied
    <3> QED BY <2>2, <2>3, <2>4, <3>1
  <2> QED BY <2>5, <2>6, <2>7, <1>8
<1>5. CASE item[1] = 17
  <2>1. item[2] \in Nat /\ q = p + 3 + item[2]
    BY <1>5 DEF Stands
  <2>9. \A k \in (p + 1)..q : lengths[k] = 0
    BY <1>5 DEF Stands
  <2>3. PICK v \in Nat : v = 0
    OBVIOUS
  <2>2. PICK e \in Nat : e = item[2] /\ q = p + 3 + e
    BY <2>1
  <2>4. PICK m \in Nat : m = 3 + e
    OBVIOUS
  <2>5. q = p + m
    BY <1>9, <2>2, <2>4, Regroup
  <2>6. \A k \in 1..m : lengths[p + k] = v
    BY <1>1, <2>3, <2>5, <2>9
  <2>7. Copied(item, out) = [k \in 1..m |-> v]
    <3>1. Copied(item, out) = [k \in 1..(3 + item[2]) |-> 0]
      BY <1>5 DEF Copied
    <3> QED BY <2>2, <2>3, <2>4, <3>1
  <2> QED BY <2>5, <2>6, <2>7, <1>8
<1>6. CASE item[1] = 18
  <2>1. item[2] \in Nat /\ q = p + 11 + item[2]
    BY <1>6 DEF Stands
  <2>9. \A k \in (p + 1)..q : lengths[k] = 0
    BY <1>6 DEF Stands
  <2>3. PICK v \in Nat : v = 0
    OBVIOUS
  <2>2. PICK e \in Nat : e = item[2] /\ q = p + 11 + e
    BY <2>1
  <2>4. PICK m \in Nat : m = 11 + e
    OBVIOUS
  <2>5. q = p + m
    BY <1>9, <2>2, <2>4, Regroup
  <2>6. \A k \in 1..m : lengths[p + k] = v
    BY <1>1, <2>3, <2>5, <2>9
  <2>7. Copied(item, out) = [k \in 1..m |-> v]
    <3>1. Copied(item, out) = [k \in 1..(11 + item[2]) |-> 0]
      BY <1>6 DEF Copied
    <3> QED BY <2>2, <2>3, <2>4, <3>1
  <2> QED BY <2>5, <2>6, <2>7, <1>8
<1>7. CASE item[1] \notin {16, 17, 18}
  <2>1. item[1] \in Nat /\ q = p + 1 /\ lengths[q] = item[1]
    BY <1>7 DEF Stands
  <2>2. Copied(item, out) = <<item[1]>>
    BY <1>7 DEF Copied
  <2>3. PICK v \in Nat : v = item[1]
    BY <2>1
  <2>4. <<v>> = [k \in 1..1 |-> v]
    OBVIOUS
  <2>5. \A k \in 1..1 : lengths[p + k] = v
    BY <2>1, <2>3
  <2> QED BY <1>8, <2>1, <2>2, <2>3, <2>4, <2>5
<1> QED BY <1>4, <1>5, <1>6, <1>7

LEMMA ReadBack ==
  ASSUME NEW lengths \in Seq(Lengths), NEW items, Writes(items, lengths, 0, Len(lengths))
  PROVE  Expanded(items) = lengths
<1>1. PICK m \in Nat, n \in Nat : m = Len(items) /\ n = Len(lengths)
  BY DEF Writes
<1>2. PICK pos : Marks(items, lengths, 0, n, pos)
  BY <1>1 DEF Writes
<1>3. /\ pos \in [0..m -> Nat] /\ pos[0] = 0 /\ pos[m] = n
      /\ \A k \in 1..m : Stands(items[k], lengths, pos[k - 1], pos[k])
  BY <1>1, <1>2 DEF Marks
<1>4. ASSUME NEW k \in 0..m PROVE pos[k] \in 0..n
  <2>1. CASE k = 0
    BY <1>3, <2>1
  <2>2. CASE k # 0
    <3>1. k \in 1..m
      BY <2>2
    <3>2. Stands(items[k], lengths, pos[k - 1], pos[k])
      BY <1>3, <3>1
    <3> QED BY <1>1, <3>2 DEF Stands
  <2> QED BY <2>1, <2>2
<1> DEFINE Phase == [k \in 0..m |-> {Prefix(lengths, pos[k])}]
           step == [i \in 1..m |-> [out \in Seq(Nat) |-> out \o Copied(items[i], out)]]
<1>5. <<>> \in Phase[0]
  <2>1. Prefix(lengths, 0) = <<>>
    BY DEF Prefix
  <2> QED BY <1>3, <2>1
<1>6. ASSUME NEW k \in 1..m, NEW out \in Phase[k - 1] PROVE step[k][out] \in Phase[k]
  <2>1. PICK l \in 0..m : l = k - 1 /\ k \in 0..m
    OBVIOUS
  <2>2. out = Prefix(lengths, pos[l])
    BY <2>1
  <2>3. PICK p, q : p = pos[l] /\ q = pos[k]
    OBVIOUS
  <2>4. Stands(items[k], lengths, p, q)
    BY <1>3, <2>1, <2>3
  <2>5. p \in 0..Len(lengths) /\ q \in p..Len(lengths)
    BY <2>4 DEF Stands
  <2>6. out \in Seq(Nat)
    BY <2>2, <2>3, <2>5, PrefixIs
  <2>7. step[k][out] = out \o Copied(items[k], out)
    BY <2>6
  <2>9. out \o Copied(items[k], out) = Prefix(lengths, q)
    BY <2>2, <2>3, <2>4, ReadsOne
  <2> QED BY <2>1, <2>3, <2>7, <2>9
<1>7. Loop(m, <<>>, step)[m] \in Phase[m]
  <2> HIDE DEF Phase, step
  <2>1. \A k \in 0..m : Loop(m, <<>>, step)[k] \in Phase[k]
    BY <1>5, <1>6, LoopStaysIn
  <2> QED BY <2>1
<1>8. Expanded(items) = Loop(m, <<>>, step)[m]
  BY <1>1 DEF Expanded
<1> HIDE DEF step
<1>9. Expanded(items) = Prefix(lengths, n)
  BY <1>3, <1>7, <1>8
<1>10. Prefix(lengths, n) = lengths
  BY <1>1 DEF Prefix
<1> QED BY <1>9, <1>10

(* What ItemsReadBack says of the items for these lengths. *)
LEMMA ItemsAreRead ==
  ASSUME NEW lengths \in Seq(Lengths), lengths # <<>>, NEW items, items = compute_precode_items(lengths)
  PROVE  /\ items[1][1] # 16
         /\ \A i \in DOMAIN items :
              items[i][2] <= CASE items[i][1] = 16 -> 3 [] items[i][1] = 17 -> 7
                               [] items[i][1] = 18 -> 127 [] OTHER -> 0
         /\ Expanded(items) = lengths
         /\ SumTo(19, [k \in 1..19 |-> precode_freqs(items)[k - 1]]) = Len(items)
<1>1. Writes(items, lengths, 0, Len(lengths))
  BY AllWritten
<1>2. PICK m \in Nat, n \in Nat : m = Len(items) /\ n = Len(lengths) /\ n > 0 /\ DOMAIN items = 1..m
  BY <1>1 DEF Writes
<1>3. PICK pos : /\ pos \in [0..m -> Nat] /\ pos[0] = 0 /\ pos[m] = n
                 /\ \A k \in 1..m : Stands(items[k], lengths, pos[k - 1], pos[k])
  BY <1>1, <1>2 DEF Writes, Marks
<1>4. items[1][1] # 16
  <2>1. m # 0
    BY <1>2, <1>3
  <2>2. 1 \in 1..m /\ pos[1 - 1] = 0
    BY <1>3, <2>1
  <2>3. PICK item, q : item = items[1] /\ Stands(item, lengths, 0, q)
    BY <1>3, <2>2
  <2>4. item[1] = 16 => 0 > 0
    BY <2>3 DEF Stands
  <2>5. item[1] # 16
    BY <2>4
  <2> QED BY <2>3, <2>5
<1>5. ASSUME NEW i \in 1..m
      PROVE  /\ items[i][2] <= CASE items[i][1] = 16 -> 3 [] items[i][1] = 17 -> 7
                                 [] items[i][1] = 18 -> 127 [] OTHER -> 0
  <2>1. PICK p, q : Stands(items[i], lengths, p, q)
    BY <1>3
  <2>2. \/ items[i][1] = 16 /\ items[i][2] \in Nat /\ items[i][2] <= 3
        \/ items[i][1] = 17 /\ items[i][2] \in Nat /\ items[i][2] <= 7
        \/ items[i][1] = 18 /\ items[i][2] \in Nat /\ items[i][2] <= 127
        \/ items[i][1] \in Nat /\ items[i][1] <= 15 /\ items[i][2] = 0
    BY <2>1 DEF Stands
  <2> QED BY <2>2
<1>6. Expanded(items) = lengths
  BY <1>1, ReadBack
<1>8. ASSUME NEW i \in 1..m PROVE items[i][1] \in Nat /\ items[i][1] <= 18
  <2>1. PICK p, q : Stands(items[i], lengths, p, q)
    BY <1>3
  <2>2. PICK sym : sym = items[i][1]
    OBVIOUS
  <2>3. sym = 16 \/ sym = 17 \/ sym = 18 \/ (sym \in Nat /\ sym <= 15)
    BY <2>1, <2>2 DEF Stands
  <2>4. sym \in Nat /\ sym <= 18
    BY <2>3
  <2> QED BY <2>2, <2>4
<1>7. SumTo(19, [k \in 1..19 |-> precode_freqs(items)[k - 1]]) = m
  <2>1. PICK c \in Nat : c = 19
    OBVIOUS
  <2> DEFINE S == 1..m
             key == [i \in S |-> items[i][1] + 1]
             f == [k \in 1..c |-> precode_freqs(items)[k - 1]]
             g == [k \in 1..c |-> Cardinality({i \in S : key[i] = k})]
  <2>2. key \in [S -> 1..c]
    <3>1. ASSUME NEW i \in S PROVE items[i][1] + 1 \in 1..c
      <4>1. PICK a \in Nat : items[i][1] = a /\ a <= 18
        BY <1>8
      <4> QED BY <2>1, <4>1
    <3> QED BY <3>1
  <2>3. IsFiniteSet(S) /\ Cardinality(S) = m
    BY FS_Interval
  <2>4. ASSUME NEW k \in 1..c PROVE f[k] = g[k]
    <3>1. PICK l \in Nat : l = k - 1 /\ l \in 0..18
      BY <2>1
    <3>2. precode_freqs(items)[l] = Cardinality({i \in 1..m : items[i][1] = l})
      BY <1>2, <3>1 DEF precode_freqs
    <3>3. {i \in 1..m : items[i][1] = l} = {i \in S : key[i] = k}
      <4>1. ASSUME NEW i \in 1..m PROVE items[i][1] = l <=> key[i] = k
        <5>1. PICK a \in Nat : items[i][1] = a /\ key[i] = a + 1
          BY <1>8
        <5> QED BY <3>1, <5>1
      <4> HIDE DEF key
      <4> QED BY <4>1
    <3> QED BY <3>1, <3>2, <3>3
  <2>5. f = g
    <3>1. f = [k \in 1..c |-> f[k]] /\ g = [k \in 1..c |-> g[k]]
      OBVIOUS
    <3> HIDE DEF f, g
    <3> QED BY <2>4, <3>1
  <2>6. SumTo(c, Parts(c, S, key)) = Cardinality(S)
    <3> HIDE DEF S, key
    <3> QED BY <2>2, <2>3, SumOfParts
  <2>7. g = Parts(c, S, key)
    BY DEF Parts
  <2>8. SumTo(c, f) = m
    BY <2>3, <2>5, <2>6, <2>7
  <2> QED BY <2>1, <2>8
<1> QED BY <1>2, <1>4, <1>5, <1>6, <1>7

-----------------------------------------------------------------------------
(* Sorting rearranges.  B lists the members of E, each once, in m places.    *)
Lists(B, m, E) ==
  /\ B \in [1..m -> E]
  /\ \A i, j \in 1..m : B[i] = B[j] => i = j
  /\ \A x \in E : \E i \in 1..m : B[i] = x

LEMMA Swapped ==
  ASSUME NEW m \in Nat, NEW E, NEW B, Lists(B, m, E), NEW i \in 1..m, NEW j \in 1..m,
         NEW C, C = [B EXCEPT ![i] = B[j], ![j] = B[i]]
  PROVE  Lists(C, m, E)
<1>1. B \in [1..m -> E] /\ (\A k, l \in 1..m : B[k] = B[l] => k = l)
      /\ \A x \in E : \E k \in 1..m : B[k] = x
  BY DEF Lists
<1>2. C \in [1..m -> E]
  BY <1>1
<1>3. C[j] = B[i] /\ C[i] = B[j] /\ \A k \in 1..m : k # i /\ k # j => C[k] = B[k]
  BY <1>1
<1>4. ASSUME NEW k \in 1..m, NEW l \in 1..m, C[k] = C[l] PROVE k = l
  BY <1>1, <1>3, <1>4
<1>5. ASSUME NEW x \in E PROVE \E k \in 1..m : C[k] = x
  <2>1. PICK k \in 1..m : B[k] = x
    BY <1>1
  <2>2. C[i] = x \/ C[j] = x \/ C[k] = x
    BY <1>3, <2>1
  <2> QED BY <2>2
<1> QED BY <1>2, <1>4, <1>5 DEF Lists

(* A loop over the levels of a heap of this length takes that many steps.    *)
LEMMA LevelsExist ==
  ASSUME NEW length \in Nat
  PROVE  \E k \in 0..length : length < 2^k /\ (k > 0 => 2^(k - 1) <= length)
<1> SUFFICES ASSUME \A k \in 0..length : ~(length < 2^k /\ (k > 0 => 2^(k - 1) <= length))
             PROVE  FALSE
  OBVIOUS
<1> DEFINE S == {k \in 0..length : 2^k <= length}
<1>1. 0 \in S
  BY PowerOfTwo
<1>2. ASSUME NEW k \in 0..(length - 1), k \in S PROVE k + 1 \in S
  <2>1. PICK l \in 0..length : l = k + 1 /\ l - 1 = k /\ l > 0
    OBVIOUS
  <2>2. 2^l \in Nat
    BY PowerOfTwo
  <2>3. ~(length < 2^l)
    BY <1>2, <2>1
  <2> QED BY <2>1, <2>2, <2>3
<1>3. \A k \in 0..length : k \in S
  <2> HIDE DEF S
  <2> QED BY <1>1, <1>2, UpTo
<1>4. 2^length <= length /\ length < 2^length /\ 2^length \in Nat
  BY <1>3, PowerExceeds, PowerOfTwo
<1> QED BY <1>4

(* v stands in the hole.                                                     *)
Filled(h, v) == [h.A EXCEPT ![h.at] = v]

LEMMA HeapifyLists ==
  ASSUME NEW m \in Nat, NEW E \in SUBSET Entries, NEW A, NEW length \in 0..m, NEW v \in E,
         NEW parent \in 1..m, A \in [1..m -> E], Lists([A EXCEPT ![parent] = v], m, E)
  PROVE  Lists(heapify_subtree(A, length, v, parent), m, E)
<1> DEFINE levels == CHOOSE k \in 0..length : length < 2^k /\ (k > 0 => 2^(k - 1) <= length)
           Heaps == [A : [DOMAIN A -> Entries], at : DOMAIN A]
           Sift(h) == LET child == Child(h.A, length, h.at)
                      IN  IF Settled(h.A, length, v, h.at) THEN h
                          ELSE [A |-> [h.A EXCEPT ![h.at] = h.A[child]], at |-> child]
           step == [h \in Heaps |-> Sift(h)]
           a == [A |-> A, at |-> parent]
           down == Repeat(levels, a, Heaps, step)
           P == {h \in [A : [1..m -> E], at : 1..m] : Lists(Filled(h, v), m, E)}
           Phase == [k \in 0..levels |-> P]
<1>1. heapify_subtree(A, length, v, parent) = Filled(down, v)
  BY DEF heapify_subtree, Filled
<1>2. levels \in Nat
  <2>1. length \in Nat
    OBVIOUS
  <2>2. \E k \in 0..length : length < 2^k /\ (k > 0 => 2^(k - 1) <= length)
    BY <2>1, LevelsExist
  <2>3. levels \in 0..length
    BY <2>2
  <2> HIDE DEF levels
  <2> QED BY <2>1, <2>3
<1>3. DOMAIN A = 1..m
  OBVIOUS
<1>4. a \in P
  BY DEF Filled
<1>5. ASSUME NEW h \in P PROVE h \in Heaps /\ Sift(h) \in P
  <2>1. h.A \in [1..m -> E] /\ h.at \in 1..m /\ h = [A |-> h.A, at |-> h.at] /\ Lists(Filled(h, v), m, E)
    OBVIOUS
  <2>2. h \in Heaps
    <3>1. h.A \in [1..m -> Entries]
      BY <2>1
    <3> QED BY <1>3, <2>1, <3>1
  <2>3. CASE Settled(h.A, length, v, h.at)
    BY <2>3
  <2>4. CASE ~Settled(h.A, length, v, h.at)
    <3> DEFINE child == Child(h.A, length, h.at)
               n == [A |-> [h.A EXCEPT ![h.at] = h.A[child]], at |-> child]
    <3>1. child \in 1..m
      <4>1. h.at * 2 <= length
        BY <2>1, <2>4 DEF Settled
      <4> QED BY <2>1, <4>1 DEF Child
    <3>2. Sift(h) = n
      BY <2>4
    <3> HIDE DEF child
    <3>3. n.A \in [1..m -> E] /\ n.at \in 1..m /\ n \in [A : [1..m -> E], at : 1..m]
      BY <2>1, <3>1
    <3>4. Filled(n, v) = [Filled(h, v) EXCEPT ![h.at] = Filled(h, v)[child], ![child] = Filled(h, v)[h.at]]
      BY <2>1, <3>1 DEF Filled
    <3>5. Lists(Filled(n, v), m, E)
      <4> HIDE DEF n
      <4> QED BY <2>1, <3>1, <3>4, Swapped
    <3> HIDE DEF n
    <3> QED BY <3>2, <3>3, <3>5
  <2> QED BY <2>2, <2>3, <2>4
<1>6. \A h \in P : step[h] = Sift(h)
  <2> HIDE DEF P, Sift, Heaps
  <2> QED BY <1>5
<1>7. down \in P
  <2> HIDE DEF P, Sift, Heaps, step, levels, a
  <2>1. Phase[0] = P /\ Phase[levels] = P
    BY <1>2
  <2>2. \A k \in 0..levels : \A t \in Phase[k] : t \in Heaps
    BY <1>5
  <2>3. ASSUME NEW k \in 1..levels, NEW t \in Phase[k - 1] PROVE step[t] \in Phase[k]
    <3>1. k \in 0..levels /\ k - 1 \in 0..levels
      BY <1>2
    <3> QED BY <1>5, <1>6, <3>1
  <2>4. a \in Phase[0]
    BY <1>4, <2>1
  <2> HIDE DEF Phase
  <2>5. down \in Phase[levels]
    BY <1>2, <2>2, <2>3, <2>4, RepeatStaysIn
  <2> QED BY <2>1, <2>5
<1> HIDE DEF down
<1> QED BY <1>1, <1>7

LEMMA HeapSortLists ==
  ASSUME NEW m \in Nat, NEW E \in SUBSET Entries, NEW A, Lists(A, m, E)
  PROVE  Lists(heap_sort(A), m, E)
<1>0. A \in [1..m -> E] /\ A \in Seq(E) /\ Len(A) = m /\ DOMAIN A = 1..m
  BY DEF Lists
<1>1. CASE m < 2
  BY <1>0, <1>1 DEF heap_sort
<1>2. CASE ~(m < 2)
  <2> DEFINE half == m \div 2
             P == {B \in [1..m -> E] : Lists(B, m, E)}
             Arrays == [1..m -> Entries]
             sift == [k \in 1..half |-> [B \in Arrays |->
                        heapify_subtree(B, m, B[half + 1 - k], half + 1 - k)]]
             take == [k \in 1..(m - 1) |-> [B \in Arrays |-> ExtractMax(B, m + 1 - k)]]
  <2>1. half \in Nat /\ half < m /\ half >= 1 /\ m - 1 \in Nat
    BY <1>2
  <2>2. A \in P
    BY DEF Lists
  <2>3. \A B \in P : B \in [1..m -> E] /\ B \in Arrays /\ Lists(B, m, E)
    OBVIOUS
  <2>4. \A B : Lists(B, m, E) => B \in P
    BY DEF Lists
  <2> HIDE DEF half, P
  <2>5. heapify_array(A) = Loop(half, A, sift)[half]
    BY <1>0 DEF heapify_array, half
  <2>6. ASSUME NEW k \in 1..half, NEW B \in P PROVE sift[k][B] \in P
    <3>1. PICK p \in 1..m : p = half + 1 - k
      BY <2>1
    <3>2. B \in [1..m -> E] /\ B \in Arrays /\ Lists(B, m, E) /\ B[p] \in E
      BY <2>3
    <3>3. [B EXCEPT ![p] = B[p]] = B
      BY <3>2
    <3>4. m \in 0..m
      OBVIOUS
    <3>5. sift[k][B] = heapify_subtree(B, m, B[p], p)
      BY <3>1, <3>2
    <3> HIDE DEF sift, Arrays
    <3>6. Lists(heapify_subtree(B, m, B[p], p), m, E)
      BY <3>2, <3>3, <3>4, HeapifyLists
    <3> QED BY <2>4, <3>5, <3>6
  <2>7. heapify_array(A) \in P
    <3> HIDE DEF sift
    <3> DEFINE Phase == [k \in 0..half |-> P]
    <3>1. Phase[0] = P /\ Phase[half] = P
      BY <2>1
    <3>2. ASSUME NEW k \in 1..half, NEW B \in Phase[k - 1] PROVE sift[k][B] \in Phase[k]
      <4>1. k \in 0..half /\ k - 1 \in 0..half
        BY <2>1
      <4> QED BY <2>6, <4>1
    <3>3. A \in Phase[0]
      BY <2>2, <3>1
    <3> HIDE DEF Phase
    <3>4. half \in 0..half
      BY <2>1
    <3>5. Loop(half, A, sift)[half] \in Phase[half]
      BY <2>1, <3>2, <3>3, <3>4, LoopStaysIn
    <3> QED BY <2>5, <3>1, <3>5
  <2>8. ASSUME NEW k \in 1..(m - 1), NEW B \in P PROVE take[k][B] \in P
    <3>1. PICK l \in 1..m : l = m + 1 - k /\ l - 1 \in 0..m
      BY <2>1
    <3>2. B \in [1..m -> E] /\ B \in Arrays /\ Lists(B, m, E) /\ B[l] \in E /\ 1 \in 1..m
      BY <2>1, <2>3
    <3> DEFINE C == [B EXCEPT ![l] = B[1], ![1] = B[l]]
    <3>3. Lists(C, m, E)
      <4> DEFINE c == C
      <4>1. c = [B EXCEPT ![l] = B[1], ![1] = B[l]]
        OBVIOUS
      <4> HIDE DEF c
      <4>2. Lists(c, m, E)
        BY <3>2, <4>1, Swapped
      <4> QED BY <4>2 DEF c
    <3>4. C \in [1..m -> E] /\ [C EXCEPT ![1] = B[l]] = C
      BY <3>2
    <3>5. take[k][B] = heapify_subtree(C, l - 1, B[l], 1)
      BY <3>1, <3>2 DEF ExtractMax
    <3> HIDE DEF take, Arrays, C
    <3>6. Lists(heapify_subtree(C, l - 1, B[l], 1), m, E)
      BY <3>1, <3>2, <3>3, <3>4, HeapifyLists
    <3> QED BY <2>4, <3>5, <3>6
  <2>9. heap_sort(A) = Loop(m - 1, heapify_array(A), take)[m - 1]
    BY <1>0, <1>2 DEF heap_sort
  <2>10. heap_sort(A) \in P
    <3> HIDE DEF take
    <3> DEFINE Phase == [k \in 0..(m - 1) |-> P]
    <3>1. Phase[0] = P /\ Phase[m - 1] = P
      BY <2>1
    <3>2. ASSUME NEW k \in 1..(m - 1), NEW B \in Phase[k - 1] PROVE take[k][B] \in Phase[k]
      <4>1. k \in 0..(m - 1) /\ k - 1 \in 0..(m - 1)
        BY <2>1
      <4> QED BY <2>8, <4>1
    <3>3. heapify_array(A) \in Phase[0]
      BY <2>7, <3>1
    <3> HIDE DEF Phase
    <3>4. m - 1 \in 0..(m - 1)
      BY <2>1
    <3>5. Loop(m - 1, heapify_array(A), take)[m - 1] \in Phase[m - 1]
      BY <2>1, <3>2, <3>3, <3>4, LoopStaysIn
    <3> QED BY <2>9, <3>1, <3>5
  <2> QED BY <2>3, <2>10
<1> QED BY <1>1, <1>2

(* The places by a key are those from one to the size of the set, each once. *)
LEMMA ArrangedLists ==
  ASSUME NEW S \in SUBSET Nat, IsFiniteSet(S), NEW key \in [S -> Nat]
  PROVE  Lists(Arranged(S, key), Cardinality(S), S)
<1> DEFINE before(s) == {t \in S : key[t] < key[s] \/ (key[t] = key[s] /\ t <= s)}
           place == [s \in S |-> Cardinality(before(s))]
           m == Cardinality(S)
           list == [i \in 1..m |-> CHOOSE s \in S : place[s] = i]
<1>1. Arranged(S, key) = list
  <2> DEFINE Listed(p) == [i \in 1..m |-> CHOOSE s \in S : p[s] = i]
  <2>1. Arranged(S, key) = CHOOSE y \in {Listed(p) : p \in {place}} : TRUE
    BY DEF Arranged, With
  <2>2. list = Listed(place)
    OBVIOUS
  <2> HIDE DEF Listed, place, list
  <2>3. {Listed(p) : p \in {place}} = {list}
    BY <2>2
  <2> QED BY <2>1, <2>3
<1>2. m \in Nat
  BY FS_CardinalityType
<1>3. ASSUME NEW s \in S
      PROVE  before(s) \in SUBSET S /\ s \in before(s) /\ IsFiniteSet(before(s))
             /\ place[s] = Cardinality(before(s)) /\ place[s] \in 1..m
  <2>1. before(s) \in SUBSET S /\ s \in before(s)
    OBVIOUS
  <2>2. place[s] = Cardinality(before(s))
    OBVIOUS
  <2> HIDE DEF before, place
  <2>3. IsFiniteSet(before(s)) /\ Cardinality(before(s)) <= m
    BY <2>1, FS_Subset
  <2>4. Cardinality(before(s)) \in Nat /\ Cardinality(before(s)) # 0
    BY <2>1, <2>3, FS_CardinalityType, FS_EmptySet
  <2> QED BY <1>2, <2>1, <2>2, <2>3, <2>4
<1>4. ASSUME NEW s \in S, NEW t \in S, key[s] < key[t] \/ (key[s] = key[t] /\ s < t)
      PROVE  place[s] < place[t]
  <2>0. s \in Nat /\ t \in Nat /\ key[s] \in Nat /\ key[t] \in Nat
    OBVIOUS
  <2>1. t \notin before(s)
    BY <1>4, <2>0
  <2>2. before(s) \in SUBSET before(t)
    <3> SUFFICES ASSUME NEW r \in before(s) PROVE r \in before(t)
      OBVIOUS
    <3>1. r \in S /\ r \in Nat /\ key[r] \in Nat
      OBVIOUS
    <3> QED BY <1>4, <2>0, <3>1
  <2>3. t \in before(t)
    BY <1>3
  <2>4. IsFiniteSet(before(t)) /\ place[s] = Cardinality(before(s)) /\ place[t] = Cardinality(before(t))
        /\ place[s] \in Nat /\ place[t] \in Nat
    BY <1>3
  <2> HIDE DEF before, place
  <2>5. Cardinality(before(s)) <= Cardinality(before(t))
        /\ (Cardinality(before(t)) = Cardinality(before(s)) => before(t) = before(s))
    BY <2>2, <2>4, FS_Subset
  <2> QED BY <2>1, <2>3, <2>4, <2>5
<1>5. ASSUME NEW s \in S, NEW t \in S, place[s] = place[t] PROVE s = t
  <2>1. s \in Nat /\ t \in Nat /\ key[s] \in Nat /\ key[t] \in Nat /\ place[s] \in Nat /\ place[t] \in Nat
    BY <1>3
  <2>2. ~(place[s] < place[t]) /\ ~(place[t] < place[s])
    BY <1>5, <2>1
  <2> HIDE DEF place
  <2> QED BY <1>4, <2>1, <2>2
<1>6. \A i \in 1..m : \E s \in S : place[s] = i
  <2>1. place \in [S -> 1..m]
    <3>1. place = [s \in S |-> place[s]]
      OBVIOUS
    <3> HIDE DEF place, before
    <3> QED BY <1>3, <3>1
  <2>2. IsFiniteSet(1..m) /\ Cardinality(1..m) = m
    BY <1>2, FS_Interval
  <2> DEFINE T == 1..m
  <2> HIDE DEF place, T
  <2>3. place \in Injection(S, T)
    BY <1>5, <2>1, Fun_IsInj DEF T
  <2>4. place \in Surjection(S, T)
    BY <2>2, <2>3, FS_Injection DEF T
  <2>5. \A i \in T : \E s \in S : place[s] = i
    BY <2>4, Fun_SurjectionProperties
  <2> QED BY <2>5 DEF T
<1>7. \A i \in 1..m : list[i] \in S /\ place[list[i]] = i
  <2> HIDE DEF place
  <2> SUFFICES ASSUME NEW i \in 1..m PROVE list[i] \in S /\ place[list[i]] = i
    OBVIOUS
  <2>1. list[i] = CHOOSE s \in S : place[s] = i
    OBVIOUS
  <2>2. \E s \in S : place[s] = i
    BY <1>6
  <2> HIDE DEF list
  <2> QED BY <2>1, <2>2
<1>8. list = [i \in 1..m |-> list[i]]
  <2> HIDE DEF place, m
  <2> QED OBVIOUS
<1> HIDE DEF place, list, m
<1>9. list \in [1..m -> S]
  BY <1>7, <1>8
<1>10. \A i, j \in 1..m : list[i] = list[j] => i = j
  BY <1>7
<1>11. ASSUME NEW s \in S PROVE \E i \in 1..m : list[i] = s
  <2>1. place[s] \in 1..m
    BY <1>3
  <2>2. place[list[place[s]]] = place[s] /\ list[place[s]] \in S
    BY <1>7, <2>1
  <2>3. list[place[s]] = s
    BY <1>5, <2>2
  <2> QED BY <2>1, <2>3
<1> QED BY <1>1, <1>9, <1>10, <1>11 DEF Lists, m

(* The places behind the first low ones.                                     *)
Behind(B, low, m) == {B[i] : i \in (low + 1)..m}

LEMMA TailLists ==
  ASSUME NEW m \in Nat, NEW E, NEW B, Lists(B, m, E), NEW low \in 0..m
  PROVE  Lists(SubSeq(B, low + 1, m), m - low, Behind(B, low, m)) /\ Behind(B, low, m) \subseteq E
<1> DEFINE X == Behind(B, low, m)
           s == SubSeq(B, low + 1, m)
<1>1. B \in [1..m -> E] /\ (\A i, j \in 1..m : B[i] = B[j] => i = j)
  BY DEF Lists
<1>2. X \subseteq E /\ (\A i \in (low + 1)..m : B[i] \in X) /\ \A x \in X : \E i \in (low + 1)..m : B[i] = x
  <2>1. \A i \in (low + 1)..m : B[i] \in E
    BY <1>1
  <2> QED BY <2>1 DEF Behind
<1> HIDE DEF X
<1>3. s \in Seq(X) /\ Len(s) = m - low /\ \A i \in 1..(m - low) : s[i] = B[low + i]
  <2>1. low + 1 \in Int /\ m \in Int
    OBVIOUS
  <2>2. /\ s \in Seq(X) /\ Len(s) = IF low + 1 <= m THEN m - (low + 1) + 1 ELSE 0
        /\ \A i \in 1..(m - (low + 1) + 1) : s[i] = B[(low + 1) + i - 1]
    BY <1>2, <2>1, SubSeqProperties
  <2> HIDE DEF s
  <2>3. Len(s) = m - low
    BY <2>2
  <2>4. ASSUME NEW i \in 1..(m - low) PROVE s[i] = B[low + i]
    <3>1. i \in 1..(m - (low + 1) + 1) /\ (low + 1) + i - 1 = low + i
      OBVIOUS
    <3> QED BY <2>2, <3>1
  <2> QED BY <2>2, <2>3, <2>4
<1> HIDE DEF s
<1>4. s \in [1..(m - low) -> X]
  BY <1>3
<1>5. ASSUME NEW i \in 1..(m - low), NEW j \in 1..(m - low), s[i] = s[j] PROVE i = j
  <2>1. low + i \in 1..m /\ low + j \in 1..m
    OBVIOUS
  <2>2. low + i = low + j
    BY <1>1, <1>3, <1>5, <2>1
  <2> QED BY <2>2
<1>6. ASSUME NEW x \in X PROVE \E i \in 1..(m - low) : s[i] = x
  <2>1. PICK k \in (low + 1)..m : B[k] = x
    BY <1>2
  <2>2. PICK i \in 1..(m - low) : low + i = k
    <3>1. k - low \in 1..(m - low) /\ low + (k - low) = k
      OBVIOUS
    <3> QED BY <3>1
  <2> QED BY <1>3, <2>1, <2>2
<1> QED BY <1>2, <1>4, <1>5, <1>6 DEF Lists, X, s

LEMMA JoinLists ==
  ASSUME NEW m \in Nat, NEW E, NEW B, Lists(B, m, E), NEW low \in 0..m, NEW H,
         Lists(H, m - low, Behind(B, low, m))
  PROVE  Lists(SubSeq(B, 1, low) \o H, m, E) /\ Len(SubSeq(B, 1, low) \o H) = m
<1> DEFINE X == Behind(B, low, m)
           s == SubSeq(B, 1, low)
           t == s \o H
<1>1. B \in [1..m -> E] /\ (\A i, j \in 1..m : B[i] = B[j] => i = j)
      /\ \A x \in E : \E i \in 1..m : B[i] = x
  BY DEF Lists
<1>2. X \subseteq E /\ (\A i \in (low + 1)..m : B[i] \in X) /\ \A x \in X : \E i \in (low + 1)..m : B[i] = x
  <2>1. \A i \in (low + 1)..m : B[i] \in E
    BY <1>1
  <2> QED BY <2>1 DEF Behind
<1>3. H \in [1..(m - low) -> X] /\ (\A i, j \in 1..(m - low) : H[i] = H[j] => i = j)
      /\ \A x \in X : \E i \in 1..(m - low) : H[i] = x
  BY DEF Lists
<1> HIDE DEF X
<1>4. H \in Seq(E) /\ Len(H) = m - low
  <2>1. m - low \in Nat /\ H \in [1..(m - low) -> E]
    BY <1>2, <1>3
  <2> QED BY <2>1
<1>5. s \in Seq(E) /\ Len(s) = low /\ \A i \in 1..low : s[i] = B[i]
  <2>1. 1 \in Int /\ low \in Int /\ \A i \in 1..low : B[i] \in E
    BY <1>1
  <2>2. /\ s \in Seq(E) /\ Len(s) = IF 1 <= low THEN low - 1 + 1 ELSE 0
        /\ \A i \in 1..(low - 1 + 1) : s[i] = B[1 + i - 1]
    BY <2>1, SubSeqProperties
  <2> HIDE DEF s
  <2>3. Len(s) = low
    BY <2>2
  <2>4. ASSUME NEW i \in 1..low PROVE s[i] = B[i]
    <3>1. i \in 1..(low - 1 + 1) /\ 1 + i - 1 = i
      OBVIOUS
    <3> QED BY <2>2, <3>1
  <2> QED BY <2>2, <2>3, <2>4
<1> HIDE DEF s
<1>6. t \in Seq(E) /\ Len(t) = m /\ \A i \in 1..m : t[i] = IF i <= low THEN B[i] ELSE H[i - low]
  <2>0. t \in Seq(E) /\ Len(t) = Len(s) + Len(H)
        /\ \A i \in 1..(Len(s) + Len(H)) : t[i] = IF i <= Len(s) THEN s[i] ELSE H[i - Len(s)]
    BY <1>4, <1>5, ConcatProperties
  <2>1. t \in Seq(E) /\ Len(t) = low + (m - low)
        /\ \A i \in 1..(low + (m - low)) : t[i] = IF i <= low THEN s[i] ELSE H[i - low]
    <3> HIDE DEF t
    <3> QED BY <1>4, <1>5, <2>0
  <2>2. low + (m - low) = m
    OBVIOUS
  <2>3. Len(t) = m /\ \A i \in 1..m : t[i] = IF i <= low THEN s[i] ELSE H[i - low]
    BY <2>1, <2>2
  <2> HIDE DEF t
  <2>4. \A i \in 1..m : i <= low => i \in 1..low
    OBVIOUS
  <2> QED BY <1>5, <2>1, <2>3, <2>4
<1> HIDE DEF t
<1>7. t \in [1..m -> E]
  BY <1>6
<1>8. ASSUME NEW i \in 1..m
      PROVE  \E k \in 1..m : t[i] = B[k] /\ (i <= low <=> k <= low) /\ (i <= low => k = i)
                             /\ (i > low => H[i - low] = B[k])
  <2>1. CASE i <= low
    <3>1. t[i] = B[i]
      BY <1>6, <2>1
    <3> QED BY <2>1, <3>1
  <2>2. CASE ~(i <= low)
    <3>1. i - low \in 1..(m - low) /\ t[i] = H[i - low]
      BY <1>6, <2>2
    <3>2. PICK k \in (low + 1)..m : B[k] = H[i - low]
      BY <1>2, <1>3, <3>1
    <3>3. k \in 1..m /\ ~(k <= low)
      OBVIOUS
    <3> QED BY <2>2, <3>1, <3>2, <3>3
  <2> QED BY <2>1, <2>2
<1>9. ASSUME NEW i \in 1..m, NEW j \in 1..m, t[i] = t[j] PROVE i = j
  <2>1. PICK k \in 1..m : t[i] = B[k] /\ (i <= low <=> k <= low) /\ (i <= low => k = i)
                          /\ (i > low => H[i - low] = B[k])
    BY <1>8
  <2>2. PICK l \in 1..m : t[j] = B[l] /\ (j <= low <=> l <= low) /\ (j <= low => l = j)
                          /\ (j > low => H[j - low] = B[l])
    BY <1>8
  <2>3. k = l
    BY <1>1, <1>9, <2>1, <2>2
  <2>4. CASE i <= low
    BY <2>1, <2>2, <2>3, <2>4
  <2>5. CASE ~(i <= low)
    <3>1. i > low /\ j > low
      BY <2>1, <2>2, <2>3, <2>5
    <3>2. H[i - low] = H[j - low] /\ i - low \in 1..(m - low) /\ j - low \in 1..(m - low)
      BY <2>1, <2>2, <2>3, <3>1
    <3>3. i - low = j - low
      BY <1>3, <3>2
    <3> QED BY <3>3
  <2> QED BY <2>4, <2>5
<1>10. ASSUME NEW x \in E PROVE \E i \in 1..m : t[i] = x
  <2>1. PICK k \in 1..m : B[k] = x
    BY <1>1
  <2>2. CASE k <= low
    BY <1>6, <2>1, <2>2
  <2>3. CASE ~(k <= low)
    <3>1. k \in (low + 1)..m
      BY <2>3
    <3>2. PICK j \in 1..(m - low) : H[j] = x
      BY <1>2, <1>3, <2>1, <3>1
    <3>3. PICK i \in 1..m : i = low + j /\ i - low = j /\ ~(i <= low)
      OBVIOUS
    <3> QED BY <1>6, <3>2, <3>3
  <2> QED BY <2>2, <2>3
<1> QED BY <1>6, <1>7, <1>9, <1>10 DEF Lists, t, s

(* The symbols that are used, with their frequencies, each once.             *)
UsedOf(f) == {s \in DOMAIN f : f[s] # 0}
Pairs(f) == {<<f[s], s>> : s \in UsedOf(f)}

LEMMA SortLists ==
  ASSUME NEW n \in Nat, n > 0, NEW f \in [0..(n - 1) -> Nat]
  PROVE  /\ IsFiniteSet(UsedOf(f)) /\ Cardinality(UsedOf(f)) \in Nat
         /\ Lists(sort_symbols(n, f), Cardinality(UsedOf(f)), Pairs(f))
         /\ Len(sort_symbols(n, f)) = Cardinality(UsedOf(f))
<1> DEFINE D == UsedOf(f)
           m == Cardinality(D)
           E == Pairs(f)
           counter == [s \in D |-> Less(f[s], n - 1)]
           below == {s \in D : counter[s] < n - 1}
           low == Cardinality(below)
           syms == Arranged(D, counter)
           entries == [i \in 1..m |-> <<f[syms[i]], syms[i]>>]
           Sorted(ss) ==
             LET es == [i \in 1..Len(ss) |-> <<f[ss[i]], ss[i]>>]
             IN  SubSeq(es, 1, low) \o heap_sort(SubSeq(es, low + 1, Len(ss)))
           result == SubSeq(entries, 1, low) \o heap_sort(SubSeq(entries, low + 1, m))
<1>1. IsFiniteSet(D) /\ m \in Nat /\ D \in SUBSET Nat
  <2>1. D \in SUBSET (0..(n - 1)) /\ D \in SUBSET Nat
    BY DEF UsedOf
  <2>2. IsFiniteSet(0..(n - 1))
    BY FS_Interval
  <2> HIDE DEF D
  <2> QED BY <2>1, <2>2, FS_Subset, FS_CardinalityType
<1>2. counter \in [D -> Nat]
  <2>1. \A s \in D : Less(f[s], n - 1) \in Nat
    BY DEF Less, UsedOf
  <2> HIDE DEF D
  <2> QED BY <2>1
<1>3. low \in 0..m
  <2>1. below \in SUBSET D
    OBVIOUS
  <2> HIDE DEF D, below
  <2>2. IsFiniteSet(below) /\ low <= m
    BY <1>1, <2>1, FS_Subset
  <2>3. low \in Nat
    BY <2>2, FS_CardinalityType
  <2> QED BY <1>1, <2>2, <2>3
<1>4. Lists(syms, m, D)
  <2> HIDE DEF D, counter
  <2> QED BY <1>1, <1>2, ArrangedLists
<1>5. syms \in [1..m -> D] /\ (\A i, j \in 1..m : syms[i] = syms[j] => i = j)
      /\ (\A x \in D : \E i \in 1..m : syms[i] = x) /\ Len(syms) = m
  <2> HIDE DEF syms, D
  <2>1. syms \in [1..m -> D] /\ (\A i, j \in 1..m : syms[i] = syms[j] => i = j)
        /\ (\A x \in D : \E i \in 1..m : syms[i] = x)
    BY <1>4 DEF Lists
  <2> HIDE DEF m
  <2>2. Len(syms) = m
    BY <1>1, <2>1
  <2> QED BY <2>1, <2>2
<1>6. sort_symbols(n, f) = Sorted(syms)
  <2>1. {t \in 0..(n - 1) : f[t] # 0} = D
    BY DEF UsedOf
  <2>2. DOMAIN counter = D
    OBVIOUS
  <2> DEFINE Low(c) == Cardinality({s \in DOMAIN c : c[s] < n - 1})
             SortedBy(c, ss) ==
               LET es == [i \in 1..Len(ss) |-> <<f[ss[i]], ss[i]>>]
               IN  SubSeq(es, 1, Low(c)) \o heap_sort(SubSeq(es, Low(c) + 1, Len(ss)))
             Counted(c) == CHOOSE y \in {SortedBy(c, ss) : ss \in {Arranged(DOMAIN c, c)}} : TRUE
  <2>3. sort_symbols(n, f) = CHOOSE y \in {Counted(c) : c \in {counter}} : TRUE
    <3> HIDE DEF D
    <3> QED BY <2>1 DEF sort_symbols, With
  <2>4. SortedBy(counter, syms) = Sorted(syms) /\ Arranged(DOMAIN counter, counter) = syms
    <3> HIDE DEF D
    <3> QED BY <2>2
  <2>5. Counted(counter) = Sorted(syms)
    <3>1. Counted(counter) = CHOOSE y \in {SortedBy(counter, ss) : ss \in {syms}} : TRUE
      <4> HIDE DEF D, SortedBy, counter, syms
      <4> QED BY <2>4
    <3> HIDE DEF SortedBy, counter, syms, Sorted, Counted
    <3>2. {SortedBy(counter, ss) : ss \in {syms}} = {Sorted(syms)}
      BY <2>4
    <3> QED BY <3>1, <3>2
  <2> HIDE DEF Counted, counter, Sorted, syms
  <2>6. {Counted(c) : c \in {counter}} = {Sorted(syms)}
    BY <2>5
  <2> QED BY <2>3, <2>6
<1>7. Sorted(syms) = result
  <2> HIDE DEF syms, D, low
  <2> QED BY <1>5
<1> HIDE DEF Sorted
<1>8. Lists(entries, m, E) /\ E \in SUBSET Entries
  <2>1. \A x : x \in E <=> \E s \in D : x = <<f[s], s>>
    BY DEF Pairs
  <2>2. \A s \in D : s \in Nat /\ f[s] \in Nat
    BY DEF UsedOf
  <2>3. \A i \in 1..m : entries[i] = <<f[syms[i]], syms[i]>>
    OBVIOUS
  <2>4. entries = [i \in 1..m |-> entries[i]]
    OBVIOUS
  <2> HIDE DEF D, E, syms, entries, m
  <2>5. E \in SUBSET Entries
    BY <2>1, <2>2 DEF Entries
  <2>6. \A i \in 1..m : syms[i] \in D /\ entries[i] \in E
    BY <1>5, <2>1, <2>3
  <2>7. entries \in [1..m -> E]
    BY <2>4, <2>6
  <2>8. ASSUME NEW i \in 1..m, NEW j \in 1..m, entries[i] = entries[j] PROVE i = j
    <3>1. syms[i] = syms[j]
      BY <2>3, <2>8
    <3> QED BY <1>5, <3>1
  <2>9. ASSUME NEW x \in E PROVE \E i \in 1..m : entries[i] = x
    <3>1. PICK s \in D : x = <<f[s], s>>
      BY <2>1
    <3>2. PICK i \in 1..m : syms[i] = s
      BY <1>5
    <3>3. entries[i] = x
      BY <2>3, <3>1, <3>2
    <3> QED BY <3>3
  <2> QED BY <2>5, <2>7, <2>8, <2>9 DEF Lists
<1>9. Lists(result, m, E) /\ Len(result) = m
  <2> HIDE DEF entries, low, m, E
  <2>1. Lists(SubSeq(entries, low + 1, m), m - low, Behind(entries, low, m)) /\ Behind(entries, low, m) \subseteq E
    BY <1>1, <1>3, <1>8, TailLists
  <2>2. m - low \in Nat /\ Behind(entries, low, m) \in SUBSET Entries
    BY <1>1, <1>3, <1>8, <2>1
  <2>3. Lists(heap_sort(SubSeq(entries, low + 1, m)), m - low, Behind(entries, low, m))
    BY <2>1, <2>2, HeapSortLists
  <2> DEFINE H == heap_sort(SubSeq(entries, low + 1, m))
  <2> HIDE DEF H
  <2>4. Lists(H, m - low, Behind(entries, low, m))
    BY <2>3 DEF H
  <2>5. Lists(SubSeq(entries, 1, low) \o H, m, E) /\ Len(SubSeq(entries, 1, low) \o H) = m
    BY <1>1, <1>3, <1>8, <2>4, JoinLists
  <2> QED BY <2>5 DEF H
<1> HIDE DEF result
<1> QED BY <1>1, <1>6, <1>7, <1>9

-----------------------------------------------------------------------------
(* The tree.  The first b non-leaves have parents below e, which do not come *)
(* back to earlier ones, and none has more than two children.                *)
Forest(A, b, e) ==
  /\ \A j \in Nat : j < b => A[j] \in Nat /\ j < A[j] /\ A[j] < e
  /\ \A i, j \in Nat : i <= j /\ j < b => A[i] <= A[j]
  /\ \A i, j \in Nat : i + 2 <= j /\ j < b => A[i] < A[j]

(* At most two more nodes get a parent, which is e.                          *)
Joined(A, b, C, c, e) ==
  /\ b <= c /\ c <= b + 2 /\ c <= e
  /\ \A j \in Nat : j < b => C[j] = A[j]
  /\ \A j \in Nat : b <= j /\ j < c => C[j] = e

LEMMA ForestGrows ==
  ASSUME NEW b \in Nat, NEW c \in Nat, NEW e \in Nat, NEW A, NEW C, Forest(A, b, e),
         Joined(A, b, C, c, e)
  PROVE  Forest(C, c, e + 1)
<1>0. /\ b <= c /\ c <= b + 2 /\ c <= e
      /\ \A j \in Nat : j < b => C[j] = A[j]
      /\ \A j \in Nat : b <= j /\ j < c => C[j] = e
  BY DEF Joined
<1> USE <1>0
<1>1. ASSUME NEW j \in Nat, j < c
      PROVE  C[j] \in Nat /\ j < C[j] /\ C[j] < e + 1 /\ (j < b => C[j] < e) /\ (b <= j => C[j] = e)
  <2>1. CASE j < b
    <3>1. A[j] \in Nat /\ j < A[j] /\ A[j] < e /\ C[j] = A[j]
      BY <2>1 DEF Forest
    <3> QED BY <2>1, <3>1
  <2>2. CASE b <= j
    <3>1. C[j] = e
      BY <1>1, <2>2
    <3> QED BY <1>1, <2>2, <3>1
  <2> QED BY <2>1, <2>2
<1>2. ASSUME NEW i \in Nat, NEW j \in Nat, i <= j, j < c PROVE C[i] <= C[j]
  <2>1. CASE j < b
    <3>1. i < b /\ A[i] <= A[j] /\ C[i] = A[i] /\ C[j] = A[j]
      BY <1>2, <2>1 DEF Forest
    <3> QED BY <3>1
  <2>2. CASE b <= j
    <3>1. i < c /\ C[j] = e /\ C[i] \in Nat /\ C[i] < e + 1
      BY <1>1, <1>2, <2>2
    <3> QED BY <3>1
  <2> QED BY <2>1, <2>2
<1>3. ASSUME NEW i \in Nat, NEW j \in Nat, i + 2 <= j, j < c PROVE C[i] < C[j]
  <2>1. i < b /\ i < c
    BY <1>3
  <2>2. CASE j < b
    <3>1. A[i] < A[j] /\ C[i] = A[i] /\ C[j] = A[j]
      BY <1>3, <2>1, <2>2 DEF Forest
    <3> QED BY <3>1
  <2>3. CASE b <= j
    <3>1. C[j] = e /\ C[i] < e
      BY <1>1, <1>3, <2>1, <2>3
    <3> QED BY <3>1
  <2> QED BY <2>2, <2>3
<1> QED BY <1>1, <1>2, <1>3 DEF Forest

(* After k steps: k nodes are built, and of the trees that were joined none  *)
(* is joined again.                                                          *)
Building(n, k) ==
  {t \in Trees(n) : /\ t.e = k /\ t.i + t.b = 2 * k /\ t.i <= n /\ t.b <= k
                    /\ k > 0 => t.b < k
                    /\ Forest(t.A, t.b, k)}

LEMMA IsBuilding ==
  ASSUME NEW n \in Nat, NEW k \in Nat, NEW C \in [0..(n - 1) -> Nat], NEW j \in Nat, NEW c \in Nat,
         j + c = 2 * k, j <= n, c <= k, k > 0 => c < k, Forest(C, c, k),
         NEW r, r = [A |-> C, i |-> j, b |-> c, e |-> k]
  PROVE  r \in Building(n, k)
<1>1. r \in Trees(n)
  BY DEF Trees
<1>2. r.e = k /\ r.i = j /\ r.b = c /\ r.A = C
  OBVIOUS
<1> QED BY <1>1, <1>2 DEF Building

LEMMA NodeBuilt ==
  ASSUME NEW n \in Nat, NEW k \in Nat, k + 2 <= n, NEW t \in Building(n, k)
  PROVE  BuildNode(n - 1, t) \in Building(n, k + 1)
<1>1. PICK A \in [0..(n - 1) -> Nat], i \in Nat, b \in Nat :
        /\ t.A = A /\ t.i = i /\ t.b = b /\ t.e = k
        /\ i + b = 2 * k /\ i <= n /\ b <= k /\ (k > 0 => b < k) /\ Forest(A, b, k)
  BY DEF Building, Trees
<1> DEFINE r == BuildNode(n - 1, t)
<1>2. PICK l \in Nat : l = k + 1
  OBVIOUS
<1>3. k \in 0..(n - 1)
  OBVIOUS
<1>4. CASE TwoLeaves(A, n - 1, i, b, k)
  <2> DEFINE C == [A EXCEPT ![k] = A[i] + A[i + 1]]
  <2>1. i + 1 <= n - 1
    BY <1>4 DEF TwoLeaves
  <2>2. r = [A |-> C, i |-> i + 2, b |-> b, e |-> k + 1]
    BY <1>1, <1>4 DEF BuildNode
  <2>3. i + 1 \in 0..(n - 1) /\ i \in 0..(n - 1)
    BY <2>1
  <2>4. A[i] + A[i + 1] \in Nat
    BY <2>3
  <2>5. C \in [0..(n - 1) -> Nat]
    BY <2>4
  <2>6. \A j \in Nat : j < b => C[j] = A[j]
    <3>1. \A j \in Nat : j < b => j # k /\ j \in 0..(n - 1)
      BY <1>1
    <3> QED BY <3>1
  <2> HIDE DEF C, r
  <2>7. Forest(C, b, l)
    <3>1. b <= b /\ b <= b + 2 /\ \A j \in Nat : b <= j /\ j < b => C[j] = k
      BY <1>1
    <3>2. Joined(A, b, C, b, k)
      BY <1>1, <2>6, <3>1 DEF Joined
    <3>3. Forest(C, b, k + 1)
      BY <1>1, <3>2, ForestGrows
    <3> QED BY <1>2, <3>3
  <2>8. PICK j \in Nat : j = i + 2 /\ j + b = 2 * l /\ j <= n /\ b <= l /\ b < l
    BY <1>1, <1>2, <2>1
  <2> QED BY <1>2, <2>2, <2>5, <2>7, <2>8, IsBuilding DEF r
<1>5. CASE ~TwoLeaves(A, n - 1, i, b, k) /\ TwoNonLeaves(A, n - 1, i, b, k)
  <2> DEFINE C == [A EXCEPT ![b] = k, ![b + 1] = k, ![k] = A[b] + A[b + 1]]
  <2>1. b + 2 <= k
    BY <1>5 DEF TwoNonLeaves
  <2>2. r = [A |-> C, i |-> i, b |-> b + 2, e |-> k + 1]
    BY <1>1, <1>5 DEF BuildNode
  <2>3. b + 1 \in 0..(n - 1) /\ b \in 0..(n - 1) /\ b # k /\ b + 1 # k /\ b # b + 1
    BY <2>1
  <2>4. A[b] + A[b + 1] \in Nat
    BY <2>3
  <2>5. C \in [0..(n - 1) -> Nat] /\ C[b] = k /\ C[b + 1] = k
    BY <1>3, <2>3, <2>4
  <2>6. \A j \in Nat : j < b => C[j] = A[j]
    <3>1. \A j \in Nat : j < b => j # k /\ j # b /\ j # b + 1 /\ j \in 0..(n - 1)
      BY <2>1
    <3> QED BY <3>1
  <2> HIDE DEF C, r
  <2>7. PICK c \in Nat : c = b + 2 /\ i + c = 2 * l /\ c <= k /\ c <= l /\ c < l
    BY <1>1, <1>2, <2>1
  <2>8. Forest(C, c, l)
    <3>1. b <= c /\ c <= b + 2
      BY <2>7
    <3>2. \A j \in Nat : b <= j /\ j < c => j = b \/ j = b + 1
      BY <2>7
    <3>3. \A j \in Nat : b <= j /\ j < c => C[j] = k
      BY <2>5, <3>2
    <3>4. Joined(A, b, C, c, k)
      BY <2>6, <2>7, <3>1, <3>3 DEF Joined
    <3>5. Forest(C, c, k + 1)
      BY <1>1, <3>4, ForestGrows
    <3> QED BY <1>2, <3>5
  <2> QED BY <1>1, <1>2, <2>2, <2>5, <2>7, <2>8, IsBuilding DEF r
<1>6. CASE ~TwoLeaves(A, n - 1, i, b, k) /\ ~TwoNonLeaves(A, n - 1, i, b, k)
  <2> DEFINE C == [A EXCEPT ![b] = k, ![k] = A[i] + A[b]]
  <2>1. b < k
    <3> SUFFICES ASSUME b = k PROVE FALSE
      BY <1>1
    <3>1. i + 1 <= n - 1
      BY <1>1
    <3> QED BY <1>6, <3>1 DEF TwoLeaves
  <2>2. i < n
    <3> SUFFICES ASSUME i = n PROVE FALSE
      BY <1>1
    <3>1. b + 2 <= k /\ i > n - 1
      BY <1>1
    <3> QED BY <1>6, <3>1 DEF TwoNonLeaves
  <2>3. r = [A |-> C, i |-> i + 1, b |-> b + 1, e |-> k + 1]
    BY <1>1, <1>6 DEF BuildNode
  <2>4. i \in 0..(n - 1) /\ b \in 0..(n - 1) /\ b # k
    BY <2>1, <2>2
  <2>5. A[i] + A[b] \in Nat
    BY <2>4
  <2>6. C \in [0..(n - 1) -> Nat] /\ C[b] = k
    BY <1>3, <2>4, <2>5
  <2>7. \A j \in Nat : j < b => C[j] = A[j]
    <3>1. \A j \in Nat : j < b => j # k /\ j # b /\ j \in 0..(n - 1)
      BY <2>1
    <3> QED BY <3>1
  <2> HIDE DEF C, r
  <2>8. PICK c \in Nat : c = b + 1 /\ c <= k /\ c <= l /\ c < l
    BY <1>2, <2>1
  <2>9. PICK j \in Nat : j = i + 1 /\ j + c = 2 * l /\ j <= n
    BY <1>1, <1>2, <2>2, <2>8
  <2>10. Forest(C, c, l)
    <3>1. b <= c /\ c <= b + 2
      BY <2>8
    <3>2. \A x \in Nat : b <= x /\ x < c => x = b
      BY <2>8
    <3>3. \A x \in Nat : b <= x /\ x < c => C[x] = k
      BY <2>6, <3>2
    <3>4. Joined(A, b, C, c, k)
      BY <2>7, <2>8, <3>1, <3>3 DEF Joined
    <3>5. Forest(C, c, k + 1)
      BY <1>1, <3>4, ForestGrows
    <3> QED BY <1>2, <3>5
  <2> QED BY <1>2, <2>3, <2>6, <2>8, <2>9, <2>10, IsBuilding DEF r
<1> QED BY <1>4, <1>5, <1>6

(* The array of parents that build_tree leaves, of all nodes but the root.   *)
Tree(A, n) == A \in [0..(n - 1) -> Nat] /\ Forest(A, n - 2, n - 1)

LEMMA TreeBuilt ==
  ASSUME NEW n \in Nat, n >= 2, NEW A \in [0..(n - 1) -> Nat]
  PROVE  Tree(build_tree(A, n), n)
<1> DEFINE step == [t \in Trees(n) |-> BuildNode(n - 1, t)]
           a == [A |-> A, i |-> 0, b |-> 0, e |-> 0]
           built == Repeat(n - 1, a, Trees(n), step)
           Phase == [k \in 0..(n - 1) |-> Building(n, k)]
<1>1. build_tree(A, n) = built.A
  BY DEF build_tree
<1>2. a \in Building(n, 0)
  <2>1. a \in Trees(n) /\ a.e = 0 /\ a.i = 0 /\ a.b = 0 /\ a.A = A
    BY DEF Trees
  <2>2. Forest(A, 0, 0)
    BY DEF Forest
  <2> HIDE DEF a
  <2> QED BY <2>1, <2>2 DEF Building
<1>3. \A k \in 0..(n - 1) : \A t \in Phase[k] : t \in Trees(n)
  BY DEF Building
<1>4. ASSUME NEW k \in 1..(n - 1), NEW t \in Phase[k - 1] PROVE step[t] \in Phase[k]
  <2>1. PICK l \in Nat : l = k - 1 /\ l + 1 = k /\ l + 2 <= n /\ l \in 0..(n - 1) /\ k \in 0..(n - 1)
    OBVIOUS
  <2>2. t \in Building(n, l) /\ t \in Trees(n)
    BY <2>1 DEF Building
  <2>3. step[t] = BuildNode(n - 1, t)
    BY <2>2
  <2>4. BuildNode(n - 1, t) \in Building(n, k)
    BY <2>1, <2>2, NodeBuilt
  <2> QED BY <2>1, <2>3, <2>4
<1>5. n - 1 \in Nat /\ a \in Phase[0] /\ Phase[n - 1] = Building(n, n - 1)
  BY <1>2
<1> HIDE DEF step, Phase, a
<1>6. built \in Building(n, n - 1)
  BY <1>3, <1>4, <1>5, RepeatStaysIn
<1> HIDE DEF built
<1>7. built \in Trees(n) /\ built.i + built.b = 2 * (n - 1) /\ built.i <= n /\ built.b < n - 1
      /\ Forest(built.A, built.b, n - 1)
  BY <1>6 DEF Building
<1>8. built.A \in [0..(n - 1) -> Nat] /\ built.i \in Nat /\ built.b \in Nat
  BY <1>7 DEF Trees
<1>9. built.b = n - 2
  <2>1. PICK i \in Nat, b \in Nat : i = built.i /\ b = built.b
    BY <1>8
  <2>2. i + b = 2 * (n - 1) /\ i <= n /\ b < n - 1
    BY <1>7, <2>1
  <2>3. b = n - 2
    BY <2>2
  <2> QED BY <2>1, <2>3
<1> QED BY <1>1, <1>7, <1>8, <1>9 DEF Tree

-----------------------------------------------------------------------------
(* The counts of the codeword lengths: what a node does to their sums.        *)
Weights(counts, max) == [l \in 1..max |-> counts[l] * 2^(max - l)]
Downward(counts, max) == [k \in 1..max |-> counts[max + 1 - k]]
Weighted(counts, max) == SumTo(max, Weights(counts, max))
Many(counts, max) == SumTo(max, Downward(counts, max))

LEMMA SumsExist ==
  ASSUME NEW max \in Nat, NEW counts \in [0..max -> Nat]
  PROVE  /\ Weights(counts, max) \in [1..max -> Nat] /\ Downward(counts, max) \in [1..max -> Nat]
         /\ \A l \in 1..max : Weights(counts, max)[l] = counts[l] * 2^(max - l)
         /\ \A k \in 1..max : Downward(counts, max)[k] = counts[max + 1 - k]
<1>1. ASSUME NEW l \in 1..max PROVE counts[l] * 2^(max - l) \in Nat
  <2>1. max - l \in Nat /\ counts[l] \in Nat
    OBVIOUS
  <2>2. 2^(max - l) \in Nat
    BY <2>1, PowerOfTwo
  <2> QED BY <2>1, <2>2
<1>2. ASSUME NEW k \in 1..max PROVE counts[max + 1 - k] \in Nat
  <2>1. max + 1 - k \in 0..max
    OBVIOUS
  <2> QED BY <2>1
<1> QED BY <1>1, <1>2 DEF Weights, Downward

Trade(n, f, g, i, j) ==
  /\ n \in Nat /\ f \in [1..n -> Nat] /\ g \in [1..n -> Nat] /\ i \in 1..n /\ j \in 1..n /\ i # j
  /\ \A k \in 1..n : k # i /\ k # j => g[k] = f[k]
SumTrades(n, f, g, i, j) == SumTo(n, g) = SumTo(n, f) - f[i] + g[i] - f[j] + g[j]

LEMMA SumUpdates ==
  ASSUME NEW n, NEW f, NEW g, NEW i, NEW j, Trade(n, f, g, i, j)
  PROVE  SumTrades(n, f, g, i, j)
<1> DEFINE h == [f EXCEPT ![i] = g[i]]
<1>0. /\ n \in Nat /\ f \in [1..n -> Nat] /\ g \in [1..n -> Nat] /\ i \in 1..n /\ j \in 1..n /\ i # j
      /\ \A k \in 1..n : k # i /\ k # j => g[k] = f[k]
  BY DEF Trade
<1>1. h \in [1..n -> Nat] /\ h[i] = g[i] /\ h[j] = f[j] /\ \A k \in 1..n : k # i => h[k] = f[k]
  BY <1>0
<1> HIDE DEF h
<1>2. \A k \in 1..n : k # j => g[k] = h[k]
  BY <1>0, <1>1
<1>3. SameBut(n, f, h, i) /\ SameBut(n, h, g, j)
  BY <1>1, <1>2 DEF SameBut
<1>4. h \in [1..n -> Int] /\ f \in [1..n -> Int] /\ g \in [1..n -> Int]
  BY <1>0, <1>1
<1>5. SumFollows(n, f, h, i) /\ SumFollows(n, h, g, j)
  BY ONLY <1>0, <1>3, <1>4, SumUpdate
<1>6. SumTo(n, h) = SumTo(n, f) - f[i] + h[i] /\ SumTo(n, g) = SumTo(n, h) - h[j] + g[j]
  BY ONLY <1>5 DEF SumFollows
<1>7. PICK s \in Nat : s = SumTo(n, f)
  BY <1>0, SumNat
<1>8. PICK a \in Nat, b \in Nat, c \in Nat, d \in Nat : a = f[i] /\ b = g[i] /\ c = f[j] /\ d = g[j]
  BY <1>0
<1>9. h[i] = b /\ h[j] = c
  BY ONLY <1>1, <1>8
<1>10. PICK r \in Int : r = s - a + b
  OBVIOUS
<1>11. SumTo(n, h) = s - a + b
  BY ONLY <1>6, <1>7, <1>8, <1>9
<1>12. SumTo(n, g) = r - c + d
  <2>1. SumTo(n, h) = r
    BY ONLY <1>10, <1>11
  <2> QED BY ONLY <1>6, <1>8, <1>9, <2>1
<1>13. SumTo(n, g) = s - a + b - c + d
  BY ONLY <1>10, <1>12
<1>14. SumTo(n, g) = SumTo(n, f) - f[i] + g[i] - f[j] + g[j]
  BY ONLY <1>7, <1>8, <1>13
<1> QED BY ONLY <1>14 DEF SumTrades

LEMMA SplitWeights ==
  \A x, y, p \in Nat : (x - 1) * (2 * p) = x * (2 * p) - 2 * p /\ (y + 2) * p = y * p + 2 * p
OBVIOUS

(* A codeword gives way to two that are a bit longer.                        *)
Split(counts, d) == [counts EXCEPT ![d] = @ - 1, ![d + 1] = @ + 2]
SplitOne(counts, c, d, max) ==
  /\ c \in [0..max -> Nat] /\ c[0] = counts[0] /\ c[d] = counts[d] - 1 /\ c[d + 1] = counts[d + 1] + 2
  /\ \A l \in 0..max : l # d /\ l # d + 1 => c[l] = counts[l]
  /\ Weighted(c, max) = Weighted(counts, max)
  /\ Many(c, max) = Many(counts, max) + 1

LEMMA CodewordSplit ==
  ASSUME NEW max \in Nat, NEW counts \in [0..max -> Nat], NEW d \in 1..(max - 1), counts[d] > 0,
         NEW c, c = Split(counts, d)
  PROVE  SplitOne(counts, c, d, max)
<1>1. PICK e \in 1..max : e = d + 1 /\ d \in 1..max /\ d # e /\ d \in 0..max /\ e \in 0..max /\ d # 0 /\ e # 0
  OBVIOUS
<1>2. PICK x \in Nat, y \in Nat : x = counts[d] /\ y = counts[e] /\ x > 0
  BY <1>1
<1>3. c \in [0..max -> Nat] /\ c[d] = x - 1 /\ c[e] = y + 2
      /\ \A l \in 0..max : l # d /\ l # e => c[l] = counts[l]
  <2>1. c = [counts EXCEPT ![d] = x - 1, ![e] = y + 2]
    BY <1>1, <1>2 DEF Split
  <2>2. x - 1 \in Nat /\ y + 2 \in Nat
    BY <1>2
  <2> QED BY <1>1, <2>1, <2>2
<1>4. c[0] = counts[0]
  BY <1>1, <1>3
<1>5. Weighted(c, max) = Weighted(counts, max)
  <2>1. PICK p \in Nat : p = 2^(max - e)
    <3>1. max - e \in Nat
      BY <1>1
    <3> QED BY <3>1, PowerOfTwo
  <2>2. 2^(max - d) = 2 * p
    <3>1. PICK k \in Nat : k = max - e /\ k + 1 = max - d
      BY <1>1
    <3> QED BY <2>1, <3>1, PowerOfTwo
  <2> DEFINE f == Weights(counts, max)
             g == Weights(c, max)
  <2>3. f \in [1..max -> Nat] /\ g \in [1..max -> Nat]
        /\ (\A l \in 1..max : f[l] = counts[l] * 2^(max - l) /\ g[l] = c[l] * 2^(max - l))
    BY <1>3, SumsExist
  <2> HIDE DEF f, g
  <2>4. f[d] = x * (2 * p) /\ g[d] = (x - 1) * (2 * p) /\ f[e] = y * p /\ g[e] = (y + 2) * p
    BY <1>1, <1>2, <1>3, <2>1, <2>2, <2>3
  <2>5. \A l \in 1..max : l # d /\ l # e => g[l] = f[l]
    <3>1. \A l \in 1..max : l \in 0..max
      OBVIOUS
    <3> QED BY <1>3, <2>3, <3>1
  <2>8. PICK s \in Nat : s = SumTo(max, f)
    BY <2>3, SumNat
  <2>9. PICK q \in Nat : q = 2 * p
    OBVIOUS
  <2>11. PICK a \in Nat, b \in Nat : a = x * q /\ b = y * p
    OBVIOUS
  <2>12. (x - 1) * q = a - q /\ (y + 2) * p = b + q
    <3>1. (x - 1) * (2 * p) = x * (2 * p) - 2 * p /\ (y + 2) * p = y * p + 2 * p
      BY SplitWeights, Zenon
    <3> QED BY <2>9, <2>11, <3>1
  <2>13. x - 1 \in Nat
    BY <1>2
  <2>14. PICK v \in Nat, w \in Nat : v = (x - 1) * q /\ w = (y + 2) * p
    BY <2>13
  <2>15. a = f[d] /\ v = g[d] /\ b = f[e] /\ w = g[e]
    BY ONLY <2>4, <2>9, <2>11, <2>14
  <2>19. d \in 1..max /\ e \in 1..max /\ d # e /\ f \in [1..max -> Nat] /\ g \in [1..max -> Nat]
    BY <1>1, <2>3
  <2>20. Trade(max, f, g, d, e)
    BY <2>5, <2>19 DEF Trade
  <2>7. SumTrades(max, f, g, d, e)
    BY ONLY <2>20, SumUpdates
  <2>21. SumTo(max, g) = SumTo(max, f) - f[d] + g[d] - f[e] + g[e]
    BY ONLY <2>7 DEF SumTrades
  <2>16. SumTo(max, g) = s - a + v - b + w
    BY ONLY <2>8, <2>15, <2>21
  <2>17. v = a - q /\ w = b + q
    BY ONLY <2>12, <2>14
  <2>18. s - a + v - b + w = s
    BY <2>17
  <2>10. SumTo(max, g) = SumTo(max, f)
    BY ONLY <2>8, <2>16, <2>18
  <2> QED BY <2>10 DEF Weighted, f, g
<1>6. Many(c, max) = Many(counts, max) + 1
  <2> DEFINE f == Downward(counts, max)
             g == Downward(c, max)
  <2>1. f \in [1..max -> Nat] /\ g \in [1..max -> Nat]
        /\ (\A k \in 1..max : f[k] = counts[max + 1 - k] /\ g[k] = c[max + 1 - k])
    BY <1>3, SumsExist
  <2>2. PICK i, j \in 1..max : i = max + 1 - d /\ j = max + 1 - e /\ i # j /\ max + 1 - i = d /\ max + 1 - j = e
    BY <1>1
  <2> HIDE DEF f, g
  <2>3. f[i] = x /\ g[i] = x - 1 /\ f[j] = y /\ g[j] = y + 2
    BY <1>2, <1>3, <2>1, <2>2
  <2>4. ASSUME NEW k \in 1..max, k # i, k # j PROVE g[k] = f[k]
    <3>1. PICK l \in 0..max : l = max + 1 - k /\ l # d /\ l # e
      BY <1>1, <2>2, <2>4
    <3> QED BY <1>3, <2>1, <3>1
  <2>7. PICK s \in Nat : s = SumTo(max, f)
    BY <2>1, SumNat
  <2>8. SumTo(max, g) = SumTo(max, f) + 1
    <3>1. x - 1 \in Nat /\ y + 2 \in Nat
      BY <1>2
    <3>4. PICK v \in Nat, w \in Nat : v = x - 1 /\ w = y + 2
      BY <3>1
    <3>7. v = g[i] /\ w = g[j]
      BY ONLY <2>3, <3>4
    <3>9. i \in 1..max /\ j \in 1..max /\ i # j /\ f \in [1..max -> Nat] /\ g \in [1..max -> Nat]
      BY <2>1, <2>2
    <3>11. Trade(max, f, g, i, j)
      BY <2>4, <3>9 DEF Trade
    <3>5. SumTrades(max, f, g, i, j)
      BY ONLY <3>11, SumUpdates
    <3>10. SumTo(max, g) = SumTo(max, f) - f[i] + g[i] - f[j] + g[j]
      BY ONLY <3>5 DEF SumTrades
    <3>6. SumTo(max, g) = s - x + v - y + w
      BY ONLY <2>3, <2>7, <3>7, <3>10
    <3>2. SumTo(max, g) = s - x + (x - 1) - y + (y + 2)
      BY ONLY <3>4, <3>6
    <3>3. s - x + (x - 1) - y + (y + 2) = s + 1
      BY ONLY s \in Nat, x \in Nat, y \in Nat
    <3> QED BY ONLY <2>7, <3>2, <3>3
  <2> QED BY <2>8 DEF Many, f, g
<1> QED BY <1>1, <1>2, <1>3, <1>4, <1>5, <1>6 DEF SplitOne

LEMMA PowerZero == 2^0 = 1
<1>1. IsFiniteSet({}) /\ Cardinality({}) = 0
  BY FS_EmptySet
<1>2. Cardinality(SUBSET {}) = 2^0
  BY <1>1, FS_SUBSET
<1>3. SUBSET {} = {{}}
  OBVIOUS
<1>4. Cardinality({{}}) = 1
  BY FS_Singleton
<1> QED BY <1>2, <1>3, <1>4

(* If all codewords have the longest length, they are as many as there can be. *)
LEMMA AllLongest ==
  ASSUME NEW max \in Nat, max > 0, NEW counts \in [0..max -> Nat], \A l \in 1..(max - 1) : counts[l] = 0
  PROVE  Many(counts, max) = Weighted(counts, max)
<1>1. PICK m \in Nat : m = counts[max]
  OBVIOUS
<1>2. Weights(counts, max) \in [1..max -> Int] /\ Downward(counts, max) \in [1..max -> Int]
      /\ (\A l \in 1..max : Weights(counts, max)[l] = counts[l] * 2^(max - l))
      /\ \A k \in 1..max : Downward(counts, max)[k] = counts[max + 1 - k]
  <2>1. Weights(counts, max) \in [1..max -> Nat] /\ Downward(counts, max) \in [1..max -> Nat]
    BY SumsExist
  <2>2. Weights(counts, max) \in [1..max -> Int] /\ Downward(counts, max) \in [1..max -> Int]
    BY <2>1
  <2> QED BY <2>2, SumsExist
<1>3. Weighted(counts, max) = m
  <2> DEFINE s == [k \in 0..max |-> IF k = max THEN m ELSE 0]
  <2>1. s[0] = 0 /\ s[max] = m
    OBVIOUS
  <2>2. ASSUME NEW k \in 1..max PROVE s[k] = s[k - 1] + Weights(counts, max)[k]
    <3>1. k \in 0..max /\ k - 1 \in 0..max /\ k - 1 # max
      OBVIOUS
    <3>2. s[k - 1] = 0
      BY <3>1
    <3>3. CASE k = max
      <4>1. max - k = 0 /\ counts[k] = m
        BY <1>1, <3>3
      <4>2. 2^(max - k) = 1
        BY <4>1, PowerZero
      <4>3. Weights(counts, max)[k] = m * 1
        BY <1>2, <4>1, <4>2
      <4>4. Weights(counts, max)[k] = m
        BY <4>3
      <4> QED BY <3>2, <3>3, <4>4
    <3>4. CASE k # max
      <4>1. PICK p \in Nat : p = 2^(max - k)
        <5>1. max - k \in Nat
          OBVIOUS
        <5> QED BY <5>1, PowerOfTwo
      <4>2. counts[k] = 0
        BY <3>4
      <4>3. Weights(counts, max)[k] = 0
        BY <1>2, <4>1, <4>2
      <4> QED BY <3>1, <3>2, <3>4, <4>3
    <3> QED BY <3>3, <3>4
  <2> HIDE DEF s
  <2>3. SumTo(max, Weights(counts, max)) = s[max]
    BY <1>2, <2>1, <2>2, SumIs
  <2> QED BY <2>1, <2>3 DEF Weighted
<1>4. Many(counts, max) = m
  <2> DEFINE s == [k \in 0..max |-> IF k = 0 THEN 0 ELSE m]
  <2>1. s[0] = 0 /\ s[max] = m
    OBVIOUS
  <2>2. ASSUME NEW k \in 1..max PROVE s[k] = s[k - 1] + Downward(counts, max)[k]
    <3>1. k \in 0..max /\ k - 1 \in 0..max
      OBVIOUS
    <3>2. s[k] = m
      BY <3>1
    <3>3. CASE k = 1
      <4>1. Downward(counts, max)[k] = m /\ s[k - 1] = 0
        BY <1>1, <1>2, <3>3
      <4> QED BY <3>2, <4>1
    <3>4. CASE k # 1
      <4>1. max + 1 - k \in 1..(max - 1) /\ k - 1 # 0
        BY <3>4
      <4>2. Downward(counts, max)[k] = 0
        BY <1>2, <4>1
      <4>3. s[k - 1] = m
        BY <3>1, <4>1
      <4> QED BY <3>2, <4>2, <4>3
    <3> QED BY <3>3, <3>4
  <2> HIDE DEF s
  <2>3. SumTo(max, Downward(counts, max)) = s[max]
    BY <1>2, <2>1, <2>2, SumIs
  <2> QED BY <2>1, <2>3 DEF Many
<1> QED BY <1>3, <1>4

(* A node that is too deep finds a codeword to take.                         *)
LEMMA LimitExists ==
  ASSUME NEW max \in Nat, max > 0, NEW counts \in [0..max -> Nat], Many(counts, max) # Weighted(counts, max)
  PROVE  \E k \in 1..(max - 1) : counts[k] # 0 /\ \A l \in (k + 1)..(max - 1) : counts[l] = 0
<1> SUFFICES ASSUME \A k \in 1..(max - 1) : ~(counts[k] # 0 /\ \A l \in (k + 1)..(max - 1) : counts[l] = 0)
             PROVE  FALSE
  OBVIOUS
<1> DEFINE S == {m \in 0..(max - 1) : \A l \in (max - m)..(max - 1) : counts[l] = 0}
<1>1. 0 \in S
  OBVIOUS
<1>2. ASSUME NEW m \in 0..(max - 1 - 1), m \in S PROVE m + 1 \in S
  <2>1. PICK k \in 1..(max - 1) : k = max - (m + 1) /\ k + 1 = max - m
    OBVIOUS
  <2>2. counts[k] = 0
    BY <1>2, <2>1
  <2>3. ASSUME NEW l \in k..(max - 1) PROVE counts[l] = 0
    <3>1. l = k \/ l \in (k + 1)..(max - 1)
      BY <2>1
    <3> QED BY <1>2, <2>1, <2>2, <3>1
  <2>4. m + 1 \in 0..(max - 1)
    OBVIOUS
  <2> QED BY <2>1, <2>3, <2>4
<1>3. \A m \in 0..(max - 1) : m \in S
  <2>1. max - 1 \in Nat
    OBVIOUS
  <2> HIDE DEF S
  <2> QED BY <1>1, <1>2, <2>1, UpTo
<1>4. \A l \in 1..(max - 1) : counts[l] = 0
  <2>1. max - 1 \in S
    <3>1. max - 1 \in 0..(max - 1)
      OBVIOUS
    <3> HIDE DEF S
    <3> QED BY <1>3, <3>1
  <2>2. max - (max - 1) = 1
    OBVIOUS
  <2> QED BY <2>1, <2>2
<1> QED BY <1>4, AllLongest

-----------------------------------------------------------------------------
(* The depths.  The nodes behind the m-th have theirs in the place of their  *)
(* parents, and none is closer to the root than one behind it.               *)
Depths(par, A, m, root) ==
  /\ \A j \in Nat : j <= m => A[j] = par[j]
  /\ A[root] = 0
  /\ \A j \in Nat : m < j /\ j < root => A[j] = A[par[j]] + 1
  /\ \A i, j \in Nat : m < i /\ i <= j /\ j <= root => A[j] <= A[i]

DepthGiven(A, m) == [A EXCEPT ![m] = A[A[m]] + 1]
Deeper(par, A, C, m, root) ==
  /\ C \in [0..(root + 1) -> Nat] /\ Depths(par, C, m - 1, root)
  /\ par[m] \in Nat /\ m < par[m] /\ par[m] <= root /\ A[A[m]] = A[par[m]] /\ C[m] = A[par[m]] + 1
  /\ \A j \in Nat : j # m /\ j <= root => C[j] = A[j]
  /\ C[m + 1] = A[m + 1] /\ C[m + 1] <= C[m]

LEMMA DepthSet ==
  ASSUME NEW root \in Nat, NEW par, Forest(par, root, root + 1),
         NEW A \in [0..(root + 1) -> Nat], NEW m \in Nat, m < root, Depths(par, A, m, root),
         NEW C, C = DepthGiven(A, m)
  PROVE  Deeper(par, A, C, m, root)
<1>1. \A j \in Nat : j < root => par[j] \in Nat /\ j < par[j] /\ par[j] <= root
  BY DEF Forest
<1>2. \A i, j \in Nat : i <= j /\ j < root => par[i] <= par[j]
  BY DEF Forest
<1>3. /\ \A j \in Nat : j <= m => A[j] = par[j]
      /\ A[root] = 0
      /\ \A j \in Nat : m < j /\ j < root => A[j] = A[par[j]] + 1
      /\ \A i, j \in Nat : m < i /\ i <= j /\ j <= root => A[j] <= A[i]
  BY DEF Depths
<1>4. PICK q \in Nat : q = par[m] /\ m < q /\ q <= root /\ A[m] = q /\ q \in 0..(root + 1) /\ m \in 0..(root + 1)
  BY <1>1, <1>3
<1>5. \A j \in Nat : j <= root => j \in 0..(root + 1) /\ A[j] \in Nat
  OBVIOUS
<1>0. PICK v \in Nat : v = A[q]
  BY <1>4
<1>6. PICK d \in Nat : d = A[q] + 1 /\ d = v + 1
  BY <1>0
<1>7. C \in [0..(root + 1) -> Nat] /\ C[m] = d /\ \A j \in Nat : j # m /\ j <= root => C[j] = A[j]
  <2>1. C = [A EXCEPT ![m] = d]
    BY <1>4, <1>6 DEF DepthGiven
  <2> QED BY <1>4, <1>5, <2>1
<1>8. \A j \in Nat : m < j /\ j <= root => C[j] = A[j] /\ C[j] <= d
  <2> SUFFICES ASSUME NEW j \in Nat, m < j, j <= root PROVE C[j] = A[j] /\ C[j] <= d
    OBVIOUS
  <2>1. C[j] = A[j] /\ A[j] \in Nat
    BY <1>5, <1>7
  <2>2. CASE j = root
    BY <1>3, <2>1, <2>2
  <2>3. CASE j < root
    <3>1. PICK p \in Nat : p = par[j] /\ j < p /\ p <= root /\ q <= p
      BY <1>1, <1>2, <1>4, <2>3
    <3>2. A[j] = A[p] + 1
      BY <1>3, <2>3, <3>1
    <3>3. PICK u \in Nat : u = A[p]
      BY <1>5, <3>1
    <3>4. u <= v
      BY <1>3, <1>4, <1>0, <3>1, <3>3
    <3>5. u + 1 <= d
      BY <1>6, <3>4
    <3> QED BY <2>1, <3>2, <3>3, <3>5
  <2> QED BY <2>2, <2>3
<1>9. \A j \in Nat : j <= m - 1 => C[j] = par[j]
  <2>1. \A j \in Nat : j <= m - 1 => j <= m /\ j # m /\ j <= root
    OBVIOUS
  <2> QED BY <1>3, <1>7, <2>1
<1>10. C[root] = 0
  BY <1>3, <1>7
<1>11. ASSUME NEW j \in Nat, m - 1 < j, j < root PROVE C[j] = C[par[j]] + 1
  <2>1. CASE j = m
    BY <1>4, <1>6, <1>7, <2>1
  <2>2. CASE j # m
    <3>1. PICK p \in Nat : p = par[j] /\ j < p /\ p <= root /\ p # m
      BY <1>1, <1>11, <2>2
    <3>2. C[j] = A[j] /\ C[p] = A[p]
      BY <1>7, <1>11, <2>2, <3>1
    <3> QED BY <1>3, <1>11, <2>2, <3>1, <3>2
  <2> QED BY <2>1, <2>2
<1>12. ASSUME NEW i \in Nat, NEW j \in Nat, m - 1 < i, i <= j, j <= root PROVE C[j] <= C[i]
  <2>1. CASE i = m
    <3>1. CASE j = m
      BY <1>7, <2>1, <3>1
    <3>2. CASE j # m
      <4>1. m < j
        BY <1>12, <2>1, <3>2
      <4> QED BY <1>7, <1>8, <1>12, <2>1, <4>1
    <3> QED BY <3>1, <3>2
  <2>2. CASE i # m
    <3>1. m < i /\ m < j /\ i <= root
      BY <1>12, <2>2
    <3>2. C[i] = A[i] /\ C[j] = A[j]
      BY <1>8, <1>12, <3>1
    <3> QED BY <1>3, <1>12, <3>1, <3>2
  <2> QED BY <2>1, <2>2
<1>13. C[m + 1] = A[m + 1] /\ C[m + 1] <= d
  <2>1. m + 1 \in Nat /\ m < m + 1 /\ m + 1 <= root
    OBVIOUS
  <2> QED BY <1>8, <2>1
<1>14. Depths(par, C, m - 1, root)
  BY <1>9, <1>10, <1>11, <1>12 DEF Depths
<1> QED BY <1>4, <1>6, <1>7, <1>13, <1>14 DEF Deeper

(* The nodes that are due: their parents have a depth, they have none.       *)
Due(par, A, m, d) == {j \in 0..m : par[j] > m /\ A[par[j]] = d - 1}
Children(par, m) == {j \in 0..(m - 1) : par[j] = m}

LEMMA DueFinite ==
  ASSUME NEW m \in Int, NEW par, NEW A, NEW d
  PROVE  IsFiniteSet(Due(par, A, m, d)) /\ Cardinality(Due(par, A, m, d)) \in Nat
<1>1. Due(par, A, m, d) \in SUBSET (0..m)
  BY DEF Due
<1>2. IsFiniteSet(0..m)
  BY FS_Interval
<1> QED BY <1>1, <1>2, FS_Subset, FS_CardinalityType

LEMMA TwoChildren ==
  ASSUME NEW root \in Nat, NEW par, Forest(par, root, root + 1), NEW m \in Nat, m <= root
  PROVE  IsFiniteSet(Children(par, m)) /\ Cardinality(Children(par, m)) \in Nat
         /\ Cardinality(Children(par, m)) <= 2
<1> DEFINE S == Children(par, m)
<1>1. \A j \in S : j \in Nat /\ j < root /\ par[j] = m
  BY DEF Children
<1>2. \A i, j \in S : ~(i + 2 <= j)
  <2> SUFFICES ASSUME NEW i \in S, NEW j \in S, i + 2 <= j PROVE FALSE
    OBVIOUS
  <2>1. i \in Nat /\ j \in Nat /\ j < root /\ par[i] = m /\ par[j] = m
    BY <1>1
  <2> HIDE DEF S
  <2>2. par[i] < par[j]
    BY <2>1 DEF Forest
  <2> QED BY <2>1, <2>2
<1> HIDE DEF S
<1>3. CASE S = {}
  BY <1>3, FS_EmptySet DEF S
<1>4. CASE S # {}
  <2>1. PICK i \in S : TRUE
    BY <1>4
  <2>2. S \subseteq {i - 1, i} \/ S \subseteq {i, i + 1}
    <3>1. \A j \in S : j \in {i - 1, i, i + 1}
      BY <1>1, <1>2, <2>1
    <3>2. ~(i - 1 \in S /\ i + 1 \in S)
      BY <1>1, <1>2, <2>1
    <3> QED BY <3>1, <3>2
  <2>3. ASSUME NEW x, NEW y, S \in SUBSET {x, y}
        PROVE  IsFiniteSet(S) /\ Cardinality(S) \in Nat /\ Cardinality(S) <= 2
    <3>1. IsFiniteSet({x}) /\ Cardinality({x}) = 1
      BY FS_Singleton
    <3>2. {x, y} = {x} \cup {y}
      OBVIOUS
    <3>3. IsFiniteSet({x, y}) /\ Cardinality({x, y}) = IF y \in {x} THEN 1 ELSE 1 + 1
      BY <3>1, <3>2, FS_AddElement
    <3>4. IsFiniteSet(S) /\ Cardinality(S) <= Cardinality({x, y})
      BY <2>3, <3>3, FS_Subset
    <3>5. Cardinality(S) \in Nat
      BY <3>4, FS_CardinalityType
    <3> QED BY <3>3, <3>4, <3>5
  <2>4. CASE S \subseteq {i - 1, i}
    BY <2>3, <2>4 DEF S
  <2>5. CASE S \subseteq {i, i + 1}
    BY <2>3, <2>5 DEF S
  <2> QED BY <2>2, <2>4, <2>5
<1> QED BY <1>3, <1>4

DueStays(par, C, m, d, x) ==
  /\ d = C[m] => x > 0 /\ x - 1 >= Cardinality(Due(par, C, m - 1, d))
  /\ d = C[m] + 1 => x + 2 >= Cardinality(Due(par, C, m - 1, d))
  /\ d # C[m] /\ d # C[m] + 1 => x >= Cardinality(Due(par, C, m - 1, d))

CarriesOn(S, T, K, m, z, d) ==
  (\A j \in T : j # m /\ (j \in S \/ (d = z + 1 /\ j \in K))) /\ (d = z => m \in S)
Matched(T, z, d, x) ==
  /\ d = z => x > 0 /\ x - 1 >= Cardinality(T)
  /\ d = z + 1 => x + 2 >= Cardinality(T)
  /\ d # z /\ d # z + 1 => x >= Cardinality(T)

LEMMA DueCounts ==
  ASSUME NEW S, IsFiniteSet(S), NEW T, IsFiniteSet(T), NEW K, IsFiniteSet(K), Cardinality(K) <= 2,
         NEW z \in Nat, NEW d \in Nat, NEW x \in Nat, x >= Cardinality(S), NEW m,
         CarriesOn(S, T, K, m, z, d)
  PROVE  Matched(T, z, d, x)
<1>0. (\A j \in T : j # m /\ (j \in S \/ (d = z + 1 /\ j \in K))) /\ (d = z => m \in S)
  BY DEF CarriesOn
<1>1. PICK s \in Nat, t \in Nat, k \in Nat : s = Cardinality(S) /\ t = Cardinality(T) /\ k = Cardinality(K)
  BY FS_CardinalityType
<1>2. CASE d = z
  <2>1. T \in SUBSET (S \ {m}) /\ m \in S
    BY <1>0, <1>2
  <2>2. IsFiniteSet(S \ {m}) /\ Cardinality(S \ {m}) = s - 1
    BY <1>1, <2>1, FS_RemoveElement
  <2>3. t <= s - 1
    BY <1>1, <2>1, <2>2, FS_Subset
  <2> QED BY <1>1, <1>2, <2>3 DEF Matched
<1>3. CASE d = z + 1
  <2>1. T \in SUBSET (S \cup K)
    BY <1>0
  <2>2. IsFiniteSet(S \cup K) /\ Cardinality(S \cup K) = Cardinality(S) + Cardinality(K) - Cardinality(S \cap K)
    BY FS_Union
  <2>3. PICK b \in Nat : b = Cardinality(S \cap K)
    BY FS_Intersection, FS_CardinalityType
  <2>4. Cardinality(T) <= Cardinality(S \cup K)
    BY <2>1, <2>2, FS_Subset
  <2>5. t <= s + k - b
    BY <1>1, <2>2, <2>3, <2>4
  <2> QED BY <1>1, <1>3, <2>5 DEF Matched
<1>4. CASE d # z /\ d # z + 1
  <2>1. T \in SUBSET S
    BY <1>0, <1>4
  <2>2. t <= s
    BY <1>1, <2>1, FS_Subset
  <2> QED BY <1>1, <1>4, <2>2 DEF Matched
<1> QED BY <1>2, <1>3, <1>4

LEMMA DueNext ==
  ASSUME NEW root \in Nat, NEW par, Forest(par, root, root + 1),
         NEW A \in [0..(root + 1) -> Nat], NEW m \in Nat, m < root, Depths(par, A, m, root),
         NEW C, C = DepthGiven(A, m), NEW d \in Nat, d > 0, NEW x \in Nat,
         x >= Cardinality(Due(par, A, m, d))
  PROVE  DueStays(par, C, m, d, x)
<1> DEFINE S == Due(par, A, m, d)
           T == Due(par, C, m - 1, d)
           K == Children(par, m)
<1>1. /\ C \in [0..(root + 1) -> Nat] /\ par[m] \in Nat /\ m < par[m] /\ par[m] <= root
      /\ C[m] = A[par[m]] + 1 /\ A[par[m]] \in Nat /\ C[m] \in Nat
      /\ \A j \in Nat : j # m /\ j <= root => C[j] = A[j]
  <2>1. /\ C \in [0..(root + 1) -> Nat] /\ par[m] \in Nat /\ m < par[m] /\ par[m] <= root
        /\ C[m] = A[par[m]] + 1 /\ \A j \in Nat : j # m /\ j <= root => C[j] = A[j]
    <3>1. Deeper(par, A, C, m, root)
      BY DepthSet
    <3> QED BY <3>1 DEF Deeper
  <2>2. PICK r \in Nat : r = par[m] /\ r <= root
    BY <2>1
  <2>3. r \in 0..(root + 1)
    BY <2>2
  <2>4. PICK y \in Nat : y = A[r]
    BY <2>3
  <2>5. A[par[m]] \in Nat /\ C[m] = y + 1
    BY <2>1, <2>2, <2>4
  <2>6. C[m] \in Nat
    BY <2>5
  <2> QED BY <2>1, <2>5, <2>6
<1>2. IsFiniteSet(S) /\ Cardinality(S) \in Nat /\ IsFiniteSet(T) /\ Cardinality(T) \in Nat
  BY DueFinite
<1>3. IsFiniteSet(K) /\ Cardinality(K) \in Nat /\ Cardinality(K) <= 2
  BY TwoChildren
<1>10. PICK r \in Nat, y \in Nat : r = par[m] /\ m < r /\ r <= root /\ y = A[r]
  BY <1>1
<1>9. C[m] = y + 1
  BY <1>1, <1>10
<1>4. ASSUME NEW j \in T PROVE j \in 0..m /\ j # m /\ (j \in S \/ (d = C[m] + 1 /\ j \in K))
  <2>1. j \in Nat /\ j <= m - 1 /\ par[j] > m - 1 /\ C[par[j]] = d - 1 /\ par[j] \in Nat /\ par[j] <= root
    BY DEF Due, Forest
  <2>2. CASE par[j] = m
    <3>1. C[m] = d - 1
      BY <2>1, <2>2
    <3>2. d = C[m] + 1
      BY <1>1, <3>1
    <3>3. j \in K
      BY <2>1, <2>2 DEF Children
    <3> QED BY <2>1, <3>2, <3>3
  <2>3. CASE par[j] # m
    <3>1. par[j] > m /\ A[par[j]] = d - 1
      <4>1. PICK p \in Nat : p = par[j] /\ p <= root /\ C[p] = d - 1 /\ p > m - 1
        BY <2>1
      <4>2. p > m
        BY <2>3, <4>1
      <4>3. p # m
        BY <4>2
      <4>4. C[p] = A[p]
        BY <1>1, <4>1, <4>3
      <4> QED BY <4>1, <4>2, <4>4
    <3>2. j \in S
      BY <2>1, <3>1 DEF Due
    <3> QED BY <2>1, <3>2
  <2> QED BY <2>2, <2>3
<1>5. d = C[m] => m \in S
  <2> SUFFICES ASSUME d = C[m] PROVE m \in S
    OBVIOUS
  <2>1. m \in 0..m
    OBVIOUS
  <2>4. d = y + 1
    BY <1>9
  <2>2. y = d - 1
    BY <2>4
  <2>3. A[par[m]] = d - 1 /\ par[m] > m
    BY <1>10, <2>2
  <2> QED BY <2>1, <2>3 DEF Due
<1> HIDE DEF S, T, K
<1>6. PICK z \in Nat : z = C[m]
  BY <1>1
<1>7. \A j \in T : j # m /\ (j \in S \/ (d = z + 1 /\ j \in K))
  BY <1>4, <1>6
<1>8. x >= Cardinality(S)
  BY DEF S
<1>11. CarriesOn(S, T, K, m, z, d)
  BY <1>5, <1>6, <1>7 DEF CarriesOn
<1>12. Matched(T, z, d, x)
  BY <1>2, <1>3, <1>8, <1>11, DueCounts
<1> QED BY <1>6, <1>12 DEF T, Matched, DueStays

(* There is a codeword for every node that is due, until the nodes are too   *)
(* deep to have one of their own.                                            *)
Room(par, A, m, counts, max) ==
  \/ A[m + 1] >= max
  \/ \A d \in 1..(max - 1) : counts[d] >= Cardinality(Due(par, A, m, d))

Counting(par, root, max, k) ==
  {t \in Countings(root + 2, max) :
     /\ t.node = root - 1 - k
     /\ Depths(par, t.A, t.node, root)
     /\ t.counts[0] = 0 /\ Weighted(t.counts, max) = 2^max /\ Many(t.counts, max) = k + 2
     /\ Room(par, t.A, t.node, t.counts, max)}

CountingOf(A, m, counts) == [A |-> A, node |-> m, counts |-> counts]

LEMMA IsCounting ==
  ASSUME NEW par, NEW root \in Nat, NEW max \in Nat, NEW k \in Nat,
         NEW A \in [0..(root + 1) -> Nat], NEW m \in Int, NEW counts \in [0..max -> Nat],
         m = root - 1 - k, Depths(par, A, m, root), counts[0] = 0, Weighted(counts, max) = 2^max,
         Many(counts, max) = k + 2, Room(par, A, m, counts, max)
  PROVE  CountingOf(A, m, counts) \in Counting(par, root, max, k)
<1> PICK t : t = CountingOf(A, m, counts)
  OBVIOUS
<1>1. root + 2 - 1 = root + 1
  OBVIOUS
<1>2. t \in Countings(root + 2, max)
  BY <1>1 DEF Countings, CountingOf
<1>3. t.A = A /\ t.node = m /\ t.counts = counts
  BY DEF CountingOf
<1> QED BY <1>2, <1>3 DEF Counting

LEMMA NodeCounted ==
  ASSUME NEW root \in Nat, NEW max \in Nat, max > 0, root + 2 <= 2^max,
         NEW par, Forest(par, root, root + 1), NEW k \in Nat, k < root,
         NEW t \in Counting(par, root, max, k)
  PROVE  CountNode(t, max) \in Counting(par, root, max, k + 1)
<1>1. PICK A \in [0..(root + 1) -> Nat], m \in Int, counts \in [0..max -> Nat] :
        t.A = A /\ t.node = m /\ t.counts = counts /\ m = root - 1 - k
  <2>1. root + 2 - 1 = root + 1
    OBVIOUS
  <2>2. t \in Countings(root + 2, max) /\ t.node = root - 1 - k
    BY DEF Counting
  <2>3. t.A \in [0..(root + 1) -> Nat] /\ t.node \in Int /\ t.counts \in [0..max -> Nat]
    BY <2>1, <2>2 DEF Countings
  <2> QED BY <2>2, <2>3
<1>2. /\ Depths(par, A, m, root) /\ counts[0] = 0 /\ Weighted(counts, max) = 2^max
      /\ Many(counts, max) = k + 2 /\ Room(par, A, m, counts, max)
  BY <1>1 DEF Counting
<1>3. m \in Nat /\ m < root
  BY <1>1
<1>4. PICK C : C = DepthGiven(A, m)
  OBVIOUS
<1>5. /\ C \in [0..(root + 1) -> Nat] /\ Depths(par, C, m - 1, root)
      /\ par[m] \in Nat /\ m < par[m] /\ par[m] <= root /\ A[A[m]] = A[par[m]]
      /\ C[m] = A[par[m]] + 1 /\ C[m + 1] = A[m + 1] /\ C[m + 1] <= C[m]
  <2>1. Deeper(par, A, C, m, root)
    BY <1>2, <1>3, <1>4, DepthSet
  <2> QED BY <2>1 DEF Deeper
<1>6. PICK depth \in Nat : depth = C[m] /\ depth = A[A[m]] + 1 /\ depth > 0 /\ A[m + 1] <= depth /\ depth = A[par[m]] + 1
  <2>1. PICK p \in 0..(root + 1) : p = par[m]
    <3>1. PICK p \in Nat : p = par[m] /\ p <= root
      BY <1>5
    <3>2. p \in 0..(root + 1)
      BY <3>1
    <3> QED BY <3>1, <3>2
  <2>5. PICK v \in Nat : v = A[p]
    BY <2>1
  <2>6. PICK depth \in Nat : depth = v + 1 /\ depth > 0
    OBVIOUS
  <2>2. depth = A[p] + 1 /\ depth > 0
    BY <2>5, <2>6
  <2>3. depth = C[m] /\ depth = A[A[m]] + 1 /\ depth = A[par[m]] + 1
    BY <1>5, <2>1, <2>2
  <2>4. A[m + 1] <= depth
    BY <1>5, <2>3
  <2> QED BY <2>2, <2>3, <2>4
<1>7. PICK d : d = LimitedDepth(depth, counts, max)
  OBVIOUS
<1> DEFINE c == [counts EXCEPT ![d] = @ - 1, ![d + 1] = @ + 2]
<1>8. CountNode(t, max) = [A |-> C, node |-> m - 1, counts |-> c]
  <2>1. C = [A EXCEPT ![m] = depth]
    BY <1>4, <1>6 DEF DepthGiven
  <2> QED BY <1>1, <1>6, <1>7, <2>1 DEF CountNode
<1> HIDE DEF c
<1>9. d \in 1..(max - 1) /\ counts[d] > 0 /\ (depth < max => d = depth /\ ~(A[m + 1] >= max))
  <2>1. CASE depth < max
    <3>1. d = depth /\ d \in 1..(max - 1)
      <4>1. d = depth
        BY <1>7, <2>1 DEF LimitedDepth
      <4>2. depth > 0
        BY <1>6
      <4>3. depth \in 1..(max - 1)
        BY <2>1, <4>2
      <4> QED BY <4>1, <4>3
    <3>2. A[m + 1] \in Nat
      <4>1. m + 1 \in 0..(root + 1)
        BY <1>3
      <4> QED BY <4>1
    <3>3. ~(A[m + 1] >= max)
      <4>1. PICK a \in Nat : a = A[m + 1] /\ a <= depth
        BY <1>6, <3>2
      <4>2. ~(a >= max)
        BY <2>1, <4>1
      <4> QED BY <4>1, <4>2
    <3>4. counts[d] >= Cardinality(Due(par, A, m, d))
      BY <1>2, <3>1, <3>3 DEF Room
    <3>5. counts[d] \in Nat
      <4>1. d \in 0..max
        BY <3>1
      <4> QED BY <4>1
    <3>6. d \in Nat /\ d > 0 /\ d = C[m]
      BY <1>6, <3>1
    <3>7. counts[d] > 0
      <4>1. PICK x \in Nat : x = counts[d] /\ x >= Cardinality(Due(par, A, m, d))
        BY <3>4, <3>5
      <4>2. DueStays(par, C, m, d, x)
        BY <1>2, <1>3, <1>4, <3>6, <4>1, DueNext
      <4> QED BY <3>6, <4>1, <4>2 DEF DueStays
    <3> QED BY <3>1, <3>3, <3>7
  <2>2. CASE ~(depth < max)
    <3>1. 2^max \in Nat
      BY PowerOfTwo
    <3>2. Many(counts, max) # Weighted(counts, max)
      BY <1>2, <3>1
    <3>3. \E l \in 1..(max - 1) : counts[l] # 0 /\ \A i \in (l + 1)..(max - 1) : counts[i] = 0
      BY <3>2, LimitExists
    <3>4. d = CHOOSE l \in 1..(max - 1) : counts[l] # 0 /\ \A i \in (l + 1)..(max - 1) : counts[i] = 0
      BY <1>7, <2>2 DEF LimitedDepth
    <3>5. d \in 1..(max - 1) /\ counts[d] # 0
      BY <3>3, <3>4
    <3>6. counts[d] \in Nat
      <4>1. d \in 0..max
        BY <3>5
      <4> QED BY <4>1
    <3> QED BY <2>2, <3>5, <3>6
  <2> QED BY <2>1, <2>2
<1>10. /\ c \in [0..max -> Nat] /\ c[0] = 0 /\ c[d] = counts[d] - 1 /\ c[d + 1] = counts[d + 1] + 2
       /\ \A l \in 0..max : l # d /\ l # d + 1 => c[l] = counts[l]
       /\ Weighted(c, max) = 2^max
       /\ Many(c, max) = k + 1 + 2
  <2>1. PICK e : e = c
    OBVIOUS
  <2>2. e = Split(counts, d)
    BY <2>1 DEF c, Split
  <2>3. SplitOne(counts, e, d, max)
    BY <1>9, <2>2, CodewordSplit
  <2>4. Many(counts, max) + 1 = k + 1 + 2
    BY <1>2
  <2> QED BY <1>2, <2>1, <2>3, <2>4 DEF SplitOne
<1>11. Room(par, C, m - 1, c, max)
  <2>1. CASE depth < max
    <3>1. d = depth /\ d = C[m] /\ \A l \in 1..(max - 1) : counts[l] >= Cardinality(Due(par, A, m, l))
      BY <1>2, <1>6, <1>9, <2>1 DEF Room
    <3>2. ASSUME NEW l \in 1..(max - 1) PROVE c[l] >= Cardinality(Due(par, C, m - 1, l))
      <4>1. l \in Nat /\ l > 0 /\ l \in 0..max
        OBVIOUS
      <4>2. PICK x \in Nat : x = counts[l] /\ x >= Cardinality(Due(par, A, m, l))
        BY <3>1, <4>1
      <4>3. /\ l = C[m] => x > 0 /\ x - 1 >= Cardinality(Due(par, C, m - 1, l))
            /\ l = C[m] + 1 => x + 2 >= Cardinality(Due(par, C, m - 1, l))
            /\ l # C[m] /\ l # C[m] + 1 => x >= Cardinality(Due(par, C, m - 1, l))
        <5>1. DueStays(par, C, m, l, x)
          BY <1>2, <1>3, <1>4, <4>1, <4>2, DueNext
        <5> QED BY <5>1 DEF DueStays
      <4>4. CASE l = d
        <5>1. c[l] = x - 1
          BY <1>10, <4>2, <4>4
        <5> QED BY <3>1, <4>3, <4>4, <5>1
      <4>5. CASE l = d + 1
        <5>1. c[l] = x + 2
          BY <1>10, <4>2, <4>5
        <5> QED BY <3>1, <4>3, <4>5, <5>1
      <4>6. CASE l # d /\ l # d + 1
        <5>1. c[l] = x
          BY <1>10, <4>1, <4>2, <4>6
        <5> QED BY <3>1, <4>3, <4>6, <5>1
      <4> QED BY <4>4, <4>5, <4>6
    <3> QED BY <3>2 DEF Room
  <2>2. CASE ~(depth < max)
    <3>1. C[m - 1 + 1] >= max
      <4>1. m - 1 + 1 = m
        BY <1>3
      <4>2. depth >= max
        BY <2>2
      <4>3. C[m - 1 + 1] = depth
        BY <1>6, <4>1
      <4> QED BY <4>2, <4>3
    <3> QED BY <3>1 DEF Room
  <2> QED BY <2>1, <2>2
<1>12. PICK kk \in Nat : kk = k + 1
  OBVIOUS
<1>13. PICK mm \in Int : mm = m - 1 /\ mm = root - 1 - kk
  BY <1>1, <1>12
<1> QED
  <2>1. CountNode(t, max) = CountingOf(C, mm, c)
    BY <1>8, <1>13 DEF CountingOf
  <2>2. Depths(par, C, mm, root) /\ Room(par, C, mm, c, max) /\ Many(c, max) = kk + 2
    BY <1>5, <1>10, <1>11, <1>12, <1>13
  <2>3. C \in [0..(root + 1) -> Nat] /\ c \in [0..max -> Nat] /\ c[0] = 0 /\ Weighted(c, max) = 2^max
    BY <1>5, <1>10
  <2>4. CountingOf(C, mm, c) \in Counting(par, root, max, kk)
    BY <1>13, <2>2, <2>3, IsCounting
  <2> QED BY <1>12, <2>1, <2>4

(* The first two codewords, of one bit.                                      *)
FirstTwo(max) == [l \in 0..max |-> IF l = 1 THEN 2 ELSE 0]

LEMMA FirstTwoSums ==
  ASSUME NEW max \in Nat, max > 0
  PROVE  /\ FirstTwo(max) \in [0..max -> Nat] /\ FirstTwo(max)[0] = 0
         /\ FirstTwo(max)[1] = 2 /\ (\A l \in 0..max : l # 1 => FirstTwo(max)[l] = 0)
         /\ Weighted(FirstTwo(max), max) = 2^max /\ Many(FirstTwo(max), max) = 2
<1> DEFINE c == FirstTwo(max)
<1>1. c \in [0..max -> Nat] /\ c[0] = 0 /\ c[1] = 2 /\ \A l \in 0..max : l # 1 => c[l] = 0
  BY DEF FirstTwo
<1> HIDE DEF c
<1>2. Weights(c, max) \in [1..max -> Int] /\ Downward(c, max) \in [1..max -> Int]
      /\ (\A l \in 1..max : Weights(c, max)[l] = c[l] * 2^(max - l))
      /\ \A k \in 1..max : Downward(c, max)[k] = c[max + 1 - k]
  <2>1. Weights(c, max) \in [1..max -> Nat] /\ Downward(c, max) \in [1..max -> Nat]
    BY <1>1, SumsExist
  <2>2. Weights(c, max) \in [1..max -> Int] /\ Downward(c, max) \in [1..max -> Int]
    BY <2>1
  <2> QED BY <1>1, <2>2, SumsExist
<1>3. Weighted(c, max) = 2^max
  <2>1. PICK q \in Nat : q = 2^max
    BY PowerOfTwo
  <2> DEFINE s == [k \in 0..max |-> IF k = 0 THEN 0 ELSE q]
  <2>2. s[0] = 0 /\ s[max] = q
    OBVIOUS
  <2>3. ASSUME NEW k \in 1..max PROVE s[k] = s[k - 1] + Weights(c, max)[k]
    <3>1. k \in 0..max /\ k - 1 \in 0..max
      OBVIOUS
    <3>2. s[k] = q
      BY <3>1
    <3>3. CASE k = 1
      <4>1. PICK p \in Nat : p = 2^(max - 1) /\ 2 * p = q
        <5>1. PICK e \in Nat : e = max - 1 /\ e + 1 = max
          OBVIOUS
        <5> QED BY <2>1, <5>1, PowerOfTwo
      <4>2. Weights(c, max)[k] = 2 * p
        BY <1>1, <1>2, <3>3, <4>1
      <4>3. s[k - 1] = 0
        BY <3>3
      <4> QED BY <2>1, <3>2, <4>1, <4>2, <4>3
    <3>4. CASE k # 1
      <4>1. PICK p \in Nat : p = 2^(max - k)
        <5>1. max - k \in Nat
          OBVIOUS
        <5> QED BY <5>1, PowerOfTwo
      <4>2. c[k] = 0
        BY <1>1, <3>1, <3>4
      <4>3. Weights(c, max)[k] = 0 * p
        BY <1>2, <4>1, <4>2
      <4>4. s[k - 1] = q /\ 0 * p = 0
        BY <3>1, <3>4
      <4> QED BY <2>1, <3>2, <4>3, <4>4
    <3> QED BY <3>3, <3>4
  <2> HIDE DEF s
  <2>4. SumTo(max, Weights(c, max)) = s[max]
    BY <1>2, <2>2, <2>3, SumIs
  <2> QED BY <2>1, <2>2, <2>4 DEF Weighted
<1>4. Many(c, max) = 2
  <2> DEFINE s == [k \in 0..max |-> IF k = max THEN 2 ELSE 0]
  <2>1. s[0] = 0 /\ s[max] = 2
    OBVIOUS
  <2>2. ASSUME NEW k \in 1..max PROVE s[k] = s[k - 1] + Downward(c, max)[k]
    <3>1. PICK l \in 0..max : l = max + 1 - k /\ (l = 1 <=> k = max)
      OBVIOUS
    <3>2. Downward(c, max)[k] = IF k = max THEN 2 ELSE 0
      BY <1>1, <1>2, <3>1
    <3>3. k \in 0..max /\ k - 1 \in 0..max /\ k - 1 # max
      OBVIOUS
    <3>4. s[k - 1] = 0 /\ s[k] = IF k = max THEN 2 ELSE 0
      BY <3>3
    <3> QED BY <3>2, <3>4
  <2> HIDE DEF s
  <2>3. SumTo(max, Downward(c, max)) = s[max]
    BY <1>2, <2>1, <2>2, SumIs
  <2> QED BY <2>1, <2>3 DEF Many
<1> QED BY <1>1, <1>3, <1>4 DEF c

FirstCounting(par, root, max) ==
  [A |-> [par EXCEPT ![root] = 0], node |-> root - 1, counts |-> FirstTwo(max)]

LEMMA CountingStarts ==
  ASSUME NEW root \in Nat, NEW par \in [0..(root + 1) -> Nat], Forest(par, root, root + 1),
         NEW max \in Nat, max > 0
  PROVE  FirstCounting(par, root, max) \in Counting(par, root, max, 0)
<1> PICK t : t = FirstCounting(par, root, max)
  OBVIOUS
<1> DEFINE A == [par EXCEPT ![root] = 0]
           m == root - 1
<1>1. A \in [0..(root + 1) -> Nat] /\ A[root] = 0 /\ \A j \in Nat : j < root => A[j] = par[j]
  OBVIOUS
<1> HIDE DEF A
<1>2. Depths(par, A, m, root)
  <2>1. \A j \in Nat : j <= m => A[j] = par[j]
    BY <1>1
  <2>2. \A j \in Nat : ~(m < j /\ j < root)
    OBVIOUS
  <2>3. ASSUME NEW i \in Nat, NEW j \in Nat, m < i, i <= j, j <= root PROVE A[j] <= A[i]
    <3>1. i = root /\ j = root
      BY <2>3
    <3> QED BY <1>1, <3>1
  <2> HIDE DEF m
  <2> QED BY <1>1, <2>1, <2>2, <2>3 DEF Depths
<1>3. Room(par, A, m, FirstTwo(max), max)
  <2>1. ASSUME NEW d \in 1..(max - 1) PROVE FirstTwo(max)[d] >= Cardinality(Due(par, A, m, d))
    <3>1. ASSUME NEW j \in Due(par, A, m, d) PROVE d = 1 /\ j \in Children(par, root)
      <4>1. j \in Nat /\ j < root /\ par[j] > m /\ A[par[j]] = d - 1
        BY DEF Due
      <4>2. par[j] = root
        <5>1. par[j] \in Nat /\ par[j] < root + 1
          BY <4>1 DEF Forest
        <5> QED BY <4>1, <5>1
      <4>3. d = 1
        BY <1>1, <4>1, <4>2
      <4>4. j \in 0..(root - 1)
        BY <4>1
      <4> QED BY <4>2, <4>3, <4>4 DEF Children
    <3>2. CASE d = 1
      <4>1. Due(par, A, m, d) \in SUBSET Children(par, root)
        BY <3>1
      <4>2. root <= root
        OBVIOUS
      <4>3. IsFiniteSet(Children(par, root)) /\ Cardinality(Children(par, root)) \in Nat
            /\ Cardinality(Children(par, root)) <= 2
        BY <4>2, TwoChildren
      <4>4. Cardinality(Due(par, A, m, d)) <= Cardinality(Children(par, root))
        BY <4>1, <4>3, FS_Subset
      <4>5. Cardinality(Due(par, A, m, d)) \in Nat
        BY DueFinite
      <4>6. FirstTwo(max)[d] = 2
        BY <3>2, FirstTwoSums
      <4> QED BY <4>3, <4>4, <4>5, <4>6
    <3>3. CASE d # 1
      <4>1. Due(par, A, m, d) = {}
        BY <3>1, <3>3
      <4>2. Cardinality(Due(par, A, m, d)) = 0
        BY <4>1, FS_EmptySet
      <4>3. d \in 0..max
        OBVIOUS
      <4>4. FirstTwo(max)[d] = 0
        BY <3>3, <4>3, FirstTwoSums
      <4> QED BY <4>2, <4>4
    <3> QED BY <3>2, <3>3
  <2> QED BY <2>1 DEF Room
<1>4. PICK counts \in [0..max -> Nat] :
        counts = FirstTwo(max) /\ counts[0] = 0 /\ Weighted(counts, max) = 2^max /\ Many(counts, max) = 0 + 2
  <2>1. FirstTwo(max) \in [0..max -> Nat] /\ FirstTwo(max)[0] = 0 /\ Weighted(FirstTwo(max), max) = 2^max
        /\ Many(FirstTwo(max), max) = 2
    BY FirstTwoSums
  <2>2. 0 + 2 = 2
    OBVIOUS
  <2> QED BY <2>1, <2>2
<1>5. PICK mm \in Int : mm = m /\ mm = root - 1 - 0
  OBVIOUS
<1>6. t = CountingOf(A, mm, counts)
  BY <1>4, <1>5 DEF A, FirstCounting, CountingOf
<1> HIDE DEF m
<1>7. Depths(par, A, mm, root) /\ Room(par, A, mm, counts, max) /\ 0 \in Nat
  BY <1>2, <1>3, <1>4, <1>5
<1>8. CountingOf(A, mm, counts) \in Counting(par, root, max, 0)
  BY <1>1, <1>4, <1>5, <1>7, IsCounting
<1> QED BY <1>6, <1>8

LEMMA CountsMade ==
  ASSUME NEW n \in Nat, n >= 2, NEW max \in Nat, max > 0, n <= 2^max, NEW A, Tree(A, n), NEW counts,
         counts = compute_length_counts(A, n, n - 2, max)
  PROVE  counts \in [0..max -> Nat] /\ counts[0] = 0 /\ Weighted(counts, max) = 2^max /\ Many(counts, max) = n
<1>1. PICK root \in Nat : root = n - 2 /\ root + 1 = n - 1 /\ root + 2 = n
  OBVIOUS
<1>2. A \in [0..(root + 1) -> Nat] /\ Forest(A, root, root + 1)
  BY <1>1 DEF Tree
<1> DEFINE V == Countings(n, max)
           step == [t \in V |-> CountNode(t, max)]
           a == [A |-> [A EXCEPT ![root] = 0], node |-> root - 1, counts |-> FirstTwo(max)]
           r == Repeat(root, a, V, step)
           Phase == [k \in 0..root |-> Counting(A, root, max, k)]
<1>3. counts = r.counts
  BY <1>1 DEF compute_length_counts, FirstTwo
<1>4. a \in Phase[0]
  <2> HIDE DEF a
  <2>1. a \in Counting(A, root, max, 0)
    BY <1>2, CountingStarts DEF a, FirstCounting
  <2> QED BY <2>1
<1>5. \A k \in 0..root : \A t \in Phase[k] : t \in V
  BY <1>1 DEF Counting
<1>6. ASSUME NEW k \in 1..root, NEW t \in Phase[k - 1] PROVE step[t] \in Phase[k]
  <2>1. PICK l \in Nat : l = k - 1 /\ l + 1 = k /\ l < root /\ l \in 0..root /\ k \in 0..root
    OBVIOUS
  <2>2. t \in Counting(A, root, max, l)
    BY <2>1
  <2>3. t \in V
    BY <1>5, <2>1
  <2>4. step[t] = CountNode(t, max)
    BY <2>3
  <2>5. root + 2 <= 2^max
    BY <1>1
  <2>6. CountNode(t, max) \in Counting(A, root, max, l + 1)
    BY <1>2, <2>1, <2>2, <2>5, NodeCounted
  <2> QED BY <2>1, <2>4, <2>6
<1> HIDE DEF V, step, a
<1>7. Phase[root] = Counting(A, root, max, root)
  OBVIOUS
<1> HIDE DEF Phase
<1>8. r \in Counting(A, root, max, root)
  BY <1>4, <1>5, <1>6, <1>7, RepeatStaysIn
<1> HIDE DEF r
<1>9. r \in Countings(root + 2, max) /\ r.counts[0] = 0 /\ Weighted(r.counts, max) = 2^max /\ Many(r.counts, max) = root + 2
  BY <1>8 DEF Counting
<1>10. r.counts \in [0..max -> Nat]
  BY <1>9 DEF Countings
<1> QED BY <1>1, <1>3, <1>9, <1>10

-----------------------------------------------------------------------------
(* The lengths.  Below places from the top each length has its share.        *)
Shares(T, counts, max, n) ==
  /\ T \in [1..(max + 1) -> Nat]
  /\ T = [l \in 1..(max + 1) |-> NoShorter(counts, max, l)]
  /\ T[max + 1] = 0 /\ T[1] = n /\ \A l \in 1..max : T[l] = T[l + 1] + counts[l]

LEMMA SharesExist ==
  ASSUME NEW max \in Nat, max > 0, NEW counts \in [0..max -> Nat], NEW n \in Nat, Many(counts, max) = n
  PROVE  \E T : Shares(T, counts, max, n)
<1> DEFINE f == Downward(counts, max)
<1>1. f \in [1..max -> Nat] /\ f \in [1..max -> Int] /\ \A k \in 1..max : f[k] = counts[max + 1 - k]
  <2>1. f \in [1..max -> Nat] /\ \A k \in 1..max : f[k] = counts[max + 1 - k]
    BY SumsExist
  <2> HIDE DEF f
  <2>2. f \in [1..max -> Int]
    BY <2>1
  <2> QED BY <2>1, <2>2
<1> HIDE DEF f
<1>2. PICK s \in [0..max -> Int] : s[0] = 0 /\ (\A k \in 1..max : s[k] = s[k - 1] + f[k]) /\ SumTo(max, f) = s[max]
  BY <1>1, SumLoop
<1>3. s[max] = n
  BY <1>2 DEF Many, f
<1>4. ASSUME NEW l \in 1..(max + 1) PROVE NoShorter(counts, max, l) = s[max + 1 - l]
  <2>1. PICK m \in 0..max : m = max + 1 - l
    OBVIOUS
  <2> DEFINE g == [k \in 1..m |-> counts[max + 1 - k]]
  <2>2. NoShorter(counts, max, l) = SumTo(m, g)
    BY <2>1 DEF NoShorter
  <2>3. ASSUME NEW k \in 1..m PROVE g[k] \in Int /\ s[k] = s[k - 1] + g[k]
    <3>1. k \in 1..max
      OBVIOUS
    <3>2. f[k] \in Nat /\ f[k] = counts[max + 1 - k] /\ s[k] = s[k - 1] + f[k]
      BY <1>1, <1>2, <3>1
    <3>3. g[k] = f[k]
      BY <3>2
    <3> HIDE DEF g
    <3> QED BY <3>2, <3>3
  <2>4. g = [k \in 1..m |-> g[k]]
    OBVIOUS
  <2> HIDE DEF g
  <2>5. g \in [1..m -> Int] /\ m \in Nat
    BY <2>3, <2>4
  <2>6. SumTo(m, g) = s[m]
    BY <1>2, <2>3, <2>5, SumIs
  <2> QED BY <2>1, <2>2, <2>6
<1> DEFINE T == [l \in 1..(max + 1) |-> NoShorter(counts, max, l)]
<1>5. \A l \in 1..(max + 1) : T[l] = s[max + 1 - l]
  BY <1>4
<1>6. T = [l \in 1..(max + 1) |-> T[l]]
  OBVIOUS
<1>7. \A k \in 0..max : s[k] \in Nat
  <2> DEFINE S == {k \in 0..max : s[k] \in Nat}
  <2>1. 0 \in S
    BY <1>2
  <2>2. ASSUME NEW k \in 0..(max - 1), k \in S PROVE k + 1 \in S
    <3>1. PICK j \in 1..max : j = k + 1 /\ j - 1 = k /\ j \in 0..max
      OBVIOUS
    <3>2. s[j] = s[k] + f[j] /\ f[j] \in Nat /\ s[k] \in Nat
      BY <1>1, <1>2, <2>2, <3>1
    <3> QED BY <3>1, <3>2
  <2>3. \A k \in 0..max : k \in S
    <3> HIDE DEF S
    <3> QED BY <2>1, <2>2, UpTo
  <2> QED BY <2>3
<1> HIDE DEF T
<1>8. T \in [1..(max + 1) -> Nat]
  <2>1. \A l \in 1..(max + 1) : max + 1 - l \in 0..max
    OBVIOUS
  <2>2. \A l \in 1..(max + 1) : T[l] \in Nat
    BY <1>5, <1>7, <2>1
  <2> QED BY <1>6, <2>2
<1>9. T[max + 1] = 0 /\ T[1] = n
  <2>1. max + 1 \in 1..(max + 1) /\ 1 \in 1..(max + 1) /\ max + 1 - (max + 1) = 0 /\ max + 1 - 1 = max
    OBVIOUS
  <2> QED BY <1>2, <1>3, <1>5, <2>1
<1>10. ASSUME NEW l \in 1..max PROVE T[l] = T[l + 1] + counts[l]
  <2>1. PICK k \in 1..max : k = max + 1 - l /\ k - 1 = max + 1 - (l + 1) /\ max + 1 - k = l
    OBVIOUS
  <2>2. l \in 1..(max + 1) /\ l + 1 \in 1..(max + 1)
    OBVIOUS
  <2>3. T[l] = s[k] /\ T[l + 1] = s[k - 1]
    BY <1>5, <2>1, <2>2
  <2>4. s[k] = s[k - 1] + f[k] /\ f[k] = counts[l]
    BY <1>1, <1>2, <2>1
  <2> QED BY <2>3, <2>4
<1>11. T = [l \in 1..(max + 1) |-> NoShorter(counts, max, l)]
  BY DEF T
<1> QED BY <1>8, <1>9, <1>10, <1>11 DEF Shares

LEMMA IntervalSize ==
  ASSUME NEW a \in Nat, NEW b \in Nat, NEW c \in Nat, b = a + c
  PROVE  IsFiniteSet((a + 1)..b) /\ Cardinality((a + 1)..b) = c
<1>1. IsFiniteSet((a + 1)..b) /\ Cardinality((a + 1)..b) = IF a + 1 > b THEN 0 ELSE b - (a + 1) + 1
  BY FS_Interval
<1> QED BY <1>1

LEMMA IntervalMembers ==
  ASSUME NEW a \in Nat, NEW b \in Nat, NEW n \in Nat, b <= n
  PROVE  \A i : i \in (a + 1)..b <=> i \in 1..n /\ a < i /\ i <= b
OBVIOUS

(* What the lengths of the symbols must be.                                  *)
AsOften(lengths, num, counts, l) == Cardinality({s \in 0..(num - 1) : lengths[s] = l}) = counts[l]
LensFit(lengths, syms, n, counts, max, num) ==
  /\ lengths \in [0..(num - 1) -> 0..max]
  /\ \A s \in 0..(num - 1) : lengths[s] # 0 <=> \E i \in 1..n : syms[i] = s
  /\ \A l \in 1..max : AsOften(lengths, num, counts, l)

LEMMA LensAssigned ==
  ASSUME NEW max \in Nat, max > 0, NEW counts \in [0..max -> Nat], NEW n \in Nat, Many(counts, max) = n,
         NEW num \in Nat, NEW syms \in [1..n -> 0..(num - 1)], \A i, j \in 1..n : syms[i] = syms[j] => i = j
  PROVE  LensFit(AssignedLens(syms, counts, max, num), syms, n, counts, max, num)
<1>1. PICK T \in [1..(max + 1) -> Nat] :
        /\ T = [l \in 1..(max + 1) |-> NoShorter(counts, max, l)]
        /\ T[max + 1] = 0 /\ T[1] = n /\ \A l \in 1..max : T[l] = T[l + 1] + counts[l]
  <2>1. PICK T : Shares(T, counts, max, n)
    BY SharesExist
  <2> QED BY <2>1 DEF Shares
<1>2. \A l \in 1..(max + 1) : T[l] \in Nat
  BY <1>1
<1>3. \A l \in 1..max : counts[l] \in Nat /\ l + 1 \in 1..(max + 1) /\ l \in 1..(max + 1)
  OBVIOUS
<1> DEFINE Share(i, l) == T[l + 1] < i /\ i <= T[l]
           LenOf(s) == LET i == CHOOSE j \in DOMAIN syms : syms[j] = s
                       IN  CHOOSE l \in 1..max : T[l + 1] < i /\ i <= T[l]
           lengths == [s \in 0..(num - 1) |-> IF \E i \in DOMAIN syms : syms[i] = s THEN LenOf(s) ELSE 0]
<1>4. AssignedLens(syms, counts, max, num) = lengths
  <2> DEFINE Lens(a) == [s \in 0..(num - 1) |->
                           IF \E i \in DOMAIN syms : syms[i] = s
                           THEN LET i == CHOOSE j \in DOMAIN syms : syms[j] = s
                                IN  CHOOSE l \in 1..max : a[l + 1] < i /\ i <= a[l]
                           ELSE 0]
             t == [l \in 1..(max + 1) |-> NoShorter(counts, max, l)]
  <2>1. AssignedLens(syms, counts, max, num) = CHOOSE y \in {Lens(a) : a \in {t}} : TRUE
    BY DEF AssignedLens, With
  <2>2. Lens(T) = lengths
    OBVIOUS
  <2>3. t = T
    BY <1>1
  <2> HIDE DEF Lens, lengths, t
  <2>4. {Lens(a) : a \in {t}} = {lengths}
    BY <2>2, <2>3
  <2> QED BY <2>1, <2>4
<1>5. \A k, l \in 1..(max + 1) : k <= l => T[l] <= T[k]
  <2> DEFINE f == [k \in 0..max |-> T[max + 1 - k]]
  <2>1. \A k \in 0..max : max + 1 - k \in 1..(max + 1) /\ f[k] = T[max + 1 - k]
    OBVIOUS
  <2>2. f = [k \in 0..max |-> f[k]]
    OBVIOUS
  <2> HIDE DEF f
  <2>3. f \in [0..max -> Int]
    <3>1. \A k \in 0..max : f[k] \in Int
      BY <1>2, <2>1
    <3> QED BY <2>2, <3>1
  <2>4. ASSUME NEW k \in 1..max PROVE f[k - 1] <= f[k]
    <3>1. PICK l \in 1..max : l = max + 1 - k /\ l + 1 = max + 1 - (k - 1) /\ k - 1 \in 0..max /\ k \in 0..max
      OBVIOUS
    <3>2. f[k] = T[l] /\ f[k - 1] = T[l + 1]
      BY <2>1, <3>1
    <3>3. T[l] = T[l + 1] + counts[l] /\ counts[l] \in Nat /\ T[l + 1] \in Nat
      BY <1>1, <1>2, <1>3
    <3>4. PICK v \in Nat, w \in Nat : v = counts[l] /\ w = T[l + 1] /\ T[l] = w + v
      BY <3>3
    <3>5. w <= w + v
      OBVIOUS
    <3> QED BY <3>2, <3>4, <3>5
  <2>5. \A i, j \in 0..max : i <= j => f[i] <= f[j]
    BY <2>3, <2>4, Increasing
  <2> SUFFICES ASSUME NEW k \in 1..(max + 1), NEW l \in 1..(max + 1), k <= l PROVE T[l] <= T[k]
    OBVIOUS
  <2>6. PICK i, j \in 0..max : i = max + 1 - l /\ j = max + 1 - k /\ i <= j /\ max + 1 - i = l /\ max + 1 - j = k
    OBVIOUS
  <2>7. f[i] = T[l] /\ f[j] = T[k]
    BY <2>1, <2>6
  <2> QED BY <2>5, <2>6, <2>7
<1>6. ASSUME NEW i \in 1..n PROVE \E l \in 1..max : Share(i, l)
  <2> SUFFICES ASSUME \A l \in 1..max : ~Share(i, l) PROVE FALSE
    OBVIOUS
  <2> DEFINE S == {k \in 0..max : T[max + 1 - k] < i}
  <2>1. 0 \in S
    BY <1>1
  <2>2. ASSUME NEW k \in 0..(max - 1), k \in S PROVE k + 1 \in S
    <3>1. PICK l \in 1..max : l = max + 1 - (k + 1) /\ l + 1 = max + 1 - k
      OBVIOUS
    <3>2. T[l] \in Nat /\ T[l + 1] < i
      BY <1>2, <1>3, <2>2, <3>1
    <3>3. ~(i <= T[l])
      BY <3>2
    <3> QED BY <3>1, <3>2, <3>3
  <2>3. \A k \in 0..max : k \in S
    <3> HIDE DEF S
    <3> QED BY <2>1, <2>2, UpTo
  <2>4. max \in 0..max /\ max + 1 - max = 1
    OBVIOUS
  <2>5. T[1] < i
    BY <2>3, <2>4
  <2> QED BY <1>1, <2>5
<1>7. ASSUME NEW i \in 1..n, NEW k \in 1..max, NEW l \in 1..max, Share(i, k), Share(i, l) PROVE k = l
  <2>1. ASSUME NEW a \in 1..max, NEW b \in 1..max, Share(i, a), Share(i, b) PROVE ~(a < b)
    <3> SUFFICES ASSUME a < b PROVE FALSE
      OBVIOUS
    <3>1. a + 1 \in 1..(max + 1) /\ b \in 1..(max + 1) /\ a + 1 <= b
      OBVIOUS
    <3>2. PICK v \in Nat, w \in Nat : v = T[b] /\ w = T[a + 1] /\ v <= w
      BY <1>2, <1>5, <3>1
    <3>3. w < i /\ i <= v
      BY <2>1, <3>2
    <3> QED BY <3>2, <3>3
  <2> HIDE DEF Share
  <2>2. ~(k < l) /\ ~(l < k)
    BY <1>7, <2>1
  <2> QED BY <2>2
<1>8. ASSUME NEW i \in 1..n
      PROVE  lengths[syms[i]] \in 1..max /\ lengths[syms[i]] # 0 /\ Share(i, lengths[syms[i]])
  <2>1. PICK s \in 0..(num - 1) : s = syms[i]
    OBVIOUS
  <2>2. (CHOOSE j \in DOMAIN syms : syms[j] = s) = i
    BY <2>1
  <2>3. lengths[s] = CHOOSE l \in 1..max : T[l + 1] < i /\ i <= T[l]
    <3>1. lengths[s] = LenOf(s)
      <4>1. \E j \in DOMAIN syms : syms[j] = s
        BY <2>1
      <4> HIDE DEF LenOf
      <4> QED BY <4>1
    <3> QED BY <2>2, <3>1
  <2>4. \E l \in 1..max : T[l + 1] < i /\ i <= T[l]
    BY <1>6
  <2> HIDE DEF lengths
  <2>5. lengths[s] \in 1..max /\ T[lengths[s] + 1] < i /\ i <= T[lengths[s]]
    BY <2>3, <2>4
  <2> QED BY <2>1, <2>5
<1>9. \A s \in 0..(num - 1) : (~\E i \in 1..n : syms[i] = s) => lengths[s] = 0
  OBVIOUS
<1>10. lengths = [s \in 0..(num - 1) |-> lengths[s]]
  OBVIOUS
<1> HIDE DEF lengths, Share
<1>11. \A s \in 0..(num - 1) : lengths[s] \in 0..max /\ (lengths[s] # 0 <=> \E i \in 1..n : syms[i] = s)
  <2> SUFFICES ASSUME NEW s \in 0..(num - 1)
               PROVE  lengths[s] \in 0..max /\ (lengths[s] # 0 <=> \E i \in 1..n : syms[i] = s)
    OBVIOUS
  <2>1. CASE \E i \in 1..n : syms[i] = s
    <3>1. PICK i \in 1..n : syms[i] = s
      BY <2>1
    <3>2. lengths[s] \in 1..max /\ lengths[s] # 0
      BY <1>8, <3>1
    <3>3. PICK v : v = lengths[s]
      OBVIOUS
    <3>4. v \in 0..max /\ v # 0
      BY <3>2, <3>3
    <3> QED BY <2>1, <3>3, <3>4
  <2>2. CASE ~\E i \in 1..n : syms[i] = s
    BY <1>9, <2>2
  <2> QED BY <2>1, <2>2
<1>12. ASSUME NEW l \in 1..max PROVE AsOften(lengths, num, counts, l)
  <2> DEFINE X == (T[l + 1] + 1)..T[l]
             Y == {s \in 0..(num - 1) : lengths[s] = l}
             g == [i \in X |-> syms[i]]
  <2>1. T[l] = T[l + 1] + counts[l] /\ counts[l] \in Nat /\ T[l + 1] \in Nat /\ T[l] \in Nat /\ T[l] <= n
    <3>1. T[l] <= T[1]
      BY <1>3, <1>5
    <3> QED BY <1>1, <1>2, <1>3, <3>1
  <2>2. \A i : i \in X <=> i \in 1..n /\ Share(i, l)
    <3>1. PICK a \in Nat, b \in Nat : a = T[l + 1] /\ b = T[l] /\ b <= n
      BY <2>1
    <3>2. \A i : i \in (a + 1)..b <=> i \in 1..n /\ a < i /\ i <= b
      BY <3>1, IntervalMembers
    <3> QED BY <3>1, <3>2 DEF Share
  <2>3. IsFiniteSet(X) /\ Cardinality(X) = counts[l]
    <3>1. PICK a \in Nat, b \in Nat, c \in Nat : a = T[l + 1] /\ b = T[l] /\ c = counts[l] /\ b = a + c
      BY <2>1
    <3> QED BY <3>1, IntervalSize
  <2>4. \A i \in X : g[i] = syms[i]
    OBVIOUS
  <2>5. g = [i \in X |-> g[i]]
    OBVIOUS
  <2> HIDE DEF X, g
  <2>6. ASSUME NEW i \in X PROVE g[i] \in Y
    <3>1. i \in 1..n /\ Share(i, l)
      BY <2>2
    <3>2. lengths[syms[i]] = l
      BY <1>7, <1>8, <3>1
    <3>3. syms[i] \in 0..(num - 1)
      BY <3>1
    <3> QED BY <2>4, <3>2, <3>3
  <2>7. g \in [X -> Y]
    <3> HIDE DEF Y
    <3> QED BY <2>5, <2>6
  <2>8. ASSUME NEW i \in X, NEW j \in X, g[i] = g[j] PROVE i = j
    BY <2>2, <2>4, <2>8
  <2>9. ASSUME NEW s \in Y PROVE \E i \in X : g[i] = s
    <3>1. s \in 0..(num - 1) /\ lengths[s] = l /\ lengths[s] # 0
      OBVIOUS
    <3>2. PICK i \in 1..n : syms[i] = s
      BY <1>11, <3>1
    <3>3. Share(i, l)
      BY <1>8, <3>1, <3>2
    <3>4. i \in X
      BY <2>2, <3>3
    <3> QED BY <2>4, <3>2, <3>4
  <2> HIDE DEF Y
  <2>10. g \in Bijection(X, Y)
    BY <2>7, <2>8, <2>9, Fun_IsBij
  <2>11. ExistsBijection(X, Y)
    BY <2>10 DEF ExistsBijection
  <2>12. Cardinality(Y) = Cardinality(X)
    BY <2>3, <2>11, FS_Bijection
  <2> QED BY <2>3, <2>12 DEF Y, AsOften
<1>13. lengths \in [0..(num - 1) -> 0..max]
  BY <1>10, <1>11
<1> QED BY <1>4, <1>11, <1>12, <1>13 DEF LensFit

LEMMA KraftIs ==
  ASSUME NEW max \in Nat, NEW counts, NEW num \in Nat, NEW ls, DOMAIN ls = 0..(num - 1),
         \A l \in 1..max : Cardinality({s \in 0..(num - 1) : ls[s] = l}) = counts[l]
  PROVE  Kraft(ls, max) = Weighted(counts, max)
<1> DEFINE f == [l \in 1..max |-> Cardinality({s \in DOMAIN ls : ls[s] = l}) * 2^(max - l)]
<1>1. f = Weights(counts, max)
  <2>1. \A l \in 1..max : f[l] = counts[l] * 2^(max - l)
    OBVIOUS
  <2>2. f = [l \in 1..max |-> f[l]]
    OBVIOUS
  <2> HIDE DEF f
  <2> QED BY <2>1, <2>2 DEF Weights
<1> HIDE DEF f
<1> QED BY <1>1 DEF Kraft, Weighted, f

(* A code for fewer than two symbols has two codewords of one bit.           *)
CompleteCode(ls, f, num, max) ==
  LET L == {s \in DOMAIN f : ls[s] # 0}
  IN  /\ Kraft(ls, max) = 2^max
      /\ \A s \in L : ls[s] <= max
      /\ UsedOf(f) \subseteq L
      /\ Cardinality(UsedOf(f)) >= 2 => L = UsedOf(f)
      /\ Cardinality(UsedOf(f)) < 2 => Cardinality(L) = 2

LEMMA PairSize ==
  ASSUME NEW a, NEW b, a # b
  PROVE  IsFiniteSet({b, a}) /\ Cardinality({b, a}) = 2
<1>1. {b, a} = {b} \cup {a} /\ a \notin {b}
  OBVIOUS
<1>2. IsFiniteSet({b}) /\ Cardinality({b}) = 1
  BY FS_Singleton
<1>3. IsFiniteSet({b} \cup {a}) /\ Cardinality({b} \cup {a}) = 1 + 1
  BY <1>1, <1>2, FS_AddElement
<1> QED BY <1>1, <1>3

LEMMA TwoComplete ==
  ASSUME NEW max \in Nat, max > 0, NEW num \in Nat, num >= 2, NEW f \in [0..(num - 1) -> Nat],
         NEW n \in Nat, n = Cardinality(UsedOf(f)), n < 2, NEW used \in [1..n -> UsedOf(f)],
         \A x \in UsedOf(f) : \E i \in 1..n : used[i] = x
  PROVE  CompleteCode(TwoCodewords(num, used).lens, f, num, max)
<1> DEFINE sym == IF used = <<>> \/ used[1] = 0 THEN 1 ELSE used[1]
           ls == [s \in 0..(num - 1) |-> IF s \in {0, sym} THEN 1 ELSE 0]
           L == {s \in DOMAIN f : ls[s] # 0}
<1>1. TwoCodewords(num, used).lens = ls
  BY DEF TwoCodewords
<1>2. UsedOf(f) \subseteq 0..(num - 1) /\ DOMAIN f = 0..(num - 1)
  BY DEF UsedOf
<1>3. sym \in 1..(num - 1) /\ UsedOf(f) \subseteq {0, sym}
  <2>1. CASE n = 0
    <3>1. used = <<>>
      <4>1. used \in Seq(UsedOf(f)) /\ Len(used) = 0
        BY <2>1
      <4> QED BY <4>1, EmptySeq
    <3>2. UsedOf(f) = {}
      BY <2>1
    <3> QED BY <3>1, <3>2
  <2>2. CASE n = 1
    <3>1. used[1] \in 0..(num - 1) /\ UsedOf(f) = {used[1]}
      <4>1. 1 \in 1..n /\ \A i \in 1..n : i = 1
        BY <2>2
      <4>2. used[1] \in UsedOf(f)
        BY <4>1
      <4> QED BY <1>2, <4>1, <4>2
    <3>2. used # <<>>
      <4>1. Len(used) = 1
        BY <2>2
      <4>2. Len(<<>>) = 0
        OBVIOUS
      <4> QED BY <4>1, <4>2
    <3>3. PICK u \in 0..(num - 1) : u = used[1]
      BY <3>1
    <3>4. sym = IF u = 0 THEN 1 ELSE u
      BY <3>2, <3>3
    <3> HIDE DEF sym
    <3> QED BY <3>1, <3>3, <3>4
  <2> QED BY <2>1, <2>2
<1> HIDE DEF sym
<1>4. PICK t \in 1..(num - 1) : t = sym /\ t \in 0..(num - 1) /\ 0 \in 0..(num - 1) /\ t # 0
  BY <1>3
<1>5. \A s \in 0..(num - 1) : ls[s] = IF s \in {0, t} THEN 1 ELSE 0
  BY <1>4
<1>6. DOMAIN ls = 0..(num - 1)
  OBVIOUS
<1>7. {s \in 0..(num - 1) : ls[s] = 1} = {0, t} /\ L = {0, t}
  BY <1>2, <1>4, <1>5
<1>8. IsFiniteSet({0, t}) /\ Cardinality({0, t}) = 2
  <2>1. t # 0
    BY <1>4
  <2> QED BY <2>1, PairSize
<1> HIDE DEF ls
<1>9. Kraft(ls, max) = 2^max
  <2>1. ASSUME NEW l \in 1..max PROVE Cardinality({s \in 0..(num - 1) : ls[s] = l}) = FirstTwo(max)[l]
    <3>1. CASE l = 1
      <4>1. FirstTwo(max)[l] = 2
        BY <3>1, FirstTwoSums
      <4> QED BY <1>7, <1>8, <3>1, <4>1
    <3>2. CASE l # 1
      <4>1. {s \in 0..(num - 1) : ls[s] = l} = {}
        BY <1>5, <3>2
      <4>2. l \in 0..max
        OBVIOUS
      <4>3. FirstTwo(max)[l] = 0
        BY <3>2, <4>2, FirstTwoSums
      <4> QED BY <4>1, <4>3, FS_EmptySet
    <3> QED BY <3>1, <3>2
  <2>2. Kraft(ls, max) = Weighted(FirstTwo(max), max)
    BY <1>6, <2>1, KraftIs
  <2> QED BY <2>2, FirstTwoSums
<1>10. \A s \in L : ls[s] <= max
  <2>1. \A s \in L : ls[s] = 1
    BY <1>2, <1>5, <1>7
  <2> QED BY <2>1
<1>11. UsedOf(f) \subseteq L /\ ~(Cardinality(UsedOf(f)) >= 2) /\ Cardinality(L) = 2
  <2>1. UsedOf(f) \subseteq L
    <3> HIDE DEF L
    <3> QED BY <1>3, <1>4, <1>7
  <2>2. Cardinality(L) = 2
    <3> HIDE DEF L
    <3> QED BY <1>7, <1>8
  <2> HIDE DEF L
  <2> QED BY <2>1, <2>2
<1> QED BY <1>1, <1>9, <1>10, <1>11 DEF CompleteCode

(* Whatever the frequencies are.                                             *)
LEMMA MadeComplete ==
  ASSUME NEW max \in Nat, NEW num \in Nat, num >= 3, num <= 2^max, NEW f \in [0..(num - 1) -> Nat]
  PROVE  CompleteCode(make_huffman_code(num, max, f).lens, f, num, max)
<1>0. max > 0
  <2> SUFFICES ASSUME max = 0 PROVE FALSE
    OBVIOUS
  <2>1. num <= 2^0
    OBVIOUS
  <2> QED BY <2>1, PowerZero
<1> DEFINE sorted == sort_symbols(num, f)
           n == Len(sorted)
           syms == [i \in 1..n |-> sorted[i][2]]
           A == [i \in 0..(n - 1) |-> sorted[i + 1][1]]
           counts == compute_length_counts(build_tree(A, n), n, n - 2, max)
           ls == AssignedLens(syms, counts, max, num)
           made == make_huffman_code(num, max, f)
           U == UsedOf(f)
<1>1. IF n < 2 THEN made = TwoCodewords(num, syms) ELSE made.lens = ls
  <2> DEFINE Coded(t, c) == [lens |-> t, codewords |-> gen_codewords(t, c)]
             Lens(c, ss) == CHOOSE y \in {Coded(t, c) : t \in {AssignedLens(ss, c, max, num)}} : TRUE
             Whole(m, ss, B) == CHOOSE y \in {Lens(c, ss) : c \in {compute_length_counts(build_tree(B, m), m, m - 2, max)}} : TRUE
             Code(x) == LET m == Len(x)
                            ss == [i \in 1..m |-> x[i][2]]
                        IN  IF m < 2 THEN TwoCodewords(num, ss)
                            ELSE Whole(m, ss, [i \in 0..(m - 1) |-> x[i + 1][1]])
  <2>1. made = CHOOSE y \in {Code(x) : x \in {sorted}} : TRUE
    BY DEF make_huffman_code, With
  <2>2. Code(sorted) = IF n < 2 THEN TwoCodewords(num, syms) ELSE Whole(n, syms, A)
    OBVIOUS
  <2>3. Whole(n, syms, A) = Lens(counts, syms)
    <3>1. Whole(n, syms, A) = CHOOSE y \in {Lens(c, syms) : c \in {counts}} : TRUE
      OBVIOUS
    <3> HIDE DEF Lens, Whole, counts, syms
    <3>2. {Lens(c, syms) : c \in {counts}} = {Lens(counts, syms)}
      OBVIOUS
    <3> QED BY <3>1, <3>2
  <2>4. Lens(counts, syms) = Coded(ls, counts)
    <3>1. Lens(counts, syms) = CHOOSE y \in {Coded(t, counts) : t \in {ls}} : TRUE
      OBVIOUS
    <3> HIDE DEF Lens, Coded, counts, syms, ls
    <3>2. {Coded(t, counts) : t \in {ls}} = {Coded(ls, counts)}
      OBVIOUS
    <3> QED BY <3>1, <3>2
  <2>5. Coded(ls, counts).lens = ls
    <3> HIDE DEF ls, counts
    <3> QED OBVIOUS
  <2>6. made = Code(sorted)
    <3> HIDE DEF Code, sorted, made
    <3>1. {Code(x) : x \in {sorted}} = {Code(sorted)}
      OBVIOUS
    <3> QED BY <2>1, <3>1
  <2> HIDE DEF Code, Whole, Lens, Coded, made, sorted, syms, A, counts, ls, n
  <2> QED BY <2>2, <2>3, <2>4, <2>5, <2>6
<1>2. n \in Nat /\ n = Cardinality(U) /\ IsFiniteSet(U)
      /\ Lists(sorted, n, Pairs(f))
  <2>1. num > 0
    OBVIOUS
  <2> HIDE DEF sorted
  <2> QED BY <2>1, SortLists DEF sorted
<1> HIDE DEF made, sorted, n
<1>3. /\ \A i \in 1..n : sorted[i][2] \in U /\ sorted[i] = <<f[sorted[i][2]], sorted[i][2]>>
      /\ \A i, j \in 1..n : sorted[i] = sorted[j] => i = j
      /\ \A x \in U : \E i \in 1..n : sorted[i][2] = x
  <2>1. /\ sorted \in [1..n -> Pairs(f)]
        /\ \A i, j \in 1..n : sorted[i] = sorted[j] => i = j
        /\ \A x \in Pairs(f) : \E i \in 1..n : sorted[i] = x
    BY <1>2 DEF Lists
  <2>2. ASSUME NEW i \in 1..n PROVE sorted[i][2] \in U /\ sorted[i] = <<f[sorted[i][2]], sorted[i][2]>>
    <3>1. sorted[i] \in Pairs(f)
      BY <2>1
    <3>2. PICK s \in U : sorted[i] = <<f[s], s>>
      BY <3>1 DEF Pairs
    <3> QED BY <3>2
  <2>3. ASSUME NEW x \in U PROVE \E i \in 1..n : sorted[i][2] = x
    <3>1. <<f[x], x>> \in Pairs(f)
      BY DEF Pairs
    <3>2. PICK i \in 1..n : sorted[i] = <<f[x], x>>
      BY <2>1, <3>1
    <3> QED BY <3>2
  <2> QED BY <2>1, <2>2, <2>3
<1>4. U \subseteq 0..(num - 1) /\ DOMAIN f = 0..(num - 1) /\ \A x \in U : f[x] \in Nat
  BY DEF UsedOf
<1> HIDE DEF U
<1>5. /\ syms \in [1..n -> U] /\ syms \in [1..n -> 0..(num - 1)]
      /\ \A i \in 1..n : syms[i] = sorted[i][2]
      /\ \A i, j \in 1..n : syms[i] = syms[j] => i = j
      /\ \A x \in U : \E i \in 1..n : syms[i] = x
  <2>1. \A i \in 1..n : syms[i] = sorted[i][2] /\ syms[i] \in U /\ syms[i] \in 0..(num - 1)
    BY <1>3, <1>4
  <2>2. syms = [i \in 1..n |-> syms[i]]
    OBVIOUS
  <2> HIDE DEF syms
  <2>3. syms \in [1..n -> U] /\ syms \in [1..n -> 0..(num - 1)]
    BY <2>1, <2>2
  <2>4. ASSUME NEW i \in 1..n, NEW j \in 1..n, syms[i] = syms[j] PROVE i = j
    <3>1. PICK s : s = sorted[i][2] /\ s = sorted[j][2]
      BY <2>1, <2>4
    <3>2. sorted[i] = <<f[s], s>> /\ sorted[j] = <<f[s], s>>
      BY <1>3, <3>1
    <3> QED BY <1>3, <3>2
  <2>5. \A x \in U : \E i \in 1..n : syms[i] = x
    BY <1>3, <2>1
  <2> QED BY <2>1, <2>3, <2>4, <2>5
<1> HIDE DEF syms, counts, ls, A
<1>6. CASE n < 2
  <2>1. made.lens = TwoCodewords(num, syms).lens
    BY <1>1, <1>6
  <2>2. num >= 2
    OBVIOUS
  <2>5. n \in Nat /\ n = Cardinality(U) /\ syms \in [1..n -> U] /\ \A x \in U : \E i \in 1..n : syms[i] = x
    BY <1>2, <1>5
  <2>6. U = UsedOf(f)
    BY DEF U
  <2>3. n = Cardinality(UsedOf(f)) /\ syms \in [1..n -> UsedOf(f)]
        /\ \A x \in UsedOf(f) : \E i \in 1..n : syms[i] = x
    BY <2>5, <2>6, Zenon
  <2>4. CompleteCode(TwoCodewords(num, syms).lens, f, num, max)
    BY <1>0, <1>6, <2>2, <2>3, <2>5, TwoComplete
  <2> QED BY <2>1, <2>4 DEF made
<1>7. CASE ~(n < 2)
  <2>0. n >= 2
    BY <1>2, <1>7
  <2>1. A \in [0..(n - 1) -> Nat]
    <3>1. ASSUME NEW i \in 0..(n - 1) PROVE sorted[i + 1][1] \in Nat
      <4>1. i + 1 \in 1..n
        BY <1>2
      <4>2. sorted[i + 1][2] \in U /\ sorted[i + 1][1] = f[sorted[i + 1][2]]
        BY <1>3, <4>1
      <4> QED BY <1>4, <4>2
    <3> QED BY <3>1 DEF A
  <2>2. Tree(build_tree(A, n), n)
    BY <1>2, <2>0, <2>1, TreeBuilt
  <2>3. n <= 2^max
    <3>1. IsFiniteSet(0..(num - 1)) /\ Cardinality(0..(num - 1)) = num
      BY FS_Interval
    <3>2. n <= num
      <4>1. U \in SUBSET (0..(num - 1))
        BY <1>4
      <4>2. Cardinality(U) <= Cardinality(0..(num - 1))
        BY <3>1, <4>1, FS_Subset
      <4> QED BY <1>2, <3>1, <4>2
    <3>3. 2^max \in Nat
      BY PowerOfTwo
    <3> QED BY <1>2, <3>2, <3>3
  <2>4. counts \in [0..max -> Nat] /\ Weighted(counts, max) = 2^max /\ Many(counts, max) = n
    BY <1>0, <1>2, <2>0, <2>2, <2>3, CountsMade DEF counts
  <2>5. LensFit(ls, syms, n, counts, max, num)
    BY <1>0, <1>2, <1>5, <2>4, LensAssigned DEF ls
  <2>6. /\ ls \in [0..(num - 1) -> 0..max]
        /\ \A s \in 0..(num - 1) : ls[s] # 0 <=> \E i \in 1..n : syms[i] = s
        /\ \A l \in 1..max : Cardinality({s \in 0..(num - 1) : ls[s] = l}) = counts[l]
    BY <2>5 DEF LensFit, AsOften
  <2>7. Kraft(ls, max) = 2^max
    <3>1. DOMAIN ls = 0..(num - 1)
      BY <2>6
    <3>2. Kraft(ls, max) = Weighted(counts, max)
      BY <2>6, <3>1, KraftIs
    <3> QED BY <2>4, <3>2
  <2>8. {s \in DOMAIN f : ls[s] # 0} = U
    <3>1. ASSUME NEW s \in 0..(num - 1) PROVE ls[s] # 0 <=> s \in U
      <4>1. CASE s \in U
        <5>1. \E i \in 1..n : syms[i] = s
          BY <1>5, <4>1
        <5> QED BY <2>6, <4>1, <5>1
      <4>2. CASE s \notin U
        <5>1. ~\E i \in 1..n : syms[i] = s
          BY <1>5, <4>2
        <5> QED BY <2>6, <4>2, <5>1
      <4> QED BY <4>1, <4>2
    <3> QED BY <1>4, <3>1
  <2>9. \A s \in {s \in DOMAIN f : ls[s] # 0} : ls[s] <= max
    BY <1>4, <2>6
  <2>10. ~(Cardinality(U) < 2)
    BY <1>2, <1>7
  <2>11. CompleteCode(ls, f, num, max)
    BY <2>7, <2>8, <2>9, <2>10 DEF CompleteCode, U
  <2> QED BY <1>1, <1>7, <2>11 DEF made
<1> QED BY <1>6, <1>7

-----------------------------------------------------------------------------
(* What the decompressor accepts.                                            *)
Codespace(u, counts, max) ==
  /\ u \in [0..max -> Nat] /\ u[0] = 0
  /\ \A k \in 1..max : u[k] = 2 * u[k - 1] + counts[k]
  /\ \A k \in 0..max : CodespaceUsed(counts, k) = u[k]

LEMMA CodespaceGrows ==
  ASSUME NEW max \in Nat, NEW counts \in [0..max -> Nat]
  PROVE  \E u : Codespace(u, counts, max)
<1> DEFINE part(m) == [len \in 1..m |-> [used \in Nat |-> 2 * used + counts[len]]]
           u == Loop(max, 0, part(max))
<1>1. ASSUME NEW m \in 0..max
      PROVE  part(m) \in [1..m -> [Nat -> Nat]] /\ \A k \in 1..m : part(m)[k] = [used \in Nat |-> 2 * used + counts[k]]
  <2>1. ASSUME NEW k \in 1..m, NEW x \in Nat PROVE 2 * x + counts[k] \in Nat
    <3>1. k \in 0..max
      OBVIOUS
    <3> QED BY <3>1
  <2> QED BY <2>1
<1>2. \A k \in 1..max : \A x \in Nat : part(max)[k][x] = 2 * x + counts[k]
  OBVIOUS
<1>3. ASSUME NEW m \in 0..max PROVE CodespaceUsed(counts, m) = u[m]
  <2>1. CodespaceUsed(counts, m) = Loop(m, 0, part(m))[m]
    BY DEF CodespaceUsed
  <2>2. max \in 0..max
    OBVIOUS
  <2>3. \A k \in 1..m : part(m)[k] = part(max)[k]
    <3>1. \A k \in 1..m : k \in 1..max
      OBVIOUS
    <3> QED BY <1>1, <2>2, <3>1
  <2>4. part(m) \in [1..m -> [Nat -> Nat]] /\ part(max) \in [1..max -> [Nat -> Nat]]
    BY <1>1, <2>2
  <2> HIDE DEF part
  <2>5. FirstSteps(Nat, m, max, part(m), part(max))
    BY <2>3, <2>4 DEF FirstSteps
  <2>6. PICK p, q : p = part(m) /\ q = part(max)
    OBVIOUS
  <2>7. \A V, a : a \in V /\ FirstSteps(V, m, max, p, q) => Loop(m, a, p)[m] = Loop(max, a, q)[m]
    BY ONLY LoopPrefix
  <2>8. 0 \in Nat
    OBVIOUS
  <2>9. FirstSteps(Nat, m, max, p, q)
    BY ONLY <2>5, <2>6
  <2>10. Loop(m, 0, p)[m] = Loop(max, 0, q)[m]
    BY ONLY <2>7, <2>8, <2>9, Zenon
  <2> QED BY ONLY <2>1, <2>6, <2>10 DEF u
<1>4. LoopRuns(max, Nat, 0, part(max), u)
  <2>1. LoopOf(max, Nat, 0, part(max))
    <3>1. max \in 0..max
      OBVIOUS
    <3>2. part(max) \in [1..max -> [Nat -> Nat]]
      BY <1>1, <3>1
    <3> HIDE DEF part
    <3> QED BY <3>2 DEF LoopOf
  <2> QED BY ONLY <2>1, LoopRun
<1>5. u \in [0..max -> Nat] /\ u[0] = 0 /\ \A k \in 1..max : u[k] = part(max)[k][u[k - 1]]
  BY ONLY <1>4 DEF LoopRuns
<1> HIDE DEF u
<1>6. ASSUME NEW k \in 1..max PROVE u[k] = 2 * u[k - 1] + counts[k]
  <2>1. k - 1 \in 0..max
    OBVIOUS
  <2>2. u[k - 1] \in Nat
    BY <1>5, <2>1
  <2> QED BY <1>2, <1>5, <2>2
<1> QED BY <1>3, <1>5, <1>6 DEF Codespace

(* In codewords of the longest length it is the sum of the shares.           *)
ShareAdds(x, c, p) == (2 * x + c) * p = x * (2 * p) + c * p

LEMMA SharesAdd ==
  ASSUME NEW x \in Nat, NEW c \in Nat, NEW p \in Nat
  PROVE  ShareAdds(x, c, p)
BY DEF ShareAdds

LEMMA CodespaceShares ==
  ASSUME NEW max \in Nat, NEW counts \in [0..max -> Nat], NEW u, Codespace(u, counts, max)
  PROVE  Weighted(counts, max) = u[max]
<1>0. u \in [0..max -> Nat] /\ u[0] = 0 /\ \A k \in 1..max : u[k] = 2 * u[k - 1] + counts[k]
  BY DEF Codespace
<1> DEFINE f == Weights(counts, max)
           s == [k \in 0..max |-> u[k] * 2^(max - k)]
<1>1. f \in [1..max -> Nat] /\ \A l \in 1..max : f[l] = counts[l] * 2^(max - l)
  BY SumsExist
<1>2. s[0] = 0
  <2>1. 2^max \in Nat
    BY PowerOfTwo
  <2>2. s[0] = 0 * 2^(max - 0) /\ max - 0 = max
    BY <1>0
  <2> QED BY <2>1, <2>2
<1>3. ASSUME NEW k \in 1..max PROVE s[k] = s[k - 1] + f[k]
  <2>1. PICK m \in Nat : m = max - k /\ m + 1 = max - (k - 1)
    OBVIOUS
  <2>2. PICK j \in 0..max : j = k - 1 /\ k \in 0..max
    OBVIOUS
  <2>3. PICK x \in Nat, c \in Nat : x = u[j] /\ c = counts[k]
    BY <1>0, <2>2
  <2>4. u[k] = 2 * x + c
    BY <1>0, <2>2, <2>3
  <2>5. PICK p \in Nat : p = 2^m /\ 2^(m + 1) = 2 * p
    BY PowerOfTwo
  <2>6. s[k] = u[k] * 2^(max - k) /\ s[j] = u[j] * 2^(max - j)
    BY <2>2
  <2>7. s[k] = (2 * x + c) * p
    BY ONLY <2>1, <2>4, <2>5, <2>6
  <2>8. s[j] = x * (2 * p)
    BY ONLY <2>1, <2>2, <2>3, <2>5, <2>6
  <2>9. f[k] = c * p
    BY <1>1, <2>1, <2>3, <2>5
  <2>10. (2 * x + c) * p = x * (2 * p) + c * p
    <3>1. ShareAdds(x, c, p)
      BY ONLY x \in Nat, c \in Nat, p \in Nat, SharesAdd
    <3> QED BY ONLY <3>1 DEF ShareAdds
  <2>11. s[k] = s[j] + f[k]
    BY ONLY <2>7, <2>8, <2>9, <2>10
  <2> QED BY ONLY <2>2, <2>11
<1> HIDE DEF s
<1>4. SumTo(max, f) = s[max]
  <2>1. f \in [1..max -> Int]
    BY <1>1
  <2> HIDE DEF f
  <2> QED BY ONLY max \in Nat, <1>2, <1>3, <2>1, SumIs
<1>5. s[max] = u[max]
  <2>1. s[max] = u[max] * 2^0 /\ u[max] \in Nat
    BY <1>0 DEF s
  <2> QED BY <2>1, PowerZero
<1> QED BY <1>4, <1>5 DEF Weighted

(* Behind the last length in use the codespace only doubles.                 *)
LEMMA CodespaceFull ==
  ASSUME NEW max \in Nat, NEW counts \in [0..max -> Nat], NEW u, Codespace(u, counts, max),
         NEW m \in 0..max, \A k \in (m + 1)..max : counts[k] = 0
  PROVE  u[max] = 2^max <=> u[m] = 2^m
<1>0. u \in [0..max -> Nat] /\ \A k \in 1..max : u[k] = 2 * u[k - 1] + counts[k]
  BY DEF Codespace
<1> DEFINE S == {k \in 0..max : k >= m => (u[k] = 2^k <=> u[m] = 2^m)}
<1>1. 0 \in S
  <2>1. CASE m = 0
    <3>1. u[0] = 2^0 <=> u[m] = 2^m
      BY ONLY <2>1
    <3> QED BY <3>1
  <2>2. CASE m # 0
    <3>1. ~(0 >= m)
      BY <2>2
    <3> QED BY <3>1
  <2> QED BY <2>1, <2>2
<1>2. ASSUME NEW k \in 0..(max - 1), k \in S PROVE k + 1 \in S
  <2>1. PICK l \in 1..max : l = k + 1 /\ l - 1 = k /\ l \in 0..max /\ k \in 0..max
    OBVIOUS
  <2>2. CASE l <= m
    <3>1. l >= m => l = m
      BY <2>2
    <3> QED BY <2>1, <3>1
  <2>3. CASE l > m
    <3>1. k >= m /\ l \in (m + 1)..max
      BY <2>1, <2>3
    <3>2. u[k] = 2^k <=> u[m] = 2^m
      BY <1>2, <3>1
    <3>3. PICK x \in Nat : x = u[k]
      BY <1>0, <2>1
    <3>4. u[l] = 2 * u[k] + counts[l] /\ counts[l] = 0
      BY <1>0, <2>1, <3>1
    <3>5. u[l] = 2 * x
      BY ONLY <3>3, <3>4
    <3>6. PICK p \in Nat : p = 2^k /\ 2^(k + 1) = 2 * p
      BY PowerOfTwo
    <3>7. u[l] = 2^(k + 1) <=> x = p
      BY ONLY <3>5, <3>6
    <3>8. u[l] = 2^l <=> u[m] = 2^m
      BY ONLY <2>1, <3>2, <3>3, <3>6, <3>7
    <3> QED BY <2>1, <3>8
  <2> QED BY <2>1, <2>2, <2>3
<1>3. \A k \in 0..max : k \in S
  <2> HIDE DEF S
  <2> QED BY <1>1, <1>2, UpTo
<1>4. max \in S
  BY <1>3
<1> QED BY <1>4

(* With a codeword of one bit and any other the codespace is more than half full. *)
LEMMA CodespaceBusy ==
  ASSUME NEW max \in Nat, NEW counts \in [0..max -> Nat], NEW u, Codespace(u, counts, max),
         NEW m \in 2..max, counts[1] > 0, counts[m] > 0
  PROVE  u[m] > 2^(m - 1)
<1>0. u \in [0..max -> Nat] /\ u[0] = 0 /\ \A k \in 1..max : u[k] = 2 * u[k - 1] + counts[k]
  BY DEF Codespace
<1> DEFINE S == {k \in 0..max : k > 0 => 2 * u[k] >= 2^k}
<1>1. 0 \in S
  OBVIOUS
<1>2. ASSUME NEW k \in 0..(max - 1), k \in S PROVE k + 1 \in S
  <2>1. PICK l \in 1..max : l = k + 1 /\ l - 1 = k /\ l \in 0..max /\ k \in 0..max
    OBVIOUS
  <2>2. PICK x \in Nat, y \in Nat, c \in Nat : x = u[k] /\ y = u[l] /\ c = counts[l]
    BY <1>0, <2>1
  <2>3. y = 2 * x + c
    BY <1>0, <2>1, <2>2
  <2>4. PICK p \in Nat : p = 2^k /\ 2^(k + 1) = 2 * p
    BY PowerOfTwo
  <2>5. 2 * y >= 2 * p
    <3>1. CASE k = 0
      <4>1. c > 0 /\ p = 1
        BY <2>1, <2>2, <2>4, <3>1, PowerZero
      <4> QED BY ONLY x \in Nat, y \in Nat, c \in Nat, <2>3, <4>1
    <3>2. CASE k > 0
      <4>1. 2 * u[k] >= 2^k
        BY <1>2, <3>2
      <4>2. 2 * x >= p
        BY ONLY <2>2, <2>4, <4>1
      <4> QED BY ONLY x \in Nat, y \in Nat, c \in Nat, p \in Nat, <2>3, <4>2
    <3> QED BY <3>1, <3>2
  <2>6. 2 * u[l] >= 2^l
    BY ONLY <2>1, <2>2, <2>4, <2>5
  <2> QED BY <2>1, <2>6
<1>3. \A k \in 0..max : k \in S
  <2> HIDE DEF S
  <2> QED BY <1>1, <1>2, UpTo
<1>4. PICK j \in 0..max : j = m - 1 /\ j > 0 /\ m \in 1..max /\ m \in 0..max /\ j \in Nat
  OBVIOUS
<1>5. 2 * u[j] >= 2^j
  BY <1>3, <1>4
<1>6. PICK x \in Nat, y \in Nat, c \in Nat : x = u[j] /\ y = u[m] /\ c = counts[m] /\ c > 0
  BY <1>0, <1>4
<1>7. y = 2 * x + c
  BY <1>0, <1>4, <1>6
<1>8. PICK p \in Nat : p = 2^j
  <2>1. PICK i \in Nat : i = j
    BY <1>4
  <2>2. 2^i \in Nat
    BY PowerOfTwo
  <2>3. \E p \in Nat : p = 2^i
    BY ONLY <2>2
  <2> QED BY ONLY <2>1, <2>3
<1>9. 2 * x >= p
  BY ONLY <1>5, <1>6, <1>8
<1>10. y > p
  <2>1. c > 0
    BY ONLY <1>6
  <2> QED BY ONLY x \in Nat, y \in Nat, c \in Nat, p \in Nat, <1>7, <1>9, <2>1
<1> QED BY ONLY <1>4, <1>6, <1>8, <1>10

(* Where no codespace is used there is no codeword.                          *)
LEMMA CodespaceEmpty ==
  ASSUME NEW max \in Nat, NEW counts \in [0..max -> Nat], NEW u, Codespace(u, counts, max),
         NEW m \in 0..max
  PROVE  u[m] = 0 <=> \A k \in 1..m : counts[k] = 0
<1>0. u \in [0..max -> Nat] /\ u[0] = 0 /\ \A k \in 1..max : u[k] = 2 * u[k - 1] + counts[k]
  BY DEF Codespace
<1> DEFINE S == {k \in 0..max : u[k] = 0 <=> \A l \in 1..k : counts[l] = 0}
<1>1. 0 \in S
  BY <1>0
<1>2. ASSUME NEW k \in 0..(max - 1), k \in S PROVE k + 1 \in S
  <2>1. PICK l \in 1..max : l = k + 1 /\ l - 1 = k /\ l \in 0..max /\ k \in 0..max
    OBVIOUS
  <2>2. PICK x \in Nat, y \in Nat, c \in Nat : x = u[k] /\ y = u[l] /\ c = counts[l]
    BY <1>0, <2>1
  <2>3. y = 2 * x + c
    BY <1>0, <2>1, <2>2
  <2>4. y = 0 <=> x = 0 /\ c = 0
    BY ONLY x \in Nat, y \in Nat, c \in Nat, <2>3
  <2>5. x = 0 <=> \A i \in 1..k : counts[i] = 0
    BY <1>2, <2>2
  <2>6. \A i \in Int : i \in 1..l <=> i \in 1..k \/ i = l
    BY <2>1
  <2>7. (\A i \in 1..l : counts[i] = 0) <=> (\A i \in 1..k : counts[i] = 0) /\ counts[l] = 0
    <3>1. 1..l = (1..k) \cup {l}
      BY <2>1
    <3> QED BY <3>1
  <2>8. u[l] = 0 <=> \A i \in 1..l : counts[i] = 0
    BY ONLY <2>2, <2>4, <2>5, <2>7
  <2> QED BY <2>1, <2>8
<1>3. \A k \in 0..max : k \in S
  <2> HIDE DEF S
  <2> QED BY <1>1, <1>2, UpTo
<1> QED BY <1>3

(* How many codewords have each length.                                      *)
LensCounted(ls, counts, max) ==
  /\ counts \in [0..max -> Nat]
  /\ \A l \in 0..max : LET S == {s \in DOMAIN ls : ls[s] = l}
                        IN  IsFiniteSet(S) /\ counts[l] = Cardinality(S)

LEMMA LensAreCounted ==
  ASSUME NEW n \in Nat, NEW max \in Nat, NEW ls \in [0..(n - 1) -> 0..max]
  PROVE  LensCounted(ls, len_counts(ls, max), max)
<1>1. IsFiniteSet(DOMAIN ls)
  <2>1. n - 1 \in Int /\ DOMAIN ls = 0..(n - 1)
    OBVIOUS
  <2> QED BY <2>1, FS_Interval
<1>2. ASSUME NEW l \in 0..max
      PROVE  IsFiniteSet({s \in DOMAIN ls : ls[s] = l}) /\ Cardinality({s \in DOMAIN ls : ls[s] = l}) \in Nat
  <2>1. {s \in DOMAIN ls : ls[s] = l} \in SUBSET (DOMAIN ls)
    OBVIOUS
  <2> QED BY <1>1, <2>1, FS_Subset, FS_CardinalityType
<1>3. len_counts(ls, max) \in [0..max -> Nat]
      /\ \A l \in 0..max : len_counts(ls, max)[l] = Cardinality({s \in DOMAIN ls : ls[s] = l})
  BY <1>2 DEF len_counts
<1> QED BY <1>2, <1>3 DEF LensCounted

NoneHas(ls, counts, l) == counts[l] = 0 <=> \A s \in DOMAIN ls : ls[s] # l

LEMMA NoneCounted ==
  ASSUME NEW max, NEW ls, NEW counts, LensCounted(ls, counts, max), NEW l \in 0..max
  PROVE  NoneHas(ls, counts, l)
<1> DEFINE S == {s \in DOMAIN ls : ls[s] = l}
<1>1. IsFiniteSet(S) /\ counts[l] = Cardinality(S)
  BY DEF LensCounted
<1>2. Cardinality(S) = 0 <=> S = {}
  <2> HIDE DEF S
  <2> QED BY <1>1, FS_EmptySet
<1>3. S = {} <=> \A s \in DOMAIN ls : ls[s] # l
  OBVIOUS
<1> HIDE DEF S
<1> QED BY <1>1, <1>2, <1>3 DEF NoneHas

PresentIn(ls) == {s \in DOMAIN ls : ls[s] # 0}
OneShortIn(ls) == Cardinality(PresentIn(ls)) = 1 /\ \A s \in PresentIn(ls) : ls[s] = 1

LEMMA PresentCounted ==
  ASSUME NEW n \in Nat, NEW max \in Nat, NEW ls \in [0..(n - 1) -> 0..max], NEW counts,
         LensCounted(ls, counts, max)
  PROVE  PresentIn(ls) = {} <=> \A l \in 1..max : counts[l] = 0
<1>1. \A s \in DOMAIN ls : ls[s] \in 0..max
  OBVIOUS
<1>2. ASSUME NEW l \in 1..max PROVE counts[l] = 0 <=> \A s \in DOMAIN ls : ls[s] # l
  <2>1. l \in 0..max
    OBVIOUS
  <2>2. NoneHas(ls, counts, l)
    BY <2>1, NoneCounted
  <2> QED BY <2>2 DEF NoneHas
<1>3. ASSUME PresentIn(ls) = {}, NEW l \in 1..max PROVE counts[l] = 0
  <2>1. \A s \in DOMAIN ls : ls[s] = 0
    BY <1>3 DEF PresentIn
  <2>2. l # 0
    OBVIOUS
  <2>3. \A s \in DOMAIN ls : ls[s] # l
    BY ONLY <2>1, <2>2
  <2> QED BY <1>2, <2>3
<1>4. ASSUME \A l \in 1..max : counts[l] = 0, NEW s \in DOMAIN ls PROVE ls[s] = 0
  <2> SUFFICES ASSUME ls[s] # 0 PROVE FALSE
    OBVIOUS
  <2>1. PICK l \in 1..max : l = ls[s]
    BY <1>1
  <2> QED BY <1>2, <1>4, <2>1
<1> QED BY <1>3, <1>4 DEF PresentIn

LEMMA OneShortCounted ==
  ASSUME NEW n \in Nat, NEW max \in Nat, max > 0, NEW ls \in [0..(n - 1) -> 0..max], NEW counts,
         LensCounted(ls, counts, max)
  PROVE  OneShortIn(ls) <=> counts[1] = 1 /\ \A l \in 2..max : counts[l] = 0
<1> DEFINE P == PresentIn(ls)
           S == {s \in DOMAIN ls : ls[s] = 1}
<1>1. \A s \in DOMAIN ls : ls[s] \in 0..max
  OBVIOUS
<1>2. counts[1] = Cardinality(S)
  <2>1. 1 \in 0..max
    OBVIOUS
  <2> QED BY <2>1 DEF LensCounted
<1>3. ASSUME NEW l \in 2..max PROVE counts[l] = 0 <=> \A s \in DOMAIN ls : ls[s] # l
  <2>1. l \in 0..max
    OBVIOUS
  <2>2. NoneHas(ls, counts, l)
    BY <2>1, NoneCounted
  <2> QED BY <2>2 DEF NoneHas
<1>4. ASSUME OneShortIn(ls) PROVE counts[1] = 1 /\ \A l \in 2..max : counts[l] = 0
  <2>1. Cardinality(P) = 1 /\ \A s \in P : ls[s] = 1
    BY <1>4 DEF OneShortIn
  <2>2. S = P
    BY <2>1 DEF PresentIn
  <2>3. ASSUME NEW l \in 2..max PROVE counts[l] = 0
    <3>1. l # 0 /\ l # 1
      OBVIOUS
    <3>2. \A s \in DOMAIN ls : ls[s] = 0 \/ ls[s] = 1
      BY <2>1 DEF PresentIn
    <3>3. \A s \in DOMAIN ls : ls[s] # l
      BY ONLY <3>1, <3>2
    <3> QED BY <1>3, <3>3
  <2> HIDE DEF S, P
  <2> QED BY <1>2, <2>1, <2>2, <2>3
<1>5. ASSUME counts[1] = 1, \A l \in 2..max : counts[l] = 0 PROVE OneShortIn(ls)
  <2>1. ASSUME NEW s \in P PROVE ls[s] = 1
    <3> SUFFICES ASSUME ls[s] # 1 PROVE FALSE
      OBVIOUS
    <3>1. s \in DOMAIN ls /\ ls[s] # 0
      BY DEF PresentIn
    <3>2. PICK l \in 2..max : l = ls[s]
      BY <1>1, <3>1
    <3> QED BY <1>3, <1>5, <3>1, <3>2
  <2>2. S = P
    BY <2>1 DEF PresentIn
  <2> HIDE DEF S, P
  <2>3. Cardinality(P) = 1
    BY <1>2, <1>5, <2>2
  <2> QED BY <2>1, <2>3 DEF OneShortIn, P
<1> QED BY <1>4, <1>5

(* The longest length in use.                                                *)
Longest(counts, max, m) ==
  m \in 1..max /\ (m = 1 \/ counts[m] # 0) /\ \A k \in (m + 1)..max : counts[k] = 0

LEMMA LongestUsed ==
  ASSUME NEW max \in Nat, max > 0, NEW counts \in [0..max -> Nat]
  PROVE  Longest(counts, max, UsedMaxLen(counts, max))
<1> DEFINE S == {k \in 0..max : (\A l \in (k + 1)..max : counts[l] = 0) => \E m \in 1..max : Longest(counts, max, m)}
<1>1. 0 \in S
  <2>1. ASSUME \A l \in (0 + 1)..max : counts[l] = 0 PROVE Longest(counts, max, 1)
    <3>1. 1 \in 1..max /\ \A l \in (1 + 1)..max : l \in (0 + 1)..max
      OBVIOUS
    <3> QED BY <2>1, <3>1 DEF Longest
  <2>2. 0 \in 0..max /\ 1 \in 1..max
    OBVIOUS
  <2> QED BY <2>1, <2>2
<1>2. ASSUME NEW k \in 0..(max - 1), k \in S PROVE k + 1 \in S
  <2>1. PICK j \in 1..max : j = k + 1 /\ j \in 0..max
    OBVIOUS
  <2>2. ASSUME \A l \in (j + 1)..max : counts[l] = 0 PROVE \E m \in 1..max : Longest(counts, max, m)
    <3>1. CASE counts[j] = 0
      <4>1. \A l \in (k + 1)..max : l = j \/ l \in (j + 1)..max
        BY <2>1
      <4>2. \A l \in (k + 1)..max : counts[l] = 0
        BY <2>2, <3>1, <4>1
      <4> QED BY <1>2, <4>2
    <3>2. CASE counts[j] # 0
      <4>1. Longest(counts, max, j)
        BY <2>2, <3>2 DEF Longest
      <4> QED BY <4>1
    <3> QED BY <3>1, <3>2
  <2> QED BY <2>1, <2>2
<1>3. \A k \in 0..max : k \in S
  <2> HIDE DEF S
  <2> QED BY <1>1, <1>2, UpTo
<1>4. \E m \in 1..max : Longest(counts, max, m)
  <2>1. max \in S
    BY <1>3
  <2>2. \A l \in (max + 1)..max : FALSE
    OBVIOUS
  <2> QED BY <2>1, <2>2
<1>5. \E m \in 1..max : (m = 1 \/ counts[m] # 0) /\ \A k \in (m + 1)..max : counts[k] = 0
  BY <1>4 DEF Longest
<1> DEFINE u == UsedMaxLen(counts, max)
<1>6. u \in 1..max /\ (u = 1 \/ counts[u] # 0) /\ \A k \in (u + 1)..max : counts[k] = 0
  BY <1>5 DEF UsedMaxLen
<1> QED BY <1>6 DEF Longest

(* The judgement on the codespace alone.                                     *)
LEMMA Judged ==
  ASSUME NEW max \in Nat, max > 0, NEW counts \in [0..max -> Nat], NEW m, Longest(counts, max, m)
  PROVE  Accepted(counts, m) <=>
           \/ Weighted(counts, max) = 2^max
           \/ \A l \in 1..max : counts[l] = 0
           \/ counts[1] = 1 /\ \A l \in 2..max : counts[l] = 0
<1>0. m \in 1..max /\ (m = 1 \/ counts[m] # 0) /\ \A k \in (m + 1)..max : counts[k] = 0
  BY DEF Longest
<1>1. PICK u : Codespace(u, counts, max)
  BY CodespaceGrows
<1>2. /\ u \in [0..max -> Nat] /\ u[0] = 0 /\ \A k \in 1..max : u[k] = 2 * u[k - 1] + counts[k]
      /\ \A k \in 0..max : CodespaceUsed(counts, k) = u[k]
  BY <1>1 DEF Codespace
<1>3. m \in 0..max /\ m \in Nat
  BY <1>0
<1>4. PICK x \in Nat : x = u[m] /\ x = CodespaceUsed(counts, m)
  BY <1>2, <1>3
<1>5. PICK j \in Nat : j = m - 1 /\ j + 1 = m
  BY <1>0
<1>6. PICK p \in Nat, q \in Nat : p = 2^m /\ q = 2^j /\ p = 2 * q /\ q > 0
  <2>1. 2^j \in Nat /\ 2^j > 0 /\ 2^(j + 1) = 2 * 2^j
    BY PowerOfTwo
  <2>2. 2^m = 2 * 2^j
    BY <1>5, <2>1
  <2>3. 2^m \in Nat
    BY <1>3, PowerOfTwo
  <2> QED BY <2>1, <2>2, <2>3
<1>7. Accepted(counts, m) <=> x <= p /\ (x < p => x = 0 \/ (x = q /\ counts[1] = 1))
  BY <1>4, <1>5, <1>6 DEF Accepted, IncompleteAccepted
<1>8. Accepted(counts, m) <=> x = p \/ x = 0 \/ (x = q /\ counts[1] = 1)
  <2>1. x <= p /\ (x < p => x = 0 \/ (x = q /\ counts[1] = 1)) <=> x = p \/ x = 0 \/ (x = q /\ counts[1] = 1)
    BY ONLY x \in Nat, p \in Nat, q \in Nat, <1>6
  <2> QED BY ONLY <1>7, <2>1
<1>9. x = p <=> Weighted(counts, max) = 2^max
  <2>1. Weighted(counts, max) = u[max]
    BY <1>1, CodespaceShares
  <2>2. u[max] = 2^max <=> u[m] = 2^m
    BY <1>0, <1>1, <1>3, CodespaceFull
  <2> QED BY ONLY <1>4, <1>6, <2>1, <2>2
<1>10. x = 0 <=> \A l \in 1..max : counts[l] = 0
  <2>1. u[m] = 0 <=> \A l \in 1..m : counts[l] = 0
    BY <1>1, <1>3, CodespaceEmpty
  <2>2. (\A l \in 1..m : counts[l] = 0) <=> \A l \in 1..max : counts[l] = 0
    <3>1. \A l \in 1..max : l \in 1..m \/ l \in (m + 1)..max
      BY <1>0
    <3>2. \A l \in 1..m : l \in 1..max
      BY <1>0
    <3> QED BY <1>0, <3>1, <3>2
  <2> QED BY ONLY <1>4, <2>1, <2>2
<1>11. ASSUME x = q, counts[1] = 1 PROVE \A l \in 2..max : counts[l] = 0
  <2>1. m = 1
    <3> SUFFICES ASSUME m # 1 PROVE FALSE
      OBVIOUS
    <3>1. m \in 2..max /\ counts[1] > 0 /\ counts[m] > 0
      <4>1. counts[m] \in Nat /\ counts[m] # 0
        BY <1>0, <1>3
      <4>2. m \in 2..max
        BY <1>0
      <4> QED BY <1>11, <4>1, <4>2
    <3>2. u[m] > 2^(m - 1)
      BY <1>1, <3>1, CodespaceBusy
    <3>3. x > q
      BY ONLY <1>4, <1>5, <1>6, <3>2
    <3> QED BY ONLY x \in Nat, q \in Nat, <1>11, <3>3
  <2>2. \A l \in 2..max : l \in (m + 1)..max
    BY <2>1
  <2> QED BY <1>0, <2>2
<1>12. ASSUME counts[1] = 1, \A l \in 2..max : counts[l] = 0 PROVE x = q
  <2>1. m = 1
    <3> SUFFICES ASSUME m # 1 PROVE FALSE
      OBVIOUS
    <3>1. m \in 2..max
      BY <1>0
    <3> QED BY <1>0, <1>12, <3>1
  <2>2. 1 \in 1..max /\ 1 - 1 = 0
    OBVIOUS
  <2>3. u[1] = 2 * u[1 - 1] + counts[1]
    BY <1>2, <2>2
  <2>4. u[1] = 2 * 0 + 1
    BY ONLY <1>2, <1>12, <2>2, <2>3
  <2>5. q = 1
    <3>1. j = 0
      BY <1>5, <2>1
    <3> QED BY ONLY <1>6, <3>1, PowerZero
  <2>6. x = u[1]
    BY ONLY <1>4, <2>1
  <2>7. x = 1
    BY ONLY <2>4, <2>6
  <2> QED BY ONLY <2>5, <2>7
<1>13. x = q /\ counts[1] = 1 <=> counts[1] = 1 /\ \A l \in 2..max : counts[l] = 0
  BY <1>11, <1>12
<1> QED BY ONLY <1>8, <1>9, <1>10, <1>13

(* Whatever the lengths are, and however large the table may be.             *)
LEMMA LensAreJudged ==
  ASSUME NEW n \in Nat, NEW max \in Nat, max > 0, NEW ls \in [0..(n - 1) -> 0..max],
         NEW bits, NEW dynamic
  PROVE  build_decode_table(ls, bits, max, dynamic).ok <=>
           Kraft(ls, max) = 2^max \/ PresentIn(ls) = {} \/ OneShortIn(ls)
<1> DEFINE counts == len_counts(ls, max)
           m == UsedMaxLen(counts, max)
<1>1. LensCounted(ls, counts, max)
  BY LensAreCounted
<1>2. counts \in [0..max -> Nat]
  BY <1>1 DEF LensCounted
<1>3. Longest(counts, max, m)
  <2> HIDE DEF counts
  <2> QED BY <1>2, LongestUsed
<1>4. build_decode_table(ls, bits, max, dynamic).ok = Accepted(counts, m)
  <2>1. build_decode_table(ls, bits, max, dynamic) = TableFor(ls, counts, bits, max, dynamic)
    BY DEF build_decode_table, With
  <2>2. TableFor(ls, counts, bits, max, dynamic).ok = Accepted(counts, m)
    BY DEF TableFor
  <2> QED BY ONLY <2>1, <2>2
<1>5. Kraft(ls, max) = Weighted(counts, max)
  <2>1. \A l \in 1..max : counts[l] = Cardinality({s \in DOMAIN ls : ls[s] = l})
    BY DEF len_counts
  <2> HIDE DEF counts
  <2>2. [l \in 1..max |-> Cardinality({s \in DOMAIN ls : ls[s] = l}) * 2^(max - l)] = Weights(counts, max)
    BY <2>1 DEF Weights
  <2> QED BY <2>2 DEF Kraft, Weighted
<1>6. PresentIn(ls) = {} <=> \A l \in 1..max : counts[l] = 0
  BY ONLY n \in Nat, max \in Nat, ls \in [0..(n - 1) -> 0..max], <1>1, PresentCounted
<1>7. OneShortIn(ls) <=> counts[1] = 1 /\ \A l \in 2..max : counts[l] = 0
  BY ONLY n \in Nat, max \in Nat, max > 0, ls \in [0..(n - 1) -> 0..max], <1>1, OneShortCounted
<1> HIDE DEF counts, m
<1>8. Accepted(counts, m) <=>
        \/ Weighted(counts, max) = 2^max
        \/ \A l \in 1..max : counts[l] = 0
        \/ counts[1] = 1 /\ \A l \in 2..max : counts[l] = 0
  BY <1>2, <1>3, Judged
<1> QED BY ONLY <1>4, <1>5, <1>6, <1>7, <1>8

-----------------------------------------------------------------------------
(* The states: frequencies of the alphabet that is coded, and lengths that   *)
(* the runs may have.                                                        *)
TypeOK ==
  /\ code \in Codes \cup {None, Read}
  /\ Compressing => freqs \in [0..(code.syms - 1) -> Nat]
  /\ WritingRuns => lens \in Seq(Lengths)
  /\ ReadingLens => lens \in Seq(0..LensMax)

LEMMA Apart == None \notin Codes /\ None # Read /\ None.syms = 0
<1>1. None.syms = 0
  BY DEF None
<1>2. Read.syms = LensSyms
  BY DEF Read, None
<1>3. LensSyms # 0
  BY LensAssumption
<1>4. None \notin Codes
  BY <1>1, CodesAssumption
<1> QED BY <1>1, <1>2, <1>3, <1>4

(* Neither counting nor reading nor writing leaves the types. *)
THEOREM Types == Spec => []TypeOK
<1>1. Init => TypeOK
  <2> SUFFICES ASSUME Init PROVE TypeOK
    OBVIOUS
  <2>1. Compressing => freqs \in [0..(code.syms - 1) -> Nat]
    BY CodesAssumption DEF Init, Compressing
  <2>2. lens \in Seq(Lengths) /\ lens \in Seq(0..LensMax)
    BY DEF Init
  <2> QED BY <2>1, <2>2 DEF Init, TypeOK
<1>2. TypeOK /\ [Next]_vars => TypeOK'
  <2> SUFFICES ASSUME TypeOK, [Next]_vars PROVE TypeOK'
    OBVIOUS
  <2>1. ASSUME NEW s \in DOMAIN freqs, Tally(s) PROVE TypeOK'
    <3>1. code' = code /\ lens' = lens /\ freqs' = [freqs EXCEPT ![s] = @ + 1] /\ Compressing
      BY <2>1 DEF Tally
    <3>2. freqs \in [0..(code.syms - 1) -> Nat]
      BY <3>1 DEF TypeOK
    <3>3. freqs' \in [0..(code.syms - 1) -> Nat]
      BY <3>1, <3>2
    <3> QED BY <3>1, <3>3 DEF TypeOK, Compressing, WritingRuns, ReadingLens
  <2>2. ASSUME NEW l \in 0..LensMax, ReadLen(l) PROVE TypeOK'
    <3>1. code' = code /\ freqs' = freqs /\ code # None
      BY <2>2, Apart DEF ReadLen, ReadingLens
    <3>2. lens \in Seq(0..LensMax) /\ lens' = Append(lens, l)
      BY <2>2 DEF ReadLen, TypeOK
    <3>3. lens' \in Seq(0..LensMax)
      BY <3>2
    <3> QED BY <3>1, <3>3 DEF TypeOK, Compressing, WritingRuns
  <2>3. ASSUME NEW l \in RunLens, NEW n \in RunLengths, AddRun(l, n) PROVE TypeOK'
    <3>1. code' = code /\ freqs' = freqs /\ WritingRuns /\ lens' = lens \o [i \in 1..n |-> l]
      BY <2>3 DEF AddRun
    <3>2. l \in Lengths /\ n \in Nat /\ lens \in Seq(Lengths)
      BY <3>1, LensAssumption DEF TypeOK, Lengths
    <3>3. [i \in 1..n |-> l] \in Seq(Lengths)
      BY <3>2
    <3>4. lens' \in Seq(Lengths)
      BY <3>1, <3>2, <3>3
    <3>5. ~ReadingLens'
      BY <3>1, Apart DEF ReadingLens, WritingRuns
    <3> QED BY <3>1, <3>4, <3>5 DEF TypeOK, Compressing, WritingRuns
  <2>4. CASE UNCHANGED vars
    BY <2>4 DEF TypeOK, vars, Compressing, WritingRuns, ReadingLens
  <2> QED BY <2>1, <2>2, <2>3, <2>4 DEF Next
<1> QED BY <1>1, <1>2, PTL DEF Spec

(* Whatever lengths are written, however long their runs, the items read     *)
(* back as them, fit their fields and are all counted, and none repeats a    *)
(* length that was not written before (compute_precode_items).               *)
THEOREM ItemsAlwaysReadBack == Spec => []ItemsReadBack
<1>1. TypeOK => ItemsReadBack
  <2> SUFFICES ASSUME WritingRuns, lens # <<>>, lens \in Seq(Lengths) PROVE ItemsReadBack
    BY DEF TypeOK, ItemsReadBack
  <2> QED BY ItemsAreRead DEF ItemsReadBack
<1> QED BY <1>1, Types, PTL

(* Whatever is counted, the code made from it is complete, keeps the limit   *)
(* on the length, and has a codeword for each used symbol and no other, or   *)
(* two codewords if fewer are used (deflate_make_huffman_code).              *)
THEOREM CodesAlwaysComplete == Spec => []CodesComplete
<1>1. TypeOK => CodesComplete
  <2> SUFFICES ASSUME Compressing, freqs \in [0..(code.syms - 1) -> Nat] PROVE CodesComplete
    BY DEF TypeOK, CodesComplete
  <2>1. PICK num \in Nat, max \in Nat : num = code.syms /\ max = code.max /\ num >= 3 /\ num <= 2^max
    <3>1. code.syms \in Nat /\ code.max \in Nat /\ code.syms >= 3 /\ 2^code.max >= code.syms
      BY CodesAssumption DEF Compressing
    <3>2. 2^code.max \in Nat
      BY <3>1, PowerOfTwo
    <3> QED BY <3>1, <3>2
  <2>2. freqs \in [0..(num - 1) -> Nat]
    BY <2>1
  <2>3. CompleteCode(make_huffman_code(num, max, freqs).lens, freqs, num, max)
    BY <2>1, <2>2, MadeComplete
  <2>4. Made(code.max) = make_huffman_code(num, max, freqs) /\ UsedOf(freqs) = Used
    BY <2>1 DEF Made, UsedOf, Used
  <2> QED BY <2>1, <2>3, <2>4 DEF CompleteCode, CodesComplete
<1> QED BY <1>1, Types, PTL

(* Whatever codeword lengths are read, the decompressor accepts them exactly *)
(* when they form a complete code, or use no symbol, or one symbol with one  *)
(* bit: no overfull and no other incomplete code (build_decode_table).       *)
THEOREM LensAlwaysJudged == Spec => []LensJudged
<1>1. TypeOK => LensJudged
  <2> SUFFICES ASSUME ReadingLens, Len(lens) = LensSyms, lens \in Seq(0..LensMax),
                      NEW bits \in LensTableBits, NEW dynamic \in BOOLEAN
               PROVE  build_decode_table(Given, bits, LensMax, dynamic).ok <=> FullCode \/ OneShort
    BY DEF TypeOK, LensJudged, AllRead
  <2>1. PICK n \in Nat, max \in Nat : n = LensSyms /\ max = LensMax /\ max > 0 /\ n > 0
    BY LensAssumption
  <2>2. Given \in [0..(n - 1) -> 0..max]
    <3>1. \A s \in 0..(n - 1) : s + 1 \in 1..Len(lens)
      BY <2>1
    <3>2. \A s \in 0..(n - 1) : lens[s + 1] \in 0..max
      BY <2>1, <3>1
    <3> QED BY <2>1, <3>2 DEF Given
  <2>3. build_decode_table(Given, bits, max, dynamic).ok <=>
          Kraft(Given, max) = 2^max \/ PresentIn(Given) = {} \/ OneShortIn(Given)
    BY <2>1, <2>2, LensAreJudged
  <2>4. Present = PresentIn(Given)
    BY DEF Present, PresentIn
  <2>5. OneShort <=> PresentIn(Given) = {} \/ OneShortIn(Given)
    BY <2>4 DEF OneShort, OneShortIn
  <2>6. FullCode <=> Kraft(Given, max) = 2^max
    BY <2>1 DEF FullCode
  <2> QED BY ONLY <2>1, <2>3, <2>5, <2>6
<1> QED BY <1>1, Types, PTL
=============================================================================
