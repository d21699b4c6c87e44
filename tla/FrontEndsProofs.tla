--------------------------- MODULE FrontEndsProofs ---------------------------
(* Proofs of what FrontEnds promises of the entries and of the spill          *)
(* directory, for every set of trees, copy walk, threshold and read size.     *)
EXTENDS FrontEndsProperties, FiniteSetTheorems, SequenceTheorems, TLAPS

-----------------------------------------------------------------------------
(* Names.                                                                    *)

Clean(q) ==
  \A j \in 1..Len(q) : q[j] # Backslash /\ (q[j] = Slash /\ j < Len(q) => q[j + 1] # Slash)

LEMMA SlashesOnly ==
  ASSUME NEW p \in Seq(Nat), SeparatorsApart(p)
  PROVE  /\ WithSlashes(p) \in Seq(Nat) /\ Len(WithSlashes(p)) = Len(p)
         /\ \A j \in 1..Len(p) : WithSlashes(p)[j] = Slash <=> IsSeparator(p[j])
         /\ Clean(WithSlashes(p))
<1> DEFINE s == WithSlashes(p)
<1>1. /\ s = [i \in 1..Len(p) |-> IF p[i] = Backslash THEN Slash ELSE p[i]]
      /\ Len(p) \in Nat
  BY DEF WithSlashes
<1>2. \A i \in 1..Len(p) : p[i] \in Nat
  BY ElementOfSeq
<1>3. s \in Seq(Nat) /\ Len(s) = Len(p)
  BY <1>1, <1>2 DEF Slash
<1>4. \A j \in 1..Len(p) : s[j] = (IF p[j] = Backslash THEN Slash ELSE p[j])
  BY <1>1
<1> HIDE DEF s
<1>5. \A j \in 1..Len(p) : s[j] # Backslash /\ (s[j] = Slash <=> IsSeparator(p[j]))
  BY <1>4 DEF IsSeparator, Slash, Backslash
<1>6. \A j \in 1..Len(p) : s[j] = Slash /\ j < Len(p) => s[j + 1] # Slash
  <2> SUFFICES ASSUME NEW j \in 1..Len(p), s[j] = Slash, j < Len(p) PROVE s[j + 1] # Slash
    OBVIOUS
  <2>1. j \in 1..(Len(p) - 1) /\ j + 1 \in 1..Len(p)
    BY <1>1
  <2>2. IsSeparator(p[j]) /\ ~IsSeparator(p[j + 1])
    BY <1>5, <2>1 DEF SeparatorsApart
  <2> QED BY <1>5, <2>1, <2>2
<1> QED BY <1>3, <1>5, <1>6 DEF Clean, s

LEMMA SlashAlone == <<Slash>> \in Seq(Nat) /\ Len(<<Slash>>) = 1 /\ Clean(<<Slash>>)
BY DEF Clean, Slash, Backslash

LEMMA EmptyClean == <<>> \in Seq(Nat) /\ Len(<<>>) = 0 /\ Clean(<<>>)
<1>1. <<>> \in Seq(Nat) /\ Len(<<>>) = 0
  BY EmptySeq
<1> QED BY <1>1 DEF Clean

LEMMA Joined ==
  ASSUME NEW S, NEW a \in Seq(S), NEW b \in Seq(S)
  PROVE  /\ a \o b \in Seq(S) /\ Len(a) \in Nat /\ Len(b) \in Nat
         /\ Len(a \o b) = Len(a) + Len(b)
         /\ \A j \in 1..Len(a) : (a \o b)[j] = a[j]
         /\ \A j \in 1..Len(b) : (a \o b)[Len(a) + j] = b[j]
<1> DEFINE c == a \o b
           m == Len(a)
           n == Len(b)
<1>1. /\ c \in Seq(S) /\ m \in Nat /\ n \in Nat /\ Len(c) = m + n
      /\ \A i \in 1..(m + n) : c[i] = IF i <= m THEN a[i] ELSE b[i - m]
  BY ConcatProperties, LenProperties
<1> HIDE DEF c, m, n
<1>2. \A j \in 1..m : c[j] = a[j]
  BY <1>1
<1>3. ASSUME NEW j \in 1..n PROVE c[m + j] = b[j]
  <2>1. m + j \in 1..(m + n) /\ ~(m + j <= m) /\ (m + j) - m = j
    BY <1>1
  <2> QED BY <1>1, <2>1
<1> QED BY <1>1, <1>2, <1>3 DEF c, m, n

LEMMA JoinedClean ==
  ASSUME NEW a \in Seq(Nat), NEW b \in Seq(Nat), Clean(a), Clean(b),
         Len(a) > 0 /\ Len(b) > 0 => a[Len(a)] # Slash \/ b[1] # Slash
  PROVE  Clean(a \o b)
<1> DEFINE c == a \o b
           m == Len(a)
           n == Len(b)
<1>1. /\ m \in Nat /\ n \in Nat /\ Len(c) = m + n
      /\ \A j \in 1..m : c[j] = a[j]
      /\ \A j \in 1..n : c[m + j] = b[j]
  BY Joined
<1>2. m > 0 /\ n > 0 => a[m] # Slash \/ b[1] # Slash
  OBVIOUS
<1>3. /\ \A j \in 1..m : a[j] # Backslash /\ (a[j] = Slash /\ j < m => a[j + 1] # Slash)
      /\ \A j \in 1..n : b[j] # Backslash /\ (b[j] = Slash /\ j < n => b[j + 1] # Slash)
  BY DEF Clean
<1> HIDE DEF c, m, n
<1> SUFFICES ASSUME NEW j \in 1..(m + n)
             PROVE  c[j] # Backslash /\ (c[j] = Slash /\ j < m + n => c[j + 1] # Slash)
  BY <1>1 DEF Clean, c
<1>4. CASE j < m
  <2>1. j \in 1..m /\ j + 1 \in 1..m
    BY <1>1, <1>4
  <2> QED BY <1>1, <1>3, <1>4, <2>1
<1>5. CASE j = m
  <2>1. j \in 1..m /\ m > 0 /\ (j < m + n => n > 0 /\ 1 \in 1..n)
    BY <1>1, <1>5
  <2>2. j < m + n => c[j + 1] = b[1]
    BY <1>1, <1>5, <2>1
  <2> QED BY <1>1, <1>2, <1>3, <1>5, <2>1, <2>2
<1>6. CASE j > m
  <2> DEFINE i == j - m
  <2>1. i \in 1..n /\ j = m + i /\ (j < m + n => i < n /\ i + 1 \in 1..n /\ j + 1 = m + (i + 1))
    BY <1>1, <1>6
  <2> HIDE DEF i
  <2>2. c[j] = b[i] /\ (j < m + n => c[j + 1] = b[i + 1])
    BY <1>1, <2>1
  <2> QED BY <1>3, <2>1, <2>2
<1> QED BY <1>1, <1>4, <1>5, <1>6

LEMMA NormalizedPrefix ==
  ASSUME NEW p \in Seq(Nat), SeparatorsApart(p)
  PROVE  /\ NormalizePrefix(p) \in Seq(Nat) /\ Clean(NormalizePrefix(p))
         /\ Len(NormalizePrefix(p)) > 0 =>
              NormalizePrefix(p)[1] # Slash /\ NormalizePrefix(p)[Len(NormalizePrefix(p))] = Slash
<1> DEFINE s == WithSlashes(p)
           t == IF s # <<>> /\ s[Len(s)] # Slash THEN Append(s, Slash) ELSE s
           q == NormalizePrefix(p)
<1>1. s \in Seq(Nat) /\ Clean(s)
  BY SlashesOnly
<1>2. q = IF t # <<>> /\ t[1] = Slash THEN Tail(t) ELSE t
  BY DEF NormalizePrefix
<1> HIDE DEF q, s
<1>3. /\ t \in Seq(Nat) /\ Clean(t) /\ Len(t) \in Nat
      /\ t # <<>> => Len(t) > 0 /\ t[Len(t)] = Slash
  <2>1. CASE s # <<>> /\ s[Len(s)] # Slash
    <3>1. t = s \o <<Slash>> /\ t = Append(s, Slash)
      BY <1>1, <2>1, AppendIsConcat DEF Slash
    <3>2. t \in Seq(Nat) /\ Len(t) = Len(s) + 1 /\ t[Len(s) + 1] = Slash
      BY <1>1, <3>1, AppendProperties DEF Slash
    <3>3. Clean(s \o <<Slash>>)
      BY <1>1, <2>1, SlashAlone, JoinedClean
    <3>4. Len(s) \in Nat
      BY <1>1, LenProperties
    <3> HIDE DEF t
    <3>5. Len(t) \in Nat /\ Len(t) > 0
      BY <3>2, <3>4
    <3> QED BY <3>1, <3>2, <3>3, <3>5
  <2>2. CASE ~(s # <<>> /\ s[Len(s)] # Slash)
    <3>1. t = s
      BY <2>2
    <3>2. Len(s) \in Nat /\ (s # <<>> => Len(s) > 0)
      BY <1>1, EmptySeq, LenProperties
    <3> HIDE DEF t
    <3> QED BY <1>1, <2>2, <3>1, <3>2
  <2> QED BY <2>1, <2>2
<1> HIDE DEF t
<1>4. CASE t # <<>> /\ t[1] = Slash
  <2> DEFINE n == Len(t)
             k == Len(q)
  <2>1. q = Tail(t) /\ t # <<>>
    BY <1>2, <1>4
  <2>2. /\ q \in Seq(Nat) /\ k = n - 1
        /\ \A j \in 1..k : q[j] = t[j + 1]
    BY <1>3, <2>1, HeadTailProperties
  <2>3. /\ n \in Nat /\ n > 0 /\ t[n] = Slash /\ t[1] = Slash
        /\ \A j \in 1..n : t[j] # Backslash /\ (t[j] = Slash /\ j < n => t[j + 1] # Slash)
    BY <1>3, <1>4 DEF Clean
  <2> HIDE DEF n, k
  <2>4. \A j \in 1..k : q[j] # Backslash /\ (q[j] = Slash /\ j < k => q[j + 1] # Slash)
    <3> SUFFICES ASSUME NEW j \in 1..k
                 PROVE  q[j] # Backslash /\ (q[j] = Slash /\ j < k => q[j + 1] # Slash)
      OBVIOUS
    <3>1. j + 1 \in 1..n /\ (j < k => j + 1 < n /\ j + 1 \in 1..k)
      BY <2>2, <2>3
    <3> QED BY <2>2, <2>3, <3>1
  <2>5. ASSUME k > 0 PROVE q[1] # Slash /\ q[k] = Slash
    <3>1. 1 \in 1..k /\ k \in 1..k /\ k + 1 = n /\ 1 < n /\ 1 \in 1..n
      BY <2>2, <2>3, <2>5
    <3>2. t[1 + 1] # Slash
      BY <2>3, <3>1
    <3> QED BY <2>2, <2>3, <3>1, <3>2
  <2> QED BY <2>2, <2>4, <2>5 DEF Clean, q, k
<1>5. CASE ~(t # <<>> /\ t[1] = Slash)
  <2>1. q = t
    BY <1>2, <1>5
  <2>2. Len(t) > 0 => t # <<>>
    BY EmptySeq
  <2> QED BY <1>3, <1>5, <2>1, <2>2 DEF q
<1> QED BY <1>4, <1>5

(* The name of an entry is relative, has slashes only and none of them next  *)
(* to another, and a slash precedes the path of the file in it.              *)
Own(f) == Len(f.rel) + (IF f.dir THEN 1 ELSE 0)
NameRelative(name, own) ==
  /\ name[1] # Slash /\ Clean(name)
  /\ own < Len(name) => name[Len(name) - own] = Slash

LEMMA NameOfEntry ==
  ASSUME NEW s \in Source, NEW f \in s.files
  PROVE  /\ f \in File
         /\ EntryName(s.prefix, f.rel, f.dir) \in Seq(Nat)
         /\ NameRelative(EntryName(s.prefix, f.rel, f.dir), Own(f))
<1> DEFINE q    == NormalizePrefix(s.prefix)
           r    == WithSlashes(f.rel)
           d    == IF f.dir THEN <<Slash>> ELSE <<>>
           z    == q \o r
           name == EntryName(s.prefix, f.rel, f.dir)
           m    == Len(q)
           n    == Len(r)
           own  == Own(f)
           e    == Len(d)
           tot  == Len(name)
<1>1. /\ s.prefix \in Seq(Nat) /\ SeparatorsApart(s.prefix)
      /\ f \in File
  BY DEF Source
<1>2. f.rel \in Path /\ f.dir \in BOOLEAN
  BY <1>1 DEF File
<1>3. /\ f.rel \in Seq(Nat) /\ SeparatorsApart(f.rel) /\ Len(f.rel) \in Nat /\ Len(f.rel) > 0
      /\ ~IsSeparator(f.rel[1]) /\ ~IsSeparator(f.rel[Len(f.rel)])
  BY <1>2, EmptySeq DEF Path
<1>4. q \in Seq(Nat) /\ Clean(q) /\ m \in Nat /\ (m > 0 => q[1] # Slash /\ q[m] = Slash)
  BY <1>1, NormalizedPrefix, LenProperties
<1>5. /\ r \in Seq(Nat) /\ Clean(r) /\ n = Len(f.rel) /\ n \in Nat /\ n > 0
      /\ r[1] # Slash /\ r[n] # Slash
  BY <1>3, SlashesOnly
<1>6. name = z \o d
  BY DEF EntryName
<1>7. /\ d \in Seq(Nat) /\ e \in Nat /\ Clean(d) /\ own = n + e
  <2>1. CASE f.dir
    BY <1>5, <2>1, SlashAlone DEF Own
  <2>2. CASE ~f.dir
    BY <1>5, <2>2, EmptyClean DEF Own
  <2> QED BY <2>1, <2>2
<1> HIDE DEF q, r, d
<1>8. /\ z \in Seq(Nat) /\ Len(z) = m + n
      /\ \A j \in 1..m : z[j] = q[j]
      /\ \A j \in 1..n : z[m + j] = r[j]
  <2>1. q \in Seq(Nat) /\ r \in Seq(Nat)
    BY <1>4, <1>5
  <2> QED BY <2>1, Joined
<1>9. Clean(z)
  BY <1>4, <1>5, JoinedClean
<1> HIDE DEF z, name, own
<1>10. /\ name \in Seq(Nat) /\ tot = Len(z) + e
       /\ \A j \in 1..Len(z) : name[j] = z[j]
  <2>1. z \in Seq(Nat) /\ d \in Seq(Nat)
    BY <1>7, <1>8
  <2> QED BY <1>6, <2>1, Joined
<1> HIDE DEF m, n, e, tot
<1>11. z[Len(z)] # Slash
  <2>1. n \in 1..n
    BY <1>5
  <2> QED BY <1>5, <1>8, <2>1
<1>12. Clean(name)
  BY <1>6, <1>7, <1>8, <1>9, <1>11, JoinedClean
<1>13. \A j \in 1..(m + n) : name[j] = z[j]
  BY <1>8, <1>10
<1>14. name[1] # Slash
  <2>1. 1 \in 1..(m + n) /\ (m > 0 => 1 \in 1..m) /\ (~(m > 0) => m + 1 = 1 /\ 1 \in 1..n)
    BY <1>4, <1>5
  <2> QED BY <1>4, <1>5, <1>8, <1>13, <2>1
<1>15. ASSUME own < tot PROVE name[tot - own] = Slash
  <2>1. m \in Nat /\ n \in Nat /\ e \in Nat /\ own = n + e /\ tot = (m + n) + e
    BY <1>4, <1>5, <1>7, <1>8, <1>10
  <2>2. tot - own = m
    BY <2>1
  <2>3. m > 0 /\ m \in 1..m /\ m \in 1..(m + n)
    BY <1>15, <2>1
  <2> QED BY <1>4, <1>8, <1>13, <2>2, <2>3
<1> QED BY <1>1, <1>10, <1>12, <1>14, <1>15 DEF NameRelative, name, own, tot

-----------------------------------------------------------------------------
(* Attributes.                                                               *)

LEMMA ShortOf == ASSUME NEW x \in Int, 0 <= x, x < 65536 PROVE Short(x) = x
BY SMT DEF Short

(* The fields of a DOS time can be told apart, and so can those of a date. *)
LEMMA TimeFields ==
  ASSUME NEW h \in Int, NEW m \in Int, NEW r \in Int, NEW x \in Int,
         0 <= h, h <= 23, 0 <= m, m <= 59, 0 <= r, r <= 29, x = h * 2048 + m * 32 + r
  PROVE  Short(x) = x /\ x \div 2048 = h /\ (x \div 32) % 64 = m /\ x % 32 = r
<1>1. Short(x) = x
  BY ShortOf, SMT
<1>2. x \div 2048 = h
  BY SMT
<1>3. x \div 32 = h * 64 + m
  BY SMT
<1>4. (h * 64 + m) % 64 = m
  BY SMT
<1>5. x % 32 = r
  BY SMT
<1> QED BY <1>1, <1>2, <1>3, <1>4, <1>5, SMT

LEMMA Halves == ASSUME NEW s \in Int, 0 <= s, s <= 59
                PROVE s \div 2 \in Int /\ 0 <= s \div 2 /\ s \div 2 <= 29
BY SMT

LEMMA ModeFields ==
  ASSUME NEW b \in Int, NEW t \in Int, NEW h \in Int, 0 <= b, b < 4096, h = b + t * 4096
  PROVE  h \div 4096 = t /\ h % 4096 = b
BY SMT
LEMMA StampFixed == ReadStamp(StampFields(FixedStamp)) = Epoch
<1>1. StampFields(FixedStamp) = FixedStamp
  BY SMT DEF StampFields, FixedStamp, Short
<1> QED BY <1>1, SMT DEF ReadStamp, FixedStamp, Epoch

LEMMA StampOfFile ==
  ASSUME NEW t \in LocalDateTime
  PROVE  ReadStamp(StampFields(DosDateTime(t))) =
           IF t.year \in 1980..2107 THEN [t EXCEPT !.second = 2 * (t.second \div 2)] ELSE Epoch
<1>1. /\ t.year \in Int /\ t.month \in 1..12 /\ t.day \in 1..31
      /\ t.hour \in 0..23 /\ t.minute \in 0..59 /\ t.second \in 0..59
      /\ t = [year |-> t.year, month |-> t.month, day |-> t.day, hour |-> t.hour,
              minute |-> t.minute, second |-> t.second]
  BY SMT DEF LocalDateTime
<1> DEFINE y == t.year - 1980
           x == y * 512 + t.month * 32 + t.day
           z == t.hour * 2048 + t.minute * 32 + t.second \div 2
           e == 2 * (t.second \div 2)
           u == [year |-> t.year, month |-> t.month, day |-> t.day, hour |-> t.hour,
                 minute |-> t.minute, second |-> e]
<1>2. [t EXCEPT !.second = e] = u
  <2> HIDE DEF e
  <2> QED BY <1>1, SMT
<1>3. DosDateTime(t) = IF t.year \in 1980..2107 THEN [date |-> x, time |-> z] ELSE FixedStamp
  <2>1. t.year \in 1980..2107 <=> ~(t.year < 1980 \/ t.year > 2107)
    BY <1>1, SMT
  <2> QED BY <2>1, SMT DEF DosDateTime
<1>4. CASE t.year \in 1980..2107
  <2>1. DosDateTime(t) = [date |-> x, time |-> z]
    BY <1>3, <1>4, SMT
  <2>2. y \in Int /\ 0 <= y /\ y <= 127 /\ 1980 + y = t.year
    BY <1>1, <1>4, SMT
  <2>3. /\ Short(x) = x
        /\ x \div 512 = y /\ (x \div 32) % 16 = t.month /\ x % 32 = t.day
    <3> DEFINE m == t.month
               d == t.day
    <3>1. m \in Int /\ 1 <= m /\ m <= 12 /\ d \in Int /\ 1 <= d /\ d <= 31
      BY <1>1, SMT
    <3> HIDE DEF m, d, y
    <3>2. x \in Int /\ x = y * 512 + m * 32 + d
      BY <2>2, <3>1, SMT DEF m, d
    <3> HIDE DEF x
    <3>3. Short(x) = x
      BY <2>2, <3>1, <3>2, ShortOf, SMT
    <3>4. x \div 512 = y
      BY <2>2, <3>1, <3>2, SMT
    <3>5. x \div 32 = y * 16 + m
      BY <2>2, <3>1, <3>2, SMT
    <3>6. (y * 16 + m) % 16 = m
      BY <2>2, <3>1, SMT
    <3>7. x % 32 = d
      BY <2>2, <3>1, <3>2, SMT
    <3> QED BY <3>3, <3>4, <3>5, <3>6, <3>7, SMT DEF m, d
  <2>4. /\ Short(z) = z
        /\ z \div 2048 = t.hour /\ (z \div 32) % 64 = t.minute /\ 2 * (z % 32) = e
    <3> DEFINE r == t.second \div 2
    <3>1. /\ t.hour \in Int /\ 0 <= t.hour /\ t.hour <= 23
          /\ t.minute \in Int /\ 0 <= t.minute /\ t.minute <= 59
          /\ t.second \in Int /\ 0 <= t.second /\ t.second <= 59
      BY <1>1, SMT
    <3>2. r \in Int /\ 0 <= r /\ r <= 29
      BY <3>1, Halves, SMT
    <3> HIDE DEF r
    <3>3. z \in Int /\ z = t.hour * 2048 + t.minute * 32 + r
      BY <3>1, <3>2, SMT DEF r
    <3> HIDE DEF z
    <3>4. /\ Short(z) = z
          /\ z \div 2048 = t.hour /\ (z \div 32) % 64 = t.minute /\ z % 32 = r
      BY <3>1, <3>2, <3>3, TimeFields, SMT
    <3> QED BY <3>4, SMT DEF r
  <2> HIDE DEF x, y, z, e
  <2>5. StampFields([date |-> x, time |-> z]) = [date |-> x, time |-> z]
    BY <2>3, <2>4, SMT DEF StampFields
  <2>6. ReadStamp([date |-> x, time |-> z]) = u
    BY <2>2, <2>3, <2>4, SMT DEF ReadStamp
  <2>7. ReadStamp(StampFields(DosDateTime(t))) = [t EXCEPT !.second = e]
    BY <1>2, <2>1, <2>5, <2>6, Zenon
  <2> QED BY <1>4, <2>7, SMT DEF e
<1>5. CASE t.year \notin 1980..2107
  BY <1>3, <1>5, StampFixed, SMT
<1> QED BY <1>4, <1>5

LEMMA ModeOfFile ==
  ASSUME NEW mode \in Modes, NEW dir \in BOOLEAN
  PROVE  LET attr == ExternalAttrFor(ExternalAttr(mode, dir), dir) IN
         /\ attr.high \div 4096 = IF dir THEN 4 ELSE 8
         /\ attr.high % 4096 = IF mode \in {NoMode, 0} THEN DefaultMode(dir) ELSE mode
         /\ (attr.low = 16) <=> dir
<1> DEFINE a    == ExternalAttr(mode, dir)
           attr == ExternalAttrFor(a, dir)
           dflt == DefaultMode(dir)
           bits == IF mode \in {NoMode, 0} THEN dflt ELSE mode
           type == IF dir THEN 4 ELSE 8
           h    == a.high
<1>1. dflt \in Int /\ 0 < dflt /\ dflt < 4096
  BY SMT DEF DefaultMode, DefaultDirMode, DefaultFileMode
<1>2. /\ mode \in Int /\ (mode = -1 \/ (0 <= mode /\ mode < 4096))
      /\ NoMode = -1
  BY SMT DEF NoMode, Modes
<1>3. h = (IF mode = NoMode THEN dflt ELSE mode) /\ a.low = IF dir THEN 16 ELSE 0
  BY SMT DEF ExternalAttr
<1>4. /\ attr.high = (IF h % 4096 = 0 THEN dflt ELSE h % 4096) + type * 4096
      /\ attr.low = a.low
  BY SMT DEF ExternalAttrFor, ExternalAttr, DirectoryBit, RegularBit
<1> HIDE DEF a, attr, dflt
<1>5. h \in Int /\ 0 <= h /\ h < 4096
  BY <1>1, <1>2, <1>3, SMT
<1>6. bits = (IF h = 0 THEN dflt ELSE h)
  BY <1>1, <1>2, <1>3, SMT
<1>7. bits \in Int /\ 0 <= bits /\ bits < 4096 /\ type \in Int
  BY <1>1, <1>2, SMT
<1> HIDE DEF bits, type, h
<1>8. h % 4096 = h
  BY <1>5, SMT
<1>9. attr.high = bits + type * 4096
  BY <1>4, <1>6, <1>8, SMT
<1>10. attr.high \div 4096 = type /\ attr.high % 4096 = bits
  <2>1. attr.high \in Int
    BY <1>7, <1>9, SMT
  <2> QED BY <1>7, <1>9, <2>1, ModeFields, SMT
<1>11. (attr.low = 16) <=> dir
  BY <1>3, <1>4, SMT
<1> QED BY <1>10, <1>11 DEF attr, bits, type, a, dflt

-----------------------------------------------------------------------------
(* Entries.                                                                  *)

Entries ==
  {EntryOf(f, name, kind, content, temp) :
     f \in File, name \in Seq(Nat), kind \in {"dir", "file", "inline"}, content \in Seq(Nat),
     temp \in Nat}

LEMMA FileFields ==
  ASSUME NEW f \in File
  PROVE  /\ f.rel \in Path /\ f.dir \in BOOLEAN /\ f.size \in Nat /\ f.modified \in LocalDateTime
         /\ f.mode \in Modes
BY DEF File

LEMMA EntryMade ==
  ASSUME NEW f \in File, NEW name \in Seq(Nat), NEW kind \in {"dir", "file", "inline"},
         NEW content \in Seq(Nat), NEW temp \in Nat
  PROVE  LET e == EntryOf(f, name, kind, content, temp) IN
         /\ e \in Entries
         /\ e.origin = f /\ e.name = name /\ e.kind = kind /\ e.content = content /\ e.temp = temp
<1>1. EntryOf(f, name, kind, content, temp) \in Entries
  BY DEF Entries
<1> QED BY <1>1 DEF EntryOf

LEMMA EntryFields ==
  ASSUME NEW e \in Entries
  PROVE  /\ e.origin \in File /\ e.name \in Seq(Nat) /\ e.content \in Seq(Nat) /\ e.temp \in Nat
         /\ e.kind \in {"dir", "file", "inline"}
         /\ e.stamp = Stamp(e.origin) /\ e.attr = ExternalAttr(e.origin.mode, e.origin.dir)
<1>1. PICK f \in File, name \in Seq(Nat), kind \in {"dir", "file", "inline"},
           content \in Seq(Nat), temp \in Nat : e = EntryOf(f, name, kind, content, temp)
  BY DEF Entries
<1>2. /\ e.origin = f /\ e.name = name /\ e.kind = kind /\ e.content = content /\ e.temp = temp
      /\ e.stamp = Stamp(f) /\ e.attr = ExternalAttr(f.mode, f.dir)
  BY <1>1 DEF EntryOf
<1> QED BY <1>2

LEMMA EntriesKept == ASSUME preserve' = preserve PROVE Entries' = Entries
BY DEF Entries, EntryOf, Stamp

LEMMA WholeContent ==
  ASSUME NEW f \in File
  PROVE  /\ f.size \in Nat /\ Whole(f) \in Seq(Nat) /\ Len(Whole(f)) = f.size
         /\ \A i \in 1..f.size : Whole(f)[i] = i
<1>1. f.size \in Nat
  BY DEF File
<1>2. /\ Whole(f) = [i \in 1..f.size |-> i]
      /\ \A i \in 1..f.size : i \in Nat
  BY <1>1 DEF Whole
<1> HIDE DEF Whole
<1> QED BY <1>1, <1>2

LEMMA PlainMade ==
  ASSUME NEW f \in File, NEW name \in Seq(Nat)
  PROVE  LET e == PlainEntry(f, name) IN
         /\ e \in Entries
         /\ e.origin = f /\ e.name = name /\ e.temp = 0
         /\ e.kind = IF f.dir THEN "dir" ELSE "file"
         /\ e.content = IF f.dir THEN <<>> ELSE Whole(f)
<1> DEFINE kind    == IF f.dir THEN "dir" ELSE "file"
           content == IF f.dir THEN <<>> ELSE Whole(f)
<1>1. kind \in {"dir", "file", "inline"} /\ content \in Seq(Nat) /\ 0 \in Nat
  BY WholeContent, EmptyClean
<1>2. PlainEntry(f, name) = EntryOf(f, name, kind, content, 0)
  BY DEF PlainEntry
<1> HIDE DEF kind, content
<1>3. /\ EntryOf(f, name, kind, content, 0) \in Entries
      /\ EntryOf(f, name, kind, content, 0).origin = f
      /\ EntryOf(f, name, kind, content, 0).name = name
      /\ EntryOf(f, name, kind, content, 0).kind = kind
      /\ EntryOf(f, name, kind, content, 0).content = content
      /\ EntryOf(f, name, kind, content, 0).temp = 0
  BY <1>1, EntryMade
<1> QED BY <1>2, <1>3 DEF kind, content

LEMMA EntryReadsBack ==
  ASSUME NEW e \in Entries
  PROVE  StampReadsBack(e) /\ ModeReadsBack(e)
<1> DEFINE f == e.origin
           t == f.modified
           full == [t EXCEPT !.second = 2 * (t.second \div 2)]
           inside == t.year \in 1980..2107
<1>1. /\ f.dir \in BOOLEAN /\ f.mode \in Modes /\ t \in LocalDateTime
      /\ e.stamp = Stamp(f) /\ e.attr = ExternalAttr(f.mode, f.dir)
  <2>1. f \in File /\ e.stamp = Stamp(f) /\ e.attr = ExternalAttr(f.mode, f.dir)
    BY EntryFields, Zenon
  <2>2. \A g \in File : g.dir \in BOOLEAN /\ g.mode \in Modes /\ g.modified \in LocalDateTime
    BY FileFields, Zenon
  <2> QED BY <2>1, <2>2, Zenon
<1>2. ReadStamp(StampFields(DosDateTime(t))) = IF inside THEN full ELSE Epoch
  <2> HIDE DEF t
  <2> QED BY <1>1, StampOfFile, SMT
<1>3. Stamp(f) = IF preserve THEN DosDateTime(t) ELSE FixedStamp
  BY SMT DEF Stamp
<1>4. StampReadsBack(e) <=> ReadStamp(StampFields(e.stamp)) = IF preserve /\ inside THEN full ELSE Epoch
  BY SMT DEF StampReadsBack
<1> HIDE DEF full, inside, t
<1>5. StampReadsBack(e)
  <2>1. CASE preserve
    BY <1>1, <1>2, <1>3, <1>4, <2>1, Zenon
  <2>2. CASE ~preserve
    BY <1>1, <1>3, <1>4, <2>2, StampFixed, Zenon
  <2> QED BY <2>1, <2>2
<1>6. ModeReadsBack(e)
  <2> DEFINE attr == ExternalAttrFor(ExternalAttr(f.mode, f.dir), f.dir)
  <2>1. /\ attr.high \div 4096 = IF f.dir THEN 4 ELSE 8
        /\ attr.high % 4096 = IF f.mode \in {NoMode, 0} THEN DefaultMode(f.dir) ELSE f.mode
        /\ (attr.low = 16) <=> f.dir
    BY <1>1, ModeOfFile, SMT
  <2> HIDE DEF attr
  <2>2. attr = ExternalAttrFor(e.attr, f.dir)
    BY <1>1, Zenon DEF attr
  <2> QED BY <2>1, <2>2, SMT DEF ModeReadsBack
<1> QED BY <1>5, <1>6

-----------------------------------------------------------------------------
(* Listing.                                                                  *)

InputsOK ==
  /\ sources \in Seq(Source) /\ walk \in Seq(File)
  /\ sources # <<>> => walk = <<>>
  /\ faults \subseteq {"caller", "task", "write"}

Before(ss, i) == UNION {NamesIn(ss[j]) : j \in 1..(i - 1)}
NamesListed(l) == {l[k].name : k \in 1..Len(l)}
WalkedNames(s, fs) == {EntryName(s.prefix, f.rel, f.dir) : f \in fs}

(* e is the file of the first source that has a file of that name. *)
FromFirst(ss, e) ==
  \E i \in 1..Len(ss) :
    /\ e.origin \in ss[i].files
    /\ e.name = EntryName(ss[i].prefix, e.origin.rel, e.origin.dir)
    /\ e.temp = 0
    /\ \A j \in 1..(i - 1) : e.name \notin NamesIn(ss[j])

NamesApart(l) == \A j, k \in 1..Len(l) : l[j].name = l[k].name => j = k

EnumInv ==
  /\ InputsOK
  /\ list \in Seq(Entries)
  /\ \A k \in 1..Len(list) : FromFirst(sources, list[k])
  /\ NamesApart(list)
  /\ pc = "enumerate" =>
       /\ source \in 1..(Len(sources) + 1) /\ seen = NamesListed(list)
       /\ source <= Len(sources) =>
            /\ walked \subseteq sources[source].files
            /\ seen = Before(sources, source) \cup WalkedNames(sources[source], walked)
       /\ source > Len(sources) => seen = Before(sources, source)
  /\ pc # "enumerate" /\ sources # <<>> =>
       NamesListed(list) = Before(sources, Len(sources) + 1) /\ InOrder(list)

LEMMA EnumInit == Init => EnumInv
<1> SUFFICES ASSUME Init PROVE EnumInv
  OBVIOUS
<1>1. <<>> \in Seq(Source) /\ <<>> \in Seq(File) /\ <<>> \in Seq(Entries) /\ Len(<<>>) = 0
  BY EmptySeq
<1>2. InputsOK
  BY <1>1, InputsAssumption, FaultsAssumption DEF Init, InputsOK
<1>3. list = <<>> /\ source = 1 /\ walked = {} /\ seen = {}
  BY DEF Init
<1>4. list \in Seq(Entries) /\ 1..Len(list) = {}
  BY <1>1, <1>3
<1>5. NamesListed(list) = {} /\ NamesApart(list)
  BY <1>4 DEF NamesListed, NamesApart
<1>6. Len(sources) \in Nat
  BY <1>2 DEF InputsOK
<1>7. Before(sources, 1) = {}
  <2>1. 1..(1 - 1) = {}
    OBVIOUS
  <2> QED BY <2>1 DEF Before
<1>8. WalkedNames(sources[1], {}) = {}
  BY DEF WalkedNames
<1>9. 1 \in 1..(Len(sources) + 1)
  BY <1>6
<1>10. pc # "enumerate" => sources = <<>>
  BY DEF Init
<1> QED BY <1>2, <1>3, <1>4, <1>5, <1>7, <1>8, <1>9, <1>10 DEF EnumInv

LEMMA AppendNames ==
  ASSUME NEW l \in Seq(Entries), NEW e \in Entries, NamesApart(l), e.name \notin NamesListed(l)
  PROVE  /\ Append(l, e) \in Seq(Entries) /\ NamesApart(Append(l, e))
         /\ NamesListed(Append(l, e)) = NamesListed(l) \cup {e.name}
<1> DEFINE l2 == Append(l, e)
           n  == Len(l)
<1>1. /\ n \in Nat /\ l2 \in Seq(Entries) /\ Len(l2) = n + 1 /\ l2[n + 1] = e
      /\ \A k \in 1..n : l2[k] = l[k]
  BY AppendProperties, LenProperties
<1>2. /\ \A j, k \in 1..n : l[j].name = l[k].name => j = k
      /\ NamesListed(l) = {l[k].name : k \in 1..n}
  BY DEF NamesApart, NamesListed
<1> HIDE DEF l2, n
<1>3. 1..(n + 1) = 1..n \cup {n + 1}
  BY <1>1
<1>4. \A j, k \in 1..(n + 1) : l2[j].name = l2[k].name => j = k
  BY <1>1, <1>2, <1>3
<1>5. {l2[k].name : k \in 1..(n + 1)} = {l[k].name : k \in 1..n} \cup {e.name}
  BY <1>1, <1>3
<1> QED BY <1>1, <1>2, <1>4, <1>5 DEF l2, NamesApart, NamesListed

LEMMA EnumWalk == EnumInv /\ WalkFile => EnumInv'
<1> SUFFICES ASSUME EnumInv, WalkFile PROVE EnumInv'
  OBVIOUS
<1>1. /\ InputsOK /\ list \in Seq(Entries) /\ NamesApart(list)
      /\ \A k \in 1..Len(list) : FromFirst(sources, list[k])
      /\ pc = "enumerate" /\ source <= Len(sources)
      /\ source \in 1..(Len(sources) + 1) /\ seen = NamesListed(list)
      /\ walked \subseteq sources[source].files
      /\ seen = Before(sources, source) \cup WalkedNames(sources[source], walked)
  BY DEF EnumInv, WalkFile
<1> DEFINE here == sources[source]
<1>2. PICK f \in here.files \ walked :
        LET name == EntryName(here.prefix, f.rel, f.dir)
        IN  /\ walked' = walked \union {f}
            /\ seen' = seen \union {name}
            /\ list' = IF name \in seen THEN list ELSE Append(list, PlainEntry(f, name))
  BY DEF WalkFile, Here
<1> DEFINE name == EntryName(here.prefix, f.rel, f.dir)
           e    == PlainEntry(f, name)
<1>3. /\ UNCHANGED <<sources, walk, preserve, faults, pc, source>>
      /\ walked' = walked \union {f} /\ seen' = seen \union {name}
      /\ list' = IF name \in seen THEN list ELSE Append(list, e)
  BY <1>2 DEF WalkFile, inputVars
<1>4. InputsOK' /\ Entries' = Entries
  BY <1>1, <1>3, EntriesKept DEF InputsOK
<1>5. source \in 1..Len(sources) /\ Len(sources) \in Nat /\ ~(source > Len(sources))
  BY <1>1 DEF InputsOK
<1>6. here \in Source
  BY <1>1, <1>5, ElementOfSeq DEF InputsOK
<1>7. f \in File /\ name \in Seq(Nat)
  BY <1>2, <1>6, NameOfEntry
<1>8. e \in Entries /\ e.origin = f /\ e.name = name /\ e.temp = 0
  <2> HIDE DEF name
  <2> QED BY <1>7, PlainMade
<1> HIDE DEF name, e
<1>9. /\ list' \in Seq(Entries) /\ NamesApart(list')
      /\ NamesListed(list') = seen \cup {name}
      /\ \A k \in 1..Len(list') : FromFirst(sources, list'[k])
  <2>1. CASE name \in seen
    BY <1>1, <1>3, <2>1
  <2>2. CASE name \notin seen
    <3>1. list' = Append(list, e)
      BY <1>3, <2>2
    <3>2. /\ list' \in Seq(Entries) /\ NamesApart(list')
          /\ NamesListed(list') = seen \cup {name}
      BY <1>1, <1>8, <2>2, <3>1, AppendNames
    <3>3. FromFirst(sources, e)
      <4>1. \A j \in 1..(source - 1) : name \notin NamesIn(sources[j])
        BY <1>1, <2>2 DEF Before
      <4>2. name = EntryName(here.prefix, e.origin.rel, e.origin.dir)
        BY <1>8 DEF name
      <4> QED BY <1>2, <1>5, <1>8, <4>1, <4>2 DEF FromFirst
    <3>4. /\ Len(list) \in Nat /\ Len(list') = Len(list) + 1 /\ list'[Len(list) + 1] = e
          /\ \A k \in 1..Len(list) : list'[k] = list[k]
      BY <1>1, <1>8, <3>1, AppendProperties, LenProperties
    <3>5. \A k \in 1..Len(list') : k \in 1..Len(list) \/ k = Len(list) + 1
      BY <3>4
    <3> QED BY <1>1, <3>2, <3>3, <3>4, <3>5
  <2> QED BY <2>1, <2>2
<1>10. WalkedNames(here, walked \cup {f}) = WalkedNames(here, walked) \cup {name}
  BY DEF WalkedNames, name
<1>11. /\ walked' \subseteq here.files
       /\ seen' = Before(sources, source) \cup WalkedNames(here, walked')
  BY <1>1, <1>2, <1>3, <1>10
<1> QED BY <1>1, <1>3, <1>4, <1>5, <1>9, <1>11 DEF EnumInv

LEMMA BeforeNext ==
  ASSUME NEW ss, NEW i \in Nat \ {0}
  PROVE  Before(ss, i + 1) = Before(ss, i) \cup NamesIn(ss[i])
<1>1. (i + 1) - 1 = i /\ 1..i = 1..(i - 1) \cup {i}
  OBVIOUS
<1> QED BY <1>1 DEF Before

LEMMA EnumNext == EnumInv /\ NextSource => EnumInv'
<1> SUFFICES ASSUME EnumInv, NextSource PROVE EnumInv'
  OBVIOUS
<1>1. /\ InputsOK /\ list \in Seq(Entries) /\ NamesApart(list)
      /\ \A k \in 1..Len(list) : FromFirst(sources, list[k])
      /\ pc = "enumerate" /\ source <= Len(sources)
      /\ source \in 1..(Len(sources) + 1) /\ seen = NamesListed(list)
      /\ walked = sources[source].files
      /\ seen = Before(sources, source) \cup WalkedNames(sources[source], walked)
  BY DEF EnumInv, NextSource, Here
<1>2. /\ UNCHANGED <<sources, walk, preserve, faults, pc, seen, list>>
      /\ source' = source + 1 /\ walked' = {}
  BY DEF NextSource, inputVars
<1>3. InputsOK' /\ Entries' = Entries
  BY <1>1, <1>2, EntriesKept DEF InputsOK
<1>4. Len(sources) \in Nat /\ source \in Nat \ {0}
  BY <1>1 DEF InputsOK
<1>5. source' \in 1..(Len(sources) + 1)
  BY <1>1, <1>2, <1>4
<1>6. seen = Before(sources, source')
  <2>1. WalkedNames(sources[source], walked) = NamesIn(sources[source])
    BY <1>1 DEF WalkedNames, NamesIn
  <2> QED BY <1>1, <1>2, <1>4, <2>1, BeforeNext
<1>7. WalkedNames(sources[source'], {}) = {}
  BY DEF WalkedNames
<1> QED BY <1>1, <1>2, <1>3, <1>5, <1>6, <1>7 DEF EnumInv

(* A permutation of a list has its entries, each once. *)
LEMMA Reordered ==
  ASSUME NEW l \in Seq(Entries), NEW r \in Reorderings(l), NamesApart(l)
  PROVE  /\ r \in Seq(Entries) /\ NamesApart(r) /\ NamesListed(r) = NamesListed(l)
         /\ \A k \in 1..Len(r) : \E j \in 1..Len(l) : r[k] = l[j]
<1> DEFINE n == Len(l)
<1>1. n \in Nat /\ DOMAIN l = 1..n /\ \A k \in 1..n : l[k] \in Entries
  BY LenProperties, ElementOfSeq
<1>2. PICK p \in Bijection(1..n, 1..n) : r = [i \in 1..n |-> l[p[i]]]
  BY <1>1 DEF Reorderings
<1> HIDE DEF n
<1>3. /\ p \in [1..n -> 1..n]
      /\ \A j \in 1..n : \E i \in 1..n : p[i] = j
  BY DEF Bijection, Surjection
<1>4. \A i, j \in 1..n : p[i] = p[j] => i = j
  <2>1. IsInjective(p) /\ DOMAIN p = 1..n
    BY <1>3 DEF Bijection, Injection
  <2> QED BY <2>1 DEF IsInjective
<1>5. \A i \in 1..n : p[i] \in 1..n /\ l[p[i]] \in Entries
  BY <1>1, <1>3
<1>6. r \in Seq(Entries) /\ Len(r) = n
  BY <1>1, <1>2, <1>5
<1>7. \A i \in 1..n : r[i] = l[p[i]]
  BY <1>2
<1>8. NamesApart(r)
  <2>1. \A i, j \in 1..n : l[i].name = l[j].name => i = j
    BY DEF NamesApart, n
  <2>2. \A i, j \in 1..n : r[i].name = r[j].name => i = j
    BY <1>4, <1>5, <1>7, <2>1, SMTT(40)
  <2> QED BY <1>6, <2>2 DEF NamesApart
<1>9. {r[k].name : k \in 1..n} = {l[k].name : k \in 1..n}
  <2>1. \A i \in 1..n : r[i].name \in {l[k].name : k \in 1..n}
    BY <1>5, <1>7
  <2>2. \A j \in 1..n : l[j].name \in {r[k].name : k \in 1..n}
    <3> SUFFICES ASSUME NEW j \in 1..n PROVE l[j].name \in {r[k].name : k \in 1..n}
      OBVIOUS
    <3>1. PICK i \in 1..n : p[i] = j
      BY <1>3
    <3> QED BY <1>7, <3>1
  <2> QED BY <2>1, <2>2
<1>10. \A k \in 1..n : \E j \in 1..n : r[k] = l[j]
  BY <1>5, <1>7
<1> QED BY <1>6, <1>8, <1>9, <1>10 DEF NamesListed, n

LEMMA EnumSort == EnumInv /\ SortList => EnumInv'
<1> SUFFICES ASSUME EnumInv, SortList PROVE EnumInv'
  OBVIOUS
<1>1. /\ InputsOK /\ list \in Seq(Entries) /\ NamesApart(list)
      /\ \A k \in 1..Len(list) : FromFirst(sources, list[k])
      /\ pc = "enumerate" /\ source > Len(sources)
      /\ source \in 1..(Len(sources) + 1) /\ seen = NamesListed(list)
      /\ seen = Before(sources, source)
  BY DEF EnumInv, SortList
<1>2. /\ UNCHANGED <<sources, walk, preserve, faults, source, walked, seen>>
      /\ pc' = "open" /\ list' \in Reorderings(list) /\ InOrder(list')
  BY DEF SortList, inputVars
<1>3. InputsOK' /\ Entries' = Entries
  BY <1>1, <1>2, EntriesKept DEF InputsOK
<1>4. Len(sources) \in Nat /\ source = Len(sources) + 1
  BY <1>1 DEF InputsOK
<1>5. /\ list' \in Seq(Entries) /\ NamesApart(list') /\ NamesListed(list') = NamesListed(list)
      /\ \A k \in 1..Len(list') : \E j \in 1..Len(list) : list'[k] = list[j]
  BY <1>1, <1>2, Reordered
<1>6. \A k \in 1..Len(list') : FromFirst(sources, list'[k])
  BY <1>1, <1>5
<1> QED BY <1>1, <1>2, <1>3, <1>4, <1>5, <1>6 DEF EnumInv

(* Whatever is not of enumerate() leaves the list alone. *)
NotListing ==
  /\ UNCHANGED <<inputVars, enumVars>>
  /\ pc' = pc \/ (pc # "enumerate" /\ pc' # "enumerate")

LEMMA EnumKept == EnumInv /\ NotListing => EnumInv'
<1> SUFFICES ASSUME EnumInv, NotListing PROVE EnumInv'
  OBVIOUS
<1>1. /\ UNCHANGED <<sources, walk, preserve, faults, source, walked, seen, list>>
      /\ pc' = "enumerate" => pc = "enumerate"
      /\ pc' # "enumerate" => pc # "enumerate"
  BY DEF NotListing, inputVars, enumVars
<1>2. InputsOK' /\ Entries' = Entries
  BY <1>1, EntriesKept DEF InputsOK, EnumInv
<1> QED BY <1>1, <1>2 DEF EnumInv, InOrder

LEMMA ListingOrNot ==
  [Next]_vars => WalkFile \/ NextSource \/ SortList \/ NotListing
<1> SUFFICES ASSUME [Next]_vars, ~WalkFile, ~NextSource, ~SortList PROVE NotListing
  OBVIOUS
<1>1. CASE OpenSpillDir
  BY <1>1 DEF OpenSpillDir, NotListing
<1>2. CASE AddListed
  BY <1>2 DEF AddListed, NotListing
<1>3. CASE AddDetails
  BY <1>3 DEF AddDetails, NotListing
<1>4. CASE OpenStream
  BY <1>4 DEF OpenStream, Walking, NotListing
<1>5. CASE ReadChunk
  BY <1>5 DEF ReadChunk, NotListing
<1>6. CASE AddMaterialized
  BY <1>6 DEF AddMaterialized, NotListing
<1>7. CASE Abandon
  BY <1>7 DEF Abandon, NotListing
<1>8. ASSUME NEW k \in 1..Len(handed), PipelineStep(k) PROVE NotListing
  BY <1>8 DEF PipelineStep, CompressInMemory, StoreLarge, Spill, Spilled, UnitFails, WriteEntry,
              NotListing, enumVars
<1>9. CASE WriterDies
  BY <1>9 DEF WriterDies, NotListing
<1>10. CASE Finish
  BY <1>10 DEF Finish, NotListing
<1>11. CASE ListSpillDir
  BY <1>11 DEF ListSpillDir, NotListing
<1>12. CASE DeleteTemp
  BY <1>12 DEF DeleteTemp, NotListing
<1>13. CASE DeleteSpillDir
  BY <1>13 DEF DeleteSpillDir, NotListing
<1>14. CASE Terminated \/ UNCHANGED vars
  BY <1>14 DEF Terminated, vars, NotListing
<1> QED BY <1>1, <1>2, <1>3, <1>4, <1>5, <1>6, <1>7, <1>8, <1>9, <1>10, <1>11, <1>12, <1>13, <1>14
        DEF Next

LEMMA EnumInvariant == Spec => []EnumInv
<1>1. EnumInv /\ [Next]_vars => EnumInv'
  BY EnumWalk, EnumNext, EnumSort, EnumKept, ListingOrNot
<1> QED BY <1>1, EnumInit, PTL DEF Spec

LEMMA FirstIsFirst ==
  ASSUME EnumInv, NEW e \in Entries, FromFirst(sources, e)
  PROVE  e.origin \in sources[FirstWith(e.name)].files
<1> DEFINE P(i) == /\ e.name \in NamesIn(sources[i])
                   /\ \A j \in 1..(i - 1) : e.name \notin NamesIn(sources[j])
           n    == Len(sources)
           f    == FirstWith(e.name)
<1>1. n \in Nat /\ DOMAIN sources = 1..n
  BY LenProperties DEF EnumInv, InputsOK
<1>2. PICK i \in 1..n :
        /\ e.origin \in sources[i].files
        /\ e.name = EntryName(sources[i].prefix, e.origin.rel, e.origin.dir)
        /\ \A j \in 1..(i - 1) : e.name \notin NamesIn(sources[j])
  BY DEF FromFirst
<1>3. P(i)
  BY <1>2 DEF NamesIn
<1>4. f = CHOOSE k \in 1..n : P(k)
  BY <1>1 DEF FirstWith
<1> HIDE DEF f, n
<1>5. f \in 1..n /\ P(f)
  <2> HIDE DEF P
  <2> QED BY <1>2, <1>3, <1>4
<1>6. ~(i < f) /\ ~(f < i)
  <2>1. i < f => i \in 1..(f - 1)
    BY <1>1, <1>2, <1>5
  <2>2. f < i => f \in 1..(i - 1)
    BY <1>1, <1>2, <1>5
  <2> QED BY <1>3, <1>5, <2>1, <2>2
<1>7. f = i
  BY <1>1, <1>2, <1>5, <1>6
<1> QED BY <1>2, <1>7 DEF f

(* The listing is right whatever the trees and their prefixes are and in      *)
(* whatever order Files.walk yields their files: every name once and in       *)
(* order, of the first source that has it, a relative path with slashes only. *)
THEOREM ListingCorrect == Spec => []EntriesListed
<1>1. EnumInv => EntriesListed
  <2> SUFFICES ASSUME EnumInv PROVE EntriesListed
    OBVIOUS
  <2>1. /\ list \in Seq(Entries) /\ NamesApart(list) /\ sources \in Seq(Source)
        /\ \A k \in 1..Len(list) : FromFirst(sources, list[k])
    BY DEF EnumInv, InputsOK
  <2>2. /\ Len(list) \in Nat /\ DOMAIN list = 1..Len(list)
        /\ Len(sources) \in Nat /\ DOMAIN sources = 1..Len(sources)
        /\ \A k \in 1..Len(list) : list[k] \in Entries
    BY <2>1, LenProperties, ElementOfSeq
  <2>3. ListedOnce
    <3> SUFFICES ASSUME sources # <<>>, pc # "enumerate"
                 PROVE  /\ {list[i].name : i \in DOMAIN list}
                             = UNION {NamesIn(sources[i]) : i \in DOMAIN sources}
                        /\ \A i, j \in DOMAIN list : i < j => Less(list[i].name, list[j].name)
                        /\ \A i \in DOMAIN list :
                             list[i].origin \in sources[FirstWith(list[i].name)].files
      BY DEF ListedOnce
    <3>1. NamesListed(list) = Before(sources, Len(sources) + 1) /\ InOrder(list)
      BY DEF EnumInv
    <3>2. (Len(sources) + 1) - 1 = Len(sources)
      BY <2>2
    <3>3. {list[i].name : i \in DOMAIN list} = UNION {NamesIn(sources[i]) : i \in DOMAIN sources}
      BY <2>2, <3>1, <3>2 DEF NamesListed, Before
    <3>4. ASSUME NEW i \in DOMAIN list, NEW j \in DOMAIN list, i < j
          PROVE  Less(list[i].name, list[j].name)
      <4>1. Less(list[i].name, list[j].name) \/ list[i].name = list[j].name
        BY <3>1, <3>4 DEF InOrder
      <4>2. i # j
        BY <2>2, <3>4
      <4> QED BY <2>1, <2>2, <4>1, <4>2 DEF NamesApart
    <3>5. ASSUME NEW i \in DOMAIN list
          PROVE  list[i].origin \in sources[FirstWith(list[i].name)].files
      BY <2>1, <2>2, FirstIsFirst
    <3> QED BY <3>3, <3>4, <3>5
  <2>4. NamesRelative
    <3> SUFFICES ASSUME NEW k \in DOMAIN list
                 PROVE  LET name == list[k].name
                            own  == Len(list[k].origin.rel) + (IF list[k].origin.dir THEN 1 ELSE 0)
                        IN  /\ name[1] # Slash
                            /\ \A j \in DOMAIN name :
                                 /\ name[j] # Backslash
                                 /\ name[j] = Slash /\ j < Len(name) => name[j + 1] # Slash
                            /\ own < Len(name) => name[Len(name) - own] = Slash
      BY DEF NamesRelative
    <3> DEFINE name == list[k].name
               f    == list[k].origin
    <3>1. PICK i \in 1..Len(sources) :
            f \in sources[i].files /\ name = EntryName(sources[i].prefix, f.rel, f.dir)
      BY <2>1, <2>2 DEF FromFirst
    <3>2. sources[i] \in Source
      BY <2>1, <3>1, ElementOfSeq
    <3>3. name \in Seq(Nat) /\ NameRelative(name, Own(f))
      BY <3>1, <3>2, NameOfEntry
    <3>4. DOMAIN name = 1..Len(name)
      BY <3>3, LenProperties
    <3> HIDE DEF name, f
    <3>5. /\ name[1] # Slash
          /\ \A j \in DOMAIN name :
               /\ name[j] # Backslash
               /\ name[j] = Slash /\ j < Len(name) => name[j + 1] # Slash
          /\ Own(f) < Len(name) => name[Len(name) - Own(f)] = Slash
      BY <3>3, <3>4 DEF NameRelative, Clean
    <3> QED BY <3>5 DEF Own, name, f
  <2> QED BY <2>3, <2>4 DEF EntriesListed
<1> QED BY <1>1, EnumInvariant, PTL

-----------------------------------------------------------------------------
(* Handing over.                                                             *)

Stages   == {"queued", "deflating", "done", "failed", "written"}
Payloads == {"memory", "input", "spill"}
InStream == pc \in {"read", "overflow"}

HandTypes ==
  /\ handed \in Seq(Entries) /\ stage \in Seq(Stages) /\ payload \in Seq(Payloads)
  /\ Len(stage) = Len(handed) /\ Len(payload) = Len(handed)

(* A temporary input is large. *)
TempIsLarge(e) == e.temp # 0 => e.kind = "file" /\ Len(e.content) > SpillThreshold

FromWalk(f, e) ==
  /\ e.origin = f
  /\ ~f.dir => e.content = Whole(f)
  /\ e.kind = "inline" => Len(e.content) <= SpillThreshold
  /\ f.filtered => (e.temp # 0 <=> f.size > SpillThreshold)

HandedFrom ==
  /\ \A k \in 1..Len(handed) : TempIsLarge(handed[k])
  /\ walk # <<>> =>
       /\ Len(handed) <= Len(walk)
       /\ \A k \in 1..Len(handed) : FromWalk(walk[k], handed[k])

(* What was read of the stream of f, and what is left of it. *)
Reading(f, read, rest) ==
  /\ read \in Seq(Nat) /\ rest \in Seq(Nat) /\ Len(read) + Len(rest) = f.size
  /\ \A i \in 1..Len(read) : read[i] = i
  /\ \A i \in 1..Len(rest) : rest[i] = Len(read) + i

ReadInv ==
  InStream =>
    /\ Len(handed) < Len(walk)
    /\ Reading(walk[Len(handed) + 1], buf, left)
    /\ pc = "read" => Len(buf) <= SpillThreshold
    /\ pc = "overflow" => Len(buf) > SpillThreshold

HandInv == HandTypes /\ HandedFrom /\ ReadInv

LEMMA HandInit == Init => HandInv
<1> SUFFICES ASSUME Init PROVE HandInv
  OBVIOUS
<1>1. handed = <<>> /\ stage = <<>> /\ payload = <<>> /\ ~InStream
  BY DEF Init, InStream
<1>2. /\ <<>> \in Seq(Entries) /\ <<>> \in Seq(Stages) /\ <<>> \in Seq(Payloads)
      /\ Len(<<>>) = 0
  BY EmptySeq
<1>3. Len(handed) = 0 /\ 1..Len(handed) = {}
  BY <1>1, <1>2
<1>4. Len(walk) \in Nat
  BY EnumInit, LenProperties DEF EnumInv, InputsOK
<1>5. HandTypes
  BY <1>1, <1>2 DEF HandTypes
<1>6. HandedFrom
  BY <1>3, <1>4 DEF HandedFrom
<1> QED BY <1>1, <1>5, <1>6 DEF HandInv, ReadInv

LEMMA Handed ==
  ASSUME HandTypes, HandedFrom, EnumInv, UNCHANGED inputVars, ~InStream',
         NEW e \in Entries, Hand(e), TempIsLarge(e),
         walk # <<>> => Len(handed) < Len(walk) /\ FromWalk(walk[Len(handed) + 1], e)
  PROVE  HandInv'
<1> DEFINE n == Len(handed)
<1>1. /\ handed' = Append(handed, e) /\ stage' = Append(stage, "queued")
      /\ payload' = Append(payload, "memory") /\ walk' = walk /\ preserve' = preserve
  BY DEF Hand, inputVars
<1>2. /\ handed \in Seq(Entries) /\ stage \in Seq(Stages) /\ payload \in Seq(Payloads)
      /\ Len(stage) = n /\ Len(payload) = n /\ n \in Nat
      /\ "queued" \in Stages /\ "memory" \in Payloads
  BY LenProperties DEF HandTypes, Stages, Payloads
<1>3. /\ handed' \in Seq(Entries) /\ Len(handed') = n + 1 /\ handed'[n + 1] = e
      /\ \A k \in 1..n : handed'[k] = handed[k]
  BY <1>1, <1>2, AppendProperties
<1>4. stage' \in Seq(Stages) /\ Len(stage') = n + 1
  BY <1>1, <1>2, AppendProperties
<1>5. payload' \in Seq(Payloads) /\ Len(payload') = n + 1
  BY <1>1, <1>2, AppendProperties
<1>6. Entries' = Entries
  BY <1>1, EntriesKept
<1>7. HandTypes'
  BY <1>3, <1>4, <1>5, <1>6 DEF HandTypes, Stages, Payloads
<1>8. 1..(n + 1) = 1..n \cup {n + 1}
  BY <1>2
<1>9. Len(walk) \in Nat
  BY LenProperties DEF EnumInv, InputsOK
<1>10. HandedFrom'
  <2>1. \A k \in 1..n : TempIsLarge(handed[k])
    BY DEF HandedFrom
  <2>2. \A k \in 1..(n + 1) : TempIsLarge(handed'[k])
    BY <1>3, <1>8, <2>1
  <2>3. ASSUME walk # <<>>
        PROVE  n + 1 <= Len(walk) /\ \A k \in 1..(n + 1) : FromWalk(walk[k], handed'[k])
    <3>1. n < Len(walk) /\ FromWalk(walk[n + 1], e)
      BY <2>3
    <3>2. \A k \in 1..n : FromWalk(walk[k], handed[k])
      BY <2>3 DEF HandedFrom
    <3> HIDE DEF n
    <3>3. n + 1 <= Len(walk)
      BY <1>2, <1>9, <3>1
    <3> QED BY <1>3, <1>8, <3>1, <3>2, <3>3
  <2> QED BY <1>1, <1>3, <2>2, <2>3 DEF HandedFrom
<1>11. ReadInv'
  BY DEF ReadInv
<1> QED BY <1>7, <1>10, <1>11 DEF HandInv

LEMMA HandListed == EnumInv /\ HandInv /\ AddListed => HandInv'
<1> SUFFICES ASSUME EnumInv, HandInv, AddListed PROVE HandInv'
  OBVIOUS
<1> DEFINE n == Len(handed)
           e == list[n + 1]
<1>1. /\ HandTypes /\ HandedFrom /\ UNCHANGED inputVars /\ Hand(e)
      /\ pc = "feed" /\ pc' = pc /\ n < Len(list)
  BY DEF AddListed, HandInv
<1>2. n \in Nat /\ Len(list) \in Nat /\ list \in Seq(Entries)
  BY <1>1, LenProperties DEF HandTypes, EnumInv
<1>3. n + 1 \in 1..Len(list)
  BY <1>1, <1>2
<1>4. e \in Entries /\ FromFirst(sources, e)
  BY <1>2, <1>3, ElementOfSeq DEF EnumInv
<1>5. e.temp = 0 /\ Len(sources) > 0
  BY <1>4, LenProperties DEF FromFirst, EnumInv, InputsOK
<1>6. walk = <<>>
  BY <1>5, EmptySeq DEF EnumInv, InputsOK
<1>7. TempIsLarge(e)
  BY <1>5 DEF TempIsLarge
<1>8. ~InStream'
  BY <1>1 DEF InStream
<1> HIDE DEF e
<1> QED BY <1>1, <1>4, <1>6, <1>7, <1>8, Handed

LEMMA NextDetails ==
  ASSUME EnumInv, HandTypes, Len(handed) < Len(walk)
  PROVE  /\ Len(handed) \in Nat /\ Len(handed) + 1 \in 1..Len(walk)
         /\ walk[Len(handed) + 1] \in File
         /\ walk[Len(handed) + 1].rel \in Seq(Nat)
<1>1. Len(handed) \in Nat /\ Len(walk) \in Nat /\ walk \in Seq(File)
  BY LenProperties DEF EnumInv, InputsOK, HandTypes
<1>2. Len(handed) + 1 \in 1..Len(walk)
  BY <1>1
<1>3. walk[Len(handed) + 1] \in File
  BY <1>1, <1>2, ElementOfSeq
<1>4. walk[Len(handed) + 1].rel \in Path
  BY <1>3, FileFields
<1> QED BY <1>1, <1>2, <1>3, <1>4 DEF Path

LEMMA HandDetails == EnumInv /\ HandInv /\ AddDetails => HandInv'
<1> SUFFICES ASSUME EnumInv, HandInv, AddDetails PROVE HandInv'
  OBVIOUS
<1> DEFINE f == walk[Len(handed) + 1]
           name == IF f.dir THEN Append(f.rel, Slash) ELSE f.rel
           e == PlainEntry(f, name)
<1>1. /\ HandTypes /\ HandedFrom /\ UNCHANGED inputVars /\ Hand(e)
      /\ pc = "feed" /\ pc' = pc /\ Len(handed) < Len(walk) /\ ~f.filtered
  BY DEF AddDetails, Walking, Details, HandInv
<1>2. f \in File /\ f.rel \in Seq(Nat) /\ Slash \in Nat
  BY <1>1, NextDetails DEF Slash
<1> HIDE DEF f
<1>3. name \in Seq(Nat)
  BY <1>2, AppendProperties
<1> HIDE DEF name
<1>4. /\ e \in Entries
      /\ e.origin = f /\ e.temp = 0 /\ e.kind # "inline"
      /\ ~f.dir => e.content = Whole(f)
  BY <1>2, <1>3, PlainMade
<1> HIDE DEF e
<1>5. TempIsLarge(e) /\ FromWalk(f, e)
  BY <1>1, <1>4 DEF TempIsLarge, FromWalk
<1>6. ~InStream'
  BY <1>1 DEF InStream
<1>7. walk # <<>> => Len(handed) < Len(walk) /\ FromWalk(walk[Len(handed) + 1], e)
  BY <1>1, <1>5 DEF f
<1> QED BY <1>1, <1>4, <1>5, <1>6, <1>7, Handed

LEMMA HandMaterialized == EnumInv /\ HandInv /\ AddMaterialized => HandInv'
<1> SUFFICES ASSUME EnumInv, HandInv, AddMaterialized PROVE HandInv'
  OBVIOUS
<1> DEFINE n == Len(handed)
           f == walk[n + 1]
           e == IF pc = "read" THEN EntryOf(f, f.rel, "inline", buf, 0)
                               ELSE EntryOf(f, f.rel, "file", buf, n + 1)
<1>1. /\ HandTypes /\ HandedFrom /\ UNCHANGED inputVars /\ Hand(e)
      /\ pc \in {"read", "overflow"} /\ pc' = "feed" /\ left = <<>>
  BY DEF AddMaterialized, Details, HandInv
<1>2. /\ n < Len(walk) /\ Reading(f, buf, left)
      /\ pc = "read" => Len(buf) <= SpillThreshold
      /\ pc = "overflow" => Len(buf) > SpillThreshold
  BY <1>1 DEF HandInv, ReadInv, InStream
<1>3. f \in File /\ f.rel \in Seq(Nat) /\ n \in Nat
  BY <1>1, <1>2, NextDetails
<1> HIDE DEF n, f
<1>4. /\ buf \in Seq(Nat) /\ Len(buf) = f.size /\ \A i \in 1..Len(buf) : buf[i] = i
      /\ Len(buf) \in Nat
  <2>1. Len(left) = 0
    BY <1>1, EmptySeq
  <2>2. /\ buf \in Seq(Nat) /\ Len(buf) + Len(left) = f.size
        /\ \A i \in 1..Len(buf) : buf[i] = i
    BY <1>2 DEF Reading
  <2>3. Len(buf) \in Nat
    BY <2>2, LenProperties
  <2> QED BY <2>1, <2>2, <2>3
<1>5. buf = Whole(f)
  <2>1. /\ Whole(f) \in Seq(Nat) /\ Len(Whole(f)) = f.size
        /\ \A i \in 1..f.size : Whole(f)[i] = i
    BY <1>3, WholeContent
  <2> QED BY <1>4, <2>1, SeqEqual
<1>6. /\ e \in Entries /\ e.origin = f /\ e.content = buf
      /\ pc = "read" => e.kind = "inline" /\ e.temp = 0
      /\ pc = "overflow" => e.kind = "file" /\ e.temp = n + 1
  <2>1. CASE pc = "read"
    <3>1. e = EntryOf(f, f.rel, "inline", buf, 0)
      BY <2>1
    <3> HIDE DEF e
    <3> QED BY <1>3, <1>4, <2>1, <3>1, EntryMade, SMTT(40)
  <2>2. CASE pc = "overflow"
    <3>1. e = EntryOf(f, f.rel, "file", buf, n + 1) /\ n + 1 \in Nat
      BY <1>3, <2>2
    <3> HIDE DEF e
    <3> QED BY <1>3, <1>4, <2>2, <3>1, EntryMade
  <2> QED BY <1>1, <2>1, <2>2
<1> HIDE DEF e
<1>7. SpillThreshold \in Nat
  BY SpillAssumption
<1>8. pc = "read" \/ (pc = "overflow" /\ n + 1 # 0)
  BY <1>1, <1>3
<1>9. TempIsLarge(e) /\ FromWalk(f, e)
  <2>1. CASE pc = "read"
    <3>1. ~(f.size > SpillThreshold)
      BY <1>2, <1>4, <1>7, <2>1
    <3> QED BY <1>2, <1>5, <1>6, <2>1, <3>1 DEF TempIsLarge, FromWalk
  <2>2. CASE pc = "overflow" /\ n + 1 # 0
    <3>1. f.size > SpillThreshold
      BY <1>2, <1>4, <1>7, <2>2
    <3> QED BY <1>2, <1>5, <1>6, <2>2, <3>1 DEF TempIsLarge, FromWalk
  <2> QED BY <1>8, <2>1, <2>2
<1>10. ~InStream'
  BY <1>1 DEF InStream
<1>11. walk # <<>> => Len(handed) < Len(walk) /\ FromWalk(walk[Len(handed) + 1], e)
  BY <1>2, <1>9 DEF f, n
<1> QED BY <1>1, <1>6, <1>9, <1>10, <1>11, Handed

LEMMA HandStream == EnumInv /\ HandInv /\ OpenStream => HandInv'
<1> SUFFICES ASSUME EnumInv, HandInv, OpenStream PROVE HandInv'
  OBVIOUS
<1> DEFINE f == walk[Len(handed) + 1]
<1>1. /\ HandTypes /\ HandedFrom /\ UNCHANGED <<walk, preserve, handed, stage, payload>>
      /\ pc' = "read" /\ buf' = <<>> /\ left' = Whole(f) /\ Len(handed) < Len(walk)
  BY DEF OpenStream, Walking, Details, HandInv, inputVars, sinkVars
<1>2. Entries' = Entries
  BY <1>1, EntriesKept
<1>3. f \in File
  BY <1>1, NextDetails
<1> HIDE DEF f
<1>4. Reading(f, <<>>, Whole(f))
  <2>1. /\ f.size \in Nat /\ Whole(f) \in Seq(Nat) /\ Len(Whole(f)) = f.size
        /\ \A i \in 1..f.size : Whole(f)[i] = i
    BY <1>3, WholeContent
  <2>2. <<>> \in Seq(Nat) /\ Len(<<>>) = 0 /\ 1..0 = {}
    BY EmptySeq
  <2>3. \A i \in 1..f.size : 0 + i = i
    BY <2>1
  <2> QED BY <2>1, <2>2, <2>3 DEF Reading
<1>5. 0 <= SpillThreshold /\ Len(<<>>) = 0
  BY SpillAssumption, EmptySeq
<1>6. ReadInv'
  BY <1>1, <1>4, <1>5 DEF ReadInv, f
<1>7. HandTypes' /\ HandedFrom'
  BY <1>1, <1>2 DEF HandTypes, HandedFrom
<1> QED BY <1>6, <1>7 DEF HandInv

(* read() returns some of what is left. *)
LEMMA ReadOn ==
  ASSUME NEW f \in File, NEW read, NEW rest, Reading(f, read, rest),
         NEW n \in Nat, 0 < n, n <= Len(rest)
  PROVE  /\ Reading(f, read \o SubSeq(rest, 1, n), SubSeq(rest, n + 1, Len(rest)))
         /\ Len(read \o SubSeq(rest, 1, n)) = Len(read) + n /\ Len(read) \in Nat
<1> DEFINE a == SubSeq(rest, 1, n)
           b == SubSeq(rest, n + 1, Len(rest))
           c == read \o a
           l == Len(rest)
           r == Len(read)
<1>1. /\ read \in Seq(Nat) /\ rest \in Seq(Nat) /\ r + l = f.size
      /\ \A i \in 1..r : read[i] = i
      /\ \A i \in 1..l : rest[i] = r + i
  BY DEF Reading
<1>2. l \in Nat /\ r \in Nat /\ n <= l /\ \A i \in 1..l : rest[i] \in Nat
  BY <1>1, LenProperties, ElementOfSeq
<1>3. /\ a \in Seq(Nat) /\ Len(a) = n /\ \A i \in 1..n : a[i] = rest[i]
  <2>1. \A i \in 1..n : i \in 1..l /\ (1 + i) - 1 = i
    BY <1>2
  <2>2. \A i \in 1..n : rest[i] \in Nat
    BY <1>2, <2>1
  <2>3. /\ a \in Seq(Nat) /\ Len(a) = (IF 1 <= n THEN (n - 1) + 1 ELSE 0)
        /\ \A i \in 1..((n - 1) + 1) : a[i] = rest[(1 + i) - 1]
    BY <2>2, SubSeqProperties
  <2>4. (n - 1) + 1 = n /\ 1 <= n
    OBVIOUS
  <2> HIDE DEF a
  <2> QED BY <2>1, <2>3, <2>4
<1>4. /\ b \in Seq(Nat) /\ Len(b) = l - n /\ \A i \in 1..(l - n) : b[i] = rest[n + i]
  <2>1. \A i \in (n + 1)..l : rest[i] \in Nat
    BY <1>2
  <2>2. /\ b \in Seq(Nat) /\ Len(b) = (IF n + 1 <= l THEN (l - (n + 1)) + 1 ELSE 0)
        /\ \A i \in 1..((l - (n + 1)) + 1) : b[i] = rest[((n + 1) + i) - 1]
    BY <1>2, <2>1, SubSeqProperties
  <2> HIDE DEF b, l
  <2>3. (l - (n + 1)) + 1 = l - n /\ (~(n + 1 <= l) => l - n = 0)
    BY <1>2
  <2>4. \A i \in 1..(l - n) : ((n + 1) + i) - 1 = n + i
    BY <1>2
  <2> QED BY <2>2, <2>3, <2>4
<1>5. /\ c \in Seq(Nat) /\ Len(c) = r + n
      /\ \A i \in 1..r : c[i] = read[i]
      /\ \A i \in 1..n : c[r + i] = a[i]
  <2>1. read \in Seq(Nat) /\ a \in Seq(Nat)
    BY <1>1, <1>3
  <2> HIDE DEF a
  <2>2. /\ c \in Seq(Nat) /\ Len(c) = r + Len(a)
        /\ \A i \in 1..r : c[i] = read[i]
        /\ \A i \in 1..Len(a) : c[r + i] = a[i]
    BY <2>1, Joined
  <2> HIDE DEF c
  <2> QED BY <1>3, <2>2
<1> HIDE DEF a, b, c, l, r
<1>6. ASSUME NEW i \in 1..(r + n) PROVE c[i] = i
  <2>1. CASE i <= r
    <3>1. i \in 1..r
      BY <1>2, <2>1
    <3> QED BY <1>1, <1>5, <3>1
  <2>2. CASE ~(i <= r)
    <3> DEFINE j == i - r
    <3>1. j \in 1..n /\ r + j = i /\ j \in 1..l
      BY <1>2, <2>2 DEF l
    <3> HIDE DEF j
    <3> QED BY <1>1, <1>3, <1>5, <3>1
  <2> QED BY <2>1, <2>2
<1>7. ASSUME NEW i \in 1..(l - n) PROVE b[i] = (r + n) + i
  <2>1. n + i \in 1..l /\ r + (n + i) = (r + n) + i
    BY <1>2
  <2> QED BY <1>1, <1>4, <2>1
<1>8. (r + n) + (l - n) = f.size
  BY <1>1, <1>2
<1> QED BY <1>2, <1>3, <1>4, <1>5, <1>6, <1>7, <1>8 DEF Reading, a, b, c, l, r

LEMMA HandRead == EnumInv /\ HandInv /\ ReadChunk => HandInv'
<1> SUFFICES ASSUME EnumInv, HandInv, ReadChunk PROVE HandInv'
  OBVIOUS
<1> DEFINE f == walk[Len(handed) + 1]
<1>1. /\ HandTypes /\ HandedFrom /\ UNCHANGED <<walk, preserve, handed, stage, payload>>
      /\ pc \in {"read", "overflow"}
  BY DEF ReadChunk, HandInv, inputVars, sinkVars
<1>2. PICK n \in 1..Chunk :
        /\ n <= Len(left)
        /\ left' = SubSeq(left, n + 1, Len(left))
        /\ buf' = buf \o SubSeq(left, 1, n)
        /\ IF pc = "overflow" \/ Len(buf) + n <= SpillThreshold
           THEN UNCHANGED <<pc, temps>>
           ELSE pc' = "overflow" /\ temps' = temps \union {InputTemp}
  BY DEF ReadChunk
<1>3. /\ Len(handed) < Len(walk) /\ Reading(f, buf, left)
      /\ pc = "read" => Len(buf) <= SpillThreshold
      /\ pc = "overflow" => Len(buf) > SpillThreshold
  BY <1>1 DEF HandInv, ReadInv, InStream
<1>4. f \in File /\ Entries' = Entries
  BY <1>1, <1>3, NextDetails, EntriesKept
<1> HIDE DEF f
<1>5. n \in Nat /\ 0 < n /\ SpillThreshold \in Nat
  BY SpillAssumption
<1>6. Reading(f, buf', left') /\ Len(buf') = Len(buf) + n /\ Len(buf) \in Nat
  BY <1>2, <1>3, <1>4, <1>5, ReadOn
<1>7. CASE pc = "overflow" \/ Len(buf) + n <= SpillThreshold
  <2>1. pc' = pc
    BY <1>2, <1>7
  <2>2. /\ pc = "read" => Len(buf') <= SpillThreshold
        /\ pc = "overflow" => Len(buf') > SpillThreshold
    BY <1>3, <1>5, <1>6, <1>7
  <2>3. ReadInv'
    BY <1>1, <1>3, <1>6, <2>1, <2>2 DEF ReadInv, f
  <2> QED BY <1>1, <1>4, <2>3 DEF HandInv, HandTypes, HandedFrom
<1>8. CASE ~(pc = "overflow" \/ Len(buf) + n <= SpillThreshold)
  <2>1. pc' = "overflow"
    BY <1>2, <1>8
  <2>2. Len(buf') > SpillThreshold
    BY <1>5, <1>6, <1>8
  <2>3. ReadInv'
    BY <1>1, <1>3, <1>6, <2>1, <2>2 DEF ReadInv, f
  <2> QED BY <1>1, <1>4, <2>3 DEF HandInv, HandTypes, HandedFrom
<1> QED BY <1>7, <1>8

(* Whatever does not hand over or read leaves both alone. *)
Quiet ==
  /\ UNCHANGED <<sources, walk, preserve, handed, buf, left>>
  /\ stage' \in Seq(Stages) /\ payload' \in Seq(Payloads)
  /\ Len(stage') = Len(stage) /\ Len(payload') = Len(payload)
  /\ pc' \in {"read", "overflow"} => pc' = pc

LEMMA HandQuiet == HandInv /\ Quiet => HandInv'
<1> SUFFICES ASSUME HandInv, Quiet PROVE HandInv'
  OBVIOUS
<1>1. Entries' = Entries
  BY EntriesKept DEF Quiet
<1> QED BY <1>1 DEF Quiet, HandInv, HandTypes, HandedFrom, ReadInv, InStream, Stages, Payloads

LEMMA StageTypes ==
  ASSUME HandTypes, NEW k \in 1..Len(handed), NEW x \in Stages, NEW y \in Payloads
  PROVE  /\ [stage EXCEPT ![k] = x] \in Seq(Stages)
         /\ Len([stage EXCEPT ![k] = x]) = Len(stage)
         /\ [payload EXCEPT ![k] = y] \in Seq(Payloads)
         /\ Len([payload EXCEPT ![k] = y]) = Len(payload)
<1>1. /\ stage \in Seq(Stages) /\ payload \in Seq(Payloads)
      /\ k \in 1..Len(stage) /\ k \in 1..Len(payload)
  BY DEF HandTypes
<1> QED BY <1>1, ExceptSeq

LEMMA PipelineQuiet ==
  ASSUME HandInv, NEW k \in 1..Len(handed), PipelineStep(k)
  PROVE  Quiet
<1>1. HandTypes /\ stage \in Seq(Stages) /\ payload \in Seq(Payloads)
  BY DEF HandInv, HandTypes
<1>2. UNCHANGED <<sources, walk, preserve, handed, buf, left, pc>>
  BY DEF PipelineStep, CompressInMemory, StoreLarge, Spill, Spilled, UnitFails, WriteEntry,
         inputVars, readVars
<1>3. \E x \in Stages : stage' = [stage EXCEPT ![k] = x]
  BY DEF PipelineStep, CompressInMemory, StoreLarge, Spill, Spilled, UnitFails, WriteEntry, Stages
<1>4. payload' = payload \/ \E y \in Payloads : payload' = [payload EXCEPT ![k] = y]
  BY DEF PipelineStep, CompressInMemory, StoreLarge, Spill, Spilled, UnitFails, WriteEntry, Payloads
<1>5. "memory" \in Payloads /\ "queued" \in Stages
  BY DEF Payloads, Stages
<1>6. stage' \in Seq(Stages) /\ Len(stage') = Len(stage)
  BY <1>1, <1>3, <1>5, StageTypes
<1>7. payload' \in Seq(Payloads) /\ Len(payload') = Len(payload)
  BY <1>1, <1>4, <1>5, StageTypes
<1> QED BY <1>2, <1>6, <1>7 DEF Quiet

LEMMA HandingOrQuiet ==
  HandInv /\ [Next]_vars =>
    AddListed \/ AddDetails \/ OpenStream \/ ReadChunk \/ AddMaterialized \/ Quiet
<1> SUFFICES ASSUME HandInv, [Next]_vars, ~AddListed, ~AddDetails, ~OpenStream, ~ReadChunk,
                    ~AddMaterialized
             PROVE  Quiet
  OBVIOUS
<1>1. stage \in Seq(Stages) /\ payload \in Seq(Payloads)
  BY DEF HandInv, HandTypes
<1>2. ASSUME UNCHANGED <<sources, walk, preserve, handed, buf, left, stage, payload>>,
             pc' \in {"read", "overflow"} => pc' = pc
      PROVE  Quiet
  BY <1>1, <1>2 DEF Quiet
<1>3. ASSUME NEW k \in 1..Len(handed), PipelineStep(k) PROVE Quiet
  BY <1>3, PipelineQuiet
<1>4. CASE WalkFile \/ NextSource \/ SortList
  BY <1>2, <1>4 DEF WalkFile, NextSource, SortList, inputVars, readVars, sinkVars
<1>5. CASE OpenSpillDir
  BY <1>2, <1>5 DEF OpenSpillDir, inputVars, readVars, sinkVars
<1>6. CASE Abandon
  BY <1>2, <1>6 DEF Abandon, inputVars, readVars, sinkVars
<1>7. CASE WriterDies
  BY <1>2, <1>7 DEF WriterDies, inputVars, readVars
<1>8. CASE Finish
  BY <1>2, <1>8 DEF Finish, inputVars, readVars, sinkVars
<1>9. CASE ListSpillDir
  BY <1>2, <1>9 DEF ListSpillDir, inputVars, readVars, sinkVars
<1>10. CASE DeleteTemp
  BY <1>2, <1>10 DEF DeleteTemp, inputVars, readVars, sinkVars
<1>11. CASE DeleteSpillDir
  BY <1>2, <1>11 DEF DeleteSpillDir, inputVars, readVars, sinkVars
<1>12. CASE Terminated \/ UNCHANGED vars
  BY <1>2, <1>12 DEF Terminated, vars, inputVars, readVars, sinkVars
<1> QED BY <1>3, <1>4, <1>5, <1>6, <1>7, <1>8, <1>9, <1>10, <1>11, <1>12 DEF Next

LEMMA HandInvariant == Spec => [](EnumInv /\ HandInv)
<1>1. EnumInv /\ HandInv /\ [Next]_vars => HandInv'
  BY HandListed, HandDetails, HandStream, HandRead, HandMaterialized, HandQuiet, HandingOrQuiet
<1> QED BY <1>1, HandInit, EnumInvariant, PTL DEF Spec

(* A filtered entry has the whole of its stream in order, however the reads   *)
(* cut it, and goes to the spill directory exactly if it is over the          *)
(* threshold, for every threshold and every size of a read.                   *)
THEOREM StreamsMaterialized == Spec => []MaterializedFaithfully
<1>1. EnumInv /\ HandInv => MaterializedFaithfully
  <2> SUFFICES ASSUME HandInv PROVE MaterializedFaithfully
    OBVIOUS
  <2>1. DOMAIN handed = 1..Len(handed)
    BY LenProperties DEF HandInv, HandTypes
  <2> QED BY <2>1 DEF HandInv, HandedFrom, FromWalk, MaterializedFaithfully
<1> QED BY <1>1, HandInvariant, PTL

(* What the two fields of a record say is what an extractor sets, for every   *)
(* modification time and every mode.                                          *)
THEOREM AttributesSurvive == Spec => []AttributesReadBack
<1>1. ASSUME HandInv, NEW k \in DOMAIN handed
      PROVE  StampReadsBack(handed[k]) /\ ModeReadsBack(handed[k])
  <2>1. handed[k] \in Entries
    BY <1>1, LenProperties, ElementOfSeq DEF HandInv, HandTypes
  <2> QED BY <2>1, EntryReadsBack
<1>2. EnumInv /\ HandInv => AttributesReadBack
  BY <1>1 DEF AttributesReadBack
<1> QED BY <1>2, HandInvariant, PTL

-----------------------------------------------------------------------------
(* The spill directory.  As long as nobody gave up, every file that a unit,   *)
(* the writer or materialize() is going to ask for is in it, and what is in   *)
(* it at the end is what deleteRecursively() found.                           *)

Calm    == ~abandoned /\ "write" \notin faults
Serving == pc \in {"feed", "read", "overflow"}
Tidying == pc \in {"list", "delete", "over"}

InFile(k)  == [of |-> k, side |-> "in"]
OutFile(k) == [of |-> k, side |-> "out"]

UnitServed(k) ==
  /\ stage[k] \in {"queued", "deflating"} => payload[k] = "memory" /\ TempInput(k) \subseteq temps
  /\ stage[k] = "deflating" => OutFile(k) \in temps
  /\ stage[k] = "done" => Streamed(k) \subseteq temps

AllServed == \A k \in 1..Len(handed) : UnitServed(k)
NoneFailed == "task" \notin faults => failed = FALSE /\ \A k \in 1..Len(handed) : stage[k] # "failed"

FilesInv ==
  /\ pc \in {"enumerate", "open"} \/ Serving \/ Tidying
  /\ pc \in {"enumerate", "open"} => handed = <<>>
  /\ Calm =>
       /\ died = FALSE /\ NoneFailed
       /\ Serving => dirExists = TRUE /\ AllServed
       /\ pc = "overflow" => InFile(Len(handed) + 1) \in temps
       /\ Tidying => \A k \in 1..Len(handed) : stage[k] = "written"
       /\ pc = "delete" => temps = doomed
       /\ pc = "over" => dirExists = FALSE /\ temps = {}

LEMMA FilesInit == Init => FilesInv
<1> SUFFICES ASSUME Init PROVE FilesInv
  OBVIOUS
<1>1. handed = <<>> /\ pc \in {"enumerate", "open"} /\ failed = FALSE /\ died = FALSE
  BY DEF Init
<1>2. 1..Len(handed) = {}
  BY <1>1, EmptySeq
<1> QED BY <1>1, <1>2 DEF FilesInv, NoneFailed, Serving, Tidying

(* The files of two units are apart. *)
LEMMA FilesApart ==
  ASSUME NEW j \in Nat, NEW k \in Nat, j # k
  PROVE  {InFile(j), OutFile(j)} \cap {InFile(k), OutFile(k)} = {} /\ InFile(k) # OutFile(k)
<1>1. /\ InFile(j).of = j /\ OutFile(j).of = j /\ InFile(k).of = k /\ OutFile(k).of = k
      /\ InFile(k).side = "in" /\ OutFile(k).side = "out"
  BY DEF InFile, OutFile
<1> QED BY <1>1

LEMMA OwnFiles ==
  ASSUME NEW k
  PROVE  /\ TempInput(k) \subseteq {InFile(k)}
         /\ payload[k] = "memory" => Streamed(k) = {}
         /\ payload[k] = "input" => Streamed(k) = TempInput(k)
         /\ payload[k] = "spill" => Streamed(k) = {OutFile(k)}
BY DEF TempInput, Streamed, InFile, OutFile

LEMMA ServedStill ==
  ASSUME NEW j, payload[j] \in Payloads, UnitServed(j),
         handed'[j] = handed[j], stage'[j] = stage[j], payload'[j] = payload[j],
         \A t \in {InFile(j), OutFile(j)} : t \in temps => t \in temps'
  PROVE  UnitServed(j)'
<1>1. TempInput(j)' = TempInput(j)
  BY DEF TempInput
<1>2. Streamed(j)' = Streamed(j)
  BY <1>1 DEF Streamed, OutFile, Payloads
<1>3. TempInput(j) \subseteq {InFile(j)} /\ Streamed(j) \subseteq {InFile(j), OutFile(j)}
  BY OwnFiles DEF Payloads
<1>4. OutFile(j)' = OutFile(j)
  BY DEF OutFile
<1> QED BY <1>1, <1>2, <1>3, <1>4 DEF UnitServed

(* What a step of the pipeline does to the records of units. *)
LEMMA UnitRecords ==
  ASSUME HandTypes, NEW k \in 1..Len(handed), PipelineStep(k)
  PROVE  /\ UNCHANGED <<faults, pc, handed, dirExists, doomed, abandoned, died>>
         /\ \A j \in 1..Len(handed) : j # k => stage'[j] = stage[j] /\ payload'[j] = payload[j]
         /\ \A t \in temps : t \notin {InFile(k), OutFile(k)} => t \in temps'
<1>1. DOMAIN stage = 1..Len(handed) /\ DOMAIN payload = 1..Len(handed)
  BY LenProperties DEF HandTypes
<1>2. UNCHANGED <<faults, pc, handed, dirExists, doomed, abandoned, died>>
  BY DEF PipelineStep, CompressInMemory, StoreLarge, Spill, Spilled, UnitFails, WriteEntry,
         inputVars, dirVars
<1>3. \E x : stage' = [stage EXCEPT ![k] = x]
  BY DEF PipelineStep, CompressInMemory, StoreLarge, Spill, Spilled, UnitFails, WriteEntry
<1>4. payload' = payload \/ \E y : payload' = [payload EXCEPT ![k] = y]
  BY DEF PipelineStep, CompressInMemory, StoreLarge, Spill, Spilled, UnitFails, WriteEntry
<1>5. TempInput(k) \subseteq {InFile(k), OutFile(k)}
  BY OwnFiles
<1>6. temps \ {InFile(k), OutFile(k)} \subseteq temps'
  <2>1. CASE CompressInMemory(k) \/ StoreLarge(k) \/ UnitFails(k)
    BY <2>1 DEF CompressInMemory, StoreLarge, UnitFails, dirVars
  <2>2. CASE Spill(k)
    BY <2>2 DEF Spill
  <2>3. CASE Spilled(k)
    BY <1>5, <2>3 DEF Spilled, OutFile
  <2>4. CASE WriteEntry(k)
    <3>1. CASE UNCHANGED temps
      BY <3>1
    <3>2. CASE Streams(k) /\ temps' = temps \ Streamed(k)
      <4>1. payload[k] \in Payloads
        BY ElementOfSeq DEF HandTypes
      <4>2. Streamed(k) \subseteq {InFile(k), OutFile(k)}
        BY <4>1, OwnFiles DEF Payloads
      <4> QED BY <3>2, <4>2
    <3> QED BY <2>4, <3>1, <3>2 DEF WriteEntry
  <2> QED BY <2>1, <2>2, <2>3, <2>4 DEF PipelineStep
<1> QED BY <1>1, <1>2, <1>3, <1>4, <1>6

(* No step of a unit takes a file from another, and none asks for one that is *)
(* not there.                                                                 *)
LEMMA UnitStep ==
  ASSUME HandTypes, NEW k \in 1..Len(handed), PipelineStep(k), AllServed, NoneFailed, dirExists = TRUE
  PROVE  AllServed' /\ NoneFailed'
<1>1. /\ UNCHANGED <<faults, pc, handed, dirExists, doomed, abandoned, died>>
      /\ \A j \in 1..Len(handed) : j # k => stage'[j] = stage[j] /\ payload'[j] = payload[j]
      /\ \A t \in temps : t \notin {InFile(k), OutFile(k)} => t \in temps'
  BY UnitRecords
<1>2. /\ DOMAIN stage = 1..Len(handed) /\ DOMAIN payload = 1..Len(handed)
      /\ \A j \in 1..Len(handed) : payload[j] \in Payloads /\ stage[j] \in Stages
      /\ Len(handed) \in Nat
  BY LenProperties, ElementOfSeq DEF HandTypes
<1>3. UnitServed(k) /\ k \in Nat
  BY <1>2 DEF AllServed
<1>4. TempInput(k)' = TempInput(k) /\ OutFile(k)' = OutFile(k)
  BY <1>1 DEF TempInput, OutFile
<1>5. /\ TempInput(k) \subseteq {InFile(k)} /\ InFile(k) # OutFile(k)
      /\ OutFile(k) \notin TempInput(k) /\ InFile(k) \notin {OutFile(k)}
  BY OwnFiles DEF InFile, OutFile
<1>6. /\ payload'[k] = "memory" => Streamed(k)' = {}
      /\ payload'[k] = "input" => Streamed(k)' = TempInput(k)
      /\ payload'[k] = "spill" => Streamed(k)' = {OutFile(k)}
  BY <1>4 DEF Streamed, OutFile
<1>7. ASSUME NEW j \in 1..Len(handed), j # k PROVE UnitServed(j)'
  <2>1. UnitServed(j) /\ payload[j] \in Payloads /\ j \in Nat
    BY <1>2 DEF AllServed
  <2>2. \A t \in {InFile(j), OutFile(j)} : t \in temps => t \in temps'
    BY <1>1, <1>3, <1>7, <2>1, FilesApart
  <2> QED BY <1>1, <1>7, <2>1, <2>2, ServedStill
<1>8. "task" \notin faults => failed = FALSE /\ \A j \in 1..Len(handed) : stage[j] # "failed"
  BY DEF NoneFailed
<1>9. ASSUME UnitServed(k)', "task" \notin faults => failed' = FALSE /\ stage'[k] # "failed"
      PROVE  AllServed' /\ NoneFailed'
  <2>1. AllServed'
    BY <1>1, <1>7, <1>9 DEF AllServed
  <2>2. NoneFailed'
    BY <1>1, <1>8, <1>9 DEF NoneFailed
  <2> QED BY <2>1, <2>2
<1>10. CASE CompressInMemory(k)
  <2>1. /\ stage'[k] = "done" /\ payload' = payload /\ temps' = temps /\ failed' = failed
        /\ stage[k] = "queued"
    BY <1>2, <1>10 DEF CompressInMemory, dirVars
  <2>2. payload'[k] = "memory"
    BY <1>3, <2>1 DEF UnitServed
  <2>3. UnitServed(k)'
    BY <1>6, <2>1, <2>2 DEF UnitServed
  <2> QED BY <1>8, <1>9, <2>1, <2>3
<1>11. CASE StoreLarge(k)
  <2>1. /\ stage'[k] = "done" /\ payload'[k] = "input" /\ temps' = temps /\ failed' = failed
        /\ stage[k] = "queued"
    BY <1>2, <1>11 DEF StoreLarge, dirVars
  <2>2. TempInput(k) \subseteq temps
    BY <1>3, <2>1 DEF UnitServed
  <2>3. UnitServed(k)'
    BY <1>6, <2>1, <2>2 DEF UnitServed
  <2> QED BY <1>8, <1>9, <2>1, <2>3
<1>12. CASE Spill(k)
  <2>1. /\ stage'[k] = "deflating" /\ payload' = payload /\ temps' = temps \cup {OutFile(k)}
        /\ failed' = failed /\ stage[k] = "queued"
    BY <1>2, <1>12 DEF Spill, OutFile
  <2>2. TempInput(k) \subseteq temps /\ payload[k] = "memory"
    BY <1>3, <2>1 DEF UnitServed
  <2>3. UnitServed(k)'
    BY <1>4, <2>1, <2>2 DEF UnitServed
  <2> QED BY <1>8, <1>9, <2>1, <2>3
<1>13. CASE Spilled(k)
  <2>1. /\ stage'[k] = "done" /\ failed' = failed /\ stage[k] = "deflating"
        /\ \/ temps' = temps \ TempInput(k) /\ payload'[k] = "spill"
           \/ temps' = temps \ {OutFile(k)} /\ payload'[k] = "input"
    BY <1>2, <1>13 DEF Spilled, OutFile
  <2>2. TempInput(k) \subseteq temps /\ OutFile(k) \in temps
    BY <1>3, <2>1 DEF UnitServed
  <2>3. Streamed(k)' \subseteq temps'
    BY <1>5, <1>6, <2>1, <2>2
  <2>4. UnitServed(k)'
    BY <2>1, <2>3 DEF UnitServed
  <2> QED BY <1>8, <1>9, <2>1, <2>4
<1>14. CASE UnitFails(k)
  <2>1. /\ stage'[k] = "failed" /\ stage[k] \in {"queued", "deflating"} /\ failed' = failed
        /\ "task" \in faults \/ ~Readable(k)
    BY <1>2, <1>14 DEF UnitFails
  <2>2. Readable(k)
    BY <1>3, <2>1 DEF UnitServed, Readable
  <2>3. UnitServed(k)'
    BY <2>1 DEF UnitServed
  <2> QED BY <1>9, <2>1, <2>2, <2>3
<1>15. CASE WriteEntry(k)
  <2>1. stage'[k] = "written" /\ stage[k] \in {"done", "failed"}
    BY <1>2, <1>15 DEF WriteEntry
  <2>2. UnitServed(k)'
    BY <2>1 DEF UnitServed
  <2>3. ASSUME "task" \notin faults PROVE failed' = FALSE
    <3>1. failed = FALSE /\ stage[k] # "failed"
      BY <1>8, <2>3
    <3>2. Streams(k)
      BY <2>1, <3>1 DEF Streams
    <3>3. failed' = failed
      BY <1>15, <3>2 DEF WriteEntry
    <3> QED BY <3>1, <3>3
  <2> QED BY <1>9, <2>1, <2>2, <2>3
<1> QED BY <1>10, <1>11, <1>12, <1>13, <1>14, <1>15 DEF PipelineStep

LEMMA FilesPipeline ==
  ASSUME HandTypes, FilesInv, NEW k \in 1..Len(handed), PipelineStep(k)
  PROVE  FilesInv'
<1>1. /\ UNCHANGED <<faults, pc, handed, dirExists, doomed, abandoned, died>>
      /\ \A t \in temps : t \notin {InFile(k), OutFile(k)} => t \in temps'
  BY UnitRecords
<1>2. Len(handed) \in Nat /\ handed # <<>>
  BY LenProperties, EmptySeq DEF HandTypes
<1>3. pc \notin {"enumerate", "open"}
  BY <1>2 DEF FilesInv
<1>4. stage[k] # "written"
  BY DEF PipelineStep, CompressInMemory, StoreLarge, Spill, Spilled, UnitFails, WriteEntry
<1>5. CASE ~Calm
  BY <1>1, <1>3, <1>5 DEF FilesInv, Calm, Serving, Tidying
<1>6. CASE Calm
  <2>1. /\ died = FALSE /\ NoneFailed
        /\ Serving => dirExists = TRUE /\ AllServed
        /\ pc = "overflow" => InFile(Len(handed) + 1) \in temps
        /\ Tidying => \A j \in 1..Len(handed) : stage[j] = "written"
        /\ Serving \/ Tidying
    BY <1>3, <1>6 DEF FilesInv
  <2>2. ~Tidying /\ Serving
    BY <1>4, <2>1
  <2>3. AllServed' /\ NoneFailed'
    BY <2>1, <2>2, UnitStep
  <2>4. pc = "overflow" => InFile(Len(handed) + 1) \in temps'
    <3>1. k \in Nat /\ Len(handed) + 1 \in Nat /\ Len(handed) + 1 # k
      BY <1>2
    <3>2. InFile(Len(handed) + 1) \notin {InFile(k), OutFile(k)}
      BY <3>1, FilesApart
    <3> QED BY <1>1, <2>1, <3>2
  <2>5. pc' = pc /\ handed' = handed /\ dirExists' = TRUE /\ died' = FALSE
    BY <1>1, <2>1, <2>2
  <2>6. InFile(Len(handed) + 1)' = InFile(Len(handed) + 1)
    BY <2>5 DEF InFile
  <2> QED BY <1>3, <2>2, <2>3, <2>4, <2>5, <2>6 DEF FilesInv, Serving, Tidying
<1> QED BY <1>5, <1>6

LEMMA FilesHand ==
  ASSUME HandTypes, FilesInv, NEW e \in Entries, Hand(e), Serving, pc' = "feed",
         UNCHANGED <<inputVars, failed, dirVars, abandoned, died>>,
         e.temp = 0 \/ (pc = "overflow" /\ e.temp # 0)
  PROVE  FilesInv'
<1> PICK n \in Nat : n = Len(handed)
  BY LenProperties DEF HandTypes
<1>1. /\ handed \in Seq(Entries) /\ stage \in Seq(Stages) /\ payload \in Seq(Payloads)
      /\ Len(stage) = n /\ Len(payload) = n /\ n \in Nat
      /\ "queued" \in Stages /\ "memory" \in Payloads
  BY LenProperties DEF HandTypes, Stages, Payloads
<1>2. /\ handed' = Append(handed, e) /\ stage' = Append(stage, "queued")
      /\ payload' = Append(payload, "memory")
      /\ UNCHANGED <<faults, failed, dirExists, temps, doomed, abandoned, died>>
  BY DEF Hand, inputVars, dirVars
<1>3. /\ Len(handed') = n + 1 /\ handed'[n + 1] = e
      /\ \A j \in 1..n : handed'[j] = handed[j]
  BY <1>1, <1>2, AppendProperties
<1>4. stage'[n + 1] = "queued" /\ \A j \in 1..n : stage'[j] = stage[j]
  BY <1>1, <1>2, AppendProperties
<1>5. payload'[n + 1] = "memory" /\ \A j \in 1..n : payload'[j] = payload[j]
  BY <1>1, <1>2, AppendProperties
<1>6. 1..(n + 1) = 1..n \cup {n + 1}
  BY <1>1
<1>7. handed' # <<>> /\ pc' \notin {"enumerate", "open"} /\ Serving' /\ ~Tidying'
  BY DEF Serving, Tidying, Hand
<1>8. CASE ~Calm
  BY <1>2, <1>7, <1>8 DEF FilesInv, Calm
<1>9. CASE Calm
  <2>1. /\ died = FALSE /\ NoneFailed /\ dirExists = TRUE /\ AllServed
        /\ pc = "overflow" => InFile(n + 1) \in temps
    BY <1>9 DEF FilesInv
  <2>2. \A j \in 1..n : UnitServed(j)'
    <3> SUFFICES ASSUME NEW j \in 1..n PROVE UnitServed(j)'
      OBVIOUS
    <3>1. payload[j] \in Payloads /\ UnitServed(j)
      BY <1>1, <2>1, ElementOfSeq DEF AllServed
    <3> QED BY <1>2, <1>3, <1>4, <1>5, <3>1, ServedStill
  <2>3. UnitServed(n + 1)'
    <3>1. TempInput(n + 1)' \subseteq {InFile(n + 1)} /\ (e.temp = 0 => TempInput(n + 1)' = {})
      BY <1>3 DEF TempInput, InFile
    <3>2. TempInput(n + 1)' \subseteq temps'
      BY <1>2, <2>1, <3>1
    <3> QED BY <1>4, <1>5, <3>2 DEF UnitServed
  <2>4. AllServed'
    BY <1>3, <1>6, <2>2, <2>3 DEF AllServed
  <2>5. NoneFailed'
    <3>1. "task" \notin faults => failed = FALSE /\ \A j \in 1..n : stage[j] # "failed"
      BY <2>1 DEF NoneFailed
    <3>2. "task" \notin faults => \A j \in 1..(n + 1) : stage'[j] # "failed"
      BY <1>4, <1>6, <3>1
    <3> QED BY <1>2, <1>3, <3>1, <3>2 DEF NoneFailed
  <2> QED BY <1>2, <1>7, <2>1, <2>4, <2>5 DEF FilesInv
<1> QED BY <1>8, <1>9

(* Everything else leaves the records of units alone. *)
LEMMA FilesKept ==
  ASSUME FilesInv, UNCHANGED <<faults, handed, stage, payload, failed>>,
         pc' \in {"enumerate", "open"} => pc \in {"enumerate", "open"},
         pc' \in {"enumerate", "open"} \/ Serving' \/ Tidying',
         Calm' => /\ Calm /\ died' = FALSE
                  /\ Serving' => dirExists' = TRUE
                  /\ Serving' => Serving \/ handed = <<>>
                  /\ temps \subseteq temps' \/ ~Serving'
                  /\ pc' = "overflow" => InFile(Len(handed) + 1) \in temps'
                  /\ Tidying' => \A k \in 1..Len(handed) : stage[k] = "written"
                  /\ pc' = "delete" => temps' = doomed'
                  /\ pc' = "over" => dirExists' = FALSE /\ temps' = {},
         HandTypes
  PROVE  FilesInv'
<1>1. pc' \in {"enumerate", "open"} => handed' = <<>>
  BY DEF FilesInv
<1>2. ASSUME Calm', Serving' PROVE AllServed'
  <2>1. CASE handed = <<>>
    <3>1. Len(handed') = 0 /\ 1..0 = {}
      BY <2>1, EmptySeq
    <3> QED BY <3>1 DEF AllServed
  <2>2. CASE Serving
    <3>1. AllServed /\ temps \subseteq temps'
      BY <1>2, <2>2 DEF FilesInv
    <3> SUFFICES ASSUME NEW j \in 1..Len(handed) PROVE UnitServed(j)'
      BY DEF AllServed
    <3>2. UnitServed(j) /\ payload[j] \in Payloads
      BY <3>1, ElementOfSeq DEF AllServed, HandTypes
    <3> QED BY <3>1, <3>2, ServedStill
  <2> QED BY <1>2, <2>1, <2>2
<1>3. Calm' => NoneFailed'
  BY DEF FilesInv, NoneFailed
<1>4. Calm' /\ pc' = "overflow" => InFile(Len(handed) + 1)' \in temps'
  BY DEF InFile
<1> QED BY <1>1, <1>2, <1>3, <1>4 DEF FilesInv

LEMMA FilesListed == EnumInv /\ HandInv /\ FilesInv /\ AddListed => FilesInv'
<1> SUFFICES ASSUME EnumInv, HandInv, FilesInv, AddListed PROVE FilesInv'
  OBVIOUS
<1> DEFINE e == list[Len(handed) + 1]
<1>1. /\ HandTypes /\ Hand(e) /\ pc = "feed" /\ pc' = pc /\ Len(handed) < Len(list)
      /\ UNCHANGED <<inputVars, failed, dirVars, abandoned, died>>
  BY DEF AddListed, HandInv
<1>2. Len(handed) \in Nat /\ Len(list) \in Nat /\ list \in Seq(Entries)
  BY <1>1, LenProperties DEF HandTypes, EnumInv
<1>3. Len(handed) + 1 \in 1..Len(list)
  BY <1>1, <1>2
<1>4. e \in Entries /\ e.temp = 0
  BY <1>2, <1>3, ElementOfSeq DEF EnumInv, FromFirst
<1>5. Serving
  BY <1>1 DEF Serving
<1> HIDE DEF e
<1> QED BY <1>1, <1>4, <1>5, FilesHand

LEMMA FilesDetails == EnumInv /\ HandInv /\ FilesInv /\ AddDetails => FilesInv'
<1> SUFFICES ASSUME EnumInv, HandInv, FilesInv, AddDetails PROVE FilesInv'
  OBVIOUS
<1> DEFINE f == walk[Len(handed) + 1]
           name == IF f.dir THEN Append(f.rel, Slash) ELSE f.rel
           e == PlainEntry(f, name)
<1>1. /\ HandTypes /\ Hand(e) /\ pc = "feed" /\ pc' = pc /\ Len(handed) < Len(walk)
      /\ UNCHANGED <<inputVars, failed, dirVars, abandoned, died>>
  BY DEF AddDetails, Walking, Details, HandInv
<1>2. f \in File /\ f.rel \in Seq(Nat) /\ Slash \in Nat
  BY <1>1, NextDetails DEF Slash
<1> HIDE DEF f
<1>3. name \in Seq(Nat)
  BY <1>2, AppendProperties
<1> HIDE DEF name
<1>4. e \in Entries /\ e.temp = 0
  BY <1>2, <1>3, PlainMade
<1>5. Serving
  BY <1>1 DEF Serving
<1> HIDE DEF e
<1> QED BY <1>1, <1>4, <1>5, FilesHand

LEMMA FilesMaterialized == EnumInv /\ HandInv /\ FilesInv /\ AddMaterialized => FilesInv'
<1> SUFFICES ASSUME EnumInv, HandInv, FilesInv, AddMaterialized PROVE FilesInv'
  OBVIOUS
<1> DEFINE n == Len(handed)
           f == walk[n + 1]
           e == IF pc = "read" THEN EntryOf(f, f.rel, "inline", buf, 0)
                               ELSE EntryOf(f, f.rel, "file", buf, n + 1)
<1>1. /\ HandTypes /\ Hand(e) /\ pc \in {"read", "overflow"} /\ pc' = "feed"
      /\ UNCHANGED <<inputVars, failed, dirVars, abandoned, died>>
  BY DEF AddMaterialized, Details, HandInv
<1>2. n < Len(walk) /\ buf \in Seq(Nat)
  BY <1>1 DEF HandInv, ReadInv, InStream, Reading
<1>3. f \in File /\ f.rel \in Seq(Nat) /\ n \in Nat
  BY <1>1, <1>2, NextDetails
<1> HIDE DEF n, f
<1>4. e \in Entries /\ (e.temp = 0 \/ (pc = "overflow" /\ e.temp # 0))
  <2>1. CASE pc = "read"
    <3>1. e = EntryOf(f, f.rel, "inline", buf, 0)
      BY <2>1
    <3> HIDE DEF e
    <3> QED BY <1>2, <1>3, <3>1, EntryMade
  <2>2. CASE pc = "overflow"
    <3>1. e = EntryOf(f, f.rel, "file", buf, n + 1) /\ n + 1 \in Nat /\ n + 1 # 0
      BY <1>3, <2>2
    <3> HIDE DEF e
    <3>2. e \in Entries /\ e.temp = n + 1
      BY <1>2, <1>3, <3>1, EntryMade
    <3> QED BY <2>2, <3>1, <3>2
  <2> QED BY <1>1, <2>1, <2>2
<1>5. Serving
  BY <1>1 DEF Serving
<1> HIDE DEF e
<1> QED BY <1>1, <1>4, <1>5, FilesHand

(* While the call is calm and waits, the writer finds what it streams. *)
LEMMA WriterLives == HandInv /\ FilesInv /\ WriterDies => ~Calm /\ ~Calm'
<1> SUFFICES ASSUME HandInv, FilesInv, WriterDies, Calm PROVE FALSE
  BY DEF WriterDies, Calm, inputVars
<1>1. "write" \notin faults /\ ~abandoned
  BY DEF Calm
<1>2. Serving
  BY <1>1 DEF WriterDies, Serving
<1>3. AllServed
  BY <1>2 DEF FilesInv
<1>4. PICK k \in 1..Len(handed) : Streams(k) /\ ~(Streamed(k) \subseteq temps)
  BY <1>1 DEF WriterDies
<1> QED BY <1>3, <1>4 DEF AllServed, UnitServed, Streams

LEMMA FilesOther ==
  ASSUME EnumInv, HandInv, FilesInv,
         WalkFile \/ NextSource \/ SortList \/ OpenSpillDir \/ OpenStream \/ ReadChunk \/ Abandon
         \/ WriterDies \/ Finish \/ ListSpillDir \/ DeleteTemp \/ DeleteSpillDir
         \/ UNCHANGED vars
  PROVE  FilesInv'
<1>1. HandTypes
  BY DEF HandInv
<1>2. /\ pc \in {"enumerate", "open"} \/ Serving \/ Tidying
      /\ pc \in {"enumerate", "open"} => handed = <<>>
      /\ Calm =>
           /\ died = FALSE
           /\ Serving => dirExists = TRUE
           /\ pc = "overflow" => InFile(Len(handed) + 1) \in temps
           /\ Tidying => \A k \in 1..Len(handed) : stage[k] = "written"
           /\ pc = "delete" => temps = doomed
           /\ pc = "over" => dirExists = FALSE /\ temps = {}
  BY DEF FilesInv
<1>3. CASE WalkFile \/ NextSource
  <2>1. /\ pc = "enumerate" /\ pc' = pc
        /\ UNCHANGED <<faults, handed, stage, payload, failed, dirExists, temps, doomed, abandoned, died>>
    BY <1>3 DEF WalkFile, NextSource, inputVars, sinkVars, dirVars
  <2> QED BY <1>1, <1>2, <2>1, FilesKept DEF Calm, Serving, Tidying
<1>4. CASE SortList
  <2>1. /\ pc = "enumerate" /\ pc' = "open"
        /\ UNCHANGED <<faults, handed, stage, payload, failed, dirExists, temps, doomed, abandoned, died>>
    BY <1>4 DEF SortList, inputVars, sinkVars, dirVars
  <2> QED BY <1>1, <1>2, <2>1, FilesKept DEF Calm, Serving, Tidying
<1>5. CASE OpenSpillDir
  <2>1. /\ pc = "open" /\ pc' = "feed" /\ dirExists' = TRUE
        /\ UNCHANGED <<faults, handed, stage, payload, failed, temps, doomed, abandoned, died>>
    BY <1>5 DEF OpenSpillDir, inputVars, sinkVars
  <2> QED BY <1>1, <1>2, <2>1, FilesKept DEF Calm, Serving, Tidying
<1>6. CASE OpenStream
  <2>1. /\ pc = "feed" /\ pc' = "read"
        /\ UNCHANGED <<faults, handed, stage, payload, failed, dirExists, temps, doomed, abandoned, died>>
    BY <1>6 DEF OpenStream, Walking, inputVars, sinkVars, dirVars
  <2> QED BY <1>1, <1>2, <2>1, FilesKept DEF Calm, Serving, Tidying
<1>7. CASE ReadChunk
  <2>1. /\ pc \in {"read", "overflow"}
        /\ UNCHANGED <<faults, handed, stage, payload, failed, dirExists, doomed, abandoned, died>>
        /\ \/ pc' = pc /\ temps' = temps
           \/ pc' = "overflow" /\ temps' = temps \cup {InFile(Len(handed) + 1)}
    BY <1>7 DEF ReadChunk, InputTemp, InFile, inputVars, sinkVars
  <2> QED BY <1>1, <1>2, <2>1, FilesKept DEF Calm, Serving, Tidying
<1>8. CASE Abandon
  <2>1. /\ Serving /\ pc' = "list" /\ abandoned' = TRUE
        /\ UNCHANGED <<faults, handed, stage, payload, failed, died>>
    BY <1>8 DEF Abandon, Serving, inputVars, sinkVars
  <2> QED BY <1>1, <1>2, <2>1, FilesKept DEF Calm, Serving, Tidying
<1>9. CASE WriterDies
  <2>1. ~Calm'
    BY <1>9, WriterLives
  <2>2. UNCHANGED <<pc, handed>>
    BY <1>9 DEF WriterDies
  <2> QED BY <1>2, <2>1, <2>2 DEF FilesInv, Serving, Tidying
<1>10. CASE Finish
  <2>1. /\ pc = "feed" /\ pc' = "list"
        /\ died \/ \A k \in 1..Len(handed) : stage[k] = "written"
        /\ UNCHANGED <<faults, handed, stage, payload, failed, dirExists, temps, doomed, abandoned, died>>
    BY <1>10 DEF Finish, inputVars, sinkVars, dirVars
  <2> QED BY <1>1, <1>2, <2>1, FilesKept DEF Calm, Serving, Tidying
<1>11. CASE ListSpillDir
  <2>1. /\ pc = "list" /\ pc' = "delete" /\ doomed' = temps
        /\ UNCHANGED <<faults, handed, stage, payload, failed, dirExists, temps, abandoned, died>>
    BY <1>11 DEF ListSpillDir, inputVars, sinkVars
  <2> QED BY <1>1, <1>2, <2>1, FilesKept DEF Calm, Serving, Tidying
<1>12. CASE DeleteTemp
  <2>1. /\ pc = "delete" /\ pc' = pc
        /\ \E t \in doomed : doomed' = doomed \ {t} /\ temps' = temps \ {t}
        /\ UNCHANGED <<faults, handed, stage, payload, failed, dirExists, abandoned, died>>
    BY <1>12 DEF DeleteTemp, inputVars, sinkVars
  <2> QED BY <1>1, <1>2, <2>1, FilesKept DEF Calm, Serving, Tidying
<1>13. CASE DeleteSpillDir
  <2>1. /\ pc = "delete" /\ pc' = "over" /\ doomed = {} /\ dirExists' = (temps # {})
        /\ UNCHANGED <<faults, handed, stage, payload, failed, temps, doomed, abandoned, died>>
    BY <1>13 DEF DeleteSpillDir, inputVars, sinkVars
  <2> QED BY <1>1, <1>2, <2>1, FilesKept DEF Calm, Serving, Tidying
<1>14. CASE UNCHANGED vars
  <2>1. UNCHANGED <<pc, faults, handed, stage, payload, failed, dirExists, temps, doomed, abandoned, died>>
    BY <1>14 DEF vars, inputVars, sinkVars, dirVars
  <2> QED BY <1>1, <1>2, <2>1, FilesKept DEF Calm, Serving, Tidying
<1> QED BY <1>3, <1>4, <1>5, <1>6, <1>7, <1>8, <1>9, <1>10, <1>11, <1>12, <1>13, <1>14

LEMMA FilesInvariant == Spec => []FilesInv
<1>1. EnumInv /\ HandInv /\ FilesInv /\ [Next]_vars => FilesInv'
  <2> SUFFICES ASSUME EnumInv, HandInv, FilesInv, [Next]_vars PROVE FilesInv'
    OBVIOUS
  <2>1. ASSUME NEW k \in 1..Len(handed), PipelineStep(k) PROVE FilesInv'
    BY <2>1, FilesPipeline DEF HandInv
  <2>2. CASE Terminated
    BY <2>2, FilesOther DEF Terminated
  <2> QED BY <2>1, <2>2, FilesListed, FilesDetails, FilesMaterialized, FilesOther DEF Next
<1> QED BY <1>1, FilesInit, HandInvariant, PTL DEF Spec

(* Unless the caller's side threw or the archive could not be written, a      *)
(* call leaves nothing of its spill directory behind, also when units failed. *)
THEOREM SpillDirRemoved == Spec => []SpillDirGone
<1>1. FilesInv => SpillDirGone
  BY DEF FilesInv, SpillDirGone, Calm
<1> QED BY <1>1, FilesInvariant, PTL

(* Nothing fails without a fault: no unit and not the writer ever asks the    *)
(* spill directory for a file that is not there.                              *)
THEOREM NothingFailsAlone == Spec => []NoStrayFailure
<1>1. FilesInv => NoStrayFailure
  BY DEF FilesInv, NoStrayFailure, NoneFailed, Calm
<1> QED BY <1>1, FilesInvariant, PTL
=============================================================================
