------------------------------ MODULE Induction ------------------------------
(* Induction over the natural numbers, for a set of numbers: it has no       *)
(* operator as a parameter, which is what the provers cannot instantiate.    *)
(* What a recursive definition computes for every input follows by naming    *)
(* the set of the lengths for which it does.                                 *)
EXTENDS Integers, FiniteSets, FiniteSetTheorems, Functions, Loops, TLAPS

(* If n were missing, adding one would map the members up to n injectively   *)
(* to those of them that are not 0, of which there is one less.              *)
LEMMA Induction ==
  ASSUME NEW S, 0 \in S, \A n \in Nat : n \in S => n + 1 \in S
  PROVE  \A n \in Nat : n \in S
<1> SUFFICES ASSUME NEW n \in Nat, n \notin S PROVE FALSE
  OBVIOUS
<1> DEFINE T == {k \in 0..n : k \in S}
<1> DEFINE f == [k \in T |-> k + 1]
<1>1. IsFiniteSet(T) /\ Cardinality(T) \in Nat
  <2>1. IsFiniteSet(0..n)
    BY FS_Interval
  <2> QED BY <2>1, FS_Subset, FS_CardinalityType
<1>2. 0 \in T
  OBVIOUS
<1>3. IsFiniteSet(T \ {0}) /\ Cardinality(T \ {0}) = Cardinality(T) - 1
  BY <1>1, <1>2, FS_RemoveElement
<1>4. f \in Injection(T, T \ {0})
  <2>1. ASSUME NEW k \in T PROVE k + 1 \in T \ {0}
    <3>1. k \in Nat /\ k <= n /\ k \in S /\ k # n
      OBVIOUS
    <3> QED BY <3>1
  <2>2. f \in [T -> T \ {0}]
    BY <2>1
  <2>3. ASSUME NEW a \in T, NEW b \in T, f[a] = f[b] PROVE a = b
    BY <2>3
  <2> QED BY <2>2, <2>3 DEF Injection, IsInjective
<1>5. Cardinality(T) <= Cardinality(T \ {0})
  <2> HIDE DEF T, f
  <2> QED BY <1>3, <1>4, FS_Injection
<1> QED BY <1>1, <1>3, <1>5

(* The same up to a bound. *)
LEMMA UpTo ==
  ASSUME NEW n \in Nat, NEW S, 0 \in S, \A k \in 0..(n - 1) : k \in S => k + 1 \in S
  PROVE  \A k \in 0..n : k \in S
<1> DEFINE T == {k \in Nat : k <= n => k \in S}
<1>1. 0 \in T
  OBVIOUS
<1>2. ASSUME NEW k \in Nat, k \in T PROVE k + 1 \in T
  <2>1. CASE k + 1 <= n
    <3>1. k \in 0..(n - 1) /\ k \in S
      BY <1>2, <2>1
    <3> QED BY <3>1
  <2>2. CASE ~(k + 1 <= n)
    BY <2>2
  <2> QED BY <2>1, <2>2
<1>3. \A k \in Nat : k \in T
  <2> HIDE DEF T
  <2> QED BY <1>1, <1>2, Induction
<1> QED BY <1>3

(* A function on 0..n that is defined by its first value and by how each      *)
(* value comes from the one before it exists.                                *)
Follows(f, n, a, step) == f[0] = a /\ \A k \in 1..n : f[k] = step[k][f[k - 1]]

LEMMA Recursion ==
  ASSUME NEW n \in Nat, NEW V, NEW a \in V, NEW step \in [1..n -> [V -> V]]
  PROVE  \E f \in [0..n -> V] : Follows(f, n, a, step)
<1> DEFINE S == {m \in 0..n : \E f \in [0..m -> V] : Follows(f, m, a, step)}
<1>1. 0 \in S
  <2> DEFINE g == [k \in 0..0 |-> a]
  <2>1. g \in [0..0 -> V] /\ Follows(g, 0, a, step)
    BY DEF Follows
  <2> HIDE DEF g
  <2>2. \E f \in [0..0 -> V] : Follows(f, 0, a, step)
    BY <2>1
  <2> QED BY <2>2
<1>2. ASSUME NEW m \in 0..(n - 1), m \in S PROVE m + 1 \in S
  <2>1. PICK f \in [0..m -> V] : Follows(f, m, a, step)
    BY <1>2
  <2>2. f[m] \in V /\ m + 1 \in 1..n
    OBVIOUS
  <2>3. step[m + 1][f[m]] \in V
    BY <2>2
  <2> DEFINE g == [k \in 0..(m + 1) |-> IF k = m + 1 THEN step[m + 1][f[m]] ELSE f[k]]
  <2>4. g \in [0..(m + 1) -> V]
    BY <2>3
  <2>5. g[0] = a
    BY <2>1 DEF Follows
  <2>6. ASSUME NEW k \in 1..(m + 1) PROVE g[k] = step[k][g[k - 1]]
    <3>1. CASE k = m + 1
      <4>1. g[k] = step[m + 1][f[m]] /\ g[k - 1] = f[m]
        BY <3>1
      <4> QED BY <3>1, <4>1
    <3>2. CASE k # m + 1
      <4>1. k \in 1..m /\ g[k] = f[k] /\ g[k - 1] = f[k - 1]
        BY <3>2
      <4> QED BY <2>1, <4>1 DEF Follows
    <3> QED BY <3>1, <3>2
  <2> HIDE DEF g
  <2>7. Follows(g, m + 1, a, step)
    BY <2>5, <2>6 DEF Follows
  <2> QED BY <2>4, <2>7
<1>3. \A m \in 0..n : m \in S
  <2> HIDE DEF S
  <2> QED BY <1>1, <1>2, UpTo
<1> QED BY <1>3

(* A function that does not decrease from one number to the next does not     *)
(* decrease.                                                                 *)
LEMMA Increasing ==
  ASSUME NEW n \in Nat, NEW f \in [0..n -> Int], \A k \in 1..n : f[k - 1] <= f[k]
  PROVE  \A i, j \in 0..n : i <= j => f[i] <= f[j]
<1> SUFFICES ASSUME NEW i \in 0..n PROVE \A j \in 0..n : i <= j => f[i] <= f[j]
  OBVIOUS
<1> DEFINE S == {j \in 0..n : i <= j => f[i] <= f[j]}
<1>1. 0 \in S
  <2>1. i <= 0 => i = 0
    OBVIOUS
  <2>2. f[0] \in Int
    OBVIOUS
  <2> QED BY <2>1, <2>2
<1>2. ASSUME NEW j \in 0..(n - 1), j \in S PROVE j + 1 \in S
  <2>1. f[j] \in Int /\ f[j + 1] \in Int /\ f[i] \in Int /\ f[j] <= f[j + 1]
    <3>1. j + 1 \in 1..n /\ j + 1 - 1 = j
      OBVIOUS
    <3> QED BY <3>1
  <2>2. i <= j + 1 => f[i] <= f[j + 1]
    <3>1. CASE i <= j
      BY <1>2, <2>1, <3>1
    <3>2. CASE i = j + 1
      BY <2>1, <3>2
    <3> QED BY <3>1, <3>2
  <2> QED BY <2>2
<1>3. \A j \in 0..n : j \in S
  <2> HIDE DEF S
  <2> QED BY <1>1, <1>2, UpTo
<1> QED BY <1>3

-----------------------------------------------------------------------------
(* What a loop computes. *)
LEMMA LoopFacts ==
  ASSUME NEW n \in Nat, NEW V, NEW a \in V, NEW step \in [1..n -> [V -> V]]
  PROVE  /\ Loop(n, a, step) \in [0..n -> V] /\ Loop(n, a, step)[0] = a
         /\ \A k \in 1..n : Loop(n, a, step)[k] = step[k][Loop(n, a, step)[k - 1]]
<1> DEFINE Rec(g) == [k \in 0..n |-> IF k = 0 THEN a ELSE step[k][g[k - 1]]]
<1>1. PICK f \in [0..n -> V] : Follows(f, n, a, step)
  BY Recursion
<1>2. f = Rec(f)
  <2>1. ASSUME NEW k \in 0..n PROVE f[k] = Rec(f)[k]
    <3>1. CASE k = 0
      BY <1>1, <3>1 DEF Follows
    <3>2. CASE k # 0
      <4>1. k \in 1..n
        BY <3>2
      <4>2. f[k] = step[k][f[k - 1]]
        BY <1>1, <4>1 DEF Follows
      <4> QED BY <3>2, <4>2
    <3> QED BY <3>1, <3>2
  <2>2. Rec(f) = [k \in 0..n |-> Rec(f)[k]]
    OBVIOUS
  <2> HIDE DEF Rec
  <2> QED BY <2>1, <2>2
<1> DEFINE t == Loop(n, a, step)
<1>3. t = Rec(t)
  <2>1. t = CHOOSE g : g = Rec(g)
    BY DEF Loop
  <2> HIDE DEF Rec, t
  <2> QED BY <1>2, <2>1
<1> HIDE DEF t
<1>4. t[0] = a
  BY <1>3
<1>5. ASSUME NEW k \in 1..n PROVE t[k] = step[k][t[k - 1]]
  <2>1. k \in 0..n /\ k # 0
    OBVIOUS
  <2>2. t[k] = Rec(t)[k]
    <3> HIDE DEF Rec
    <3> QED BY <1>3
  <2> QED BY <2>1, <2>2
<1> DEFINE S == {k \in 0..n : t[k] \in V}
<1>6. 0 \in S
  BY <1>4
<1>7. ASSUME NEW k \in 0..(n - 1), k \in S PROVE k + 1 \in S
  <2>1. PICK j \in 1..n : j = k + 1 /\ j - 1 = k /\ j \in 0..n
    OBVIOUS
  <2>2. t[j] = step[j][t[k]] /\ t[k] \in V
    BY <1>5, <1>7, <2>1
  <2> QED BY <2>1, <2>2
<1>8. \A k \in 0..n : t[k] \in V
  <2> HIDE DEF S
  <2>1. \A k \in 0..n : k \in S
    BY <1>6, <1>7, UpTo
  <2> QED BY <2>1 DEF S
<1>9. t \in [0..n -> V]
  <2>1. t = [k \in 0..n |-> t[k]]
    <3>1. Rec(t) = [k \in 0..n |-> Rec(t)[k]]
      OBVIOUS
    <3> HIDE DEF Rec
    <3> QED BY <1>3, <3>1
  <2> QED BY <1>8, <2>1
<1> QED BY <1>4, <1>5, <1>9 DEF t

LoopOf(n, V, a, step) == n \in Nat /\ a \in V /\ step \in [1..n -> [V -> V]]
LoopRuns(n, V, a, step, s) == s \in [0..n -> V] /\ s[0] = a /\ \A k \in 1..n : s[k] = step[k][s[k - 1]]

LEMMA LoopRun ==
  ASSUME NEW n, NEW V, NEW a, NEW step, LoopOf(n, V, a, step)
  PROVE  LoopRuns(n, V, a, step, Loop(n, a, step))
<1>1. n \in Nat /\ a \in V /\ step \in [1..n -> [V -> V]]
  BY DEF LoopOf
<1> DEFINE s == Loop(n, a, step)
<1>2. s \in [0..n -> V] /\ s[0] = a /\ \A k \in 1..n : s[k] = step[k][s[k - 1]]
  BY ONLY <1>1, LoopFacts
<1> QED BY ONLY <1>2 DEF LoopRuns

(* A loop does not look ahead. *)
FirstSteps(V, m, n, part, step) ==
  /\ n \in Nat /\ m \in 0..n
  /\ step \in [1..n -> [V -> V]] /\ part \in [1..m -> [V -> V]]
  /\ \A k \in 1..m : part[k] = step[k]

LEMMA LoopPrefix ==
  ASSUME NEW V, NEW a \in V, NEW n, NEW m, NEW step, NEW part, FirstSteps(V, m, n, part, step)
  PROVE  Loop(m, a, part)[m] = Loop(n, a, step)[m]
<1>0. /\ n \in Nat /\ m \in 0..n
      /\ step \in [1..n -> [V -> V]] /\ part \in [1..m -> [V -> V]]
      /\ \A k \in 1..m : part[k] = step[k]
  BY DEF FirstSteps
<1> USE <1>0
<1> DEFINE F == Loop(m, a, part)
           G == Loop(n, a, step)
           S == {k \in 0..m : F[k] = G[k]}
<1>1. m \in Nat
  OBVIOUS
<1>2. F[0] = a /\ \A k \in 1..m : F[k] = part[k][F[k - 1]]
  BY <1>1, LoopFacts
<1>3. G[0] = a /\ \A k \in 1..n : G[k] = step[k][G[k - 1]]
  BY LoopFacts
<1> HIDE DEF F, G
<1>4. 0 \in S
  BY <1>1, <1>2, <1>3
<1>5. ASSUME NEW k \in 0..(m - 1), k \in S PROVE k + 1 \in S
  <2>1. PICK l \in 1..m : l = k + 1 /\ l - 1 = k /\ l \in 0..m /\ l \in 1..n
    OBVIOUS
  <2>2. F[k] = G[k]
    BY <1>5
  <2>3. F[l] = part[l][F[k]] /\ G[l] = step[l][G[k]] /\ part[l] = step[l]
    BY <1>2, <1>3, <2>1
  <2>4. F[l] = G[l]
    BY <2>2, <2>3
  <2> QED BY <2>1, <2>4
<1>6. \A k \in 0..m : k \in S
  <2> HIDE DEF S
  <2> QED BY <1>1, <1>4, <1>5, UpTo
<1>7. F[m] = G[m]
  BY <1>1, <1>6
<1> QED BY <1>7 DEF F, G

-----------------------------------------------------------------------------
(* Invariants of loops.  Phase[k] is a set in which the value after k steps  *)
(* is; a step need not make sense outside the set of its step.               *)
LEMMA LoopStaysIn ==
  ASSUME NEW n \in Nat, NEW a, NEW step, NEW Phase, a \in Phase[0],
         \A k \in 1..n : \A v \in Phase[k - 1] : step[k][v] \in Phase[k]
  PROVE  /\ Loop(n, a, step)[0] = a
         /\ \A k \in 1..n : Loop(n, a, step)[k] = step[k][Loop(n, a, step)[k - 1]]
         /\ \A k \in 0..n : Loop(n, a, step)[k] \in Phase[k]
<1> DEFINE Rec(g) == [k \in 0..n |-> IF k = 0 THEN a ELSE step[k][g[k - 1]]]
<1> DEFINE W == UNION {Phase[k] : k \in 0..n}
<1> DEFINE total == [k \in 1..n |-> [v \in W |-> IF v \in Phase[k - 1] THEN step[k][v] ELSE a]]
<1>0. \A k \in 0..n : \A v \in Phase[k] : v \in W
  OBVIOUS
<1>1. a \in W
  BY <1>0
<1>2. total \in [1..n -> [W -> W]]
  <2>1. ASSUME NEW k \in 1..n, NEW v \in W PROVE (IF v \in Phase[k - 1] THEN step[k][v] ELSE a) \in W
    <3> HIDE DEF W
    <3>1. k \in 0..n
      OBVIOUS
    <3> QED BY <1>0, <1>1, <3>1
  <2> HIDE DEF W
  <2> QED BY <2>1
<1>3. \A k \in 1..n : \A v \in W : v \in Phase[k - 1] => total[k][v] = step[k][v]
  <2> HIDE DEF W
  <2> QED OBVIOUS
<1> HIDE DEF W, total
<1>4. PICK f \in [0..n -> W] : Follows(f, n, a, total)
  BY <1>1, <1>2, Recursion
<1> DEFINE S == {k \in 0..n : f[k] \in Phase[k]}
<1>5. 0 \in S
  BY <1>4 DEF Follows
<1>6. ASSUME NEW k \in 0..(n - 1), k \in S PROVE k + 1 \in S
  <2>1. PICK l \in 1..n : l = k + 1 /\ l - 1 = k /\ l \in 0..n
    OBVIOUS
  <2>2. f[k] \in Phase[l - 1] /\ f[k] \in W
    BY <1>6, <2>1
  <2>3. f[l] = total[l][f[k]]
    BY <1>4, <2>1 DEF Follows
  <2>4. f[l] = step[l][f[k]]
    BY <1>3, <2>1, <2>2, <2>3
  <2>5. f[l] \in Phase[l]
    BY <2>2, <2>4
  <2> QED BY <2>1, <2>5
<1>7. \A k \in 0..n : f[k] \in Phase[k]
  <2> HIDE DEF S
  <2>1. \A k \in 0..n : k \in S
    BY <1>5, <1>6, UpTo
  <2> QED BY <2>1 DEF S
<1>8. \A k \in 1..n : f[k] = step[k][f[k - 1]]
  <2> SUFFICES ASSUME NEW k \in 1..n PROVE f[k] = step[k][f[k - 1]]
    OBVIOUS
  <2>1. k - 1 \in 0..n
    OBVIOUS
  <2>2. f[k - 1] \in Phase[k - 1] /\ f[k - 1] \in W
    BY <1>7, <2>1
  <2>3. f[k] = total[k][f[k - 1]]
    BY <1>4 DEF Follows
  <2> QED BY <1>3, <2>2, <2>3
<1>9. f = Rec(f)
  <2>1. ASSUME NEW k \in 0..n PROVE f[k] = Rec(f)[k]
    <3>1. CASE k = 0
      BY <1>4, <3>1 DEF Follows
    <3>2. CASE k # 0
      BY <1>8, <3>2
    <3> QED BY <3>1, <3>2
  <2>2. Rec(f) = [k \in 0..n |-> Rec(f)[k]]
    OBVIOUS
  <2> HIDE DEF Rec
  <2> QED BY <2>1, <2>2
<1> DEFINE t == Loop(n, a, step)
<1>10. t = Rec(t)
  <2>1. t = CHOOSE g : g = Rec(g)
    BY DEF Loop
  <2> HIDE DEF Rec, t
  <2> QED BY <1>9, <2>1
<1> HIDE DEF t
<1>11. t[0] = a /\ \A k \in 1..n : t[k] = step[k][t[k - 1]]
  BY <1>10
<1> DEFINE T == {k \in 0..n : t[k] = f[k]}
<1>12. 0 \in T
  BY <1>4, <1>11 DEF Follows
<1>13. ASSUME NEW k \in 0..(n - 1), k \in T PROVE k + 1 \in T
  <2>1. PICK l \in 1..n : l = k + 1 /\ l - 1 = k /\ l \in 0..n
    OBVIOUS
  <2>2. f[l] = step[l][f[k]] /\ t[l] = step[l][t[k]]
    BY <1>8, <1>11, <2>1
  <2> QED BY <1>13, <2>1, <2>2
<1>14. \A k \in 0..n : t[k] = f[k]
  <2> HIDE DEF T
  <2>1. \A k \in 0..n : k \in T
    BY <1>12, <1>13, UpTo
  <2> QED BY <2>1 DEF T
<1> QED BY <1>7, <1>11, <1>14 DEF t

(* Halving comes back to smaller numbers. *)
LEMMA Halves ==
  ASSUME NEW m \in Nat, m > 1
  PROVE  /\ m \div 2 \in 1..(m - 1) /\ m - (m \div 2) \in 1..(m - 1)
         /\ (m \div 2) + (m - (m \div 2)) = m
BY SMT

HalvedStep(g, m, V, step) ==
  [t \in V |-> CASE m = 0 -> t
                 [] m = 1 -> step[t]
                 [] OTHER -> g[m - (m \div 2)][g[m \div 2][t]]]

Halved(f, n, V, step) == f = [m \in 0..n |-> HalvedStep(f, m, V, step)]

LEMMA HalvedCases ==
  ASSUME NEW g, NEW V, NEW step
  PROVE  /\ HalvedStep(g, 0, V, step) = [t \in V |-> t]
         /\ HalvedStep(g, 1, V, step) = [t \in V |-> step[t]]
         /\ \A m \in Nat : m > 1 => HalvedStep(g, m, V, step)
                                    = [t \in V |-> g[m - (m \div 2)][g[m \div 2][t]]]
<1>1. HalvedStep(g, 0, V, step) = [t \in V |-> t]
  BY DEF HalvedStep
<1>2. HalvedStep(g, 1, V, step) = [t \in V |-> step[t]]
  BY DEF HalvedStep
<1>3. ASSUME NEW m \in Nat, m > 1
      PROVE  HalvedStep(g, m, V, step) = [t \in V |-> g[m - (m \div 2)][g[m \div 2][t]]]
  <2>1. m # 0 /\ m # 1
    BY <1>3
  <2> QED BY <2>1 DEF HalvedStep
<1> QED BY <1>1, <1>2, <1>3

(* The function that Repeat chooses exists. *)
LEMMA RepeatExists ==
  ASSUME NEW n \in Nat, NEW V, NEW step
  PROVE  \E f : Halved(f, n, V, step)
<1> DEFINE S == {l \in 0..n : \E f : Halved(f, l, V, step)}
<1>1. 0 \in S
  <2> DEFINE g == [m \in 0..0 |-> [t \in V |-> t]]
  <2>1. \A h : HalvedStep(h, 0, V, step) = [t \in V |-> t]
    BY DEF HalvedStep
  <2>2. g = [m \in 0..0 |-> HalvedStep(g, m, V, step)]
    <3>1. \A m \in 0..0 : HalvedStep(g, m, V, step) = [t \in V |-> t]
      BY <2>1
    <3> QED BY <3>1
  <2> HIDE DEF g
  <2>3. Halved(g, 0, V, step)
    BY <2>2 DEF Halved
  <2> QED BY <2>3
<1>2. ASSUME NEW l \in 0..(n - 1), l \in S PROVE l + 1 \in S
  <2>1. PICK f : Halved(f, l, V, step)
    BY <1>2
  <2> DEFINE g == [m \in 0..(l + 1) |-> IF m = l + 1 THEN HalvedStep(f, m, V, step) ELSE f[m]]
  <2>2. ASSUME NEW m \in 0..(l + 1) PROVE HalvedStep(g, m, V, step) = HalvedStep(f, m, V, step)
    <3>1. CASE m > 1
      <4>1. m \div 2 \in 0..l /\ m - (m \div 2) \in 0..l
        <5>1. m \div 2 \in 1..(m - 1) /\ m - (m \div 2) \in 1..(m - 1)
          BY <3>1, Halves
        <5> QED BY <5>1
      <4>2. \A k \in 0..l : g[k] = f[k]
        OBVIOUS
      <4>3. g[m \div 2] = f[m \div 2] /\ g[m - (m \div 2)] = f[m - (m \div 2)]
        <5> HIDE DEF g
        <5> QED BY <4>1, <4>2
      <4> HIDE DEF g
      <4>4. m \in Nat
        OBVIOUS
      <4> QED BY <3>1, <4>3 DEF HalvedStep
    <3>2. CASE m = 0 \/ m = 1
      <4> HIDE DEF g
      <4> QED BY <3>2, HalvedCases
    <3> QED BY <3>1, <3>2
  <2>3. ASSUME NEW m \in 0..(l + 1) PROVE g[m] = HalvedStep(f, m, V, step)
    <3>1. CASE m = l + 1
      BY <3>1
    <3>2. CASE m # l + 1
      <4>1. m \in 0..l /\ g[m] = f[m]
        BY <3>2
      <4> QED BY <2>1, <4>1 DEF Halved
    <3> QED BY <3>1, <3>2
  <2>4. g = [m \in 0..(l + 1) |-> g[m]]
    OBVIOUS
  <2> HIDE DEF g
  <2>5. Halved(g, l + 1, V, step)
    BY <2>2, <2>3, <2>4 DEF Halved
  <2> QED BY <2>5
<1>3. \A l \in 0..n : l \in S
  <2> HIDE DEF S
  <2> QED BY <1>1, <1>2, UpTo
<1> QED BY <1>3

LEMMA RepeatStaysIn ==
  ASSUME NEW n \in Nat, NEW V, NEW a, NEW step, NEW Phase, a \in Phase[0],
         \A k \in 0..n : \A t \in Phase[k] : t \in V,
         \A k \in 1..n : \A t \in Phase[k - 1] : step[t] \in Phase[k]
  PROVE  Repeat(n, a, V, step) \in Phase[n]
<1> DEFINE f == CHOOSE g : Halved(g, n, V, step)
<1>1. Repeat(n, a, V, step) = f[n][a]
  BY DEF Repeat, Halved, HalvedStep
<1>2. Halved(f, n, V, step)
  BY RepeatExists
<1> HIDE DEF f
<1>4. \A m \in 0..n : f[m] = HalvedStep(f, m, V, step)
  BY <1>2 DEF Halved
<1> DEFINE Ok(m) == \A j \in 0..(n - m) : \A t \in Phase[j] : f[m][t] \in Phase[j + m]
           S == {m \in 0..n : \A l \in 0..m : Ok(l)}
<1>5. ASSUME NEW m \in 0..n, \A l \in 0..(m - 1) : Ok(l) PROVE Ok(m)
  <2> SUFFICES ASSUME NEW j \in 0..(n - m), NEW t \in Phase[j] PROVE f[m][t] \in Phase[j + m]
    OBVIOUS
  <2>1. j \in 0..n /\ t \in V /\ m \in Nat /\ f[m] = HalvedStep(f, m, V, step)
    <3>1. j \in 0..n
      OBVIOUS
    <3> QED BY <1>4, <3>1
  <2>2. CASE m = 0
    <3>1. f[m][t] = t
      BY <2>1, <2>2, HalvedCases
    <3> QED BY <2>2, <3>1
  <2>3. CASE m = 1
    <3>1. PICK l \in 1..n : l = j + 1 /\ l - 1 = j
      BY <2>3
    <3>2. step[t] \in Phase[l]
      BY <3>1
    <3>3. f[m][t] = step[t]
      BY <2>1, <2>3, HalvedCases
    <3> QED BY <2>3, <3>1, <3>2, <3>3
  <2>4. CASE m > 1
    <3>1. PICK h, r \in 1..(m - 1) : h = m \div 2 /\ r = m - (m \div 2) /\ h + r = m
      BY <2>4, Halves
    <3>2. f[h][t] \in Phase[j + h]
      <4>1. h \in 0..(m - 1) /\ j \in 0..(n - h)
        OBVIOUS
      <4> QED BY <1>5, <4>1
    <3>3. f[r][f[h][t]] \in Phase[(j + h) + r]
      <4>1. r \in 0..(m - 1) /\ j + h \in 0..(n - r)
        BY <3>1
      <4> QED BY <1>5, <3>2, <4>1
    <3>4. (j + h) + r = j + m
      BY <3>1
    <3>6. f[m][t] = f[r][f[h][t]]
      <4>1. m # 0 /\ m # 1
        BY <2>4
      <4>2. f[m][t] = f[m - (m \div 2)][f[m \div 2][t]]
        BY <2>1, <4>1 DEF HalvedStep
      <4> QED BY <3>1, <4>2
    <3> QED BY <3>3, <3>4, <3>6
  <2> QED BY <2>2, <2>3, <2>4
<1>6. 0 \in S
  <2>1. \A l \in 0..(0 - 1) : Ok(l)
    OBVIOUS
  <2>2. Ok(0)
    <3> HIDE DEF Ok
    <3> QED BY <1>5, <2>1
  <2> HIDE DEF Ok
  <2> QED BY <2>2
<1>7. ASSUME NEW m \in 0..(n - 1), m \in S PROVE m + 1 \in S
  <2> HIDE DEF Ok
  <2>1. \A l \in 0..m : Ok(l)
    BY <1>7
  <2>2. PICK k \in 0..n : k = m + 1 /\ k - 1 = m
    OBVIOUS
  <2>3. Ok(k)
    BY <1>5, <2>1, <2>2
  <2>4. \A l \in 0..k : l \in 0..m \/ l = k
    BY <2>2
  <2>5. k \in S
    BY <2>1, <2>3, <2>4
  <2> QED BY <2>2, <2>5
<1>8. Ok(n)
  <2> HIDE DEF Ok
  <2>1. \A m \in 0..n : m \in S
    <3> HIDE DEF S
    <3> QED BY <1>6, <1>7, UpTo
  <2> QED BY <2>1
<1> QED BY <1>1, <1>8

-----------------------------------------------------------------------------
(* Sums.  Whatever follows the recurrence is the sum.                        *)
LEMMA SumLoop ==
  ASSUME NEW n \in Nat, NEW f \in [1..n -> Int]
  PROVE  \E s \in [0..n -> Int] :
           s[0] = 0 /\ (\A k \in 1..n : s[k] = s[k - 1] + f[k]) /\ SumTo(n, f) = s[n]
<1> DEFINE step == [k \in 1..n |-> [s \in Int |-> s + f[k]]]
<1> DEFINE s == Loop(n, 0, step)
<1>1. step \in [1..n -> [Int -> Int]]
  OBVIOUS
<1>2. \A k \in 1..n : \A x \in Int : step[k][x] = x + f[k]
  OBVIOUS
<1>3. SumTo(n, f) = s[n]
  BY DEF SumTo
<1> HIDE DEF step
<1>4. s \in [0..n -> Int] /\ s[0] = 0 /\ \A k \in 1..n : s[k] = step[k][s[k - 1]]
  <2> DEFINE V == Int
  <2>1. 0 \in V
    OBVIOUS
  <2>3. step \in [1..n -> [V -> V]]
    BY <1>1
  <2> HIDE DEF V
  <2>2. s \in [0..n -> V] /\ s[0] = 0 /\ \A k \in 1..n : s[k] = step[k][s[k - 1]]
    <3>1. LoopOf(n, V, 0, step)
      BY <2>1, <2>3 DEF LoopOf
    <3>2. LoopRuns(n, V, 0, step, Loop(n, 0, step))
      BY ONLY <3>1, LoopRun
    <3> QED BY ONLY <3>2 DEF LoopRuns, s
  <2> QED BY <2>2 DEF V
<1> HIDE DEF s
<1>5. ASSUME NEW k \in 1..n PROVE s[k] = s[k - 1] + f[k]
  <2>1. s[k - 1] \in Int
    BY <1>4
  <2> QED BY <1>2, <1>4, <2>1
<1> QED BY <1>3, <1>4, <1>5

LEMMA SumIs ==
  ASSUME NEW n \in Nat, NEW f \in [1..n -> Int], NEW s, s[0] = 0,
         \A k \in 1..n : s[k] = s[k - 1] + f[k]
  PROVE  SumTo(n, f) = s[n]
<1>1. PICK t \in [0..n -> Int] :
        t[0] = 0 /\ (\A k \in 1..n : t[k] = t[k - 1] + f[k]) /\ SumTo(n, f) = t[n]
  BY SumLoop
<1> DEFINE S == {k \in 0..n : t[k] = s[k]}
<1>2. 0 \in S
  BY <1>1
<1>3. ASSUME NEW k \in 0..(n - 1), k \in S PROVE k + 1 \in S
  <2>1. PICK l \in 1..n : l = k + 1 /\ l - 1 = k /\ l \in 0..n
    OBVIOUS
  <2>2. t[l] = t[k] + f[l] /\ s[l] = s[k] + f[l]
    BY <1>1, <2>1
  <2> QED BY <1>3, <2>1, <2>2
<1>4. \A k \in 0..n : k \in S
  <2> HIDE DEF S
  <2> QED BY <1>2, <1>3, UpTo
<1> QED BY <1>1, <1>4

LEMMA SumNat ==
  ASSUME NEW n \in Nat, NEW f \in [1..n -> Nat]
  PROVE  SumTo(n, f) \in Nat
<1>1. PICK s \in [0..n -> Int] :
        s[0] = 0 /\ (\A k \in 1..n : s[k] = s[k - 1] + f[k]) /\ SumTo(n, f) = s[n]
  <2>1. f \in [1..n -> Int]
    OBVIOUS
  <2> QED BY <2>1, SumLoop
<1> DEFINE S == {k \in 0..n : s[k] \in Nat}
<1>2. 0 \in S
  BY <1>1
<1>3. ASSUME NEW k \in 0..(n - 1), k \in S PROVE k + 1 \in S
  <2>1. PICK l \in 1..n : l = k + 1 /\ l - 1 = k /\ l \in 0..n
    OBVIOUS
  <2>2. s[l] = s[k] + f[l]
    BY <1>1, <2>1
  <2> QED BY <1>3, <2>1, <2>2
<1>4. \A k \in 0..n : k \in S
  <2> HIDE DEF S
  <2> QED BY <1>2, <1>3, UpTo
<1> QED BY <1>1, <1>4

(* One term changes. *)
SameBut(n, f, g, i) == \A k \in 1..n : k # i => g[k] = f[k]
SumFollows(n, f, g, i) == SumTo(n, g) = SumTo(n, f) - f[i] + g[i]

LEMMA SumUpdate ==
  ASSUME NEW n \in Nat, NEW f \in [1..n -> Int], NEW g \in [1..n -> Int], NEW i \in 1..n,
         SameBut(n, f, g, i)
  PROVE  SumFollows(n, f, g, i)
<1>0. \A k \in 1..n : k # i => g[k] = f[k]
  BY DEF SameBut
<1>1. PICK s \in [0..n -> Int] :
        s[0] = 0 /\ (\A k \in 1..n : s[k] = s[k - 1] + f[k]) /\ SumTo(n, f) = s[n]
  BY SumLoop
<1> DEFINE t == [k \in 0..n |-> IF k < i THEN s[k] ELSE s[k] - f[i] + g[i]]
<1>2. t[0] = 0
  BY <1>1
<1>3. ASSUME NEW k \in 1..n PROVE t[k] = t[k - 1] + g[k]
  <2>1. k \in 0..n /\ k - 1 \in 0..n /\ s[k] = s[k - 1] + f[k]
    BY <1>1
  <2>2. s[k] \in Int /\ s[k - 1] \in Int /\ f[k] \in Int /\ f[i] \in Int /\ g[i] \in Int /\ g[k] \in Int
    BY <2>1
  <2>3. t[k] = (IF k < i THEN s[k] ELSE s[k] - f[i] + g[i])
        /\ t[k - 1] = (IF k - 1 < i THEN s[k - 1] ELSE s[k - 1] - f[i] + g[i])
    BY <2>1
  <2> HIDE DEF t
  <2>4. CASE k < i
    BY <1>0, <2>1, <2>2, <2>3, <2>4
  <2>5. CASE k = i
    BY <2>1, <2>2, <2>3, <2>5
  <2>6. CASE k > i
    BY <1>0, <2>1, <2>2, <2>3, <2>6
  <2> QED BY <2>4, <2>5, <2>6
<1>4. t[n] = s[n] - f[i] + g[i]
  OBVIOUS
<1> HIDE DEF t
<1>5. SumTo(n, g) = t[n]
  BY <1>2, <1>3, SumIs
<1> QED BY <1>1, <1>4, <1>5 DEF SumFollows

(* A set is as large as the parts that a key cuts it into. *)
Parts(n, S, key) == [k \in 1..n |-> Cardinality({x \in S : key[x] = k})]

LEMMA SumOfParts ==
  ASSUME NEW n \in Nat, NEW S, IsFiniteSet(S), NEW key \in [S -> 1..n]
  PROVE  SumTo(n, Parts(n, S, key)) = Cardinality(S)
<1> DEFINE part(k) == {x \in S : key[x] = k}
           upto(k) == {x \in S : key[x] <= k}
           f == [k \in 1..n |-> Cardinality(part(k))]
           s == [k \in 0..n |-> Cardinality(upto(k))]
<1>1. ASSUME NEW k \in Int
      PROVE  /\ IsFiniteSet(part(k)) /\ Cardinality(part(k)) \in Nat
             /\ IsFiniteSet(upto(k)) /\ Cardinality(upto(k)) \in Nat
  <2>1. part(k) \in SUBSET S /\ upto(k) \in SUBSET S
    OBVIOUS
  <2> HIDE DEF part, upto
  <2>2. IsFiniteSet(part(k)) /\ IsFiniteSet(upto(k))
    BY <2>1, FS_Subset
  <2> QED BY <2>2, FS_CardinalityType
<1>2. f \in [1..n -> Int]
  <2>1. ASSUME NEW k \in 1..n PROVE Cardinality(part(k)) \in Int
    <3>1. k \in Int
      OBVIOUS
    <3>2. Cardinality(part(k)) \in Nat
      BY <1>1, <3>1
    <3> HIDE DEF part
    <3> QED BY <3>2
  <2> HIDE DEF part
  <2> QED BY <2>1
<1>3. s[0] = 0
  <2>1. upto(0) = {}
    OBVIOUS
  <2> HIDE DEF upto
  <2> QED BY <2>1, FS_EmptySet
<1>4. ASSUME NEW k \in 1..n PROVE s[k] = s[k - 1] + f[k]
  <2>1. upto(k) = upto(k - 1) \cup part(k) /\ upto(k - 1) \cap part(k) = {}
    OBVIOUS
  <2>2. k - 1 \in Int /\ k \in Int /\ k \in 0..n /\ k - 1 \in 0..n
    OBVIOUS
  <2> HIDE DEF upto, part
  <2>3. Cardinality(upto(k)) = Cardinality(upto(k - 1)) + Cardinality(part(k))
                                 - Cardinality(upto(k - 1) \cap part(k))
    BY <1>1, <2>1, <2>2, FS_Union
  <2>4. Cardinality(upto(k - 1) \cap part(k)) = 0
    BY <2>1, FS_EmptySet
  <2>5. Cardinality(upto(k)) = Cardinality(upto(k - 1)) + Cardinality(part(k))
    BY <1>1, <2>2, <2>3, <2>4
  <2> QED BY <2>2, <2>5
<1>5. s[n] = Cardinality(S)
  <2>1. upto(n) = S
    OBVIOUS
  <2> HIDE DEF upto
  <2> QED BY <2>1
<1> HIDE DEF s, f
<1>6. SumTo(n, f) = s[n]
  BY <1>2, <1>3, <1>4, SumIs
<1> QED BY <1>5, <1>6 DEF f, Parts

-----------------------------------------------------------------------------
(* Powers of two, from the number of subsets of a set. *)
LEMMA PowerOfTwo ==
  ASSUME NEW n \in Nat
  PROVE  2^n \in Nat /\ 2^n > 0 /\ 2^(n + 1) = 2 * 2^n
<1> DEFINE A == SUBSET (1..n)
           B == {T \in SUBSET (1..(n + 1)) : n + 1 \in T}
           f == [T \in A |-> T \cup {n + 1}]
<1>1. IsFiniteSet(1..n) /\ Cardinality(1..n) = n /\ IsFiniteSet(1..(n + 1)) /\ Cardinality(1..(n + 1)) = n + 1
  BY FS_Interval
<1>2. IsFiniteSet(A) /\ Cardinality(A) = 2^n
  BY <1>1, FS_SUBSET
<1>3. Cardinality(SUBSET (1..(n + 1))) = 2^(n + 1)
  BY <1>1, FS_SUBSET
<1>4. f \in Bijection(A, B)
  <2>1. ASSUME NEW T \in A PROVE T \cup {n + 1} \in B
    OBVIOUS
  <2>2. f \in [A -> B]
    <3> HIDE DEF A, B
    <3> QED BY <2>1
  <2>3. ASSUME NEW T \in A, NEW U \in A, f[T] = f[U] PROVE T = U
    <3>1. T \cup {n + 1} = U \cup {n + 1}
      BY <2>3
    <3>2. n + 1 \notin T /\ n + 1 \notin U
      OBVIOUS
    <3> QED BY <3>1, <3>2
  <2>4. ASSUME NEW T \in B PROVE \E U \in A : f[U] = T
    <3>1. T \ {n + 1} \in A
      <4>1. ASSUME NEW x \in T \ {n + 1} PROVE x \in 1..n
        OBVIOUS
      <4> QED BY <4>1
    <3>2. (T \ {n + 1}) \cup {n + 1} = T
      OBVIOUS
    <3>3. f[T \ {n + 1}] = T
      <4> HIDE DEF A
      <4> QED BY <3>1, <3>2
    <3> QED BY <3>1, <3>3
  <2> HIDE DEF A, B, f
  <2> QED BY <2>2, <2>3, <2>4 DEF Bijection, Injection, Surjection, IsInjective
<1>5. IsFiniteSet(B) /\ Cardinality(B) = Cardinality(A)
  <2> HIDE DEF A, B, f
  <2>1. ExistsBijection(A, B)
    BY <1>4 DEF ExistsBijection
  <2> QED BY <1>2, <2>1, FS_Bijection
<1>6. SUBSET (1..(n + 1)) = A \cup B /\ A \cap B = {}
  <2>1. ASSUME NEW T \in SUBSET (1..(n + 1)), n + 1 \notin T PROVE T \in A
    <3>1. ASSUME NEW x \in T PROVE x \in 1..n
      BY <2>1
    <3> QED BY <3>1
  <2>2. \A T \in A : T \in SUBSET (1..(n + 1)) /\ n + 1 \notin T
    OBVIOUS
  <2>3. \A T : T \in B <=> T \in SUBSET (1..(n + 1)) /\ n + 1 \in T
    OBVIOUS
  <2> HIDE DEF A, B
  <2> QED BY <2>1, <2>2, <2>3
<1> HIDE DEF A, B
<1>7. Cardinality(A \cup B) = Cardinality(A) + Cardinality(B) - Cardinality(A \cap B)
  BY <1>2, <1>5, FS_Union
<1>8. Cardinality(A \cap B) = 0
  BY <1>6, FS_EmptySet
<1>9. Cardinality(A) \in Nat
  BY <1>2, FS_CardinalityType
<1>10. 2^(n + 1) = 2 * 2^n
  <2>1. Cardinality(A \cup B) = Cardinality(A) + Cardinality(A)
    BY <1>5, <1>7, <1>8, <1>9
  <2>2. 2^(n + 1) = Cardinality(A \cup B)
    BY <1>3, <1>6
  <2> QED BY <1>2, <1>9, <2>1, <2>2
<1>11. A # {}
  <2>1. {} \in A
    BY DEF A
  <2> QED BY <2>1
<1>12. Cardinality(A) # 0
  BY <1>2, <1>11, FS_EmptySet
<1> QED BY <1>2, <1>9, <1>10, <1>12

LEMMA PowerExceeds ==
  ASSUME NEW n \in Nat
  PROVE  n < 2^n
<1> DEFINE S == {k \in Nat : k < 2^k}
<1>1. 0 \in S
  BY PowerOfTwo
<1>2. ASSUME NEW k \in Nat, k \in S PROVE k + 1 \in S
  <2>1. 2^k \in Nat /\ 2^(k + 1) = 2 * 2^k /\ k < 2^k
    BY <1>2, PowerOfTwo
  <2>2. k + 1 < 2^(k + 1)
    BY <2>1
  <2> QED BY <2>2
<1>3. \A k \in Nat : k \in S
  <2> HIDE DEF S
  <2> QED BY <1>1, <1>2, Induction
<1> QED BY <1>3
=============================================================================
