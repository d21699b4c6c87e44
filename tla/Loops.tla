------------------------------- MODULE Loops -------------------------------
(***************************************************************************)
(* Loops, as recursive functions of the number of steps.                   *)
(*                                                                         *)
(* TLC evaluates a parameter or a LET definition where it is used, and     *)
(* again at each use, but the argument of a function once.                 *)
(***************************************************************************)
EXTENDS Integers, FiniteSets

(* F(x), with x evaluated once. *)
With(x, F(_)) == CHOOSE y \in {F(v) : v \in {x}} : TRUE

(* A loop: the values from a on, each by a step of its own from the one before. *)
Loop(n, a, step) == LET f[k \in 0..n] == IF k = 0 THEN a ELSE step[k][f[k - 1]] IN f

(* The same with an operator, for values that no set is named for. *)
Steps(n, a, Step(_, _)) ==
  LET f[k \in 0..n] == IF k = 0 THEN a ELSE With(f[k - 1], LAMBDA t : Step(k, t)) IN f[n]

(* n times the same step, from a; by halves, so that a long loop nests little. *)
Repeat(n, a, V, step) ==
  LET f[m \in 0..n] == [t \in V |-> CASE m = 0 -> t
                                      [] m = 1 -> step[t]
                                      [] OTHER -> f[m - (m \div 2)][f[m \div 2][t]]]
  IN  f[n][a]

(* f[1] + ... + f[n] *)
SumTo(n, f) == Loop(n, 0, [k \in 1..n |-> [s \in Int |-> s + f[k]]])[n]

(* The numbers in S as a sequence, by their keys, then by themselves. *)
Arranged(S, key) ==
  With([s \in S |-> Cardinality({t \in S : key[t] < key[s] \/ (key[t] = key[s] /\ t <= s)})],
       LAMBDA place : [i \in 1..Cardinality(S) |-> CHOOSE s \in S : place[s] = i])
=============================================================================
