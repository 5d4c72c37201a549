------------------------------- MODULE Iteration -------------------------------
(* Least and greatest elements, induction and iteration over the naturals,  *)
(* of sets and functions: what proofs about recursive functions rest on.    *)
EXTENDS Integers, FiniteSetsExt, WellFoundedInduction, TLAPS

LessThan == {p \in Nat \X Nat : p[1] < p[2]}

(* The naturals are well-founded. *)
LEMMA LessThanWellFounded == IsWellFoundedOn(LessThan, Nat)
BY NatLessThanWellFounded DEF OpToRel, LessThan

(* A set of naturals that is not empty has a least element. *)
LEMMA LeastOf ==
  ASSUME NEW T, T \subseteq Nat, T # {}
  PROVE  \E x \in T : \A y \in T : x <= y
<1>1. PICK x \in T : \A y \in T : ~ (<<y, x>> \in LessThan)
  <2>1. IsWellFoundedOn(LessThan, Nat)
    BY LessThanWellFounded
  <2> QED BY <2>1, WFMin
<1>2. ASSUME NEW y \in T
      PROVE  x <= y
  <2>1. x \in Nat /\ y \in Nat /\ ~(<<y, x>> \in LessThan)
    BY <1>1
  <2>2. ~(y < x)
    BY <2>1 DEF LessThan
  <2> QED BY <2>1, <2>2
<1> QED BY <1>2

(* A set that has 0, and with n also n + 1, has every natural. *)
LEMMA Induction ==
  ASSUME NEW S, 0 \in S, \A n \in Nat : n \in S => n + 1 \in S
  PROVE  Nat \subseteq S
<1> SUFFICES ASSUME Nat \ S # {}
             PROVE  FALSE
  OBVIOUS
<1>1. PICK x \in Nat \ S : \A y \in Nat \ S : x <= y
  BY LeastOf
<1>2. x \in Nat /\ x # 0
  BY <1>1
<1>3. x - 1 \in Nat /\ ~(x <= x - 1)
  BY <1>2
<1>4. x - 1 \in S
  BY <1>1, <1>3
<1>5. (x - 1) + 1 \in S
  BY <1>3, <1>4
<1> QED BY <1>1, <1>2, <1>5

(* Min finds the least element, *)
LEMMA MinOf ==
  ASSUME NEW T, T \subseteq Nat, T # {}
  PROVE  Min(T) \in T /\ \A y \in T : Min(T) <= y
<1>1. \E x \in T : \A y \in T : x <= y
  BY LeastOf
<1> QED BY <1>1 DEF Min

(* and Max the greatest of a bounded set, *)
LEMMA MaxOf ==
  ASSUME NEW b \in Nat, NEW T, T \subseteq 0 .. b, T # {}
  PROVE  Max(T) \in T /\ \A y \in T : Max(T) >= y
<1> DEFINE U == {b - x : x \in T}
<1>1. PICK u \in U : \A v \in U : u <= v
  <2>1. U \subseteq Nat
    <3>1. \A x \in T : b - x \in Nat
      OBVIOUS
    <3> QED BY <3>1
  <2>2. U # {}
    OBVIOUS
  <2> QED BY <2>1, <2>2, LeastOf
<1>2. PICK x \in T : u = b - x
  BY <1>1
<1>3. ASSUME NEW y \in T PROVE x >= y
  <2>1. b - y \in U
    OBVIOUS
  <2>2. b - x <= b - y
    BY <1>1, <1>2, <2>1
  <2>3. x \in 0 .. b /\ y \in 0 .. b
    OBVIOUS
  <2> QED BY <2>2, <2>3
<1> QED BY <1>3 DEF Max

(* or a number kept from falling below 0. *)
LEMMA MaxOfTwo ==
  ASSUME NEW x \in Int
  PROVE  Max({0, x}) = IF x > 0 THEN x ELSE 0
BY DEF Max

(* A function that starts somewhere and goes on by steps: there is one *)
Iterates(S, step, x, f) ==
  f \in [Nat -> S] /\ f[0] = x /\ \A n \in Nat : f[n + 1] = step[f[n]]

LEMMA IteratesExist ==
  ASSUME NEW S, NEW step \in [S -> S], NEW x \in S
  PROVE  \E f : Iterates(S, step, x, f)
<1> DEFINE Run(g, n) == /\ g \in [0 .. n -> S]
                        /\ g[0] = x
                        /\ \A k \in 0 .. n - 1 : g[k + 1] = step[g[k]]
           Good == {n \in Nat : \E g : Run(g, n)}
<1>1. 0 \in Good
  <2>1. Run([k \in 0 .. 0 |-> x], 0)
    OBVIOUS
  <2> QED BY <2>1
<1>2. ASSUME NEW n \in Nat, n \in Good
      PROVE  n + 1 \in Good
  <2>1. PICK g : Run(g, n)
    BY <1>2
  <2> DEFINE h == [k \in 0 .. n + 1 |-> IF k <= n THEN g[k] ELSE step[g[n]]]
  <2>2. h \in [0 .. n + 1 -> S]
    <3>1. g[n] \in S /\ \A k \in 0 .. n : g[k] \in S
      BY <2>1
    <3> QED BY <3>1
  <2>3. h[0] = x
    BY <2>1
  <2>4. \A k \in 0 .. n : h[k + 1] = step[h[k]]
    BY <2>1
  <2>5. Run(h, n + 1)
    BY <2>2, <2>3, <2>4
  <2> QED BY <2>5
<1>3. Nat \subseteq Good
  <2> HIDE DEF Good
  <2> QED BY <1>1, <1>2, Induction
<1> DEFINE run == [n \in Nat |-> CHOOSE g : Run(g, n)]
<1>4. \A n \in Nat : Run(run[n], n)
  BY <1>3
<1> HIDE DEF run
<1> DEFINE Same == {n \in Nat : \A m \in Nat : n <= m => run[m][n] = run[n][n]}
<1>5. 0 \in Same
  BY <1>4
<1>6. ASSUME NEW n \in Nat, n \in Same
      PROVE  n + 1 \in Same
  <2>1. ASSUME NEW m \in Nat, n + 1 <= m
        PROVE  run[m][n + 1] = run[n + 1][n + 1]
    <3>1. run[m][n + 1] = step[run[m][n]]
      <4>1. n \in 0 .. m - 1
        BY <2>1
      <4> QED BY <4>1, <1>4
    <3>2. run[n + 1][n + 1] = step[run[n + 1][n]]
      <4>1. n \in 0 .. (n + 1) - 1 /\ n + 1 \in Nat
        OBVIOUS
      <4> QED BY <4>1, <1>4
    <3>3. run[m][n] = run[n][n] /\ run[n + 1][n] = run[n][n]
      BY <1>6, <2>1
    <3> QED BY <3>1, <3>2, <3>3
  <2> QED BY <2>1
<1>7. Nat \subseteq Same
  <2> HIDE DEF Same
  <2> QED BY <1>5, <1>6, Induction
<1> DEFINE f == [n \in Nat |-> run[n][n]]
<1>8. f \in [Nat -> S] /\ f[0] = x
  BY <1>4
<1>9. ASSUME NEW n \in Nat
      PROVE  f[n + 1] = step[f[n]]
  <2>1. run[n + 1][n + 1] = step[run[n + 1][n]]
    <3>1. n \in 0 .. (n + 1) - 1 /\ n + 1 \in Nat
      OBVIOUS
    <3> QED BY <3>1, <1>4
  <2>2. run[n + 1][n] = run[n][n]
    BY <1>7
  <2> QED BY <2>1, <2>2
<1> QED BY <1>8, <1>9 DEF Iterates

(* So is there one by steps that count. *)
Recurs(S, step, x, f) ==
  f \in [Nat -> S] /\ f[0] = x /\ \A n \in Nat : f[n + 1] = step[<<n + 1, f[n]>>]

LEMMA RecursionExists ==
  ASSUME NEW S, NEW step \in [Nat \X S -> S], NEW x \in S
  PROVE  \E f : Recurs(S, step, x, f)
<1> DEFINE P == Nat \X S
           next == [p \in P |-> <<p[1] + 1, step[<<p[1] + 1, p[2]>>]>>]
<1>1. next \in [P -> P]
  <2>1. ASSUME NEW p \in P PROVE <<p[1] + 1, step[<<p[1] + 1, p[2]>>]>> \in P
    <3>1. p[1] + 1 \in Nat /\ p[2] \in S
      OBVIOUS
    <3>2. <<p[1] + 1, p[2]>> \in Nat \X S
      BY <3>1
    <3>3. step[<<p[1] + 1, p[2]>>] \in S
      BY <3>2
    <3> QED BY <3>1, <3>3
  <2> QED BY <2>1
<1>2. <<0, x>> \in P
  OBVIOUS
<1>3. PICK g : Iterates(P, next, <<0, x>>, g)
  <2> HIDE DEF P, next
  <2> QED BY <1>1, <1>2, IteratesExist
<1>4. g \in [Nat -> P] /\ g[0] = <<0, x>> /\ \A n \in Nat : g[n + 1] = next[g[n]]
  BY <1>3 DEF Iterates
<1> DEFINE Counts == {n \in Nat : g[n][1] = n}
<1>5. 0 \in Counts
  BY <1>4
<1>6. ASSUME NEW n \in Nat
      PROVE  /\ g[n + 1] = <<g[n][1] + 1, step[<<g[n][1] + 1, g[n][2]>>]>>
             /\ g[n] \in P
  BY <1>4
<1>7. ASSUME NEW n \in Nat, n \in Counts PROVE n + 1 \in Counts
  <2>1. g[n][1] = n
    BY <1>7
  <2>2. g[n + 1][1] = g[n][1] + 1
    <3> DEFINE u == g[n][1] + 1
               v == step[<<g[n][1] + 1, g[n][2]>>]
    <3>1. g[n + 1] = <<u, v>>
      BY <1>6
    <3> HIDE DEF u, v
    <3>2. g[n + 1][1] = u
      BY <3>1
    <3> QED BY <3>2 DEF u
  <2> QED BY <2>1, <2>2
<1>8. Nat \subseteq Counts
  <2> HIDE DEF Counts
  <2> QED BY <1>5, <1>7, Induction
<1> DEFINE f == [n \in Nat |-> g[n][2]]
<1>9. f \in [Nat -> S] /\ f[0] = x
  BY <1>4
<1>10. ASSUME NEW n \in Nat PROVE f[n + 1] = step[<<n + 1, f[n]>>]
  BY <1>6, <1>8
<1> QED BY <1>9, <1>10 DEF Recurs

=============================================================================
