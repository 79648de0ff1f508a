---------------------------- MODULE SetInduction ----------------------------
(***************************************************************************)
(* Induction over the natural numbers, stated for sets instead of          *)
(* predicates: to prove P(n) for all n, apply it to {n \in Nat : P(n)}.    *)
(* The loops of util.c are recursive functions here, and what they compute *)
(* is proved with these lemmas.                                            *)
(***************************************************************************)
EXTENDS Integers, WellFoundedInduction, TLAPS

\* Every nonempty set of natural numbers has a least element.
LEMMA LeastNatural ==
  ASSUME NEW T, T \subseteq Nat, T # {}
  PROVE  \E x \in T : \A y \in T : x <= y
<1> DEFINE R == OpToRel(<, Nat)
<1>1. IsWellFoundedOn(R, Nat)
  BY NatLessThanWellFounded
<1>2. R = {ss \in Nat \X Nat : ss[1] < ss[2]}
  BY DEF OpToRel
<1> HIDE DEF R
<1>3. PICK x \in T : \A y \in T : ~(<<y, x>> \in R)
  BY <1>1, WFMin
<1>4. ASSUME NEW y \in T, ~(x <= y)
      PROVE  FALSE
  <2>1. x \in Nat /\ y \in Nat /\ y < x
    BY <1>4
  <2>2. <<y, x>> \in R
    BY <1>2, <2>1
  <2> QED
    BY <1>3, <2>2
<1> QED
  BY <1>4

\* A set that holds 0 and, with n, n + 1 holds every natural number.
LEMMA NatSetInduction ==
  ASSUME NEW S, 0 \in S, \A n \in Nat : n \in S => n + 1 \in S
  PROVE  Nat \subseteq S
<1> SUFFICES ASSUME Nat \ S # {} PROVE FALSE
  OBVIOUS
<1>1. PICK x \in Nat \ S : \A y \in Nat \ S : x <= y
  BY LeastNatural
<1>2. x - 1 \in Nat /\ ~(x <= x - 1)
  OBVIOUS
<1>3. x - 1 \in S
  BY <1>1, <1>2
<1>4. (x - 1) + 1 \in S
  BY <1>2, <1>3
<1> QED
  BY <1>4

\* The values of a loop: it starts with first, and turn i makes F[i][v] of v.
IsLoop(g, n, V, first, F) == /\ g \in [0..n -> V]
                             /\ g[0] = first
                             /\ \A i \in 1..n : g[i] = F[i][g[i - 1]]

LEMMA LoopDefined ==
  ASSUME NEW n \in Nat, NEW V, NEW first \in V, NEW F \in [1..n -> [V -> V]]
  PROVE  \E g : IsLoop(g, n, V, first, F)
<1> DEFINE Loop(g, k) == /\ g \in [0..k -> V] /\ g[0] = first
                         /\ \A i \in 1..k : g[i] = F[i][g[i - 1]]
           S == {k \in Nat : k <= n => \E g : Loop(g, k)}
<1>1. 0 \in S
  <2> DEFINE g == [i \in 0..0 |-> first]
  <2>1. Loop(g, 0)
    OBVIOUS
  <2> QED
    BY <2>1
<1>2. ASSUME NEW k \in Nat, k \in S
      PROVE  k + 1 \in S
  <2> SUFFICES ASSUME k + 1 <= n PROVE \E g : Loop(g, k + 1)
    OBVIOUS
  <2>1. PICK g : Loop(g, k)
    BY <1>2
  <2> DEFINE h == [i \in 0..(k + 1) |-> IF i <= k THEN g[i] ELSE F[k + 1][g[k]]]
  <2>2. g[k] \in V /\ F[k + 1][g[k]] \in V
    BY <2>1
  <2>3. h \in [0..(k + 1) -> V] /\ h[0] = first
    BY <2>1, <2>2
  <2>4. ASSUME NEW i \in 1..(k + 1)
        PROVE  h[i] = F[i][h[i - 1]]
    <3>1. CASE i <= k
      BY <2>1, <3>1
    <3>2. CASE i = k + 1
      BY <2>1, <3>2
    <3> QED
      BY <3>1, <3>2
  <2>5. Loop(h, k + 1)
    BY <2>3, <2>4
  <2> HIDE DEF h, Loop
  <2> QED
    BY <2>5
<1>3. n \in S
  <2> HIDE DEF S
  <2> QED
    BY <1>1, <1>2, NatSetInduction
<1> QED
  BY <1>3 DEF IsLoop

\* Two loops that start alike, and turn by turn stay alike, end alike.
LEMMA SameLoop ==
  ASSUME NEW n \in Nat, NEW x, NEW g, x[0] = g[0],
         \A i \in 1..n : x[i - 1] = g[i - 1] => x[i] = g[i]
  PROVE  x[n] = g[n]
<1> DEFINE S == {i \in Nat : i <= n => x[i] = g[i]}
<1>1. 0 \in S
  OBVIOUS
<1>2. ASSUME NEW i \in Nat, i \in S
      PROVE  i + 1 \in S
  BY <1>2
<1>3. n \in S
  <2> HIDE DEF S
  <2> QED
    BY <1>1, <1>2, NatSetInduction
<1> QED
  BY <1>3

=============================================================================
