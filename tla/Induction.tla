----------------------------- MODULE Induction ------------------------------
(***************************************************************************)
(* Loops as recursive functions on 0..n.  The models write a loop of the   *)
(* code as  f[i \in 0..n] == IF i = 0 THEN a ELSE ... f[i - 1] ... ; these *)
(* lemmas say that such a function exists and that it is the only one.     *)
(* They rest on the least number of a set of natural numbers, which stands *)
(* in for the induction rule.                                              *)
(***************************************************************************)
EXTENDS Integers, WellFoundedInduction, TLAPS

\* A set of natural numbers that is not empty has a least element.
LEMMA LeastNumber ==
    ASSUME NEW T, T \subseteq Nat, T # {}
    PROVE  \E m \in T : \A k \in T : m <= k
  <1> DEFINE R == {ss \in Nat \X Nat : ss[1] < ss[2]}
  <1>1. IsWellFoundedOn(R, Nat)
    BY NatLessThanWellFounded DEF OpToRel
  <1>2. \A j, k \in Nat : k < j => <<k, j>> \in R
    OBVIOUS
  <1> HIDE DEF R
  <1>3. PICK m \in T : \A k \in T : ~(<<k, m>> \in R)
    BY <1>1, WFMin
  <1>4. ASSUME NEW k \in T PROVE m <= k
    <2>1. k \in Nat /\ m \in Nat /\ ~(k < m)
      BY <1>2, <1>3
    <2> QED BY <2>1
  <1> QED BY <1>4

\* Induction on 0..n for a property given as the set of numbers that have it.
LEMMA UpTo ==
    ASSUME NEW n \in Nat, NEW P, 0 \in P,
           \A i \in 1..n : i - 1 \in P => i \in P
    PROVE  \A i \in 0..n : i \in P
  <1> SUFFICES ASSUME NEW j \in 0..n, j \notin P PROVE FALSE
    OBVIOUS
  <1> DEFINE T == {i \in 0..n : i \notin P}
  <1>1. PICK m \in T : \A k \in T : m <= k
    <2>1. T \subseteq Nat /\ T # {}
      OBVIOUS
    <2> HIDE DEF T
    <2> QED BY <2>1, LeastNumber
  <1>2. m \in 0..n /\ m # 0
    OBVIOUS
  <1>3. m - 1 \in 0..n /\ m - 1 \notin T
    BY <1>1, <1>2
  <1> QED BY <1>2, <1>3

\* A loop of n rounds on the values S, by its start a and its rounds step.
IsLoop(n, S, a, step) == n \in Nat /\ a \in S /\ step \in [S \X (1..n) -> S]

\* g has the values after each round.
Iterates(g, n, S, a, step) ==
    /\ g \in [0..n -> S] /\ g[0] = a
    /\ \A i \in 1..n : g[i] = step[<<g[i - 1], i>>]

\* f and g start alike and make alike rounds.
SameRounds(f, g, n) ==
    /\ n \in Nat /\ f[0] = g[0]
    /\ \A i \in 1..n : f[i - 1] = g[i - 1] => f[i] = g[i]

\* The loop that starts with a and goes from one round to the next by step.
LEMMA Iteration ==
    ASSUME NEW n, NEW S, NEW a, NEW step, IsLoop(n, S, a, step)
    PROVE  \E g : Iterates(g, n, S, a, step)
  <1> USE DEF IsLoop
  <1> DEFINE Is(g, m) == /\ g \in [0..m -> S] /\ g[0] = a
                         /\ \A i \in 1..m : g[i] = step[<<g[i - 1], i>>]
             P == {m \in 0..n : \E g : Is(g, m)}
  <1>1. 0 \in P
    <2> DEFINE z == [i \in 0..0 |-> a]
    <2>1. Is(z, 0)
      OBVIOUS
    <2> HIDE DEF Is
    <2> QED BY <2>1
  <1>2. ASSUME NEW m \in 1..n, m - 1 \in P PROVE m \in P
    <2>1. PICK g : Is(g, m - 1)
      BY <1>2
    <2>2. m - 1 \in 0..(m - 1) /\ g[m - 1] \in S /\ <<g[m - 1], m>> \in S \X (1..n)
      BY <2>1
    <2> DEFINE h == [i \in 0..m |-> IF i = m THEN step[<<g[m - 1], m>>] ELSE g[i]]
    <2>3. h \in [0..m -> S]
      <3>1. step[<<g[m - 1], m>>] \in S
        BY <2>2
      <3>2. \A i \in 0..m : i # m => i \in 0..(m - 1)
        OBVIOUS
      <3> QED BY <2>1, <3>1, <3>2
    <2>4. h[0] = a
      BY <2>1
    <2>5. ASSUME NEW i \in 1..m PROVE h[i] = step[<<h[i - 1], i>>]
      <3>1. h[i - 1] = g[i - 1]
        OBVIOUS
      <3>2. CASE i = m
        <4>1. h[m] = step[<<g[m - 1], m>>]
          OBVIOUS
        <4> HIDE DEF h
        <4> QED BY <3>1, <3>2, <4>1
      <3>3. CASE i # m
        <4>1. i \in 1..(m - 1) /\ h[i] = g[i]
          BY <3>3
        <4> QED BY <2>1, <3>1, <4>1
      <3> QED BY <3>2, <3>3
    <2>6. Is(h, m)
      BY <2>3, <2>4, <2>5
    <2> HIDE DEF Is, h
    <2> QED BY <2>6
  <1> HIDE DEF P
  <1>3. n \in P
    BY <1>1, <1>2, UpTo
  <1> QED BY <1>3 DEF P, Iterates

\* Two loops that start alike and make alike rounds are the same.
LEMMA SameIteration ==
    ASSUME NEW n, NEW f, NEW g, SameRounds(f, g, n)
    PROVE  \A i \in 0..n : f[i] = g[i]
  <1> USE DEF SameRounds
  <1> DEFINE P == {i \in 0..n : f[i] = g[i]}
  <1>1. 0 \in P
    OBVIOUS
  <1>2. \A i \in 1..n : i - 1 \in P => i \in P
    OBVIOUS
  <1> HIDE DEF P
  <1>3. \A i \in 0..n : i \in P
    BY <1>1, <1>2, UpTo
  <1> QED BY <1>3 DEF P
=============================================================================
