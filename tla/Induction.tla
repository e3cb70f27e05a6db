------------------------------ MODULE Induction ------------------------------
(***************************************************************************)
(* Induction and recursion without operator parameters: over a set of      *)
(* numbers, and for a function defined step by step.                       *)
(***************************************************************************)
EXTENDS Integers, Sequences, WellFoundedInduction, TLAPS

\* A set of natural numbers has a least element.
LEMMA LeastNumber ==
  ASSUME NEW S \in SUBSET Nat, S # {}
  PROVE  \E m \in S : \A k \in S : m <= k
<1> DEFINE R == OpToRel(<, Nat)
<1>1. IsWellFoundedOn(R, Nat)
  BY NatLessThanWellFounded
<1> HIDE DEF R
<1>2. PICK m \in S : \A k \in S : ~(<<k, m>> \in R)
  BY <1>1, WFMin
<1>3. \A k \in S : ~(k < m)
  BY <1>2 DEF R, OpToRel
<1> QED
  BY <1>3

\* A set that holds 0 and with every number the next holds all of them.
LEMMA NumbersInSet ==
  ASSUME NEW S, 0 \in S, \A n \in Nat : n \in S => n + 1 \in S
  PROVE  Nat \subseteq S
<1> DEFINE Left == Nat \ S
<1> SUFFICES ASSUME Left # {} PROVE FALSE
  OBVIOUS
<1>1. PICK m \in Left : \A k \in Left : m <= k
  BY LeastNumber
<1>2. m \in Nat /\ m # 0 /\ m - 1 \in Nat /\ m - 1 \notin Left
  BY <1>1
<1>3. (m - 1) + 1 \in S
  BY <1>2
<1> QED
  BY <1>1, <1>2, <1>3

\* What is added at the i-th of n steps; a function that starts with c and
\* takes those steps.
Steps(T, n) == [T \X (1..n) -> T]
Takes(f, c, step, n) == f[0] = c /\ \A i \in 1..n : f[i] = step[<<f[i - 1], i>>]

\* A function defined step by step exists.
LEMMA StepByStep ==
  ASSUME NEW T, NEW c \in T, NEW n \in Nat, NEW step \in Steps(T, n)
  PROVE  \E f \in [0..n -> T] : Takes(f, c, step, n)
<1> USE DEF Steps, Takes
<1> DEFINE Good(f, m) == f[0] = c /\ \A i \in 1..m : f[i] = step[<<f[i - 1], i>>]
           S == {m \in Nat : m <= n => \E f \in [0..m -> T] : Good(f, m)}
<1>1. 0 \in S
  <2>1. [i \in 0..0 |-> c] \in [0..0 -> T] /\ Good([i \in 0..0 |-> c], 0)
    OBVIOUS
  <2> QED
    BY <2>1
<1>2. ASSUME NEW m \in Nat, m \in S, m + 1 <= n
      PROVE  \E f \in [0..m + 1 -> T] : Good(f, m + 1)
  <2>1. PICK f \in [0..m -> T] : Good(f, m)
    BY <1>2
  <2> DEFINE g == [i \in 0..m + 1 |-> IF i <= m THEN f[i] ELSE step[<<f[m], m + 1>>]]
  <2>2. g \in [0..m + 1 -> T]
    <3>1. f[m] \in T /\ m + 1 \in 1..n
      BY <1>2
    <3>2. step[<<f[m], m + 1>>] \in T
      BY <3>1
    <3> QED
      BY <3>2
  <2>3. Good(g, m + 1)
    <3>1. \A i \in 0..m : g[i] = f[i]
      OBVIOUS
    <3>2. g[m + 1] = step[<<f[m], m + 1>>]
      OBVIOUS
    <3>3. ASSUME NEW i \in 1..(m + 1) PROVE g[i] = step[<<g[i - 1], i>>]
      <4>1. CASE i = m + 1
        <5>1. i - 1 = m /\ m \in 0..m
          BY <4>1
        <5>2. g[m] = f[m]
          BY <3>1, <5>1
        <5> QED
          BY <3>2, <4>1, <5>1, <5>2
      <4>2. CASE i # m + 1
        <5>1. i \in 1..m /\ i - 1 \in 0..m /\ i \in 0..m
          BY <4>2
        <5> QED
          BY <2>1, <3>1, <5>1
      <4> QED
        BY <4>1, <4>2
    <3> HIDE DEF g
    <3> QED
      BY <2>1, <3>1, <3>3
  <2> QED
    BY <2>2, <2>3
<1>3. \A m \in Nat : m \in S => m + 1 \in S
  BY <1>2
<1> HIDE DEF S
<1>4. n \in S
  BY <1>1, <1>3, NumbersInSet
<1> QED
  BY <1>4 DEF S
=============================================================================
