----------------------------- MODULE LoopLemmas -----------------------------
(***************************************************************************)
(* Induction over a set of numbers, and the bounded loops it is needed     *)
(* for: the models write them as functions of the number of passes made.   *)
(***************************************************************************)
EXTENDS Integers, WellFoundedInduction, TLAPS

LEMMA NatSetInduction ==
    ASSUME NEW S, 0 \in S, \A n \in Nat : n \in S => n + 1 \in S
    PROVE  \A n \in Nat : n \in S
<1> DEFINE R == OpToRel(<, Nat)
           T == Nat \ S
<1> SUFFICES ASSUME T # {} PROVE FALSE
  OBVIOUS
<1>1. IsWellFoundedOn(R, Nat)
  BY NatLessThanWellFounded
<1>2. T \subseteq Nat
  OBVIOUS
<1>3. \A x, y \in Nat : x < y => <<x, y>> \in R
  BY DEF OpToRel
<1> HIDE DEF R
<1>4. PICK x \in T : \A y \in T : ~(<<y, x>> \in R)
  <2> HIDE DEF T
  <2> QED BY <1>1, <1>2, WFMin, Zenon
<1>5. x # 0 /\ x - 1 \in Nat
  OBVIOUS
<1>6. x - 1 \in S
  <2>1. <<x - 1, x>> \in R
    <3>1. x \in Nat /\ x - 1 < x
      OBVIOUS
    <3> QED BY <1>3, <1>5, <3>1, Zenon
  <2>2. x - 1 \notin T
    BY <1>4, <2>1
  <2> QED BY <1>5, <2>2
<1> QED BY <1>5, <1>6

\* What holds at first and is kept by every pass of a loop holds at its end.
LEMMA LoopKeeps ==
    ASSUME NEW N \in Nat, NEW g, NEW X,
           g[0] \in X[0],
           \A n \in 0 .. N - 1 : g[n] \in X[n] => g[n + 1] \in X[n + 1]
    PROVE  g[N] \in X[N]
<1> DEFINE S == {n \in Nat : n <= N => g[n] \in X[n]}
<1>1. 0 \in S
  OBVIOUS
<1>2. ASSUME NEW n \in Nat, n \in S PROVE n + 1 \in S
  <2>1. CASE n + 1 <= N
    <3>1. n \in 0 .. N - 1 /\ g[n] \in X[n]
      BY <1>2, <2>1
    <3> QED BY <3>1
  <2>2. CASE ~(n + 1 <= N)
    BY <2>2
  <2> QED BY <2>1, <2>2
<1>3. N \in S
  <2> HIDE DEF S
  <2> QED BY <1>1, <1>2, NatSetInduction
<1> QED BY <1>3

\* The run of a loop with the passes D[0], D[1], ... from a.
Run(g, X, D, a, m) ==
    /\ g = [n \in 0 .. m |-> IF n = 0 THEN a ELSE D[n - 1][g[n - 1]]]
    /\ \A n \in 0 .. m : g[n] \in X[n]

\* A loop whose passes have a value on what came before has a run.
LEMMA LoopRuns ==
    ASSUME NEW N \in Nat, NEW X, NEW D, NEW a \in X[0],
           \A n \in 0 .. N - 1 : \A x \in X[n] : D[n][x] \in X[n + 1]
    PROVE  \E g : Run(g, X, D, a, N)
<1> DEFINE S == {m \in Nat : m <= N => \E g : Run(g, X, D, a, m)}
<1>1. 0 \in S
  <2>1. Run([n \in 0 .. 0 |-> a], X, D, a, 0)
    BY DEF Run
  <2> QED BY <2>1
<1>2. ASSUME NEW m \in Nat, m \in S PROVE m + 1 \in S
  <2>1. CASE m + 1 <= N
    <3>1. PICK g : Run(g, X, D, a, m)
      BY <1>2, <2>1
    <3> DEFINE h == [n \in 0 .. m + 1 |-> IF n = m + 1 THEN D[m][g[m]] ELSE g[n]]
    <3>2. h = [n \in 0 .. m + 1 |-> IF n = 0 THEN a ELSE D[n - 1][h[n - 1]]]
      <4>1. ASSUME NEW n \in 0 .. m + 1
            PROVE  h[n] = IF n = 0 THEN a ELSE D[n - 1][h[n - 1]]
        <5>1. CASE n = m + 1
          BY <5>1
        <5>2. CASE n # m + 1
          <6>1. n \in 0 .. m /\ h[n] = g[n]
            BY <5>2
          <6>2. g[n] = IF n = 0 THEN a ELSE D[n - 1][g[n - 1]]
            BY <3>1, <6>1 DEF Run
          <6>3. n # 0 => h[n - 1] = g[n - 1]
            BY <6>1
          <6> QED BY <6>1, <6>2, <6>3, Zenon
        <5> QED BY <5>1, <5>2
      <4> QED BY <4>1
    <3>3. \A n \in 0 .. m + 1 : h[n] \in X[n]
      <4>1. D[m][g[m]] \in X[m + 1]
        BY <2>1, <3>1 DEF Run
      <4> QED BY <3>1, <4>1 DEF Run
    <3> HIDE DEF h
    <3>4. Run(h, X, D, a, m + 1)
      BY <3>2, <3>3 DEF Run
    <3> QED BY <3>4
  <2>2. CASE ~(m + 1 <= N)
    BY <2>2
  <2> QED BY <2>1, <2>2, Zenon
<1>3. N \in S
  <2> HIDE DEF S
  <2> QED BY <1>1, <1>2, NatSetInduction
<1> QED BY <1>3
=============================================================================
