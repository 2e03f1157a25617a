--------------------------------- MODULE Loops ---------------------------------
(***************************************************************************)
(* Facts about the naturals for the proofs about loops: every non-empty    *)
(* set of naturals has a least element, what holds at the start of a       *)
(* counted loop and is kept by each pass holds at its end, and the values  *)
(* a loop goes through are those of a function.  They are stated with sets *)
(* where NaturalsInduction has operators, which suits the provers better.  *)
(***************************************************************************)
EXTENDS WellFoundedInduction, TLAPS

(* A set of naturals that is not empty has a least element. *)
LEMMA LeastElement ==
  ASSUME NEW T, T \subseteq Nat, T # {}
  PROVE  \E m \in T : \A k \in T : m <= k
<1> DEFINE R == OpToRel(<, Nat)
<1>1. R = {ss \in Nat \X Nat : ss[1] < ss[2]}
  BY Zenon DEF OpToRel
<1>2. IsWellFoundedOn(R, Nat)
  BY NatLessThanWellFounded
<1> HIDE DEF R
<1>3. PICK m \in T : \A k \in T : <<k, m>> \notin R
  BY <1>2, WFMin
<1>4. ASSUME NEW k \in T, k < m PROVE FALSE
  <2>1. k \in Nat /\ m \in Nat
    OBVIOUS
  <2>2. <<k, m>> \in R
    BY <1>1, <1>4, <2>1
  <2>3. QED
    BY <1>3, <2>2
<1>5. QED
  <2>1. \A k \in T : k \in Nat /\ m \in Nat
    OBVIOUS
  <2>2. QED
    BY <1>4, <2>1

(* What holds before the first pass and is kept by each holds throughout. *)
LEMMA PassByPass ==
  ASSUME NEW n \in Nat, NEW G, 0 \in G,
         \A t \in 1 .. n : t - 1 \in G => t \in G
  PROVE  0 .. n \subseteq G
<1> DEFINE Bad == (0 .. n) \ G
<1>1. SUFFICES ASSUME Bad # {} PROVE FALSE
  OBVIOUS
<1>2. PICK m \in Bad : \A k \in Bad : m <= k
  <2>1. Bad \subseteq Nat
    OBVIOUS
  <2> HIDE DEF Bad
  <2>2. QED
    BY <1>1, <2>1, LeastElement
<1>3. m \in 1 .. n /\ m - 1 \in 0 .. n /\ ~(m <= m - 1)
  BY <1>2
<1>4. m - 1 \in G
  BY <1>2, <1>3
<1>5. QED
  BY <1>2, <1>3, <1>4

(* f has the values a variable goes through in a loop of n passes. *)
Goes(f, n, base, step) == f[0] = base /\ \A t \in 1 .. n : f[t] = step[t][f[t - 1]]

(* There is such a function, whatever a pass does. *)
LEMMA LoopValues ==
  ASSUME NEW n \in Nat, NEW S, NEW base \in S, NEW step \in [1 .. n -> [S -> S]]
  PROVE  \E f \in [0 .. n -> S] : Goes(f, n, base, step)
<1> DEFINE G == {m \in 0 .. n : \E f \in [0 .. m -> S] : Goes(f, m, base, step)}
<1>1. 0 \in G
  <2> DEFINE g == [t \in 0 .. 0 |-> base]
  <2>1. g \in [0 .. 0 -> S] /\ Goes(g, 0, base, step)
    BY DEF Goes
  <2> HIDE DEF g
  <2>2. QED
    BY <2>1
<1>2. ASSUME NEW m \in 1 .. n, m - 1 \in G PROVE m \in G
  <2>1. PICK f \in [0 .. (m - 1) -> S] : Goes(f, m - 1, base, step)
    BY <1>2
  <2> DEFINE g == [t \in 0 .. m |-> IF t = m THEN step[m][f[m - 1]] ELSE f[t]]
  <2>2. step[m][f[m - 1]] \in S
    <3>1. f[m - 1] \in S
      BY <2>1
    <3>2. QED
      BY <3>1
  <2>3. g \in [0 .. m -> S]
    BY <2>1, <2>2
  <2>4. Goes(g, m, base, step)
    <3>1. g[0] = base
      BY <2>1 DEF Goes
    <3>2. ASSUME NEW t \in 1 .. m PROVE g[t] = step[t][g[t - 1]]
      <4>1. t - 1 \in 0 .. (m - 1) /\ g[t - 1] = f[t - 1]
        OBVIOUS
      <4>2. CASE t = m
        BY <4>1, <4>2
      <4>3. CASE t # m
        <5>1. t \in 1 .. (m - 1) /\ g[t] = f[t]
          BY <4>3
        <5>2. QED
          BY <2>1, <4>1, <5>1 DEF Goes
      <4>4. QED
        BY <4>2, <4>3
    <3>3. QED
      BY <3>1, <3>2 DEF Goes
  <2> HIDE DEF g
  <2>5. QED
    BY <2>3, <2>4
<1>3. n \in G
  <2> HIDE DEF G
  <2>1. 0 .. n \subseteq G
    BY <1>1, <1>2, PassByPass
  <2>2. QED
    BY <2>1
<1>4. QED
  BY <1>3
===============================================================================
