------------------------------ MODULE Recursion ------------------------------
(***************************************************************************)
(* Induction over an interval, and the recursive functions on it: what the *)
(* proofs about loops over digits, entries and segments rest on.  Sets     *)
(* stand for predicates and functions for the body of the loop, so that    *)
(* the facts can be cited with any of them.                                *)
(***************************************************************************)
EXTENDS Integers, WellFoundedInduction, TLAPS

\* A set that holds 0, and with a number below n the next, holds all up to n.
LEMMA UpTo ==
  ASSUME NEW n \in Nat, NEW S, 0 \in S, \A i \in 0..(n - 1) : i \in S => i + 1 \in S
  PROVE  0..n \subseteq S
<1> DEFINE missing == (0..n) \ S
<1>1. SUFFICES ASSUME missing # {}  PROVE FALSE
  OBVIOUS
<1>2. missing \in SUBSET Nat  OBVIOUS
<1> HIDE DEF missing
<1>3. PICK x \in missing : \A y \in missing : ~(<<y, x>> \in OpToRel(<, Nat))
  BY <1>1, <1>2, NatLessThanWellFounded, WFMin
<1>4. \A y \in missing : y < x => <<y, x>> \in OpToRel(<, Nat)
  BY <1>2 DEF OpToRel
<1>5. \A y \in missing : ~(y < x)  BY <1>3, <1>4, Zenon
<1>6. x \in 0..n /\ x \notin S  BY DEF missing
<1>7. x # 0 /\ x - 1 \in 0..(n - 1)  BY <1>6
<1>8. x - 1 \notin missing
  <2>1. x - 1 < x  BY <1>6
  <2>2. QED  BY <1>5, <2>1
<1>9. x - 1 \in S  BY <1>7, <1>8 DEF missing
<1>10. QED  BY <1>6, <1>7, <1>9

\* The values of a loop of n rounds, from base.
Rounds(n, base, body, f) == f[0] = base /\ \A i \in 1..n : f[i] = body[i][f[i - 1]]

\* A loop has values, in the set its body keeps to.
LEMMA LoopExists ==
  ASSUME NEW n \in Nat, NEW V, NEW base, NEW body,
         base \in V, body \in [1..n -> [V -> V]]
  PROVE  \E f \in [0..n -> V] : Rounds(n, base, body, f)
<1> DEFINE Loop(m, f) == /\ f \in [0..m -> V] /\ f[0] = base
                         /\ \A i \in 1..m : f[i] = body[i][f[i - 1]]
           S == {m \in 0..n : \E f \in [0..m -> V] : Loop(m, f)}
<1>1. 0 \in S
  <2> DEFINE none == [i \in 0..0 |-> base]
  <2>1. Loop(0, none) /\ none \in [0..0 -> V]  OBVIOUS
  <2> HIDE DEF none, Loop
  <2>2. QED  BY <2>1
<1>2. ASSUME NEW m \in 0..(n - 1), m \in S  PROVE m + 1 \in S
  <2>1. PICK f \in [0..m -> V] : Loop(m, f)  BY <1>2
  <2> DEFINE next == body[m + 1][f[m]]
             g == [i \in 0..(m + 1) |-> IF i = m + 1 THEN next ELSE f[i]]
  <2>2. next \in V  BY <2>1
  <2> HIDE DEF next
  <2>3. g \in [0..(m + 1) -> V] /\ g[0] = base  BY <2>1, <2>2
  <2>4. ASSUME NEW i \in 1..(m + 1)  PROVE g[i] = body[i][g[i - 1]]
    <3>1. g[i - 1] = f[i - 1]  OBVIOUS
    <3>2. CASE i = m + 1
      <4>1. g[i] = next /\ i - 1 = m  BY <3>2
      <4>2. QED  BY <3>1, <3>2, <4>1 DEF next
    <3>3. CASE i # m + 1
      <4>1. i \in 1..m /\ g[i] = f[i]  BY <3>3
      <4>2. QED  BY <2>1, <3>1, <4>1
    <3>4. QED  BY <3>2, <3>3
  <2>5. Loop(m + 1, g)  BY <2>3, <2>4
  <2> HIDE DEF g, Loop
  <2>6. QED  BY <2>3, <2>5
<1>3. n \in S
  <2> HIDE DEF S
  <2>1. \A m \in 0..(n - 1) : m \in S => m + 1 \in S  BY <1>2
  <2>2. 0..n \subseteq S  BY <1>1, <2>1, UpTo
  <2>3. QED  BY <2>2
<1>4. PICK f \in [0..n -> V] : Loop(n, f)  BY <1>3
<1>5. Rounds(n, base, body, f)  BY <1>4 DEF Rounds
<1>6. QED  BY <1>5
=============================================================================
