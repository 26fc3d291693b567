----------------------------- MODULE LoopProofs -----------------------------
(***************************************************************************)
(* Induction, and the recursive functions that stand for loops.            *)
(*                                                                         *)
(* A loop that makes m turns is a function f on 0 .. m, with f[i] the      *)
(* value after i turns.  TLA+ takes a recursive definition for a CHOOSE of *)
(* such a function, so that its equation may be used only once a function  *)
(* that satisfies it is known to exist.                                    *)
(***************************************************************************)
EXTENDS Integers, WellFoundedInduction, TLAPS

\* Induction over the natural numbers.
LEMMA SetInduction ==
  ASSUME NEW S, 0 \in S, \A n \in Nat : n \in S => n + 1 \in S
  PROVE  \A n \in Nat : n \in S
<1> DEFINE T == Nat \ S
           R == { z \in Nat \X Nat : z[1] < z[2] }
<1> SUFFICES ASSUME T # {} PROVE FALSE
  OBVIOUS
<1>1. IsWellFoundedOn(R, Nat)
  BY NatLessThanWellFounded DEF OpToRel
<1>2. PICK x \in T : \A y \in T : ~ (<<y, x>> \in R)
  <2> HIDE DEF R
  <2> QED BY WFMin, <1>1
<1>3. \A y \in T : ~ (y < x)
  BY <1>2
<1>4. x # 0 => x - 1 \in Nat /\ x - 1 < x /\ (x - 1) + 1 = x
  OBVIOUS
<1>5. x # 0 => x - 1 \in S
  BY <1>3, <1>4
<1> QED BY <1>4, <1>5

\* Induction over the turns of a loop.
LEMMA Counting ==
  ASSUME NEW S, NEW m \in Nat, 0 \in S, \A i \in 1 .. m : i - 1 \in S => i \in S
  PROVE  \A i \in 0 .. m : i \in S
<1> DEFINE T == { n \in Nat : n <= m => n \in S }
<1>1. 0 \in T
  OBVIOUS
<1>2. \A n \in Nat : n \in T => n + 1 \in T
  <2> SUFFICES ASSUME NEW n \in Nat, n \in T, n + 1 <= m PROVE n + 1 \in S
    OBVIOUS
  <2>1. n \in S /\ n + 1 \in 1 .. m /\ (n + 1) - 1 = n
    OBVIOUS
  <2> QED BY <2>1
<1>3. \A n \in Nat : n \in T
  <2> HIDE DEF T
  <2> QED BY <1>1, <1>2, SetInduction
<1> QED BY <1>3

\* The values of a loop whose turns are given by a function.
IsLoop(f, m, start, step) ==
  f[0] = start /\ \A i \in 1 .. m : f[i] = step[<<i, f[i - 1]>>]

\* Every loop has its values.
LEMMA LoopExists ==
  ASSUME NEW S, NEW m \in Nat, NEW start \in S, NEW step \in [ (1 .. m) \X S -> S ]
  PROVE  \E f \in [ 0 .. m -> S ] : IsLoop(f, m, start, step)
<1> DEFINE Done == { n \in 0 .. m : \E f \in [ 0 .. n -> S ] :
                       f[0] = start /\ \A i \in 1 .. n : f[i] = step[<<i, f[i - 1]>>] }
<1>1. 0 \in Done
  <2> DEFINE f == [ i \in 0 .. 0 |-> start ]
  <2>1. f \in [ 0 .. 0 -> S ] /\ f[0] = start /\ \A i \in 1 .. 0 : f[i] = step[<<i, f[i - 1]>>]
    OBVIOUS
  <2>2. 0 \in 0 .. m
    OBVIOUS
  <2> HIDE DEF f
  <2> QED BY <2>1, <2>2
<1>2. ASSUME NEW n \in 1 .. m, n - 1 \in Done
      PROVE  n \in Done
  <2>1. n - 1 \in Nat /\ n \in 0 .. m
    OBVIOUS
  <2>2. PICK f \in [ 0 .. n - 1 -> S ] :
               f[0] = start /\ \A i \in 1 .. n - 1 : f[i] = step[<<i, f[i - 1]>>]
    BY <1>2
  <2> DEFINE g == [ i \in 0 .. n |-> IF i = n THEN step[<<n, f[n - 1]>>] ELSE f[i] ]
  <2>3. f[n - 1] \in S
    OBVIOUS
  <2>4. step[<<n, f[n - 1]>>] \in S
    BY <2>3
  <2>5. g \in [ 0 .. n -> S ]
    BY <2>4
  <2>6. \A i \in 0 .. n - 1 : g[i] = f[i]
    OBVIOUS
  <2>7. g[n] = step[<<n, f[n - 1]>>]
    OBVIOUS
  <2> HIDE DEF g
  <2>8. g[0] = start
    BY <2>2, <2>6
  <2>9. ASSUME NEW i \in 1 .. n PROVE g[i] = step[<<i, g[i - 1]>>]
    <3>1. i - 1 \in 0 .. n - 1
      OBVIOUS
    <3>2. g[i - 1] = f[i - 1]
      BY <3>1, <2>6
    <3>3. CASE i = n
      BY <3>2, <3>3, <2>7
    <3>4. CASE i # n
      <4>1. i \in 1 .. n - 1 /\ i \in 0 .. n - 1
        BY <3>4
      <4> QED BY <4>1, <2>2, <2>6, <3>2
    <3> QED BY <3>3, <3>4
  <2> QED BY <2>1, <2>5, <2>8, <2>9
<1>3. \A i \in 0 .. m : i \in Done
  <2> HIDE DEF Done
  <2> QED BY <1>1, <1>2, Counting
<1>4. m \in Done
  BY <1>3
<1> QED BY <1>4 DEF IsLoop
=============================================================================
