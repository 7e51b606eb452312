------------------------------ MODULE FoldFacts ------------------------------
(***************************************************************************)
(* Induction, and recursion over lists, for every input.                   *)
(*                                                                         *)
(* The modules of this project read a list from left to right with a       *)
(* recursive function (the logs of Ethereum, the mempool of a proposer).   *)
(* Facts about it need induction.  The induction principle below is about  *)
(* sets of numbers: a proof names the set of numbers for which its claim   *)
(* holds, and shows that it holds all of them.                             *)
(***************************************************************************)
EXTENDS Integers, Sequences, FiniteSetsExt, WellFoundedInduction, TLAPS

-----------------------------------------------------------------------------
(* Induction                                                               *)

(* A set of natural numbers that is not empty has a least element.         *)
LEMMA LeastNumber ==
  ASSUME NEW T \in SUBSET Nat, T # {}
  PROVE  \E n \in T : \A m \in T : n <= m
<1>1. PICK R : R = {ss \in Nat \X Nat : ss[1] < ss[2]}
  BY ZenonT(30)
<1>2. IsWellFoundedOn(R, Nat)
  <2>1. OpToRel(<, Nat) = {ss \in Nat \X Nat : ss[1] < ss[2]}
    BY DEF OpToRel
  <2> QED
    BY <1>1, <2>1, NatLessThanWellFounded, Zenon
<1>3. PICK n \in T : \A m \in T : ~ (<<m, n>> \in R)
  BY <1>2, WFMin, Zenon
<1>4. \A m \in T : ~ (m < n)
  BY <1>1, <1>3, ZenonT(30)
<1> QED
  BY <1>4

(* Induction over 0..n, for the set S of the numbers with a property.      *)
LEMMA UpTo ==
  ASSUME NEW n \in Nat, NEW S, 0 \in S, \A k \in 0..(n - 1) : k \in S => k + 1 \in S
  PROVE  0..n \subseteq S
<1> SUFFICES ASSUME (0..n) \ S # {} PROVE FALSE
  OBVIOUS
<1>1. PICK m \in (0..n) \ S : \A k \in (0..n) \ S : m <= k
  <2>1. (0..n) \ S \in SUBSET Nat
    OBVIOUS
  <2> QED
    BY <2>1, LeastNumber, ZenonT(30)
<1>2. m # 0 /\ m - 1 \in 0..(n - 1) /\ m - 1 \in S
  BY <1>1
<1> QED
  BY <1>1, <1>2

(* The largest element of a bounded set of numbers.                        *)
LEMMA MaxOfSet ==
  ASSUME NEW n \in Nat, NEW T \in SUBSET (0..n), T # {}
  PROVE  Max(T) \in T /\ \A x \in T : x <= Max(T)
<1>1. PICK B : B = {k \in 0..n : \A x \in T : x <= k}
  BY ZenonT(30)
<1>2. B \in SUBSET Nat /\ n \in B
  BY <1>1
<1>3. PICK k \in B : \A j \in B : k <= j
  BY <1>2, LeastNumber
<1>4. k \in 0..n /\ \A x \in T : x <= k
  BY <1>1
<1>5. k \in T
  <2> SUFFICES ASSUME k \notin T PROVE FALSE
    OBVIOUS
  <2>1. \A x \in T : x <= k - 1
    BY <1>4
  <2>2. k - 1 \in 0..n
    <3>1. PICK x : x \in T /\ x \in 0..n
      BY ZenonT(30)
    <3> QED
      BY <1>4, <2>1, <3>1
  <2> QED
    BY <1>1, <1>3, <1>4, <2>1, <2>2
<1>6. \E x \in T : \A y \in T : x >= y
  BY <1>4, <1>5
<1>7. Max(T) \in T /\ \A y \in T : Max(T) >= y
  BY <1>6, Zenon DEF Max
<1> QED
  BY <1>7

(* The values of a recursion over a list after 0, 1, ..., n elements.      *)
IsRun(run, n, V, base, step) ==
  /\ run \in [0..n -> V]
  /\ run[0] = base
  /\ \A k \in 1..n : run[k] = step[<<k, run[k - 1]>>]

(* There is one for every number of elements.                              *)
LEMMA RunExists ==
  ASSUME NEW n \in Nat, NEW V, NEW base \in V, NEW step \in [(1..n) \X V -> V]
  PROVE  \E run : IsRun(run, n, V, base, step)
<1>1. PICK K : K = {k \in 0..n : \E run : IsRun(run, k, V, base, step)}
  BY ZenonT(30)
<1>2. 0 \in K
  <2>1. PICK run : run = [k \in 0..0 |-> base]
    BY ZenonT(30)
  <2>2. IsRun(run, 0, V, base, step)
    BY <2>1 DEF IsRun
  <2> QED
    BY <1>1, <2>2
<1>3. ASSUME NEW k \in 0..(n - 1), k \in K
      PROVE  k + 1 \in K
  <2>1. PICK run : IsRun(run, k, V, base, step)
    BY <1>1, <1>3
  <2>2. /\ run \in [0..k -> V] /\ run[0] = base
        /\ \A i \in 1..k : run[i] = step[<<i, run[i - 1]>>]
    BY <2>1 DEF IsRun
  <2>3. /\ k + 1 \in 1..n /\ k \in 0..k /\ k + 1 \in 0..n /\ (k + 1) - 1 = k
        /\ \A i \in 0..(k + 1) : i # k + 1 => i \in 0..k
        /\ \A i \in 1..(k + 1) : i # k + 1 => i \in 1..k /\ i - 1 \in 0..k /\ i - 1 # k + 1
        /\ \A i \in 1..(k + 1) : i \in 0..(k + 1) /\ i - 1 \in 0..(k + 1)
        /\ 0 \in 0..(k + 1) /\ 0 # k + 1 /\ k # k + 1
    OBVIOUS
  <2>4. PICK next : next = [i \in 0..(k + 1) |-> IF i = k + 1 THEN step[<<k + 1, run[k]>>]
                                                ELSE run[i]]
    BY ZenonT(30)
  <2>5. step[<<k + 1, run[k]>>] \in V
    BY <2>2, <2>3
  <2>6. next \in [0..(k + 1) -> V] /\ next[0] = base
    BY <2>2, <2>3, <2>4, <2>5
  <2>7. ASSUME NEW i \in 1..(k + 1)
        PROVE  next[i] = step[<<i, next[i - 1]>>]
    <3>1. CASE i = k + 1
      <4>1. next[i] = step[<<k + 1, run[k]>>] /\ next[k] = run[k] /\ i - 1 = k
        BY <2>3, <2>4, <3>1
      <4> QED
        BY <3>1, <4>1
    <3>2. CASE i # k + 1
      <4>1. next[i] = run[i] /\ next[i - 1] = run[i - 1]
        BY <2>3, <2>4, <3>2
      <4> QED
        BY <2>2, <2>3, <3>2, <4>1
    <3> QED
      BY <3>1, <3>2
  <2>8. IsRun(next, k + 1, V, base, step)
    BY <2>6, <2>7 DEF IsRun
  <2> QED
    BY <1>1, <2>3, <2>8
<1>4. 0..n \subseteq K
  BY <1>2, <1>3, UpTo
<1>5. n \in K
  BY <1>4
<1> QED
  BY <1>1, <1>5

(* A function that satisfies the recursion, but is not yet known to have   *)
(* its values in V.                                                        *)
Follows(g, n, V, base, step) ==
  /\ g[0] = base
  /\ \A k \in 1..n : g[k - 1] \in V => g[k] = step[<<k, g[k - 1]>>]

IsRunOf(run, g, n, V, base, step) ==
  IsRun(run, n, V, base, step) /\ run[n] = g[n]

(* A function that follows a recursion has the values of its run.          *)
LEMMA RunOfRecursion ==
  ASSUME NEW n \in Nat, NEW V, NEW base \in V, NEW step \in [(1..n) \X V -> V],
         NEW g, Follows(g, n, V, base, step)
  PROVE  \E run : IsRunOf(run, g, n, V, base, step)
<1>1. PICK run : IsRun(run, n, V, base, step)
  BY RunExists, ZenonT(30)
<1>2. /\ run \in [0..n -> V] /\ run[0] = base
      /\ \A k \in 1..n : run[k] = step[<<k, run[k - 1]>>]
  BY <1>1 DEF IsRun
<1>3. g[0] = base /\ \A k \in 1..n : g[k - 1] \in V => g[k] = step[<<k, g[k - 1]>>]
  BY DEF Follows
<1>4. PICK K : K = {k \in 0..n : g[k] = run[k]}
  BY ZenonT(30)
<1>5. 0 \in K
  BY <1>2, <1>3, <1>4
<1>6. ASSUME NEW k \in 0..(n - 1), k \in K
      PROVE  k + 1 \in K
  <2>1. k + 1 \in 1..n /\ (k + 1) - 1 = k /\ k \in 0..n /\ k + 1 \in 0..n
    OBVIOUS
  <2>2. g[k] = run[k] /\ run[k] \in V
    BY <1>2, <1>4, <1>6, <2>1
  <2>3. g[k + 1] = step[<<k + 1, g[k]>>]
    BY <1>3, <2>1, <2>2
  <2>4. run[k + 1] = step[<<k + 1, run[k]>>]
    BY <1>2, <2>1
  <2> QED
    BY <1>4, <2>1, <2>2, <2>3, <2>4
<1>7. 0..n \subseteq K
  BY <1>5, <1>6, UpTo
<1>8. n \in K
  BY <1>7
<1> QED
  BY <1>1, <1>4, <1>8 DEF IsRunOf
=============================================================================
