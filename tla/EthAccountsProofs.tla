-------------------------- MODULE EthAccountsProofs --------------------------
(***************************************************************************)
(* Proofs about EthAccounts for all addresses, amounts, lockups, limits of *)
(* int64, precisions and start times: who owns an account, which schedules *)
(* it has, how vesting rounds, what is locked, and what the balances add   *)
(* up to.                                                                  *)
(***************************************************************************)
EXTENDS EthAccounts, FoldFacts, FiniteSetTheorems, TLAPS

-----------------------------------------------------------------------------
(* Induction                                                               *)

(* A set without one of its elements has one element less.                 *)
LEMMA CardinalityRemove ==
  ASSUME NEW T, IsFiniteSet(T), NEW x \in T
  PROVE  Cardinality(T \ {x}) = Cardinality(T) - 1
BY FS_RemoveElement, Zenon

(* Induction over the subsets of a finite set S, for the set F of those    *)
(* that have a property.                                                   *)
LEMMA FiniteInduction ==
  ASSUME NEW S, IsFiniteSet(S), NEW F, {} \in F,
         \A T \in SUBSET S : \A x \in S \ T : T \in F => T \cup {x} \in F
  PROVE  S \in F
<1>1. PICK N : N = {k \in Nat : \A T \in SUBSET S : Cardinality(T) = k => T \in F}
  BY Zenon
<1>2. \A T \in SUBSET S : IsFiniteSet(T) /\ Cardinality(T) \in Nat
  BY FS_Subset, FS_CardinalityType
<1>3. 0 \in N
  BY <1>1, <1>2, FS_EmptySet, Zenon
<1>4. ASSUME NEW k \in Nat, k \in N
      PROVE  k + 1 \in N
  <2> SUFFICES ASSUME NEW T \in SUBSET S, Cardinality(T) = k + 1
               PROVE  T \in F
    BY <1>1
  <2>1. T # {}
    <3>1. Cardinality({}) = 0
      BY FS_EmptySet, Zenon
    <3> QED
      BY <3>1
  <2>2. PICK x : x \in T
    BY <2>1
  <2>3. Cardinality(T \ {x}) = k
    <3>1. Cardinality(T \ {x}) = Cardinality(T) - 1
      BY <1>2, <2>2, CardinalityRemove
    <3> QED
      BY <3>1
  <2>4. T \ {x} \in SUBSET S /\ x \in S \ (T \ {x}) /\ (T \ {x}) \cup {x} = T
    BY <2>2
  <2>5. T \ {x} \in F
    BY <1>1, <1>4, <2>3, <2>4
  <2> QED
    BY <2>4, <2>5
<1>5. Cardinality(S) \in 0..Cardinality(S) /\ Cardinality(S) \in Nat
  BY <1>2
<1>6. Cardinality(S) \in N
  BY <1>3, <1>4, <1>5, UpTo
<1> QED
  BY <1>1, <1>6

-----------------------------------------------------------------------------
(* Recursion                                                               *)

(* A function on the subsets of S that takes the elements out of its       *)
(* argument one at a time, as MapThenFoldSet does.                         *)
IsFold(it, S, V, base, step, pick) ==
  /\ it \in [SUBSET S -> V]
  /\ \A T \in SUBSET S :
       it[T] = IF T = {} THEN base ELSE step[<<pick[T], it[T \ {pick[T]}]>>]

(* There is one for every finite set.                                      *)
LEMMA FoldExists ==
  ASSUME NEW S, IsFiniteSet(S), NEW V, NEW base \in V, NEW step \in [S \X V -> V],
         NEW pick, \A T \in SUBSET S : T # {} => pick[T] \in T
  PROVE  \E it : IsFold(it, S, V, base, step, pick)
<1> DEFINE D(n) == {T \in SUBSET S : Cardinality(T) <= n}
           Val(it, T) == IF T = {} THEN base ELSE step[<<pick[T], it[T \ {pick[T]}]>>]
           Good(n) == \E it \in [D(n) -> V] : \A T \in D(n) : it[T] = Val(it, T)
<1>1. \A T \in SUBSET S : Cardinality(T) \in Nat /\ Cardinality(T) <= Cardinality(S)
  BY FS_Subset, FS_CardinalityType
<1>2. \A T \in SUBSET S : Cardinality(T) = 0 => T = {}
  BY FS_Subset, FS_EmptySet
<1>3. ASSUME NEW n \in Nat, NEW T \in D(n + 1), T # {}
      PROVE  T \ {pick[T]} \in D(n) /\ pick[T] \in S
  <2>1. IsFiniteSet(T) /\ pick[T] \in T
    BY <1>3, FS_Subset
  <2>2. Cardinality(T \ {pick[T]}) = Cardinality(T) - 1
    BY <2>1, CardinalityRemove
  <2> QED
    BY <1>1, <2>1, <2>2
<1>4. Good(0)
  <2>1. \A T \in D(0) : T = {}
    BY <1>1, <1>2
  <2>2. [T \in D(0) |-> base] \in [D(0) -> V]
    OBVIOUS
  <2> QED
    BY <2>1, <2>2, Zenon
<1>5. ASSUME NEW n \in Nat, Good(n)
      PROVE  Good(n + 1)
  <2>1. PICK it \in [D(n) -> V] : \A T \in D(n) : it[T] = Val(it, T)
    BY <1>5, Zenon
  <2>2. PICK next : next = [T \in D(n + 1) |-> Val(it, T)]
    BY Zenon
  <2>3. \A T \in D(n + 1) : T # {} => it[T \ {pick[T]}] \in V /\ <<pick[T], it[T \ {pick[T]}]>> \in S \X V
    BY <1>3, <2>1
  <2>4. next \in [D(n + 1) -> V]
    BY ONLY <2>2, <2>3, SMTT(30)
  <2>5. \A T \in D(n) : T \in D(n + 1) /\ next[T] = it[T]
    <3>1. \A T \in D(n) : T \in D(n + 1)
      BY <1>1
    <3> HIDE DEF D, Val
    <3> QED
      BY <2>1, <2>2, <3>1
  <2>6. ASSUME NEW T \in D(n + 1)
        PROVE  next[T] = Val(next, T)
    BY <1>3, <2>2, <2>5, Zenon
  <2> QED
    BY <2>4, <2>6, Zenon
<1>6. PICK N : N = {n \in Nat : Good(n)}
  BY Zenon
<1>7. 0 \in N /\ \A n \in Nat : n \in N => n + 1 \in N
  <2> HIDE DEF Good
  <2> QED
    BY <1>4, <1>5, <1>6
<1>8. Cardinality(S) \in Nat
  BY <1>1
<1>9. Cardinality(S) \in N
  <2> HIDE DEF Good
  <2> QED
    BY <1>7, <1>8, UpTo
<1>10. D(Cardinality(S)) = SUBSET S
  BY <1>1
<1>11. Good(Cardinality(S))
  BY <1>6, <1>9, Zenon
<1> QED
  BY <1>10, <1>11, Zenon DEF IsFold

-----------------------------------------------------------------------------
(* Sums                                                                    *)

(* The element that SumFunctionOnSet takes out of a set first.             *)
Pick(T) == CHOOSE x \in T : TRUE

(* It is an element of the set.                                            *)
LEMMA PickType ==
  ASSUME NEW T, T # {}
  PROVE  Pick(T) \in T
BY DEF Pick

(* The sums of f over the subsets of S.                                    *)
AreSums(it, f, S) ==
  /\ it \in [SUBSET S -> Int]
  /\ \A T \in SUBSET S : it[T] = IF T = {} THEN 0 ELSE f[Pick(T)] + it[T \ {Pick(T)}]

(* The sum over S is the last value of a recursion over its subsets.       *)
LEMMA SumRecursion ==
  ASSUME NEW S, IsFiniteSet(S), NEW f, \A x \in S : f[x] \in Int
  PROVE  \E it : AreSums(it, f, S) /\ SumFunctionOnSet(f, S) = it[S]
<1> DEFINE Rec(it) == it = [T \in SUBSET S |->
                              IF T = {} THEN 0 ELSE f[Pick(T)] + it[T \ {Pick(T)}]]
<1>1. PICK step : step = [p \in S \X Int |-> f[p[1]] + p[2]]
  BY Zenon
<1>2. step \in [S \X Int -> Int]
  BY <1>1
<1>3. PICK pick : pick = [T \in SUBSET S |-> Pick(T)]
  BY Zenon
<1>4. \A T \in SUBSET S : T # {} => pick[T] = Pick(T) /\ pick[T] \in T
  BY <1>3, PickType
<1>5. PICK it \in [SUBSET S -> Int] :
        \A T \in SUBSET S :
          it[T] = IF T = {} THEN 0 ELSE step[<<pick[T], it[T \ {pick[T]}]>>]
  <2>1. 0 \in Int /\ \A T \in SUBSET S : T # {} => pick[T] \in T
    BY <1>4
  <2>2. PICK it : IsFold(it, S, Int, 0, step, pick)
    BY <1>2, <2>1, FoldExists, Zenon
  <2> QED
    BY <2>2 DEF IsFold
<1>6. ASSUME NEW T \in SUBSET S
      PROVE  it[T] = IF T = {} THEN 0 ELSE f[Pick(T)] + it[T \ {Pick(T)}]
  <2>1. CASE T = {}
    BY <1>5, <2>1, Zenon
  <2>2. CASE T # {}
    <3>1. Pick(T) \in S /\ it[T \ {Pick(T)}] \in Int
      BY <1>4, <2>2
    <3>2. step[<<Pick(T), it[T \ {Pick(T)}]>>] = f[Pick(T)] + it[T \ {Pick(T)}]
      BY <1>1, <3>1
    <3> QED
      BY <1>4, <1>5, <2>2, <3>2
  <2> QED
    BY <2>1, <2>2
<1>7. Rec(it)
  BY <1>6
<1>8. PICK g : g = (CHOOSE h : Rec(h)) /\ Rec(g)
  <2> HIDE DEF Rec
  <2> QED
    BY <1>7, Zenon
<1>9. SumFunctionOnSet(f, S) = g[S]
  BY <1>8, Zenon DEF SumFunctionOnSet, FoldFunctionOnSet, MapThenFoldSet, Pick
<1>10. g = it
  <2>1. \A T \in SUBSET S : g[T] = it[T]
    <3> SUFFICES ASSUME NEW Z \in SUBSET S, g[Z] # it[Z] PROVE FALSE
      OBVIOUS
    <3>1. PICK N : N = {Cardinality(T) : T \in {U \in SUBSET S : g[U] # it[U]}}
      BY Zenon
    <3>2. N \in SUBSET Nat /\ N # {}
      BY <3>1, FS_Subset, FS_CardinalityType
    <3>3. PICK n \in N : \A m \in N : n <= m
      BY <3>2, LeastNumber
    <3>4. PICK T \in SUBSET S : g[T] # it[T] /\ Cardinality(T) = n
      BY <3>1
    <3>5. T # {}
      BY <1>6, <1>8, <3>4, Zenon
    <3>6. Pick(T) \in T /\ T \ {Pick(T)} \in SUBSET S /\ IsFiniteSet(T)
      BY <3>5, PickType, FS_Subset
    <3>7. Cardinality(T \ {Pick(T)}) = Cardinality(T) - 1
      BY <3>6, CardinalityRemove
    <3>8. g[T \ {Pick(T)}] = it[T \ {Pick(T)}]
      BY <3>1, <3>2, <3>3, <3>4, <3>6, <3>7
    <3> QED
      BY <1>6, <1>8, <3>4, <3>5, <3>8, ZenonT(30)
  <2> QED
    BY <1>8, <2>1, Zenon
<1> QED
  BY <1>6, <1>9, <1>10, Zenon DEF AreSums

(* The sum over a smaller set is a value of the same recursion.            *)
LEMMA SumPick ==
  ASSUME NEW S, IsFiniteSet(S), NEW f, \A x \in S : f[x] \in Int
  PROVE  /\ SumFunctionOnSet(f, S) \in Int
         /\ SumFunctionOnSet(f, S)
              = IF S = {} THEN 0 ELSE f[Pick(S)] + SumFunctionOnSet(f, S \ {Pick(S)})
<1>0. PICK it : AreSums(it, f, S) /\ SumFunctionOnSet(f, S) = it[S]
  BY SumRecursion
<1>1. /\ it \in [SUBSET S -> Int] /\ SumFunctionOnSet(f, S) = it[S]
      /\ \A T \in SUBSET S :
           it[T] = IF T = {} THEN 0 ELSE f[Pick(T)] + it[T \ {Pick(T)}]
  BY <1>0, Zenon DEF AreSums
<1>2. S \in SUBSET S /\ it[S] \in Int
  BY <1>1
<1>3. CASE S = {}
  BY <1>1, <1>2, <1>3, Zenon
<1>4. CASE S # {}
  <2>1. PICK R : R = S \ {Pick(S)}
    BY Zenon
  <2>2. Pick(S) \in S /\ R \in SUBSET S /\ IsFiniteSet(R) /\ \A x \in R : f[x] \in Int
    BY <1>4, <2>1, PickType, FS_Subset
  <2>0. PICK jt : AreSums(jt, f, R) /\ SumFunctionOnSet(f, R) = jt[R]
    BY <2>2, SumRecursion
  <2>3. /\ jt \in [SUBSET R -> Int] /\ SumFunctionOnSet(f, R) = jt[R]
        /\ \A T \in SUBSET R :
             jt[T] = IF T = {} THEN 0 ELSE f[Pick(T)] + jt[T \ {Pick(T)}]
    BY <2>0 DEF AreSums
  <2>4. \A T \in SUBSET R : jt[T] = it[T]
    <3> SUFFICES ASSUME NEW Z \in SUBSET R, jt[Z] # it[Z] PROVE FALSE
      OBVIOUS
    <3>1. PICK N : N = {Cardinality(T) : T \in {U \in SUBSET R : jt[U] # it[U]}}
      BY Zenon
    <3>2. N \in SUBSET Nat /\ N # {}
      BY <2>2, <3>1, FS_Subset, FS_CardinalityType
    <3>3. PICK n \in N : \A m \in N : n <= m
      BY <3>2, LeastNumber
    <3>4. PICK T \in SUBSET R : jt[T] # it[T] /\ Cardinality(T) = n
      BY <3>1
    <3>5. T \in SUBSET S
      BY <2>2
    <3>6. T # {}
      BY <1>1, <2>3, <3>4, <3>5, Zenon
    <3>7. Pick(T) \in T /\ T \ {Pick(T)} \in SUBSET R /\ IsFiniteSet(T)
      BY <2>2, <3>6, PickType, FS_Subset
    <3>8. Cardinality(T \ {Pick(T)}) = Cardinality(T) - 1
      BY <3>7, CardinalityRemove
    <3>9. jt[T \ {Pick(T)}] = it[T \ {Pick(T)}]
      BY <3>1, <3>2, <3>3, <3>4, <3>7, <3>8
    <3> QED
      BY <1>1, <2>3, <3>4, <3>5, <3>6, <3>9
  <2>5. SumFunctionOnSet(f, R) = it[R]
    BY <2>3, <2>4
  <2> QED
    BY <1>1, <1>2, <1>4, <2>1, <2>5
<1> QED
  BY <1>3, <1>4

(* The order does not matter: any element may be taken out.                *)
LEMMA SumRemove ==
  ASSUME NEW S, IsFiniteSet(S), NEW f, \A x \in S : f[x] \in Int, NEW a \in S
  PROVE  SumFunctionOnSet(f, S) = f[a] + SumFunctionOnSet(f, S \ {a})
<1> DEFINE Sum(T) == SumFunctionOnSet(f, T)
           Bad(T) == \E x \in T : Sum(T) # f[x] + Sum(T \ {x})
<1>0. ASSUME NEW T \in SUBSET S
      PROVE  /\ IsFiniteSet(T) /\ Cardinality(T) \in Nat /\ Sum(T) \in Int
             /\ T # {} => Pick(T) \in T /\ Sum(T) = f[Pick(T)] + Sum(T \ {Pick(T)})
             /\ \A x \in T : Cardinality(T \ {x}) = Cardinality(T) - 1
  <2>1. IsFiniteSet(T) /\ Cardinality(T) \in Nat /\ \A x \in T : f[x] \in Int
    BY FS_Subset, FS_CardinalityType
  <2>2. T # {} => Pick(T) \in T
    BY PickType
  <2>3. \A x \in T : Cardinality(T \ {x}) = Cardinality(T) - 1
    BY <2>1, CardinalityRemove
  <2> QED
    BY <2>1, <2>2, <2>3, SumPick, Zenon
<1> HIDE DEF Sum
<1> SUFFICES ASSUME Bad(S) PROVE FALSE
  BY DEF Sum
<1>1. PICK N : N = {Cardinality(T) : T \in {U \in SUBSET S : Bad(U)}}
  BY Zenon
<1>2. N \in SUBSET Nat /\ N # {}
  <2> HIDE DEF Bad
  <2>1. S \in {U \in SUBSET S : Bad(U)}
    OBVIOUS
  <2>2. \A U \in SUBSET S : Cardinality(U) \in Nat
    BY <1>0, Zenon
  <2> QED
    BY <1>1, <2>1, <2>2
<1>3. PICK n \in N : \A m \in N : n <= m
  BY <1>2, LeastNumber
<1>4. PICK T \in SUBSET S : Bad(T) /\ Cardinality(T) = n
  BY <1>1
<1>5. PICK x \in T : Sum(T) # f[x] + Sum(T \ {x})
  BY <1>4, Zenon
<1>6. PICK p : p = Pick(T) /\ p \in T /\ p # x /\ Sum(T) = f[p] + Sum(T \ {p})
  BY <1>0, <1>5, Zenon
<1>7. \A U \in SUBSET S : Cardinality(U) = n - 1 => ~Bad(U)
  BY ONLY <1>1, <1>2, <1>3, SMTT(30)
<1>8. ~Bad(T \ {p}) /\ ~Bad(T \ {x})
  <2> HIDE DEF Bad
  <2>1. T \ {p} \in SUBSET S /\ T \ {x} \in SUBSET S
    OBVIOUS
  <2> QED
    BY <1>0, <1>4, <1>6, <1>7, <2>1
<1>9. x \in T \ {p} /\ p \in T \ {x} /\ (T \ {p}) \ {x} = (T \ {x}) \ {p}
  BY <1>6
<1>10. PICK U : U = (T \ {p}) \ {x} /\ U \in SUBSET S
  BY Zenon
<1>11. Sum(T \ {p}) = f[x] + Sum(U) /\ Sum(T \ {x}) = f[p] + Sum(U)
  BY <1>8, <1>9, <1>10, Zenon
<1>12. f[x] \in Int /\ f[p] \in Int /\ Sum(U) \in Int
  BY <1>0, <1>6, <1>10, Zenon
<1> QED
  BY <1>5, <1>6, <1>11, <1>12

(* One more element adds its value.                                        *)
LEMMA SumAdd ==
  ASSUME NEW S, IsFiniteSet(S), NEW f, \A x \in S : f[x] \in Int,
         NEW T \in SUBSET S, NEW a \in S \ T
  PROVE  /\ SumFunctionOnSet(f, T) \in Int
         /\ SumFunctionOnSet(f, T \cup {a}) = f[a] + SumFunctionOnSet(f, T)
<1>1. PICK U : U = T \cup {a}
  BY Zenon
<1>2. IsFiniteSet(T) /\ IsFiniteSet(U) /\ a \in U /\ U \ {a} = T
  BY <1>1, FS_Subset
<1>3. \A x \in U : f[x] \in Int
  BY <1>1
<1>4. SumFunctionOnSet(f, U) = f[a] + SumFunctionOnSet(f, U \ {a})
  BY <1>2, <1>3, SumRemove
<1> QED
  BY <1>1, <1>2, <1>3, <1>4, SumPick, Zenon

(* The sum over the empty set.                                             *)
LEMMA SumEmpty == ASSUME NEW f PROVE SumFunctionOnSet(f, {}) = 0
BY SumPick, FS_EmptySet

(* A sum of larger values is larger.                                       *)
LEMMA SumMonotone ==
  ASSUME NEW S, IsFiniteSet(S), NEW f, NEW g,
         \A x \in S : f[x] \in Int /\ g[x] \in Int /\ f[x] <= g[x]
  PROVE  SumFunctionOnSet(f, S) <= SumFunctionOnSet(g, S)
<1>1. PICK F : F = {T \in SUBSET S : SumFunctionOnSet(f, T) <= SumFunctionOnSet(g, T)}
  BY Zenon
<1>2. {} \in F
  BY <1>1, SumEmpty
<1>3. ASSUME NEW T \in SUBSET S, NEW a \in S \ T, T \in F
      PROVE  T \cup {a} \in F
  <2>1. /\ SumFunctionOnSet(f, T) \in Int
        /\ SumFunctionOnSet(f, T \cup {a}) = f[a] + SumFunctionOnSet(f, T)
    BY SumAdd
  <2>2. /\ SumFunctionOnSet(g, T) \in Int
        /\ SumFunctionOnSet(g, T \cup {a}) = g[a] + SumFunctionOnSet(g, T)
    BY SumAdd
  <2>3. SumFunctionOnSet(f, T \cup {a}) <= SumFunctionOnSet(g, T \cup {a})
    BY <1>1, <1>3, <2>1, <2>2
  <2> QED
    BY <1>1, <2>3
<1>4. S \in F
  BY <1>2, <1>3, FiniteInduction, Zenon
<1> QED
  BY <1>1, <1>4

(* The sum depends on the values in the set only.                          *)
LEMMA SumAgree ==
  ASSUME NEW S, IsFiniteSet(S), NEW f, NEW g,
         \A x \in S : f[x] \in Int /\ g[x] = f[x]
  PROVE  SumFunctionOnSet(f, S) = SumFunctionOnSet(g, S)
<1>1. /\ SumFunctionOnSet(f, S) <= SumFunctionOnSet(g, S)
      /\ SumFunctionOnSet(g, S) <= SumFunctionOnSet(f, S)
  BY SumMonotone
<1>2. SumFunctionOnSet(f, S) \in Int /\ SumFunctionOnSet(g, S) \in Int
  BY SumPick, Zenon
<1> QED
  BY <1>1, <1>2

(* From f to g the value of a changes by k, and no other.                  *)
Adds(f, g, S, a, k) ==
  /\ a \in S /\ k \in Int /\ \A x \in S : f[x] \in Int /\ g[x] \in Int
  /\ g[a] = f[a] + k /\ \A x \in S \ {a} : g[x] = f[x]

(* A change of one value changes the sum by as much.                       *)
LEMMA SumUpdate ==
  ASSUME NEW S, IsFiniteSet(S), NEW f, NEW g, NEW a, NEW k, Adds(f, g, S, a, k)
  PROVE  /\ SumFunctionOnSet(f, S) \in Int /\ SumFunctionOnSet(g, S) \in Int
         /\ SumFunctionOnSet(g, S) = SumFunctionOnSet(f, S) + k
<1>1. /\ a \in S /\ k \in Int /\ \A x \in S : f[x] \in Int /\ g[x] \in Int
      /\ g[a] = f[a] + k
  BY Zenon DEF Adds
<1>2. IsFiniteSet(S \ {a}) /\ \A x \in S \ {a} : f[x] \in Int /\ g[x] = f[x]
  BY <1>1, FS_Subset DEF Adds
<1>3. SumFunctionOnSet(f, S \ {a}) = SumFunctionOnSet(g, S \ {a})
  BY <1>2, SumAgree
<1>4. /\ SumFunctionOnSet(f, S) = f[a] + SumFunctionOnSet(f, S \ {a})
      /\ SumFunctionOnSet(g, S) = g[a] + SumFunctionOnSet(g, S \ {a})
  BY <1>1, SumRemove
<1>5. /\ SumFunctionOnSet(f, S) \in Int /\ SumFunctionOnSet(g, S) \in Int
      /\ SumFunctionOnSet(f, S \ {a}) \in Int
  BY <1>1, <1>2, SumPick, Zenon
<1> QED
  BY <1>1, <1>3, <1>4, <1>5

(* A sum of zeros is zero.                                                 *)
LEMMA SumZero ==
  ASSUME NEW S, IsFiniteSet(S), NEW f, \A x \in S : f[x] = 0
  PROVE  SumFunctionOnSet(f, S) = 0
<1>1. PICK F : F = {T \in SUBSET S : SumFunctionOnSet(f, T) = 0}
  BY Zenon
<1>2. {} \in F
  BY <1>1, SumEmpty
<1>3. ASSUME NEW T \in SUBSET S, NEW a \in S \ T, T \in F
      PROVE  T \cup {a} \in F
  <2>1. SumFunctionOnSet(f, T \cup {a}) = f[a] + SumFunctionOnSet(f, T)
    BY SumAdd
  <2> QED
    BY <1>1, <1>3, <2>1
<1>4. S \in F
  BY <1>2, <1>3, FiniteInduction, Zenon
<1> QED
  BY <1>1, <1>4

(* A sum of natural numbers is one, and each of them is at most the sum.   *)
LEMMA SumNat ==
  ASSUME NEW S, IsFiniteSet(S), NEW f, \A x \in S : f[x] \in Nat
  PROVE  /\ SumFunctionOnSet(f, S) \in Nat
         /\ \A a \in S : f[a] <= SumFunctionOnSet(f, S)
<1>1. ASSUME NEW T \in SUBSET S
      PROVE  SumFunctionOnSet(f, T) \in Nat
  <2>1. PICK zero : zero = [x \in T |-> 0]
    BY Zenon
  <2>2. IsFiniteSet(T) /\ \A x \in T : zero[x] = 0
    BY <2>1, FS_Subset
  <2>3. SumFunctionOnSet(zero, T) = 0
    BY <2>2, SumZero
  <2>4. \A x \in T : zero[x] \in Int /\ f[x] \in Int /\ zero[x] <= f[x]
    BY <2>2
  <2>5. SumFunctionOnSet(zero, T) <= SumFunctionOnSet(f, T)
    BY <2>2, <2>4, SumMonotone
  <2>6. SumFunctionOnSet(f, T) \in Int
    BY <2>2, <2>4, SumPick, Zenon
  <2> QED
    BY <2>3, <2>5, <2>6
<1>2. ASSUME NEW a \in S
      PROVE  f[a] <= SumFunctionOnSet(f, S)
  <2>1. \A x \in S : f[x] \in Int
    OBVIOUS
  <2>2. SumFunctionOnSet(f, S) = f[a] + SumFunctionOnSet(f, S \ {a})
    BY <2>1, SumRemove
  <2>3. SumFunctionOnSet(f, S \ {a}) \in Nat
    BY <1>1
  <2> QED
    BY <2>2, <2>3
<1> QED
  BY <1>1, <1>2

(* What the type of an account says about its schedules.                   *)
GoodAccount(account) ==
  /\ account \in Account
  /\ \A i, j \in DOMAIN account.infos :
       account.infos[i].start = account.infos[j].start => i = j
  /\ account.kind \in {"none", "sdk", "ethBase"} => account.infos = <<>>
  /\ account.kind \in {"sdkVesting", "ethVesting"} => Len(account.infos) = 1
  /\ account.kind = "ethMulti" => Len(account.infos) > 1

(* All accounts are good, and none of a blocked address is owned.          *)
AllGood(accounts) ==
  /\ accounts \in [Holders -> Account]
  /\ \A a \in Holders : GoodAccount(accounts[a])
  /\ \A a \in Modules \cup Barred : accounts[a].kind \notin EthKinds

(* The inductive invariant: the accounts, and the two times that schedules *)
(* are made of.                                                            *)
IInv == AllGood(acc) /\ startTime \in Nat /\ now \in Nat

-----------------------------------------------------------------------------
(* Accounts                                                                *)

(* An account without schedules.                                           *)
LEMMA EmptyAccount ==
  ASSUME NEW kind \in {"none", "sdk", "ethBase"}
  PROVE  GoodAccount([kind |-> kind, infos |-> <<>>])
<1>1. <<>> \in Seq(VestingInfo)
  OBVIOUS
<1>2. [kind |-> kind, infos |-> <<>>] \in Account
  BY <1>1 DEF Account, Kinds, EthKinds
<1> QED
  BY <1>2 DEF GoodAccount

(* An account with one schedule.                                           *)
LEMMA OneSchedule ==
  ASSUME NEW kind \in {"sdkVesting", "ethVesting"}, NEW info \in VestingInfo
  PROVE  GoodAccount([kind |-> kind, infos |-> <<info>>])
<1>1. <<info>> \in Seq(VestingInfo) /\ DOMAIN <<info>> = {1} /\ Len(<<info>>) = 1
  OBVIOUS
<1>2. [kind |-> kind, infos |-> <<info>>] \in Account
  BY <1>1 DEF Account, Kinds, EthKinds
<1> QED
  BY <1>1, <1>2 DEF GoodAccount

(***************************************************************************)
(* AddVestingCoins finds the one schedule with the start time, or adds one *)
(* with a start time that no other has.                                    *)
(***************************************************************************)
LEMMA AddToSchedulesIsGood ==
  ASSUME NEW account, GoodAccount(account), account.kind \in {"ethVesting", "ethMulti"},
         NEW amount \in Nat, NEW start \in Nat, NEW end \in Nat
  PROVE  /\ GoodAccount(AddToSchedules(account, amount, start, end))
         /\ AddToSchedules(account, amount, start, end).kind \in {"ethVesting", "ethMulti"}
<1>0. PICK infos : infos = account.infos
  OBVIOUS
<1>1. account \in Account /\ infos \in Seq(VestingInfo) /\ Len(infos) \in Nat
      /\ DOMAIN infos = 1..Len(infos) /\ Len(infos) >= 1
  <2>1. account \in Account
    BY DEF GoodAccount
  <2>2. infos \in Seq(VestingInfo)
    BY <1>0, <2>1 DEF Account
  <2>3. Len(infos) \in Nat /\ DOMAIN infos = 1..Len(infos)
    BY <2>2
  <2>4. Len(infos) = 1 \/ Len(infos) > 1
    BY <1>0, Zenon DEF GoodAccount
  <2> QED
    BY ONLY <2>1, <2>2, <2>3, <2>4
<1>2. CASE \E i \in DOMAIN infos : infos[i].start = start
  <2>1. PICK i \in DOMAIN infos :
          /\ i = CHOOSE j \in DOMAIN infos : infos[j].start = start
          /\ infos[i].start = start
    <3> DEFINE c == CHOOSE j \in DOMAIN infos : infos[j].start = start
    <3>1. c \in DOMAIN infos /\ infos[c].start = start
      BY <1>2
    <3> QED
      BY <3>1, Zenon
  <2>2. infos[i] \in VestingInfo /\ infos[i].orig \in Nat
    <3>1. infos[i] \in VestingInfo
      BY ONLY <1>1, <2>1
    <3> QED
      BY ONLY <3>1 DEF VestingInfo
  <2>3. PICK info : info = [infos[i] EXCEPT !.orig = @ + amount]
    BY Zenon
  <2>4. info \in VestingInfo /\ info.start = infos[i].start
    BY <2>2, <2>3 DEF VestingInfo
  <2>5. PICK new : new = [infos EXCEPT ![i] = info]
    BY ZenonT(30)
  <2>6. /\ new \in Seq(VestingInfo) /\ Len(new) = Len(infos) /\ DOMAIN new = DOMAIN infos
        /\ \A j \in DOMAIN infos : new[j].start = infos[j].start
    BY ONLY <1>1, <2>4, <2>5, SMTT(30)
  <2>7. AddToSchedules(account, amount, start, end) = [account EXCEPT !.infos = new]
    BY <1>0, <1>2, <2>1, <2>3, <2>5 DEF AddToSchedules
  <2>8. PICK r : r = [account EXCEPT !.infos = new]
    BY Zenon
  <2>9. r \in Account /\ r.kind = account.kind /\ r.infos = new
    BY <1>1, <2>6, <2>8, ZenonT(30) DEF Account
  <2>10. GoodAccount(r)
    BY <1>0, <2>6, <2>9 DEF GoodAccount
  <2> QED
    BY <2>7, <2>8, <2>9, <2>10
<1>3. CASE ~\E i \in DOMAIN infos : infos[i].start = start
  <2>1. PICK info : info = [orig |-> amount, start |-> start, end |-> end]
    BY Zenon
  <2>2. info \in VestingInfo /\ info.start = start
    BY <2>1 DEF VestingInfo
  <2>3. PICK new : new = Append(infos, info)
    BY Zenon
  <2>4. /\ new \in Seq(VestingInfo) /\ Len(new) = Len(infos) + 1
        /\ DOMAIN new = 1..(Len(infos) + 1)
        /\ \A j \in DOMAIN infos : new[j] = infos[j]
        /\ new[Len(infos) + 1] = info
    BY <1>1, <2>2, <2>3
  <2>5. \A i, j \in DOMAIN new : new[i].start = new[j].start => i = j
    <3> SUFFICES ASSUME NEW i \in DOMAIN new, NEW j \in DOMAIN new,
                        new[i].start = new[j].start
                 PROVE  i = j
      OBVIOUS
    <3>1. i \in DOMAIN infos \/ i = Len(infos) + 1
      BY <1>1, <2>4
    <3>2. j \in DOMAIN infos \/ j = Len(infos) + 1
      BY <1>1, <2>4
    <3>3. \A k \in DOMAIN infos : new[k].start # start
      BY <1>3, <2>4
    <3> QED
      BY <2>2, <2>4, <3>1, <3>2, <3>3, <1>0 DEF GoodAccount
  <2>6. PICK r : r = [kind |-> "ethMulti", infos |-> new]
    BY Zenon
  <2>7. r \in Account /\ r.kind = "ethMulti" /\ r.infos = new /\ Len(new) > 1
    BY <1>1, <2>4, <2>6 DEF Account, Kinds, EthKinds
  <2>8. AddToSchedules(account, amount, start, end) = r
    BY <1>0, <1>3, <2>1, <2>3, <2>6 DEF AddToSchedules
  <2>9. GoodAccount(r)
    BY <2>5, <2>7 DEF GoodAccount
  <2> QED
    BY <2>7, <2>8, <2>9
<1> QED
  BY <1>2, <1>3

(* One account changes.                                                    *)
LEMMA SetAccount ==
  ASSUME NEW accounts, AllGood(accounts), NEW a \in Holders, NEW x, GoodAccount(x),
         a \in Modules \cup Barred => x.kind \notin EthKinds
  PROVE  AllGood([accounts EXCEPT ![a] = x])
<1>1. PICK new : new = [accounts EXCEPT ![a] = x]
  BY Zenon
<1>2. x \in Account /\ accounts \in [Holders -> Account]
  BY DEF GoodAccount, AllGood
<1>3. /\ new \in [Holders -> Account]
      /\ \A b \in Holders : new[b] = IF b = a THEN x ELSE accounts[b]
  BY <1>1, <1>2
<1>4. Modules \cup Barred \subseteq Holders
  BY AccountsAssumption DEF Holders
<1>5. ASSUME NEW b \in Holders PROVE GoodAccount(new[b])
  BY <1>3, <1>5 DEF AllGood
<1>6. ASSUME NEW b \in Modules \cup Barred PROVE new[b].kind \notin EthKinds
  BY <1>3, <1>4, <1>6 DEF AllGood
<1> QED
  BY <1>1, <1>3, <1>5, <1>6 DEF AllGood

(* Bank creates an account of the SDK where there is none.                 *)
LEMMA CreateSdkAccount ==
  ASSUME NEW accounts, AllGood(accounts), NEW a \in Holders, accounts[a].kind = "none"
  PROVE  AllGood([accounts EXCEPT ![a].kind = "sdk"])
<1>1. accounts[a] \in Account /\ accounts[a].infos = <<>>
  BY DEF AllGood, GoodAccount
<1>2. PICK x : x = [kind |-> "sdk", infos |-> <<>>]
  BY Zenon
<1>3. [accounts[a] EXCEPT !.kind = "sdk"] = x
  BY <1>1, <1>2 DEF Account
<1>4. GoodAccount(x) /\ x.kind \notin EthKinds
  BY <1>2, EmptyAccount DEF EthKinds
<1>5. AllGood([accounts EXCEPT ![a] = x])
  BY <1>4, SetAccount
<1> QED
  BY <1>3, <1>5, Zenon

(* A lockup that is a positive duration ends at a time.                    *)
LEMMA EndOfLockup ==
  ASSUME NEW lockup \in Lockups
  PROVE  /\ Duration(lockup) \in Int
         /\ Duration(lockup) > 0 =>
              \A start \in Nat : start + (Duration(lockup) \div Nanos) \in Nat
<1>1. lockup \in Nat /\ Nanos \in Nat \ {0} /\ MaxInt64 \in Nat
  BY AccountsAssumption, Zenon
<1>2. lockup * Nanos \in Nat
  BY <1>1
<1>3. PICK duration : duration = Duration(lockup)
  OBVIOUS
<1>4. duration \in Int
  BY <1>1, <1>2, <1>3 DEF Duration
<1>5. duration > 0 => duration \div Nanos \in Nat
  BY <1>1, <1>4
<1> QED
  BY <1>3, <1>4, <1>5

(* The account that a deposit makes for its depositor.                     *)
LEMMA GeneratedAccount ==
  ASSUME IInv, NEW e \in DepositEvent, e.depositor \in Holders, e.lockup \in Lockups,
         e.amount \in Amounts, generateSequencerAccountFromEthereumDeposit(e) # NoAccount
  PROVE  GoodAccount(generateSequencerAccountFromEthereumDeposit(e))
<1>1. PICK account : account = normaliseExistingAccount(acc[e.depositor])
  OBVIOUS
<1>2. GoodAccount(account) /\ account.kind \in EthKinds
  <2>1. GoodAccount(acc[e.depositor])
    BY DEF IInv, AllGood
  <2>2. CASE acc[e.depositor].kind \in EthKinds
    BY <1>1, <2>1, <2>2 DEF normaliseExistingAccount
  <2>3. CASE acc[e.depositor].kind \notin EthKinds
    <3>1. account = [kind |-> "ethBase", infos |-> <<>>]
      BY <1>1, <2>3 DEF normaliseExistingAccount
    <3> QED
      BY <3>1, EmptyAccount DEF EthKinds
  <2> QED
    BY <2>2, <2>3
<1>3. PICK duration : duration = Duration(e.lockup)
  OBVIOUS
<1>5. CASE ~(duration > 0)
  BY <1>1, <1>2, <1>3, <1>5 DEF generateSequencerAccountFromEthereumDeposit
<1>6. CASE duration > 0
  <2>1. PICK end : end = startTime + (duration \div Nanos)
    OBVIOUS
  <2>2. end \in Nat /\ e.amount \in Nat /\ startTime \in Nat
    <3>1. startTime \in Nat /\ e.amount \in Nat
      BY AccountsAssumption, Zenon DEF IInv
    <3> QED
      BY <1>3, <1>6, <2>1, <3>1, EndOfLockup
  <2>3. generateSequencerAccountFromEthereumDeposit(e)
          = AddVestingCoins(account, e.amount, startTime, end)
    BY <1>1, <1>3, <1>6, <2>1 DEF generateSequencerAccountFromEthereumDeposit
  <2>4. CASE account.kind # "ethBase"
    <3>1. account.kind \in {"ethVesting", "ethMulti"}
      BY <1>2, <2>4 DEF EthKinds
    <3>2. AddVestingCoins(account, e.amount, startTime, end)
            = AddToSchedules(account, e.amount, startTime, end)
      BY <2>4 DEF AddVestingCoins
    <3>3. PICK amount \in Nat : amount = e.amount
      BY <2>2
    <3>4. GoodAccount(AddToSchedules(account, amount, startTime, end))
      BY ONLY <1>2, <2>2, <3>1, amount \in Nat, AddToSchedulesIsGood
    <3> QED
      BY <2>3, <3>2, <3>3, <3>4
  <2>5. CASE account.kind = "ethBase"
    <3>1. PICK info : info = [orig |-> e.amount, start |-> startTime, end |-> end]
      BY Zenon
    <3>2. info \in VestingInfo
      BY <2>2, <3>1 DEF VestingInfo
    <3>3. generateSequencerAccountFromEthereumDeposit(e)
            = [kind |-> "ethVesting", infos |-> <<info>>]
      BY <2>3, <2>5, <3>1 DEF AddVestingCoins
    <3> QED
      BY <3>2, <3>3, OneSchedule
  <2> QED
    BY <2>4, <2>5
<1> QED
  BY <1>5, <1>6

-----------------------------------------------------------------------------
(* Rounding and vesting                                                    *)

(* Multiplication keeps the order.                                         *)
LEMMA TimesMonotone ==
  ASSUME NEW a \in Nat, NEW b \in Nat, a <= b, NEW c \in Nat
  PROVE  a * c \in Nat /\ b * c \in Nat /\ a * c <= b * c /\ c * a <= c * b
OBVIOUS

(* Rounding is off by at most one half.                                    *)
LEMMA RoundDivBounds ==
  ASSUME NEW a \in Nat, NEW b \in Nat \ {0}
  PROVE  /\ RoundDiv(a, b) \in Nat
         /\ 2 * a - b <= 2 * (b * RoundDiv(a, b))
         /\ 2 * (b * RoundDiv(a, b)) <= 2 * a + b
<1>1. PICK q, m : q = a \div b /\ m = a % b
  OBVIOUS
<1>2. q \in Nat /\ m \in Nat /\ m < b /\ a = b * q + m
  BY <1>1
<1>3. PICK p \in Nat : p = b * q
  BY <1>2
<1>4. b * (q + 1) = p + b
  BY <1>2, <1>3
<1>5. CASE 2 * m > b \/ (2 * m = b /\ q % 2 = 1)
  <2>1. RoundDiv(a, b) = q + 1
    BY <1>1, <1>5 DEF RoundDiv
  <2> QED
    BY <1>2, <1>3, <1>4, <1>5, <2>1
<1>6. CASE ~(2 * m > b \/ (2 * m = b /\ q % 2 = 1))
  <2>1. RoundDiv(a, b) = q
    BY <1>1, <1>6 DEF RoundDiv
  <2>2. 2 * m <= b
    <3>1. CASE 2 * m # b
      BY <1>2, <1>6, <3>1
    <3> QED
      BY <1>2, <3>1
  <2> QED
    BY <1>2, <1>3, <2>1, <2>2
<1> QED
  BY <1>5, <1>6

(* The rounded quotient of more is not less.                               *)
LEMMA RoundDivMonotone ==
  ASSUME NEW a \in Nat, NEW c \in Nat, a <= c, NEW b \in Nat \ {0}
  PROVE  RoundDiv(a, b) <= RoundDiv(c, b)
<1>1. PICK x, y : x = RoundDiv(a, b) /\ y = RoundDiv(c, b)
  OBVIOUS
<1>2. /\ x \in Nat /\ y \in Nat
      /\ 2 * (b * x) <= 2 * a + b /\ 2 * c - b <= 2 * (b * y)
  BY <1>1, RoundDivBounds
<1>3. CASE a = c
  BY <1>1, <1>2, <1>3
<1>4. CASE a < c /\ y + 1 <= x
  <2>1. b * (y + 1) <= b * x
    BY <1>2, <1>4, TimesMonotone
  <2>2. b * (y + 1) = b * y + b
    BY <1>2
  <2>3. b * y \in Nat /\ b * x \in Nat
    BY <1>2
  <2> QED
    BY <1>2, <1>4, <2>1, <2>2, <2>3
<1> QED
  BY <1>1, <1>2, <1>3, <1>4

(* A quotient without a remainder is not rounded.                          *)
LEMMA RoundDivExact ==
  ASSUME NEW a \in Nat, NEW b \in Nat \ {0}
  PROVE  RoundDiv(a * b, b) = a
<1>1. PICK r, n : r = RoundDiv(a * b, b) /\ n = b * a
  OBVIOUS
<1>2. n \in Nat /\ a * b = n
  BY <1>1
<1>3. r \in Nat /\ 2 * n - b <= 2 * (b * r) /\ 2 * (b * r) <= 2 * n + b
  BY <1>1, <1>2, RoundDivBounds
<1>4. b * r \in Nat /\ b * (a + 1) = n + b /\ b * (r + 1) = b * r + b
  BY <1>1, <1>3
<1>5. CASE a + 1 <= r
  <2>1. b * (a + 1) <= b * r
    BY <1>3, <1>5, TimesMonotone
  <2> QED
    BY ONLY <1>2, <1>3, <1>4, <2>1, SMTT(30)
<1>6. CASE r + 1 <= a
  <2>1. b * (r + 1) <= n
    BY <1>1, <1>3, <1>6, TimesMonotone
  <2> QED
    BY <1>2, <1>3, <1>4, <2>1
<1> QED
  BY <1>1, <1>3, <1>5, <1>6

(* A part s / p of a plus c, rounded, is at most c more than that of a.    *)
LEMMA RoundDivIncrease ==
  ASSUME NEW a \in Nat, NEW c \in Nat, NEW p \in Nat \ {0}, NEW s \in 0..p
  PROVE  RoundDiv((a + c) * s, p) <= RoundDiv(a * s, p) + c
<1>1. CASE s = p
  <2>1. RoundDiv(a * p, p) = a /\ RoundDiv((a + c) * p, p) = a + c
    <3>1. a + c \in Nat
      OBVIOUS
    <3> QED
      BY <3>1, RoundDivExact
  <2> QED
    BY <1>1, <2>1
<1>2. CASE c = 0
  <2>1. a * s \in Nat
    OBVIOUS
  <2>2. RoundDiv(a * s, p) \in Nat
    BY <2>1, RoundDivBounds
  <2>3. a + c = a
    BY <1>2
  <2> QED
    BY <1>2, <2>2, <2>3
<1>3. CASE s < p /\ c > 0
  <2>1. PICK u, v, w \in Nat : u = a * s /\ v = c * s /\ w = c * p
    OBVIOUS
  <2>2. (a + c) * s = u + v
    BY <2>1
  <2>3. v < w
    <3>1. c * (s + 1) <= c * p
      BY <1>3, TimesMonotone
    <3>2. c * (s + 1) = v + c
      BY <2>1
    <3> QED
      BY <1>3, <2>1, <3>1, <3>2
  <2>4. PICK x, y : x = RoundDiv(u, p) /\ y = RoundDiv(u + v, p)
    OBVIOUS
  <2>5. /\ x \in Nat /\ y \in Nat
        /\ 2 * u - p <= 2 * (p * x) /\ 2 * (p * y) <= 2 * (u + v) + p
    BY <2>1, <2>4, RoundDivBounds
  <2>6. CASE x + c + 1 <= y
    <3>1. p * (x + c + 1) <= p * y
      BY <2>5, <2>6, TimesMonotone
    <3>2. p * (x + c + 1) = p * x + w + p
      BY <2>1, <2>5
    <3>3. p * x \in Nat /\ p * y \in Nat
      BY <2>5
    <3> QED
      BY <2>1, <2>3, <2>5, <3>1, <3>2, <3>3
  <2> QED
    BY <2>1, <2>2, <2>4, <2>5, <2>6
<1> QED
  BY <1>1, <1>2, <1>3

(***************************************************************************)
(* What GetVestedCoins returns: no more than the schedule holds, no less   *)
(* as time passes, and for a schedule that takes more tokens, no less and  *)
(* no more than the new tokens on top.                                     *)
(***************************************************************************)
VestedPart(info, time) ==
  IF time <= info.start THEN 0
  ELSE IF time >= info.end THEN Precision
  ELSE RoundDiv((time - info.start) * Precision, info.end - info.start)

(* What is vested is a part of the original amount, rounded once more.     *)
LEMMA VestedPartType ==
  ASSUME NEW info \in VestingInfo, NEW t \in Nat
  PROVE  /\ VestedPart(info, t) \in 0..Precision
         /\ GetVestedCoins(info, t) = RoundDiv(info.orig * VestedPart(info, t), Precision)
<1>1. PICK o, st, en \in Nat : o = info.orig /\ st = info.start /\ en = info.end
  BY DEF VestingInfo
<1>2. Precision \in Nat \ {0}
  BY AccountsAssumption
<1>3. RoundDiv(0, Precision) = 0 /\ RoundDiv(o * Precision, Precision) = o
  BY <1>1, <1>2, RoundDivExact
<1>4. CASE t <= st
  BY <1>1, <1>2, <1>3, <1>4 DEF VestedPart, GetVestedCoins
<1>5. CASE ~(t <= st) /\ t >= en
  BY <1>1, <1>2, <1>3, <1>5 DEF VestedPart, GetVestedCoins
<1>6. CASE ~(t <= st) /\ ~(t >= en)
  <2>1. PICK k, d \in Nat \ {0} : k = t - st /\ d = en - st
    BY <1>1, <1>6
  <2>2. PICK s : s = RoundDiv(k * Precision, d)
    OBVIOUS
  <2>3. s \in Nat /\ s <= Precision
    <3>1. k * Precision \in Nat /\ Precision * d \in Nat /\ k * Precision <= Precision * d
      <4>1. k <= d
        BY <1>1, <1>6, <2>1
      <4> QED
        BY <1>2, <4>1, TimesMonotone
    <3>2. RoundDiv(Precision * d, d) = Precision
      BY <1>2, RoundDivExact
    <3> QED
      BY <2>2, <3>1, <3>2, RoundDivBounds, RoundDivMonotone
  <2>4. VestedPart(info, t) = s
    BY <1>1, <1>6, <2>1, <2>2 DEF VestedPart
  <2>5. GetVestedCoins(info, t) = RoundDiv(info.orig * s, Precision)
    BY <1>1, <1>6, <2>1, <2>2 DEF GetVestedCoins
  <2> QED
    BY <1>2, <2>3, <2>4, <2>5
<1> QED
  BY <1>4, <1>5, <1>6

(* The part that is vested grows with time.                                *)
LEMMA VestedPartMonotone ==
  ASSUME NEW info \in VestingInfo, NEW t \in Nat, NEW u \in Nat, t <= u
  PROVE  VestedPart(info, t) <= VestedPart(info, u)
<1>1. PICK st, en \in Nat : st = info.start /\ en = info.end
  BY DEF VestingInfo
<1>2. Precision \in Nat \ {0}
  BY AccountsAssumption
<1>3. VestedPart(info, t) \in 0..Precision /\ VestedPart(info, u) \in 0..Precision
  BY VestedPartType
<1>4. CASE t <= st
  BY <1>1, <1>2, <1>3, <1>4 DEF VestedPart
<1>5. CASE ~(t <= st) /\ u >= en
  <2>1. VestedPart(info, u) = Precision
    BY <1>1, <1>5 DEF VestedPart
  <2> QED
    BY <1>2, <1>3, <2>1
<1>6. CASE ~(t <= st) /\ ~(u >= en)
  <2>1. PICK k, l, d \in Nat \ {0} : k = t - st /\ l = u - st /\ d = en - st
    BY <1>1, <1>6
  <2>2. k <= l
    BY <1>1, <2>1
  <2>3. k * Precision \in Nat /\ l * Precision \in Nat /\ k * Precision <= l * Precision
    BY <1>2, <2>2, TimesMonotone
  <2>4. /\ VestedPart(info, t) = RoundDiv(k * Precision, d)
        /\ VestedPart(info, u) = RoundDiv(l * Precision, d)
    BY <1>1, <1>6, <2>1 DEF VestedPart
  <2> QED
    BY <2>3, <2>4, RoundDivMonotone
<1> QED
  BY <1>4, <1>5, <1>6

(* The tokens of one schedule that are locked.                             *)
Unvested(info, time) == info.orig - GetVestedCoins(info, time)

(* What is not vested is at most the original amount.                      *)
LEMMA UnvestedType ==
  ASSUME NEW info \in VestingInfo, NEW t \in Nat
  PROVE  Unvested(info, t) \in 0..info.orig
<1>1. PICK s, o : s = VestedPart(info, t) /\ o = info.orig
  OBVIOUS
<1>2. o \in Nat /\ s \in 0..Precision /\ Precision \in Nat \ {0}
  BY <1>1, VestedPartType, AccountsAssumption DEF VestingInfo
<1>3. o * s \in Nat /\ o * Precision \in Nat /\ o * s <= o * Precision
  BY <1>2, TimesMonotone
<1>4. RoundDiv(o * s, Precision) \in Nat /\ RoundDiv(o * s, Precision) <= o
  <2>1. RoundDiv(o * Precision, Precision) = o
    BY <1>2, RoundDivExact
  <2>2. RoundDiv(o * s, Precision) <= RoundDiv(o * Precision, Precision)
    BY <1>2, <1>3, RoundDivMonotone
  <2> QED
    BY <1>2, <1>3, <2>1, <2>2, RoundDivBounds
<1>5. Unvested(info, t) = o - RoundDiv(o * s, Precision)
  BY <1>1, VestedPartType DEF Unvested
<1> QED
  BY <1>1, <1>2, <1>4, <1>5

(* What is not vested falls with time.                                     *)
LEMMA UnvestedFalls ==
  ASSUME NEW info \in VestingInfo, NEW t \in Nat, NEW u \in Nat, t <= u
  PROVE  Unvested(info, u) <= Unvested(info, t)
<1>1. PICK s, v, o : s = VestedPart(info, t) /\ v = VestedPart(info, u) /\ o = info.orig
  OBVIOUS
<1>2. /\ o \in Nat /\ s \in 0..Precision /\ v \in 0..Precision
      /\ Precision \in Nat \ {0} /\ s <= v
  BY <1>1, VestedPartType, VestedPartMonotone, AccountsAssumption DEF VestingInfo
<1>3. o * s \in Nat /\ o * v \in Nat /\ o * s <= o * v
  BY <1>2, TimesMonotone
<1>4. PICK x, y \in Nat : x = RoundDiv(o * s, Precision) /\ y = RoundDiv(o * v, Precision) /\ x <= y
  BY <1>2, <1>3, RoundDivBounds, RoundDivMonotone, Zenon
<1>5. Unvested(info, t) = o - x /\ Unvested(info, u) = o - y
  BY <1>1, <1>4, VestedPartType DEF Unvested
<1> QED
  BY <1>2, <1>4, <1>5

(* An amount that is added to a schedule locks no more than itself, and    *)
(* unlocks nothing.                                                        *)
LEMMA UnvestedGrows ==
  ASSUME NEW info \in VestingInfo, NEW t \in Nat, NEW amount \in Nat, NEW more,
         more = [info EXCEPT !.orig = @ + amount]
  PROVE  /\ more \in VestingInfo
         /\ Unvested(info, t) <= Unvested(more, t)
         /\ Unvested(more, t) <= Unvested(info, t) + amount
<1>1. PICK o \in Nat : o = info.orig
  BY DEF VestingInfo
<1>2. more \in VestingInfo /\ more.orig = o + amount
      /\ more.start = info.start /\ more.end = info.end
  BY <1>1 DEF VestingInfo
<1>3. PICK s : s = VestedPart(info, t) /\ s = VestedPart(more, t)
  BY <1>2 DEF VestedPart
<1>4. s \in 0..Precision /\ Precision \in Nat \ {0}
  BY <1>3, VestedPartType, AccountsAssumption, Zenon
<1>5. o * s \in Nat /\ (o + amount) * s \in Nat /\ o * s <= (o + amount) * s
  BY <1>1, <1>4, TimesMonotone
<1>6. PICK x, y \in Nat : /\ x = RoundDiv(o * s, Precision)
                         /\ y = RoundDiv((o + amount) * s, Precision)
  BY <1>4, <1>5, RoundDivBounds
<1>7. x <= y
  BY <1>4, <1>5, <1>6, RoundDivMonotone
<1>8. y <= x + amount
  BY <1>1, <1>4, <1>6, RoundDivIncrease
<1>9. Unvested(info, t) = o - x /\ Unvested(more, t) = o + amount - y
  <2>1. GetVestedCoins(info, t) = x
    BY <1>1, <1>3, <1>6, VestedPartType, Zenon
  <2>2. GetVestedCoins(more, t) = y
    BY <1>2, <1>3, <1>6, VestedPartType, Zenon
  <2> QED
    BY <1>1, <1>2, <2>1, <2>2 DEF Unvested
<1> QED
  BY <1>1, <1>2, <1>6, <1>7, <1>8, <1>9

-----------------------------------------------------------------------------
(* Locked tokens                                                           *)

(* p is what each of the schedules infos of an account locks.              *)
ArePartsOf(p, infos, account, t) ==
  /\ LockedCoins(account, t) = SumFunctionOnSet(p, DOMAIN infos)
  /\ LockedCoins(account, t) \in Nat
  /\ IsFiniteSet(DOMAIN infos)
  /\ \A i \in DOMAIN infos : /\ infos[i] \in VestingInfo
                             /\ p[i] = Unvested(infos[i], t)
                             /\ p[i] \in Nat

(* What an account has locked is the sum of what its schedules lock.       *)
LEMMA LockedParts ==
  ASSUME NEW account, NEW infos, infos = account.infos, infos \in Seq(VestingInfo),
         NEW t \in Nat
  PROVE  \E p : ArePartsOf(p, infos, account, t)
<1> DEFINE Parts == [i \in DOMAIN infos |-> Unvested(infos[i], t)]
<1>1. PICK p : p = Parts
  BY Zenon
<1>2. DOMAIN infos = 1..Len(infos) /\ Len(infos) \in Nat
  OBVIOUS
<1>3. IsFiniteSet(DOMAIN infos)
  BY <1>2, FS_Interval
<1>4. \A i \in DOMAIN infos : infos[i] \in VestingInfo /\ p[i] = Unvested(infos[i], t)
  BY <1>1, <1>2
<1>5. \A i \in DOMAIN infos : p[i] \in Nat
  <2> SUFFICES ASSUME NEW i \in DOMAIN infos PROVE p[i] \in Nat
    OBVIOUS
  <2>1. infos[i].orig \in Nat /\ Unvested(infos[i], t) \in 0..infos[i].orig
    BY <1>4, UnvestedType DEF VestingInfo
  <2> QED
    BY <1>4, <2>1
<1>6. LockedCoins(account, t) = SumFunctionOnSet(p, DOMAIN infos)
  <2>1. DOMAIN p = DOMAIN infos
    BY <1>1
  <2>2. LockedCoins(account, t) = SumFunction(p)
    BY <1>1, Zenon DEF LockedCoins, Unvested
  <2> QED
    BY <2>1, <2>2 DEF SumFunction
<1>7. SumFunctionOnSet(p, DOMAIN infos) \in Nat
  BY <1>3, <1>5, SumNat
<1>8. ArePartsOf(p, infos, account, t)
  BY <1>3, <1>4, <1>5, <1>6, <1>7, Zenon DEF ArePartsOf
<1> QED
  BY <1>8

(* An account without schedules has nothing locked.                        *)
LEMMA NothingLocked ==
  ASSUME NEW account, account.infos = <<>>, NEW t \in Nat
  PROVE  LockedCoins(account, t) = 0
<1>1. PICK infos : infos = account.infos
  OBVIOUS
<1>2. infos \in Seq(VestingInfo) /\ DOMAIN infos = {}
  BY <1>1
<1>3. PICK p : ArePartsOf(p, infos, account, t)
  BY <1>1, <1>2, LockedParts, Zenon
<1>4. LockedCoins(account, t) = SumFunctionOnSet(p, {})
  BY <1>2, <1>3, Zenon DEF ArePartsOf
<1> QED
  BY <1>4, SumEmpty

(* One schedule locks at most its original amount.                         *)
LEMMA OneLocked ==
  ASSUME NEW account, NEW info \in VestingInfo, account.infos = <<info>>, NEW t \in Nat
  PROVE  LockedCoins(account, t) \in Nat /\ LockedCoins(account, t) <= info.orig
<1>1. PICK infos : infos = account.infos
  OBVIOUS
<1>2. infos \in Seq(VestingInfo) /\ DOMAIN infos = {1} /\ infos[1] = info
  BY <1>1
<1>3. PICK p : ArePartsOf(p, infos, account, t)
  BY <1>1, <1>2, LockedParts, Zenon
<1>4. /\ LockedCoins(account, t) = SumFunctionOnSet(p, {1})
      /\ LockedCoins(account, t) \in Nat
      /\ IsFiniteSet({1}) /\ p[1] = Unvested(info, t) /\ p[1] \in Nat
  BY <1>2, <1>3 DEF ArePartsOf
<1>5. SumFunctionOnSet(p, {1}) = p[1]
  <2>1. \A i \in {1} : p[i] \in Int
    BY <1>4
  <2>2. SumFunctionOnSet(p, {1}) = p[1] + SumFunctionOnSet(p, {1} \ {1})
    BY <1>4, <2>1, SumRemove
  <2>3. {1} \ {1} = {}
    OBVIOUS
  <2> QED
    BY <1>4, <2>2, <2>3, SumEmpty
<1>6. info.orig \in Nat /\ Unvested(info, t) \in 0..info.orig
  BY UnvestedType DEF VestingInfo
<1> QED
  BY <1>4, <1>5, <1>6

(* Time unlocks.                                                           *)
LEMMA LockedFalls ==
  ASSUME NEW account \in Account, NEW t \in Nat, NEW u \in Nat, t <= u
  PROVE  LockedCoins(account, u) <= LockedCoins(account, t)
<1>1. PICK infos : infos = account.infos
  OBVIOUS
<1>2. infos \in Seq(VestingInfo)
  BY <1>1 DEF Account
<1>3. PICK p, q : ArePartsOf(p, infos, account, t) /\ ArePartsOf(q, infos, account, u)
  BY <1>1, <1>2, LockedParts, Zenon
<1>4. /\ LockedCoins(account, t) = SumFunctionOnSet(p, DOMAIN infos)
      /\ IsFiniteSet(DOMAIN infos)
      /\ \A i \in DOMAIN infos :
           infos[i] \in VestingInfo /\ p[i] = Unvested(infos[i], t) /\ p[i] \in Nat
  BY <1>3, Zenon DEF ArePartsOf
<1>5. /\ LockedCoins(account, u) = SumFunctionOnSet(q, DOMAIN infos)
      /\ \A i \in DOMAIN infos : q[i] = Unvested(infos[i], u) /\ q[i] \in Nat
  BY <1>3, Zenon DEF ArePartsOf
<1>6. \A i \in DOMAIN infos : q[i] \in Int /\ p[i] \in Int /\ q[i] <= p[i]
  BY <1>4, <1>5, UnvestedFalls
<1>7. SumFunctionOnSet(q, DOMAIN infos) <= SumFunctionOnSet(p, DOMAIN infos)
  BY <1>4, <1>6, SumMonotone, ZenonT(30)
<1> QED
  BY <1>4, <1>5, <1>7

(* A deposit into a vesting account locks no more than its amount, and     *)
(* unlocks nothing.                                                        *)
LEMMA LockedAdds ==
  ASSUME NEW account, account \in Account, NEW amount \in Nat, NEW start \in Nat,
         NEW end \in Nat, NEW t \in Nat, NEW more,
         more = AddToSchedules(account, amount, start, end)
  PROVE  /\ LockedCoins(account, t) <= LockedCoins(more, t)
         /\ LockedCoins(more, t) <= LockedCoins(account, t) + amount
<1>0. PICK infos : infos = account.infos
  OBVIOUS
<1>1. infos \in Seq(VestingInfo) /\ Len(infos) \in Nat /\ DOMAIN infos = 1..Len(infos)
  BY <1>0 DEF Account
<1>2. PICK p : ArePartsOf(p, infos, account, t)
  BY <1>0, <1>1, LockedParts, Zenon
<1>3. /\ LockedCoins(account, t) = SumFunctionOnSet(p, DOMAIN infos)
      /\ LockedCoins(account, t) \in Nat
      /\ IsFiniteSet(DOMAIN infos)
      /\ \A i \in DOMAIN infos :
           infos[i] \in VestingInfo /\ p[i] = Unvested(infos[i], t) /\ p[i] \in Nat
  BY <1>2, Zenon DEF ArePartsOf
<1>4. CASE \E i \in DOMAIN infos : infos[i].start = start
  <2>1. PICK i \in DOMAIN infos :
          i = CHOOSE j \in DOMAIN infos : infos[j].start = start
    <3> DEFINE c == CHOOSE j \in DOMAIN infos : infos[j].start = start
    <3>1. c \in DOMAIN infos
      BY <1>4
    <3> QED
      BY <3>1, Zenon
  <2>2. PICK info : info = [infos[i] EXCEPT !.orig = @ + amount]
    BY Zenon
  <2>3. /\ info \in VestingInfo
        /\ Unvested(infos[i], t) <= Unvested(info, t)
        /\ Unvested(info, t) <= Unvested(infos[i], t) + amount
    BY <1>3, <2>1, <2>2, UnvestedGrows
  <2>4. PICK new : new = [infos EXCEPT ![i] = info]
    BY ZenonT(30)
  <2>5. /\ new \in Seq(VestingInfo) /\ DOMAIN new = DOMAIN infos
        /\ new[i] = info /\ \A j \in DOMAIN infos \ {i} : new[j] = infos[j]
    BY <1>1, <2>1, <2>3, <2>4, SMTT(30)
  <2>6. more = [account EXCEPT !.infos = new]
    BY <1>0, <1>4, <2>1, <2>2, <2>4, Zenon DEF AddToSchedules
  <2>7. more.infos = new
    BY <2>6 DEF Account
  <2>8. PICK q : ArePartsOf(q, new, more, t)
    BY <2>5, <2>7, LockedParts, Zenon
  <2>9. /\ LockedCoins(more, t) = SumFunctionOnSet(q, DOMAIN infos)
        /\ \A j \in DOMAIN infos : q[j] = Unvested(new[j], t) /\ q[j] \in Nat
    BY <2>5, <2>8, Zenon DEF ArePartsOf
  <2>10. PICK k \in 0..amount : Unvested(info, t) = Unvested(infos[i], t) + k
    <3>1. Unvested(infos[i], t) \in Nat /\ Unvested(info, t) \in Nat
      BY <1>3, <2>1, <2>5, <2>9
    <3>2. Unvested(info, t) - Unvested(infos[i], t) \in 0..amount
      BY <2>3, <3>1
    <3> QED
      BY <3>1, <3>2
  <2>11. PICK D : D = DOMAIN infos
    OBVIOUS
  <2>12. IsFiniteSet(D) /\ Adds(p, q, D, i, k)
    <3>1. IsFiniteSet(D) /\ i \in D
      BY <1>3, <2>1, <2>11, Zenon
    <3>2. \A j \in D : p[j] \in Int /\ q[j] \in Int
      BY ONLY <1>3, <2>9, <2>11, SMTT(30)
    <3>3. q[i] = p[i] + k
      BY <1>3, <2>1, <2>5, <2>9, <2>10, ZenonT(30)
    <3>4. \A j \in D \ {i} : q[j] = p[j]
      BY <1>3, <2>5, <2>9, <2>11
    <3> QED
      BY <3>1, <3>2, <3>3, <3>4 DEF Adds
  <2>13. SumFunctionOnSet(p, D) \in Int /\ SumFunctionOnSet(q, D) = SumFunctionOnSet(p, D) + k
    BY ONLY <2>12, SumUpdate
  <2> QED
    BY <1>3, <2>9, <2>10, <2>11, <2>13
<1>5. CASE ~\E i \in DOMAIN infos : infos[i].start = start
  <2>1. PICK info : info = [orig |-> amount, start |-> start, end |-> end]
    BY Zenon
  <2>2. info \in VestingInfo /\ info.orig = amount
    BY <2>1 DEF VestingInfo
  <2>3. PICK new, n : new = Append(infos, info) /\ n = Len(infos) + 1
    BY Zenon
  <2>4. /\ new \in Seq(VestingInfo) /\ DOMAIN new = (DOMAIN infos) \cup {n}
        /\ n \notin DOMAIN infos /\ new[n] = info
        /\ \A j \in DOMAIN infos : new[j] = infos[j]
    BY <1>1, <2>2, <2>3
  <2>5. more.infos = new
    BY <1>0, <1>5, <2>1, <2>3 DEF AddToSchedules
  <2>6. PICK q : ArePartsOf(q, new, more, t)
    BY <2>4, <2>5, LockedParts, Zenon
  <2>7. /\ LockedCoins(more, t) = SumFunctionOnSet(q, DOMAIN new)
        /\ IsFiniteSet(DOMAIN new)
        /\ \A j \in DOMAIN new : q[j] = Unvested(new[j], t) /\ q[j] \in Nat
    BY <2>6, Zenon DEF ArePartsOf
  <2>8. SumFunctionOnSet(q, (DOMAIN infos) \cup {n}) = q[n] + SumFunctionOnSet(q, DOMAIN infos)
    BY ONLY <2>4, <2>7, SumAdd, SMTT(30)
  <2>9. \A j \in DOMAIN infos : p[j] \in Int /\ q[j] = p[j]
    BY <1>3, <2>4, <2>7
  <2>10. SumFunctionOnSet(p, DOMAIN infos) = SumFunctionOnSet(q, DOMAIN infos)
    BY <1>3, <2>9, SumAgree
  <2>11. q[n] \in 0..amount
    BY <2>2, <2>4, <2>7, UnvestedType, Zenon
  <2> QED
    BY <1>3, <2>4, <2>7, <2>8, <2>10, <2>11
<1> QED
  BY <1>4, <1>5

(***************************************************************************)
(* From the accounts old to the accounts new, r locks at most amount more, *)
(* no other address locks more, and nothing that an Ethereum address owns  *)
(* is unlocked.                                                            *)
(***************************************************************************)
Locks(old, new, r, amount) ==
  \A a \in Holders, t \in Nat :
    /\ LockedCoins(old[a], t) \in Nat /\ LockedCoins(new[a], t) \in Nat
    /\ LockedCoins(new[a], t) <= LockedCoins(old[a], t) + (IF a = r THEN amount ELSE 0)
    /\ old[a].kind \in EthKinds => LockedCoins(old[a], t) <= LockedCoins(new[a], t)

(* What an account has locked is a number.                                 *)
LEMMA LockedType ==
  ASSUME NEW account \in Account, NEW t \in Nat
  PROVE  LockedCoins(account, t) \in Nat
<1>1. PICK infos : infos = account.infos
  OBVIOUS
<1>2. infos \in Seq(VestingInfo)
  BY <1>1 DEF Account
<1>3. PICK p : ArePartsOf(p, infos, account, t)
  BY <1>1, <1>2, LockedParts, Zenon
<1> QED
  BY <1>3, Zenon DEF ArePartsOf

(* One account changes.                                                    *)
LEMMA LocksOne ==
  ASSUME NEW old \in [Holders -> Account], NEW r \in Holders, NEW x \in Account,
         NEW amount \in Nat,
         \A t \in Nat :
           /\ LockedCoins(x, t) <= LockedCoins(old[r], t) + amount
           /\ old[r].kind \in EthKinds => LockedCoins(old[r], t) <= LockedCoins(x, t)
  PROVE  Locks(old, [old EXCEPT ![r] = x], r, amount)
<1>1. PICK new : new = [old EXCEPT ![r] = x]
  BY Zenon
<1>2. new[r] = x /\ \A a \in Holders \ {r} : new[a] = old[a]
  BY <1>1
<1>3. ASSUME NEW a \in Holders, NEW t \in Nat
      PROVE  /\ LockedCoins(old[a], t) \in Nat /\ LockedCoins(new[a], t) \in Nat
             /\ LockedCoins(new[a], t)
                  <= LockedCoins(old[a], t) + (IF a = r THEN amount ELSE 0)
             /\ old[a].kind \in EthKinds => LockedCoins(old[a], t) <= LockedCoins(new[a], t)
  <2>1. PICK k, l : k = LockedCoins(old[a], t) /\ l = LockedCoins(new[a], t)
    OBVIOUS
  <2>2. old[a] \in Account
    BY <1>3
  <2>3. k \in Nat
    BY <2>1, <2>2, LockedType
  <2>4. CASE a = r
    <3>1. l \in Nat
      BY <1>2, <2>1, <2>4, LockedType
    <3>2. l <= k + amount /\ (old[a].kind \in EthKinds => k <= l)
      BY <1>2, <2>1, <2>4
    <3> QED
      BY <2>1, <2>3, <2>4, <3>1, <3>2
  <2>5. CASE a # r
    <3>1. l = k
      BY <1>2, <2>1, <2>5
    <3> QED
      BY <2>1, <2>3, <2>5, <3>1
  <2> QED
    BY <2>4, <2>5
<1>4. Locks(old, new, r, amount)
  BY <1>3 DEF Locks
<1> QED
  BY <1>1, <1>4

(* A new account of the SDK locks nothing.                                 *)
LEMMA LocksSdk ==
  ASSUME NEW accounts, AllGood(accounts), NEW a \in Holders, accounts[a].kind = "none",
         NEW amount \in Nat
  PROVE  Locks(accounts, [accounts EXCEPT ![a].kind = "sdk"], a, amount)
<1>1. accounts \in [Holders -> Account] /\ accounts[a] \in Account /\ accounts[a].infos = <<>>
  BY DEF AllGood, GoodAccount
<1>2. PICK x : x = [kind |-> "sdk", infos |-> <<>>]
  BY Zenon
<1>3. [accounts[a] EXCEPT !.kind = "sdk"] = x
  BY <1>1, <1>2 DEF Account
<1>4. x \in Account /\ x.infos = <<>>
  BY <1>2, EmptyAccount DEF GoodAccount
<1>5. accounts[a].kind \notin EthKinds
  BY DEF EthKinds
<1>6. \A t \in Nat :
        /\ LockedCoins(x, t) <= LockedCoins(accounts[a], t) + amount
        /\ accounts[a].kind \in EthKinds => LockedCoins(accounts[a], t) <= LockedCoins(x, t)
  <2> SUFFICES ASSUME NEW t \in Nat
               PROVE  LockedCoins(x, t) <= LockedCoins(accounts[a], t) + amount
    BY <1>5
  <2>1. LockedCoins(x, t) = 0 /\ LockedCoins(accounts[a], t) = 0
    BY <1>1, <1>4, NothingLocked
  <2> QED
    BY <2>1
<1>7. Locks(accounts, [accounts EXCEPT ![a] = x], a, amount)
  BY <1>1, <1>4, <1>6, LocksOne, Zenon
<1> QED
  BY <1>3, <1>7, Zenon

(* Accounts that do not change lock nothing more.                          *)
LEMMA LocksNothing ==
  ASSUME NEW accounts, AllGood(accounts), NEW a, NEW amount \in Nat
  PROVE  Locks(accounts, accounts, a, amount)
<1>1. ASSUME NEW b \in Holders, NEW t \in Nat PROVE LockedCoins(accounts[b], t) \in Nat
  BY <1>1, LockedType DEF AllGood
<1> QED
  BY <1>1 DEF Locks

(* The account of a deposit locks its amount at most.                      *)
LEMMA GeneratedLocks ==
  ASSUME IInv, NEW e \in DepositEvent, e.depositor \in Holders, e.lockup \in Lockups,
         e.amount \in Amounts, NEW x, x = generateSequencerAccountFromEthereumDeposit(e),
         x # NoAccount
  PROVE  Locks(acc, [acc EXCEPT ![e.depositor] = x], e.depositor, e.amount)
<1>1. PICK old, account : old = acc[e.depositor] /\ account = normaliseExistingAccount(old)
  OBVIOUS
<1>2. PICK amount \in Nat : amount = e.amount
  BY AccountsAssumption, Zenon
<1>3. GoodAccount(old) /\ old \in Account /\ acc \in [Holders -> Account] /\ x \in Account
  BY <1>1, GeneratedAccount, ZenonT(30) DEF IInv, AllGood, GoodAccount
<1>4. account \in Account /\ account.kind \in EthKinds
      /\ (account = old \/ (account.infos = <<>> /\ old.kind \notin EthKinds))
  <2>1. CASE old.kind \in EthKinds
    BY <1>1, <1>3, <2>1 DEF normaliseExistingAccount
  <2>2. CASE old.kind \notin EthKinds
    <3>1. account = [kind |-> "ethBase", infos |-> <<>>]
      BY <1>1, <2>2 DEF normaliseExistingAccount
    <3> QED
      BY <2>2, <3>1, EmptyAccount DEF GoodAccount, EthKinds
  <2> QED
    BY <2>1, <2>2
<1>5. ASSUME NEW t \in Nat
      PROVE  /\ LockedCoins(account, t) \in Nat /\ LockedCoins(old, t) \in Nat
             /\ LockedCoins(account, t) <= LockedCoins(old, t)
             /\ old.kind \in EthKinds => LockedCoins(old, t) <= LockedCoins(account, t)
  <2>1. LockedCoins(account, t) \in Nat /\ LockedCoins(old, t) \in Nat
    BY <1>3, <1>4, LockedType
  <2>2. CASE account = old
    BY <2>1, <2>2
  <2>3. CASE account.infos = <<>> /\ old.kind \notin EthKinds
    <3>1. LockedCoins(account, t) = 0
      BY <2>3, NothingLocked
    <3> QED
      BY <2>1, <2>3, <3>1
  <2> QED
    BY ONLY <1>4, <2>2, <2>3, SMTT(30)
<1>6. ASSUME NEW t \in Nat
      PROVE  /\ LockedCoins(x, t) \in Nat
             /\ LockedCoins(account, t) <= LockedCoins(x, t)
             /\ LockedCoins(x, t) <= LockedCoins(account, t) + amount
  <2>0. LockedCoins(x, t) \in Nat /\ LockedCoins(account, t) \in Nat
    BY <1>3, <1>4, LockedType
  <2>1. PICK duration : duration = Duration(e.lockup)
    OBVIOUS
  <2>2. CASE ~(duration > 0)
    <3>1. x = account
      BY <1>1, <2>1, <2>2 DEF generateSequencerAccountFromEthereumDeposit
    <3> QED
      BY <2>0, <3>1
  <2>3. CASE duration > 0
    <3>1. PICK end : end = startTime + (duration \div Nanos)
      OBVIOUS
    <3>2. end \in Nat /\ startTime \in Nat
      BY <2>1, <2>3, <3>1, EndOfLockup, ZenonT(30) DEF IInv
    <3>3. x = AddVestingCoins(account, amount, startTime, end)
      BY <1>1, <1>2, <2>1, <2>3, <3>1, ZenonT(30) DEF generateSequencerAccountFromEthereumDeposit
    <3>4. CASE account.kind # "ethBase"
      <4>1. x = AddToSchedules(account, amount, startTime, end)
        BY <3>3, <3>4 DEF AddVestingCoins
      <4> QED
        BY <1>2, <1>4, <2>0, <3>2, <4>1, LockedAdds, ZenonT(30)
    <3>5. CASE account.kind = "ethBase"
      <4>1. PICK info : info = [orig |-> amount, start |-> startTime, end |-> end]
        BY Zenon
      <4>2. info \in VestingInfo /\ info.orig = amount
        BY ONLY <3>2, <4>1, SMTT(30) DEF VestingInfo
      <4>3. x.infos = <<info>>
        BY <3>3, <3>5, <4>1 DEF AddVestingCoins
      <4>4. account.infos = <<>>
        BY <1>1, <1>3, <3>5 DEF GoodAccount, normaliseExistingAccount
      <4>5. LockedCoins(account, t) = 0
        BY <4>4, NothingLocked, ZenonT(30)
      <4>6. LockedCoins(x, t) <= amount
        BY <4>2, <4>3, OneLocked
      <4> QED
        BY <2>0, <4>5, <4>6
    <3> QED
      BY <3>4, <3>5
  <2> QED
    BY <2>2, <2>3
<1>7. \A t \in Nat :
        /\ LockedCoins(x, t) <= LockedCoins(old, t) + amount
        /\ old.kind \in EthKinds => LockedCoins(old, t) <= LockedCoins(x, t)
  BY <1>5, <1>6
<1> QED
  BY <1>1, <1>2, <1>3, <1>7, LocksOne, Zenon

-----------------------------------------------------------------------------
(* Steps                                                                   *)

(* A deposit that is sent to its receiver leaves good accounts.            *)
LEMMA MintAndSendStep ==
  ASSUME NEW accounts, AllGood(accounts), NEW to \in Holders, NEW amount,
         MintAndSend(accounts, to, amount)
  PROVE  AllGood(acc')
BY CreateSdkAccount DEF MintAndSend

(* Every way out of the handler of a deposit.                              *)
LEMMA DepositStep ==
  ASSUME IInv, NEW e \in DepositEvent, DepositFromEthereum(e)
  PROVE  AllGood(acc')
<1>1. CASE Panics(e) # {}
  BY <1>1 DEF DepositFromEthereum, IInv
<1>2. CASE Panics(e) = {}
  <2>1. processDepositEvent(e)
    BY <1>2 DEF DepositFromEthereum
  <2>2. e.amount \in Amounts
    BY <1>2 DEF Panics, DepositEvent
  <2>3. CASE acc' = acc
    BY <2>3 DEF IInv
  <2>4. CASE acc' # acc
    <3>1. /\ e.lockup # Unreadable /\ e.depositor # Unreadable
          /\ ~IsAddressBlocked(e.depositor)
      BY <2>1, <2>4 DEF processDepositEvent, mintToGovernanceAddress
    <3>2. e.depositor \in Holders /\ e.depositor \notin Modules \cup Barred
          /\ e.lockup \in Lockups
      BY <3>1 DEF DepositEvent, IsAddressBlocked
    <3>3. CASE isRecipientOwnedByDepositor(e)
      <4>1. PICK account : account = generateSequencerAccountFromEthereumDeposit(e)
        BY ZenonT(30)
      <4>2. account # NoAccount
            /\ MintAndSend([acc EXCEPT ![e.depositor] = account], e.depositor, e.amount)
        BY <2>1, <2>4, <3>1, <3>3, <4>1 DEF processDepositEvent, mintToGovernanceAddress
      <4>3. GoodAccount(account)
        BY <2>2, <3>2, <4>1, <4>2, GeneratedAccount
      <4>4. AllGood([acc EXCEPT ![e.depositor] = account])
        BY <3>2, <4>3, SetAccount DEF IInv
      <4> QED
        BY <3>2, <4>2, <4>4, MintAndSendStep
    <3>4. CASE ~isRecipientOwnedByDepositor(e)
      <4>1. e.recipient # Unreadable /\ MintAndSend(acc, e.recipient, e.amount)
        BY <2>1, <2>4, <3>1, <3>4 DEF processDepositEvent, mintToGovernanceAddress
      <4>2. e.recipient \in Holders
        BY <3>4, <4>1 DEF DepositEvent, isRecipientOwnedByDepositor
      <4> QED
        BY <4>1, <4>2, MintAndSendStep, ZenonT(30) DEF IInv
    <3> QED
      BY <3>3, <3>4, ZenonT(30)
  <2> QED
    BY <2>3, <2>4
<1> QED
  BY <1>1, <1>2

(* The first accounts are good.                                            *)
LEMMA InitIInv == Init => IInv
<1> SUFFICES ASSUME Init PROVE IInv
  OBVIOUS
<1>1. startTime \in Nat /\ now \in Nat
  BY AccountsAssumption DEF Init
<1>2. PICK none : none = NoAccount
  OBVIOUS
<1>3. PICK sdk : sdk = [NoAccount EXCEPT !.kind = "sdk"]
  BY Zenon
<1>4. none = [kind |-> "none", infos |-> <<>>] /\ sdk = [kind |-> "sdk", infos |-> <<>>]
  BY <1>2, <1>3 DEF NoAccount
<1>5. GoodAccount(none) /\ GoodAccount(sdk)
  BY <1>4, EmptyAccount, ZenonT(30)
<1>6. none \in Account /\ sdk \in Account
      /\ none.kind \notin EthKinds /\ sdk.kind \notin EthKinds
  BY <1>4, <1>5 DEF GoodAccount, EthKinds
<1>7. acc = [a \in Holders |-> IF a \in Addrs THEN none ELSE sdk]
  BY <1>2, <1>3 DEF Init
<1>8. acc \in [Holders -> Account] /\ \A a \in Holders : acc[a] \in {none, sdk}
  BY <1>6, <1>7
<1>9. Modules \cup Barred \subseteq Holders
  BY AccountsAssumption DEF Holders
<1>10. \A a \in Holders : GoodAccount(acc[a])
  BY <1>5, <1>8
<1>11. \A a \in Modules \cup Barred : acc[a].kind \notin EthKinds
  BY <1>6, <1>8, <1>9, ZenonT(30)
<1> QED
  BY <1>1, <1>8, <1>10, <1>11 DEF IInv, AllGood

(* One step per action; only deposits, transfers and new accounts change   *)
(* an account.                                                             *)
LEMMA NextIInv ==
  ASSUME IInv, [Next]_vars
  PROVE  IInv'
<1> SUFFICES AllGood(acc') /\ startTime' \in Nat /\ now' \in Nat
  BY DEF IInv, AllGood
<1>1. ASSUME NEW e \in DepositEvent, DepositFromEthereum(e)
      PROVE  AllGood(acc') /\ startTime' \in Nat /\ now' \in Nat
  BY <1>1, DepositStep DEF IInv, DepositFromEthereum
<1>2. ASSUME NEW from \in Addrs, NEW to \in Addrs, NEW amount, Send(from, to, amount)
      PROVE  AllGood(acc') /\ startTime' \in Nat /\ now' \in Nat
  <2>1. to \in Holders
    BY DEF Holders
  <2> QED
    BY <1>2, <2>1, CreateSdkAccount DEF IInv, Send
<1>3. ASSUME NEW from \in Addrs, NEW to \in Addrs, NEW amount \in Amounts,
             NEW end \in 1..MaxTime, CreateVestingAccount(from, to, amount, end)
      PROVE  AllGood(acc') /\ startTime' \in Nat /\ now' \in Nat
  <2>1. PICK info : info = [orig |-> amount, start |-> now, end |-> end]
    BY Zenon
  <2>2. PICK x : x = [kind |-> "sdkVesting", infos |-> <<info>>]
    BY Zenon
  <2>3. info \in VestingInfo
    <3>1. amount \in Nat /\ now \in Nat /\ end \in Nat
      BY AccountsAssumption DEF IInv
    <3> QED
      BY ONLY <2>1, <3>1 DEF VestingInfo
  <2>4. GoodAccount(x) /\ x.kind \notin EthKinds
    BY <2>2, <2>3, OneSchedule, ZenonT(30) DEF EthKinds
  <2>5. acc' = [acc EXCEPT ![to] = x] /\ to \in Holders
    BY <1>3, <2>1, <2>2 DEF CreateVestingAccount, Holders
  <2>6. AllGood([acc EXCEPT ![to] = x])
    BY <2>4, <2>5, SetAccount, Zenon DEF IInv
  <2>7. startTime' = startTime /\ now' = now
    BY <1>3 DEF CreateVestingAccount
  <2> QED
    BY <2>5, <2>6, <2>7 DEF IInv
<1>4. ASSUME NEW a \in Addrs, NEW amount,
             Delegate(a, amount) \/ Undelegate(a, amount) \/ Withdraw(a, amount)
      PROVE  AllGood(acc') /\ startTime' \in Nat /\ now' \in Nat
  BY <1>4 DEF IInv, Delegate, Undelegate, Withdraw
<1>5. ASSUME NEW start \in StartTimes, UpdateParams(start)
      PROVE  AllGood(acc') /\ startTime' \in Nat /\ now' \in Nat
  BY <1>5, AccountsAssumption DEF IInv, UpdateParams
<1>6. CASE NextBlock
  BY <1>6 DEF IInv, NextBlock
<1>7. CASE UNCHANGED vars
  BY <1>7 DEF IInv, vars
<1> QED
  BY <1>1, <1>2, <1>3, <1>4, <1>5, <1>6, <1>7 DEF Next, Finished

(* Accounts are always good.                                               *)
LEMMA InvariantHolds == Spec => []IInv
<1>1. IInv /\ [Next]_vars => IInv'
  BY NextIInv
<1> QED
  BY <1>1, InitIInv, PTL DEF Spec

-----------------------------------------------------------------------------
(* Tokens                                                                  *)

(***************************************************************************)
(* The inductive invariant of the tokens, above that of the accounts: what *)
(* an account locks is bounded by its balance because no action takes more *)
(* than is spendable, and the balances are natural numbers because of it.  *)
(***************************************************************************)
TokensInv == TypeOK /\ LockedIsBacked /\ DepositsMintedOnce

(* From the balances f to the balances g that of r changes by k.           *)
Pays(f, g, S, r, k) == DOMAIN f = S /\ DOMAIN g = S /\ Adds(f, g, S, r, k)

(* A payment to one holder raises the sum by its amount.                   *)
LEMMA SumCredit ==
  ASSUME NEW S, IsFiniteSet(S), NEW f, NEW g, NEW r, NEW k, Pays(f, g, S, r, k)
  PROVE  SumFunction(f) \in Int /\ SumFunction(g) = SumFunction(f) + k
<1>1. SumFunction(f) = SumFunctionOnSet(f, S) /\ SumFunction(g) = SumFunctionOnSet(g, S)
  BY Zenon DEF SumFunction, Pays
<1>2. Adds(f, g, S, r, k)
  BY DEF Pays
<1> QED
  BY <1>1, <1>2, SumUpdate

(* There are finitely many holders.                                        *)
LEMMA FiniteHolders == IsFiniteSet(Holders) /\ IsFiniteSet(Addrs)
<1>1. IsFiniteSet(Addrs) /\ IsFiniteSet({Gov}) /\ IsFiniteSet({Bridge})
  BY AccountsAssumption, FS_Singleton, Zenon
<1>2. IsFiniteSet({Gov} \cup {Bridge})
  BY <1>1, FS_Union, Zenon
<1>3. Modules = {Gov} \cup {Bridge}
  BY ZenonT(30) DEF Modules
<1> QED
  BY <1>1, <1>2, <1>3, FS_Union, Zenon DEF Holders

(* What is spendable is not locked.                                        *)
LEMMA SpendableIsFree ==
  ASSUME IInv, TypeOK, NEW a \in Holders, NEW amount \in Amounts, amount <= Spendable(a)
  PROVE  /\ amount \in Nat /\ LockedCoins(acc[a], now) \in Nat
         /\ LockedCoins(acc[a], now) + amount <= bal[a]
<1>1. amount \in Nat \ {0}
  BY AccountsAssumption
<1>2. PICK l : l = LockedCoins(acc[a], now)
  OBVIOUS
<1>3. l \in Nat
  BY <1>2, LockedType DEF IInv, AllGood
<1>4. bal[a] \in Nat
  BY DEF TypeOK
<1>5. amount <= IF bal[a] - l < 0 THEN 0 ELSE bal[a] - l
  BY <1>2 DEF Spendable
<1> QED
  BY <1>1, <1>2, <1>3, <1>4, <1>5

(***************************************************************************)
(* A deposit that does not panic credits one account other than the        *)
(* bridge's, and locks its amount there at most.                           *)
(***************************************************************************)
Credits(r, amount) ==
  /\ bal' = [bal EXCEPT ![r] = bal[r] + amount]
  /\ offset' = offset - amount
  /\ Locks(acc, acc', r, amount)

(* Each path of a deposit pays its amount to one holder, who gets at most  *)
(* that locked.                                                            *)
LEMMA DepositCredits ==
  ASSUME IInv, NEW e \in DepositEvent, e.amount \in Amounts, processDepositEvent(e)
  PROVE  \E r \in Holders \ {Bridge} : Credits(r, e.amount)
<1>1. PICK amount \in Nat : amount = e.amount
  BY AccountsAssumption, Zenon
<1>2. Gov \in Holders \ {Bridge} /\ \A a \in Holders : a \notin Modules => a # Bridge
  BY AccountsAssumption DEF Holders, Modules
<1>3. AllGood(acc)
  BY DEF IInv
<1>4. CASE mintToGovernanceAddress(e.amount)
  <2>1. Locks(acc, acc, Gov, amount)
    BY <1>3, LocksNothing
  <2>2. Credits(Gov, e.amount)
    BY <1>1, <1>4, <2>1 DEF mintToGovernanceAddress, Credits
  <2> QED
    BY <1>2, <2>2
<1>5. CASE ~mintToGovernanceAddress(e.amount)
  <2>1. /\ e.lockup # Unreadable /\ e.depositor # Unreadable
        /\ ~IsAddressBlocked(e.depositor)
    BY <1>5 DEF processDepositEvent
  <2>2. e.depositor \in Holders /\ e.depositor \notin Modules /\ e.lockup \in Lockups
    BY <2>1 DEF DepositEvent, IsAddressBlocked
  <2>3. CASE isRecipientOwnedByDepositor(e)
    <3>1. PICK d, x : d = e.depositor /\ x = generateSequencerAccountFromEthereumDeposit(e)
      OBVIOUS
    <3>2. PICK accounts : accounts = [acc EXCEPT ![d] = x]
      BY Zenon
    <3>3. x # NoAccount /\ MintAndSend(accounts, d, e.amount)
      BY <1>5, <2>1, <2>3, <3>1, <3>2 DEF processDepositEvent
    <3>4. GoodAccount(x) /\ Locks(acc, accounts, d, e.amount)
      BY <2>2, <3>1, <3>2, <3>3, GeneratedAccount, GeneratedLocks, Zenon
    <3>5. x.kind # "none"
      BY <3>3, <3>4 DEF GoodAccount, Account, NoAccount
    <3>6. accounts[d] = x
      BY <1>3, <2>2, <3>1, <3>2 DEF AllGood
    <3>7. acc' = accounts
      BY <3>3, <3>5, <3>6 DEF MintAndSend
    <3>8. Credits(d, e.amount)
      BY <2>2, <3>1, <3>3, <3>4, <3>7 DEF MintAndSend, Credits
    <3> QED
      BY <1>2, <2>2, <3>1, <3>8
  <2>4. CASE ~isRecipientOwnedByDepositor(e)
    <3>1. PICK to : to = e.recipient
      BY ZenonT(30)
    <3>2. e.recipient # Unreadable /\ MintAndSend(acc, to, e.amount)
      BY <1>5, <2>1, <2>4, <3>1 DEF processDepositEvent
    <3>3. to \in Holders
      BY <2>4, <3>1, <3>2 DEF DepositEvent, isRecipientOwnedByDepositor
    <3>4. CASE to \in Modules
      <4>1. Locks(acc, acc, Gov, amount)
        BY <1>3, LocksNothing
      <4>2. Credits(Gov, e.amount)
        BY <1>1, <3>2, <3>4, <4>1 DEF MintAndSend, Credits
      <4> QED
        BY <1>2, <4>2
    <3>5. CASE to \notin Modules
      <4>1. Locks(acc, acc', to, amount)
        BY <1>3, <3>2, <3>3, <3>5, LocksNothing, LocksSdk DEF MintAndSend
      <4>2. Credits(to, e.amount)
        BY <1>1, <3>2, <3>5, <4>1 DEF MintAndSend, Credits
      <4> QED
        BY <1>2, <3>3, <3>5, <4>2
    <3> QED
      BY <3>4, <3>5
  <2> QED
    BY <2>3, <2>4
<1> QED
  BY <1>4, <1>5

(* The balances cover what a step locks.                                   *)
LEMMA StaysBacked ==
  ASSUME NEW r, NEW amount \in Nat, Locks(acc, acc', r, amount), now' = now, now \in Nat,
         \A a \in Holders :
           /\ bal'[a] \in Int
           /\ LockedCoins(acc[a], now) + (IF a = r THEN amount ELSE 0) <= bal'[a]
  PROVE  LockedIsBacked' /\ \A a \in Holders : bal'[a] \in Nat
<1>1. ASSUME NEW a \in Holders
      PROVE  LockedCoins(acc'[a], now) <= bal'[a] /\ bal'[a] \in Nat
  <2>1. /\ LockedCoins(acc[a], now) \in Nat /\ LockedCoins(acc'[a], now) \in Nat
        /\ LockedCoins(acc'[a], now)
             <= LockedCoins(acc[a], now) + (IF a = r THEN amount ELSE 0)
    BY DEF Locks
  <2>2. /\ bal'[a] \in Int
        /\ LockedCoins(acc[a], now) + (IF a = r THEN amount ELSE 0) <= bal'[a]
    OBVIOUS
  <2> QED
    BY ONLY <2>1, <2>2, amount \in Nat
<1>2. LockedIsBacked'
  BY <1>1 DEF LockedIsBacked
<1> QED
  BY <1>1, <1>2

(* The sum of the balances is a number.                                    *)
LEMMA BalanceSum ==
  ASSUME NEW f \in [Holders -> Nat]
  PROVE  SumFunction(f) \in Nat
<1>1. \A a \in Holders : f[a] \in Nat
  OBVIOUS
<1>2. SumFunctionOnSet(f, Holders) \in Nat
  BY <1>1, FiniteHolders, SumNat
<1> QED
  BY <1>2 DEF SumFunction

(* The sum of the delegations is a number.                                 *)
LEMMA DelegatedSum ==
  ASSUME TypeOK
  PROVE  SumFunction(del) \in Nat
<1>1. del \in [Addrs -> Nat]
  BY DEF TypeOK
<1>2. \A a \in Addrs : del[a] \in Nat
  BY <1>1
<1>3. SumFunctionOnSet(del, Addrs) \in Nat
  BY <1>2, FiniteHolders, SumNat
<1> QED
  BY <1>1, <1>3 DEF SumFunction

(* A deposit keeps tokens and locks together.                              *)
LEMMA DepositTokens ==
  ASSUME IInv, TokensInv, NEW e \in DepositEvent, DepositFromEthereum(e)
  PROVE  TokensInv'
<1>1. TypeOK /\ LockedIsBacked /\ DepositsMintedOnce /\ AllGood(acc') /\ acc' \in [Holders -> Account]
  BY DepositStep DEF TokensInv, AllGood
<1>2. deposits' \in 0..MaxDeposits /\ del' = del /\ startTime' = startTime /\ now' = now
      /\ updates' = updates
  BY <1>1, AccountsAssumption, SMTT(30) DEF DepositFromEthereum, TypeOK
<1>3. CASE Panics(e) # {}
  <2>1. failed' \subseteq {"amount", "lockup"}
    BY <1>1, <1>3, Zenon DEF DepositFromEthereum, Panics, TypeOK
  <2>2. acc' = acc /\ bal' = bal /\ offset' = offset /\ net' = net
    BY <1>3 DEF DepositFromEthereum
  <2> QED
    BY <1>1, <1>2, <2>1, <2>2, SMTT(30) DEF TokensInv, TypeOK, LockedIsBacked, DepositsMintedOnce
<1>4. CASE Panics(e) = {}
  <2>1. processDepositEvent(e) /\ net' = net + e.amount /\ failed' = failed
    BY <1>4 DEF DepositFromEthereum
  <2>2. e.amount \in Amounts
    BY <1>4 DEF Panics, DepositEvent
  <2>3. PICK amount \in Nat : amount = e.amount
    BY <2>2, AccountsAssumption, ZenonT(30)
  <2>4. PICK r \in Holders \ {Bridge} : Credits(r, amount)
    BY <2>1, <2>2, <2>3, DepositCredits, ZenonT(30)
  <2>5. bal \in [Holders -> Nat] /\ bal' = [bal EXCEPT ![r] = bal[r] + amount]
        /\ net \in Nat /\ offset \in Int /\ now \in Nat
    BY <1>1, <2>4, AccountsAssumption DEF TypeOK, Credits
  <2>6. bal' \in [Holders -> Nat] /\ bal'[Bridge] = bal[Bridge]
        /\ \A a \in Holders : bal'[a] = bal[a] + (IF a = r THEN amount ELSE 0)
    BY ONLY <2>3, <2>4, <2>5, SMTT(30) DEF Holders, Modules
  <2>7. LockedIsBacked'
    <3>1. \A a \in Holders :
            /\ bal'[a] \in Int
            /\ LockedCoins(acc[a], now) + (IF a = r THEN amount ELSE 0) <= bal'[a]
      <4> SUFFICES ASSUME NEW a \in Holders
                   PROVE  /\ bal'[a] \in Int
                          /\ LockedCoins(acc[a], now) + (IF a = r THEN amount ELSE 0) <= bal'[a]
        OBVIOUS
      <4>1. LockedCoins(acc[a], now) \in Nat
        BY <2>5, LockedType DEF IInv, AllGood
      <4>2. LockedCoins(acc[a], now) <= bal[a] /\ bal[a] \in Nat
        BY <1>1, <2>5, ZenonT(30) DEF LockedIsBacked
      <4>3. bal'[a] = bal[a] + (IF a = r THEN amount ELSE 0)
        BY <2>6
      <4> QED
        BY <2>3, <4>1, <4>2, <4>3
    <3>2. Locks(acc, acc', r, amount)
      BY <2>4 DEF Credits
    <3> QED
      BY <1>2, <2>3, <2>5, <3>1, <3>2, StaysBacked, ZenonT(30)
  <2>8. SumFunction(bal) \in Int /\ SumFunction(bal') = SumFunction(bal) + amount
    <3>1. Pays(bal, bal', Holders, r, amount)
      BY <2>3, <2>4, <2>5 DEF Pays, Adds
    <3> QED
      BY <3>1, FiniteHolders, SumCredit
  <2>9. SumFunction(bal') + SumFunction(del') = net' /\ offset' = -net'
    <3>1. SumFunction(bal) + SumFunction(del) = net /\ offset = -net
      BY <1>1 DEF DepositsMintedOnce
    <3>2. SumFunction(del) \in Int
      BY <1>1, DelegatedSum
    <3>3. offset' = offset - amount
      BY <2>4 DEF Credits
    <3> QED
      BY ONLY <1>2, <2>1, <2>3, <2>5, <2>8, <3>1, <3>2, <3>3, SMTT(30)
  <2>10. TypeOK'
    <3>1. net' \in Nat /\ offset' \in Int
      BY ONLY <2>1, <2>3, <2>5, <2>9, SMTT(30)
    <3> QED
      BY ONLY <1>1, <1>2, <2>1, <2>6, <3>1, SMTT(30) DEF TypeOK
  <2> QED
    BY <1>1, <2>6, <2>7, <2>9, <2>10 DEF TokensInv, DepositsMintedOnce
<1> QED
  BY <1>3, <1>4

(* A transfer, into an existing account or into a new one.                 *)
LEMMA TransferTokens ==
  ASSUME IInv, TokensInv, AllGood(acc'), NEW from \in Addrs, NEW to \in Addrs, from # to,
         NEW amount \in Amounts, amount <= Spendable(from),
         bal' = [bal EXCEPT ![from] = @ - amount, ![to] = @ + amount],
         Locks(acc, acc', to, amount),
         UNCHANGED <<del, offset, startTime, now, net, failed, deposits, updates>>
  PROVE  TokensInv'
<1>1. TypeOK /\ LockedIsBacked /\ DepositsMintedOnce /\ acc' \in [Holders -> Account]
  BY DEF TokensInv, AllGood
<1>2. from \in Holders /\ to \in Holders /\ Bridge \notin {from, to} /\ Bridge \in Holders
  BY AccountsAssumption DEF Holders, Modules
<1>3. /\ amount \in Nat /\ LockedCoins(acc[from], now) \in Nat
      /\ LockedCoins(acc[from], now) + amount <= bal[from]
  BY <1>1, <1>2, SpendableIsFree, ZenonT(30)
<1>4. bal \in [Holders -> Nat] /\ net \in Nat /\ now \in Nat
  BY ONLY <1>1, AccountsAssumption, SMTT(30) DEF TypeOK
<1>7. /\ bal' \in [Holders -> Int]
      /\ bal'[from] = bal[from] - amount /\ bal'[to] = bal[to] + amount
      /\ \A a \in Holders \ {from, to} : bal'[a] = bal[a]
  BY <1>2, <1>3, <1>4, SMTT(30)
<1>8. LockedIsBacked' /\ \A a \in Holders : bal'[a] \in Nat
  <2>1. \A a \in Holders :
          /\ bal'[a] \in Int
          /\ LockedCoins(acc[a], now) + (IF a = to THEN amount ELSE 0) <= bal'[a]
    <3> SUFFICES ASSUME NEW a \in Holders
                 PROVE  /\ bal'[a] \in Int
                        /\ LockedCoins(acc[a], now) + (IF a = to THEN amount ELSE 0) <= bal'[a]
      BY Zenon
    <3>1. LockedCoins(acc[a], now) \in Nat
      BY <1>4, LockedType DEF IInv, AllGood
    <3>2. LockedCoins(acc[a], now) <= bal[a] /\ bal[a] \in Nat /\ bal'[a] \in Int
      BY <1>1, <1>4, <1>7, ZenonT(30) DEF LockedIsBacked
    <3>3. CASE a = to
      BY ONLY <1>3, <1>7, <3>1, <3>2, <3>3, SMTT(30)
    <3>4. CASE a = from
      BY ONLY <1>3, <1>7, <3>1, <3>2, <3>4, SMTT(30)
    <3>5. CASE a # from /\ a # to
      BY ONLY <1>7, <3>1, <3>2, <3>5, SMTT(30)
    <3> QED
      BY <3>3, <3>4, <3>5
  <2>2. now' = now
    BY ZenonT(30)
  <2> QED
    BY <1>3, <1>4, <2>1, <2>2, StaysBacked, ZenonT(30)
<1>9. SumFunction(bal') = SumFunction(bal)
  <2>1. PICK mid : mid = [bal EXCEPT ![from] = bal[from] - amount]
    BY Zenon
  <2>2. /\ mid \in [Holders -> Int] /\ mid[from] = bal[from] - amount
        /\ \A a \in Holders \ {from} : mid[a] = bal[a]
    BY ONLY <1>2, <1>3, <1>4, <2>1, SMTT(30)
  <2>3. Pays(bal, mid, Holders, from, -amount)
    BY ONLY <1>2, <1>3, <1>4, <2>2, SMTT(30) DEF Pays, Adds
  <2>4. Pays(mid, bal', Holders, to, amount)
    BY ONLY <1>2, <1>3, <1>4, <1>7, <2>2, SMTT(30) DEF Pays, Adds
  <2>5. SumFunction(bal) \in Int /\ SumFunction(mid) = SumFunction(bal) + (-amount)
    BY ONLY <2>3, FiniteHolders, SumCredit, SMTT(30)
  <2>6. SumFunction(bal') = SumFunction(mid) + amount
    BY ONLY <2>4, FiniteHolders, SumCredit, SMTT(30)
  <2> QED
    BY <1>3, <2>5, <2>6
<1>10. bal' \in [Holders -> Nat]
  BY <1>7, <1>8, ZenonT(30)
<1>11. TypeOK'
  BY <1>1, <1>10, ZenonT(30) DEF TypeOK
<1>12. DepositsMintedOnce'
  BY <1>1, <1>2, <1>7, <1>9, ZenonT(30) DEF DepositsMintedOnce
<1> QED
  BY <1>8, <1>11, <1>12 DEF TokensInv

(* One balance changes by k: tokens are delegated, undelegated or burned.  *)
LEMMA BalanceTokens ==
  ASSUME IInv, TokensInv, NEW a \in Addrs, NEW k \in Int,
         LockedCoins(acc[a], now) <= bal[a] + k,
         bal' = [bal EXCEPT ![a] = bal[a] + k],
         UNCHANGED <<acc, now>>
  PROVE  /\ LockedIsBacked' /\ bal' \in [Holders -> Nat] /\ bal'[Bridge] = bal[Bridge]
         /\ SumFunction(bal) \in Int /\ SumFunction(bal') = SumFunction(bal) + k
<1>1. bal \in [Holders -> Nat] /\ now \in Nat /\ LockedIsBacked
  BY AccountsAssumption DEF TokensInv, TypeOK
<1>2. a \in Holders /\ a # Bridge /\ Bridge \in Holders
  BY AccountsAssumption DEF Holders, Modules
<1>3. bal' \in [Holders -> Int] /\ bal'[a] = bal[a] + k
      /\ \A b \in Holders \ {a} : bal'[b] = bal[b]
  BY <1>1, <1>2
<1>4. LockedIsBacked' /\ \A b \in Holders : bal'[b] \in Nat
  <2>1. Locks(acc, acc', a, 0)
    BY LocksNothing DEF IInv
  <2>2. \A b \in Holders :
          /\ bal'[b] \in Int
          /\ LockedCoins(acc[b], now) + (IF b = a THEN 0 ELSE 0) <= bal'[b]
    <3> SUFFICES ASSUME NEW b \in Holders
                 PROVE  bal'[b] \in Int /\ LockedCoins(acc[b], now) + 0 <= bal'[b]
      OBVIOUS
    <3>1. LockedCoins(acc[b], now) \in Nat
      BY <1>1, LockedType DEF IInv, AllGood
    <3>2. LockedCoins(acc[b], now) <= bal[b]
      BY <1>1 DEF LockedIsBacked
    <3> QED
      BY <1>3, <3>1, <3>2
  <2> QED
    BY <1>1, <2>1, <2>2, StaysBacked
<1>5. bal' \in [Holders -> Nat]
  BY <1>3, <1>4
<1>6. SumFunction(bal) \in Int /\ SumFunction(bal') = SumFunction(bal) + k
  <2>1. Pays(bal, bal', Holders, a, k)
    BY <1>1, <1>2, <1>3 DEF Pays, Adds
  <2> QED
    BY <2>1, FiniteHolders, SumCredit
<1> QED
  BY <1>2, <1>3, <1>4, <1>5, <1>6, ZenonT(30)

(* So do delegating and undelegating.                                      *)
LEMMA DelegateTokens ==
  ASSUME IInv, TokensInv, NEW a \in Addrs, NEW amount \in Amounts,
         Delegate(a, amount) \/ Undelegate(a, amount)
  PROVE  TokensInv'
<1>1. TypeOK /\ LockedIsBacked /\ DepositsMintedOnce
  BY DEF TokensInv
<1>2. /\ amount \in Nat /\ a \in Holders /\ bal \in [Holders -> Nat] /\ del \in [Addrs -> Nat]
      /\ bal[a] \in Nat /\ del[a] \in Nat
      /\ LockedCoins(acc[a], now) \in Nat /\ LockedCoins(acc[a], now) <= bal[a]
  <2>1. amount \in Nat /\ a \in Holders /\ now \in Nat
    BY AccountsAssumption DEF Holders, IInv
  <2>2. LockedCoins(acc[a], now) \in Nat
    BY <2>1, LockedType DEF IInv, AllGood
  <2> QED
    BY <1>1, <2>1, <2>2 DEF TypeOK, LockedIsBacked
<1>3. PICK k \in Int : /\ bal' = [bal EXCEPT ![a] = bal[a] + k]
                       /\ del' = [del EXCEPT ![a] = del[a] - k]
                       /\ LockedCoins(acc[a], now) <= bal[a] + k /\ 0 <= del[a] - k
  <2>1. CASE Delegate(a, amount)
    <3>1. LockedCoins(acc[a], now) + amount <= bal[a]
      BY <1>1, <1>2, <2>1, SpendableIsFree DEF Delegate
    <3>2. bal[a] - amount = bal[a] + (-amount) /\ del[a] + amount = del[a] - (-amount)
      BY <1>2
    <3>3. bal' = [bal EXCEPT ![a] = bal[a] - amount] /\ del' = [del EXCEPT ![a] = del[a] + amount]
      BY <2>1 DEF Delegate
    <3>4. -amount \in Int /\ LockedCoins(acc[a], now) <= bal[a] + (-amount)
          /\ 0 <= del[a] - (-amount)
      BY <1>2, <3>1
    <3> QED
      BY <3>2, <3>3, <3>4, Zenon
  <2>2. CASE Undelegate(a, amount)
    <3>1. amount \in Int /\ LockedCoins(acc[a], now) <= bal[a] + amount /\ 0 <= del[a] - amount
      BY <1>2, <2>2 DEF Undelegate
    <3>2. bal' = [bal EXCEPT ![a] = bal[a] + amount] /\ del' = [del EXCEPT ![a] = del[a] - amount]
      BY <2>2 DEF Undelegate
    <3> QED
      BY <3>1, <3>2, Zenon
  <2> QED
    BY <2>1, <2>2
<1>4. UNCHANGED <<acc, offset, startTime, now, net, failed, deposits, updates>>
  BY DEF Delegate, Undelegate
<1>5. /\ LockedIsBacked' /\ bal' \in [Holders -> Nat] /\ bal'[Bridge] = bal[Bridge]
      /\ SumFunction(bal) \in Int /\ SumFunction(bal') = SumFunction(bal) + k
  BY <1>3, <1>4, BalanceTokens, ZenonT(30)
<1>6. del' \in [Addrs -> Nat] /\ Pays(del, del', Addrs, a, -k)
  BY <1>2, <1>3 DEF Pays, Adds
<1>7. SumFunction(del) \in Int /\ SumFunction(del') = SumFunction(del) + (-k)
  BY ONLY <1>6, FiniteHolders, SumCredit, SMTT(30)
<1>8. DepositsMintedOnce'
  BY ONLY <1>1, <1>3, <1>4, <1>5, <1>7, SMTT(30) DEF DepositsMintedOnce
<1>9. TypeOK'
  BY <1>1, <1>4, <1>5, <1>6, ZenonT(30) DEF TypeOK
<1> QED
  BY <1>5, <1>8, <1>9 DEF TokensInv

(* So does a withdrawal.                                                   *)
LEMMA WithdrawTokens ==
  ASSUME IInv, TokensInv, NEW a \in Addrs, NEW amount \in Amounts, Withdraw(a, amount)
  PROVE  TokensInv'
<1>1. TypeOK /\ LockedIsBacked /\ DepositsMintedOnce
  BY DEF TokensInv
<1>2. a \in Holders
  BY ONLY SMTT(30) DEF Holders
<1>3. /\ amount \in Nat /\ LockedCoins(acc[a], now) \in Nat /\ bal[a] \in Nat
      /\ LockedCoins(acc[a], now) + amount <= bal[a]
  BY <1>1, <1>2, SpendableIsFree DEF Withdraw, TypeOK
<1>4. PICK k \in Int : k = -amount
  BY ONLY <1>3, SMTT(30)
<1>5. bal[a] - amount = bal[a] + k /\ LockedCoins(acc[a], now) <= bal[a] + k
  BY <1>3, <1>4
<1>6. bal' = [bal EXCEPT ![a] = bal[a] + k]
  <2>1. bal' = [bal EXCEPT ![a] = bal[a] - amount]
    BY DEF Withdraw
  <2> QED
    BY <1>5, <2>1, Zenon
<1>7. UNCHANGED <<acc, del, startTime, now, failed, deposits, updates>>
      /\ offset' = offset + amount /\ net' = net - amount
  BY DEF Withdraw
<1>8. /\ LockedIsBacked' /\ bal' \in [Holders -> Nat] /\ bal'[Bridge] = bal[Bridge]
      /\ SumFunction(bal) \in Int /\ SumFunction(bal') = SumFunction(bal) + k
  BY <1>5, <1>6, <1>7, BalanceTokens, ZenonT(30)
<1>9. SumFunction(del) \in Nat /\ net \in Nat /\ offset = -net
      /\ SumFunction(bal) + SumFunction(del) = net /\ bal[Bridge] = 0
  BY <1>1, DelegatedSum DEF TypeOK, DepositsMintedOnce
<1>10. SumFunction(bal') \in Nat
  BY <1>8, BalanceSum
<1>11. SumFunction(bal') + SumFunction(del') = net' /\ offset' = -net'
       /\ net' \in Nat /\ offset' \in Int
  BY ONLY <1>3, <1>4, <1>7, <1>8, <1>9, <1>10, SMTT(30)
<1>12. TypeOK'
  BY <1>1, <1>7, <1>8, <1>11 DEF TypeOK
<1> QED
  BY <1>8, <1>9, <1>11, <1>12 DEF TokensInv, DepositsMintedOnce

(* There are no tokens and no locks at first.                              *)
LEMMA InitTokens == Init => TokensInv
<1> SUFFICES ASSUME Init PROVE TokensInv
  OBVIOUS
<1>1. AllGood(acc) /\ acc \in [Holders -> Account] /\ now = 0
  BY InitIInv DEF IInv, AllGood, Init
<1>2. bal = [a \in Holders |-> 0] /\ del = [a \in Addrs |-> 0]
  BY DEF Init
<1>3. /\ DOMAIN bal = Holders /\ DOMAIN del = Addrs /\ Bridge \in Holders
      /\ \A a \in Holders : bal[a] = 0
      /\ \A a \in Addrs : del[a] = 0
  BY <1>2 DEF Holders, Modules
<1>4. TypeOK
  BY <1>1, <1>2, AccountsAssumption, SMTT(30) DEF Init, TypeOK
<1>5. SumFunction(bal) = 0 /\ SumFunction(del) = 0
  <2>1. SumFunctionOnSet(bal, Holders) = 0 /\ SumFunctionOnSet(del, Addrs) = 0
    BY <1>3, FiniteHolders, SumZero
  <2> QED
    BY <1>3, <2>1 DEF SumFunction
<1>6. DepositsMintedOnce
  <2>1. bal[Bridge] = 0 /\ net = 0 /\ offset = 0
    BY <1>3 DEF Init
  <2>2. SumFunction(bal) + SumFunction(del) = net
    BY ONLY <1>5, <2>1
  <2>3. offset = -net
    <3>1. \A x, y \in Int : x + y = 0 => x = -y
      OBVIOUS
    <3>2. offset \in Int /\ net \in Int /\ offset + net = 0
      BY ONLY <2>1
    <3> QED
      BY ONLY <3>1, <3>2, Zenon
  <2> QED
    BY ONLY <2>1, <2>2, <2>3, Zenon DEF DepositsMintedOnce
<1>7. ASSUME NEW a \in Holders PROVE LockedCoins(acc[a], now) <= bal[a]
  <2>1. acc[a].infos = <<>>
    BY <1>7 DEF Init, NoAccount
  <2>2. LockedCoins(acc[a], 0) = 0
    BY <2>1, NothingLocked
  <2> QED
    BY <1>1, <1>3, <1>7, <2>2
<1> QED
  BY <1>4, <1>6, <1>7 DEF TokensInv, LockedIsBacked

(* A transfer and a new vesting account lock their amount at most.         *)
LEMMA SendLocks ==
  ASSUME IInv, NEW from, NEW to \in Addrs, NEW amount \in Amounts, Send(from, to, amount)
  PROVE  Locks(acc, acc', to, amount)
<1>1. to \in Holders /\ amount \in Nat /\ AllGood(acc)
  BY AccountsAssumption DEF Holders, IInv
<1> QED
  BY <1>1, LocksNothing, LocksSdk DEF Send

(* An SDK vesting account locks at most what is sent to it.                *)
LEMMA CreateLocks ==
  ASSUME IInv, NEW from, NEW to \in Addrs, NEW amount \in Amounts, NEW end \in 1..MaxTime,
         CreateVestingAccount(from, to, amount, end)
  PROVE  Locks(acc, acc', to, amount)
<1>1. to \in Holders /\ amount \in Nat /\ now \in Nat /\ end \in Nat
      /\ acc \in [Holders -> Account]
  BY AccountsAssumption DEF Holders, IInv, AllGood
<1>2. PICK info : info = [orig |-> amount, start |-> now, end |-> end]
  BY Zenon
<1>3. info \in VestingInfo /\ info.orig = amount
  BY <1>1, <1>2 DEF VestingInfo
<1>4. PICK x : x = [kind |-> "sdkVesting", infos |-> <<info>>]
  BY Zenon
<1>5. x \in Account /\ x.infos = <<info>>
  BY <1>3, <1>4, OneSchedule, ZenonT(30) DEF GoodAccount
<1>6. acc' = [acc EXCEPT ![to] = x] /\ acc[to].kind = "none"
  BY <1>2, <1>4 DEF CreateVestingAccount
<1>7. acc[to] \in Account /\ acc[to].kind \notin EthKinds
  BY <1>1, <1>6 DEF EthKinds
<1>8. \A t \in Nat :
        /\ LockedCoins(x, t) <= LockedCoins(acc[to], t) + amount
        /\ acc[to].kind \in EthKinds => LockedCoins(acc[to], t) <= LockedCoins(x, t)
  <2> SUFFICES ASSUME NEW t \in Nat
               PROVE  LockedCoins(x, t) <= LockedCoins(acc[to], t) + amount
    BY <1>7
  <2>1. LockedCoins(x, t) \in Nat /\ LockedCoins(x, t) <= amount
    BY <1>3, <1>5, OneLocked
  <2>2. LockedCoins(acc[to], t) \in Nat
    BY <1>7, LockedType, SMTT(30)
  <2> QED
    BY <1>1, <2>1, <2>2
<1>9. Locks(acc, [acc EXCEPT ![to] = x], to, amount)
  BY <1>1, <1>5, <1>8, LocksOne, Zenon
<1> QED
  BY ONLY <1>6, <1>9, SMTT(30)

(* One step per action.                                                    *)
LEMMA NextTokens ==
  ASSUME IInv, TokensInv, [Next]_vars
  PROVE  TokensInv'
<1>0. AllGood(acc')
  BY NextIInv DEF IInv, AllGood
<1>1. ASSUME NEW e \in DepositEvent, DepositFromEthereum(e) PROVE TokensInv'
  BY <1>1, DepositTokens
<1>2. ASSUME NEW from \in Addrs, NEW to \in Addrs, NEW amount \in Amounts,
             Send(from, to, amount)
      PROVE  TokensInv'
  <2>1. Locks(acc, acc', to, amount)
    BY <1>2, SendLocks
  <2> QED
    BY <1>0, <1>2, <2>1, TransferTokens, Zenon DEF Send
<1>3. ASSUME NEW from \in Addrs, NEW to \in Addrs, NEW amount \in Amounts,
             NEW end \in 1..MaxTime, CreateVestingAccount(from, to, amount, end)
      PROVE  TokensInv'
  <2>1. Locks(acc, acc', to, amount)
    BY <1>3, CreateLocks
  <2> QED
    BY <1>0, <1>3, <2>1, TransferTokens, Zenon DEF CreateVestingAccount
<1>4. ASSUME NEW a \in Addrs, NEW amount \in Amounts,
             Delegate(a, amount) \/ Undelegate(a, amount)
      PROVE  TokensInv'
  BY <1>4, DelegateTokens
<1>5. ASSUME NEW a \in Addrs, NEW amount \in Amounts, Withdraw(a, amount) PROVE TokensInv'
  BY <1>5, WithdrawTokens, ZenonT(30)
<1>6. ASSUME NEW start \in StartTimes, UpdateParams(start) PROVE TokensInv'
  <2>1. /\ startTime' \in StartTimes /\ updates' \in 0..MaxUpdates
        /\ UNCHANGED <<acc, bal, del, offset, now, net, failed, deposits>>
    BY <1>6, AccountsAssumption DEF UpdateParams, TokensInv, TypeOK
  <2> QED
    BY <2>1 DEF TokensInv, TypeOK, LockedIsBacked, DepositsMintedOnce
<1>7. CASE NextBlock
  <2>1. /\ now' = now + 1 /\ now' \in 0..MaxTime
        /\ UNCHANGED <<acc, bal, del, offset, startTime, net, failed, deposits, updates>>
    BY <1>7, AccountsAssumption, SMTT(30) DEF NextBlock, TokensInv, TypeOK
  <2>2. ASSUME NEW a \in Holders PROVE LockedCoins(acc[a], now + 1) <= bal[a]
    <3>1. acc[a] \in Account /\ now \in Nat /\ now + 1 \in Nat /\ bal[a] \in Nat
      BY <2>2 DEF IInv, AllGood, TokensInv, TypeOK
    <3>2. LockedCoins(acc[a], now) \in Nat /\ LockedCoins(acc[a], now + 1) \in Nat
      BY ONLY <3>1, LockedType, SMTT(30)
    <3>3. LockedCoins(acc[a], now + 1) <= LockedCoins(acc[a], now)
      <4>1. now <= now + 1
        BY <3>1
      <4> QED
        BY <3>1, <4>1, LockedFalls
    <3>4. LockedCoins(acc[a], now) <= bal[a]
      BY <2>2 DEF TokensInv, LockedIsBacked
    <3> QED
      BY ONLY <3>1, <3>2, <3>3, <3>4, SMTT(30)
  <2>3. LockedIsBacked'
    BY <2>1, <2>2, ZenonT(30) DEF LockedIsBacked
  <2> QED
    BY <2>1, <2>3, ZenonT(30) DEF TokensInv, TypeOK, DepositsMintedOnce
<1>8. CASE UNCHANGED vars
  BY <1>8 DEF vars, TokensInv, TypeOK, LockedIsBacked, DepositsMintedOnce
<1> QED
  BY <1>1, <1>2, <1>3, <1>4, <1>5, <1>6, <1>7, <1>8, ZenonT(30) DEF Next, Finished

(* Tokens and locks are always together.                                   *)
LEMMA TokensHold == Spec => []TokensInv
<1>1. IInv /\ TokensInv /\ [Next]_vars => TokensInv'
  BY NextTokens
<1> QED
  BY <1>1, InitTokens, InvariantHolds, PTL DEF Spec

(***************************************************************************)
(* No sequence of deposits, transfers and changes of parameters makes the  *)
(* account of a module or of a barred address one that an Ethereum address *)
(* owns (IsAddressBlocked, processDepositEvent).                           *)
(***************************************************************************)
THEOREM BlockedNeverOwned == Spec => []BlockedAreNotOwned
<1>1. IInv => BlockedAreNotOwned
  BY DEF IInv, AllGood, BlockedAreNotOwned
<1> QED
  BY <1>1, InvariantHolds, PTL

(***************************************************************************)
(* The schedules of an account always start at different times, and their  *)
(* number fits the type of the account, however often a deposit converts   *)
(* it and governance moves the vesting start (AddVestingCoins).            *)
(***************************************************************************)
THEOREM SchedulesAlwaysDistinct == Spec => []SchedulesHaveDistinctStarts
<1>1. IInv => SchedulesHaveDistinctStarts
  BY DEF IInv, AllGood, GoodAccount, SchedulesHaveDistinctStarts
<1> QED
  BY <1>1, InvariantHolds, PTL

(***************************************************************************)
(* Every variable keeps its type: no sequence of transfers, delegations,   *)
(* withdrawals and deposits makes a balance negative.                      *)
(***************************************************************************)
THEOREM AccountsTypeCorrect == Spec => []TypeOK
<1>1. TokensInv => TypeOK
  BY DEF TokensInv
<1> QED
  BY <1>1, TokensHold, PTL

(***************************************************************************)
(* What the schedules of an account lock is always in its balance, for     *)
(* every precision of the decimals and every way they round: a deposit     *)
(* locks what it brings at most, time only unlocks, and nothing that is    *)
(* locked is sent, delegated or withdrawn (processDepositEvent,            *)
(* TrackDelegation).                                                       *)
(***************************************************************************)
THEOREM LockedAlwaysBacked == Spec => []LockedIsBacked
<1>1. TokensInv => LockedIsBacked
  BY DEF TokensInv
<1> QED
  BY <1>1, TokensHold, PTL

(***************************************************************************)
(* The balances and the delegations add up to what was deposited less what *)
(* was withdrawn, whichever way the handler of a deposit leaves; nothing   *)
(* stays with the bridge, and the offset of the supply delta follows.      *)
(***************************************************************************)
THEOREM DepositsAlwaysMintedOnce == Spec => []DepositsMintedOnce
<1>1. TokensInv => DepositsMintedOnce
  BY DEF TokensInv
<1> QED
  BY <1>1, TokensHold, PTL

(***************************************************************************)
(* No step but the passing of time makes tokens of an account that an      *)
(* Ethereum address owns spendable earlier: when a deposit goes into an    *)
(* existing schedule, rounding the part of the larger sum that has vested  *)
(* never frees more than the deposit itself (AddVestingCoins,              *)
(* GetVestedCoins).                                                        *)
(***************************************************************************)
THEOREM NothingUnlocksEarly == Spec => OnlyTimeUnlocks
<1> DEFINE Kept == \A a \in Holders :
             acc[a].kind \in EthKinds =>
               \A t \in now..MaxTime : LockedCoins(acc'[a], t) >= LockedCoins(acc[a], t)
<1>1. ASSUME IInv, TokensInv, Next PROVE Kept
  <2>1. now \in Nat /\ AllGood(acc) /\ MaxTime \in Nat
    BY <1>1, AccountsAssumption, ZenonT(30) DEF IInv
  <2>2. ASSUME NEW r, NEW amount, Locks(acc, acc', r, amount) PROVE Kept
    <3> SUFFICES ASSUME NEW a \in Holders, acc[a].kind \in EthKinds, NEW t \in now..MaxTime
                 PROVE  LockedCoins(acc'[a], t) >= LockedCoins(acc[a], t)
      OBVIOUS
    <3>1. t \in Nat
      BY ONLY <2>1, SMTT(30)
    <3>2. /\ LockedCoins(acc[a], t) \in Nat /\ LockedCoins(acc'[a], t) \in Nat
          /\ LockedCoins(acc[a], t) <= LockedCoins(acc'[a], t)
      BY <2>2, <3>1, ZenonT(30) DEF Locks
    <3> QED
      BY <3>2
  <2>3. CASE acc' = acc
    <3>1. Locks(acc, acc', Gov, 0)
      BY <2>1, <2>3, LocksNothing, ZenonT(30)
    <3> QED
      BY <2>2, <3>1
  <2>4. ASSUME NEW e \in DepositEvent, DepositFromEthereum(e) PROVE Kept
    <3>1. CASE Panics(e) # {}
      BY <2>3, <2>4, <3>1, ZenonT(30) DEF DepositFromEthereum
    <3>2. CASE Panics(e) = {}
      <4>1. processDepositEvent(e) /\ e.amount \in Amounts
        BY <2>4, <3>2 DEF DepositFromEthereum, Panics, DepositEvent
      <4>2. PICK r : Credits(r, e.amount)
        BY <1>1, <2>4, <4>1, DepositCredits, ZenonT(30)
      <4> QED
        BY <2>2, <4>2, ZenonT(30) DEF Credits
    <3> QED
      BY ONLY <3>1, <3>2, SMTT(30)
  <2>5. ASSUME NEW from \in Addrs, NEW to \in Addrs, NEW amount \in Amounts,
               Send(from, to, amount)
        PROVE  Kept
    BY <1>1, <2>2, <2>5, SendLocks, ZenonT(30)
  <2>6. ASSUME NEW from \in Addrs, NEW to \in Addrs, NEW amount \in Amounts,
               NEW end \in 1..MaxTime, CreateVestingAccount(from, to, amount, end)
        PROVE  Kept
    BY <1>1, <2>2, <2>6, CreateLocks, ZenonT(30)
  <2>7. CASE \/ \E a \in Addrs, amount \in Amounts : Delegate(a, amount)
             \/ \E a \in Addrs, amount \in Amounts : Undelegate(a, amount)
             \/ \E a \in Addrs, amount \in Amounts : Withdraw(a, amount)
             \/ \E start \in StartTimes : UpdateParams(start)
             \/ NextBlock \/ Finished
    <3>1. acc' = acc
      BY <2>7 DEF Delegate, Undelegate, Withdraw, UpdateParams, NextBlock, Finished, vars
    <3> QED
      BY <2>3, <3>1, ZenonT(30)
  <2> QED
    BY <1>1, <2>4, <2>5, <2>6, <2>7, Zenon DEF Next
<1>2. IInv /\ TokensInv /\ [Next]_vars => [Kept]_vars
  BY <1>1
<1> QED
  BY <1>2, InvariantHolds, TokensHold, PTL DEF Spec, OnlyTimeUnlocks
=============================================================================
