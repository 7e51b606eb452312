--------------------------- MODULE ProposalProofs ---------------------------
(***************************************************************************)
(* Proofs about the proposals that PrepareProposal makes, for every        *)
(* mempool, answer of the sidecar and value of the parameters: they fit    *)
(* the block, they leave the native transactions their share, and          *)
(* ProcessProposal accepts them.                                           *)
(***************************************************************************)
EXTENDS BlockProduction, FoldFacts

-----------------------------------------------------------------------------
(* Bytes and gas                                                           *)

(* The size and the gas of a transaction.                                  *)
LEMMA TxTypes ==
  ASSUME NEW tx \in Tx
  PROVE  /\ tx.kind \in {"index", "delta", "event", "native"}
         /\ TxSize(tx) \in Nat /\ GetGas(tx) \in Nat
         /\ tx.kind # "native" => GetGas(tx) = 0
         /\ tx.kind = "native" => TxSize(tx) = tx.size /\ GetGas(tx) = tx.gas
<1>0. IndexTxSize \in Nat /\ DeltaTxSize \in Nat
  BY ParamsAssumption
<1>1. CASE tx \in [kind : {"index"}, msg : Msg, seq : Nat]
  <2>1. tx.kind = "index" /\ tx.msg \in Msg
    BY <1>1
  <2>2. MsgSize(tx.msg) \in Nat
    BY DEF MsgSize
  <2>3. TxSize(tx) = IndexTxSize + MsgSize(tx.msg)
    BY <2>1 DEF TxSize
  <2> QED
    BY <1>0, <2>1, <2>2, <2>3 DEF GetGas
<1>2. CASE tx \in [kind : {"delta"}, seq : Nat]
  <2>1. tx.kind = "delta"
    BY <1>2
  <2> QED
    BY <1>0, <2>1 DEF TxSize, GetGas
<1>3. CASE tx \in [kind : {"event"}, body : Body, seq : Nat]
  <2>1. tx.kind = "event" /\ tx.body \in Body
    BY <1>3
  <2>2. tx.body.size \in Nat
    BY <2>1 DEF Body
  <2> QED
    BY <2>1, <2>2 DEF TxSize, GetGas
<1>4. CASE tx \in [kind : {"native"}, id : Nat, size : Nat, gas : Nat]
  <2>1. tx.kind = "native" /\ tx.size \in Nat /\ tx.gas \in Nat
    BY <1>4
  <2> QED
    BY <2>1 DEF TxSize, GetGas
<1> QED
  BY <1>1, <1>2, <1>3, <1>4 DEF Tx

(* Bytes and gas of each transaction of a list, and of the first k.        *)
Sizes(txs) == [i \in DOMAIN txs |-> TxSize(txs[i])]

Gases(txs) == [i \in DOMAIN txs |-> GetGas(txs[i])]

Bytes(txs, k) == SumOfFirst(Sizes(txs), k)

Gas(txs, k) == SumOfFirst(Gases(txs), k)

(* f measures each of n things.                                            *)
Measures(f, n) == n \in Nat /\ \A i \in 1..n : f[i] \in Nat

(* The sizes and the gas of the transactions of a list.                    *)
LEMMA AreMeasures ==
  ASSUME NEW txs \in Seq(Tx)
  PROVE  /\ Measures(Sizes(txs), Len(txs)) /\ Measures(Gases(txs), Len(txs))
         /\ \A i \in 1..Len(txs) : /\ txs[i] \in Tx
                                   /\ Sizes(txs)[i] = TxSize(txs[i])
                                   /\ Gases(txs)[i] = GetGas(txs[i])
<1>1. DOMAIN txs = 1..Len(txs) /\ Len(txs) \in Nat /\ \A i \in 1..Len(txs) : txs[i] \in Tx
  OBVIOUS
<1>2. \A i \in 1..Len(txs) : TxSize(txs[i]) \in Nat /\ GetGas(txs[i]) \in Nat
  BY <1>1, TxTypes
<1>3. /\ \A i \in 1..Len(txs) : Sizes(txs)[i] = TxSize(txs[i])
      /\ \A i \in 1..Len(txs) : Gases(txs)[i] = GetGas(txs[i])
  BY <1>1 DEF Sizes, Gases
<1> QED
  BY <1>1, <1>2, <1>3 DEF Measures

(* The sums of the first elements satisfy the recursion of the loop.       *)
AreSums(sum, f, n) ==
  /\ sum \in [0..n -> Nat] /\ sum[0] = 0
  /\ \A k \in 1..n : sum[k] = sum[k - 1] + f[k]

(* There are such sums for all f that measure n things.                    *)
LEMMA SumsExist ==
  ASSUME NEW f, NEW n, Measures(f, n)
  PROVE  \E sum : AreSums(sum, f, n)
<1>1. n \in Nat /\ \A i \in 1..n : f[i] \in Nat
  BY DEF Measures
<1>2. PICK step : step = [p \in (1..n) \X Nat |-> p[2] + f[p[1]]]
  BY Zenon
<1>3. \A i \in 1..n, v \in Nat : v + f[i] \in Nat
  BY <1>1
<1>4. step \in [(1..n) \X Nat -> Nat]
  BY <1>2, <1>3
<1>5. \A i \in 1..n, v \in Nat : step[<<i, v>>] = v + f[i]
  BY <1>2
<1>6. PICK sum : IsRun(sum, n, Nat, 0, step)
  BY <1>1, <1>4, RunExists
<1>7. sum \in [0..n -> Nat] /\ sum[0] = 0 /\ \A k \in 1..n : sum[k] = step[<<k, sum[k - 1]>>]
  BY <1>6 DEF IsRun
<1>8. \A k \in 1..n : k - 1 \in 0..n
  BY <1>1
<1> QED
  BY <1>5, <1>7, <1>8, Zenon DEF AreSums

(* SumOfFirst is the last of the sums.                                     *)
LEMMA SumIsLast ==
  ASSUME NEW f, NEW k \in Nat, NEW sum, AreSums(sum, f, k)
  PROVE  SumOfFirst(f, k) = sum[k]
<1> DEFINE Rec(g) == g = [i \in 0..k |-> IF i = 0 THEN 0 ELSE g[i - 1] + f[i]]
<1>1. /\ sum \in [0..k -> Nat] /\ sum[0] = 0
      /\ \A i \in 1..k : sum[i] = sum[i - 1] + f[i]
  BY DEF AreSums
<1>2. 0 \in 0..k /\ k \in 0..k /\ \A i \in 0..k : i # 0 => i \in 1..k
  OBVIOUS
<1>3. Rec(sum)
  BY <1>1, <1>2
<1>4. PICK g : g = (CHOOSE h : Rec(h)) /\ Rec(g)
  <2> HIDE DEF Rec
  <2> QED
    BY <1>3, Zenon
<1>5. SumOfFirst(f, k) = g[k]
  BY <1>4, Zenon DEF SumOfFirst
<1>6. g[0] = 0
  BY <1>2, <1>4, Zenon
<1>7. \A i \in 0..k : i # 0 => g[i] = g[i - 1] + f[i]
  BY <1>4, Zenon
<1> HIDE DEF Rec
<1>8. PICK S : S = {i \in 0..k : g[i] = sum[i]}
  BY Zenon
<1>9. 0 \in S
  BY <1>1, <1>2, <1>6, <1>8
<1>10. ASSUME NEW i \in 0..(k - 1), i \in S PROVE i + 1 \in S
  <2>1. i + 1 \in 0..k /\ i + 1 # 0 /\ i + 1 \in 1..k /\ (i + 1) - 1 = i
    OBVIOUS
  <2>2. g[i + 1] = g[i] + f[i + 1] /\ sum[i + 1] = sum[i] + f[i + 1]
    BY <1>1, <1>7, <2>1, Zenon
  <2> QED
    BY <1>8, <1>10, <2>1, <2>2, Zenon
<1>11. k \in S
  BY <1>2, <1>9, <1>10, UpTo
<1> QED
  BY <1>5, <1>8, <1>11, Zenon

(* The sums over the first k elements.                                     *)
LEMMA PrefixSums ==
  ASSUME NEW f, NEW n, Measures(f, n), NEW k \in 0..n
  PROVE  /\ SumOfFirst(f, k) \in Nat
         /\ k < n => SumOfFirst(f, k + 1) = SumOfFirst(f, k) + f[k + 1]
         /\ SumOfFirst(f, 0) = 0
<1>1. n \in Nat
  BY DEF Measures
<1>2. PICK sum : AreSums(sum, f, n)
  BY SumsExist
<1>3. /\ sum \in [0..n -> Nat] /\ sum[0] = 0
      /\ \A i \in 1..n : sum[i] = sum[i - 1] + f[i]
  BY <1>2 DEF AreSums
<1>4. ASSUME NEW j \in 0..n PROVE SumOfFirst(f, j) = sum[j] /\ sum[j] \in Nat
  <2>1. /\ j \in Nat /\ 0 \in 0..j /\ j \in 0..j
        /\ \A i \in 0..j : i \in 0..n
        /\ \A i \in 1..j : i \in 1..n /\ i \in 0..j /\ i - 1 \in 0..j
    BY <1>1
  <2>2. PICK part : part = [i \in 0..j |-> sum[i]]
    BY Zenon
  <2>3. /\ part \in [0..j -> Nat] /\ part[0] = 0 /\ part[j] = sum[j]
        /\ \A i \in 1..j : part[i] = part[i - 1] + f[i]
    BY ONLY <1>3, <2>1, <2>2, SMTT(30)
  <2>4. AreSums(part, f, j)
    BY <2>3, Zenon DEF AreSums
  <2> QED
    BY <1>3, <2>1, <2>3, <2>4, SumIsLast
<1>5. k < n => k + 1 \in 1..n /\ k + 1 \in 0..n /\ (k + 1) - 1 = k
  BY <1>1
<1>6. 0 \in 0..n
  BY <1>1
<1> QED
  BY <1>3, <1>4, <1>5, <1>6, Zenon

(* Functions that agree on the first k numbers have the same sums there.   *)
LEMMA SameSums ==
  ASSUME NEW f, NEW g, NEW k, Measures(f, k), \A i \in 1..k : g[i] = f[i]
  PROVE  SumOfFirst(f, k) = SumOfFirst(g, k)
<1>1. k \in Nat /\ \A i \in 1..k : f[i] \in Nat
  BY DEF Measures
<1>2. PICK sum : AreSums(sum, f, k)
  BY SumsExist
<1>3. AreSums(sum, g, k)
  BY <1>2, Zenon DEF AreSums
<1> QED
  BY <1>1, <1>2, <1>3, SumIsLast

(* Longer prefixes have larger sums.                                       *)
LEMMA PrefixMonotone ==
  ASSUME NEW f, NEW n, Measures(f, n), NEW j \in 0..n, NEW k \in 0..n, j <= k
  PROVE  SumOfFirst(f, j) <= SumOfFirst(f, k)
<1>1. n \in Nat /\ \A i \in 1..n : f[i] \in Nat
  BY DEF Measures
<1>2. PICK S : S = {d \in 0..(k - j) :
                      SumOfFirst(f, j) <= SumOfFirst(f, j + d)}
  BY Zenon
<1>3. 0 \in S
  <2>1. SumOfFirst(f, j) \in Nat
    BY PrefixSums
  <2>2. j + 0 = j /\ 0 \in 0..(k - j)
    BY <1>1
  <2> QED
    BY <1>2, <2>1, <2>2
<1>4. ASSUME NEW d \in 0..((k - j) - 1), d \in S PROVE d + 1 \in S
  <2>1. j + d \in 0..n /\ j + d < n /\ j + (d + 1) = (j + d) + 1
        /\ d + 1 \in 0..(k - j) /\ (j + d) + 1 \in 1..n
    BY <1>1
  <2>2. PICK c : c = j + d
    OBVIOUS
  <2>3. /\ SumOfFirst(f, j) \in Nat /\ SumOfFirst(f, c) \in Nat
        /\ SumOfFirst(f, c + 1) = SumOfFirst(f, c) + f[c + 1]
    BY <2>1, <2>2, PrefixSums
  <2>4. f[c + 1] \in Nat
    BY <1>1, <2>1, <2>2
  <2>5. SumOfFirst(f, j) <= SumOfFirst(f, c)
    BY <1>2, <1>4, <2>2
  <2>6. SumOfFirst(f, j) <= SumOfFirst(f, c + 1)
    BY <2>3, <2>4, <2>5
  <2> QED
    BY <1>2, <2>1, <2>2, <2>6
<1>5. k - j \in Nat /\ j + (k - j) = k
  BY <1>1
<1>6. 0..(k - j) \subseteq S
  BY <1>3, <1>4, <1>5, UpTo
<1>7. k - j \in S
  BY <1>5, <1>6
<1> QED
  BY <1>2, <1>5, <1>7

(* f measures two lists one after the other, as g and h do each.           *)
Joined(f, g, m, h, n) ==
  /\ Measures(g, m) /\ Measures(h, n)
  /\ \A i \in 1..m : f[i] = g[i]
  /\ \A i \in 1..n : f[m + i] = h[i]

(* The sum over two lists is the sum of their sums.                        *)
LEMMA JoinedSums ==
  ASSUME NEW f, NEW g, NEW m, NEW h, NEW n, Joined(f, g, m, h, n)
  PROVE  SumOfFirst(f, m + n) = SumOfFirst(g, m) + SumOfFirst(h, n)
<1>1. /\ Measures(g, m) /\ Measures(h, n) /\ m \in Nat /\ n \in Nat
      /\ \A i \in 1..m : f[i] = g[i] /\ g[i] \in Nat
      /\ \A i \in 1..n : f[m + i] = h[i] /\ h[i] \in Nat
  BY DEF Joined, Measures
<1>2. Measures(f, m + n)
  <2>1. m + n \in Nat
    BY <1>1
  <2>2. ASSUME NEW i \in 1..(m + n) PROVE f[i] \in Nat
    <3>1. CASE i <= m
      BY <1>1, <3>1
    <3>2. CASE i > m
      <4>1. i - m \in 1..n /\ m + (i - m) = i
        BY <1>1, <3>2
      <4> QED
        BY <1>1, <4>1
    <3> QED
      BY <1>1, <3>1, <3>2
  <2> QED
    BY <2>1, <2>2 DEF Measures
<1>3. PICK S : S = {d \in 0..n : SumOfFirst(f, m + d)
                                  = SumOfFirst(g, m) + SumOfFirst(h, d)}
  BY Zenon
<1>4. 0 \in S
  <2>1. SumOfFirst(f, m) = SumOfFirst(g, m)
    BY <1>1, SameSums
  <2>2. SumOfFirst(h, 0) = 0 /\ SumOfFirst(g, m) \in Nat
    BY <1>1, PrefixSums
  <2>3. m + 0 = m /\ 0 \in 0..n
    BY <1>1
  <2> QED
    BY <1>3, <2>1, <2>2, <2>3
<1>5. ASSUME NEW d \in 0..(n - 1), d \in S PROVE d + 1 \in S
  <2>1. d \in 0..n /\ d < n /\ d + 1 \in 1..n /\ d + 1 \in 0..n
        /\ m + d \in 0..(m + n) /\ m + d < m + n /\ m + (d + 1) = (m + d) + 1
    BY <1>1
  <2>2. PICK c : c = m + d
    OBVIOUS
  <2>3. SumOfFirst(f, c + 1) = SumOfFirst(f, c) + f[c + 1]
    BY <1>2, <2>1, <2>2, PrefixSums
  <2>4. /\ SumOfFirst(h, d + 1) = SumOfFirst(h, d) + h[d + 1]
        /\ SumOfFirst(h, d) \in Nat
    BY <1>1, <2>1, PrefixSums
  <2>5. SumOfFirst(g, m) \in Nat
    <3>1. m \in 0..m
      BY <1>1
    <3> QED
      BY <1>1, <3>1, PrefixSums
  <2>6. f[c + 1] = h[d + 1] /\ h[d + 1] \in Nat
    BY <1>1, <2>1, <2>2
  <2>7. SumOfFirst(f, c) = SumOfFirst(g, m) + SumOfFirst(h, d)
    BY <1>3, <1>5, <2>2
  <2>8. SumOfFirst(f, c + 1)
          = SumOfFirst(g, m) + SumOfFirst(h, d + 1)
    BY <2>3, <2>4, <2>5, <2>6, <2>7
  <2> QED
    BY <1>3, <2>1, <2>2, <2>8
<1>6. 0..n \subseteq S
  BY <1>1, <1>4, <1>5, UpTo
<1>7. n \in S
  BY <1>1, <1>6
<1> QED
  BY <1>3, <1>7

(* The size and the gas of a list are sums over all its positions.         *)
LEMMA ListSums ==
  ASSUME NEW txs \in Seq(Tx)
  PROVE  /\ TxsSize(txs) = Bytes(txs, Len(txs)) /\ TxsGas(txs) = Gas(txs, Len(txs))
         /\ TxsSize(txs) \in Nat /\ TxsGas(txs) \in Nat
<1>1. Len(txs) \in 0..Len(txs)
  OBVIOUS
<1>2. TxsSize(txs) = Bytes(txs, Len(txs)) /\ TxsGas(txs) = Gas(txs, Len(txs))
  BY Zenon DEF TxsSize, TxsGas, Sizes, Gases, Bytes, Gas
<1>3. Bytes(txs, Len(txs)) \in Nat /\ Gas(txs, Len(txs)) \in Nat
  BY <1>1, AreMeasures, PrefixSums DEF Bytes, Gas
<1> QED
  BY <1>2, <1>3

(* The size and the gas of two lists add up.                               *)
LEMMA ConcatSums ==
  ASSUME NEW s \in Seq(Tx), NEW t \in Seq(Tx)
  PROVE  /\ s \o t \in Seq(Tx)
         /\ TxsSize(s \o t) = TxsSize(s) + TxsSize(t)
         /\ TxsGas(s \o t) = TxsGas(s) + TxsGas(t)
<1>0. s \o t \in Seq(Tx)
  OBVIOUS
<1>1. PICK u \in Seq(Tx) : u = s \o t
  BY <1>0, Zenon
<1>2. PICK m, n : m = Len(s) /\ n = Len(t)
  BY Zenon
<1>3. /\ m \in Nat /\ n \in Nat /\ Len(u) = m + n
      /\ \A i \in 1..m : u[i] = s[i] /\ i \in 1..(m + n)
      /\ \A i \in 1..n : u[m + i] = t[i] /\ m + i \in 1..(m + n)
  BY <1>1, <1>2
<1>7. /\ Measures(Sizes(s), m) /\ Measures(Gases(s), m)
      /\ Measures(Sizes(t), n) /\ Measures(Gases(t), n)
      /\ \A i \in 1..m : Sizes(s)[i] = TxSize(s[i]) /\ Gases(s)[i] = GetGas(s[i])
      /\ \A i \in 1..n : Sizes(t)[i] = TxSize(t[i]) /\ Gases(t)[i] = GetGas(t[i])
      /\ \A i \in 1..(m + n) : Sizes(u)[i] = TxSize(u[i]) /\ Gases(u)[i] = GetGas(u[i])
  BY <1>2, <1>3, AreMeasures, ZenonT(30)
<1>8. /\ \A i \in 1..m : Sizes(u)[i] = Sizes(s)[i] /\ Gases(u)[i] = Gases(s)[i]
      /\ \A i \in 1..n : Sizes(u)[m + i] = Sizes(t)[i] /\ Gases(u)[m + i] = Gases(t)[i]
  BY <1>3, <1>7, Zenon
<1>4. Joined(Sizes(u), Sizes(s), m, Sizes(t), n)
  BY <1>7, <1>8, Zenon DEF Joined
<1>5. Joined(Gases(u), Gases(s), m, Gases(t), n)
  BY <1>7, <1>8, Zenon DEF Joined
<1>6. Bytes(u, m + n) = Bytes(s, m) + Bytes(t, n) /\ Gas(u, m + n) = Gas(s, m) + Gas(t, n)
  BY <1>4, <1>5, JoinedSums DEF Bytes, Gas
<1> QED
  BY <1>1, <1>2, <1>3, <1>6, ListSums, Zenon

-----------------------------------------------------------------------------
(* The selector                                                            *)

(* One more transaction adds its size and its gas.                         *)
LEMMA AppendSums ==
  ASSUME NEW s \in Seq(Tx), NEW tx \in Tx
  PROVE  /\ TxsSize(Append(s, tx)) = TxsSize(s) + TxSize(tx)
         /\ TxsGas(Append(s, tx)) = TxsGas(s) + GetGas(tx)
<1>0. <<tx>> \in Seq(Tx)
  OBVIOUS
<1>1. PICK t \in Seq(Tx) : t = <<tx>>
  BY <1>0, Zenon
<1>2. Len(t) = 1 /\ t[1] = tx /\ 0 \in 0..1 /\ 1 \in 1..1 /\ 0 + 1 = 1 /\ 0 < 1
  BY <1>1
<1>3. /\ Measures(Sizes(t), 1) /\ Measures(Gases(t), 1)
      /\ Sizes(t)[1] = TxSize(tx) /\ Gases(t)[1] = GetGas(tx)
  BY <1>2, AreMeasures, Zenon
<1>4. TxSize(tx) \in Nat /\ GetGas(tx) \in Nat
  BY TxTypes
<1>5. Bytes(t, 1) = 0 + TxSize(tx) /\ Gas(t, 1) = 0 + GetGas(tx)
  <2>1. /\ SumOfFirst(Sizes(t), 0 + 1)
             = SumOfFirst(Sizes(t), 0) + Sizes(t)[0 + 1]
        /\ SumOfFirst(Gases(t), 0 + 1)
             = SumOfFirst(Gases(t), 0) + Gases(t)[0 + 1]
        /\ SumOfFirst(Sizes(t), 0) = 0 /\ SumOfFirst(Gases(t), 0) = 0
    BY <1>2, <1>3, PrefixSums
  <2> QED
    BY <1>2, <1>3, <2>1, Zenon DEF Bytes, Gas
<1>6. TxsSize(t) = TxSize(tx) /\ TxsGas(t) = GetGas(tx)
  <2>1. TxsSize(t) = Bytes(t, 1) /\ TxsGas(t) = Gas(t, 1)
    BY <1>2, ListSums, Zenon
  <2>2. \A x \in Nat : 0 + x = x
    OBVIOUS
  <2> QED
    BY <1>4, <1>5, <2>1, <2>2, Zenon
<1>7. Append(s, tx) = s \o t
  BY <1>1
<1> QED
  BY <1>6, <1>7, ConcatSums

(* Lists that agree on their first k transactions.                         *)
LEMMA SamePrefix ==
  ASSUME NEW s \in Seq(Tx), NEW t \in Seq(Tx), NEW k \in Nat, k <= Len(s), k <= Len(t),
         \A i \in 1..k : s[i] = t[i]
  PROVE  Bytes(s, k) = Bytes(t, k) /\ Gas(s, k) = Gas(t, k)
<1>1. \A i \in 1..k : i \in 1..Len(s) /\ i \in 1..Len(t)
  OBVIOUS
<1>2. \A i \in 1..k : /\ Sizes(s)[i] = TxSize(s[i]) /\ Sizes(t)[i] = TxSize(t[i])
                      /\ Gases(s)[i] = GetGas(s[i]) /\ Gases(t)[i] = GetGas(t[i])
  BY <1>1, AreMeasures
<1>3. Measures(Sizes(s), k) /\ Measures(Gases(s), k)
  BY <1>1, AreMeasures DEF Measures
<1>4. /\ \A i \in 1..k : Sizes(t)[i] = Sizes(s)[i]
      /\ \A i \in 1..k : Gases(t)[i] = Gases(s)[i]
  BY <1>2, Zenon
<1> QED
  BY <1>3, <1>4, SameSums DEF Bytes, Gas

(* The state of the selector.                                              *)
Selector == [txs : Seq(Tx), bytes : Nat, gas : Nat, stop : BOOLEAN]

Fits(acc, tx) ==
  acc.bytes + TxSize(tx) <= MaxTxBytes /\ (MaxGas > 0 => acc.gas + GetGas(tx) <= MaxGas)

Full(bytes, gas) == bytes >= MaxTxBytes \/ (MaxGas > 0 /\ gas >= MaxGas)

(* What one call of SelectTxForProposal does.                              *)
Selects(acc, tx, next) ==
  /\ next \in Selector
  /\ acc.stop => next = acc
  /\ ~acc.stop =>
       /\ next.stop <=> Full(next.bytes, next.gas)
       /\ Fits(acc, tx) => /\ next.txs = Append(acc.txs, tx)
                           /\ next.bytes = acc.bytes + TxSize(tx)
                           /\ next.gas = acc.gas + GetGas(tx)
       /\ ~Fits(acc, tx) =>
            next.txs = acc.txs /\ next.bytes = acc.bytes /\ next.gas = acc.gas

(* The selector takes the transaction or leaves it, and stops when the     *)
(* block is full.                                                          *)
LEMMA SelectStep ==
  ASSUME NEW acc \in Selector, NEW tx \in Tx
  PROVE  Selects(acc, tx, SelectTxForProposal(acc, tx))
<1>1. TxSize(tx) \in Nat /\ GetGas(tx) \in Nat
  BY TxTypes
<1>2. PICK bytes, gas \in Nat : bytes = acc.bytes + TxSize(tx) /\ gas = acc.gas + GetGas(tx)
  BY <1>1 DEF Selector
<1>3. PICK more : more = Append(acc.txs, tx)
  BY Zenon
<1>4. more \in Seq(Tx)
  BY <1>3 DEF Selector
<1>5. CASE acc.stop
  <2>1. SelectTxForProposal(acc, tx) = acc
    BY <1>5 DEF SelectTxForProposal
  <2> QED
    BY <1>5, <2>1 DEF Selects
<1>6. CASE ~acc.stop /\ Fits(acc, tx)
  <2>1. PICK mid : mid = [txs |-> more, bytes |-> bytes, gas |-> gas, stop |-> acc.stop]
    BY Zenon
  <2>2. [acc EXCEPT !.txs = Append(@, tx), !.bytes = acc.bytes + TxSize(tx),
                    !.gas = acc.gas + GetGas(tx)] = mid
    <3>1. PICK x : x = [acc EXCEPT !.txs = more, !.bytes = bytes, !.gas = gas]
      BY Zenon
    <3>2. x = [txs |-> more, bytes |-> bytes, gas |-> gas, stop |-> acc.stop]
      BY <3>1, Zenon DEF Selector
    <3> QED
      BY ONLY <1>2, <1>3, <2>1, <3>1, <3>2, Zenon
  <2>3. SelectTxForProposal(acc, tx) =
          [mid EXCEPT !.stop = mid.bytes >= MaxTxBytes \/ (MaxGas > 0 /\ mid.gas >= MaxGas)]
    BY <1>2, <1>6, <2>2, Zenon DEF SelectTxForProposal, Fits
  <2>4. SelectTxForProposal(acc, tx) =
          [txs |-> more, bytes |-> bytes, gas |-> gas, stop |-> Full(bytes, gas)]
    BY <2>1, <2>3, Zenon DEF Full
  <2>5. Full(bytes, gas) \in BOOLEAN
    BY Zenon DEF Full
  <2> QED
    BY <1>2, <1>3, <1>4, <1>6, <2>4, <2>5 DEF Selects, Selector
<1>7. CASE ~acc.stop /\ ~Fits(acc, tx)
  <2>1. SelectTxForProposal(acc, tx) =
          [acc EXCEPT !.stop = acc.bytes >= MaxTxBytes \/ (MaxGas > 0 /\ acc.gas >= MaxGas)]
    BY <1>7, Zenon DEF SelectTxForProposal, Fits
  <2>2. SelectTxForProposal(acc, tx) =
          [txs |-> acc.txs, bytes |-> acc.bytes, gas |-> acc.gas,
           stop |-> Full(acc.bytes, acc.gas)]
    BY <2>1, Zenon DEF Full, Selector
  <2>3. Full(acc.bytes, acc.gas) \in BOOLEAN
    BY Zenon DEF Full
  <2> QED
    BY <1>7, <2>2, <2>3 DEF Selects, Selector
<1> QED
  BY <1>5, <1>6, <1>7

(* The selector before the first transaction, and after each of a list.    *)
NothingSelected == [txs |-> <<>>, bytes |-> 0, gas |-> 0, stop |-> FALSE]

IsSelection(run, txs) ==
  /\ run \in [0..Len(txs) -> Selector]
  /\ run[0] = NothingSelected
  /\ \A k \in 1..Len(txs) : run[k] = SelectTxForProposal(run[k - 1], txs[k])
  /\ SelectedTxs(txs) = run[Len(txs)].txs

(* SelectedTxs is the end of such a walk.                                  *)
LEMMA SelectionExists ==
  ASSUME NEW txs \in Seq(Tx)
  PROVE  \E run : IsSelection(run, txs)
<1> DEFINE n == Len(txs)
           Rec(g) == g = [k \in 0..Len(txs) |->
                            IF k = 0
                            THEN [txs |-> <<>>, bytes |-> 0, gas |-> 0, stop |-> FALSE]
                            ELSE SelectTxForProposal(g[k - 1], txs[k])]
<1>1. n \in Nat /\ \A i \in 1..n : txs[i] \in Tx
  OBVIOUS
<1>2. PICK step : step = [p \in (1..n) \X Selector |-> SelectTxForProposal(p[2], txs[p[1]])]
  BY Zenon
<1>3. \A i \in 1..n, v \in Selector : SelectTxForProposal(v, txs[i]) \in Selector
  BY <1>1, SelectStep, Zenon DEF Selects
<1>4. step \in [(1..n) \X Selector -> Selector] /\ NothingSelected \in Selector
  <2>1. NothingSelected \in Selector
    BY DEF NothingSelected, Selector
  <2> HIDE DEF n
  <2>2. step \in [(1..n) \X Selector -> Selector]
    BY <1>2, <1>3
  <2> QED
    BY <2>1, <2>2
<1>5. \A i \in 1..n, v \in Selector : step[<<i, v>>] = SelectTxForProposal(v, txs[i])
  BY <1>2
<1>6. PICK it : IsRun(it, n, Selector, NothingSelected, step)
  <2> HIDE DEF n
  <2> QED
    BY <1>1, <1>4, RunExists, Zenon
<1>7. \A k \in 1..n : k \in 0..n /\ k # 0 /\ k - 1 \in 0..n
  BY <1>1
<1>8. Rec(it)
  <2>1. /\ it \in [0..n -> Selector] /\ it[0] = NothingSelected
        /\ \A k \in 1..n : it[k] = step[<<k, it[k - 1]>>]
    BY <1>6 DEF IsRun
  <2>2. \A k \in 1..n : it[k] = SelectTxForProposal(it[k - 1], txs[k])
    <3> HIDE DEF n
    <3> QED
      BY <1>5, <1>7, <2>1, Zenon
  <2>3. \A k \in 0..n : k # 0 => k \in 1..n
    BY <1>1
  <2> QED
    BY <2>1, <2>2, <2>3 DEF NothingSelected
<1>9. PICK g : g = (CHOOSE h : Rec(h)) /\ Rec(g)
  <2> HIDE DEF Rec
  <2> QED
    BY <1>8, Zenon
<1>10. SelectedTxs(txs) = g[n].txs
  BY <1>9, Zenon DEF SelectedTxs
<1>11. g[0] = NothingSelected /\ \A k \in 1..n : g[k] = SelectTxForProposal(g[k - 1], txs[k])
  <2>1. 0 \in 0..n
    BY <1>1
  <2>2. g[0] = NothingSelected
    BY <1>9, <2>1, Zenon DEF NothingSelected
  <2>3. ASSUME NEW k \in 1..n
        PROVE  g[k] = SelectTxForProposal(g[k - 1], txs[k])
    BY <1>7, <1>9, Zenon
  <2> QED
    BY <2>2, <2>3
<1>12. PICK run : IsRunOf(run, g, n, Selector, NothingSelected, step)
  <2> HIDE DEF n, Rec
  <2>1. Follows(g, n, Selector, NothingSelected, step)
    BY <1>5, <1>11 DEF Follows
  <2> QED
    BY <1>1, <1>4, <2>1, RunOfRecursion, Zenon
<1>13. /\ run \in [0..n -> Selector] /\ run[0] = NothingSelected
       /\ \A k \in 1..n : run[k] = SelectTxForProposal(run[k - 1], txs[k])
  <2> HIDE DEF n
  <2>1. /\ run \in [0..n -> Selector] /\ run[0] = NothingSelected
        /\ \A k \in 1..n : run[k] = step[<<k, run[k - 1]>>]
    BY <1>12 DEF IsRunOf, IsRun
  <2> QED
    BY <1>5, <1>7, <2>1, Zenon
<1> QED
  BY <1>10, <1>12, <1>13 DEF IsRunOf, IsSelection

-----------------------------------------------------------------------------
(* What is selected                                                        *)

(* The selector knows what it selected, and that is within the limits.     *)
Counted(acc) ==
  /\ acc \in Selector
  /\ acc.bytes = TxsSize(acc.txs) /\ acc.bytes <= MaxTxBytes
  /\ acc.gas = TxsGas(acc.txs) /\ (MaxGas > 0 => acc.gas <= MaxGas)

(* The first p transactions of a list are within the limits.               *)
PrefixFits(txs, p) ==
  /\ p \in 0..Len(txs)
  /\ Bytes(txs, p) <= MaxTxBytes /\ (MaxGas > 0 => Gas(txs, p) <= MaxGas)

(***************************************************************************)
(* After k transactions of the list, of which the first p fit: as long as  *)
(* the walk is among the first p, it takes each of them, unless it stopped *)
(* because a limit was reached exactly.                                    *)
(***************************************************************************)
Walked(acc, k, txs, p) ==
  /\ Counted(acc)
  /\ \A i \in 1..p : i <= Len(acc.txs) => acc.txs[i] = txs[i]
  /\ k <= p => Len(acc.txs) <= k
  /\ Len(acc.txs) < k /\ Len(acc.txs) < p => acc.stop
  /\ acc.stop /\ Len(acc.txs) < p =>
       Full(Bytes(txs, Len(acc.txs)), Gas(txs, Len(acc.txs)))

(* The selector counts the bytes and the gas of what it took.              *)
LEMMA SelectCounts ==
  ASSUME NEW acc, Counted(acc), NEW tx \in Tx, NEW next, Selects(acc, tx, next)
  PROVE  Counted(next)
<1>1. /\ acc \in Selector /\ acc.bytes = TxsSize(acc.txs) /\ acc.bytes <= MaxTxBytes
      /\ acc.gas = TxsGas(acc.txs) /\ (MaxGas > 0 => acc.gas <= MaxGas)
  BY DEF Counted
<1>2. acc.txs \in Seq(Tx)
  BY <1>1 DEF Selector
<1>3. /\ TxsSize(Append(acc.txs, tx)) = acc.bytes + TxSize(tx)
      /\ TxsGas(Append(acc.txs, tx)) = acc.gas + GetGas(tx)
  BY <1>1, <1>2, AppendSums
<1>4. CASE acc.stop
  <2>1. next = acc
    BY <1>4 DEF Selects
  <2> QED
    BY <2>1
<1>5. CASE ~acc.stop /\ Fits(acc, tx)
  <2>1. /\ next \in Selector /\ next.txs = Append(acc.txs, tx)
        /\ next.bytes = acc.bytes + TxSize(tx) /\ next.gas = acc.gas + GetGas(tx)
    BY <1>5, Zenon DEF Selects
  <2>2. /\ acc.bytes + TxSize(tx) <= MaxTxBytes
        /\ MaxGas > 0 => acc.gas + GetGas(tx) <= MaxGas
    BY <1>5, Zenon DEF Fits
  <2> QED
    BY ONLY <1>3, <2>1, <2>2, Zenon DEF Counted
<1>6. CASE ~acc.stop /\ ~Fits(acc, tx)
  <2>1. next \in Selector /\ next.txs = acc.txs /\ next.bytes = acc.bytes /\ next.gas = acc.gas
    BY <1>6, Zenon DEF Selects
  <2> QED
    BY ONLY <1>1, <2>1, Zenon DEF Counted
<1> QED
  BY <1>4, <1>5, <1>6

(* One more transaction: it is taken if it is in the prefix, unless the    *)
(* walk has stopped.                                                       *)
LEMMA WalkStep ==
  ASSUME NEW txs \in Seq(Tx), NEW p, PrefixFits(txs, p), NEW k \in 0..(Len(txs) - 1),
         NEW acc, Walked(acc, k, txs, p), NEW next, Selects(acc, txs[k + 1], next)
  PROVE  Walked(next, k + 1, txs, p)
<1>1. /\ p \in 0..Len(txs) /\ Bytes(txs, p) <= MaxTxBytes
      /\ MaxGas > 0 => Gas(txs, p) <= MaxGas
  BY DEF PrefixFits
<1>2. PICK n \in Nat : n = Len(txs)
  OBVIOUS
<1>3. PICK tx \in Tx : tx = txs[k + 1]
  BY ONLY SMTT(30)
<1>4. Counted(acc) /\ Counted(next) /\ acc \in Selector /\ next \in Selector
  BY <1>3, SelectCounts, ZenonT(30) DEF Walked, Counted, Selects
<1>5. acc.txs \in Seq(Tx) /\ next.txs \in Seq(Tx)
  BY <1>4 DEF Selector
<1>6. PICK j \in Nat : j = Len(acc.txs)
  BY <1>5
<1>7. /\ \A i \in 1..p : i <= j => acc.txs[i] = txs[i]
      /\ k <= p => j <= k
      /\ j < k /\ j < p => acc.stop
      /\ acc.stop /\ j < p => Full(Bytes(txs, j), Gas(txs, j))
  BY <1>6 DEF Walked
<1>8. CASE acc.stop
  <2>1. next = acc
    BY <1>8 DEF Selects
  <2>2. k + 1 <= p => j <= k + 1
    BY ONLY <1>1, <1>7, SMTT(30)
  <2> QED
    BY <1>4, <1>6, <1>7, <1>8, <2>1, <2>2 DEF Walked
<1>9. CASE ~acc.stop /\ k < p
  <2>1. j = k
    BY <1>1, <1>7, <1>9
  <2>2. k <= n /\ j <= n /\ k + 1 <= p /\ k + 1 \in 0..n /\ k \in 0..n /\ k < n /\ p \in 0..n
    <3>1. p \in 0..n /\ k \in 0..(n - 1)
      BY <1>1, <1>2
    <3> QED
      BY <1>9, <2>1, <3>1
  <2>3. \A i \in 1..k : acc.txs[i] = txs[i]
    BY ONLY <1>1, <1>7, <1>9, <2>1, SMTT(30)
  <2>4. acc.bytes = Bytes(txs, k) /\ acc.gas = Gas(txs, k)
    <3>1. acc.bytes = Bytes(acc.txs, j) /\ acc.gas = Gas(acc.txs, j)
      BY <1>4, <1>5, <1>6, ListSums, ZenonT(30) DEF Counted
    <3>2. Bytes(acc.txs, j) = Bytes(txs, j) /\ Gas(acc.txs, j) = Gas(txs, j)
      <4>1. PICK s \in Seq(Tx) : s = acc.txs
        BY <1>5
      <4>2. j <= Len(s) /\ j <= Len(txs) /\ \A i \in 1..j : s[i] = txs[i]
        <5>1. Len(s) = j /\ Len(txs) = n
          BY <1>2, <1>6, <4>1
        <5>2. \A i \in 1..j : s[i] = txs[i]
          BY <2>1, <2>3, <4>1, Zenon
        <5>3. j <= j /\ j <= n
          BY <2>2
        <5> QED
          BY <5>1, <5>2, <5>3, Zenon
      <4>3. Bytes(s, j) = Bytes(txs, j) /\ Gas(s, j) = Gas(txs, j)
        BY <4>2, SamePrefix
      <4> QED
        BY <4>1, <4>3
    <3> QED
      BY <2>1, <3>1, <3>2
  <2>5. /\ Measures(Sizes(txs), n) /\ Measures(Gases(txs), n)
        /\ Sizes(txs)[k + 1] = TxSize(tx) /\ Gases(txs)[k + 1] = GetGas(tx)
    BY <1>2, <1>3, AreMeasures
  <2>6. /\ Bytes(txs, k + 1) = acc.bytes + TxSize(tx)
        /\ Gas(txs, k + 1) = acc.gas + GetGas(tx)
    BY <2>2, <2>4, <2>5, PrefixSums, ZenonT(30) DEF Bytes, Gas
  <2>7. Bytes(txs, k + 1) <= Bytes(txs, p) /\ Gas(txs, k + 1) <= Gas(txs, p)
    BY <2>2, <2>5, PrefixMonotone DEF Bytes, Gas
  <2>8. /\ Bytes(txs, k + 1) \in Nat /\ Gas(txs, k + 1) \in Nat
        /\ Bytes(txs, p) \in Nat /\ Gas(txs, p) \in Nat
    BY <2>2, <2>5, PrefixSums DEF Bytes, Gas
  <2>9. Fits(acc, tx)
    BY <1>1, <2>6, <2>7, <2>8, ParamsAssumption, SMTT(30) DEF Fits
  <2>10. /\ next.txs = Append(acc.txs, tx) /\ next.bytes = Bytes(txs, k + 1)
         /\ next.gas = Gas(txs, k + 1)
         /\ next.stop <=> Full(next.bytes, next.gas)
    BY <1>3, <1>9, <2>6, <2>9, Zenon DEF Selects
  <2>11. /\ Len(next.txs) = k + 1 /\ next.txs[k + 1] = tx
         /\ \A i \in 1..k : next.txs[i] = acc.txs[i]
    <3>1. PICK s \in Seq(Tx) : s = acc.txs
      BY <1>5
    <3>2. next.txs = Append(s, tx) /\ Len(s) = k
      BY <1>6, <2>1, <2>10, <3>1, Zenon
    <3> QED
      BY <3>1, <3>2
  <2>12. \A i \in 1..p : i <= k + 1 => next.txs[i] = txs[i]
    <3>1. \A i \in 1..p : i <= k + 1 => i \in 1..k \/ i = k + 1
      BY <1>1
    <3> QED
      BY <1>3, <2>3, <2>11, <3>1
  <2>13. k + 1 <= k + 1 /\ ~(k + 1 < k + 1)
    OBVIOUS
  <2> QED
    BY <1>4, <2>10, <2>11, <2>12, <2>13, ZenonT(30) DEF Walked
<1>10. CASE ~acc.stop /\ ~(k < p)
  <2>1. j >= p /\ ~(k + 1 <= p)
    BY <1>1, <1>7, <1>10
  <2>2. next.txs = acc.txs \/ next.txs = Append(acc.txs, tx)
    BY <1>3, <1>10, Zenon DEF Selects
  <2>3. \A i \in 1..p : i \in 1..j
    BY <1>1, <2>1
  <2>4. Len(next.txs) >= j /\ \A i \in 1..j : next.txs[i] = acc.txs[i]
    <3>1. PICK s \in Seq(Tx) : s = acc.txs
      BY <1>5
    <3>2. (next.txs = s \/ next.txs = Append(s, tx)) /\ Len(s) = j
      BY <1>6, <2>2, <3>1
    <3> QED
      BY ONLY <3>1, <3>2, SMTT(30)
  <2>5. ~(Len(next.txs) < p)
    BY ONLY <1>1, <1>5, <2>1, <2>4, SMTT(30)
  <2>6. \A i \in 1..p : next.txs[i] = txs[i]
    BY <1>7, <2>3, <2>4
  <2> QED
    BY <1>4, <2>1, <2>5, <2>6, ZenonT(30) DEF Walked
<1> QED
  BY <1>8, <1>9, <1>10

(* What SelectedTxs returns, when the first p transactions fit.            *)
Selection(chosen, txs, p) ==
  /\ chosen \in Seq(Tx)
  /\ TxsSize(chosen) <= MaxTxBytes /\ (MaxGas > 0 => TxsGas(chosen) <= MaxGas)
  /\ \A i \in 1..p : i <= Len(chosen) => chosen[i] = txs[i]
  /\ Len(chosen) < p => Full(Bytes(txs, Len(chosen)), Gas(txs, Len(chosen)))
  /\ p = Len(txs) => Len(chosen) <= p

(* The selection begins with a prefix that fits, or with a part of it that *)
(* fills the block.                                                        *)
LEMMA SelectedPrefix ==
  ASSUME NEW txs \in Seq(Tx), NEW p, PrefixFits(txs, p)
  PROVE  Selection(SelectedTxs(txs), txs, p)
<1>1. PICK n \in Nat : n = Len(txs)
  OBVIOUS
<1>2. p \in 0..n
  BY <1>1 DEF PrefixFits
<1>3. PICK run : IsSelection(run, txs)
  BY SelectionExists
<1>4. /\ run \in [0..n -> Selector] /\ run[0] = NothingSelected
      /\ \A k \in 1..n : run[k] = SelectTxForProposal(run[k - 1], txs[k])
      /\ SelectedTxs(txs) = run[n].txs
  BY <1>1, <1>3 DEF IsSelection
<1>5. PICK S : S = {k \in 0..n : Walked(run[k], k, txs, p)}
  BY Zenon
<1>6. 0 \in S
  <2>0. <<>> \in Seq(Tx)
    OBVIOUS
  <2>1. PICK none \in Seq(Tx) : none = <<>>
    BY <2>0, Zenon
  <2>2. Len(none) = 0 /\ 0 \in 0..0
    BY <2>1
  <2>3. TxsSize(none) = 0 /\ TxsGas(none) = 0
    <3>1. TxsSize(none) = Bytes(none, 0) /\ TxsGas(none) = Gas(none, 0)
      BY <2>2, ListSums, Zenon
    <3>2. Measures(Sizes(none), 0) /\ Measures(Gases(none), 0)
      BY <2>2, AreMeasures, Zenon
    <3> QED
      BY <2>2, <3>1, <3>2, PrefixSums DEF Bytes, Gas
  <2>4. /\ run[0].txs = none /\ run[0].bytes = 0 /\ run[0].gas = 0 /\ run[0].stop = FALSE
        /\ run[0] \in Selector
    <3>1. 0 \in 0..n
      OBVIOUS
    <3>2. run[0] \in Selector
      BY <1>4, <3>1
    <3> QED
      BY <1>4, <2>1, <3>2 DEF NothingSelected
  <2>5. Counted(run[0])
    BY <2>3, <2>4, ParamsAssumption DEF Counted
  <2>6. /\ \A i \in 1..p : ~(i <= 0)
        /\ 0 <= 0 /\ ~(0 < 0)
    BY <1>2
  <2>7. Walked(run[0], 0, txs, p)
    BY <2>2, <2>4, <2>5, <2>6 DEF Walked
  <2> QED
    BY <1>5, <2>7
<1>7. ASSUME NEW k \in 0..(n - 1), k \in S PROVE k + 1 \in S
  <2>1. k \in 0..n /\ k + 1 \in 1..n /\ k + 1 \in 0..n /\ (k + 1) - 1 = k
    OBVIOUS
  <2>2. run[k] \in Selector /\ txs[k + 1] \in Tx
        /\ run[k + 1] = SelectTxForProposal(run[k], txs[k + 1])
    BY <1>1, <1>4, <2>1
  <2>3. Selects(run[k], txs[k + 1], run[k + 1])
    BY <2>2, SelectStep
  <2>4. Walked(run[k], k, txs, p)
    BY <1>5, <1>7
  <2>5. Walked(run[k + 1], k + 1, txs, p)
    BY <1>1, <2>3, <2>4, WalkStep, ZenonT(30)
  <2> QED
    BY <1>5, <2>1, <2>5
<1>8. n \in S
  <2>1. 0..n \subseteq S
    BY <1>6, <1>7, UpTo
  <2> QED
    BY <2>1
<1>9. PICK acc : acc = run[n]
  OBVIOUS
<1>10. Walked(acc, n, txs, p) /\ acc \in Selector /\ SelectedTxs(txs) = acc.txs
  BY <1>4, <1>5, <1>8, <1>9
<1>11. PICK chosen \in Seq(Tx) : chosen = acc.txs
  BY <1>10 DEF Selector
<1>12. PICK j \in Nat : j = Len(chosen)
  OBVIOUS
<1>13. TxsSize(chosen) <= MaxTxBytes /\ (MaxGas > 0 => TxsGas(chosen) <= MaxGas)
  BY <1>10, <1>11, ZenonT(30) DEF Walked, Counted
<1>14. /\ \A i \in 1..p : i <= j => chosen[i] = txs[i]
       /\ n <= p => j <= n
       /\ j < n /\ j < p => acc.stop
       /\ acc.stop /\ j < p => Full(Bytes(txs, j), Gas(txs, j))
  BY <1>10, <1>11, <1>12 DEF Walked
<1>15. (j < p => j < n) /\ (p = n => n <= p)
  BY ONLY <1>2, SMTT(30)
<1>16. Selection(chosen, txs, p)
  BY <1>1, <1>12, <1>13, <1>14, <1>15 DEF Selection
<1> QED
  BY <1>10, <1>11, <1>16

-----------------------------------------------------------------------------
(* The space for the events                                                *)

(* The larger of two numbers.                                              *)
LEMMA MaxOfTwo ==
  ASSUME NEW a \in Nat, NEW b \in Nat
  PROVE  /\ Max({a, b}) \in {a, b}
         /\ a <= Max({a, b}) /\ b <= Max({a, b})
<1>1. PICK T : T = {a, b}
  BY Zenon
<1>2. T \in SUBSET (0..(a + b)) /\ a + b \in Nat /\ T # {}
  BY <1>1
<1>3. Max(T) \in T /\ \A x \in T : x <= Max(T)
  BY <1>2, MaxOfSet
<1> QED
  BY <1>1, <1>3

(***************************************************************************)
(* MaxBytesForEvents stays within the block, and leaves the native         *)
(* transactions their place when they take no more than their share.       *)
(***************************************************************************)
LEMMA SpaceBounds ==
  ASSUME NEW s \in Nat, NEW d \in Nat, d <= MaxTxBytes,
         NEW space, space = MaxBytesForEvents(s, d)
  PROVE  /\ space \in Nat /\ space + d <= MaxTxBytes
         /\ s * AllocDen <= AllocNum * (MaxTxBytes - d) => space + d + s <= MaxTxBytes
<1>1. /\ MaxTxBytes \in Nat /\ AllocNum \in Nat /\ AllocDen \in Nat \ {0}
      /\ AllocNum <= AllocDen
  BY ParamsAssumption
<1>2. PICK m \in Nat : m = MaxTxBytes - d
  BY <1>1
<1>3. PICK x \in Nat : x = AllocNum * m
  BY <1>1, <1>2
<1>4. PICK q, r : q = x \div AllocDen /\ r = x % AllocDen
  OBVIOUS
<1>5. q \in Nat /\ r \in Nat /\ r < AllocDen /\ x = AllocDen * q + r
  BY <1>1, <1>4
<1>6. x <= AllocDen * m
  BY <1>1, <1>3
<1>7. q <= m
  <2>1. SUFFICES ASSUME q >= m + 1 PROVE FALSE
    BY <1>5
  <2>2. AllocDen * q >= AllocDen * (m + 1)
    BY <1>1, <1>5, <2>1
  <2>3. AllocDen * (m + 1) = AllocDen * m + AllocDen
    BY <1>1
  <2>4. AllocDen * m \in Nat /\ AllocDen * q \in Nat
    BY <1>1, <1>5
  <2> QED
    BY <1>1, <1>5, <1>6, <2>2, <2>3, <2>4
<1>8. s * AllocDen <= x => s <= q
  <2>1. SUFFICES ASSUME s >= q + 1 PROVE s * AllocDen > x
    BY <1>1, <1>3, <1>5
  <2>2. s * AllocDen >= (q + 1) * AllocDen
    BY <1>1, <1>5, <2>1
  <2>3. (q + 1) * AllocDen = AllocDen * q + AllocDen
    BY <1>1, <1>5
  <2>4. s * AllocDen \in Nat /\ AllocDen * q \in Nat
    BY <1>1, <1>5
  <2> QED
    BY <1>1, <1>5, <2>2, <2>3, <2>4
<1>9. space = IF s > m THEN m - q ELSE Max({m - s, m - q})
  BY <1>2, <1>3, <1>4 DEF MaxBytesForEvents
<1>10. s * AllocDen <= AllocNum * (MaxTxBytes - d) => s <= q
  BY <1>2, <1>3, <1>8
<1>11. CASE s > m
  <2>1. space = m - q /\ ~(s <= q)
    BY <1>5, <1>7, <1>9, <1>11
  <2> QED
    BY <1>1, <1>2, <1>5, <1>7, <1>10, <2>1
<1>12. CASE ~(s > m)
  <2>1. PICK a, b \in Nat : a = m - s /\ b = m - q
    BY <1>5, <1>7, <1>12
  <2>2. space = Max({a, b})
    BY <1>9, <1>12, <2>1
  <2>3. space \in {a, b} /\ a <= space /\ b <= space
    BY <2>2, MaxOfTwo
  <2>4. s <= q => a >= b
    BY <1>5, <2>1
  <2>5. space \in Nat /\ space <= m
    BY <1>5, <2>1, <2>3
  <2>6. s <= q => space = a
    BY <2>1, <2>3, <2>4
  <2>7. space + d <= MaxTxBytes
    BY <1>1, <1>2, <2>5
  <2>8. s <= q => space + d + s <= MaxTxBytes
    BY <1>1, <1>2, <2>1, <2>6
  <2> QED
    BY <1>10, <2>5, <2>7, <2>8
<1> QED
  BY <1>11, <1>12

-----------------------------------------------------------------------------
(* What PrepareProposal makes                                              *)

(***************************************************************************)
(* The steps of PrepareProposal, when none returns an error and the chosen *)
(* transactions suffice: the sizes and sequence numbers (d, seqs), the     *)
(* transactions of the request with the supply delta in front (req), the   *)
(* events generated, trimmed and kept (g, rest, kept), the space for them. *)
(***************************************************************************)
Prepared(br, h, mempool, response, chosen, d, seqs, req, g, rest, space, kept) ==
  LET sd == IsMsgSupplyDeltaBlock(h)
  IN /\ d = IF sd THEN DeltaTxSize ELSE 0
     /\ ~(d > MaxTxBytes)
     /\ seqs = generateTxSequences(br.lastSeq, sd)
     /\ req = IF sd THEN <<DeltaTx(seqs.delta)>> \o mempool ELSE mempool
     /\ g = generateMsgIndexAndEventTxs(response, br.lastBlock + 1, seqs.events) /\ g.ok
     /\ rest = TrimEventsFromHead(g, br.offset) /\ rest.ok
     /\ space = MaxBytesForEvents(TxsSize(req) - d, d)
     /\ ~(TxSize(IndexTx(rest.msg, seqs.index)) > space)
     /\ kept = KeepEventsFromHead(rest, NumberOfEventsWithMaxBytes(rest, space, seqs.index))
     /\ kept.ok
     /\ chosen = SelectedTxs(<<IndexTx(kept.msg, seqs.index)>> \o kept.txs \o req)
     /\ ~(Len(chosen) < MinimumNumTxs(kept.msg, sd))

(* The state of the bridge and what the proposer is handed.                *)
BridgeState ==
  [lastBlock : Nat, offset : Nat, updateTime : Nat \cup {NotFound}, lastSeq : Nat]

Response == [ok : BOOLEAN, events : Seq(Event)]

IsMempool(mempool) == mempool \in Seq(Tx) /\ \A i \in DOMAIN mempool : IsChecked(mempool[i])

IsIndexFirst(txs) == Len(txs) > 0 /\ txs[1].kind = "index"

(* A proposal that begins with MsgIndex went through all the steps of      *)
(* PrepareProposal.                                                        *)
LEMMA PreparedParts ==
  ASSUME NEW br, NEW h, NEW mempool, IsMempool(mempool), NEW response, NEW chosen,
         chosen = PrepareProposal(br, h, mempool, response), IsIndexFirst(chosen)
  PROVE  \E d, seqs, req, g, rest, space, kept :
           Prepared(br, h, mempool, response, chosen, d, seqs, req, g, rest, space, kept)
<1>1. PICK sd : sd = IsMsgSupplyDeltaBlock(h)
  OBVIOUS
<1>2. PICK d, seqs : d = (IF sd THEN DeltaTxSize ELSE 0)
                     /\ seqs = generateTxSequences(br.lastSeq, sd)
  OBVIOUS
<1>3. PICK req : req = IF sd THEN <<DeltaTx(seqs.delta)>> \o mempool ELSE mempool
  BY Zenon
<1>4. PICK g : g = generateMsgIndexAndEventTxs(response, br.lastBlock + 1, seqs.events)
  OBVIOUS
<1>5. PICK rest, space : /\ rest = TrimEventsFromHead(g, br.offset)
                         /\ space = MaxBytesForEvents(TxsSize(req) - d, d)
  OBVIOUS
<1>6. PICK kept : kept = KeepEventsFromHead(rest, NumberOfEventsWithMaxBytes(rest, space, seqs.index))
  OBVIOUS
<1>7. PICK sel : sel = SelectedTxs(<<IndexTx(kept.msg, seqs.index)>> \o kept.txs \o req)
  OBVIOUS
<1>8. chosen = IF d > MaxTxBytes THEN mempool
               ELSE IF \/ ~g.ok \/ ~rest.ok
                       \/ TxSize(IndexTx(rest.msg, seqs.index)) > space
                       \/ ~kept.ok \/ kept.msg.num # Len(kept.txs)
                    THEN req
               ELSE IF Len(sel) < MinimumNumTxs(kept.msg, sd) THEN <<>>
               ELSE sel
  BY <1>1, <1>2, <1>3, <1>4, <1>5, <1>6, <1>7, ZenonT(60) DEF PrepareProposal
<1>9. mempool \in Seq(Tx) /\ ~IsIndexFirst(mempool)
  <2>1. mempool \in Seq(Tx) /\ \A i \in DOMAIN mempool : mempool[i].kind = "native"
    BY DEF IsMempool, IsChecked
  <2>2. Len(mempool) > 0 => 1 \in DOMAIN mempool
    BY <2>1
  <2>3. "native" # "index"
    OBVIOUS
  <2> QED
    BY <2>1, <2>2, <2>3, Zenon DEF IsIndexFirst
<1>10. ~IsIndexFirst(req)
  <2>1. CASE ~sd
    BY <1>3, <1>9, <2>1
  <2>2. CASE sd
    <3>1. PICK tx : tx = DeltaTx(seqs.delta)
      OBVIOUS
    <3>2. req = <<tx>> \o mempool /\ tx.kind = "delta"
      BY <1>3, <2>2, <3>1 DEF DeltaTx
    <3>3. req[1] = tx
      BY <1>9, <3>2
    <3> QED
      BY <3>2, <3>3 DEF IsIndexFirst
  <2> QED
    BY <2>1, <2>2
<1>11. ~IsIndexFirst(<<>>)
  BY DEF IsIndexFirst
<1>12. /\ ~(d > MaxTxBytes) /\ g.ok /\ rest.ok /\ kept.ok
       /\ ~(TxSize(IndexTx(rest.msg, seqs.index)) > space)
       /\ ~(Len(sel) < MinimumNumTxs(kept.msg, sd)) /\ chosen = sel
  BY <1>8, <1>9, <1>10, <1>11, Zenon
<1>13. Prepared(br, h, mempool, response, chosen, d, seqs, req, g, rest, space, kept)
  BY <1>1, <1>2, <1>3, <1>4, <1>5, <1>6, <1>7, <1>12, ZenonT(60) DEF Prepared
<1> QED
  BY <1>13, Zenon

(* Event transactions, like all injected ones, take no gas of the block.   *)
LEMMA NoGas ==
  ASSUME NEW txs \in Seq(Tx), \A i \in 1..Len(txs) : txs[i].kind # "native"
  PROVE  TxsGas(txs) = 0
<1>1. PICK n \in Nat : n = Len(txs)
  OBVIOUS
<1>2. \A i \in 1..n : Gases(txs)[i] = 0
  <2>1. \A i \in 1..n : txs[i] \in Tx /\ Gases(txs)[i] = GetGas(txs[i])
    BY <1>1, AreMeasures
  <2>2. \A i \in 1..n : GetGas(txs[i]) = 0
    BY <1>1, <2>1 DEF GetGas
  <2> QED
    BY <2>1, <2>2
<1>3. PICK sum : sum = [i \in 0..n |-> 0]
  BY Zenon
<1>4. AreSums(sum, Gases(txs), n)
  <2>1. /\ sum \in [0..n -> Nat] /\ sum[0] = 0
        /\ \A i \in 1..n : sum[i] = 0 /\ sum[i - 1] = 0
    BY <1>3
  <2>2. 0 + 0 = 0
    OBVIOUS
  <2> QED
    BY <1>2, <2>1, <2>2, Zenon DEF AreSums
<1>5. SumOfFirst(Gases(txs), n) = 0
  <2>1. sum[n] = 0
    BY <1>3
  <2> QED
    BY <1>4, <2>1, SumIsLast
<1> QED
  BY <1>1, <1>5, ListSums DEF Gas

(* The empty list has no size.                                             *)
LEMMA EmptyList ==
  <<>> \in Seq(Tx) /\ TxsSize(<<>>) = 0 /\ TxsGas(<<>>) = 0
<1>0. <<>> \in Seq(Tx)
  OBVIOUS
<1>1. PICK none \in Seq(Tx) : none = <<>>
  BY <1>0, Zenon
<1>2. Len(none) = 0 /\ 0 \in 0..0
  BY <1>1
<1>3. TxsSize(none) = Bytes(none, 0) /\ TxsGas(none) = Gas(none, 0)
  BY <1>2, ListSums, Zenon
<1>4. Measures(Sizes(none), 0) /\ Measures(Gases(none), 0)
  BY <1>2, AreMeasures, Zenon
<1>5. Bytes(none, 0) = 0 /\ Gas(none, 0) = 0
  BY <1>2, <1>4, PrefixSums DEF Bytes, Gas
<1> QED
  BY <1>0, <1>1, <1>3, <1>5

(* A list of one transaction.                                              *)
LEMMA OneTx ==
  ASSUME NEW tx \in Tx
  PROVE  <<tx>> \in Seq(Tx) /\ TxsSize(<<tx>>) = TxSize(tx) /\ TxsGas(<<tx>>) = GetGas(tx)
<1>1. Append(<<>>, tx) = <<tx>> /\ <<tx>> \in Seq(Tx)
  OBVIOUS
<1>2. /\ TxsSize(Append(<<>>, tx)) = TxsSize(<<>>) + TxSize(tx)
      /\ TxsGas(Append(<<>>, tx)) = TxsGas(<<>>) + GetGas(tx)
  BY EmptyList, AppendSums, Zenon
<1>3. TxSize(tx) \in Nat /\ GetGas(tx) \in Nat
  BY TxTypes
<1>4. \A x \in Nat : 0 + x = x
  OBVIOUS
<1> QED
  BY <1>1, <1>2, <1>3, <1>4, EmptyList, Zenon

(* A message that announces the transactions it travels with.              *)
Announcement(g) ==
  /\ g \in [ok : BOOLEAN, msg : Msg, txs : Seq(Tx)]
  /\ g.msg.num = Len(g.txs)

(* What the type of an announcement says about its numbers.                *)
LEMMA AnnouncementTypes ==
  ASSUME NEW g, Announcement(g)
  PROVE  g.msg \in Msg /\ g.txs \in Seq(Tx) /\ g.msg.num \in Nat /\ g.msg.new \in BOOLEAN
BY DEF Announcement, Msg

(* The size of a message is a number of bytes.                             *)
LEMMA MsgSizeNat ==
  ASSUME NEW m \in Msg
  PROVE  MsgSize(m) \in Nat
BY DEF Msg, MsgSize

(* r has the transactions of g after the first n.                          *)
Trims(r, g, n) ==
  /\ Announcement(r)
  /\ r.msg.num = g.msg.num - n /\ r.msg.new = g.msg.new /\ r.msg.block = g.msg.block
  /\ n > 0 => n < g.msg.num
  /\ \A i \in 1..r.msg.num : r.txs[i] = g.txs[n + i]

(***************************************************************************)
(* TrimEventsFromHead, when it returns no error, drops the first n         *)
(* transactions, keeps the others in order and announces their number.     *)
(***************************************************************************)
LEMMA TrimShape ==
  ASSUME NEW g, Announcement(g), NEW n \in Nat, NEW r, r = TrimEventsFromHead(g, n), r.ok
  PROVE  Trims(r, g, n)
<1>1. CASE n = 0
  BY <1>1 DEF TrimEventsFromHead, Announcement, Msg, Trims
<1>2. CASE n > 0
  <2> DEFINE rest == SubSeq(g.txs, n + 1, Len(g.txs))
             msg  == [g.msg EXCEPT !.num = Len(rest)]
  <2>1. ~Failed(g).ok
    BY DEF Failed, Announcement
  <2>2. r = IF n = 0 THEN g
            ELSE IF n >= g.msg.num \/ MsgSize(msg) > MsgSize(g.msg) THEN Failed(g)
            ELSE [g EXCEPT !.txs = rest, !.msg = msg]
    BY DEF TrimEventsFromHead
  <2>3. g.txs \in Seq(Tx) /\ g.msg.num = Len(g.txs) /\ g.msg \in Msg /\ g.msg.num \in Nat
    BY DEF Announcement, Msg
  <2>4. n < g.msg.num => /\ rest \in Seq(Tx) /\ Len(rest) = Len(g.txs) - n
                         /\ \A i \in 1..Len(rest) : rest[i] = g.txs[n + i]
    BY <2>3
  <2> HIDE DEF rest
  <2>5. Len(rest) \in Nat => /\ msg \in Msg /\ msg.num = Len(rest)
                             /\ msg.new = g.msg.new /\ msg.block = g.msg.block
    BY <2>3 DEF Msg
  <2> HIDE DEF msg
  <2>7. r = [g EXCEPT !.txs = rest, !.msg = msg] /\ n < g.msg.num /\ Len(rest) \in Nat
    BY <1>2, <2>1, <2>2, <2>3, <2>4
  <2>6. r.txs = rest /\ r.msg = msg /\ r \in [ok : BOOLEAN, msg : Msg, txs : Seq(Tx)]
    BY <2>7, <2>4, <2>5, Zenon DEF Announcement
  <2> QED
    BY <1>2, <2>3, <2>4, <2>5, <2>6, <2>7 DEF Announcement, Trims
<1> QED BY <1>1, <1>2

(* r has the first n transactions of g, and its mark if they are all.      *)
Keeps(r, g, n) ==
  /\ Announcement(r)
  /\ r.msg.num = n /\ n <= g.msg.num
  /\ n = 0 => g.msg.num = 0
  /\ r.msg.block = g.msg.block
  /\ r.msg.new => g.msg.new /\ n = g.msg.num
  /\ g.msg.new /\ ~r.msg.new => n < g.msg.num
  /\ \A i \in 1..n : r.txs[i] = g.txs[i]

(***************************************************************************)
(* KeepEventsFromHead, when it returns no error, keeps the first n         *)
(* transactions, and the mark of a full block only if it keeps them all.   *)
(***************************************************************************)
LEMMA KeepShape ==
  ASSUME NEW g, Announcement(g), NEW n \in Nat, NEW r, r = KeepEventsFromHead(g, n), r.ok
  PROVE  Keeps(r, g, n)
<1>1. CASE n = g.msg.num
  BY <1>1 DEF KeepEventsFromHead, Announcement, Msg, Keeps
<1>2. CASE n # g.msg.num
  <2> DEFINE kept == SubSeq(g.txs, 1, n)
             msg  == [g.msg EXCEPT !.num = n, !.new = FALSE]
  <2>1. ~Failed(g).ok
    BY DEF Failed, Announcement
  <2>2. r = [g EXCEPT !.txs = kept, !.msg = msg] /\ n # 0 /\ ~(n > g.msg.num)
    BY <1>2, <2>1 DEF KeepEventsFromHead
  <2>3. n < g.msg.num /\ g.txs \in Seq(Tx) /\ g.msg.num = Len(g.txs) /\ g.msg \in Msg
    BY <1>2, <2>2, SMTT(30) DEF Announcement, Msg
  <2>4. /\ kept \in Seq(Tx) /\ Len(kept) = n
        /\ \A i \in 1..n : kept[i] = g.txs[i]
    BY <2>3
  <2>5. msg \in Msg /\ msg.num = n /\ msg.new = FALSE /\ msg.block = g.msg.block
    BY <2>3, Zenon DEF Msg
  <2> HIDE DEF kept, msg
  <2>6. r.txs = kept /\ r.msg = msg /\ r \in [ok : BOOLEAN, msg : Msg, txs : Seq(Tx)]
    BY <2>2, <2>4, <2>5, Zenon DEF Announcement
  <2> QED
    BY <2>2, <2>3, <2>4, <2>5, <2>6 DEF Announcement, Keeps
<1> QED BY <1>1, <1>2

(* The content of an event's transaction has its type.                     *)
LEMMA BodyTypes ==
  ASSUME NEW e \in Event
  PROVE  EventBody(e) \in Body
<1>1. SkipTxSize \in Nat
  BY ParamsAssumption
<1> QED BY <1>1 DEF EventBody, Event, Body

(* The transaction of an event has its type.                               *)
LEMMA EventTxTypes ==
  ASSUME NEW e \in Event, NEW s \in Nat
  PROVE  EventTx(EventBody(e), s) \in Tx
BY BodyTypes, ZenonT(30) DEF EventTx, Tx

(***************************************************************************)
(* generateMsgIndexAndEventTxs announces one transaction per event, in the *)
(* order of the events, and a full block iff the sidecar answered.         *)
(***************************************************************************)
LEMMA GenerateShape ==
  ASSUME NEW response \in [ok : BOOLEAN, events : Seq(Event)], NEW b \in Nat, NEW s \in Nat \ {0},
         NEW g, g = generateMsgIndexAndEventTxs(response, b, s)
  PROVE  /\ Announcement(g)
         /\ g.msg = [num |-> Len(response.events), new |-> response.ok, block |-> b]
         /\ \A i \in 1..Len(response.events) :
              g.txs[i] = EventTx(EventBody(response.events[i]), s + i - 1)
<1> DEFINE n   == Len(response.events)
           txs == [i \in 1..n |-> EventTx(EventBody(response.events[i]), s + i - 1)]
<1>1. \A i \in 1..n : txs[i] \in Tx
  <2> SUFFICES ASSUME NEW i \in 1..n
               PROVE  EventTx(EventBody(response.events[i]), s + i - 1) \in Tx
    OBVIOUS
  <2>1. response.events[i] \in Event /\ s + i - 1 \in Nat
    OBVIOUS
  <2> QED
    BY <2>1, EventTxTypes
<1>2. txs \in Seq(Tx) /\ Len(txs) = n /\ n \in Nat
  BY ONLY <1>1, SMTT(30)
<1>3. g.txs = txs /\ g.msg = [num |-> n, new |-> response.ok, block |-> b] /\ g.ok \in BOOLEAN
  BY ZenonT(30) DEF generateMsgIndexAndEventTxs
<1>4. g \in [ok : BOOLEAN, msg : Msg, txs : Seq(Tx)]
  BY <1>2, <1>3, ZenonT(30) DEF generateMsgIndexAndEventTxs, Msg
<1> QED
  BY <1>2, <1>3, <1>4 DEF Announcement

(* What generateMsgIndexAndEventTxs returns.                               *)
Generates(g, response, b) ==
  /\ Announcement(g)
  /\ g.msg = [num |-> Len(response.events), new |-> response.ok, block |-> b]
  /\ \A i \in 1..Len(response.events) : g.txs[i].kind = "event"

(* The generated transactions are one MsgIndex and the events of the       *)
(* answer.                                                                 *)
LEMMA EventsGenerated ==
  ASSUME NEW response \in [ok : BOOLEAN, events : Seq(Event)], NEW b \in Nat,
         NEW s \in Nat \ {0}, NEW g, g = generateMsgIndexAndEventTxs(response, b, s)
  PROVE  Generates(g, response, b)
<1>1. Announcement(g)
  BY GenerateShape, Zenon
<1>2. g.msg = [num |-> Len(response.events), new |-> response.ok, block |-> b]
  BY GenerateShape
<1>3. ASSUME NEW i \in 1..Len(response.events)
      PROVE  g.txs[i].kind = "event"
  <2>1. PICK txs : txs = [j \in 1..Len(response.events) |->
                            EventTx(EventBody(response.events[j]), s + j - 1)]
    BY Zenon
  <2>2. g.txs = txs
    BY <2>1, Zenon DEF generateMsgIndexAndEventTxs
  <2>3. txs[i] = EventTx(EventBody(response.events[i]), s + i - 1)
    BY <2>1, Zenon
  <2>4. txs[i].kind = "event"
    BY ONLY <2>3 DEF EventTx
  <2> QED
    BY <2>2, <2>4
<1> QED
  BY <1>1, <1>2, <1>3, SMTT(30) DEF Generates

(***************************************************************************)
(* The number of events that fit the space: the message that announces all *)
(* of the rest fits together with the first n of its transactions.         *)
(***************************************************************************)
FitsSpace(rest, n, seq, space) ==
  /\ n \in Nat
  /\ TxSize(IndexTx(rest.msg, seq)) + TxsSize(SubSeq(rest.txs, 1, n)) <= space

(* The number of events to keep that PrepareProposal computes for its      *)
(* space.                                                                  *)
LEMMA NumberFits ==
  ASSUME NEW rest, Announcement(rest), NEW space \in Nat, NEW seq, NEW n,
         n = NumberOfEventsWithMaxBytes(rest, space, seq),
         ~(TxSize(IndexTx(rest.msg, seq)) > space)
  PROVE  FitsSpace(rest, n, seq, space)
<1>1. PICK all \in Seq(Tx) : all = rest.txs
  BY Zenon DEF Announcement
<1>2. PICK c : c = TxSize(IndexTx(rest.msg, seq))
  OBVIOUS
<1>3. c \in Nat
  <2>1. TxSize(IndexTx(rest.msg, seq)) = IndexTxSize + MsgSize(rest.msg)
    BY Zenon DEF TxSize, IndexTx
  <2>2. MsgSize(rest.msg) \in Nat
    BY MsgSizeNat, Zenon DEF Announcement
  <2> QED
    BY ONLY <1>2, <2>1, <2>2, ParamsAssumption
<1>4. PICK T : T = {k \in 0..Len(all) : c + TxsSize(SubSeq(all, 1, k)) <= space}
  BY Zenon
<1>5. n = Max(T)
  BY <1>1, <1>2, <1>4, Zenon DEF NumberOfEventsWithMaxBytes
<1>6. 0 \in T
  <2>1. SubSeq(all, 1, 0) = <<>> /\ 0 \in 0..Len(all)
    BY ONLY <1>1, all \in Seq(Tx)
  <2>2. c + 0 <= space
    BY ONLY <1>2, <1>3, space \in Nat, ~(TxSize(IndexTx(rest.msg, seq)) > space)
  <2> QED
    BY <1>4, <2>1, <2>2, EmptyList, Zenon
<1>7. T \in SUBSET (0..Len(all)) /\ T # {}
  BY <1>4, <1>6, Zenon
<1>8. n \in T
  <2>1. PICK l \in Nat : l = Len(all)
    BY ONLY all \in Seq(Tx)
  <2> QED
    BY <1>5, <1>7, <2>1, MaxOfSet, Zenon
<1>9. n \in 0..Len(all) /\ c + TxsSize(SubSeq(all, 1, n)) <= space
  BY <1>4, <1>8, Zenon
<1>10. n \in Nat
  BY ONLY <1>9
<1> QED
  BY <1>1, <1>2, <1>9, <1>10, Zenon DEF FitsSpace

(* No event that is kept is a native transaction.                          *)
LEMMA KeptAreEvents ==
  ASSUME NEW response, NEW b, NEW g, Generates(g, response, b), NEW o \in Nat, NEW rest,
         Trims(rest, g, o), NEW n \in Nat, NEW kept, Keeps(kept, rest, n)
  PROVE  \A i \in 1..n : kept.txs[i].kind # "native"
<1>1. PICK l, m : l = g.msg.num /\ m = rest.msg.num
  OBVIOUS
<1>2. /\ m = l - o /\ n <= m
      /\ \A i \in 1..m : rest.txs[i] = g.txs[o + i]
      /\ \A i \in 1..n : kept.txs[i] = rest.txs[i]
  BY <1>1, Zenon DEF Trims, Keeps
<1>3. l \in Nat
  BY <1>1, AnnouncementTypes, Zenon DEF Generates
<1>4. \A i \in 1..l : g.txs[i].kind = "event"
  <2>1. g.msg.num = Len(response.events)
    BY ONLY Generates(g, response, b) DEF Generates
  <2> QED
    BY <1>1, <2>1, Zenon DEF Generates
<1>5. \A i \in 1..n : i \in 1..m /\ o + i \in 1..l
  BY ONLY <1>2, <1>3, n \in Nat, o \in Nat
<1>6. \A i \in 1..n : kept.txs[i].kind = "event"
  BY ONLY <1>2, <1>4, <1>5, Zenon
<1>7. "event" # "native"
  BY Zenon
<1> QED
  BY ONLY <1>6, <1>7, Zenon

(* They fit the space with the message that announces them.                *)
LEMMA KeptFits ==
  ASSUME NEW rest, Announcement(rest), NEW n, NEW kept, Keeps(kept, rest, n),
         NEW seq, NEW space \in Nat, FitsSpace(rest, n, seq, space)
  PROVE  TxSize(IndexTx(kept.msg, seq)) + TxsSize(kept.txs) <= space
<1>1. /\ Announcement(kept) /\ kept.msg.num = n /\ n <= rest.msg.num
      /\ kept.msg.new => rest.msg.new
      /\ \A i \in 1..n : kept.txs[i] = rest.txs[i]
  BY Zenon DEF Keeps
<1>2. PICK all \in Seq(Tx), some \in Seq(Tx) :
        all = rest.txs /\ some = kept.txs /\ Len(all) = rest.msg.num /\ Len(some) = n
  BY <1>1, Zenon DEF Announcement
<1>3. n \in Nat /\ n <= Len(all) /\ \A i \in 1..n : some[i] = all[i]
  BY <1>1, <1>2, Zenon DEF FitsSpace
<1>4. some = SubSeq(all, 1, n)
  BY ONLY <1>2, <1>3, all \in Seq(Tx), some \in Seq(Tx), SMTT(30)
<1>5. PICK k, r \in Nat : k = MsgSize(kept.msg) /\ r = MsgSize(rest.msg)
  BY <1>1, MsgSizeNat, Zenon DEF Announcement
<1>6. k <= r
  <2>1. kept.msg \in Msg /\ rest.msg \in Msg
    BY <1>1, Zenon DEF Announcement
  <2>2. PICK p \in Msg, q \in Msg : p = kept.msg /\ q = rest.msg
    BY <2>1, Zenon
  <2>3. p.num <= q.num /\ (p.new => q.new)
    BY <1>1, <2>2, Zenon
  <2>4. MsgSize(p) <= MsgSize(q)
    BY ONLY <2>3, p \in Msg, q \in Msg DEF MsgSize, Msg
  <2> QED
    BY <1>5, <2>2, <2>4, Zenon
<1>7. /\ TxSize(IndexTx(kept.msg, seq)) = IndexTxSize + k
      /\ TxSize(IndexTx(rest.msg, seq)) = IndexTxSize + r
  BY <1>5, Zenon DEF TxSize, IndexTx
<1>8. PICK x \in Nat : x = TxsSize(some)
  BY ListSums, Zenon
<1>9. (IndexTxSize + r) + x <= space
  BY <1>2, <1>4, <1>7, <1>8, Zenon DEF FitsSpace
<1>10. (IndexTxSize + k) + x <= space
  BY ONLY <1>6, <1>9, ParamsAssumption, k \in Nat, r \in Nat, x \in Nat, space \in Nat
<1> QED
  BY <1>2, <1>7, <1>8, <1>10, Zenon

(* Nothing is announced only when the sidecar did not answer.              *)
LEMMA NothingKept ==
  ASSUME NEW response, NEW b, NEW g, Generates(g, response, b), NEW o \in Nat, NEW rest,
         Trims(rest, g, o), NEW n \in Nat, NEW kept, Keeps(kept, rest, n), kept.ok,
         kept.msg.num = 0, ~kept.msg.new
  PROVE  ~response.ok /\ kept = NoSync(b) /\ o = 0
<1>1. PICK l, m \in Nat : l = g.msg.num /\ m = rest.msg.num
  <2>1. Announcement(g) /\ Announcement(rest)
    BY Zenon DEF Generates, Trims
  <2> QED
    BY <2>1, AnnouncementTypes, Zenon
<1>2. /\ m = l - o /\ (o > 0 => o < l) /\ n = 0 /\ (n = 0 => m = 0)
      /\ rest.msg.new = g.msg.new /\ rest.msg.block = g.msg.block
      /\ kept.msg.block = rest.msg.block
      /\ rest.msg.new /\ ~kept.msg.new => n < m
      /\ Announcement(kept)
  BY <1>1, Zenon DEF Trims, Keeps
<1>3. o = 0 /\ ~(n < m)
  BY ONLY <1>1, <1>2, o \in Nat, l \in Nat, m \in Nat
<1>4. g.msg.new = response.ok /\ g.msg.block = b
  BY ONLY Generates(g, response, b) DEF Generates
<1>5. ~response.ok /\ kept.msg.block = b
  BY <1>2, <1>3, <1>4, Zenon
<1>6. PICK k \in Msg, txs \in Seq(Tx) : k = kept.msg /\ txs = kept.txs /\ Len(txs) = 0
  BY <1>2, Zenon DEF Announcement
<1>7. k = [num |-> 0, new |-> FALSE, block |-> b]
  <2>1. k.num = 0 /\ ~k.new /\ k.block = b
    BY <1>5, <1>6, Zenon
  <2> QED
    BY ONLY <2>1, k \in Msg DEF Msg
<1>8. txs = <<>>
  BY ONLY <1>6, txs \in Seq(Tx)
<1>9. kept = [ok |-> TRUE, msg |-> k, txs |-> txs]
  <2>1. kept \in [ok : BOOLEAN, msg : Msg, txs : Seq(Tx)]
    BY <1>2, Zenon DEF Announcement
  <2>2. kept = [ok |-> kept.ok, msg |-> kept.msg, txs |-> kept.txs] /\ kept.ok = TRUE
    BY ONLY <2>1, kept.ok
  <2> QED
    BY ONLY <1>6, <2>2, Zenon
<1>10. kept = NoSync(b)
  BY <1>7, <1>8, <1>9, Zenon DEF NoSync
<1> QED
  BY <1>3, <1>5, <1>10, Zenon

(***************************************************************************)
(* The events that PrepareProposal keeps: the first num of those that are  *)
(* left, after the offset, of the sidecar's answer.                        *)
(***************************************************************************)
KeptAs(br, response, seqs, rest, space, kept) ==
  /\ seqs.index \in Nat /\ Announcement(kept)
  /\ kept = KeepEventsFromHead(rest, kept.msg.num)
  /\ \A i \in 1..kept.msg.num : kept.txs[i].kind # "native"
  /\ TxSize(IndexTx(kept.msg, seqs.index)) + TxsSize(kept.txs) <= space
  /\ kept.msg.num = 0 /\ ~kept.msg.new =>
       ~response.ok /\ kept = NoSync(br.lastBlock + 1) /\ br.offset = 0

(* What is kept of the events fits the space for them, and was trimmed as  *)
(* ProcessProposal trims it.                                               *)
LEMMA KeptShape ==
  ASSUME NEW br \in BridgeState, NEW h \in Nat, NEW mempool, NEW response \in Response,
         NEW chosen, NEW d, NEW seqs, NEW req, NEW g, NEW rest, NEW space, NEW kept,
         Prepared(br, h, mempool, response, chosen, d, seqs, req, g, rest, space, kept),
         space \in Nat
  PROVE  KeptAs(br, response, seqs, rest, space, kept)
<1>1. PICK b, o \in Nat : b = br.lastBlock + 1 /\ o = br.offset
  BY DEF BridgeState
<1>2. PICK s \in Nat \ {0} : s = seqs.events /\ seqs.index \in Nat
  <2>1. PICK sd : sd = IsMsgSupplyDeltaBlock(h)
    OBVIOUS
  <2>2. PICK last \in Nat : last = br.lastSeq
    BY DEF BridgeState
  <2>3. seqs = generateTxSequences(last, sd)
    BY <2>1, <2>2, Zenon DEF Prepared
  <2>4. seqs.index \in Nat /\ seqs.events \in Nat \ {0}
    BY ONLY <2>3, last \in Nat DEF generateTxSequences
  <2> QED
    BY <2>4, Zenon
<1>3. PICK n : n = NumberOfEventsWithMaxBytes(rest, space, seqs.index)
  OBVIOUS
<1>4. /\ g = generateMsgIndexAndEventTxs(response, b, s)
      /\ rest = TrimEventsFromHead(g, o) /\ rest.ok
      /\ ~(TxSize(IndexTx(rest.msg, seqs.index)) > space)
      /\ kept = KeepEventsFromHead(rest, n) /\ kept.ok
  BY <1>1, <1>2, <1>3, Zenon DEF Prepared
<1>5. Generates(g, response, b)
  BY <1>4, EventsGenerated, Zenon DEF Response
<1>6. Trims(rest, g, o)
  BY <1>4, <1>5, TrimShape, Zenon DEF Generates
<1>7. Announcement(rest)
  BY <1>6, Zenon DEF Trims
<1>8. FitsSpace(rest, n, seqs.index, space) /\ n \in Nat
  BY <1>3, <1>4, <1>7, NumberFits, Zenon DEF FitsSpace
<1>9. Keeps(kept, rest, n)
  BY <1>4, <1>7, <1>8, KeepShape, Zenon
<1>10. Announcement(kept) /\ kept.msg.num = n
  BY <1>9, Zenon DEF Keeps
<1>11. \A i \in 1..n : kept.txs[i].kind # "native"
  BY <1>5, <1>6, <1>8, <1>9, KeptAreEvents, Zenon
<1>12. TxSize(IndexTx(kept.msg, seqs.index)) + TxsSize(kept.txs) <= space
  BY <1>7, <1>8, <1>9, KeptFits, Zenon
<1>13. kept.msg.num = 0 /\ ~kept.msg.new => ~response.ok /\ kept = NoSync(b) /\ o = 0
  BY <1>4, <1>5, <1>6, <1>8, <1>9, NothingKept, Zenon
<1> QED
  BY <1>1, <1>2, <1>4, <1>10, <1>11, <1>12, <1>13, Zenon DEF KeptAs

(* Number of MsgSupplyDelta transactions due at height h.                  *)
Deltas(h) == IF IsMsgSupplyDeltaBlock(h) THEN 1 ELSE 0

(* The request of CometBFT, with the supply delta in front.                *)
Requested(h, mempool, d, seqs, req) ==
  /\ d \in Nat /\ mempool \in Seq(Tx) /\ req \in Seq(Tx)
  /\ TxsSize(req) = d + TxsSize(mempool) /\ TxsGas(req) = TxsGas(mempool)
  /\ Len(req) = Deltas(h) + Len(mempool)
  /\ \A i \in 1..Len(mempool) : req[Deltas(h) + i] = mempool[i]
  /\ IsMsgSupplyDeltaBlock(h) => req[1] = DeltaTx(seqs.delta) /\ d = DeltaTxSize
  /\ ~IsMsgSupplyDeltaBlock(h) => d = 0

(* The requested transactions are the supply delta, if it is due, and the  *)
(* mempool.                                                                *)
LEMMA RequestShape ==
  ASSUME NEW br \in BridgeState, NEW h \in Nat, NEW mempool, IsMempool(mempool), NEW response,
         NEW chosen, NEW d, NEW seqs, NEW req, NEW g, NEW rest, NEW space, NEW kept,
         Prepared(br, h, mempool, response, chosen, d, seqs, req, g, rest, space, kept)
  PROVE  Requested(h, mempool, d, seqs, req)
<1>1. /\ d = IF IsMsgSupplyDeltaBlock(h) THEN DeltaTxSize ELSE 0
      /\ seqs = generateTxSequences(br.lastSeq, IsMsgSupplyDeltaBlock(h))
      /\ req = IF IsMsgSupplyDeltaBlock(h) THEN <<DeltaTx(seqs.delta)>> \o mempool ELSE mempool
  BY Zenon DEF Prepared
<1>2. mempool \in Seq(Tx) /\ DeltaTxSize \in Nat
  BY ParamsAssumption DEF IsMempool
<1>3. TxsSize(mempool) \in Nat /\ TxsGas(mempool) \in Nat
  BY <1>2, ListSums, SMTT(30)
<1>4. CASE IsMsgSupplyDeltaBlock(h)
  <2>1. PICK tx : tx = DeltaTx(seqs.delta)
    OBVIOUS
  <2>2. seqs.delta \in Nat
    BY <1>1, <1>4 DEF generateTxSequences, BridgeState
  <2>3. tx \in Tx /\ TxSize(tx) = DeltaTxSize /\ GetGas(tx) = 0
    BY <2>1, <2>2 DEF DeltaTx, Tx, TxSize, GetGas
  <2>4. PICK s \in Seq(Tx) : /\ s = <<tx>> /\ Len(s) = 1 /\ s[1] = tx
                             /\ TxsSize(s) = DeltaTxSize /\ TxsGas(s) = 0
    BY <2>3, OneTx, Zenon
  <2>5. req = s \o mempool
    BY <1>1, <1>4, <2>1, <2>4
  <2>6. /\ req \in Seq(Tx) /\ TxsSize(req) = DeltaTxSize + TxsSize(mempool)
        /\ TxsGas(req) = 0 + TxsGas(mempool)
    BY <1>2, <2>4, <2>5, ConcatSums, Zenon
  <2>7. TxsGas(req) = TxsGas(mempool)
    <3>1. PICK gas \in Nat : gas = TxsGas(mempool)
      BY <1>3, Zenon
    <3>2. 0 + gas = gas
      BY ONLY gas \in Nat
    <3> QED
      BY <2>6, <3>1, <3>2, Zenon
  <2>8. /\ Len(req) = 1 + Len(mempool) /\ req[1] = tx
        /\ \A i \in 1..Len(mempool) : req[1 + i] = mempool[i]
    BY <1>2, <2>4, <2>5
  <2> QED
    BY <1>1, <1>2, <1>4, <2>1, <2>6, <2>7, <2>8, Zenon DEF Requested, Deltas
<1>5. CASE ~IsMsgSupplyDeltaBlock(h)
  <2>1. req = mempool /\ d = 0
    BY <1>1, <1>5
  <2>2. /\ TxsSize(req) = 0 + TxsSize(mempool)
        /\ Len(mempool) = 0 + Len(mempool)
        /\ \A i \in 1..Len(mempool) : 0 + i = i
    BY <1>2, <1>3, <2>1
  <2> QED
    BY <1>2, <1>5, <2>1, <2>2 DEF Requested, Deltas
<1> QED
  BY <1>4, <1>5

(* The list that the selector walks.                                       *)
Listed(list, front, evs, req) ==
  /\ list \in Seq(Tx)
  /\ Len(list) = 1 + Len(evs) + Len(req)
  /\ list[1] = front
  /\ \A i \in 1..Len(evs) : list[1 + i] = evs[i]
  /\ \A i \in 1..Len(req) : list[1 + Len(evs) + i] = req[i]
  /\ TxsSize(list) = TxSize(front) + TxsSize(evs) + TxsSize(req)
  /\ TxsGas(list) = TxsGas(req)
  /\ Bytes(list, 1 + Len(evs)) = TxSize(front) + TxsSize(evs)
  /\ Gas(list, 1 + Len(evs)) = 0

(* The size and the gas of the full list, and of its injected part.        *)
LEMMA ListShape ==
  ASSUME NEW front \in Tx, front.kind = "index",
         NEW evs \in Seq(Tx), \A i \in 1..Len(evs) : evs[i].kind # "native",
         NEW req \in Seq(Tx)
  PROVE  Listed(<<front>> \o evs \o req, front, evs, req)
<1>1. PICK s \in Seq(Tx) : /\ s = <<front>> /\ Len(s) = 1 /\ s[1] = front
                           /\ TxsSize(s) = TxSize(front) /\ TxsGas(s) = GetGas(front)
  BY OneTx, Zenon
<1>2. GetGas(front) = 0 /\ TxSize(front) \in Nat
  BY TxTypes DEF GetGas
<1>3. TxsGas(evs) = 0 /\ TxsSize(evs) \in Nat
  BY NoGas, ListSums
<1>4. TxsGas(req) \in Nat /\ TxsSize(req) \in Nat
  BY ListSums
<1>5. PICK head \in Seq(Tx) : /\ head = s \o evs
                              /\ TxsSize(head) = TxSize(front) + TxsSize(evs)
                              /\ TxsGas(head) = 0 + 0
  <2>1. /\ s \o evs \in Seq(Tx) /\ TxsSize(s \o evs) = TxsSize(s) + TxsSize(evs)
        /\ TxsGas(s \o evs) = TxsGas(s) + TxsGas(evs)
    BY ConcatSums
  <2> QED
    BY <1>1, <1>2, <1>3, <2>1, Zenon
<1>6. PICK list \in Seq(Tx) : /\ list = head \o req
                              /\ TxsSize(list) = TxsSize(head) + TxsSize(req)
                              /\ TxsGas(list) = TxsGas(head) + TxsGas(req)
  BY ConcatSums, Zenon
<1>7. PICK m, n, q \in Nat : m = Len(evs) /\ n = Len(req) /\ q = 1 + m
  OBVIOUS
<1>8. Len(head) = q /\ head[1] = front /\ \A i \in 1..m : head[1 + i] = evs[i]
  BY <1>1, <1>5, <1>7
<1>9. /\ Len(list) = q + n /\ \A i \in 1..q : list[i] = head[i]
      /\ \A i \in 1..n : list[q + i] = req[i]
  <2>1. /\ Len(head \o req) = Len(head) + Len(req)
        /\ \A i \in 1..Len(head) : (head \o req)[i] = head[i]
        /\ \A i \in 1..Len(req) : (head \o req)[Len(head) + i] = req[i]
    BY ONLY head \in Seq(Tx), req \in Seq(Tx)
  <2> QED
    BY ONLY <1>6, <1>7, <1>8, <2>1, Zenon
<1>10. list[1] = front /\ \A i \in 1..m : list[1 + i] = evs[i]
  <2>1. 1 \in 1..q /\ \A i \in 1..m : 1 + i \in 1..q
    BY <1>7
  <2> QED
    BY <1>8, <1>9, <2>1, Zenon
<1>11. Bytes(list, q) = Bytes(head, q) /\ Gas(list, q) = Gas(head, q)
  <2>1. q <= Len(list) /\ q <= Len(head)
    BY ONLY <1>8, <1>9, SMTT(30)
  <2> QED
    BY <1>9, <2>1, SamePrefix
<1>12. Bytes(head, q) = TxsSize(head) /\ Gas(head, q) = TxsGas(head)
  BY <1>8, ListSums, ZenonT(30)
<1>13. TxsGas(list) = TxsGas(req) /\ Gas(list, q) = 0
  BY <1>4, <1>5, <1>6, <1>11, <1>12
<1>14. Listed(list, front, evs, req)
  BY <1>5, <1>6, <1>7, <1>9, <1>10, <1>11, <1>12, <1>13, Zenon DEF Listed
<1> QED
  BY <1>1, <1>5, <1>6, <1>14, Zenon

(* Lists of equal length and equal elements are equal.                     *)
LEMMA SameList ==
  ASSUME NEW s \in Seq(Tx), NEW t \in Seq(Tx), Len(s) = Len(t),
         \A i \in 1..Len(t) : s[i] = t[i]
  PROVE  s = t
OBVIOUS

(* The supply delta fits behind the first q transactions, if its bytes do. *)
LEMMA DeltaFits ==
  ASSUME NEW list \in Seq(Tx), NEW q \in Nat, q < Len(list), NEW s, list[q + 1] = DeltaTx(s),
         Bytes(list, q) + DeltaTxSize <= MaxTxBytes, Gas(list, q) = 0
  PROVE  PrefixFits(list, q + 1)
<1>1. PICK n \in Nat : n = Len(list)
  OBVIOUS
<1>2. q \in 0..n /\ q < n /\ q + 1 \in 0..n /\ q + 1 \in 1..n
  BY ONLY <1>1, q \in Nat, q < Len(list)
<1>3. PICK tx : tx = DeltaTx(s)
  OBVIOUS
<1>4. TxSize(tx) = DeltaTxSize /\ GetGas(tx) = 0
  BY ONLY <1>3 DEF DeltaTx, TxSize, GetGas
<1>5. /\ Measures(Sizes(list), n) /\ Measures(Gases(list), n)
      /\ Sizes(list)[q + 1] = DeltaTxSize /\ Gases(list)[q + 1] = 0
  BY <1>1, <1>2, <1>3, <1>4, AreMeasures, Zenon
<1>6. /\ Bytes(list, q + 1) = Bytes(list, q) + DeltaTxSize
      /\ Gas(list, q + 1) = 0 + 0
  BY <1>2, <1>5, PrefixSums, Zenon DEF Bytes, Gas
<1>7. 0 + 0 <= MaxGas
  BY ParamsAssumption
<1> QED
  BY <1>1, <1>2, <1>6, <1>7, Zenon DEF PrefixFits

(* The space left for events, and what heads the list in it.               *)
HeadsBlock(h, mempool, chosen, d, seqs, req, space, kept) ==
  /\ space \in Nat
  /\ TxsSize(mempool) * AllocDen <= AllocNum * (MaxTxBytes - d) =>
       space + d + TxsSize(mempool) <= MaxTxBytes
  /\ \E list : /\ Listed(list, IndexTx(kept.msg, seqs.index), kept.txs, req)
               /\ chosen = SelectedTxs(list)
               /\ PrefixFits(list, 1 + Len(kept.txs) + Deltas(h))

(***************************************************************************)
(* The injected transactions, which head the list, always fit the block.   *)
(***************************************************************************)
LEMMA HeadFits ==
  ASSUME NEW br \in BridgeState, NEW h \in Nat, NEW mempool, IsMempool(mempool),
         NEW response \in Response,
         NEW chosen, NEW d, NEW seqs, NEW req, NEW g, NEW rest, NEW space, NEW kept,
         Prepared(br, h, mempool, response, chosen, d, seqs, req, g, rest, space, kept)
  PROVE  HeadsBlock(h, mempool, chosen, d, seqs, req, space, kept)
<1>1. Requested(h, mempool, d, seqs, req)
  BY RequestShape
<1>2. /\ d \in Nat /\ mempool \in Seq(Tx) /\ req \in Seq(Tx)
      /\ TxsSize(req) = d + TxsSize(mempool)
      /\ Len(req) = Deltas(h) + Len(mempool)
      /\ IsMsgSupplyDeltaBlock(h) => req[1] = DeltaTx(seqs.delta) /\ d = DeltaTxSize
      /\ ~IsMsgSupplyDeltaBlock(h) => d = 0
  BY <1>1, Zenon DEF Requested
<1>3. PICK s \in Nat : s = TxsSize(mempool)
  BY <1>2, ListSums
<1>4. MaxTxBytes \in Nat /\ MaxGas \in Nat /\ DeltaTxSize \in Nat
  BY ParamsAssumption
<1>5. ~(d > MaxTxBytes) /\ space = MaxBytesForEvents(TxsSize(req) - d, d)
  BY Zenon DEF Prepared
<1>6. d <= MaxTxBytes /\ space = MaxBytesForEvents(s, d)
  <2>1. (d + s) - d = s
    BY <1>2
  <2>2. d <= MaxTxBytes
    BY <1>2, <1>4, <1>5
  <2> QED
    BY <1>2, <1>3, <1>5, <2>1, <2>2, Zenon
<1>7. /\ space \in Nat /\ space + d <= MaxTxBytes
      /\ s * AllocDen <= AllocNum * (MaxTxBytes - d) => space + d + s <= MaxTxBytes
  BY <1>2, <1>6, SpaceBounds
<1>8. /\ seqs.index \in Nat /\ Announcement(kept)
      /\ \A i \in 1..kept.msg.num : kept.txs[i].kind # "native"
      /\ TxSize(IndexTx(kept.msg, seqs.index)) + TxsSize(kept.txs) <= space
  <2>1. KeptAs(br, response, seqs, rest, space, kept)
    BY <1>7, KeptShape, Zenon
  <2> QED
    BY <2>1, Zenon DEF KeptAs
<1>9. PICK evs \in Seq(Tx) : evs = kept.txs /\ Len(evs) = kept.msg.num
  BY <1>8, Zenon DEF Announcement
<1>10. PICK front : front = IndexTx(kept.msg, seqs.index)
  BY Zenon
<1>11. front \in Tx /\ front.kind = "index"
  BY <1>8, <1>10, ZenonT(30) DEF IndexTx, Tx, Announcement
<1>12. PICK list : list = <<front>> \o evs \o req
  BY Zenon
<1>13. Listed(list, front, evs, req)
  BY <1>2, <1>8, <1>9, <1>11, <1>12, ListShape, Zenon
<1>14. chosen = SelectedTxs(list)
  BY <1>9, <1>10, <1>12, Zenon DEF Prepared
<1>15. PICK n, q \in Nat : n = Len(list) /\ q = 1 + Len(evs)
  BY <1>13 DEF Listed
<1>16. /\ list \in Seq(Tx) /\ n = q + Len(req)
       /\ \A i \in 1..Len(req) : list[q + i] = req[i]
       /\ Bytes(list, q) = TxSize(front) + TxsSize(evs) /\ Gas(list, q) = 0
  BY <1>13, <1>15, ZenonT(30) DEF Listed
<1>17. PICK x \in Nat : x = Bytes(list, q) /\ x <= space
  <2>1. TxSize(front) \in Nat /\ TxsSize(evs) \in Nat
    BY <1>11, TxTypes, ListSums, SMTT(30)
  <2>2. TxSize(front) + TxsSize(evs) <= space
    BY <1>8, <1>9, <1>10, Zenon
  <2> QED
    BY ONLY <1>16, <2>1, <2>2, SMTT(30)
<1>18. PrefixFits(list, q + Deltas(h))
  <2>1. CASE ~IsMsgSupplyDeltaBlock(h)
    <3>1. q + Deltas(h) = q /\ q \in 0..n
      BY ONLY <1>2, <1>15, <1>16, <2>1, SMTT(30) DEF Deltas
    <3>2. x <= MaxTxBytes /\ 0 <= MaxGas
      BY <1>2, <1>4, <1>7, <1>17
    <3> QED
      BY <1>15, <1>16, <1>17, <3>1, <3>2, Zenon DEF PrefixFits
  <2>2. CASE IsMsgSupplyDeltaBlock(h)
    <3>1. q + Deltas(h) = q + 1 /\ q \in 0..n /\ q < n /\ q + 1 \in 0..n /\ q + 1 \in 1..n
          /\ 1 \in 1..Len(req)
      BY <1>2, <1>15, <1>16, <2>2 DEF Deltas
    <3>2. list[q + 1] = DeltaTx(seqs.delta) /\ d = DeltaTxSize
      BY <1>2, <1>16, <2>2, <3>1, Zenon
    <3>3. x + d <= MaxTxBytes
      BY ONLY <1>2, <1>4, <1>7, <1>17, x \in Nat
    <3>4. q < Len(list) /\ Bytes(list, q) + DeltaTxSize <= MaxTxBytes
      BY <1>15, <1>17, <3>1, <3>2, <3>3, Zenon
    <3> QED
      BY <1>16, <3>1, <3>2, <3>4, DeltaFits, Zenon
  <2> QED
    BY <2>1, <2>2, Zenon
<1>19. /\ Listed(list, IndexTx(kept.msg, seqs.index), kept.txs, req)
       /\ PrefixFits(list, 1 + Len(kept.txs) + Deltas(h))
  BY <1>9, <1>10, <1>13, <1>15, <1>18, Zenon
<1> QED
  BY <1>3, <1>7, <1>14, <1>19, Zenon DEF HeadsBlock

(***************************************************************************)
(* ProcessProposal, on the answer that the proposer had, generates what    *)
(* PrepareProposal generated and finds it in the block.                    *)
(***************************************************************************)
LEMMA PreparedAccepted ==
  ASSUME NEW br \in BridgeState, NEW h \in Nat, NEW mempool, IsMempool(mempool),
         NEW response \in Response, NEW t, NEW chosen,
         chosen = PrepareProposal(br, h, mempool, response), IsIndexFirst(chosen)
  PROVE  \/ ProcessProposal(br, h, t, chosen, response)
         \/ ~response.ok /\ EthSyncDelayExceeded(br, t)
<1>1. PICK d, seqs, req, g, rest, space, kept :
        Prepared(br, h, mempool, response, chosen, d, seqs, req, g, rest, space, kept)
  BY PreparedParts
<1>2. HeadsBlock(h, mempool, chosen, d, seqs, req, space, kept)
  BY <1>1, HeadFits, Zenon
<1>3. PICK list : /\ Listed(list, IndexTx(kept.msg, seqs.index), kept.txs, req)
                  /\ chosen = SelectedTxs(list)
                  /\ PrefixFits(list, 1 + Len(kept.txs) + Deltas(h))
  BY <1>2, Zenon DEF HeadsBlock
<1>4. /\ Announcement(kept)
      /\ kept = KeepEventsFromHead(rest, kept.msg.num)
      /\ kept.msg.num = 0 /\ ~kept.msg.new =>
           ~response.ok /\ kept = NoSync(br.lastBlock + 1) /\ br.offset = 0
  <2>1. KeptAs(br, response, seqs, rest, space, kept)
    BY <1>1, <1>2, KeptShape, Zenon DEF HeadsBlock
  <2> QED
    BY <2>1, Zenon DEF KeptAs
<1>5. PICK sd : sd = IsMsgSupplyDeltaBlock(h)
  OBVIOUS
<1>6. /\ seqs = generateTxSequences(br.lastSeq, sd)
      /\ g = generateMsgIndexAndEventTxs(response, br.lastBlock + 1, seqs.events) /\ g.ok
      /\ rest = TrimEventsFromHead(g, br.offset) /\ rest.ok /\ kept.ok
      /\ ~(Len(chosen) < MinimumNumTxs(kept.msg, sd))
  BY <1>1, <1>5, Zenon DEF Prepared
<1>7. PICK evs \in Seq(Tx), num \in Nat : evs = kept.txs /\ num = Len(evs) /\ num = kept.msg.num
  BY <1>4 DEF Announcement
<1>8. PICK m, front : m = kept.msg /\ front = IndexTx(m, seqs.index)
  BY Zenon
<1>9. m \in Msg /\ m.num = num /\ front.kind = "index" /\ front.msg = m
  BY <1>4, <1>7, <1>8 DEF Announcement, IndexTx
<1>10. Deltas(h) \in {0, 1} /\ (sd => Deltas(h) = 1)
  BY <1>5 DEF Deltas
<1>11. PICK p \in Nat : p = 1 + num + Deltas(h)
  BY ONLY <1>10, SMTT(30)
<1>12. MinimumNumTxs(m, sd) = p
  BY <1>5, <1>9, <1>11, SMTT(30) DEF MinimumNumTxs, Deltas
<1>13. list \in Seq(Tx) /\ PrefixFits(list, p)
  BY <1>3, <1>7, <1>11, Zenon DEF Listed
<1>14. Selection(chosen, list, p)
  BY <1>3, <1>13, SelectedPrefix, Zenon
<1>15. /\ chosen \in Seq(Tx) /\ (MaxGas > 0 => TxsGas(chosen) <= MaxGas)
       /\ \A i \in 1..p : i <= Len(chosen) => chosen[i] = list[i]
  BY <1>14, Zenon DEF Selection
<1>16. Len(chosen) >= p /\ Len(chosen) \in Nat
  <2>1. ~(Len(chosen) < p)
    BY <1>6, <1>8, <1>12, Zenon
  <2>2. chosen \in Seq(Tx)
    BY <1>15, Zenon
  <2> QED
    BY ONLY <2>1, <2>2, p \in Nat
<1>17. \A i \in 1..p : chosen[i] = list[i]
  BY <1>15, <1>16
<1>18. /\ list[1] = front /\ \A i \in 1..num : list[1 + i] = evs[i]
       /\ \A i \in 1..Len(req) : list[1 + num + i] = req[i]
  BY <1>3, <1>7, <1>8, Zenon DEF Listed
<1>19. chosen[1] = front
  BY ONLY <1>11, <1>10, <1>17, <1>18, SMTT(30)
<1>20. SubSeq(chosen, 2, num + 1) = evs
  <2>1. PICK part : part = SubSeq(chosen, 2, num + 1)
    BY Zenon
  <2>2. num + 1 <= Len(chosen)
    BY ONLY <1>10, <1>11, <1>16, SMTT(30)
  <2>3. part \in Seq(Tx) /\ Len(part) = num /\ \A i \in 1..num : part[i] = chosen[1 + i]
    <3>1. PICK all \in Seq(Tx) : all = chosen
      BY <1>15
    <3>2. part = SubSeq(all, 2, num + 1) /\ num + 1 <= Len(all)
      BY <2>1, <2>2, <3>1, ZenonT(30)
    <3>3. part \in Seq(Tx) /\ Len(part) = num /\ \A i \in 1..num : part[i] = all[1 + i]
      BY ONLY <3>2, all \in Seq(Tx), num \in Nat
    <3> QED
      BY <3>1, <3>3, ZenonT(30)
  <2>4. \A i \in 1..num : 1 + i \in 1..p
    BY ONLY <1>10, <1>11, num \in Nat, p \in Nat
  <2>5. \A i \in 1..num : part[i] = evs[i]
    BY <1>17, <1>18, <2>3, <2>4, Zenon
  <2>6. part = evs
    BY <1>7, <2>3, <2>5, SameList, Zenon
  <2> QED
    BY <2>1, <2>6
<1>21. sd => chosen[2 + num] = DeltaTx(seqs.delta)
  <2> SUFFICES ASSUME sd PROVE chosen[2 + num] = DeltaTx(seqs.delta)
    OBVIOUS
  <2>1. Requested(h, mempool, d, seqs, req)
    BY <1>1, RequestShape, ZenonT(30)
  <2>2. req \in Seq(Tx) /\ mempool \in Seq(Tx) /\ Len(req) = 1 + Len(mempool)
        /\ req[1] = DeltaTx(seqs.delta)
    BY <1>5, <1>10, <2>1, ZenonT(30) DEF Requested
  <2>3. 1 \in 1..Len(req) /\ 1 + num + 1 = 2 + num /\ 2 + num \in 1..p
    BY <1>10, <1>11, <2>2
  <2> QED
    BY <1>17, <1>18, <2>2, <2>3, Zenon
<1>22. /\ Len(chosen) > 0 /\ Len(chosen) >= num + 1 /\ (sd => Len(chosen) >= 2 + num)
  BY <1>10, <1>11, <1>16
<1>23. /\ verifyInjectedMsgIndexTx(chosen[1], kept, seqs.index)
       /\ verifyInjectedEventTxs(SubSeq(chosen, 2, num + 1), kept)
       /\ sd => verifyInjectedMsgSupplyDeltaTx(chosen, num, seqs.delta)
       /\ verifyTransactionsInProposal(chosen)
  BY <1>7, <1>8, <1>15, <1>19, <1>20, <1>21, <1>22, Zenon
     DEF verifyInjectedMsgIndexTx, verifyInjectedEventTxs, verifyInjectedMsgSupplyDeltaTx,
         verifyTransactionsInProposal
<1>24. CASE NoEthereumSyncing(m)
  <2>1. num = 0 /\ ~kept.msg.new
    <3>1. ~m.new /\ ~(num > 0)
      BY <1>9, <1>24, Zenon
         DEF NoEthereumSyncing, IsFullEthereumSyncing, IsPartialEthereumSyncing
    <3>2. num = 0
      BY ONLY <3>1, num \in Nat
    <3> QED
      BY <1>8, <3>1, <3>2, Zenon
  <2>2. ~response.ok /\ kept = NoSync(br.lastBlock + 1) /\ br.offset = 0
    BY <1>4, <1>7, <2>1, Zenon
  <2>3. CASE EthSyncDelayExceeded(br, t)
    BY <2>2, <2>3
  <2>4. CASE ~EthSyncDelayExceeded(br, t)
    <3>1. PICK no : no = NoSync(br.lastBlock + 1)
      OBVIOUS
    <3>2. TrimEventsFromHead(no, br.offset) = no
      BY <2>2, Zenon DEF TrimEventsFromHead
    <3>3. KeepEventsFromHead(no, num) = no
      BY <1>7, <2>2, <3>1, Zenon DEF KeepEventsFromHead
    <3>4. no = kept
      BY <2>2, <3>1
    <3> QED
      BY <1>5, <1>6, <1>7, <1>8, <1>9, <1>12, <1>16, <1>19, <1>22, <1>23, <1>24, <2>4, <3>1,
         <3>2, <3>3, <3>4, ZenonT(30) DEF ProcessProposal
  <2> QED
    BY <2>3, <2>4, Zenon
<1>25. CASE ~NoEthereumSyncing(m)
  <2>1. KeepEventsFromHead(rest, num) = kept
    BY <1>4, <1>7
  <2> QED
    BY <1>5, <1>6, <1>7, <1>8, <1>9, <1>12, <1>16, <1>19, <1>22, <1>23, <1>25, <2>1,
       ZenonT(30) DEF ProcessProposal
<1> QED
  BY <1>24, <1>25

(* The last k elements of a list.                                          *)
LEMMA TailShape ==
  ASSUME NEW all \in Seq(Tx), NEW q \in Nat, NEW k \in Nat, q + k = Len(all),
         NEW part, part = SubSeq(all, q + 1, q + k)
  PROVE  part \in Seq(Tx) /\ Len(part) = k /\ \A i \in 1..k : part[i] = all[q + i]
BY SMTT(30)

(***************************************************************************)
(* A list that fits and ends with a native transaction does not fill the   *)
(* block before its end: the last one takes bytes and gas.                 *)
(***************************************************************************)
LEMMA NotFullBefore ==
  ASSUME NEW list \in Seq(Tx), NEW c \in Nat, c + 1 = Len(list), IsChecked(list[c + 1]),
         TxsSize(list) <= MaxTxBytes, MaxGas > 0 => TxsGas(list) <= MaxGas,
         NEW j \in Nat, j <= c
  PROVE  ~Full(Bytes(list, j), Gas(list, j))
<1>1. PICK n \in Nat : n = c + 1
  OBVIOUS
<1>2. n = Len(list) /\ c + 1 \in 1..n /\ c \in 0..n /\ c < n /\ j \in 0..n
  BY ONLY <1>1, c + 1 = Len(list), c \in Nat, j \in Nat, j <= c
<1>3. PICK tx \in Tx : tx = list[c + 1]
  <2>1. list[c + 1] \in Tx
    BY ONLY <1>2, list \in Seq(Tx)
  <2> QED
    BY <2>1, Zenon
<1>4. PICK size, gas \in Nat : size = TxSize(tx) /\ gas = GetGas(tx) /\ size > 0 /\ gas > 0
  <2>1. TxSize(tx) \in Nat /\ GetGas(tx) \in Nat
    BY TxTypes, Zenon
  <2>2. TxSize(tx) = tx.size /\ GetGas(tx) = tx.gas /\ tx.size > 0 /\ tx.gas > 0
    BY <1>3, TxTypes, Zenon DEF IsChecked
  <2> QED
    BY <2>1, <2>2, Zenon
<1>5. /\ Measures(Sizes(list), n) /\ Measures(Gases(list), n)
      /\ Sizes(list)[c + 1] = size /\ Gases(list)[c + 1] = gas
  BY <1>2, <1>3, <1>4, AreMeasures, Zenon
<1>6. /\ Bytes(list, c + 1) = Bytes(list, c) + size /\ Gas(list, c + 1) = Gas(list, c) + gas
      /\ Bytes(list, c) \in Nat /\ Gas(list, c) \in Nat
      /\ Bytes(list, j) \in Nat /\ Gas(list, j) \in Nat
  BY <1>2, <1>5, PrefixSums, Zenon DEF Bytes, Gas
<1>7. Bytes(list, j) <= Bytes(list, c) /\ Gas(list, j) <= Gas(list, c)
  BY <1>2, <1>5, PrefixMonotone, Zenon DEF Bytes, Gas
<1>8. Bytes(list, c + 1) = TxsSize(list) /\ Gas(list, c + 1) = TxsGas(list)
  BY <1>1, <1>2, ListSums, Zenon
<1>9. PICK x, y, v, w \in Nat : /\ x = Bytes(list, j) /\ y = Bytes(list, c)
                                /\ v = Gas(list, j) /\ w = Gas(list, c)
  BY <1>6, Zenon
<1>10. /\ x <= y /\ y + size <= MaxTxBytes /\ v <= w
       /\ MaxGas > 0 => w + gas <= MaxGas
  BY <1>6, <1>7, <1>8, <1>9, Zenon
<1>11. ~(x >= MaxTxBytes) /\ ~(MaxGas > 0 /\ v >= MaxGas)
  BY ONLY <1>4, <1>10, ParamsAssumption, x \in Nat, y \in Nat, v \in Nat, w \in Nat,
          size \in Nat, gas \in Nat
<1> QED
  BY <1>9, <1>11, Zenon DEF Full

(* A list that fits and ends with a native transaction is selected whole.  *)
LEMMA SelectedWhole ==
  ASSUME NEW list \in Seq(Tx), NEW c \in Nat, c + 1 = Len(list), IsChecked(list[c + 1]),
         TxsSize(list) <= MaxTxBytes, MaxGas > 0 => TxsGas(list) <= MaxGas
  PROVE  SelectedTxs(list) = list
<1>1. PICK n \in Nat : n = Len(list) /\ n = c + 1
  OBVIOUS
<1>2. PrefixFits(list, n)
  <2>1. n \in 0..Len(list)
    BY ONLY <1>1, n \in Nat
  <2>2. Bytes(list, n) = TxsSize(list) /\ Gas(list, n) = TxsGas(list)
    BY <1>1, ListSums, Zenon
  <2> QED
    BY <2>1, <2>2, Zenon DEF PrefixFits
<1>3. PICK all : all = SelectedTxs(list)
  OBVIOUS
<1>4. Selection(all, list, n)
  BY <1>2, <1>3, SelectedPrefix, Zenon
<1>5. /\ all \in Seq(Tx)
      /\ \A i \in 1..n : i <= Len(all) => all[i] = list[i]
      /\ Len(all) < n => Full(Bytes(list, Len(all)), Gas(list, Len(all)))
      /\ Len(all) <= n
  BY <1>1, <1>4, Zenon DEF Selection
<1>6. PICK j \in Nat : j = Len(all)
  BY ONLY <1>5
<1>7. j < n => j <= c
  BY ONLY <1>1, j \in Nat, n \in Nat, c \in Nat
<1>8. ~(j < n)
  BY <1>5, <1>6, <1>7, NotFullBefore, Zenon
<1>9. j = n
  BY ONLY <1>5, <1>6, <1>8, j \in Nat, n \in Nat
<1>10. Len(all) = Len(list) /\ \A i \in 1..Len(list) : all[i] = list[i]
  <2>1. \A i \in 1..n : i <= n
    BY ONLY n \in Nat
  <2> QED
    BY <1>1, <1>5, <1>6, <1>9, <2>1, Zenon
<1> QED
  BY <1>3, <1>5, <1>10, SameList, Zenon

(* The list ends, after q transactions, with those of the mempool.         *)
EndsWith(list, pool, q) ==
  /\ q \in Nat /\ Len(list) = q + Len(pool)
  /\ \A i \in 1..Len(pool) : list[q + i] = pool[i]

(* The full list ends with the mempool.                                    *)
LEMMA ListEnds ==
  ASSUME NEW h, NEW pool, NEW d, NEW seqs, NEW req, Requested(h, pool, d, seqs, req),
         NEW list, NEW front, NEW evs \in Seq(Tx), Listed(list, front, evs, req)
  PROVE  \E q : EndsWith(list, pool, q)
<1>1. PICK e, c, k, r \in Nat :
        e = Len(evs) /\ c = Deltas(h) /\ k = Len(pool) /\ r = Len(req)
  <2>1. Len(evs) \in Nat
    BY ONLY evs \in Seq(Tx)
  <2>2. Deltas(h) \in Nat
    BY ONLY DEF Deltas
  <2>3. pool \in Seq(Tx) /\ req \in Seq(Tx)
    BY Zenon DEF Requested
  <2>4. Len(pool) \in Nat /\ Len(req) \in Nat
    BY ONLY <2>3
  <2> QED
    BY <2>1, <2>2, <2>4, Zenon
<1>2. /\ r = c + k /\ Len(list) = 1 + e + r
      /\ \A i \in 1..k : req[c + i] = pool[i]
      /\ \A i \in 1..r : list[1 + e + i] = req[i]
  BY <1>1, Zenon DEF Requested, Listed
<1>3. PICK q \in Nat : q = 1 + e + c
  BY ONLY e \in Nat, c \in Nat
<1>4. /\ 1 + e + r = q + k
      /\ \A i \in 1..k : c + i \in 1..r /\ 1 + e + (c + i) = q + i
  BY ONLY <1>2, <1>3, e \in Nat, c \in Nat, r \in Nat, k \in Nat, q \in Nat
<1>5. \A i \in 1..k : list[q + i] = pool[i]
  BY <1>2, <1>4, Zenon
<1>6. EndsWith(list, pool, q)
  BY <1>1, <1>2, <1>4, <1>5, Zenon DEF EndsWith
<1> QED
  BY <1>6, Zenon

(* The injected transactions leave the mempool the room that it takes.     *)
LeavesRoom(space, d, pool) ==
  /\ space \in Nat /\ space + d + TxsSize(pool) <= MaxTxBytes
  /\ MaxGas > 0 => TxsGas(pool) <= MaxGas

(* The list fits, if the injected transactions fit the space.              *)
LEMMA ListFits ==
  ASSUME NEW h, NEW pool, NEW d, NEW seqs, NEW req, Requested(h, pool, d, seqs, req),
         NEW list, NEW front \in Tx, NEW evs \in Seq(Tx), Listed(list, front, evs, req),
         NEW space, TxSize(front) + TxsSize(evs) <= space, LeavesRoom(space, d, pool)
  PROVE  TxsSize(list) <= MaxTxBytes /\ (MaxGas > 0 => TxsGas(list) <= MaxGas)
<1>1. /\ d \in Nat /\ pool \in Seq(Tx) /\ req \in Seq(Tx)
      /\ TxsSize(req) = d + TxsSize(pool) /\ TxsGas(req) = TxsGas(pool)
      /\ TxsSize(list) = TxSize(front) + TxsSize(evs) + TxsSize(req)
      /\ TxsGas(list) = TxsGas(req)
  BY Zenon DEF Requested, Listed
<1>2. PICK a, b, c, e \in Nat :
        a = TxSize(front) /\ b = TxsSize(evs) /\ c = TxsSize(pool) /\ e = TxsSize(req)
  BY <1>1, TxTypes, ListSums, Zenon
<1>3. /\ a + b <= space /\ e = d + c /\ space + d + c <= MaxTxBytes
      /\ space \in Nat /\ (MaxGas > 0 => TxsGas(pool) <= MaxGas)
  BY <1>1, <1>2, Zenon DEF LeavesRoom
<1>4. a + b + e <= MaxTxBytes
  <2>1. d \in Nat /\ MaxTxBytes \in Nat
    BY <1>1, ParamsAssumption, Zenon
  <2> QED
    BY ONLY <1>3, <2>1, a \in Nat, b \in Nat, c \in Nat, e \in Nat
<1> QED
  BY <1>1, <1>2, <1>3, <1>4, Zenon

(* The block ends with the transactions of the mempool.                    *)
EndsBlock(chosen, mempool) ==
  LET n == Len(chosen) - Len(mempool)
  IN n >= 0 /\ SubSeq(chosen, n + 1, Len(chosen)) = mempool

(***************************************************************************)
(* A mempool that takes no more than its share is in the block to its last *)
(* transaction: the whole list fits, and the walk cannot stop before its   *)
(* end.                                                                    *)
(***************************************************************************)
LEMMA MempoolIsChosen ==
  ASSUME NEW br \in BridgeState, NEW h \in Nat, NEW mempool, IsMempool(mempool),
         NEW response \in Response,
         NEW chosen, NEW d, NEW seqs, NEW req, NEW g, NEW rest, NEW space, NEW kept,
         Prepared(br, h, mempool, response, chosen, d, seqs, req, g, rest, space, kept),
         chosen \in Seq(Tx), LeavesRoom(space, d, mempool)
  PROVE  EndsBlock(chosen, mempool)
<1>1. PICK pool \in Seq(Tx) : pool = mempool
  BY Zenon DEF IsMempool
<1>2. PICK k, j \in Nat : k = Len(pool) /\ j = Len(chosen)
  BY ONLY pool \in Seq(Tx), chosen \in Seq(Tx)
<1>3. CASE k = 0
  <2>1. pool = <<>>
    <3>1. Len(pool) = Len(<<>>) /\ \A i \in 1..Len(<<>>) : pool[i] = <<>>[i]
      BY ONLY <1>2, <1>3
    <3> QED
      BY <3>1, EmptyList, SameList, Zenon
  <2>2. j - 0 = j /\ j >= 0
    BY ONLY j \in Nat
  <2>3. SubSeq(chosen, j + 1, j) = <<>>
    BY ONLY <1>2, chosen \in Seq(Tx)
  <2> QED
    BY <1>1, <1>2, <1>3, <2>1, <2>2, <2>3, Zenon DEF EndsBlock
<1>4. CASE k # 0
  <2>1. HeadsBlock(h, mempool, chosen, d, seqs, req, space, kept)
    BY HeadFits, Zenon
  <2>2. /\ space \in Nat
        /\ \E list : /\ Listed(list, IndexTx(kept.msg, seqs.index), kept.txs, req)
                     /\ chosen = SelectedTxs(list)
                     /\ PrefixFits(list, 1 + Len(kept.txs) + Deltas(h))
    BY <2>1, Zenon DEF HeadsBlock
  <2>3. KeptAs(br, response, seqs, rest, space, kept)
    BY <2>2, KeptShape, Zenon
  <2>4. Requested(h, mempool, d, seqs, req)
    BY RequestShape, Zenon
  <2>5. PICK evs \in Seq(Tx), front \in Tx :
          /\ evs = kept.txs /\ front = IndexTx(kept.msg, seqs.index)
          /\ TxSize(front) + TxsSize(evs) <= space
    BY <2>3, Zenon DEF KeptAs, Announcement, IndexTx, Tx
  <2>6. PICK list : Listed(list, front, evs, req) /\ chosen = SelectedTxs(list)
    BY <2>2, <2>5, Zenon
  <2>7. PICK q : EndsWith(list, pool, q)
    BY <1>1, <2>4, <2>6, ListEnds, Zenon
  <2>8. list \in Seq(Tx) /\ q \in Nat /\ Len(list) = q + k
        /\ \A i \in 1..k : list[q + i] = pool[i]
    BY <1>2, <2>6, <2>7, Zenon DEF EndsWith, Listed
  <2>9. TxsSize(list) <= MaxTxBytes /\ (MaxGas > 0 => TxsGas(list) <= MaxGas)
    BY <2>4, <2>5, <2>6, ListFits, Zenon
  <2>10. PICK c \in Nat : c + 1 = q + k
    <3>1. (q + k) - 1 \in Nat /\ ((q + k) - 1) + 1 = q + k
      BY ONLY <1>4, <2>8, k \in Nat
    <3> QED
      BY <3>1, Zenon
  <2>11. IsChecked(list[c + 1])
    <3>1. k \in 1..k /\ k \in DOMAIN pool
      BY ONLY <1>2, <1>4, k \in Nat, pool \in Seq(Tx)
    <3> QED
      BY <1>1, <2>8, <2>10, <3>1, Zenon DEF IsMempool
  <2>12. chosen = list
    BY <2>6, <2>8, <2>9, <2>10, <2>11, SelectedWhole, Zenon
  <2>13. j = q + k /\ j - k = q /\ q >= 0
    <3>1. j = q + k
      BY <1>2, <2>8, <2>12, Zenon
    <3> QED
      BY ONLY <2>8, <3>1, k \in Nat
  <2>14. SubSeq(list, q + 1, q + k) = pool
    <3>1. PICK part : part = SubSeq(list, q + 1, q + k)
      BY Zenon
    <3>2. part \in Seq(Tx) /\ Len(part) = k /\ \A i \in 1..k : part[i] = list[q + i]
      BY ONLY <2>8, <3>1, TailShape, k \in Nat
    <3>3. part = pool
      BY <1>2, <2>8, <3>2, SameList, Zenon
    <3> QED
      BY <3>1, <3>3, Zenon
  <2> QED
    BY <1>1, <1>2, <2>12, <2>13, <2>14, Zenon DEF EndsBlock
<1> QED
  BY <1>3, <1>4, Zenon

(* What PrepareProposal makes is within the limits of the block.           *)
WithinLimits(h, mempool, chosen) ==
  LET d == IF IsMsgSupplyDeltaBlock(h) THEN DeltaTxSize ELSE 0
  IN /\ TxsSize(chosen) <= MaxTxBytes
     /\ MaxGas > 0 => TxsGas(chosen) <= MaxGas
     /\ /\ TxsSize(mempool) * AllocDen <= AllocNum * (MaxTxBytes - d)
        /\ MaxGas > 0 => TxsGas(mempool) <= MaxGas
        => EndsBlock(chosen, mempool)

(* What PrepareProposal makes fits, and holds a mempool within its share   *)
(* entirely.                                                               *)
LEMMA PreparedWithinLimits ==
  ASSUME NEW br \in BridgeState, NEW h \in Nat, NEW mempool, IsMempool(mempool),
         NEW response \in Response, NEW chosen,
         chosen = PrepareProposal(br, h, mempool, response), IsIndexFirst(chosen)
  PROVE  WithinLimits(h, mempool, chosen)
<1>1. PICK d, seqs, req, g, rest, space, kept :
        Prepared(br, h, mempool, response, chosen, d, seqs, req, g, rest, space, kept)
  BY PreparedParts
<1>2. d = IF IsMsgSupplyDeltaBlock(h) THEN DeltaTxSize ELSE 0
  BY <1>1, Zenon DEF Prepared
<1>3. HeadsBlock(h, mempool, chosen, d, seqs, req, space, kept)
  BY <1>1, HeadFits, Zenon
<1>4. PICK list, p : /\ list \in Seq(Tx) /\ chosen = SelectedTxs(list)
                     /\ PrefixFits(list, p)
  <2>1. PICK list : /\ Listed(list, IndexTx(kept.msg, seqs.index), kept.txs, req)
                    /\ chosen = SelectedTxs(list)
                    /\ PrefixFits(list, 1 + Len(kept.txs) + Deltas(h))
    BY <1>3, Zenon DEF HeadsBlock
  <2>2. list \in Seq(Tx)
    BY <2>1, Zenon DEF Listed
  <2> QED
    BY <2>1, <2>2, Zenon
<1>5. Selection(chosen, list, p)
  BY <1>4, SelectedPrefix, Zenon
<1>6. /\ chosen \in Seq(Tx) /\ TxsSize(chosen) <= MaxTxBytes
      /\ MaxGas > 0 => TxsGas(chosen) <= MaxGas
  BY <1>5, Zenon DEF Selection
<1>7. ASSUME TxsSize(mempool) * AllocDen <= AllocNum * (MaxTxBytes - d),
             MaxGas > 0 => TxsGas(mempool) <= MaxGas
      PROVE  EndsBlock(chosen, mempool)
  <2>1. LeavesRoom(space, d, mempool)
    BY <1>3, <1>7, Zenon DEF HeadsBlock, LeavesRoom
  <2> QED
    BY <1>1, <1>6, <2>1, MempoolIsChosen, Zenon
<1> QED
  BY <1>2, <1>6, <1>7, Zenon DEF WithinLimits

-----------------------------------------------------------------------------
(* The proposals of a chain                                                *)

(* The types of the state that proposals are made of.                      *)
ChainTypes ==
  /\ height \in Nat /\ time \in Nat /\ bridge \in BridgeState
  /\ proposal.txs \in Seq(Tx) /\ proposal.time \in Nat /\ proposal.response \in Response
  /\ delivered \in Nat /\ sidecar \in [Honest -> 0..MaxEthBlock]

(* The events of an Ethereum block, as a sidecar answers them.             *)
LEMMA BlockEventsTypes ==
  ASSUME NEW b \in 1..MaxEthBlock
  PROVE  BlockEvents(b) \in Seq(Event)
<1>1. /\ EthLog \in Seq(Event) /\ Len(EthLog) \in Nat
      /\ \A k \in 1..Len(EthLog) : EthLog[k] \in Event
  BY ChainAssumption
<1>2. b \in 0..MaxEthBlock /\ b - 1 \in 0..MaxEthBlock
  BY ChainAssumption
<1>3. PICK lo, hi : lo = End[b - 1] /\ hi = End[b]
  OBVIOUS
<1>4. lo \in 0..Len(EthLog) /\ hi \in 0..Len(EthLog) /\ lo <= hi
  BY <1>2, <1>3, ChainAssumption
<1>5. \A i \in 1..(hi - lo) : EthLog[lo + i] \in Event
  BY <1>1, <1>4
<1>6. PICK s : s = [i \in 1..(hi - lo) |-> EthLog[lo + i]]
  BY Zenon
<1>7. s \in Seq(Event)
  BY ONLY <1>1, <1>4, <1>5, <1>6, SMTT(30)
<1> QED
  BY <1>3, <1>6, <1>7, Zenon DEF BlockEvents

(* The answer of a sidecar, truthful or an error, is of the type of an     *)
(* answer.                                                                 *)
LEMMA AnswerTypes ==
  ASSUME ChainTypes, NEW v \in Honest
  PROVE  GetBlockEvents(v, bridge.lastBlock + 1) \in Response
<1>1. PICK b : b = bridge.lastBlock + 1
  OBVIOUS
<1>2. b \in Nat \ {0} /\ sidecar[v] \in 0..MaxEthBlock /\ MaxEthBlock \in Nat
  BY <1>1, ChainAssumption, SMTT(30) DEF ChainTypes, BridgeState
<1>3. CASE v \notin down /\ b <= sidecar[v]
  <2>1. b \in 1..MaxEthBlock
    BY <1>2, <1>3
  <2>2. BlockEvents(b) \in Seq(Event)
    BY <2>1, BlockEventsTypes
  <2>3. GetBlockEvents(v, b) = SidecarAnswer(BlockEvents(b))
    BY <1>3 DEF GetBlockEvents
  <2>4. PICK events \in Seq(Event) : events = BlockEvents(b)
    BY <2>2, Zenon
  <2>5. [ok |-> TRUE, events |-> events] \in [ok : BOOLEAN, events : Seq(Event)]
    BY Zenon
  <2> QED
    BY <1>1, <2>3, <2>4, <2>5, Zenon DEF SidecarAnswer, Response
<1>4. CASE ~(v \notin down /\ b <= sidecar[v])
  BY <1>1, <1>4 DEF GetBlockEvents, SidecarError, Response
<1> QED
  BY <1>3, <1>4

(* MsgIndex moves the bridge's state within its types.                     *)
LEMMA IndexTypes ==
  ASSUME ChainTypes, NEW m \in Msg
  PROVE  IndexAfter(m) \in BridgeState
<1>1. PICK l, o, s, t, c, num, block \in Nat :
        /\ l = bridge.lastBlock /\ o = bridge.offset /\ s = bridge.lastSeq
        /\ t = proposal.time /\ c = SupplyDeltaCount /\ num = m.num /\ block = m.block
  <2>1. SupplyDeltaCount \in Nat
    BY ONLY DEF SupplyDeltaCount
  <2> QED
    BY <2>1, Zenon DEF ChainTypes, BridgeState, Msg
<1>2. PICK full, none \in BOOLEAN : full = IsFullEthereumSyncing(m) /\ none = NoEthereumSyncing(m)
  BY Zenon DEF IsFullEthereumSyncing, NoEthereumSyncing, Msg
<1>3. PICK nl, no, ns \in Nat, nu \in Nat \cup {NotFound} :
        /\ nl = (IF full THEN block ELSE l) /\ no = (IF full THEN 0 ELSE o + num)
        /\ ns = s + num + c + 1 /\ nu = (IF none THEN bridge.updateTime ELSE t)
  <2>1. (IF none THEN bridge.updateTime ELSE t) \in Nat \cup {NotFound}
    BY Zenon DEF ChainTypes, BridgeState
  <2>2. /\ (IF full THEN block ELSE l) \in Nat /\ (IF full THEN 0 ELSE o + num) \in Nat
        /\ s + num + c + 1 \in Nat
    BY ONLY l \in Nat, o \in Nat, s \in Nat, c \in Nat, num \in Nat, block \in Nat
  <2> QED
    BY <2>1, <2>2, Zenon
<1>4. IndexAfter(m) = [bridge EXCEPT !.lastBlock = nl, !.offset = no, !.updateTime = nu,
                                     !.lastSeq = ns]
  BY <1>1, <1>2, <1>3, Zenon DEF IndexAfter
<1>5. PICK x : x = [bridge EXCEPT !.lastBlock = nl, !.offset = no, !.updateTime = nu,
                                  !.lastSeq = ns]
  BY Zenon
<1>6. x = [lastBlock |-> nl, offset |-> no, updateTime |-> nu, lastSeq |-> ns]
  BY <1>5, Zenon DEF ChainTypes, BridgeState
<1>7. [lastBlock |-> nl, offset |-> no, updateTime |-> nu, lastSeq |-> ns] \in BridgeState
  BY Zenon DEF BridgeState
<1> QED
  BY <1>4, <1>5, <1>6, <1>7, Zenon

(* A delivered transaction leaves the bridge state well typed.             *)
LEMMA DeliverTypes ==
  ASSUME ChainTypes, DeliverTx
  PROVE  bridge' \in BridgeState
<1>1. PICK tx : tx = proposal.txs[delivered + 1]
  BY ZenonT(30)
<1>2. tx \in Tx
  BY <1>1 DEF ChainTypes, DeliverTx
<1>3. \/ bridge' = bridge
      \/ tx.kind = "index" /\ bridge' = IndexAfter(tx.msg)
  BY <1>1, Zenon DEF DeliverTx, Index, ExecEvent, SupplyDelta, ExecNative
<1>4. tx.kind = "index" => tx.msg \in Msg
  BY <1>2 DEF Tx
<1> QED
  BY <1>3, <1>4, IndexTypes DEF ChainTypes

(* Every step keeps the types.                                             *)
LEMMA NextChainTypes ==
  ASSUME ChainTypes, [Next]_vars
  PROVE  ChainTypes'
<1>1. ASSUME UNCHANGED <<height, time, bridge, proposal>>, delivered' \in Nat,
             sidecar' \in [Honest -> 0..MaxEthBlock]
      PROVE  ChainTypes'
  BY <1>1, Zenon DEF ChainTypes
<1>2. /\ delivered \in Nat /\ sidecar \in [Honest -> 0..MaxEthBlock] /\ MaxEthBlock \in Nat
      /\ bridge \in BridgeState /\ height \in Nat /\ time \in Nat
      /\ proposal.txs \in Seq(Tx) /\ proposal.time \in Nat /\ proposal.response \in Response
  BY ChainAssumption DEF ChainTypes
<1>3. ASSUME NEW txs, NEW t \in Nat, NEW honest, NEW response \in Response, NEW mempool,
             Propose(txs, t, honest, response, mempool)
      PROVE  ChainTypes'
  <2>1. /\ txs \in Seq(Tx) /\ UNCHANGED <<height, time, bridge, delivered, sidecar>>
        /\ proposal' = [txs |-> txs, time |-> t, honest |-> honest, response |-> response,
                        mempool |-> mempool]
    BY <1>3, Zenon DEF Propose, chain, nodes
  <2>2. proposal'.txs = txs /\ proposal'.time = t /\ proposal'.response = response
    BY ONLY <2>1
  <2> QED
    BY <1>2, <1>3, <2>1, <2>2, Zenon DEF ChainTypes
<1>4. SidecarError \in Response
  BY DEF SidecarError, Response
<1>5. \A dt \in BlockIntervals : time + dt \in Nat
  <2>1. time \in Nat /\ BlockIntervals \subseteq Nat
    BY <1>2, ChainAssumption, Zenon
  <2> QED
    BY ONLY <2>1
<1>6. ASSUME proposal' = NoProposal
      PROVE  proposal'.txs \in Seq(Tx) /\ proposal'.time \in Nat /\ proposal'.response \in Response
  <2>1. proposal'.txs = <<>> /\ proposal'.time = 0 /\ proposal'.response = SidecarError
    BY ONLY <1>6 DEF NoProposal
  <2>2. 0 \in Nat
    BY ONLY SMT
  <2> QED
    BY <1>4, <2>1, EmptyList, <2>2, Zenon
<1>7. ASSUME NEW v \in Honest, SidecarSync(v) PROVE ChainTypes'
  <2>1. sidecar' \in [Honest -> 0..MaxEthBlock]
    BY <1>2, <1>7 DEF SidecarSync
  <2> QED
    BY <1>1, <1>2, <1>7, <2>1, Zenon DEF SidecarSync, chain, round
<1>8. ASSUME NEW v \in Honest, SidecarDown(v) \/ SidecarUp(v) PROVE ChainTypes'
  BY <1>1, <1>2, <1>8, Zenon DEF SidecarDown, SidecarUp, chain, round
<1>9. ASSUME NEW v \in Honest, PrepareBlock(v) PROVE ChainTypes'
  <2>1. PICK response : response = GetBlockEvents(v, bridge.lastBlock + 1)
    OBVIOUS
  <2>2. response \in Response
    BY <2>1, AnswerTypes
  <2>3. PICK mempool \in Mempools, dt \in BlockIntervals :
          Propose(PrepareProposal(bridge, height, mempool, response),
                  time + dt, TRUE, response, mempool)
    BY <1>9, <2>1, Zenon DEF PrepareBlock
  <2> QED
    BY <1>3, <1>5, <2>2, <2>3, Zenon
<1>10. ASSUME ProposeArbitrary PROVE ChainTypes'
  <2>1. PICK dt \in BlockIntervals, tx \in ArbitraryIndexTxs, evs \in ArbitraryEventTxs,
               tail \in ArbitraryTails :
          Propose(<<tx>> \o evs \o tail, time + dt, FALSE, SidecarError, <<>>)
    BY <1>10, Zenon DEF ProposeArbitrary
  <2> QED
    BY <1>3, <1>4, <1>5, <2>1, Zenon
<1>11. ASSUME NEW v \in Honest, VerifyBlock(v) PROVE ChainTypes'
  BY <1>1, <1>2, <1>11, Zenon DEF VerifyBlock, chain, nodes
<1>12. ASSUME Decide PROVE ChainTypes'
  <2>1. delivered' = 0 /\ 0 \in Nat
    BY <1>12 DEF Decide
  <2> QED
    BY <1>1, <1>2, <1>12, <2>1, Zenon DEF Decide, chain, nodes
<1>13. ASSUME NextRound PROVE ChainTypes'
  BY <1>2, <1>6, <1>13, Zenon DEF NextRound, chain, nodes, ChainTypes
<1>14. ASSUME DeliverTx PROVE ChainTypes'
  <2>1. delivered' = delivered + 1 /\ delivered + 1 \in Nat
    BY <1>2, <1>14 DEF DeliverTx
  <2> QED
    BY <1>2, <1>14, <2>1, DeliverTypes, Zenon DEF DeliverTx, nodes, ChainTypes
<1>15. ASSUME EndBlock PROVE ChainTypes'
  <2>1. delivered' = 0 /\ 0 \in Nat /\ height + 1 \in Nat
    BY <1>2, <1>15 DEF EndBlock
  <2>2. sidecar' = sidecar /\ bridge' = bridge
    BY <1>15, Zenon DEF EndBlock, nodes
  <2>3. \/ height' = height + 1 /\ time' = proposal.time /\ proposal' = NoProposal
        \/ UNCHANGED <<height, time, proposal>>
    BY <1>15, Zenon DEF EndBlock
  <2> QED
    BY <1>2, <1>6, <2>1, <2>2, <2>3, Zenon DEF ChainTypes
<1>16. ASSUME Finished \/ UNCHANGED vars PROVE ChainTypes'
  BY <1>1, <1>2, <1>16, Zenon DEF Finished, vars, chain, round, nodes
<1> QED
  BY <1>7, <1>8, <1>9, <1>10, <1>11, <1>12, <1>13, <1>14, <1>15, <1>16, Zenon DEF Next

(***************************************************************************)
(* While a proposal is verified, one of an honest proposer is what         *)
(* PrepareProposal makes of the state that the validators verify it in,    *)
(* and not only of the one it was prepared in.                             *)
(***************************************************************************)
ProposalInv ==
  phase = "verify" /\ proposal.honest =>
    /\ proposal.mempool \in Mempools
    /\ proposal.txs = PrepareProposal(bridge, height, proposal.mempool, proposal.response)

(* Every step keeps the invariant.                                         *)
LEMMA NextProposalInv ==
  ASSUME ProposalInv, [Next]_vars
  PROVE  ProposalInv'
<1>1. ASSUME UNCHANGED <<bridge, height, phase, proposal>> PROVE ProposalInv'
  BY <1>1, Zenon DEF ProposalInv
<1>2. ASSUME phase' # "verify" PROVE ProposalInv'
  BY <1>2 DEF ProposalInv
<1>3. ASSUME NEW v \in Honest, SidecarSync(v) \/ SidecarDown(v) \/ SidecarUp(v) PROVE ProposalInv'
  BY <1>1, <1>3, Zenon DEF SidecarSync, SidecarDown, SidecarUp, chain, round
<1>4. ASSUME NEW v \in Honest, PrepareBlock(v) PROVE ProposalInv'
  <2>1. PICK response : response = GetBlockEvents(v, bridge.lastBlock + 1)
    OBVIOUS
  <2>2. PICK mempool \in Mempools, dt \in BlockIntervals :
          Propose(PrepareProposal(bridge, height, mempool, response),
                  time + dt, TRUE, response, mempool)
    BY <1>4, <2>1, Zenon DEF PrepareBlock
  <2>3. PICK txs : txs = PrepareProposal(bridge, height, mempool, response)
    OBVIOUS
  <2>4. /\ proposal' = [txs |-> txs, time |-> time + dt, honest |-> TRUE,
                        response |-> response, mempool |-> mempool]
        /\ bridge' = bridge /\ height' = height
    BY <2>2, <2>3, Zenon DEF Propose, chain
  <2>5. proposal'.txs = txs /\ proposal'.mempool = mempool /\ proposal'.response = response
    BY ONLY <2>4
  <2> QED
    BY <2>3, <2>4, <2>5, Zenon DEF ProposalInv
<1>5. ASSUME ProposeArbitrary PROVE ProposalInv'
  <2>1. PICK txs, t : Propose(txs, t, FALSE, SidecarError, <<>>)
    BY <1>5, Zenon DEF ProposeArbitrary
  <2>2. proposal' = [txs |-> txs, time |-> t, honest |-> FALSE, response |-> SidecarError,
                     mempool |-> <<>>]
    BY <2>1, Zenon DEF Propose
  <2>3. proposal'.honest = FALSE
    BY <2>2
  <2> QED
    BY <2>3 DEF ProposalInv
<1>6. ASSUME NEW v \in Honest, VerifyBlock(v) PROVE ProposalInv'
  BY <1>1, <1>6, Zenon DEF VerifyBlock, chain
<1>7. ASSUME Decide PROVE ProposalInv'
  <2>1. phase' = "deliver"
    BY <1>7 DEF Decide
  <2> QED
    BY <1>2, <2>1
<1>8. ASSUME NextRound PROVE ProposalInv'
  <2>1. phase' = "propose"
    BY <1>8 DEF NextRound
  <2> QED
    BY <1>2, <2>1
<1>9. ASSUME DeliverTx PROVE ProposalInv'
  <2>1. phase' = "deliver"
    BY <1>9 DEF DeliverTx
  <2> QED
    BY <1>2, <2>1, ZenonT(30)
<1>10. ASSUME EndBlock PROVE ProposalInv'
  <2>1. phase' \in {"propose", "halted"}
    BY <1>10 DEF EndBlock
  <2> QED
    BY <1>2, <2>1
<1>11. ASSUME Finished \/ UNCHANGED vars PROVE ProposalInv'
  BY <1>1, <1>11, Zenon DEF Finished, vars, chain, round
<1> QED
  BY <1>3, <1>4, <1>5, <1>6, <1>7, <1>8, <1>9, <1>10, <1>11, Zenon DEF Next

(* The proposal of an honest validator is always one that PrepareProposal  *)
(* made.                                                                   *)
LEMMA ProposalsAreMade == Spec => [](ChainTypes /\ ProposalInv)
<1>1. Init => ProposalInv
  BY DEF Init, ProposalInv
<1>2. ASSUME Init PROVE ChainTypes
  <2>1. /\ height = 1 /\ time = 0 /\ proposal = NoProposal /\ delivered = 0
        /\ bridge \in [lastBlock : {0}, offset : {0}, updateTime : GenesisUpdateTimes,
                       lastSeq : {0}]
        /\ sidecar = [v \in Honest |-> 0]
    BY <1>2, Zenon DEF Init
  <2>2. proposal.txs = <<>> /\ proposal.time = 0 /\ proposal.response = SidecarError
    BY ONLY <2>1, SMTT(30) DEF NoProposal
  <2>3. SidecarError \in Response
    BY DEF SidecarError, Response
  <2>4. bridge \in BridgeState
    <3>1. GenesisUpdateTimes \subseteq Nat \cup {NotFound} /\ {0} \subseteq Nat
      BY ChainAssumption
    <3> QED
      BY <2>1, <3>1, Zenon DEF BridgeState
  <2>5. sidecar \in [Honest -> 0..MaxEthBlock]
    BY <2>1, ChainAssumption
  <2> QED
    BY <2>1, <2>2, <2>3, <2>4, <2>5 DEF ChainTypes
<1> QED
  BY <1>1, <1>2, NextProposalInv, NextChainTypes, PTL DEF Spec

(* What the lemmas about PrepareProposal need of a prepared proposal.      *)
LEMMA PreparedTypes ==
  ASSUME ChainTypes, ProposalInv, IsPrepared
  PROVE  /\ bridge \in BridgeState /\ height \in Nat
         /\ IsMempool(proposal.mempool) /\ proposal.response \in Response
         /\ proposal.txs = PrepareProposal(bridge, height, proposal.mempool, proposal.response)
         /\ IsIndexFirst(proposal.txs)
<1>1. bridge \in BridgeState /\ height \in Nat /\ proposal.response \in Response
  BY DEF ChainTypes
<1>4. /\ phase = "verify" /\ proposal.honest /\ IsIndexFirst(proposal.txs)
  BY DEF IsPrepared, IsIndexFirst
<1>5. /\ proposal.mempool \in Mempools
      /\ proposal.txs = PrepareProposal(bridge, height, proposal.mempool, proposal.response)
  BY <1>4, Zenon DEF ProposalInv
<1>6. IsMempool(proposal.mempool)
  BY <1>5, ChainAssumption, Zenon DEF IsMempool
<1> QED
  BY <1>1, <1>4, <1>5, <1>6

(***************************************************************************)
(* A validator whose sidecar gives the proposer's answer accepts what      *)
(* PrepareProposal made, unless the proposer did not synchronise and       *)
(* MaxEthBlockUpdateDelay is exceeded: both handlers generate, trim and    *)
(* keep the same events, and the selector takes all injected transactions. *)
(***************************************************************************)
THEOREM PreparedAlwaysAccepted == Spec => []PreparedIsAccepted
<1>1. ASSUME ChainTypes, ProposalInv PROVE PreparedIsAccepted
  <2> SUFFICES ASSUME IsPrepared
               PROVE  \/ ProcessProposal(bridge, height, proposal.time, proposal.txs,
                                         proposal.response)
                      \/ /\ ~proposal.response.ok
                         /\ EthSyncDelayExceeded(bridge, proposal.time)
    BY Zenon DEF PreparedIsAccepted
  <2> QED
    BY <1>1, PreparedTypes, PreparedAccepted, Zenon
<1> QED
  BY <1>1, ProposalsAreMade, PTL

(***************************************************************************)
(* What PrepareProposal returns fits the block's bytes and gas, and a      *)
(* mempool that takes no more than SequencerTxsAllocation of it is in the  *)
(* proposal to its last transaction.                                       *)
(***************************************************************************)
THEOREM PreparedAlwaysFits == Spec => []PreparedFits
<1>1. ASSUME ChainTypes, ProposalInv PROVE PreparedFits
  <2> SUFFICES ASSUME IsPrepared PROVE PreparedFits
    BY Zenon DEF PreparedFits
  <2>1. /\ bridge \in BridgeState /\ height \in Nat
        /\ IsMempool(proposal.mempool) /\ proposal.response \in Response
        /\ proposal.txs = PrepareProposal(bridge, height, proposal.mempool, proposal.response)
        /\ IsIndexFirst(proposal.txs)
    BY <1>1, PreparedTypes, Zenon
  <2>2. WithinLimits(height, proposal.mempool, proposal.txs)
    BY <2>1, PreparedWithinLimits, Zenon
  <2> QED
    BY <2>2, Zenon DEF WithinLimits, EndsBlock, PreparedFits
<1> QED
  BY <1>1, ProposalsAreMade, PTL
=============================================================================
