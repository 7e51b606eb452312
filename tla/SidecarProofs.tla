---------------------------- MODULE SidecarProofs ----------------------------
(***************************************************************************)
(* Proofs about Sidecar: whatever the interleaving of the thread, the      *)
(* queries, pruning and restarts, and for every list of logs, range,       *)
(* buffer, start and bound.  The first part is about processLogs: its fold *)
(* over the logs is followed log by log.  The second part has the          *)
(* inductive invariant of the thread, the store and the queries.           *)
(***************************************************************************)
EXTENDS Sidecar, FoldFacts, TLAPS

-----------------------------------------------------------------------------
(* Logs                                                                    *)

(* EventsIn reads the logs from left to right: run[k] is what it has after *)
(* k of them.                                                              *)
IsEventRun(run, logs, b) ==
  /\ run \in [0..Len(logs) -> Seq(Int)]
  /\ run[0] = <<>>
  /\ \A k \in 1..Len(logs) :
       run[k] = IF IsEvent(logs[k], b) THEN Append(run[k - 1], logs[k].event) ELSE run[k - 1]
  /\ EventsIn(logs, b) = run[Len(logs)]

(* The fields of a log are of their types.                                 *)
LEMMA LogFields ==
  ASSUME NEW l \in Log
  PROVE  /\ l.block \in Blocks /\ l.block \in Nat /\ l.tx \in Nat /\ l.index \in Nat
         /\ l.removed \in BOOLEAN /\ l.event \in Int /\ (l.event # Malformed => l.event \in Nat)
BY SidecarAssumption DEF Log, Blocks, Malformed

(* EventsIn is the last value of such a run.                               *)
LEMMA EventRunExists ==
  ASSUME NEW logs \in Seq(Log), NEW b
  PROVE  \E run : IsEventRun(run, logs, b)
<1> DEFINE n == Len(logs)
           op(events, l) == IF IsEvent(l, b) THEN Append(events, l.event) ELSE events
           Rec(g) == g = [k \in 0..Len(logs) |->
                            IF k = 0 THEN <<>>
                            ELSE IF IsEvent(logs[k], b) THEN Append(g[k - 1], logs[k].event)
                            ELSE g[k - 1]]
<1>1. n \in Nat /\ \A i \in 1..n : logs[i] \in Log
  OBVIOUS
<1>2. PICK step : step = [p \in (1..n) \X Seq(Int) |-> op(p[2], logs[p[1]])]
  BY Zenon
<1>3. \A i \in 1..n, v \in Seq(Int) : op(v, logs[i]) \in Seq(Int)
  BY <1>1, LogFields
<1>4. step \in [(1..n) \X Seq(Int) -> Seq(Int)] /\ <<>> \in Seq(Int)
  BY <1>2, <1>3
<1>5. \A i \in 1..n, v \in Seq(Int) : step[<<i, v>>] = op(v, logs[i])
  BY <1>2
<1>6. PICK it : IsRun(it, n, Seq(Int), <<>>, step)
  <2> HIDE DEF n, op
  <2> QED
    BY <1>1, <1>4, RunExists, Zenon
<1>7. \A k \in 1..n : k \in 0..n /\ k # 0 /\ k - 1 \in 0..n
  BY <1>1
<1>8. Rec(it)
  <2>1. /\ it \in [0..n -> Seq(Int)] /\ it[0] = <<>>
        /\ \A k \in 1..n : it[k] = step[<<k, it[k - 1]>>]
    BY <1>6 DEF IsRun
  <2>2. \A k \in 1..n : it[k] = op(it[k - 1], logs[k])
    <3> HIDE DEF n, op
    <3> QED
      BY <1>5, <1>7, <2>1, Zenon
  <2>3. \A k \in 0..n : k # 0 => k \in 1..n
    BY <1>1
  <2> QED
    BY <2>1, <2>2, <2>3, Zenon
<1>9. PICK g : g = (CHOOSE h : Rec(h)) /\ Rec(g)
  <2> HIDE DEF Rec
  <2> QED
    BY <1>8, Zenon
<1>10. EventsIn(logs, b) = g[n]
  BY <1>9, Zenon DEF EventsIn
<1>11. g[0] = <<>> /\ \A k \in 1..n : g[k] = op(g[k - 1], logs[k])
  <2>1. 0 \in 0..n
    BY <1>1
  <2>2. g[0] = <<>>
    BY <1>9, <2>1, Zenon
  <2>3. ASSUME NEW k \in 1..n
        PROVE  g[k] = op(g[k - 1], logs[k])
    BY <1>7, <1>9, Zenon
  <2> QED
    BY <2>2, <2>3
<1>12. PICK run : IsRunOf(run, g, n, Seq(Int), <<>>, step)
  <2> HIDE DEF n, op, Rec
  <2>1. Follows(g, n, Seq(Int), <<>>, step)
    BY <1>5, <1>11 DEF Follows
  <2> QED
    BY <1>1, <1>4, <2>1, RunOfRecursion, Zenon
<1>13. /\ run \in [0..n -> Seq(Int)] /\ run[0] = <<>>
       /\ \A k \in 1..n : run[k] = op(run[k - 1], logs[k])
  <2> HIDE DEF n, op
  <2>1. /\ run \in [0..n -> Seq(Int)] /\ run[0] = <<>>
        /\ \A k \in 1..n : run[k] = step[<<k, run[k - 1]>>]
    BY <1>12 DEF IsRunOf, IsRun
  <2> QED
    BY <1>5, <1>7, <2>1, Zenon
<1> QED
  BY <1>10, <1>12, <1>13 DEF IsRunOf, IsEventRun

(* The state of processLogs.                                               *)
Acc == [ok : BOOLEAN, block : Int, tx : Int, index : Int, events : [Blocks -> Seq(Int)]]

Start(from) == [ok |-> TRUE, block |-> from, tx |-> -1, index |-> -1, events |-> NoEvents]

(* run[k] is the state of processLogs after k of the logs.                 *)
IsLogRun(run, logs, from) ==
  /\ run \in [0..Len(logs) -> Acc]
  /\ run[0] = Start(from)
  /\ \A k \in 1..Len(logs) : run[k] = ProcessLog(run[k - 1], logs[k])
  /\ processLogs(logs, from) = run[Len(logs)]

(* The three things that processLogs does with a log.                      *)
LEMMA ProcessLogCases ==
  ASSUME NEW acc \in Acc, NEW l \in Log
  PROVE  /\ ProcessLog(acc, l) \in Acc
         /\ l.removed \/ ~acc.ok => ProcessLog(acc, l) = acc
         /\ ~l.removed /\ acc.ok /\ ProcessLog(acc, l).ok =>
              /\ IsLogSequential(acc, l) /\ l.event # Malformed
              /\ ProcessLog(acc, l).block = l.block
              /\ ProcessLog(acc, l).tx = l.tx
              /\ ProcessLog(acc, l).index = l.index
              /\ ProcessLog(acc, l).events =
                   [acc.events EXCEPT ![l.block] = IF l.event = Unrecognized THEN @
                                                   ELSE Append(@, l.event)]
<1>1. /\ l.block \in Blocks /\ l.block \in Nat /\ l.tx \in Nat /\ l.index \in Nat
      /\ l.removed \in BOOLEAN /\ l.event \in Int
  BY LogFields
<1>2. acc.events \in [Blocks -> Seq(Int)] /\ acc.ok \in BOOLEAN
  BY DEF Acc
<1>3. PICK ev : ev = [acc.events EXCEPT ![l.block] = IF l.event = Unrecognized THEN @
                                                     ELSE Append(@, l.event)]
  BY Zenon
<1>4. ev \in [Blocks -> Seq(Int)]
  <2>1. acc.events[l.block] \in Seq(Int)
    BY <1>1, <1>2
  <2>2. Append(acc.events[l.block], l.event) \in Seq(Int)
    BY <1>1, <2>1
  <2> QED
    BY <1>1, <1>2, <1>3, <2>1, <2>2
<1>5. CASE l.removed \/ ~acc.ok
  BY <1>5 DEF ProcessLog
<1>6. CASE ~(l.removed \/ ~acc.ok) /\ (~IsLogSequential(acc, l) \/ l.event = Malformed)
  <2>1. ProcessLog(acc, l) = [acc EXCEPT !.ok = FALSE]
    BY <1>6 DEF ProcessLog
  <2>2. ProcessLog(acc, l) \in Acc /\ ~ProcessLog(acc, l).ok
    BY <2>1, Zenon DEF Acc
  <2> QED
    BY <1>6, <2>2
<1>7. CASE ~(l.removed \/ ~acc.ok) /\ ~(~IsLogSequential(acc, l) \/ l.event = Malformed)
  <2>1. ProcessLog(acc, l) =
          [ok |-> acc.ok, block |-> l.block, tx |-> l.tx, index |-> l.index, events |-> ev]
    <3>1. ProcessLog(acc, l) =
            [acc EXCEPT !.block = l.block, !.tx = l.tx, !.index = l.index, !.events = ev]
      BY <1>3, <1>7 DEF ProcessLog, Acc
    <3> QED
      BY <3>1, Zenon DEF Acc
  <2>2. /\ ProcessLog(acc, l) \in Acc
        /\ ProcessLog(acc, l).block = l.block
        /\ ProcessLog(acc, l).tx = l.tx
        /\ ProcessLog(acc, l).index = l.index
        /\ ProcessLog(acc, l).events = ev
    BY <1>1, <1>2, <1>4, <2>1 DEF Acc
  <2> QED
    BY <1>3, <1>7, <2>2
<1> QED
  BY <1>5, <1>6, <1>7

(* processLogs is the last value of such a run.                            *)
LEMMA LogRunExists ==
  ASSUME NEW logs \in Seq(Log), NEW from \in Int
  PROVE  \E run : IsLogRun(run, logs, from)
<1> DEFINE n == Len(logs)
           Rec(g) == g = [k \in 0..Len(logs) |->
                            IF k = 0
                            THEN [ok |-> TRUE, block |-> from, tx |-> -1, index |-> -1,
                                  events |-> NoEvents]
                            ELSE ProcessLog(g[k - 1], logs[k])]
<1>1. n \in Nat /\ \A i \in 1..n : logs[i] \in Log
  OBVIOUS
<1>2. PICK step : step = [p \in (1..n) \X Acc |-> ProcessLog(p[2], logs[p[1]])]
  BY Zenon
<1>3. \A i \in 1..n, v \in Acc : ProcessLog(v, logs[i]) \in Acc
  BY <1>1, ProcessLogCases, Zenon
<1>4. step \in [(1..n) \X Acc -> Acc] /\ Start(from) \in Acc
  BY <1>2, <1>3 DEF Start, Acc, NoEvents
<1>5. \A i \in 1..n, v \in Acc : step[<<i, v>>] = ProcessLog(v, logs[i])
  BY <1>2
<1>6. PICK it : IsRun(it, n, Acc, Start(from), step)
  <2> HIDE DEF n
  <2> QED
    BY <1>1, <1>4, RunExists, Zenon
<1>7. \A k \in 1..n : k \in 0..n /\ k # 0 /\ k - 1 \in 0..n
  BY <1>1
<1>8. Rec(it)
  <2>1. /\ it \in [0..n -> Acc] /\ it[0] = Start(from)
        /\ \A k \in 1..n : it[k] = step[<<k, it[k - 1]>>]
    BY <1>6 DEF IsRun
  <2>2. \A k \in 1..n : it[k] = ProcessLog(it[k - 1], logs[k])
    <3> HIDE DEF n
    <3> QED
      BY <1>5, <1>7, <2>1, Zenon
  <2>3. \A k \in 0..n : k # 0 => k \in 1..n
    BY <1>1
  <2> QED
    BY <2>1, <2>2, <2>3 DEF Start
<1>9. PICK g : g = (CHOOSE h : Rec(h)) /\ Rec(g)
  <2> HIDE DEF Rec
  <2> QED
    BY <1>8, Zenon
<1>10. processLogs(logs, from) = g[n]
  BY <1>9, Zenon DEF processLogs
<1>11. g[0] = Start(from) /\ \A k \in 1..n : g[k] = ProcessLog(g[k - 1], logs[k])
  <2>1. 0 \in 0..n
    BY <1>1
  <2>2. g[0] = Start(from)
    BY <1>9, <2>1, Zenon DEF Start
  <2>3. ASSUME NEW k \in 1..n
        PROVE  g[k] = ProcessLog(g[k - 1], logs[k])
    BY <1>7, <1>9, Zenon
  <2> QED
    BY <2>2, <2>3
<1>12. PICK run : IsRunOf(run, g, n, Acc, Start(from), step)
  <2> HIDE DEF n, Rec
  <2>1. Follows(g, n, Acc, Start(from), step)
    BY <1>5, <1>11 DEF Follows
  <2> QED
    BY <1>1, <1>4, <2>1, RunOfRecursion, Zenon
<1>13. /\ run \in [0..n -> Acc] /\ run[0] = Start(from)
       /\ \A k \in 1..n : run[k] = ProcessLog(run[k - 1], logs[k])
  <2> HIDE DEF n
  <2>1. /\ run \in [0..n -> Acc] /\ run[0] = Start(from)
        /\ \A k \in 1..n : run[k] = step[<<k, run[k - 1]>>]
    BY <1>12 DEF IsRunOf, IsRun
  <2> QED
    BY <1>5, <1>7, <2>1, Zenon
<1> QED
  BY <1>10, <1>12, <1>13 DEF IsRunOf, IsLogRun

(* An error stays: what is accepted at the end was accepted at each log.   *)
LEMMA OkStays ==
  ASSUME NEW logs \in Seq(Log), NEW from \in Int, NEW run, IsLogRun(run, logs, from),
         run[Len(logs)].ok
  PROVE  \A k \in 0..Len(logs) : run[k].ok
<1> DEFINE n == Len(logs)
<1>1. /\ n \in Nat /\ run \in [0..n -> Acc] /\ \A k \in 1..n : logs[k] \in Log
      /\ \A k \in 1..n : run[k] = ProcessLog(run[k - 1], logs[k])
      /\ run[n].ok
  BY DEF IsLogRun
<1> HIDE DEF n
<1>2. PICK K : K = {k \in 0..n : run[n - k].ok}
  BY Zenon
<1>3. 0 \in K
  BY <1>1, <1>2
<1>4. ASSUME NEW k \in 0..(n - 1), k \in K
      PROVE  k + 1 \in K
  <2>1. PICK j : j = n - k
    OBVIOUS
  <2>2. j \in 1..n /\ j - 1 \in 0..n /\ n - (k + 1) = j - 1 /\ k + 1 \in 0..n /\ run[j].ok
    BY <1>1, <1>2, <1>4, <2>1
  <2>3. run[j] = ProcessLog(run[j - 1], logs[j]) /\ run[j - 1] \in Acc /\ logs[j] \in Log
    BY <1>1, <2>2
  <2>4. run[j - 1].ok
    BY <2>2, <2>3, ProcessLogCases, Zenon
  <2> QED
    BY <1>2, <2>2, <2>4
<1>5. 0..n \subseteq K
  BY <1>1, <1>3, <1>4, UpTo, Zenon
<1>6. ASSUME NEW k \in 0..n
      PROVE  run[k].ok
  <2>1. n - k \in 0..n /\ n - (n - k) = k
    BY <1>1
  <2> QED
    BY <1>2, <1>5, <2>1
<1> QED
  BY <1>6 DEF n

(* What processLogs has after k logs is what EventsIn has.                 *)
LEMMA AcceptedEvents ==
  ASSUME NEW logs \in Seq(Log), NEW from \in Int, processLogs(logs, from).ok
  PROVE  /\ processLogs(logs, from).events \in [Blocks -> Seq(Nat \ {0})]
         /\ \A b \in Blocks : processLogs(logs, from).events[b] = EventsIn(logs, b)
<1> DEFINE n == Len(logs)
<1>1. PICK run : IsLogRun(run, logs, from)
  BY LogRunExists
<1>2. /\ n \in Nat /\ run \in [0..n -> Acc] /\ \A k \in 1..n : logs[k] \in Log
      /\ \A k \in 1..n : run[k] = ProcessLog(run[k - 1], logs[k])
      /\ run[0] = Start(from) /\ processLogs(logs, from) = run[n]
  BY <1>1 DEF IsLogRun
<1>3. \A k \in 0..n : run[k].ok
  BY <1>1, <1>2, OkStays
<1>4. ASSUME NEW k \in 1..n
      PROVE  /\ k - 1 \in 0..n /\ k \in 0..n /\ run[k - 1].events \in [Blocks -> Seq(Int)]
             /\ logs[k] \in Log
             /\ logs[k].removed => run[k].events = run[k - 1].events
             /\ ~logs[k].removed =>
                  /\ logs[k].event # Malformed
                  /\ run[k].events =
                       [run[k - 1].events EXCEPT ![logs[k].block] =
                          IF logs[k].event = Unrecognized THEN @ ELSE Append(@, logs[k].event)]
  <2> HIDE DEF n
  <2>1. k - 1 \in 0..n /\ k \in 0..n
    BY <1>2
  <2>2. /\ run[k] = ProcessLog(run[k - 1], logs[k]) /\ run[k - 1] \in Acc /\ logs[k] \in Log
        /\ run[k].ok /\ run[k - 1].ok
    BY <1>2, <1>3, <2>1
  <2>3. run[k - 1].events \in [Blocks -> Seq(Int)]
    BY <2>2 DEF Acc
  <2>4. ASSUME logs[k].removed
        PROVE  run[k].events = run[k - 1].events
    BY <2>2, <2>4, ProcessLogCases, Zenon
  <2>5. ASSUME ~logs[k].removed
        PROVE  /\ logs[k].event # Malformed
               /\ run[k].events =
                    [run[k - 1].events EXCEPT ![logs[k].block] =
                       IF logs[k].event = Unrecognized THEN @ ELSE Append(@, logs[k].event)]
    <3>1. PICK acc, l : acc = run[k - 1] /\ l = logs[k]
      OBVIOUS
    <3>2. acc \in Acc /\ l \in Log /\ ~l.removed /\ acc.ok /\ ProcessLog(acc, l).ok
      BY <2>2, <2>5, <3>1
    <3>3. /\ l.event # Malformed
          /\ ProcessLog(acc, l).events =
               [acc.events EXCEPT ![l.block] = IF l.event = Unrecognized THEN @
                                               ELSE Append(@, l.event)]
      BY <3>2, ProcessLogCases
    <3> QED
      BY <2>2, <3>1, <3>3
  <2> QED
    BY <2>1, <2>2, <2>3, <2>4, <2>5
<1>5. run[0].events = NoEvents
  BY <1>2 DEF Start
<1>6. processLogs(logs, from).events \in [Blocks -> Seq(Nat \ {0})]
  <2> HIDE DEF n
  <2>1. PICK K : K = {k \in 0..n : run[k].events \in [Blocks -> Seq(Nat \ {0})]}
    BY Zenon
  <2>2. 0 \in K
    <3>1. <<>> \in Seq(Nat \ {0}) /\ 0 \in 0..n
      BY <1>2
    <3> QED
      BY <1>5, <2>1, <3>1, Zenon DEF NoEvents
  <2>3. ASSUME NEW k \in 0..(n - 1), k \in K
        PROVE  k + 1 \in K
    <3>1. k + 1 \in 1..n /\ (k + 1) - 1 = k /\ k + 1 \in 0..n
      BY <1>2
    <3>2. PICK ev, l : ev = run[k].events /\ l = logs[k + 1]
      OBVIOUS
    <3>3. ev \in [Blocks -> Seq(Nat \ {0})] /\ l \in Log
      BY <1>4, <2>1, <2>3, <3>1, <3>2, Zenon
    <3>4. l.block \in Blocks /\ (l.event # Malformed => l.event \in Nat)
      BY <3>3, LogFields
    <3>5. CASE l.removed
      BY <1>4, <2>1, <3>1, <3>2, <3>3, <3>5, Zenon
    <3>6. CASE ~l.removed
      <4>1. /\ l.event \in Nat
            /\ run[k + 1].events = [ev EXCEPT ![l.block] = IF l.event = Unrecognized THEN @
                                                            ELSE Append(@, l.event)]
        BY <1>4, <3>1, <3>2, <3>4, <3>6, Zenon
      <4>2. ev[l.block] \in Seq(Nat \ {0})
        BY <3>3, <3>4
      <4>3. l.event # Unrecognized => Append(ev[l.block], l.event) \in Seq(Nat \ {0})
        BY <4>1, <4>2 DEF Unrecognized
      <4>4. run[k + 1].events \in [Blocks -> Seq(Nat \ {0})]
        BY <3>3, <3>4, <4>1, <4>2, <4>3
      <4> QED
        BY <2>1, <3>1, <4>4
    <3> QED
      BY <3>5, <3>6
  <2>4. 0..n \subseteq K
    BY <1>2, <2>2, <2>3, UpTo, Zenon
  <2>5. n \in 0..n
    BY <1>2
  <2> QED
    BY <1>2, <2>1, <2>4, <2>5
<1>7. ASSUME NEW b \in Blocks
      PROVE  processLogs(logs, from).events[b] = EventsIn(logs, b)
  <2>1. PICK er : IsEventRun(er, logs, b)
    BY EventRunExists
  <2>2. /\ er[0] = <<>> /\ EventsIn(logs, b) = er[n]
        /\ \A k \in 1..n :
             er[k] = IF IsEvent(logs[k], b) THEN Append(er[k - 1], logs[k].event) ELSE er[k - 1]
    BY <2>1 DEF IsEventRun
  <2> HIDE DEF n
  <2>3. PICK K : K = {k \in 0..n : run[k].events[b] = er[k]}
    BY Zenon
  <2>4. 0 \in K
    BY <1>2, <1>5, <1>7, <2>2, <2>3 DEF NoEvents
  <2>5. ASSUME NEW k \in 0..(n - 1), k \in K
        PROVE  k + 1 \in K
    <3>1. k + 1 \in 1..n /\ (k + 1) - 1 = k /\ k + 1 \in 0..n
      BY <1>2
    <3>2. PICK ev, l : ev = run[k].events /\ l = logs[k + 1]
      OBVIOUS
    <3>3. ev \in [Blocks -> Seq(Int)] /\ l \in Log /\ ev[b] = er[k]
      BY <1>4, <2>3, <2>5, <3>1, <3>2, Zenon
    <3>4. er[k + 1] = IF IsEvent(l, b) THEN Append(ev[b], l.event) ELSE ev[b]
      BY <2>2, <3>1, <3>2, <3>3
    <3>5. CASE l.removed
      <4>1. run[k + 1].events = ev
        BY <1>4, <3>1, <3>2, <3>5, Zenon
      <4> QED
        BY <2>3, <3>1, <3>4, <3>5, <4>1 DEF IsEvent
    <3>6. CASE ~l.removed
      <4>1. run[k + 1].events = [ev EXCEPT ![l.block] = IF l.event = Unrecognized THEN @
                                                        ELSE Append(@, l.event)]
        BY <1>4, <3>1, <3>2, <3>6, Zenon
      <4>2. run[k + 1].events[b] = IF IsEvent(l, b) THEN Append(ev[b], l.event) ELSE ev[b]
        BY <1>7, <3>3, <3>6, <4>1 DEF IsEvent
      <4> QED
        BY <2>3, <3>1, <3>4, <4>2
    <3> QED
      BY <3>5, <3>6
  <2>6. 0..n \subseteq K
    BY <1>2, <2>4, <2>5, UpTo, Zenon
  <2>7. n \in 0..n
    BY <1>2
  <2> QED
    BY <1>2, <2>2, <2>3, <2>6, <2>7
<1> QED
  BY <1>6, <1>7

(* The log is at or before the position that processLogs has reached.      *)
Reached(l, acc) ==
  l.block < acc.block \/ (l.block = acc.block /\ l.tx <= acc.tx /\ l.index <= acc.index)

(* The logs that are not removed are accepted only in Ethereum's order.    *)
LEMMA AcceptedInOrder ==
  ASSUME NEW logs \in Seq(Log), NEW from \in Int, processLogs(logs, from).ok,
         NEW i \in 1..Len(logs), NEW j \in 1..Len(logs), i < j,
         ~logs[i].removed, ~logs[j].removed
  PROVE  Before(logs[i], logs[j])
<1> DEFINE n == Len(logs)
<1>1. PICK run : IsLogRun(run, logs, from)
  BY LogRunExists
<1>2. /\ n \in Nat /\ run \in [0..n -> Acc] /\ \A k \in 1..n : logs[k] \in Log
      /\ \A k \in 1..n : run[k] = ProcessLog(run[k - 1], logs[k])
      /\ processLogs(logs, from) = run[n]
  BY <1>1 DEF IsLogRun
<1>3. \A k \in 0..n : run[k].ok
  BY <1>1, <1>2, OkStays, Zenon
<1>4. i \in 1..n /\ j \in 1..n
  OBVIOUS
<1> HIDE DEF n
<1>5. ASSUME NEW k \in 1..n
      PROVE  /\ run[k - 1] \in Acc /\ logs[k] \in Log
             /\ logs[k].removed => run[k] = run[k - 1]
             /\ ~logs[k].removed =>
                  /\ IsLogSequential(run[k - 1], logs[k])
                  /\ run[k].block = logs[k].block /\ run[k].tx = logs[k].tx
                  /\ run[k].index = logs[k].index
  <2>1. k - 1 \in 0..n /\ k \in 0..n
    BY <1>2
  <2>2. /\ run[k] = ProcessLog(run[k - 1], logs[k]) /\ run[k - 1] \in Acc /\ logs[k] \in Log
        /\ run[k].ok /\ run[k - 1].ok
    BY <1>2, <1>3, <2>1
  <2>3. ASSUME logs[k].removed
        PROVE  run[k] = run[k - 1]
    BY <2>2, <2>3, ProcessLogCases, Zenon
  <2>4. ASSUME ~logs[k].removed
        PROVE  /\ IsLogSequential(run[k - 1], logs[k])
               /\ run[k].block = logs[k].block /\ run[k].tx = logs[k].tx
               /\ run[k].index = logs[k].index
    <3>1. PICK acc, l : acc = run[k - 1] /\ l = logs[k]
      OBVIOUS
    <3>2. acc \in Acc /\ l \in Log /\ ~l.removed /\ acc.ok /\ ProcessLog(acc, l).ok
      BY <2>2, <2>4, <3>1
    <3>3. /\ IsLogSequential(acc, l) /\ ProcessLog(acc, l).block = l.block
          /\ ProcessLog(acc, l).tx = l.tx /\ ProcessLog(acc, l).index = l.index
      BY <3>2, ProcessLogCases, Zenon
    <3> QED
      BY <2>2, <3>1, <3>3
  <2> QED
    BY <2>2, <2>3, <2>4
<1>6. PICK a : a = logs[i]
  OBVIOUS
<1>7. a \in Log /\ ~a.removed /\ a.block \in Int /\ a.tx \in Int /\ a.index \in Int
  BY <1>2, <1>4, <1>6, LogFields
<1>8. PICK K : K = {k \in 0..n : k >= i => Reached(a, run[k])}
  BY Zenon
<1>9. 0 \in K
  BY <1>2, <1>4, <1>8
<1>10. ASSUME NEW k \in 0..(n - 1), k \in K
       PROVE  k + 1 \in K
  <2>1. k + 1 \in 1..n /\ (k + 1) - 1 = k /\ k + 1 \in 0..n
    BY <1>2
  <2>2. PICK acc, l, next : acc = run[k] /\ l = logs[k + 1] /\ next = run[k + 1]
    OBVIOUS
  <2>3. /\ acc \in Acc /\ l \in Log
        /\ l.removed => next = acc
        /\ ~l.removed => /\ IsLogSequential(acc, l)
                         /\ next.block = l.block /\ next.tx = l.tx /\ next.index = l.index
    BY <1>5, <2>1, <2>2
  <2>4. l.block \in Int /\ l.tx \in Int /\ l.index \in Int /\ l.removed \in BOOLEAN
    BY <2>3, LogFields
  <2>5. acc.block \in Int /\ acc.tx \in Int /\ acc.index \in Int
    BY <2>3 DEF Acc
  <2>6. CASE k + 1 < i
    BY <1>4, <1>8, <2>1, <2>6
  <2>7. CASE k + 1 = i
    <3>1. l = a
      BY <1>6, <2>2, <2>7
    <3>2. Reached(a, next)
      BY <1>7, <2>3, <3>1 DEF Reached
    <3> QED
      BY <1>8, <2>1, <2>2, <3>2
  <2>8. CASE k >= i
    <3>1. Reached(a, acc)
      BY <1>8, <1>10, <2>2, <2>8, SMTT(30)
    <3>2. CASE l.removed
      BY <1>8, <2>1, <2>2, <2>3, <3>1, <3>2, SMTT(30)
    <3>3. CASE ~l.removed
      <4>1. Reached(a, next)
        BY ONLY <1>7, <2>3, <2>4, <2>5, <3>1, <3>3, SMTT(30) DEF Reached, IsLogSequential
      <4> QED
        BY <1>8, <2>1, <2>2, <4>1
    <3> QED
      BY <3>2, <3>3
  <2> QED
    BY <1>4, <2>6, <2>7, <2>8
<1>11. 0..n \subseteq K
  BY <1>2, <1>9, <1>10, UpTo, Zenon
<1>12. PICK acc, l : acc = run[j - 1] /\ l = logs[j]
  OBVIOUS
<1>13. j - 1 \in 0..n /\ j - 1 >= i
  BY <1>2, <1>4
<1>14. Reached(a, acc)
  BY <1>8, <1>11, <1>12, <1>13
<1>15. acc \in Acc /\ l \in Log /\ IsLogSequential(acc, l)
  BY <1>4, <1>5, <1>12
<1>16. l.block \in Int /\ l.tx \in Int /\ l.index \in Int
  BY <1>15, LogFields
<1>17. acc.block \in Int /\ acc.tx \in Int /\ acc.index \in Int
  BY <1>15 DEF Acc
<1>18. l.block >= acc.block /\ (l.block = acc.block => l.tx >= acc.tx /\ l.index > acc.index)
  BY <1>15 DEF IsLogSequential
<1>19. Before(a, l)
  <2>1. CASE a.block < acc.block
    BY ONLY <1>7, <1>16, <1>17, <1>18, <2>1, SMTT(30) DEF Before
  <2>2. CASE a.block = acc.block /\ a.tx <= acc.tx /\ a.index <= acc.index
    BY ONLY <1>7, <1>16, <1>17, <1>18, <2>2, SMTT(30) DEF Before
  <2> QED
    BY <1>14, <2>1, <2>2 DEF Reached
<1> QED
  BY <1>6, <1>12, <1>19

(* A list without an event of the block.                                   *)
LEMMA NoEvent ==
  ASSUME NEW logs \in Seq(Log), NEW b, \A i \in 1..Len(logs) : ~IsEvent(logs[i], b)
  PROVE  EventsIn(logs, b) = <<>>
<1> DEFINE n == Len(logs)
<1>1. PICK er : IsEventRun(er, logs, b)
  BY EventRunExists, Zenon
<1>2. /\ n \in Nat /\ er[0] = <<>> /\ EventsIn(logs, b) = er[n]
      /\ \A k \in 1..n : er[k] = er[k - 1]
  BY <1>1 DEF IsEventRun
<1> HIDE DEF n
<1>3. PICK K : K = {k \in 0..n : er[k] = <<>>}
  BY Zenon
<1>4. 0 \in K
  BY <1>2, <1>3
<1>5. ASSUME NEW k \in 0..(n - 1), k \in K
      PROVE  k + 1 \in K
  <2>1. k + 1 \in 1..n /\ (k + 1) - 1 = k /\ k + 1 \in 0..n
    BY <1>2
  <2> QED
    BY <1>2, <1>3, <1>5, <2>1
<1>6. 0..n \subseteq K
  BY <1>2, <1>4, <1>5, UpTo, Zenon
<1>7. n \in 0..n
  BY <1>2
<1> QED
  BY <1>2, <1>3, <1>6, <1>7

(* A list with one event of the block.                                     *)
LEMMA OneEvent ==
  ASSUME NEW logs \in Seq(Log), NEW b, NEW p \in 1..Len(logs), IsEvent(logs[p], b),
         \A i \in 1..Len(logs) : i # p => ~IsEvent(logs[i], b)
  PROVE  EventsIn(logs, b) = <<logs[p].event>>
<1> DEFINE n == Len(logs)
<1>1. PICK er : IsEventRun(er, logs, b)
  BY EventRunExists, ZenonT(30)
<1>2. /\ n \in Nat /\ p \in 1..n /\ er[0] = <<>> /\ EventsIn(logs, b) = er[n]
      /\ \A k \in 1..n : er[k] = IF k = p THEN Append(er[k - 1], logs[p].event) ELSE er[k - 1]
  BY <1>1 DEF IsEventRun
<1> HIDE DEF n
<1>3. PICK K : K = {k \in 0..n : er[k] = IF k < p THEN <<>> ELSE <<logs[p].event>>}
  BY Zenon
<1>4. 0 \in K
  BY <1>2, <1>3
<1>5. ASSUME NEW k \in 0..(n - 1), k \in K
      PROVE  k + 1 \in K
  <2>1. k + 1 \in 1..n /\ (k + 1) - 1 = k /\ k + 1 \in 0..n
    BY <1>2
  <2>2. CASE k + 1 = p
    <3>0. k < p
      BY <2>2
    <3>1. er[k] = <<>> /\ er[k + 1] = Append(er[k], logs[p].event)
      <4>1. er[k] = <<>>
        BY <1>3, <1>5, <3>0
      <4>2. er[k + 1] = Append(er[k], logs[p].event)
        BY <1>2, <2>1, <2>2, Zenon
      <4> QED
        BY <4>1, <4>2
    <3>2. er[k + 1] = <<logs[p].event>>
      BY <3>1
    <3> QED
      BY <1>3, <2>1, <2>2, <3>2
  <2>3. CASE k + 1 # p
    <3>1. er[k + 1] = er[k] /\ (k < p <=> k + 1 < p)
      BY <1>2, <2>1, <2>3
    <3> QED
      BY <1>3, <1>5, <2>1, <3>1
  <2> QED
    BY <2>2, <2>3
<1>6. 0..n \subseteq K
  BY <1>2, <1>4, <1>5, UpTo
<1>7. n \in 0..n /\ ~(n < p)
  BY <1>2
<1> QED
  BY <1>2, <1>3, <1>6, <1>7

(* No two logs are before each other.                                      *)
LEMMA BeforeIsStrict ==
  ASSUME NEW l \in Log, NEW m \in Log
  PROVE  ~(Before(l, m) /\ Before(m, l))
<1>1. /\ l.block \in Int /\ l.tx \in Int /\ l.index \in Int
      /\ m.block \in Int /\ m.tx \in Int /\ m.index \in Int
  BY LogFields
<1> QED
  BY <1>1 DEF Before

(* The logs up to block b are the first LastLog(b) ones.                   *)
LEMMA LastLogIsLast ==
  ASSUME NEW b \in Int
  PROVE  /\ LastLog(b) \in 0..Len(EthLogs)
         /\ \A i \in 1..Len(EthLogs) : EthLogs[i].block <= b <=> i <= LastLog(b)
<1>1. PICK n : n = Len(EthLogs)
  BY Zenon
<1>2. n \in Nat /\ DOMAIN EthLogs = 1..n /\ \A i \in 1..n : EthLogs[i] \in Log
  BY <1>1, LogsAssumption
<1>3. PICK T : T = {0} \cup {i \in DOMAIN EthLogs : EthLogs[i].block <= b}
  BY Zenon
<1>4. T \in SUBSET (0..n) /\ T # {}
  BY <1>2, <1>3
<1>5. Max(T) \in T /\ \A x \in T : x <= Max(T)
  BY <1>2, <1>4, MaxOfSet, Zenon
<1>6. LastLog(b) = Max(T)
  BY <1>3 DEF LastLog
<1>7. LastLog(b) \in 0..n
  BY <1>4, <1>5, <1>6, Zenon
<1>8. ASSUME NEW i \in 1..n, EthLogs[i].block <= b
      PROVE  i <= LastLog(b)
  <2>1. i \in T
    BY <1>2, <1>3, <1>8
  <2> QED
    BY <1>5, <1>6, <2>1
<1>9. ASSUME NEW i \in 1..n, i <= LastLog(b)
      PROVE  EthLogs[i].block <= b
  <2>1. PICK m : m = LastLog(b)
    OBVIOUS
  <2>2. m \in 1..n /\ m \in T /\ m # 0
    BY <1>2, <1>5, <1>6, <1>7, <1>9, <2>1
  <2>3. EthLogs[m].block <= b
    BY <1>3, <2>2
  <2>4. CASE i = m
    BY <2>3, <2>4
  <2>5. CASE i < m
    <3>1. Before(EthLogs[i], EthLogs[m])
      BY <1>2, <2>2, <2>5, LogsAssumption
    <3>2. EthLogs[i].block \in Int /\ EthLogs[m].block \in Int
      BY <1>2, <2>2, LogFields
    <3> QED
      BY <2>3, <3>1, <3>2 DEF Before
  <2> QED
    BY <1>9, <2>1, <2>2, <2>4, <2>5
<1> QED
  BY <1>1, <1>7, <1>8, <1>9

(* L has the logs of EthLogs after position lo up to hi, which are those   *)
(* of the blocks of the range.                                             *)
IsRangeOf(L, lo, hi, from, to) ==
  /\ lo \in Nat /\ hi \in Nat /\ lo <= hi /\ hi <= Len(EthLogs)
  /\ L \in Seq(Log) /\ Len(L) = hi - lo
  /\ \A k \in 1..(hi - lo) : L[k] = EthLogs[lo + k]
  /\ \A i \in 1..Len(EthLogs) : EthLogs[i].block \in from..to <=> i \in (lo + 1)..hi

(* The logs of a range of blocks are a part of the logs of Ethereum.       *)
LEMMA LogsOfRange ==
  ASSUME NEW from \in Int, NEW to \in Int, from <= to
  PROVE  \E lo, hi : IsRangeOf(LogsOf(from, to), lo, hi, from, to)
<1>1. PICK n, lo, hi : n = Len(EthLogs) /\ lo = LastLog(from - 1) /\ hi = LastLog(to)
  BY Zenon
<1>2. n \in Nat /\ DOMAIN EthLogs = 1..n /\ \A i \in 1..n : EthLogs[i] \in Log
  BY <1>1, LogsAssumption
<1>3. /\ lo \in 0..n /\ hi \in 0..n
      /\ \A i \in 1..n : EthLogs[i].block <= from - 1 <=> i <= lo
      /\ \A i \in 1..n : EthLogs[i].block <= to <=> i <= hi
  <2>1. from - 1 \in Int
    OBVIOUS
  <2> QED
    BY <1>1, <2>1, LastLogIsLast, Zenon
<1>4. \A i \in 1..n : EthLogs[i].block \in Int
  BY <1>2, LogFields
<1>5. lo <= hi
  <2>1. CASE lo = 0
    BY <1>3, <2>1
  <2>2. CASE lo # 0
    <3>1. lo \in 1..n /\ EthLogs[lo].block <= from - 1
      BY <1>3, <2>2
    <3>2. EthLogs[lo].block <= to
      BY <1>4, <3>1
    <3> QED
      BY <1>3, <3>1, <3>2
  <2> QED
    BY <2>1, <2>2
<1>6. PICK L : L = LogsOf(from, to)
  OBVIOUS
<1>7. L = SubSeq(EthLogs, lo + 1, hi)
  BY <1>1, <1>6 DEF LogsOf
<1>8. /\ L \in Seq(Log) /\ Len(L) = hi - lo
      /\ \A k \in 1..(hi - lo) : L[k] = EthLogs[lo + k]
  <2>1. lo + 1 \in Int /\ hi \in Int /\ \A i \in (lo + 1)..hi : EthLogs[i] \in Log
    BY <1>2, <1>3
  <2>2. /\ L \in Seq(Log)
        /\ Len(L) = IF lo + 1 <= hi THEN hi - (lo + 1) + 1 ELSE 0
        /\ \A k \in 1..(hi - (lo + 1) + 1) : L[k] = EthLogs[(lo + 1) + k - 1]
    BY <1>7, <2>1
  <2>3. hi - (lo + 1) + 1 = hi - lo /\ Len(L) = hi - lo
    BY <1>3, <1>5, <2>2
  <2>4. ASSUME NEW k \in 1..(hi - lo)
        PROVE  L[k] = EthLogs[lo + k]
    <3>1. (lo + 1) + k - 1 = lo + k
      BY <1>3
    <3> QED
      BY <2>2, <2>3, <3>1
  <2> QED
    BY <2>2, <2>3, <2>4
<1>9. \A i \in 1..n : EthLogs[i].block \in from..to <=> i \in (lo + 1)..hi
  BY <1>3, <1>4
<1> QED
  <2>1. lo \in Nat /\ hi \in Nat /\ hi <= n
    BY <1>2, <1>3
  <2>2. IsRangeOf(L, lo, hi, from, to)
    BY <1>1, <1>5, <1>8, <1>9, <2>1 DEF IsRangeOf
  <2> QED
    BY <1>6, <2>2

(* The events of a block in the logs of a range that has the block are all *)
(* the events of the block.                                                *)
LEMMA EventsOfRange ==
  ASSUME NEW from \in Int, NEW to \in Int, from <= to, NEW b \in Blocks
  PROVE  EventsIn(LogsOf(from, to), b) = IF b \in from..to THEN EventsOf(b) ELSE <<>>
<1>1. PICK n, L : n = Len(EthLogs) /\ L = LogsOf(from, to)
  BY Zenon
<1>0. PICK lo, hi : IsRangeOf(L, lo, hi, from, to)
  BY <1>1, LogsOfRange
<1>2. /\ lo \in Nat /\ hi \in Nat /\ lo <= hi /\ hi <= n /\ L \in Seq(Log) /\ Len(L) = hi - lo
      /\ \A k \in 1..(hi - lo) : L[k] = EthLogs[lo + k]
      /\ \A i \in 1..n : EthLogs[i].block \in from..to <=> i \in (lo + 1)..hi
  BY <1>0, <1>1 DEF IsRangeOf
<1>3. n \in Nat /\ EthLogs \in Seq(Log)
  BY <1>1, LogsAssumption
<1>4. CASE b \notin from..to
  <2>1. ASSUME NEW k \in 1..Len(L)
        PROVE  ~IsEvent(L[k], b)
    <3>1. k \in 1..(hi - lo) /\ lo + k \in 1..n /\ lo + k \in (lo + 1)..hi
      BY <1>2, <1>3, <2>1
    <3>2. L[k] = EthLogs[lo + k] /\ EthLogs[lo + k].block \in from..to
      BY <1>2, <3>1
    <3> QED
      BY <1>4, <3>2 DEF IsEvent
  <2>2. EventsIn(L, b) = <<>>
    BY <1>2, <2>1, NoEvent
  <2> QED
    BY <1>1, <1>4, <2>2
<1>5. CASE b \in from..to
  <2>1. PICK Q : IsEventRun(Q, L, b)
    BY <1>2, EventRunExists, Zenon
  <2>2. PICK R : IsEventRun(R, EthLogs, b)
    BY <1>3, EventRunExists, Zenon
  <2>3. /\ Q[0] = <<>> /\ EventsIn(L, b) = Q[hi - lo]
        /\ \A k \in 1..(hi - lo) :
             Q[k] = IF IsEvent(L[k], b) THEN Append(Q[k - 1], L[k].event) ELSE Q[k - 1]
    BY <1>2, <2>1, ZenonT(30) DEF IsEventRun
  <2>4. /\ R[0] = <<>> /\ EventsOf(b) = R[n]
        /\ \A k \in 1..n :
             R[k] = IF IsEvent(EthLogs[k], b) THEN Append(R[k - 1], EthLogs[k].event)
                    ELSE R[k - 1]
    BY <1>1, <2>2 DEF IsEventRun, EventsOf
  <2>5. \A i \in 1..n : i \notin (lo + 1)..hi => ~IsEvent(EthLogs[i], b)
    BY <1>2, <1>5 DEF IsEvent
  <2>6. R[lo] = <<>>
    <3>1. PICK K : K = {k \in 0..lo : R[k] = <<>>}
      BY Zenon
    <3>2. 0 \in K
      BY <1>2, <2>4, <3>1
    <3>3. ASSUME NEW k \in 0..(lo - 1), k \in K
          PROVE  k + 1 \in K
      <4>1. /\ k + 1 \in 1..n /\ (k + 1) - 1 = k /\ k + 1 \in 0..lo
            /\ k + 1 \notin (lo + 1)..hi
        BY <1>2, <1>3
      <4>2. R[k + 1] = R[k]
        BY <2>4, <2>5, <4>1
      <4> QED
        BY <3>1, <3>3, <4>1, <4>2
    <3>4. 0..lo \subseteq K
      BY <1>2, <3>2, <3>3, UpTo, Zenon
    <3>5. lo \in 0..lo
      BY <1>2
    <3> QED
      BY <3>1, <3>4, <3>5
  <2>7. Q[hi - lo] = R[hi]
    <3>1. PICK m, K : m = hi - lo /\ K = {k \in 0..m : Q[k] = R[lo + k]}
      BY Zenon
    <3>2. m \in Nat
      BY <1>2, <3>1
    <3>3. 0 \in K
      BY <1>2, <2>3, <2>6, <3>1, <3>2
    <3>4. ASSUME NEW k \in 0..(m - 1), k \in K
          PROVE  k + 1 \in K
      <4>1. /\ k + 1 \in 1..(hi - lo) /\ (k + 1) - 1 = k /\ k + 1 \in 0..m
            /\ lo + (k + 1) \in 1..n /\ (lo + (k + 1)) - 1 = lo + k
        BY <1>2, <1>3, <3>1, <3>2
      <4>2. L[k + 1] = EthLogs[lo + (k + 1)] /\ Q[k] = R[lo + k]
        BY <1>2, <3>1, <3>4, <4>1
      <4>3. Q[k + 1] = IF IsEvent(L[k + 1], b) THEN Append(Q[k], L[k + 1].event) ELSE Q[k]
        BY <2>3, <4>1
      <4>4. R[lo + (k + 1)] =
              IF IsEvent(EthLogs[lo + (k + 1)], b)
              THEN Append(R[lo + k], EthLogs[lo + (k + 1)].event) ELSE R[lo + k]
        BY <2>4, <4>1
      <4>5. Q[k + 1] = R[lo + (k + 1)]
        BY <4>2, <4>3, <4>4
      <4> QED
        BY <3>1, <4>1, <4>5
    <3>5. 0..m \subseteq K
      BY <3>2, <3>3, <3>4, UpTo
    <3>6. m \in 0..m /\ lo + m = hi
      BY <1>2, <3>1, <3>2
    <3> QED
      BY <3>1, <3>5, <3>6
  <2>8. R[n] = R[hi]
    <3>1. PICK m, K : m = n - hi /\ K = {k \in 0..m : R[hi + k] = R[hi]}
      BY Zenon
    <3>2. m \in Nat
      BY <1>2, <1>3, <3>1
    <3>3. 0 \in K
      BY <1>2, <3>1, <3>2
    <3>4. ASSUME NEW k \in 0..(m - 1), k \in K
          PROVE  k + 1 \in K
      <4>1. /\ hi + (k + 1) \in 1..n /\ (hi + (k + 1)) - 1 = hi + k /\ k + 1 \in 0..m
            /\ hi + (k + 1) \notin (lo + 1)..hi
        BY <1>2, <1>3, <3>1, <3>2
      <4>2. R[hi + (k + 1)] = R[hi + k]
        BY <2>4, <2>5, <4>1
      <4> QED
        BY <3>1, <3>4, <4>1, <4>2
    <3>5. 0..m \subseteq K
      BY <3>2, <3>3, <3>4, UpTo
    <3>6. m \in 0..m /\ hi + m = n
      BY <1>2, <1>3, <3>1, <3>2
    <3> QED
      BY <3>1, <3>5, <3>6
  <2> QED
    BY <1>1, <1>5, <2>3, <2>4, <2>7, <2>8
<1> QED
  BY <1>4, <1>5

(* They are in the order of Ethereum.                                      *)
LEMMA LogsOfOrdered ==
  ASSUME NEW from \in Int, NEW to \in Int, from <= to
  PROVE  /\ LogsOf(from, to) \in Seq(Log)
         /\ \A i, j \in 1..Len(LogsOf(from, to)) :
              i < j => Before(LogsOf(from, to)[i], LogsOf(from, to)[j])
<1>1. PICK n, L : n = Len(EthLogs) /\ L = LogsOf(from, to)
  BY Zenon
<1>2. PICK lo, hi : IsRangeOf(L, lo, hi, from, to)
  BY <1>1, LogsOfRange
<1>3. /\ lo \in Nat /\ hi \in Nat /\ lo <= hi /\ hi <= n /\ L \in Seq(Log) /\ Len(L) = hi - lo
      /\ \A k \in 1..(hi - lo) : L[k] = EthLogs[lo + k]
  BY <1>1, <1>2 DEF IsRangeOf
<1>4. /\ n \in Nat /\ DOMAIN EthLogs = 1..n
      /\ \A i, j \in DOMAIN EthLogs : i < j => Before(EthLogs[i], EthLogs[j])
  BY <1>1, LogsAssumption
<1>5. ASSUME NEW i \in 1..Len(L), NEW j \in 1..Len(L), i < j
      PROVE  Before(L[i], L[j])
  <2>1. /\ i \in 1..(hi - lo) /\ j \in 1..(hi - lo)
        /\ lo + i \in 1..n /\ lo + j \in 1..n /\ lo + i < lo + j
    BY <1>3, <1>4, <1>5
  <2>2. Before(EthLogs[lo + i], EthLogs[lo + j])
    BY <1>4, <2>1
  <2> QED
    BY <1>3, <2>1, <2>2, ZenonT(30)
<1> QED
  BY <1>1, <1>3, <1>5

(* An answer in the wrong order is accepted only if at most one of its     *)
(* logs counts, and then the order does not matter.                        *)
LEMMA ReversedEvents ==
  ASSUME NEW L \in Seq(Log), \A i, j \in 1..Len(L) : i < j => Before(L[i], L[j]),
         NEW from \in Int, processLogs(Reversed(L), from).ok, NEW b
  PROVE  Reversed(L) \in Seq(Log) /\ EventsIn(Reversed(L), b) = EventsIn(L, b)
<1>1. PICK n, M : n = Len(L) /\ M = Reversed(L)
  OBVIOUS
<1>2. n \in Nat /\ \A i \in 1..n : L[i] \in Log
  BY <1>1
<1>0. PICK flip : flip = [i \in 1..n |-> n + 1 - i]
  BY Zenon
<1>4. /\ \A i \in 1..n : flip[i] \in 1..n /\ flip[flip[i]] = i
      /\ \A i, j \in 1..n : i < j => flip[j] < flip[i]
  <2>1. \A i \in 1..n : n + 1 - i \in 1..n /\ n + 1 - (n + 1 - i) = i
    BY <1>2
  <2>2. \A i \in 1..n : flip[i] = n + 1 - i
    BY <1>0
  <2> QED
    BY <1>2, <2>1, <2>2
<1>3. M = [i \in 1..n |-> L[flip[i]]]
  BY <1>0, <1>1 DEF Reversed
<1>5. M \in Seq(Log) /\ Len(M) = n
  BY <1>2, <1>3, <1>4
<1>6. \A i \in 1..n : M[i] = L[flip[i]] /\ M[flip[i]] = L[i]
  BY <1>3, <1>4
<1>7. ASSUME NEW i \in 1..n, NEW j \in 1..n, i < j, ~L[i].removed, ~L[j].removed
      PROVE  FALSE
  <2>1. PICK s, t : s = flip[j] /\ t = flip[i]
    OBVIOUS
  <2>2. s \in 1..n /\ t \in 1..n /\ s < t /\ M[s] = L[j] /\ M[t] = L[i]
    BY <1>2, <1>4, <1>6, <1>7, <2>1
  <2>3. Before(M[s], M[t])
    BY <1>1, <1>5, <1>7, <2>2, AcceptedInOrder, ZenonT(30)
  <2>4. Before(L[i], L[j])
    BY <1>1, <1>7
  <2> QED
    BY <1>2, <2>2, <2>3, <2>4, BeforeIsStrict
<1>8. CASE \E p \in 1..n : IsEvent(L[p], b)
  <2>1. PICK p \in 1..n : IsEvent(L[p], b)
    BY <1>8
  <2>2. \A i \in 1..n : i # p => ~IsEvent(L[i], b)
    BY <1>7, <2>1 DEF IsEvent
  <2>3. PICK q : q = flip[p]
    OBVIOUS
  <2>4. q \in 1..n /\ M[q] = L[p] /\ \A i \in 1..n : i # q => flip[i] # p
    BY <1>2, <1>4, <1>6, <2>3
  <2>5. \A i \in 1..n : i # q => ~IsEvent(M[i], b)
    BY <1>4, <1>6, <2>2, <2>4
  <2>6. EventsIn(L, b) = <<L[p].event>>
    BY <1>1, <2>1, <2>2, OneEvent, ZenonT(30)
  <2>7. EventsIn(M, b) = <<M[q].event>>
    <3>1. IsEvent(M[q], b)
      BY <2>1, <2>4
    <3> QED
      BY <1>5, <2>4, <2>5, <3>1, OneEvent, ZenonT(30)
  <2> QED
    BY <1>1, <1>5, <2>4, <2>6, <2>7
<1>9. CASE ~\E p \in 1..n : IsEvent(L[p], b)
  <2>1. EventsIn(L, b) = <<>>
    BY <1>1, <1>9, NoEvent
  <2>2. \A i \in 1..n : ~IsEvent(M[i], b)
    BY <1>4, <1>6, <1>9
  <2>3. EventsIn(M, b) = <<>>
    BY <1>5, <2>2, NoEvent
  <2> QED
    BY <1>1, <1>5, <2>1, <2>3
<1> QED
  BY <1>8, <1>9

(* An answer that is repeated is accepted only if none of its logs counts. *)
LEMMA RepeatedEvents ==
  ASSUME NEW L \in Seq(Log), NEW from \in Int, processLogs(L \o L, from).ok, NEW b
  PROVE  L \o L \in Seq(Log) /\ EventsIn(L \o L, b) = EventsIn(L, b)
<1>1. PICK n, M : n = Len(L) /\ M = L \o L
  BY Zenon
<1>2. n \in Nat /\ \A i \in 1..n : L[i] \in Log
  BY <1>1
<1>3. M \in Seq(Log) /\ Len(M) = n + n
  BY <1>1
<1>4. \A i \in 1..n : M[i] = L[i] /\ M[i + n] = L[i]
  BY <1>1, <1>2
<1>5. ASSUME NEW i \in 1..n, ~L[i].removed
      PROVE  FALSE
  <2>1. /\ i \in 1..Len(M) /\ i + n \in 1..Len(M) /\ i < i + n
        /\ M[i] = L[i] /\ M[i + n] = L[i]
    BY <1>2, <1>3, <1>4
  <2>2. Before(M[i], M[i + n])
    BY <1>1, <1>3, <1>5, <2>1, AcceptedInOrder, Zenon
  <2> QED
    BY <1>2, <2>1, <2>2, BeforeIsStrict
<1>6. EventsIn(L, b) = <<>>
  BY <1>1, <1>5, NoEvent DEF IsEvent
<1>7. \A i \in 1..Len(M) : ~IsEvent(M[i], b)
  <2>1. ASSUME NEW i \in 1..Len(M)
        PROVE  M[i].removed
    <3>1. CASE i \in 1..n
      BY <1>4, <1>5, <3>1
    <3>2. CASE i \notin 1..n
      <4>1. i - n \in 1..n /\ (i - n) + n = i
        BY <1>2, <1>3, <3>2
      <4> QED
        BY <1>4, <1>5, <4>1
    <3> QED
      BY <3>1, <3>2
  <2> QED
    BY <2>1 DEF IsEvent
<1>8. EventsIn(M, b) = <<>>
  BY <1>3, <1>7, NoEvent
<1> QED
  BY <1>1, <1>3, <1>6, <1>8

(* Whatever the Ethereum node returns, what processLogs accepts of it is   *)
(* the events of the blocks of the range.                                  *)
LEMMA ProcessedEvents ==
  ASSUME NEW from \in Int, NEW to \in Int, from <= to,
         NEW logs \in FilterLogs(from, to), processLogs(logs, from).ok
  PROVE  /\ processLogs(logs, from).events \in [Blocks -> Seq(Nat \ {0})]
         /\ \A b \in Blocks : processLogs(logs, from).events[b] =
                               IF b \in from..to THEN EventsOf(b) ELSE <<>>
<1>1. PICK L : L = LogsOf(from, to)
  OBVIOUS
<1>2. L \in Seq(Log) /\ \A i, j \in 1..Len(L) : i < j => Before(L[i], L[j])
  BY <1>1, LogsOfOrdered, Zenon
<1>3. logs = L \/ logs = Reversed(L) \/ logs = L \o L
  BY <1>1 DEF FilterLogs
<1>4. logs \in Seq(Log) /\ \A b \in Blocks : EventsIn(logs, b) = EventsIn(L, b)
  <2>1. CASE logs = L
    BY <1>2, <2>1
  <2>2. CASE logs = Reversed(L)
    <3>1. processLogs(Reversed(L), from).ok
      BY <2>2
    <3>2. logs \in Seq(Log)
      BY <1>2, <2>2, <3>1, ReversedEvents, ZenonT(30)
    <3>3. ASSUME NEW b \in Blocks
          PROVE  EventsIn(logs, b) = EventsIn(L, b)
      BY <1>2, <2>2, <3>1, ReversedEvents
    <3> QED
      BY <3>2, <3>3
  <2>3. CASE logs = L \o L
    <3>1. processLogs(L \o L, from).ok
      BY <2>3
    <3>2. logs \in Seq(Log)
      BY <1>2, <2>3
    <3>3. ASSUME NEW b \in Blocks
          PROVE  EventsIn(logs, b) = EventsIn(L, b)
      BY <1>2, <2>3, <3>1, RepeatedEvents
    <3> QED
      BY <3>2, <3>3
  <2> QED
    BY <1>3, <2>1, <2>2, <2>3
<1>5. /\ processLogs(logs, from).events \in [Blocks -> Seq(Nat \ {0})]
      /\ \A b \in Blocks : processLogs(logs, from).events[b] = EventsIn(logs, b)
  BY <1>4, AcceptedEvents
<1>6. \A b \in Blocks : EventsIn(L, b) = IF b \in from..to THEN EventsOf(b) ELSE <<>>
  BY <1>1, EventsOfRange
<1> QED
  BY <1>4, <1>5, <1>6

-----------------------------------------------------------------------------
(* The inductive invariant                                                 *)

(* The last block with events in the store.                                *)
Stored == IF pc = "stored" THEN job.fetched ELSE lastSyncedBlock

(* Where the thread is in the blocks of Ethereum.                          *)
JobOK ==
  /\ job.seen <= sequencer
  /\ pc = "fetch" => lastSyncedBlock < job.to /\ job.to <= finalized
  /\ pc = "stored" =>
       /\ lastSyncedBlock < job.fetched /\ job.fetched <= job.to /\ job.to <= finalized

(* A store that has nothing yet may begin after the finalized block.       *)
RangeOK ==
  /\ finalized <= MaxEthBlock
  /\ lastSyncedBlock <= finalized \/ lastSyncedBlock < startQueryBlock

StoreOK ==
  \A b \in Blocks :
    /\ blocks[b] # <<>> => b <= Stored /\ b <= finalized /\ blocks[b] = EventsOf(b)
    /\ b > sequencer /\ b \in startQueryBlock..Stored => blocks[b] = EventsOf(b)

(***************************************************************************)
(* A query in any of its steps.  One that was settled when it came still   *)
(* finds its block, or the block was pruned and the Sequencer has it.      *)
(***************************************************************************)
QueryOK(x) ==
  /\ x.settled /\ x.pc \in {"asked", "missed", "ranged"} =>
       /\ x.block \in Blocks /\ x.block <= lastSyncedBlock
       /\ x.block >= startQueryBlock => blocks[x.block] = EventsOf(x.block)
       /\ x.block < startQueryBlock => x.block <= sequencer
       /\ x.pc = "missed" => EventsOf(x.block) = <<>> \/ x.block < startQueryBlock
       /\ x.pc = "ranged" => IF x.block < x.start THEN x.block <= sequencer
                             ELSE EventsOf(x.block) = <<>>
  /\ x.pc = "ranged" =>
       /\ x.start <= startQueryBlock
       /\ x.start = startQueryBlock \/ lastSyncedBlock <= finalized
  /\ x.pc = "answered" /\ x.settled =>
       \/ x.ok /\ x.events = EventsOf(x.block)
       \/ ~x.ok /\ x.block <= sequencer
  /\ x.pc = "answered" /\ x.ok =>
       x.block <= finalized /\ x.events \in {<<>>, EventsOf(x.block)}

(* The inductive invariant.                                                *)
IInv ==
  /\ TypeOK /\ RangeOK /\ JobOK /\ StoreOK
  /\ \A q \in Handlers : QueryOK(query[q])

(***************************************************************************)
(* What a step that is not a restart does to the store, seen by a query.   *)
(***************************************************************************)
Forward ==
  /\ sequencer' >= sequencer /\ finalized' >= finalized
  /\ lastSyncedBlock' >= lastSyncedBlock /\ startQueryBlock' >= startQueryBlock
  /\ \A b \in Blocks :
       b <= lastSyncedBlock /\ b >= startQueryBlock' => blocks'[b] = blocks[b]
  /\ \A b \in Blocks : b >= startQueryBlock /\ b < startQueryBlock' => b <= sequencer'
  /\ \/ lastSyncedBlock' <= finalized'
     \/ lastSyncedBlock' = lastSyncedBlock /\ startQueryBlock' = startQueryBlock

(* The types that the proofs about numbers need.                           *)
LEMMA Types ==
  ASSUME TypeOK
  PROVE  /\ finalized \in Nat /\ sequencer \in Nat /\ sequencer <= finalized
         /\ startQueryBlock \in Nat /\ startQueryBlock >= 1 /\ lastSyncedBlock \in Nat
         /\ job \in Job /\ job.to \in Nat /\ job.fetched \in Nat /\ job.seen \in Int
         /\ blocks \in [Blocks -> Seq(Nat \ {0})]
         /\ Blocks \subseteq Nat /\ Stored \in Nat
<1>1. job \in Job
  BY DEF TypeOK
<1>2. job.to \in Nat /\ job.fetched \in Nat /\ job.seen \in Int
  BY ONLY <1>1, SMTT(30) DEF Job, NotAsked
<1> QED
  BY <1>1, <1>2, SidecarAssumption DEF TypeOK, Blocks, Stored

(* A query is as right after a step of the others as it was before.        *)
LEMMA KeepQuery ==
  ASSUME TypeOK, TypeOK', Forward, NEW x \in Query, QueryOK(x)
  PROVE  QueryOK(x)'
<1>1. x.block \in Nat /\ x.start \in Nat
  BY DEF Query
<1>2. /\ finalized \in Nat /\ sequencer \in Nat /\ startQueryBlock \in Nat
      /\ lastSyncedBlock \in Nat /\ finalized' \in Nat /\ sequencer' \in Nat
      /\ startQueryBlock' \in Nat /\ lastSyncedBlock' \in Nat
  BY SidecarAssumption, SMTT(30) DEF TypeOK
<1>3. ASSUME x.settled, x.pc \in {"asked", "missed", "ranged"}
      PROVE  /\ x.block \in Blocks /\ x.block <= lastSyncedBlock'
             /\ x.block >= startQueryBlock' => blocks'[x.block] = EventsOf(x.block)
             /\ x.block < startQueryBlock' => x.block <= sequencer'
             /\ x.pc = "missed" => EventsOf(x.block) = <<>> \/ x.block < startQueryBlock'
             /\ x.pc = "ranged" => IF x.block < x.start THEN x.block <= sequencer'
                                   ELSE EventsOf(x.block) = <<>>
  BY <1>1, <1>2, <1>3 DEF QueryOK, Forward
<1>4. x.pc = "ranged" =>
        /\ x.start <= startQueryBlock'
        /\ x.start = startQueryBlock' \/ lastSyncedBlock' <= finalized'
  BY <1>1, <1>2 DEF QueryOK, Forward
<1>5. x.pc = "answered" /\ x.settled =>
        \/ x.ok /\ x.events = EventsOf(x.block)
        \/ ~x.ok /\ x.block <= sequencer'
  BY <1>1, <1>2 DEF QueryOK, Forward
<1>6. x.pc = "answered" /\ x.ok =>
        x.block <= finalized' /\ x.events \in {<<>>, EventsOf(x.block)}
  BY <1>1, <1>2 DEF QueryOK, Forward
<1> QED
  BY <1>3, <1>4, <1>5, <1>6 DEF QueryOK

(* Steps that leave the queries alone and move the store forward.          *)
LEMMA KeepQueries ==
  ASSUME IInv, TypeOK', RangeOK', JobOK', StoreOK', Forward, query' = query
  PROVE  IInv'
<1>1. query \in [Handlers -> Query]
  BY DEF IInv, TypeOK
<1>2. ASSUME NEW q \in Handlers PROVE QueryOK(query[q])'
  <2>1. PICK x \in Query : x = query[q]
    BY <1>1
  <2>2. QueryOK(x)
    BY <2>1 DEF IInv
  <2>3. QueryOK(x)'
    BY <2>2, KeepQuery DEF IInv
  <2> QED
    BY <2>1, <2>3
<1> QED
  BY <1>2 DEF IInv

(* Steps that change neither the store nor the world around it.            *)
LEMMA QuietStep ==
  ASSUME IInv, UNCHANGED <<eth, store, query>>, TypeOK', JobOK', Stored' = Stored
  PROVE  IInv' /\ Forward
<1>1. /\ finalized' = finalized /\ sequencer' = sequencer /\ blocks' = blocks
      /\ startQueryBlock' = startQueryBlock /\ lastSyncedBlock' = lastSyncedBlock
      /\ query' = query
  BY DEF eth, store
<1>2. Forward
  BY <1>1, Types DEF IInv, Forward
<1>3. RangeOK'
  BY <1>1 DEF IInv, RangeOK
<1>4. StoreOK'
  BY <1>1 DEF IInv, StoreOK
<1> QED
  BY <1>1, <1>2, <1>3, <1>4, KeepQueries, SMTT(30)

(* A finalized block of Ethereum, or one that the chain consumes.          *)
LEMMA WorldStep ==
  ASSUME IInv, Finalize \/ SequencerSync
  PROVE  IInv' /\ Forward
<1>1. /\ UNCHANGED <<blocks, startQueryBlock, lastSyncedBlock, pc, job, query>>
      /\ UNCHANGED <<cancelled, errors, restarts>>
  BY DEF Finalize, SequencerSync, store
<1>2. /\ finalized' \in Nat /\ sequencer' \in Nat
      /\ finalized' >= finalized /\ sequencer' >= sequencer /\ sequencer' <= finalized'
      /\ finalized' <= MaxEthBlock
  BY Types, SidecarAssumption DEF IInv, RangeOK, Finalize, SequencerSync
<1>3. TypeOK'
  BY <1>1, <1>2 DEF IInv, TypeOK
<1>4. Forward
  BY <1>1, <1>2, Types DEF IInv, Forward
<1>5. RangeOK' /\ JobOK'
  BY <1>1, <1>2, Types DEF IInv, RangeOK, JobOK
<1>6. Stored' = Stored
  BY <1>1 DEF Stored
<1>7. StoreOK'
  BY <1>1, <1>2, <1>6, Types DEF IInv, StoreOK
<1> QED
  BY <1>1, <1>3, <1>4, <1>5, <1>7, KeepQueries, SMTT(30)

(* The steps of the thread that only move it on, and the signal.           *)
LEMMA ControlStep ==
  ASSUME IInv,
         \/ Retry
         \/ catchUpWithEthereumLogs
         \/ Subscribe
         \/ NewHeader
         \/ ContextDone
         \/ FetchLastEthereumBlockSynced
         \/ Cancel
  PROVE  IInv' /\ Forward
<1>1. UNCHANGED <<eth, store, query>>
  BY DEF Retry, catchUpWithEthereumLogs, Subscribe, NewHeader, ContextDone,
         FetchLastEthereumBlockSynced, Cancel
<1>2. /\ finalized' = finalized /\ sequencer' = sequencer
      /\ lastSyncedBlock' = lastSyncedBlock /\ query' = query
      /\ blocks' = blocks /\ startQueryBlock' = startQueryBlock
  BY <1>1 DEF eth, store
<1>3. MaxSyncableBlock \in Nat /\ MaxSyncableBlock <= finalized
  BY Types, SidecarAssumption DEF IInv, MaxSyncableBlock
<1>4. ASSUME NEW next \in {"subscribe", "fetchLast"}, FetchOr(next), pc # "stored"
      PROVE  /\ job' \in Job /\ pc' \in {"fetch", "subscribe", "fetchLast"}
             /\ job'.seen = job.seen
             /\ pc' = "fetch" => lastSyncedBlock < job'.to /\ job'.to <= finalized
  <2>1. CASE MaxSyncableBlock > lastSyncedBlock
    BY <1>3, <1>4, <2>1, Types, ZenonT(30) DEF IInv, FetchOr, Job
  <2>2. CASE ~(MaxSyncableBlock > lastSyncedBlock)
    BY <1>4, <2>2, Types DEF IInv, FetchOr
  <2> QED
    BY <2>1, <2>2
<1>5. NoJob \in Job /\ NoJob.seen <= sequencer
  BY Types DEF IInv, NoJob, Job, NotAsked
<1>6. /\ job' \in Job /\ job'.seen <= sequencer
      /\ pc' \in {"catchUp", "fetch", "stored", "subscribe", "wait", "fetchLast",
                  "calibrate", "stopped"}
      /\ \/ /\ pc # "stored" /\ pc' # "stored"
            /\ pc' = "fetch" => lastSyncedBlock < job'.to /\ job'.to <= finalized
         \/ pc' = pc /\ job' = job
  <2>1. job \in Job /\ job.seen <= sequencer /\ sequencer \in Nat
    BY Types DEF IInv, JobOK
  <2>2. CASE Retry
    BY <1>5, <2>2 DEF Retry
  <2>3. CASE catchUpWithEthereumLogs
    BY <1>4, <2>1, <2>3 DEF catchUpWithEthereumLogs
  <2>4. CASE Subscribe \/ ContextDone
    BY <2>1, <2>4 DEF Subscribe, ContextDone
  <2>5. CASE NewHeader
    BY <1>4, <2>1, <2>5 DEF NewHeader
  <2>6. CASE FetchLastEthereumBlockSynced
    <3>1. \/ job' = [job EXCEPT !.seen = sequencer]
          \/ job' = [job EXCEPT !.seen = NotAsked]
      BY <2>6 DEF FetchLastEthereumBlockSynced
    <3>2. job' \in Job /\ job'.seen \in {sequencer, NotAsked}
      BY ONLY <2>1, <3>1, SMTT(30) DEF Job
    <3> QED
      BY <2>1, <2>6, <3>2 DEF FetchLastEthereumBlockSynced, NotAsked
  <2>7. CASE Cancel
    BY <2>1, <2>7 DEF Cancel, IInv, TypeOK
  <2> QED
    BY <2>2, <2>3, <2>4, <2>5, <2>6, <2>7
<1>7. cancelled' \in BOOLEAN /\ errors' \in 0..MaxErrors /\ restarts' = restarts
  <2>1. cancelled \in BOOLEAN /\ errors \in 0..MaxErrors
    BY DEF IInv, TypeOK
  <2>2. \/ errors' = errors
        \/ errors < MaxErrors /\ errors' = errors + 1
    BY DEF Retry, catchUpWithEthereumLogs, Subscribe, NewHeader, ContextDone,
           FetchLastEthereumBlockSynced, Cancel
  <2>3. cancelled' \in {cancelled, TRUE} /\ restarts' = restarts
    BY Zenon DEF Retry, catchUpWithEthereumLogs, Subscribe, NewHeader, ContextDone,
           FetchLastEthereumBlockSynced, Cancel
  <2>4. errors' \in 0..MaxErrors
    BY <2>1, <2>2, SidecarAssumption
  <2>5. cancelled' \in BOOLEAN
    BY <2>1, <2>3, Zenon
  <2> QED
    BY <2>3, <2>4, <2>5
<1>8. TypeOK'
  BY <1>2, <1>6, <1>7 DEF IInv, TypeOK
<1>9. JobOK'
  BY <1>2, <1>6 DEF IInv, JobOK
<1>10. Stored' = Stored
  BY <1>2, <1>6 DEF Stored
<1> QED
  BY <1>1, <1>8, <1>9, <1>10, QuietStep, SMTT(30)

(* The smaller of two numbers.                                             *)
LEMMA MinOfTwo ==
  ASSUME NEW m \in Nat, NEW n \in Nat
  PROVE  /\ Min({m, n}) \in Nat /\ Min({m, n}) \in {m, n}
         /\ Min({m, n}) <= m /\ Min({m, n}) <= n
<1>1. \E x \in {m, n} : \A y \in {m, n} : x <= y
  OBVIOUS
<1> QED
  BY <1>1 DEF Min

(***************************************************************************)
(* A range of logs is stored: only blocks after lastSyncedBlock get        *)
(* events, and those had none, so nothing is stored twice.                 *)
(***************************************************************************)
LEMMA AddEventsStep ==
  ASSUME IInv, AddEvents
  PROVE  IInv' /\ Forward
<1> DEFINE from == lastSyncedBlock + 1
<1>1. /\ finalized' = finalized /\ sequencer' = sequencer /\ query' = query
      /\ lastSyncedBlock' = lastSyncedBlock /\ startQueryBlock' = startQueryBlock
      /\ cancelled' = cancelled /\ restarts' = restarts
      /\ pc = "fetch" /\ from <= FetchTo
  BY DEF AddEvents, eth
<1>2. /\ FetchTo \in Nat /\ FetchTo <= job.to
      /\ lastSyncedBlock < FetchTo /\ job.to <= finalized /\ Stored = lastSyncedBlock
  <2>1. job.to \in Nat /\ lastSyncedBlock + MaxQueryRange \in Nat
    BY Types, SidecarAssumption DEF IInv
  <2>2. FetchTo \in Nat /\ FetchTo <= job.to
    BY <2>1, MinOfTwo DEF FetchTo
  <2> QED
    BY <1>1, <2>2, Types DEF IInv, JobOK, Stored
<1>3. CASE pc' = "catchUp" /\ job' = NoJob /\ blocks' = blocks
           /\ errors < MaxErrors /\ errors' = errors + 1
  <2>1. NoJob \in Job /\ NoJob.seen <= sequencer
    BY Types DEF IInv, NoJob, Job, NotAsked
  <2>2. errors' \in 0..MaxErrors
    BY <1>3, SidecarAssumption DEF IInv, TypeOK
  <2>3. TypeOK'
    BY <1>1, <1>3, <2>1, <2>2, SMTT(30) DEF IInv, TypeOK
  <2>4. JobOK'
    BY <1>1, <1>3, <2>1, SMTT(30) DEF JobOK
  <2>5. Stored' = Stored
    BY <1>1, <1>3 DEF Stored
  <2> QED
    BY <1>1, <1>3, <2>3, <2>4, <2>5, QuietStep, SMTT(30) DEF eth, store
<1>4. ASSUME NEW logs \in FilterLogs(from, FetchTo), processLogs(logs, from).ok,
             blocks' = [b \in Blocks |-> blocks[b] \o processLogs(logs, from).events[b]],
             pc' = "stored", job' = [job EXCEPT !.fetched = FetchTo], errors' = errors
      PROVE  IInv' /\ Forward
  <2>1. PICK events : events = processLogs(logs, from).events
    OBVIOUS
  <2>2. /\ events \in [Blocks -> Seq(Nat \ {0})]
        /\ \A b \in Blocks : events[b] = IF b \in from..FetchTo THEN EventsOf(b) ELSE <<>>
    <3>1. from \in Int /\ FetchTo \in Int /\ from <= FetchTo
      BY <1>1, <1>2, Types DEF IInv
    <3> HIDE DEF from
    <3> QED
      BY <1>4, <2>1, <3>1, ProcessedEvents
  <2>3. blocks' = [b \in Blocks |-> blocks[b] \o events[b]]
    BY <1>4, <2>1
  <2>4. /\ blocks \in [Blocks -> Seq(Nat \ {0})] /\ Blocks \subseteq Nat
        /\ lastSyncedBlock \in Nat /\ job \in Job /\ sequencer \in Nat /\ finalized \in Nat
        /\ startQueryBlock \in Nat
    BY Types DEF IInv
  <2>5. \A b \in Blocks : /\ b <= lastSyncedBlock \/ b > FetchTo => blocks'[b] = blocks[b]
                          /\ b \in from..FetchTo => blocks'[b] = EventsOf(b)
    <3> TAKE b \in Blocks
    <3>1. blocks[b] \in Seq(Nat \ {0}) /\ events[b] \in Seq(Nat \ {0}) /\ b \in Nat
      BY <2>2, <2>4
    <3>2. blocks'[b] = blocks[b] \o events[b]
      BY <2>3, Zenon
    <3>3. b <= lastSyncedBlock \/ b > FetchTo => events[b] = <<>>
      BY <1>2, <2>2, <2>4, <3>1
    <3>4. b \in from..FetchTo => events[b] = EventsOf(b) /\ blocks[b] = <<>>
      BY <1>2, <2>2, <2>4, <3>1 DEF IInv, StoreOK
    <3>5. blocks[b] \o <<>> = blocks[b] /\ <<>> \o events[b] = events[b]
      BY <3>1
    <3> QED
      BY <3>2, <3>3, <3>4, <3>5, Zenon
  <2>6. blocks' \in [Blocks -> Seq(Nat \ {0})]
    BY <2>2, <2>3, <2>4, SMTT(30)
  <2>7. job' \in Job /\ job'.fetched = FetchTo /\ job'.to = job.to /\ job'.seen = job.seen
    <3>1. PICK to : to = FetchTo
      OBVIOUS
    <3>2. job' = [job EXCEPT !.fetched = to] /\ to \in Nat
      BY <1>2, <1>4, <3>1
    <3>3. job' \in Job /\ job'.fetched = to /\ job'.to = job.to /\ job'.seen = job.seen
      BY <2>4, <3>2, Zenon DEF Job
    <3> QED
      BY <3>1, <3>3
  <2>8. TypeOK'
    BY <1>1, <1>4, <2>6, <2>7, SMTT(30) DEF IInv, TypeOK
  <2>9. JobOK' /\ RangeOK' /\ Stored' = FetchTo
    BY <1>1, <1>2, <1>4, <2>7, SMTT(30) DEF IInv, JobOK, RangeOK, Stored
  <2>10. StoreOK'
    <3> SUFFICES ASSUME NEW b \in Blocks
                 PROVE  /\ blocks'[b] # <<>> =>
                             b <= FetchTo /\ b <= finalized /\ blocks'[b] = EventsOf(b)
                        /\ b > sequencer /\ b \in startQueryBlock..FetchTo =>
                             blocks'[b] = EventsOf(b)
      BY <1>1, <2>9 DEF StoreOK
    <3>1. b \in Nat
      BY <2>4
    <3>2. CASE b <= lastSyncedBlock \/ b > FetchTo
      BY <1>2, <2>4, <2>5, <3>1, <3>2, SMTT(30) DEF IInv, StoreOK
    <3>3. CASE b \in from..FetchTo
      <4>1. FetchTo <= finalized
        BY <1>2, <2>4, Types, SMTT(30) DEF IInv
      <4> QED
        BY <1>2, <2>4, <2>5, <3>1, <3>3, <4>1, SMTT(30)
    <3> QED
      BY ONLY <1>2, <2>4, <3>1, <3>2, <3>3, SMTT(30)
  <2>11. Forward
    BY <1>1, <2>4, <2>5, SMTT(30) DEF Forward
  <2> QED
    BY <1>1, <2>8, <2>9, <2>10, <2>11, KeepQueries, SMTT(30)
<1> QED
  BY <1>3, <1>4, Zenon DEF AddEvents

(* The second critical section: the range counts as synced.                *)
LEMMA SetLastSyncedStep ==
  ASSUME IInv, SetLastSyncedBlock
  PROVE  IInv' /\ Forward
<1>1. /\ finalized' = finalized /\ sequencer' = sequencer /\ query' = query
      /\ blocks' = blocks /\ startQueryBlock' = startQueryBlock /\ job' = job
      /\ cancelled' = cancelled /\ restarts' = restarts /\ errors' = errors
      /\ pc = "stored" /\ lastSyncedBlock' = job.fetched
      /\ pc' = IF job.fetched = job.to THEN job.back ELSE "fetch"
  BY DEF SetLastSyncedBlock, eth
<1>2. /\ finalized \in Nat /\ sequencer \in Nat /\ lastSyncedBlock \in Nat /\ job \in Job
      /\ job.fetched \in Nat /\ job.to \in Nat /\ startQueryBlock \in Nat
      /\ Blocks \subseteq Nat /\ job.back \in {"subscribe", "fetchLast"}
  BY Types DEF IInv, Job
<1>3. lastSyncedBlock < job.fetched /\ job.fetched <= job.to /\ job.to <= finalized
  BY <1>1 DEF IInv, JobOK
<1>4. TypeOK'
  BY <1>1, <1>2 DEF IInv, TypeOK
<1>5. RangeOK' /\ JobOK'
  BY <1>1, <1>2, <1>3 DEF IInv, RangeOK, JobOK
<1>6. Stored' = Stored
  BY <1>1, <1>2 DEF Stored
<1>7. StoreOK'
  BY <1>1, <1>6 DEF IInv, StoreOK
<1>8. Forward
  BY <1>1, <1>2, <1>3 DEF Forward
<1> QED
  BY <1>1, <1>4, <1>5, <1>7, <1>8, KeepQueries, SMTT(30)

(***************************************************************************)
(* The jump to the Sequencer's block and the pruning behind it: both stay  *)
(* within what the Sequencer has consumed.                                 *)
(***************************************************************************)
LEMMA CalibrateStep ==
  ASSUME IInv, CalibrateBlocksAndPruneLogs
  PROVE  IInv' /\ Forward
<1>1. /\ finalized' = finalized /\ sequencer' = sequencer /\ query' = query
      /\ cancelled' = cancelled /\ restarts' = restarts /\ errors' = errors
      /\ pc = "calibrate" /\ pc' = "wait" /\ job' = NoJob
      /\ lastSyncedBlock' = FastForward
  BY DEF CalibrateBlocksAndPruneLogs, eth
<1>2. /\ finalized \in Nat /\ sequencer \in Nat /\ lastSyncedBlock \in Nat
      /\ sequencer <= finalized /\ startQueryBlock \in Nat /\ startQueryBlock >= 1
      /\ Blocks \subseteq Nat /\ job.seen \in Int /\ job.seen <= sequencer
      /\ blocks \in [Blocks -> Seq(Nat \ {0})]
  BY Types DEF IInv, JobOK
<1>3. /\ lastSyncedBlock' \in Nat /\ lastSyncedBlock' >= lastSyncedBlock
      /\ lastSyncedBlock' >= job.seen
      /\ lastSyncedBlock' = lastSyncedBlock \/ lastSyncedBlock' = job.seen
  BY <1>1, <1>2 DEF FastForward
<1>4. NoJob \in Job /\ NoJob.seen <= sequencer
  BY <1>2 DEF NoJob, Job, NotAsked
<1>5. JobOK'
  BY <1>1, <1>4 DEF JobOK
<1>6. Stored = lastSyncedBlock /\ Stored' = lastSyncedBlock'
  BY <1>1 DEF Stored
<1>7. CASE ~IsPruning
  <2>1. blocks' = blocks /\ startQueryBlock' = startQueryBlock
    BY <1>7 DEF CalibrateBlocksAndPruneLogs
  <2>2. TypeOK'
    BY <1>1, <1>3, <1>4, <2>1, SMTT(30) DEF IInv, TypeOK
  <2>3. RangeOK'
    BY <1>1, <1>2, <1>3, <2>1, SMTT(30) DEF IInv, RangeOK
  <2>4. StoreOK'
    BY <1>1, <1>2, <1>3, <1>6, <2>1, SMTT(30) DEF IInv, StoreOK
  <2>5. Forward
    BY <1>1, <1>2, <1>3, <2>1, SMTT(30) DEF Forward
  <2> QED
    BY <1>1, <1>5, <2>2, <2>3, <2>4, <2>5, KeepQueries, SMTT(30)
<1>8. CASE IsPruning
  <2>1. /\ startQueryBlock' = PruneUntil + 1
        /\ blocks' = [b \in Blocks |-> IF b \in startQueryBlock..PruneUntil THEN <<>>
                                       ELSE blocks[b]]
    BY <1>8 DEF CalibrateBlocksAndPruneLogs
  <2>2. /\ PruneUntil \in Nat /\ PruneUntil > startQueryBlock /\ PruneUntil <= job.seen
        /\ job.seen >= startQueryBlock
    BY <1>2, <1>8, SidecarAssumption DEF IsPruning, PruneUntil
  <2>3. blocks' \in [Blocks -> Seq(Nat \ {0})]
    <3>1. <<>> \in Seq(Nat \ {0})
      OBVIOUS
    <3> QED
      BY <1>2, <2>1, <3>1
  <2>4. startQueryBlock' \in Nat \ {0} /\ startQueryBlock' >= startQueryBlock
    BY <1>2, <2>1, <2>2, SMTT(30)
  <2>5. TypeOK'
    BY <1>1, <1>3, <1>4, <2>3, <2>4, SMTT(30) DEF IInv, TypeOK
  <2>6. lastSyncedBlock' <= finalized
    BY <1>2, <1>3, <2>2, SMTT(30) DEF IInv, RangeOK
  <2>7. RangeOK'
    BY <1>1, <2>6 DEF IInv, RangeOK
  <2>8. \A b \in Blocks :
          blocks'[b] = IF b \in startQueryBlock..PruneUntil THEN <<>> ELSE blocks[b]
    BY <2>1
  <2>9. StoreOK'
    <3> SUFFICES ASSUME NEW b \in Blocks
                 PROVE  /\ blocks'[b] # <<>> =>
                             /\ b <= lastSyncedBlock' /\ b <= finalized
                             /\ blocks'[b] = EventsOf(b)
                        /\ b > sequencer /\ b \in startQueryBlock'..lastSyncedBlock' =>
                             blocks'[b] = EventsOf(b)
      BY <1>1, <1>6 DEF StoreOK
    <3>1. b \in Nat
      BY <1>2, SMTT(30)
    <3>2. blocks'[b] # <<>> => b <= lastSyncedBlock' /\ b <= finalized /\ blocks'[b] = EventsOf(b)
      BY <1>2, <1>3, <1>6, <2>8, <3>1, SMTT(30) DEF IInv, StoreOK
    <3>3. ASSUME b > sequencer, b \in startQueryBlock'..lastSyncedBlock'
          PROVE  blocks'[b] = EventsOf(b)
      <4>1. b \in startQueryBlock..Stored /\ b \notin startQueryBlock..PruneUntil
        BY ONLY <1>2, <1>3, <1>6, <2>1, <2>2, <2>4, <3>1, <3>3, SMTT(30)
      <4> QED
        BY <2>8, <3>3, <4>1, SMTT(30) DEF IInv, StoreOK
    <3> QED
      BY ONLY <3>2, <3>3, SMTT(30)
  <2>10. Forward
    BY ONLY <1>1, <1>2, <1>3, <2>1, <2>2, <2>4, <2>6, <2>8, SMTT(30) DEF Forward
  <2> QED
    BY <1>1, <1>5, <2>5, <2>7, <2>9, <2>10, KeepQueries, SMTT(30)
<1> QED
  BY <1>7, <1>8

(* A new process: an empty store, and no query.                            *)
LEMMA FreshStore ==
  ASSUME NEW start \in Nat \ {0}
  PROVE  /\ NoEvents \in [Blocks -> Seq(Nat \ {0})]
         /\ \A b \in Blocks : NoEvents[b] = <<>>
         /\ start - 1 \in Nat /\ start - 1 < start
         /\ \A b \in Int : b \notin start..(start - 1)
         /\ NoJob \in Job /\ NoJob.seen = NotAsked /\ Idle \in Query
         /\ Idle.pc = "idle" /\ ~Idle.settled
<1>1. <<>> \in Seq(Nat \ {0})
  OBVIOUS
<1> QED
  BY <1>1 DEF NoEvents, NoJob, Job, NotAsked, Idle, Query

(* A restart begins with an empty store, which is right again.             *)
LEMMA RestartStep ==
  ASSUME IInv, Restart
  PROVE  IInv'
<1>1. /\ finalized' = finalized /\ sequencer' = sequencer /\ errors' = errors
      /\ blocks' = NoEvents /\ startQueryBlock' = StartBlock
      /\ lastSyncedBlock' = StartBlock - 1 /\ pc' = "catchUp" /\ job' = NoJob
      /\ cancelled' = FALSE /\ query' = [q \in Handlers |-> Idle]
      /\ restarts < MaxRestarts /\ restarts' = restarts + 1
  BY DEF Restart, NewEventStore, eth
<1>2. finalized \in Nat /\ sequencer \in Nat /\ Blocks \subseteq Nat
  BY Types DEF IInv
<1>3. StartBlock \in Nat \ {0}
  BY <1>2, SidecarAssumption DEF StartBlock
<1>4. PICK s \in Nat \ {0} : s = StartBlock
  BY <1>3
<1>5. /\ NoEvents \in [Blocks -> Seq(Nat \ {0})]
      /\ \A b \in Blocks : NoEvents[b] = <<>>
      /\ s - 1 \in Nat /\ s - 1 < s
      /\ \A b \in Int : b \notin s..(s - 1)
      /\ NoJob \in Job /\ NoJob.seen = NotAsked /\ Idle \in Query
      /\ Idle.pc = "idle" /\ ~Idle.settled
  BY <1>4, FreshStore
<1>6. restarts' \in 0..MaxRestarts
  BY <1>1, SidecarAssumption DEF IInv, TypeOK
<1>7. TypeOK'
  BY <1>1, <1>4, <1>5, <1>6, Zenon DEF IInv, TypeOK
<1>8. RangeOK' /\ JobOK'
  BY <1>1, <1>2, <1>4, <1>5, SMTT(30) DEF IInv, RangeOK, JobOK, NotAsked
<1>9. StoreOK'
  <2>1. Stored' = s - 1
    BY <1>1, <1>4 DEF Stored
  <2>2. \A b \in Blocks : blocks'[b] = <<>> /\ b \notin startQueryBlock'..Stored'
    BY ONLY <1>1, <1>2, <1>4, <1>5, <2>1, SMTT(30)
  <2> QED
    BY <2>2 DEF StoreOK
<1>10. ASSUME NEW q \in Handlers PROVE QueryOK(query[q])'
  <2>1. query'[q].pc = "idle" /\ ~query'[q].settled
    BY <1>1, <1>5
  <2> QED
    BY <2>1 DEF QueryOK
<1> QED
  BY <1>7, <1>8, <1>9, <1>10, SMTT(30) DEF IInv

(***************************************************************************)
(* A step of one handler only reads the store.                             *)
(***************************************************************************)
LEMMA OneQueryStep ==
  ASSUME IInv, NEW q \in Handlers, NEW y \in Query, QueryOK(y),
         query' = [query EXCEPT ![q] = y],
         UNCHANGED <<eth, store, pc, job, cancelled, errors, restarts>>
  PROVE  IInv' /\ Forward
<1>1. /\ finalized' = finalized /\ sequencer' = sequencer /\ blocks' = blocks
      /\ startQueryBlock' = startQueryBlock /\ lastSyncedBlock' = lastSyncedBlock
      /\ pc' = pc /\ job' = job /\ cancelled' = cancelled /\ errors' = errors
      /\ restarts' = restarts
  BY DEF eth, store
<1>2. query \in [Handlers -> Query]
  BY DEF IInv, TypeOK
<1>3. query' \in [Handlers -> Query] /\ query'[q] = y
      /\ \A p \in Handlers \ {q} : query'[p] = query[p]
  BY <1>2
<1>4. TypeOK'
  BY <1>1, <1>3, SMTT(30) DEF IInv, TypeOK
<1>5. RangeOK' /\ JobOK'
  BY <1>1, SMTT(30) DEF IInv, RangeOK, JobOK
<1>6. StoreOK'
  BY <1>1 DEF IInv, StoreOK, Stored
<1>7. Forward
  <2>1. /\ finalized \in Nat /\ sequencer \in Nat /\ startQueryBlock \in Nat
        /\ lastSyncedBlock \in Nat /\ Blocks \subseteq Nat
    BY Types DEF IInv
  <2> QED
    BY <1>1, <2>1 DEF Forward
<1>8. ASSUME NEW p \in Handlers PROVE QueryOK(query[p])'
  <2>1. PICK x \in Query : x = query'[p]
    BY <1>3
  <2>2. QueryOK(x)
    BY <1>3, <2>1 DEF IInv
  <2>3. QueryOK(x)'
    BY <1>4, <1>7, <2>2, KeepQuery, SMTT(30) DEF IInv
  <2> QED
    BY <2>1, <2>3
<1> QED
  BY <1>4, <1>5, <1>6, <1>7, <1>8, SMTT(30) DEF IInv

(* The block that comes next is in the store if it is in its range.        *)
LEMMA NewQueryStep ==
  ASSUME IInv, NEW q \in Handlers, GetBlockEvents(q)
  PROVE  IInv' /\ Forward
<1>1. /\ sequencer \in Nat /\ startQueryBlock \in Nat /\ lastSyncedBlock \in Nat
      /\ finalized \in Nat /\ Stored \in Nat /\ job.fetched \in Nat
      /\ <<>> \in Seq(Nat \ {0})
  BY Types DEF IInv
<1>2. PICK y : y = [Idle EXCEPT !.pc = IF pc = "stopped" THEN "answered" ELSE "asked",
                                !.block = sequencer + 1,
                                !.settled = pc # "stopped"
                                  /\ sequencer + 1 \in startQueryBlock..lastSyncedBlock]
  OBVIOUS
<1>3. /\ y.pc = IF pc = "stopped" THEN "answered" ELSE "asked"
      /\ y.block = sequencer + 1 /\ y.start = 0 /\ ~y.ok /\ y.events = <<>>
      /\ y.settled <=>
           pc # "stopped" /\ sequencer + 1 \in startQueryBlock..lastSyncedBlock
  BY <1>2, Zenon DEF Idle
<1>4. y \in Query
  <2>1. Idle \in Query
    BY <1>1 DEF Idle, Query
  <2>2. PICK settled \in BOOLEAN :
          settled = (pc # "stopped" /\ sequencer + 1 \in startQueryBlock..lastSyncedBlock)
    BY ZenonT(30)
  <2>3. y = [Idle EXCEPT !.pc = IF pc = "stopped" THEN "answered" ELSE "asked",
                         !.block = sequencer + 1, !.settled = settled]
    BY <1>2, <2>2, Zenon
  <2>4. settled \in BOOLEAN
    OBVIOUS
  <2>5. sequencer + 1 \in Nat
    BY <1>1
  <2> QED
    BY ONLY <2>1, <2>3, <2>4, <2>5, Zenon DEF Query
<1>5. query' = [query EXCEPT ![q] = y]
      /\ UNCHANGED <<eth, store, pc, job, cancelled, errors, restarts>>
  BY <1>2 DEF GetBlockEvents
<1>6. QueryOK(y)
  <2>1. CASE ~y.settled
    BY <1>3, <2>1, ZenonT(30) DEF QueryOK
  <2>2. CASE y.settled
    <3>1. y.pc = "asked" /\ y.block = sequencer + 1
      BY <1>3, <2>2, ZenonT(30)
    <3>2. /\ y.block \in startQueryBlock..lastSyncedBlock
          /\ y.block \in Blocks /\ y.block \in startQueryBlock..Stored
      BY <1>1, <1>3, <2>2, <3>1, SidecarAssumption, SMTT(30)
      DEF IInv, RangeOK, JobOK, Stored, Blocks, TypeOK
    <3>3. blocks[y.block] = EventsOf(y.block)
      BY <1>1, <3>1, <3>2, SMTT(30) DEF IInv, StoreOK
    <3> QED
      BY <1>1, <3>1, <3>2, <3>3, SMTT(30) DEF QueryOK
  <2> QED
    BY <2>1, <2>2, ZenonT(30)
<1> QED
  BY <1>4, <1>5, <1>6, OneQueryStep, Zenon

(* The three critical sections of an answer.                               *)
LEMMA StoredEventsStep ==
  ASSUME IInv, NEW q \in Handlers, GetStoredEvents(q)
  PROVE  IInv' /\ Forward
<1>1. query \in [Handlers -> Query] /\ UNCHANGED <<eth, store, pc, job, cancelled, errors, restarts>>
  BY DEF IInv, TypeOK, GetStoredEvents
<1>2. PICK x \in Query : x = query[q]
  BY <1>1
<1>3. QueryOK(x) /\ x.pc = "asked" /\ x.block \in Nat /\ StoreOK
  BY <1>2 DEF IInv, GetStoredEvents, Query
<1>4. blocks \in [Blocks -> Seq(Nat \ {0})]
  BY DEF IInv, TypeOK
<1>5. CASE x.block \in Blocks /\ blocks[x.block] # <<>>
  <2>1. PICK y : y = [x EXCEPT !.pc = "answered", !.ok = TRUE, !.events = blocks[x.block]]
    OBVIOUS
  <2>2. /\ y \in Query /\ y.pc = "answered" /\ y.ok /\ y.events = blocks[x.block]
        /\ y.block = x.block /\ y.settled = x.settled
    BY ONLY <1>2, <1>4, <1>5, <2>1, Zenon DEF Query
  <2>3. query' = [query EXCEPT ![q] = y]
    BY <1>1, <1>2, <1>5, <2>1, Zenon DEF GetStoredEvents, Answer
  <2>4. QueryOK(y)
    BY <1>3, <1>5, <2>2 DEF QueryOK, StoreOK
  <2> QED
    BY <1>1, <2>2, <2>3, <2>4, OneQueryStep, Zenon
<1>6. CASE ~(x.block \in Blocks /\ blocks[x.block] # <<>>)
  <2>1. PICK y : y = [x EXCEPT !.pc = "missed"]
    BY Zenon
  <2>2. y \in Query /\ y.pc = "missed" /\ y.block = x.block /\ y.settled = x.settled
    BY ONLY <1>2, <2>1, SMTT(30) DEF Query
  <2>3. query' = [query EXCEPT ![q] = y]
    BY <1>1, <1>2, <1>6, <2>1, ZenonT(30) DEF GetStoredEvents
  <2>4. startQueryBlock \in Nat
    BY Types, ZenonT(30) DEF IInv
  <2>5. QueryOK(y)
    BY <1>3, <1>6, <2>2, <2>4 DEF QueryOK
  <2> QED
    BY <1>1, <2>2, <2>3, <2>5, OneQueryStep, Zenon
<1> QED
  BY <1>5, <1>6

(* The second step of a query keeps the invariant.                         *)
LEMMA StartQueryBlockStep ==
  ASSUME IInv, NEW q \in Handlers, GetStartQueryBlock(q)
  PROVE  IInv' /\ Forward
<1>1. /\ query \in [Handlers -> Query] /\ startQueryBlock \in Nat /\ lastSyncedBlock \in Nat
      /\ UNCHANGED <<eth, store, pc, job, cancelled, errors, restarts>>
  BY Types DEF IInv, TypeOK, GetStartQueryBlock
<1>2. PICK x \in Query : x = query[q]
  BY <1>1
<1>3. QueryOK(x) /\ x.pc = "missed" /\ x.block \in Nat
  BY <1>2 DEF IInv, GetStartQueryBlock, Query
<1>4. PICK y : y = [x EXCEPT !.pc = "ranged", !.start = startQueryBlock]
  OBVIOUS
<1>5. /\ y \in Query /\ y.pc = "ranged" /\ y.start = startQueryBlock
      /\ y.block = x.block /\ y.settled = x.settled
  BY ONLY <1>1, <1>2, <1>4, Zenon DEF Query
<1>6. query' = [query EXCEPT ![q] = y]
  BY <1>1, <1>2, <1>4, ZenonT(30) DEF GetStartQueryBlock
<1>7. QueryOK(y)
  BY ONLY <1>1, <1>3, <1>5, SMTT(30) DEF QueryOK
<1> QED
  BY <1>1, <1>5, <1>6, <1>7, OneQueryStep, Zenon

(* So does its last step.                                                  *)
LEMMA NextQueryBlockStep ==
  ASSUME IInv, NEW q \in Handlers, GetNextQueryBlock(q)
  PROVE  IInv' /\ Forward
<1>1. /\ query \in [Handlers -> Query] /\ startQueryBlock \in Nat /\ lastSyncedBlock \in Nat
      /\ finalized \in Nat /\ UNCHANGED <<eth, store, pc, job, cancelled, errors, restarts>>
  BY Types DEF IInv, TypeOK, GetNextQueryBlock
<1>2. PICK x \in Query : x = query[q]
  BY <1>1
<1>3. QueryOK(x) /\ RangeOK /\ x.pc = "ranged" /\ x.block \in Nat /\ x.start \in Nat
  BY <1>2 DEF IInv, GetNextQueryBlock, Query
<1>4. PICK ok \in BOOLEAN : ok = IsInRange(q)
  BY Zenon DEF IsInRange
<1>5. ok <=> x.start <= x.block /\ x.block <= lastSyncedBlock
  <2>1. IsInRange(q) <=> x.start <= x.block /\ x.block <= lastSyncedBlock
    BY <1>1, <1>2, <1>3 DEF IsInRange
  <2> QED
    BY <1>4, <2>1
<1>6. PICK y : y = [x EXCEPT !.pc = "answered", !.ok = ok, !.events = <<>>]
  OBVIOUS
<1>7. /\ y \in Query /\ y.pc = "answered" /\ y.ok = ok /\ y.events = <<>>
      /\ y.block = x.block /\ y.settled = x.settled
  <2>1. <<>> \in Seq(Nat \ {0})
    OBVIOUS
  <2> QED
    BY ONLY <1>2, <1>4, <1>6, <2>1, Zenon DEF Query
<1>8. query' = [query EXCEPT ![q] = y]
  BY <1>1, <1>2, <1>4, <1>6, ZenonT(30) DEF GetNextQueryBlock, Answer
<1>9. x.settled => IF x.start <= x.block THEN ok /\ EventsOf(x.block) = <<>>
                   ELSE ~ok /\ x.block <= sequencer
  BY ONLY <1>1, <1>3, <1>5, SMTT(30) DEF QueryOK
<1>10. ok => x.block <= finalized
  BY ONLY <1>1, <1>3, <1>5, SMTT(30) DEF QueryOK, RangeOK
<1>11. QueryOK(y)
  BY <1>7, <1>9, <1>10, SMTT(30) DEF QueryOK
<1> QED
  BY <1>1, <1>7, <1>8, <1>11, OneQueryStep, Zenon

-----------------------------------------------------------------------------
(* The induction                                                           *)

(* The invariant holds at first.                                           *)
LEMMA InitIInv == Init => IInv
<1> SUFFICES ASSUME Init PROVE IInv
  OBVIOUS
<1>1. /\ finalized \in Nat /\ sequencer \in 0..finalized /\ finalized <= MaxEthBlock
      /\ Blocks \subseteq Nat
  BY SidecarAssumption DEF Init, Blocks
<1>2. StartBlock \in Nat \ {0}
  BY <1>1, SidecarAssumption DEF StartBlock
<1>3. PICK s \in Nat \ {0} : s = StartBlock
  BY <1>2
<1>4. /\ NoEvents \in [Blocks -> Seq(Nat \ {0})]
      /\ \A b \in Blocks : NoEvents[b] = <<>>
      /\ s - 1 \in Nat /\ s - 1 < s
      /\ \A b \in Int : b \notin s..(s - 1)
      /\ NoJob \in Job /\ NoJob.seen = NotAsked /\ Idle \in Query
      /\ Idle.pc = "idle" /\ ~Idle.settled
  BY FreshStore
<1>5. /\ blocks = NoEvents /\ startQueryBlock = s /\ lastSyncedBlock = s - 1
      /\ pc = "catchUp" /\ job = NoJob /\ cancelled = FALSE /\ errors = 0 /\ restarts = 0
      /\ query = [q \in Handlers |-> Idle]
  BY <1>3 DEF Init
<1>6. TypeOK
  <2>1. query \in [Handlers -> Query] /\ cancelled \in BOOLEAN
    BY <1>4, <1>5, ZenonT(30)
  <2>2. errors \in 0..MaxErrors /\ restarts \in 0..MaxRestarts
    BY <1>5, SidecarAssumption
  <2>3. /\ blocks \in [Blocks -> Seq(Nat \ {0})] /\ startQueryBlock \in Nat \ {0}
        /\ lastSyncedBlock \in Nat /\ job \in Job
    BY <1>4, <1>5
  <2> QED
    BY <1>1, <1>5, <2>1, <2>2, <2>3, SMTT(30) DEF TypeOK
<1>7. RangeOK /\ JobOK
  BY <1>1, <1>4, <1>5 DEF RangeOK, JobOK, NotAsked
<1>8. StoreOK
  <2>1. Stored = s - 1
    BY <1>5 DEF Stored
  <2>2. \A b \in Blocks : blocks[b] = <<>> /\ b \notin startQueryBlock..Stored
    BY ONLY <1>1, <1>4, <1>5, <2>1, SMTT(30)
  <2> QED
    BY <2>2 DEF StoreOK
<1>9. ASSUME NEW q \in Handlers PROVE QueryOK(query[q])
  <2>1. query[q].pc = "idle" /\ ~query[q].settled
    BY <1>4, <1>5, SMTT(30)
  <2> QED
    BY <2>1 DEF QueryOK
<1> QED
  BY <1>6, <1>7, <1>8, <1>9, SMTT(30) DEF IInv

(* Every step keeps it, and moves forward unless it is a restart.          *)
LEMMA NextIInv ==
  ASSUME IInv, [Next]_vars
  PROVE  IInv' /\ (Forward \/ restarts' # restarts)
<1>1. CASE Finalize \/ SequencerSync
  BY <1>1, WorldStep
<1>2. CASE Restart
  <2>1. restarts \in Nat /\ restarts' = restarts + 1
    BY <1>2, SidecarAssumption, SMTT(30) DEF IInv, TypeOK, Restart
  <2> QED
    BY <1>2, <2>1, RestartStep, SMTT(30)
<1>3. CASE Cancel
  BY <1>3, ControlStep
<1>4. CASE Thread
  <2>1. CASE AddEvents
    BY <2>1, AddEventsStep
  <2>2. CASE SetLastSyncedBlock
    BY <2>2, SetLastSyncedStep
  <2>3. CASE CalibrateBlocksAndPruneLogs
    BY <2>3, CalibrateStep
  <2> QED
    BY <1>4, <2>1, <2>2, <2>3, ControlStep, SMTT(30) DEF Thread
<1>5. CASE \E q \in Handlers : GetBlockEvents(q)
  BY <1>5, NewQueryStep
<1>6. CASE \E q \in Handlers : GetStoredEvents(q)
  BY <1>6, StoredEventsStep
<1>7. CASE \E q \in Handlers : GetStartQueryBlock(q)
  BY <1>7, StartQueryBlockStep
<1>8. CASE \E q \in Handlers : GetNextQueryBlock(q)
  BY <1>8, NextQueryBlockStep
<1>9. CASE UNCHANGED vars
  <2>1. /\ UNCHANGED <<eth, store, query>> /\ pc' = pc /\ job' = job
        /\ cancelled' = cancelled /\ errors' = errors /\ restarts' = restarts
    BY <1>9, ZenonT(30) DEF vars
  <2>2. TypeOK' /\ JobOK' /\ Stored' = Stored
    BY <2>1 DEF IInv, TypeOK, JobOK, Stored, eth, store
  <2> QED
    BY <2>1, <2>2, QuietStep, SMTT(30)
<1> QED
  BY <1>1, <1>2, <1>3, <1>4, <1>5, <1>6, <1>7, <1>8, <1>9, SMTT(30) DEF Next

(* It holds in every state.                                                *)
LEMMA InvariantHolds == Spec => []IInv
<1>1. IInv /\ [Next]_vars => IInv'
  BY NextIInv
<1> QED
  BY <1>1, InitIInv, PTL DEF Spec

(***************************************************************************)
(* Every variable always has a value of its type: the store never holds a  *)
(* log that is malformed or of no known type, and the Sequencer is never   *)
(* ahead of the finalized block.                                           *)
(***************************************************************************)
THEOREM SidecarTypeCorrect == Spec => []TypeOK
<1>1. IInv => TypeOK
  BY DEF IInv
<1> QED
  BY <1>1, InvariantHolds, PTL

(***************************************************************************)
(* Whenever the thread is about to fetch, each answer of the node that     *)
(* processLogs would accept gives exactly the events of the blocks asked   *)
(* for, be it in order, reversed or repeated (processLogs,                 *)
(* ValidateIsLogSequential).                                               *)
(***************************************************************************)
THEOREM LogsAlwaysProcessed == Spec => []LogsAreProcessed
<1>1. IInv => LogsAreProcessed
  <2> SUFFICES ASSUME IInv, pc = "fetch",
                      NEW logs \in FilterLogs(lastSyncedBlock + 1, FetchTo),
                      processLogs(logs, lastSyncedBlock + 1).ok
               PROVE  /\ processLogs(logs, lastSyncedBlock + 1).events
                           \in [Blocks -> Seq(Nat \ {0})]
                      /\ \A b \in Blocks :
                           processLogs(logs, lastSyncedBlock + 1).events[b] =
                             IF b \in (lastSyncedBlock + 1)..FetchTo THEN EventsOf(b) ELSE <<>>
    BY DEF LogsAreProcessed
  <2>1. PICK from, to : from = lastSyncedBlock + 1 /\ to = FetchTo
    OBVIOUS
  <2>2. /\ job.to \in Nat /\ lastSyncedBlock + MaxQueryRange \in Nat
        /\ lastSyncedBlock \in Nat /\ MaxQueryRange \in Nat \ {0} /\ lastSyncedBlock < job.to
    BY Types, SidecarAssumption DEF IInv, JobOK
  <2>3. FetchTo \in {job.to, lastSyncedBlock + MaxQueryRange}
    BY <2>2, MinOfTwo DEF FetchTo
  <2>4. from \in Int /\ to \in Int /\ from <= to
    BY <2>1, <2>2, <2>3
  <2> QED
    BY <2>1, <2>4, ProcessedEvents, ZenonT(30)
<1> QED
  BY <1>1, InvariantHolds, PTL

(***************************************************************************)
(* The store has the events of every block exactly once and in order, or   *)
(* not at all, and has every synced block that the Sequencer still needs,  *)
(* through wrong answers, retries, jumps, pruning and restarts             *)
(* (fetchAndStoreLogsUptoBlock, CalibrateBlocksAndPruneLogs).              *)
(***************************************************************************)
THEOREM StoreAlwaysFaithful == Spec => []StoreIsFaithful
<1>1. IInv => StoreIsFaithful
  <2> SUFFICES ASSUME IInv PROVE StoreIsFaithful
    OBVIOUS
  <2>1. /\ startQueryBlock \in Nat /\ lastSyncedBlock \in Nat /\ Stored \in Nat
        /\ lastSyncedBlock <= Stored /\ Blocks \subseteq Nat
    BY Types DEF IInv, JobOK, Stored
  <2> QED
    BY <2>1 DEF IInv, StoreOK, StoreIsFaithful
<1> QED
  BY <1>1, InvariantHolds, PTL

(***************************************************************************)
(* A handler reads the store in three critical sections.  Whatever the     *)
(* thread stores or prunes in between, a query for a block that the        *)
(* sidecar had gets the events of that block, or an error once the         *)
(* Sequencer has consumed the block (QueryBlockEvents).                    *)
(***************************************************************************)
THEOREM SettledAnswersAlwaysTrue == Spec => []SettledAnswersAreTrue
<1>1. IInv => SettledAnswersAreTrue
  BY DEF IInv, QueryOK, SettledAnswersAreTrue
<1> QED
  BY <1>1, InvariantHolds, PTL

(***************************************************************************)
(* No answer is about a block that is not finalized, and a list of events  *)
(* is the list of the block (QueryBlockEvents, fetchAndStoreLogsUptoBlock).*)
(***************************************************************************)
THEOREM AnswersAlwaysFinal == Spec => []AnswersAreFinal
<1>1. IInv => AnswersAreFinal
  BY DEF IInv, QueryOK, AnswersAreFinal
<1> QED
  BY <1>1, InvariantHolds, PTL

(***************************************************************************)
(* Between two restarts neither the last synced block nor the first block  *)
(* of the store moves back (SetLastSyncedBlock, PruneBlockEvents).         *)
(***************************************************************************)
THEOREM SidecarNeverMovesBack == Spec => NeverMovesBack
<1>1. IInv /\ [Next]_vars =>
        [restarts' = restarts =>
           lastSyncedBlock' >= lastSyncedBlock /\ startQueryBlock' >= startQueryBlock]_vars
  BY NextIInv DEF Forward
<1> QED
  BY <1>1, InvariantHolds, PTL DEF Spec, NeverMovesBack
=============================================================================
