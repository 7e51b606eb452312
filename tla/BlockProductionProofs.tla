----------------------- MODULE BlockProductionProofs -----------------------
(***************************************************************************)
(* Proofs about BlockProduction, for every Ethereum log, every set of      *)
(* validators whose quorums all contain one that follows the code, and     *)
(* every value of the parameters.                                          *)
(***************************************************************************)
EXTENDS BlockProduction, TLAPS

(* What a sidecar may answer when asked for block b: an error or the truth. *)
Truthful(response, b) ==
  \/ response = SidecarError
  \/ b \in 1..MaxEthBlock /\ response = SidecarAnswer(BlockEvents(b))

(***************************************************************************)
(* The shape of a block that an honest validator accepts, relative to the  *)
(* committed state: the index transaction, then the events that follow the *)
(* cursor, then the supply delta where it is due.                          *)
(***************************************************************************)
WellFormed(txs, t) ==
  LET m == txs[1].msg
  IN /\ Len(txs) >= 1 + m.num + SupplyDeltaCount
     /\ txs[1].kind = "index" /\ txs[1].seq = bridge.lastSeq + 1
     /\ m \in Msg
     /\ m.block = bridge.lastBlock + 1
     /\ m.num = 0 => bridge.offset = 0
     /\ m.new => m.block <= MaxEthBlock /\ Cursor + m.num = End[m.block]
     /\ ~m.new /\ m.num > 0 => m.block <= MaxEthBlock /\ Cursor + m.num < End[m.block]
     /\ \A i \in 1..m.num : /\ txs[i + 1].kind = "event"
                            /\ txs[i + 1].body = EventBody(EthLog[Cursor + i])
     /\ IsMsgSupplyDeltaBlock(height) =>
          txs[m.num + 2].kind = "delta" /\ txs[m.num + 2].seq = bridge.lastSeq + 2
     /\ NoEthereumSyncing(m) => ~EthSyncDelayExceeded(bridge, t)

(* What the proofs need of the types of the bridge's state and the log.      *)
LEMMA BridgeTypes ==
  ASSUME TypeOK
  PROVE  /\ bridge.lastBlock \in 0..MaxEthBlock /\ bridge.lastBlock \in Nat
         /\ bridge.offset \in Nat /\ bridge.lastSeq \in Nat
<1>1. MaxEthBlock \in Nat
  BY ChainAssumption
<1> QED BY <1>1 DEF TypeOK

(* The Ethereum log is a finite list of events.                            *)
LEMMA LogTypes ==
  /\ MaxEthBlock \in Nat
  /\ EthLog \in Seq(Event) /\ Len(EthLog) \in Nat
  /\ \A k \in 1..Len(EthLog) : EthLog[k] \in Event
<1>1. MaxEthBlock \in Nat /\ EthLog \in Seq(Event)
  BY ChainAssumption
<1> QED BY <1>1

(* The events of Ethereum block b are a slice of the log.                  *)
LEMMA EndTypes ==
  ASSUME NEW b \in 1..MaxEthBlock
  PROVE  /\ End[b] \in 0..Len(EthLog) /\ End[b] \in Nat
         /\ End[b - 1] \in 0..Len(EthLog) /\ End[b - 1] \in Nat
         /\ End[b - 1] <= End[b]
<1>1. /\ End \in [0..MaxEthBlock -> 0..Len(EthLog)]
      /\ \A c \in 1..MaxEthBlock : End[c - 1] <= End[c]
  BY ChainAssumption
<1>2. b \in 0..MaxEthBlock /\ b - 1 \in 0..MaxEthBlock
  BY LogTypes
<1> QED BY <1>1, <1>2, LogTypes

(* What a sidecar answers for block b is that slice, in its order.         *)
LEMMA BlockEventsTypes ==
  ASSUME NEW b \in 1..MaxEthBlock
  PROVE  /\ BlockEvents(b) \in Seq(Event)
         /\ Len(BlockEvents(b)) = End[b] - End[b - 1]
         /\ \A i \in 1..(End[b] - End[b - 1]) : BlockEvents(b)[i] = EthLog[End[b - 1] + i]
<1> DEFINE n == End[b] - End[b - 1]
<1>1. n \in Nat
  BY EndTypes
<1>2. \A i \in 1..n : EthLog[End[b - 1] + i] \in Event
  <2> SUFFICES ASSUME NEW i \in 1..n PROVE End[b - 1] + i \in 1..Len(EthLog)
    BY LogTypes
  <2> QED BY EndTypes, LogTypes
<1> QED BY <1>1, <1>2 DEF BlockEvents

(***************************************************************************)
(* An honest validator's sidecar gives an error or the events of the block *)
(* (GetBlockEvents as the proposal handlers call it).                      *)
(***************************************************************************)
LEMMA AnswersAreTruthful ==
  ASSUME TypeOK, NEW v \in Honest
  PROVE  /\ Truthful(GetBlockEvents(v, bridge.lastBlock + 1), bridge.lastBlock + 1)
         /\ GetBlockEvents(v, bridge.lastBlock + 1) \in [ok : BOOLEAN, events : Seq(Event)]
<1> DEFINE b == bridge.lastBlock + 1
<1>1. sidecar[v] \in 0..MaxEthBlock
  BY DEF TypeOK
<1>2. CASE v \notin down /\ b <= sidecar[v]
  <2>1. b \in 1..MaxEthBlock
    BY <1>1, <1>2, BridgeTypes, LogTypes
  <2>3. BlockEvents(b) \in Seq(Event)
    BY <2>1, BlockEventsTypes
  <2> QED
    BY <1>2, <2>1, <2>3 DEF GetBlockEvents, Truthful, SidecarAnswer
<1>3. CASE ~(v \notin down /\ b <= sidecar[v])
  BY <1>3 DEF GetBlockEvents, Truthful, SidecarError
<1> QED BY <1>2, <1>3

(* A message that announces the transactions it travels with.              *)
Announcement(g) ==
  /\ g \in [ok : BOOLEAN, msg : Msg, txs : Seq(Tx)]
  /\ g.msg.num = Len(g.txs)

(***************************************************************************)
(* TrimEventsFromHead, when it returns no error, drops the first n         *)
(* transactions, keeps the others in order and announces their number.     *)
(***************************************************************************)
LEMMA TrimShape ==
  ASSUME NEW g, Announcement(g), NEW n \in Nat, NEW r, r = TrimEventsFromHead(g, n), r.ok
  PROVE  /\ Announcement(r)
         /\ r.msg.num = g.msg.num - n /\ r.msg.new = g.msg.new /\ r.msg.block = g.msg.block
         /\ n > 0 => n < g.msg.num
         /\ \A i \in 1..r.msg.num : r.txs[i] = g.txs[n + i]
<1>1. CASE n = 0
  BY <1>1 DEF TrimEventsFromHead, Announcement, Msg
<1>2. CASE n > 0
  <2> DEFINE rest == SubSeq(g.txs, n + 1, Len(g.txs))
             msg  == [g.msg EXCEPT !.num = Len(rest)]
  <2>1. ~Failed(g).ok
    BY DEF Failed, Announcement
  <2>2. r = IF n = 0 THEN g
            ELSE IF n >= g.msg.num \/ MsgSize(msg) > MsgSize(g.msg) THEN Failed(g)
            ELSE [g EXCEPT !.txs = rest, !.msg = msg]
    BY DEF TrimEventsFromHead
  <2>3. g.txs \in Seq(Tx) /\ g.msg.num = Len(g.txs) /\ g.msg \in Msg /\ g.msg.num \in Nat
    BY DEF Announcement, Msg
  <2>4. n < g.msg.num => /\ rest \in Seq(Tx) /\ Len(rest) = Len(g.txs) - n
                         /\ \A i \in 1..Len(rest) : rest[i] = g.txs[n + i]
    BY <2>3
  <2> HIDE DEF rest
  <2>5. Len(rest) \in Nat => /\ msg \in Msg /\ msg.num = Len(rest)
                             /\ msg.new = g.msg.new /\ msg.block = g.msg.block
    BY <2>3 DEF Msg
  <2> HIDE DEF msg
  <2>7. r = [g EXCEPT !.txs = rest, !.msg = msg] /\ n < g.msg.num /\ Len(rest) \in Nat
    BY <1>2, <2>1, <2>2, <2>3, <2>4
  <2>6. r.txs = rest /\ r.msg = msg /\ r \in [ok : BOOLEAN, msg : Msg, txs : Seq(Tx)]
    BY <2>7, <2>4, <2>5, Zenon DEF Announcement
  <2> QED
    BY <1>2, <2>3, <2>4, <2>5, <2>6, <2>7 DEF Announcement
<1> QED BY <1>1, <1>2

(***************************************************************************)
(* KeepEventsFromHead, when it returns no error, keeps the first n         *)
(* transactions, and the mark of a full block only if it keeps them all.   *)
(***************************************************************************)
LEMMA KeepShape ==
  ASSUME NEW g, Announcement(g), NEW n \in Nat, NEW r, r = KeepEventsFromHead(g, n), r.ok
  PROVE  /\ Announcement(r)
         /\ r.msg.num = n /\ n <= g.msg.num
         /\ n = 0 => g.msg.num = 0
         /\ r.msg.block = g.msg.block
         /\ r.msg.new => g.msg.new /\ n = g.msg.num
         /\ g.msg.new /\ ~r.msg.new => n < g.msg.num
         /\ \A i \in 1..n : r.txs[i] = g.txs[i]
<1>1. CASE n = g.msg.num
  BY <1>1 DEF KeepEventsFromHead, Announcement, Msg
<1>2. CASE n # g.msg.num
  <2> DEFINE kept == SubSeq(g.txs, 1, n)
             msg  == [g.msg EXCEPT !.num = n, !.new = FALSE]
  <2>1. ~Failed(g).ok
    BY DEF Failed, Announcement
  <2>2. r = [g EXCEPT !.txs = kept, !.msg = msg] /\ n # 0 /\ ~(n > g.msg.num)
    BY <1>2, <2>1 DEF KeepEventsFromHead
  <2>3. n < g.msg.num /\ g.txs \in Seq(Tx) /\ g.msg.num = Len(g.txs) /\ g.msg \in Msg
    BY <1>2, <2>2 DEF Announcement, Msg
  <2>4. /\ kept \in Seq(Tx) /\ Len(kept) = n
        /\ \A i \in 1..n : kept[i] = g.txs[i]
    BY <2>3
  <2>5. msg \in Msg /\ msg.num = n /\ msg.new = FALSE /\ msg.block = g.msg.block
    BY <2>3, Zenon DEF Msg
  <2> HIDE DEF kept, msg
  <2>6. r.txs = kept /\ r.msg = msg /\ r \in [ok : BOOLEAN, msg : Msg, txs : Seq(Tx)]
    BY <2>2, <2>4, <2>5, Zenon DEF Announcement
  <2> QED
    BY <2>2, <2>3, <2>4, <2>5, <2>6 DEF Announcement
<1> QED BY <1>1, <1>2

(* The content of an event's transaction has its type.                     *)
LEMMA BodyTypes ==
  ASSUME NEW e \in Event
  PROVE  EventBody(e) \in Body
<1>1. SkipTxSize \in Nat
  BY ParamsAssumption
<1> QED BY <1>1 DEF EventBody, Event, Body

(* The transaction of an event has its type.                               *)
LEMMA EventTxTypes ==
  ASSUME NEW e \in Event, NEW s \in Nat
  PROVE  EventTx(EventBody(e), s) \in Tx
BY BodyTypes DEF EventTx, Tx

(***************************************************************************)
(* generateMsgIndexAndEventTxs announces one transaction per event, in the *)
(* order of the events, and a full block iff the sidecar answered.         *)
(***************************************************************************)
LEMMA GenerateShape ==
  ASSUME NEW response \in [ok : BOOLEAN, events : Seq(Event)], NEW b \in Nat, NEW s \in Nat \ {0},
         NEW g, g = generateMsgIndexAndEventTxs(response, b, s)
  PROVE  /\ Announcement(g)
         /\ g.msg = [num |-> Len(response.events), new |-> response.ok, block |-> b]
         /\ \A i \in 1..Len(response.events) :
              g.txs[i] = EventTx(EventBody(response.events[i]), s + i - 1)
<1> DEFINE n   == Len(response.events)
           txs == [i \in 1..n |-> EventTx(EventBody(response.events[i]), s + i - 1)]
<1>1. \A i \in 1..n : txs[i] \in Tx
  <2> SUFFICES ASSUME NEW i \in 1..n
               PROVE  EventTx(EventBody(response.events[i]), s + i - 1) \in Tx
    OBVIOUS
  <2>1. response.events[i] \in Event /\ s + i - 1 \in Nat
    OBVIOUS
  <2> QED
    BY <2>1, EventTxTypes
<1>2. txs \in Seq(Tx) /\ Len(txs) = n /\ n \in Nat
  BY <1>1
<1>3. g.txs = txs /\ g.msg = [num |-> n, new |-> response.ok, block |-> b] /\ g.ok \in BOOLEAN
  BY DEF generateMsgIndexAndEventTxs
<1>4. g \in [ok : BOOLEAN, msg : Msg, txs : Seq(Tx)]
  BY <1>2, <1>3, ZenonT(30) DEF generateMsgIndexAndEventTxs, Msg
<1> QED
  BY <1>2, <1>3, <1>4 DEF Announcement

(***************************************************************************)
(* What ProcessProposal accepts on a truthful answer is well formed: the   *)
(* index is about the next Ethereum block, the event transactions are those*)
(* of the log from the cursor on, and the supply delta follows them.       *)
(***************************************************************************)
LEMMA AcceptedIsWellFormed ==
  ASSUME TypeOK, NEW txs \in Seq(Tx), NEW t \in Nat, NEW response,
         Truthful(response, bridge.lastBlock + 1),
         ProcessProposal(bridge, height, t, txs, response)
  PROVE  WellFormed(txs, t)
<1> DEFINE sd        == IsMsgSupplyDeltaBlock(height)
           seqs      == generateTxSequences(bridge.lastSeq, sd)
           announced == txs[1].msg
           b         == bridge.lastBlock + 1
           g         == IF NoEthereumSyncing(announced) THEN NoSync(b)
                        ELSE generateMsgIndexAndEventTxs(response, b, seqs.events)
           rest      == TrimEventsFromHead(g, bridge.offset)
           kept      == KeepEventsFromHead(rest, announced.num)
<1>1. /\ Len(txs) > 0
      /\ txs[1].kind = "index"
      /\ NoEthereumSyncing(announced) => ~EthSyncDelayExceeded(bridge, t)
      /\ g.ok /\ rest.ok /\ kept.ok
      /\ kept.msg.num = Len(kept.txs)
      /\ Len(txs) >= announced.num + 1
      /\ txs[1] = IndexTx(kept.msg, seqs.index)
      /\ SubSeq(txs, 2, announced.num + 1) = kept.txs
      /\ sd => /\ Len(txs) >= 2 + kept.msg.num
               /\ txs[2 + kept.msg.num] = DeltaTx(seqs.delta)
      /\ Len(txs) >= MinimumNumTxs(kept.msg, sd)
  BY Zenon DEF ProcessProposal, verifyInjectedMsgIndexTx, verifyInjectedEventTxs,
         verifyInjectedMsgSupplyDeltaTx
<1>6. bridge.lastBlock \in Nat /\ bridge.offset \in Nat /\ b \in Nat \ {0}
  BY BridgeTypes
<1> HIDE DEF sd, seqs, b, g, rest, kept
<1>2. txs[1] \in Tx /\ announced \in Msg
  <2>1. txs[1] \in Tx
    BY <1>1
  <2> QED
    BY <2>1, <1>1 DEF Tx
<1>3. announced = kept.msg
  BY <1>1 DEF IndexTx
<1>4. /\ Len(txs) >= 1 + announced.num + SupplyDeltaCount
      /\ sd => txs[announced.num + 2].kind = "delta"
  BY ONLY <1>1, <1>2, <1>3, SMTT(30) DEF MinimumNumTxs, SupplyDeltaCount, DeltaTx, Msg, sd
<1>9. /\ txs[1].seq = bridge.lastSeq + 1
      /\ sd => txs[announced.num + 2].seq = bridge.lastSeq + 2
  <2>1. txs[1].seq = seqs.index /\ (sd => txs[announced.num + 2].seq = seqs.delta)
    BY <1>1, <1>2, <1>3 DEF IndexTx, DeltaTx, Msg
  <2>2. seqs.index = bridge.lastSeq + 1 /\ (sd => seqs.delta = bridge.lastSeq + 2)
    BY DEF seqs, generateTxSequences
  <2> QED
    BY <2>1, <2>2
<1>5. \A i \in 1..announced.num : txs[i + 1] = kept.txs[i]
  <2>1. \A n \in Nat : \A i \in 1..n : n + 1 <= Len(txs) => SubSeq(txs, 2, n + 1)[i] = txs[i + 1]
    OBVIOUS
  <2> QED
    BY <2>1, <1>1, <1>2 DEF Msg
<1>7. CASE NoEthereumSyncing(announced)
  <2>1. Announcement(g) /\ g.msg = [num |-> 0, new |-> FALSE, block |-> b]
    BY <1>6, <1>7 DEF NoSync, Announcement, Msg, g
  <2>2. Announcement(rest) /\ rest.msg.num = 0 /\ ~rest.msg.new /\ rest.msg.block = b
          /\ bridge.offset = 0
    BY ONLY <2>1, <1>1, <1>6, TrimShape, SMTT(30) DEF rest
  <2>3. kept.msg.num = 0 /\ ~kept.msg.new /\ kept.msg.block = b
    BY ONLY <2>1, <2>2, <1>1, <1>2, KeepShape, SMTT(30) DEF Msg, kept
  <2>4. announced.num = 0 /\ ~announced.new /\ announced.block = b /\ 1..announced.num = {}
    BY <1>3, <2>3
  <2>5. ~EthSyncDelayExceeded(bridge, t) /\ txs[1].kind = "index"
    BY <1>1, <1>7
  <2> QED
    BY <1>2, <1>4, <1>9, <2>2, <2>4, <2>5 DEF WellFormed, b, sd
<1>8. CASE ~NoEthereumSyncing(announced)
  <2> DEFINE events == response.events
  <2>1. seqs.events \in Nat \ {0}
    BY BridgeTypes DEF generateTxSequences, seqs
  <2>4. g = generateMsgIndexAndEventTxs(response, b, seqs.events)
    BY <1>8 DEF g
  <2>5. b \in Nat
    BY <1>6
  <2>6. ASSUME response \in [ok : BOOLEAN, events : Seq(Event)]
        PROVE  /\ Announcement(g)
               /\ g.msg = [num |-> Len(response.events), new |-> response.ok, block |-> b]
               /\ \A i \in 1..Len(response.events) :
                    g.txs[i] = EventTx(EventBody(response.events[i]), seqs.events + i - 1)
    <3> DEFINE first == seqs.events
    <3>1. first \in Nat \ {0} /\ g = generateMsgIndexAndEventTxs(response, b, first)
      BY <2>1, <2>4
    <3> HIDE DEF first
    <3>2. /\ Announcement(g)
          /\ g.msg = [num |-> Len(response.events), new |-> response.ok, block |-> b]
          /\ \A i \in 1..Len(response.events) :
               g.txs[i] = EventTx(EventBody(response.events[i]), first + i - 1)
      BY <2>5, <2>6, <3>1, GenerateShape
    <3> QED
      BY <3>2 DEF first
  <2>2. CASE response = SidecarError
    <3>1. /\ response \in [ok : BOOLEAN, events : Seq(Event)]
          /\ response.ok = FALSE /\ events = <<>> /\ Len(events) = 0
      BY <2>2 DEF SidecarError
    <3>2. Announcement(g) /\ g.msg = [num |-> 0, new |-> FALSE, block |-> b]
      BY <2>6, <3>1, Zenon
    <3>3. Announcement(rest) /\ rest.msg.num = 0 /\ ~rest.msg.new
      BY <3>2, <1>1, <1>6, TrimShape, SMTT(30) DEF rest
    <3>4. kept.msg.num = 0 /\ ~kept.msg.new
      <4>1. Announcement(rest) /\ announced.num \in Nat /\ kept.ok
        BY <3>3, <1>1, <1>2 DEF Msg
      <4>2. kept = KeepEventsFromHead(rest, announced.num)
        BY DEF kept
      <4> HIDE DEF announced
      <4>3. kept.msg.num = announced.num /\ announced.num <= rest.msg.num
              /\ (kept.msg.new => rest.msg.new)
        BY ONLY <4>1, <4>2, KeepShape, SMTT(30)
      <4> QED
        BY <4>1, <4>3, <3>3
    <3> QED
      BY <1>3, <1>8, <3>4 DEF NoEthereumSyncing, IsFullEthereumSyncing, IsPartialEthereumSyncing
  <2>3. CASE b \in 1..MaxEthBlock /\ response = SidecarAnswer(BlockEvents(b))
    <3> DEFINE n == End[b] - End[b - 1]
    <3>1. End[b] \in Nat /\ End[b - 1] \in Nat /\ End[b - 1] <= End[b] /\ n \in Nat
      BY <2>3, EndTypes
    <3>2. /\ response \in [ok : BOOLEAN, events : Seq(Event)] /\ Len(events) = n
          /\ \A i \in 1..n : events[i] = EthLog[End[b - 1] + i]
      BY <2>3, BlockEventsTypes DEF SidecarAnswer
    <3> HIDE DEF n, events
    <3>3. /\ Announcement(g) /\ g.msg.num = n /\ g.msg.block = b /\ g.msg.new
          /\ \A i \in 1..n : g.txs[i] = EventTx(EventBody(events[i]), seqs.events + i - 1)
      BY <2>3, <2>6, <3>2 DEF events, SidecarAnswer
    <3>4. /\ Announcement(rest)
          /\ rest.msg.num = n - bridge.offset /\ rest.msg.block = b /\ rest.msg.new
          /\ bridge.offset > 0 => bridge.offset < n
          /\ \A i \in 1..(n - bridge.offset) : rest.txs[i] = g.txs[bridge.offset + i]
      <4>1. /\ Announcement(rest)
            /\ rest.msg.num = g.msg.num - bridge.offset /\ rest.msg.block = g.msg.block
            /\ rest.msg.new = g.msg.new
            /\ bridge.offset > 0 => bridge.offset < g.msg.num
            /\ \A i \in 1..rest.msg.num : rest.txs[i] = g.txs[bridge.offset + i]
        <5>1. Announcement(g) /\ bridge.offset \in Nat /\ rest.ok
          BY <3>3, <1>1, <1>6
        <5>2. rest = TrimEventsFromHead(g, bridge.offset)
          BY DEF rest
        <5> QED
          BY ONLY <5>1, <5>2, TrimShape
      <4> QED
        BY <4>1, <3>3
    <3>5. /\ Announcement(kept) /\ kept.msg.num = announced.num
          /\ announced.num <= n - bridge.offset
          /\ announced.num = 0 => n - bridge.offset = 0
          /\ kept.msg.block = b
          /\ kept.msg.new => announced.num = n - bridge.offset
          /\ ~kept.msg.new => announced.num < n - bridge.offset
          /\ \A i \in 1..announced.num : kept.txs[i] = rest.txs[i]
      <4>1. Announcement(rest) /\ announced.num \in Nat /\ kept.ok
        BY <3>4, <1>1, <1>2 DEF Msg
      <4>2. kept = KeepEventsFromHead(rest, announced.num)
        BY DEF kept
      <4> HIDE DEF announced
      <4>3. /\ Announcement(kept) /\ kept.msg.num = announced.num
            /\ announced.num <= rest.msg.num
            /\ announced.num = 0 => rest.msg.num = 0
            /\ kept.msg.block = rest.msg.block
            /\ kept.msg.new => announced.num = rest.msg.num
            /\ rest.msg.new /\ ~kept.msg.new => announced.num < rest.msg.num
            /\ \A i \in 1..announced.num : kept.txs[i] = rest.txs[i]
        BY ONLY <4>1, <4>2, KeepShape
      <4> QED
        BY <4>3, <3>4, ZenonT(30)
    <3>6. End[b - 1] + bridge.offset = Cursor /\ n = End[b] - End[b - 1]
      BY <1>6 DEF Cursor, b, n
    <3>10. announced.num \in Nat
      BY <1>2 DEF Msg
    <3>7. ASSUME NEW i \in 1..announced.num
          PROVE  txs[i + 1].kind = "event" /\ txs[i + 1].body = EventBody(EthLog[Cursor + i])
      <4>1. i \in 1..(n - bridge.offset) /\ bridge.offset + i \in 1..n /\ i \in Nat
        <5>1. n \in Nat /\ bridge.offset \in Nat /\ announced.num <= n - bridge.offset
          BY <1>6, <3>1, <3>5
        <5> HIDE DEF announced
        <5> QED BY ONLY <5>1, <3>10, SMTT(30)
      <4>2. txs[i + 1] = g.txs[bridge.offset + i]
        BY <1>5, <3>4, <3>5, <4>1
      <4>3. txs[i + 1] = EventTx(EventBody(EthLog[End[b - 1] + (bridge.offset + i)]),
                                 seqs.events + (bridge.offset + i) - 1)
        BY <4>1, <4>2, <3>2, <3>3, ZenonT(30)
      <4>4. End[b - 1] + (bridge.offset + i) = Cursor + i
        BY ONLY <4>1, <3>1, <3>6, <1>6, SMTT(30)
      <4> QED
        BY <4>3, <4>4 DEF EventTx
    <3>8. announced.num = 0 => bridge.offset = 0
      BY <3>1, <3>4, <3>5, <3>10, <1>6
    <3>9. /\ announced.new => b <= MaxEthBlock /\ Cursor + announced.num = End[b]
          /\ ~announced.new => b <= MaxEthBlock /\ Cursor + announced.num < End[b]
      <4>1. /\ announced.new => announced.num = n - bridge.offset
            /\ ~announced.new => announced.num < n - bridge.offset
        BY <1>3, <3>5
      <4>2. b <= MaxEthBlock
        BY <2>3, LogTypes
      <4> HIDE DEF announced
      <4>3. n = End[b] - End[b - 1] /\ End[b] \in Nat /\ End[b - 1] \in Nat /\ bridge.offset \in Nat
              /\ Cursor = End[b - 1] + bridge.offset
        BY <1>6, <3>1, <3>6
      <4> QED
        BY ONLY <4>1, <4>2, <4>3, <3>10, SMTT(30)
    <3> QED
      BY <1>1, <1>2, <1>3, <1>4, <1>9, <3>5, <3>7, <3>8, <3>9, SMTT(30) DEF WellFormed, b, sd
  <2> QED
    BY <2>2, <2>3 DEF Truthful, b
<1> QED BY <1>7, <1>8

-----------------------------------------------------------------------------
(* The inductive invariant                                                 *)

ExecutedUpTo(n) ==
  /\ Len(executed) = n
  /\ \A k \in 1..n : executed[k] = EventBody(EthLog[k])

(* Between two blocks.                                                     *)
Between ==
  /\ index = NoIndex
  /\ ExecutedUpTo(Cursor)
  /\ bridge.updateTime # NotFound => time <= bridge.updateTime + MaxEthBlockUpdateDelay

(***************************************************************************)
(* While a block is executed.  The index handler, at the first             *)
(* transaction, moves the cursor past all the events of the block, which   *)
(* are then executed one by one; the ante handler's count follows the      *)
(* position in the block up to the number of injected transactions.  A     *)
(* deposit that panics leaves a mark, and the block then ends with an      *)
(* error.                                                                  *)
(***************************************************************************)
Announced == proposal.txs[1].msg

EventsDone == IF delivered - 1 <= Announced.num THEN delivered - 1 ELSE Announced.num

Underway ==
  /\ Len(proposal.txs) >= 1 + Announced.num + SupplyDeltaCount
  /\ Announced.num \in Nat /\ Announced.num <= Cursor
  /\ Announced.new => Announced.block = bridge.lastBlock /\ Cursor = End[bridge.lastBlock]
  /\ ~Announced.new => Announced.block = bridge.lastBlock + 1
  /\ ~Announced.new /\ Announced.num > 0 =>
       bridge.lastBlock < MaxEthBlock /\ Cursor < End[bridge.lastBlock + 1]
  /\ \A i \in 1..Announced.num :
       /\ proposal.txs[i + 1].kind = "event"
       /\ proposal.txs[i + 1].body = EventBody(EthLog[Cursor - Announced.num + i])
  /\ IsMsgSupplyDeltaBlock(height) => proposal.txs[Announced.num + 2].kind = "delta"
  /\ index.found /\ index.total = Announced.num + SupplyDeltaCount
  /\ index.ante = IF delivered - 1 <= index.total THEN delivered - 1 ELSE index.total
  /\ Panicking = {} => index.failed = 0
  /\ index.failed = 0 => ExecutedUpTo(Cursor - Announced.num + EventsDone)
  /\ bridge.updateTime # NotFound =>
       proposal.time <= bridge.updateTime + MaxEthBlockUpdateDelay

IInv ==
  /\ TypeOK
  /\ phase \in {"propose", "verify"} => Between
  /\ phase # "verify" => accepted = {}
  /\ phase # "deliver" => delivered = 0
  /\ phase = "verify" /\ accepted # {} => WellFormed(proposal.txs, proposal.time)
  /\ phase = "deliver" /\ delivered = 0 =>
       /\ index = NoIndex /\ ExecutedUpTo(Cursor)
       /\ WellFormed(proposal.txs, proposal.time)
  /\ phase = "deliver" /\ delivered > 0 => Underway
  /\ NeverHalts

(* The genesis state satisfies the inductive invariant.                    *)
LEMMA InitIInv == Init => IInv
<1> SUFFICES ASSUME Init PROVE IInv
  OBVIOUS
<1>1. MaxEthBlock \in Nat /\ End[0] = 0 /\ GenesisUpdateTimes \subseteq {NotFound, 0}
  BY ChainAssumption
<1>2. MaxEthBlockUpdateDelay \in Nat
  BY ParamsAssumption
<1>3. bridge.lastBlock = 0 /\ bridge.offset = 0 /\ bridge.updateTime \in {NotFound, 0}
  BY <1>1 DEF Init
<1>4. TypeOK
  BY <1>1 DEF Init, TypeOK, NoIndex, NoProposal, SidecarError
<1>5. Cursor = 0
  BY <1>1, <1>3 DEF Cursor
<1>6. Between
  BY <1>2, <1>3, <1>5 DEF Init, Between, ExecutedUpTo
<1> QED
  BY <1>4, <1>6 DEF Init, IInv, NeverHalts

(* Steps that leave the chain and the round alone.                         *)
LEMMA NodesIInv ==
  ASSUME IInv, UNCHANGED <<chain, round>>,
         sidecar' \in [Honest -> 0..MaxEthBlock], down' \subseteq Honest, outages' \in Nat
  PROVE  IInv'
<1>1. TypeOK'
  BY ZenonT(30) DEF IInv, TypeOK, chain, round
<1>2. /\ Between => Between'
      /\ ExecutedUpTo(Cursor) => ExecutedUpTo(Cursor)'
      /\ WellFormed(proposal.txs, proposal.time) => WellFormed(proposal.txs, proposal.time)'
  BY ZenonT(30) DEF chain, round, Between, ExecutedUpTo, Cursor, WellFormed, SupplyDeltaCount
<1>3. Underway => Underway'
  BY Zenon DEF chain, round, Underway, Announced, EventsDone, SupplyDeltaCount, Cursor, ExecutedUpTo
<1> QED
  BY <1>1, <1>2, <1>3 DEF IInv, chain, round, NeverHalts

(***************************************************************************)
(* A proposal of any typed list of transactions keeps the invariant: what  *)
(* it holds matters only once a validator accepts it.                      *)
(***************************************************************************)
LEMMA ProposeIInv ==
  ASSUME IInv, NEW txs, NEW t \in Nat, NEW honest \in BOOLEAN,
         NEW response \in [ok : BOOLEAN, events : Seq(Event)], NEW mempool \in Seq(Tx),
         Propose(txs, t, honest, response, mempool)
  PROVE  IInv'
<1>1. /\ phase = "propose" /\ phase' = "verify" /\ txs \in Seq(Tx)
      /\ proposal' = [txs |-> txs, time |-> t, honest |-> honest, response |-> response,
                      mempool |-> mempool]
      /\ UNCHANGED <<height, time, bridge, index, executed, reports, injected, voted, accepted,
                     delivered, sidecar, down, outages>>
  BY DEF Propose, chain, nodes
<1>2. TypeOK'
  BY <1>1, SMTT(30) DEF IInv, TypeOK
<1>3. Between' /\ accepted' = {}
  BY <1>1 DEF IInv, Between, ExecutedUpTo, Cursor
<1> QED
  BY <1>1, <1>2, <1>3 DEF IInv, NeverHalts

(* PrepareProposal of an honest validator keeps the invariant.             *)
LEMMA PrepareIInv ==
  ASSUME IInv, NEW v \in Honest, PrepareBlock(v)
  PROVE  IInv'
<1>1. Mempools \subseteq Seq(Tx) /\ BlockIntervals \subseteq Nat
  BY ChainAssumption, SMTT(30)
<1>2. TypeOK /\ time \in Nat
  BY ZenonT(30) DEF IInv, TypeOK
<1> DEFINE response == GetBlockEvents(v, bridge.lastBlock + 1)
<1>3. response \in [ok : BOOLEAN, events : Seq(Event)]
  BY <1>2, AnswersAreTruthful
<1>4. PICK mempool \in Mempools, dt \in BlockIntervals :
        Propose(PrepareProposal(bridge, height, mempool, response), time + dt, TRUE,
                response, mempool)
  BY Zenon DEF PrepareBlock
<1>5. mempool \in Seq(Tx) /\ time + dt \in Nat
  BY <1>1, <1>2
<1> HIDE DEF response
<1> QED
  BY <1>3, <1>4, <1>5, ProposeIInv, Zenon

(* A proposal of a validator that does not follow the code keeps it too.   *)
LEMMA ProposeArbitraryIInv ==
  ASSUME IInv, ProposeArbitrary
  PROVE  IInv'
<1>1. BlockIntervals \subseteq Nat /\ time \in Nat
  BY ChainAssumption DEF IInv, TypeOK
<1>2. PICK dt \in BlockIntervals, tx \in ArbitraryIndexTxs, evs \in ArbitraryEventTxs,
           tail \in ArbitraryTails :
        Propose(<<tx>> \o evs \o tail, time + dt, FALSE, SidecarError, <<>>)
  BY Zenon DEF ProposeArbitrary
<1>3. /\ time + dt \in Nat /\ <<>> \in Seq(Tx)
      /\ SidecarError \in [ok : BOOLEAN, events : Seq(Event)]
  BY <1>1 DEF SidecarError
<1> QED
  BY <1>2, <1>3, ProposeIInv, Zenon

(* An honest validator accepts only well-formed proposals.                 *)
LEMMA VerifyIInv ==
  ASSUME IInv, NEW v \in Honest, VerifyBlock(v)
  PROVE  IInv'
<1> DEFINE response == GetBlockEvents(v, bridge.lastBlock + 1)
           accepts  == ProcessProposal(bridge, height, proposal.time, proposal.txs, response)
<1>1. /\ phase = "verify" /\ voted' = voted \cup {v}
      /\ accepted' = IF accepts THEN accepted \cup {v} ELSE accepted
      /\ UNCHANGED <<height, time, bridge, index, executed, reports, injected, phase, proposal,
                     delivered, sidecar, down, outages>>
  BY DEF VerifyBlock, chain, nodes
<1>2. TypeOK /\ proposal.txs \in Seq(Tx) /\ proposal.time \in Nat
  BY ZenonT(30) DEF IInv, TypeOK
<1>3. accepts => WellFormed(proposal.txs, proposal.time)
  BY <1>2, AnswersAreTruthful, AcceptedIsWellFormed
<1> HIDE DEF accepts
<1>4. TypeOK'
  BY <1>1, ZenonT(30) DEF IInv, TypeOK
<1>5. Between'
  BY <1>1 DEF IInv, Between, ExecutedUpTo, Cursor
<1>6. accepted' # {} => WellFormed(proposal.txs, proposal.time)
  BY <1>1, <1>3, SMTT(30) DEF IInv
<1>7. accepted' # {} => WellFormed(proposal.txs, proposal.time)'
  BY <1>1, <1>6, Zenon DEF WellFormed, Cursor, SupplyDeltaCount
<1> QED
  BY <1>1, <1>4, <1>5, <1>7 DEF IInv, NeverHalts

(* A decided proposal was accepted by an honest validator.                 *)
LEMMA DecideIInv ==
  ASSUME IInv, Decide
  PROVE  IInv'
<1>1. /\ phase = "verify" /\ phase' = "deliver" /\ voted' = {} /\ accepted' = {}
      /\ delivered' = 0
      /\ UNCHANGED <<height, time, bridge, index, executed, reports, injected, proposal,
                     sidecar, down, outages>>
  BY DEF Decide, chain, nodes
<1>2. accepted # {}
  <2>1. PICK Q \in Quorums : Q \subseteq accepted \cup Faulty
    BY DEF Decide, IsDecided
  <2> QED
    BY <2>1, ChainAssumption
<1>3. TypeOK'
  BY <1>1, ZenonT(30) DEF IInv, TypeOK
<1>4. WellFormed(proposal.txs, proposal.time) /\ Between
  BY <1>1, <1>2 DEF IInv
<1>5. WellFormed(proposal.txs, proposal.time)' /\ index' = NoIndex /\ ExecutedUpTo(Cursor)'
  BY <1>1, <1>4, Zenon DEF WellFormed, Cursor, SupplyDeltaCount, Between, ExecutedUpTo
<1> QED
  BY <1>1, <1>3, <1>5 DEF IInv, NeverHalts

(* A round that fails leaves nothing behind.                               *)
LEMMA NextRoundIInv ==
  ASSUME IInv, NextRound
  PROVE  IInv'
<1>1. /\ phase = "verify" /\ phase' = "propose" /\ proposal' = NoProposal
      /\ voted' = {} /\ accepted' = {}
      /\ UNCHANGED <<height, time, bridge, index, executed, reports, injected, delivered,
                     sidecar, down, outages>>
  BY ZenonT(30) DEF NextRound, chain, nodes
<1>2. TypeOK'
  BY <1>1, SMTT(30) DEF IInv, TypeOK, NoProposal, SidecarError
<1>3. Between'
  BY <1>1, ZenonT(30) DEF IInv, Between, ExecutedUpTo, Cursor
<1> QED
  BY <1>1, <1>2, <1>3 DEF IInv, NeverHalts

(***************************************************************************)
(* The first transaction of a decided block: the index handler succeeds,   *)
(* and moves the cursor past the events that the block announces.          *)
(***************************************************************************)
LEMMA FirstTxEffect ==
  ASSUME IInv, DeliverTx, delivered = 0, NEW m, m = proposal.txs[1].msg
  PROVE  /\ index' = [found |-> TRUE, total |-> m.num + SupplyDeltaCount,
                      ante |-> 0, failed |-> 0]
         /\ UNCHANGED <<executed, reports>>
         /\ bridge' \in [lastBlock : 0..MaxEthBlock, offset : Nat,
                         updateTime : Nat \cup {NotFound}, lastSeq : Nat]
         /\ bridge'.lastBlock = IF m.new THEN m.block ELSE bridge.lastBlock
         /\ bridge'.updateTime =
              IF NoEthereumSyncing(m) THEN bridge.updateTime ELSE proposal.time
         /\ bridge'.lastSeq = bridge.lastSeq + m.num + SupplyDeltaCount + 1
         /\ Cursor' = Cursor + m.num /\ Cursor \in Nat
<1>1. /\ phase = "deliver" /\ delivered' = 1 /\ delivered < Len(proposal.txs)
      /\ UNCHANGED <<height, time, injected, phase, proposal, voted, accepted, sidecar, down, outages>>
  BY SMTT(30) DEF DeliverTx, nodes
<1>2. TypeOK /\ index = NoIndex /\ ExecutedUpTo(Cursor)
        /\ WellFormed(proposal.txs, proposal.time) /\ accepted = {}
  BY <1>1, ZenonT(30) DEF IInv
<1>3. /\ Len(proposal.txs) >= 1 + m.num + SupplyDeltaCount
      /\ proposal.txs[1].kind = "index"
      /\ m \in Msg
      /\ m.block = bridge.lastBlock + 1
      /\ m.num = 0 => bridge.offset = 0
      /\ m.new => m.block <= MaxEthBlock /\ Cursor + m.num = End[m.block]
      /\ ~m.new /\ m.num > 0 => m.block <= MaxEthBlock /\ Cursor + m.num < End[m.block]
      /\ \A i \in 1..m.num : /\ proposal.txs[i + 1].kind = "event"
                             /\ proposal.txs[i + 1].body = EventBody(EthLog[Cursor + i])
      /\ IsMsgSupplyDeltaBlock(height) => proposal.txs[m.num + 2].kind = "delta"
      /\ NoEthereumSyncing(m) => ~EthSyncDelayExceeded(bridge, proposal.time)
  BY <1>2, Zenon DEF WellFormed
<1>4. /\ bridge.lastBlock \in 0..MaxEthBlock /\ bridge.lastBlock \in Nat
      /\ bridge.offset \in Nat /\ bridge.lastSeq \in Nat /\ MaxEthBlock \in Nat
  BY <1>2, BridgeTypes, LogTypes, ZenonT(30)
<1>5. m.num \in Nat /\ m.new \in BOOLEAN /\ SupplyDeltaCount \in {0, 1}
  BY <1>3, ZenonT(30) DEF Msg, SupplyDeltaCount
<1>6. Index(m)
  <2>1. IsInjected /\ proposal.txs[delivered + 1] = proposal.txs[1]
    BY <1>2, SMTT(30) DEF IsInjected, NoIndex
  <2> QED
    BY <2>1, <1>3, ZenonT(30) DEF DeliverTx
<1>7. /\ index' = [found |-> TRUE, total |-> m.num + SupplyDeltaCount, ante |-> 0, failed |-> 0]
      /\ bridge' = IndexAfter(m) /\ UNCHANGED <<executed, reports>>
  <2>1. ValidateBeforeProcessing(m, bridge.lastBlock, bridge.offset)
    BY <1>3, <1>4, <1>5, SMTT(30) DEF ValidateBeforeProcessing
  <2>2. ~AnteHandle.found
    BY <1>2 DEF AnteHandle, NoIndex
  <2> QED
    BY <1>6, <2>1, <2>2, ZenonT(30) DEF Index
<1>8. /\ bridge \in [lastBlock : 0..MaxEthBlock, offset : Nat,
                     updateTime : Nat \cup {NotFound}, lastSeq : Nat]
      /\ proposal.time \in Nat /\ MaxEthBlockUpdateDelay \in Nat
  BY <1>2, ParamsAssumption DEF TypeOK
<1>9. /\ bridge'.lastBlock = IF m.new THEN m.block ELSE bridge.lastBlock
      /\ bridge'.offset = IF m.new THEN 0 ELSE bridge.offset + m.num
      /\ bridge'.updateTime = IF NoEthereumSyncing(m) THEN bridge.updateTime ELSE proposal.time
      /\ bridge'.lastSeq = bridge.lastSeq + m.num + SupplyDeltaCount + 1
  BY <1>7, <1>8 DEF IndexAfter, IsFullEthereumSyncing
<1>10. bridge' \in [lastBlock : 0..MaxEthBlock, offset : Nat,
                    updateTime : Nat \cup {NotFound}, lastSeq : Nat]
  <2>1. bridge'.lastBlock \in 0..MaxEthBlock /\ bridge'.offset \in Nat
    <3>1. m.block = bridge.lastBlock + 1 /\ (m.new => m.block <= MaxEthBlock)
      BY <1>3, ZenonT(30)
    <3> QED
      BY ONLY <3>1, <1>4, <1>5, <1>9, SMTT(30)
  <2>2. bridge'.updateTime \in Nat \cup {NotFound}
    BY <1>8, <1>9, ZenonT(30)
  <2>3. bridge'.lastSeq \in Nat
    BY <1>4, <1>5, <1>9
  <2>4. bridge' = [lastBlock |-> bridge'.lastBlock, offset |-> bridge'.offset,
                   updateTime |-> bridge'.updateTime, lastSeq |-> bridge'.lastSeq]
    BY <1>7, <1>8, Zenon DEF IndexAfter
  <2> QED
    BY <2>1, <2>2, <2>3, <2>4, ZenonT(30)
<1>11. Cursor' = Cursor + m.num /\ Cursor \in Nat
  <2>1. End[bridge.lastBlock] \in Nat
    BY <1>4, ChainAssumption
  <2>2. Cursor \in Nat
    BY <1>4, <2>1 DEF Cursor
  <2>3. Cursor' = End[bridge'.lastBlock] + bridge'.offset
    BY ZenonT(30) DEF Cursor
  <2>4. CASE m.new
    BY ONLY <1>3, <1>5, <1>9, <2>2, <2>3, <2>4, SMTT(30)
  <2>5. CASE ~m.new
    BY ONLY <1>4, <1>5, <1>9, <2>1, <2>3, <2>5, SMTT(30) DEF Cursor
  <2> QED
    BY <2>2, <2>4, <2>5
<1> QED
  BY <1>7, <1>9, <1>10, <1>11, ZenonT(30)

(* The first transaction of a decided block keeps the invariant.           *)
LEMMA FirstTxIInv ==
  ASSUME IInv, DeliverTx, delivered = 0
  PROVE  IInv'
<1> DEFINE m == proposal.txs[1].msg
<1>1. /\ phase = "deliver" /\ delivered' = 1 /\ delivered < Len(proposal.txs)
      /\ UNCHANGED <<height, time, injected, phase, proposal, voted, accepted, sidecar, down, outages>>
  BY SMTT(30) DEF DeliverTx, nodes
<1>2. TypeOK /\ index = NoIndex /\ ExecutedUpTo(Cursor)
        /\ WellFormed(proposal.txs, proposal.time) /\ accepted = {}
  BY <1>1, SMTT(30) DEF IInv
<1>3. /\ Len(proposal.txs) >= 1 + m.num + SupplyDeltaCount
      /\ proposal.txs[1].kind = "index"
      /\ m \in Msg
      /\ m.block = bridge.lastBlock + 1
      /\ m.num = 0 => bridge.offset = 0
      /\ m.new => m.block <= MaxEthBlock /\ Cursor + m.num = End[m.block]
      /\ ~m.new /\ m.num > 0 => m.block <= MaxEthBlock /\ Cursor + m.num < End[m.block]
      /\ \A i \in 1..m.num : /\ proposal.txs[i + 1].kind = "event"
                             /\ proposal.txs[i + 1].body = EventBody(EthLog[Cursor + i])
      /\ IsMsgSupplyDeltaBlock(height) => proposal.txs[m.num + 2].kind = "delta"
      /\ NoEthereumSyncing(m) => ~EthSyncDelayExceeded(bridge, proposal.time)
  BY <1>2, Zenon DEF WellFormed
<1>4. /\ bridge.lastBlock \in 0..MaxEthBlock /\ bridge.lastBlock \in Nat
      /\ bridge.offset \in Nat /\ bridge.lastSeq \in Nat /\ MaxEthBlock \in Nat
  BY <1>2, BridgeTypes, LogTypes, SMTT(30)
<1>5. m.num \in Nat /\ m.new \in BOOLEAN /\ SupplyDeltaCount \in {0, 1}
  BY <1>3, Zenon DEF Msg, SupplyDeltaCount
<1>8. /\ bridge \in [lastBlock : 0..MaxEthBlock, offset : Nat,
                     updateTime : Nat \cup {NotFound}, lastSeq : Nat]
      /\ proposal.time \in Nat /\ MaxEthBlockUpdateDelay \in Nat
  BY <1>2, ParamsAssumption, ZenonT(30) DEF TypeOK
<1> HIDE DEF m
<1>7. /\ index' = [found |-> TRUE, total |-> m.num + SupplyDeltaCount, ante |-> 0, failed |-> 0]
      /\ UNCHANGED <<executed, reports>>
      /\ bridge' \in [lastBlock : 0..MaxEthBlock, offset : Nat,
                      updateTime : Nat \cup {NotFound}, lastSeq : Nat]
      /\ bridge'.lastBlock = IF m.new THEN m.block ELSE bridge.lastBlock
      /\ bridge'.updateTime = IF NoEthereumSyncing(m) THEN bridge.updateTime ELSE proposal.time
      /\ Cursor' = Cursor + m.num /\ Cursor \in Nat
  BY FirstTxEffect, ZenonT(30) DEF m
<1>11. TypeOK'
  <2>1. index' \in [found : BOOLEAN, total : Nat, ante : Nat, failed : Nat]
    BY <1>5, <1>7
  <2>2. delivered' \in 0..Len(proposal.txs)
    BY ONLY <1>1, <1>2, SMTT(30) DEF TypeOK
  <2> QED
    BY <1>1, <1>2, <1>7, <2>1, <2>2, ZenonT(30) DEF TypeOK
<1>13. bridge'.updateTime # NotFound =>
         proposal.time <= bridge'.updateTime + MaxEthBlockUpdateDelay
  BY <1>3, <1>7, <1>8, SMTT(30) DEF EthSyncDelayExceeded
<1>14. m = Announced' /\ SupplyDeltaCount' = SupplyDeltaCount
         /\ IsMsgSupplyDeltaBlock(height)' = IsMsgSupplyDeltaBlock(height)
  BY <1>1 DEF m, Announced, SupplyDeltaCount, IsMsgSupplyDeltaBlock
<1>15. EventsDone' = 0
  BY <1>1, <1>5, <1>14 DEF EventsDone
<1>16. ExecutedUpTo(Cursor)
  BY <1>2
<1>17. (Cursor - Announced.num + EventsDone)' = Cursor
  BY <1>5, <1>7, <1>14, <1>15
<1>18. ExecutedUpTo(Cursor - Announced.num + EventsDone)'
  BY <1>7, <1>16, <1>17 DEF ExecutedUpTo
<1>19. \A i \in 1..m.num : (Cursor' - m.num) + i = Cursor + i
  BY <1>5, <1>7
<1>20. Underway'
  <2>1. \A i \in 1..m.num :
          /\ proposal.txs[i + 1].kind = "event"
          /\ proposal.txs[i + 1].body = EventBody(EthLog[Cursor' - m.num + i])
    BY <1>3, <1>19
  <2>2. m.num <= Cursor'
    BY <1>5, <1>7
  <2>3. /\ index'.found /\ index'.total = m.num + SupplyDeltaCount /\ index'.failed = 0
        /\ index'.ante = 0
    BY <1>7
  <2>4. index'.ante = IF delivered' - 1 <= index'.total THEN delivered' - 1 ELSE index'.total
    BY <1>1, <1>5, <2>3
  <2>5. /\ m.new => m.block = bridge'.lastBlock /\ Cursor' = End[bridge'.lastBlock]
        /\ ~m.new => m.block = bridge'.lastBlock + 1
        /\ ~m.new /\ m.num > 0 =>
             bridge'.lastBlock < MaxEthBlock /\ Cursor' < End[bridge'.lastBlock + 1]
    <3>1. /\ m.block = bridge.lastBlock + 1
          /\ m.new => m.block <= MaxEthBlock /\ Cursor + m.num = End[m.block]
          /\ ~m.new /\ m.num > 0 => m.block <= MaxEthBlock /\ Cursor + m.num < End[m.block]
      BY <1>3, Zenon
    <3>2. /\ m.new => bridge'.lastBlock = m.block
          /\ ~m.new => bridge'.lastBlock = bridge.lastBlock
          /\ Cursor' = Cursor + m.num
      BY <1>7, Zenon
    <3>3. bridge.lastBlock \in Nat /\ MaxEthBlock \in Nat
      BY <1>4
    <3> QED
      BY ONLY <3>1, <3>2, <3>3
  <2> QED
    BY <1>1, <1>3, <1>5, <1>13, <1>14, <1>18, <2>1, <2>2, <2>3, <2>4, <2>5, ZenonT(30) DEF Underway
<1> QED
  BY ONLY <1>1, <1>2, <1>11, <1>20, SMTT(30) DEF IInv, NeverHalts

(* The transactions after the first: events, then the supply delta, then   *)
(* the native transactions.                                                *)
LEMMA LaterTxIInv ==
  ASSUME IInv, DeliverTx, delivered > 0
  PROVE  IInv'
<1> DEFINE num == Announced.num
           tx  == proposal.txs[delivered + 1]
           IndexType == [found : BOOLEAN, total : Nat, ante : Nat, failed : Nat]
<1>1. /\ phase = "deliver" /\ delivered' = delivered + 1 /\ delivered < Len(proposal.txs)
      /\ UNCHANGED <<height, time, injected, phase, proposal, voted, accepted, sidecar, down, outages>>
  BY DEF DeliverTx, nodes
<1>2. TypeOK /\ Underway /\ accepted = {}
  BY <1>1 DEF IInv
<1>3. /\ delivered \in Nat /\ delivered' \in 0..Len(proposal.txs)
      /\ index \in IndexType /\ executed \in Seq(Body) /\ reports \in Nat
  BY ONLY <1>1, <1>2, SMTT(30) DEF TypeOK
<1>4. Cursor \in Nat /\ num \in Nat /\ num <= Cursor /\ SupplyDeltaCount \in {0, 1}
  <2>1. End[bridge.lastBlock] \in Nat /\ bridge.offset \in Nat
    BY <1>2, BridgeTypes, LogTypes, ChainAssumption, SMTT(30)
  <2> QED
    BY <1>2, <2>1, SMTT(30) DEF Underway, Cursor, SupplyDeltaCount
<1>5. /\ index.found /\ index.total = num + SupplyDeltaCount
      /\ index.ante = IF delivered - 1 <= index.total THEN delivered - 1 ELSE index.total
      /\ Panicking = {} => index.failed = 0
      /\ index.failed = 0 => ExecutedUpTo(Cursor - num + EventsDone)
  BY <1>2, Zenon DEF Underway
<1>6. Announced' = Announced /\ SupplyDeltaCount' = SupplyDeltaCount
  BY <1>1 DEF Announced, SupplyDeltaCount
<1>7. EventsDone' = IF delivered <= num THEN delivered ELSE num
  BY ONLY <1>1, <1>3, <1>4, <1>6, SMTT(30) DEF EventsDone
<1>8. ASSUME bridge' = bridge, index' \in IndexType, executed' \in Seq(Body), reports' \in Nat,
             index'.found, index'.total = index.total,
             index'.ante = IF delivered <= index.total THEN delivered ELSE index.total,
             Panicking = {} => index'.failed = 0,
             index'.failed = 0 => ExecutedUpTo(Cursor - Announced.num + EventsDone)'
      PROVE  IInv'
  <2>1. TypeOK'
    BY <1>1, <1>2, <1>3, <1>8, ZenonT(30) DEF TypeOK
  <2>2. Cursor' = Cursor
    BY <1>8 DEF Cursor
  <2>3. index'.ante = IF delivered' - 1 <= index'.total THEN delivered' - 1 ELSE index'.total
    BY <1>1, <1>3, <1>8
  <2>4. Underway'
    BY <1>1, <1>2, <1>6, <1>8, <2>2, <2>3, ZenonT(30) DEF Underway
  <2> QED
    BY <1>1, <1>2, <1>3, <2>1, <2>4, SMTT(30) DEF IInv, NeverHalts
<1> HIDE DEF IndexType
<1>9. CASE ~IsInjected
  <2>1. UNCHANGED <<index, bridge, executed, reports>>
    BY <1>9 DEF DeliverTx
  <2>2. delivered - 1 >= index.total
    BY <1>3, <1>4, <1>5, <1>9 DEF IsInjected
  <2>3. EventsDone' = num /\ EventsDone = num
    BY ONLY <2>2, <1>3, <1>4, <1>5, <1>7, SMTT(30) DEF EventsDone
  <2>4. Cursor' = Cursor
    BY <2>1 DEF Cursor
  <2>5. index.failed = 0 => ExecutedUpTo(Cursor - Announced.num + EventsDone)'
    BY <1>5, <1>6, <2>1, <2>3, <2>4 DEF ExecutedUpTo
  <2>6. index.ante = IF delivered <= index.total THEN delivered ELSE index.total
    BY ONLY <2>2, <1>3, <1>4, <1>5, SMTT(30)
  <2> QED
    BY ONLY <1>3, <1>5, <1>8, <2>1, <2>5, <2>6, SMTT(30)
<1>10. CASE IsInjected /\ delivered <= num
  <2>1. tx.kind = "event" /\ tx.body = EventBody(EthLog[Cursor - num + delivered])
    <3>1. delivered \in 1..num
      BY <1>3, <1>4, <1>10, SMTT(30)
    <3> QED
      BY <1>2, <3>1 DEF Underway
  <2>2. ExecEvent(tx.body)
    BY <1>10, <2>1, ZenonT(30) DEF DeliverTx
  <2>3. tx.body \in Body
    <3>1. tx \in Tx
      BY ONLY <1>1, <1>2, <1>3, SMTT(30) DEF TypeOK
    <3> QED
      BY <3>1, <2>1 DEF Tx
  <2>4. index.ante = delivered - 1 /\ EventsDone' = delivered /\ EventsDone = delivered - 1
    <3>1. delivered - 1 <= num /\ delivered - 1 <= index.total
      BY <1>3, <1>4, <1>5, <1>10
    <3> QED
      BY <1>5, <1>7, <1>10, <3>1 DEF EventsDone
  <2>5. /\ AnteHandle \in IndexType /\ AnteHandle.found /\ AnteHandle.total = index.total
        /\ AnteHandle.ante = delivered /\ AnteHandle.failed = index.failed
    BY ONLY <1>3, <1>5, <2>4, SMTT(30) DEF AnteHandle, IndexType
  <2>6. bridge' = bridge /\ reports' = reports /\ Cursor' = Cursor
    BY <2>2 DEF ExecEvent, Cursor
  <2>7. delivered <= index.total
    BY ONLY <1>3, <1>4, <1>5, <1>10, SMTT(30)
  <2>8. CASE tx.body.type = "deposit" /\ tx.body.payload \in Panicking
    <3>1. index' = FailSpecial(AnteHandle) /\ executed' = executed
      BY <2>2, <2>8, ZenonT(30) DEF ExecEvent
    <3>2. /\ index' \in IndexType /\ index'.found /\ index'.total = index.total
          /\ index'.ante = delivered /\ index'.failed # 0
      <4>1. AnteHandle.failed \in Nat
        BY <2>5 DEF IndexType
      <4>2. index' = [AnteHandle EXCEPT !.found = TRUE, !.failed = AnteHandle.failed + 1]
        BY <3>1 DEF FailSpecial
      <4>4. index'.found /\ index'.total = AnteHandle.total /\ index'.ante = AnteHandle.ante
        BY <2>5, <4>2 DEF IndexType
      <4>5. index' \in IndexType
        <5>1. AnteHandle \in IndexType /\ AnteHandle.failed + 1 \in Nat
          BY <2>5, <4>1
        <5> QED
          BY <5>1, <4>2, Zenon DEF IndexType
      <4>3. index'.failed = AnteHandle.failed + 1
        BY <2>5, <3>1 DEF FailSpecial, IndexType
      <4> QED
        BY <2>5, <4>1, <4>3, <4>4, <4>5
    <3> QED
      BY <1>3, <1>8, <2>6, <2>7, <2>8, <3>1, <3>2, ZenonT(30)
  <2>9. CASE ~(tx.body.type = "deposit" /\ tx.body.payload \in Panicking)
    <3>1. index' = AnteHandle /\ executed' = Append(executed, tx.body)
      BY <2>2, <2>9 DEF ExecEvent
    <3>2. Cursor - num + delivered = (Cursor - num + (delivered - 1)) + 1
            /\ Cursor - num + (delivered - 1) \in Nat
      BY <1>3, <1>4
    <3>3. index.failed = 0 => ExecutedUpTo(Cursor - num + (delivered - 1))
      BY <1>5, <2>4, SMTT(30)
    <3>4. index.failed = 0 => ExecutedUpTo(Cursor - Announced.num + EventsDone)'
      BY <1>3, <1>6, <2>1, <2>4, <2>6, <3>1, <3>2, <3>3, SMTT(30) DEF ExecutedUpTo
    <3>5. executed' \in Seq(Body)
      BY <1>3, <2>3, <3>1
    <3> QED
      BY <1>3, <1>5, <1>8, <2>5, <2>6, <2>7, <3>1, <3>4, <3>5, ZenonT(30)
  <2> QED
    BY <2>8, <2>9, ZenonT(30)
<1>11. CASE IsInjected /\ delivered > num
  <2>1. /\ delivered = num + 1 /\ index.total = num + 1 /\ index.ante = num
        /\ SupplyDeltaCount = 1
    BY ONLY <1>3, <1>4, <1>5, <1>11, SMTT(30) DEF IsInjected
  <2>2. IsMsgSupplyDeltaBlock(height) /\ tx.kind = "delta"
    BY ONLY <1>2, <1>4, <2>1, SMTT(30) DEF Underway, SupplyDeltaCount
  <2>3. index' = AnteHandle /\ reports' = reports + 1 /\ UNCHANGED <<bridge, executed>>
    BY <1>11, <2>2 DEF DeliverTx, SupplyDelta
  <2>4. /\ AnteHandle \in IndexType /\ AnteHandle.found /\ AnteHandle.total = index.total
        /\ AnteHandle.ante = delivered /\ AnteHandle.failed = index.failed
    BY <1>3, <1>4, <1>5, <2>1, ZenonT(30) DEF AnteHandle, IndexType
  <2>5. EventsDone' = num /\ EventsDone = num /\ Cursor' = Cursor
    <3>1. EventsDone' = num
      BY <1>4, <1>7, <2>1
    <3>2. delivered - 1 = num /\ delivered - 1 <= num
      BY <1>4, <2>1
    <3>3. EventsDone = num
      BY <3>2 DEF EventsDone
    <3>4. Cursor' = Cursor
      BY <2>3 DEF Cursor
    <3> QED
      BY <3>1, <3>3, <3>4
  <2>6. index.failed = 0 => ExecutedUpTo(Cursor - Announced.num + EventsDone)'
    BY <1>5, <1>6, <2>3, <2>5 DEF ExecutedUpTo
  <2>7. delivered <= index.total /\ reports' \in Nat
    BY <1>3, <1>4, <2>1, <2>3
  <2> QED
    BY <1>3, <1>5, <1>8, <2>3, <2>4, <2>6, <2>7
<1> QED
  BY ONLY <1>3, <1>4, <1>9, <1>10, <1>11, SMTT(30)

(***************************************************************************)
(* After a well-formed block EndBlock finds every injected transaction     *)
(* counted and none failed, and the events of the block are executed.      *)
(***************************************************************************)
LEMMA EndBlockIInv ==
  ASSUME IInv, EndBlock
  PROVE  IInv'
<1>1. /\ phase = "deliver" /\ delivered = Len(proposal.txs) /\ delivered' = 0
      /\ UNCHANGED <<bridge, executed, reports, voted, accepted, sidecar, down, outages>>
  BY DEF EndBlock, nodes
<1>2. TypeOK /\ accepted = {}
  BY <1>1 DEF IInv
<1>3. delivered \in Nat /\ proposal.txs \in Seq(Tx) /\ proposal.time \in Nat /\ height \in Nat
  BY <1>1, <1>2 DEF TypeOK
<1>4. SupplyDeltaCount \in {0, 1}
  BY DEF SupplyDeltaCount
<1>5. delivered > 0 /\ Underway
  <2>1. CASE delivered = 0
    <3>1. Len(proposal.txs) >= 1 + proposal.txs[1].msg.num + SupplyDeltaCount
            /\ proposal.txs[1].msg.num \in Nat
      BY <1>1, <2>1, Zenon DEF IInv, WellFormed, Msg
    <3> QED
      BY <1>1, <1>4, <2>1, <3>1, SMTT(30)
  <2>2. CASE delivered # 0
    BY <1>1, <1>3, <2>2, SMTT(30) DEF IInv
  <2> QED
    BY <2>1, <2>2
<1>6. /\ Announced.num \in Nat /\ index.found /\ index.total = Announced.num + SupplyDeltaCount
      /\ Len(proposal.txs) >= 1 + Announced.num + SupplyDeltaCount
      /\ index.ante = IF delivered - 1 <= index.total THEN delivered - 1 ELSE index.total
      /\ Panicking = {} => index.failed = 0
      /\ index.failed = 0 => ExecutedUpTo(Cursor - Announced.num + EventsDone)
      /\ bridge.updateTime # NotFound =>
           proposal.time <= bridge.updateTime + MaxEthBlockUpdateDelay
  BY <1>5 DEF Underway
<1>7. index.ante = index.total /\ EventsDone = Announced.num
  BY <1>1, <1>3, <1>4, <1>6 DEF EventsDone
<1>8. Cursor \in Nat
  <2>1. End[bridge.lastBlock] \in Nat /\ bridge.offset \in Nat
    BY <1>2, BridgeTypes, LogTypes, ChainAssumption
  <2> QED
    BY <2>1 DEF Cursor
<1>9. index.failed = 0 => ExecutedUpTo(Cursor)
  <2>1. Cursor - Announced.num + Announced.num = Cursor
    BY ONLY <1>6, <1>8, SMTT(30)
  <2> QED
    BY <1>6, <1>7, <2>1
<1>10. CASE EndBlockOK
  <2>1. /\ index' = NoIndex /\ height' = height + 1 /\ time' = proposal.time
        /\ phase' = "propose" /\ proposal' = NoProposal
        /\ injected' = injected \o SubSeq(proposal.txs, 1, 1 + index.total)
    BY <1>10, Zenon DEF EndBlock
  <2>2. TypeOK'
    <3>1. NoProposal \in [txs : Seq(Tx), time : Nat, honest : BOOLEAN,
                          response : [ok : BOOLEAN, events : Seq(Event)], mempool : Seq(Tx)]
      BY SMTT(30) DEF NoProposal, SidecarError
    <3>2. NoIndex \in [found : BOOLEAN, total : Nat, ante : Nat, failed : Nat]
      BY DEF NoIndex
    <3>3. Len(NoProposal.txs) = 0
      BY DEF NoProposal
    <3>4. delivered' \in 0..Len(proposal'.txs)
      BY <1>1, <2>1, <3>3
    <3>5. height' \in Nat /\ time' \in Nat
      BY <1>3, <2>1
    <3>6. injected' \in Seq(Tx)
      <4>1. 1 + index.total \in Nat /\ 1 + index.total <= Len(proposal.txs)
        BY <1>4, <1>6
      <4>2. SubSeq(proposal.txs, 1, 1 + index.total) \in Seq(Tx)
        BY <1>3, <4>1
      <4>3. injected \in Seq(Tx)
        BY <1>2 DEF TypeOK
      <4> QED
        BY <2>1, <4>2, <4>3
    <3> QED
      BY <1>1, <1>2, <2>1, <3>1, <3>2, <3>4, <3>5, <3>6, Zenon DEF TypeOK
  <2>3. ExecutedUpTo(Cursor)
    BY <1>9, <1>10, ZenonT(30) DEF EndBlockOK
  <2>4. Between'
    BY <1>1, <1>6, <2>1, <2>3, ZenonT(30) DEF Between, ExecutedUpTo, Cursor
  <2> QED
    BY <1>1, <1>2, <2>1, <2>2, <2>4 DEF IInv, NeverHalts
<1>11. CASE ~EndBlockOK
  <2>1. phase' = "halted" /\ UNCHANGED <<index, height, time, proposal, injected>>
    BY <1>11 DEF EndBlock
  <2>2. Panicking # {}
    BY <1>6, <1>7, <1>11, ZenonT(30) DEF EndBlockOK
  <2>3. TypeOK'
    BY ONLY <1>1, <1>2, <2>1, SMTT(30) DEF TypeOK
  <2> QED
    BY <1>1, <1>2, <2>1, <2>2, <2>3 DEF IInv, NeverHalts
<1> QED
  BY <1>10, <1>11

(* Every step keeps the inductive invariant.                               *)
LEMMA NextIInv == IInv /\ [Next]_vars => IInv'
<1> SUFFICES ASSUME IInv, [Next]_vars PROVE IInv'
  OBVIOUS
<1>1. /\ sidecar \in [Honest -> 0..MaxEthBlock] /\ down \subseteq Honest /\ outages \in Nat
      /\ delivered \in Nat /\ MaxEthBlock \in Nat
  BY LogTypes, SMTT(30) DEF IInv, TypeOK
<1>2. ASSUME NEW v \in Honest, SidecarSync(v) PROVE IInv'
  <2>1. sidecar' \in [Honest -> 0..MaxEthBlock]
    BY <1>1, <1>2 DEF SidecarSync
  <2> QED
    BY <1>1, <1>2, <2>1, NodesIInv DEF SidecarSync
<1>3. ASSUME NEW v \in Honest, SidecarDown(v) PROVE IInv'
  BY <1>1, <1>3, NodesIInv DEF SidecarDown
<1>4. ASSUME NEW v \in Honest, SidecarUp(v) PROVE IInv'
  BY <1>1, <1>4, NodesIInv DEF SidecarUp
<1>5. ASSUME DeliverTx PROVE IInv'
  <2>1. delivered = 0 \/ delivered > 0
    BY <1>1
  <2> QED
    BY <1>5, <2>1, FirstTxIInv, LaterTxIInv
<1>6. ASSUME Finished \/ UNCHANGED vars PROVE IInv'
  BY <1>1, <1>6, NodesIInv DEF Finished, vars, nodes
<1> QED
  BY <1>2, <1>3, <1>4, <1>5, <1>6, PrepareIInv, ProposeArbitraryIInv, VerifyIInv, DecideIInv,
     NextRoundIInv, EndBlockIInv DEF Next

(* The inductive invariant holds in every state of every behaviour.        *)
LEMMA Inductive == Spec => []IInv
BY InitIInv, NextIInv, PTL DEF Spec

(***************************************************************************)
(* Every variable keeps its type; in particular the bridge never moves     *)
(* past the last Ethereum block there is.                                  *)
(***************************************************************************)
THEOREM TypeCorrect == Spec => []TypeOK
<1>1. IInv => TypeOK
  BY DEF IInv
<1> QED
  BY <1>1, Inductive, PTL

(***************************************************************************)
(* Between two blocks the executed event transactions are those of the     *)
(* first Cursor events of Ethereum, each once and in order.                *)
(***************************************************************************)
THEOREM EventsOnceInOrder == Spec => []EveryEventOnceInOrder
<1>1. IInv => EveryEventOnceInOrder
  BY DEF IInv, Between, ExecutedUpTo, EveryEventOnceInOrder
<1> QED
  BY <1>1, Inductive, PTL

(***************************************************************************)
(* When no deposit panics, EndBlock of x/bridge never returns an error.    *)
(***************************************************************************)
THEOREM ChainNeverHalts == Spec => []NeverHalts
<1>1. IInv => NeverHalts
  BY DEF IInv
<1> QED
  BY <1>1, Inductive, PTL

(***************************************************************************)
(* The chain never goes on for longer than MaxEthBlockUpdateDelay without  *)
(* something new from Ethereum.                                            *)
(***************************************************************************)
THEOREM SyncIsNeverStale == Spec => []SyncNeverStale
<1>1. IInv => SyncNeverStale
  BY DEF IInv, Between, SyncNeverStale
<1> QED
  BY <1>1, Inductive, PTL

-----------------------------------------------------------------------------
(***************************************************************************)
(* BlockProduction implements EventDelivery, supply deltas come once per   *)
(* period, and no MsgIndex or MsgSupplyDelta transaction is injected       *)
(* twice.  The proofs use IInv and add to it what is particular to each.   *)
(***************************************************************************)

(***************************************************************************)
(* What the later transactions of a decided block do: an event among those *)
(* that the index announces, then the supply delta where it is due, then   *)
(* transactions that the ante handler no longer takes for injected ones.   *)
(***************************************************************************)
LEMMA LaterTxEffect ==
  ASSUME IInv, DeliverTx, delivered > 0, NEW num, num = Announced.num
  PROVE  /\ bridge' = bridge /\ index'.found
         /\ executed' = executed \/ \E body : executed' = Append(executed, body)
         /\ delivered <= num => reports' = reports
         /\ delivered = num + 1 => reports' = reports + SupplyDeltaCount
         /\ delivered > num + 1 => reports' = reports
<1>1. phase = "deliver" /\ delivered < Len(proposal.txs)
  BY DEF DeliverTx
<1>2. TypeOK /\ Underway
  BY <1>1, ZenonT(30) DEF IInv
<1>3. /\ delivered \in Nat /\ num \in Nat /\ SupplyDeltaCount \in {0, 1} /\ reports \in Nat
      /\ index \in [found : BOOLEAN, total : Nat, ante : Nat, failed : Nat]
  <2>1. /\ delivered \in Nat /\ reports \in Nat
        /\ index \in [found : BOOLEAN, total : Nat, ante : Nat, failed : Nat]
    BY <1>2, SMTT(30) DEF TypeOK
  <2>2. num \in Nat
    BY <1>2, ZenonT(30) DEF Underway
  <2>3. SupplyDeltaCount \in {0, 1}
    BY Zenon DEF SupplyDeltaCount
  <2> QED
    BY <2>1, <2>2, <2>3, Zenon
<1>4. /\ index.found /\ index.total = num + SupplyDeltaCount
      /\ index.ante = IF delivered - 1 <= index.total THEN delivered - 1 ELSE index.total
  <2>1. /\ index.found /\ index.total = Announced.num + SupplyDeltaCount
        /\ index.ante = IF delivered - 1 <= index.total THEN delivered - 1 ELSE index.total
    BY <1>2, Zenon DEF Underway
  <2> QED
    BY <2>1, Zenon
<1>5. AnteHandle.found /\ FailSpecial(AnteHandle).found
  BY <1>3, <1>4 DEF AnteHandle, FailSpecial
<1>6. CASE ~IsInjected
  <2>1. UNCHANGED <<index, bridge, executed, reports>>
    BY <1>6 DEF DeliverTx
  <2>2. delivered - 1 >= num + SupplyDeltaCount
    BY <1>3, <1>4, <1>6 DEF IsInjected
  <2> QED
    BY ONLY <1>3, <1>4, <2>1, <2>2, SMTT(30)
<1>7. CASE IsInjected /\ delivered <= num
  <2>1. delivered \in 1..num /\ delivered + 1 = delivered + 1
    BY <1>3, <1>7
  <2>2. proposal.txs[delivered + 1].kind = "event"
    BY <1>2, <2>1, SMTT(30) DEF Underway
  <2>3. ExecEvent(proposal.txs[delivered + 1].body)
    BY <1>7, <2>2, ZenonT(30) DEF DeliverTx
  <2>4. /\ bridge' = bridge /\ reports' = reports
        /\ executed' = executed \/ \E body : executed' = Append(executed, body)
        /\ index' = AnteHandle \/ index' = FailSpecial(AnteHandle)
    BY <2>3 DEF ExecEvent
  <2> QED
    BY <1>3, <1>5, <1>7, <2>4
<1>8. CASE IsInjected /\ delivered > num
  <2>1. delivered = num + 1 /\ SupplyDeltaCount = 1
    BY ONLY <1>3, <1>4, <1>8, SMTT(30) DEF IsInjected
  <2>2. IsMsgSupplyDeltaBlock(height) /\ proposal.txs[delivered + 1].kind = "delta"
    <3>1. delivered + 1 = num + 2
      BY <1>3, <2>1, SMTT(30)
    <3> QED
      BY <1>2, <2>1, <3>1 DEF Underway, SupplyDeltaCount
  <2>3. index' = AnteHandle /\ reports' = reports + 1 /\ UNCHANGED <<bridge, executed>>
    BY <1>8, <2>2, ZenonT(30) DEF DeliverTx, SupplyDelta
  <2> QED
    BY <1>3, <1>5, <2>1, <2>3
<1>9. delivered <= num \/ delivered > num
  BY ONLY <1>3
<1> QED
  BY <1>6, <1>7, <1>8, <1>9, Zenon

-----------------------------------------------------------------------------
(* The refinement                                                          *)

Bodies == [k \in 1..Len(EthLog) |-> EventBody(EthLog[k])]

(* The position in the log lies within the log.                            *)
LEMMA CursorTypes ==
  ASSUME TypeOK
  PROVE  Cursor \in Nat
<1>1. End[bridge.lastBlock] \in Nat /\ bridge.offset \in Nat
  BY BridgeTypes, LogTypes, ChainAssumption
<1> QED BY <1>1 DEF Cursor

(* What was executed up to n is the beginning of the log.                  *)
LEMMA ExecutedIsPrefix ==
  ASSUME NEW n \in 0..Len(EthLog), executed \in Seq(Body), ExecutedUpTo(n)
  PROVE  executed = SubSeq(Bodies, 1, n)
<1>1. Len(EthLog) \in Nat /\ \A k \in 1..Len(EthLog) : EthLog[k] \in Event
  BY LogTypes
<1>2. \A k \in 1..Len(EthLog) : Bodies[k] \in Body
  BY <1>1, BodyTypes DEF Bodies
<1>3. Bodies \in Seq(Body) /\ Len(Bodies) = Len(EthLog)
  BY <1>1, <1>2 DEF Bodies
<1>4. \A k \in 1..n : executed[k] = Bodies[k]
  BY <1>1 DEF ExecutedUpTo, Bodies
<1>5. Len(executed) = n
  BY DEF ExecutedUpTo
<1> HIDE DEF Bodies
<1>6. SubSeq(Bodies, 1, n) \in Seq(Body) /\ Len(SubSeq(Bodies, 1, n)) = n
        /\ \A k \in 1..n : SubSeq(Bodies, 1, n)[k] = Bodies[k]
  BY <1>1, <1>3
<1>7. \A s, t \in Seq(Body) :
        Len(s) = Len(t) /\ (\A k \in 1..Len(s) : s[k] = t[k]) => s = t
  BY ONLY SMTT(30)
<1> QED BY <1>4, <1>5, <1>6, <1>7

(***************************************************************************)
(* While a block is executed, whatever the earlier blocks executed is      *)
(* still there, even if an event of this block fails.                      *)
(***************************************************************************)
EarlierKept == IsIndexed => Len(executed) >= Cursor - Announced.num

(* Steps between two blocks, and steps of the sidecars.                    *)
LEMMA QuietStep ==
  ASSUME IInv, [Next]_vars, ~DeliverTx, ~EndBlock
  PROVE  /\ UNCHANGED <<height, bridge, index, executed, reports, injected>>
         /\ IsIndexed' = IsIndexed /\ (IsIndexed => proposal' = proposal)
         /\ phase = "deliver" => phase' = "deliver" /\ delivered' = delivered /\ proposal' = proposal
         /\ phase = "halted" => phase' = "halted"
         /\ phase' \in {"propose", "verify"} => phase \in {"propose", "verify"}
         /\ phase' = "deliver" /\ phase # "deliver" => delivered' = 0
<1>1. phase \in {"propose", "verify"} => ~index.found
  BY DEF IInv, Between, NoIndex
<1>2. CASE UNCHANGED vars
  BY <1>2 DEF vars, chain, round, IsIndexed
<1>3. ASSUME NEW v \in Honest, SidecarSync(v) \/ SidecarDown(v) \/ SidecarUp(v)
      PROVE  UNCHANGED <<chain, round>>
  BY <1>3 DEF SidecarSync, SidecarDown, SidecarUp
<1>4. CASE UNCHANGED <<chain, round>>
  BY <1>4, ZenonT(30) DEF chain, round, IsIndexed
<1>5. CASE \E v \in Honest : PrepareBlock(v)
  BY <1>1, <1>5, ZenonT(30) DEF PrepareBlock, Propose, chain, IsIndexed
<1>6. CASE ProposeArbitrary
  BY <1>1, <1>6, ZenonT(30) DEF ProposeArbitrary, Propose, chain, IsIndexed
<1>7. CASE \E v \in Honest : VerifyBlock(v)
  BY ONLY <1>1, <1>7, SMTT(30) DEF VerifyBlock, chain, IsIndexed
<1>8. CASE Decide
  BY <1>1, <1>8, SMTT(30) DEF Decide, chain, IsIndexed
<1>9. CASE NextRound
  BY <1>1, <1>9 DEF NextRound, chain, IsIndexed
<1> QED
  BY <1>2, <1>3, <1>4, <1>5, <1>6, <1>7, <1>8, <1>9, ZenonT(30) DEF Next, Finished

(* EndBlock of a decided block finds it underway.                          *)
LEMMA EndBlockUnderway ==
  ASSUME IInv, EndBlock
  PROVE  /\ Underway /\ IsIndexed /\ TypeOK
         /\ EndBlockOK => ExecutedUpTo(Cursor)
<1>1. phase = "deliver" /\ delivered = Len(proposal.txs)
  BY ZenonT(30) DEF EndBlock
<1>2. TypeOK /\ delivered \in Nat /\ proposal.txs \in Seq(Tx) /\ SupplyDeltaCount \in {0, 1}
  BY SMTT(30) DEF IInv, TypeOK, SupplyDeltaCount
<1>3. Underway
  <2>1. CASE delivered = 0
    <3>1. Len(proposal.txs) >= 1 + proposal.txs[1].msg.num + SupplyDeltaCount
            /\ proposal.txs[1].msg.num \in Nat
      BY <1>1, <2>1, Zenon DEF IInv, WellFormed, Msg
    <3> QED
      BY <1>1, <1>2, <2>1, <3>1
  <2>2. CASE delivered # 0
    BY <1>1, <1>2, <2>2, SMTT(30) DEF IInv
  <2> QED
    BY <2>1, <2>2
<1>4. /\ Announced.num \in Nat /\ index.found
      /\ Len(proposal.txs) >= 1 + Announced.num + SupplyDeltaCount
      /\ index.failed = 0 => ExecutedUpTo(Cursor - Announced.num + EventsDone)
  BY <1>3 DEF Underway
<1>5. EventsDone = Announced.num /\ Cursor - Announced.num + Announced.num = Cursor
  BY <1>1, <1>2, <1>4, CursorTypes DEF EventsDone
<1>6. EndBlockOK => ExecutedUpTo(Cursor)
  BY <1>4, <1>5 DEF EndBlockOK
<1> QED
  BY <1>1, <1>2, <1>3, <1>4, <1>6 DEF IsIndexed

(* Every step keeps the events of the earlier blocks.                      *)
LEMMA EarlierKeptStep ==
  ASSUME IInv, EarlierKept, [Next]_vars
  PROVE  EarlierKept'
<1>1. TypeOK /\ Cursor \in Nat /\ executed \in Seq(Body) /\ delivered \in Nat
  BY CursorTypes, SMTT(30) DEF IInv, TypeOK
<1>2. CASE DeliverTx /\ delivered = 0
  <2>1. phase = "deliver" /\ proposal' = proposal
    BY <1>2, SMTT(30) DEF DeliverTx
  <2>2. ExecutedUpTo(Cursor) /\ proposal.txs[1].msg.num \in Nat
    BY <1>2, <2>1, ZenonT(30) DEF IInv, WellFormed, Msg
  <2>3. executed' = executed /\ Cursor' = Cursor + proposal.txs[1].msg.num
    BY <1>2, FirstTxEffect
  <2> QED
    BY ONLY <1>1, <2>1, <2>2, <2>3, SMTT(30) DEF EarlierKept, ExecutedUpTo, Announced
<1>3. CASE DeliverTx /\ delivered > 0
  <2>1. phase = "deliver" /\ proposal' = proposal
    BY <1>3 DEF DeliverTx
  <2>2. Underway
    BY <1>3, <2>1, ZenonT(30) DEF IInv
  <2>3. IsIndexed /\ Announced.num \in Nat
    BY <2>1, <2>2 DEF Underway, IsIndexed
  <2>4. bridge' = bridge /\ (executed' = executed \/ \E body : executed' = Append(executed, body))
    BY <1>3, LaterTxEffect
  <2>5. Len(executed') >= Len(executed)
    BY <1>1, <2>4, SMTT(30)
  <2>6. Cursor' = Cursor /\ Announced' = Announced /\ executed' \in Seq(Body)
    BY <2>1, <2>4, NextIInv, Zenon DEF Cursor, Announced, IInv, TypeOK
  <2>7. Len(executed') \in Nat /\ Len(executed) \in Nat
    BY ONLY <1>1, <2>6, SMTT(30)
  <2> QED
    BY <1>1, <2>3, <2>5, <2>6, <2>7, SMTT(30) DEF EarlierKept
<1>4. CASE EndBlock
  <2>1. UNCHANGED <<bridge, executed>>
          /\ (index' = NoIndex \/ UNCHANGED <<index, proposal>>)
    BY <1>4 DEF EndBlock
  <2>2. IsIndexed
    BY <1>4, EndBlockUnderway
  <2> QED
    BY <2>1, <2>2 DEF EarlierKept, IsIndexed, NoIndex, Cursor, Announced
<1>5. CASE ~DeliverTx /\ ~EndBlock
  BY <1>5, QuietStep, Zenon DEF EarlierKept, Cursor, Announced
<1> QED
  BY ONLY <1>1, <1>2, <1>3, <1>4, <1>5, SMTT(30)

(* A block that ends without an error is a step of EventDelivery.          *)
LEMMA EndBlockDelivers ==
  ASSUME IInv, IInv', EarlierKept, EndBlock, EndBlockOK
  PROVE  [Delivery!Next]_(Delivery!vars)
<1> DEFINE num == Announced.num
           last == bridge.lastBlock
<1>1. /\ phase' = "propose" /\ UNCHANGED <<bridge, executed>>
  BY DEF EndBlock
<1>2. Underway /\ IsIndexed /\ TypeOK /\ ExecutedUpTo(Cursor)
  BY EndBlockUnderway
<1>3. /\ CommittedBlock = Announced.block - 1 /\ CommittedBlock' = last
      /\ CommittedEvents = SubSeq(executed, 1, Cursor - num) /\ CommittedEvents' = executed
  BY <1>1, <1>2, Zenon DEF CommittedBlock, CommittedEvents, IsIndexed, Announced
<1>4. /\ num \in Nat /\ num <= Cursor
      /\ Announced.new => Announced.block = last /\ Cursor = End[last]
      /\ ~Announced.new => Announced.block = last + 1
      /\ ~Announced.new /\ num > 0 => last < MaxEthBlock /\ Cursor < End[last + 1]
  BY <1>2 DEF Underway
<1>5. /\ last \in 0..MaxEthBlock /\ MaxEthBlock \in Nat /\ Len(EthLog) \in Nat
      /\ End \in [0..MaxEthBlock -> 0..Len(EthLog)]
  BY <1>2, BridgeTypes, LogTypes, ChainAssumption, ZenonT(30)
<1>6. executed \in Seq(Body) /\ Len(executed) = Cursor /\ Cursor \in Nat
  BY <1>2, CursorTypes DEF TypeOK, ExecutedUpTo
<1>7. Len(SubSeq(executed, 1, Cursor - num)) = Cursor - num
  BY <1>4, <1>6
<1>8. CASE Announced.new
  <2>1. Cursor \in 0..Len(EthLog) /\ Cursor = End[last]
    BY <1>4, <1>5, <1>8
  <2>2. executed = SubSeq(Bodies, 1, End[last])
    BY <1>2, <1>6, <2>1, ExecutedIsPrefix
  <2>3. /\ CommittedBlock = last - 1 /\ last - 1 < MaxEthBlock /\ last - 1 + 1 = last
    BY ONLY <1>3, <1>4, <1>5, <1>8, SMTT(30)
  <2>4. Delivery!RestOfBlock
    BY <1>3, <2>2, <2>3, Zenon DEF Delivery!RestOfBlock, Delivery!HandOver, Bodies
  <2> QED
    BY <2>4 DEF Delivery!Next
<1>9. CASE ~Announced.new /\ num > 0
  <2>1. /\ last < MaxEthBlock /\ Cursor < End[last + 1] /\ End[last + 1] \in 0..Len(EthLog)
        /\ last \in Nat
    BY <1>4, <1>5, <1>9
  <2>2. Cursor \in 0..Len(EthLog)
    BY <1>5, <1>6, <2>1
  <2>3. executed = SubSeq(Bodies, 1, Cursor)
    BY <1>2, <1>6, <2>2, ExecutedIsPrefix, SMTT(30)
  <2>4. CommittedBlock = last
    BY <1>3, <1>4, <1>9, <2>1, SMTT(30)
  <2>5. Cursor \in (Len(CommittedEvents) + 1)..(End[last + 1] - 1)
    <3>1. Len(CommittedEvents) = Cursor - num
      BY <1>3, <1>7, Zenon
    <3>2. End[last + 1] \in Int
      BY <1>5, <2>1
    <3> HIDE DEF num, last
    <3> QED
      BY ONLY <1>4, <1>6, <1>9, <2>1, <3>1, <3>2
  <2>6. Delivery!HandOver(Cursor)
    BY <1>3, <2>3 DEF Delivery!HandOver, Bodies
  <2>7. Delivery!PartOfBlock
    BY <1>3, <2>1, <2>4, <2>5, <2>6, Zenon DEF Delivery!PartOfBlock
  <2> QED
    BY <2>7 DEF Delivery!Next
<1>10. CASE ~Announced.new /\ num = 0
  <2>1. CommittedBlock = last
    BY <1>3, <1>4, <1>5, <1>10
  <2>2. Cursor - num = Len(executed)
    BY <1>6, <1>10
  <2>3. SubSeq(executed, 1, Len(executed)) = executed
    BY <1>6
  <2> QED
    BY <1>3, <2>1, <2>2, <2>3 DEF Delivery!vars
<1> QED
  BY <1>4, <1>8, <1>9, <1>10

(* Every step of the chain is a step of EventDelivery, or none.            *)
LEMMA DeliveryStep ==
  ASSUME IInv, IInv', EarlierKept, [Next]_vars
  PROVE  [Delivery!Next]_(Delivery!vars)
<1>1. TypeOK /\ Cursor \in Nat /\ executed \in Seq(Body) /\ delivered \in Nat
  <2>1. TypeOK
    BY DEF IInv
  <2>2. executed \in Seq(Body) /\ proposal.txs \in Seq(Tx) /\ delivered \in 0..Len(proposal.txs)
    BY ONLY <2>1 DEF TypeOK
  <2> QED
    BY <2>1, <2>2, CursorTypes
<1>2. CASE DeliverTx /\ delivered = 0
  <2> DEFINE m == proposal.txs[1].msg
  <2>1. phase = "deliver" /\ phase' = "deliver" /\ proposal' = proposal
    BY <1>2, SMTT(30) DEF DeliverTx
  <2>2. ExecutedUpTo(Cursor) /\ m.num \in Nat /\ m.block = bridge.lastBlock + 1 /\ index = NoIndex
    BY <1>2, <2>1, Zenon DEF IInv, WellFormed, Msg
  <2>3. executed' = executed /\ Cursor' = Cursor + m.num /\ index'.found
    BY <1>2, FirstTxEffect, SMTT(30)
  <2>4. CommittedBlock = bridge.lastBlock /\ CommittedEvents = executed
    BY <2>2 DEF CommittedBlock, CommittedEvents, IsIndexed, NoIndex
  <2>5. CommittedBlock' = m.block - 1 /\ CommittedEvents' = SubSeq(executed, 1, Cursor' - m.num)
    BY <2>1, <2>3, Zenon DEF CommittedBlock, CommittedEvents, IsIndexed
  <2>6. m.block - 1 = bridge.lastBlock
    BY <1>1, <2>2, BridgeTypes
  <2>7. SubSeq(executed, 1, Cursor' - m.num) = executed
    <3>1. Cursor' - m.num = Len(executed)
      BY ONLY <1>1, <2>2, <2>3, SMTT(30) DEF ExecutedUpTo
    <3> QED
      BY ONLY <1>1, <3>1, SMTT(30)
  <2> QED
    BY <2>4, <2>5, <2>6, <2>7, ZenonT(30) DEF Delivery!vars
<1>3. CASE DeliverTx /\ delivered > 0
  <2>1. phase = "deliver" /\ phase' = "deliver" /\ proposal' = proposal
    BY <1>3 DEF DeliverTx
  <2>2. Underway
    BY <1>3, <2>1, ZenonT(30) DEF IInv
  <2>3. IsIndexed /\ Announced.num \in Nat /\ Announced.num <= Cursor
    BY <2>1, <2>2, ZenonT(30) DEF Underway, IsIndexed
  <2>4. /\ bridge' = bridge /\ index'.found
        /\ executed' = executed \/ \E body : executed' = Append(executed, body)
    BY <1>3, LaterTxEffect, SMTT(30)
  <2>5. Cursor' = Cursor /\ executed' \in Seq(Body) /\ IsIndexed'
    BY <2>1, <2>4, Zenon DEF Cursor, IInv, TypeOK, IsIndexed
  <2>6. Cursor - Announced.num \in 0..Len(executed)
    BY <1>1, <2>3 DEF EarlierKept
  <2>7. SubSeq(executed', 1, Cursor - Announced.num) = SubSeq(executed, 1, Cursor - Announced.num)
    <3> DEFINE n == Cursor - Announced.num
    <3>1. n \in 0..Len(executed) /\ executed \in Seq(Body) /\ executed' \in Seq(Body)
      BY <1>1, <2>5, <2>6
    <3>2. Len(executed') >= Len(executed) /\ \A k \in 1..Len(executed) : executed'[k] = executed[k]
      BY <1>1, <2>4
    <3> HIDE DEF n
    <3>3. /\ SubSeq(executed, 1, n) \in Seq(Body) /\ Len(SubSeq(executed, 1, n)) = n
          /\ \A k \in 1..n : SubSeq(executed, 1, n)[k] = executed[k]
      BY ONLY <3>1
    <3>4. /\ SubSeq(executed', 1, n) \in Seq(Body) /\ Len(SubSeq(executed', 1, n)) = n
          /\ \A k \in 1..n : SubSeq(executed', 1, n)[k] = executed'[k]
      BY ONLY <3>1, <3>2
    <3>5. \A k \in 1..n : SubSeq(executed', 1, n)[k] = SubSeq(executed, 1, n)[k]
      BY ONLY <3>1, <3>2, <3>3, <3>4
    <3>6. \A s, t \in Seq(Body) :
            Len(s) = Len(t) /\ (\A k \in 1..Len(s) : s[k] = t[k]) => s = t
      BY SMTT(30)
    <3>7. SubSeq(executed', 1, n) = SubSeq(executed, 1, n)
      BY <3>3, <3>4, <3>5, <3>6, ZenonT(30)
    <3> QED
      BY <3>7, Zenon DEF n
  <2> QED
    BY <2>1, <2>3, <2>4, <2>5, <2>7, Zenon
       DEF Delivery!vars, CommittedBlock, CommittedEvents, Announced
<1>4. CASE EndBlock /\ ~EndBlockOK
  BY <1>4, EndBlockUnderway, ZenonT(30)
     DEF EndBlock, Delivery!vars, CommittedBlock, CommittedEvents, IsIndexed, Cursor
<1>5. CASE ~DeliverTx /\ ~EndBlock
  BY <1>5, QuietStep, SMTT(30) DEF Delivery!vars, CommittedBlock, CommittedEvents, Cursor
<1> QED
  BY <1>1, <1>2, <1>3, <1>4, <1>5, EndBlockDelivers

(***************************************************************************)
(* Block production implements EventDelivery: whoever proposes and however *)
(* the sidecars lag, committed blocks hand over the events of Ethereum in  *)
(* order, and an Ethereum block counts as consumed exactly with its last   *)
(* event.                                                                  *)
(***************************************************************************)
THEOREM BlocksImplementDelivery == Spec => ImplementsDelivery
<1>1. Init => EarlierKept /\ Delivery!Init
  BY DEF Init, EarlierKept, IsIndexed, CommittedBlock, CommittedEvents, Delivery!Init
<1>2. IInv /\ EarlierKept /\ [Next]_vars => EarlierKept'
  BY EarlierKeptStep
<1>3. IInv /\ IInv' /\ EarlierKept /\ [Next]_vars => [Delivery!Next]_(Delivery!vars)
  BY DeliveryStep
<1>4. Spec => []EarlierKept
  BY <1>1, <1>2, Inductive, PTL DEF Spec
<1> QED
  BY <1>1, <1>3, <1>4, Inductive, PTL DEF Spec, ImplementsDelivery, Delivery!Spec

-----------------------------------------------------------------------------
(* Supply deltas                                                           *)

(* One more height is one more multiple of the period or none.             *)
LEMMA NextPeriod ==
  ASSUME NEW P \in Nat \ {0}, NEW h \in Nat, h >= 1
  PROVE  h \div P = (h - 1) \div P + (IF h % P = 0 THEN 1 ELSE 0)
OBVIOUS

PastPeriods == (height - 1) \div SupplyDeltaPeriod

(* The number of reports, also while a block is executed.                  *)
ReportsInv ==
  /\ height >= 1
  /\ phase \in {"propose", "verify"} => reports = PastPeriods
  /\ phase = "deliver" /\ delivered = 0 => reports = PastPeriods
  /\ phase = "deliver" /\ delivered > 0 =>
       reports = PastPeriods + IF delivered > Announced.num + 1 THEN SupplyDeltaCount ELSE 0

(* Every step keeps it.                                                     *)
LEMMA ReportsStep ==
  ASSUME IInv, ReportsInv, [Next]_vars
  PROVE  ReportsInv'
<1>1. TypeOK /\ delivered \in Nat /\ height \in Nat /\ reports \in Nat
        /\ phase \in {"propose", "verify", "deliver", "halted"}
  BY SMTT(30) DEF IInv, TypeOK
<1>2. SupplyDeltaPeriod \in Nat \ {0} /\ SupplyDeltaCount \in {0, 1}
  BY ParamsAssumption DEF SupplyDeltaCount
<1>3. PastPeriods \in Int
  BY <1>1, <1>2 DEF PastPeriods
<1>4. CASE DeliverTx /\ delivered = 0
  <2>1. phase = "deliver" /\ phase' = phase /\ UNCHANGED <<height, proposal>> /\ delivered' = 1
    BY ONLY <1>4, SMTT(30) DEF DeliverTx
  <2>2. reports' = reports
    BY <1>4, FirstTxEffect, SMTT(30)
  <2>3. Announced.num \in Nat
    BY <1>4, <2>1, Zenon DEF IInv, WellFormed, Msg, Announced
  <2>4. PastPeriods' = PastPeriods /\ Announced' = Announced /\ ~(delivered' > Announced.num + 1)
    BY ONLY <2>1, <2>3, SMTT(30) DEF PastPeriods, Announced
  <2> QED
    BY <1>3, <1>4, <2>1, <2>2, <2>4, SMTT(30) DEF ReportsInv
<1>5. CASE DeliverTx /\ delivered > 0
  <2>1. phase = "deliver" /\ phase' = phase /\ UNCHANGED <<height, proposal>>
          /\ delivered' = delivered + 1
    BY <1>5, SMTT(30) DEF DeliverTx
  <2>2. Announced.num \in Nat
    BY <1>5, <2>1, Zenon DEF IInv, Underway
  <2>3. /\ delivered <= Announced.num => reports' = reports
        /\ delivered = Announced.num + 1 => reports' = reports + SupplyDeltaCount
        /\ delivered > Announced.num + 1 => reports' = reports
    BY <1>5, LaterTxEffect
  <2>4. /\ PastPeriods' = PastPeriods /\ Announced' = Announced
        /\ SupplyDeltaCount' = SupplyDeltaCount
    BY <2>1 DEF PastPeriods, Announced, SupplyDeltaCount
  <2>5. reports = PastPeriods + IF delivered > Announced.num + 1 THEN SupplyDeltaCount ELSE 0
    BY <1>5, <2>1 DEF ReportsInv
  <2>6. reports' = PastPeriods
          + IF delivered + 1 > Announced.num + 1 THEN SupplyDeltaCount ELSE 0
    BY <1>1, <1>2, <1>3, <2>2, <2>3, <2>5
  <2> QED
    BY <1>1, <2>1, <2>4, <2>6, SMTT(30) DEF ReportsInv
<1>6. CASE EndBlock
  <2>1. phase = "deliver" /\ reports' = reports /\ delivered = Len(proposal.txs)
    BY <1>6 DEF EndBlock
  <2>2. Underway
    BY <1>6, EndBlockUnderway, ZenonT(30)
  <2>3. /\ Announced.num \in Nat /\ delivered >= 1 + Announced.num + SupplyDeltaCount
        /\ delivered > 0
    BY ONLY <1>1, <1>2, <2>1, <2>2, SMTT(30) DEF Underway
  <2>4. reports = PastPeriods + SupplyDeltaCount
    BY <1>1, <1>2, <1>3, <2>1, <2>3 DEF ReportsInv
  <2>5. height \div SupplyDeltaPeriod = PastPeriods + SupplyDeltaCount
    BY <1>1, <1>2, NextPeriod, Zenon
       DEF ReportsInv, PastPeriods, SupplyDeltaCount, IsMsgSupplyDeltaBlock
  <2>6. CASE EndBlockOK
    <3>1. phase' = "propose" /\ height' = height + 1
      BY <1>6, <2>6 DEF EndBlock
    <3>2. height' >= 1 /\ PastPeriods' = height \div SupplyDeltaPeriod
      BY ONLY <1>1, <3>1, SMTT(30) DEF PastPeriods
    <3> QED
      BY <2>1, <2>4, <2>5, <3>1, <3>2, ZenonT(30) DEF ReportsInv
  <2>7. CASE ~EndBlockOK
    BY <1>6, <2>7 DEF EndBlock, ReportsInv
  <2> QED
    BY <2>6, <2>7
<1>7. CASE ~DeliverTx /\ ~EndBlock
  <2>1. UNCHANGED <<height, reports>> /\ PastPeriods' = PastPeriods
    BY <1>7, QuietStep, ZenonT(30) DEF PastPeriods
  <2>2. CASE phase = "deliver"
    <3>1. phase' = "deliver" /\ delivered' = delivered /\ proposal' = proposal
      BY <1>7, <2>2, QuietStep
    <3> QED
      BY <2>1, <2>2, <3>1 DEF ReportsInv, Announced, SupplyDeltaCount
  <2>3. CASE phase \in {"propose", "verify"}
    <3>1. reports' = PastPeriods' /\ height' >= 1
      BY <2>1, <2>3 DEF ReportsInv
    <3>2. phase' = "deliver" => delivered' = 0
      BY <1>7, <2>3, QuietStep, ZenonT(30)
    <3> QED
      BY <3>1, <3>2 DEF ReportsInv
  <2>4. CASE phase = "halted"
    BY <1>7, <2>1, <2>4, QuietStep DEF ReportsInv
  <2> QED
    BY <1>1, <2>2, <2>3, <2>4
<1>8. delivered = 0 \/ delivered > 0
  BY ONLY <1>1
<1> QED
  BY <1>4, <1>5, <1>6, <1>7, <1>8, Zenon

(***************************************************************************)
(* A MsgSupplyDelta is executed at every multiple of SupplyDeltaPeriod and *)
(* at no other height, for every period.                                   *)
(***************************************************************************)
THEOREM SupplyDeltaEveryPeriod == Spec => []SupplyDeltaOncePerPeriod
<1>1. Init => ReportsInv
  <2>1. SupplyDeltaPeriod \in Nat \ {0}
    BY ParamsAssumption
  <2>2. 0 \div SupplyDeltaPeriod = 0
    BY <2>1
  <2> QED
    BY <2>2 DEF Init, ReportsInv, PastPeriods
<1>2. IInv /\ ReportsInv /\ [Next]_vars => ReportsInv'
  BY ReportsStep
<1>3. ReportsInv => SupplyDeltaOncePerPeriod
  BY ZenonT(30) DEF ReportsInv, SupplyDeltaOncePerPeriod, PastPeriods
<1> QED
  BY <1>1, <1>2, <1>3, Inductive, PTL DEF Spec

-----------------------------------------------------------------------------
(* Sequence numbers of the special transactions                            *)

(* The sequence number of the index transaction of the current block.      *)
IndexSeq ==
  IF phase = "deliver" /\ delivered > 0 THEN proposal.txs[1].seq ELSE bridge.lastSeq + 1

(***************************************************************************)
(* The special transactions of earlier blocks have smaller numbers, and    *)
(* the index handler leaves as the last number one that is no smaller than *)
(* those of the special transactions of this block.                        *)
(***************************************************************************)
SequenceInv ==
  /\ SpecialTxsAreUnique
  /\ \A i \in DOMAIN injected : injected[i].kind # "event" =>
       injected[i].seq \in Nat /\ (phase # "halted" => injected[i].seq < IndexSeq)
  /\ phase = "deliver" /\ delivered > 0 =>
       /\ proposal.txs[1].kind = "index" /\ proposal.txs[1].seq \in Nat
       /\ bridge.lastSeq = proposal.txs[1].seq + Announced.num + SupplyDeltaCount
       /\ IsMsgSupplyDeltaBlock(height) =>
            proposal.txs[Announced.num + 2].seq = proposal.txs[1].seq + 1

(* The special transactions among those that a committed block injects.    *)
LEMMA InjectedSpecials ==
  ASSUME IInv, SequenceInv, EndBlock,
         NEW n, n = 1 + Announced.num + SupplyDeltaCount,
         NEW i \in 1..n, proposal.txs[i].kind # "event"
  PROVE  /\ \/ i = 1 /\ proposal.txs[i].seq = IndexSeq
            \/ i = Announced.num + 2 /\ i # 1 /\ proposal.txs[i].seq = IndexSeq + 1
         /\ proposal.txs[i].seq <= bridge.lastSeq
         /\ IndexSeq \in Nat /\ bridge.lastSeq \in Nat
<1>1. Underway /\ TypeOK
  BY EndBlockUnderway, SMTT(30)
<1>2. phase = "deliver" /\ delivered = Len(proposal.txs)
  BY ZenonT(30) DEF EndBlock
<1>3. Announced.num \in Nat /\ SupplyDeltaCount \in {0, 1} /\ Len(proposal.txs) >= n
  BY <1>1 DEF Underway, SupplyDeltaCount
<1>4. delivered > 0
  BY <1>2, <1>3, SMTT(30)
<1>5. /\ IndexSeq = proposal.txs[1].seq /\ proposal.txs[1].seq \in Nat
      /\ bridge.lastSeq = proposal.txs[1].seq + Announced.num + SupplyDeltaCount
      /\ IsMsgSupplyDeltaBlock(height) =>
           proposal.txs[Announced.num + 2].seq = proposal.txs[1].seq + 1
  BY <1>2, <1>4, ZenonT(30) DEF SequenceInv, IndexSeq
<1>6. i = 1 \/ i = Announced.num + 2
  <2>1. ASSUME i # 1, i # Announced.num + 2 PROVE FALSE
    <3>1. i - 1 \in 1..Announced.num /\ i - 1 + 1 = i
      BY <1>3, <2>1, SMTT(30)
    <3>2. proposal.txs[i - 1 + 1].kind = "event"
      BY <1>1, <3>1, ZenonT(30) DEF Underway
    <3> QED
      BY <3>1, <3>2
  <2> QED BY <2>1
<1>7. CASE i = 1
  BY ONLY <1>3, <1>5, <1>7, SMTT(30)
<1>8. CASE i = Announced.num + 2
  <2>1. SupplyDeltaCount = 1 /\ IsMsgSupplyDeltaBlock(height)
    BY <1>3, <1>8 DEF SupplyDeltaCount
  <2> QED
    BY ONLY <1>3, <1>5, <1>8, <2>1, SMTT(30)
<1> QED
  BY <1>6, <1>7, <1>8, Zenon

(* A committed block keeps the special transactions apart.                 *)
LEMMA EndBlockSequence ==
  ASSUME IInv, SequenceInv, EndBlock, EndBlockOK
  PROVE  SequenceInv'
<1> DEFINE n == 1 + Announced.num + SupplyDeltaCount
           k == Len(injected)
<1>1. Underway /\ TypeOK
  BY EndBlockUnderway
<1>2. /\ phase = "deliver" /\ phase' = "propose" /\ bridge' = bridge
      /\ injected' = injected \o SubSeq(proposal.txs, 1, 1 + index.total)
  BY Zenon DEF EndBlock
<1>3. /\ n \in Nat /\ 1 + index.total = n /\ n <= Len(proposal.txs)
      /\ Announced.num \in Nat
  BY <1>1, SMTT(30) DEF Underway, SupplyDeltaCount
<1>4. proposal.txs \in Seq(Tx) /\ injected \in Seq(Tx) /\ k \in Nat
  BY <1>1 DEF TypeOK
<1> HIDE DEF n
<1>5. /\ SubSeq(proposal.txs, 1, n) \in Seq(Tx) /\ Len(SubSeq(proposal.txs, 1, n)) = n
      /\ \A i \in 1..n : SubSeq(proposal.txs, 1, n)[i] = proposal.txs[i]
  BY ONLY <1>3, <1>4, SMTT(30)
<1>6. /\ DOMAIN injected = 1..k /\ DOMAIN injected' = 1..(k + n)
      /\ \A i \in 1..k : injected'[i] = injected[i]
      /\ \A i \in (k + 1)..(k + n) : i - k \in 1..n /\ injected'[i] = proposal.txs[i - k]
  BY ONLY <1>2, <1>3, <1>4, <1>5, SMTT(30)
<1> HIDE DEF k
<1>7. \A i \in 1..n : proposal.txs[i].kind # "event" =>
        /\ \/ i = 1 /\ proposal.txs[i].seq = IndexSeq
           \/ i = Announced.num + 2 /\ i # 1 /\ proposal.txs[i].seq = IndexSeq + 1
        /\ proposal.txs[i].seq <= bridge.lastSeq
        /\ IndexSeq \in Nat /\ bridge.lastSeq \in Nat
  BY InjectedSpecials, ZenonT(30) DEF n
<1>8. \A i \in 1..k : injected[i].kind # "event" =>
        injected[i].seq \in Nat /\ injected[i].seq < IndexSeq
  BY <1>2, <1>6 DEF SequenceInv
<1>9. /\ IndexSeq \in Nat /\ bridge.lastSeq \in Nat /\ IndexSeq <= bridge.lastSeq
  <2>1. phase = "deliver" /\ delivered > 0
    <3>1. delivered = Len(proposal.txs) /\ 1 + Announced.num + SupplyDeltaCount <= Len(proposal.txs)
      BY <1>3 DEF EndBlock, n
    <3>2. SupplyDeltaCount \in {0, 1}
      BY ZenonT(30) DEF SupplyDeltaCount
    <3> QED
      BY ONLY <1>2, <1>3, <1>4, <3>1, <3>2
  <2>2. /\ IndexSeq = proposal.txs[1].seq /\ proposal.txs[1].seq \in Nat
        /\ bridge.lastSeq = proposal.txs[1].seq + Announced.num + SupplyDeltaCount
        /\ SupplyDeltaCount \in {0, 1}
    BY <2>1 DEF SequenceInv, IndexSeq, SupplyDeltaCount
  <2> QED
    BY <1>3, <2>2
<1>10. /\ IndexSeq' = bridge.lastSeq + 1
  BY <1>2 DEF IndexSeq
<1>11. \A i \in 1..(k + n) : i \in 1..k \/ i \in (k + 1)..(k + n)
  BY <1>3, <1>4
<1>12. \A i \in 1..k : injected[i].kind # "event" =>
         injected[i].seq \in Nat /\ injected[i].seq < IndexSeq' /\ injected[i].seq < IndexSeq
  BY ONLY <1>8, <1>9, <1>10, SMTT(30)
<1>13. \A i \in (k + 1)..(k + n) : injected'[i].kind # "event" =>
         /\ injected'[i].seq \in Nat /\ injected'[i].seq >= IndexSeq
         /\ injected'[i].seq < IndexSeq'
  BY ONLY <1>6, <1>7, <1>9, <1>10, SMTT(30)
<1>14. \A i \in DOMAIN injected' :
         injected'[i].kind # "event" => injected'[i].seq \in Nat /\ injected'[i].seq < IndexSeq'
  BY ONLY <1>6, <1>11, <1>12, <1>13
<1>15. SpecialTxsAreUnique'
  <2> SUFFICES ASSUME NEW i \in 1..(k + n), NEW j \in 1..(k + n),
                      injected'[i].kind # "event", injected'[i] = injected'[j]
               PROVE  i = j
    BY <1>6, ZenonT(30) DEF SpecialTxsAreUnique
  <2>1. CASE i \in 1..k /\ j \in 1..k
    BY <1>6, <2>1 DEF SequenceInv, SpecialTxsAreUnique
  <2>2. CASE i \in (k + 1)..(k + n) /\ j \in (k + 1)..(k + n)
    <3>1. /\ i - k \in 1..n /\ injected'[i] = proposal.txs[i - k]
          /\ j - k \in 1..n /\ injected'[j] = proposal.txs[j - k]
      BY ONLY <1>6, <2>2
    <3> DEFINE p == i - k
               q == j - k
    <3>2. /\ p \in 1..n /\ q \in 1..n
          /\ proposal.txs[p].kind # "event" /\ proposal.txs[p] = proposal.txs[q]
      BY <3>1, Zenon
    <3> HIDE DEF p, q
    <3>3. p = q
      BY ONLY <1>3, <1>7, <1>9, <3>2, SMTT(30)
    <3>4. i - k = j - k
      BY <3>3 DEF p, q
    <3> QED
      BY ONLY <1>3, <1>4, <2>2, <3>4, SMTT(30)
  <2>3. CASE i \in 1..k /\ j \in (k + 1)..(k + n)
    <3>1. injected'[i].seq < IndexSeq /\ injected'[i].seq \in Nat /\ injected'[j].seq >= IndexSeq
      BY <1>6, <1>12, <1>13, <2>3, ZenonT(30)
    <3> QED
      BY <1>9, <3>1
  <2>4. CASE j \in 1..k /\ i \in (k + 1)..(k + n)
    <3>1. injected'[j].seq < IndexSeq /\ injected'[j].seq \in Nat /\ injected'[i].seq >= IndexSeq
      BY <1>6, <1>12, <1>13, <2>4
    <3> QED
      BY <1>9, <3>1, SMTT(30)
  <2> QED
    BY <1>11, <2>1, <2>2, <2>3, <2>4, ZenonT(30)
<1> QED
  BY <1>2, <1>14, <1>15, Zenon DEF SequenceInv

(* What the delivery of a transaction leaves alone, whatever it executes.  *)
LEMMA DeliverTxFrame ==
  ASSUME DeliverTx
  PROVE  /\ phase = "deliver" /\ phase' = phase /\ UNCHANGED <<height, proposal, injected>>
         /\ delivered' = delivered + 1
<1>1. phase = "deliver" /\ delivered' = delivered + 1
  BY Zenon DEF DeliverTx
<1>2. UNCHANGED <<height, time, injected, phase, proposal, voted, accepted, nodes>>
  BY Zenon DEF DeliverTx
<1> QED
  BY <1>1, <1>2

(* The other steps of the chain do as well.                                *)
LEMMA SequenceStep ==
  ASSUME IInv, SequenceInv, [Next]_vars
  PROVE  SequenceInv'
<1>1. TypeOK /\ delivered \in Nat /\ bridge.lastSeq \in Nat
        /\ phase \in {"propose", "verify", "deliver", "halted"}
  BY BridgeTypes, SMTT(30) DEF IInv, TypeOK
<1>2. injected' = injected /\ SpecialTxsAreUnique => SpecialTxsAreUnique'
  BY ZenonT(30) DEF SpecialTxsAreUnique
<1>3. CASE DeliverTx /\ delivered = 0
  <2> DEFINE m == proposal.txs[1].msg
  <2>1. /\ phase = "deliver" /\ phase' = phase /\ UNCHANGED <<height, proposal, injected>>
        /\ delivered' = 1
    BY ONLY <1>3, DeliverTxFrame
  <2>2. /\ proposal.txs[1].kind = "index" /\ proposal.txs[1].seq = bridge.lastSeq + 1
        /\ IsMsgSupplyDeltaBlock(height) => proposal.txs[m.num + 2].seq = bridge.lastSeq + 2
        /\ m.num \in Nat /\ SupplyDeltaCount \in {0, 1}
    BY <1>3, <2>1, ZenonT(30) DEF IInv, WellFormed, Msg, SupplyDeltaCount
  <2>3. bridge'.lastSeq = bridge.lastSeq + m.num + SupplyDeltaCount + 1
    BY <1>3, FirstTxEffect, ZenonT(30)
  <2>4. IndexSeq' = IndexSeq
    <3>1. ~(0 > 0) /\ 1 > 0
      OBVIOUS
    <3> QED
      BY <1>3, <2>1, <2>2, <3>1, ZenonT(30) DEF IndexSeq
  <2>5. /\ proposal'.txs[1].kind = "index" /\ proposal'.txs[1].seq \in Nat
        /\ bridge'.lastSeq = proposal'.txs[1].seq + Announced'.num + SupplyDeltaCount'
        /\ IsMsgSupplyDeltaBlock(height)' =>
             proposal'.txs[Announced'.num + 2].seq = proposal'.txs[1].seq + 1
    BY <1>1, <2>1, <2>2, <2>3, SMTT(30) DEF Announced, SupplyDeltaCount, IsMsgSupplyDeltaBlock
  <2> QED
    BY <1>2, <2>1, <2>4, <2>5, ZenonT(30) DEF SequenceInv
<1>4. CASE DeliverTx /\ delivered > 0
  <2>1. /\ phase = "deliver" /\ phase' = phase /\ UNCHANGED <<height, proposal, injected>>
        /\ delivered' = delivered + 1 /\ delivered' > 0
    BY ONLY <1>1, <1>4, DeliverTxFrame
  <2>2. bridge' = bridge
    BY <1>4, LaterTxEffect, ZenonT(30)
  <2>3. IndexSeq' = IndexSeq
    BY <1>4, <2>1, <2>2, SMTT(30) DEF IndexSeq
  <2> QED
    BY <1>2, <1>4, <2>1, <2>2, <2>3, Zenon
       DEF SequenceInv, Announced, SupplyDeltaCount, IsMsgSupplyDeltaBlock
<1>5. CASE EndBlock /\ ~EndBlockOK
  BY <1>2, <1>5, Zenon DEF EndBlock, SequenceInv
<1>6. CASE ~DeliverTx /\ ~EndBlock
  <2>1. UNCHANGED <<height, bridge, injected>>
    BY <1>6, QuietStep, SMTT(30)
  <2>2. CASE phase = "deliver"
    <3>1. phase' = phase /\ UNCHANGED <<delivered, proposal>>
      BY <1>6, <2>2, QuietStep, ZenonT(30)
    <3> QED
      BY <1>2, <2>1, <2>2, <3>1, Zenon
         DEF SequenceInv, IndexSeq, Announced, SupplyDeltaCount, IsMsgSupplyDeltaBlock
  <2>3. CASE phase \in {"propose", "verify"}
    <3>1. phase' = "deliver" => delivered' = 0
      BY <1>6, <2>3, QuietStep, ZenonT(30)
    <3>2. IndexSeq' = IndexSeq /\ ~(phase' = "deliver" /\ delivered' > 0)
      BY <2>1, <2>3, <3>1, SMTT(30) DEF IndexSeq
    <3> QED
      BY <1>2, <2>1, <2>3, <3>2 DEF SequenceInv
  <2>4. CASE phase = "halted"
    BY <1>2, <1>6, <2>1, <2>4, QuietStep, ZenonT(30) DEF SequenceInv
  <2> QED
    BY <1>1, <2>2, <2>3, <2>4
<1>7. delivered = 0 \/ delivered > 0
  BY ONLY <1>1
<1> QED
  BY <1>3, <1>4, <1>5, <1>6, <1>7, EndBlockSequence, Zenon

(***************************************************************************)
(* No MsgIndex and no MsgSupplyDelta transaction is injected twice, for    *)
(* every period and every split of the events over blocks.                 *)
(***************************************************************************)
THEOREM SpecialTxsStayUnique == Spec => []SpecialTxsAreUnique
<1>1. Init => SequenceInv
  BY DEF Init, SequenceInv, SpecialTxsAreUnique
<1>2. IInv /\ SequenceInv /\ [Next]_vars => SequenceInv'
  BY SequenceStep, ZenonT(30)
<1>3. SequenceInv => SpecialTxsAreUnique
  BY DEF SequenceInv
<1> QED
  BY <1>1, <1>2, <1>3, Inductive, PTL DEF Spec
=============================================================================
