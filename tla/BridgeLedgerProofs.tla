------------------------- MODULE BridgeLedgerProofs -------------------------
(***************************************************************************)
(* Proofs about BridgeLedger, for any senders, topics, amounts, periods    *)
(* and bounds.  The properties hold of the state that a transaction        *)
(* changes only if they also hold of the one that it would bring back, so  *)
(* the inductive invariant says them of both.                              *)
(***************************************************************************)
EXTENDS BridgeLedger, TLAPS

(* Every blob among the responses belongs to a topic of the store, was     *)
(* sent by its owner and has an order that the topic has reached.          *)
Owned(s) ==
  \A i \in DOMAIN s.responses :
    s.responses[i].topic \in Topics =>
      /\ HasTopic(s.topics, s.responses[i].topic)
      /\ s.responses[i].from = s.topics[s.responses[i].topic].owner
      /\ s.responses[i].order <= s.topics[s.responses[i].topic].order

Sound(s) ==
  /\ s \in State
  /\ AddsUp(s) /\ Numbered(s) /\ Owned(s) /\ \A t \in Topics : OneLog(s, t)

(* Nothing is left to report outside the steps between BeginBlock and      *)
(* MsgSupplyDelta, so that the next BeginBlock overwrites nothing.         *)
Reporting == IsMsgSupplyDeltaBlock /\ phase \in {"events", "eventTx", "supplyDelta"}

IInv ==
  /\ TypeOK
  /\ Sound(st) /\ Sound(saved)
  /\ Reporting \/ st.toReport = 0
  /\ InTx => Reporting \/ saved.toReport = 0

-----------------------------------------------------------------------------
(* The fields of a state have their types.                                 *)
LEMMA Fields ==
  ASSUME NEW s \in State
  PROVE  /\ s.supply \in Nat /\ s.lastSupply \in Nat /\ s.offset \in Int
         /\ s.toReport \in Int /\ s.nonce \in Nat /\ s.topics \in [Topics -> Topic]
         /\ s.responses \in Seq(Response) /\ s.reported \in Int /\ s.native \in Int
BY DEF State

(* The difference at genesis is a number.                                  *)
LEMMA GenesisDifferenceType == GenesisDifference \in Int
BY LedgerAssumption DEF GenesisDifference

(* Replacing supply by a value of its type gives a state.                  *)
LEMMA SetSupplyState ==
  ASSUME NEW s \in State, NEW v \in Nat
  PROVE  [s EXCEPT !.supply = v] \in State
BY ZenonT(30) DEF State

(* Replacing lastSupply by a value of its type gives a state.              *)
LEMMA SetLastSupplyState ==
  ASSUME NEW s \in State, NEW v \in Nat
  PROVE  [s EXCEPT !.lastSupply = v] \in State
BY ONLY SMTT(30) DEF State

(* Replacing offset by a value of its type gives a state.                  *)
LEMMA SetOffsetState ==
  ASSUME NEW s \in State, NEW v \in Int
  PROVE  [s EXCEPT !.offset = v] \in State
BY ZenonT(30) DEF State

(* Replacing toReport by a value of its type gives a state.                *)
LEMMA SetToReportState ==
  ASSUME NEW s \in State, NEW v \in Int
  PROVE  [s EXCEPT !.toReport = v] \in State
BY ZenonT(30) DEF State

(* Replacing nonce by a value of its type gives a state.                   *)
LEMMA SetNonceState ==
  ASSUME NEW s \in State, NEW v \in Nat
  PROVE  [s EXCEPT !.nonce = v] \in State
BY ZenonT(30) DEF State

(* Replacing topics by a value of its type gives a state.                  *)
LEMMA SetTopicsState ==
  ASSUME NEW s \in State, NEW v \in [Topics -> Topic]
  PROVE  [s EXCEPT !.topics = v] \in State
BY ZenonT(30) DEF State

(* Replacing responses by a value of its type gives a state.               *)
LEMMA SetResponsesState ==
  ASSUME NEW s \in State, NEW v \in Seq(Response)
  PROVE  [s EXCEPT !.responses = v] \in State
BY ZenonT(30) DEF State

(* Replacing reported by a value of its type gives a state.                *)
LEMMA SetReportedState ==
  ASSUME NEW s \in State, NEW v \in Int
  PROVE  [s EXCEPT !.reported = v] \in State
BY ZenonT(30) DEF State

(* Replacing native by a value of its type gives a state.                  *)
LEMMA SetNativeState ==
  ASSUME NEW s \in State, NEW v \in Int
  PROVE  [s EXCEPT !.native = v] \in State
BY ZenonT(30) DEF State

(* The genesis state is sound.                                             *)
LEMMA GenesisSound == Sound(GenesisState) /\ GenesisState.toReport = 0
<1> USE LedgerAssumption, TopicAssumption DEF GenesisState
<1>1. NoTopics \in [Topics -> Topic]
  BY DEF NoTopics, NoTopic, Topic
<1>2. GenesisState \in State
  BY <1>1 DEF State
<1>3. AddsUp(GenesisState)
  BY DEF AddsUp, Pending, GenesisDifference
<1>4. Numbered(GenesisState) /\ Owned(GenesisState)
  BY DEF Numbered, Owned
<1>5. ASSUME NEW t \in Topics PROVE OneLog(GenesisState, t)
  BY <1>5 DEF OneLog, HasTopic, NoTopics, NoTopic
<1> QED
  BY <1>2, <1>3, <1>4, <1>5 DEF Sound

(* A change of amounts alone (mint, burn, deposit, BeginBlock's update of  *)
(* the supply delta) keeps numbers and topics as they are.                 *)
LEMMA AmountsOnly ==
  ASSUME NEW s, Sound(s), NEW r \in State, AddsUp(r),
         r.nonce = s.nonce, r.topics = s.topics, r.responses = s.responses
  PROVE  Sound(r)
<1>1. Numbered(r) /\ Owned(r)
  BY DEF Sound, Numbered, Owned
<1>2. ASSUME NEW t \in Topics PROVE OneLog(r, t)
  BY <1>2 DEF Sound, OneLog
<1> QED
  BY <1>1, <1>2 DEF Sound

(* Minting keeps a state sound.                                            *)
LEMMA MintSound ==
  ASSUME NEW s, Sound(s), NEW m \in Nat,
         NEW r, r = MintCoins(s, m)
  PROVE  Sound(r) /\ r.toReport = s.toReport /\ r.supply = s.supply + m
<1>1. s \in State /\ AddsUp(s)
  BY DEF Sound
<1>2. /\ r.supply = s.supply + m /\ r.lastSupply = s.lastSupply
      /\ r.offset = s.offset /\ r.toReport = s.toReport /\ r.reported = s.reported
      /\ r.native = s.native + m
  BY <1>1 DEF State, MintCoins
<1>3. r.nonce = s.nonce /\ r.topics = s.topics /\ r.responses = s.responses
  BY <1>1 DEF State, MintCoins
<1>4. r \in State
  <2> DEFINE x1 == [s EXCEPT !.supply = s.supply + m]
  <2> DEFINE x2 == [x1 EXCEPT !.native = s.native + m]
  <2>1. s.supply + m \in Nat /\ s.native + m \in Int
    BY <1>1, Fields
  <2>2. x1 \in State
    BY <1>1, <2>1, SetSupplyState
  <2>3. x2 \in State
    BY <2>2, <2>1, SetNativeState, Zenon
  <2>9. r = x2
    BY DEF MintCoins
  <2> QED
    BY <2>3, <2>9
<1>5. /\ s.supply \in Nat /\ s.lastSupply \in Nat /\ s.offset \in Int
      /\ s.toReport \in Int /\ s.reported \in Int /\ s.native \in Int
  BY <1>1, Fields
<1>6. AddsUp(r)
  <2>1. Pending(s) \in Int /\ Pending(r) = Pending(s) + m
    BY <1>2, <1>5 DEF Pending
  <2>2. s.reported + s.toReport + Pending(s) = s.native + GenesisDifference
    BY <1>1 DEF AddsUp
  <2>3. s.reported + s.toReport + (Pending(s) + m) = (s.native + m) + GenesisDifference
    BY <1>5, <2>1, <2>2, GenesisDifferenceType
  <2> QED
    BY <1>2, <2>1, <2>3 DEF AddsUp
<1> QED
  BY <1>2, <1>3, <1>4, <1>6, AmountsOnly

(* A burn by another module keeps a state sound.                           *)
LEMMA BurnSound ==
  ASSUME NEW s, Sound(s), NEW b \in Nat, b <= s.supply,
         NEW r, r = BurnNative(s, b)
  PROVE  Sound(r) /\ r.toReport = s.toReport
<1>1. s \in State /\ AddsUp(s)
  BY DEF Sound
<1>2. /\ r.supply = s.supply - b /\ r.lastSupply = s.lastSupply
      /\ r.offset = s.offset /\ r.toReport = s.toReport /\ r.reported = s.reported
      /\ r.native = s.native - b
  BY <1>1 DEF State, BurnNative
<1>3. r.nonce = s.nonce /\ r.topics = s.topics /\ r.responses = s.responses
  BY <1>1 DEF State, BurnNative
<1>4. r \in State
  <2> DEFINE x1 == [s EXCEPT !.supply = s.supply - b]
  <2> DEFINE x2 == [x1 EXCEPT !.native = s.native - b]
  <2>1. s.supply - b \in Nat /\ s.native - b \in Int
    BY <1>1, Fields
  <2>2. x1 \in State
    BY <1>1, <2>1, SetSupplyState
  <2>3. x2 \in State
    BY <2>2, <2>1, SetNativeState, Zenon
  <2>9. r = x2
    BY DEF BurnNative
  <2> QED
    BY <2>3, <2>9
<1>5. /\ s.supply \in Nat /\ s.lastSupply \in Nat /\ s.offset \in Int
      /\ s.toReport \in Int /\ s.reported \in Int /\ s.native \in Int
  BY <1>1, Fields
<1>6. AddsUp(r)
  BY <1>1, <1>2, <1>5, GenesisDifferenceType DEF AddsUp, Pending
<1> QED
  BY <1>2, <1>3, <1>4, <1>6, AmountsOnly

(* BeginBlock of x/bridge moves what is pending to the report; it loses    *)
(* nothing because there was nothing left to report.                       *)
LEMMA UpdateSound ==
  ASSUME NEW s, Sound(s), s.toReport = 0,
         NEW r, r = UpdateSupplyDeltaInfoWithNewDelta(s)
  PROVE  Sound(r)
<1>1. s \in State /\ AddsUp(s)
  BY DEF Sound
<1>2. /\ r.supply = s.supply /\ r.lastSupply = s.supply /\ r.offset = 0
      /\ r.toReport = s.supply - s.lastSupply + s.offset /\ r.reported = s.reported
      /\ r.native = s.native
  BY <1>1 DEF State, UpdateSupplyDeltaInfoWithNewDelta
<1>3. r.nonce = s.nonce /\ r.topics = s.topics /\ r.responses = s.responses
  BY <1>1 DEF State, UpdateSupplyDeltaInfoWithNewDelta
<1>4. r \in State
  <2> DEFINE x1 == [s EXCEPT !.toReport = s.supply - s.lastSupply + s.offset]
  <2> DEFINE x2 == [x1 EXCEPT !.lastSupply = s.supply]
  <2> DEFINE x3 == [x2 EXCEPT !.offset = 0]
  <2>1. s.supply - s.lastSupply + s.offset \in Int /\ s.supply \in Nat /\ 0 \in Int
    BY <1>1, Fields
  <2>2. x1 \in State
    BY <1>1, <2>1, SetToReportState
  <2>3. x2 \in State
    BY <2>2, <2>1, SetLastSupplyState, Zenon
  <2>4. x3 \in State
    BY <2>3, <2>1, SetOffsetState, Zenon
  <2>9. r = x3
    BY DEF UpdateSupplyDeltaInfoWithNewDelta
  <2> QED
    BY <2>4, <2>9
<1>5. /\ s.supply \in Nat /\ s.lastSupply \in Nat /\ s.offset \in Int
      /\ s.toReport \in Int /\ s.reported \in Int /\ s.native \in Int
  BY <1>1, Fields
<1>6. AddsUp(r)
  BY <1>1, <1>2, <1>5, GenesisDifferenceType DEF AddsUp, Pending
<1> QED
  BY <1>2, <1>3, <1>4, <1>6, AmountsOnly

(* A deposit adds to the supply what it takes from the offset.             *)
LEMMA DepositSound ==
  ASSUME NEW s, Sound(s), NEW a \in Nat,
         NEW r, r = processDepositEvent(s, a)
  PROVE  Sound(r) /\ r.toReport = s.toReport
<1>1. s \in State /\ AddsUp(s)
  BY DEF Sound
<1>2. /\ r.supply = s.supply + a /\ r.lastSupply = s.lastSupply
      /\ r.offset = s.offset - a /\ r.toReport = s.toReport
      /\ r.reported = s.reported /\ r.native = s.native
  BY <1>1 DEF State, processDepositEvent
<1>3. r.nonce = s.nonce /\ r.topics = s.topics /\ r.responses = s.responses
  BY <1>1 DEF State, processDepositEvent
<1>4. r \in State
  <2> DEFINE x1 == [s EXCEPT !.supply = s.supply + a]
  <2> DEFINE x2 == [x1 EXCEPT !.offset = s.offset - a]
  <2>1. s.supply + a \in Nat /\ s.offset - a \in Int
    BY <1>1, Fields
  <2>2. x1 \in State
    BY <1>1, <2>1, SetSupplyState
  <2>3. x2 \in State
    BY <2>2, <2>1, SetOffsetState, Zenon
  <2>9. r = x2
    BY DEF processDepositEvent
  <2> QED
    BY <2>3, <2>9
<1>5. /\ s.supply \in Nat /\ s.lastSupply \in Nat /\ s.offset \in Int
      /\ s.toReport \in Int /\ s.reported \in Int /\ s.native \in Int
  BY <1>1, Fields
<1>6. AddsUp(r)
  BY <1>1, <1>2, <1>5, GenesisDifferenceType DEF AddsUp, Pending
<1> QED
  BY <1>2, <1>3, <1>4, <1>6, AmountsOnly

-----------------------------------------------------------------------------
(* Responses                                                               *)

(* A response takes the next nonce; the responses stay numbered.           *)
LEMMA RespondShape ==
  ASSUME NEW s \in State, Numbered(s),
         NEW t \in Topics \cup {NoneTopic}, NEW o \in Nat, NEW f \in Senders \cup {NoOwner},
         NEW r, r = Respond(s, t, o, f)
  PROVE  /\ r \in State /\ Numbered(r)
         /\ r.responses = Append(s.responses, [nonce |-> s.nonce + 1, topic |-> t,
                                               order |-> o, from |-> f])
         /\ r.supply = s.supply /\ r.lastSupply = s.lastSupply /\ r.offset = s.offset
         /\ r.toReport = s.toReport /\ r.reported = s.reported /\ r.native = s.native
         /\ r.topics = s.topics
<1> DEFINE e == [nonce |-> s.nonce + 1, topic |-> t, order |-> o, from |-> f]
           x1 == [s EXCEPT !.nonce = s.nonce + 1]
           x2 == [x1 EXCEPT !.responses = Append(s.responses, e)]
<1>1. e \in Response
  BY Fields DEF Response
<1>2. s.nonce + 1 \in Nat /\ Append(s.responses, e) \in Seq(Response)
  BY <1>1, Fields
<1>3. x1 \in State
  BY <1>2, SetNonceState
<1>4. x2 \in State
  BY <1>2, <1>3, SetResponsesState, Zenon
<1>5. r = x2
  BY DEF Respond
<1>6. /\ r.nonce = s.nonce + 1 /\ r.responses = Append(s.responses, e)
      /\ r.topics = s.topics
  BY DEF State, Respond
<1>7. /\ r.supply = s.supply /\ r.lastSupply = s.lastSupply /\ r.offset = s.offset
      /\ r.toReport = s.toReport /\ r.reported = s.reported /\ r.native = s.native
  BY DEF State, Respond
<1>8. Numbered(r)
  <2>1. s.nonce = Len(s.responses) /\ s.responses \in Seq(Response)
    BY Fields DEF Numbered
  <2>2. e.nonce = s.nonce + 1
    OBVIOUS
  <2> HIDE DEF e
  <2>3. /\ Len(r.responses) = Len(s.responses) + 1
        /\ DOMAIN r.responses = 1..(Len(s.responses) + 1)
        /\ \A i \in 1..Len(s.responses) : r.responses[i] = s.responses[i]
        /\ r.responses[Len(s.responses) + 1] = e
    BY <1>1, <1>6, <2>1
  <2>4. \A i \in 1..Len(s.responses) : s.responses[i].nonce = i
    BY <2>1 DEF Numbered
  <2> QED
    BY <1>6, <2>1, <2>2, <2>3, <2>4 DEF Numbered
<1> QED
  BY <1>4, <1>5, <1>6, <1>7, <1>8

(* What the list of responses looks like after one more.                   *)
LEMMA AppendShape ==
  ASSUME NEW s \in State, NEW e \in Response, NEW q, q = Append(s.responses, e),
         NEW n, n = Len(s.responses)
  PROVE  /\ n \in Nat /\ DOMAIN s.responses = 1..n /\ DOMAIN q = 1..(n + 1)
         /\ \A i \in 1..n : q[i] = s.responses[i] /\ s.responses[i] \in Response
         /\ q[n + 1] = e
BY Fields

(* A response without a topic changes no topic's log.                      *)
LEMMA NoBlobSound ==
  ASSUME NEW s, Sound(s), NEW r, r.topics = s.topics,
         NEW e \in Response, e.topic = NoneTopic, r.responses = Append(s.responses, e)
  PROVE  Owned(r) /\ \A t \in Topics : OneLog(r, t)
<1> DEFINE n == Len(s.responses)
<1>1. s \in State /\ Owned(s)
  BY DEF Sound
<1>2. /\ n \in Nat /\ DOMAIN s.responses = 1..n /\ DOMAIN r.responses = 1..(n + 1)
      /\ \A i \in 1..n : r.responses[i] = s.responses[i]
      /\ r.responses[n + 1] = e
  BY <1>1, AppendShape
<1> HIDE DEF n
<1>3. e.topic \notin Topics
  BY TopicAssumption DEF NoneTopic
<1>4. \A i \in DOMAIN r.responses : r.responses[i].topic \in Topics =>
        i \in DOMAIN s.responses /\ r.responses[i] = s.responses[i]
  BY <1>2, <1>3
<1>5. Owned(r)
  BY <1>1, <1>4 DEF Owned
<1>6. ASSUME NEW t \in Topics PROVE OneLog(r, t)
  <2>1. OneLog(s, t)
    BY DEF Sound
  <2>2. ASSUME NEW i \in DOMAIN r.responses, NEW j \in DOMAIN r.responses, i < j,
               r.responses[i].topic = t, r.responses[j].topic = t
        PROVE  /\ r.responses[i].order < r.responses[j].order
               /\ r.responses[i].from = r.responses[j].from
    BY <1>4, <2>1, <2>2 DEF OneLog
  <2>3. ASSUME HasTopic(r.topics, t), NEW o \in 0..r.topics[t].order
        PROVE  \E i \in DOMAIN r.responses :
                 r.responses[i].topic = t /\ r.responses[i].order = o
    <3>1. PICK i \in DOMAIN s.responses :
                 s.responses[i].topic = t /\ s.responses[i].order = o
      BY <2>1, <2>3 DEF OneLog
    <3> QED
      BY <1>2, <3>1
  <2> QED
    BY <2>2, <2>3 DEF OneLog
<1> QED
  BY <1>5, <1>6

(***************************************************************************)
(* A blob that PostBlob accepts is the next entry of its topic's log and   *)
(* leaves the other topics' logs alone.                                    *)
(***************************************************************************)
LEMMA BlobSound ==
  ASSUME NEW s, Sound(s), NEW t \in Topics, NEW f \in Senders, NEW o \in Nat,
         HasTopic(s.topics, t) => s.topics[t].owner = f /\ o = s.topics[t].order + 1,
         ~HasTopic(s.topics, t) => o = 0,
         NEW r, r.topics = [s.topics EXCEPT ![t] = [owner |-> f, order |-> o]],
         NEW e \in Response, e.topic = t, e.order = o, e.from = f,
         r.responses = Append(s.responses, e)
  PROVE  Owned(r) /\ \A u \in Topics : OneLog(r, u)
<1> DEFINE n == Len(s.responses)
<1>1. s \in State /\ Owned(s) /\ s.topics \in [Topics -> Topic]
  BY Fields DEF Sound
<1>2. s.responses \in Seq(Response)
  BY <1>1, Fields
<1>3. /\ n \in Nat /\ DOMAIN s.responses = 1..n /\ DOMAIN r.responses = 1..(n + 1)
      /\ \A i \in 1..n : r.responses[i] = s.responses[i] /\ s.responses[i] \in Response
      /\ r.responses[n + 1] = e
  BY <1>2
<1> HIDE DEF n
<1>4. /\ r.topics[t].owner = f /\ r.topics[t].order = o
      /\ \A u \in Topics : u # t => r.topics[u] = s.topics[u]
  BY <1>1
<1>5. f # NoOwner /\ HasTopic(r.topics, t)
  BY <1>4, TopicAssumption DEF HasTopic
<1>6. \A u \in Topics : s.topics[u].order \in Nat
  BY <1>1 DEF Topic
<1>7. \A i \in 1..n : s.responses[i].topic = t =>
        HasTopic(s.topics, t) /\ s.responses[i].from = f /\ s.responses[i].order < o
  <2> SUFFICES ASSUME NEW i \in 1..n, s.responses[i].topic = t
               PROVE  /\ HasTopic(s.topics, t) /\ s.responses[i].from = f
                      /\ s.responses[i].order < o
    OBVIOUS
  <2>1. /\ HasTopic(s.topics, t) /\ s.responses[i].from = s.topics[t].owner
        /\ s.responses[i].order <= s.topics[t].order
    BY <1>1, <1>3, SMTT(30) DEF Owned
  <2>2. s.responses[i].order \in Nat /\ s.topics[t].order \in Nat
    BY <1>3, <1>6 DEF Response
  <2>3. s.topics[t].owner = f /\ o = s.topics[t].order + 1
    BY <2>1
  <2> QED
    BY <2>1, <2>2, <2>3
<1>8. Owned(r)
  <2> SUFFICES ASSUME NEW i \in 1..(n + 1), r.responses[i].topic \in Topics
               PROVE  /\ HasTopic(r.topics, r.responses[i].topic)
                      /\ r.responses[i].from = r.topics[r.responses[i].topic].owner
                      /\ r.responses[i].order <= r.topics[r.responses[i].topic].order
    BY <1>3, SMTT(30) DEF Owned
  <2>1. CASE i = n + 1
    BY <1>3, <1>4, <1>5, <2>1
  <2>2. CASE i \in 1..n /\ r.responses[i].topic = t
    BY <1>3, <1>4, <1>5, <1>7, <2>2 DEF Response
  <2>3. CASE i \in 1..n /\ r.responses[i].topic # t
    BY <1>1, <1>3, <1>4, <2>3 DEF Owned, HasTopic
  <2> QED
    BY <1>3, <2>1, <2>2, <2>3
<1>9. ASSUME NEW u \in Topics PROVE OneLog(r, u)
  <2>1. OneLog(s, u)
    BY DEF Sound
  <2>2. ASSUME NEW i \in 1..(n + 1), NEW j \in 1..(n + 1), i < j,
               r.responses[i].topic = u, r.responses[j].topic = u
        PROVE  /\ r.responses[i].order < r.responses[j].order
               /\ r.responses[i].from = r.responses[j].from
    <3>1. i \in 1..n
      BY <1>3, <2>2
    <3>2. CASE j = n + 1
      BY <1>3, <1>7, <2>2, <3>1, <3>2
    <3>3. CASE j \in 1..n
      BY ONLY <1>3, <2>1, <2>2, <3>1, <3>3, SMTT(30) DEF OneLog
    <3> QED
      BY <1>3, <3>2, <3>3
  <2>3. ASSUME HasTopic(r.topics, u), NEW x \in 0..r.topics[u].order
        PROVE  \E i \in 1..(n + 1) : r.responses[i].topic = u /\ r.responses[i].order = x
    <3>1. CASE u = t /\ x = o
      BY <1>3, <3>1
    <3>2. CASE HasTopic(s.topics, u) /\ x \in 0..s.topics[u].order
      <4>1. PICK i \in 1..n : s.responses[i].topic = u /\ s.responses[i].order = x
        BY <1>3, <2>1, <3>2 DEF OneLog
      <4> QED
        BY <1>3, <4>1
    <3>3. u = t /\ x # o => HasTopic(s.topics, u) /\ x \in 0..s.topics[u].order
      BY <1>4, <1>6, <2>3
    <3>4. u # t => HasTopic(s.topics, u) /\ x \in 0..s.topics[u].order
      BY <1>4, <2>3 DEF HasTopic
    <3> QED
      BY <3>1, <3>2, <3>3, <3>4, Zenon
  <2> QED
    BY <1>3, <2>2, <2>3, ZenonT(30) DEF OneLog
<1> QED
  BY <1>8, <1>9

(* MsgSupplyDelta moves the amount to report to the amounts reported.      *)
LEMMA SupplyDeltaSound ==
  ASSUME NEW s, Sound(s), NEW r, r = supplyDelta(s)
  PROVE  Sound(r) /\ r.toReport = 0
<1> DEFINE x == Respond(s, NoneTopic, 0, NoOwner)
           e == [nonce |-> s.nonce + 1, topic |-> NoneTopic, order |-> 0, from |-> NoOwner]
           y1 == [x EXCEPT !.reported = x.reported + s.toReport]
           y2 == [y1 EXCEPT !.toReport = 0]
<1>1. s \in State /\ AddsUp(s) /\ Numbered(s)
  BY DEF Sound
<1>2. /\ s.supply \in Nat /\ s.lastSupply \in Nat /\ s.offset \in Int
      /\ s.toReport \in Int /\ s.reported \in Int /\ s.native \in Int /\ s.nonce \in Nat
  BY <1>1, Fields
<1>3. /\ x \in State /\ Numbered(x) /\ x.responses = Append(s.responses, e)
      /\ x.supply = s.supply /\ x.lastSupply = s.lastSupply /\ x.offset = s.offset
      /\ x.toReport = s.toReport /\ x.reported = s.reported /\ x.native = s.native
      /\ x.topics = s.topics
  BY <1>1, RespondShape
<1>4. e \in Response /\ e.topic = NoneTopic
  BY <1>2 DEF Response
<1> HIDE DEF x, e
<1>5. r = y2
  BY DEF supplyDelta, x
<1>6. x.reported + s.toReport \in Int
  BY <1>2, <1>3
<1>7. y1 \in State
  BY <1>3, <1>6, SetReportedState
<1>8. y2 \in State
  <2> HIDE DEF y1
  <2> QED
    BY <1>7, SetToReportState
<1>9. /\ r.supply = s.supply /\ r.lastSupply = s.lastSupply /\ r.offset = s.offset
      /\ r.native = s.native /\ r.reported = s.reported + s.toReport /\ r.toReport = 0
  BY <1>3, <1>5 DEF State
<1>10. r.nonce = x.nonce /\ r.topics = s.topics /\ r.responses = Append(s.responses, e)
  BY <1>3, <1>5 DEF State
<1>11. AddsUp(r)
  BY <1>1, <1>2, <1>9, GenesisDifferenceType DEF AddsUp, Pending
<1>12. Numbered(r)
  BY <1>3, <1>10 DEF Numbered
<1>13. Owned(r) /\ \A t \in Topics : OneLog(r, t)
  BY <1>4, <1>10, NoBlobSound
<1> QED
  BY <1>5, <1>8, <1>9, <1>11, <1>12, <1>13 DEF Sound

(* A withdrawal takes from the supply what it adds to the offset.          *)
LEMMA WithdrawSound ==
  ASSUME NEW s, Sound(s), NEW a \in Nat, a <= s.supply, NEW r, r = withdrawToEthereum(s, a)
  PROVE  Sound(r) /\ r.toReport = s.toReport
<1> DEFINE y1 == [s EXCEPT !.supply = s.supply - a]
           y2 == [y1 EXCEPT !.offset = s.offset + a]
           e == [nonce |-> y2.nonce + 1, topic |-> NoneTopic, order |-> 0, from |-> NoOwner]
<1>1. s \in State /\ AddsUp(s) /\ Numbered(s)
  BY DEF Sound
<1>2. /\ s.supply \in Nat /\ s.lastSupply \in Nat /\ s.offset \in Int
      /\ s.toReport \in Int /\ s.reported \in Int /\ s.native \in Int
  BY <1>1, Fields
<1>3. s.supply - a \in Nat /\ s.offset + a \in Int
  BY <1>2
<1>4. y1 \in State
  BY <1>1, <1>3, SetSupplyState
<1>5. y2 \in State
  BY <1>3, <1>4, SetOffsetState, Zenon
<1>6. /\ y2.supply = s.supply - a /\ y2.lastSupply = s.lastSupply
      /\ y2.offset = s.offset + a /\ y2.toReport = s.toReport
      /\ y2.reported = s.reported /\ y2.native = s.native
  BY <1>1 DEF State
<1>7. y2.nonce = s.nonce /\ y2.topics = s.topics /\ y2.responses = s.responses
  BY <1>1 DEF State
<1>8. Numbered(y2)
  BY <1>1, <1>7 DEF Numbered
<1>9. r = Respond(y2, NoneTopic, 0, NoOwner)
  BY DEF withdrawToEthereum
<1>10. e \in Response /\ e.topic = NoneTopic
  <2> HIDE DEF y2
  <2>1. y2.nonce + 1 \in Nat
    BY <1>5, Fields
  <2> QED
    BY <2>1 DEF Response
<1> HIDE DEF y2
<1>11. /\ r \in State /\ Numbered(r) /\ r.responses = Append(y2.responses, e)
       /\ r.supply = y2.supply /\ r.lastSupply = y2.lastSupply /\ r.offset = y2.offset
       /\ r.toReport = y2.toReport /\ r.reported = y2.reported /\ r.native = y2.native
       /\ r.topics = y2.topics
  BY <1>5, <1>8, <1>9, RespondShape
<1> HIDE DEF e
<1>12. AddsUp(r)
  BY ONLY <1>1, <1>2, <1>6, <1>11, GenesisDifferenceType, SMTT(30) DEF AddsUp, Pending
<1>13. Owned(r) /\ \A t \in Topics : OneLog(r, t)
  BY <1>7, <1>10, <1>11, NoBlobSound
<1> QED
  BY <1>6, <1>11, <1>12, <1>13 DEF Sound

(* An accepted blob changes no amount.                                     *)
LEMMA PostBlobSound ==
  ASSUME NEW s, Sound(s), NEW m, m.from \in Senders, m.topic \in Topics, m.order \in Nat,
         NEW max, AcceptsBlob(s.topics, m, max), NEW r, r = postBlob(s, m)
  PROVE  Sound(r) /\ r.toReport = s.toReport
<1> DEFINE y == [s EXCEPT !.topics = SetTopic(s.topics, m)]
           e == [nonce |-> y.nonce + 1, topic |-> m.topic, order |-> m.order, from |-> m.from]
<1>1. s \in State /\ AddsUp(s) /\ Numbered(s) /\ s.topics \in [Topics -> Topic]
  BY Fields DEF Sound
<1>2. SetTopic(s.topics, m) \in [Topics -> Topic]
  BY <1>1 DEF SetTopic, Topic
<1>3. y \in State
  BY <1>1, <1>2, SetTopicsState
<1>4. /\ y.supply = s.supply /\ y.lastSupply = s.lastSupply /\ y.offset = s.offset
      /\ y.toReport = s.toReport /\ y.reported = s.reported /\ y.native = s.native
  BY <1>1 DEF State
<1>5. /\ y.nonce = s.nonce /\ y.responses = s.responses
      /\ y.topics = [s.topics EXCEPT ![m.topic] = [owner |-> m.from, order |-> m.order]]
  BY <1>1 DEF State, SetTopic
<1>6. Numbered(y)
  BY <1>1, <1>5 DEF Numbered
<1>7. r = Respond(y, m.topic, m.order, m.from)
  BY DEF postBlob
<1>8. e \in Response /\ e.topic = m.topic /\ e.order = m.order /\ e.from = m.from
  <2> HIDE DEF y
  <2>1. y.nonce + 1 \in Nat
    BY <1>3, Fields
  <2> QED
    BY <2>1 DEF Response
<1> HIDE DEF y
<1>9. /\ r \in State /\ Numbered(r) /\ r.responses = Append(y.responses, e)
      /\ r.supply = y.supply /\ r.lastSupply = y.lastSupply /\ r.offset = y.offset
      /\ r.toReport = y.toReport /\ r.reported = y.reported /\ r.native = y.native
      /\ r.topics = y.topics
  BY <1>3, <1>6, <1>7, RespondShape
<1> HIDE DEF e
<1>10. AddsUp(r)
  BY <1>1, <1>4, <1>9 DEF AddsUp, Pending
<1>11. /\ HasTopic(s.topics, m.topic) =>
            s.topics[m.topic].owner = m.from /\ m.order = s.topics[m.topic].order + 1
       /\ ~HasTopic(s.topics, m.topic) => m.order = 0
  BY DEF AcceptsBlob
<1>12. Owned(r) /\ \A t \in Topics : OneLog(r, t)
  BY <1>5, <1>8, <1>9, <1>11, BlobSound, SMTT(30)
<1> QED
  BY <1>4, <1>9, <1>10, <1>12 DEF Sound

(* An exported state is the state that is imported: every field of the     *)
(* state is in the genesis.                                                *)
LEMMA ExportSame ==
  ASSUME NEW s \in State
  PROVE  ExportGenesis(s) = s
BY DEF State, ExportGenesis

-----------------------------------------------------------------------------
(* The chain starts in the invariant.                                      *)
LEMMA InitIInv == Init => IInv
<1> SUFFICES ASSUME Init PROVE IInv
  OBVIOUS
<1>1. Sound(st) /\ Sound(saved) /\ st.toReport = 0 /\ saved.toReport = 0
  BY GenesisSound DEF Init
<1>2. TypeOK
  BY <1>1 DEF Init, TypeOK, Sound
<1> QED
  BY <1>1, <1>2 DEF IInv

(* Mint, the burns and, in the last block of a period, the new delta.      *)
LEMMA BeginBlockIInv ==
  ASSUME IInv, NEW minted \in Provisions, NEW burned \in Burns, BeginBlock(minted, burned)
  PROVE  IInv'
<1> DEFINE x == MintCoins(st, minted)
           y == BurnNative(x, burned)
<1>1. minted \in Nat /\ burned \in Nat
  BY LedgerAssumption
<1>2. Sound(st) /\ st.toReport = 0 /\ st \in State
  BY DEF IInv, Reporting, BeginBlock, Sound
<1>3. Sound(x) /\ x.toReport = st.toReport /\ x.supply = st.supply + minted
  BY <1>1, <1>2, MintSound, ZenonT(30)
<1>4. burned <= x.supply
  BY <1>3 DEF BeginBlock
<1> HIDE DEF x
<1>5. Sound(y) /\ y.toReport = 0
  BY <1>1, <1>2, <1>3, <1>4, BurnSound
<1>6. /\ \/ IsMsgSupplyDeltaBlock /\ st' = UpdateSupplyDeltaInfoWithNewDelta(y)
         \/ st' = y
      /\ phase' = "events"
  BY DEF BeginBlock, x
<1> HIDE DEF y
<1>7. Sound(st')
  BY <1>5, <1>6, UpdateSound
<1>8. UNCHANGED <<height, saved, params, deposits, exports>>
  BY DEF BeginBlock
<1>9. Reporting' \/ st'.toReport = 0
  BY <1>5, <1>6, <1>8 DEF Reporting, IsMsgSupplyDeltaBlock
<1>10. TypeOK'
  BY <1>6, <1>7, <1>8 DEF IInv, TypeOK, Sound
<1> QED
  BY <1>6, <1>7, <1>8, <1>9, <1>10 DEF IInv, InTx

(* MsgSupplyDelta reports all there is to report.                          *)
LEMMA SupplyDeltaIInv ==
  ASSUME IInv, SupplyDelta
  PROVE  IInv'
<1>1. Sound(st') /\ st'.toReport = 0
  BY SupplyDeltaSound DEF IInv, SupplyDelta
<1>2. phase' = "txs" /\ UNCHANGED <<height, saved, params, deposits, exports>>
  BY DEF SupplyDelta
<1>3. TypeOK'
  BY <1>1, <1>2 DEF IInv, TypeOK, Sound
<1> QED
  BY <1>1, <1>2, <1>3 DEF IInv, InTx

(* A step within a phase that leaves the amount to report alone.           *)
LEMMA SamePhaseIInv ==
  ASSUME IInv, Sound(st'), st'.toReport = st.toReport, deposits' \in Nat,
         UNCHANGED <<height, phase, saved, params, exports>>
  PROVE  IInv'
<1>1. TypeOK'
  BY DEF IInv, TypeOK, Sound
<1>2. Reporting' = Reporting /\ InTx' = InTx
  BY DEF Reporting, InTx, IsMsgSupplyDeltaBlock
<1> QED
  BY <1>1, <1>2 DEF IInv

(* A deposit is not counted.                                               *)
LEMMA DepositIInv ==
  ASSUME IInv, NEW amount \in Amounts, DepositFromEthereum(amount)
  PROVE  IInv'
<1>1. amount \in Nat /\ deposits \in Nat
  BY LedgerAssumption DEF IInv, TypeOK
<1>2. Sound(st') /\ st'.toReport = st.toReport
  BY <1>1, DepositSound DEF IInv, DepositFromEthereum
<1> QED
  BY <1>1, <1>2, SamePhaseIInv DEF DepositFromEthereum

(* The events end, and transactions start and end, without a change of st. *)
LEMMA BoundaryIInv ==
  ASSUME IInv, EventsDone \/ BeginTx \/ CommitTx
  PROVE  IInv'
<1>1. /\ saved' \in {st, saved} /\ phase' \in {"events", "eventTx", "supplyDelta", "txs", "tx"}
      /\ UNCHANGED <<height, st, params, deposits, exports>>
  BY DEF EventsDone, BeginTx, CommitTx, AfterTx
<1>2. Sound(st') /\ Sound(saved')
  BY <1>1 DEF IInv
<1>3. Reporting => Reporting' \/ st.toReport = 0
  BY <1>1 DEF EventsDone, BeginTx, CommitTx, AfterTx, InTx, Reporting, IsMsgSupplyDeltaBlock
<1>4. InTx' => saved' = st
  BY DEF EventsDone, BeginTx, CommitTx, AfterTx, InTx
<1>5. TypeOK'
  BY <1>1, <1>2 DEF IInv, TypeOK, Sound
<1> QED
  BY <1>1, <1>2, <1>3, <1>4, <1>5 DEF IInv

(* A failed message brings back a sound state.                             *)
LEMMA RollbackIInv ==
  ASSUME IInv, InTx, Rollback, UNCHANGED <<height, saved, params, deposits, exports>>
  PROVE  IInv'
<1>1. Sound(st') /\ st' = saved /\ phase' \in {"events", "txs"}
  BY DEF IInv, Rollback, AfterTx
<1>2. Reporting => Reporting'
  BY DEF InTx, Rollback, AfterTx, Reporting, IsMsgSupplyDeltaBlock
<1>3. TypeOK'
  BY <1>1 DEF IInv, TypeOK, Sound
<1> QED
  BY <1>1, <1>2, <1>3 DEF IInv, InTx

(* A withdrawal burns no more than there is, or fails.                     *)
LEMMA WithdrawIInv ==
  ASSUME IInv, NEW amount \in Amounts, WithdrawToEthereum(amount)
  PROVE  IInv'
<1>1. amount \in Nat /\ deposits \in Nat
  BY LedgerAssumption DEF IInv, TypeOK
<1>2. InTx /\ UNCHANGED <<height, saved, params, deposits, exports>>
  BY DEF WithdrawToEthereum
<1>3. CASE amount <= st.supply /\ st' = withdrawToEthereum(st, amount) /\ UNCHANGED phase
  <2>1. Sound(st') /\ st'.toReport = st.toReport
    BY <1>1, <1>3, WithdrawSound DEF IInv
  <2> QED
    BY <1>1, <1>2, <1>3, <2>1, SamePhaseIInv
<1>4. CASE Rollback
  BY <1>2, <1>4, RollbackIInv
<1> QED
  BY <1>3, <1>4 DEF WithdrawToEthereum

(* A blob is accepted or fails.                                            *)
LEMMA PostBlobIInv ==
  ASSUME IInv, NEW msg \in BlobsFor(st.topics), PostBlob(msg)
  PROVE  IInv'
<1>1. msg.from \in Senders /\ msg.topic \in Topics /\ msg.order \in Nat
  BY DEF BlobsFor
<1>2. /\ InTx /\ deposits \in Nat
      /\ UNCHANGED <<height, saved, params, deposits, exports>>
  BY DEF PostBlob, IInv, TypeOK
<1>3. CASE /\ AcceptsBlob(st.topics, msg, params.blob)
           /\ st' = postBlob(st, msg) /\ UNCHANGED phase
  <2>1. Sound(st') /\ st'.toReport = st.toReport
    BY <1>1, <1>3, PostBlobSound DEF IInv
  <2> QED
    BY <1>2, <1>3, <2>1, SamePhaseIInv
<1>4. CASE Rollback
  BY <1>2, <1>4, RollbackIInv
<1> QED
  BY <1>3, <1>4 DEF PostBlob

(* The end blockers only burn, and the export changes nothing.             *)
LEMMA EndBlockIInv ==
  ASSUME IInv, NEW burned \in Burns, NEW p \in Params, EndBlock(burned, p)
  PROVE  IInv'
<1>1. burned \in Nat
  BY LedgerAssumption
<1>2. Sound(st) /\ st.toReport = 0 /\ burned <= st.supply /\ st' = BurnNative(st, burned)
  BY DEF IInv, Reporting, EndBlock
<1>3. Sound(st') /\ st'.toReport = 0
  BY <1>1, <1>2, BurnSound
<1>4. /\ saved' = st' /\ params' = p /\ phase' = "begin"
      /\ height' = height + 1 /\ UNCHANGED <<deposits, exports>>
  BY DEF EndBlock
<1>5. st' \in State /\ st'.native \in Int
  BY <1>3, Fields DEF Sound
<1>6. TypeOK'
  BY <1>4, <1>5 DEF IInv, TypeOK
<1>7. Sound(saved') /\ saved'.toReport = 0
  BY <1>3, <1>4
<1> QED
  BY <1>3, <1>6, <1>7 DEF IInv

(* A chain that starts from an exported state starts in the invariant.     *)
LEMMA InitGenesisIInv ==
  ASSUME IInv, InitGenesis
  PROVE  IInv'
<1>1. Sound(st) /\ st.toReport = 0 /\ st \in State
  BY DEF IInv, Reporting, InitGenesis, Sound
<1>2. st' = st /\ saved' = st
  BY <1>1, ExportSame DEF InitGenesis
<1>3. /\ height' \in {1, height} /\ exports' = exports + 1
      /\ UNCHANGED <<phase, params, deposits>>
  BY DEF InitGenesis
<1>4. TypeOK'
  BY <1>1, <1>2, <1>3 DEF IInv, TypeOK
<1>5. Sound(st') /\ Sound(saved') /\ st'.toReport = 0 /\ saved'.toReport = 0
  BY <1>1, <1>2
<1> QED
  BY <1>4, <1>5 DEF IInv

(* Every step keeps the invariant.                                         *)
LEMMA NextIInv == IInv /\ [Next]_vars => IInv'
<1> SUFFICES ASSUME IInv, [Next]_vars PROVE IInv'
  OBVIOUS
<1>1. CASE \E minted \in Provisions, burned \in Burns : BeginBlock(minted, burned)
  BY <1>1, BeginBlockIInv
<1>2. CASE SupplyDelta
  BY <1>2, SupplyDeltaIInv
<1>3. CASE \E amount \in Amounts : DepositFromEthereum(amount)
  BY <1>3, DepositIInv
<1>4. CASE EventsDone \/ BeginTx \/ CommitTx
  BY <1>4, BoundaryIInv
<1>5. CASE \E amount \in Amounts : WithdrawToEthereum(amount)
  BY <1>5, WithdrawIInv
<1>6. CASE \E msg \in BlobsFor(st.topics) : PostBlob(msg)
  BY <1>6, PostBlobIInv
<1>7. CASE \E burned \in Burns, p \in Params : EndBlock(burned, p)
  BY <1>7, EndBlockIInv
<1>8. CASE InitGenesis
  BY <1>8, InitGenesisIInv
<1>9. CASE UNCHANGED vars
  BY <1>9 DEF vars, IInv, TypeOK, Reporting, InTx, IsMsgSupplyDeltaBlock
<1> QED
  BY <1>1, <1>2, <1>3, <1>4, <1>5, <1>6, <1>7, <1>8, <1>9 DEF Next, Finished

(* The invariant holds of every behaviour.                                 *)
LEMMA Inductive == Spec => []IInv
BY InitIInv, NextIInv, PTL DEF Spec

-----------------------------------------------------------------------------
(* Every variable of the ledger has its type: in particular the supply is  *)
(* never negative, whatever deposits, withdrawals and burns do.            *)
THEOREM TypeCorrect == Spec => []TypeOK
<1>1. IInv => TypeOK
  BY DEF IInv
<1> QED
  BY <1>1, Inductive, PTL

(* The supply deltas reported to Ethereum add up, for all amounts, periods *)
(* and interleavings (UpdateSupplyDeltaInfoWithNewDelta, supplyDelta).     *)
THEOREM ReportsAlwaysAddUp == Spec => []ReportsAddUp
<1>1. IInv => ReportsAddUp
  BY DEF IInv, Sound, ReportsAddUp
<1> QED
  BY <1>1, Inductive, PTL

(* The responses to Ethereum are numbered without gap or repetition        *)
(* (MustGetNextEthereumNonceAndIncrement in every handler that responds).  *)
THEOREM NoncesAlwaysConsecutive == Spec => []NoncesAreConsecutive
<1>1. IInv => NoncesAreConsecutive
  BY DEF IInv, Sound, NoncesAreConsecutive
<1> QED
  BY <1>1, Inductive, PTL

(* The blobs of a topic are a log of its owner, without gaps (PostBlob).   *)
THEOREM TopicsAlwaysLogs == Spec => []TopicsAreLogs
<1>1. IInv => TopicsAreLogs
  BY DEF IInv, Sound, TopicsAreLogs
<1> QED
  BY <1>1, Inductive, PTL
=============================================================================
