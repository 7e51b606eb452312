---------------------------- MODULE BridgeLedger ----------------------------
(***************************************************************************)
(* What the chain tells Ethereum: the supply deltas, the withdrawals and   *)
(* the blobs, each with the next Ethereum nonce.  The module follows the   *)
(* supply of the bridge token through the steps of a block: the begin      *)
(* blockers in the order of app/app_config.go (mint, the modules that      *)
(* burn, then the bridge), the transactions of Ethereum events,            *)
(* MsgSupplyDelta, the native transactions, the end blockers, where        *)
(* governance changes parameters, and the export of the state as a new     *)
(* genesis.                                                                *)
(*                                                                         *)
(* st is the state that a transaction may change.  A transaction runs its  *)
(* messages on a cache: saved is st at its start, and a message that fails *)
(* brings it back (baseapp's runTx).  The responses, from which the        *)
(* relayer reads, are part of st for this reason.  That MsgSupplyDelta is  *)
(* in the block exactly when it should is shown in BlockProduction.        *)
(***************************************************************************)
EXTENDS Sequencing, Sequences

CONSTANTS
  Amounts,            \* amounts of deposits and withdrawals
  Provisions,         \* amounts that the mint module mints in a block
  Burns,              \* amounts that slashing or governance burns
  Periods,            \* values of SupplyDeltaPeriod
  BlobSizes,          \* values of MaxBlobSizeBytes, and sizes of blobs
  GenesisSupply,      \* supply of the bridge token at genesis
  GenesisLastSupply,  \* LastSupply at genesis
  MaxHeight,          \* bound: blocks
  MaxResponses,       \* bound: responses to Ethereum
  MaxDeposits,        \* bound: deposits
  MaxExports          \* bound: exports of the state as a new genesis

ASSUME LedgerAssumption ==
  /\ Amounts \subseteq Nat \ {0} /\ Provisions \subseteq Nat /\ Burns \subseteq Nat
  /\ Periods \subseteq Nat \ {0} /\ BlobSizes \subseteq Nat \ {0}
  /\ GenesisSupply \in Nat /\ GenesisLastSupply \in Nat
  /\ MaxHeight \in Nat /\ MaxResponses \in Nat /\ MaxDeposits \in Nat /\ MaxExports \in Nat

NoneTopic == NoOwner   \* the topic of a response that is not a blob's

Response == [nonce : Nat, topic : Topics \cup {NoneTopic}, order : Nat,
             from : Senders \cup {NoOwner}]

State == [supply : Nat, lastSupply : Nat, offset : Int, toReport : Int, nonce : Nat,
          topics : [Topics -> Topic], responses : Seq(Response),
          reported : Int,   \* sum of the deltas in the responses
          native : Int]     \* minted less burned by modules other than the bridge

VARIABLES
  height,
  phase,     \* "begin", "events", "supplyDelta" or "txs"; "eventTx" and "tx"
             \* while the transaction of an Authorize event or a native one runs
  st, saved,
  params,    \* SupplyDeltaPeriod and MaxBlobSizeBytes
  deposits, exports   \* counts, for the bounds

vars == <<height, phase, st, saved, params, deposits, exports>>

Params == [period : Periods, blob : BlobSizes]

(* DefaultGenesis of x/bridge, with LastSupply as the genesis file has it. *)
GenesisState ==
  [supply |-> GenesisSupply, lastSupply |-> GenesisLastSupply, offset |-> 0, toReport |-> 0,
   nonce |-> 0, topics |-> NoTopics, responses |-> <<>>, reported |-> 0, native |-> 0]

Init ==
  /\ height = 1 /\ phase = "begin"
  /\ st = GenesisState /\ saved = GenesisState
  /\ params \in Params
  /\ deposits = 0 /\ exports = 0

IsMsgSupplyDeltaBlock == height % params.period = 0

-----------------------------------------------------------------------------
(* Begin blockers                                                          *)

(* The mint module's BeginBlocker.                                         *)
MintCoins(s, amount) == [s EXCEPT !.supply = @ + amount, !.native = @ + amount]

(* A burn by slashing, evidence or governance.                             *)
BurnNative(s, amount) == [s EXCEPT !.supply = @ - amount, !.native = @ - amount]

(* Mutant: the offset is kept for the next report.                         *)
UpdateSupplyDeltaInfoWithNewDeltaKeepOffset(s) ==
  [s EXCEPT !.toReport = s.supply - s.lastSupply + s.offset, !.lastSupply = s.supply]

UpdateSupplyDeltaInfoWithNewDelta(s) ==
  [s EXCEPT !.toReport = s.supply - s.lastSupply + s.offset,
            !.lastSupply = s.supply,
            !.offset = 0]

BeginBlock(minted, burned) ==
  LET s == BurnNative(MintCoins(st, minted), burned)
  IN /\ phase = "begin" /\ height <= MaxHeight
     /\ burned <= st.supply + minted
     /\ IF IsMsgSupplyDeltaBlock
        THEN st' = UpdateSupplyDeltaInfoWithNewDelta(s)
        ELSE st' = s
     /\ phase' = "events"
     /\ UNCHANGED <<height, saved, params, deposits, exports>>

-----------------------------------------------------------------------------
(* Messages                                                                *)

Respond(s, topic, order, from) ==
  [s EXCEPT !.nonce = @ + 1,
            !.responses = Append(@, [nonce |-> s.nonce + 1, topic |-> topic,
                                     order |-> order, from |-> from])]

supplyDelta(s) ==
  [Respond(s, NoneTopic, 0, NoOwner) EXCEPT !.reported = @ + s.toReport, !.toReport = 0]

(***************************************************************************)
(* A deposit mints for its receiver or for governance, and takes the       *)
(* amount from the offset: Ethereum knows about it.                        *)
(***************************************************************************)
processDepositEvent(s, amount) ==
  [s EXCEPT !.supply = @ + amount, !.offset = @ - amount]

DepositFromEthereum(amount) ==
  /\ phase = "events" /\ deposits < MaxDeposits
  /\ st' = processDepositEvent(st, amount)
  /\ deposits' = deposits + 1
  /\ UNCHANGED <<height, phase, saved, params, exports>>

(* MsgSupplyDelta follows the last event.                                  *)
EventsDone ==
  /\ phase = "events"
  /\ phase' = IF IsMsgSupplyDeltaBlock THEN "supplyDelta" ELSE "txs"
  /\ UNCHANGED <<height, st, saved, params, deposits, exports>>

SupplyDelta ==
  /\ phase = "supplyDelta"
  /\ IsMsgSupplyDeltaBlock
  /\ st' = supplyDelta(st)
  /\ phase' = "txs"
  /\ UNCHANGED <<height, saved, params, deposits, exports>>

InTx == phase \in {"eventTx", "tx"}

AfterTx == IF phase = "eventTx" THEN "events" ELSE "txs"

(* A transaction starts: that of an Authorize event, or a native one.      *)
BeginTx ==
  /\ phase \in {"events", "txs"}
  /\ phase' = IF phase = "events" THEN "eventTx" ELSE "tx"
  /\ saved' = st
  /\ UNCHANGED <<height, st, params, deposits, exports>>

(* The end of a transaction in which no message failed.                    *)
CommitTx ==
  /\ InTx
  /\ phase' = AfterTx /\ saved' = st
  /\ UNCHANGED <<height, st, params, deposits, exports>>

(* A message fails: nothing of its transaction is kept.                    *)
Rollback == phase' = AfterTx /\ st' = saved

(***************************************************************************)
(* WithdrawToEthereum burns the amount and adds it to the offset.  The     *)
(* burn fails when the sender does not have the amount; the message fails  *)
(* for another denomination too.                                           *)
(***************************************************************************)
withdrawToEthereum(s, amount) ==
  Respond([s EXCEPT !.supply = @ - amount, !.offset = @ + amount], NoneTopic, 0, NoOwner)

(* Mutant: burns more than there is.                                       *)
WithdrawToEthereumUnchecked(amount) ==
  /\ InTx /\ Len(st.responses) < MaxResponses
  /\ st' = withdrawToEthereum(st, amount)
  /\ UNCHANGED <<height, phase, saved, params, deposits, exports>>

WithdrawToEthereum(amount) ==
  /\ InTx /\ Len(st.responses) < MaxResponses
  /\ \/ /\ amount <= st.supply
        /\ st' = withdrawToEthereum(st, amount)
        /\ UNCHANGED phase
     \/ Rollback
  /\ UNCHANGED <<height, saved, params, deposits, exports>>

postBlob(s, msg) ==
  Respond([s EXCEPT !.topics = SetTopic(s.topics, msg)], msg.topic, msg.order, msg.from)

PostBlob(msg) ==
  /\ InTx /\ Len(st.responses) < MaxResponses
  /\ IF AcceptsBlob(st.topics, msg, params.blob)
     THEN st' = postBlob(st, msg) /\ UNCHANGED phase
     ELSE Rollback
  /\ UNCHANGED <<height, saved, params, deposits, exports>>

-----------------------------------------------------------------------------
(* End of the block and export                                             *)

(* The end blockers: governance may burn a deposit and update parameters.  *)
EndBlock(burned, p) ==
  /\ phase = "txs"
  /\ burned <= st.supply
  /\ st' = BurnNative(st, burned) /\ saved' = st'
  /\ params' = p
  /\ phase' = "begin" /\ height' = height + 1
  /\ UNCHANGED <<deposits, exports>>

(* Mutant: the nonce is not in the genesis.                                *)
ExportGenesisNoNonce(s) == [s EXCEPT !.nonce = 0]

(* What the modules' ExportGenesis write and their InitGenesis read again; *)
(* responses, reported and native are not the chain's own state.           *)
ExportGenesis(s) ==
  [supply |-> s.supply, lastSupply |-> s.lastSupply, offset |-> s.offset,
   toReport |-> s.toReport, nonce |-> s.nonce, topics |-> s.topics,
   responses |-> s.responses, reported |-> s.reported, native |-> s.native]

(* The chain starts again from an exported state, at its first height or   *)
(* at the height after the last block.                                     *)
InitGenesis ==
  /\ phase = "begin" /\ height > 1 /\ exports < MaxExports
  /\ st' = ExportGenesis(st) /\ saved' = st'
  /\ height' \in {1, height} /\ exports' = exports + 1
  /\ UNCHANGED <<phase, params, deposits>>

(* Blobs with the next order of their topic, the last one and a later one. *)
BlobsFor(topics) ==
  {m \in [from : Senders, topic : Topics, order : 0..MaxResponses, size : BlobSizes] :
     m.order \in topics[m.topic].order..(topics[m.topic].order + 2)}

(* The bound on the height is met.                                         *)
Finished == phase = "begin" /\ height > MaxHeight /\ UNCHANGED vars

Next ==
  \/ \E minted \in Provisions, burned \in Burns : BeginBlock(minted, burned)
  \/ \E amount \in Amounts : DepositFromEthereum(amount)
  \/ EventsDone
  \/ SupplyDelta
  \/ BeginTx
  \/ CommitTx
  \/ \E amount \in Amounts : WithdrawToEthereum(amount)
  \/ \E msg \in BlobsFor(st.topics) : PostBlob(msg)
  \/ \E burned \in Burns, p \in Params : EndBlock(burned, p)
  \/ InitGenesis
  \/ Finished

Spec == Init /\ [][Next]_vars

-----------------------------------------------------------------------------
(* Properties                                                              *)

(* Every variable holds a value of its type.                               *)
TypeOK ==
  /\ height \in Nat /\ phase \in {"begin", "events", "eventTx", "supplyDelta", "txs", "tx"}
  /\ st \in State /\ saved \in State
  /\ params \in Params
  /\ deposits \in Nat /\ exports \in Nat

(* Supply changes that have not been computed for a report yet.            *)
Pending(s) == s.supply - s.lastSupply + s.offset

GenesisDifference == GenesisSupply - GenesisLastSupply

AddsUp(s) == s.reported + s.toReport + Pending(s) = s.native + GenesisDifference

Numbered(s) ==
  /\ s.nonce = Len(s.responses)
  /\ \A i \in DOMAIN s.responses : s.responses[i].nonce = i

(* The responses with topic t are a log of one sender, up to the topic's   *)
(* current order.                                                          *)
OneLog(s, t) ==
  /\ \A i, j \in DOMAIN s.responses :
       i < j /\ s.responses[i].topic = t /\ s.responses[j].topic = t =>
         /\ s.responses[i].order < s.responses[j].order
         /\ s.responses[i].from = s.responses[j].from
  /\ HasTopic(s.topics, t) =>
       \A o \in 0..s.topics[t].order :
         \E i \in DOMAIN s.responses :
           s.responses[i].topic = t /\ s.responses[i].order = o

(***************************************************************************)
(* The deltas reported to Ethereum, with the one being reported and what   *)
(* is pending, add up to what the other modules minted less what they      *)
(* burned: no deposit and no withdrawal is ever counted, none of the       *)
(* minted tokens is left out or reported twice, however deposits,          *)
(* withdrawals, failed transactions, changes of the period and exports are *)
(* interleaved (UpdateSupplyDeltaInfoWithNewDelta, supplyDelta).           *)
(***************************************************************************)
ReportsAddUp == AddsUp(st)

(***************************************************************************)
(* The responses that reach Ethereum are numbered 1, 2, 3... without a gap *)
(* and without a repetition, whichever module made them and whatever       *)
(* failed in between.                                                      *)
(***************************************************************************)
NoncesAreConsecutive == Numbered(st)

(***************************************************************************)
(* The blobs of a topic have one sender, their orders increase, and no     *)
(* order up to the topic's current one is missing (PostBlob).              *)
(***************************************************************************)
TopicsAreLogs == \A t \in Topics : OneLog(st, t)
=============================================================================
