--------------------------- MODULE BlockProduction ---------------------------
(***************************************************************************)
(* Production of the blocks of the Sequencer, and the synchronisation with *)
(* Ethereum that rides on it: PrepareProposal of the proposer,             *)
(* ProcessProposal of every validator, and the execution of a decided      *)
(* block (ante handler, message handlers, EndBlock of x/bridge).           *)
(*                                                                         *)
(* The application state is replicated, so it appears once.  What differs  *)
(* from node to node is the sidecar: sidecar[v] is the last Ethereum block *)
(* that the sidecar of v has events for, and down is the set of validators *)
(* whose sidecar does not answer.  CometBFT is external: a proposal is     *)
(* decided when a quorum accepts it, and otherwise another round starts.   *)
(*                                                                         *)
(* EthLog is the list of the bridge contract's events in the order of      *)
(* Ethereum, and End[b] the number of them up to and including block b.    *)
(***************************************************************************)
EXTENDS ProposalHandler

CONSTANTS
  Honest,        \* validators that follow the code
  Faulty,        \* validators that propose anything and accept anything
  Quorums,       \* sets of validators with more than 2/3 of the power
  MaxEthBlock,   \* bound: last Ethereum block
  EthLog,        \* events of the bridge contract
  End,
  Panicking,     \* payloads of deposits for which processDepositEvent panics
  Mempools,      \* lists of native transactions CometBFT may hand over
  BlockIntervals,\* time between two blocks
  GenesisUpdateTimes, \* values of updateTime the chain may start with
  MaxOutages,    \* bound: how often a sidecar stops answering
  MaxHeight,     \* bound: last height that is decided
  MaxArbitrary   \* bound: events in a proposal of a faulty validator

(***************************************************************************)
(* What passed CheckTx: a signed transaction, which none of the injected   *)
(* kinds is, that is not empty and has gas for its own ante handler.       *)
(***************************************************************************)
IsChecked(tx) == tx.kind = "native" /\ tx.size > 0 /\ tx.gas > 0

ASSUME ChainAssumption ==
  /\ Honest \cap Faulty = {}
  /\ \A Q \in Quorums : Q \cap Honest # {}
  /\ MaxEthBlock \in Nat
  /\ EthLog \in Seq(Event)
  /\ End \in [0..MaxEthBlock -> 0..Len(EthLog)]
  /\ End[0] = 0
  /\ \A b \in 1..MaxEthBlock : End[b - 1] <= End[b]
  /\ Mempools \subseteq Seq(Tx)
  /\ \A m \in Mempools : \A i \in DOMAIN m : IsChecked(m[i])
  /\ BlockIntervals \subseteq Nat
  /\ GenesisUpdateTimes \subseteq {NotFound, 0}
  /\ MaxOutages \in Nat /\ MaxHeight \in Nat /\ MaxArbitrary \in Nat

VARIABLES
  height,     \* height of the block that is being decided or executed
  time,       \* time of the last committed block
  bridge,     \* committed and pending values of x/bridge: lastBlock, offset,
              \* updateTime and lastSeq
  index,      \* x/bridge Index, present only while a block is executed
  phase,      \* "propose", "verify", "deliver" or "halted"
  proposal,   \* proposed or decided block: transactions, time, and what its
              \* proposer learnt from its sidecar
  voted,      \* honest validators that ran ProcessProposal in this round
  accepted,   \* those that accepted
  delivered,  \* number of transactions of the decided block executed
  sidecar, down, outages,
  executed,   \* history: bodies of the event transactions executed
  reports,    \* history: number of MsgSupplyDelta executed
  injected    \* history: the injected transactions of the committed blocks

chain == <<height, time, bridge, index, executed, reports, injected>>
round == <<phase, proposal, voted, accepted, delivered>>
nodes == <<sidecar, down, outages>>
vars  == <<chain, round, nodes>>

NoIndex == [found |-> FALSE, total |-> 0, ante |-> 0, failed |-> 0]

NoProposal ==
  [txs |-> <<>>, time |-> 0, honest |-> FALSE, response |-> SidecarError, mempool |-> <<>>]

Init ==
  /\ height = 1
  /\ time = 0
  /\ bridge \in [lastBlock : {0}, offset : {0}, updateTime : GenesisUpdateTimes, lastSeq : {0}]
  /\ index = NoIndex
  /\ phase = "propose" /\ proposal = NoProposal
  /\ voted = {} /\ accepted = {} /\ delivered = 0
  /\ sidecar = [v \in Honest |-> 0] /\ down = {} /\ outages = 0
  /\ executed = <<>> /\ reports = 0 /\ injected = <<>>

-----------------------------------------------------------------------------
(* Sidecars, as the proposal handlers see them                             *)

BlockEvents(b) == [i \in 1..(End[b] - End[b - 1]) |-> EthLog[End[b - 1] + i]]

GetBlockEvents(v, b) ==
  IF v \notin down /\ b <= sidecar[v] THEN SidecarAnswer(BlockEvents(b))
  ELSE SidecarError

SidecarSync(v) ==
  /\ sidecar[v] < MaxEthBlock
  /\ sidecar' = [sidecar EXCEPT ![v] = @ + 1]
  /\ UNCHANGED <<chain, round, down, outages>>

SidecarDown(v) ==
  /\ v \notin down /\ outages < MaxOutages
  /\ down' = down \cup {v} /\ outages' = outages + 1
  /\ UNCHANGED <<chain, round, sidecar>>

SidecarUp(v) ==
  /\ v \in down
  /\ down' = down \ {v}
  /\ UNCHANGED <<chain, round, sidecar, outages>>

(* The position in EthLog that LastEthereumBlockSynced and                 *)
(* EthereumEventIndexOffset stand for.                                     *)
Cursor == End[bridge.lastBlock] + bridge.offset

-----------------------------------------------------------------------------
(* One round of consensus                                                  *)

Propose(txs, t, honest, response, mempool) ==
  /\ phase = "propose" /\ height <= MaxHeight
  /\ txs \in Seq(Tx)
  /\ phase' = "verify"
  /\ proposal' = [txs |-> txs, time |-> t, honest |-> honest, response |-> response,
                  mempool |-> mempool]
  /\ UNCHANGED <<chain, voted, accepted, delivered, nodes>>

(* A validator that follows the code proposes what PrepareProposal returns. *)
PrepareBlock(v) ==
  LET response == GetBlockEvents(v, bridge.lastBlock + 1)
  IN \E mempool \in Mempools, dt \in BlockIntervals :
       Propose(PrepareProposal(bridge, height, mempool, response),
               time + dt, TRUE, response, mempool)

(***************************************************************************)
(* Another validator builds its list of transactions in its own way: it is *)
(* made of an index transaction, a slice of the Ethereum log that starts   *)
(* near the cursor, with sequence numbers that start at several places,    *)
(* maybe a MsgSupplyDelta, and native transactions.  Lists that            *)
(* ProcessProposal rejects whatever the sidecar answers change nothing and *)
(* are left out.                                                           *)
(***************************************************************************)
ArbitraryIndexTxs ==
  {IndexTx([num |-> n, new |-> w, block |-> b], s) :
     n \in 0..MaxArbitrary, w \in BOOLEAN,
     b \in bridge.lastBlock..(bridge.lastBlock + 2),
     s \in bridge.lastSeq..(bridge.lastSeq + 1)}

ArbitraryEventTxs ==
  UNION {{[i \in 1..n |-> EventTx(EventBody(EthLog[p + i]), bridge.lastSeq + s + i)] :
            n \in 0..Min({MaxArbitrary, Len(EthLog) - p})} :
         p \in (0..Len(EthLog)) \cap ((Cursor - 1)..(Cursor + 1)),
         s \in {1, 2, bridge.offset + 1, bridge.offset + 2}}

ArbitraryTails ==
  {d \o m : d \in {<<>>, <<DeltaTx(bridge.lastSeq + 1)>>, <<DeltaTx(bridge.lastSeq + 2)>>},
            m \in Mempools}

ProposeArbitrary ==
  /\ phase = "propose" /\ Faulty # {}
  /\ \E dt \in BlockIntervals, tx \in ArbitraryIndexTxs, evs \in ArbitraryEventTxs,
        tail \in ArbitraryTails :
       LET txs == <<tx>> \o evs \o tail
       IN /\ \E r \in {SidecarError} \cup
                   {SidecarAnswer(BlockEvents(b)) :
                      b \in {bridge.lastBlock + 1} \cap 1..MaxEthBlock} :
               ProcessProposal(bridge, height, time + dt, txs, r)
          /\ Propose(txs, time + dt, FALSE, SidecarError, <<>>)

(* A validator verifies the proposal against its own sidecar.              *)
VerifyBlock(v) ==
  /\ phase = "verify" /\ v \notin voted
  /\ voted' = voted \cup {v}
  /\ accepted' = IF ProcessProposal(bridge, height, proposal.time, proposal.txs,
                                    GetBlockEvents(v, bridge.lastBlock + 1))
                 THEN accepted \cup {v} ELSE accepted
  /\ UNCHANGED <<chain, phase, proposal, delivered, nodes>>

IsDecided == \E Q \in Quorums : Q \subseteq accepted \cup Faulty

Decide ==
  /\ phase = "verify" /\ IsDecided
  /\ phase' = "deliver"
  /\ voted' = {} /\ accepted' = {} /\ delivered' = 0
  /\ UNCHANGED <<chain, proposal, nodes>>

NextRound ==
  /\ phase = "verify" /\ voted = Honest /\ ~IsDecided
  /\ phase' = "propose" /\ proposal' = NoProposal
  /\ voted' = {} /\ accepted' = {}
  /\ UNCHANGED <<chain, delivered, nodes>>

-----------------------------------------------------------------------------
(* Execution of the decided block                                          *)

(***************************************************************************)
(* The ante handler: before the Index exists it lets the transaction pass, *)
(* and after it the first index.total transactions are the injected ones.  *)
(***************************************************************************)
IsInjected == ~index.found \/ index.ante < index.total

(* Mutant: counts down.                                                    *)
AnteHandleDown == [index EXCEPT !.ante = IF index.found THEN @ - 1 ELSE @]

AnteHandle == [index EXCEPT !.ante = IF index.found THEN @ + 1 ELSE @]

(* A special message that fails leaves only a mark in the Index.           *)
FailSpecial(idx) == [idx EXCEPT !.found = TRUE, !.failed = @ + 1]

SupplyDeltaCount == IF IsMsgSupplyDeltaBlock(height) THEN 1 ELSE 0

(* Mutant: counts the transactions after the index transaction only.       *)
IndexAfterSameSeq(m) ==
  [bridge EXCEPT
     !.lastBlock  = IF IsFullEthereumSyncing(m) THEN m.block ELSE @,
     !.offset     = IF IsFullEthereumSyncing(m) THEN 0 ELSE @ + m.num,
     !.updateTime = IF NoEthereumSyncing(m) THEN @ ELSE proposal.time,
     !.lastSeq    = @ + m.num + SupplyDeltaCount]

(* The message handler of MsgIndex.                                        *)
IndexAfter(m) ==
  [bridge EXCEPT
     !.lastBlock  = IF IsFullEthereumSyncing(m) THEN m.block ELSE @,
     !.offset     = IF IsFullEthereumSyncing(m) THEN 0 ELSE @ + m.num,
     !.updateTime = IF NoEthereumSyncing(m) THEN @ ELSE proposal.time,
     !.lastSeq    = @ + m.num + SupplyDeltaCount + 1]

Index(m) ==
  /\ IF /\ ValidateBeforeProcessing(m, bridge.lastBlock, bridge.offset)
        /\ ~AnteHandle.found
     THEN /\ index' = [found |-> TRUE, total |-> m.num + SupplyDeltaCount,
                       ante |-> 0, failed |-> 0]
          /\ bridge' = IndexAfter(m)
     ELSE /\ index' = FailSpecial(AnteHandle)
          /\ bridge' = bridge
  /\ UNCHANGED <<executed, reports>>

(***************************************************************************)
(* A deposit that panics counts as a failed special message.  The messages *)
(* of an Authorize transaction may fail, which is recorded nowhere.        *)
(***************************************************************************)
ExecEvent(body) ==
  /\ IF body.type = "deposit" /\ body.payload \in Panicking
     THEN index' = FailSpecial(AnteHandle) /\ executed' = executed
     ELSE index' = AnteHandle /\ executed' = Append(executed, body)
  /\ UNCHANGED <<bridge, reports>>

SupplyDelta ==
  /\ IF IsMsgSupplyDeltaBlock(height)
     THEN index' = AnteHandle /\ reports' = reports + 1
     ELSE index' = FailSpecial(AnteHandle) /\ reports' = reports
  /\ UNCHANGED <<bridge, executed>>

ExecNative == index' = AnteHandle /\ UNCHANGED <<bridge, executed, reports>>

(***************************************************************************)
(* One transaction.  One that is not among the injected ones meets the     *)
(* signature check of the other ante decorators, which no injected         *)
(* transaction passes; what a native transaction then does is outside this *)
(* module.                                                                 *)
(***************************************************************************)
DeliverTx ==
  /\ phase = "deliver" /\ delivered < Len(proposal.txs)
  /\ LET tx == proposal.txs[delivered + 1]
     IN IF ~IsInjected THEN UNCHANGED <<index, bridge, executed, reports>>
        ELSE \/ tx.kind = "index"  /\ Index(tx.msg)
             \/ tx.kind = "event"  /\ ExecEvent(tx.body)
             \/ tx.kind = "delta"  /\ SupplyDelta
             \/ tx.kind = "native" /\ ExecNative
  /\ delivered' = delivered + 1
  /\ UNCHANGED <<height, time, injected, phase, proposal, voted, accepted, nodes>>

(* EndBlock of x/bridge: an error stops the chain.                         *)
EndBlockOK == index.found /\ index.ante = index.total /\ index.failed = 0

EndBlock ==
  /\ phase = "deliver" /\ delivered = Len(proposal.txs)
  /\ IF EndBlockOK
     THEN /\ index' = NoIndex
          /\ height' = height + 1 /\ time' = proposal.time
          /\ phase' = "propose" /\ proposal' = NoProposal
          /\ injected' = injected \o SubSeq(proposal.txs, 1, 1 + index.total)
     ELSE /\ phase' = "halted"
          /\ UNCHANGED <<index, height, time, proposal, injected>>
  /\ delivered' = 0
  /\ UNCHANGED <<bridge, executed, reports, voted, accepted, nodes>>

(* Everything Ethereum has is consumed, or the bound on the height is met. *)
Finished ==
  /\ phase = "propose"
  /\ bridge.lastBlock = MaxEthBlock \/ height > MaxHeight
  /\ UNCHANGED vars

Next ==
  \/ \E v \in Honest : SidecarSync(v)
  \/ \E v \in Honest : SidecarDown(v)
  \/ \E v \in Honest : SidecarUp(v)
  \/ \E v \in Honest : PrepareBlock(v)
  \/ ProposeArbitrary
  \/ \E v \in Honest : VerifyBlock(v)
  \/ Decide
  \/ NextRound
  \/ DeliverTx
  \/ EndBlock
  \/ Finished

Spec == Init /\ [][Next]_vars

(***************************************************************************)
(* CometBFT gives every validator its turn as proposer again and again     *)
(* (strong fairness of PrepareBlock, written out with its guard), makes    *)
(* every validator vote, drives every round to its end and executes what   *)
(* it decides; a sidecar follows Ethereum and is restarted by its operator *)
(* when it is down.                                                        *)
(***************************************************************************)
Fairness ==
  /\ \A v \in Honest :
       /\ WF_vars(SidecarSync(v))
       /\ WF_vars(SidecarUp(v))
       /\ []<>(phase = "propose" /\ height <= MaxHeight) => []<><<PrepareBlock(v)>>_vars
       /\ []<>(phase # "verify" \/ v \in voted)
  /\ WF_vars(Decide)
  /\ WF_vars(NextRound)
  /\ WF_vars(DeliverTx)
  /\ WF_vars(EndBlock)

FairSpec == Spec /\ Fairness

-----------------------------------------------------------------------------
(* Properties                                                              *)

(* Every variable holds a value of its type.                               *)
TypeOK ==
  /\ height \in Nat /\ time \in Nat /\ reports \in Nat
  /\ bridge \in [lastBlock : 0..MaxEthBlock, offset : Nat,
                 updateTime : Nat \cup {NotFound}, lastSeq : Nat]
  /\ index \in [found : BOOLEAN, total : Nat, ante : Nat, failed : Nat]
  /\ phase \in {"propose", "verify", "deliver", "halted"}
  /\ proposal \in [txs : Seq(Tx), time : Nat, honest : BOOLEAN,
                   response : [ok : BOOLEAN, events : Seq(Event)], mempool : Seq(Tx)]
  /\ voted \subseteq Honest /\ accepted \subseteq voted
  /\ delivered \in 0..Len(proposal.txs)
  /\ sidecar \in [Honest -> 0..MaxEthBlock]
  /\ down \subseteq Honest /\ outages \in Nat
  /\ executed \in Seq(Body) /\ injected \in Seq(Tx)

(***************************************************************************)
(* Between two blocks, the event transactions executed so far are those of *)
(* the first Cursor events of the Ethereum log, each executed once, in the *)
(* order of Ethereum, whoever proposed the blocks and however the events   *)
(* of an Ethereum block were split over them (ProcessProposal, the index   *)
(* handler's update of the block number and of the offset).                *)
(***************************************************************************)
EveryEventOnceInOrder ==
  phase \in {"propose", "verify"} =>
    /\ Len(executed) = Cursor
    /\ \A k \in 1..Cursor : executed[k] = EventBody(EthLog[k])

(***************************************************************************)
(* The committed state, seen from outside.  While a block is executed, the *)
(* index handler has already moved the cursor past all of its events.      *)
(***************************************************************************)
IsIndexed == phase \in {"deliver", "halted"} /\ index.found

CommittedBlock ==
  IF IsIndexed THEN proposal.txs[1].msg.block - 1 ELSE bridge.lastBlock

CommittedEvents ==
  IF IsIndexed THEN SubSeq(executed, 1, Cursor - proposal.txs[1].msg.num) ELSE executed

Delivery ==
  INSTANCE EventDelivery WITH
    Log <- [k \in 1..Len(EthLog) |-> EventBody(EthLog[k])], LastBlock <- MaxEthBlock,
    out <- CommittedEvents, block <- CommittedBlock

(***************************************************************************)
(* From block to block the chain hands over the Ethereum log as            *)
(* EventDelivery says: a committed block executes the next events of one   *)
(* Ethereum block or none, and counts that block as consumed exactly when  *)
(* it executed its last event.  A block left with all its events executed  *)
(* and not counted could never be finished, because TrimEventsFromHead     *)
(* refuses to trim all events.                                             *)
(***************************************************************************)
ImplementsDelivery == Delivery!Spec

(***************************************************************************)
(* A block that a quorum accepted never makes EndBlock of x/bridge return  *)
(* an error, which would stop the chain: the ante handler sees all the     *)
(* injected transactions and no special message fails.  Holds when no      *)
(* deposit panics.                                                         *)
(***************************************************************************)
NeverHalts == Panicking = {} => phase # "halted"

(***************************************************************************)
(* The chain does not go on for longer than MaxEthBlockUpdateDelay without *)
(* events or a new block of Ethereum once it has synchronised              *)
(* (ProcessProposal's rejection of late blocks without synchronisation,    *)
(* the index handler's update time).                                       *)
(***************************************************************************)
SyncNeverStale ==
  phase \in {"propose", "verify"} /\ bridge.updateTime # NotFound =>
    time <= bridge.updateTime + MaxEthBlockUpdateDelay

(***************************************************************************)
(* Exactly one MsgSupplyDelta is executed at every height that is a        *)
(* multiple of SupplyDeltaPeriod and none at another height.               *)
(***************************************************************************)
SupplyDeltaOncePerPeriod ==
  phase \in {"propose", "verify"} => reports = (height - 1) \div SupplyDeltaPeriod

(***************************************************************************)
(* No MsgIndex and no MsgSupplyDelta transaction is ever injected twice,   *)
(* although most of them say the same: only the sequence number that       *)
(* generateTxSequences takes from the state tells them apart.              *)
(***************************************************************************)
SpecialTxsAreUnique ==
  \A i, j \in DOMAIN injected :
    injected[i].kind # "event" /\ injected[i] = injected[j] => i = j

(***************************************************************************)
(* "It is unique for each consensus tx, ensuring a unique tx hash"         *)
(* (proto/fuelsequencer/bridge/genesis.proto:51): no two transactions that *)
(* consensus injects have the same bytes.                                  *)
(***************************************************************************)
ConsensusTxsAreUnique ==
  \A i, j \in DOMAIN injected : injected[i] = injected[j] => i = j

(* PrepareProposal returned without an error.                              *)
IsPrepared ==
  phase = "verify" /\ proposal.honest /\ Len(proposal.txs) > 0
    /\ proposal.txs[1].kind = "index"

(***************************************************************************)
(* A validator whose sidecar gives the proposer's answer accepts what      *)
(* PrepareProposal made, unless the proposer did not synchronise and       *)
(* MaxEthBlockUpdateDelay is exceeded.                                     *)
(***************************************************************************)
PreparedIsAccepted ==
  IsPrepared =>
    \/ ProcessProposal(bridge, height, proposal.time, proposal.txs, proposal.response)
    \/ ~proposal.response.ok /\ EthSyncDelayExceeded(bridge, proposal.time)

(***************************************************************************)
(* What PrepareProposal returns fits RequestPrepareProposal.MaxTxBytes and *)
(* the block's gas limit, and event transactions never crowd out native    *)
(* ones: a mempool that takes no more than SequencerTxsAllocation of the   *)
(* block, nor more than its gas, is in the proposal to its last            *)
(* transaction.                                                            *)
(***************************************************************************)
PreparedFits ==
  IsPrepared =>
    LET sdSize == IF IsMsgSupplyDeltaBlock(height) THEN DeltaTxSize ELSE 0
    IN /\ TxsSize(proposal.txs) <= MaxTxBytes
       /\ MaxGas > 0 => TxsGas(proposal.txs) <= MaxGas
       /\ /\ TxsSize(proposal.mempool) * AllocDen <= AllocNum * (MaxTxBytes - sdSize)
          /\ MaxGas > 0 => TxsGas(proposal.mempool) <= MaxGas
          => LET n == Len(proposal.txs) - Len(proposal.mempool)
             IN n >= 0 /\ SubSeq(proposal.txs, n + 1, Len(proposal.txs)) = proposal.mempool

(***************************************************************************)
(* With sidecars that catch up, every Ethereum block is consumed in the    *)
(* end, however late and slow the sidecars were.                           *)
(***************************************************************************)
EthereumIsSynced == <>(bridge.lastBlock = MaxEthBlock)
=============================================================================
