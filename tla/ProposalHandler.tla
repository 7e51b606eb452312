--------------------------- MODULE ProposalHandler ---------------------------
(***************************************************************************)
(* The ABCI handlers that build and verify a block proposal                *)
(* (app/abci/proposal_handler.go).  Both are functions of the committed    *)
(* state of x/bridge, of the request of CometBFT and of the answer of the  *)
(* node's own sidecar to one query, so they are operators here; module     *)
(* BlockProduction runs them in the processes that call them.              *)
(*                                                                         *)
(* A transaction is the record of what its bytes hold, so two transactions *)
(* are equal exactly when their bytes are.  An injected transaction holds  *)
(* the sequence number it was generated with (seq); the bytes of a deposit *)
(* or an Authorize transaction hold the content of the Ethereum event and  *)
(* not its position in the Ethereum log, those of a skip transaction hold  *)
(* the position (block, transaction and log index, here the one field log) *)
(* and not the content.                                                    *)
(***************************************************************************)
EXTENDS MsgIndex, FiniteSetsExt

CONSTANTS
  MaxTxBytes,              \* RequestPrepareProposal.MaxTxBytes
  MaxGas,                  \* ConsensusParams.Block.MaxGas; 0 for no limit
  AllocNum, AllocDen,      \* SequencerTxsAllocation = AllocNum / AllocDen
  InjectedEventTxMaxBytes, \* bridge parameter
  SupplyDeltaPeriod,       \* bridge parameter
  MaxEthBlockUpdateDelay,  \* bridge parameter
  IndexTxSize,             \* bytes of a MsgIndex transaction besides MsgSize
  DeltaTxSize,             \* bytes of a MsgSupplyDelta transaction
  SkipTxSize               \* bytes of a MsgSkippedEventTx transaction

ASSUME ParamsAssumption ==
  /\ MaxTxBytes \in Nat /\ MaxGas \in Nat
  /\ AllocNum \in Nat /\ AllocDen \in Nat \ {0} /\ AllocNum <= AllocDen
  /\ InjectedEventTxMaxBytes \in Nat
  /\ SupplyDeltaPeriod \in Nat \ {0}
  /\ MaxEthBlockUpdateDelay \in Nat
  /\ IndexTxSize \in Nat /\ DeltaTxSize \in Nat /\ SkipTxSize \in Nat

(* The value of LastEthBlockUpdateTime before the first synchronisation.   *)
NotFound == -1

IsMsgSupplyDeltaBlock(height) == height % SupplyDeltaPeriod = 0

-----------------------------------------------------------------------------
(* Transactions                                                            *)

IndexTx(m, seq) == [kind |-> "index", msg |-> m, seq |-> seq]

DeltaTx(seq) == [kind |-> "delta", seq |-> seq]

NativeTx(id, size, gas) == [kind |-> "native", id |-> id, size |-> size, gas |-> gas]

(***************************************************************************)
(* What the transaction of Ethereum event e holds besides its sequence     *)
(* number.  An Authorize event that is too large, or that fails its        *)
(* authentication, becomes a skip transaction.                             *)
(***************************************************************************)
IsSkipped(e) ==
  e.type = "authorize" /\ (e.size > InjectedEventTxMaxBytes \/ ~e.authentic)

EventBody(e) ==
  IF IsSkipped(e)
  THEN [type |-> "skip", payload |-> 0, log |-> e.log, size |-> SkipTxSize]
  ELSE [type |-> e.type, payload |-> e.payload, log |-> 0, size |-> e.size]

EventTx(body, seq) == [kind |-> "event", body |-> body, seq |-> seq]

Event == [type : {"deposit", "authorize"}, payload : Nat, log : Nat, size : Nat,
          authentic : BOOLEAN, valid : BOOLEAN]

Body == [type : {"deposit", "authorize", "skip"}, payload : Nat, log : Nat, size : Nat]

Tx == [kind : {"index"}, msg : Msg, seq : Nat]
        \cup [kind : {"delta"}, seq : Nat]
        \cup [kind : {"event"}, body : Body, seq : Nat]
        \cup [kind : {"native"}, id : Nat, size : Nat, gas : Nat]

TxSize(tx) ==
  CASE tx.kind = "index"  -> IndexTxSize + MsgSize(tx.msg)
    [] tx.kind = "delta"  -> DeltaTxSize
    [] tx.kind = "event"  -> tx.body.size
    [] tx.kind = "native" -> tx.size

GetGas(tx) == IF tx.kind = "native" THEN tx.gas ELSE 0

(* The sum of the first k values of f, added up as in the loops.           *)
SumOfFirst(f, k) ==
  LET sum[i \in 0..k] == IF i = 0 THEN 0 ELSE sum[i - 1] + f[i] IN sum[k]

TxsSize(txs) == SumOfFirst([i \in DOMAIN txs |-> TxSize(txs[i])], Len(txs))

TxsGas(txs) == SumOfFirst([i \in DOMAIN txs |-> GetGas(txs[i])], Len(txs))

-----------------------------------------------------------------------------
(* Generation of the injected transactions                                 *)

generateTxSequences(lastSeq, isMsgSupplyDeltaHeight) ==
  IF isMsgSupplyDeltaHeight
  THEN [index |-> lastSeq + 1, delta |-> lastSeq + 2, events |-> lastSeq + 3]
  ELSE [index |-> lastSeq + 1, delta |-> 0, events |-> lastSeq + 2]

(***************************************************************************)
(* The sidecar answers with an error or with the events of block b.  An    *)
(* event that fails Validate, or a deposit too large to be encoded, is an  *)
(* error that stops the handler.  Sequence numbers are given to all the    *)
(* events of the Ethereum block, those that earlier blocks executed        *)
(* included.                                                               *)
(***************************************************************************)
SidecarError == [ok |-> FALSE, events |-> <<>>]

SidecarAnswer(events) == [ok |-> TRUE, events |-> events]

CanEncode(e) ==
  e.valid /\ (e.type = "deposit" => e.size <= InjectedEventTxMaxBytes)

generateMsgIndexAndEventTxs(response, b, firstSeq) ==
  LET n == Len(response.events)
  IN [ok  |-> \A i \in 1..n : CanEncode(response.events[i]),
      msg |-> [num |-> n, new |-> response.ok, block |-> b],
      txs |-> [i \in 1..n |->
                 EventTx(EventBody(response.events[i]), firstSeq + i - 1)]]

NoSync(b) ==
  [ok |-> TRUE, msg |-> [num |-> 0, new |-> FALSE, block |-> b], txs |-> <<>>]

MinimumNumTxs(m, isMsgSupplyDeltaHeight) ==
  1 + m.num + (IF isMsgSupplyDeltaHeight THEN 1 ELSE 0)

-----------------------------------------------------------------------------
(* PrepareProposal                                                         *)

NumberOfEventsWithMaxBytes(g, maxBytes, seq) ==
  Max({n \in 0..Len(g.txs) :
         TxSize(IndexTx(g.msg, seq)) + TxsSize(SubSeq(g.txs, 1, n)) <= maxBytes})

(* Mutant: events may take the whole block.                                *)
MaxBytesForEventsAll(sequencerTxsSize, supplyDeltaSize) == MaxTxBytes - supplyDeltaSize

MaxBytesForEvents(sequencerTxsSize, supplyDeltaSize) ==
  LET maxBlockSpace          == MaxTxBytes - supplyDeltaSize
      sequencerTxsBlockSpace == (AllocNum * maxBlockSpace) \div AllocDen
  IN IF sequencerTxsSize > maxBlockSpace
     THEN maxBlockSpace - sequencerTxsBlockSpace
     ELSE Max({maxBlockSpace - sequencerTxsSize,
               maxBlockSpace - sequencerTxsBlockSpace})

(***************************************************************************)
(* The default handler of the SDK walks the list with the selector of      *)
(* app/abci/utils.go: a transaction that does not fit is passed over, and  *)
(* the walk stops once a limit is reached.                                 *)
(***************************************************************************)
SelectTxForProposal(acc, tx) ==
  LET bytes == acc.bytes + TxSize(tx)
      gas   == acc.gas + GetGas(tx)
      fits  == bytes <= MaxTxBytes /\ (MaxGas > 0 => gas <= MaxGas)
      next  == IF fits
               THEN [acc EXCEPT !.txs = Append(@, tx), !.bytes = bytes, !.gas = gas]
               ELSE acc
  IN IF acc.stop THEN acc
     ELSE [next EXCEPT !.stop = next.bytes >= MaxTxBytes
                                  \/ (MaxGas > 0 /\ next.gas >= MaxGas)]

SelectedTxs(txs) ==
  LET selector[n \in 0..Len(txs)] ==
        IF n = 0
        THEN [txs |-> <<>>, bytes |-> 0, gas |-> 0, stop |-> FALSE]
        ELSE SelectTxForProposal(selector[n - 1], txs[n])
  IN selector[Len(txs)].txs

(***************************************************************************)
(* The transactions of the proposal, given the committed bridge state, the *)
(* height, the transactions of the mempool and the sidecar's answer.  An   *)
(* error before the injected transactions are in place leaves CometBFT     *)
(* with the transactions of the request (the MsgSupplyDelta put in front   *)
(* of them included), an error after it with none.                         *)
(***************************************************************************)
PrepareProposal(bridge, height, mempool, response) ==
  LET sd      == IsMsgSupplyDeltaBlock(height)
      seqs    == generateTxSequences(bridge.lastSeq, sd)
      sdSize  == IF sd THEN DeltaTxSize ELSE 0
      reqTxs  == IF sd THEN <<DeltaTx(seqs.delta)>> \o mempool ELSE mempool
      g       == generateMsgIndexAndEventTxs(response, bridge.lastBlock + 1, seqs.events)
      rest    == TrimEventsFromHead(g, bridge.offset)
      space   == MaxBytesForEvents(TxsSize(reqTxs) - sdSize, sdSize)
      kept    == KeepEventsFromHead(rest, NumberOfEventsWithMaxBytes(rest, space, seqs.index))
      chosen  == SelectedTxs(<<IndexTx(kept.msg, seqs.index)>> \o kept.txs \o reqTxs)
  IN IF sdSize > MaxTxBytes THEN mempool
     ELSE IF \/ ~g.ok
             \/ ~rest.ok
             \/ TxSize(IndexTx(rest.msg, seqs.index)) > space
             \/ ~kept.ok
             \/ kept.msg.num # Len(kept.txs)
          THEN reqTxs
     ELSE IF Len(chosen) < MinimumNumTxs(kept.msg, sd) THEN <<>>
     ELSE chosen

-----------------------------------------------------------------------------
(* ProcessProposal                                                         *)

(* Mutant: one unit of time too generous.                                  *)
EthSyncDelayExceededLate(bridge, time) ==
  bridge.updateTime # NotFound /\ time > bridge.updateTime + MaxEthBlockUpdateDelay + 1

EthSyncDelayExceeded(bridge, time) ==
  bridge.updateTime # NotFound /\ time > bridge.updateTime + MaxEthBlockUpdateDelay

verifyInjectedMsgIndexTx(tx, g, seq) == tx = IndexTx(g.msg, seq)

verifyInjectedEventTxs(injected, g) == injected = g.txs

(* Mutant: only looks whether there is a transaction.                      *)
verifyInjectedMsgSupplyDeltaTxLength(txs, num, seq) == Len(txs) >= 2 + num

verifyInjectedMsgSupplyDeltaTx(txs, num, seq) ==
  /\ Len(txs) >= 2 + num
  /\ txs[2 + num] = DeltaTx(seq)

(* Mutant: a block may not use all the gas.                                *)
verifyTransactionsInProposalStrict(txs) == MaxGas > 0 => TxsGas(txs) < MaxGas

verifyTransactionsInProposal(txs) == MaxGas > 0 => TxsGas(txs) <= MaxGas

(***************************************************************************)
(* TRUE iff a validator accepts the transactions txs proposed for the      *)
(* height, with block time time, when its own sidecar gives response.      *)
(***************************************************************************)
ProcessProposal(bridge, height, time, txs, response) ==
  /\ Len(txs) > 0
  /\ txs[1].kind = "index"
  /\ LET sd       == IsMsgSupplyDeltaBlock(height)
         seqs     == generateTxSequences(bridge.lastSeq, sd)
         injected == txs[1].msg
         b        == bridge.lastBlock + 1
         g        == IF NoEthereumSyncing(injected) THEN NoSync(b)
                     ELSE generateMsgIndexAndEventTxs(response, b, seqs.events)
         rest     == TrimEventsFromHead(g, bridge.offset)
         kept     == KeepEventsFromHead(rest, injected.num)
     IN /\ NoEthereumSyncing(injected) => ~EthSyncDelayExceeded(bridge, time)
        /\ g.ok
        /\ rest.ok
        /\ kept.ok
        /\ kept.msg.num = Len(kept.txs)
        /\ Len(txs) >= injected.num + 1
        /\ verifyInjectedMsgIndexTx(txs[1], kept, seqs.index)
        /\ verifyInjectedEventTxs(SubSeq(txs, 2, injected.num + 1), kept)
        /\ sd => verifyInjectedMsgSupplyDeltaTx(txs, kept.msg.num, seqs.delta)
        /\ verifyTransactionsInProposal(txs)
        /\ Len(txs) >= MinimumNumTxs(kept.msg, sd)
=============================================================================
