------------------------------- MODULE Sidecar -------------------------------
(***************************************************************************)
(* The sidecar of one validator: the thread that follows Ethereum          *)
(* (sidecar/sidecar/sidecar.go, sidecar/ethwrappedclient), the event store *)
(* that it fills and prunes (sidecar/store/eventstore.go), and the         *)
(* handlers that answer the queries of the validator's node                *)
(* (sidecar/service/server.go, QueryBlockEvents).                          *)
(*                                                                         *)
(* Every method of the store takes the store's mutex, so a step of this    *)
(* module is one such method with the computation around it.  The sidecar  *)
(* keeps nothing on disk: a restart begins with an empty store.            *)
(*                                                                         *)
(* A log is [block, tx, index, removed, event]; event is a positive number *)
(* for a log of the bridge contract, Unrecognized for a log of no known    *)
(* type and Malformed for one that cannot be decoded.  In the store, a     *)
(* block without an entry and a block with no events are the same thing,   *)
(* because entries are made only by appending to them.                     *)
(***************************************************************************)
EXTENDS Integers, Sequences, FiniteSetsExt

CONSTANTS
  EthLogs,        \* logs of the bridge contract's address, in Ethereum's order
  MaxEthBlock,    \* bound: last Ethereum block
  MaxQueryRange,  \* blocks per query for logs
  PruneBuffer,    \* EventStore.blockPruneBuffer
  EndQueryBlock,  \* --unsafe_eth_end_block, 0 for none
  UnsafeStart,    \* --unsafe_eth_start_block, 0 for none
  GenesisBlock,   \* LastEthereumBlockSynced in the genesis of the Sequencer
  Handlers,       \* queries that may run at the same time
  MaxErrors,      \* bound: failed calls to Ethereum and to the Sequencer
  MaxRestarts     \* bound: restarts of the sidecar

ASSUME SidecarAssumption ==
  /\ MaxEthBlock \in Nat /\ MaxQueryRange \in Nat \ {0} /\ PruneBuffer \in Nat
  /\ EndQueryBlock \in Nat /\ UnsafeStart \in Nat /\ GenesisBlock \in 0..MaxEthBlock
  /\ MaxErrors \in Nat /\ MaxRestarts \in Nat

Unrecognized == 0
Malformed == -1

Blocks == 1..MaxEthBlock

NoEvents == [b \in Blocks |-> <<>>]

Log == [block : Blocks, tx : Nat, index : Nat, removed : BOOLEAN,
        event : Nat \cup {Malformed}]

(* Ethereum's order: the index of a log grows within its block.            *)
Before(l, m) ==
  \/ l.block < m.block
  \/ l.block = m.block /\ l.tx <= m.tx /\ l.index < m.index

ASSUME LogsAssumption ==
  /\ EthLogs \in Seq(Log)
  /\ \A i, j \in DOMAIN EthLogs : i < j => Before(EthLogs[i], EthLogs[j])

(* The position of the last log up to block b.                             *)
LastLog(b) == Max({0} \cup {i \in DOMAIN EthLogs : EthLogs[i].block <= b})

LogsOf(from, to) == SubSeq(EthLogs, LastLog(from - 1) + 1, LastLog(to))

(* The events of block b in a list of logs.                                *)
IsEvent(l, b) == l.block = b /\ ~l.removed /\ l.event # Unrecognized

EventsIn(logs, b) ==
  LET events[k \in 0..Len(logs)] ==
        IF k = 0 THEN <<>>
        ELSE IF IsEvent(logs[k], b) THEN Append(events[k - 1], logs[k].event)
        ELSE events[k - 1]
  IN events[Len(logs)]

(* What a query for block b should return.                                 *)
EventsOf(b) == EventsIn(EthLogs, b)

VARIABLES
  finalized,  \* last finalized block of Ethereum
  sequencer,  \* LastEthereumBlockSynced of the Sequencer
  blocks, startQueryBlock, lastSyncedBlock,     \* the event store
  pc,         \* the thread that follows Ethereum: "catchUp", "fetch", "stored",
              \* "subscribe", "wait", "fetchLast", "calibrate" or "stopped"
  job,        \* its locals: target block, block just fetched, where to go on,
              \* and what the Sequencer said
  cancelled,  \* the process got a signal to stop
  query,      \* state of each handler
  errors, restarts

eth == <<finalized, sequencer>>
store == <<blocks, startQueryBlock, lastSyncedBlock>>
vars == <<eth, store, pc, job, cancelled, query, errors, restarts>>

NotAsked == -1   \* the Sequencer did not answer (nil in the code)

Job == [to : Nat, fetched : Nat, back : {"subscribe", "fetchLast"},
        seen : Nat \cup {NotAsked}]

NoJob == [to |-> 0, fetched |-> 0, back |-> "subscribe", seen |-> NotAsked]

Query == [pc : {"idle", "asked", "missed", "ranged", "answered"}, block : Nat,
          settled : BOOLEAN, start : Nat, ok : BOOLEAN, events : Seq(Nat \ {0})]

Idle == [pc |-> "idle", block |-> 0, settled |-> FALSE, start |-> 0,
         ok |-> FALSE, events |-> <<>>]

(***************************************************************************)
(* The first block to query: the flag, or else the block after the one the *)
(* Sequencer has.                                                          *)
(***************************************************************************)
StartBlock == IF UnsafeStart > 0 THEN UnsafeStart ELSE sequencer + 1

NewEventStore(start) ==
  /\ blocks' = NoEvents
  /\ startQueryBlock' = start
  /\ lastSyncedBlock' = start - 1

Init ==
  /\ finalized \in GenesisBlock..MaxEthBlock /\ sequencer = GenesisBlock
  /\ blocks = NoEvents
  /\ startQueryBlock = StartBlock
  /\ lastSyncedBlock = StartBlock - 1
  /\ pc = "catchUp" /\ job = NoJob /\ cancelled = FALSE
  /\ query = [q \in Handlers |-> Idle]
  /\ errors = 0 /\ restarts = 0

-----------------------------------------------------------------------------
(* The world around the sidecar                                            *)

Finalize ==
  /\ finalized < MaxEthBlock
  /\ finalized' = finalized + 1
  /\ UNCHANGED <<sequencer, store, pc, job, cancelled, query, errors, restarts>>

(* The chain consumes a block, which other validators' sidecars may have   *)
(* given it.                                                               *)
SequencerSync ==
  /\ sequencer < finalized
  /\ sequencer' = sequencer + 1
  /\ UNCHANGED <<finalized, store, pc, job, cancelled, query, errors, restarts>>

Restart ==
  /\ restarts < MaxRestarts
  /\ restarts' = restarts + 1
  /\ NewEventStore(StartBlock)
  /\ pc' = "catchUp" /\ job' = NoJob /\ cancelled' = FALSE
  /\ query' = [q \in Handlers |-> Idle]
  /\ UNCHANGED <<eth, errors>>

Cancel ==
  /\ ~cancelled /\ pc # "stopped"
  /\ cancelled' = TRUE
  /\ UNCHANGED <<eth, store, pc, job, query, errors, restarts>>

-----------------------------------------------------------------------------
(* Logs                                                                    *)

Reversed(logs) == [i \in 1..Len(logs) |-> logs[Len(logs) + 1 - i]]

(***************************************************************************)
(* The answer of the Ethereum node: the logs of the range, but possibly    *)
(* out of order or repeated.                                               *)
(***************************************************************************)
FilterLogs(from, to) ==
  LET logs == LogsOf(from, to)
  IN {logs, Reversed(logs), logs \o logs}

(* Mutant: compares the numbers of the blocks only.                        *)
IsLogSequentialBlocks(acc, log) == log.block >= acc.block

(* The check of ValidateIsLogSequential.                                   *)
IsLogSequential(acc, log) ==
  /\ log.block >= acc.block
  /\ log.block = acc.block => log.tx >= acc.tx /\ log.index > acc.index

(* Mutant: does not look at the mark of a removed log.                     *)
ProcessLogRemoved(acc, log) ==
  IF ~acc.ok THEN acc
  ELSE IF ~IsLogSequential(acc, log) \/ log.event = Malformed
       THEN [acc EXCEPT !.ok = FALSE]
  ELSE [acc EXCEPT
          !.block = log.block, !.tx = log.tx, !.index = log.index,
          !.events[log.block] = IF log.event = Unrecognized THEN @
                                ELSE Append(@, log.event)]

(* Mutant: keeps logs of no known type.                                    *)
ProcessLogAll(acc, log) ==
  IF log.removed \/ ~acc.ok THEN acc
  ELSE IF ~IsLogSequential(acc, log) \/ log.event = Malformed
       THEN [acc EXCEPT !.ok = FALSE]
  ELSE [acc EXCEPT
          !.block = log.block, !.tx = log.tx, !.index = log.index,
          !.events[log.block] = Append(@, log.event)]

(* One log of processLogs.                                                 *)
ProcessLog(acc, log) ==
  IF log.removed \/ ~acc.ok THEN acc
  ELSE IF ~IsLogSequential(acc, log) \/ log.event = Malformed
       THEN [acc EXCEPT !.ok = FALSE]
  ELSE [acc EXCEPT
          !.block = log.block, !.tx = log.tx, !.index = log.index,
          !.events[log.block] = IF log.event = Unrecognized THEN @
                                ELSE Append(@, log.event)]

processLogs(logs, from) ==
  LET acc[k \in 0..Len(logs)] ==
        IF k = 0
        THEN [ok |-> TRUE, block |-> from, tx |-> -1, index |-> -1, events |-> NoEvents]
        ELSE ProcessLog(acc[k - 1], logs[k])
  IN acc[Len(logs)]

-----------------------------------------------------------------------------
(* The thread that follows Ethereum                                        *)

(* A call to Ethereum fails: always once the context is cancelled, and     *)
(* otherwise MaxErrors times.  The error makes the thread try again.       *)
Retry ==
  /\ pc \in {"catchUp", "fetch", "subscribe", "wait"}
  /\ \/ cancelled /\ UNCHANGED errors
     \/ ~cancelled /\ errors < MaxErrors /\ errors' = errors + 1
  /\ pc' = "catchUp" /\ job' = NoJob
  /\ UNCHANGED <<eth, store, cancelled, query, restarts>>

(* Mutant: follows the head of Ethereum, one block after the finalized one. *)
MaxSyncableBlockHead ==
  IF EndQueryBlock > 0 /\ EndQueryBlock < finalized THEN EndQueryBlock ELSE finalized + 1

MaxSyncableBlock ==
  IF EndQueryBlock > 0 /\ EndQueryBlock < finalized THEN EndQueryBlock ELSE finalized

(* Mutant: waits until it is two blocks behind.                            *)
FetchOrLate(next) ==
  IF MaxSyncableBlock > lastSyncedBlock + 1
  THEN pc' = "fetch" /\ job' = [job EXCEPT !.to = MaxSyncableBlock, !.back = next]
  ELSE pc' = next /\ job' = job

(* Goes to fetch the logs up to MaxSyncableBlock, or on to next.           *)
FetchOr(next) ==
  IF MaxSyncableBlock > lastSyncedBlock
  THEN pc' = "fetch" /\ job' = [job EXCEPT !.to = MaxSyncableBlock, !.back = next]
  ELSE pc' = next /\ job' = job

catchUpWithEthereumLogs ==
  /\ pc = "catchUp" /\ ~cancelled
  /\ FetchOr("subscribe")
  /\ UNCHANGED <<eth, store, cancelled, query, errors, restarts>>

(* The last block of the next query for logs.                              *)
FetchTo == Min({job.to, lastSyncedBlock + MaxQueryRange})

(***************************************************************************)
(* fetchAndStoreLogsUptoBlock: one range of blocks at a time.  The events  *)
(* and the number of the last block are stored in two critical sections.   *)
(***************************************************************************)
AddEvents ==
  LET from == lastSyncedBlock + 1
  IN /\ pc = "fetch" /\ ~cancelled
     /\ from <= FetchTo
     /\ \E logs \in FilterLogs(from, FetchTo) :
          LET r == processLogs(logs, from)
          IN IF r.ok
             THEN /\ blocks' = [b \in Blocks |-> blocks[b] \o r.events[b]]
                  /\ pc' = "stored" /\ job' = [job EXCEPT !.fetched = FetchTo]
                  /\ UNCHANGED errors
             ELSE /\ errors < MaxErrors /\ errors' = errors + 1
                  /\ pc' = "catchUp" /\ job' = NoJob
                  /\ UNCHANGED blocks
     /\ UNCHANGED <<eth, startQueryBlock, lastSyncedBlock, cancelled, query, restarts>>

SetLastSyncedBlock ==
  /\ pc = "stored"
  /\ lastSyncedBlock' = job.fetched
  /\ pc' = IF job.fetched = job.to THEN job.back ELSE "fetch"
  /\ UNCHANGED <<eth, blocks, startQueryBlock, job, cancelled, query, errors, restarts>>

Subscribe ==
  /\ pc = "subscribe" /\ ~cancelled
  /\ pc' = "wait"
  /\ UNCHANGED <<eth, store, job, cancelled, query, errors, restarts>>

(* A header arrives; the timeout and the end of the subscription are Retry. *)
NewHeader ==
  /\ pc = "wait" /\ ~cancelled
  /\ FetchOr("fetchLast")
  /\ UNCHANGED <<eth, store, cancelled, query, errors, restarts>>

ContextDone ==
  /\ pc = "wait" /\ cancelled
  /\ pc' = "stopped"
  /\ UNCHANGED <<eth, store, job, cancelled, query, errors, restarts>>

FetchLastEthereumBlockSynced ==
  /\ pc = "fetchLast"
  /\ \/ job' = [job EXCEPT !.seen = sequencer] /\ ~cancelled /\ UNCHANGED errors
     \/ /\ job' = [job EXCEPT !.seen = NotAsked]
        /\ \/ cancelled /\ UNCHANGED errors
           \/ ~cancelled /\ errors < MaxErrors /\ errors' = errors + 1
  /\ pc' = "calibrate"
  /\ UNCHANGED <<eth, store, cancelled, query, restarts>>

(***************************************************************************)
(* Moves lastSyncedBlock forward when the Sequencer is ahead, and drops    *)
(* the blocks that it does not need, but for the last PruneBuffer ones.    *)
(***************************************************************************)
PruneUntil == job.seen - PruneBuffer

IsPruning ==
  /\ job.seen >= startQueryBlock /\ job.seen > PruneBuffer
  /\ blocks # NoEvents /\ PruneUntil > startQueryBlock

(* Mutant: takes what the Sequencer says even when it is behind.           *)
FastForwardAlways == IF job.seen # NotAsked THEN job.seen ELSE lastSyncedBlock

FastForward == IF job.seen > lastSyncedBlock THEN job.seen ELSE lastSyncedBlock

CalibrateBlocksAndPruneLogs ==
  /\ pc = "calibrate"
  /\ lastSyncedBlock' = FastForward
  /\ IF IsPruning
     THEN /\ blocks' = [b \in Blocks |-> IF b \in startQueryBlock..PruneUntil THEN <<>>
                                         ELSE blocks[b]]
          /\ startQueryBlock' = PruneUntil + 1
     ELSE UNCHANGED <<blocks, startQueryBlock>>
  /\ pc' = "wait" /\ job' = NoJob
  /\ UNCHANGED <<eth, cancelled, query, errors, restarts>>

-----------------------------------------------------------------------------
(* Queries                                                                 *)

Answer(q, ok, events) ==
  query' = [query EXCEPT ![q].pc = "answered", ![q].ok = ok, ![q].events = events]

(***************************************************************************)
(* The node asks for the block after the last one the Sequencer has.       *)
(* settled notes whether the sidecar had that block when it was asked.     *)
(***************************************************************************)
GetBlockEvents(q) ==
  /\ query[q].pc \in {"idle", "answered"}
  /\ query' = [query EXCEPT ![q] =
       [Idle EXCEPT !.pc = IF pc = "stopped" THEN "answered" ELSE "asked",
                    !.block = sequencer + 1,
                    !.settled = pc # "stopped"
                                  /\ sequencer + 1 \in startQueryBlock..lastSyncedBlock]]
  /\ UNCHANGED <<eth, store, pc, job, cancelled, errors, restarts>>

GetStoredEvents(q) ==
  LET b      == query[q].block
      events == IF b \in Blocks THEN blocks[b] ELSE <<>>
  IN /\ query[q].pc = "asked"
     /\ IF events # <<>> THEN Answer(q, TRUE, events)
        ELSE query' = [query EXCEPT ![q].pc = "missed"]
     /\ UNCHANGED <<eth, store, pc, job, cancelled, errors, restarts>>

GetStartQueryBlock(q) ==
  /\ query[q].pc = "missed"
  /\ query' = [query EXCEPT ![q].pc = "ranged", ![q].start = startQueryBlock]
  /\ UNCHANGED <<eth, store, pc, job, cancelled, errors, restarts>>

(* Mutant: the last synced block counts as not processed.                  *)
IsInRangeStrict(q) == query[q].start <= query[q].block /\ query[q].block < lastSyncedBlock

(* startQueryBlock was read in an earlier critical section.                *)
IsInRange(q) == query[q].start <= query[q].block /\ query[q].block < lastSyncedBlock + 1

GetNextQueryBlock(q) ==
  /\ query[q].pc = "ranged"
  /\ Answer(q, IsInRange(q), <<>>)
  /\ UNCHANGED <<eth, store, pc, job, cancelled, errors, restarts>>

Thread ==
  \/ Retry
  \/ catchUpWithEthereumLogs
  \/ AddEvents
  \/ SetLastSyncedBlock
  \/ Subscribe
  \/ NewHeader
  \/ ContextDone
  \/ FetchLastEthereumBlockSynced
  \/ CalibrateBlocksAndPruneLogs

Next ==
  \/ Finalize
  \/ SequencerSync
  \/ Restart
  \/ Cancel
  \/ Thread
  \/ \E q \in Handlers : GetBlockEvents(q)
  \/ \E q \in Handlers : GetStoredEvents(q)
  \/ \E q \in Handlers : GetStartQueryBlock(q)
  \/ \E q \in Handlers : GetNextQueryBlock(q)

Spec == Init /\ [][Next]_vars

(***************************************************************************)
(* The thread goes on, its calls return one way or the other, headers      *)
(* arrive, and Ethereum finalizes blocks.                                  *)
(***************************************************************************)
FairSpec == Spec /\ WF_vars(Thread) /\ WF_vars(Finalize)

-----------------------------------------------------------------------------
(* Properties                                                              *)

(* Every variable holds a value of its type.                               *)
TypeOK ==
  /\ finalized \in Nat /\ sequencer \in 0..finalized
  /\ blocks \in [Blocks -> Seq(Nat \ {0})]
  /\ startQueryBlock \in Nat \ {0} /\ lastSyncedBlock \in Nat
  /\ pc \in {"catchUp", "fetch", "stored", "subscribe", "wait", "fetchLast", "calibrate",
             "stopped"}
  /\ job \in Job
  /\ cancelled \in BOOLEAN
  /\ query \in [Handlers -> Query]
  /\ errors \in 0..MaxErrors /\ restarts \in 0..MaxRestarts

(***************************************************************************)
(* What processLogs accepts of an answer, in order or not, is exactly the  *)
(* events of the blocks that the thread asks for.                          *)
(***************************************************************************)
LogsAreProcessed ==
  pc = "fetch" =>
    \A logs \in FilterLogs(lastSyncedBlock + 1, FetchTo) :
      LET r == processLogs(logs, lastSyncedBlock + 1)
      IN r.ok =>
           /\ r.events \in [Blocks -> Seq(Nat \ {0})]
           /\ \A b \in Blocks :
                r.events[b] = IF b \in (lastSyncedBlock + 1)..FetchTo THEN EventsOf(b) ELSE <<>>

(***************************************************************************)
(* The store holds the events of a block of Ethereum, each once and in     *)
(* order, or nothing, whatever the Ethereum node returned and however      *)
(* often a range was tried again; and it holds the events of every block   *)
(* that it counts as synced and that the Sequencer has not consumed        *)
(* (fetchAndStoreLogsUptoBlock, processLogs, CalibrateBlocksAndPruneLogs). *)
(***************************************************************************)
StoreIsFaithful ==
  /\ \A b \in Blocks : blocks[b] \in {<<>>, EventsOf(b)}
  /\ \A b \in Blocks :
       b > sequencer /\ b \in startQueryBlock..lastSyncedBlock => blocks[b] = EventsOf(b)

(***************************************************************************)
(* A query for a block that the sidecar had when the query came gets       *)
(* exactly the events of that block, whatever is fetched or pruned while   *)
(* it is answered; it gets an error only if the Sequencer has meanwhile    *)
(* consumed the block.                                                     *)
(***************************************************************************)
SettledAnswersAreTrue ==
  \A q \in Handlers :
    query[q].pc = "answered" /\ query[q].settled =>
      \/ query[q].ok /\ query[q].events = EventsOf(query[q].block)
      \/ ~query[q].ok /\ query[q].block <= sequencer

(***************************************************************************)
(* A list of events that is not empty is the list of the block, and an     *)
(* answer is never given for a block that is not finalized.                *)
(***************************************************************************)
AnswersAreFinal ==
  \A q \in Handlers :
    query[q].pc = "answered" /\ query[q].ok =>
      /\ query[q].block <= finalized
      /\ query[q].events \in {<<>>, EventsOf(query[q].block)}

(***************************************************************************)
(* While it runs the sidecar never moves back, neither the last block it   *)
(* has nor the first one it keeps.                                         *)
(***************************************************************************)
NeverMovesBack ==
  [][restarts' = restarts =>
       lastSyncedBlock' >= lastSyncedBlock /\ startQueryBlock' >= startQueryBlock]_vars

(***************************************************************************)
(* "if there is no blocksMap entry for a query between 90 and 100, this    *)
(* means that the queried block had no events"                             *)
(* (sidecar/sidecar/sidecar.go:348): an empty answer for a block that the  *)
(* Sequencer still needs means that the block has no events.               *)
(***************************************************************************)
EmptyMeansNoEvents ==
  \A q \in Handlers :
    query[q].pc = "answered" /\ query[q].ok /\ query[q].events = <<>>
      /\ query[q].block > sequencer =>
      EventsOf(query[q].block) = <<>>

(***************************************************************************)
(* Unless it is stopped, the sidecar gets to the last block of Ethereum.   *)
(***************************************************************************)
CatchesUp == <>(cancelled \/ lastSyncedBlock >= MaxEthBlock)

(***************************************************************************)
(* "received interrupt or terminate signal, closing sidecar"               *)
(* (cmd/fuelsequencerd/cmd/commands.go:464): the sidecar stops after the   *)
(* signal.                                                                 *)
(***************************************************************************)
StopsAfterSignal == []<>(cancelled => pc = "stopped")
=============================================================================
