# A TLA+ development for the Fuel Sequencer

The Fuel Sequencer is a Cosmos SDK chain that follows a bridge contract on Ethereum. This directory holds TLA+
specifications of its parts, written from the Go source, the TLC configurations that check them on small instances,
and TLAPS proofs about six of them for every value of the constants. `PROJECT.json` lists the components, the runs,
the lines of code each definition stands for, the hazards and the findings.

## 1. The system

| Part | Source | Role |
|---|---|---|
| Sidecar | `sidecar/` | One process per validator. Follows finalized Ethereum blocks, keeps the bridge contract's events by block, answers the node's query "events of block b". |
| gRPC client and server | `sidecar/client/`, `sidecar/service/` | Carry that query from the node to the sidecar, with a deadline; shut down with their processes. |
| Proposal handlers | `app/abci/` | PrepareProposal puts a `MsgIndex`, event transactions and, at some heights, `MsgSupplyDelta` in front of the native transactions. ProcessProposal computes the same from the validator's own sidecar and compares. |
| Ante handler, x/bridge | `app/ante.go`, `x/bridge/` | Execute the injected transactions, move the position in Ethereum (last block, offset in the next), count what the ante handler saw. EndBlock returns an error, which stops the chain, when the counts do not match. |
| Bridge ledger | `x/bridge/keeper/supply_delta_info.go` ... | Tells Ethereum how the supply changed other than by deposits and withdrawals; numbers all responses with one nonce. |
| Accounts | `x/bridge/types/accounts.go` ... | Accounts owned by an Ethereum address, with none, one or several vesting schedules; the processing of a deposit. |
| x/sequencing | `x/sequencing/` | Topics: one owner, blobs in order. |
| x/commitments | `x/commitments/` | Merkle commitments over ranges of blocks, and inclusion proofs for a transaction's result. |
| x/mint, wiring, queries, CLI, metrics | `x/mint`, `app/`, `cmd/` | See section 8. |

Interaction: Ethereum -> sidecar -> proposal handlers -> block -> x/bridge (deposits, accounts, ledger) -> responses and
commitments -> relayer -> Ethereum.

## 2. Modules

| Module | Models | State and actions |
|---|---|---|
| `MsgIndex` | `message_index.go` | Operators on a message and the list of transactions it announces. `ok = FALSE` is a returned error. |
| `ProposalHandler` | `proposal_handler.go`, tx selector | `PrepareProposal` and `ProcessProposal` as operators: both are functions of the committed state, the request and one answer of the sidecar. Every early return is a case. |
| `BlockProduction` | consensus rounds and execution | Variables: the committed bridge state, the proposal, the votes, the index of the block being executed, each validator's sidecar height. Actions: sidecar progress and outages, `PrepareBlock`, `ProposeArbitrary` (a validator that does not run this code), `VerifyBlock`, `Decide`, `NextRound`, `DeliverTx`, `EndBlock`. |
| `EventDelivery` | what the bridge promises | The abstract specification: the Ethereum log is handed over in order, a part of an Ethereum block or the rest of it at a time. `BlockProduction` implements it (`ImplementsDelivery`, the refinement mapping is the committed part of `executed` and of the cursor: while a block is executed, the state before it). |
| `SidecarService` | gRPC client, server and their ends | Variables: the client's connection and mutex, each request with its handler and its goroutine, the server, the start of the sidecar. Actions: start, call, answer, deadline, loss and cancellation of a request, `Close` of the application, shutdown with its timeout, a sidecar that fails to start, restart of the process. |
| `Sidecar` | thread, event store, query handlers | One step for each critical section of the store's mutex. The thread: catch up, fetch, store (two sections), subscribe, wait, ask the Sequencer, calibrate and prune. A query: read the events, read the start, read the next block. |
| `Sequencing`, `BridgeLedger` | x/sequencing, ledger of x/bridge | A block is begin blockers, events, supply delta, native transactions, end blockers. `saved` is the state a failing transaction goes back to. |
| `EthAccounts` | accounts, vesting, deposits | Balances, accounts, delegations; every path of `processDepositEvent`. int64 and decimals keep their limits (`MaxInt64`, `Precision`, banker's rounding). |
| `Commitments` | x/commitments | Chain, pruning, one request whose leaves are loaded one per step. |
| `MC*` | | Constants for TLC. |
| `BlockProductionProofs`, `ProposalProofs`, `SidecarProofs`, `ServiceProofs`, `BridgeLedgerProofs`, `EthAccountsProofs`, `CommitmentsProofs` | | Proofs (section 5). |
| `FoldFacts` | | Induction over numbers and recursion over lists, for the proofs. |

Operators marked "Mutant" are variants of a definition with a plausible mistake. They are used by no specification;
substituting one for its definition makes TLC violate the property listed beside it in `PROJECT.json`.

### What is abstracted

- A transaction is the record of what its bytes hold; equal records are equal bytes. Sizes and gas are numbers.
  The size of an encoded `MsgIndex` is reduced to which of its fields are present; varint lengths are left out.
- Authentication of an Authorize event is a flag of the event; each such event holds at least one message.
- In `BlockProduction`, whether a deposit panics is the constant `Panicking`; `EthAccounts` shows which do.
- A faulty proposal is an index transaction with any count, flag and nearby block, a slice of the Ethereum log that
  starts at the cursor or one beside it, with shifted sequence numbers, an optional MsgSupplyDelta and native
  transactions. Among these, lists that ProcessProposal rejects for every truthful answer are left out: they only end the
  round, which `NextRound` may do anyway. Lists with an altered event among those that MsgIndex counts are in that class,
  since each is compared with the validator's own; events beyond the count occur in the model.
- A mempool holds only what passed CheckTx (`IsChecked`): signed transactions, which no injected one is, that are not
  empty and have gas for the ante handler's own consumption (`app/ante.go:33-59`).
- Executing an Authorize or a native transaction changes nothing that `BlockProduction` tracks.
- Honest validators' sidecars answer with an error or with the truth in `BlockProduction`. `Sidecar` shows that they do
  so for every block they hold when the query comes; finding 1 is the exception, for a block that is being stored. A
  validator whose sidecar gives such an answer counts as faulty at that height.
- `SidecarService` leaves open whether the store has a block. The events of a request are its own number, so that an
  answer to another request is told apart. What the HTTP server and gRPC do with handlers that still run at a shutdown is
  left open too (they may end in a panic). A process that ended comes back only by `Restart`.
- The answer of an Ethereum node to a query for logs is the logs of the range in order, in reverse, or each twice.
- In ProcessProposal, `req.Txs[1 : n+1]` with too few transactions either panics or yields a list of another content;
  both reject the proposal.
- Amounts that cannot be parsed and those that `NewCoin` refuses are the one value `Unreadable`. Hex and bech32 forms of
  an address are one member of `Addrs`. The vesting start is in whole seconds. SDK vesting accounts delegate only
  spendable tokens in the model.
- Hashes in `Commitments` are ideal: a root is the list it was computed from. A proof for height 1 is an error because
  there are no results of height 0.
- In the ledger, mints and burns by SDK modules are arbitrary amounts; one denomination.

## 3. Runs

`tlc -config <cfg> <module>`; times are with two workers.

| Run | cfg | Question | Distinct states, time |
|---|---|---|---|
| block_production | MCBlockProduction | Does the chain implement the abstract delivery, is each event executed once and in order, does the chain never halt, is synchronisation never late, are supply deltas periodic and special transactions unique, with a faulty validator that builds its proposals in other ways? | 176k, 1m20 |
| prepare | MCPrepare | Is what PrepareProposal makes accepted, within the limits, and fair to native transactions? | 3.2M, 1m25 |
| liveness | MCLiveness | Is every Ethereum block consumed in the end? | 61k, 17 s |
| sidecar | MCSidecar | Does processLogs accept only what is right, is the store a mirror of Ethereum, are answers true, does it never move back, and does it catch up through errors and a restart? | 302k, 1m25 |
| sidecar_service | MCSidecarService | Does a call get its own answer or an error, are only goroutines of cancelled requests without a handler and only those left behind, do shutdown and Close come to an end? | 189k, 44 s |
| bridge_ledger | MCBridgeLedger | Do reports add up, are nonces consecutive, are topics logs? | 1.7M, 1m15 |
| eth_accounts | MCEthAccounts | Are deposits minted once, locks backed, blocked addresses unowned, do schedules keep distinct starts, and does only time unlock? | 367k, 2m30 |
| commitments | MCCommitments | Are commitments the chain's, and do proofs verify, while blocks come and go? | 938k, 1m10 |
| sidecar_race, sidecar_stop, consensus_txs, eth_panic | MCSidecarRace ... | See section 4; these are violated. | seconds |

### Bounds

- **block_production**: three validators with powers 30, 45, 25, so that one quorum contains the faulty one; three
  Ethereum blocks (three events, none, two), one of them larger than the events' share, so that a block is split over
  several heights; skipped events for both reasons; an empty mempool and one larger than a block; faulty
  proposals with up to two events, which is already more than the events' limit for some pairs; six heights, three
  supply-delta heights. Constants are small but on both sides of each limit (bytes, gas, share, delay).
- **prepare**: one validator, since the question is about one proposal; mempools of up to four transactions of every
  size and gas near the limits.
- **liveness**: the height bound (30) is far above what a fair behaviour needs. Events fit the share that a full mempool
  leaves them; without this the code itself waits (hazards).
- **sidecar**: four Ethereum blocks with query range 2 and prune buffer 1, so that ranges, pruning and the restart
  overlap a query; unknown and removed logs.
- **sidecar_service**: two requests, the node's and another client's or two of the node's, and one restart of the
  sidecar's process: enough for a late answer to meet the next call, and for a shutdown with a request in every state.
  `ServiceProofs` removes the bounds for the safety properties.
- **bridge_ledger**: three heights with periods 1 and 2 changed by governance, one deposit, three responses, one export
  (at the next height or at height 1), burns of 0 or 1 and one token minted per block. The proofs remove the bounds.
- **eth_accounts**: int64 up to 7 and a "second" of three "nanoseconds", so that lockups that wrap to a
  negative duration, to a short one, and lockups that are no int64 occur; up to three deposits with two start times.
- **commitments**: four blocks, up to two results each, ranges up to two; uint64 up to 15. The two results are symmetric:
  the code only hashes them.

Runs end in a `Finished` step where a bound ends the behaviour. Deadlock is checked except in `sidecar_stop`,
where a stopped sidecar really stops.

### Fairness

- `BlockProduction!Fairness`: CometBFT gives each validator its turn again and again, collects votes and executes what it
  decides; sidecars go on and are restarted by their operator. Nothing is assumed of the faulty validator.
- `Sidecar!FairSpec`: the thread goes on (each call returns, with or without an error) and Ethereum finalizes blocks.
  Errors are bounded by `MaxErrors`.
- `SidecarService!Fairness`: the deadline of a call passes (`client.go:174`); whoever waits for the client's mutex gets it
  when it is free again and again (Go's mutexes do not starve a waiter, hence strong fairness of `StopClient`); goroutines
  and handlers go on; the HTTP server's shutdown returns or its timeout passes; `GracefulStop` returns once the handlers
  have. Nothing is assumed of clients, the network or restarts.

## 4. Findings

1. **sidecar_race** (`sidecar.go:341`): QueryBlockEvents reads the store under three separate locks. If the block is stored
   between the first and the last read, the answer is an empty list for a block with events, against the comment at
   `sidecar.go:347-349`. A proposer or validator would see a block without events.
2. **sidecar_stop** (`sidecar.go:131`): the signal to stop is seen only while the thread waits for headers; in the retry
   loop it is not, and the loop never gives up.
3. **consensus_txs** (`msg_server_index.go:90`): the comment at `proto/fuelsequencer/bridge/genesis.proto:51` says the
   sequence number is unique for each consensus transaction. All events of an Ethereum block are numbered, but the number
   advances by those of one Sequencer block; after a split Ethereum block numbers are used again, and two equal deposits
   become the same transaction. Both are executed (`EveryEventOnceInOrder`); their hashes are equal. For MsgIndex and
   MsgSupplyDelta the statement holds (`SpecialTxsAreUnique`).
4. **eth_panic** (`msg_server_deposit_from_ethereum_utils.go:18`): a lockup that is no int64 panics too; the comment says
   only the amount can.

Met while modelling, without a run: the comment of the interface at `accounts.go:45` says that the times of a later deposit
are ignored; a deposit with another start time adds a schedule instead, as the comments of `AddVestingCoins` say and
`SchedulesHaveDistinctStarts` checks. The comment at `supply_delta_info.go:69` says that a report goes up to `Height - 1`;
the mint module and the modules that burn run before the bridge (`app_config.go:79-92`), so a report contains what they did
in its own block. Nothing is lost or reported twice (`ReportsAddUp`).

## 5. Proofs

The proofs assume only the named assumptions on the constants (`ParamsAssumption`, `ChainAssumption`,
`SidecarAssumption`, `LogsAssumption`, `ServiceAssumption`, `LedgerAssumption`, `AccountsAssumption`,
`CommitmentsAssumption` and `TopicAssumption`), which TLC evaluates on each run. They hold for all validators whose
quorums each contain an honest member, all Ethereum logs, mempools, limits, amounts, periods, topics, deposits, chains,
and any number of queries and restarts. `LogsAssumption` says that Ethereum's logs are in order: by block, and within a
block with growing index.

Every invariant and every action property of a passing run is proved; liveness is not (end of this section).

**Induction** (`FoldFacts`). Three parts of the code read a list or add up a set: processLogs, the tx selector, and the
totals of bytes, gas, balances and locked coins. The provers cannot instantiate an induction rule that takes a predicate.
`FoldFacts` therefore states induction over sets: a set that contains 0 and with k also k + 1 contains all numbers up to n
(`UpTo`). A proof names the set of cases for which its claim holds. From this comes that a recursive function over a list
has the values of a run (`RunExists`, `RunOfRecursion`), which is all that the proofs about processLogs, the tx selector
and the totals of a list of transactions use. The totals of balances are sums over sets; `EthAccountsProofs` begins with
induction over finite sets (`FiniteInduction`) and the laws of `SumFunctionOnSet` (taking out any element, monotony,
change of one value), although its definition takes elements in an order of its own choice.

**BlockProduction** (`BlockProductionProofs`): `TypeCorrect`, `EventsOnceInOrder`, `ChainNeverHalts`, `SyncIsNeverStale`.
The property is not inductive: it speaks about the time between blocks, while events are executed inside one. `IInv`
adds (a) that every honest vote was for a proposal that is `WellFormed` relative to the committed state (index, the
events after the cursor, the supply delta), and (b) while a block is executed, `Underway`: how many of its events are in
`executed`, how many transactions the ante handler has seen, what the index handler has already moved. The central lemma
is `AcceptedIsWellFormed`: whatever ProcessProposal accepts with a truthful sidecar is well formed; it rests on
`TrimShape`, `KeepShape` and `GenerateShape` about the operations of MsgIndex. A decided block has an honest vote, so it
is well formed, and `FirstTxIInv`, `LaterTxIInv` and `EndBlockIInv` follow it to its end.

**Delivery** (`BlockProductionProofs`, second part): `BlocksImplementDelivery` (block production refines `EventDelivery`:
initial states map to initial states, every committed block to a part or the rest of an Ethereum block, every other step
to a stutter), `SupplyDeltaEveryPeriod`, `SpecialTxsStayUnique`. On top of `IInv` they need what holds inside a block: the
events of earlier blocks stay when an event of this one fails (`EarlierKept`), the number of reports before and after the
supply delta of the block (`ReportsInv`), and that the special transactions of earlier blocks have smaller numbers than
the next one (`SequenceInv`), since uniqueness alone does not say what the next number may be.

**PrepareProposal** (`ProposalProofs`): `PreparedAlwaysAccepted`, `PreparedAlwaysFits`. The module stands beside
`BlockProductionProofs`: it needs of the chain's state only the types of what a proposal is made from (`ChainTypes`).
The invariant `ProposalInv` is only that an honest proposal under vote is what PrepareProposal made from the committed
state, a possible mempool and the answer of the sidecar; the rest is about the two handlers as functions. The heart is
the tx selector. It skips a transaction that does not fit and goes on, and stops when a limit is met exactly. `Walked`
says what is true after k transactions, of which a prefix fits: what is counted is what was taken, and within the prefix
each transaction was taken, unless the walk stopped with a limit met by what it took. So (`SelectedPrefix`) the
selection fits, and begins with the prefix or with a part of it that fills the block. `KeptShape` shows that the events
kept fit the space computed for them, with the sequence numbers and the trimming that ProcessProposal will compute,
`HeadFits` that index, events and supply delta are a prefix that fits, and `MempoolIsChosen` that a mempool within its
share is, too. The assumption `IsChecked` is needed for the last: a transaction of the mempool without bytes or without
gas would be left out after a limit is met exactly, although it fits.

**Sidecar** (`SidecarProofs`): `SidecarTypeCorrect`, `LogsAlwaysProcessed`, `StoreAlwaysFaithful`,
`SettledAnswersAlwaysTrue`, `AnswersAlwaysFinal`, `SidecarNeverMovesBack`. `LogsAlwaysProcessed` is by induction over the list
of logs: a list in Ethereum's order is accepted with exactly its events unless a log is malformed; in a reversed or
repeated one, two logs that count are out of order, and the list is refused, unless at most one log counts, in which case
reversing changes nothing. `IInv` adds what the two critical sections of a store step leave between them (`Stored`), that a
range ends at a finalized block or is still empty (`RangeOK`), that blocks after the last stored one have no events, so
that a retry appends to nothing (`StoreOK`), and for each query in each of its three steps what it will still find
(`QueryOK`): its block, or an advanced start of the range because the Sequencer has the block. Steps of the others are
summed up in `Forward`, and `KeepQuery` shows that they leave a query as right as it was.

**SidecarService** (`ServiceProofs`): `ServiceTypeCorrect`, `AnswersAlwaysOwn`, `OnlyCancelledStranded`. `IInv` says of each
request (`IsOwn`) that its goroutine holds an error or its own answer, also after the handler is gone, that there is no
goroutine before there is a handler, and that one without its handler was cancelled. `OnlyCancelledStranded` is the safety
half of `OnlyCancelledLeak`.

**BridgeLedger** (`BridgeLedgerProofs`): `TypeCorrect`, `ReportsAlwaysAddUp`, `NoncesAlwaysConsecutive`,
`TopicsAlwaysLogs`. `IInv` demands the properties of `saved` too, since a failing transaction brings it back; that a
topic's responses come from its owner and do not exceed its order (`Owned`); and that `toReport` is zero outside the
steps between BeginBlock and MsgSupplyDelta, since BeginBlock overwrites it.

**EthAccounts** (`EthAccountsProofs`): `AccountsTypeCorrect`, `BlockedNeverOwned`, `SchedulesAlwaysDistinct`,
`LockedAlwaysBacked`, `DepositsAlwaysMintedOnce`, `NothingUnlocksEarly`. `IInv` is about the accounts and the two times that
schedules are made of; `AddToSchedulesIsGood` and `GeneratedAccount` follow an account through the conversions of its type.
For the tokens, `TokensInv` adds the two sums and the locks. Its argument is about rounding: vested coins are the original
amount times a rounded fraction, rounded again, so that adding an amount to a schedule could lock more than the amount, or
less than before. `RoundDivMonotone` and `UnvestedGrows` show that it locks between nothing and the amount more, at every
time, for every precision. `DepositCredits` then sums up all the paths of a deposit: one holder gets the amount and at most
that much locked. `NothingUnlocksEarly` is the action property from the same lemmas.

**Commitments** (`CommitmentsProofs`): `TypeCorrect`, `CommitmentsAlwaysTheChains`, `ProofsAlwaysVerify`. `IInv` keeps what
the validation of a request established (`ValidRequest`) and that the leaves fetched so far are those of the chain, which a
new block does not change (`LeavesStay`).

Only model-checked: liveness, which TLAPS does not prove under fairness, that is `EthereumIsSynced`, `CatchesUp`,
`OnlyCancelledLeak`, `ShutdownReturns` and `CloseReturns`.

## 6. Hazards

`PROJECT.json` lists them with the properties that watch them. Without a property: a malformed log that blocks the sidecar
for ever (it is in the model and leads to `Retry`, but the contract, which decides whether it can exist, is outside the
repository), and a change of `BridgeDenom` (the model has one denomination).

## 7. Plan

1. Refinement: an abstract sidecar ("an error or the truth, never back") that `Sidecar` implements except for finding 1,
   and that `BlockProduction` uses; a corrected QueryBlockEvents (one critical section) that implements it entirely.
2. More of the code: deposits of `EthAccounts` inside `BlockProduction`'s execution, changes of parameters between
   proposal and execution.
3. Proofs: the refinement of point 1.

## 8. Not modelled

- The ABI decoding of logs beyond its outcome, protobuf encoding, TLS and the HTTP gateway, flags and configuration files,
  metrics: input and output, or generated.
- Read-only queries of x/bridge and x/sequencing, and the wiring of the application: they change no state after start-up.
  The order of the begin blockers, which matters, is in `BridgeLedger`.
- The upgrade and the migration of parameters: each copies fields once, with no other actor and no loop; validation of
  single parameters is one comparison each.
- The zero-height export of staking and distribution (`app/export.go`) and the inflation formula of x/mint: they call the
  SDK's modules, whose state is not the repository's.
- CometBFT's locking, evidence and block synchronisation: a library, of which `BlockProduction` models rounds, votes and
  decisions.
