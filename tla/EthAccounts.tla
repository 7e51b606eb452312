---------------------------- MODULE EthAccounts ----------------------------
(***************************************************************************)
(* The accounts that deposits from Ethereum create and fund: the whole     *)
(* handler of MsgDepositFromEthereum, the account types of x/bridge with   *)
(* their vesting schedules, and what their owners may do with the tokens   *)
(* (send, delegate, undelegate, withdraw to Ethereum).  Governance may     *)
(* change VestingStartTime at any time.                                    *)
(*                                                                         *)
(* An Ethereum address and the Sequencer address it maps to are one        *)
(* member of Addrs: the code compares a recipient with the depositor in    *)
(* both forms and converts either to the same account.  Time is in         *)
(* seconds.  int64, the nanoseconds of a second and the precision of a     *)
(* decimal are constants, so that small instances meet their limits.       *)
(***************************************************************************)
EXTENDS Integers, Sequences, FiniteSetsExt

CONSTANTS
  Addrs,         \* addresses of accounts other than Gov and Bridge
  Barred,        \* validators' accounts and AdditionalBlockedAddresses
  Gov, Bridge,   \* module accounts, which bank blocks as receivers
  Null,          \* the null Ethereum address
  Unreadable,    \* an address, an amount or a lockup that does not parse
  Amounts,       \* amounts of deposits, transfers, delegations, withdrawals
  Lockups,       \* lockups of deposits, in seconds
  MaxInt64,      \* the largest int64
  Nanos,         \* nanoseconds in a second
  Precision,     \* the decimals have steps of 1 / Precision
  StartTimes,    \* values of VestingStartTime
  MaxTime,       \* bound: time
  MaxDeposits,   \* bound: deposits
  MaxUpdates     \* bound: changes of VestingStartTime

Modules == {Gov, Bridge}
Holders == Addrs \cup Modules

ASSUME AccountsAssumption ==
  /\ IsFiniteSet(Addrs) /\ Barred \subseteq Addrs /\ Modules \cap Addrs = {} /\ Gov # Bridge
  /\ Null \notin Holders /\ Unreadable \notin Holders \cup {Null}
  /\ Amounts \subseteq Nat \ {0} /\ Lockups \subseteq Nat
  /\ MaxInt64 \in Nat /\ Nanos \in Nat \ {0} /\ Precision \in Nat \ {0}
  /\ StartTimes \subseteq Nat /\ StartTimes # {}
  /\ MaxTime \in Nat /\ MaxDeposits \in Nat /\ MaxUpdates \in Nat

VARIABLES
  acc,        \* the account of each address
  bal,        \* balances, in the bridge denomination
  del,        \* delegated tokens
  offset,     \* SupplyDeltaInfo.Offset
  startTime,  \* params.VestingStartTime
  now,        \* the time of the block
  net,        \* history: deposited less withdrawn
  failed,     \* history: what the handler of a deposit panicked for
  deposits, updates   \* counts, for the bounds

vars == <<acc, bal, del, offset, startTime, now, net, failed, deposits, updates>>

VestingInfo == [orig : Nat, start : Nat, end : Nat]

(* "sdk" and "sdkVesting" are the account types of the SDK.                *)
EthKinds == {"ethBase", "ethVesting", "ethMulti"}
Kinds == {"none", "sdk", "sdkVesting"} \cup EthKinds
Account == [kind : Kinds, infos : Seq(VestingInfo)]

NoAccount == [kind |-> "none", infos |-> <<>>]

DepositEvent ==
  [depositor : Holders \cup {Unreadable}, recipient : Holders \cup {Null, Unreadable},
   amount : Amounts \cup {Unreadable}, lockup : Lockups \cup {Unreadable}]

Init ==
  /\ acc = [a \in Holders |-> IF a \in Addrs THEN NoAccount ELSE [NoAccount EXCEPT !.kind = "sdk"]]
  /\ bal = [a \in Holders |-> 0] /\ del = [a \in Addrs |-> 0]
  /\ offset = 0 /\ startTime \in StartTimes /\ now = 0
  /\ net = 0 /\ failed = {} /\ deposits = 0 /\ updates = 0

-----------------------------------------------------------------------------
(* Vesting                                                                 *)

(* a / b rounded to the nearest integer, and to the even one of two.       *)
RoundDiv(a, b) ==
  LET q == a \div b
      r == 2 * (a % b)
  IN IF r > b \/ (r = b /\ q % 2 = 1) THEN q + 1 ELSE q

(* VestingInfo.GetVestedCoins, in decimals with Precision.                 *)
GetVestedCoins(info, time) ==
  IF time <= info.start THEN 0
  ELSE IF time >= info.end THEN info.orig
  ELSE LET s == RoundDiv((time - info.start) * Precision, info.end - info.start)
       IN RoundDiv(info.orig * s, Precision)

(* LockedCoins of an account: the sum over its schedules, nothing of which *)
(* counts as delegated.                                                    *)
LockedCoins(account, time) ==
  SumFunction([i \in DOMAIN account.infos |->
                 account.infos[i].orig - GetVestedCoins(account.infos[i], time)])

Spendable(a) ==
  LET free == bal[a] - LockedCoins(acc[a], now) IN IF free < 0 THEN 0 ELSE free

(* Mutant: the end time must be the same too.                              *)
AddToSchedulesByEnd(account, amount, start, end) ==
  IF \E i \in DOMAIN account.infos : account.infos[i].start = start /\ account.infos[i].end = end
  THEN LET i == CHOOSE j \in DOMAIN account.infos : account.infos[j].start = start
       IN [account EXCEPT !.infos[i].orig = @ + amount]
  ELSE [kind |-> "ethMulti",
        infos |-> Append(account.infos, [orig |-> amount, start |-> start, end |-> end])]

(* Mutant: the new amount replaces the old one.                            *)
AddToSchedulesReplace(account, amount, start, end) ==
  IF \E i \in DOMAIN account.infos : account.infos[i].start = start
  THEN LET i == CHOOSE j \in DOMAIN account.infos : account.infos[j].start = start
       IN [account EXCEPT !.infos[i].orig = amount]
  ELSE [kind |-> "ethMulti",
        infos |-> Append(account.infos, [orig |-> amount, start |-> start, end |-> end])]

(***************************************************************************)
(* AddVestingCoins of the two vesting types: a schedule with the same      *)
(* start takes the amount and keeps its end; otherwise the account becomes *)
(* one with several schedules.                                             *)
(***************************************************************************)
AddToSchedules(account, amount, start, end) ==
  IF \E i \in DOMAIN account.infos : account.infos[i].start = start
  THEN LET i == CHOOSE j \in DOMAIN account.infos : account.infos[j].start = start
       IN [account EXCEPT !.infos[i].orig = @ + amount]
  ELSE [kind |-> "ethMulti",
        infos |-> Append(account.infos, [orig |-> amount, start |-> start, end |-> end])]

(* AddVestingCoins; NoAccount stands for an error.                         *)
AddVestingCoins(account, amount, start, end) ==
  IF account.kind # "ethBase" THEN AddToSchedules(account, amount, start, end)
  ELSE IF start >= end THEN NoAccount
  ELSE [kind |-> "ethVesting", infos |-> <<[orig |-> amount, start |-> start, end |-> end]>>]

-----------------------------------------------------------------------------
(* Deposits                                                                *)

normaliseExistingAccount(account) ==
  IF account.kind \in EthKinds THEN account ELSE [kind |-> "ethBase", infos |-> <<>>]

isRecipientOwnedByDepositor(e) == e.recipient \in {Null, e.depositor}

(* Mutant: only the modules' accounts are blocked.                         *)
IsAddressBlockedNoParams(a) == a \in Modules

IsAddressBlocked(a) == a \in Modules \cup Barred

(* int64 multiplication: lockup seconds as a time.Duration.                *)
Duration(lockup) ==
  LET m == MaxInt64 + 1 IN ((lockup * Nanos + m) % (2 * m)) - m

generateSequencerAccountFromEthereumDeposit(e) ==
  LET account == normaliseExistingAccount(acc[e.depositor])
      duration == Duration(e.lockup)
  IN IF duration > 0
     THEN AddVestingCoins(account, e.amount, startTime, startTime + (duration \div Nanos))
     ELSE account

mintToGovernanceAddress(amount) ==
  /\ bal' = [bal EXCEPT ![Gov] = @ + amount]
  /\ offset' = offset - amount
  /\ UNCHANGED acc

(* Mutant: what bank refuses to send stays with the bridge.                *)
MintAndSendKeep(accounts, to, amount) ==
  /\ bal' = [bal EXCEPT ![IF to \in Modules THEN Bridge ELSE to] = @ + amount]
  /\ acc' = IF to \notin Modules /\ accounts[to].kind = "none"
            THEN [accounts EXCEPT ![to].kind = "sdk"] ELSE accounts
  /\ offset' = offset - amount

(***************************************************************************)
(* Mints to the bridge and sends to the receiver, or to governance if bank *)
(* refuses a blocked receiver.  Bank creates an account where there is     *)
(* none.                                                                   *)
(***************************************************************************)
MintAndSend(accounts, to, amount) ==
  /\ bal' = [bal EXCEPT ![IF to \in Modules THEN Gov ELSE to] = @ + amount]
  /\ acc' = IF to \notin Modules /\ accounts[to].kind = "none"
            THEN [accounts EXCEPT ![to].kind = "sdk"] ELSE accounts
  /\ offset' = offset - amount

processDepositEvent(e) ==
  IF e.lockup = Unreadable \/ e.depositor = Unreadable \/ IsAddressBlocked(e.depositor)
  THEN mintToGovernanceAddress(e.amount)
  ELSE IF isRecipientOwnedByDepositor(e)
  THEN LET account == generateSequencerAccountFromEthereumDeposit(e)
       IN IF account = NoAccount
          THEN mintToGovernanceAddress(e.amount)
          ELSE MintAndSend([acc EXCEPT ![e.depositor] = account], e.depositor, e.amount)
  ELSE IF e.recipient = Unreadable
  THEN mintToGovernanceAddress(e.amount)
  ELSE MintAndSend(acc, e.recipient, e.amount)

(* What the handler panics for: an amount that does not parse and, after   *)
(* it, a lockup that is no int64 (Int64).                                  *)
Panics(e) ==
  IF e.amount = Unreadable THEN {"amount"}
  ELSE IF e.lockup # Unreadable /\ e.lockup > MaxInt64 THEN {"lockup"}
  ELSE {}

(* A panic undoes what the message did (TryExecSpecialMessage).            *)
DepositFromEthereum(e) ==
  /\ deposits < MaxDeposits /\ deposits' = deposits + 1
  /\ IF Panics(e) # {}
     THEN failed' = failed \cup Panics(e) /\ UNCHANGED <<acc, bal, offset, net>>
     ELSE processDepositEvent(e) /\ net' = net + e.amount /\ UNCHANGED failed
  /\ UNCHANGED <<del, startTime, now, updates>>

-----------------------------------------------------------------------------
(* What the owners do                                                      *)

(* A transfer in bank, which creates the account of the receiver.          *)
Send(from, to, amount) ==
  /\ from # to /\ amount <= Spendable(from)
  /\ bal' = [bal EXCEPT ![from] = @ - amount, ![to] = @ + amount]
  /\ acc' = IF acc[to].kind = "none" THEN [acc EXCEPT ![to].kind = "sdk"] ELSE acc
  /\ UNCHANGED <<del, offset, startTime, now, net, failed, deposits, updates>>

(* MsgCreateVestingAccount of the SDK, for an address without account.     *)
CreateVestingAccount(from, to, amount, end) ==
  /\ acc[to].kind = "none" /\ from # to /\ amount <= Spendable(from) /\ now < end
  /\ bal' = [bal EXCEPT ![from] = @ - amount, ![to] = @ + amount]
  /\ acc' = [acc EXCEPT ![to] = [kind |-> "sdkVesting",
                                 infos |-> <<[orig |-> amount, start |-> now, end |-> end]>>]]
  /\ UNCHANGED <<del, offset, startTime, now, net, failed, deposits, updates>>

(* Mutant: the SDK's rule, by which locked tokens may be delegated.        *)
DelegateLocked(a, amount) ==
  /\ amount <= bal[a]
  /\ bal' = [bal EXCEPT ![a] = @ - amount] /\ del' = [del EXCEPT ![a] = @ + amount]
  /\ UNCHANGED <<acc, offset, startTime, now, net, failed, deposits, updates>>

(* TrackDelegation panics unless the amount is spendable.                  *)
Delegate(a, amount) ==
  /\ amount <= bal[a] /\ amount <= Spendable(a)
  /\ bal' = [bal EXCEPT ![a] = @ - amount] /\ del' = [del EXCEPT ![a] = @ + amount]
  /\ UNCHANGED <<acc, offset, startTime, now, net, failed, deposits, updates>>

(* TrackUndelegation changes nothing.                                      *)
Undelegate(a, amount) ==
  /\ amount <= del[a]
  /\ bal' = [bal EXCEPT ![a] = @ + amount] /\ del' = [del EXCEPT ![a] = @ - amount]
  /\ UNCHANGED <<acc, offset, startTime, now, net, failed, deposits, updates>>

(* Mutant: burns without looking at the balance.                           *)
WithdrawUnchecked(a, amount) ==
  /\ bal' = [bal EXCEPT ![a] = @ - amount]
  /\ offset' = offset + amount /\ net' = net - amount
  /\ UNCHANGED <<acc, del, startTime, now, failed, deposits, updates>>

(* WithdrawToEthereum: BurnCoinsFromAddress takes spendable tokens.        *)
Withdraw(a, amount) ==
  /\ amount <= Spendable(a)
  /\ bal' = [bal EXCEPT ![a] = @ - amount]
  /\ offset' = offset + amount /\ net' = net - amount
  /\ UNCHANGED <<acc, del, startTime, now, failed, deposits, updates>>

UpdateParams(start) ==
  /\ updates < MaxUpdates /\ start # startTime
  /\ startTime' = start /\ updates' = updates + 1
  /\ UNCHANGED <<acc, bal, del, offset, now, net, failed, deposits>>

NextBlock ==
  /\ now < MaxTime /\ now' = now + 1
  /\ UNCHANGED <<acc, bal, del, offset, startTime, net, failed, deposits, updates>>

(* The bound on time is met.                                               *)
Finished == now = MaxTime /\ UNCHANGED vars

Next ==
  \/ \E e \in DepositEvent : DepositFromEthereum(e)
  \/ \E from, to \in Addrs, amount \in Amounts : Send(from, to, amount)
  \/ \E from, to \in Addrs, amount \in Amounts, end \in 1..MaxTime :
       CreateVestingAccount(from, to, amount, end)
  \/ \E a \in Addrs, amount \in Amounts : Delegate(a, amount)
  \/ \E a \in Addrs, amount \in Amounts : Undelegate(a, amount)
  \/ \E a \in Addrs, amount \in Amounts : Withdraw(a, amount)
  \/ \E start \in StartTimes : UpdateParams(start)
  \/ NextBlock
  \/ Finished

Spec == Init /\ [][Next]_vars

-----------------------------------------------------------------------------
(* Properties                                                              *)

(* Every variable holds a value of its type; no balance is negative.       *)
TypeOK ==
  /\ acc \in [Holders -> Account]
  /\ bal \in [Holders -> Nat] /\ del \in [Addrs -> Nat]
  /\ offset \in Int /\ net \in Nat /\ startTime \in StartTimes
  /\ now \in 0..MaxTime /\ failed \subseteq {"amount", "lockup"}
  /\ deposits \in 0..MaxDeposits /\ updates \in 0..MaxUpdates

(***************************************************************************)
(* What an account must keep locked is in its balance: a schedule never    *)
(* locks tokens that went elsewhere (a deposit that ends with governance,  *)
(* tokens that were delegated or withdrawn), which would lock later income *)
(* in their place (processDepositEvent, TrackDelegation).                  *)
(***************************************************************************)
LockedIsBacked == \A a \in Holders : LockedCoins(acc[a], now) <= bal[a]

(***************************************************************************)
(* A deposit that does not panic is minted exactly once, wherever the      *)
(* handler leaves by an error path, nothing stays with the bridge, and the *)
(* offset of the supply delta moves by the same amount.                    *)
(***************************************************************************)
DepositsMintedOnce ==
  /\ SumFunction(bal) + SumFunction(del) = net
  /\ bal[Bridge] = 0
  /\ offset = -net

(***************************************************************************)
(* An account that a blocked address names never becomes owned by an       *)
(* Ethereum address, whatever deposits name it as depositor or receiver.   *)
(***************************************************************************)
BlockedAreNotOwned == \A a \in Modules \cup Barred : acc[a].kind \notin EthKinds

(***************************************************************************)
(* "limiting the number of unique vesting schedules per account to at most *)
(* one per unique start date" (x/bridge/types/accounts.go): the schedules  *)
(* of an account start at different times, through any conversion of its   *)
(* type, and an account of one type has the number of schedules it allows. *)
(***************************************************************************)
SchedulesHaveDistinctStarts ==
  \A a \in Holders :
    /\ \A i, j \in DOMAIN acc[a].infos :
         acc[a].infos[i].start = acc[a].infos[j].start => i = j
    /\ acc[a].kind \in {"none", "sdk", "ethBase"} => acc[a].infos = <<>>
    /\ acc[a].kind \in {"sdkVesting", "ethVesting"} => Len(acc[a].infos) = 1
    /\ acc[a].kind = "ethMulti" => Len(acc[a].infos) > 1

(***************************************************************************)
(* Only time unlocks the tokens of an account that an Ethereum address     *)
(* owns: no deposit, conversion of the account or change of parameters     *)
(* makes them spendable earlier.  (For an SDK vesting account the code     *)
(* discards the schedule, as normaliseExistingAccount says.)               *)
(***************************************************************************)
OnlyTimeUnlocks ==
  [][\A a \in Holders :
       acc[a].kind \in EthKinds =>
         \A t \in now..MaxTime : LockedCoins(acc'[a], t) >= LockedCoins(acc[a], t)]_vars

(***************************************************************************)
(* "The only time processDepositEvent can panic is if we cannot parse the  *)
(* Amount of tokens"                                                       *)
(* (x/bridge/keeper/msg_server_deposit_from_ethereum_utils.go:18).         *)
(***************************************************************************)
PanicsOnlyOnAmount == failed \subseteq {"amount"}
=============================================================================
