------------------------- MODULE MCBlockProduction -------------------------
(***************************************************************************)
(* Small instances of BlockProduction for TLC.                             *)
(***************************************************************************)
EXTENDS BlockProduction, TLC

CONSTANTS h1, h2, f

(* Powers 30, 45 and 25: the faulty validator has less than a third, and   *)
(* the quorums are the sets with more than two thirds.                     *)
MCQuorums == {{h1, h2}, {h2, f}, {h1, h2, f}}

(* A chain of one validator, for the questions about one proposal.         *)
MCSoloQuorums == {{h1}}

Deposit(payload, size) ==
  [type |-> "deposit", payload |-> payload, log |-> payload, size |-> size,
   authentic |-> TRUE, valid |-> TRUE]

Authorize(payload, size, authentic) ==
  [type |-> "authorize", payload |-> payload, log |-> payload, size |-> size,
   authentic |-> authentic, valid |-> TRUE]

(* Three events in block 1, none in block 2, two in block 3.               *)
MCEthLog == <<Deposit(1, 2), Authorize(2, 3, TRUE), Deposit(3, 2),
              Authorize(4, 2, FALSE), Authorize(5, 9, TRUE)>>

MCEnd == (0 :> 0) @@ (1 :> 3) @@ (2 :> 3) @@ (3 :> 5)

(* Two events in block 1, one in block 2, each small enough for the share  *)
(* of the block that a full mempool leaves to the events.                  *)
MCSmallEthLog == <<Deposit(1, 1), Authorize(2, 2, FALSE), Deposit(3, 1)>>

MCSmallEnd == (0 :> 0) @@ (1 :> 2) @@ (2 :> 3)

(* Three deposits in block 1 and two in block 2, of which one depositor    *)
(* made two with the same amount and lockup.                               *)
MCRepeatedEthLog == <<Deposit(1, 2), Deposit(2, 2), Deposit(3, 2), Deposit(3, 2), Deposit(4, 2)>>

MCRepeatedEnd == (0 :> 0) @@ (1 :> 3) @@ (2 :> 5)

MCGenesisUpdateTimes == {NotFound, 0}

(* A mempool that is empty, one with a small transaction, and one that     *)
(* holds more than a block can take.                                       *)
MCMempools ==
  {<<>>, <<NativeTx(5, 2, 1)>>,
   <<NativeTx(1, 4, 1), NativeTx(2, 7, 1), NativeTx(3, 1, 3), NativeTx(4, 1, 1)>>}

(* No native transactions, or more than a block can take.                  *)
MCFewMempools ==
  {<<>>, <<NativeTx(1, 4, 1), NativeTx(2, 7, 1), NativeTx(3, 1, 3), NativeTx(4, 1, 1)>>}

(* Mempools on both sides of the share of the native transactions, and of  *)
(* the limits on bytes and gas.                                            *)
MCManyMempools ==
  MCMempools \cup
  {SubSeq(<<NativeTx(1, size, gas), NativeTx(2, size, gas),
            NativeTx(3, size, gas), NativeTx(4, size, gas)>>, 1, n) :
     n \in 1..4, size \in {1, 2, 3}, gas \in {1, 2}}
=============================================================================
