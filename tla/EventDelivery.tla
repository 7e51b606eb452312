---------------------------- MODULE EventDelivery ----------------------------
(***************************************************************************)
(* What the bridge promises about the events of Ethereum, without blocks   *)
(* of the Sequencer, proposals, sidecars or sequence numbers: the log of   *)
(* the bridge contract is handed over in its order, a part at a time, and  *)
(* an Ethereum block counts as consumed exactly when its last event is     *)
(* handed over.  End[b] is the number of events up to and including block  *)
(* b.  BlockProduction implements this (ImplementsDelivery).               *)
(***************************************************************************)
EXTENDS Integers, Sequences

CONSTANTS Log, End, LastBlock

VARIABLES
  out,    \* what was handed over
  block   \* the last Ethereum block that is consumed

vars == <<out, block>>

Init == out = <<>> /\ block = 0

HandOver(n) == out' = SubSeq(Log, 1, n)

(* Some of the events that are left of the next block, but not the last.   *)
PartOfBlock ==
  /\ block < LastBlock
  /\ \E n \in (Len(out) + 1)..(End[block + 1] - 1) : HandOver(n)
  /\ block' = block

(* All that is left of the next block, which may be nothing.               *)
RestOfBlock ==
  /\ block < LastBlock
  /\ HandOver(End[block + 1])
  /\ block' = block + 1

Next == PartOfBlock \/ RestOfBlock

Spec == Init /\ [][Next]_vars
=============================================================================
