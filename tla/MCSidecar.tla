------------------------------ MODULE MCSidecar ------------------------------
(***************************************************************************)
(* Small instances of Sidecar for TLC.                                     *)
(***************************************************************************)
EXTENDS Sidecar

CONSTANT q1

EthLog(block, tx, index, event) ==
  [block |-> block, tx |-> tx, index |-> index, removed |-> FALSE, event |-> event]

(* Two events in one transaction of block 1, none in block 2, an event     *)
(* between a log that is not known and one that was removed in block 3,    *)
(* and two transactions in block 4.                                        *)
MCEthLogs ==
  <<EthLog(1, 0, 0, 1), EthLog(1, 0, 1, 2),
    EthLog(3, 0, 0, Unrecognized), EthLog(3, 1, 1, 3), [EthLog(3, 1, 2, 4) EXCEPT !.removed = TRUE],
    EthLog(4, 0, 0, 5), EthLog(4, 2, 3, 6)>>
=============================================================================
