---------------------------- MODULE MCBridgeLedger ----------------------------
(***************************************************************************)
(* Small instances of BridgeLedger for TLC: two senders, two topics with   *)
(* ids of the right length and one without.                                *)
(***************************************************************************)
EXTENDS BridgeLedger, TLC

CONSTANTS alice, bob, t1, t2, t3

MCSenders == {alice, bob}
MCTopics == {t1, t2, t3}

(* Senders are treated alike, and so are t1 and t2.                        *)
Symmetry == Permutations({alice, bob}) \cup Permutations({t1, t2})
=============================================================================
