---------------------------- MODULE MCEthAccounts ----------------------------
(***************************************************************************)
(* Small instances of EthAccounts for TLC.  An int64 is at most 7 and a    *)
(* second has three nanoseconds: a lockup of 1 or 2 is a duration, one of  *)
(* 5 overflows to a negative one, one of 6 to less than a second, and one  *)
(* of 8 is no int64.                                                       *)
(***************************************************************************)
EXTENDS EthAccounts

CONSTANTS alice, val
=============================================================================
