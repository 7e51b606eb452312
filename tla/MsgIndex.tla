------------------------------ MODULE MsgIndex ------------------------------
(***************************************************************************)
(* The message MsgIndex of x/bridge, the first transaction of every block, *)
(* and its operations (x/bridge/types/message_index.go).  A message says   *)
(* how many event transactions follow it (num), whether the Ethereum block *)
(* it is about is consumed to its end (new) and the number of that         *)
(* Ethereum block (block).                                                 *)
(*                                                                         *)
(* TrimEventsFromHead and KeepEventsFromHead mutate a message together     *)
(* with the list of event transactions it announces; here both travel in a *)
(* record [ok, msg, txs], where ok is FALSE once the code returned an      *)
(* error.                                                                  *)
(***************************************************************************)
EXTENDS Integers, Sequences

Msg == [num : Nat, new : BOOLEAN, block : Nat]

IsFullEthereumSyncing(m) == m.new

IsPartialEthereumSyncing(m) == ~m.new /\ m.num > 0

NoEthereumSyncing(m) ==
  ~IsFullEthereumSyncing(m) /\ ~IsPartialEthereumSyncing(m)

(***************************************************************************)
(* The part of the encoded size that the operations below can change: an   *)
(* encoded message leaves out a field that holds zero or FALSE.            *)
(***************************************************************************)
MsgSize(m) == (IF m.num > 0 THEN 1 ELSE 0) + (IF m.new THEN 1 ELSE 0)

(* Mutant: asks every block for events, whatever the offset.               *)
ValidateBeforeProcessingStrict(m, lastBlockSynced, eventIndexOffset) ==
  /\ ~(eventIndexOffset >= 0 /\ m.num = 0)
  /\ m.block = lastBlockSynced + 1

ValidateBeforeProcessing(m, lastBlockSynced, eventIndexOffset) ==
  /\ ~(eventIndexOffset > 0 /\ m.num = 0)
  /\ m.block = lastBlockSynced + 1

Failed(g) == [g EXCEPT !.ok = FALSE]

(* Mutant: one event that is left counts as none.                          *)
TrimEventsFromHeadLast(g, n) ==
  IF n = 0 THEN g
  ELSE IF n + 1 >= g.msg.num THEN Failed(g)
  ELSE [g EXCEPT !.txs = SubSeq(g.txs, n + 1, Len(g.txs)), !.msg.num = g.msg.num - n]

(***************************************************************************)
(* Drops the first n transactions, the ones that earlier blocks executed.  *)
(* Trimming all of them is an error: the block would announce nothing.     *)
(***************************************************************************)
TrimEventsFromHead(g, n) ==
  LET rest == SubSeq(g.txs, n + 1, Len(g.txs))
      msg  == [g.msg EXCEPT !.num = Len(rest)]
  IN IF n = 0 THEN g
     ELSE IF n >= g.msg.num \/ MsgSize(msg) > MsgSize(g.msg) THEN Failed(g)
     ELSE [g EXCEPT !.txs = rest, !.msg = msg]

(* Mutant: leaves new as it was when the list gets shorter.                *)
KeepEventsFromHeadKeepNew(g, n) ==
  IF n = g.msg.num THEN g
  ELSE IF n = 0 \/ n > g.msg.num THEN Failed(g)
  ELSE [g EXCEPT !.txs = SubSeq(g.txs, 1, n), !.msg.num = n]

(* Mutant: takes a list that is kept to its end for one that got shorter.  *)
KeepEventsFromHeadNoReturn(g, n) ==
  IF n = 0 /\ g.msg.num = 0 THEN g
  ELSE IF n = 0 \/ n > g.msg.num THEN Failed(g)
  ELSE [g EXCEPT !.txs = SubSeq(g.txs, 1, n), !.msg.num = n, !.msg.new = FALSE]

(***************************************************************************)
(* Keeps the first n transactions.  A list that gets shorter means that    *)
(* the Ethereum block is not consumed to its end, so new becomes FALSE.    *)
(***************************************************************************)
KeepEventsFromHead(g, n) ==
  LET kept == SubSeq(g.txs, 1, n)
      msg  == [g.msg EXCEPT !.num = n, !.new = FALSE]
  IN IF n = g.msg.num THEN g
     ELSE IF n = 0 \/ n > g.msg.num \/ MsgSize(msg) > MsgSize(g.msg) THEN Failed(g)
     ELSE [g EXCEPT !.txs = kept, !.msg = msg]
=============================================================================
