---------------------------- MODULE Commitments ----------------------------
(***************************************************************************)
(* The queries of x/commitments: the Merkle root over the results of a     *)
(* range of blocks, and the proof that a transaction's result is under it. *)
(* The handler asks its node for the latest height, then for one commit    *)
(* after the other, then for the results of a block, while the chain grows *)
(* and the node prunes old blocks.                                         *)
(*                                                                         *)
(* Hashes are ideal: the root over a list of leaves is the list, and a     *)
(* Merkle proof is the list with an index.  Block h's header has the hash  *)
(* of the results of block h - 1 (CometBFT's LastResultsHash).             *)
(***************************************************************************)
EXTENDS Integers, Sequences, SequencesExt

CONSTANTS
  Results,        \* results of transactions
  MaxTxs,         \* bound: transactions in a block
  MaxHeight,      \* bound: blocks
  MaxQueryRange,  \* commitments.max-query-range
  MaxUint64,      \* the largest uint64
  None            \* no result: the block has no transactions

ASSUME CommitmentsAssumption ==
  /\ MaxTxs \in Nat /\ MaxHeight \in Nat \ {0} /\ MaxQueryRange \in Nat
  /\ MaxUint64 \in Nat /\ MaxHeight < MaxUint64 /\ None \notin Results

VARIABLES
  chain,   \* results of the blocks, by height
  base,    \* the first height that the node has not pruned
  pc,      \* the handler: "idle", "fetch", "ok" or "error"
  req,     \* the request
  leaves,  \* the leaves fetched so far
  answer   \* the answer to the request

vars == <<chain, base, pc, req, leaves, answer>>

Height == Len(chain)

Leaf == [height : Nat, lastResultsHash : Seq(Results)]

(* A request for a commitment has no height and no index.                  *)
Request ==
  [kind : {"commitment"}, start : 0..(MaxHeight + 2), end : 0..(MaxHeight + 2),
   height : {0}, txIndex : {0}]
  \cup [kind : {"proof"}, start : 0..(MaxHeight + 2), end : 0..(MaxHeight + 2),
        height : -1..(MaxHeight + 1), txIndex : 0..MaxTxs]

NoRequest == [kind |-> "commitment", start |-> 0, end |-> 0, height |-> 0, txIndex |-> 0]
NoAnswer == [root |-> <<>>]

Init ==
  /\ chain = << <<>> >> /\ base = 1
  /\ pc = "idle" /\ req = NoRequest /\ leaves = <<>> /\ answer = NoAnswer

-----------------------------------------------------------------------------
(* The node                                                                *)

NewBlock(results) ==
  /\ Height < MaxHeight
  /\ chain' = Append(chain, results)
  /\ UNCHANGED <<base, pc, req, leaves, answer>>

Prune ==
  /\ base < Height
  /\ base' = base + 1
  /\ UNCHANGED <<chain, pc, req, leaves, answer>>

HasBlock(h) == h \in base..Height

LastResultsHash(h) == IF h = 1 THEN <<>> ELSE chain[h - 1]

-----------------------------------------------------------------------------
(* The handler                                                             *)

uint64(n) == IF n < 0 THEN n + MaxUint64 + 1 ELSE n

(* Mutant: a range of any length.                                          *)
validateBridgeCommitmentRangeAny(start, end) ==
  /\ start # 0 /\ start < end
  /\ end <= Height + 1

validateBridgeCommitmentRange(start, end) ==
  /\ start # 0 /\ start < end
  /\ end - start <= MaxQueryRange
  /\ end <= Height + 1

validateBridgeCommitmentInclusionProofRequest(height, start, end) ==
  /\ validateBridgeCommitmentRange(start, end)
  /\ height >= start /\ height < end

Receive(r) ==
  /\ pc = "idle"
  /\ req' = r
  /\ pc' = IF \/ r.kind = "commitment" /\ validateBridgeCommitmentRange(r.start, r.end)
              \/ /\ r.kind = "proof"
                 /\ validateBridgeCommitmentInclusionProofRequest(uint64(r.height), r.start, r.end)
           THEN "fetch" ELSE "error"
  /\ UNCHANGED <<chain, base, leaves, answer>>

Fail == pc' = "error" /\ UNCHANGED <<leaves, answer>>

(* Mutant: a block that the node does not have gives an empty leaf.        *)
FetchLeafMissing ==
  LET h == req.start + Len(leaves)
      hash == IF HasBlock(h) THEN LastResultsHash(h) ELSE <<>>
  IN /\ pc = "fetch" /\ h < req.end
     /\ leaves' = Append(leaves, [height |-> h, lastResultsHash |-> hash])
     /\ UNCHANGED <<chain, base, pc, req, answer>>

(* One iteration of the loop in fetchBridgeCommitmentLeaves.               *)
FetchLeaf ==
  LET h == req.start + Len(leaves)
  IN /\ pc = "fetch" /\ h < req.end
     /\ \/ /\ HasBlock(h)
           /\ leaves' = Append(leaves, [height |-> h, lastResultsHash |-> LastResultsHash(h)])
           /\ UNCHANGED <<pc, answer>>
        \/ ~HasBlock(h) /\ Fail
     /\ UNCHANGED <<chain, base, req>>

(* The root over the leaves, for a commitment.                             *)
BridgeCommitment ==
  /\ pc = "fetch" /\ req.start + Len(leaves) = req.end
  /\ req.kind = "commitment"
  /\ answer' = [root |-> leaves] /\ pc' = "ok"
  /\ UNCHANGED <<chain, base, req, leaves>>

(* Merkle proofs (external): of a leaf in a list, and their verification.  *)
Prove(items, index) == [items |-> items, index |-> index]
Verify(root, leaf, proof) ==
  /\ proof.items = root /\ proof.index + 1 \in DOMAIN root
  /\ root[proof.index + 1] = leaf

(* Mutant: the results of the block itself.                                *)
ResultsHeightSame(height) == height

(* The height of the block whose results are in the header at height.      *)
ResultsHeight(height) == height - 1

(***************************************************************************)
(* The proof of the leaf, and of the result in it.  Without transactions   *)
(* in the block only the former is given.                                  *)
(***************************************************************************)
BridgeCommitmentInclusionProof ==
  LET blockIndex == req.height - leaves[1].height
      h == ResultsHeight(req.height)
      leaf == leaves[blockIndex + 1]
      leafProof == Prove(leaves, blockIndex)
  IN /\ pc = "fetch" /\ req.start + Len(leaves) = req.end
     /\ req.kind = "proof"
     /\ \/ ~HasBlock(h) /\ Fail
        \/ /\ HasBlock(h) /\ chain[h] = <<>> /\ req.txIndex = 0
           /\ answer' = [leaf |-> leaf, leafProof |-> leafProof, result |-> None]
           /\ pc' = "ok" /\ UNCHANGED leaves
        \/ HasBlock(h) /\ chain[h] = <<>> /\ req.txIndex > 0 /\ Fail
        \/ HasBlock(h) /\ chain[h] # <<>> /\ req.txIndex >= Len(chain[h]) /\ Fail
        \/ /\ HasBlock(h) /\ req.txIndex < Len(chain[h])
           /\ answer' = [leaf |-> leaf, leafProof |-> leafProof,
                         result |-> chain[h][req.txIndex + 1],
                         resultProof |-> Prove(chain[h], req.txIndex)]
           /\ pc' = "ok" /\ UNCHANGED leaves
     /\ UNCHANGED <<chain, base, req>>

(* The answer is sent; the next request shares nothing with this one.      *)
Reply ==
  /\ pc \in {"ok", "error"}
  /\ pc' = "idle" /\ req' = NoRequest /\ leaves' = <<>> /\ answer' = NoAnswer
  /\ UNCHANGED <<chain, base>>

Next ==
  \/ \E results \in SeqOf(Results, MaxTxs) : NewBlock(results)
  \/ Prune
  \/ \E r \in Request : Receive(r)
  \/ FetchLeaf
  \/ BridgeCommitment
  \/ BridgeCommitmentInclusionProof
  \/ Reply

Spec == Init /\ [][Next]_vars

-----------------------------------------------------------------------------
(* Properties                                                              *)

(* Every variable holds a value of its type, and no request makes the node *)
(* load more than MaxQueryRange commits.                                   *)
TypeOK ==
  /\ chain \in Seq(Seq(Results)) /\ base \in 1..Height
  /\ pc \in {"idle", "fetch", "ok", "error"} /\ req \in Request
  /\ leaves \in Seq(Leaf) /\ Len(leaves) <= MaxQueryRange

(* The commitment that the chain itself defines for a range.               *)
Commitment(start, end) ==
  [i \in 1..(end - start) |->
     [height |-> start + i - 1, lastResultsHash |-> LastResultsHash(start + i - 1)]]

(***************************************************************************)
(* A commitment covers the blocks of its range, each once and in order,    *)
(* with the results that the chain has for them, although blocks are added *)
(* and pruned while its leaves are fetched.  Every node that answers gives *)
(* the same root, then and later.                                          *)
(***************************************************************************)
CommitmentsAreTheChains ==
  pc = "ok" /\ req.kind = "commitment" => answer.root = Commitment(req.start, req.end)

(***************************************************************************)
(* An inclusion proof verifies against the commitment for its range: the   *)
(* leaf is the one of the requested height, and the result is under the    *)
(* hash in the leaf, at the requested index; without a result, the leaf    *)
(* has none.  (The results in header h are those of block h - 1.)          *)
(***************************************************************************)
ProofsVerify ==
  pc = "ok" /\ req.kind = "proof" =>
    /\ Verify(Commitment(req.start, req.end), answer.leaf, answer.leafProof)
    /\ answer.leaf.height = req.height
    /\ IF answer.result = None
       THEN answer.leaf.lastResultsHash = <<>>
       ELSE /\ answer.resultProof.index = req.txIndex
            /\ Verify(answer.leaf.lastResultsHash, answer.result, answer.resultProof)
=============================================================================
