-------------------------- MODULE CommitmentsProofs --------------------------
(***************************************************************************)
(* Proofs about Commitments: for chains, results, ranges and widths of any *)
(* size, commitments are those of the chain and inclusion proofs verify.   *)
(***************************************************************************)
EXTENDS Commitments, TLAPS

(* The leaf that the chain defines for a height.                           *)
LeafAt(h) == [height |-> h, lastResultsHash |-> LastResultsHash(h)]

(* What the validation of a request leaves true while it is served.        *)
ValidRequest ==
  /\ req.start >= 1 /\ req.start < req.end
  /\ req.end - req.start <= MaxQueryRange /\ req.end <= Height + 1
  /\ req.kind = "proof" => req.height \in req.start..(req.end - 1)

(* The leaves fetched so far are those of the first blocks of the range.   *)
LeavesAreTheChains ==
  /\ req.start + Len(leaves) <= req.end
  /\ \A i \in 1..Len(leaves) : leaves[i] = LeafAt(req.start + i - 1)

(***************************************************************************)
(* The inductive invariant.                                                *)
(***************************************************************************)
IInv ==
  /\ TypeOK /\ Height <= MaxHeight
  /\ pc = "idle" => leaves = <<>>
  /\ pc \in {"fetch", "ok"} => ValidRequest /\ LeavesAreTheChains
  /\ CommitmentsAreTheChains
  /\ ProofsVerify

(* The chain before the first request.                                     *)
LEMMA InitIInv == Init => IInv
<1> SUFFICES ASSUME Init PROVE IInv
  OBVIOUS
<1>1. chain \in Seq(Seq(Results)) /\ Height = 1
  BY DEF Init, Height
<1>2. req \in Request
  BY CommitmentsAssumption DEF Init, NoRequest, Request
<1>3. leaves \in Seq(Leaf) /\ Len(leaves) = 0
  BY DEF Init
<1>4. TypeOK
  BY <1>1, <1>2, <1>3, CommitmentsAssumption DEF TypeOK, Init
<1> QED
  BY <1>1, <1>4, CommitmentsAssumption
  DEF IInv, Init, CommitmentsAreTheChains, ProofsVerify

(* A new block changes no leaf of a range that was valid before it.        *)
LEMMA LeavesStay ==
  ASSUME IInv, NEW results \in Seq(Results), NewBlock(results), ValidRequest
  PROVE  /\ \A h \in req.start..(req.end - 1) : LastResultsHash(h)' = LastResultsHash(h)
         /\ Commitment(req.start, req.end)' = Commitment(req.start, req.end)
<1>1. chain \in Seq(Seq(Results)) /\ req \in Request
  BY DEF IInv, TypeOK
<1>2. req.start \in Nat /\ req.end \in Nat
  BY <1>1, CommitmentsAssumption DEF Request
<1>3. chain' = Append(chain, results) /\ req' = req
  BY DEF NewBlock
<1>4. \A k \in 1..Len(chain) : chain'[k] = chain[k]
  BY <1>1, <1>3
<1>5. ASSUME NEW h \in req.start..(req.end - 1)
      PROVE  LastResultsHash(h)' = LastResultsHash(h)
  <2>1. h = 1 \/ h - 1 \in 1..Len(chain)
    BY <1>1, <1>2 DEF ValidRequest, Height
  <2> QED
    BY <2>1, <1>4 DEF LastResultsHash
<1>6. \A i \in 1..(req.end - req.start) :
        LastResultsHash(req.start + i - 1)' = LastResultsHash(req.start + i - 1)
  <2> TAKE i \in 1..(req.end - req.start)
  <2>1. req.start + i - 1 \in req.start..(req.end - 1)
    BY <1>2
  <2> QED
    BY ONLY <2>1, <1>3, <1>5, SMTT(30)
<1>7. Commitment(req.start, req.end)' = Commitment(req.start, req.end)
  BY <1>3, <1>6 DEF Commitment
<1> QED
  BY ONLY <1>5, <1>7, SMTT(30)

(* The node commits a block.                                               *)
LEMMA NewBlockIInv ==
  ASSUME IInv, NEW results \in Seq(Results), NewBlock(results)
  PROVE  IInv'
<1>1. /\ chain \in Seq(Seq(Results)) /\ chain' = Append(chain, results)
      /\ UNCHANGED <<base, pc, req, leaves, answer>>
  BY DEF IInv, TypeOK, NewBlock
<1>2. Height' = Height + 1 /\ Height \in Nat /\ Height' <= MaxHeight
  BY <1>1, CommitmentsAssumption DEF Height, NewBlock
<1>3. TypeOK'
  BY <1>1, <1>2 DEF IInv, TypeOK
<1>4. ASSUME pc \in {"fetch", "ok"}
      PROVE  ValidRequest' /\ LeavesAreTheChains'
  <2>1. ValidRequest /\ LeavesAreTheChains
    BY <1>4 DEF IInv
  <2>2. ValidRequest'
    BY <1>1, <1>2, <2>1, CommitmentsAssumption DEF ValidRequest, IInv, TypeOK, Request
  <2>3. ASSUME NEW i \in 1..Len(leaves)
        PROVE  leaves[i] = LeafAt(req.start + i - 1)'
    <3>1. req.start + i - 1 \in req.start..(req.end - 1)
      BY <2>1, CommitmentsAssumption, SMTT(30) DEF LeavesAreTheChains, IInv, TypeOK, Request
    <3>2. LastResultsHash(req.start + i - 1)' = LastResultsHash(req.start + i - 1)
      BY <1>1, <2>1, <3>1, LeavesStay
    <3> QED
      BY <1>1, <2>1, <3>2 DEF LeavesAreTheChains, LeafAt
  <2> QED
    BY <1>1, <2>1, <2>2, <2>3 DEF LeavesAreTheChains
<1>5. ASSUME pc = "ok"
      PROVE  Commitment(req.start, req.end)' = Commitment(req.start, req.end)
  BY <1>5, LeavesStay DEF IInv
<1>6. CommitmentsAreTheChains'
  BY <1>1, <1>5 DEF IInv, CommitmentsAreTheChains
<1>7. ProofsVerify'
  BY <1>1, <1>5 DEF IInv, ProofsVerify, Verify
<1> QED
  BY <1>1, <1>2, <1>3, <1>4, <1>6, <1>7 DEF IInv

(* Steps that change neither the chain nor the request keep what the chain *)
(* defines for the request.                                                *)
LEMMA SameChain ==
  ASSUME UNCHANGED <<chain, req>>
  PROVE  /\ ValidRequest' = ValidRequest
         /\ \A h : LastResultsHash(h)' = LastResultsHash(h)
         /\ \A h : LeafAt(h)' = LeafAt(h)
         /\ Commitment(req.start, req.end)' = Commitment(req.start, req.end)
<1>1. \A h : LastResultsHash(h)' = LastResultsHash(h)
  BY DEF LastResultsHash
<1>2. \A h : LeafAt(h)' = LeafAt(h)
  BY <1>1 DEF LeafAt
<1>3. Commitment(req.start, req.end)' = Commitment(req.start, req.end)
  BY <1>1 DEF Commitment
<1> QED
  BY <1>1, <1>2, <1>3 DEF ValidRequest, Height

(* The node prunes its first block.                                        *)
LEMMA PruneIInv == ASSUME IInv, Prune PROVE IInv'
<1>1. UNCHANGED <<chain, pc, req, leaves, answer>> /\ base' = base + 1 /\ base < Height
  BY DEF Prune
<1>2. TypeOK' /\ Height' <= MaxHeight
  BY <1>1 DEF IInv, TypeOK, Height
<1>3. LeavesAreTheChains' = LeavesAreTheChains
  BY <1>1, SameChain DEF LeavesAreTheChains
<1>4. CommitmentsAreTheChains' /\ ProofsVerify'
  BY <1>1, SameChain DEF IInv, CommitmentsAreTheChains, ProofsVerify, Verify
<1> QED
  BY <1>1, <1>2, <1>3, <1>4, SameChain DEF IInv

(***************************************************************************)
(* A request is validated.  A negative height becomes a large number,      *)
(* which is not in the range.                                              *)
(***************************************************************************)
LEMMA ReceiveIInv ==
  ASSUME IInv, NEW r \in Request, Receive(r)
  PROVE  IInv'
<1>1. /\ UNCHANGED <<chain, base, leaves, answer>> /\ req' = r
      /\ leaves = <<>> /\ pc' \in {"fetch", "error"}
  BY DEF Receive, IInv
<1>2. Height \in Nat /\ Height <= MaxHeight /\ Height' = Height
  BY <1>1 DEF IInv, TypeOK, Height
<1>3. /\ r.start \in Nat /\ r.end \in Nat /\ r.height \in Int /\ r.height >= -1
      /\ r.kind \in {"commitment", "proof"}
  BY CommitmentsAssumption DEF Request
<1>4. TypeOK' /\ Height' <= MaxHeight
  BY <1>1, <1>2 DEF IInv, TypeOK
<1>5. ASSUME pc' = "fetch" PROVE ValidRequest'
  <2>1. /\ r.start >= 1 /\ r.start < r.end
        /\ r.end - r.start <= MaxQueryRange /\ r.end <= Height + 1
    BY <1>3, <1>5 DEF Receive, validateBridgeCommitmentRange,
                      validateBridgeCommitmentInclusionProofRequest
  <2>2. ASSUME r.kind = "proof" PROVE r.height \in r.start..(r.end - 1)
    <3>1. uint64(r.height) >= r.start /\ uint64(r.height) < r.end
      BY <1>5, <2>2 DEF Receive, validateBridgeCommitmentInclusionProofRequest
    <3> QED
      BY <1>2, <1>3, <2>1, <3>1, CommitmentsAssumption DEF uint64
  <2> QED
    BY <1>1, <1>2, <2>1, <2>2 DEF ValidRequest
<1>6. ASSUME pc' = "fetch" PROVE LeavesAreTheChains'
  BY <1>1, <1>3, <1>5, <1>6 DEF LeavesAreTheChains, ValidRequest
<1> QED
  BY <1>1, <1>4, <1>5, <1>6 DEF IInv, CommitmentsAreTheChains, ProofsVerify

(* One iteration of the loop that fetches the leaves.                      *)
LEMMA FetchLeafIInv == ASSUME IInv, FetchLeaf PROVE IInv'
<1> DEFINE h == req.start + Len(leaves)
<1>1. /\ UNCHANGED <<chain, base, req>> /\ pc = "fetch" /\ h < req.end
      /\ answer' = answer /\ pc' \in {"fetch", "error"}
  BY DEF FetchLeaf, Fail
<1>2. ValidRequest /\ LeavesAreTheChains
  BY <1>1 DEF IInv
<1>3. /\ leaves \in Seq(Leaf) /\ req.start \in Nat /\ req.end \in Nat
      /\ chain \in Seq(Seq(Results)) /\ MaxQueryRange \in Nat
  BY CommitmentsAssumption DEF IInv, TypeOK, Request
<1>4. Height' <= MaxHeight
  BY <1>1 DEF IInv, Height
<1>5. CASE pc' = "error" /\ leaves' = leaves
  <2>1. TypeOK'
    BY <1>1, <1>5 DEF IInv, TypeOK, Height
  <2> QED
    BY <1>4, <1>5, <2>1 DEF IInv, CommitmentsAreTheChains, ProofsVerify
<1>6. CASE pc' = "fetch" /\ leaves' = Append(leaves, LeafAt(h))
  <2>1. LeafAt(h) \in Leaf
    <3>0. Len(leaves) \in Nat /\ Len(chain) \in Nat /\ h \in Nat
      BY <1>3
    <3>1. h = 1 \/ h - 1 \in 1..Len(chain)
      <4>1. h >= 1 /\ h < Len(chain) + 1
        BY ONLY <1>1, <1>2, <1>3, <3>0, SMTT(30) DEF ValidRequest, Height
      <4> QED
        BY <3>0, <4>1
    <3>2. LastResultsHash(h) \in Seq(Results)
      BY <1>3, <3>1 DEF LastResultsHash
    <3> QED
      BY <3>0, <3>2 DEF LeafAt, Leaf
  <2>2. leaves' \in Seq(Leaf) /\ Len(leaves') = Len(leaves) + 1
    BY <1>3, <1>6, <2>1
  <2>3. TypeOK'
    BY <1>1, <1>2, <1>3, <1>6, <2>2 DEF IInv, TypeOK, Height, ValidRequest
  <2>4. ASSUME NEW i \in 1..Len(leaves') PROVE leaves'[i] = LeafAt(req.start + i - 1)
    <3>1. CASE i \in 1..Len(leaves)
      BY <1>2, <1>3, <1>6, <2>1, <3>1 DEF LeavesAreTheChains
    <3>2. CASE i = Len(leaves) + 1
      <4>1. leaves'[i] = LeafAt(h)
        BY <1>3, <1>6, <2>1, <3>2
      <4>2. h = req.start + i - 1
        BY <1>3, <3>2
      <4> QED
        BY <4>1, <4>2
    <3> QED
      BY <1>3, <2>2, <3>1, <3>2
  <2>5. LeavesAreTheChains'
    BY ONLY <1>1, <1>3, <2>2, <2>4, SameChain, SMTT(30) DEF LeavesAreTheChains
  <2> QED
    BY ONLY <1>1, <1>2, <1>4, <1>6, <2>3, <2>5, SameChain, SMTT(30)
    DEF IInv, CommitmentsAreTheChains, ProofsVerify
<1> QED
  BY <1>1, <1>5, <1>6 DEF FetchLeaf, Fail, LeafAt

(* With all leaves fetched, they are the commitment of the range.          *)
LEMMA AllLeaves ==
  ASSUME IInv, pc = "fetch", req.start + Len(leaves) = req.end
  PROVE  leaves = Commitment(req.start, req.end)
<1>1. ValidRequest /\ LeavesAreTheChains
  BY DEF IInv
<1>2. leaves \in Seq(Leaf) /\ req.start \in Nat /\ req.end \in Nat
  BY CommitmentsAssumption DEF IInv, TypeOK, Request
<1>3. Len(leaves) = req.end - req.start
  BY <1>2
<1>4. leaves = [i \in 1..(req.end - req.start) |-> leaves[i]]
  BY <1>2, <1>3
<1>5. \A i \in 1..(req.end - req.start) : leaves[i] = LeafAt(req.start + i - 1)
  BY <1>1, <1>3 DEF LeavesAreTheChains
<1> QED
  BY <1>4, <1>5 DEF Commitment, LeafAt

(* The answer to a request for a commitment.                               *)
LEMMA BridgeCommitmentIInv == ASSUME IInv, BridgeCommitment PROVE IInv'
<1>1. /\ UNCHANGED <<chain, base, req, leaves>> /\ pc = "fetch" /\ pc' = "ok"
      /\ req.kind = "commitment" /\ answer' = [root |-> leaves]
      /\ req.start + Len(leaves) = req.end
  BY DEF BridgeCommitment
<1>2. TypeOK' /\ Height' <= MaxHeight
  BY <1>1 DEF IInv, TypeOK, Height
<1>3. ValidRequest' /\ LeavesAreTheChains'
  BY <1>1, SameChain DEF IInv, LeavesAreTheChains
<1>4. CommitmentsAreTheChains'
  BY <1>1, AllLeaves, SameChain DEF CommitmentsAreTheChains
<1> QED
  BY <1>1, <1>2, <1>3, <1>4 DEF IInv, ProofsVerify

(* The leaf of an inclusion proof is that of the requested height.         *)
LEMMA RequestedLeaf ==
  ASSUME IInv, pc = "fetch", req.kind = "proof", req.start + Len(leaves) = req.end
  PROVE  LET blockIndex == req.height - leaves[1].height
         IN /\ blockIndex + 1 \in DOMAIN leaves
            /\ leaves[blockIndex + 1] = LeafAt(req.height)
<1>1. ValidRequest /\ LeavesAreTheChains
  BY DEF IInv
<1>2. leaves \in Seq(Leaf) /\ req.start \in Nat /\ req.end \in Nat
  BY CommitmentsAssumption DEF IInv, TypeOK, Request
<1>3. req.height \in req.start..(req.end - 1) /\ Len(leaves) \in Nat /\ Len(leaves) >= 1
  BY <1>1, <1>2 DEF ValidRequest
<1>4. leaves[1].height = req.start
  <2>1. leaves[1] = LeafAt(req.start + 1 - 1)
    BY <1>1, <1>3 DEF LeavesAreTheChains
  <2> QED
    BY <1>2, <2>1 DEF LeafAt
<1> DEFINE i == req.height - req.start + 1
<1>5. i \in 1..Len(leaves) /\ req.start + i - 1 = req.height
  BY <1>2, <1>3
<1>6. leaves[i] = LeafAt(req.height)
  BY <1>1, <1>5 DEF LeavesAreTheChains
<1> QED
  BY <1>2, <1>4, <1>5, <1>6

(***************************************************************************)
(* The answer to a request for an inclusion proof.  The block whose        *)
(* results are under the leaf is the one before the leaf's.                *)
(***************************************************************************)
LEMMA InclusionProofIInv == ASSUME IInv, BridgeCommitmentInclusionProof PROVE IInv'
<1> DEFINE blockIndex == req.height - leaves[1].height
           h == ResultsHeight(req.height)
<1>1. /\ UNCHANGED <<chain, base, req>> /\ pc = "fetch" /\ req.kind = "proof"
      /\ req.start + Len(leaves) = req.end /\ leaves' = leaves
      /\ pc' \in {"ok", "error"}
  BY DEF BridgeCommitmentInclusionProof, Fail
<1>2. TypeOK' /\ Height' <= MaxHeight
  BY <1>1 DEF IInv, TypeOK, Height
<1>3. ValidRequest' /\ LeavesAreTheChains'
  BY <1>1, SameChain DEF IInv, LeavesAreTheChains
<1>4. ASSUME pc' = "ok" PROVE ProofsVerify'
  <2>1. /\ blockIndex + 1 \in DOMAIN leaves
        /\ leaves[blockIndex + 1] = LeafAt(req.height)
    BY <1>1, RequestedLeaf
  <2>2. leaves = Commitment(req.start, req.end)'
    BY <1>1, AllLeaves, SameChain
  <2>3. /\ answer'.leaf = LeafAt(req.height)
        /\ answer'.leafProof = Prove(leaves, blockIndex)
    BY <1>1, <1>4, <2>1 DEF BridgeCommitmentInclusionProof, Fail
  <2>4. Verify(Commitment(req.start, req.end), answer.leaf, answer.leafProof)'
    BY <2>1, <2>2, <2>3 DEF Verify, Prove
  <2>5. answer'.leaf.height = req.height
    BY <2>3 DEF LeafAt
  <2>6. HasBlock(h)
    BY <1>1, <1>4 DEF BridgeCommitmentInclusionProof, Fail
  <2>7. /\ h = req.height - 1 /\ h \in 1..Len(chain)
    BY <2>6 DEF HasBlock, ResultsHeight, Height, IInv, TypeOK
  <2>8. answer'.leaf.lastResultsHash = chain[h] /\ chain[h] \in Seq(Results)
    <3>1. req.height \in Int
      BY CommitmentsAssumption DEF IInv, TypeOK, Request
    <3>2. LastResultsHash(req.height) = chain[h]
      BY <2>7, <3>1 DEF LastResultsHash
    <3> QED
      BY <2>3, <2>7, <3>2 DEF LeafAt, IInv, TypeOK
  <2>9. CASE /\ chain[h] = <<>> /\ answer'.result = None
    BY <1>1, <2>4, <2>5, <2>8, <2>9, ZenonT(30) DEF ProofsVerify
  <2>10. CASE /\ req.txIndex < Len(chain[h])
              /\ answer'.result = chain[h][req.txIndex + 1]
              /\ answer'.resultProof = Prove(chain[h], req.txIndex)
    <3>1. req.txIndex + 1 \in 1..Len(chain[h])
      <4>1. req.txIndex \in Nat
        BY CommitmentsAssumption DEF IInv, TypeOK, Request
      <4> QED
        BY <2>8, <2>10, <4>1
    <3>2. answer'.result # None
      BY ONLY <2>8, <2>10, <3>1, CommitmentsAssumption, SMTT(30)
    <3>3. /\ answer'.resultProof.index = req.txIndex
          /\ Verify(answer.leaf.lastResultsHash, answer.result, answer.resultProof)'
      BY <2>8, <2>10, <3>1 DEF Verify, Prove
    <3> QED
      BY <1>1, <2>4, <2>5, <3>2, <3>3, ZenonT(30) DEF ProofsVerify
  <2> QED
    BY <1>1, <1>4, <2>9, <2>10 DEF BridgeCommitmentInclusionProof, Fail
<1> QED
  BY <1>1, <1>2, <1>3, <1>4, ZenonT(30) DEF IInv, CommitmentsAreTheChains, ProofsVerify

(* The answer is sent.                                                     *)
LEMMA ReplyIInv == ASSUME IInv, Reply PROVE IInv'
<1>1. /\ UNCHANGED <<chain, base>> /\ pc' = "idle" /\ req' = NoRequest /\ leaves' = <<>>
  BY DEF Reply
<1>2. req' \in Request
  BY <1>1, CommitmentsAssumption DEF NoRequest, Request
<1>3. leaves' \in Seq(Leaf) /\ Len(leaves') = 0
  BY <1>1
<1>4. TypeOK' /\ Height' <= MaxHeight
  BY <1>1, <1>2, <1>3, CommitmentsAssumption DEF IInv, TypeOK, Height
<1> QED
  BY <1>1, <1>4 DEF IInv, CommitmentsAreTheChains, ProofsVerify

(* Every step keeps the invariant.                                         *)
LEMMA NextIInv == IInv /\ [Next]_vars => IInv'
<1> SUFFICES ASSUME IInv, [Next]_vars PROVE IInv'
  OBVIOUS
<1>1. ASSUME NEW results \in SeqOf(Results, MaxTxs), NewBlock(results) PROVE IInv'
  <2>1. results \in Seq(Results)
    BY <1>1, CommitmentsAssumption DEF SeqOf
  <2> QED
    BY <1>1, <2>1, NewBlockIInv
<1>2. CASE Prune
  BY <1>2, PruneIInv
<1>3. ASSUME NEW r \in Request, Receive(r) PROVE IInv'
  BY <1>3, ReceiveIInv
<1>4. CASE FetchLeaf
  BY <1>4, FetchLeafIInv
<1>5. CASE BridgeCommitment
  BY <1>5, BridgeCommitmentIInv
<1>6. CASE BridgeCommitmentInclusionProof
  BY <1>6, InclusionProofIInv
<1>7. CASE Reply
  BY <1>7, ReplyIInv
<1>8. CASE UNCHANGED vars
  <2>1. UNCHANGED <<chain, base, pc, req, leaves, answer>>
    BY <1>8 DEF vars
  <2>2. TypeOK' /\ Height' <= MaxHeight
    BY <2>1 DEF IInv, TypeOK, Height
  <2>3. LeavesAreTheChains' = LeavesAreTheChains
    BY ONLY <2>1, SameChain, SMTT(30) DEF LeavesAreTheChains
  <2>4. CommitmentsAreTheChains' /\ ProofsVerify'
    BY <2>1, SameChain DEF IInv, CommitmentsAreTheChains, ProofsVerify, Verify
  <2> QED
    BY <2>1, <2>2, <2>3, <2>4, SameChain DEF IInv
<1> QED
  BY <1>1, <1>2, <1>3, <1>4, <1>5, <1>6, <1>7, <1>8, ZenonT(30) DEF Next

(* The inductive invariant holds in every state.                           *)
LEMMA InvariantHolds == Spec => []IInv
<1>1. Init => IInv
  BY InitIInv
<1>2. IInv /\ [Next]_vars => IInv'
  BY NextIInv
<1> QED
  BY <1>1, <1>2, PTL DEF Spec

(***************************************************************************)
(* Variables keep their types, and no request loads more than              *)
(* MaxQueryRange commits (validateBridgeCommitmentRange).                  *)
(***************************************************************************)
THEOREM TypeCorrect == Spec => []TypeOK
<1>1. IInv => TypeOK
  BY DEF IInv
<1> QED
  BY <1>1, InvariantHolds, PTL

(***************************************************************************)
(* For every chain, range and interleaving with new and pruned blocks, the *)
(* root that BridgeCommitment returns is the one of the chain.             *)
(***************************************************************************)
THEOREM CommitmentsAlwaysTheChains == Spec => []CommitmentsAreTheChains
<1>1. IInv => CommitmentsAreTheChains
  BY DEF IInv
<1> QED
  BY <1>1, InvariantHolds, PTL

(***************************************************************************)
(* Every proof that BridgeCommitmentInclusionProof returns verifies        *)
(* against the commitment of its range.                                    *)
(***************************************************************************)
THEOREM ProofsAlwaysVerify == Spec => []ProofsVerify
<1>1. IInv => ProofsVerify
  BY DEF IInv
<1> QED
  BY <1>1, InvariantHolds, PTL
=============================================================================
