----------------------------- MODULE Sequencing -----------------------------
(***************************************************************************)
(* The topics of x/sequencing: what MsgPostBlob checks and changes.  A     *)
(* rollup posts its blobs under a topic, one after the other; the first    *)
(* blob creates the topic and its sender owns it from then on.             *)
(*                                                                         *)
(* A blob is known by its size only.  Topic ids of the wrong length are    *)
(* the members of BadTopics.                                               *)
(***************************************************************************)
EXTENDS Integers

CONSTANTS
  Senders,    \* addresses that sign messages
  Topics,     \* ids of topics
  BadTopics,  \* ids that are not 32 bytes long
  NoOwner     \* the owner of a topic that is not in the store

ASSUME TopicAssumption == BadTopics \subseteq Topics /\ NoOwner \notin Senders \cup Topics

Topic == [owner : Senders \cup {NoOwner}, order : Nat]

NoTopic == [owner |-> NoOwner, order |-> 0]

(* DefaultGenesis of x/sequencing has no topics.                           *)
NoTopics == [t \in Topics |-> NoTopic]

HasTopic(topics, t) == topics[t].owner # NoOwner

(* Mutant: any later order will do.                                        *)
AcceptsBlobGap(topics, msg, maxBlobSizeBytes) ==
  /\ msg.size <= maxBlobSizeBytes
  /\ IF HasTopic(topics, msg.topic)
     THEN /\ topics[msg.topic].owner = msg.from
          /\ msg.order > topics[msg.topic].order
     ELSE msg.order = 0 /\ msg.topic \notin BadTopics

(* The checks of PostBlob: size, then owner and order, or for a new topic  *)
(* order zero and an id of the right length.                               *)
AcceptsBlob(topics, msg, maxBlobSizeBytes) ==
  /\ msg.size <= maxBlobSizeBytes
  /\ IF HasTopic(topics, msg.topic)
     THEN /\ topics[msg.topic].owner = msg.from
          /\ msg.order = topics[msg.topic].order + 1
     ELSE msg.order = 0 /\ msg.topic \notin BadTopics

SetTopic(topics, msg) ==
  [topics EXCEPT ![msg.topic] = [owner |-> msg.from, order |-> msg.order]]
=============================================================================
