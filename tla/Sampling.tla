------------------------------ MODULE Sampling ------------------------------
(***************************************************************************)
(* What the agent promises its server: every batch it hands over holds the *)
(* configured number of statements, all of one fingerprint, no two with    *)
(* the same text, and no collected statement is in two batches.            *)
(***************************************************************************)
EXTENDS Naturals, Sequences, Functions

CONSTANTS
  Msgs,          \* the collected statements
  FpOf,          \* FpOf[m]: the fingerprint of statement m
  InfoOf,        \* InfoOf[m]: the text of statement m
  RedisSampling  \* statements per batch, as configured

VARIABLE batches \* the batches handed over so far, in order

\* Even with RedisSampling = 0 the first statement of a fingerprint is kept.
BatchLen == IF RedisSampling = 0 THEN 1 ELSE RedisSampling

\* A batch: BatchLen statements of one fingerprint with different texts.
SoundBatch(b) ==
  /\ b \in Seq(Msgs)
  /\ Len(b) = BatchLen
  /\ \A i, j \in 1..Len(b) :
       /\ FpOf[b[i]] = FpOf[b[j]]
       /\ InfoOf[b[i]] = InfoOf[b[j]] => i = j

Fresh(b) == \A i \in DOMAIN batches : Range(b) \cap Range(batches[i]) = {}

Init == batches = <<>>

Next ==
  /\ Len(batches') = Len(batches) + 1
  /\ batches' = Append(batches, batches'[Len(batches')])
  /\ SoundBatch(batches'[Len(batches')])
  /\ Fresh(batches'[Len(batches')])

Spec == Init /\ [][Next]_batches
=============================================================================
