------------------------- MODULE BlockStream_proofs -------------------------
(***************************************************************************)
(* The abstract stream keeps its promise, for any set of blocks.           *)
(***************************************************************************)
EXTENDS BlockStream, TLAPS

BlocksAreNumbers == Blocks \subseteq Nat /\ NoBlock \notin Nat

StreamTypeOK ==
  /\ position \in Blocks \cup {NoBlock}
  /\ checkpoint \in Blocks \cup {NoBlock}
  /\ origin \in Blocks \cup {NoBlock}

(***************************************************************************)
(* The stream up to the position is complete, and announced but for the    *)
(* position itself; the checkpoint does not lie ahead of the position.     *)
(***************************************************************************)
StreamInv ==
  /\ StreamTypeOK
  /\ position # NoBlock =>
       /\ origin # NoBlock
       /\ \A n \in Nat : origin <= n /\ n <= position => n \in complete
       /\ \A n \in Nat : origin <= n /\ n < position => n \in announced
  /\ checkpoint # NoBlock =>
       /\ position # NoBlock /\ checkpoint <= position
       /\ checkpoint \in announced

LEMMA StreamInit == Init => StreamInv
BY DEF Init, StreamInv, StreamTypeOK

LEMMA StreamStep ==
  ASSUME BlocksAreNumbers, StreamInv, [Next]_streamVars
  PROVE  StreamInv'
<1> USE DEF BlocksAreNumbers
<1>1. ASSUME NEW b \in Blocks, Rework(b)
      PROVE  StreamInv'
  <2>1. position # NoBlock =>
          \A n \in Nat : origin <= n /\ n <= position => n \in complete \ {b}
    BY <1>1 DEF Rework, IsNext, StreamInv, StreamTypeOK
  <2>2. QED
    BY <1>1, <2>1 DEF Rework, StreamInv, StreamTypeOK
<1>2. ASSUME NEW b \in Blocks, Complete(b)
      PROVE  StreamInv'
  BY <1>2 DEF Complete, StreamInv, StreamTypeOK
<1>3. ASSUME NEW b \in Blocks, Advance(b)
      PROVE  StreamInv'
  <2>1. CASE position = NoBlock
    BY <1>3, <2>1 DEF Advance, StreamInv, StreamTypeOK
  <2>2. CASE position # NoBlock
    BY <1>3, <2>2 DEF Advance, IsNext, StreamInv, StreamTypeOK
  <2>3. QED
    BY <2>1, <2>2
<1>4. CASE Announce
  BY <1>4 DEF Announce, StreamInv, StreamTypeOK
<1>5. CASE Restart
  BY <1>5 DEF Restart, StreamInv, StreamTypeOK
<1>6. CASE UNCHANGED streamVars
  BY <1>6 DEF streamVars, StreamInv, StreamTypeOK
<1>7. QED
  BY <1>1, <1>2, <1>3, <1>4, <1>5, <1>6 DEF Next

(***************************************************************************)
(* Everything from the beginning of the stream to the checkpoint is        *)
(* complete and announced.                                                 *)
(***************************************************************************)
THEOREM CheckpointIsCovered ==
  ASSUME BlocksAreNumbers
  PROVE  Spec => []CheckpointCovers
<1>1. StreamInv => CheckpointCovers
  BY DEF BlocksAreNumbers, StreamInv, StreamTypeOK, CheckpointCovers
<1>2. StreamInv /\ [Next]_streamVars => StreamInv'
  BY StreamStep
<1>3. QED
  BY <1>1, <1>2, StreamInit, PTL DEF Spec
=============================================================================
