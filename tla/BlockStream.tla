----------------------------- MODULE BlockStream -----------------------------
(***************************************************************************)
(* What the listener promises, without the database and the event loop: a  *)
(* stream of blocks in chain order, each completed and then announced, at  *)
(* least once, with a durable checkpoint that trails the work and to which *)
(* a restart falls back.                                                   *)
(***************************************************************************)
EXTENDS Integers

CONSTANTS
  Blocks,   \* the numbers of the blocks
  NoBlock   \* a position that is not there, no number

VARIABLES
  position,    \* the last block this life of the listener has behind it
  checkpoint,  \* the block a restart falls back to
  origin,      \* the block the stream began with
  complete,    \* the blocks whose data is complete
  announced    \* the blocks that were announced

streamVars == <<position, checkpoint, origin, complete, announced>>

Init ==
  /\ position = NoBlock
  /\ checkpoint = NoBlock
  /\ origin = NoBlock
  /\ complete = {}
  /\ announced = {}

(* Block b is the next in the stream; without a position any block is. *)
IsNext(b) == position # NoBlock => b = position + 1

(***************************************************************************)
(* The data of the next block is taken apart.  Only now does the position  *)
(* become durable, and by now it has been announced.                       *)
(***************************************************************************)
Rework(b) ==
  /\ IsNext(b)
  /\ position # NoBlock => position \in announced
  /\ checkpoint' = position
  /\ complete' = complete \ {b}
  /\ UNCHANGED <<position, origin, announced>>

Complete(b) ==
  /\ IsNext(b)
  /\ complete' = complete \cup {b}
  /\ UNCHANGED <<position, checkpoint, origin, announced>>

Advance(b) ==
  /\ IsNext(b)
  /\ b \in complete
  /\ position # NoBlock => position \in announced
  /\ position' = b
  /\ origin' = IF position = NoBlock THEN b ELSE origin
  /\ UNCHANGED <<checkpoint, complete, announced>>

Announce ==
  /\ position # NoBlock
  /\ announced' = announced \cup {position}
  /\ UNCHANGED <<position, checkpoint, origin, complete>>

Restart ==
  /\ position' = checkpoint
  /\ origin' = IF checkpoint = NoBlock THEN NoBlock ELSE origin
  /\ UNCHANGED <<checkpoint, complete, announced>>

Next ==
  \/ \E b \in Blocks : Rework(b) \/ Complete(b) \/ Advance(b)
  \/ Announce
  \/ Restart

Spec == Init /\ [][Next]_streamVars

(***************************************************************************)
(* Whatever a restart will not visit again, from the beginning of the      *)
(* stream up to the checkpoint, is complete and has been announced.        *)
(***************************************************************************)
CheckpointCovers ==
  checkpoint # NoBlock =>
    origin .. checkpoint \subseteq complete \cap announced
=============================================================================
