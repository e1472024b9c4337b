------------------------------ MODULE Listener ------------------------------
(***************************************************************************)
(* listener.py: the process that follows the chain.  It asks the node for  *)
(* the latest block, reads its cursor (latest_block_update), inspects the  *)
(* next block that is at least Lag blocks old, moves the cursor, sends the *)
(* block to the export queue, pings the health check, and goes round.      *)
(*                                                                         *)
(* The cursor moves inside the session's transaction and nothing commits   *)
(* it: the first commit of the next block's inspection does.  So there are *)
(* two cursors, the committed one and the session's, and a stop or a crash *)
(* loses the second.                                                       *)
(*                                                                         *)
(* The event loop runs one coroutine.  SIGTERM cancels it, and takes       *)
(* effect where it awaits (AwaitPoints) or at the top of the loop; the     *)
(* writes of an inspection contain no await.  An exception anywhere ends   *)
(* the process: main() logs it, and nothing but an operator starts the     *)
(* listener again.                                                         *)
(***************************************************************************)
EXTENDS InspectBlocks

CONSTANTS
  Lag,        \* BLOCK_NUMBER_LAG, 5 in the code
  NoBlock,    \* the value of a cursor that is not there
  MaxDepth,   \* how many blocks at the head a reorganisation may replace
  MaxForks,   \* bound: how many reorganisations happen
  MaxKills,   \* bound: how many times a listener crashes
  MaxStops    \* bound: how many times it is told to stop

ASSUME LagAssumption == Lag \in Nat /\ Lag < MaxBlock
ASSUME NoBlockAssumption == NoBlock \notin Nat
ASSUME DepthAssumption == MaxDepth \in Nat
ASSUME ListenerBoundAssumption ==
  MaxForks \in Nat /\ MaxKills \in Nat /\ MaxStops \in Nat

VARIABLES
  head,        \* the number of the latest block
  chain,       \* chain[b]: which version of block b is on the chain
  forks,       \* how many reorganisations happened
  pc,          \* pc[p]: where listener p is
  blk,         \* blk[p]: block_number of the turn p is in
  pendCursor,  \* pendCursor[p]: p's uncommitted latest_block_update
  cursor,      \* the committed latest_block_update
  stopping,    \* stopping[p]: SIGTERM was sent to p
  sent,        \* the blocks whose export was enqueued
  fetched,     \* fetched[p]: the version of blk[p] that the node returned
  stored,      \* history: the version that the last finished run of b wrote
  base,        \* history: the first block since the cursor last was absent
  kills, stops \* how many crashes and stop commands happened

chainVars == <<head, chain, forks>>
listenerVars == <<pc, blk, pendCursor, cursor, stopping, sent, fetched,
                  stored, base>>
boundVars == <<kills, stops>>
vars == <<storeVars, chainVars, listenerVars, boundVars>>

Locations == {"down", "poll", "inspect", "update", "send", "ping", "sleep"}
Cursor == Blocks \cup {NoBlock}

ListenerTypeOK ==
  /\ TypeOK
  /\ head \in Blocks /\ forks \in Nat
  /\ chain \in [Blocks -> Nat]
  /\ pc \in [Inspectors -> Locations]
  /\ blk \in [Inspectors -> Cursor]
  /\ pendCursor \in [Inspectors -> Cursor]
  /\ cursor \in Cursor
  /\ stopping \in [Inspectors -> BOOLEAN]
  /\ sent \subseteq Blocks
  /\ fetched \in [Inspectors -> Nat]
  /\ stored \in [Blocks -> Nat \cup {NoBlock}]
  /\ base \in Cursor
  /\ kills \in Nat /\ stops \in Nat

Init ==
  /\ InitStore
  /\ head = Lag + 1
  /\ chain = [b \in Blocks |-> 0]
  /\ forks = 0
  /\ pc = [p \in Inspectors |-> "down"]
  /\ blk = [p \in Inspectors |-> NoBlock]
  /\ pendCursor = [p \in Inspectors |-> NoBlock]
  /\ cursor = NoBlock
  /\ stopping = [p \in Inspectors |-> FALSE]
  /\ sent = {}
  /\ fetched = [p \in Inspectors |-> 0]
  /\ stored = [b \in Blocks |-> NoBlock]
  /\ base = NoBlock
  /\ kills = 0 /\ stops = 0

-----------------------------------------------------------------------------
(* The chain.                                                              *)

Mine ==
  /\ head < MaxBlock
  /\ head' = head + 1
  /\ UNCHANGED <<storeVars, chain, forks, listenerVars, boundVars>>

(***************************************************************************)
(* The last d blocks are replaced by as many others.                       *)
(***************************************************************************)
Reorganise(d) ==
  /\ forks < MaxForks
  /\ d < head
  /\ forks' = forks + 1
  /\ chain' = [b \in Blocks |-> IF head - d < b THEN forks + 1 ELSE chain[b]]
  /\ UNCHANGED <<storeVars, head, listenerVars, boundVars>>

-----------------------------------------------------------------------------
(* One turn of the loop.                                                   *)

(***************************************************************************)
(* The listener awaits here: the node (poll, fetch), the health check,     *)
(* asyncio.sleep.                                                          *)
(***************************************************************************)
AtAwait(p) ==
  \/ pc[p] \in {"poll", "ping", "sleep"}
  \/ pc[p] = "inspect" /\ job[p].phase = "fetch"

(* After a signal an await raises CancelledError instead of returning. *)
Resumes(p) == AtAwait(p) => ~stopping[p]

(***************************************************************************)
(* The cursor as p's own session reads it.                                 *)
(***************************************************************************)
CommittedCursorOnly(p) == cursor   \* Defect: read in another session

SessionCursor(p) ==
  IF pendCursor[p] # NoBlock THEN pendCursor[p] ELSE cursor

(* Defect: the comparison lets one unsettled block through. *)
IsDueEarly(b) == b <= head - Lag + 1 /\ b <= head

IsDue(b) == b <= head - Lag

(* Defect: one is added to a cursor that already names the next block. *)
NextBlockTwoOn(p) ==
  IF SessionCursor(p) = NoBlock THEN head - Lag ELSE SessionCursor(p) + 2

(* Defect: the listener always goes to the newest settled block. *)
NextBlockNewest(p) == head - Lag

(***************************************************************************)
(* The next block: the one after the cursor, or, without a cursor, the     *)
(* newest one that is old enough.                                          *)
(***************************************************************************)
NextBlock(p) ==
  IF SessionCursor(p) = NoBlock THEN head - Lag ELSE SessionCursor(p) + 1

Poll(p) ==
  /\ pc[p] = "poll" /\ Resumes(p)
  /\ LET b == NextBlock(p)
     IN  IF IsDue(b)
           THEN /\ Begin(p, b, b + 1)
                /\ blk' = [blk EXCEPT ![p] = b]
                /\ base' = IF SessionCursor(p) = NoBlock THEN b ELSE base
                /\ pc' = [pc EXCEPT ![p] = "inspect"]
           ELSE /\ pc' = [pc EXCEPT ![p] = "sleep"]
                /\ UNCHANGED <<storeVars, blk, base>>
  /\ UNCHANGED <<pendCursor, cursor, stopping, sent, fetched, stored,
                 chainVars, boundVars>>

(***************************************************************************)
(* The node's answer for the block.                                        *)
(***************************************************************************)
InspectFetch(p) ==
  /\ pc[p] = "inspect" /\ Resumes(p)
  /\ FetchBlock(p)
  /\ fetched' = [fetched EXCEPT ![p] = chain[blk[p]]]
  /\ UNCHANGED <<pc, blk, pendCursor, cursor, stopping, sent, stored, base,
                 chainVars, boundVars>>

(***************************************************************************)
(* The deletes commit; the first of them commits the cursor of the block   *)
(* before.                                                                 *)
(***************************************************************************)
InspectDelete(p) ==
  /\ pc[p] = "inspect"
  /\ DeleteTable(p)
  /\ cursor' = SessionCursor(p)
  /\ pendCursor' = [pendCursor EXCEPT ![p] = NoBlock]
  /\ UNCHANGED <<pc, blk, stopping, sent, fetched, stored, base,
                 chainVars, boundVars>>

InspectWrite(p) ==
  /\ pc[p] = "inspect"
  /\ WriteTable(p) \/ SummaryDelete(p) \/ SummaryArbitrages(p)
  /\ UNCHANGED <<chainVars, listenerVars, boundVars>>

(***************************************************************************)
(* inspect_single_block returns.                                           *)
(***************************************************************************)
InspectReturn(p) ==
  /\ pc[p] = "inspect"
  /\ SummaryLiquidations(p)
  /\ stored' = [stored EXCEPT ![blk[p]] = fetched[p]]
  /\ pc' = [pc EXCEPT ![p] = "update"]
  /\ UNCHANGED <<blk, pendCursor, cursor, stopping, sent, fetched, base,
                 chainVars, boundVars>>

(***************************************************************************)
(* Defect: update_latest_block commits.                                    *)
(***************************************************************************)
UpdateLatestBlockCommitted(p) ==
  /\ pc[p] = "update"
  /\ cursor' = blk[p]
  /\ pc' = [pc EXCEPT ![p] = "send"]
  /\ UNCHANGED <<storeVars, blk, pendCursor, stopping, sent, fetched, stored,
                 base, chainVars, boundVars>>

(***************************************************************************)
(* The UPDATE waits for the row if another session has it; the transaction *)
(* stays open.                                                             *)
(***************************************************************************)
UpdateLatestBlock(p) ==
  /\ pc[p] = "update"
  /\ \A q \in Inspectors \ {p} : pendCursor[q] = NoBlock
  /\ pendCursor' = [pendCursor EXCEPT ![p] = blk[p]]
  /\ pc' = [pc EXCEPT ![p] = "send"]
  /\ UNCHANGED <<storeVars, blk, cursor, stopping, sent, fetched, stored,
                 base, chainVars, boundVars>>

SendExport(p) ==
  /\ pc[p] = "send"
  /\ sent' = sent \cup {blk[p]}
  /\ pc' = [pc EXCEPT ![p] = "ping"]
  /\ UNCHANGED <<storeVars, blk, pendCursor, cursor, stopping, fetched,
                 stored, base, chainVars, boundVars>>

(***************************************************************************)
(* The health check (a step that does nothing when no URL is set) and the  *)
(* sleep of five seconds end the turn.                                     *)
(***************************************************************************)
EndTurn(p) ==
  /\ pc[p] \in {"ping", "sleep"} /\ Resumes(p)
  /\ pc' = [pc EXCEPT ![p] = "poll"]
  /\ UNCHANGED <<storeVars, blk, pendCursor, cursor, stopping, sent, fetched,
                 stored, base, chainVars, boundVars>>

-----------------------------------------------------------------------------
(* Starting and ending the process.                                        *)

Start(p) ==
  /\ \A q \in Inspectors : pc[q] = "down"
  /\ pc' = [pc EXCEPT ![p] = "poll"]
  /\ UNCHANGED <<storeVars, blk, pendCursor, cursor, stopping, sent, fetched,
                 stored, base, chainVars, boundVars>>

(***************************************************************************)
(* Defect: the session commits when it is closed.                          *)
(***************************************************************************)
GoneCommitting(p) ==
  /\ Rollback(p)
  /\ rows' = Committed(rows, p, pend[p])
  /\ pc' = [pc EXCEPT ![p] = "down"]
  /\ pendCursor' = [pendCursor EXCEPT ![p] = NoBlock]
  /\ stopping' = [stopping EXCEPT ![p] = FALSE]
  /\ UNCHANGED <<summary, runs, last, done,
                 blk, cursor, sent, fetched, stored, base, chainVars>>

(***************************************************************************)
(* The process is gone and its database session with it.                   *)
(***************************************************************************)
Gone(p) ==
  /\ Rollback(p)
  /\ pc' = [pc EXCEPT ![p] = "down"]
  /\ pendCursor' = [pendCursor EXCEPT ![p] = NoBlock]
  /\ stopping' = [stopping EXCEPT ![p] = FALSE]
  /\ UNCHANGED <<rows, summary, runs, last, done,
                 blk, cursor, sent, fetched, stored, base, chainVars>>

(* SIGTERM or SIGINT. *)
Stop(p) ==
  /\ stops < MaxStops
  /\ pc[p] # "down" /\ ~stopping[p]
  /\ stops' = stops + 1
  /\ stopping' = [stopping EXCEPT ![p] = TRUE]
  /\ UNCHANGED <<storeVars, chainVars, pc, blk, pendCursor, cursor, sent,
                 fetched, stored, base, kills>>

(* Defect: the signal ends the process wherever it is. *)
ExitAnywhere(p) ==
  /\ stopping[p] /\ pc[p] # "down"
  /\ Gone(p)
  /\ UNCHANGED boundVars

Exit(p) ==
  /\ stopping[p] /\ AtAwait(p)
  /\ Gone(p)
  /\ UNCHANGED boundVars

(***************************************************************************)
(* The process is killed, or one of its calls raises: the node, the        *)
(* database, the broker or the health check does not answer.               *)
(***************************************************************************)
Kill(p) ==
  /\ kills < MaxKills
  /\ pc[p] # "down"
  /\ kills' = kills + 1
  /\ Gone(p)
  /\ UNCHANGED stops

-----------------------------------------------------------------------------
Step(p) ==
  \/ Poll(p)
  \/ InspectFetch(p)
  \/ InspectDelete(p)
  \/ InspectWrite(p)
  \/ InspectReturn(p)
  \/ UpdateLatestBlock(p)
  \/ SendExport(p)
  \/ EndTurn(p)
  \/ Start(p)
  \/ Exit(p)

Next ==
  \/ \E p \in Inspectors : Step(p) \/ Stop(p) \/ Kill(p)
  \/ Mine
  \/ \E d \in 1 .. MaxDepth : Reorganise(d)

Spec == Init /\ [][Next]_vars

(***************************************************************************)
(* The event loop runs what is ready, the node and the broker answer in    *)
(* the end (or the attempt counts as a Kill), and somebody starts the      *)
(* listener again when it is down.                                         *)
(***************************************************************************)
FairSpec == Spec /\ \A p \in Inspectors : WF_vars(Step(p))

-----------------------------------------------------------------------------
(* The abstract stream that the listener implements.                       *)

(***************************************************************************)
(* Where the listener is: the cursor of the session that is open.          *)
(***************************************************************************)
Position ==
  IF \E p \in Inspectors : pendCursor[p] # NoBlock
    THEN pendCursor[CHOOSE p \in Inspectors : pendCursor[p] # NoBlock]
    ELSE cursor

Stream == INSTANCE BlockStream
  WITH position   <- Position,
       checkpoint <- cursor,
       origin     <- IF Position = NoBlock THEN NoBlock ELSE base,
       complete   <- {b \in Blocks : last[b] \in done},
       announced  <- sent

(***************************************************************************)
(* The listener is an in-order, at-least-once stream of blocks: see        *)
(* BlockStream for what each of its steps may do.                          *)
(***************************************************************************)
ImplementsStream == Stream!Spec

(***************************************************************************)
(* Its inspections are exclusive ones, crashes included: all that          *)
(* InspectBlocks shows of ExclusiveSpec holds for what the listener writes. *)
(***************************************************************************)
InspectsExclusively == ExclusiveSpec

-----------------------------------------------------------------------------
(* Properties.                                                             *)

(***************************************************************************)
(* The cursor that a restart will read never runs ahead of the data: every *)
(* block from the first one up to it has been inspected by a run that      *)
(* returned, and is not being rewritten.                                   *)
(***************************************************************************)
CursorCovers ==
  cursor # NoBlock => \A b \in base .. cursor : last[b] \in done

(***************************************************************************)
(* Nor does it run ahead of the exports: a block that a restart will not   *)
(* inspect again has been sent to the export queue, although the cursor is *)
(* moved before the block is sent.                                         *)
(***************************************************************************)
CursorIsExported ==
  cursor # NoBlock => base .. cursor \subseteq sent

(***************************************************************************)
(* A block is inspected only when no reorganisation can replace it any     *)
(* more (given that none is deeper than Lag): what is stored is what is on *)
(* the chain.                                                              *)
(***************************************************************************)
StoredIsSettled ==
  \A b \in Blocks : stored[b] # NoBlock => stored[b] = chain[b]

(***************************************************************************)
(* A listener that is only ever stopped by signals leaves no block half    *)
(* written: once it is down, every block that it began to rewrite is       *)
(* complete.                                                               *)
(***************************************************************************)
StopLeavesNoHalfBlock ==
  kills = 0 /\ (\A p \in Inspectors : pc[p] = "down") =>
    \A b \in Blocks : last[b] = 0 \/ last[b] \in done

(***************************************************************************)
(* Every block that becomes old enough while there is a cursor is          *)
(* inspected and sent in the end, whatever stops and crashes happen.       *)
(***************************************************************************)
EveryDueBlockIsSent ==
  \A b \in Blocks :
    (cursor # NoBlock /\ cursor < b /\ b <= head - Lag) ~> (b \in sent)

(***************************************************************************)
(* README: the listener "will pick up wherever you left off": the blocks   *)
(* it works through have no gap.                                           *)
(***************************************************************************)
NoSkippedBlocks ==
  \A a, c \in sent : \A b \in Blocks : a < b /\ b < c => b \in sent
=============================================================================
