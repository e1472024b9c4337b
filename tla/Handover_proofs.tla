--------------------------- MODULE Handover_proofs ---------------------------
(***************************************************************************)
(* Listeners that overlap, for any number of them, any lag, chain length   *)
(* and number of stop commands: no step moves the committed cursor back,   *)
(* and nothing behind it is lost, whichever of them collide.               *)
(***************************************************************************)
EXTENDS Handover, InspectBlocks_proofs

-----------------------------------------------------------------------------
(* The inductive invariant.                                                *)

(* p holds a cursor that it will commit before it comes to an await again. *)
MayCommit(p) ==
  /\ pendCursor[p] # NoBlock
  /\ ~stopping[p] \/ (pc[p] = "inspect" /\ job[p].phase # "fetch")

(* p inspects a block after which it will move the cursor. *)
Fresh(p) ==
  ~stopping[p] /\ pc[p] \in {"inspect", "update"} /\ pendCursor[p] = NoBlock

(* What the process does agrees with what its session does. *)
PlaceOK(p) ==
  /\ Active(p) <=> pc[p] = "inspect"
  /\ pc[p] = "inspect" =>
       /\ blk[p] \in Blocks /\ job[p].after = blk[p] /\ job[p].before = blk[p] + 1
       /\ job[p].run # 0
       /\ job[p].phase = "fetch" => job[p].tab = 1
       /\ Touched(p) => last[blk[p]] # 0
  /\ pc[p] \in {"update", "send"} => blk[p] \in Blocks /\ last[blk[p]] # 0
  /\ pc[p] = "down" => ~stopping[p]

(* The cursor that p has moved names a block that is written and sent. *)
PendCursorOK(p) ==
  /\ pendCursor[p] # NoBlock =>
       /\ pc[p] \notin {"down", "update"}
       /\ last[pendCursor[p]] # 0
       /\ pendCursor[p] \in sent \/ (pc[p] = "send" /\ blk[p] = pendCursor[p])
       /\ pc[p] = "inspect" =>
            blk[p] = pendCursor[p] + 1 /\ job[p].phase \in {"fetch", "delete"}
  /\ MayCommit(p) => pendCursor[p] \in {cursor, cursor + 1}
  /\ Fresh(p) => blk[p] \in {cursor, cursor + 1}

(***************************************************************************)
(* One listener at most was not told to stop; one holds the cursor's row;  *)
(* and a listener that was will not commit a cursor beyond the block that  *)
(* the new one inspects.                                                   *)
(***************************************************************************)
Apart(p, q) ==
  /\ pc[p] = "down" \/ stopping[p] \/ pc[q] = "down" \/ stopping[q]
  /\ pendCursor[p] = NoBlock \/ pendCursor[q] = NoBlock
  /\ Fresh(p) /\ MayCommit(q) => pendCursor[q] <= blk[p]

CursorInv ==
  /\ ListenerTypeOK
  /\ cursor \in Blocks /\ base = 1
  /\ \A b \in 1 .. cursor : b \in sent /\ last[b] # 0
  /\ \A p \in Inspectors : PlaceOK(p) /\ PendCursorOK(p)
  /\ \A p, q \in Inspectors : p # q => Apart(p, q)

HandoverInv == SharedInv /\ CursorInv

-----------------------------------------------------------------------------
(* The initial states.                                                     *)

LEMMA OneIsABlock == 1 \in Blocks /\ Lag + 1 \in Blocks /\ MaxBlock \in Nat /\ NoBlock # 1
BY BlockAssumption, LagAssumption, NoBlockAssumption DEF Blocks

LEMMA HandoverBegins == HandoverInit => HandoverInv
<1> SUFFICES ASSUME HandoverInit
             PROVE  HandoverInv
  OBVIOUS
<1>1. ExpectedSummary(1, 1) \subseteq SummaryRow
  BY DEF ExpectedSummary, ExpectedArbitrages, SummaryRow
<1>2. TypeOK
  BY <1>1, TableFacts, OneIsABlock DEF HandoverInit, TypeOK, NoRows, NoJob, Phases
<1>3. ListenerTypeOK
  BY <1>2, OneIsABlock, LagAssumption DEF HandoverInit, ListenerTypeOK, Locations, Cursor
<1>4. ASSUME NEW b \in Blocks, NEW i \in 0 .. NumTables
      PROVE  Filled(i, b) <=> b = 1
  <2>1. CASE i = 0
    BY <2>1, NoBlockAssumption DEF HandoverInit, Filled
  <2>2. CASE i # 0
    <3>1. Tables[i] \in TableNames
      BY <2>2, TableFacts
    <3>2. rows[Tables[i]] = [NoRows EXCEPT ![1] = {1}]
      BY <3>1 DEF HandoverInit
    <3>3. rows[Tables[i]][b] = IF b = 1 THEN {1} ELSE {}
      BY <3>2 DEF NoRows
    <3> QED
      BY <2>2, <3>3 DEF Filled
  <2> QED
    BY <2>1, <2>2
<1>5. Summed(1)
  <2>1. summary[1] = ExpectedSummary(1, 1)
    BY OneIsABlock DEF HandoverInit, NoRows
  <2> DEFINE arb == [type |-> "arbitrage", from |-> 1, by |-> 1]
             liq == [type |-> "liquidation", from |-> 1, by |-> 1]
  <2>2. arb.type = "arbitrage" /\ (1 \notin SandwichLegs => arb \in summary[1])
    BY <2>1 DEF ExpectedSummary, ExpectedArbitrages
  <2>3. liq.type = "liquidation" /\ liq \in summary[1]
    BY <2>1 DEF ExpectedSummary
  <2> QED
    BY <2>2, <2>3 DEF Summed, HasType
<1>6. ASSUME NEW b \in Blocks
      PROVE  LaterTablesFollow(b) /\ SummaryFollows(b)
  <2>1. LaterTablesFollow(b)
    <3>1. \A j \in 1 .. NumTables : j \in 0 .. NumTables
      BY TableFacts
    <3> QED
      BY <1>4, <3>1 DEF LaterTablesFollow
  <2>2. SummaryFollows(b)
    <3>1. 1 \in 1 .. NumTables /\ 1 \in 0 .. NumTables
      BY TableFacts
    <3>2. (\A i \in 1 .. NumTables : Filled(i, b)) => b = 1
      BY <1>4, <3>1
    <3> QED
      BY <1>5, <3>2 DEF SummaryFollows
  <2> QED
    BY <2>1, <2>2
<1>7. SharedInv
  BY <1>2, <1>6 DEF HandoverInit, SharedInv, PendOK
<1>8. \A p \in Inspectors : PlaceOK(p) /\ PendCursorOK(p)
  BY DEF HandoverInit, PlaceOK, PendCursorOK, Active, NoJob, MayCommit, Fresh
<1>9. \A p, q \in Inspectors : p # q => Apart(p, q)
  BY DEF HandoverInit, Apart, Fresh
<1>10. cursor \in Blocks /\ base = 1 /\ \A b \in 1 .. cursor : b \in sent /\ last[b] # 0
  BY OneIsABlock DEF HandoverInit
<1> QED
  BY <1>3, <1>7, <1>8, <1>9, <1>10 DEF HandoverInv, CursorInv

-----------------------------------------------------------------------------
(* What a step means for the database.                                     *)

LEMMA OneBlockEach ==
  ASSUME CursorInv, NEW p \in Inspectors, Active(p)
  PROVE  Span(p) = {blk[p]} /\ Alike(p) /\ blk[p] \in Blocks
<1>1. /\ blk[p] \in Blocks /\ job[p].after = blk[p] /\ job[p].before = blk[p] + 1
  BY DEF CursorInv, PlaceOK
<1>2. Span(p) = {blk[p]}
  BY <1>1, BlockAssumption DEF Span, Blocks
<1> QED
  BY <1>1, <1>2 DEF Alike

(* The block that is due next is the one after the cursor. *)
LEMMA NextIsABlock ==
  ASSUME CursorInv, NEW p \in Inspectors
  PROVE  /\ SessionCursor(p) \in Blocks /\ SessionCursor(p) # NoBlock
         /\ NextBlock(p) = SessionCursor(p) + 1
         /\ IsDue(NextBlock(p)) => NextBlock(p) \in Blocks
         /\ NextBlock(p) \in Nat /\ NextBlock(p) + 1 \in Nat
<1>1. SessionCursor(p) \in Blocks /\ SessionCursor(p) # NoBlock
  BY BlockAssumption, NoBlockAssumption
     DEF CursorInv, ListenerTypeOK, Cursor, SessionCursor, Blocks
<1>2. NextBlock(p) = SessionCursor(p) + 1
  BY <1>1 DEF NextBlock
<1>3. head \in Blocks
  BY DEF CursorInv, ListenerTypeOK
<1> QED
  BY <1>1, <1>2, <1>3, BlockAssumption, LagAssumption DEF IsDue, Blocks

LEMMA StoreFollows ==
  ASSUME HandoverInv, [HandoverNext]_vars
  PROVE  SharedInv'
<1>1. SharedInv /\ CursorInv
  BY DEF HandoverInv
<1>2. ASSUME NEW p \in Inspectors, Proceed(p)
      PROVE  SharedInv'
  BY <1>1, <1>2, OneBlockEach, SharedStep
<1>3. CASE UNCHANGED storeVars
  BY <1>1, <1>3, SharedStutter
<1>4. ASSUME NEW p \in Inspectors, Poll(p)
      PROVE  SharedInv'
  <2>1. CASE IsDue(NextBlock(p))
    <3>1. Begin(p, NextBlock(p), NextBlock(p) + 1)
      BY <1>4, <2>1 DEF Poll
    <3> QED
      BY <1>1, <3>1, NextIsABlock, OneBlockEach, SharedStep
  <2>2. CASE ~IsDue(NextBlock(p))
    BY <1>3, <1>4, <2>2 DEF Poll
  <2> QED
    BY <2>1, <2>2
<1>5. ASSUME NEW p \in Inspectors, Exit(p)
      PROVE  SharedInv'
  <2>1. job[p].phase \in {"idle", "fetch"}
    BY <1>1, <1>5 DEF Exit, AtAwait, CursorInv, PlaceOK, Active
  <2> QED
    BY <1>1, <1>5, <2>1, OneBlockEach, SharedStep DEF Exit, Gone
<1>6. ASSUME NEW p \in Inspectors, Collide(p)
      PROVE  SharedInv'
  BY <1>2, <1>6 DEF Collide, Gone, Proceed, WriteConflict
<1> QED
  BY <1>2, <1>3, <1>4, <1>5, <1>6
     DEF HandoverNext, vars, HandoverStep, Proceed, InspectFetch, InspectDelete,
         InspectWrite, InspectReturn, UpdateLatestBlock, SendExport, EndTurn, StartNext,
         Stop, Mine
-----------------------------------------------------------------------------
(* The cursor.                                                             *)

(* The step is p's: the others are where they were. *)
OthersStay(p) ==
  \A q \in Inspectors \ {p} :
    /\ job'[q] = job[q] /\ pc'[q] = pc[q] /\ blk'[q] = blk[q]
    /\ pendCursor'[q] = pendCursor[q] /\ stopping'[q] = stopping[q]

(* The cursor is not in the way of those who do not move it. *)
CursorFits(p) ==
  \A q \in Inspectors \ {p} :
    /\ MayCommit(q) => pendCursor[q] \in {cursor', cursor' + 1}
    /\ Fresh(q) => blk[q] \in {cursor', cursor' + 1}

(* p stays out of the way of the others. *)
StaysApart(p) ==
  \A q \in Inspectors \ {p} :
    /\ pc'[p] = "down" \/ stopping'[p] \/ pc[q] = "down" \/ stopping[q]
    /\ pendCursor'[p] = NoBlock \/ pendCursor[q] = NoBlock
    /\ Fresh(p)' /\ MayCommit(q) => pendCursor[q] <= blk'[p]
    /\ Fresh(q) /\ MayCommit(p)' => pendCursor'[p] <= blk[q]

(***************************************************************************)
(* A step of p keeps CursorInv if it keeps p's part of it, takes nothing   *)
(* back and leaves a cursor that covers what it names.                     *)
(***************************************************************************)
LEMMA CursorKeptBy ==
  ASSUME CursorInv, ListenerTypeOK', NEW p \in Inspectors, OthersStay(p),
         base' = base, sent \subseteq sent', cursor' \in Blocks,
         \A b \in Blocks : last[b] # 0 => last'[b] # 0,
         \A b \in 1 .. cursor' : b \in sent' /\ last'[b] # 0,
         PlaceOK(p)', PendCursorOK(p)', CursorFits(p), StaysApart(p)
  PROVE  CursorInv'
<1>1. ASSUME NEW q \in Inspectors \ {p}
      PROVE  /\ PlaceOK(q)' /\ PendCursorOK(q)'
             /\ Fresh(q)' <=> Fresh(q)
             /\ MayCommit(q)' <=> MayCommit(q)
  <2>1. /\ job'[q] = job[q] /\ pc'[q] = pc[q] /\ blk'[q] = blk[q]
        /\ pendCursor'[q] = pendCursor[q] /\ stopping'[q] = stopping[q]
    BY DEF OthersStay
  <2>2. (Fresh(q)' <=> Fresh(q)) /\ (MayCommit(q)' <=> MayCommit(q))
    BY <2>1 DEF Fresh, MayCommit
  <2>3. PlaceOK(q) /\ PendCursorOK(q)
    BY DEF CursorInv
  <2>4. PlaceOK(q)'
    BY <2>1, <2>3 DEF PlaceOK, Active, Touched, SummaryPhases
  <2>5. pendCursor[q] # NoBlock => pendCursor[q] \in Blocks
    BY DEF CursorInv, ListenerTypeOK, Cursor
  <2>6. PendCursorOK(q)'
    BY <2>1, <2>2, <2>3, <2>5 DEF PendCursorOK, CursorFits
  <2> QED
    BY <2>2, <2>4, <2>6
<1>2. ASSUME NEW q \in Inspectors, NEW r \in Inspectors, q # r
      PROVE  Apart(q, r)'
  <2>1. Apart(q, r) /\ Apart(r, q)
    BY <1>2 DEF CursorInv
  <2>2. CASE q # p /\ r # p
    BY <1>1, <2>1, <2>2 DEF Apart, OthersStay
  <2>3. CASE q = p
    BY <1>1, <1>2, <2>3 DEF Apart, OthersStay, StaysApart
  <2>4. CASE r = p
    BY <1>1, <1>2, <2>4 DEF Apart, OthersStay, StaysApart
  <2> QED
    BY <2>2, <2>3, <2>4
<1>3. \A q \in Inspectors : PlaceOK(q)' /\ PendCursorOK(q)'
  BY <1>1
<1> QED
  BY <1>2, <1>3 DEF CursorInv

(* The same for the steps that do not move the cursor. *)
LEMMA CursorKeptByOthers ==
  ASSUME CursorInv, ListenerTypeOK', NEW p \in Inspectors, OthersStay(p),
         base' = base, sent \subseteq sent', cursor' = cursor, last' = last,
         PlaceOK(p)', PendCursorOK(p)', StaysApart(p)
  PROVE  CursorInv'
<1>1. CursorFits(p)
  BY DEF CursorInv, PendCursorOK, CursorFits
<1> QED
  BY <1>1, CursorKeptBy DEF CursorInv

LEMMA CursorOnPoll ==
  ASSUME CursorInv, TypeOK', NEW p \in Inspectors, Poll(p)
  PROVE  CursorInv'
<1>0. /\ pc[p] = "poll" /\ ~stopping[p] /\ PlaceOK(p) /\ PendCursorOK(p)
      /\ UNCHANGED <<pendCursor, cursor, stopping, sent, fetched, stored, last,
                     head, chain, forks, kills, stops>>
  BY DEF Poll, Resumes, AtAwait, CursorInv, chainVars, boundVars, storeVars, Begin
<1>1. ASSUME NEW q \in Inspectors \ {p}
      PROVE  /\ pc[q] = "down" \/ stopping[q]
             /\ pendCursor[p] = NoBlock \/ pendCursor[q] = NoBlock
             /\ ~Fresh(q)
             /\ MayCommit(q) => pendCursor[q] \in {cursor, cursor + 1}
  BY <1>0 DEF CursorInv, Apart, Fresh, PendCursorOK
<1>2. CASE IsDue(NextBlock(p))
  <2>1. PICK b \in Blocks : b = NextBlock(p) /\ b = SessionCursor(p) + 1
    BY <1>2, NextIsABlock
  <2>2. SessionCursor(p) # NoBlock
    BY NextIsABlock
  <2>3. /\ Begin(p, b, b + 1)
        /\ blk' = [blk EXCEPT ![p] = b] /\ base' = base
        /\ pc' = [pc EXCEPT ![p] = "inspect"]
    BY <1>2, <2>1, <2>2 DEF Poll
  <2>4. /\ job'[p].phase = "fetch" /\ job'[p].tab = 1 /\ job'[p].run = runs + 1
        /\ job'[p].after = b /\ job'[p].before = b + 1
        /\ \A q \in Inspectors \ {p} : job'[q] = job[q]
    BY <2>3 DEF Begin, CursorInv, ListenerTypeOK, TypeOK
  <2>5. runs + 1 # 0
    BY DEF CursorInv, ListenerTypeOK, TypeOK
  <2>6. ListenerTypeOK'
    BY <1>0, <2>1, <2>3 DEF CursorInv, ListenerTypeOK, Locations, Cursor
  <2>7. OthersStay(p) /\ pc'[p] = "inspect" /\ blk'[p] = b
    BY <1>0, <2>3, <2>4 DEF OthersStay, CursorInv, ListenerTypeOK
  <2>8. PlaceOK(p)'
    BY <2>1, <2>4, <2>5, <2>7 DEF PlaceOK, Active, Touched, SummaryPhases
  <2>9. PendCursorOK(p)'
    BY <1>0, <2>1, <2>4, <2>7 DEF PendCursorOK, MayCommit, Fresh, SessionCursor
  <2>10. cursor \in Nat
    BY BlockAssumption DEF CursorInv, Blocks
  <2>11. StaysApart(p)
    BY <1>0, <1>1, <2>1, <2>7, <2>10 DEF StaysApart, Fresh, SessionCursor
  <2> QED
    BY <1>0, <2>3, <2>6, <2>7, <2>8, <2>9, <2>11, CursorKeptByOthers
<1>3. CASE ~IsDue(NextBlock(p))
  <2>1. pc' = [pc EXCEPT ![p] = "sleep"] /\ UNCHANGED <<job, blk, base>>
    BY <1>3 DEF Poll, storeVars
  <2>2. ListenerTypeOK'
    BY <1>0, <2>1 DEF CursorInv, ListenerTypeOK, Locations
  <2>3. OthersStay(p) /\ pc'[p] = "sleep"
    BY <1>0, <2>1 DEF OthersStay, CursorInv, ListenerTypeOK
  <2>4. PlaceOK(p)' /\ PendCursorOK(p)'
    BY <1>0, <2>1, <2>3 DEF PlaceOK, PendCursorOK, MayCommit, Fresh, Active
  <2>5. StaysApart(p)
    BY <1>0, <1>1, <2>3 DEF StaysApart, Fresh
  <2> QED
    BY <1>0, <2>1, <2>2, <2>3, <2>4, <2>5, CursorKeptByOthers
<1> QED
  BY <1>2, <1>3
LEMMA CursorOnFetch ==
  ASSUME CursorInv, TypeOK', NEW p \in Inspectors, InspectFetch(p)
  PROVE  CursorInv'
<1>1. /\ pc[p] = "inspect" /\ job[p].phase = "fetch" /\ ~stopping[p]
      /\ PlaceOK(p) /\ PendCursorOK(p) /\ blk[p] \in Blocks
      /\ fetched' = [fetched EXCEPT ![p] = chain[blk[p]]]
      /\ UNCHANGED <<pc, blk, pendCursor, cursor, stopping, sent, stored, base, last,
                     head, chain, forks, kills, stops>>
  BY DEF InspectFetch, FetchBlock, Resumes, AtAwait, CursorInv, PlaceOK, chainVars, boundVars
<1>2. /\ job'[p].phase \in {"fetch", "delete"} /\ job'[p].tab = job[p].tab
      /\ job'[p].after = job[p].after /\ job'[p].before = job[p].before
      /\ job'[p].run = job[p].run
      /\ \A q \in Inspectors \ {p} : job'[q] = job[q]
  BY DEF InspectFetch, FetchBlock, CursorInv, ListenerTypeOK, TypeOK
<1>3. ListenerTypeOK'
  BY <1>1 DEF CursorInv, ListenerTypeOK
<1>4. OthersStay(p)
  BY <1>1, <1>2 DEF OthersStay
<1>5. job[p].tab = 1
  BY <1>1 DEF PlaceOK
<1>6. PlaceOK(p)'
  BY <1>1, <1>2, <1>5 DEF PlaceOK, Active, Touched, SummaryPhases
<1>7. (MayCommit(p)' <=> MayCommit(p)) /\ (Fresh(p)' <=> Fresh(p))
  BY <1>1 DEF MayCommit, Fresh
<1>8. PendCursorOK(p)'
  BY <1>1, <1>2, <1>7 DEF PendCursorOK
<1>9. StaysApart(p)
  BY <1>1, <1>7 DEF StaysApart, CursorInv, Apart
<1> QED
  BY <1>1, <1>3, <1>4, <1>6, <1>8, <1>9, CursorKeptByOthers

(***************************************************************************)
(* The first delete of an inspection commits what the listener holds.      *)
(***************************************************************************)
LEMMA CursorOnDelete ==
  ASSUME CursorInv, TypeOK', NEW p \in Inspectors, InspectDelete(p)
  PROVE  CursorInv' /\ cursor' >= cursor
<1>1. /\ pc[p] = "inspect" /\ job[p].phase = "delete"
      /\ PlaceOK(p) /\ PendCursorOK(p) /\ blk[p] \in Blocks
      /\ cursor' = SessionCursor(p)
      /\ pendCursor' = [pendCursor EXCEPT ![p] = NoBlock]
      /\ UNCHANGED <<pc, blk, stopping, sent, fetched, stored, base,
                     head, chain, forks, kills, stops>>
  BY DEF InspectDelete, DeleteTable, CursorInv, PlaceOK, chainVars, boundVars
<1>2. /\ job'[p].phase = "write" /\ job'[p].tab = job[p].tab
      /\ job'[p].after = job[p].after /\ job'[p].before = job[p].before
      /\ job'[p].run = job[p].run
      /\ \A q \in Inspectors \ {p} : job'[q] = job[q]
  BY DEF InspectDelete, DeleteTable, Goto, CursorInv, ListenerTypeOK, TypeOK
<1>3. SessionCursor(p) \in Blocks /\ cursor \in Nat
  BY NextIsABlock, BlockAssumption DEF CursorInv, Blocks
<1>4. ListenerTypeOK' /\ pendCursor'[p] = NoBlock
  BY <1>1, <1>3 DEF CursorInv, ListenerTypeOK, Cursor
<1>5. OthersStay(p)
  BY <1>1, <1>2 DEF OthersStay, CursorInv, ListenerTypeOK
<1>6. /\ \A b \in Blocks : last[b] # 0 => last'[b] # 0
      /\ job[p].tab = 1 => last'[blk[p]] # 0
  <2>1. Active(p)
    BY <1>1 DEF Active
  <2>2. Span(p) = {blk[p]} /\ RunOf(p) # 0
    BY <1>1, <2>1, OneBlockEach DEF PlaceOK, RunOf
  <2> QED
    BY <1>1, <2>2 DEF InspectDelete, DeleteTable
<1>7. PlaceOK(p)'
  <2>1. job[p].tab > 1 \/ job[p].tab = 1
    BY TableFacts DEF CursorInv, ListenerTypeOK, TypeOK
  <2>2. last'[blk[p]] # 0
    BY <1>1, <1>6, <2>1 DEF PlaceOK, Touched
  <2> QED
    BY <1>1, <1>2, <2>2 DEF PlaceOK, Active
<1>8. CASE pendCursor[p] = NoBlock
  <2>1. cursor' = cursor /\ (Fresh(p)' <=> Fresh(p)) /\ ~MayCommit(p)'
    BY <1>1, <1>4, <1>8 DEF SessionCursor, Fresh, MayCommit
  <2>2. CursorFits(p)
    BY <2>1 DEF CursorFits, CursorInv, PendCursorOK
  <2>3. PendCursorOK(p)'
    BY <1>1, <1>4, <2>1 DEF PendCursorOK
  <2>4. StaysApart(p)
    BY <1>1, <1>4, <2>1 DEF StaysApart, CursorInv, Apart
  <2>5. \A b \in 1 .. cursor' : b \in sent' /\ last'[b] # 0
    <3>1. ASSUME NEW b \in 1 .. cursor'
          PROVE  b \in Blocks /\ b \in 1 .. cursor
      BY <1>1, <1>3, <2>1, BlockAssumption DEF Blocks
    <3> QED
      BY <1>1, <1>6, <3>1 DEF CursorInv
  <2>6. cursor' \in Blocks /\ base' = base /\ sent \subseteq sent'
    BY <1>1, <1>3
  <2>7. CursorInv'
    BY <1>4, <1>5, <1>6, <1>7, <2>2, <2>3, <2>4, <2>5, <2>6, CursorKeptBy
  <2> QED
    BY <1>3, <2>1, <2>7
<1>9. CASE pendCursor[p] # NoBlock
  <2>1. MayCommit(p) /\ cursor' = pendCursor[p]
    BY <1>1, <1>9 DEF MayCommit, SessionCursor
  <2>2. /\ cursor' \in {cursor, cursor + 1} /\ blk[p] = cursor' + 1
        /\ cursor' \in sent /\ last[cursor'] # 0 /\ cursor' \in Blocks
    BY <1>1, <1>3, <1>9, <2>1 DEF PendCursorOK
  <2>3. CursorFits(p)
    <3>1. ASSUME NEW q \in Inspectors \ {p}
          PROVE  ~MayCommit(q)
      BY <1>9, <3>1 DEF CursorInv, Apart, MayCommit
    <3>2. ASSUME NEW q \in Inspectors \ {p}, Fresh(q)
          PROVE  blk[q] \in {cursor', cursor' + 1}
      <4>1. blk[q] \in {cursor, cursor + 1} /\ cursor' <= blk[q]
        BY <2>1, <3>2 DEF CursorInv, PendCursorOK, Apart
      <4> QED
        BY <1>3, <2>2, <4>1
    <3> QED
      BY <3>1, <3>2 DEF CursorFits
  <2>4. PendCursorOK(p)'
    BY <1>1, <1>4, <2>2 DEF PendCursorOK, MayCommit
  <2>5. StaysApart(p)
    <3>1. ASSUME NEW q \in Inspectors \ {p}
          PROVE  pendCursor[q] = NoBlock /\ Apart(p, q)
      BY <1>9, <3>1 DEF CursorInv, Apart
    <3> QED
      BY <1>1, <1>4, <3>1 DEF StaysApart, Apart, MayCommit
  <2>6. \A b \in 1 .. cursor' : b \in sent' /\ last'[b] # 0
    <3>1. ASSUME NEW b \in 1 .. cursor'
          PROVE  b \in Blocks /\ (b \in 1 .. cursor \/ b = cursor')
      BY <1>3, <2>2, BlockAssumption DEF Blocks
    <3> QED
      BY <1>1, <1>6, <2>2, <3>1 DEF CursorInv
  <2>7. base' = base /\ sent \subseteq sent'
    BY <1>1
  <2>8. CursorInv'
    BY <1>4, <1>5, <1>6, <1>7, <2>2, <2>3, <2>4, <2>5, <2>6, <2>7, CursorKeptBy
  <2> QED
    BY <1>3, <2>2, <2>8
<1> QED
  BY <1>8, <1>9
LEMMA CursorOnWrite ==
  ASSUME CursorInv, TypeOK', NEW p \in Inspectors, InspectWrite(p)
  PROVE  CursorInv'
<1>1. /\ pc[p] = "inspect"
      /\ job[p].phase \in {"write", "summary_delete", "summary_arbitrages"}
      /\ PlaceOK(p) /\ PendCursorOK(p)
      /\ UNCHANGED <<pc, blk, pendCursor, cursor, stopping, sent, fetched, stored, base,
                     last, head, chain, forks, kills, stops>>
  BY DEF InspectWrite, WriteTable, SummaryDelete, SummaryArbitrages, CursorInv,
         listenerVars, chainVars, boundVars
<1>2. /\ job'[p].phase \in {"delete"} \cup SummaryPhases
      /\ job'[p].after = job[p].after /\ job'[p].before = job[p].before
      /\ job'[p].run = job[p].run
      /\ \A q \in Inspectors \ {p} : job'[q] = job[q]
  BY DEF InspectWrite, WriteTable, NextTable, SummaryDelete, SummaryArbitrages, Goto,
         SummaryPhases, CursorInv, ListenerTypeOK, TypeOK
<1>3. ListenerTypeOK'
  BY <1>1 DEF CursorInv, ListenerTypeOK
<1>4. OthersStay(p)
  BY <1>1, <1>2 DEF OthersStay
<1>5. PlaceOK(p)'
  <2>1. last[blk[p]] # 0
    BY <1>1 DEF PlaceOK, Touched, SummaryPhases
  <2> QED
    BY <1>1, <1>2, <2>1 DEF PlaceOK, Active, SummaryPhases
<1>6. pendCursor[p] = NoBlock
  BY <1>1 DEF PendCursorOK
<1>7. (Fresh(p)' <=> Fresh(p)) /\ ~MayCommit(p)'
  BY <1>1, <1>6 DEF MayCommit, Fresh
<1>8. PendCursorOK(p)'
  BY <1>1, <1>6, <1>7 DEF PendCursorOK
<1>9. StaysApart(p)
  BY <1>1, <1>7 DEF StaysApart, CursorInv, Apart
<1> QED
  BY <1>1, <1>3, <1>4, <1>5, <1>8, <1>9, CursorKeptByOthers

LEMMA CursorOnReturn ==
  ASSUME CursorInv, TypeOK', NEW p \in Inspectors, InspectReturn(p)
  PROVE  CursorInv'
<1>1. /\ pc[p] = "inspect" /\ job[p].phase = "summary_liquidations"
      /\ PlaceOK(p) /\ PendCursorOK(p) /\ blk[p] \in Blocks
      /\ stored' = [stored EXCEPT ![blk[p]] = fetched[p]]
      /\ pc' = [pc EXCEPT ![p] = "update"]
      /\ UNCHANGED <<blk, pendCursor, cursor, stopping, sent, fetched, base,
                     last, head, chain, forks, kills, stops>>
  BY DEF InspectReturn, SummaryLiquidations, CursorInv, PlaceOK, chainVars, boundVars
<1>2. /\ job'[p] = NoJob /\ pc'[p] = "update"
      /\ \A q \in Inspectors \ {p} : job'[q] = job[q] /\ pc'[q] = pc[q]
  BY <1>1 DEF InspectReturn, SummaryLiquidations, CursorInv, ListenerTypeOK, TypeOK
<1>3. ListenerTypeOK'
  BY <1>1 DEF CursorInv, ListenerTypeOK, Locations
<1>4. OthersStay(p)
  BY <1>1, <1>2 DEF OthersStay
<1>5. PlaceOK(p)'
  <2>1. last[blk[p]] # 0
    BY <1>1 DEF PlaceOK, Touched, SummaryPhases
  <2> QED
    BY <1>1, <1>2, <2>1 DEF PlaceOK, Active, NoJob
<1>6. pendCursor[p] = NoBlock
  BY <1>1 DEF PendCursorOK
<1>7. (Fresh(p)' <=> Fresh(p)) /\ ~MayCommit(p)'
  BY <1>1, <1>2, <1>6 DEF MayCommit, Fresh
<1>8. PendCursorOK(p)'
  BY <1>1, <1>6, <1>7 DEF PendCursorOK
<1>9. StaysApart(p)
  BY <1>1, <1>2, <1>6, <1>7 DEF StaysApart, CursorInv, Apart
<1> QED
  BY <1>1, <1>3, <1>4, <1>5, <1>8, <1>9, CursorKeptByOthers

(***************************************************************************)
(* The listener that moves its cursor waits until nobody else holds one.   *)
(***************************************************************************)
LEMMA CursorOnUpdate ==
  ASSUME CursorInv, TypeOK', NEW p \in Inspectors, UpdateLatestBlock(p)
  PROVE  CursorInv'
<1>1. /\ pc[p] = "update" /\ PlaceOK(p) /\ PendCursorOK(p) /\ pendCursor[p] = NoBlock
      /\ blk[p] \in Blocks /\ last[blk[p]] # 0
      /\ \A q \in Inspectors \ {p} : pendCursor[q] = NoBlock
      /\ pendCursor' = [pendCursor EXCEPT ![p] = blk[p]]
      /\ pc' = [pc EXCEPT ![p] = "send"]
      /\ UNCHANGED <<job, blk, cursor, stopping, sent, fetched, stored, base,
                     last, head, chain, forks, kills, stops>>
  BY DEF UpdateLatestBlock, CursorInv, PlaceOK, PendCursorOK, storeVars, chainVars,
         boundVars
<1>2. ListenerTypeOK' /\ OthersStay(p) /\ pc'[p] = "send" /\ pendCursor'[p] = blk[p]
  BY <1>1 DEF CursorInv, ListenerTypeOK, Locations, Cursor, OthersStay
<1>3. PlaceOK(p)'
  BY <1>1, <1>2 DEF PlaceOK, Active
<1>4. MayCommit(p)' => ~stopping[p] /\ blk[p] \in {cursor, cursor + 1}
  BY <1>1, <1>2 DEF MayCommit, Fresh, PendCursorOK
<1>5. PendCursorOK(p)'
  BY <1>1, <1>2, <1>4 DEF PendCursorOK, Fresh
<1>6. StaysApart(p)
  BY <1>1, <1>2, <1>4 DEF StaysApart, CursorInv, Apart, Fresh
<1> QED
  BY <1>1, <1>2, <1>3, <1>5, <1>6, CursorKeptByOthers

LEMMA CursorOnTurn ==
  ASSUME CursorInv, TypeOK', NEW p \in Inspectors,
         SendExport(p) \/ EndTurn(p) \/ StartNext(p)
  PROVE  CursorInv'
<1>1. /\ PlaceOK(p) /\ PendCursorOK(p)
      /\ \/ pc[p] = "send" /\ pc' = [pc EXCEPT ![p] = "ping"]
            /\ sent' = sent \cup {blk[p]} /\ blk[p] \in Blocks
         \/ pc[p] \in {"ping", "sleep"} /\ pc' = [pc EXCEPT ![p] = "poll"] /\ sent' = sent
         \/ pc[p] = "down" /\ pc' = [pc EXCEPT ![p] = "poll"] /\ sent' = sent
            /\ \A q \in Inspectors : pc[q] = "down" \/ stopping[q]
      /\ UNCHANGED <<job, blk, pendCursor, cursor, stopping, fetched, stored, base,
                     last, head, chain, forks, kills, stops>>
  BY DEF SendExport, EndTurn, StartNext, CursorInv, PlaceOK, storeVars, chainVars,
         boundVars
<1>2. ListenerTypeOK' /\ OthersStay(p) /\ pc'[p] \in {"ping", "poll"}
  BY <1>1 DEF CursorInv, ListenerTypeOK, Locations, OthersStay
<1>3. PlaceOK(p)' /\ ~Fresh(p)' /\ (MayCommit(p)' => MayCommit(p))
  BY <1>1, <1>2 DEF PlaceOK, Active, Fresh, MayCommit
<1>4. PendCursorOK(p)'
  BY <1>1, <1>2, <1>3 DEF PendCursorOK
<1>5. StaysApart(p)
  BY <1>1, <1>2, <1>3 DEF StaysApart, CursorInv, Apart
<1>6. sent \subseteq sent'
  BY <1>1
<1> QED
  BY <1>1, <1>2, <1>3, <1>4, <1>5, <1>6, CursorKeptByOthers

LEMMA CursorOnGone ==
  ASSUME CursorInv, TypeOK', NEW p \in Inspectors, Gone(p), UNCHANGED boundVars
  PROVE  CursorInv'
<1>1. /\ pc' = [pc EXCEPT ![p] = "down"] /\ pendCursor' = [pendCursor EXCEPT ![p] = NoBlock]
      /\ stopping' = [stopping EXCEPT ![p] = FALSE] /\ job' = [job EXCEPT ![p] = NoJob]
      /\ UNCHANGED <<blk, cursor, sent, fetched, stored, base, last,
                     head, chain, forks, kills, stops>>
  BY DEF Gone, Rollback, chainVars, boundVars
<1>2. /\ ListenerTypeOK' /\ OthersStay(p) /\ pc'[p] = "down" /\ ~stopping'[p]
      /\ pendCursor'[p] = NoBlock /\ job'[p] = NoJob
  BY <1>1 DEF CursorInv, ListenerTypeOK, TypeOK, Locations, Cursor, OthersStay
<1>3. PlaceOK(p)' /\ PendCursorOK(p)' /\ StaysApart(p)
  BY <1>2 DEF PlaceOK, PendCursorOK, StaysApart, Active, NoJob, Fresh, MayCommit
<1> QED
  BY <1>1, <1>2, <1>3, CursorKeptByOthers

LEMMA CursorOnStop ==
  ASSUME CursorInv, TypeOK', NEW p \in Inspectors, Stop(p)
  PROVE  CursorInv'
<1>1. /\ pc[p] # "down" /\ ~stopping[p] /\ PlaceOK(p) /\ PendCursorOK(p)
      /\ stopping' = [stopping EXCEPT ![p] = TRUE] /\ stops' \in Nat
      /\ UNCHANGED <<job, pc, blk, pendCursor, cursor, sent, fetched, stored, base,
                     last, head, chain, forks, kills>>
  BY DEF Stop, CursorInv, ListenerTypeOK, storeVars, chainVars
<1>2. ListenerTypeOK' /\ OthersStay(p) /\ stopping'[p]
  BY <1>1 DEF CursorInv, ListenerTypeOK, OthersStay
<1>3. ~Fresh(p)' /\ (MayCommit(p)' => MayCommit(p))
  BY <1>1, <1>2 DEF Fresh, MayCommit
<1>4. PlaceOK(p)' /\ PendCursorOK(p)' /\ StaysApart(p)
  BY <1>1, <1>2, <1>3
     DEF PlaceOK, PendCursorOK, StaysApart, CursorInv, Apart, Active, Touched, SummaryPhases
<1> QED
  BY <1>1, <1>2, <1>4, CursorKeptByOthers

LEMMA CursorOnMine ==
  ASSUME CursorInv, TypeOK', Mine \/ UNCHANGED vars
  PROVE  CursorInv'
<1>1. /\ head' \in Blocks
      /\ UNCHANGED <<storeVars, chain, forks, listenerVars, boundVars>>
  BY BlockAssumption DEF Mine, vars, chainVars, CursorInv, ListenerTypeOK, Blocks
<1>2. ListenerTypeOK'
  BY <1>1 DEF CursorInv, ListenerTypeOK, listenerVars, boundVars
<1>3. ASSUME NEW p \in Inspectors
      PROVE  PlaceOK(p)' /\ PendCursorOK(p)'
  <2>1. PlaceOK(p) /\ PendCursorOK(p)
    BY DEF CursorInv
  <2> QED
    BY <1>1, <2>1 DEF PlaceOK, PendCursorOK, MayCommit, Fresh, Active, Touched,
                      storeVars, listenerVars
<1>4. ASSUME NEW p \in Inspectors, NEW q \in Inspectors, p # q
      PROVE  Apart(p, q)'
  <2>1. Apart(p, q)
    BY <1>4 DEF CursorInv
  <2> QED
    BY <1>1, <2>1 DEF Apart, MayCommit, Fresh, storeVars, listenerVars
<1> QED
  BY <1>1, <1>2, <1>3, <1>4 DEF CursorInv, storeVars, listenerVars

-----------------------------------------------------------------------------
(* The theorems.                                                           *)

LEMMA HandoverGoesOn ==
  ASSUME HandoverInv, [HandoverNext]_vars
  PROVE  HandoverInv' /\ cursor' >= cursor
<1>1. SharedInv' /\ TypeOK' /\ CursorInv
  BY StoreFollows DEF HandoverInv, SharedInv
<1>2. cursor \in Nat
  BY <1>1, BlockAssumption DEF CursorInv, Blocks
<1>3. ASSUME NEW p \in Inspectors, HandoverStep(p), ~InspectDelete(p)
      PROVE  CursorInv' /\ cursor' = cursor
  <2>1. CASE Poll(p)
    BY <1>1, <2>1, CursorOnPoll DEF Poll
  <2>2. CASE InspectFetch(p)
    BY <1>1, <2>2, CursorOnFetch DEF InspectFetch
  <2>3. CASE InspectWrite(p)
    BY <1>1, <2>3, CursorOnWrite DEF InspectWrite, listenerVars
  <2>4. CASE InspectReturn(p)
    BY <1>1, <2>4, CursorOnReturn DEF InspectReturn
  <2>5. CASE UpdateLatestBlock(p)
    BY <1>1, <2>5, CursorOnUpdate DEF UpdateLatestBlock
  <2>6. CASE SendExport(p) \/ EndTurn(p) \/ StartNext(p)
    BY <1>1, <2>6, CursorOnTurn DEF SendExport, EndTurn, StartNext
  <2>7. CASE Exit(p) \/ Collide(p)
    BY <1>1, <2>7, CursorOnGone DEF Exit, Collide, Gone
  <2> QED
    BY <1>3, <2>1, <2>2, <2>3, <2>4, <2>5, <2>6, <2>7 DEF HandoverStep
<1>4. ASSUME NEW p \in Inspectors, InspectDelete(p)
      PROVE  CursorInv' /\ cursor' >= cursor
  BY <1>1, <1>4, CursorOnDelete
<1>5. ASSUME NEW p \in Inspectors, Stop(p)
      PROVE  CursorInv' /\ cursor' = cursor
  BY <1>1, <1>5, CursorOnStop DEF Stop
<1>6. ASSUME Mine \/ UNCHANGED vars
      PROVE  CursorInv' /\ cursor' = cursor
  BY <1>1, <1>6, CursorOnMine DEF Mine, vars, listenerVars
<1>7. CursorInv' /\ (cursor' = cursor \/ cursor' >= cursor)
  BY <1>3, <1>4, <1>5, <1>6 DEF HandoverNext
<1> QED
  BY <1>1, <1>2, <1>7 DEF HandoverInv

LEMMA HandoverAlways == HandoverSpec => []HandoverInv
<1>1. HandoverInv /\ [HandoverNext]_vars => HandoverInv'
  BY HandoverGoesOn
<1> QED
  BY <1>1, HandoverBegins, PTL DEF HandoverSpec

(***************************************************************************)
(* Variables keep their types while listeners overlap: the blocks that are *)
(* inspected are blocks of the chain, and the cursor names one.            *)
(***************************************************************************)
THEOREM HandoverTypes == HandoverSpec => []ListenerTypeOK
<1>1. HandoverInv => ListenerTypeOK
  BY DEF HandoverInv, CursorInv
<1> QED
  BY <1>1, HandoverAlways, PTL

(***************************************************************************)
(* Neither of two listeners that overlap moves the committed cursor back.  *)
(***************************************************************************)
THEOREM NeitherGoesBack == HandoverSpec => CursorNeverGoesBack
<1>1. HandoverInv /\ [HandoverNext]_vars => [cursor' >= cursor]_cursor
  BY HandoverGoesOn
<1> QED
  BY <1>1, HandoverAlways, PTL DEF HandoverSpec, CursorNeverGoesBack

(***************************************************************************)
(* A block behind the committed cursor was sent for export and, while      *)
(* nobody rewrites it, has rows in every table and in the summary.         *)
(***************************************************************************)
THEOREM NothingBehindTheCursorIsLost == HandoverSpec => []HandoverLosesNothing
<1>1. ASSUME HandoverInv
      PROVE  HandoverLosesNothing
  <2>1. base = 1 /\ cursor \in Blocks /\ SharedInv
    BY <1>1 DEF HandoverInv, CursorInv
  <2>2. ASSUME NEW b \in base .. cursor
        PROVE  b \in Blocks /\ b \in sent /\ last[b] # 0
    BY <1>1, <2>1, BlockAssumption DEF HandoverInv, CursorInv, Blocks
  <2>3. ASSUME NEW b \in base .. cursor,
               \A p \in Inspectors : Active(p) => b \notin Span(p)
        PROVE  /\ \A t \in TableNames : rows[t][b] # {}
               /\ {s.type : s \in ExpectedSummary(b, 0)} \subseteq {s.type : s \in summary[b]}
    BY <2>1, <2>2, <2>3, LeftAlone, SummedMeans
  <2> QED
    BY <2>2, <2>3 DEF HandoverLosesNothing
<1> QED
  BY <1>1, HandoverAlways, PTL
=============================================================================
