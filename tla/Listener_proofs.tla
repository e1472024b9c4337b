--------------------------- MODULE Listener_proofs ---------------------------
(***************************************************************************)
(* The listener, for any chain length, lag, list of tables and number of   *)
(* crashes: it inspects exclusively, its cursor never runs ahead of what   *)
(* is complete and exported, and it implements the abstract stream.        *)
(***************************************************************************)
EXTENDS Listener, InspectBlocks_proofs

Up(p) == pc[p] # "down"

(***************************************************************************)
(* Where the process is agrees with what its session does.                 *)
(***************************************************************************)
BaseInv ==
  /\ IInv
  /\ ListenerTypeOK
  /\ Lag < head
  /\ \A p, q \in Inspectors : Up(p) /\ Up(q) => p = q
  /\ \A p \in Inspectors :
       /\ Active(p) <=> pc[p] = "inspect"
       /\ ~Active(p) => job[p] = NoJob
       /\ pc[p] \in {"inspect", "update", "send"} => blk[p] \in Blocks
       /\ pc[p] = "inspect" =>
            job[p].after = blk[p] /\ job[p].before = blk[p] + 1

LEMMA BaseInit == Init => BaseInv
<1> SUFFICES ASSUME Init
             PROVE  BaseInv
  OBVIOUS
<1>1. TypeOK
  BY TypeInit DEF Init
<1>2. ListenerTypeOK
  BY <1>1, BlockAssumption, LagAssumption
     DEF Init, ListenerTypeOK, Locations, Cursor, Blocks
<1>3. QED
  BY <1>2, IInvInit, LagAssumption DEF Init, BaseInv, Up, InitStore, NoJob, Active

LEMMA DueBlock ==
  ASSUME BaseInv, NEW p \in Inspectors, IsDue(NextBlock(p))
  PROVE  /\ NextBlock(p) \in Blocks /\ NextBlock(p) + 1 \in 1 .. MaxBlock + 1
         /\ NextBlock(p) < NextBlock(p) + 1
<1>1. head \in 1 .. MaxBlock /\ Lag \in Nat /\ Lag < head /\ MaxBlock \in Nat
  BY BlockAssumption, LagAssumption DEF BaseInv, ListenerTypeOK, Blocks
<1>2. SessionCursor(p) \in Blocks \cup {NoBlock}
  BY DEF BaseInv, ListenerTypeOK, SessionCursor, Cursor
<1>3. QED
  BY <1>1, <1>2 DEF NextBlock, IsDue, Blocks

(***************************************************************************)
(* Every step of the listener is, for the database, a step of an exclusive *)
(* inspection or no step.                                                  *)
(***************************************************************************)
LEMMA StoreStep ==
  ASSUME BaseInv, [Next]_vars
  PROVE  [ExclusiveNext]_storeVars
<1>1. ASSUME NEW p \in Inspectors, Proceed(p)
      PROVE  ExclusiveNext
  BY <1>1 DEF ExclusiveNext, ExclusiveStep
<1>2. ASSUME NEW p \in Inspectors, Poll(p)
      PROVE  [ExclusiveNext]_storeVars
  <2> DEFINE b == NextBlock(p)
  <2>1. CASE IsDue(b)
    <3>1. Begin(p, b, b + 1)
      BY <1>2, <2>1 DEF Poll
    <3>2. <<b, b + 1>> \in Ranges
      BY <2>1, DueBlock DEF Ranges
    <3>3. RangeFree(b, b + 1)
      BY <1>2 DEF RangeFree, BaseInv, Poll, Up
    <3>4. \E r \in Ranges : RangeFree(r[1], r[2]) /\ Begin(p, r[1], r[2])
      <4> HIDE DEF b
      <4>1. <<b, b + 1>>[1] = b /\ <<b, b + 1>>[2] = b + 1
        OBVIOUS
      <4>2. QED
        BY <3>1, <3>2, <3>3, <4>1
    <3>5. QED
      BY <3>4 DEF ExclusiveNext, ExclusiveStep
  <2>2. CASE ~IsDue(b)
    BY <1>2, <2>2 DEF Poll
  <2>3. QED
    BY <2>1, <2>2
<1>3. ASSUME NEW p \in Inspectors, Gone(p)
      PROVE  [ExclusiveNext]_storeVars
  <2>1. CASE Active(p)
    <3>1. Fail(p)
      BY <1>3, <2>1 DEF Gone, Fail
    <3>2. QED
      BY <3>1 DEF ExclusiveNext, ExclusiveStep
  <2>2. CASE ~Active(p)
    <3>1. job[p] = NoJob /\ pend[p] = {} /\ pendSummary[p] = NoRows
      BY <2>2 DEF BaseInv, IInv, OwnOK, PendOK, SummaryOK, Active
    <3>2. UNCHANGED <<job, pend, pendSummary>>
      BY <1>3, <3>1 DEF Gone, Rollback, BaseInv, IInv, TypeOK
    <3>3. UNCHANGED storeVars
      BY <1>3, <3>2 DEF Gone, storeVars
    <3>4. QED
      BY <3>3
  <2>3. QED
    BY <2>1, <2>2
<1>4. QED
  BY <1>1, <1>2, <1>3
     DEF Next, vars, Step, Proceed, InspectFetch, InspectDelete, InspectWrite,
         InspectReturn, UpdateLatestBlock, SendExport, EndTurn, Start, Exit,
         Stop, Kill, Mine, Reorganise

LEMMA BaseStep ==
  ASSUME BaseInv, [Next]_vars
  PROVE  BaseInv'
<1> USE BlockAssumption, LagAssumption
<1>0. IInv' /\ TypeOK'
  BY StoreStep, IInvStep DEF BaseInv, IInv
<1>1. ASSUME NEW p \in Inspectors, Poll(p)
      PROVE  BaseInv'
  <2> DEFINE b == NextBlock(p)
  <2>1. CASE IsDue(b)
    <3>1. b \in Blocks
      BY <2>1, DueBlock
    <3> HIDE DEF b
    <3>2. /\ pc[p] = "poll" /\ Begin(p, b, b + 1)
          /\ blk' = [blk EXCEPT ![p] = b]
          /\ base' \in {b, base}
          /\ pc' = [pc EXCEPT ![p] = "inspect"]
          /\ UNCHANGED <<pendCursor, cursor, stopping, sent, fetched, stored,
                         chainVars, boundVars>>
      BY <1>1, <2>1 DEF Poll, b
    <3>3. /\ job'[p].phase = "fetch"
          /\ job'[p].after = b /\ job'[p].before = b + 1
          /\ \A q \in Inspectors : q # p => job'[q] = job[q]
      BY <3>2 DEF Begin, BaseInv, IInv, TypeOK
    <3>4. ListenerTypeOK'
      BY <1>0, <3>1, <3>2
         DEF BaseInv, ListenerTypeOK, Locations, Cursor, chainVars, boundVars
    <3>5. QED
      BY <1>0, <3>1, <3>2, <3>3, <3>4
         DEF BaseInv, ListenerTypeOK, Up, Active, chainVars
  <2>2. CASE ~IsDue(b)
    <3>1. /\ pc[p] = "poll" /\ pc' = [pc EXCEPT ![p] = "sleep"]
          /\ UNCHANGED <<job, blk, base, pendCursor, cursor, stopping, sent,
                         fetched, stored, head, chain, forks, kills, stops>>
      BY <1>1, <2>2 DEF Poll, storeVars, chainVars, boundVars
    <3>2. QED
      BY <1>0, <3>1 DEF BaseInv, ListenerTypeOK, Locations, Up, Active
  <2>3. QED
    BY <2>1, <2>2
<1>2. ASSUME NEW p \in Inspectors, InspectFetch(p)
      PROVE  BaseInv'
  <2>1. /\ pc[p] = "inspect" /\ blk[p] \in Blocks
        /\ fetched' = [fetched EXCEPT ![p] = chain[blk[p]]]
        /\ UNCHANGED <<pc, blk, pendCursor, cursor, stopping, sent, stored,
                       base, head, chain, forks, kills, stops>>
    BY <1>2 DEF InspectFetch, BaseInv, chainVars, boundVars
  <2>2. /\ job'[p].phase \in {"fetch", "delete"}
        /\ job'[p].after = job[p].after /\ job'[p].before = job[p].before
        /\ \A q \in Inspectors : q # p => job'[q] = job[q]
    BY <1>2 DEF InspectFetch, FetchBlock, BaseInv, IInv, TypeOK
  <2>3. QED
    BY <1>0, <2>1, <2>2 DEF BaseInv, ListenerTypeOK, Locations, Up, Active
<1>3. ASSUME NEW p \in Inspectors, InspectDelete(p)
      PROVE  BaseInv'
  <2>1. /\ pc[p] = "inspect"
        /\ cursor' = SessionCursor(p)
        /\ pendCursor' = [pendCursor EXCEPT ![p] = NoBlock]
        /\ UNCHANGED <<pc, blk, stopping, sent, fetched, stored, base,
                       head, chain, forks, kills, stops>>
    BY <1>3 DEF InspectDelete, chainVars, boundVars
  <2>2. SessionCursor(p) \in Cursor /\ NoBlock \in Cursor
    BY DEF SessionCursor, BaseInv, ListenerTypeOK, Cursor
  <2>3. /\ job'[p].phase = "write"
        /\ job'[p].after = job[p].after /\ job'[p].before = job[p].before
        /\ \A q \in Inspectors : q # p => job'[q] = job[q]
    BY <1>3 DEF InspectDelete, DeleteTable, Goto, BaseInv, IInv, TypeOK
  <2>4. QED
    BY <1>0, <2>1, <2>2, <2>3 DEF BaseInv, ListenerTypeOK, Up, Active
<1>4. ASSUME NEW p \in Inspectors, InspectWrite(p)
      PROVE  BaseInv'
  <2>1. /\ pc[p] = "inspect"
        /\ UNCHANGED <<head, chain, forks, pc, blk, pendCursor, cursor,
                       stopping, sent, fetched, stored, base, kills, stops>>
    BY <1>4 DEF InspectWrite, chainVars, listenerVars, boundVars
  <2>2. /\ job'[p].phase # "idle"
        /\ job'[p].after = job[p].after /\ job'[p].before = job[p].before
        /\ \A q \in Inspectors : q # p => job'[q] = job[q]
    BY <1>4 DEF InspectWrite, WriteTable, NextTable, SummaryDelete,
                SummaryArbitrages, Goto, BaseInv, IInv, TypeOK
  <2>3. QED
    BY <1>0, <2>1, <2>2 DEF BaseInv, ListenerTypeOK, Up, Active
<1>5. ASSUME NEW p \in Inspectors, InspectReturn(p)
      PROVE  BaseInv'
  <2>1. /\ pc[p] = "inspect" /\ blk[p] \in Blocks
        /\ stored' = [stored EXCEPT ![blk[p]] = fetched[p]]
        /\ pc' = [pc EXCEPT ![p] = "update"]
        /\ UNCHANGED <<blk, pendCursor, cursor, stopping, sent, fetched, base,
                       head, chain, forks, kills, stops>>
    BY <1>5 DEF InspectReturn, BaseInv, chainVars, boundVars
  <2>2. /\ job'[p] = NoJob /\ \A q \in Inspectors : q # p => job'[q] = job[q]
    BY <1>5 DEF InspectReturn, SummaryLiquidations, BaseInv, IInv, TypeOK
  <2>3. QED
    BY <1>0, <2>1, <2>2
       DEF BaseInv, ListenerTypeOK, Locations, Up, Active, NoJob
<1>6. ASSUME NEW p \in Inspectors, UpdateLatestBlock(p)
      PROVE  BaseInv'
  BY <1>0, <1>6 DEF UpdateLatestBlock, BaseInv, ListenerTypeOK, Locations,
                    Cursor, Up, Active, storeVars, chainVars, boundVars
<1>7. ASSUME NEW p \in Inspectors, SendExport(p)
      PROVE  BaseInv'
  BY <1>0, <1>7 DEF SendExport, BaseInv, ListenerTypeOK, Locations,
                    Up, Active, storeVars, chainVars, boundVars
<1>8. ASSUME NEW p \in Inspectors, EndTurn(p) \/ Start(p)
      PROVE  BaseInv'
  BY <1>0, <1>8 DEF EndTurn, Start, BaseInv, ListenerTypeOK, Locations,
                    Up, Active, storeVars, chainVars, boundVars
<1>9. ASSUME NEW p \in Inspectors, Gone(p), kills' \in Nat, stops' \in Nat
      PROVE  BaseInv'
  <2>1. /\ pc' = [pc EXCEPT ![p] = "down"]
        /\ pendCursor' = [pendCursor EXCEPT ![p] = NoBlock]
        /\ stopping' = [stopping EXCEPT ![p] = FALSE]
        /\ UNCHANGED <<blk, cursor, sent, fetched, stored, base,
                       head, chain, forks>>
    BY <1>9 DEF Gone, chainVars
  <2>2. job'[p] = NoJob /\ \A q \in Inspectors : q # p => job'[q] = job[q]
    BY <1>9 DEF Gone, Rollback, BaseInv, IInv, TypeOK
  <2>3. QED
    BY <1>0, <1>9, <2>1, <2>2
       DEF BaseInv, ListenerTypeOK, Locations, Cursor, Up, Active, NoJob
<1>10. ASSUME NEW p \in Inspectors, Stop(p)
       PROVE  BaseInv'
  BY <1>0, <1>10 DEF Stop, BaseInv, ListenerTypeOK, Up, Active, storeVars,
                     chainVars
<1>11. CASE Mine
  BY <1>0, <1>11 DEF Mine, BaseInv, ListenerTypeOK, Blocks, Up, Active,
                     storeVars, listenerVars, boundVars
<1>12. ASSUME NEW d \in 1 .. MaxDepth, Reorganise(d)
       PROVE  BaseInv'
  BY <1>0, <1>12 DEF Reorganise, BaseInv, ListenerTypeOK, Up, Active,
                     storeVars, listenerVars, boundVars
<1>13. CASE UNCHANGED vars
  BY <1>0, <1>13 DEF vars, BaseInv, ListenerTypeOK, Up, Active, storeVars,
                     chainVars, listenerVars, boundVars
<1>14. QED
  BY <1>1, <1>2, <1>3, <1>4, <1>5, <1>6, <1>7, <1>8, <1>9, <1>10, <1>11,
     <1>12, <1>13
     DEF Next, Step, Exit, Kill, boundVars, BaseInv, ListenerTypeOK

LEMMA BaseAlways == Spec => []BaseInv
BY BaseInit, BaseStep, PTL DEF Spec

(***************************************************************************)
(* Whatever crashes and signals do, the listener's inspections are         *)
(* exclusive ones.                                                         *)
(***************************************************************************)
THEOREM ListenerInspectsExclusively == Spec => InspectsExclusively
<1>1. Init => InitStore
  BY DEF Init
<1>2. QED
  BY <1>1, BaseAlways, StoreStep, PTL DEF Spec, InspectsExclusively, ExclusiveSpec

-----------------------------------------------------------------------------
(* What the two cursors cover.                                             *)

(***************************************************************************)
(* The blocks from base to c are complete and, up to the last of them,     *)
(* exported.                                                               *)
(***************************************************************************)
Covers(c) ==
  /\ base \in Blocks /\ base <= c
  /\ \A b \in Blocks : base <= b /\ b <= c => last[b] \in done
  /\ \A b \in Blocks : base <= b /\ b < c => b \in sent

(***************************************************************************)
(* The session's cursor lives from the update to the first commit of the   *)
(* next inspection, and is one ahead of the committed one.                 *)
(***************************************************************************)
PendingOK(p) ==
  pendCursor[p] # NoBlock =>
    /\ pc[p] \in {"send", "ping", "poll", "sleep", "inspect"}
    /\ pc[p] = "inspect" => ~Touched(p)
    /\ Covers(pendCursor[p])
    /\ pc[p] # "send" => pendCursor[p] \in sent
    /\ cursor # NoBlock => pendCursor[p] = cursor + 1

(* The turn that p is in is about the block after the session's cursor. *)
TurnOK(p) ==
  /\ pc[p] \in {"inspect", "update"} =>
       IF SessionCursor(p) = NoBlock THEN base = blk[p]
                                     ELSE blk[p] = SessionCursor(p) + 1
  /\ pc[p] = "update" => last[blk[p]] \in done
  /\ pc[p] = "send" => pendCursor[p] = blk[p]

CommittedOK == cursor # NoBlock => Covers(cursor) /\ cursor \in sent

CoverInv ==
  /\ CommittedOK
  /\ \A p \in Inspectors : PendingOK(p) /\ TurnOK(p)

LEMMA CoverInit == Init => CoverInv
BY DEF Init, CoverInv, CommittedOK, PendingOK, TurnOK

(***************************************************************************)
(* The listeners that are down stay out of the way.                        *)
(***************************************************************************)
LEMMA OnlyOneUp ==
  ASSUME BaseInv, CoverInv, NEW p \in Inspectors, Up(p),
         NEW q \in Inspectors, q # p
  PROVE  pc[q] = "down" /\ pendCursor[q] = NoBlock
BY DEF BaseInv, CoverInv, PendingOK, Up

(***************************************************************************)
(* A step of p keeps CoverInv if it keeps p's part and the committed       *)
(* cursor's, and leaves the location and cursor of the others alone.       *)
(***************************************************************************)
LEMMA CoverKeptBy ==
  ASSUME BaseInv, CoverInv, NEW p \in Inspectors, Up(p),
         \A q \in Inspectors : q # p =>
            pc'[q] = pc[q] /\ pendCursor'[q] = pendCursor[q],
         CommittedOK', PendingOK(p)', TurnOK(p)'
  PROVE  CoverInv'
<1>1. ASSUME NEW q \in Inspectors, q # p
      PROVE  PendingOK(q)' /\ TurnOK(q)'
  <2>1. pc'[q] = "down" /\ pendCursor'[q] = NoBlock
    BY <1>1, OnlyOneUp
  <2>2. QED
    BY <2>1 DEF PendingOK, TurnOK
<1>2. QED
  BY <1>1 DEF CoverInv

LEMMA CoverOnPoll ==
  ASSUME BaseInv, CoverInv, NEW p \in Inspectors, Poll(p)
  PROVE  CoverInv'
<1> DEFINE b == NextBlock(p)
<1>1. Up(p)
  BY DEF Poll, Up
<1>2. CASE IsDue(b)
  <2>0. b \in Blocks
    BY <1>2, DueBlock
  <2>1. /\ pc[p] = "poll" /\ Begin(p, b, b + 1)
        /\ blk' = [blk EXCEPT ![p] = b]
        /\ base' = IF SessionCursor(p) = NoBlock THEN b ELSE base
        /\ pc' = [pc EXCEPT ![p] = "inspect"]
        /\ UNCHANGED <<pendCursor, cursor, sent>>
    BY <1>2 DEF Poll
  <2>2. b = IF SessionCursor(p) = NoBlock THEN head - Lag
                                          ELSE SessionCursor(p) + 1
    BY DEF NextBlock
  <2> HIDE DEF b
  <2>3. /\ job'[p].phase = "fetch" /\ pc'[p] = "inspect" /\ blk'[p] = b
        /\ \A q \in Inspectors : q # p => pc'[q] = pc[q]
        /\ UNCHANGED <<last, done>>
    BY <2>1 DEF Begin, BaseInv, ListenerTypeOK, IInv, TypeOK
  <2>4. ~Touched(p)'
    BY <2>3 DEF Touched, SummaryPhases
  <2>5. SessionCursor(p) = NoBlock \/ base' = base
    BY <2>1
  <2>6. SessionCursor(p)' = SessionCursor(p)
    BY <2>1 DEF SessionCursor
  <2>7. CommittedOK'
    BY <2>1, <2>3, <2>5 DEF CoverInv, CommittedOK, Covers, SessionCursor
  <2>8. PendingOK(p)'
    BY <2>1, <2>3, <2>4, <2>5 DEF CoverInv, PendingOK, Covers, SessionCursor
  <2>9. TurnOK(p)'
    BY <2>1, <2>2, <2>3, <2>6 DEF TurnOK
  <2>10. QED
    BY <1>1, <2>1, <2>3, <2>7, <2>8, <2>9, CoverKeptBy
<1>3. CASE ~IsDue(b)
  <2>1. /\ pc[p] = "poll" /\ pc' = [pc EXCEPT ![p] = "sleep"]
        /\ UNCHANGED <<job, last, done, blk, base, pendCursor, cursor, sent>>
    BY <1>3 DEF Poll, storeVars
  <2>2. pc'[p] = "sleep" /\ \A q \in Inspectors : q # p => pc'[q] = pc[q]
    BY <2>1 DEF BaseInv, ListenerTypeOK
  <2>3. CommittedOK'
    BY <2>1 DEF CoverInv, CommittedOK, Covers
  <2>4. PendingOK(p)'
    BY <2>1, <2>2 DEF CoverInv, PendingOK, Covers
  <2>5. TurnOK(p)'
    BY <2>2 DEF TurnOK
  <2>6. QED
    BY <1>1, <2>1, <2>2, <2>3, <2>4, <2>5, CoverKeptBy
<1>4. QED
  BY <1>2, <1>3

LEMMA CoverOnFetch ==
  ASSUME BaseInv, CoverInv, NEW p \in Inspectors, InspectFetch(p)
  PROVE  CoverInv'
<1>1. /\ pc[p] = "inspect" /\ FetchBlock(p)
      /\ UNCHANGED <<last, done, pc, blk, base, pendCursor, cursor, sent>>
  BY DEF InspectFetch, FetchBlock
<1>2. job'[p].phase \in {"fetch", "delete"} /\ job'[p].tab = 1
  <2>1. job[p].phase = "fetch" /\ job[p].tab = 1
    BY <1>1 DEF FetchBlock, BaseInv, IInv, OwnOK, FetchOK
  <2>2. QED
    BY <1>1, <2>1 DEF FetchBlock, BaseInv, IInv, TypeOK
<1>3. ~Touched(p)'
  BY <1>2 DEF Touched, SummaryPhases
<1>4. CommittedOK'
  BY <1>1 DEF CoverInv, CommittedOK, Covers
<1>5. PendingOK(p)' /\ TurnOK(p)'
  BY <1>1, <1>3 DEF CoverInv, PendingOK, TurnOK, Covers, SessionCursor
<1>6. QED
  BY <1>1, <1>4, <1>5, CoverKeptBy DEF Up

(***************************************************************************)
(* The span of the one run of the listener is its block.                   *)
(***************************************************************************)
LEMMA SpanIsBlock ==
  ASSUME BaseInv, NEW p \in Inspectors, pc[p] = "inspect"
  PROVE  Span(p) = {blk[p]} /\ blk[p] \in Blocks
BY BlockAssumption DEF BaseInv, Span, Blocks

LEMMA CoverOnDelete ==
  ASSUME BaseInv, CoverInv, NEW p \in Inspectors, InspectDelete(p)
  PROVE  CoverInv'
<1>1. /\ pc[p] = "inspect" /\ DeleteTable(p)
      /\ cursor' = SessionCursor(p)
      /\ pendCursor' = [pendCursor EXCEPT ![p] = NoBlock]
      /\ UNCHANGED <<done, pc, blk, base, sent>>
  BY DEF InspectDelete, DeleteTable
<1>2. pendCursor'[p] = NoBlock
      /\ \A q \in Inspectors : q # p => pendCursor'[q] = pendCursor[q]
  BY <1>1 DEF BaseInv, ListenerTypeOK
<1>3. Span(p) = {blk[p]} /\ blk[p] \in Blocks
  BY <1>1, SpanIsBlock
<1>4. SessionCursor(p) # NoBlock =>
        /\ Covers(SessionCursor(p)) /\ SessionCursor(p) \in sent
        /\ SessionCursor(p) \in Blocks /\ blk[p] = SessionCursor(p) + 1
  BY <1>1 DEF CoverInv, CommittedOK, PendingOK, TurnOK, SessionCursor,
              BaseInv, ListenerTypeOK, Cursor
<1>5. \A b \in Blocks : b # blk[p] => last'[b] = last[b]
  BY <1>1, <1>3 DEF DeleteTable
<1>6. CommittedOK'
  <2>1. SUFFICES ASSUME SessionCursor(p) # NoBlock
                 PROVE  Covers(SessionCursor(p))'
    BY <1>1, <1>4 DEF CommittedOK, Covers, SessionCursor
  <2>2. QED
    BY <1>1, <1>4, <1>5, <2>1, BlockAssumption DEF Covers, Blocks, SessionCursor
<1>7. PendingOK(p)' /\ TurnOK(p)'
  BY <1>1, <1>2 DEF PendingOK, TurnOK, CoverInv, SessionCursor
<1>8. QED
  BY <1>1, <1>2, <1>6, <1>7, CoverKeptBy DEF Up

LEMMA CoverOnWrite ==
  ASSUME BaseInv, CoverInv, NEW p \in Inspectors, InspectWrite(p)
  PROVE  CoverInv'
<1>1. /\ pc[p] = "inspect" /\ Touched(p)
      /\ UNCHANGED <<last, done, pc, blk, base, pendCursor, cursor, sent>>
  BY DEF InspectWrite, listenerVars, WriteTable, SummaryDelete,
         SummaryArbitrages, Touched, SummaryPhases
<1>2. CommittedOK'
  BY <1>1 DEF CoverInv, CommittedOK, Covers
<1>3. PendingOK(p)' /\ TurnOK(p)'
  BY <1>1 DEF CoverInv, PendingOK, TurnOK, SessionCursor
<1>4. QED
  BY <1>1, <1>2, <1>3, CoverKeptBy DEF Up

LEMMA CoverOnReturn ==
  ASSUME BaseInv, CoverInv, NEW p \in Inspectors, InspectReturn(p)
  PROVE  CoverInv'
<1>1. /\ pc[p] = "inspect" /\ pc' = [pc EXCEPT ![p] = "update"]
      /\ job[p].phase = "summary_liquidations"
      /\ done' = done \cup {RunOf(p)}
      /\ UNCHANGED <<last, blk, base, pendCursor, cursor, sent>>
  BY DEF InspectReturn, SummaryLiquidations
<1>2. pc'[p] = "update" /\ \A q \in Inspectors : q # p => pc'[q] = pc[q]
  BY <1>1 DEF BaseInv, ListenerTypeOK
<1>3. Touched(p) /\ pendCursor[p] = NoBlock
  BY <1>1 DEF Touched, SummaryPhases, CoverInv, PendingOK
<1>4. last[blk[p]] = RunOf(p)
  BY <1>1, <1>3, SpanIsBlock DEF BaseInv, IInv, OwnOK, LastOK, Active
<1>5. CommittedOK'
  BY <1>1 DEF CoverInv, CommittedOK, Covers
<1>6. PendingOK(p)' /\ TurnOK(p)'
  BY <1>1, <1>2, <1>3, <1>4 DEF CoverInv, PendingOK, TurnOK, SessionCursor
<1>7. QED
  BY <1>1, <1>2, <1>5, <1>6, CoverKeptBy DEF Up

LEMMA CoverOnUpdate ==
  ASSUME BaseInv, CoverInv, NEW p \in Inspectors, UpdateLatestBlock(p)
  PROVE  CoverInv'
<1>1. /\ pc[p] = "update" /\ pc' = [pc EXCEPT ![p] = "send"]
      /\ pendCursor' = [pendCursor EXCEPT ![p] = blk[p]]
      /\ UNCHANGED <<last, done, blk, base, cursor, sent>>
  BY DEF UpdateLatestBlock, storeVars
<1>2. /\ pc'[p] = "send" /\ pendCursor'[p] = blk[p]
      /\ \A q \in Inspectors : q # p =>
           pc'[q] = pc[q] /\ pendCursor'[q] = pendCursor[q]
  BY <1>1 DEF BaseInv, ListenerTypeOK
<1>3. /\ pendCursor[p] = NoBlock /\ SessionCursor(p) = cursor
      /\ blk[p] \in Blocks /\ last[blk[p]] \in done
  BY <1>1 DEF CoverInv, PendingOK, TurnOK, SessionCursor, BaseInv
<1>4. IF cursor = NoBlock THEN base = blk[p]
                          ELSE blk[p] = cursor + 1 /\ cursor \in Blocks
                               /\ Covers(cursor) /\ cursor \in sent
  BY <1>1, <1>3 DEF CoverInv, TurnOK, CommittedOK, BaseInv, ListenerTypeOK,
                    Cursor
<1>5. CommittedOK'
  BY <1>1 DEF CoverInv, CommittedOK, Covers
<1>6. Covers(blk[p])
  BY <1>3, <1>4, BlockAssumption DEF Covers, Blocks
<1>7. PendingOK(p)' /\ TurnOK(p)'
  BY <1>1, <1>2, <1>4, <1>6 DEF PendingOK, TurnOK, Covers
<1>8. QED
  BY <1>1, <1>2, <1>5, <1>7, CoverKeptBy DEF Up

LEMMA CoverOnSend ==
  ASSUME BaseInv, CoverInv, NEW p \in Inspectors, SendExport(p)
  PROVE  CoverInv'
<1>1. /\ pc[p] = "send" /\ pc' = [pc EXCEPT ![p] = "ping"]
      /\ sent' = sent \cup {blk[p]}
      /\ UNCHANGED <<last, done, blk, base, cursor, pendCursor>>
  BY DEF SendExport, storeVars
<1>2. pc'[p] = "ping" /\ \A q \in Inspectors : q # p => pc'[q] = pc[q]
  BY <1>1 DEF BaseInv, ListenerTypeOK
<1>3. CommittedOK'
  BY <1>1 DEF CoverInv, CommittedOK, Covers
<1>4. PendingOK(p)' /\ TurnOK(p)'
  BY <1>1, <1>2 DEF CoverInv, PendingOK, TurnOK, Covers
<1>5. QED
  BY <1>1, <1>2, <1>3, <1>4, CoverKeptBy DEF Up

LEMMA CoverOnEndTurn ==
  ASSUME BaseInv, CoverInv, NEW p \in Inspectors, EndTurn(p)
  PROVE  CoverInv'
<1>1. /\ pc[p] \in {"ping", "sleep"} /\ pc' = [pc EXCEPT ![p] = "poll"]
      /\ UNCHANGED <<last, done, blk, base, cursor, pendCursor, sent>>
  BY DEF EndTurn, storeVars
<1>2. pc'[p] = "poll" /\ \A q \in Inspectors : q # p => pc'[q] = pc[q]
  BY <1>1 DEF BaseInv, ListenerTypeOK
<1>3. CommittedOK'
  BY <1>1 DEF CoverInv, CommittedOK, Covers
<1>4. PendingOK(p)' /\ TurnOK(p)'
  BY <1>1, <1>2 DEF CoverInv, PendingOK, TurnOK, Covers
<1>5. QED
  BY <1>1, <1>2, <1>3, <1>4, CoverKeptBy DEF Up

LEMMA CoverOnStart ==
  ASSUME BaseInv, CoverInv, NEW p \in Inspectors, Start(p)
  PROVE  CoverInv'
<1>1. /\ \A q \in Inspectors : pc[q] = "down"
      /\ pc' = [pc EXCEPT ![p] = "poll"]
      /\ UNCHANGED <<last, done, base, cursor, pendCursor, sent>>
  BY DEF Start, storeVars
<1>2. \A q \in Inspectors : pendCursor'[q] = NoBlock /\ pc'[q] \in {"down", "poll"}
  BY <1>1 DEF CoverInv, PendingOK, BaseInv, ListenerTypeOK
<1>3. QED
  BY <1>1, <1>2 DEF CoverInv, CommittedOK, Covers, PendingOK, TurnOK

LEMMA CoverOnGone ==
  ASSUME BaseInv, CoverInv, NEW p \in Inspectors, Up(p), Gone(p)
  PROVE  CoverInv'
<1>1. /\ pc' = [pc EXCEPT ![p] = "down"]
      /\ pendCursor' = [pendCursor EXCEPT ![p] = NoBlock]
      /\ UNCHANGED <<last, done, blk, base, cursor, sent>>
  BY DEF Gone
<1>2. /\ pc'[p] = "down" /\ pendCursor'[p] = NoBlock
      /\ \A q \in Inspectors : q # p =>
           pc'[q] = pc[q] /\ pendCursor'[q] = pendCursor[q]
  BY <1>1 DEF BaseInv, ListenerTypeOK
<1>3. CommittedOK'
  BY <1>1 DEF CoverInv, CommittedOK, Covers
<1>4. PendingOK(p)' /\ TurnOK(p)'
  BY <1>2 DEF PendingOK, TurnOK
<1>5. QED
  BY <1>2, <1>3, <1>4, CoverKeptBy

LEMMA CoverStep ==
  ASSUME BaseInv, CoverInv, [Next]_vars
  PROVE  CoverInv'
<1>1. ASSUME UNCHANGED <<storeVars, pc, blk, base, cursor, pendCursor, sent>>
      PROVE  CoverInv'
  <2>1. UNCHANGED <<job, last, done, pc, blk, base, cursor, pendCursor, sent>>
    BY <1>1 DEF storeVars
  <2>2. CommittedOK'
    BY <2>1 DEF CoverInv, CommittedOK, Covers
  <2>3. ASSUME NEW p \in Inspectors
        PROVE  PendingOK(p)' /\ TurnOK(p)'
    BY <2>1 DEF CoverInv, PendingOK, TurnOK, Covers, Touched, SessionCursor
  <2>4. QED
    BY <2>2, <2>3 DEF CoverInv
<1>2. ASSUME NEW p \in Inspectors, Exit(p) \/ Kill(p)
      PROVE  CoverInv'
  BY <1>2, CoverOnGone DEF Exit, Kill, Up, AtAwait
<1>3. ASSUME NEW p \in Inspectors, Stop(p)
      PROVE  CoverInv'
  BY <1>1, <1>3 DEF Stop
<1>4. CASE Mine \/ (\E d \in 1 .. MaxDepth : Reorganise(d)) \/ UNCHANGED vars
  BY <1>1, <1>4 DEF Mine, Reorganise, vars, listenerVars
<1>5. QED
  BY <1>2, <1>3, <1>4, CoverOnPoll, CoverOnFetch, CoverOnDelete, CoverOnWrite,
     CoverOnReturn, CoverOnUpdate, CoverOnSend, CoverOnEndTurn, CoverOnStart
     DEF Next, Step

LEMMA CoverAlways == Spec => [](BaseInv /\ CoverInv)
BY BaseInit, CoverInit, BaseStep, CoverStep, PTL DEF Spec

-----------------------------------------------------------------------------
(* The properties.                                                         *)

(***************************************************************************)
(* The types of the listener's variables and of the store.                 *)
(***************************************************************************)
THEOREM ListenerTypeCorrect == Spec => []ListenerTypeOK
<1>1. BaseInv => ListenerTypeOK
  BY DEF BaseInv
<1>2. QED
  BY <1>1, BaseAlways, PTL

(***************************************************************************)
(* Every block up to the committed cursor is complete.                     *)
(***************************************************************************)
THEOREM CursorNeverAheadOfData == Spec => []CursorCovers
<1>1. BaseInv /\ CoverInv => CursorCovers
  BY BlockAssumption DEF BaseInv, ListenerTypeOK, CoverInv, CommittedOK, Covers,
                         CursorCovers, Cursor, Blocks
<1>2. QED
  BY <1>1, CoverAlways, PTL

(***************************************************************************)
(* Every block up to the committed cursor has been sent for export.        *)
(***************************************************************************)
THEOREM CursorNeverAheadOfExports == Spec => []CursorIsExported
<1>1. BaseInv /\ CoverInv => CursorIsExported
  BY BlockAssumption DEF BaseInv, ListenerTypeOK, CoverInv, CommittedOK, Covers,
                         CursorIsExported, Cursor, Blocks
<1>2. QED
  BY <1>1, CoverAlways, PTL

(***************************************************************************)
(* What the listener's last finished run wrote of a block is exactly what  *)
(* the database holds of it.                                               *)
(***************************************************************************)
THEOREM ListenerWritesExactly == Spec => []FinishedRunsExact
<1>1. BaseInv => FinishedRunsExact
  BY DEF BaseInv, IInv
<1>2. QED
  BY <1>1, BaseAlways, PTL
-----------------------------------------------------------------------------
(* The refinement of BlockStream.                                          *)

CompleteBlocks == {b \in Blocks : last[b] \in done}

(***************************************************************************)
(* The position of the stream is the cursor of the only session that can   *)
(* have one of its own; before a step and after it.                        *)
(***************************************************************************)
LEMMA PositionIs ==
  ASSUME NEW p \in Inspectors,
         \A q \in Inspectors : q # p => pendCursor[q] = NoBlock
  PROVE  Position = SessionCursor(p)
<1>1. CASE pendCursor[p] # NoBlock
  <2>1. (CHOOSE q \in Inspectors : pendCursor[q] # NoBlock) = p
    BY <1>1
  <2>2. QED
    BY <1>1, <2>1 DEF Position, SessionCursor
<1>2. CASE pendCursor[p] = NoBlock
  BY <1>2 DEF Position, SessionCursor
<1>3. QED
  BY <1>1, <1>2

LEMMA PositionWillBe ==
  ASSUME NEW p \in Inspectors,
         \A q \in Inspectors : q # p => pendCursor'[q] = NoBlock
  PROVE  Position' = IF pendCursor'[p] # NoBlock THEN pendCursor'[p]
                                                 ELSE cursor'
<1>1. CASE pendCursor'[p] # NoBlock
  <2>1. (CHOOSE q \in Inspectors : pendCursor'[q] # NoBlock) = p
    BY <1>1
  <2>2. QED
    BY <1>1, <2>1 DEF Position
<1>2. CASE pendCursor'[p] = NoBlock
  BY <1>2 DEF Position
<1>3. QED
  BY <1>1, <1>2

LEMMA StreamInit == Init => Stream!Init
<1> SUFFICES ASSUME Init
             PROVE  Stream!Init
  OBVIOUS
<1>1. Position = NoBlock
  BY DEF Init, Position
<1>2. QED
  BY <1>1 DEF Init, InitStore, Stream!Init

(***************************************************************************)
(* A step that leaves the cursors, the exports and what is complete alone, *)
(* and moves base only while there is no cursor, is a stutter.             *)
(***************************************************************************)
LEMMA StreamStutter ==
  ASSUME Position' = Position, cursor' = cursor, sent' = sent,
         last' = last, done' = done,
         Position = NoBlock \/ base' = base
  PROVE  UNCHANGED Stream!streamVars
BY DEF Stream!streamVars

LEMMA StreamOnPoll ==
  ASSUME BaseInv, CoverInv, NEW p \in Inspectors, Poll(p)
  PROVE  UNCHANGED Stream!streamVars
<1>1. Position = SessionCursor(p)
  BY OnlyOneUp, PositionIs DEF Poll, Up
<1>2. UNCHANGED <<pendCursor, cursor, sent, last, done>>
  BY DEF Poll, Begin, storeVars
<1>3. Position' = Position
  BY <1>2 DEF Position
<1>4. SessionCursor(p) = NoBlock \/ base' = base
  BY DEF Poll
<1>5. QED
  BY <1>1, <1>2, <1>3, <1>4, StreamStutter

LEMMA StreamOnDelete ==
  ASSUME BaseInv, CoverInv, NEW p \in Inspectors, InspectDelete(p)
  PROVE  [Stream!Next]_(Stream!streamVars)
<1>1. /\ pc[p] = "inspect" /\ DeleteTable(p)
      /\ cursor' = SessionCursor(p)
      /\ pendCursor' = [pendCursor EXCEPT ![p] = NoBlock]
      /\ UNCHANGED <<done, base, sent>>
  BY DEF InspectDelete, DeleteTable
<1>2. \A q \in Inspectors : q # p => pendCursor[q] = NoBlock
  BY <1>1, OnlyOneUp DEF Up
<1>3. \A q \in Inspectors : pendCursor'[q] = NoBlock
  BY <1>1, <1>2 DEF BaseInv, ListenerTypeOK
<1>4. Position = SessionCursor(p) /\ Position' = Position
  BY <1>1, <1>2, <1>3, PositionIs, PositionWillBe
<1>5. CASE job[p].tab = 1
  <2>1. Span(p) = {blk[p]} /\ blk[p] \in Blocks
    BY <1>1, SpanIsBlock
  <2>2. RunOf(p) \notin done
    BY <1>1 DEF BaseInv, IInv, JobsApart
  <2>3. last' = [b \in Blocks |-> IF b = blk[p] THEN RunOf(p) ELSE last[b]]
    BY <1>1, <1>5, <2>1 DEF DeleteTable
  <2>4. CompleteBlocks' = CompleteBlocks \ {blk[p]}
    BY <1>1, <2>2, <2>3 DEF CompleteBlocks
  <2>5. Position # NoBlock => blk[p] = Position + 1 /\ Position \in sent
    BY <1>1, <1>4 DEF CoverInv, CommittedOK, PendingOK, TurnOK, SessionCursor
  <2>6. PICK b \in Blocks : b = blk[p]
    BY <2>1
  <2>7. Stream!Rework(b)
    BY <1>1, <1>4, <2>4, <2>5, <2>6
       DEF Stream!Rework, Stream!IsNext, CompleteBlocks
  <2>8. QED
    BY <2>7 DEF Stream!Next
<1>6. CASE job[p].tab # 1
  <2>1. Touched(p)
    <3>1. job[p].phase = "delete" /\ job[p].tab \in 1 .. NumTables
      BY <1>1 DEF DeleteTable, BaseInv, IInv, TypeOK
    <3>2. QED
      BY <1>6, <3>1, TableFacts DEF Touched
  <2>2. cursor' = cursor
    BY <1>1, <2>1 DEF CoverInv, PendingOK, SessionCursor
  <2>3. last' = last
    BY <1>1, <1>6 DEF DeleteTable, BaseInv, IInv, TypeOK
  <2>4. QED
    BY <1>1, <1>4, <2>2, <2>3, StreamStutter
<1>7. QED
  BY <1>5, <1>6

LEMMA StreamOnReturn ==
  ASSUME BaseInv, CoverInv, NEW p \in Inspectors, InspectReturn(p)
  PROVE  Stream!Next
<1>1. /\ pc[p] = "inspect" /\ job[p].phase = "summary_liquidations"
      /\ done' = done \cup {RunOf(p)}
      /\ UNCHANGED <<last, base, cursor, pendCursor, sent>>
  BY DEF InspectReturn, SummaryLiquidations
<1>2. Position = SessionCursor(p) /\ Position' = Position
  <2>1. Position = SessionCursor(p)
    BY <1>1, OnlyOneUp, PositionIs DEF Up
  <2>2. QED
    BY <1>1, <2>1 DEF Position
<1>3. Touched(p) /\ Span(p) = {blk[p]} /\ blk[p] \in Blocks
  BY <1>1, SpanIsBlock DEF Touched, SummaryPhases
<1>4. \A b \in Blocks : last[b] = RunOf(p) <=> b = blk[p]
  BY <1>1, <1>3 DEF BaseInv, IInv, OwnOK, LastOK, Active
<1>5. CompleteBlocks' = CompleteBlocks \cup {blk[p]}
  BY <1>1, <1>3, <1>4 DEF CompleteBlocks
<1>6. Position # NoBlock => blk[p] = Position + 1
  BY <1>1, <1>2 DEF CoverInv, TurnOK
<1>7. PICK b \in Blocks : b = blk[p]
  BY <1>3
<1>8. Stream!Complete(b)
  BY <1>1, <1>2, <1>5, <1>6, <1>7
     DEF Stream!Complete, Stream!IsNext, CompleteBlocks
<1>9. QED
  BY <1>8 DEF Stream!Next

LEMMA StreamOnUpdate ==
  ASSUME BaseInv, CoverInv, NEW p \in Inspectors, UpdateLatestBlock(p)
  PROVE  Stream!Next
<1>1. /\ pc[p] = "update"
      /\ pendCursor' = [pendCursor EXCEPT ![p] = blk[p]]
      /\ UNCHANGED <<last, done, base, cursor, sent>>
  BY DEF UpdateLatestBlock, storeVars
<1>2. \A q \in Inspectors : q # p => pendCursor[q] = NoBlock
  BY <1>1, OnlyOneUp DEF Up
<1>3. /\ pendCursor'[p] = blk[p]
      /\ \A q \in Inspectors : q # p => pendCursor'[q] = NoBlock
  BY <1>1, <1>2 DEF BaseInv, ListenerTypeOK
<1>4. blk[p] \in Blocks /\ blk[p] # NoBlock /\ last[blk[p]] \in done
  BY <1>1, NoBlockAssumption, BlockAssumption
     DEF BaseInv, CoverInv, TurnOK, Blocks
<1>5. pendCursor[p] = NoBlock
  BY <1>1 DEF CoverInv, PendingOK
<1>6. Position = cursor /\ SessionCursor(p) = cursor /\ Position' = blk[p]
  BY <1>2, <1>3, <1>4, <1>5, PositionIs, PositionWillBe DEF SessionCursor
<1>7. IF cursor = NoBlock THEN base = blk[p]
                          ELSE blk[p] = cursor + 1 /\ cursor \in sent
  BY <1>1, <1>6 DEF CoverInv, TurnOK, CommittedOK
<1>8. Stream!Advance(blk[p])
  BY <1>1, <1>4, <1>6, <1>7 DEF Stream!Advance, Stream!IsNext
<1>9. QED
  BY <1>4, <1>8 DEF Stream!Next

LEMMA StreamOnSend ==
  ASSUME BaseInv, CoverInv, NEW p \in Inspectors, SendExport(p)
  PROVE  Stream!Next
<1>1. /\ pc[p] = "send" /\ sent' = sent \cup {blk[p]}
      /\ UNCHANGED <<last, done, base, cursor, pendCursor>>
  BY DEF SendExport, storeVars
<1>2. blk[p] # NoBlock /\ pendCursor[p] = blk[p]
  BY <1>1, NoBlockAssumption, BlockAssumption
     DEF BaseInv, CoverInv, TurnOK, Blocks
<1>3. Position = blk[p] /\ Position' = Position
  <2>1. Position = SessionCursor(p)
    BY <1>1, OnlyOneUp, PositionIs DEF Up
  <2>2. QED
    BY <1>1, <1>2, <2>1 DEF Position, SessionCursor
<1>4. Stream!Announce
  BY <1>1, <1>2, <1>3 DEF Stream!Announce
<1>5. QED
  BY <1>4 DEF Stream!Next

LEMMA StreamOnGone ==
  ASSUME BaseInv, CoverInv, NEW p \in Inspectors, Up(p), Gone(p)
  PROVE  Stream!Next
<1>1. /\ pendCursor' = [pendCursor EXCEPT ![p] = NoBlock]
      /\ UNCHANGED <<last, done, base, cursor, sent>>
  BY DEF Gone
<1>2. \A q \in Inspectors : q # p => pendCursor[q] = NoBlock
  BY OnlyOneUp
<1>3. \A q \in Inspectors : pendCursor'[q] = NoBlock
  BY <1>1, <1>2 DEF BaseInv, ListenerTypeOK
<1>4. Position = SessionCursor(p) /\ Position' = cursor
  BY <1>1, <1>2, <1>3, PositionIs, PositionWillBe
<1>5. cursor # NoBlock => Position # NoBlock
  BY <1>4 DEF SessionCursor
<1>6. Stream!Restart
  BY <1>1, <1>4, <1>5 DEF Stream!Restart
<1>7. QED
  BY <1>6 DEF Stream!Next

LEMMA StreamStep ==
  ASSUME BaseInv, CoverInv, [Next]_vars
  PROVE  [Stream!Next]_(Stream!streamVars)
<1>1. ASSUME UNCHANGED <<last, done, base, cursor, pendCursor, sent>>
      PROVE  UNCHANGED Stream!streamVars
  <2>1. Position' = Position
    BY <1>1 DEF Position
  <2>2. QED
    BY <1>1, <2>1, StreamStutter
<1>2. ASSUME NEW p \in Inspectors,
             \/ InspectFetch(p) \/ InspectWrite(p) \/ EndTurn(p)
             \/ Start(p) \/ Stop(p)
      PROVE  UNCHANGED Stream!streamVars
  BY <1>1, <1>2 DEF InspectFetch, FetchBlock, InspectWrite, WriteTable,
     SummaryDelete, SummaryArbitrages, EndTurn, Start, Stop, storeVars,
     listenerVars
<1>3. ASSUME NEW p \in Inspectors, Exit(p) \/ Kill(p)
      PROVE  Stream!Next
  BY <1>3, StreamOnGone DEF Exit, Kill, Up, AtAwait
<1>4. CASE Mine \/ (\E d \in 1 .. MaxDepth : Reorganise(d)) \/ UNCHANGED vars
  BY <1>1, <1>4 DEF Mine, Reorganise, vars, storeVars, listenerVars
<1>5. QED
  BY <1>2, <1>3, <1>4, StreamOnPoll, StreamOnDelete, StreamOnReturn,
     StreamOnUpdate, StreamOnSend DEF Next, Step

(***************************************************************************)
(* The listener is an in-order, at-least-once stream of blocks, whatever   *)
(* the chain, the signals and the crashes do.                              *)
(***************************************************************************)
THEOREM ListenerImplementsStream == Spec => ImplementsStream
<1>1. QED
  BY StreamInit, StreamStep, CoverAlways, PTL
     DEF Spec, ImplementsStream, Stream!Spec
-----------------------------------------------------------------------------
(* Reorganisations.                                                        *)

(***************************************************************************)
(* A block that was read from the node is Lag blocks under the head, where *)
(* no reorganisation reaches.                                              *)
(***************************************************************************)
SettledInv ==
  /\ \A p \in Inspectors : pc[p] = "inspect" =>
       /\ blk[p] <= head - Lag
       /\ job[p].phase # "fetch" => fetched[p] = chain[blk[p]]
  /\ \A b \in Blocks : stored[b] # NoBlock =>
       b <= head - Lag /\ stored[b] = chain[b]

LEMMA SettledInit == Init => SettledInv
BY DEF Init, SettledInv

LEMMA SettledStep ==
  ASSUME MaxDepth <= Lag, BaseInv, SettledInv, [Next]_vars
  PROVE  SettledInv'
<1> USE BlockAssumption, LagAssumption, DepthAssumption
<1>0. head \in Nat
  BY DEF BaseInv, ListenerTypeOK, Blocks
<1>1. ASSUME NEW p \in Inspectors, Poll(p)
      PROVE  SettledInv'
  <2> DEFINE b == NextBlock(p)
  <2>1. CASE IsDue(b)
    <3>1. b <= head - Lag
      BY <2>1 DEF IsDue
    <3> HIDE DEF b
    <3>2. /\ Begin(p, b, b + 1)
          /\ blk' = [blk EXCEPT ![p] = b] /\ pc' = [pc EXCEPT ![p] = "inspect"]
          /\ UNCHANGED <<fetched, stored, head, chain>>
      BY <1>1, <2>1 DEF Poll, b, chainVars
    <3>3. /\ job'[p].phase = "fetch"
          /\ \A q \in Inspectors : q # p => job'[q] = job[q]
      BY <3>2 DEF Begin, BaseInv, IInv, TypeOK
    <3>4. QED
      BY <3>1, <3>2, <3>3 DEF BaseInv, ListenerTypeOK, SettledInv
  <2>2. CASE ~IsDue(b)
    BY <1>1, <2>2 DEF Poll, storeVars, chainVars, BaseInv, ListenerTypeOK,
                      SettledInv
  <2>3. QED
    BY <2>1, <2>2
<1>2. ASSUME NEW p \in Inspectors, InspectFetch(p)
      PROVE  SettledInv'
  <2>1. /\ pc[p] = "inspect" /\ fetched' = [fetched EXCEPT ![p] = chain[blk[p]]]
        /\ UNCHANGED <<pc, blk, stored, head, chain>>
        /\ \A q \in Inspectors : q # p => job'[q] = job[q]
    BY <1>2 DEF InspectFetch, FetchBlock, chainVars, BaseInv, IInv, TypeOK
  <2>2. QED
    BY <2>1 DEF BaseInv, ListenerTypeOK, SettledInv
<1>3. ASSUME NEW p \in Inspectors, InspectDelete(p) \/ InspectWrite(p)
      PROVE  SettledInv'
  <2>1. /\ job[p].phase # "fetch"
        /\ UNCHANGED <<pc, blk, fetched, stored, head, chain>>
        /\ \A q \in Inspectors : q # p => job'[q] = job[q]
    BY <1>3 DEF InspectDelete, DeleteTable, InspectWrite, WriteTable,
                NextTable, SummaryDelete, SummaryArbitrages, Goto, chainVars,
                listenerVars, BaseInv, IInv, TypeOK
  <2>2. QED
    BY <2>1 DEF SettledInv
<1>4. ASSUME NEW p \in Inspectors, InspectReturn(p)
      PROVE  SettledInv'
  <2>1. /\ pc[p] = "inspect" /\ job[p].phase # "fetch" /\ blk[p] \in Blocks
        /\ pc' = [pc EXCEPT ![p] = "update"]
        /\ stored' = [stored EXCEPT ![blk[p]] = fetched[p]]
        /\ UNCHANGED <<blk, fetched, head, chain>>
        /\ \A q \in Inspectors : q # p => job'[q] = job[q]
    BY <1>4 DEF InspectReturn, SummaryLiquidations, chainVars, BaseInv, IInv,
                TypeOK
  <2>2. QED
    BY <2>1 DEF BaseInv, ListenerTypeOK, SettledInv
<1>5. ASSUME NEW p \in Inspectors,
             UpdateLatestBlock(p) \/ SendExport(p) \/ EndTurn(p) \/ Start(p)
      PROVE  SettledInv'
  BY <1>5 DEF UpdateLatestBlock, SendExport, EndTurn, Start, storeVars,
              chainVars, BaseInv, ListenerTypeOK, SettledInv
<1>6. ASSUME NEW p \in Inspectors, Gone(p)
      PROVE  SettledInv'
  <2>1. /\ pc' = [pc EXCEPT ![p] = "down"]
        /\ UNCHANGED <<blk, fetched, stored, head, chain>>
        /\ \A q \in Inspectors : q # p => job'[q] = job[q]
    BY <1>6 DEF Gone, Rollback, chainVars, BaseInv, IInv, TypeOK
  <2>2. QED
    BY <2>1 DEF BaseInv, ListenerTypeOK, SettledInv
<1>7. CASE Mine
  BY <1>0, <1>7 DEF Mine, storeVars, listenerVars, BaseInv, ListenerTypeOK,
                    Blocks, SettledInv
<1>8. ASSUME NEW d \in 1 .. MaxDepth, Reorganise(d)
      PROVE  SettledInv'
  <2>1. \A b \in Blocks : b <= head - Lag => chain'[b] = chain[b]
    BY <1>0, <1>8 DEF Reorganise, Blocks
  <2>2. UNCHANGED <<job, pc, blk, fetched, stored, head>>
    BY <1>8 DEF Reorganise, storeVars, listenerVars
  <2>3. QED
    BY <2>1, <2>2 DEF BaseInv, SettledInv
<1>9. ASSUME UNCHANGED <<job, pc, blk, fetched, stored, head, chain>>
      PROVE  SettledInv'
  BY <1>9 DEF SettledInv
<1>10. ASSUME NEW p \in Inspectors, Stop(p)
       PROVE  SettledInv'
  BY <1>9, <1>10 DEF Stop, storeVars, chainVars
<1>11. QED
  BY <1>1, <1>2, <1>3, <1>4, <1>5, <1>6, <1>7, <1>8, <1>9, <1>10
     DEF Next, Step, Exit, Kill, vars, storeVars, chainVars, listenerVars

-----------------------------------------------------------------------------
(* Signals.                                                                *)

(***************************************************************************)
(* Until the first crash, a block that is half written belongs to the      *)
(* listener that is writing it.                                            *)
(***************************************************************************)
HalfWritten(b) == last[b] # 0 /\ last[b] \notin done

SignalInv ==
  kills = 0 =>
    \A b \in Blocks : HalfWritten(b) =>
      \E p \in Inspectors :
        pc[p] = "inspect" /\ Touched(p) /\ last[b] = RunOf(p)

LEMMA SignalInit == Init => SignalInv
BY DEF Init, InitStore, SignalInv, HalfWritten

(***************************************************************************)
(* A step keeps SignalInv if it leaves no more blocks half written and     *)
(* does not move a listener that is writing out of its run.                *)
(***************************************************************************)
LEMMA SignalKeptBy ==
  ASSUME SignalInv, kills' = kills \/ kills' # 0, last' = last,
         done \subseteq done',
         \A p \in Inspectors : pc[p] = "inspect" /\ Touched(p) =>
            \/ pc'[p] = "inspect" /\ Touched(p)' /\ RunOf(p)' = RunOf(p)
            \/ RunOf(p) \in done'
  PROVE  SignalInv'
BY DEF SignalInv, HalfWritten

LEMMA SignalStep ==
  ASSUME BaseInv, SignalInv, [Next]_vars
  PROVE  SignalInv'
<1>1. ASSUME NEW p \in Inspectors, pc[p] # "inspect" \/ ~Touched(p),
             kills' = kills, last' = last, done' = done,
             \A q \in Inspectors : q # p => pc'[q] = pc[q] /\ job'[q] = job[q]
      PROVE  SignalInv'
  BY <1>1, SignalKeptBy DEF Touched, RunOf
<1>2. ASSUME NEW p \in Inspectors, Poll(p)
      PROVE  SignalInv'
  <2>1. pc[p] = "poll" /\ UNCHANGED <<kills, last, done>>
    BY <1>2 DEF Poll, Begin, storeVars, boundVars
  <2>2. \A q \in Inspectors : q # p => pc'[q] = pc[q] /\ job'[q] = job[q]
    BY <1>2 DEF Poll, Begin, storeVars, BaseInv, ListenerTypeOK, IInv, TypeOK
  <2>3. QED
    BY <1>1, <2>1, <2>2
<1>3. ASSUME NEW p \in Inspectors, InspectFetch(p)
      PROVE  SignalInv'
  <2>1. ~Touched(p) /\ UNCHANGED <<kills, last, done, pc>>
    BY <1>3 DEF InspectFetch, FetchBlock, boundVars, Touched, SummaryPhases
  <2>2. \A q \in Inspectors : q # p => job'[q] = job[q]
    BY <1>3 DEF InspectFetch, FetchBlock, BaseInv, IInv, TypeOK
  <2>3. QED
    BY <1>1, <2>1, <2>2
<1>4. ASSUME NEW p \in Inspectors, InspectDelete(p)
      PROVE  SignalInv'
  <2>1. /\ pc[p] = "inspect" /\ DeleteTable(p)
        /\ UNCHANGED <<kills, done, pc>>
    BY <1>4 DEF InspectDelete, DeleteTable, boundVars
  <2>2. /\ job'[p].phase = "write" /\ RunOf(p)' = RunOf(p)
        /\ \A q \in Inspectors : q # p => job'[q] = job[q]
    BY <2>1 DEF DeleteTable, Goto, RunOf, BaseInv, IInv, TypeOK
  <2>3. Touched(p)'
    BY <2>2 DEF Touched
  <2>4. last' = last \/ \A b \in Blocks : last'[b] = last[b] \/ last'[b] = RunOf(p)
    BY <2>1 DEF DeleteTable
  <2>5. \A q \in Inspectors : Touched(q) => Touched(q)' /\ RunOf(q)' = RunOf(q)
    BY <2>2, <2>3 DEF Touched, RunOf
  <2>6. ASSUME kills' = 0, NEW b \in Blocks, HalfWritten(b)'
        PROVE  \E q \in Inspectors :
                 pc'[q] = "inspect" /\ Touched(q)' /\ last'[b] = RunOf(q)'
    <3>1. CASE last'[b] = RunOf(p)
      BY <2>1, <2>2, <2>3, <3>1
    <3>2. CASE last'[b] = last[b]
      <4>1. HalfWritten(b)
        BY <2>1, <2>6, <3>2 DEF HalfWritten
      <4>2. PICK q \in Inspectors :
              pc[q] = "inspect" /\ Touched(q) /\ last[b] = RunOf(q)
        BY <2>1, <2>6, <4>1 DEF SignalInv
      <4>3. QED
        BY <2>1, <2>5, <3>2, <4>2
    <3>3. QED
      BY <2>4, <3>1, <3>2
  <2>7. QED
    BY <2>6 DEF SignalInv
<1>5. ASSUME NEW p \in Inspectors, InspectWrite(p)
      PROVE  SignalInv'
  <2>1. pc[p] = "inspect" /\ UNCHANGED <<kills, last, done, pc>>
    BY <1>5 DEF InspectWrite, WriteTable, SummaryDelete, SummaryArbitrages,
                listenerVars, boundVars
  <2>2. /\ RunOf(p)' = RunOf(p)
        /\ job'[p].phase \in SummaryPhases
             \/ (job'[p].phase = "delete" /\ job'[p].tab > 1)
        /\ \A q \in Inspectors : q # p => job'[q] = job[q]
    BY <1>5, TableFacts
       DEF InspectWrite, WriteTable, NextTable, SummaryDelete,
           SummaryArbitrages, Goto, SummaryPhases, RunOf, BaseInv, IInv, TypeOK
  <2>3. \A q \in Inspectors : Touched(q) => Touched(q)' /\ RunOf(q)' = RunOf(q)
    BY <2>2 DEF Touched, RunOf
  <2>4. QED
    BY <2>1, <2>3, SignalKeptBy
<1>6. ASSUME NEW p \in Inspectors, InspectReturn(p)
      PROVE  SignalInv'
  <2>1. /\ UNCHANGED <<kills, last>> /\ done' = done \cup {RunOf(p)}
        /\ \A q \in Inspectors : q # p => job'[q] = job[q] /\ pc'[q] = pc[q]
    BY <1>6 DEF InspectReturn, SummaryLiquidations, boundVars, BaseInv,
                ListenerTypeOK, IInv, TypeOK
  <2>2. QED
    BY <2>1, SignalKeptBy DEF Touched, RunOf
<1>7. ASSUME NEW p \in Inspectors,
             UpdateLatestBlock(p) \/ SendExport(p) \/ EndTurn(p) \/ Start(p)
      PROVE  SignalInv'
  <2>1. pc[p] # "inspect" /\ UNCHANGED <<kills, last, done, job>>
    BY <1>7 DEF UpdateLatestBlock, SendExport, EndTurn, Start, storeVars,
                boundVars
  <2>2. \A q \in Inspectors : q # p => pc'[q] = pc[q]
    BY <1>7 DEF UpdateLatestBlock, SendExport, EndTurn, Start, BaseInv,
                ListenerTypeOK
  <2>3. QED
    BY <1>1, <2>1, <2>2
<1>8. ASSUME NEW p \in Inspectors, Exit(p)
      PROVE  SignalInv'
  <2>1. pc[p] # "inspect" \/ ~Touched(p)
    BY <1>8 DEF Exit, AtAwait, Touched, SummaryPhases
  <2>2. UNCHANGED <<kills, last, done>>
    BY <1>8 DEF Exit, Gone, boundVars
  <2>3. \A q \in Inspectors : q # p => pc'[q] = pc[q] /\ job'[q] = job[q]
    BY <1>8 DEF Exit, Gone, Rollback, BaseInv, ListenerTypeOK, IInv, TypeOK
  <2>4. QED
    BY <1>1, <2>1, <2>2, <2>3
<1>9. ASSUME NEW p \in Inspectors, Kill(p)
      PROVE  SignalInv'
  BY <1>9 DEF Kill, SignalInv, BaseInv, ListenerTypeOK
<1>10. ASSUME UNCHANGED <<kills, last, done, pc, job>>
       PROVE  SignalInv'
  BY <1>10, SignalKeptBy DEF Touched, RunOf
<1>11. QED
  BY <1>2, <1>3, <1>4, <1>5, <1>6, <1>7, <1>8, <1>9, <1>10
     DEF Next, Step, Stop, Mine, Reorganise, vars, storeVars, chainVars,
         listenerVars, boundVars

(***************************************************************************)
(* As long as no reorganisation is deeper than the lag, what is stored of  *)
(* a block is what is on the chain.                                        *)
(***************************************************************************)
THEOREM StoredBlocksAreSettled ==
  ASSUME MaxDepth <= Lag
  PROVE  Spec => []StoredIsSettled
<1>1. SettledInv => StoredIsSettled
  BY DEF SettledInv, StoredIsSettled
<1>2. BaseInv /\ SettledInv /\ [Next]_vars => SettledInv'
  BY SettledStep
<1>3. QED
  BY <1>1, <1>2, SettledInit, BaseAlways, PTL DEF Spec

(***************************************************************************)
(* Signals leave no block half written.                                    *)
(***************************************************************************)
THEOREM SignalsLeaveNoHalfBlock == Spec => []StopLeavesNoHalfBlock
<1>1. SignalInv => StopLeavesNoHalfBlock
  BY DEF SignalInv, StopLeavesNoHalfBlock, HalfWritten
<1>2. QED
  BY <1>1, SignalInit, SignalStep, BaseAlways, PTL DEF Spec
=============================================================================
