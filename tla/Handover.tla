------------------------------ MODULE Handover ------------------------------
(***************************************************************************)
(* Two listeners at once.  `listener stop` sends SIGTERM, removes the file *)
(* with the process number and does not wait (`restart` does, for thirty   *)
(* seconds), so that a `listener start` that follows finds no listener     *)
(* although the old one is still in the writes of its block: it stops only *)
(* where it awaits.  The two read the same cursor, rewrite the same        *)
(* tables, wait for each other's rows and collide through their keys; a    *)
(* collision ends the process it happens to.                               *)
(*                                                                         *)
(* The runs begin with a first block written and a cursor committed, and   *)
(* nothing crashes: what a crash leaves behind is Listener's subject.      *)
(***************************************************************************)
EXTENDS Listener

HandoverInit ==
  /\ rows = [t \in TableNames |-> [NoRows EXCEPT ![1] = {1}]]
  /\ summary = [NoRows EXCEPT ![1] = ExpectedSummary(1, 1)]
  /\ pend = [p \in Inspectors |-> {}]
  /\ pendSummary = [p \in Inspectors |-> NoRows]
  /\ job = [p \in Inspectors |-> NoJob]
  /\ runs = 1
  /\ last = [b \in Blocks |-> IF b = 1 THEN 1 ELSE 0]
  /\ done = {1}
  /\ head = Lag + 1
  /\ chain = [b \in Blocks |-> 0]
  /\ forks = 0
  /\ pc = [p \in Inspectors |-> "down"]
  /\ blk = [p \in Inspectors |-> NoBlock]
  /\ pendCursor = [p \in Inspectors |-> NoBlock]
  /\ cursor = 1 /\ base = 1 /\ sent = {1}
  /\ stopping = [p \in Inspectors |-> FALSE]
  /\ fetched = [p \in Inspectors |-> 0]
  /\ stored = [b \in Blocks |-> IF b = 1 THEN 0 ELSE NoBlock]
  /\ kills = 0 /\ stops = 0

(***************************************************************************)
(* `listener start`: no listener runs that was not told to stop.           *)
(***************************************************************************)
StartNext(p) ==
  /\ pc[p] = "down"
  /\ \A q \in Inspectors : pc[q] = "down" \/ stopping[q]
  /\ pc' = [pc EXCEPT ![p] = "poll"]
  /\ UNCHANGED <<storeVars, blk, pendCursor, cursor, stopping, sent, fetched,
                 stored, base, chainVars, boundVars>>

(***************************************************************************)
(* An insert finds its key taken by the other listener: IntegrityError     *)
(* reaches main(), which logs it and ends.                                 *)
(***************************************************************************)
Collide(p) ==
  /\ pc[p] = "inspect" /\ job[p].phase = "write"
  /\ KeyTaken(p)
  /\ Gone(p)
  /\ UNCHANGED boundVars

HandoverStep(p) ==
  \/ Poll(p)
  \/ InspectFetch(p)
  \/ InspectDelete(p)
  \/ InspectWrite(p)
  \/ InspectReturn(p)
  \/ UpdateLatestBlock(p)
  \/ SendExport(p)
  \/ EndTurn(p)
  \/ StartNext(p)
  \/ Exit(p)
  \/ Collide(p)

HandoverNext ==
  \/ \E p \in Inspectors : HandoverStep(p) \/ Stop(p)
  \/ Mine

HandoverSpec == HandoverInit /\ [][HandoverNext]_vars

-----------------------------------------------------------------------------
(***************************************************************************)
(* However the writes of the two interleave and whichever of them dies of  *)
(* a collision, a block behind the committed cursor, for which no listener *)
(* will come back, was sent for export, and while nobody rewrites it has   *)
(* rows in every table and both halves of its summary.                     *)
(***************************************************************************)
HandoverLosesNothing ==
  \A b \in base .. cursor :
    /\ b \in sent
    /\ \/ \E p \in Inspectors : Active(p) /\ b \in Span(p)
       \/ /\ \A t \in TableNames : rows[t][b] # {}
          /\ {s.type : s \in ExpectedSummary(b, 0)}
               \subseteq {s.type : s \in summary[b]}

(***************************************************************************)
(* The listener that takes over may have read an older cursor than the one *)
(* that the old listener commits next, and the old one may finish after    *)
(* the new one has gone on; still neither moves the committed cursor back. *)
(***************************************************************************)
CursorNeverGoesBack == [][cursor' >= cursor]_cursor
=============================================================================
