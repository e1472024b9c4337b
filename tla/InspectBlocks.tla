--------------------------- MODULE InspectBlocks ---------------------------
(***************************************************************************)
(* inspect_many_blocks of mev_inspect/inspect_block.py, run by several     *)
(* inspectors (the listener, the workers of the queue, a command line) on  *)
(* one Postgres database, each in a session of its own.                    *)
(*                                                                         *)
(* An inspection first reads all its blocks from the node, then rewrites   *)
(* the tables one after the other: delete the rows of its block range,     *)
(* commit, insert the rows it computed, commit.  Two of the writers do not *)
(* commit (Schema!Copied), so their rows stay private to the session until *)
(* the delete of the next table commits them.  The summary comes last and  *)
(* is computed by the database from the other tables.  Nothing makes the   *)
(* whole rewrite atomic: an exception, a kill or a second inspection can   *)
(* come between any two of these transactions.                             *)
(*                                                                         *)
(* Abstraction: the rows that one run writes for one block into one table  *)
(* are one unit, named by the run.  Postgres runs at READ COMMITTED, so a  *)
(* statement sees what is committed and what its own session wrote; a      *)
(* delete directly followed by its commit, and an insert directly followed *)
(* by its commit, are one step each, because no other session can see or   *)
(* be blocked by the state in between except by waiting for its end.       *)
(***************************************************************************)
EXTENDS Schema

CONSTANTS
  Inspectors,    \* the processes that inspect, each with its own session
  MaxBlock,      \* the blocks are 1..MaxBlock
  Tables,        \* the tables, in the order they are rewritten
  SandwichLegs,  \* blocks whose arbitrage is a leg of the block's sandwich
  MaxRuns        \* bound: how many inspections may begin

Blocks == 1 .. MaxBlock
NumTables == Len(Tables)
TableNames == {Tables[i] : i \in 1 .. NumTables}

ASSUME BlockAssumption == MaxBlock \in Nat /\ MaxRuns \in Nat
ASSUME TablesAssumption ==
  /\ Tables \in Seq(STRING)
  /\ Len(Tables) > 0
  /\ \A i, j \in 1 .. Len(Tables) : Tables[i] = Tables[j] => i = j
ASSUME JoinAssumption ==
  Joined \cup Summarised \cup {"sandwiches"} \subseteq TableNames
ASSUME LegsAssumption == SandwichLegs \subseteq Blocks

VARIABLES
  rows,         \* rows[t][b]: the runs whose rows of b are committed in t
  pend,         \* pend[p]: tables p has COPYed rows to and not committed
  summary,      \* summary[b]: the committed rows of mev_summary for b
  pendSummary,  \* pendSummary[p][b]: inserted by p, not committed
  job,          \* job[p]: what p is doing
  runs,         \* how many inspections have begun; the last one's name
  last,         \* history: last[b] is the run that last began to rewrite b
  done          \* history: the runs that returned without an exception

storeVars == <<rows, pend, summary, pendSummary, job, runs, last, done>>

Run == 1 .. runs
Phases == {"idle", "fetch", "delete", "write", "summary_delete",
           "summary_arbitrages", "summary_liquidations"}
SummaryRow == [type : {"arbitrage", "liquidation"}, from : Nat, by : Nat]

NoJob == [phase |-> "idle", run |-> 0, after |-> 1, before |-> 1,
          next |-> 1, tab |-> 1]
NoRows == [b \in Blocks |-> {}]

TypeOK ==
  /\ rows \in [TableNames -> [Blocks -> SUBSET Nat]]
  /\ pend \in [Inspectors -> SUBSET TableNames]
  /\ summary \in [Blocks -> SUBSET SummaryRow]
  /\ pendSummary \in [Inspectors -> [Blocks -> SUBSET SummaryRow]]
  /\ job \in [Inspectors -> [phase : Phases, run : Nat,
                             after : Nat, before : Nat, next : Nat,
                             tab : 1 .. NumTables]]
  /\ runs \in Nat
  /\ last \in [Blocks -> Nat]
  /\ done \subseteq Nat

InitStore ==
  /\ rows = [t \in TableNames |-> NoRows]
  /\ pend = [p \in Inspectors |-> {}]
  /\ summary = NoRows
  /\ pendSummary = [p \in Inspectors |-> NoRows]
  /\ job = [p \in Inspectors |-> NoJob]
  /\ runs = 0
  /\ last = [b \in Blocks |-> 0]
  /\ done = {}

Active(p) == job[p].phase # "idle"
RunOf(p) == job[p].run
Table(p) == Tables[job[p].tab]

(***************************************************************************)
(* The blocks of p's run: after <= block_number < before.                  *)
(***************************************************************************)
Span(p) == {b \in Blocks : job[p].after <= b /\ b < job[p].before}

-----------------------------------------------------------------------------
(* What the statements of a session do to the committed rows.              *)

(***************************************************************************)
(* Defect: the delete stops one block short of the range.                  *)
(***************************************************************************)
DeletedShort(r, p, t) ==
  [r EXCEPT ![t] = [b \in Blocks |->
     IF b \in Span(p) /\ b + 1 < job[p].before THEN {} ELSE @[b]]]

(***************************************************************************)
(* The delete of a table's rows of the run's blocks.                       *)
(***************************************************************************)
Deleted(r, p, t) ==
  [r EXCEPT ![t] = [b \in Blocks |-> IF b \in Span(p) THEN {} ELSE @[b]]]

(***************************************************************************)
(* A commit by p: the run's rows of the tables in ts become visible.       *)
(***************************************************************************)
Committed(r, p, ts) ==
  [t \in TableNames |-> [b \in Blocks |->
     IF t \in ts /\ b \in Span(p) THEN r[t][b] \cup {RunOf(p)}
                                  ELSE r[t][b]]]

(***************************************************************************)
(* Which blocks contribute a row to which half of the summary: the joins   *)
(* find the block, the root trace and the miner payment; an arbitrage that *)
(* is the front or back leg of a sandwich is left to the sandwich.         *)
(***************************************************************************)
JoinFinds(b) == \A t \in Joined : rows[t][b] # {}

ArbitrageSummary(p, b) ==
  IF b \in Span(p) /\ JoinFinds(b)
       /\ ~(b \in SandwichLegs /\ rows["sandwiches"][b] # {})
    THEN {[type |-> "arbitrage", from |-> r, by |-> RunOf(p)]
            : r \in rows["arbitrages"][b]}
    ELSE {}

LiquidationSummary(p, b) ==
  IF b \in Span(p) /\ JoinFinds(b)
    THEN {[type |-> "liquidation", from |-> r, by |-> RunOf(p)]
            : r \in rows["liquidations"][b]}
    ELSE {}

-----------------------------------------------------------------------------
(* The steps of one inspection.                                            *)

Goto(p, phase) == job' = [job EXCEPT ![p].phase = phase]

(***************************************************************************)
(* inspect_many_blocks is called for the blocks a .. z - 1.                *)
(***************************************************************************)
Begin(p, a, z) ==
  /\ ~Active(p)
  /\ runs < MaxRuns
  /\ a < z
  /\ runs' = runs + 1
  /\ job' = [job EXCEPT ![p] = [phase |-> "fetch", run |-> runs + 1,
                                after |-> a, before |-> z,
                                next |-> a, tab |-> 1]]
  /\ UNCHANGED <<rows, pend, summary, pendSummary, last, done>>

(***************************************************************************)
(* One turn of the loop over the range: the block is read from the node    *)
(* (an await) and classified in memory.  After the last one the writes     *)
(* begin.                                                                  *)
(***************************************************************************)
FetchBlock(p) ==
  /\ job[p].phase = "fetch"
  /\ LET n == job[p].next + 1
     IN  job' = [job EXCEPT ![p].next = n,
                            ![p].phase = IF n < job[p].before THEN "fetch"
                                                             ELSE "delete"]
  /\ UNCHANGED <<rows, pend, summary, pendSummary, runs, last, done>>

(***************************************************************************)
(* Defect: the delete leaves the transaction open, so that COPYed rows wait *)
(* for the next writer that commits.                                       *)
(***************************************************************************)
DeleteTableOpen(p) ==
  /\ job[p].phase = "delete"
  /\ rows' = Deleted(rows, p, Table(p))
  /\ last' = [b \in Blocks |-> IF job[p].tab = 1 /\ b \in Span(p)
                                 THEN RunOf(p) ELSE last[b]]
  /\ Goto(p, "write")
  /\ UNCHANGED <<pend, summary, pendSummary, runs, done>>

(***************************************************************************)
(* delete_*_for_blocks: the rows of the range go, and the commit that      *)
(* follows also commits what the session had COPYed before.                *)
(***************************************************************************)
DeleteTable(p) ==
  /\ job[p].phase = "delete"
  /\ rows' = Committed(Deleted(rows, p, Table(p)), p, pend[p])
  /\ pend' = [pend EXCEPT ![p] = {}]
  /\ last' = [b \in Blocks |-> IF job[p].tab = 1 /\ b \in Span(p)
                                 THEN RunOf(p) ELSE last[b]]
  /\ Goto(p, "write")
  /\ UNCHANGED <<summary, pendSummary, runs, done>>

(***************************************************************************)
(* A keyed row of some block of the run is committed already: the insert   *)
(* raises IntegrityError.                                                  *)
(***************************************************************************)
KeyTaken(p) ==
  /\ Table(p) \notin Unkeyed
  /\ \E b \in Span(p) : rows[Table(p)][b] # {}

(***************************************************************************)
(* Another session inserted such a row and has not committed: Postgres     *)
(* makes the insert wait for the end of that transaction.                  *)
(***************************************************************************)
KeyLocked(p) ==
  /\ Table(p) \notin Unkeyed
  /\ \E q \in Inspectors \ {p} :
       Table(p) \in pend[q] /\ Span(p) \cap Span(q) # {}

(***************************************************************************)
(* Defect: the step after the last table looks for one more.               *)
(***************************************************************************)
NextTableUnbounded(p) ==
  job' = [job EXCEPT
            ![p].tab = @ + 1,
            ![p].phase = IF job[p].tab < NumTables THEN "delete"
                                                   ELSE "summary_delete"]

(***************************************************************************)
(* After the last table comes the summary.                                 *)
(***************************************************************************)
NextTable(p) ==
  job' = [job EXCEPT
            ![p].tab = IF @ < NumTables THEN @ + 1 ELSE @,
            ![p].phase = IF job[p].tab < NumTables THEN "delete"
                                                   ELSE "summary_delete"]

WriteTable(p) ==
  /\ job[p].phase = "write"
  /\ ~KeyTaken(p) /\ ~KeyLocked(p)
  /\ LET staged == pend[p] \cup {Table(p)}
     IN  IF Table(p) \in Copied
           THEN /\ pend' = [pend EXCEPT ![p] = staged]
                /\ UNCHANGED rows
           ELSE /\ pend' = [pend EXCEPT ![p] = {}]
                /\ rows' = Committed(rows, p, staged)
  /\ NextTable(p)
  /\ UNCHANGED <<summary, pendSummary, runs, last, done>>

(***************************************************************************)
(* Defect: nothing is deleted from mev_summary, which has no key.          *)
(***************************************************************************)
SummaryKept(p) == summary

SummaryCleared(p) ==
  [b \in Blocks |-> IF b \in Span(p) THEN {} ELSE summary[b]]

(***************************************************************************)
(* The three steps of update_summary_for_block_range: delete and commit,   *)
(* insert the arbitrages, insert the liquidations and commit.              *)
(***************************************************************************)
SummaryDelete(p) ==
  /\ job[p].phase = "summary_delete"
  /\ summary' = SummaryCleared(p)
  /\ rows' = Committed(rows, p, pend[p])
  /\ pend' = [pend EXCEPT ![p] = {}]
  /\ Goto(p, "summary_arbitrages")
  /\ UNCHANGED <<pendSummary, runs, last, done>>

SummaryArbitrages(p) ==
  /\ job[p].phase = "summary_arbitrages"
  /\ pendSummary' = [pendSummary EXCEPT
                       ![p] = [b \in Blocks |-> ArbitrageSummary(p, b)]]
  /\ Goto(p, "summary_liquidations")
  /\ UNCHANGED <<rows, pend, summary, runs, last, done>>

SummaryLiquidations(p) ==
  /\ job[p].phase = "summary_liquidations"
  /\ summary' = [b \in Blocks |-> summary[b] \cup pendSummary[p][b]
                                   \cup LiquidationSummary(p, b)]
  /\ pendSummary' = [pendSummary EXCEPT ![p] = NoRows]
  /\ done' = done \cup {RunOf(p)}
  /\ job' = [job EXCEPT ![p] = NoJob]
  /\ UNCHANGED <<rows, pend, runs, last>>

(***************************************************************************)
(* The end of a session whose transaction is not committed.                *)
(***************************************************************************)
Rollback(p) ==
  /\ pend' = [pend EXCEPT ![p] = {}]
  /\ pendSummary' = [pendSummary EXCEPT ![p] = NoRows]
  /\ job' = [job EXCEPT ![p] = NoJob]

(***************************************************************************)
(* Defect: the inspection that fails on a key clears the table it failed   *)
(* on, "to leave no partial data".                                         *)
(***************************************************************************)
WriteConflictCleansUp(p) ==
  /\ job[p].phase = "write"
  /\ KeyTaken(p)
  /\ Rollback(p)
  /\ rows' = Deleted(rows, p, Table(p))
  /\ UNCHANGED <<summary, runs, last, done>>

(***************************************************************************)
(* The insert finds its key taken and the exception ends the inspection.   *)
(***************************************************************************)
WriteConflict(p) ==
  /\ job[p].phase = "write"
  /\ KeyTaken(p)
  /\ Rollback(p)
  /\ UNCHANGED <<rows, summary, runs, last, done>>

(***************************************************************************)
(* Any other end of the inspection before it is complete: the node does    *)
(* not answer, the database connection breaks, the process is killed.      *)
(***************************************************************************)
Fail(p) ==
  /\ Active(p)
  /\ Rollback(p)
  /\ UNCHANGED <<rows, summary, runs, last, done>>

Proceed(p) ==
  \/ FetchBlock(p)
  \/ DeleteTable(p)
  \/ WriteTable(p)
  \/ WriteConflict(p)
  \/ SummaryDelete(p)
  \/ SummaryArbitrages(p)
  \/ SummaryLiquidations(p)

-----------------------------------------------------------------------------
(* The specifications.                                                     *)

(***************************************************************************)
(* No other inspection works on a block of a .. z - 1.                     *)
(***************************************************************************)
RangeFree(a, z) ==
  \A q \in Inspectors : Active(q) => job[q].before <= a \/ z <= job[q].after

Ranges ==
  {r \in Blocks \X (1 .. MaxBlock + 1) : r[1] < r[2]}

(***************************************************************************)
(* All MaxRuns inspections have begun and ended.                           *)
(***************************************************************************)
Quiet == runs = MaxRuns /\ \A p \in Inspectors : ~Active(p)
AllEnded == Quiet /\ UNCHANGED storeVars

ExclusiveStep(p) ==
  \/ \E r \in Ranges : RangeFree(r[1], r[2]) /\ Begin(p, r[1], r[2])
  \/ Proceed(p)
  \/ Fail(p)

(***************************************************************************)
(* The use the commands make of inspections: `block-range` and the queue   *)
(* give every block to one inspection at a time.  Any of them may fail.    *)
(***************************************************************************)
ExclusiveNext == (\E p \in Inspectors : ExclusiveStep(p)) \/ AllEnded
ExclusiveSpec == InitStore /\ [][ExclusiveNext]_storeVars

(***************************************************************************)
(* The same range inspected by several at once: a message is delivered     *)
(* twice, a block-range command meets the queue.  They collide only        *)
(* through the database's keys, and nothing else fails.                    *)
(***************************************************************************)
RepeatStep(p) == Begin(p, 1, MaxBlock + 1) \/ Proceed(p)
RepeatNext == (\E p \in Inspectors : RepeatStep(p)) \/ AllEnded
RepeatSpec == InitStore /\ [][RepeatNext]_storeVars

-----------------------------------------------------------------------------
(* Properties of exclusive inspections.                                    *)

ExpectedArbitrages(b, r) ==
  IF b \in SandwichLegs
    THEN {}
    ELSE {[type |-> "arbitrage", from |-> r, by |-> r]}

ExpectedSummary(b, r) ==
  ExpectedArbitrages(b, r)
    \cup {[type |-> "liquidation", from |-> r, by |-> r]}

(***************************************************************************)
(* Whatever failed half-way before, once the last run to touch a block has *)
(* returned, every table holds exactly that run's rows of the block (none  *)
(* missing, none left from an earlier run, none doubled), and the summary  *)
(* has one row per liquidation and per arbitrage outside a sandwich,       *)
(* computed from those rows.                                               *)
(***************************************************************************)
FinishedRunsExact ==
  \A b \in Blocks :
    last[b] \in done =>
      /\ \A t \in TableNames : rows[t][b] = {last[b]}
      /\ summary[b] = ExpectedSummary(b, last[b])

(***************************************************************************)
(* Rows that a failed run left behind never stop a later run: when an      *)
(* inspection reaches an insert, the keys it needs are free and no other   *)
(* session holds them.                                                     *)
(***************************************************************************)
RerunsNeverCollide ==
  \A p \in Inspectors : job[p].phase = "write" => ~KeyTaken(p) /\ ~KeyLocked(p)

(***************************************************************************)
(* Of the tables that a rewrite has already reached, a reader of the       *)
(* database misses at most one at any moment: the COPYed rows of a table   *)
(* appear in the same commit that takes the rows of the next table away.   *)
(***************************************************************************)
Reached(p) ==
  {i \in 1 .. job[p].tab : job[p].phase = "write" \/ i < job[p].tab}

OneTableMissingAtATime ==
  \A p \in Inspectors : job[p].phase \in {"delete", "write"} =>
    \A b \in Span(p) : \A i, j \in Reached(p) :
      rows[Tables[i]][b] = {} /\ rows[Tables[j]][b] = {} => i = j

-----------------------------------------------------------------------------
(* Properties of repeated inspections.                                     *)

(***************************************************************************)
(* Inspections of one and the same range may run into each other in any    *)
(* way, and lose to each other's keys: when all have ended, no table and   *)
(* no half of the summary of an inspected block is left empty.  (Doubled   *)
(* rows there may be: arbitrages, sandwiches and the summary have no key.) *)
(***************************************************************************)
CollisionsLoseNothing ==
  Quiet => \A b \in Blocks :
    last[b] # 0 =>
      /\ \A t \in TableNames : rows[t][b] # {}
      /\ {s.type : s \in ExpectedSummary(b, 0)} \subseteq {s.type : s \in summary[b]}
=============================================================================
