------------------------ MODULE InspectBlocks_proofs ------------------------
(***************************************************************************)
(* Inspections, for any number of inspectors, blocks, runs and any list of *)
(* tables.  Exclusive ones: the type invariant, and that a run which       *)
(* returns leaves exactly its own rows, whatever failed before it.  Then   *)
(* repeated ones: those that collide on one range leave no table empty.    *)
(***************************************************************************)
EXTENDS InspectBlocks, TLAPS

SummaryPhases ==
  {"summary_delete", "summary_arbitrages", "summary_liquidations"}

(***************************************************************************)
(* The run of p has begun to rewrite its blocks.                           *)
(***************************************************************************)
Touched(p) ==
  \/ job[p].phase = "delete" /\ job[p].tab > 1
  \/ job[p].phase = "write"
  \/ job[p].phase \in SummaryPhases

(* Table number i has been rewritten by the run of p. *)
Rewritten(p, i) == i < job[p].tab \/ job[p].phase \in SummaryPhases

-----------------------------------------------------------------------------
(* The inductive invariant.                                                *)

(***************************************************************************)
(* Runs that are going on have names of their own, not yet done, and       *)
(* disjoint ranges.                                                        *)
(***************************************************************************)
JobsApart ==
  /\ done \subseteq 1 .. runs
  /\ \A b \in Blocks : last[b] \in 0 .. runs
  /\ \A p \in Inspectors : Active(p) =>
       /\ RunOf(p) \in 1 .. runs /\ RunOf(p) \notin done
       /\ \A q \in Inspectors : Active(q) /\ q # p =>
            /\ RunOf(q) # RunOf(p)
            /\ job[q].before <= job[p].after \/ job[p].before <= job[q].after

(* last[b] names the run of p just when that run is rewriting b. *)
LastOK(p) ==
  Active(p) =>
    \A b \in Blocks : last[b] = RunOf(p) <=> Touched(p) /\ b \in Span(p)

(* The tables are rewritten from the first on. *)
FetchOK(p) == job[p].phase = "fetch" => job[p].tab = 1

(* Only the table that was written last can wait for its commit. *)
PendOK(p) ==
  \A t \in pend[p] :
    \/ job[p].phase = "delete" /\ job[p].tab > 1 /\ t = Tables[job[p].tab - 1]
    \/ job[p].phase = "summary_delete" /\ t = Tables[NumTables]

(* What p has rewritten holds p's rows; what it is about to write is empty. *)
RowsOK(p) ==
  Touched(p) => \A b \in Span(p) :
    /\ \A i \in 1 .. NumTables : Rewritten(p, i) =>
         rows[Tables[i]][b] = IF Tables[i] \in pend[p] THEN {} ELSE {RunOf(p)}
    /\ job[p].phase = "write" => rows[Table(p)][b] = {}

(* The summary of p's blocks while p computes it. *)
SummaryOK(p) ==
  /\ job[p].phase \in {"summary_arbitrages", "summary_liquidations"} =>
       \A b \in Span(p) : summary[b] = {}
  /\ IF job[p].phase = "summary_liquidations"
       THEN \A b \in Blocks : pendSummary[p][b] =
              IF b \in Span(p) THEN ExpectedArbitrages(b, RunOf(p)) ELSE {}
       ELSE pendSummary[p] = NoRows

OwnOK(p) == FetchOK(p) /\ LastOK(p) /\ PendOK(p) /\ RowsOK(p) /\ SummaryOK(p)

IInv ==
  /\ TypeOK
  /\ JobsApart
  /\ \A p \in Inspectors : OwnOK(p)
  /\ FinishedRunsExact

-----------------------------------------------------------------------------
(* Type correctness.                                                       *)

LEMMA TableFacts ==
  /\ NumTables \in Nat /\ NumTables > 0
  /\ \A i \in 1 .. NumTables : Tables[i] \in TableNames
  /\ \A i, j \in 1 .. NumTables : Tables[i] = Tables[j] => i = j
  /\ Joined \cup Summarised \cup {"sandwiches"} \subseteq TableNames
<1>1. Len(Tables) \in Nat
  BY TablesAssumption
<1>2. QED
  BY <1>1, TablesAssumption, JoinAssumption DEF NumTables, TableNames

LEMMA CommittedType ==
  ASSUME NEW r \in [TableNames -> [Blocks -> SUBSET Nat]],
         NEW p \in Inspectors, RunOf(p) \in Nat, NEW ts
  PROVE  Committed(r, p, ts) \in [TableNames -> [Blocks -> SUBSET Nat]]
BY DEF Committed

LEMMA DeletedType ==
  ASSUME NEW r \in [TableNames -> [Blocks -> SUBSET Nat]],
         NEW p \in Inspectors, NEW t \in TableNames
  PROVE  Deleted(r, p, t) \in [TableNames -> [Blocks -> SUBSET Nat]]
BY DEF Deleted

LEMMA TypeFacts ==
  ASSUME TypeOK, NEW p \in Inspectors
  PROVE  RunOf(p) \in Nat /\ Table(p) \in TableNames
BY TableFacts DEF TypeOK, RunOf, Table

LEMMA TypeInit == InitStore => TypeOK
BY TableFacts, BlockAssumption
   DEF InitStore, TypeOK, NoRows, NoJob, Phases, SummaryRow

LEMMA TypeRollback ==
  ASSUME TypeOK, NEW p \in Inspectors, Rollback(p),
         UNCHANGED <<rows, summary, runs, last, done>>
  PROVE  TypeOK'
BY TableFacts DEF Rollback, TypeOK, NoJob, NoRows, Phases

LEMMA TypeProceed ==
  ASSUME TypeOK, NEW p \in Inspectors, Proceed(p)
  PROVE  TypeOK'
<1>0. RunOf(p) \in Nat /\ Table(p) \in TableNames
  BY TypeFacts
<1>1. CASE FetchBlock(p)
  <2>1. job' \in [Inspectors -> [phase : Phases, run : Nat, after : Nat,
                    before : Nat, next : Nat, tab : 1 .. NumTables]]
    <3> DEFINE n == job[p].next + 1
               ph == IF n < job[p].before THEN "fetch" ELSE "delete"
    <3>1. job' = [job EXCEPT ![p] = [@ EXCEPT !.next = n, !.phase = ph]]
      BY <1>1 DEF FetchBlock, TypeOK
    <3>2. n \in Nat /\ ph \in Phases
      BY DEF TypeOK, Phases
    <3>3. QED
      BY <3>1, <3>2 DEF TypeOK
  <2>2. QED
    BY <1>1, <2>1 DEF FetchBlock, TypeOK
<1>2. CASE DeleteTable(p)
  <2>1. rows' \in [TableNames -> [Blocks -> SUBSET Nat]]
    BY <1>0, <1>2, DeletedType, CommittedType DEF TypeOK, DeleteTable
  <2>2. pend' \in [Inspectors -> SUBSET TableNames]
    BY <1>2 DEF TypeOK, DeleteTable
  <2>3. last' \in [Blocks -> Nat]
    BY <1>0, <1>2 DEF TypeOK, DeleteTable
  <2>4. job' \in [Inspectors -> [phase : Phases, run : Nat, after : Nat,
                    before : Nat, next : Nat, tab : 1 .. NumTables]]
    BY <1>2 DEF TypeOK, DeleteTable, Goto, Phases
  <2>5. QED
    BY <1>2, <2>1, <2>2, <2>3, <2>4 DEF TypeOK, DeleteTable
<1>3. CASE WriteTable(p)
  <2>1. rows' \in [TableNames -> [Blocks -> SUBSET Nat]]
    BY <1>0, <1>3, CommittedType DEF TypeOK, WriteTable
  <2>2. pend' \in [Inspectors -> SUBSET TableNames]
    <3>1. pend[p] \cup {Table(p)} \subseteq TableNames
      BY <1>0 DEF TypeOK
    <3>2. \/ pend' = [pend EXCEPT ![p] = pend[p] \cup {Table(p)}]
          \/ pend' = [pend EXCEPT ![p] = {}]
      BY <1>3 DEF WriteTable
    <3>3. QED
      BY <3>1, <3>2 DEF TypeOK
  <2>3. job' \in [Inspectors -> [phase : Phases, run : Nat, after : Nat,
                    before : Nat, next : Nat, tab : 1 .. NumTables]]
    <3> DEFINE k == IF job[p].tab < NumTables THEN job[p].tab + 1
                                              ELSE job[p].tab
               ph == IF job[p].tab < NumTables THEN "delete"
                                               ELSE "summary_delete"
    <3>1. job' = [job EXCEPT ![p] = [@ EXCEPT !.tab = k, !.phase = ph]]
      BY <1>3 DEF WriteTable, NextTable, TypeOK
    <3>2. k \in 1 .. NumTables /\ ph \in Phases
      <4>1. job[p].tab \in 1 .. NumTables
        BY DEF TypeOK
      <4>2. QED
        BY <4>1, TableFacts DEF Phases
    <3> HIDE DEF k, ph
    <3>3. QED
      BY <3>1, <3>2 DEF TypeOK
  <2>4. QED
    BY <1>3, <2>1, <2>2, <2>3 DEF TypeOK, WriteTable
<1>4. CASE WriteConflict(p)
  BY <1>4, TypeRollback DEF WriteConflict
<1>5. CASE SummaryDelete(p)
  <2>1. rows' \in [TableNames -> [Blocks -> SUBSET Nat]]
    BY <1>0, <1>5, CommittedType DEF TypeOK, SummaryDelete
  <2>2. summary' \in [Blocks -> SUBSET SummaryRow]
    BY <1>5 DEF TypeOK, SummaryDelete, SummaryCleared
  <2>3. QED
    BY <1>5, <2>1, <2>2 DEF TypeOK, SummaryDelete, Goto, Phases
<1>6. CASE SummaryArbitrages(p)
  <2>1. ASSUME NEW b \in Blocks
        PROVE  ArbitrageSummary(p, b) \in SUBSET SummaryRow
    BY <1>0, TableFacts
       DEF ArbitrageSummary, SummaryRow, TypeOK, Summarised
  <2>2. pendSummary' \in [Inspectors -> [Blocks -> SUBSET SummaryRow]]
    BY <1>6, <2>1 DEF TypeOK, SummaryArbitrages
  <2>3. QED
    BY <1>6, <2>2 DEF TypeOK, SummaryArbitrages, Goto, Phases
<1>7. CASE SummaryLiquidations(p)
  <2>1. ASSUME NEW b \in Blocks
        PROVE  LiquidationSummary(p, b) \in SUBSET SummaryRow
    BY <1>0, TableFacts
       DEF LiquidationSummary, SummaryRow, TypeOK, Summarised
  <2>2. summary' \in [Blocks -> SUBSET SummaryRow]
    BY <1>7, <2>1 DEF TypeOK, SummaryLiquidations
  <2>3. pendSummary' \in [Inspectors -> [Blocks -> SUBSET SummaryRow]]
    BY <1>7 DEF TypeOK, SummaryLiquidations, NoRows
  <2>4. job' \in [Inspectors -> [phase : Phases, run : Nat, after : Nat,
                    before : Nat, next : Nat, tab : 1 .. NumTables]]
    BY <1>7, TableFacts DEF TypeOK, SummaryLiquidations, NoJob, Phases
  <2>5. done' \subseteq Nat
    BY <1>0, <1>7 DEF TypeOK, SummaryLiquidations
  <2>6. QED
    BY <1>7, <2>2, <2>3, <2>4, <2>5 DEF TypeOK, SummaryLiquidations
<1>8. QED
  BY <1>1, <1>2, <1>3, <1>4, <1>5, <1>6, <1>7 DEF Proceed

LEMMA TypeStep ==
  ASSUME TypeOK, [ExclusiveNext]_storeVars
  PROVE  TypeOK'
<1>1. ASSUME NEW p \in Inspectors, NEW r \in Ranges, Begin(p, r[1], r[2])
      PROVE  TypeOK'
  <2>1. r[1] \in Nat /\ r[2] \in Nat
    BY BlockAssumption DEF Ranges, Blocks
  <2>2. job' \in [Inspectors -> [phase : Phases, run : Nat, after : Nat,
                    before : Nat, next : Nat, tab : 1 .. NumTables]]
    BY <1>1, <2>1, TableFacts DEF Begin, TypeOK, Phases
  <2>3. QED
    BY <1>1, <2>2 DEF Begin, TypeOK
<1>2. ASSUME NEW p \in Inspectors, Fail(p)
      PROVE  TypeOK'
  BY <1>2, TypeRollback DEF Fail
<1>3. CASE UNCHANGED storeVars
  BY <1>3 DEF storeVars, TypeOK
<1>4. QED
  BY <1>1, <1>2, <1>3, TypeProceed DEF ExclusiveNext, ExclusiveStep, AllEnded

(***************************************************************************)
(* Every variable of the store keeps its type.                             *)
(***************************************************************************)
THEOREM TypeCorrect == ExclusiveSpec => []TypeOK
BY TypeInit, TypeStep, PTL DEF ExclusiveSpec

-----------------------------------------------------------------------------
(* A step of one inspection leaves the others alone.                       *)

Exact(b) ==
  /\ \A t \in TableNames : rows[t][b] = {last[b]}
  /\ summary[b] = ExpectedSummary(b, last[b])

(***************************************************************************)
(* What every step of the inspection of p leaves as it is: the other       *)
(* sessions, and everything stored of the blocks outside p's range.        *)
(***************************************************************************)
StepFrame(p) ==
  /\ runs' = runs
  /\ \A q \in Inspectors \ {p} :
       job'[q] = job[q] /\ pend'[q] = pend[q] /\ pendSummary'[q] = pendSummary[q]
  /\ \A b \in Blocks :
       /\ b \notin Span(p) =>
            /\ summary'[b] = summary[b] /\ last'[b] = last[b]
            /\ \A t \in TableNames : rows'[t][b] = rows[t][b]
       /\ last'[b] = last[b] \/ last'[b] = RunOf(p)

LEMMA SpansApart ==
  ASSUME TypeOK, JobsApart, NEW p \in Inspectors, NEW q \in Inspectors,
         p # q, Active(p), Active(q)
  PROVE  Span(p) \cap Span(q) = {}
<1>1. \A r \in Inspectors : job[r].after \in Nat /\ job[r].before \in Nat
  BY DEF TypeOK
<1>2. job[q].before <= job[p].after \/ job[p].before <= job[q].after
  BY DEF JobsApart
<1>3. QED
  BY <1>1, <1>2, BlockAssumption DEF Span, Blocks

LEMMA OthersKept ==
  ASSUME TypeOK, JobsApart, NEW p \in Inspectors, Active(p), StepFrame(p),
         NEW q \in Inspectors, q # p, OwnOK(q)
  PROVE  OwnOK(q)'
<1>1. /\ job'[q] = job[q] /\ pend'[q] = pend[q]
      /\ pendSummary'[q] = pendSummary[q]
  BY DEF StepFrame
<1>2. /\ Span(q)' = Span(q) /\ Active(q)' = Active(q) /\ RunOf(q)' = RunOf(q)
      /\ Table(q)' = Table(q) /\ Touched(q)' = Touched(q)
      /\ \A i \in 1 .. NumTables : Rewritten(q, i)' = Rewritten(q, i)
  BY <1>1 DEF Span, Active, RunOf, Table, Touched, Rewritten
<1>3. ASSUME Active(q), NEW b \in Span(q)
      PROVE  /\ b \in Blocks /\ b \notin Span(p)
             /\ summary'[b] = summary[b] /\ last'[b] = last[b]
             /\ \A t \in TableNames : rows'[t][b] = rows[t][b]
  BY <1>3, SpansApart DEF StepFrame, Span
<1>4. LastOK(q)'
  <2>1. Active(q) => RunOf(q) # RunOf(p)
    BY DEF JobsApart
  <2>2. QED
    BY <1>2, <1>3, <2>1 DEF LastOK, OwnOK, StepFrame
<1>5. PendOK(q)'
  BY <1>1 DEF PendOK, OwnOK
<1>6. RowsOK(q)'
  <2>1. Touched(q) => Active(q)
    BY DEF Touched, Active, SummaryPhases
  <2>2. Table(q) \in TableNames /\ \A i \in 1 .. NumTables : Tables[i] \in TableNames
    BY TypeFacts, TableFacts
  <2>3. SUFFICES ASSUME Touched(q), NEW b \in Span(q)
        PROVE  /\ \A i \in 1 .. NumTables : Rewritten(q, i)' =>
                    rows'[Tables[i]][b] =
                      IF Tables[i] \in pend'[q] THEN {} ELSE {RunOf(q)'}
               /\ job'[q].phase = "write" => rows'[Table(q)'][b] = {}
    BY <1>2 DEF RowsOK
  <2>4. /\ \A i \in 1 .. NumTables : Rewritten(q, i) =>
             rows[Tables[i]][b] =
               IF Tables[i] \in pend[q] THEN {} ELSE {RunOf(q)}
        /\ job[q].phase = "write" => rows[Table(q)][b] = {}
    BY <2>3 DEF RowsOK, OwnOK
  <2>5. \A t \in TableNames : rows'[t][b] = rows[t][b]
    BY <1>3, <2>1, <2>3
  <2>6. QED
    BY <1>1, <1>2, <2>2, <2>4, <2>5
<1>7. SummaryOK(q)'
  <2>1. job[q].phase \in {"summary_arbitrages", "summary_liquidations"}
          => Active(q)
    BY DEF Active
  <2>2. QED
    BY <1>1, <1>2, <1>3, <2>1 DEF SummaryOK, OwnOK
<1>8. FetchOK(q)'
  BY <1>1 DEF FetchOK, OwnOK
<1>9. QED
  BY <1>4, <1>5, <1>6, <1>7, <1>8 DEF OwnOK

(***************************************************************************)
(* A step of p keeps the invariant if it respects the frame, keeps p's own *)
(* part, and is exact about any block of p's range that it finishes.       *)
(***************************************************************************)
LEMMA StepKeepsInvariant ==
  ASSUME IInv, TypeOK', NEW p \in Inspectors, Active(p), StepFrame(p),
         OwnOK(p)',
         \/ ~Active(p)' /\ done' \subseteq done \cup {RunOf(p)}
         \/ /\ done' = done /\ RunOf(p)' = RunOf(p)
            /\ job'[p].after = job[p].after /\ job'[p].before = job[p].before,
         \A b \in Span(p) : last'[b] \in done' => Exact(b)'
  PROVE  IInv'
<1>1. JobsApart'
  <2>0. runs' = runs /\ RunOf(p) \in 1 .. runs /\ RunOf(p) \notin done
    BY DEF IInv, JobsApart, StepFrame
  <2>1. done' \subseteq 1 .. runs'
    BY <2>0 DEF IInv, JobsApart
  <2>2. \A b \in Blocks : last'[b] \in 0 .. runs'
    <3>1. \A b \in Blocks : last[b] \in 0 .. runs
      BY DEF IInv, JobsApart
    <3>2. \A b \in Blocks : last'[b] = last[b] \/ last'[b] = RunOf(p)
      BY DEF StepFrame
    <3>3. QED
      BY <2>0, <3>1, <3>2
  <2>3. ASSUME NEW q \in Inspectors, q # p
        PROVE  /\ Active(q)' = Active(q) /\ RunOf(q)' = RunOf(q)
               /\ job'[q].after = job[q].after /\ job'[q].before = job[q].before
    BY <2>3 DEF StepFrame, Active, RunOf
  <2>4. ASSUME NEW q \in Inspectors, Active(q)'
        PROVE  /\ RunOf(q)' \in 1 .. runs' /\ RunOf(q)' \notin done'
               /\ \A r \in Inspectors : Active(r)' /\ r # q =>
                    /\ RunOf(r)' # RunOf(q)'
                    /\ \/ job'[r].before <= job'[q].after
                       \/ job'[q].before <= job'[r].after
    <3>1. CASE q = p
      <4>1. done' = done /\ RunOf(p)' = RunOf(p)
            /\ job'[p].after = job[p].after /\ job'[p].before = job[p].before
        BY <2>4, <3>1
      <4>2. QED
        BY <2>0, <2>3, <3>1, <4>1 DEF IInv, JobsApart
    <3>2. CASE q # p
      <4>1. Active(q) /\ RunOf(q) \in 1 .. runs /\ RunOf(q) \notin done
            /\ RunOf(q) # RunOf(p)
        BY <2>3, <2>4, <3>2 DEF IInv, JobsApart
      <4>2. RunOf(q)' \in 1 .. runs' /\ RunOf(q)' \notin done'
        BY <2>0, <2>3, <3>2, <4>1
      <4>3. ASSUME NEW r \in Inspectors, Active(r)', r # q
            PROVE  /\ RunOf(r)' # RunOf(q)'
                   /\ \/ job'[r].before <= job'[q].after
                      \/ job'[q].before <= job'[r].after
        <5>1. Active(r) /\ RunOf(r)' = RunOf(r)
              /\ job'[r].after = job[r].after /\ job'[r].before = job[r].before
          BY <2>3, <4>3
        <5>2. QED
          BY <2>3, <3>2, <4>1, <4>3, <5>1 DEF IInv, JobsApart
      <4>4. QED
        BY <4>2, <4>3
    <3>3. QED
      BY <3>1, <3>2
  <2>5. QED
    BY <2>1, <2>2, <2>4 DEF JobsApart
<1>2. ASSUME NEW q \in Inspectors
      PROVE  OwnOK(q)'
  BY OthersKept DEF IInv
<1>3. FinishedRunsExact'
  <2>1. ASSUME NEW b \in Blocks, last'[b] \in done'
        PROVE  Exact(b)'
    <3>1. CASE b \in Span(p)
      BY <2>1, <3>1
    <3>2. CASE b \notin Span(p)
      <4>1. last'[b] = last[b] /\ last[b] # RunOf(p)
        <5>1. LastOK(p)
          BY DEF IInv, OwnOK
        <5>2. QED
          BY <3>2, <5>1 DEF StepFrame, LastOK
      <4>2. last[b] \in done
        BY <2>1, <4>1
      <4>3. Exact(b)
        BY <4>2 DEF IInv, FinishedRunsExact, Exact
      <4>4. QED
        BY <3>2, <4>1, <4>3 DEF Exact, StepFrame, ExpectedSummary,
                               ExpectedArbitrages
    <3>3. QED
      BY <3>1, <3>2
  <2>2. QED
    BY <2>1 DEF FinishedRunsExact, Exact
<1>4. QED
  BY <1>1, <1>2, <1>3 DEF IInv

-----------------------------------------------------------------------------
(* The invariant holds at the beginning and every step keeps it.           *)

LEMMA IInvInit == InitStore => IInv
<1> SUFFICES ASSUME InitStore
             PROVE  IInv
  OBVIOUS
<1>1. TypeOK
  BY TypeInit
<1>2. \A p \in Inspectors :
        ~Active(p) /\ ~Touched(p) /\ job[p].phase = "idle"
        /\ pend[p] = {} /\ pendSummary[p] = NoRows
  BY DEF InitStore, NoJob, Active, Touched, SummaryPhases
<1>3. JobsApart
  BY <1>2 DEF InitStore, JobsApart
<1>4. \A p \in Inspectors : OwnOK(p)
  BY <1>2 DEF OwnOK, FetchOK, LastOK, PendOK, RowsOK, SummaryOK
<1>5. FinishedRunsExact
  BY DEF InitStore, FinishedRunsExact
<1>6. QED
  BY <1>1, <1>3, <1>4, <1>5 DEF IInv

LEMMA KeepsOnBegin ==
  ASSUME IInv, TypeOK', NEW p \in Inspectors, NEW r \in Ranges,
         RangeFree(r[1], r[2]), Begin(p, r[1], r[2])
  PROVE  IInv'
<1>1. /\ ~Active(p) /\ runs' = runs + 1 /\ runs \in Nat
      /\ job' = [job EXCEPT ![p] = [phase |-> "fetch", run |-> runs + 1,
                                   after |-> r[1], before |-> r[2],
                                   next |-> r[1], tab |-> 1]]
      /\ UNCHANGED <<rows, pend, summary, pendSummary, last, done>>
  BY DEF Begin, IInv, TypeOK
<1>2. /\ job'[p].phase = "fetch" /\ RunOf(p)' = runs + 1
      /\ job'[p].after = r[1] /\ job'[p].before = r[2]
  BY <1>1 DEF IInv, TypeOK, RunOf
<1>3. ASSUME NEW q \in Inspectors, q # p
      PROVE  job'[q] = job[q]
  BY <1>1, <1>3 DEF IInv, TypeOK
<1>4. JobsApart'
  <2>1. done' \subseteq 1 .. runs'
    BY <1>1 DEF IInv, JobsApart
  <2>2. \A b \in Blocks : last'[b] \in 0 .. runs'
    BY <1>1 DEF IInv, JobsApart
  <2>3. ASSUME NEW q \in Inspectors, q # p
        PROVE  /\ Active(q)' = Active(q) /\ RunOf(q)' = RunOf(q)
               /\ job'[q].after = job[q].after /\ job'[q].before = job[q].before
    BY <1>3, <2>3 DEF Active, RunOf
  <2>4. /\ RunOf(p)' \in 1 .. runs' /\ RunOf(p)' \notin done'
    BY <1>1, <1>2 DEF IInv, JobsApart
  <2>5. ASSUME NEW q \in Inspectors, q # p, Active(q)
        PROVE  /\ RunOf(q) \in 1 .. runs' /\ RunOf(q) \notin done'
               /\ RunOf(q) # RunOf(p)'
               /\ job[q].before <= r[1] \/ r[2] <= job[q].after
    BY <1>1, <1>2, <2>5 DEF IInv, JobsApart, RangeFree
  <2>6. ASSUME NEW q \in Inspectors, NEW s \in Inspectors, q # p, s # p,
               q # s, Active(q), Active(s)
        PROVE  /\ RunOf(s) # RunOf(q)
               /\ job[s].before <= job[q].after \/ job[q].before <= job[s].after
    BY <2>6 DEF IInv, JobsApart
  <2>7. QED
    BY <1>2, <2>1, <2>2, <2>3, <2>4, <2>5, <2>6 DEF JobsApart
<1>5. ASSUME NEW q \in Inspectors
      PROVE  OwnOK(q)'
  <2>1. CASE q = p
    <3>1. pend[p] = {} /\ pendSummary[p] = NoRows
      BY <1>1 DEF IInv, OwnOK, PendOK, SummaryOK, Active
    <3>2. ~Touched(p)'
      BY <1>1, <1>2 DEF Touched, SummaryPhases, IInv, TypeOK
    <3>3. \A b \in Blocks : last'[b] # RunOf(p)'
      BY <1>1, <1>2 DEF IInv, JobsApart
    <3>4. QED
      BY <1>1, <1>2, <2>1, <3>1, <3>2, <3>3
         DEF OwnOK, FetchOK, LastOK, PendOK, RowsOK, SummaryOK, NoRows,
             IInv, TypeOK
  <2>2. CASE q # p
    <3>1. OwnOK(q) /\ job'[q] = job[q]
      BY <1>3, <2>2 DEF IInv
    <3>2. LastOK(q)'
      BY <1>1, <3>1 DEF OwnOK, LastOK, Active, RunOf, Touched, Span
    <3>3. PendOK(q)'
      BY <1>1, <3>1 DEF OwnOK, PendOK
    <3>4. RowsOK(q)'
      BY <1>1, <3>1 DEF OwnOK, RowsOK, RunOf, Touched, Span, Rewritten, Table
    <3>5. SummaryOK(q)'
      BY <1>1, <3>1 DEF OwnOK, SummaryOK, RunOf, Span
    <3>6. FetchOK(q)'
      BY <3>1 DEF OwnOK, FetchOK
    <3>7. QED
      BY <3>2, <3>3, <3>4, <3>5, <3>6 DEF OwnOK
  <2>3. QED
    BY <2>1, <2>2
<1>6. FinishedRunsExact'
  BY <1>1 DEF IInv, FinishedRunsExact, ExpectedSummary, ExpectedArbitrages
<1>7. QED
  BY <1>4, <1>5, <1>6 DEF IInv

(***************************************************************************)
(* An inspection that ends without returning: what it had not committed is *)
(* gone, and its run is not done.                                          *)
(***************************************************************************)
LEMMA KeepsOnRollback ==
  ASSUME IInv, TypeOK', NEW p \in Inspectors, Active(p), Rollback(p),
         UNCHANGED <<rows, summary, runs, last, done>>
  PROVE  IInv'
<1>1. job'[p] = NoJob /\ pend'[p] = {} /\ pendSummary'[p] = NoRows
  BY DEF Rollback, IInv, TypeOK
<1>2. StepFrame(p)
  BY DEF StepFrame, Rollback, IInv, TypeOK
<1>3. ~Active(p)' /\ ~Touched(p)' /\ job'[p].phase = "idle"
  BY <1>1 DEF Active, NoJob, Touched, SummaryPhases
<1>4. OwnOK(p)'
  BY <1>1, <1>3 DEF OwnOK, FetchOK, LastOK, PendOK, RowsOK, SummaryOK
<1>5. ASSUME NEW b \in Span(p), last'[b] \in done'
      PROVE  Exact(b)'
  <2>1. b \in Blocks /\ last[b] \in done
    BY <1>5 DEF Span
  <2>2. Exact(b)
    BY <2>1 DEF IInv, FinishedRunsExact, Exact
  <2>3. QED
    BY <2>2 DEF Exact, ExpectedSummary, ExpectedArbitrages
<1>6. QED
  BY <1>2, <1>3, <1>4, <1>5, StepKeepsInvariant

LEMMA KeepsOnFetch ==
  ASSUME IInv, TypeOK', NEW p \in Inspectors, FetchBlock(p)
  PROVE  IInv'
<1> DEFINE n == job[p].next + 1
           ph == IF n < job[p].before THEN "fetch" ELSE "delete"
<1>1. /\ job[p].phase = "fetch"
      /\ job' = [job EXCEPT ![p] = [@ EXCEPT !.next = n, !.phase = ph]]
      /\ UNCHANGED <<rows, pend, summary, pendSummary, runs, last, done>>
  BY DEF FetchBlock, IInv, TypeOK
<1>2. job[p].tab = 1 /\ pend[p] = {} /\ pendSummary[p] = NoRows
  BY <1>1 DEF IInv, OwnOK, FetchOK, PendOK, SummaryOK
<1>3. ph \in {"fetch", "delete"}
  OBVIOUS
<1> HIDE DEF n, ph
<1>4. /\ job'[p].phase = ph /\ job'[p].tab = 1 /\ RunOf(p)' = RunOf(p)
      /\ job'[p].after = job[p].after /\ job'[p].before = job[p].before
  BY <1>1, <1>2 DEF IInv, TypeOK, RunOf
<1>5. Active(p) /\ ~Touched(p) /\ ~Touched(p)' /\ Span(p)' = Span(p)
  BY <1>1, <1>2, <1>3, <1>4 DEF Active, Touched, SummaryPhases, Span
<1>6. StepFrame(p)
  BY <1>1 DEF StepFrame, IInv, TypeOK
<1>7. OwnOK(p)'
  <2>1. LastOK(p)'
    BY <1>1, <1>4, <1>5 DEF IInv, OwnOK, LastOK
  <2>2. PendOK(p)' /\ RowsOK(p)' /\ FetchOK(p)'
    BY <1>1, <1>2, <1>4, <1>5 DEF PendOK, RowsOK, FetchOK
  <2>3. SummaryOK(p)'
    BY <1>1, <1>2, <1>3, <1>4 DEF SummaryOK, NoRows
  <2>4. QED
    BY <2>1, <2>2, <2>3 DEF OwnOK
<1>8. ASSUME NEW b \in Span(p), last'[b] \in done'
      PROVE  Exact(b)'
  <2>1. b \in Blocks /\ last[b] \in done
    BY <1>1, <1>8 DEF Span
  <2>2. Exact(b)
    BY <2>1 DEF IInv, FinishedRunsExact, Exact
  <2>3. QED
    BY <1>1, <2>2 DEF Exact, ExpectedSummary, ExpectedArbitrages
<1>9. QED
  BY <1>1, <1>4, <1>5, <1>6, <1>7, <1>8, StepKeepsInvariant

LEMMA KeepsOnDelete ==
  ASSUME IInv, TypeOK', NEW p \in Inspectors, DeleteTable(p)
  PROVE  IInv'
<1> DEFINE k == job[p].tab
<1>0. /\ k \in 1 .. NumTables /\ RunOf(p) \in Nat /\ Table(p) = Tables[k]
      /\ Table(p) \in TableNames
  BY TypeFacts DEF IInv, TypeOK, Table
<1>1. /\ job[p].phase = "delete" /\ job' = [job EXCEPT ![p].phase = "write"]
      /\ rows' = Committed(Deleted(rows, p, Table(p)), p, pend[p])
      /\ pend' = [pend EXCEPT ![p] = {}]
      /\ last' = [b \in Blocks |-> IF k = 1 /\ b \in Span(p)
                                     THEN RunOf(p) ELSE last[b]]
      /\ UNCHANGED <<summary, pendSummary, runs, done>>
  BY DEF DeleteTable, Goto
<1>2. /\ job'[p].phase = "write" /\ job'[p].tab = k /\ RunOf(p)' = RunOf(p)
      /\ job'[p].after = job[p].after /\ job'[p].before = job[p].before
      /\ pend'[p] = {} /\ pendSummary'[p] = pendSummary[p]
  BY <1>1 DEF IInv, TypeOK, RunOf
<1>3. /\ Active(p) /\ Touched(p)' /\ Span(p)' = Span(p) /\ Table(p)' = Table(p)
      /\ Touched(p) <=> k > 1
  BY <1>1, <1>2 DEF Active, Touched, SummaryPhases, Span, Table
<1>4. Span(p) \subseteq Blocks
  BY DEF Span
<1>5. ASSUME NEW t \in TableNames, NEW b \in Blocks
      PROVE  /\ b \notin Span(p) => rows'[t][b] = rows[t][b]
             /\ b \in Span(p) =>
                  LET old == IF t = Table(p) THEN {} ELSE rows[t][b]
                  IN  rows'[t][b] = IF t \in pend[p] THEN old \cup {RunOf(p)}
                                                     ELSE old
  BY <1>0, <1>1 DEF Committed, Deleted, IInv, TypeOK
<1>6. StepFrame(p)
  BY <1>1, <1>5 DEF StepFrame, IInv, TypeOK
<1>7. \A t \in pend[p] : k > 1 /\ t = Tables[k - 1]
  BY <1>1 DEF IInv, OwnOK, PendOK
<1>8. Table(p) \notin pend[p]
  BY <1>0, <1>7, TableFacts
<1>9. OwnOK(p)'
  <2>1. LastOK(p)'
    <3>1. ASSUME NEW b \in Blocks
          PROVE  last'[b] = RunOf(p) <=> b \in Span(p)
      <4>1. last[b] = RunOf(p) <=> k > 1 /\ b \in Span(p)
        BY <1>3 DEF IInv, OwnOK, LastOK
      <4>2. last'[b] = IF k = 1 /\ b \in Span(p) THEN RunOf(p) ELSE last[b]
        BY <1>1
      <4>3. QED
        BY <1>0, <4>1, <4>2
    <3>2. QED
      BY <1>2, <1>3, <3>1 DEF LastOK
  <2>2. PendOK(p)' /\ FetchOK(p)'
    BY <1>2 DEF PendOK, FetchOK
  <2>3. RowsOK(p)'
    <3>1. SUFFICES ASSUME NEW b \in Span(p)
                   PROVE  /\ \A i \in 1 .. NumTables : i < k =>
                               rows'[Tables[i]][b] = {RunOf(p)}
                          /\ rows'[Table(p)][b] = {}
      BY <1>2, <1>3 DEF RowsOK, Rewritten, SummaryPhases
    <3>2. rows'[Table(p)][b] = {}
      BY <1>0, <1>4, <1>5, <1>8
    <3>3. ASSUME NEW i \in 1 .. NumTables, i < k
          PROVE  rows'[Tables[i]][b] = {RunOf(p)}
      <4>1. Tables[i] # Table(p) /\ Tables[i] \in TableNames
        BY <1>0, <3>3, TableFacts
      <4>2. rows[Tables[i]][b] = IF Tables[i] \in pend[p] THEN {} ELSE {RunOf(p)}
        <5>1. Touched(p) /\ Rewritten(p, i) /\ RowsOK(p)
          BY <1>0, <1>3, <3>3, TableFacts DEF IInv, OwnOK, Rewritten
        <5>2. QED
          BY <5>1 DEF RowsOK
      <4>3. QED
        BY <1>4, <1>5, <4>1, <4>2
    <3>4. QED
      BY <3>2, <3>3
  <2>4. SummaryOK(p)'
    BY <1>1, <1>2 DEF IInv, OwnOK, SummaryOK, NoRows
  <2>5. QED
    BY <2>1, <2>2, <2>3, <2>4 DEF OwnOK
<1>10. \A b \in Span(p) : last'[b] \notin done'
  BY <1>1, <1>2, <1>3, <1>4, <1>9 DEF IInv, JobsApart, OwnOK, LastOK, Active
<1>11. QED
  BY <1>1, <1>2, <1>3, <1>6, <1>9, <1>10, StepKeepsInvariant

LEMMA KeepsOnWrite ==
  ASSUME IInv, TypeOK', NEW p \in Inspectors, WriteTable(p)
  PROVE  IInv'
<1> DEFINE k == job[p].tab
           ph == IF k < NumTables THEN "delete" ELSE "summary_delete"
           n == IF k < NumTables THEN k + 1 ELSE k
<1>0. /\ k \in 1 .. NumTables /\ RunOf(p) \in Nat /\ Table(p) = Tables[k]
      /\ Table(p) \in TableNames /\ pend[p] \subseteq TableNames
  BY TypeFacts DEF IInv, TypeOK, Table
<1>1. /\ job[p].phase = "write"
      /\ job' = [job EXCEPT ![p] = [@ EXCEPT !.tab = n, !.phase = ph]]
      /\ UNCHANGED <<summary, pendSummary, runs, last, done>>
  BY DEF WriteTable, NextTable, IInv, TypeOK
<1>2. pend[p] = {}
  BY <1>1 DEF IInv, OwnOK, PendOK
<1>3. \/ /\ pend' = [pend EXCEPT ![p] = {Table(p)}]
         /\ rows' = rows
      \/ /\ pend' = [pend EXCEPT ![p] = {}]
         /\ rows' = Committed(rows, p, {Table(p)})
  BY <1>2 DEF WriteTable
<1>4. /\ job'[p].phase = ph /\ job'[p].tab = n /\ RunOf(p)' = RunOf(p)
      /\ job'[p].after = job[p].after /\ job'[p].before = job[p].before
  <2> HIDE DEF ph, n
  <2> QED
    BY <1>1 DEF IInv, TypeOK, RunOf
<1>5. /\ \/ ph = "delete" /\ n = k + 1 /\ k < NumTables
         \/ ph = "summary_delete" /\ n = k /\ k = NumTables
      /\ \A i \in 1 .. NumTables :
           (i < n \/ ph = "summary_delete") <=> (i < k \/ i = k)
  BY <1>0, TableFacts
<1> HIDE DEF ph, n
<1>6. /\ Active(p) /\ Active(p)' /\ Touched(p) /\ Touched(p)'
      /\ Span(p)' = Span(p) /\ Span(p) \subseteq Blocks
  BY <1>0, <1>1, <1>4, <1>5 DEF Active, Touched, SummaryPhases, Span
<1>7. ASSUME NEW t \in TableNames, NEW b \in Blocks
      PROVE  /\ b \notin Span(p) => rows'[t][b] = rows[t][b]
             /\ t # Table(p) => rows'[t][b] = rows[t][b]
             /\ b \in Span(p) =>
                  rows'[Table(p)][b] = IF Table(p) \in pend'[p]
                                        THEN rows[Table(p)][b]
                                        ELSE rows[Table(p)][b] \cup {RunOf(p)}
  <2>1. CASE pend' = [pend EXCEPT ![p] = {Table(p)}] /\ rows' = rows
    BY <1>0, <2>1 DEF IInv, TypeOK
  <2>2. CASE /\ pend' = [pend EXCEPT ![p] = {}]
             /\ rows' = Committed(rows, p, {Table(p)})
    <3>1. pend'[p] = {}
      BY <2>2 DEF IInv, TypeOK
    <3>2. rows'[t][b] = IF t \in {Table(p)} /\ b \in Span(p)
                          THEN rows[t][b] \cup {RunOf(p)} ELSE rows[t][b]
      BY <2>2 DEF Committed
    <3>3. rows'[Table(p)][b] = IF b \in Span(p)
                                 THEN rows[Table(p)][b] \cup {RunOf(p)}
                                 ELSE rows[Table(p)][b]
      BY <1>0, <2>2 DEF Committed
    <3>4. QED
      BY <3>1, <3>2, <3>3
  <2>3. QED
    BY <1>3, <2>1, <2>2
<1>8. StepFrame(p)
  <2>1. \A q \in Inspectors \ {p} : pend'[q] = pend[q]
    BY <1>3 DEF IInv, TypeOK
  <2>2. QED
    BY <1>1, <1>7, <2>1 DEF StepFrame, IInv, TypeOK
<1>9. pend'[p] \subseteq {Table(p)}
  BY <1>3 DEF IInv, TypeOK
<1>10. OwnOK(p)'
  <2>1. LastOK(p)'
    BY <1>1, <1>4, <1>6 DEF LastOK, IInv, OwnOK
  <2>2. PendOK(p)' /\ FetchOK(p)'
    BY <1>0, <1>4, <1>5, <1>9 DEF PendOK, FetchOK
  <2>3. RowsOK(p)'
    <3>1. \A i \in 1 .. NumTables : Rewritten(p, i)' <=> i < k \/ i = k
      BY <1>4, <1>5 DEF Rewritten, SummaryPhases
    <3>2. SUFFICES ASSUME NEW b \in Span(p), NEW i \in 1 .. NumTables,
                          i < k \/ i = k
                   PROVE  rows'[Tables[i]][b] =
                            IF Tables[i] \in pend'[p] THEN {} ELSE {RunOf(p)}
      BY <1>4, <1>5, <1>6, <3>1 DEF RowsOK
    <3>3. /\ \A j \in 1 .. NumTables : j < k => rows[Tables[j]][b] = {RunOf(p)}
          /\ rows[Table(p)][b] = {}
      BY <1>1, <1>2, <1>6 DEF IInv, OwnOK, RowsOK, Rewritten
    <3>4. CASE i = k
      BY <1>0, <1>6, <1>7, <3>3, <3>4
    <3>5. CASE i < k
      <4>1. Tables[i] # Table(p) /\ Tables[i] \in TableNames
        BY <1>0, <3>5, TableFacts
      <4>2. QED
        BY <1>6, <1>7, <1>9, <3>3, <3>5, <4>1
    <3>6. QED
      BY <3>2, <3>4, <3>5
  <2>4. SummaryOK(p)'
    BY <1>1, <1>4, <1>5 DEF IInv, OwnOK, SummaryOK, NoRows
  <2>5. QED
    BY <2>1, <2>2, <2>3, <2>4 DEF OwnOK
<1>11. \A b \in Span(p) : last'[b] \notin done'
  BY <1>1, <1>6 DEF IInv, JobsApart, OwnOK, LastOK
<1>12. QED
  BY <1>1, <1>4, <1>6, <1>8, <1>10, <1>11, StepKeepsInvariant

LEMMA KeepsOnSummaryDelete ==
  ASSUME IInv, TypeOK', NEW p \in Inspectors, SummaryDelete(p)
  PROVE  IInv'
<1>0. RunOf(p) \in Nat /\ Span(p) \subseteq Blocks
  BY TypeFacts DEF IInv, Span
<1>1. /\ job[p].phase = "summary_delete"
      /\ job' = [job EXCEPT ![p].phase = "summary_arbitrages"]
      /\ rows' = Committed(rows, p, pend[p])
      /\ pend' = [pend EXCEPT ![p] = {}]
      /\ summary' = [b \in Blocks |-> IF b \in Span(p) THEN {} ELSE summary[b]]
      /\ UNCHANGED <<pendSummary, runs, last, done>>
  BY DEF SummaryDelete, SummaryCleared, Goto
<1>2. /\ job'[p].phase = "summary_arbitrages" /\ job'[p].tab = job[p].tab
      /\ RunOf(p)' = RunOf(p)
      /\ job'[p].after = job[p].after /\ job'[p].before = job[p].before
      /\ pend'[p] = {} /\ pendSummary'[p] = pendSummary[p]
  BY <1>1 DEF IInv, TypeOK, RunOf
<1>3. Active(p) /\ Touched(p) /\ Touched(p)' /\ Span(p)' = Span(p)
  BY <1>1, <1>2 DEF Active, Touched, SummaryPhases, Span
<1>4. ASSUME NEW t \in TableNames, NEW b \in Blocks
      PROVE  rows'[t][b] = IF t \in pend[p] /\ b \in Span(p)
                             THEN rows[t][b] \cup {RunOf(p)} ELSE rows[t][b]
  BY <1>1 DEF Committed
<1>5. StepFrame(p)
  BY <1>1, <1>4 DEF StepFrame, IInv, TypeOK
<1>6. OwnOK(p)'
  <2>1. LastOK(p)'
    BY <1>1, <1>2, <1>3 DEF LastOK, IInv, OwnOK, Active
  <2>2. PendOK(p)' /\ FetchOK(p)'
    BY <1>2 DEF PendOK, FetchOK
  <2>3. RowsOK(p)'
    <3>1. SUFFICES ASSUME NEW b \in Span(p), NEW i \in 1 .. NumTables
                   PROVE  rows'[Tables[i]][b] = {RunOf(p)}
      BY <1>2, <1>3 DEF RowsOK
    <3>2. rows[Tables[i]][b] = IF Tables[i] \in pend[p] THEN {} ELSE {RunOf(p)}
      BY <1>1, <1>3 DEF IInv, OwnOK, RowsOK, Rewritten, SummaryPhases
    <3>3. QED
      BY <1>0, <1>4, <3>2, TableFacts
  <2>4. SummaryOK(p)'
    <3>1. pendSummary'[p] = NoRows
      BY <1>1, <1>2 DEF IInv, OwnOK, SummaryOK
    <3>2. \A b \in Span(p) : summary'[b] = {}
      BY <1>0, <1>1
    <3>3. QED
      BY <1>2, <1>3, <3>1, <3>2 DEF SummaryOK, NoRows
  <2>5. QED
    BY <2>1, <2>2, <2>3, <2>4 DEF OwnOK
<1>7. \A b \in Span(p) : last'[b] \notin done'
  BY <1>0, <1>1, <1>3 DEF IInv, JobsApart, OwnOK, LastOK
<1>8. QED
  BY <1>1, <1>2, <1>3, <1>5, <1>6, <1>7, StepKeepsInvariant

(***************************************************************************)
(* In the summary phases after the delete every table holds the run's own  *)
(* rows, so the joins find them and nothing else.                          *)
(***************************************************************************)
LEMMA SummaryReadsOwnRows ==
  ASSUME IInv, NEW p \in Inspectors,
         job[p].phase \in {"summary_arbitrages", "summary_liquidations"},
         NEW b \in Span(p)
  PROVE  /\ pend[p] = {}
         /\ \A t \in TableNames : rows[t][b] = {RunOf(p)}
         /\ JoinFinds(b)
<1>1. pend[p] = {}
  BY DEF IInv, OwnOK, PendOK
<1>2. \A i \in 1 .. NumTables : rows[Tables[i]][b] = {RunOf(p)}
  BY <1>1 DEF IInv, OwnOK, RowsOK, Touched, Rewritten, SummaryPhases
<1>3. \A t \in TableNames : rows[t][b] = {RunOf(p)}
  BY <1>2 DEF TableNames
<1>4. QED
  BY <1>1, <1>3, TableFacts DEF JoinFinds

LEMMA KeepsOnSummaryArbitrages ==
  ASSUME IInv, TypeOK', NEW p \in Inspectors, SummaryArbitrages(p)
  PROVE  IInv'
<1>0. Span(p) \subseteq Blocks
  BY DEF Span
<1>1. /\ job[p].phase = "summary_arbitrages"
      /\ job' = [job EXCEPT ![p].phase = "summary_liquidations"]
      /\ pendSummary' = [pendSummary EXCEPT
                           ![p] = [b \in Blocks |-> ArbitrageSummary(p, b)]]
      /\ UNCHANGED <<rows, pend, summary, runs, last, done>>
  BY DEF SummaryArbitrages, Goto
<1>2. /\ job'[p].phase = "summary_liquidations" /\ RunOf(p)' = RunOf(p)
      /\ job'[p].after = job[p].after /\ job'[p].before = job[p].before
      /\ pend'[p] = pend[p]
      /\ pendSummary'[p] = [b \in Blocks |-> ArbitrageSummary(p, b)]
  BY <1>1 DEF IInv, TypeOK, RunOf
<1>3. Active(p) /\ Touched(p) /\ Touched(p)' /\ Span(p)' = Span(p)
  BY <1>1, <1>2 DEF Active, Touched, SummaryPhases, Span
<1>4. StepFrame(p)
  BY <1>1 DEF StepFrame, IInv, TypeOK
<1>5. OwnOK(p)'
  <2>1. LastOK(p)'
    BY <1>1, <1>2, <1>3 DEF LastOK, IInv, OwnOK, Active
  <2>2. pend[p] = {}
    BY <1>1 DEF IInv, OwnOK, PendOK
  <2>3. PendOK(p)' /\ FetchOK(p)'
    BY <1>2, <2>2 DEF PendOK, FetchOK
  <2>4. RowsOK(p)'
    BY <1>1, <1>2, <1>3 DEF RowsOK, IInv, OwnOK, Rewritten, SummaryPhases
  <2>5. SummaryOK(p)'
    <3>1. \A b \in Span(p) : summary'[b] = {}
      BY <1>1 DEF IInv, OwnOK, SummaryOK
    <3>2. ASSUME NEW b \in Span(p)
          PROVE  ArbitrageSummary(p, b) = ExpectedArbitrages(b, RunOf(p))
      <4>1. /\ rows["arbitrages"][b] = {RunOf(p)}
            /\ rows["sandwiches"][b] # {}
            /\ JoinFinds(b)
        BY <1>1, SummaryReadsOwnRows, TableFacts DEF Summarised
      <4>2. {[type |-> "arbitrage", from |-> r, by |-> RunOf(p)]
               : r \in {RunOf(p)}}
              = {[type |-> "arbitrage", from |-> RunOf(p), by |-> RunOf(p)]}
        OBVIOUS
      <4>3. QED
        BY <4>1, <4>2 DEF ArbitrageSummary, ExpectedArbitrages
    <3>3. ASSUME NEW b \in Blocks, b \notin Span(p)
          PROVE  ArbitrageSummary(p, b) = {}
      BY <3>3 DEF ArbitrageSummary
    <3>4. \A b \in Blocks : pendSummary'[p][b] =
             IF b \in Span(p) THEN ExpectedArbitrages(b, RunOf(p)) ELSE {}
      BY <1>0, <1>2, <3>2, <3>3
    <3>5. QED
      BY <1>2, <1>3, <3>1, <3>4 DEF SummaryOK, ExpectedArbitrages
  <2>6. QED
    BY <2>1, <2>3, <2>4, <2>5 DEF OwnOK
<1>6. \A b \in Span(p) : last'[b] \notin done'
  BY <1>0, <1>1, <1>3 DEF IInv, JobsApart, OwnOK, LastOK
<1>7. QED
  BY <1>1, <1>2, <1>3, <1>4, <1>5, <1>6, StepKeepsInvariant

LEMMA KeepsOnSummaryLiquidations ==
  ASSUME IInv, TypeOK', NEW p \in Inspectors, SummaryLiquidations(p)
  PROVE  IInv'
<1>0. Span(p) \subseteq Blocks
  BY DEF Span
<1>1. /\ job[p].phase = "summary_liquidations"
      /\ job' = [job EXCEPT ![p] = NoJob]
      /\ summary' = [b \in Blocks |-> summary[b] \cup pendSummary[p][b]
                                       \cup LiquidationSummary(p, b)]
      /\ pendSummary' = [pendSummary EXCEPT ![p] = NoRows]
      /\ done' = done \cup {RunOf(p)}
      /\ UNCHANGED <<rows, pend, runs, last>>
  BY DEF SummaryLiquidations
<1>2. /\ job'[p] = NoJob /\ pendSummary'[p] = NoRows /\ pend'[p] = pend[p]
  BY <1>1 DEF IInv, TypeOK
<1>3. /\ Active(p) /\ ~Active(p)' /\ Touched(p) /\ ~Touched(p)'
      /\ job'[p].phase = "idle"
  BY <1>1, <1>2 DEF Active, NoJob, Touched, SummaryPhases
<1>4. \A b \in Blocks : pendSummary[p][b] =
         IF b \in Span(p) THEN ExpectedArbitrages(b, RunOf(p)) ELSE {}
  BY <1>1 DEF IInv, OwnOK, SummaryOK
<1>5. StepFrame(p)
  <2>1. \A b \in Blocks : b \notin Span(p) => summary'[b] = summary[b]
    BY <1>1, <1>4 DEF LiquidationSummary
  <2>2. QED
    BY <1>1, <2>1 DEF StepFrame, IInv, TypeOK
<1>6. OwnOK(p)'
  <2>1. pend[p] = {}
    BY <1>1 DEF IInv, OwnOK, PendOK
  <2>2. QED
    BY <1>2, <1>3, <2>1
       DEF OwnOK, FetchOK, LastOK, PendOK, RowsOK, SummaryOK, NoRows
<1>7. ASSUME NEW b \in Span(p)
      PROVE  Exact(b)'
  <2>1. last'[b] = RunOf(p)
    BY <1>0, <1>1, <1>3 DEF IInv, OwnOK, LastOK
  <2>2. (\A t \in TableNames : rows[t][b] = {RunOf(p)}) /\ JoinFinds(b)
    BY <1>1, SummaryReadsOwnRows
  <2>3. LiquidationSummary(p, b) =
          {[type |-> "liquidation", from |-> RunOf(p), by |-> RunOf(p)]}
    BY <2>2, TableFacts DEF LiquidationSummary, Summarised
  <2>4. summary[b] = {}
    BY <1>1 DEF IInv, OwnOK, SummaryOK
  <2>5. summary'[b] = ExpectedSummary(b, RunOf(p))
    BY <1>0, <1>1, <1>4, <2>3, <2>4 DEF ExpectedSummary
  <2>6. QED
    BY <1>1, <2>1, <2>2, <2>5 DEF Exact, ExpectedSummary, ExpectedArbitrages
<1>8. QED
  BY <1>1, <1>3, <1>5, <1>6, <1>7, StepKeepsInvariant

LEMMA IInvStep ==
  ASSUME IInv, [ExclusiveNext]_storeVars
  PROVE  IInv'
<1>0. TypeOK'
  BY TypeStep DEF IInv
<1>1. ASSUME NEW p \in Inspectors, Proceed(p)
      PROVE  IInv'
  <2>1. CASE WriteConflict(p)
    BY <1>0, <2>1, KeepsOnRollback DEF WriteConflict, Active
  <2>2. QED
    BY <1>0, <1>1, <2>1, KeepsOnFetch, KeepsOnDelete, KeepsOnWrite,
       KeepsOnSummaryDelete, KeepsOnSummaryArbitrages,
       KeepsOnSummaryLiquidations DEF Proceed
<1>2. ASSUME NEW p \in Inspectors, Fail(p)
      PROVE  IInv'
  BY <1>0, <1>2, KeepsOnRollback DEF Fail
<1>3. ASSUME NEW p \in Inspectors, NEW r \in Ranges,
             RangeFree(r[1], r[2]), Begin(p, r[1], r[2])
      PROVE  IInv'
  BY <1>0, <1>3, KeepsOnBegin
<1>4. CASE UNCHANGED storeVars
  <2>1. UNCHANGED <<rows, pend, summary, pendSummary, job, runs, last, done>>
    BY <1>4 DEF storeVars
  <2>2. JobsApart'
    BY <2>1 DEF IInv, JobsApart, Active, RunOf
  <2>3. ASSUME NEW p \in Inspectors
        PROVE  OwnOK(p)'
    <3>1. OwnOK(p)
      BY DEF IInv
    <3>2. FetchOK(p)' /\ LastOK(p)' /\ PendOK(p)'
      BY <2>1, <3>1 DEF OwnOK, FetchOK, LastOK, PendOK, Active, RunOf, Touched, Span
    <3>3. RowsOK(p)'
      BY <2>1, <3>1 DEF OwnOK, RowsOK, RunOf, Touched, Rewritten, Span, Table
    <3>4. SummaryOK(p)'
      BY <2>1, <3>1 DEF OwnOK, SummaryOK, RunOf, Span, ExpectedArbitrages, NoRows
    <3>5. QED
      BY <3>2, <3>3, <3>4 DEF OwnOK
  <2>4. FinishedRunsExact'
    BY <2>1 DEF IInv, FinishedRunsExact, ExpectedSummary, ExpectedArbitrages
  <2>5. QED
    BY <1>0, <2>2, <2>3, <2>4 DEF IInv
<1>5. QED
  BY <1>1, <1>2, <1>3, <1>4 DEF ExclusiveNext, ExclusiveStep, AllEnded

LEMMA IInvAlways == ExclusiveSpec => []IInv
BY IInvInit, IInvStep, PTL DEF ExclusiveSpec

-----------------------------------------------------------------------------
(* The properties.                                                         *)

(***************************************************************************)
(* Once the last run to touch a block has returned, every table holds      *)
(* exactly its rows of the block and the summary is exactly theirs.        *)
(***************************************************************************)
THEOREM FinishedRunsAreExact == ExclusiveSpec => []FinishedRunsExact
<1>1. IInv => FinishedRunsExact
  BY DEF IInv
<1>2. QED
  BY <1>1, IInvAlways, PTL

(***************************************************************************)
(* An insert of an exclusive inspection never finds its keys taken by rows *)
(* left behind, nor waits for another session.                             *)
(***************************************************************************)
THEOREM RerunsAreFree == ExclusiveSpec => []RerunsNeverCollide
<1>1. ASSUME IInv, NEW p \in Inspectors, job[p].phase = "write"
      PROVE  ~KeyTaken(p) /\ ~KeyLocked(p)
  <2>1. ~KeyTaken(p)
    BY <1>1 DEF KeyTaken, IInv, OwnOK, RowsOK, Touched
  <2>2. ASSUME NEW q \in Inspectors, q # p, Table(p) \in pend[q]
        PROVE  Span(p) \cap Span(q) = {}
    <3>1. Active(p) /\ Active(q)
      BY <1>1, <2>2 DEF IInv, OwnOK, PendOK, Active
    <3>2. QED
      BY <1>1, <2>2, <3>1, SpansApart DEF IInv
  <2>3. QED
    BY <2>1, <2>2 DEF KeyLocked
<1>2. IInv => RerunsNeverCollide
  BY <1>1 DEF RerunsNeverCollide
<1>3. QED
  BY <1>2, IInvAlways, PTL

(***************************************************************************)
(* Of the tables a rewrite has reached, at most one is missing.            *)
(***************************************************************************)
THEOREM OneTableMissing == ExclusiveSpec => []OneTableMissingAtATime
<1>1. ASSUME IInv, NEW p \in Inspectors, job[p].phase \in {"delete", "write"},
             NEW b \in Span(p), NEW i \in Reached(p), NEW j \in Reached(p),
             rows[Tables[i]][b] = {}, rows[Tables[j]][b] = {}
      PROVE  i = j
  <2>1. job[p].tab \in 1 .. NumTables
    BY <1>1 DEF IInv, TypeOK
  <2>2. /\ i \in 1 .. NumTables /\ i <= job[p].tab
        /\ j \in 1 .. NumTables /\ j <= job[p].tab
    BY <2>1, TableFacts DEF Reached
  <2>3. ASSUME NEW n \in Reached(p), n \in 1 .. NumTables, n < job[p].tab,
               rows[Tables[n]][b] = {}
        PROVE  job[p].phase = "delete" /\ n = job[p].tab - 1
    <3>1. Touched(p) /\ Rewritten(p, n)
      BY <1>1, <2>1, <2>3 DEF Touched, Rewritten
    <3>2. Tables[n] \in pend[p]
      <4>1. rows[Tables[n]][b] = IF Tables[n] \in pend[p] THEN {} ELSE {RunOf(p)}
        BY <1>1, <2>3, <3>1 DEF IInv, OwnOK, RowsOK
      <4>2. QED
        BY <2>3, <4>1
    <3>3. /\ job[p].phase = "delete" /\ job[p].tab > 1
          /\ Tables[n] = Tables[job[p].tab - 1]
      BY <1>1, <3>2 DEF IInv, OwnOK, PendOK
    <3>4. QED
      BY <2>1, <2>3, <3>3, TableFacts
  <2>4. job[p].phase = "delete" => i < job[p].tab /\ j < job[p].tab
    BY DEF Reached
  <2>5. QED
    BY <1>1, <2>1, <2>2, <2>3, <2>4
<1>2. IInv => OneTableMissingAtATime
  BY <1>1 DEF OneTableMissingAtATime
<1>3. QED
  BY <1>2, IInvAlways, PTL
-----------------------------------------------------------------------------
(* Repeated inspections: several may rewrite one block at the same time.   *)

(***************************************************************************)
(* p has rewritten the first i tables, for i = 0: has begun to rewrite.    *)
(***************************************************************************)
Past(p, i) ==
  \/ job[p].phase \in {"delete", "write"} /\ i < job[p].tab
  \/ job[p].phase \in SummaryPhases

(* p has still to write table number j, or to commit what it wrote there. *)
Owes(p, j) ==
  \/ job[p].phase \in {"delete", "write"} /\ job[p].tab <= j
  \/ Tables[j] \in pend[p]

(* Block b has rows in table number i; for i = 0: a rewrite of it began. *)
Filled(i, b) == IF i = 0 THEN last[b] # 0 ELSE rows[Tables[i]][b] # {}

(***************************************************************************)
(* Where one table has rows of a block, every later one has some too, or   *)
(* an inspection that got beyond the one still owes them.                  *)
(***************************************************************************)
LaterTablesFollow(b) ==
  \A i \in 0 .. NumTables : \A j \in 1 .. NumTables :
    i <= j /\ Filled(i, b) =>
      \/ Filled(j, b)
      \/ \E p \in Inspectors : b \in Span(p) /\ Past(p, i) /\ Owes(p, j)

HasType(S, type) == \E s \in S : s.type = type

(* Both halves of the summary of b are there. *)
Summed(b) ==
  /\ b \notin SandwichLegs => HasType(summary[b], "arbitrage")
  /\ HasType(summary[b], "liquidation")

(***************************************************************************)
(* p will delete once more, or compute the summary from what is there now. *)
(***************************************************************************)
OwesSummary(p, b) ==
  \/ job[p].phase \in {"delete", "summary_delete", "summary_arbitrages"}
  \/ /\ job[p].phase = "summary_liquidations"
     /\ b \notin SandwichLegs => HasType(pendSummary[p][b], "arbitrage")

(***************************************************************************)
(* When all tables have rows of a block, so has the summary, or somebody   *)
(* is about to compute it again.                                           *)
(***************************************************************************)
SummaryFollows(b) ==
  (\A i \in 1 .. NumTables : Filled(i, b)) =>
    Summed(b) \/ \E p \in Inspectors : b \in Span(p) /\ OwesSummary(p, b)

SharedInv ==
  /\ TypeOK
  /\ \A p \in Inspectors : PendOK(p)
  /\ \A b \in Blocks : LaterTablesFollow(b) /\ SummaryFollows(b)

(* What is stored of p's blocks is there or missing for all of them alike. *)
Alike(p) ==
  \A t \in TableNames : \A b, c \in Span(p) : rows[t][b] = {} => rows[t][c] = {}

(* Nothing of the other sessions changes in a step of p. *)
OthersSame(p) ==
  \A q \in Inspectors \ {p} :
    job'[q] = job[q] /\ pend'[q] = pend[q] /\ pendSummary'[q] = pendSummary[q]

LEMMA OthersGoOn ==
  ASSUME NEW p \in Inspectors, OthersSame(p), NEW q \in Inspectors \ {p}
  PROVE  /\ Span(q)' = Span(q) /\ (PendOK(q) => PendOK(q)')
         /\ \A i \in 0 .. NumTables : Past(q, i)' <=> Past(q, i)
         /\ \A j \in 1 .. NumTables : Owes(q, j)' <=> Owes(q, j)
         /\ \A b \in Blocks : OwesSummary(q, b)' <=> OwesSummary(q, b)
BY DEF OthersSame, Span, PendOK, Past, Owes, OwesSummary

(* Only the table that was written last waits for its commit. *)
LEMMA PendFacts ==
  ASSUME TypeOK, NEW p \in Inspectors, PendOK(p)
  PROVE  /\ job[p].phase \in {"delete", "write"} => job[p].tab \in 1 .. NumTables
         /\ pend[p] # {} => job[p].phase \in {"delete", "summary_delete"}
         /\ \A j \in 1 .. NumTables : Tables[j] \in pend[p] =>
              \/ job[p].phase = "delete" /\ j = job[p].tab - 1
              \/ job[p].phase = "summary_delete" /\ j = NumTables
<1>1. job[p].tab \in 1 .. NumTables
  BY DEF TypeOK
<1>2. job[p].phase = "delete" /\ job[p].tab > 1 => job[p].tab - 1 \in 1 .. NumTables
  BY <1>1, TableFacts
<1> QED
  BY <1>1, <1>2, TableFacts DEF PendOK

(***************************************************************************)
(* A step that changes no row, and in which p neither owes a table nor a   *)
(* summary: it has not begun to write, or has nothing left to do.          *)
(***************************************************************************)
LEMMA IdleStepsFollow ==
  ASSUME SharedInv, NEW p \in Inspectors, OthersSame(p),
         UNCHANGED <<rows, summary, last>>,
         \A i \in 0 .. NumTables, j \in 1 .. NumTables :
           i <= j => ~(Past(p, i) /\ Owes(p, j)),
         \A b \in Blocks : ~OwesSummary(p, b)
  PROVE  \A b \in Blocks : LaterTablesFollow(b)' /\ SummaryFollows(b)'
<1> SUFFICES ASSUME NEW b \in Blocks
             PROVE  LaterTablesFollow(b)' /\ SummaryFollows(b)'
  OBVIOUS
<1>1. \A i \in 0 .. NumTables : Filled(i, b)' <=> Filled(i, b)
  BY DEF Filled
<1>2. LaterTablesFollow(b) /\ SummaryFollows(b) /\ (Summed(b)' <=> Summed(b))
  BY DEF SharedInv, Summed
<1>3. LaterTablesFollow(b)'
  BY <1>1, <1>2, OthersGoOn DEF LaterTablesFollow
<1>4. SummaryFollows(b)'
  BY <1>1, <1>2, OthersGoOn, TableFacts DEF SummaryFollows
<1> QED
  BY <1>3, <1>4

LEMMA SharedKeptByIdle ==
  ASSUME SharedInv, TypeOK', NEW p \in Inspectors, OthersSame(p),
         UNCHANGED <<rows, summary, last>>,
         job[p].phase \in {"idle", "fetch"}, pend'[p] = {}
  PROVE  SharedInv'
<1>1. ASSUME NEW b \in Blocks
      PROVE  ~OwesSummary(p, b)
  BY DEF OwesSummary
<1>2. \A i \in 0 .. NumTables : ~Past(p, i)
  BY DEF Past, SummaryPhases
<1>3. \A b \in Blocks : LaterTablesFollow(b)' /\ SummaryFollows(b)'
  BY <1>1, <1>2, IdleStepsFollow
<1>4. \A q \in Inspectors : PendOK(q)'
  BY OthersGoOn DEF SharedInv, PendOK
<1> QED
  BY <1>3, <1>4 DEF SharedInv

(* A step of p that touches only p's blocks does nothing to another block. *)
LEMMA OutsideFollows ==
  ASSUME SharedInv, NEW p \in Inspectors, OthersSame(p),
         NEW b \in Blocks, b \notin Span(p), b \notin Span(p)',
         summary'[b] = summary[b], last'[b] = last[b],
         \A j \in 1 .. NumTables : rows'[Tables[j]][b] = rows[Tables[j]][b]
  PROVE  LaterTablesFollow(b)' /\ SummaryFollows(b)'
<1>1. \A i \in 0 .. NumTables : Filled(i, b)' <=> Filled(i, b)
  <2>1. \A i \in 0 .. NumTables : i = 0 \/ i \in 1 .. NumTables
    BY TableFacts
  <2> QED
    BY <2>1 DEF Filled
<1>2. LaterTablesFollow(b) /\ SummaryFollows(b) /\ (Summed(b)' <=> Summed(b))
  BY DEF SharedInv, Summed
<1>3. LaterTablesFollow(b)'
  BY <1>1, <1>2, OthersGoOn DEF LaterTablesFollow
<1>4. SummaryFollows(b)'
  BY <1>1, <1>2, OthersGoOn, TableFacts DEF SummaryFollows
<1> QED
  BY <1>3, <1>4

LEMMA SharedOnDelete ==
  ASSUME SharedInv, TypeOK', NEW p \in Inspectors, DeleteTable(p)
  PROVE  SharedInv'
<1>0. PICK k \in 1 .. NumTables : k = job[p].tab
  BY DEF SharedInv, TypeOK
<1>1. /\ TypeOK /\ PendOK(p) /\ k \in 1 .. NumTables /\ Table(p) = Tables[k]
      /\ job[p].phase = "delete" /\ job[p].tab = k /\ NumTables \in Nat
      /\ \A j \in 1 .. NumTables : Tables[j] \in pend[p] => j = k - 1
  BY <1>0, PendFacts, TableFacts DEF SharedInv, Table, DeleteTable
<1>2. /\ OthersSame(p) /\ Span(p)' = Span(p) /\ UNCHANGED summary
      /\ job'[p].phase = "write" /\ job'[p].tab = k /\ pend'[p] = {}
      /\ \A b \in Blocks : last'[b] = IF k = 1 /\ b \in Span(p) THEN RunOf(p) ELSE last[b]
  BY <1>1 DEF DeleteTable, Goto, OthersSame, Span, TypeOK
<1>3. ASSUME NEW j \in 1 .. NumTables, NEW b \in Blocks
      PROVE  rows'[Tables[j]][b] =
               IF b \in Span(p)
                 THEN IF j = k THEN {}
                      ELSE IF Tables[j] \in pend[p]
                             THEN rows[Tables[j]][b] \cup {RunOf(p)}
                             ELSE rows[Tables[j]][b]
                 ELSE rows[Tables[j]][b]
  <2>1. /\ Tables[j] \in TableNames /\ (Tables[j] = Table(p) <=> j = k)
        /\ Table(p) \in TableNames
    BY <1>1, TableFacts
  <2>2. k # k - 1
    BY <1>1
  <2>3. Table(p) \notin pend[p]
    BY <1>1, <2>2
  <2> QED
    BY <1>1, <2>1, <2>3 DEF DeleteTable, Committed, Deleted, TypeOK
<1>4. /\ \A i \in 0 .. NumTables : Past(p, i) <=> i < k
      /\ \A i \in 0 .. NumTables : Past(p, i)' <=> i < k
      /\ \A j \in 1 .. NumTables : Owes(p, j) <=> k <= j \/ Tables[j] \in pend[p]
      /\ \A j \in 1 .. NumTables : Owes(p, j)' <=> k <= j
  BY <1>1, <1>2 DEF Past, Owes, SummaryPhases
<1>5. ASSUME NEW b \in Blocks, b \notin Span(p)
      PROVE  LaterTablesFollow(b)' /\ SummaryFollows(b)'
  BY <1>2, <1>3, <1>5, OutsideFollows
<1>6. ASSUME NEW b \in Blocks, b \in Span(p)
      PROVE  ~Filled(k, b)'
  <2>1. rows'[Tables[k]][b] = {}
    BY <1>3, <1>6
  <2>2. k # 0
    BY <1>1
  <2> QED
    BY <2>1, <2>2 DEF Filled
<1>7. ASSUME NEW b \in Span(p)
      PROVE  LaterTablesFollow(b)'
  <2>1. b \in Blocks /\ LaterTablesFollow(b)
    BY DEF SharedInv, Span
  <2>2. SUFFICES ASSUME NEW i \in 0 .. NumTables, NEW j \in 1 .. NumTables,
                        i <= j, Filled(i, b)', ~Filled(j, b)'
                 PROVE  \E q \in Inspectors : b \in Span(q)' /\ Past(q, i)' /\ Owes(q, j)'
    BY DEF LaterTablesFollow
  <2>3. CASE i < k /\ k <= j
    BY <1>2, <1>4, <2>3
  <2>4. CASE ~(i < k /\ k <= j)
    <3>1. i # k
      <4>1. ~Filled(k, b)'
        BY <1>6, <2>1
      <4> QED
        BY <2>2, <4>1
    <3>2. j # k
      BY <1>1, <2>2, <2>4, <3>1
    <3>3. ~Filled(j, b) /\ Tables[j] \notin pend[p]
      <4>1. j # 0 /\ rows'[Tables[j]][b] = {}
        BY <2>2 DEF Filled
      <4> QED
        BY <1>3, <2>1, <3>2, <4>1 DEF Filled
    <3>4. Filled(i, b)
      <4>1. CASE i = 0
        <5>1. k # 1
          BY <1>1, <2>2, <2>4, <4>1
        <5> QED
          BY <1>2, <2>1, <2>2, <4>1, <5>1 DEF Filled
      <4>2. CASE i # 0
        <5>1. i \in 1 .. NumTables
          BY <1>1, <4>2
        <5>2. Tables[i] \notin pend[p]
          <6>1. Tables[i] \in pend[p] => i = k - 1
            BY <1>1, <5>1
          <6>2. i = k - 1 => j = i
            BY <1>1, <2>2, <2>4, <3>2
          <6> QED
            BY <3>3, <6>1, <6>2
        <5> QED
          BY <1>3, <2>1, <2>2, <3>1, <4>2, <5>1, <5>2 DEF Filled
      <4> QED
        BY <4>1, <4>2
    <3>5. PICK q \in Inspectors : b \in Span(q) /\ Past(q, i) /\ Owes(q, j)
      BY <2>1, <2>2, <3>3, <3>4 DEF LaterTablesFollow
    <3>6. q # p
      BY <1>1, <1>4, <2>4, <3>3, <3>5
    <3> QED
      BY <1>2, <3>5, <3>6, OthersGoOn
  <2> QED
    BY <2>3, <2>4
<1>8. ASSUME NEW b \in Span(p)
      PROVE  SummaryFollows(b)'
  <2>1. b \in Blocks
    BY DEF Span
  <2> QED
    BY <1>1, <1>6, <2>1 DEF SummaryFollows
<1>9. \A q \in Inspectors : PendOK(q)'
  BY <1>2, OthersGoOn DEF SharedInv, PendOK
<1> QED
  BY <1>5, <1>7, <1>8, <1>9 DEF SharedInv, Span

LEMMA SharedOnWrite ==
  ASSUME SharedInv, TypeOK', NEW p \in Inspectors, WriteTable(p)
  PROVE  SharedInv'
<1>0. PICK k \in 1 .. NumTables : k = job[p].tab
  BY DEF SharedInv, TypeOK
<1>1. /\ TypeOK /\ PendOK(p) /\ k \in 1 .. NumTables /\ Table(p) = Tables[k]
      /\ job[p].phase = "write" /\ job[p].tab = k /\ NumTables \in Nat
      /\ pend[p] = {}
  BY <1>0, PendFacts, TableFacts DEF SharedInv, Table, WriteTable
<1>2. /\ OthersSame(p) /\ Span(p)' = Span(p) /\ UNCHANGED <<summary, last>>
      /\ job'[p].tab = IF k < NumTables THEN k + 1 ELSE k
      /\ job'[p].phase = IF k < NumTables THEN "delete" ELSE "summary_delete"
  BY <1>1 DEF WriteTable, NextTable, OthersSame, Span, TypeOK
<1>3. \/ pend'[p] = {Tables[k]} /\ UNCHANGED rows
      \/ /\ pend'[p] = {}
         /\ \A j \in 1 .. NumTables, b \in Blocks :
              rows'[Tables[j]][b] = IF b \in Span(p) /\ j = k
                                      THEN rows[Tables[j]][b] \cup {RunOf(p)}
                                      ELSE rows[Tables[j]][b]
  <2>1. \A j \in 1 .. NumTables : /\ Tables[j] \in TableNames
                                  /\ Tables[j] = Table(p) <=> j = k
    BY <1>1, TableFacts
  <2>2. CASE Table(p) \in Copied
    BY <1>1, <2>2 DEF WriteTable, TypeOK
  <2>3. CASE Table(p) \notin Copied
    <3>1. pend'[p] = {} /\ rows' = Committed(rows, p, {Table(p)})
      BY <1>1, <2>3 DEF WriteTable, TypeOK
    <3> QED
      BY <2>1, <3>1 DEF Committed
  <2> QED
    BY <2>2, <2>3
<1>4. /\ \A i \in 0 .. NumTables : Past(p, i) <=> i < k
      /\ \A i \in 0 .. NumTables : Past(p, i)' <=> i <= k
      /\ \A j \in 1 .. NumTables : Owes(p, j) <=> k <= j
      /\ \A j \in 1 .. NumTables : k < j => Owes(p, j)'
  <2>1. \A i \in 0 .. NumTables : Past(p, i)' <=> i <= k
    BY <1>1, <1>2 DEF Past, SummaryPhases
  <2>2. \A j \in 1 .. NumTables : k < j => Owes(p, j)'
    BY <1>1, <1>2 DEF Owes
  <2>3. \A i \in 0 .. NumTables : Past(p, i) <=> i < k
    BY <1>1 DEF Past, SummaryPhases
  <2>4. \A j \in 1 .. NumTables : Owes(p, j) <=> k <= j
    BY <1>1 DEF Owes
  <2> QED
    BY <2>1, <2>2, <2>3, <2>4
<1>5. ASSUME NEW b \in Blocks, b \notin Span(p)
      PROVE  LaterTablesFollow(b)' /\ SummaryFollows(b)'
  <2>1. \A j \in 1 .. NumTables : rows'[Tables[j]][b] = rows[Tables[j]][b]
    BY <1>3, <1>5
  <2> QED
    BY <1>2, <1>5, <2>1, OutsideFollows
<1>6. ASSUME NEW b \in Blocks, b \in Span(p)
      PROVE  /\ \A i \in 0 .. NumTables : i # k => (Filled(i, b)' <=> Filled(i, b))
             /\ Filled(k, b)' \/ Owes(p, k)'
  <2>1. \A i \in 0 .. NumTables : i = 0 \/ i \in 1 .. NumTables
    BY <1>1
  <2>2. \A i \in 0 .. NumTables : i # k => (Filled(i, b)' <=> Filled(i, b))
    BY <1>2, <1>3, <1>6, <2>1 DEF Filled
  <2>3. CASE pend'[p] = {Tables[k]} /\ UNCHANGED rows
    BY <1>1, <2>2, <2>3 DEF Filled, Owes
  <2>4. CASE /\ pend'[p] = {}
             /\ rows'[Tables[k]][b] = rows[Tables[k]][b] \cup {RunOf(p)}
    <3>1. k # 0
      BY <1>1
    <3>2. Filled(k, b)'
      BY <2>4, <3>1 DEF Filled
    <3> QED
      BY <2>2, <3>2
  <2> QED
    BY <1>3, <1>6, <2>3, <2>4
<1>7. ASSUME NEW b \in Span(p)
      PROVE  LaterTablesFollow(b)'
  <2>1. b \in Blocks /\ LaterTablesFollow(b)
    BY DEF SharedInv, Span
  <2>2. SUFFICES ASSUME NEW i \in 0 .. NumTables, NEW j \in 1 .. NumTables,
                        i <= j, Filled(i, b)', ~Filled(j, b)'
                 PROVE  \E q \in Inspectors : b \in Span(q)' /\ Past(q, i)' /\ Owes(q, j)'
    BY DEF LaterTablesFollow
  <2>3. CASE i <= k /\ k <= j
    <3>1. Owes(p, j)'
      <4>1. CASE j = k
        BY <1>6, <2>1, <2>2, <4>1
      <4>2. CASE j # k
        BY <1>1, <1>4, <2>3, <4>2
      <4> QED
        BY <4>1, <4>2
    <3> QED
      BY <1>2, <1>4, <2>3, <3>1
  <2>4. CASE ~(i <= k /\ k <= j)
    <3>1. i # k /\ j # k
      BY <1>1, <2>2, <2>4
    <3>2. Filled(i, b) /\ ~Filled(j, b)
      BY <1>6, <2>1, <2>2, <3>1
    <3>3. PICK q \in Inspectors : b \in Span(q) /\ Past(q, i) /\ Owes(q, j)
      BY <2>1, <2>2, <3>2 DEF LaterTablesFollow
    <3>4. q # p
      BY <1>1, <1>4, <2>4, <3>1, <3>3
    <3> QED
      BY <1>2, <3>3, <3>4, OthersGoOn
  <2> QED
    BY <2>3, <2>4
<1>8. ASSUME NEW b \in Span(p)
      PROVE  SummaryFollows(b)'
  <2>1. OwesSummary(p, b)'
    BY <1>2 DEF OwesSummary
  <2> QED
    BY <1>2, <2>1 DEF SummaryFollows
<1>9. PendOK(p)'
  <2>1. CASE k < NumTables
    <3>1. job'[p].phase = "delete" /\ job'[p].tab > 1 /\ job'[p].tab - 1 = k
      BY <1>1, <1>2, <2>1
    <3> QED
      BY <1>3, <3>1 DEF PendOK
  <2>2. CASE ~(k < NumTables)
    <3>1. job'[p].phase = "summary_delete" /\ k = NumTables
      BY <1>1, <1>2, <2>2
    <3> QED
      BY <1>3, <3>1 DEF PendOK
  <2> QED
    BY <2>1, <2>2
<1>10. \A q \in Inspectors : PendOK(q)'
  BY <1>2, <1>9, OthersGoOn DEF SharedInv
<1> QED
  BY <1>5, <1>7, <1>8, <1>10 DEF SharedInv, Span

(***************************************************************************)
(* An inspection that finds its key taken owes nothing that the one which  *)
(* took it, or one that followed that one, does not owe as well.           *)
(***************************************************************************)
LEMMA SharedOnConflict ==
  ASSUME SharedInv, TypeOK', NEW p \in Inspectors, Alike(p), WriteConflict(p)
  PROVE  SharedInv'
<1>0. PICK k \in 1 .. NumTables : k = job[p].tab
  BY DEF SharedInv, TypeOK
<1>1. /\ TypeOK /\ PendOK(p) /\ k \in 1 .. NumTables /\ Table(p) = Tables[k]
      /\ job[p].phase = "write" /\ job[p].tab = k /\ NumTables \in Nat
      /\ pend[p] = {}
  BY <1>0, PendFacts, TableFacts DEF SharedInv, Table, WriteConflict
<1>2. /\ OthersSame(p) /\ UNCHANGED <<rows, summary, last>> /\ pend'[p] = {}
  BY <1>1 DEF WriteConflict, Rollback, OthersSame, TypeOK
<1>3. /\ \A i \in 0 .. NumTables : Past(p, i) <=> i < k
      /\ \A j \in 1 .. NumTables : Owes(p, j) <=> k <= j
      /\ \A b \in Blocks : ~OwesSummary(p, b)
  BY <1>1 DEF Past, Owes, OwesSummary, SummaryPhases
<1>4. ASSUME NEW b \in Span(p)
      PROVE  Filled(k, b)
  <2>1. PICK c \in Span(p) : rows[Table(p)][c] # {}
    BY DEF WriteConflict, KeyTaken
  <2>2. Table(p) \in TableNames
    BY <1>1, TableFacts
  <2>3. rows[Table(p)][b] # {}
    BY <2>1, <2>2 DEF Alike
  <2>4. k # 0
    BY <1>1
  <2> QED
    BY <1>1, <2>3, <2>4 DEF Filled
<1>5. ASSUME NEW b \in Blocks
      PROVE  LaterTablesFollow(b)' /\ SummaryFollows(b)'
  <2>1. \A i \in 0 .. NumTables : Filled(i, b)' <=> Filled(i, b)
    BY <1>2 DEF Filled
  <2>2. LaterTablesFollow(b) /\ SummaryFollows(b) /\ (Summed(b)' <=> Summed(b))
    BY <1>2 DEF SharedInv, Summed
  <2>3. ASSUME NEW i \in 0 .. NumTables, NEW j \in 1 .. NumTables,
               i <= j, Filled(i, b), ~Filled(j, b)
        PROVE  \E q \in Inspectors \ {p} : b \in Span(q) /\ Past(q, i) /\ Owes(q, j)
    <3>1. PICK q \in Inspectors : b \in Span(q) /\ Past(q, i) /\ Owes(q, j)
      BY <2>2, <2>3 DEF LaterTablesFollow
    <3>2. CASE q = p
      <4>1. Filled(k, b) /\ k <= j /\ i < k /\ k \in 0 .. NumTables
        BY <1>1, <1>3, <1>4, <3>1, <3>2
      <4>2. PICK r \in Inspectors : b \in Span(r) /\ Past(r, k) /\ Owes(r, j)
        BY <2>2, <2>3, <4>1 DEF LaterTablesFollow
      <4>3. r # p
        BY <1>1, <1>3, <4>1, <4>2
      <4>4. Past(r, i)
        <5>1. job[r].tab \in Nat
          BY <1>1, TableFacts DEF TypeOK
        <5> QED
          BY <1>1, <4>1, <4>2, <5>1 DEF Past
      <4> QED
        BY <4>2, <4>3, <4>4
    <3> QED
      BY <3>1, <3>2
  <2>4. LaterTablesFollow(b)'
    BY <1>2, <2>1, <2>3, OthersGoOn DEF LaterTablesFollow
  <2>5. SummaryFollows(b)'
    BY <1>2, <1>3, <2>1, <2>2, OthersGoOn, TableFacts DEF SummaryFollows
  <2> QED
    BY <2>4, <2>5
<1>6. \A q \in Inspectors : PendOK(q)'
  BY <1>2, OthersGoOn DEF SharedInv, PendOK
<1> QED
  BY <1>5, <1>6 DEF SharedInv

LEMMA SharedOnSummaryDelete ==
  ASSUME SharedInv, TypeOK', NEW p \in Inspectors, SummaryDelete(p)
  PROVE  SharedInv'
<1>1. /\ TypeOK /\ PendOK(p) /\ NumTables \in Nat
      /\ job[p].phase = "summary_delete"
      /\ \A j \in 1 .. NumTables : Tables[j] \in pend[p] => j = NumTables
  BY PendFacts, TableFacts DEF SharedInv, SummaryDelete
<1>2. /\ OthersSame(p) /\ Span(p)' = Span(p) /\ UNCHANGED last
      /\ job'[p].phase = "summary_arbitrages" /\ pend'[p] = {}
      /\ \A b \in Blocks : b \notin Span(p) => summary'[b] = summary[b]
  BY <1>1 DEF SummaryDelete, SummaryCleared, Goto, OthersSame, Span, TypeOK
<1>3. \A j \in 1 .. NumTables, b \in Blocks :
        rows'[Tables[j]][b] = IF b \in Span(p) /\ Tables[j] \in pend[p]
                                THEN rows[Tables[j]][b] \cup {RunOf(p)}
                                ELSE rows[Tables[j]][b]
  BY TableFacts DEF SummaryDelete, Committed
<1>4. ASSUME NEW b \in Blocks, b \notin Span(p)
      PROVE  LaterTablesFollow(b)' /\ SummaryFollows(b)'
  <2>1. \A j \in 1 .. NumTables : rows'[Tables[j]][b] = rows[Tables[j]][b]
    BY <1>3, <1>4
  <2> QED
    BY <1>2, <1>4, <2>1, OutsideFollows
<1>5. ASSUME NEW b \in Span(p)
      PROVE  LaterTablesFollow(b)'
  <2>1. b \in Blocks /\ LaterTablesFollow(b)
    BY DEF SharedInv, Span
  <2>2. SUFFICES ASSUME NEW i \in 0 .. NumTables, NEW j \in 1 .. NumTables,
                        i <= j, Filled(i, b)', ~Filled(j, b)'
                 PROVE  \E q \in Inspectors : b \in Span(q)' /\ Past(q, i)' /\ Owes(q, j)'
    BY DEF LaterTablesFollow
  <2>3. Tables[j] \notin pend[p] /\ ~Filled(j, b)
    <3>1. j # 0 /\ rows'[Tables[j]][b] = {}
      BY <2>2 DEF Filled
    <3> QED
      BY <1>3, <2>1, <3>1 DEF Filled
  <2>4. Filled(i, b)
    <3>1. CASE i = 0
      BY <1>2, <2>2, <3>1 DEF Filled
    <3>2. CASE i # 0
      <4>1. i \in 1 .. NumTables
        BY <1>1, <3>2
      <4>2. Tables[i] \notin pend[p]
        <5>1. i = NumTables => j = i
          BY <1>1, <2>2
        <5> QED
          BY <1>1, <2>3, <4>1, <5>1
      <4> QED
        BY <1>3, <2>1, <2>2, <3>2, <4>1, <4>2 DEF Filled
    <3> QED
      BY <3>1, <3>2
  <2>5. PICK q \in Inspectors : b \in Span(q) /\ Past(q, i) /\ Owes(q, j)
    BY <2>1, <2>2, <2>3, <2>4 DEF LaterTablesFollow
  <2>6. q # p
    BY <1>1, <2>3, <2>5 DEF Owes
  <2> QED
    BY <1>2, <2>5, <2>6, OthersGoOn
<1>6. ASSUME NEW b \in Span(p)
      PROVE  SummaryFollows(b)'
  <2>1. OwesSummary(p, b)'
    BY <1>2 DEF OwesSummary
  <2> QED
    BY <1>2, <2>1 DEF SummaryFollows
<1>7. \A q \in Inspectors : PendOK(q)'
  BY <1>2, OthersGoOn DEF SharedInv, PendOK
<1> QED
  BY <1>4, <1>5, <1>6, <1>7 DEF SharedInv, Span

(* When all tables have rows of b, the joins of the summary find them. *)
LEMMA FullTablesAreJoined ==
  ASSUME TypeOK, NEW p \in Inspectors, NEW b \in Span(p),
         \A i \in 1 .. NumTables : Filled(i, b)
  PROVE  /\ b \notin SandwichLegs => HasType(ArbitrageSummary(p, b), "arbitrage")
         /\ HasType(LiquidationSummary(p, b), "liquidation")
<1>1. \A t \in TableNames : rows[t][b] # {}
  <2>1. ASSUME NEW t \in TableNames
        PROVE  rows[t][b] # {}
    <3>1. PICK i \in 1 .. NumTables : t = Tables[i]
      BY DEF TableNames
    <3>2. Filled(i, b) /\ i # 0
      BY TableFacts
    <3> QED
      BY <3>1, <3>2 DEF Filled
  <2> QED
    BY <2>1
<1>2. JoinFinds(b)
  BY <1>1, TableFacts DEF JoinFinds
<1>3. rows["arbitrages"][b] # {} /\ rows["liquidations"][b] # {}
  BY <1>1, TableFacts DEF Summarised
<1>4. b \notin SandwichLegs => HasType(ArbitrageSummary(p, b), "arbitrage")
  <2>1. PICK r \in rows["arbitrages"][b] : TRUE
    BY <1>3
  <2> DEFINE s == [type |-> "arbitrage", from |-> r, by |-> RunOf(p)]
  <2>2. s.type = "arbitrage" /\ (b \notin SandwichLegs => s \in ArbitrageSummary(p, b))
    BY <1>2, <2>1 DEF ArbitrageSummary
  <2> QED
    BY <2>2 DEF HasType
<1>5. HasType(LiquidationSummary(p, b), "liquidation")
  <2>1. PICK r \in rows["liquidations"][b] : TRUE
    BY <1>3
  <2> DEFINE s == [type |-> "liquidation", from |-> r, by |-> RunOf(p)]
  <2>2. s.type = "liquidation" /\ s \in LiquidationSummary(p, b)
    BY <1>2, <2>1 DEF LiquidationSummary
  <2> QED
    BY <2>2 DEF HasType
<1> QED
  BY <1>4, <1>5

LEMMA SharedOnSummaryArbitrages ==
  ASSUME SharedInv, TypeOK', NEW p \in Inspectors, SummaryArbitrages(p)
  PROVE  SharedInv'
<1>1. /\ TypeOK /\ PendOK(p) /\ job[p].phase = "summary_arbitrages" /\ pend[p] = {}
  BY PendFacts DEF SharedInv, SummaryArbitrages
<1>2. /\ OthersSame(p) /\ Span(p)' = Span(p)
      /\ UNCHANGED <<rows, pend, summary, last>>
      /\ job'[p].phase = "summary_liquidations"
      /\ \A b \in Blocks : pendSummary'[p][b] = ArbitrageSummary(p, b)
  BY <1>1 DEF SummaryArbitrages, Goto, OthersSame, Span, TypeOK
<1>3. ASSUME NEW b \in Blocks
      PROVE  LaterTablesFollow(b)' /\ SummaryFollows(b)'
  <2>1. /\ \A i \in 0 .. NumTables : Filled(i, b)' <=> Filled(i, b)
        /\ LaterTablesFollow(b) /\ SummaryFollows(b) /\ (Summed(b)' <=> Summed(b))
    BY <1>2 DEF Filled, SharedInv, Summed
  <2>2. \A j \in 1 .. NumTables : ~Owes(p, j)
    BY <1>1 DEF Owes
  <2>3. LaterTablesFollow(b)'
    <3>1. ASSUME NEW i \in 0 .. NumTables, NEW j \in 1 .. NumTables,
                 i <= j, Filled(i, b), ~Filled(j, b)
          PROVE  \E q \in Inspectors : b \in Span(q)' /\ Past(q, i)' /\ Owes(q, j)'
      <4>1. PICK q \in Inspectors : b \in Span(q) /\ Past(q, i) /\ Owes(q, j)
        BY <2>1, <3>1 DEF LaterTablesFollow
      <4> QED
        BY <1>2, <2>2, <4>1, OthersGoOn
    <3> QED
      BY <2>1, <3>1 DEF LaterTablesFollow
  <2>4. SummaryFollows(b)'
    <3>1. ASSUME \A i \in 1 .. NumTables : Filled(i, b), b \in Span(p)
          PROVE  OwesSummary(p, b)'
      <4>1. b \notin SandwichLegs => HasType(ArbitrageSummary(p, b), "arbitrage")
        BY <1>1, <3>1, FullTablesAreJoined
      <4> QED
        BY <1>2, <4>1 DEF OwesSummary, HasType
    <3> QED
      BY <1>2, <2>1, <3>1, OthersGoOn, TableFacts DEF SummaryFollows
  <2> QED
    BY <2>3, <2>4
<1>4. PendOK(p)'
  BY <1>1, <1>2 DEF PendOK
<1>5. \A q \in Inspectors : PendOK(q)'
  BY <1>2, <1>4, OthersGoOn DEF SharedInv
<1> QED
  BY <1>3, <1>5 DEF SharedInv

LEMMA SharedOnSummaryLiquidations ==
  ASSUME SharedInv, TypeOK', NEW p \in Inspectors, SummaryLiquidations(p)
  PROVE  SharedInv'
<1>1. /\ TypeOK /\ PendOK(p) /\ job[p].phase = "summary_liquidations" /\ pend[p] = {}
  BY PendFacts DEF SharedInv, SummaryLiquidations
<1>2. /\ OthersSame(p) /\ UNCHANGED <<rows, pend, last>>
      /\ \A b \in Blocks : summary'[b] = summary[b] \cup pendSummary[p][b]
                                           \cup LiquidationSummary(p, b)
  BY <1>1 DEF SummaryLiquidations, OthersSame, TypeOK
<1>3. ASSUME NEW b \in Blocks
      PROVE  LaterTablesFollow(b)' /\ SummaryFollows(b)'
  <2>1. /\ \A i \in 0 .. NumTables : Filled(i, b)' <=> Filled(i, b)
        /\ LaterTablesFollow(b) /\ SummaryFollows(b)
    BY <1>2 DEF Filled, SharedInv
  <2>2. \A j \in 1 .. NumTables : ~Owes(p, j)
    BY <1>1 DEF Owes
  <2>3. LaterTablesFollow(b)'
    BY <2>1, <2>2, OthersGoOn, <1>2 DEF LaterTablesFollow
  <2>4. Summed(b) => Summed(b)'
    BY <1>2 DEF Summed, HasType
  <2>5. ASSUME \A i \in 1 .. NumTables : Filled(i, b), b \in Span(p), OwesSummary(p, b)
        PROVE  Summed(b)'
    <3>1. HasType(LiquidationSummary(p, b), "liquidation")
      BY <1>1, <2>5, FullTablesAreJoined
    <3>2. b \notin SandwichLegs => HasType(pendSummary[p][b], "arbitrage")
      BY <1>1, <2>5 DEF OwesSummary
    <3> QED
      BY <1>2, <3>1, <3>2 DEF Summed, HasType
  <2>6. SummaryFollows(b)'
    BY <1>2, <2>1, <2>4, <2>5, OthersGoOn, TableFacts DEF SummaryFollows
  <2> QED
    BY <2>3, <2>6
<1>4. PendOK(p)'
  BY <1>1, <1>2 DEF PendOK
<1>5. \A q \in Inspectors : PendOK(q)'
  BY <1>2, <1>4, OthersGoOn DEF SharedInv
<1> QED
  BY <1>3, <1>5 DEF SharedInv

LEMMA TypeBegin ==
  ASSUME TypeOK, NEW p \in Inspectors, NEW a \in Nat, NEW z \in Nat, Begin(p, a, z)
  PROVE  TypeOK'
<1>1. job' \in [Inspectors -> [phase : Phases, run : Nat, after : Nat,
                  before : Nat, next : Nat, tab : 1 .. NumTables]]
  BY TableFacts DEF Begin, TypeOK, Phases
<1> QED
  BY <1>1 DEF Begin, TypeOK

(***************************************************************************)
(* An inspection begins, goes on, or leaves while it still reads.          *)
(***************************************************************************)
LEMMA SharedStep ==
  ASSUME SharedInv, NEW p \in Inspectors, Active(p) => Alike(p),
         \/ Proceed(p)
         \/ \E a, z \in Nat : Begin(p, a, z)
         \/ /\ job[p].phase \in {"idle", "fetch"} /\ Rollback(p)
            /\ UNCHANGED <<rows, summary, runs, last, done>>
  PROVE  SharedInv'
<1>1. ASSUME NEW a \in Nat, NEW z \in Nat, Begin(p, a, z)
      PROVE  SharedInv'
  <2>1. TypeOK'
    BY <1>1, TypeBegin DEF SharedInv
  <2>2. job[p].phase = "idle" /\ UNCHANGED <<rows, pend, summary, last>> /\ OthersSame(p)
    BY <1>1 DEF Begin, Active, OthersSame, SharedInv, TypeOK
  <2>3. pend[p] = {}
    BY <2>2, PendFacts DEF SharedInv
  <2> QED
    BY <2>1, <2>2, <2>3, SharedKeptByIdle
<1>2. CASE FetchBlock(p)
  <2>1. TypeOK'
    BY <1>2, TypeProceed DEF SharedInv, Proceed
  <2>2. job[p].phase = "fetch" /\ UNCHANGED <<rows, pend, summary, last>> /\ OthersSame(p)
    BY <1>2 DEF FetchBlock, OthersSame, SharedInv, TypeOK
  <2>3. pend[p] = {}
    BY <2>2, PendFacts DEF SharedInv
  <2> QED
    BY <2>1, <2>2, <2>3, SharedKeptByIdle
<1>3. CASE /\ job[p].phase \in {"idle", "fetch"} /\ Rollback(p)
           /\ UNCHANGED <<rows, summary, runs, last, done>>
  <2>1. TypeOK'
    BY <1>3, TypeRollback DEF SharedInv
  <2>2. pend'[p] = {} /\ OthersSame(p)
    BY <1>3 DEF Rollback, OthersSame, SharedInv, TypeOK
  <2> QED
    BY <1>3, <2>1, <2>2, SharedKeptByIdle
<1>4. CASE Proceed(p)
  <2>1. TypeOK'
    BY <1>4, TypeProceed DEF SharedInv
  <2> QED
    BY <1>2, <1>4, <2>1, SharedOnDelete, SharedOnWrite, SharedOnConflict,
       SharedOnSummaryDelete, SharedOnSummaryArbitrages, SharedOnSummaryLiquidations
       DEF Proceed, WriteConflict, Active
<1> QED
  BY <1>1, <1>3, <1>4

LEMMA SharedStutter ==
  ASSUME SharedInv, UNCHANGED storeVars
  PROVE  SharedInv'
<1>1. UNCHANGED <<rows, pend, summary, pendSummary, job, runs, last, done>>
  BY DEF storeVars
<1>2. TypeOK' /\ \A p \in Inspectors : PendOK(p)'
  BY <1>1 DEF SharedInv, TypeOK, PendOK
<1>3. ASSUME NEW b \in Blocks
      PROVE  LaterTablesFollow(b)' /\ SummaryFollows(b)'
  <2>1. LaterTablesFollow(b) /\ SummaryFollows(b)
    BY DEF SharedInv
  <2>2. LaterTablesFollow(b)'
    BY <1>1, <2>1 DEF LaterTablesFollow, Filled, Past, Owes, Span
  <2>3. SummaryFollows(b)'
    BY <1>1, <2>1 DEF SummaryFollows, Filled, Summed, OwesSummary, Span
  <2> QED
    BY <2>2, <2>3
<1> QED
  BY <1>2, <1>3 DEF SharedInv

(* A block that was touched and that nobody works on has all its rows. *)
LEMMA LeftAlone ==
  ASSUME SharedInv, NEW b \in Blocks, last[b] # 0,
         \A p \in Inspectors : Active(p) => b \notin Span(p)
  PROVE  /\ \A t \in TableNames : rows[t][b] # {}
         /\ Summed(b)
<1>1. ASSUME NEW p \in Inspectors, b \in Span(p)
      PROVE  ~OwesSummary(p, b) /\ \A i \in 0 .. NumTables : ~Past(p, i)
  BY <1>1 DEF Active, OwesSummary, Past, SummaryPhases
<1>2. \A j \in 1 .. NumTables : Filled(j, b)
  <2>1. 0 \in 0 .. NumTables /\ Filled(0, b) /\ \A j \in 1 .. NumTables : 0 <= j
    BY TableFacts DEF Filled
  <2> QED
    BY <1>1, <2>1 DEF SharedInv, LaterTablesFollow
<1>3. Summed(b)
  BY <1>1, <1>2 DEF SharedInv, SummaryFollows
<1>4. ASSUME NEW t \in TableNames
      PROVE  rows[t][b] # {}
  <2>1. PICK j \in 1 .. NumTables : t = Tables[j]
    BY DEF TableNames
  <2>2. j # 0
    BY TableFacts
  <2> QED
    BY <1>2, <2>1, <2>2 DEF Filled
<1> QED
  BY <1>3, <1>4

LEMMA SummedMeans ==
  ASSUME NEW b \in Blocks, Summed(b)
  PROVE  {s.type : s \in ExpectedSummary(b, 0)} \subseteq {s.type : s \in summary[b]}
<1>1. ASSUME NEW s \in ExpectedSummary(b, 0)
      PROVE  \E r \in summary[b] : r.type = s.type
  BY <1>1 DEF ExpectedSummary, ExpectedArbitrages, Summed, HasType
<1> QED
  BY <1>1

(***************************************************************************)
(* Repeated inspections of the whole range: what is stored of the blocks   *)
(* is alike, because every step is about all of them.                      *)
(***************************************************************************)
WholeRange ==
  /\ \A p \in Inspectors : Active(p) => Span(p) = Blocks
  /\ \A t \in TableNames : \A b, c \in Blocks : rows[t][b] = {} => rows[t][c] = {}

LEMMA WholeRangeStep ==
  ASSUME SharedInv, WholeRange, NEW p \in Inspectors, RepeatStep(p)
  PROVE  WholeRange'
<1>1. TypeOK /\ PendOK(p) /\ MaxBlock \in Nat
  BY BlockAssumption DEF SharedInv
<1>2. CASE Begin(p, 1, MaxBlock + 1)
  <2>1. UNCHANGED rows /\ \A q \in Inspectors \ {p} : job'[q] = job[q]
    BY <1>1, <1>2 DEF Begin, TypeOK
  <2>2. Span(p)' = Blocks
    BY <1>1, <1>2 DEF Begin, TypeOK, Span, Blocks
  <2> QED
    BY <2>1, <2>2 DEF WholeRange, Active, Span
<1>3. CASE Proceed(p)
  <2>1. Active(p) /\ Span(p) = Blocks
    BY <1>3 DEF Proceed, Active, FetchBlock, DeleteTable, WriteTable, WriteConflict,
                SummaryDelete, SummaryArbitrages, SummaryLiquidations, WholeRange
  <2>2. /\ \A q \in Inspectors \ {p} : job'[q] = job[q]
        /\ Span(p)' = Span(p) \/ ~Active(p)'
    <3>1. CASE FetchBlock(p) \/ WriteTable(p)
      <4>1. /\ \A q \in Inspectors \ {p} : job'[q] = job[q]
            /\ job'[p].after = job[p].after /\ job'[p].before = job[p].before
        <5>1. CASE FetchBlock(p)
          BY <1>1, <5>1 DEF FetchBlock, TypeOK
        <5>2. CASE WriteTable(p)
          BY <1>1, <5>2 DEF WriteTable, NextTable, TypeOK
        <5> QED
          BY <3>1, <5>1, <5>2
      <4> QED
        BY <4>1 DEF Span
    <3>2. ASSUME NEW phase, Goto(p, phase)
          PROVE  /\ \A q \in Inspectors \ {p} : job'[q] = job[q]
                 /\ Span(p)' = Span(p) \/ ~Active(p)'
      BY <1>1, <3>2 DEF Goto, Span, TypeOK
    <3>3. CASE job' = [job EXCEPT ![p] = NoJob]
      BY <1>1, <3>3 DEF NoJob, Active, TypeOK
    <3> QED
      BY <1>3, <3>1, <3>2, <3>3
         DEF Proceed, DeleteTable, WriteConflict, Rollback, SummaryDelete,
             SummaryArbitrages, SummaryLiquidations
  <2>3. \A q \in Inspectors : Active(q)' => Span(q)' = Blocks
    BY <2>1, <2>2 DEF WholeRange, Active, Span
  <2>4. ASSUME NEW t \in TableNames, NEW b \in Blocks, NEW c \in Blocks,
               rows'[t][b] = {}
        PROVE  rows'[t][c] = {}
    <3>1. CASE UNCHANGED rows
      BY <2>4, <3>1 DEF WholeRange
    <3>2. ASSUME NEW ts, rows' = Committed(rows, p, ts)
          PROVE  rows'[t][c] = {}
      BY <2>1, <2>4, <3>2 DEF WholeRange, Committed
    <3>3. CASE rows' = Committed(Deleted(rows, p, Table(p)), p, pend[p])
      BY <1>1, <2>1, <2>4, <3>3 DEF WholeRange, Committed, Deleted, TypeOK
    <3> QED
      BY <1>3, <3>1, <3>2, <3>3
         DEF Proceed, FetchBlock, DeleteTable, WriteTable, WriteConflict,
             SummaryDelete, SummaryArbitrages, SummaryLiquidations
  <2> QED
    BY <2>3, <2>4 DEF WholeRange
<1> QED
  BY <1>2, <1>3 DEF RepeatStep

LEMMA SharedInit == InitStore => SharedInv /\ WholeRange
<1> SUFFICES ASSUME InitStore
             PROVE  SharedInv /\ WholeRange
  OBVIOUS
<1>1. TypeOK /\ \A p \in Inspectors : PendOK(p)
  BY TypeInit DEF InitStore, PendOK
<1>2. ASSUME NEW b \in Blocks
      PROVE  \A i \in 0 .. NumTables : ~Filled(i, b)
  <2>1. \A i \in 0 .. NumTables : i = 0 \/ Tables[i] \in TableNames
    BY TableFacts
  <2> QED
    BY <2>1 DEF InitStore, NoRows, Filled
<1>3. ASSUME NEW b \in Blocks
      PROVE  LaterTablesFollow(b) /\ SummaryFollows(b)
  <2>1. 1 \in 1 .. NumTables /\ 1 \in 0 .. NumTables
    BY TableFacts
  <2> QED
    BY <1>2, <2>1 DEF LaterTablesFollow, SummaryFollows
<1>4. WholeRange
  BY DEF InitStore, WholeRange, Active, NoJob, NoRows
<1> QED
  BY <1>1, <1>3, <1>4 DEF SharedInv

(***************************************************************************)
(* However inspections of one range run into each other, when all have     *)
(* ended every table and both halves of the summary have rows of it.       *)
(***************************************************************************)
THEOREM RepeatsLoseNothing == RepeatSpec => []CollisionsLoseNothing
<1>1. SharedInv /\ WholeRange /\ [RepeatNext]_storeVars => (SharedInv /\ WholeRange)'
  <2> SUFFICES ASSUME SharedInv, WholeRange, [RepeatNext]_storeVars
               PROVE  (SharedInv /\ WholeRange)'
    OBVIOUS
  <2>1. ASSUME NEW p \in Inspectors, RepeatStep(p)
        PROVE  (SharedInv /\ WholeRange)'
    <3>1. Alike(p)
      BY DEF WholeRange, Alike, Span
    <3>2. Proceed(p) \/ \E a, z \in Nat : Begin(p, a, z)
      <4>1. 1 \in Nat /\ MaxBlock + 1 \in Nat
        BY BlockAssumption
      <4> QED
        BY <2>1, <4>1 DEF RepeatStep
    <3> QED
      BY <2>1, <3>1, <3>2, SharedStep, WholeRangeStep
  <2>2. CASE UNCHANGED storeVars
    <3>1. SharedInv'
      BY <2>2, SharedStutter
    <3>2. WholeRange'
      BY <2>2 DEF storeVars, WholeRange, Active, Span
    <3> QED
      BY <3>1, <3>2
  <2> QED
    BY <2>1, <2>2 DEF RepeatNext, AllEnded
<1>2. SharedInv => CollisionsLoseNothing
  BY LeftAlone, SummedMeans DEF CollisionsLoseNothing, Quiet
<1> QED
  BY <1>1, <1>2, SharedInit, PTL DEF RepeatSpec
=============================================================================
