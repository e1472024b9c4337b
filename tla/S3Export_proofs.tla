--------------------------- MODULE S3Export_proofs ---------------------------
(***************************************************************************)
(* Proofs about S3Export, for any tables, versions, requests and failures. *)
(***************************************************************************)
EXTENDS S3Export, TLAPS

(***************************************************************************)
(* What an export knows: it starts at the first table, it asks for the     *)
(* object only when it has found no rows, and if the rows it has found are *)
(* no longer those of the table, another export is queued.                 *)
(***************************************************************************)
Knows(e) ==
  /\ At(e, "idle") => export[e].tab = 1
  /\ At(e, "check") => export[e].found = 0
  /\ ~Rewriting =>
       \/ At(e, "idle") \/ At(e, "select")
       \/ export[e].found = rows[Table(e)]
       \/ messages > 0

(* DisagreementIsPending, if e is the only exporter. *)
Pending(e) ==
  ~Rewriting =>
    \A t \in TableSet : Agrees(t) \/ messages > 0 \/ StillToSee(e, t)

ExportInv ==
  /\ ExportTypeOK
  /\ \A e \in Exporters : Knows(e)
  /\ DisagreementIsPending

OneExporter == \A e, f \in Exporters : e = f

-----------------------------------------------------------------------------
LEMMA TableIsTable ==
  ASSUME NEW i \in 1 .. Len(Tables)
  PROVE  Tables[i] \in TableSet
BY DEF TableSet

LEMMA RewrittenIsTable ==
  ASSUME NEW i \in 1 .. Len(Rewritten)
  PROVE  Rewritten[i] \in TableSet
BY ExportAssumption

LEMMA InitTypeCorrect == Init => ExportTypeOK
BY ExportAssumption DEF Init, ExportTypeOK, Idle, NoRewrite, Missing

LEMMA Lengths ==
  /\ Len(Tables) \in Nat \ {0} /\ Len(Rewritten) = Len(Tables)
  /\ MaxVersion \in Nat
BY ExportAssumption

LEMMA RewriteKeepsType ==
  ASSUME ExportTypeOK, NEW full \in SUBSET TableSet,
         BeginRewrite(full) \/ InterruptRewrite(full)
  PROVE  ExportTypeOK'
<1>1. /\ version < MaxVersion /\ version' = version + 1
      /\ writer' = [next |-> 1, full |-> full, cleared |-> FALSE]
      /\ UNCHANGED <<rows, messages, export, object, requests, fails>>
  BY DEF BeginRewrite, InterruptRewrite, exportVars
<1>2. version' \in 0 .. MaxVersion /\ 0 .. version \subseteq 0 .. version'
  BY <1>1, Lengths DEF ExportTypeOK
<1>3. rows' \in [TableSet -> 0 .. version']
  BY <1>1, <1>2 DEF ExportTypeOK
<1>4. object' \in [TableSet -> (0 .. version') \cup {Missing}]
  BY <1>1, <1>2 DEF ExportTypeOK
<1>5. writer' \in [next : 0 .. Len(Rewritten), full : SUBSET TableSet,
                   cleared : BOOLEAN]
  BY <1>1, Lengths
<1>6. export' \in [Exporters -> [step : {"idle", "select", "check", "delete",
                                        "upload"},
                                tab : 1 .. Len(Tables), found : 0 .. version']]
  BY <1>1, <1>2 DEF ExportTypeOK
<1> QED
  BY <1>1, <1>2, <1>3, <1>4, <1>5, <1>6 DEF ExportTypeOK

LEMMA TablesKeepType ==
  ASSUME ExportTypeOK, ClearTable \/ FillTable
  PROVE  ExportTypeOK'
<1>1. Rewritten[writer.next] \in TableSet
  BY RewrittenIsTable, Lengths DEF ExportTypeOK, ClearTable, FillTable, Rewriting
<1>2. UNCHANGED <<version, export, object, requests, fails>>
  BY DEF ClearTable, FillTable, exportVars
<1>3. writer' \in [next : 0 .. Len(Rewritten), full : SUBSET TableSet,
                   cleared : BOOLEAN]
  <2>1. CASE ClearTable
    BY <2>1 DEF ExportTypeOK, ClearTable
  <2>2. CASE FillTable
    <3>1. CASE writer.next = Len(Rewritten)
      BY <2>2, <3>1, Lengths DEF FillTable, NoRewrite
    <3>2. CASE writer.next # Len(Rewritten)
      <4>1. writer' = [writer EXCEPT !.next = @ + 1, !.cleared = FALSE]
        BY <2>2, <3>2 DEF FillTable
      <4>2. writer.next + 1 \in 0 .. Len(Rewritten)
        BY <3>2, Lengths DEF ExportTypeOK
      <4> QED
        BY <4>1, <4>2 DEF ExportTypeOK
    <3> QED
      BY <3>1, <3>2
  <2> QED
    BY <2>1, <2>2
<1>4. rows' \in [TableSet -> 0 .. version]
  <2>1. CASE ClearTable
    BY <1>1, <2>1, Lengths DEF ExportTypeOK, ClearTable
  <2>2. CASE FillTable
    <3>1. \E v \in 0 .. version : rows' = [rows EXCEPT ![Rewritten[writer.next]] = v]
      <4>1. version \in 0 .. version /\ 0 \in 0 .. version
        BY Lengths DEF ExportTypeOK
      <4>2. rows' = [rows EXCEPT ![Rewritten[writer.next]] =
                       IF Rewritten[writer.next] \in writer.full THEN version ELSE 0]
        BY <2>2 DEF FillTable
      <4> QED
        BY <4>1, <4>2
    <3> QED
      BY <1>1, <3>1 DEF ExportTypeOK
  <2> QED
    BY <2>1, <2>2
<1>5. messages' \in Nat
  BY DEF ExportTypeOK, ClearTable, FillTable
<1> QED
  BY <1>2, <1>3, <1>4, <1>5 DEF ExportTypeOK, Missing

LEMMA ExporterKeepsType ==
  ASSUME ExportTypeOK, NEW e \in Exporters, ExportStep(e) \/ ExportFails(e)
  PROVE  ExportTypeOK'
<1> DEFINE Export == [step : {"idle", "select", "check", "delete", "upload"},
                      tab : 1 .. Len(Tables), found : 0 .. version]
<1>1. /\ export[e] \in Export /\ Table(e) \in TableSet
      /\ rows[Table(e)] \in 0 .. version /\ Idle \in Export
  BY TableIsTable, Lengths DEF Table, ExportTypeOK, Idle
<1>2. UNCHANGED <<rows, writer, version, requests>>
  BY DEF ExportStep, TakeExport, Select, CheckSize, DeleteObject, Upload,
         ExportFails, dbVars
<1>3. messages' \in Nat /\ fails' \in Nat
  BY DEF ExportStep, TakeExport, Select, CheckSize, DeleteObject, Upload,
         ExportFails, ExportTypeOK
<1>4. \A s \in {"idle", "select", "check", "delete", "upload"} :
        [export[e] EXCEPT !.step = s] \in Export
  BY <1>1
<1>5. NextTable(e) => export' \in [Exporters -> Export]
  <2>1. export[e].tab < Len(Tables) =>
          [step |-> "select", tab |-> export[e].tab + 1, found |-> 0] \in Export
    BY <1>1, Lengths DEF ExportTypeOK
  <2>2. NextTable(e) =>
          \E x \in Export : export' = [export EXCEPT ![e] = x]
    BY <1>1, <2>1 DEF NextTable
  <2> QED
    BY <2>2 DEF ExportTypeOK
<1>6. export' \in [Exporters -> Export]
  <2>1. CASE TakeExport(e)
    <3>1. export' = [export EXCEPT ![e] = [export[e] EXCEPT !.step = "select"]]
      BY <2>1 DEF TakeExport
    <3> QED
      BY <1>4, <3>1 DEF ExportTypeOK
  <2>2. CASE Select(e)
    <3>1. PICK s \in {"check", "delete"} :
            s = IF rows[Table(e)] = 0 THEN "check" ELSE "delete"
      OBVIOUS
    <3> DEFINE x == [export[e] EXCEPT !.found = rows[Table(e)], !.step = s]
    <3>2. export' = [export EXCEPT ![e] = x]
      BY <2>2, <3>1 DEF Select
    <3>3. x \in Export
      BY <1>1
    <3> HIDE DEF x
    <3> QED
      BY <3>2, <3>3 DEF ExportTypeOK
  <2>3. CASE CheckSize(e)
    <3>1. CASE NextTable(e)
      BY <1>5, <3>1
    <3>2. CASE export' = [export EXCEPT ![e] = [export[e] EXCEPT !.step = "delete"]]
      BY <1>4, <3>2 DEF ExportTypeOK
    <3> QED
      BY <2>3, <3>1, <3>2 DEF CheckSize
  <2>4. CASE DeleteObject(e)
    <3>1. export' = [export EXCEPT ![e] = [export[e] EXCEPT !.step = "upload"]]
      BY <2>4 DEF DeleteObject
    <3> QED
      BY <1>4, <3>1 DEF ExportTypeOK
  <2>5. CASE Upload(e)
    BY <1>5, <2>5 DEF Upload
  <2>6. CASE ExportFails(e)
    BY <1>1, <2>6 DEF ExportFails, ExportTypeOK
  <2> QED
    BY <2>1, <2>2, <2>3, <2>4, <2>5, <2>6 DEF ExportStep
<1>7. object' \in [TableSet -> (0 .. version) \cup {Missing}]
  BY <1>1 DEF ExportStep, TakeExport, Select, CheckSize, DeleteObject, Upload,
              ExportFails, ExportTypeOK
<1> QED
  BY <1>2, <1>3, <1>6, <1>7 DEF ExportTypeOK, Missing

LEMMA NextKeepsType ==
  ASSUME ExportTypeOK, [Next]_vars
  PROVE  ExportTypeOK'
<1>1. CASE ListenerStep
  BY <1>1, RewriteKeepsType, TablesKeepType DEF ListenerStep
<1>2. CASE RequestExport
  BY <1>2 DEF RequestExport, ExportTypeOK
<1>3. CASE \E e \in Exporters : ExportStep(e) \/ ExportFails(e)
  BY <1>3, ExporterKeepsType
<1>4. CASE UNCHANGED vars
  BY <1>4 DEF vars, ExportTypeOK
<1> QED
  BY <1>1, <1>2, <1>3, <1>4 DEF Next

(***************************************************************************)
(* The variables of export_block and of the rewrites keep their types.     *)
(***************************************************************************)
THEOREM ExportTypeCorrect == Spec => []ExportTypeOK
<1>1. Init => ExportTypeOK
  BY InitTypeCorrect
<1>2. ExportTypeOK /\ [Next]_vars => ExportTypeOK'
  BY NextKeepsType
<1> QED
  BY <1>1, <1>2, PTL DEF Spec

-----------------------------------------------------------------------------
(***************************************************************************)
(* The last table done, an export is queued; before that, the block is     *)
(* being rewritten.                                                        *)
(***************************************************************************)
LEMMA ListenerKeepsInv ==
  ASSUME ExportInv, ListenerStep
  PROVE  Rewriting' \/ messages' > 0
<1>1. CASE ClearTable
  BY <1>1 DEF ClearTable, Rewriting, ExportInv, ExportTypeOK
<1>2. CASE FillTable
  BY <1>2, Lengths DEF FillTable, Rewriting, ExportInv, ExportTypeOK
<1> QED
  BY <1>1, <1>2 DEF ListenerStep, BeginRewrite, InterruptRewrite, Rewriting

(* What an exporter's step leaves as it is. *)
LEMMA ExporterFrame ==
  ASSUME NEW e \in Exporters, ExportStep(e) \/ ExportFails(e)
  PROVE  UNCHANGED <<rows, writer, version>> /\ Rewriting' = Rewriting
BY DEF ExportStep, TakeExport, Select, CheckSize, DeleteObject, Upload,
       ExportFails, dbVars, Rewriting

(***************************************************************************)
(* The next table is still to see, and so are those behind it.             *)
(***************************************************************************)
LEMMA NextTableSees ==
  ASSUME ExportTypeOK, NEW e \in Exporters, NextTable(e), ~At(e, "idle"), Knows(e)
  PROVE  /\ Knows(e)'
         /\ \A t \in TableSet :
              t # Table(e) /\ StillToSee(e, t) => StillToSee(e, t)'
<1>1. export[e].tab \in 1 .. Len(Tables)
  BY DEF ExportTypeOK
<1>2. CASE export[e].tab < Len(Tables)
  <2>1. export'[e] = [step |-> "select", tab |-> export[e].tab + 1, found |-> 0]
    BY <1>2 DEF NextTable, ExportTypeOK
  <2>2. Knows(e)'
    BY <2>1 DEF Knows, At
  <2>3. ASSUME NEW t \in TableSet, t # Table(e), StillToSee(e, t)
        PROVE  StillToSee(e, t)'
    <3>1. PICK i \in export[e].tab .. Len(Tables) : Tables[i] = t
      BY <2>3 DEF StillToSee
    <3>2. i \in export[e].tab + 1 .. Len(Tables)
      BY <1>1, <2>3, <3>1, Lengths DEF Table
    <3>3. export'[e].tab = export[e].tab + 1 /\ export'[e].step = "select"
      BY <2>1
    <3>4. i > export[e].tab + 1 \/ i = export[e].tab + 1
      BY <1>1, <3>2, Lengths
    <3> QED
      BY <3>1, <3>2, <3>3, <3>4 DEF StillToSee, At
  <2> QED
    BY <2>2, <2>3
<1>3. CASE export[e].tab = Len(Tables)
  <2>1. export'[e] = Idle
    BY <1>1, <1>3, Lengths DEF NextTable, ExportTypeOK
  <2>2. \A t \in TableSet : StillToSee(e, t) => t = Table(e)
    BY <1>1, <1>3, Lengths DEF StillToSee, Table
  <2> QED
    BY <2>1, <2>2 DEF Knows, At, Idle
<1> QED
  BY <1>1, <1>2, <1>3, Lengths

LEMMA ExporterKeepsInv ==
  ASSUME ExportTypeOK, ExportTypeOK', NEW e \in Exporters,
         ExportStep(e) \/ ExportFails(e), Knows(e), Pending(e)
  PROVE  Knows(e)' /\ Pending(e)'
<1> DEFINE tab == export[e].tab
           found == export[e].found
<1>0. /\ UNCHANGED rows /\ Rewriting' = Rewriting
      /\ tab \in 1 .. Len(Tables) /\ messages \in Nat
      /\ \A i \in 1 .. Len(Tables) : Tables[i] \in TableSet
  BY ExporterFrame, TableIsTable DEF ExportTypeOK
<1>1. CASE TakeExport(e)
  <2>1. /\ export' = [export EXCEPT ![e].step = "select"]
        /\ export[e].step = "idle" /\ UNCHANGED object
    BY <1>1 DEF TakeExport, At
  <2>2. export'[e].step = "select" /\ export'[e].tab = 1
    BY <1>0, <2>1 DEF ExportTypeOK, Knows, At
  <2>3. \A t \in TableSet : StillToSee(e, t)'
    BY <2>2, Lengths DEF StillToSee, At, TableSet
  <2> QED
    BY <2>2, <2>3 DEF Knows, Pending, At
<1>2. CASE Select(e)
  <2>1. /\ export[e].step = "select" /\ UNCHANGED <<messages, object>>
        /\ export'[e].tab = tab /\ export'[e].found = rows[Table(e)]
        /\ export'[e].step = IF rows[Table(e)] = 0 THEN "check" ELSE "delete"
    BY <1>2 DEF Select, ExportTypeOK, At
  <2>2. Knows(e)'
    BY <1>0, <2>1 DEF Knows, At, Table
  <2>3. ASSUME NEW t \in TableSet, StillToSee(e, t)
        PROVE  StillToSee(e, t)'
    BY <1>0, <2>1, <2>3 DEF StillToSee, At, Table
  <2> QED
    BY <1>0, <2>1, <2>2, <2>3 DEF Pending, Agrees
<1>3. ASSUME NextTable(e), ~At(e, "idle"), UNCHANGED messages,
             NEW u \in TableSet, u = Table(e),
             Agrees(u)' \/ messages > 0 \/ Rewriting,
             \A t \in TableSet \ {u} : object'[t] = object[t]
      PROVE  Knows(e)' /\ Pending(e)'
  <2>1. ASSUME NEW t \in TableSet, ~Rewriting, ~(messages > 0)
        PROVE  Agrees(t)' \/ StillToSee(e, t)'
    <3>1. CASE t = u
      BY <1>3, <2>1, <3>1
    <3>2. CASE t # u
      BY <1>0, <1>3, <2>1, <3>2, NextTableSees DEF Pending, Agrees
    <3> QED
      BY <3>1, <3>2
  <2> QED
    BY <1>0, <1>3, <2>1, NextTableSees DEF Pending
<1>4. ASSUME UNCHANGED messages, export'[e].tab = tab, export'[e].found = found,
             export[e].step \in {"check", "delete"},
             export'[e].step \in {"delete", "upload"},
             \A t \in TableSet \ {Table(e)} : object'[t] = object[t]
      PROVE  Knows(e)' /\ Pending(e)'
  <2>1. Knows(e)'
    BY <1>0, <1>4 DEF Knows, At, Table
  <2>2. ASSUME NEW t \in TableSet, ~Rewriting, ~(messages > 0)
        PROVE  Agrees(t)' \/ StillToSee(e, t)'
    <3>1. found = rows[Table(e)]
      BY <1>4, <2>2 DEF Knows, At
    <3>2. CASE t = Table(e)
      BY <1>0, <1>4, <3>1, <3>2 DEF StillToSee, At, Table
    <3>3. CASE t # Table(e)
      <4>1. CASE Agrees(t)
        BY <1>0, <1>4, <3>3, <4>1 DEF Agrees
      <4>2. CASE StillToSee(e, t)
        BY <1>0, <1>4, <3>3, <4>2 DEF StillToSee, At, Table
      <4> QED
        BY <2>2, <4>1, <4>2 DEF Pending
    <3> QED
      BY <3>2, <3>3
  <2> QED
    BY <1>0, <1>4, <2>1, <2>2 DEF Pending
<1>5. CASE CheckSize(e)
  <2>1. CASE object[Table(e)] \in {0, Missing}
    <3>1. /\ object' = [object EXCEPT ![Table(e)] = Missing]
          /\ NextTable(e) /\ UNCHANGED messages /\ export[e].step = "check"
      BY <1>5, <2>1 DEF CheckSize, At
    <3>2. PICK u \in TableSet : u = Table(e)
      BY <1>0 DEF Table
    <3>3. object'[u] = Missing /\ \A t \in TableSet \ {u} : object'[t] = object[t]
      BY <3>1, <3>2 DEF ExportTypeOK
    <3>4. rows[u] = 0 \/ messages > 0 \/ Rewriting
      BY <3>1, <3>2 DEF Knows, At
    <3>5. Agrees(u)' \/ messages > 0 \/ Rewriting
      BY <1>0, <3>3, <3>4 DEF Agrees, Missing
    <3> QED
      BY <1>3, <3>1, <3>2, <3>3, <3>5 DEF At
  <2>2. CASE object[Table(e)] \notin {0, Missing}
    <3>1. /\ export' = [export EXCEPT ![e].step = "delete"]
          /\ UNCHANGED <<object, messages>> /\ export[e].step = "check"
      BY <1>5, <2>2 DEF CheckSize, At
    <3> QED
      BY <1>4, <3>1 DEF ExportTypeOK
  <2> QED
    BY <2>1, <2>2
<1>6. CASE DeleteObject(e)
  <2>1. /\ export' = [export EXCEPT ![e].step = "upload"]
        /\ object' = [object EXCEPT ![Table(e)] = Missing]
        /\ UNCHANGED messages /\ export[e].step = "delete"
    BY <1>6 DEF DeleteObject, At
  <2> QED
    BY <1>4, <2>1 DEF ExportTypeOK
<1>7. CASE Upload(e)
  <2>1. /\ object' = [object EXCEPT ![Table(e)] = found]
        /\ NextTable(e) /\ UNCHANGED messages /\ export[e].step = "upload"
    BY <1>7 DEF Upload, At
  <2>2. PICK u \in TableSet : u = Table(e)
    BY <1>0 DEF Table
  <2>3. object'[u] = found /\ \A t \in TableSet \ {u} : object'[t] = object[t]
    BY <2>1, <2>2 DEF ExportTypeOK
  <2>4. found = rows[u] \/ messages > 0 \/ Rewriting
    BY <2>1, <2>2 DEF Knows, At
  <2>5. Agrees(u)' \/ messages > 0 \/ Rewriting
    BY <1>0, <2>3, <2>4 DEF Agrees
  <2> QED
    BY <1>3, <2>1, <2>2, <2>3, <2>5 DEF At
<1>8. CASE ExportFails(e)
  <2>1. export'[e] = Idle /\ messages' = messages + 1
    BY <1>8 DEF ExportFails, ExportTypeOK
  <2> QED
    BY <1>0, <2>1 DEF Knows, Pending, At, Idle
<1> QED
  BY <1>1, <1>2, <1>5, <1>6, <1>7, <1>8 DEF ExportStep

(***************************************************************************)
(* The heart of the export: the rows found may be outdated only while      *)
(* another export is queued, so the last one of all has seen the rows that *)
(* stay.                                                                   *)
(***************************************************************************)
LEMMA ExportInvariant ==
  ASSUME OneExporter
  PROVE  Spec => []ExportInv
<1>1. Init => ExportInv
  <2>1. Init => \A e \in Exporters : Knows(e)
    BY DEF Init, Knows, At, Idle
  <2>2. Init => DisagreementIsPending
    BY DEF Init, DisagreementIsPending, Agrees
  <2> QED
    BY <2>1, <2>2, InitTypeCorrect DEF ExportInv
<1>2. ASSUME ExportInv, [Next]_vars
      PROVE  ExportInv'
  <2>1. ExportTypeOK'
    BY <1>2, NextKeepsType DEF ExportInv
  <2>2. CASE ListenerStep
    <3>1. UNCHANGED export
      BY <2>2 DEF ListenerStep, BeginRewrite, InterruptRewrite, ClearTable,
                  FillTable, exportVars
    <3> QED
      BY <1>2, <2>1, <2>2, <3>1, ListenerKeepsInv
         DEF ExportInv, Knows, DisagreementIsPending, At
  <2>3. CASE RequestExport
    <3>1. UNCHANGED export /\ messages' > 0
      BY <1>2, <2>3 DEF RequestExport, ExportInv, ExportTypeOK
    <3> QED
      BY <1>2, <2>1, <3>1 DEF ExportInv, Knows, DisagreementIsPending, At
  <2>4. ASSUME NEW e \in Exporters, ExportStep(e) \/ ExportFails(e)
        PROVE  ExportInv'
    <3>1. Exporters = {e}
      BY OneExporter DEF OneExporter
    <3>2. ExportTypeOK /\ Knows(e) /\ Pending(e)
      BY <1>2, <3>1 DEF ExportInv, DisagreementIsPending, Pending
    <3>3. Knows(e)' /\ Pending(e)'
      BY <2>1, <2>4, <3>2, ExporterKeepsInv
    <3> QED
      BY <2>1, <3>1, <3>3 DEF ExportInv, DisagreementIsPending, Pending
  <2>5. CASE UNCHANGED vars
    BY <1>2, <2>1, <2>5
       DEF vars, ExportInv, Knows, DisagreementIsPending, Agrees, StillToSee,
           At, Table, Rewriting
  <2> QED
    BY <1>2, <2>2, <2>3, <2>4, <2>5 DEF Next
<1> QED
  BY <1>1, <1>2, PTL DEF Spec

(***************************************************************************)
(* With one exporter no object stays wrong, however many rewrites, export  *)
(* messages and failures there are and whichever way they interleave.      *)
(***************************************************************************)
THEOREM NoObjectStaysWrong ==
  ASSUME OneExporter
  PROVE  Spec => []DisagreementIsPending
<1>1. ExportInv => DisagreementIsPending
  BY DEF ExportInv
<1> QED
  BY <1>1, ExportInvariant, PTL
=============================================================================
