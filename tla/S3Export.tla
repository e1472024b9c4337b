------------------------------ MODULE S3Export ------------------------------
(***************************************************************************)
(* export_block of s3_export.py: for each exported table, one after the    *)
(* other, the rows of a block become one object of a bucket.               *)
(*                                                                         *)
(* One block is modelled.  The listener rewrites its rows, table by table  *)
(* (see InspectBlocks), and sends an export message when it is done; it    *)
(* may do so more than once, after a restart, and an operator may send     *)
(* export messages at any time.  An export selects the rows, deletes the   *)
(* object and uploads a new one: three steps, between which rows change,   *)
(* and the message is sent again when one of them raises.                  *)
(*                                                                         *)
(* The rows of one rewrite in one table are a version.  S3 and the queue   *)
(* are external: S3 is strongly consistent, a message that was taken is    *)
(* processed or queued again.                                              *)
(***************************************************************************)
EXTENDS Naturals, Sequences, FiniteSets

CONSTANTS
  Exporters,     \* the worker threads; one in the deployment as it is
  Tables,        \* supported_tables, in order
  Rewritten,     \* the order in which an inspection rewrites these tables
  MaxVersion,    \* bound: how many rewrites begin
  MaxRequests,   \* bound: how many exports operators ask for
  MaxFails       \* bound: how many calls of an export raise

TableSet == {Tables[i] : i \in 1 .. Len(Tables)}

ASSUME ExportAssumption ==
  /\ Tables \in Seq(STRING) /\ Len(Tables) > 0
  /\ Len(Rewritten) = Len(Tables)
  /\ {Rewritten[i] : i \in 1 .. Len(Rewritten)} = TableSet
  /\ MaxVersion \in Nat /\ MaxRequests \in Nat /\ MaxFails \in Nat

VARIABLES
  rows,      \* rows[t]: the version committed in table t, 0 if no rows
  writer,    \* the rewrite: its next table and the tables it has rows for
  version,   \* how many rewrites have begun
  messages,  \* how many export messages wait in the queue
  export,    \* export[e]: what e is doing
  object,    \* object[t]: the version uploaded for t, 0 if empty, or Missing
  requests,  \* how many exports operators asked for
  fails      \* how many calls raised

vars == <<rows, writer, version, messages, export, object, requests, fails>>

Missing == MaxVersion + 1
Idle == [step |-> "idle", tab |-> 1, found |-> 0]
NoRewrite == [next |-> 0, full |-> {}, cleared |-> FALSE]

ExportTypeOK ==
  /\ rows \in [TableSet -> 0 .. version]
  /\ version \in 0 .. MaxVersion
  /\ writer \in [next : 0 .. Len(Rewritten), full : SUBSET TableSet,
                 cleared : BOOLEAN]
  /\ messages \in Nat /\ requests \in Nat /\ fails \in Nat
  /\ export \in [Exporters -> [step : {"idle", "select", "check", "delete",
                                       "upload"},
                               tab : 1 .. Len(Tables), found : 0 .. version]]
  /\ object \in [TableSet -> (0 .. version) \cup {Missing}]

Init ==
  /\ rows = [t \in TableSet |-> 0]
  /\ writer = NoRewrite
  /\ version = 0
  /\ messages = 0
  /\ export = [e \in Exporters |-> Idle]
  /\ object = [t \in TableSet |-> Missing]
  /\ requests = 0 /\ fails = 0

-----------------------------------------------------------------------------
(* The listener.                                                           *)

exportVars == <<export, object, requests, fails>>

Rewriting == writer.next # 0

(***************************************************************************)
(* The block is inspected (again): it has rows for the tables in full.     *)
(***************************************************************************)
BeginRewrite(full) ==
  /\ ~Rewriting
  /\ version < MaxVersion
  /\ version' = version + 1
  /\ writer' = [next |-> 1, full |-> full, cleared |-> FALSE]
  /\ UNCHANGED <<rows, messages, exportVars>>

ClearTable ==
  /\ Rewriting /\ ~writer.cleared
  /\ rows' = [rows EXCEPT ![Rewritten[writer.next]] = 0]
  /\ writer' = [writer EXCEPT !.cleared = TRUE]
  /\ UNCHANGED <<version, messages, exportVars>>

(* The last table done, the export is sent. *)
FillTable ==
  /\ Rewriting /\ writer.cleared
  /\ LET t == Rewritten[writer.next]
         last == writer.next = Len(Rewritten)
     IN  /\ rows' = [rows EXCEPT ![t] = IF t \in writer.full THEN version ELSE 0]
         /\ writer' = IF last THEN NoRewrite
                      ELSE [writer EXCEPT !.next = @ + 1, !.cleared = FALSE]
         /\ messages' = IF last THEN messages + 1 ELSE messages
  /\ UNCHANGED <<version, exportVars>>

(* The listener dies; it will inspect the block again when it is back. *)
InterruptRewrite(full) ==
  /\ Rewriting
  /\ version < MaxVersion
  /\ version' = version + 1
  /\ writer' = [next |-> 1, full |-> full, cleared |-> FALSE]
  /\ UNCHANGED <<rows, messages, exportVars>>

(* enqueue-s3-export. *)
RequestExport ==
  /\ requests < MaxRequests
  /\ requests' = requests + 1
  /\ messages' = messages + 1
  /\ UNCHANGED <<rows, writer, version, export, object, fails>>

-----------------------------------------------------------------------------
(* An export.                                                              *)

Table(e) == Tables[export[e].tab]
At(e, step) == export[e].step = step
dbVars == <<rows, writer, version>>

TakeExport(e) ==
  /\ At(e, "idle")
  /\ messages > 0
  /\ messages' = messages - 1
  /\ export' = [export EXCEPT ![e].step = "select"]
  /\ UNCHANGED <<dbVars, object, requests, fails>>

(* The client reads the whole result; an empty one asks for the object. *)
Select(e) ==
  /\ At(e, "select")
  /\ export' = [export EXCEPT
                  ![e].found = rows[Table(e)],
                  ![e].step = IF rows[Table(e)] = 0 THEN "check" ELSE "delete"]
  /\ UNCHANGED <<dbVars, messages, object, requests, fails>>

(* The next table, or the end of the task and its acknowledgement. *)
NextTable(e) ==
  export' = [export EXCEPT ![e] =
               IF @.tab < Len(Tables)
                 THEN [step |-> "select", tab |-> @.tab + 1, found |-> 0]
                 ELSE Idle]

(***************************************************************************)
(* Defect: nothing to export, nothing to do.                               *)
(***************************************************************************)
SkipTable(e) ==
  /\ At(e, "check")
  /\ NextTable(e)
  /\ UNCHANGED <<dbVars, messages, object, requests, fails>>

(***************************************************************************)
(* No rows: an object with data in it is replaced by an empty one, an      *)
(* empty one is deleted.                                                   *)
(***************************************************************************)
CheckSize(e) ==
  /\ At(e, "check")
  /\ IF object[Table(e)] \in {0, Missing}
       THEN /\ object' = [object EXCEPT ![Table(e)] = Missing]
            /\ NextTable(e)
       ELSE /\ export' = [export EXCEPT ![e].step = "delete"]
            /\ UNCHANGED object
  /\ UNCHANGED <<dbVars, messages, requests, fails>>

DeleteObject(e) ==
  /\ At(e, "delete")
  /\ object' = [object EXCEPT ![Table(e)] = Missing]
  /\ export' = [export EXCEPT ![e].step = "upload"]
  /\ UNCHANGED <<dbVars, messages, requests, fails>>

Upload(e) ==
  /\ At(e, "upload")
  /\ object' = [object EXCEPT ![Table(e)] = export[e].found]
  /\ NextTable(e)
  /\ UNCHANGED <<dbVars, messages, requests, fails>>

(***************************************************************************)
(* Defect: an export that raises is not tried again.                       *)
(***************************************************************************)
ExportGivesUp(e) ==
  /\ ~At(e, "idle")
  /\ fails < MaxFails
  /\ fails' = fails + 1
  /\ export' = [export EXCEPT ![e] = Idle]
  /\ UNCHANGED <<dbVars, messages, object, requests>>

(***************************************************************************)
(* A call raises or the worker dies: the message is queued again, and the  *)
(* next attempt begins with the first table.                               *)
(***************************************************************************)
ExportFails(e) ==
  /\ ~At(e, "idle")
  /\ fails < MaxFails
  /\ fails' = fails + 1
  /\ messages' = messages + 1
  /\ export' = [export EXCEPT ![e] = Idle]
  /\ UNCHANGED <<dbVars, object, requests>>

ExportStep(e) ==
  \/ TakeExport(e) \/ Select(e) \/ CheckSize(e)
  \/ DeleteObject(e) \/ Upload(e)

ListenerStep ==
  \/ \E full \in SUBSET TableSet : BeginRewrite(full) \/ InterruptRewrite(full)
  \/ ClearTable
  \/ FillTable

AllExported == ~Rewriting /\ messages = 0 /\ \A e \in Exporters : At(e, "idle")

Next ==
  \/ ListenerStep
  \/ RequestExport
  \/ \E e \in Exporters : ExportStep(e) \/ ExportFails(e)
  \/ AllExported /\ UNCHANGED vars

Spec == Init /\ [][Next]_vars

(***************************************************************************)
(* The listener finishes a rewrite that it has begun, and the workers go   *)
(* on while there are messages.                                            *)
(***************************************************************************)
FairSpec ==
  /\ Spec
  /\ WF_vars(ClearTable \/ FillTable)
  /\ \A e \in Exporters : WF_vars(ExportStep(e))

-----------------------------------------------------------------------------
(* Properties.                                                             *)

(* The object of t says what the table says; no rows, no data. *)
Agrees(t) ==
  IF rows[t] = 0 THEN object[t] \in {0, Missing} ELSE object[t] = rows[t]

(***************************************************************************)
(* The export that e is in will read table t, or has read what it holds.   *)
(***************************************************************************)
StillToSee(e, t) ==
  /\ ~At(e, "idle")
  /\ \E i \in export[e].tab .. Len(Tables) :
       /\ Tables[i] = t
       /\ i > export[e].tab \/ At(e, "select")
            \/ export[e].found = rows[t]

(***************************************************************************)
(* With one exporter no object stays wrong: while an object disagrees with *)
(* its table and the rows are not being rewritten, an export that will see *)
(* them is queued or on its way, however the exports before interleaved    *)
(* with rewrites and whatever failed between a delete and its upload.      *)
(***************************************************************************)
DisagreementIsPending ==
  ~Rewriting =>
    \A t \in TableSet :
      Agrees(t) \/ messages > 0 \/ \E e \in Exporters : StillToSee(e, t)

(***************************************************************************)
(* The exports catch up: in the end every object agrees with its table.    *)
(***************************************************************************)
ObjectsCatchUp == <>[](\A t \in TableSet : Agrees(t))
=============================================================================
