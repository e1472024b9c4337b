------------------------------ MODULE Inspector ------------------------------
(***************************************************************************)
(* MEVInspector.inspect_many_blocks: a range of blocks is cut into batches *)
(* of BatchSize, one task per batch, gathered on one event loop and on one *)
(* database session.  A semaphore lets Concurrency of them through.        *)
(*                                                                         *)
(* A batch awaits while it reads its blocks from the node and while it     *)
(* waits for the semaphore.  Its writes contain no await, so to the other  *)
(* batches of the call they are one step.  What several sessions do to     *)
(* each other during those writes is the subject of InspectBlocks; here a  *)
(* block is "none", "half" or "done".                                      *)
(*                                                                         *)
(* A worker thread creates its inspector, and with it the semaphore, once, *)
(* and runs every message in an event loop of its own (asyncio.run).  The  *)
(* semaphore of Python 3.9 belongs to the loop it was created under: a     *)
(* task of another loop that has to wait for it gets a RuntimeError.       *)
(***************************************************************************)
EXTENDS Integers, FiniteSets, FiniteSetsExt

CONSTANTS
  Processes,    \* the worker threads and the command lines
  ForeignLoop,  \* those whose semaphore belongs to another event loop
  MaxBlock,     \* the blocks are 1..MaxBlock
  BatchSize,    \* block_batch_size, 10 in the code
  Concurrency,  \* max_concurrency, 5 in the code
  MaxFails      \* bound: how many reads and writes fail

ASSUME ProcessAssumption == ForeignLoop \subseteq Processes
ASSUME SizeAssumption ==
  /\ MaxBlock \in Nat /\ MaxFails \in Nat
  /\ BatchSize \in Nat \ {0} /\ Concurrency \in Nat \ {0}

VARIABLES
  call,    \* call[p]: the call p is in: its phase and its range
  task,    \* task[p][i]: where batch i of the call is
  broken,  \* broken[p]: a write failed, the session wants a rollback
  data,    \* data[b]: what the tables hold of block b
  fails    \* how many reads and writes failed

callVars == <<call, task, broken, data, fails>>

Blocks == 1 .. MaxBlock
NoCall == [phase |-> "idle", after |-> 1, before |-> 1]

InitCalls ==
  /\ call = [p \in Processes |-> NoCall]
  /\ task = [p \in Processes |-> [i \in {} |-> "done"]]
  /\ broken = [p \in Processes |-> FALSE]
  /\ data = [b \in Blocks |-> "none"]
  /\ fails = 0

Gathering(p) == call[p].phase = "gather"
Batches(p) == DOMAIN task[p]
InState(p, s) == {i \in Batches(p) : task[p][i] = s}

(* Defect: the last, shorter batch is forgotten. *)
BatchStartsWhole(a, z) ==
  {b \in Blocks : a <= b /\ b + BatchSize <= z /\ (b - a) % BatchSize = 0}

(***************************************************************************)
(* range(after, before, BatchSize): a batch is named by its first block.   *)
(***************************************************************************)
BatchStarts(a, z) ==
  {b \in Blocks : a <= b /\ b < z /\ (b - a) % BatchSize = 0}

BatchBlocks(p, i) ==
  {b \in Blocks : i <= b /\ b < i + BatchSize /\ b < call[p].before}

(***************************************************************************)
(* The tasks start in order, before any answer can arrive: the first ones  *)
(* pass the semaphore, the others wait for it or, in the wrong loop, fail. *)
(***************************************************************************)
Started(p, a, i) ==
  IF i < a + Concurrency * BatchSize THEN "fetch"
  ELSE IF p \in ForeignLoop THEN "failed" ELSE "wait"

Call(p, a, z) ==
  /\ call[p].phase = "idle"
  /\ call' = [call EXCEPT ![p] = [phase |-> "gather", after |-> a, before |-> z]]
  /\ task' = [task EXCEPT ![p] = [i \in BatchStarts(a, z) |-> Started(p, a, i)]]
  /\ broken' = [broken EXCEPT ![p] = FALSE]
  /\ UNCHANGED <<data, fails>>

(***************************************************************************)
(* Defect: only a batch that succeeds gives its permit back.               *)
(***************************************************************************)
EndedLeaking(p, i, status) ==
  LET left == InState(p, "wait")
      woken == IF left = {} \/ status = "failed" THEN {} ELSE {Min(left)}
  IN  [task EXCEPT ![p] = [j \in Batches(p) |->
         IF j = i THEN status ELSE IF j \in woken THEN "fetch" ELSE @[j]]]

(***************************************************************************)
(* Batch i ends, well or not, and the first one waiting gets its permit.   *)
(***************************************************************************)
Ended(p, i, status) ==
  LET left == InState(p, "wait")
      woken == IF left = {} THEN {} ELSE {Min(left)}
  IN  [task EXCEPT ![p] = [j \in Batches(p) |->
         IF j = i THEN status ELSE IF j \in woken THEN "fetch" ELSE @[j]]]

Written(p, i, value) ==
  [b \in Blocks |-> IF b \in BatchBlocks(p, i) THEN value ELSE data[b]]

(***************************************************************************)
(* The last block of the batch is there, and the batch is written.         *)
(***************************************************************************)
BatchSucceeds(p, i) ==
  /\ Gathering(p) /\ task[p][i] = "fetch" /\ ~broken[p]
  /\ data' = Written(p, i, "done")
  /\ task' = Ended(p, i, "done")
  /\ UNCHANGED <<call, broken, fails>>

(* The node does not give one of the blocks. *)
ReadFails(p, i) ==
  /\ Gathering(p) /\ task[p][i] = "fetch"
  /\ fails < MaxFails
  /\ fails' = fails + 1
  /\ task' = Ended(p, i, "failed")
  /\ UNCHANGED <<call, broken, data>>

(***************************************************************************)
(* One of the statements fails.  What was committed before it stays, and   *)
(* the session refuses to work until it is rolled back.                    *)
(***************************************************************************)
WriteFails(p, i) ==
  /\ Gathering(p) /\ task[p][i] = "fetch" /\ ~broken[p]
  /\ fails < MaxFails
  /\ fails' = fails + 1
  /\ data' = Written(p, i, "half")
  /\ broken' = [broken EXCEPT ![p] = TRUE]
  /\ task' = Ended(p, i, "failed")
  /\ UNCHANGED call

(* Another batch of the call comes to write on that session. *)
WriteRefused(p, i) ==
  /\ Gathering(p) /\ task[p][i] = "fetch" /\ broken[p]
  /\ task' = Ended(p, i, "failed")
  /\ UNCHANGED <<call, broken, data, fails>>

Leave(p, outcome) ==
  /\ call' = [call EXCEPT ![p].phase = outcome]
  /\ task' = [task EXCEPT ![p] = [i \in {} |-> "done"]]
  /\ UNCHANGED <<broken, data, fails>>

(***************************************************************************)
(* Defect: the call returns when no batch is left running.                 *)
(***************************************************************************)
ReturnWhenIdle(p) ==
  /\ Gathering(p)
  /\ InState(p, "wait") \cup InState(p, "fetch") = {}
  /\ Leave(p, "returned")

Return(p) ==
  /\ Gathering(p)
  /\ \A i \in Batches(p) : task[p][i] = "done"
  /\ Leave(p, "returned")

(***************************************************************************)
(* gather raises the first exception; the loop is closed, or abandoned,    *)
(* and the batches that are still awaiting never come to write.            *)
(***************************************************************************)
Raise(p) ==
  /\ Gathering(p)
  /\ InState(p, "failed") # {}
  /\ Leave(p, "raised")

(***************************************************************************)
(* A signal to a command line cancels all tasks.  gather raises            *)
(* CancelledError, inspect_many_blocks logs it and returns.                *)
(***************************************************************************)
Cancel(p) ==
  /\ p \notin ForeignLoop
  /\ Gathering(p)
  /\ Leave(p, "returned")

BatchStep(p, i) ==
  \/ BatchSucceeds(p, i)
  \/ ReadFails(p, i)
  \/ WriteFails(p, i)
  \/ WriteRefused(p, i)

-----------------------------------------------------------------------------
(* The inspect-many command on its own, run again when it has ended.       *)

CommandEnds(p) ==
  /\ call[p].phase \in {"returned", "raised"}
  /\ call' = [call EXCEPT ![p] = NoCall]
  /\ UNCHANGED <<task, broken, data, fails>>

CommandStep(p) ==
  \/ \E a \in Blocks : Call(p, a, MaxBlock + 1)
  \/ \E i \in Batches(p) : BatchStep(p, i)
  \/ Return(p)
  \/ Raise(p)
  \/ Cancel(p)
  \/ CommandEnds(p)

CommandSpec ==
  InitCalls /\ [][\E p \in Processes : CommandStep(p)]_callVars

-----------------------------------------------------------------------------
(***************************************************************************)
(* The semaphore lets no more than Concurrency batches read at a time, and *)
(* it loses no wake-up: while a batch waits, exactly that many read,       *)
(* whatever failed in between.                                             *)
(***************************************************************************)
PermitsInUse ==
  \A p \in Processes :
    /\ Cardinality(InState(p, "fetch")) <= Concurrency
    /\ InState(p, "wait") # {} =>
         Cardinality(InState(p, "fetch")) = Concurrency
=============================================================================
