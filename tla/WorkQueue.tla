------------------------------ MODULE WorkQueue ------------------------------
(***************************************************************************)
(* Backfilling: enqueue_many_blocks_command cuts a range into messages and *)
(* sends them to the low-priority queue, and the workers inspect them.     *)
(*                                                                         *)
(* The queue is dramatiq on Redis (external).  A worker takes a message,   *)
(* runs inspect_many_blocks_task in a session of its own, and acknowledges *)
(* the message when the task returns.  If the task raises, the message is  *)
(* sent again, up to MaxRetries times, then it goes to the dead letters.   *)
(* When a worker dies, its message goes back to the queue as it was: a     *)
(* message is delivered at least once.  Messages may overtake each other.  *)
(***************************************************************************)
EXTENDS Inspector

CONSTANTS
  Workers,      \* the worker threads
  Commands,     \* the <<start_block, end_block>> a command may be given
  MessageSize,  \* batch_size of the command, 10 by default
  NoMessage,    \* held by a worker that has none
  MaxRetries,   \* max_retries of dramatiq, 20 by default
  MaxCrashes    \* bound: how many times a worker dies

ASSUME WorkersAssumption == Workers \subseteq Processes
ASSUME CommandsAssumption ==
  Commands \subseteq (1 .. MaxBlock + 1) \X (1 .. MaxBlock + 1)
ASSUME QueueBoundAssumption ==
  MessageSize \in Nat \ {0} /\ MaxRetries \in Nat /\ MaxCrashes \in Nat
ASSUME NoMessageAssumption ==
  NoMessage \notin [after : Int, before : Int, tries : Int]

VARIABLES
  command,  \* the range the command was given
  at,       \* the loop variable of the command
  queue,    \* the messages that wait, delayed retries included
  held,     \* held[w]: the message worker w has taken
  acked,    \* the messages that were acknowledged
  dead,     \* the dead letters
  crashes   \* how many times a worker died

queueVars == <<command, at, queue, held, acked, dead, crashes>>
vars == <<callVars, queueVars>>

Inside(m) == {b \in Blocks : m.after <= b /\ b < m.before}

Start == command[1]
End == command[2]
Upwards == Start < End
Requested == {b \in Blocks : IF Upwards THEN Start <= b /\ b < End
                                    ELSE End <= b /\ b < Start}

Init ==
  /\ InitCalls
  /\ command \in Commands
  /\ at = Start
  /\ queue = {} /\ acked = {} /\ dead = {}
  /\ held = [w \in Workers |-> NoMessage]
  /\ crashes = 0

-----------------------------------------------------------------------------
(* The command.                                                            *)

Lesser(x, y) == IF x < y THEN x ELSE y
Greater(x, y) == IF x > y THEN x ELSE y

(* Defect: downwards, a message begins one block too high. *)
NextRangeDownShort ==
  IF Upwards
    THEN [after |-> at, before |-> Lesser(at + MessageSize, End)]
    ELSE [after |-> Greater(at - MessageSize + 1, End), before |-> at]

(***************************************************************************)
(* The next message: upwards the range grows from its lower end, downwards *)
(* from its upper end; the last message may be shorter.                    *)
(***************************************************************************)
NextRange ==
  IF Upwards
    THEN [after |-> at, before |-> Lesser(at + MessageSize, End)]
    ELSE [after |-> Greater(at - MessageSize, End), before |-> at]

MoreToSend == IF Upwards THEN at < End ELSE End < at

SendMessage ==
  /\ MoreToSend
  /\ queue' = queue \cup {[after  |-> NextRange.after,
                           before |-> NextRange.before,
                           tries  |-> 0]}
  /\ at' = IF Upwards THEN at + MessageSize ELSE at - MessageSize
  /\ UNCHANGED <<callVars, command, held, acked, dead, crashes>>

-----------------------------------------------------------------------------
(* The workers.                                                            *)

Take(w) ==
  /\ held[w] = NoMessage
  /\ \E m \in queue :
       /\ queue' = queue \ {m}
       /\ held' = [held EXCEPT ![w] = m]
       /\ Call(w, m.after, m.before)
  /\ UNCHANGED <<command, at, acked, dead, crashes>>

(* The task is at an end; its session is closed. *)
Finish(w, outcome) ==
  /\ held[w] # NoMessage
  /\ call[w].phase = outcome
  /\ call' = [call EXCEPT ![w] = NoCall]
  /\ held' = [held EXCEPT ![w] = NoMessage]
  /\ UNCHANGED <<task, broken, data, fails, command, at, crashes>>

Acknowledge(w) ==
  /\ Finish(w, "returned")
  /\ acked' = acked \cup {held[w]}
  /\ UNCHANGED <<queue, dead>>

GivesUp(m) == m.tries >= MaxRetries

Retry(w) ==
  /\ Finish(w, "raised")
  /\ IF GivesUp(held[w])
       THEN /\ dead' = dead \cup {held[w]}
            /\ UNCHANGED queue
       ELSE /\ queue' = queue \cup {[held[w] EXCEPT !.tries = @ + 1]}
            /\ UNCHANGED dead
  /\ UNCHANGED acked

(***************************************************************************)
(* Defect: a message counts as delivered when a worker takes it.           *)
(***************************************************************************)
CrashDroppingMessage(w) ==
  /\ crashes < MaxCrashes /\ held[w] # NoMessage
  /\ crashes' = crashes + 1
  /\ \/ UNCHANGED data
     \/ \E i \in InState(w, "fetch") : data' = Written(w, i, "half")
  /\ held' = [held EXCEPT ![w] = NoMessage]
  /\ call' = [call EXCEPT ![w] = NoCall]
  /\ task' = [task EXCEPT ![w] = [i \in {} |-> "done"]]
  /\ UNCHANGED <<queue, broken, fails, command, at, acked, dead>>

(***************************************************************************)
(* The worker dies, perhaps in the middle of a batch's writes, perhaps     *)
(* between the end of the task and the acknowledgement.                    *)
(***************************************************************************)
Crash(w) ==
  /\ crashes < MaxCrashes /\ held[w] # NoMessage
  /\ crashes' = crashes + 1
  /\ \/ UNCHANGED data
     \/ \E i \in InState(w, "fetch") : ~broken[w] /\ data' = Written(w, i, "half")
  /\ queue' = queue \cup {held[w]}
  /\ held' = [held EXCEPT ![w] = NoMessage]
  /\ call' = [call EXCEPT ![w] = NoCall]
  /\ task' = [task EXCEPT ![w] = [i \in {} |-> "done"]]
  /\ UNCHANGED <<broken, fails, command, at, acked, dead>>

Work(w) ==
  /\ \/ \E i \in Batches(w) : BatchStep(w, i)
     \/ Return(w)
     \/ Raise(w)
  /\ UNCHANGED queueVars

WorkerStep(w) == Take(w) \/ Work(w) \/ Acknowledge(w) \/ Retry(w)

(***************************************************************************)
(* Everything was sent and every message acknowledged or buried.           *)
(***************************************************************************)
Settled ==
  /\ ~MoreToSend /\ queue = {}
  /\ \A w \in Workers : held[w] = NoMessage

Next ==
  \/ SendMessage
  \/ \E w \in Workers : WorkerStep(w) \/ Crash(w)
  \/ Settled /\ UNCHANGED vars

Spec == Init /\ [][Next]_vars

(***************************************************************************)
(* The command runs to its end, a worker goes on with the task it has (or  *)
(* dies, or its time limit raises: one of the failures), and takes another *)
(* message while there is one.                                             *)
(***************************************************************************)
FairSpec ==
  Spec /\ WF_vars(SendMessage) /\ \A w \in Workers : WF_vars(WorkerStep(w))

-----------------------------------------------------------------------------
(* Properties.                                                             *)

Holding(w) == held[w] # NoMessage
InFlight == queue \cup dead \cup {held[w] : w \in {v \in Workers : Holding(v)}}

(***************************************************************************)
(* The messages of one command partition its range: when it has sent them  *)
(* all, every block of the range is in one message and in one only, at     *)
(* whatever stage that message is, and no other block is in any.           *)
(***************************************************************************)
RangeIsPartitioned ==
  ~MoreToSend =>
    /\ \A b \in Requested :
         Cardinality({m \in InFlight \cup acked : b \in Inside(m)}) = 1
    /\ \A m \in InFlight \cup acked : Inside(m) \subseteq Requested

(***************************************************************************)
(* A message is acknowledged only when all its blocks are complete; a      *)
(* block that a failure left half written is always in a message that will *)
(* be tried again, or in a dead letter where an operator can find it.      *)
(***************************************************************************)
UnfinishedIsInFlight ==
  /\ \A m \in acked : \A b \in Inside(m) : data[b] = "done"
  /\ \A b \in Blocks :
       data[b] = "half" => \E m \in InFlight : b \in Inside(m)

(***************************************************************************)
(* cli.py calls max_concurrency the "maximum number of concurrent          *)
(* connections": batches beyond it have to wait, and that alone never      *)
(* makes a message fail for good.                                          *)
(***************************************************************************)
ConcurrencyOnlyDelays == fails = 0 => dead = {}

(***************************************************************************)
(* With fewer failures than it takes to bury a message, and whatever       *)
(* crashes, the whole range is complete in the end.                        *)
(***************************************************************************)
BackfillCompletes ==
  <>[](fails <= MaxRetries => \A b \in Requested : data[b] = "done")
=============================================================================
