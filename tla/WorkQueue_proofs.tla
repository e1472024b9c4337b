--------------------------- MODULE WorkQueue_proofs ---------------------------
(***************************************************************************)
(* Proofs about Inspector and WorkQueue, for any number of workers,        *)
(* batches, permits, failures, retries and crashes, and any command.       *)
(*                                                                         *)
(* First the calls: the semaphore loses no permit.  Then the queue: the    *)
(* messages partition the range, and what is unfinished is in flight.      *)
(***************************************************************************)
EXTENDS WorkQueue, FiniteSetTheorems, NaturalsInduction, TLAPS

-----------------------------------------------------------------------------
(* The inductive invariant of the calls.                                   *)

Numbers == 1 .. MaxBlock + 1
CallRecord == [phase : {"idle", "gather", "returned", "raised"},
               after : Numbers, before : Numbers]
TaskStates == {"wait", "fetch", "done", "failed"}

TasksOK(p) ==
  Batches(p) \subseteq Blocks /\ task[p] \in [Batches(p) -> TaskStates]

CallTypeOK ==
  /\ call \in [Processes -> CallRecord]
  /\ task = [p \in Processes |-> task[p]]
  /\ \A p \in Processes : TasksOK(p)
  /\ broken \in [Processes -> BOOLEAN]
  /\ data \in [Blocks -> {"none", "half", "done"}]
  /\ fails \in Nat

PermitsOK(p) ==
  /\ Cardinality(InState(p, "fetch")) <= Concurrency
  /\ InState(p, "wait") # {} => Cardinality(InState(p, "fetch")) = Concurrency

CallInv == CallTypeOK /\ \A p \in Processes : PermitsOK(p)

-----------------------------------------------------------------------------
(* The inductive invariant of the queue.                                   *)

Message == {m \in [after : Numbers, before : Numbers, tries : Nat] :
              m.after < m.before}

QueueTypeOK ==
  /\ CallTypeOK
  /\ command \in Numbers \X Numbers
  /\ at \in Int
  /\ queue \subseteq Message /\ acked \subseteq Message /\ dead \subseteq Message
  /\ held \in [Workers -> Message \cup {NoMessage}]
  /\ crashes \in Nat

(* All messages of the command, wherever they are. *)
Messages == InFlight \cup acked

(* The blocks that the command has put into messages so far. *)
SentBlocks ==
  {b \in Blocks : IF Upwards THEN Start <= b /\ b < Lesser(at, End)
                             ELSE Greater(at, End) <= b /\ b < Start}

(* The loop variable has gone from the one end towards the other. *)
SendingOK == IF Upwards THEN Start <= at ELSE at <= Start

(* A message is in one place at a time, and one worker has it. *)
PlacesApart ==
  /\ queue \cap acked = {} /\ queue \cap dead = {} /\ acked \cap dead = {}
  /\ \A w \in Workers : Holding(w) =>
       /\ held[w] \notin queue \cup acked \cup dead
       /\ \A v \in Workers : held[v] = held[w] => v = w

(* What was sent is in a message, and no block is in two. *)
RangesApart ==
  /\ \A m, n \in Messages : m # n => Inside(m) \cap Inside(n) = {}
  /\ \A m \in Messages : Inside(m) \subseteq SentBlocks
  /\ \A b \in SentBlocks : \E m \in Messages : b \in Inside(m)

RangeInv == SendingOK /\ PlacesApart /\ RangesApart

(* A process is in a call just when it has a message, and it is about that. *)
CallIsHeld(p) ==
  IF p \in Workers /\ Holding(p)
    THEN /\ call[p].phase # "idle"
         /\ call[p].after = held[p].after /\ call[p].before = held[p].before
    ELSE call[p].phase = "idle"

(* The batches of a call are those of its range; what is done is written.  *)
BatchesOK(p) ==
  /\ IF Gathering(p) THEN Batches(p) = BatchStarts(call[p].after, call[p].before)
                     ELSE Batches(p) = {}
  /\ \A i \in InState(p, "done") : \A b \in BatchBlocks(p, i) : data[b] = "done"
  /\ call[p].phase = "returned" => \A b \in Inside(call[p]) : data[b] = "done"

WorkInv ==
  /\ \A p \in Processes : CallIsHeld(p) /\ BatchesOK(p)
  /\ UnfinishedIsInFlight

QueueInv == CallInv /\ QueueTypeOK /\ RangeInv /\ WorkInv

-----------------------------------------------------------------------------
(* Arithmetic, and the least element of a set.                             *)

LEMMA MinIsLeast ==
  ASSUME NEW S \in SUBSET Nat, S # {}
  PROVE  Min(S) \in S
<1>1. IsWellFoundedOn(OpToRel(<, Nat), Nat)
  BY NatLessThanWellFounded
<1>2. PICK x \in S : \A y \in S : <<y, x>> \notin OpToRel(<, Nat)
  BY <1>1, WFMin
<1>3. \A y \in S : x <= y
  <2>1. ASSUME NEW y \in S
        PROVE  x <= y
    <3>1. x \in Nat /\ y \in Nat
      OBVIOUS
    <3>2. ~(y < x)
      BY <1>2, <3>1 DEF OpToRel
    <3> QED
      BY <3>1, <3>2
  <2> QED
    BY <2>1
<1> QED
  BY <1>3 DEF Min

LEMMA Division ==
  ASSUME NEW n \in Nat, NEW s \in Nat \ {0}
  PROVE  /\ n % s \in 0 .. s - 1 /\ n \div s \in Nat
         /\ n = (s * (n \div s)) + (n % s)
         /\ (s * n) % s = 0
OBVIOUS

LEMMA ProductGrows ==
  ASSUME NEW i \in Nat, NEW j \in Nat, NEW s \in Nat \ {0}, i < j
  PROVE  (s * i) + s <= s * j
<1>1. PICK d \in Nat : j = i + d /\ d >= 1
  <2>1. j = i + (j - i) /\ j - i \in Nat /\ j - i >= 1
    OBVIOUS
  <2> QED
    BY <2>1
<1>2. s * j = (s * i) + (s * d) /\ s * d >= s
  BY <1>1
<1> QED
  BY <1>2

(* Multiples of a size are at least that size apart. *)
LEMMA MultiplesApart ==
  ASSUME NEW i \in Nat, NEW j \in Nat, NEW s \in Nat \ {0},
         i % s = 0, j % s = 0, i < j
  PROVE  i + s <= j
<1>1. /\ i = s * (i \div s) /\ j = s * (j \div s)
      /\ i \div s \in Nat /\ j \div s \in Nat
  BY Division
<1>2. i \div s < j \div s
  <2>1. CASE j \div s < i \div s
    BY <1>1, <2>1, ProductGrows
  <2> QED
    BY <1>1, <2>1
<1> QED
  BY <1>1, <1>2, ProductGrows

-----------------------------------------------------------------------------
(* The batches of a range.                                                 *)

LEMMA Sizes ==
  /\ MaxBlock \in Nat /\ MaxFails \in Nat
  /\ BatchSize \in Nat \ {0} /\ Concurrency \in Nat \ {0}
  /\ Blocks \subseteq Numbers /\ Blocks \subseteq Nat
BY SizeAssumption DEF Blocks, Numbers

(* Every block of a range is in a batch of it. *)
LEMMA BatchesCover ==
  ASSUME NEW a \in Numbers, NEW z \in Numbers, NEW b \in Blocks, a <= b, b < z
  PROVE  \E i \in BatchStarts(a, z) : i <= b /\ b < i + BatchSize
<1> DEFINE r == (b - a) % BatchSize
           i == b - r
           k == (b - a) \div BatchSize
<1>1. a \in Nat /\ a >= 1 /\ b \in Nat /\ b <= MaxBlock /\ b - a \in Nat
  BY SizeAssumption DEF Numbers, Blocks
<1>2. r \in 0 .. BatchSize - 1 /\ k \in Nat /\ b - a = (BatchSize * k) + r
  BY <1>1, SizeAssumption, Division
<1> HIDE DEF r, k
<1>3. (BatchSize * k) % BatchSize = 0 /\ BatchSize * k \in Nat
  <2>1. k \in Nat
    BY <1>2
  <2>2. BatchSize * k \in Nat
    BY <2>1, SizeAssumption
  <2> QED
    BY <2>1, <2>2, SizeAssumption, Division
<1>4. i - a = BatchSize * k
  BY <1>1, <1>2, <1>3
<1>5. i \in Blocks /\ a <= i /\ i <= b /\ b < i + BatchSize
  BY <1>1, <1>2, <1>3, <1>4, SizeAssumption DEF Blocks
<1>6. i < z
  BY <1>1, <1>2, SizeAssumption DEF Numbers
<1>7. i \in BatchStarts(a, z)
  BY <1>3, <1>4, <1>5, <1>6 DEF BatchStarts
<1> QED
  BY <1>5, <1>7

(* Two batches of a range have no block in common. *)
LEMMA BatchesApart ==
  ASSUME NEW a \in Numbers, NEW z \in Numbers,
         NEW i \in BatchStarts(a, z), NEW j \in BatchStarts(a, z), i < j
  PROVE  i + BatchSize <= j
<1>1. /\ a \in Nat /\ i - a \in Nat /\ j - a \in Nat /\ i \in Nat /\ j \in Nat
      /\ (i - a) % BatchSize = 0 /\ (j - a) % BatchSize = 0 /\ i - a < j - a
  BY Sizes DEF BatchStarts, Numbers, Blocks
<1>2. (i - a) + BatchSize <= j - a
  BY <1>1, Sizes, MultiplesApart
<1> QED
  BY <1>1, <1>2, Sizes

LEMMA FiniteBlocks ==
  ASSUME NEW S \in SUBSET Blocks
  PROVE  IsFiniteSet(S)
<1>1. IsFiniteSet(1 .. MaxBlock)
  BY SizeAssumption, FS_Interval
<1> QED
  BY <1>1, FS_Subset DEF Blocks

(***************************************************************************)
(* The batches that pass the semaphore at the start are no more than it    *)
(* has permits, and as many if one is left over.                           *)
(***************************************************************************)
LEMMA FirstBatches ==
  ASSUME NEW a \in Numbers, NEW z \in Numbers
  PROVE  LET first == {i \in BatchStarts(a, z) : i < a + Concurrency * BatchSize}
         IN  /\ Cardinality(first) <= Concurrency
             /\ first # BatchStarts(a, z) => Cardinality(first) = Concurrency
<1> DEFINE first == {i \in BatchStarts(a, z) : i < a + Concurrency * BatchSize}
           permits == 0 .. Concurrency - 1
           place == [i \in first |-> (i - a) \div BatchSize]
<1>1. IsFiniteSet(permits) /\ Cardinality(permits) = Concurrency
  BY Sizes, FS_Interval
<1>2. a \in Nat /\ first \subseteq Blocks
  BY DEF Numbers, BatchStarts
<1>3. ASSUME NEW i \in first
      PROVE  /\ place[i] \in permits /\ i = a + (BatchSize * place[i])
  <2>1. i - a \in Nat /\ (i - a) % BatchSize = 0 /\ i \in Nat
    BY <1>2, Sizes DEF BatchStarts
  <2>2. i - a = BatchSize * place[i] /\ place[i] \in Nat
    <3>1. place[i] = (i - a) \div BatchSize
      OBVIOUS
    <3>2. /\ (i - a) \div BatchSize \in Nat
          /\ i - a = (BatchSize * ((i - a) \div BatchSize)) + 0
      BY <2>1, Division, SizeAssumption
    <3> QED
      BY <2>1, <3>1, <3>2, SizeAssumption
  <2>3. place[i] < Concurrency
    <3>1. BatchSize * place[i] < BatchSize * Concurrency
      BY <1>2, <2>1, <2>2, Sizes
    <3>2. ~(Concurrency < place[i])
      BY <2>2, <3>1, Sizes, ProductGrows
    <3> QED
      BY <2>2, <3>1, <3>2, Sizes
  <2> QED
    BY <1>2, <2>1, <2>2, <2>3, Sizes
<1>4. place \in Injection(first, permits)
  <2> HIDE DEF first, permits
  <2>1. place \in [first -> permits]
    BY <1>3
  <2>2. \A i, j \in first : place[i] = place[j] => i = j
    BY <1>3
  <2> QED
    BY <2>1, <2>2 DEF Injection, IsInjective
<1>5. Cardinality(first) <= Concurrency
  BY <1>1, <1>4, FS_Injection
<1>6. ASSUME first # BatchStarts(a, z)
      PROVE  Cardinality(first) = Concurrency
  <2>1. PICK w \in BatchStarts(a, z) : ~(w < a + Concurrency * BatchSize)
    BY <1>6
  <2>2. ASSUME NEW k \in permits
        PROVE  \E i \in first : place[i] = k
    <3> DEFINE i == a + (BatchSize * k)
    <3>1. BatchSize * k \in Nat /\ (BatchSize * k) + BatchSize <= BatchSize * Concurrency
      BY Sizes, ProductGrows
    <3>2. w \in Nat /\ w < z /\ w <= MaxBlock /\ a >= 1
      BY Sizes DEF BatchStarts, Blocks, Numbers
    <3>3. i < w /\ i < a + Concurrency * BatchSize
      BY <1>2, <2>1, <3>1, <3>2, Sizes
    <3>4. i \in Blocks /\ a <= i /\ i < z
      BY <1>2, <3>1, <3>2, <3>3, Sizes DEF Blocks, Numbers
    <3>5. i - a = BatchSize * k /\ (i - a) % BatchSize = 0
      <4>1. i - a = BatchSize * k
        BY <1>2, <3>1
      <4>2. k \in Nat /\ (BatchSize * k) % BatchSize = 0
        BY SizeAssumption, Division
      <4> QED
        BY <4>1, <4>2
    <3>6. i \in first
      BY <3>3, <3>4, <3>5 DEF BatchStarts
    <3>7. (BatchSize * k) \div BatchSize = k
      BY Sizes
    <3> QED
      BY <3>5, <3>6, <3>7
  <2>3. place \in Surjection(first, permits)
    <3> HIDE DEF first, permits
    <3> QED
      BY <1>3, <2>2 DEF Surjection
  <2> QED
    BY <1>1, <1>4, <2>3, FS_Injection
<1> QED
  BY <1>5, <1>6

-----------------------------------------------------------------------------
(* The steps of a call.                                                    *)

LEMMA CallsInit == InitCalls => CallInv
<1> SUFFICES ASSUME InitCalls
             PROVE  CallInv
  OBVIOUS
<1>1. ASSUME NEW p \in Processes
      PROVE  /\ TasksOK(p) /\ Batches(p) = {}
             /\ InState(p, "fetch") = {} /\ InState(p, "wait") = {}
  BY DEF InitCalls, TasksOK, Batches, InState
<1>2. Cardinality({}) = 0
  BY FS_EmptySet
<1>3. \A p \in Processes : PermitsOK(p)
  BY <1>1, <1>2, SizeAssumption DEF PermitsOK
<1>4. CallTypeOK
  BY <1>1, SizeAssumption
     DEF InitCalls, CallTypeOK, NoCall, CallRecord, Numbers
<1> QED
  BY <1>3, <1>4 DEF CallInv

(* What a process does keeps the permits of the others. *)
LEMMA OthersKeepPermits ==
  ASSUME NEW p \in Processes, PermitsOK(p), task'[p] = task[p]
  PROVE  PermitsOK(p)'
BY DEF PermitsOK, InState, Batches

LEMMA CallKeepsInv ==
  ASSUME CallInv, NEW p \in Processes, NEW a \in Numbers, NEW z \in Numbers,
         Call(p, a, z)
  PROVE  /\ CallInv'
         /\ Batches(p)' = BatchStarts(a, z) /\ InState(p, "done")' = {}
         /\ \A q \in Processes \ {p} : task'[q] = task[q]
<1> DEFINE starts == BatchStarts(a, z)
           first == {i \in starts : i < a + Concurrency * BatchSize}
           new == [i \in starts |-> Started(p, a, i)]
<1>1. /\ task' = [task EXCEPT ![p] = new]
      /\ call' = [call EXCEPT ![p] = [phase |-> "gather", after |-> a, before |-> z]]
      /\ broken' = [broken EXCEPT ![p] = FALSE]
      /\ UNCHANGED <<data, fails>>
  BY DEF Call
<1>2. /\ task' = [q \in Processes |-> IF q = p THEN new ELSE task[q]]
      /\ task'[p] = new
  BY <1>1 DEF CallInv, CallTypeOK
<1>3. new \in [starts -> {"wait", "fetch", "failed"}]
  BY DEF Started
<1>4. \A i \in starts :
        /\ new[i] = "fetch" <=> i \in first
        /\ new[i] = "wait" => i \notin first
  BY DEF Started
<1>5. DOMAIN new = starts
  OBVIOUS
<1> HIDE DEF starts, first, new
<1>6. /\ Batches(p)' = starts /\ InState(p, "done")' = {}
      /\ InState(p, "fetch")' = first \cap starts
      /\ InState(p, "wait")' # {} => first # starts
  <2>1. Batches(p)' = starts
    BY <1>2, <1>5 DEF Batches
  <2>2. InState(p, "done")' = {}
    BY <1>2, <1>3, <2>1 DEF InState
  <2>3. /\ InState(p, "fetch")' = {i \in starts : new[i] = "fetch"}
        /\ InState(p, "wait")' = {i \in starts : new[i] = "wait"}
    BY <1>2, <2>1 DEF InState
  <2>4. InState(p, "fetch")' = first \cap starts
    BY <1>4, <2>3
  <2>5. InState(p, "wait")' # {} => first # starts
    BY <1>4, <2>3
  <2> QED
    BY <2>1, <2>2, <2>4, <2>5
<1>7. first \cap starts = first
  BY DEF first
<1>8. /\ Cardinality(first) <= Concurrency
      /\ first # starts => Cardinality(first) = Concurrency
  BY FirstBatches DEF first, starts
<1>9. PermitsOK(p)'
  BY <1>6, <1>7, <1>8 DEF PermitsOK
<1>10. \A q \in Processes \ {p} : task'[q] = task[q]
  BY <1>2
<1>11. \A q \in Processes : PermitsOK(q)'
  BY <1>9, <1>10, OthersKeepPermits DEF CallInv
<1>12. \A q \in Processes : TasksOK(q)'
  <2>1. TasksOK(p)'
    BY <1>2, <1>3, <1>5 DEF TasksOK, Batches, TaskStates, starts, BatchStarts
  <2>2. ASSUME NEW q \in Processes \ {p}
        PROVE  TasksOK(q)'
    BY <1>10 DEF TasksOK, Batches, CallInv, CallTypeOK
  <2> QED
    BY <2>1, <2>2
<1>13. CallTypeOK'
  <2>1. call' \in [Processes -> CallRecord] /\ broken' \in [Processes -> BOOLEAN]
    BY <1>1 DEF CallInv, CallTypeOK, CallRecord
  <2>2. task' = [q \in Processes |-> task'[q]]
    BY <1>2
  <2> QED
    BY <1>1, <1>12, <2>1, <2>2 DEF CallInv, CallTypeOK
<1> QED
  BY <1>6, <1>10, <1>11, <1>13 DEF CallInv, starts

(***************************************************************************)
(* Batch i ends: it gives its permit back, and if a batch waits, the first *)
(* one takes it.                                                           *)
(***************************************************************************)
LEMMA EndedFacts ==
  ASSUME CallTypeOK, NEW p \in Processes, NEW i \in Batches(p),
         task[p][i] = "fetch", NEW status \in {"done", "failed"},
         task' = Ended(p, i, status)
  PROVE  /\ task' = [q \in Processes |-> task'[q]]
         /\ \A q \in Processes \ {p} : task'[q] = task[q]
         /\ Batches(p)' = Batches(p) /\ TasksOK(p)'
         /\ InState(p, "done")' \subseteq
               InState(p, "done") \cup (IF status = "done" THEN {i} ELSE {})
         /\ InState(p, "wait")' \subseteq InState(p, "wait")
         /\ IF InState(p, "wait") = {}
              THEN InState(p, "fetch")' = InState(p, "fetch") \ {i}
              ELSE \E w \in InState(p, "wait") :
                     InState(p, "fetch")' = (InState(p, "fetch") \ {i}) \cup {w}
<1> DEFINE left == InState(p, "wait")
           woken == IF left = {} THEN {} ELSE {Min(left)}
           new == [j \in Batches(p) |->
                     IF j = i THEN status
                     ELSE IF j \in woken THEN "fetch" ELSE task[p][j]]
<1>1. task' = [task EXCEPT ![p] = new]
  BY DEF Ended
<1>2. /\ Batches(p) \subseteq Blocks /\ task[p] \in [Batches(p) -> TaskStates]
      /\ task = [q \in Processes |-> task[q]]
  BY DEF CallTypeOK, TasksOK
<1>3. left \subseteq Batches(p) /\ left \in SUBSET Nat
  BY <1>2, Sizes DEF InState
<1>4. woken \subseteq left /\ (left # {} => woken = {Min(left)})
  BY <1>3, MinIsLeast
<1>5. new \in [Batches(p) -> TaskStates] /\ DOMAIN new = Batches(p)
  BY <1>2 DEF TaskStates
<1>6. /\ new[i] = status
      /\ \A j \in Batches(p) \ {i} :
           new[j] = IF j \in woken THEN "fetch" ELSE task[p][j]
  OBVIOUS
<1>7. \A j \in left : task[p][j] = "wait"
  BY DEF InState
<1> HIDE DEF new, left, woken
<1>8. /\ task' = [q \in Processes |-> IF q = p THEN new ELSE task[q]]
      /\ task'[p] = new /\ \A q \in Processes \ {p} : task'[q] = task[q]
  BY <1>1, <1>2
<1>9. Batches(p)' = Batches(p) /\ TasksOK(p)'
  BY <1>2, <1>5, <1>8 DEF Batches, TasksOK
<1>10. InState(p, "done")' \subseteq
         InState(p, "done") \cup (IF status = "done" THEN {i} ELSE {})
  BY <1>4, <1>6, <1>8, <1>9 DEF InState
<1>11. InState(p, "wait")' \subseteq left
  BY <1>4, <1>6, <1>8, <1>9 DEF InState, left
<1>12. InState(p, "fetch")' = (InState(p, "fetch") \ {i}) \cup woken
  <2>1. /\ i \notin woken /\ status # "fetch"
        /\ woken \subseteq Batches(p)
    BY <1>3, <1>4, <1>7
  <2>2. \A j \in Batches(p) :
          new[j] = "fetch" <=> (j # i /\ task[p][j] = "fetch") \/ j \in woken
    BY <1>6, <2>1
  <2> QED
    BY <1>8, <1>9, <2>1, <2>2 DEF InState
<1>13. CASE left = {}
  BY <1>4, <1>8, <1>9, <1>10, <1>11, <1>12, <1>13 DEF left
<1>14. CASE left # {}
  <2>1. Min(left) \in left /\ woken = {Min(left)}
    BY <1>3, <1>4, <1>14, MinIsLeast
  <2> QED
    BY <1>8, <1>9, <1>10, <1>11, <1>12, <1>14, <2>1 DEF left
<1> QED
  BY <1>13, <1>14

LEMMA EndedKeepsPermits ==
  ASSUME CallInv, NEW p \in Processes, NEW i \in Batches(p),
         task[p][i] = "fetch", NEW status \in {"done", "failed"},
         task' = Ended(p, i, status)
  PROVE  PermitsOK(p)'
<1> DEFINE now == InState(p, "fetch")
<1>1. /\ now \subseteq Blocks /\ IsFiniteSet(now) /\ i \in now
      /\ PermitsOK(p)
  BY FiniteBlocks DEF CallInv, CallTypeOK, TasksOK, InState
<1>2. /\ IsFiniteSet(now \ {i}) /\ Cardinality(now \ {i}) = Cardinality(now) - 1
      /\ Cardinality(now) \in Nat
  BY <1>1, FS_RemoveElement, FS_CardinalityType
<1>3. CASE InState(p, "wait") = {}
  <2>1. InState(p, "fetch")' = now \ {i} /\ InState(p, "wait")' = {}
    BY <1>3, EndedFacts DEF CallInv
  <2>2. Cardinality(now) <= Concurrency
    BY <1>1 DEF PermitsOK
  <2>3. Cardinality(now \ {i}) <= Concurrency
    BY <1>1, <1>2, <2>2, SizeAssumption
  <2> QED
    BY <2>1, <2>3 DEF PermitsOK
<1>4. CASE InState(p, "wait") # {}
  <2>1. PICK w \in InState(p, "wait") :
          InState(p, "fetch")' = (now \ {i}) \cup {w}
    BY <1>4, EndedFacts DEF CallInv
  <2>2. w \notin now
    BY DEF InState
  <2>3. Cardinality((now \ {i}) \cup {w}) = Cardinality(now)
    <3>1. w \notin now \ {i}
      BY <2>2
    <3>2. Cardinality((now \ {i}) \cup {w}) = Cardinality(now \ {i}) + 1
      BY <1>2, <3>1, FS_AddElement
    <3> QED
      BY <1>1, <1>2, <3>2
  <2>4. Cardinality(now) = Concurrency
    BY <1>1, <1>4 DEF PermitsOK
  <2> QED
    BY <2>1, <2>3, <2>4, SizeAssumption DEF PermitsOK
<1> QED
  BY <1>3, <1>4

LEMMA BatchStepKeepsInv ==
  ASSUME CallInv, NEW p \in Processes, NEW i \in Batches(p), BatchStep(p, i)
  PROVE  /\ CallInv'
         /\ UNCHANGED call /\ Gathering(p)
         /\ task[p][i] = "fetch" /\ Batches(p)' = Batches(p)
         /\ \A q \in Processes \ {p} : task'[q] = task[q]
         /\ \/ /\ data' = Written(p, i, "done")
               /\ InState(p, "done")' \subseteq InState(p, "done") \cup {i}
            \/ /\ UNCHANGED data \/ data' = Written(p, i, "half")
               /\ InState(p, "done")' \subseteq InState(p, "done")
<1>1. /\ UNCHANGED call /\ Gathering(p) /\ task[p][i] = "fetch"
      /\ broken' \in [Processes -> BOOLEAN] /\ fails' \in Nat
  <2>1. broken \in [Processes -> BOOLEAN] /\ fails \in Nat
    BY DEF CallInv, CallTypeOK
  <2>2. /\ UNCHANGED call /\ Gathering(p) /\ task[p][i] = "fetch"
        /\ broken' \in {broken, [broken EXCEPT ![p] = TRUE]}
        /\ fails' \in {fails, fails + 1}
    <3>1. CASE BatchSucceeds(p, i) \/ WriteRefused(p, i)
      BY <3>1 DEF BatchSucceeds, WriteRefused
    <3>2. CASE ReadFails(p, i)
      BY <3>2 DEF ReadFails
    <3>3. CASE WriteFails(p, i)
      BY <3>3 DEF WriteFails
    <3> QED
      BY <3>1, <3>2, <3>3 DEF BatchStep
  <2>3. broken' \in [Processes -> BOOLEAN]
    <3>1. CASE broken' = broken
      BY <2>1, <3>1
    <3>2. CASE broken' = [broken EXCEPT ![p] = TRUE]
      BY <2>1, <3>2
    <3> QED
      BY <2>2, <3>1, <3>2
  <2>4. fails' \in Nat
    BY <2>1, <2>2
  <2> QED
    BY <2>2, <2>3, <2>4
<1>2. PICK status \in {"done", "failed"} :
        /\ task' = Ended(p, i, status)
        /\ \/ status = "done" /\ data' = Written(p, i, "done")
           \/ /\ status = "failed"
              /\ UNCHANGED data \/ data' = Written(p, i, "half")
  BY DEF BatchStep, BatchSucceeds, ReadFails, WriteFails, WriteRefused
<1>3. CallTypeOK
  BY DEF CallInv
<1>4. /\ task' = [q \in Processes |-> task'[q]]
      /\ \A q \in Processes \ {p} : task'[q] = task[q]
      /\ Batches(p)' = Batches(p) /\ TasksOK(p)'
      /\ InState(p, "done")' \subseteq
            InState(p, "done") \cup (IF status = "done" THEN {i} ELSE {})
  BY <1>1, <1>2, <1>3, EndedFacts
<1>5. PermitsOK(p)'
  BY <1>1, <1>2, EndedKeepsPermits
<1>6. ASSUME NEW q \in Processes
      PROVE  TasksOK(q)' /\ PermitsOK(q)'
  BY <1>4, <1>5, OthersKeepPermits DEF TasksOK, Batches, CallInv, CallTypeOK
<1>7. data' \in [Blocks -> {"none", "half", "done"}]
  BY <1>2, <1>3 DEF Written, CallTypeOK
<1>8. CallInv'
  BY <1>1, <1>3, <1>4, <1>6, <1>7 DEF CallInv, CallTypeOK
<1> QED
  BY <1>1, <1>2, <1>4, <1>8

(* The batches of a process are gone; it holds no permit. *)
LEMMA EmptyKeepsPermits ==
  ASSUME CallTypeOK, NEW p \in Processes,
         task' = [task EXCEPT ![p] = [i \in {} |-> "done"]]
  PROVE  /\ task' = [q \in Processes |-> task'[q]]
         /\ \A q \in Processes \ {p} : task'[q] = task[q]
         /\ Batches(p)' = {} /\ TasksOK(p)' /\ PermitsOK(p)'
         /\ InState(p, "done")' = {}
<1> DEFINE none == [i \in {} |-> "done"]
<1>1. task' = [q \in Processes |-> IF q = p THEN none ELSE task[q]]
  BY DEF CallTypeOK
<1>2. DOMAIN none = {} /\ none \in [{} -> TaskStates]
  OBVIOUS
<1> HIDE DEF none
<1>3. Batches(p)' = {} /\ TasksOK(p)'
  BY <1>1, <1>2 DEF Batches, TasksOK
<1>4. /\ InState(p, "fetch")' = {} /\ InState(p, "wait")' = {}
      /\ InState(p, "done")' = {}
  BY <1>3 DEF InState
<1>5. PermitsOK(p)'
  BY <1>4, FS_EmptySet, SizeAssumption DEF PermitsOK
<1> QED
  BY <1>1, <1>3, <1>4, <1>5

LEMMA LeaveKeepsInv ==
  ASSUME CallInv, NEW p \in Processes,
         NEW outcome \in {"returned", "raised"}, Leave(p, outcome)
  PROVE  /\ CallInv'
         /\ UNCHANGED data /\ call' = [call EXCEPT ![p].phase = outcome]
         /\ Batches(p)' = {} /\ InState(p, "done")' = {}
         /\ \A q \in Processes \ {p} : task'[q] = task[q]
<1>1. /\ call' = [call EXCEPT ![p].phase = outcome]
      /\ task' = [task EXCEPT ![p] = [i \in {} |-> "done"]]
      /\ UNCHANGED <<broken, data, fails>> /\ CallTypeOK
  BY DEF Leave, CallInv
<1>2. /\ task' = [q \in Processes |-> task'[q]]
      /\ \A q \in Processes \ {p} : task'[q] = task[q]
      /\ Batches(p)' = {} /\ TasksOK(p)' /\ PermitsOK(p)'
      /\ InState(p, "done")' = {}
  BY <1>1, EmptyKeepsPermits
<1>3. ASSUME NEW q \in Processes
      PROVE  TasksOK(q)' /\ PermitsOK(q)'
  BY <1>2, OthersKeepPermits DEF TasksOK, Batches, CallInv, CallTypeOK
<1>4. call' \in [Processes -> CallRecord]
  BY <1>1 DEF CallTypeOK, CallRecord
<1> QED
  BY <1>1, <1>2, <1>3, <1>4 DEF CallInv, CallTypeOK

LEMMA CommandStepKeepsInv ==
  ASSUME CallInv, NEW p \in Processes, CommandStep(p)
  PROVE  CallInv'
<1>1. ASSUME NEW a \in Blocks, Call(p, a, MaxBlock + 1)
      PROVE  CallInv'
  BY <1>1, Sizes, CallKeepsInv DEF Numbers
<1>2. ASSUME NEW i \in Batches(p), BatchStep(p, i)
      PROVE  CallInv'
  BY <1>2, BatchStepKeepsInv
<1>3. CASE Return(p) \/ Raise(p) \/ Cancel(p)
  BY <1>3, LeaveKeepsInv DEF Return, Raise, Cancel
<1>4. CASE CommandEnds(p)
  <2>1. call' \in [Processes -> CallRecord]
    BY <1>4, SizeAssumption
       DEF CommandEnds, CallInv, CallTypeOK, CallRecord, NoCall, Numbers
  <2> QED
    BY <1>4, <2>1
       DEF CommandEnds, CallInv, CallTypeOK, TasksOK, PermitsOK, InState, Batches
<1> QED
  BY <1>1, <1>2, <1>3, <1>4 DEF CommandStep

(***************************************************************************)
(* A command line may read with as many batches at a time as there are     *)
(* permits, and while one waits reads with that many: no end of a batch,   *)
(* whichever, and no signal loses a permit or a wake-up.                   *)
(***************************************************************************)
THEOREM CommandsUseAllPermits == CommandSpec => []PermitsInUse
<1>1. InitCalls => CallInv
  BY CallsInit
<1>2. CallInv /\ [\E p \in Processes : CommandStep(p)]_callVars => CallInv'
  <2> SUFFICES ASSUME CallInv, [\E p \in Processes : CommandStep(p)]_callVars
               PROVE  CallInv'
    OBVIOUS
  <2>1. CASE UNCHANGED callVars
    BY <2>1 DEF callVars, CallInv, CallTypeOK, TasksOK, PermitsOK, InState, Batches
  <2> QED
    BY <2>1, CommandStepKeepsInv
<1>3. CallInv => PermitsInUse
  BY DEF CallInv, PermitsOK, PermitsInUse
<1> QED
  BY <1>1, <1>2, <1>3, PTL DEF CommandSpec

-----------------------------------------------------------------------------
(* Messages and their blocks.                                              *)

LEMMA MessageFacts ==
  ASSUME NEW m \in Message
  PROVE  /\ m.after \in Numbers /\ m.before \in Numbers /\ m.tries \in Nat
         /\ m = [after |-> m.after, before |-> m.before, tries |-> m.tries]
         /\ Inside(m) # {} /\ Inside(m) \subseteq Blocks
         /\ m # NoMessage
<1>1. /\ m \in [after : Numbers, before : Numbers, tries : Nat]
      /\ m.after < m.before
  BY DEF Message
<1>2. m.after \in Inside(m)
  BY <1>1, Sizes DEF Inside, Blocks, Numbers
<1>3. m \in [after : Int, before : Int, tries : Int]
  BY <1>1, Sizes DEF Numbers
<1> QED
  BY <1>1, <1>2, <1>3, NoMessageAssumption DEF Inside

LEMMA WhereMessagesAre ==
  ASSUME NEW m
  PROVE  /\ m \in InFlight <=> \/ m \in queue \cup dead
                               \/ \E w \in Workers : Holding(w) /\ held[w] = m
         /\ m \in Messages <=> m \in InFlight \/ m \in acked
BY DEF InFlight, Messages

(* What a worker has is in flight, and is a message. *)
LEMMA HeldFacts ==
  ASSUME QueueTypeOK, NEW w \in Workers, Holding(w)
  PROVE  held[w] \in Message /\ held[w] \in InFlight /\ held[w] \in Messages
BY WhereMessagesAre DEF QueueTypeOK, Holding

LEMMA MessagesAreMessages ==
  ASSUME QueueTypeOK
  PROVE  Messages \subseteq Message
BY WhereMessagesAre DEF QueueTypeOK, Holding

(* A process that has batches is a worker with a message, on its range. *)
LEMMA BatchesAreHeld ==
  ASSUME QueueInv, NEW p \in Processes, NEW i \in Batches(p)
  PROVE  /\ p \in Workers /\ Holding(p) /\ Gathering(p)
         /\ i \in BatchStarts(call[p].after, call[p].before)
         /\ call[p].after \in Numbers /\ call[p].before \in Numbers
         /\ BatchBlocks(p, i) \subseteq Inside(held[p])
<1>1. CallIsHeld(p) /\ BatchesOK(p) /\ call[p] \in CallRecord
  BY DEF QueueInv, WorkInv, CallInv, CallTypeOK
<1>2. Gathering(p) /\ i \in BatchStarts(call[p].after, call[p].before)
  BY <1>1 DEF BatchesOK
<1>3. /\ p \in Workers /\ Holding(p)
      /\ call[p].after = held[p].after /\ call[p].before = held[p].before
  BY <1>1, <1>2 DEF CallIsHeld, Gathering
<1>4. call[p].after \in Numbers /\ call[p].before \in Numbers
  BY <1>1 DEF CallRecord
<1>5. BatchBlocks(p, i) \subseteq Inside(held[p])
  BY <1>2, <1>3, <1>4, Sizes DEF BatchBlocks, Inside, BatchStarts, Blocks, Numbers
<1> QED
  BY <1>2, <1>3, <1>4, <1>5

(* Two workers have no block in common. *)
LEMMA WorkersApart ==
  ASSUME QueueInv, NEW v \in Workers, NEW w \in Workers, v # w,
         Holding(v), Holding(w)
  PROVE  Inside(held[v]) \cap Inside(held[w]) = {}
<1>1. held[v] # held[w]
  BY DEF QueueInv, RangeInv, PlacesApart
<1>2. held[v] \in Messages /\ held[w] \in Messages
  BY HeldFacts DEF QueueInv
<1> QED
  BY <1>1, <1>2 DEF QueueInv, RangeInv, RangesApart

(* What worker w does to its own blocks is nothing to another process. *)
LEMMA OthersKeepWork ==
  ASSUME QueueInv, NEW w \in Workers, NEW p \in Processes \ {w},
         task'[p] = task[p], call'[p] = call[p], p \in Workers => held'[p] = held[p],
         \A b \in Blocks : \/ data'[b] = data[b]
                           \/ Holding(w) /\ b \in Inside(held[w])
  PROVE  CallIsHeld(p)' /\ BatchesOK(p)'
<1>1. CallIsHeld(p) /\ BatchesOK(p)
  BY DEF QueueInv, WorkInv
<1>2. CallIsHeld(p)'
  BY <1>1 DEF CallIsHeld, Holding
<1>3. /\ Batches(p)' = Batches(p) /\ InState(p, "done")' = InState(p, "done")
      /\ Gathering(p)' <=> Gathering(p)
      /\ \A i : BatchBlocks(p, i)' = BatchBlocks(p, i)
      /\ Inside(call[p])' = Inside(call[p])
  BY DEF Batches, InState, Gathering, BatchBlocks, Inside
<1>4. ASSUME p \in Workers, Holding(p), NEW b \in Inside(held[p])
      PROVE  data'[b] = data[b]
  BY <1>4, WorkersApart DEF Inside
<1>5. ASSUME NEW i \in InState(p, "done"), NEW b \in BatchBlocks(p, i)
      PROVE  data'[b] = "done"
  <2>1. i \in Batches(p)
    BY DEF InState
  <2>2. p \in Workers /\ Holding(p) /\ b \in Inside(held[p])
    BY <2>1, BatchesAreHeld
  <2> QED
    BY <1>1, <1>4, <2>2 DEF BatchesOK
<1>6. ASSUME call[p].phase = "returned", NEW b \in Inside(call[p])
      PROVE  data'[b] = "done"
  <2>1. p \in Workers /\ Holding(p) /\ b \in Inside(held[p])
    BY <1>1, <1>6 DEF CallIsHeld, Inside
  <2> QED
    BY <1>1, <1>4, <1>6, <2>1 DEF BatchesOK
<1>7. BatchesOK(p)'
  BY <1>1, <1>3, <1>5, <1>6 DEF BatchesOK
<1> QED
  BY <1>2, <1>7

(* No acknowledged message has a block that worker w may write. *)
LEMMA AckedStayDone ==
  ASSUME QueueInv, NEW w \in Workers,
         \A b \in Blocks : \/ data'[b] = data[b]
                           \/ Holding(w) /\ b \in Inside(held[w])
  PROVE  \A m \in acked : \A b \in Inside(m) : data'[b] = "done"
<1> SUFFICES ASSUME NEW m \in acked, NEW b \in Inside(m)
             PROVE  data'[b] = "done"
  OBVIOUS
<1>1. data[b] = "done" /\ b \in Blocks
  BY DEF QueueInv, WorkInv, UnfinishedIsInFlight, Inside
<1>2. ASSUME Holding(w), b \in Inside(held[w])
      PROVE  FALSE
  <2>1. held[w] # m
    BY <1>2 DEF QueueInv, RangeInv, PlacesApart
  <2>2. held[w] \in Messages /\ m \in Messages
    BY <1>2, HeldFacts, WhereMessagesAre DEF QueueInv
  <2> QED
    BY <1>2, <2>1, <2>2 DEF QueueInv, RangeInv, RangesApart
<1> QED
  BY <1>1, <1>2

-----------------------------------------------------------------------------
(* The initial states.                                                     *)

LEMMA QueueInit == Init => QueueInv
<1> SUFFICES ASSUME Init
             PROVE  QueueInv
  OBVIOUS
<1>1. CallInv
  BY CallsInit DEF Init
<1>2. /\ command \in Numbers \X Numbers /\ Start \in Numbers /\ End \in Numbers
      /\ at = Start
  BY CommandsAssumption DEF Init, Numbers, Start, End
<1>3. QueueTypeOK
  BY <1>1, <1>2, Sizes DEF Init, CallInv, QueueTypeOK, Numbers
<1>4. \A w \in Workers : ~Holding(w)
  BY DEF Init, Holding
<1>5. Messages = {} /\ InFlight = {}
  BY <1>4 DEF Init, Messages, InFlight
<1>6. SentBlocks = {} /\ SendingOK
  <2>1. Start \in Int /\ End \in Int /\ at = Start /\ \A b \in Blocks : b \in Int
    BY <1>2, Sizes DEF Numbers
  <2>2. SendingOK
    BY <2>1 DEF SendingOK
  <2>3. CASE Upwards
    BY <2>1, <2>2, <2>3 DEF SentBlocks, Lesser, Upwards
  <2>4. CASE ~Upwards
    BY <2>1, <2>2, <2>4 DEF SentBlocks, Greater, Upwards
  <2> QED
    BY <2>3, <2>4
<1>7. RangeInv
  BY <1>4, <1>5, <1>6 DEF Init, RangeInv, PlacesApart, RangesApart
<1>8. ASSUME NEW p \in Processes
      PROVE  CallIsHeld(p) /\ BatchesOK(p)
  <2>1. call[p].phase = "idle" /\ Batches(p) = {} /\ InState(p, "done") = {}
    BY DEF Init, InitCalls, NoCall, Batches, InState
  <2> QED
    BY <1>4, <2>1 DEF CallIsHeld, BatchesOK, Gathering
<1>9. UnfinishedIsInFlight
  BY DEF Init, InitCalls, UnfinishedIsInFlight
<1> QED
  BY <1>1, <1>3, <1>7, <1>8, <1>9 DEF QueueInv, WorkInv

-----------------------------------------------------------------------------
(* The command sends a message.                                            *)

(* The next message is a range of blocks right after those already sent. *)
LEMMA NextRangeFacts ==
  ASSUME QueueTypeOK, SendingOK, MoreToSend, SendMessage,
         NEW m, m = [after  |-> NextRange.after, before |-> NextRange.before,
                     tries  |-> 0]
  PROVE  /\ m \in Message /\ at' \in Int /\ SendingOK'
         /\ Inside(m) \cap SentBlocks = {}
         /\ SentBlocks' = SentBlocks \cup Inside(m)
<1>1. /\ Start \in Int /\ End \in Int /\ at \in Int /\ Start \in Numbers /\ End \in Numbers
      /\ Start' = Start /\ End' = End /\ (Upwards' <=> Upwards)
      /\ MessageSize \in Nat \ {0}
      /\ at' = IF Upwards THEN at + MessageSize ELSE at - MessageSize
  BY QueueBoundAssumption, Sizes
     DEF QueueTypeOK, SendMessage, Start, End, Upwards, Numbers
<1>2. at' \in Int
  BY <1>1
<1>3. CASE Upwards
  <2>1. /\ m = [after |-> at, before |-> Lesser(at + MessageSize, End), tries |-> 0]
        /\ Start <= at /\ at < End /\ at' = at + MessageSize
    BY <1>1, <1>3 DEF NextRange, SendingOK, MoreToSend
  <2>2. at < m.before /\ m.before <= End
    BY <1>1, <2>1 DEF Lesser
  <2>3. m \in Message
    BY <1>1, <2>1, <2>2, Sizes DEF Message, Numbers, Lesser
  <2>4. SendingOK'
    BY <1>1, <1>3, <2>1 DEF SendingOK
  <2>5. SentBlocks = {b \in Blocks : Start <= b /\ b < at}
    BY <1>1, <1>3, <2>1 DEF SentBlocks, Lesser
  <2>6. SentBlocks' = {b \in Blocks : Start <= b /\ b < m.before}
    BY <1>1, <1>3, <2>1 DEF SentBlocks, Blocks
  <2>7. Inside(m) = {b \in Blocks : at <= b /\ b < m.before}
    BY <2>1 DEF Inside
  <2>8. \A b \in Blocks : b \in Int
    BY Sizes
  <2>9. m.before \in Int
    BY <2>3, Sizes DEF Message, Numbers
  <2> QED
    BY <1>1, <1>2, <2>1, <2>2, <2>3, <2>4, <2>5, <2>6, <2>7, <2>8, <2>9
<1>4. CASE ~Upwards
  <2>1. /\ m = [after |-> Greater(at - MessageSize, End), before |-> at, tries |-> 0]
        /\ at <= Start /\ End < at /\ at' = at - MessageSize
    BY <1>1, <1>4 DEF NextRange, SendingOK, MoreToSend
  <2>2. m.after < at /\ End <= m.after
    BY <1>1, <2>1 DEF Greater
  <2>3. m \in Message
    BY <1>1, <2>1, <2>2, Sizes DEF Message, Numbers, Greater
  <2>4. SendingOK'
    BY <1>1, <1>4, <2>1 DEF SendingOK
  <2>5. SentBlocks = {b \in Blocks : at <= b /\ b < Start}
    BY <1>1, <1>4, <2>1 DEF SentBlocks, Greater
  <2>6. SentBlocks' = {b \in Blocks : m.after <= b /\ b < Start}
    BY <1>1, <1>4, <2>1 DEF SentBlocks, Blocks
  <2>7. Inside(m) = {b \in Blocks : m.after <= b /\ b < at}
    BY <2>1 DEF Inside
  <2>8. \A b \in Blocks : b \in Int
    BY Sizes
  <2>9. m.after \in Int
    BY <2>3, Sizes DEF Message, Numbers
  <2> QED
    BY <1>1, <1>2, <2>1, <2>2, <2>3, <2>4, <2>5, <2>6, <2>7, <2>8, <2>9
<1> QED
  BY <1>3, <1>4

LEMMA SendKeepsInv ==
  ASSUME QueueInv, SendMessage
  PROVE  QueueInv'
<1> DEFINE m == [after  |-> NextRange.after, before |-> NextRange.before,
                 tries  |-> 0]
<1>1. /\ m \in Message /\ at' \in Int /\ SendingOK'
      /\ Inside(m) \cap SentBlocks = {}
      /\ SentBlocks' = SentBlocks \cup Inside(m)
  BY NextRangeFacts DEF SendMessage, QueueInv, RangeInv
<1>2. /\ queue' = queue \cup {m}
      /\ UNCHANGED <<callVars, command, held, acked, dead, crashes>>
  BY DEF SendMessage
<1> HIDE DEF m
<1>3. Inside(m) # {}
  BY <1>1, MessageFacts
<1>4. m \notin Messages
  BY <1>1, <1>3 DEF QueueInv, RangeInv, RangesApart
<1>5. Messages' = Messages \cup {m} /\ InFlight' = InFlight \cup {m}
  BY <1>2 DEF Messages, InFlight, Holding
<1>6. CallInv' /\ QueueTypeOK'
  BY <1>1, <1>2
     DEF QueueInv, CallInv, callVars, CallTypeOK, TasksOK, PermitsOK, InState, Batches,
         QueueTypeOK
<1>7. PlacesApart'
  <2>1. m \notin acked \cup dead /\ \A w \in Workers : Holding(w) => held[w] # m
    BY <1>4, WhereMessagesAre
  <2> QED
    BY <1>2, <2>1 DEF QueueInv, RangeInv, PlacesApart, Holding
<1>8. RangesApart'
  <2>1. \A n : Inside(n)' = Inside(n)
    BY DEF Inside
  <2> QED
    BY <1>1, <1>5, <2>1 DEF QueueInv, RangeInv, RangesApart
<1>9. ASSUME NEW p \in Processes
      PROVE  CallIsHeld(p)' /\ BatchesOK(p)'
  BY <1>2 DEF QueueInv, WorkInv, CallIsHeld, BatchesOK, callVars, Holding, Batches,
              Gathering, InState, BatchBlocks, Inside
<1>10. UnfinishedIsInFlight'
  BY <1>2, <1>5 DEF QueueInv, WorkInv, UnfinishedIsInFlight, callVars, Inside
<1> QED
  BY <1>1, <1>6, <1>7, <1>8, <1>9, <1>10 DEF QueueInv, RangeInv, WorkInv

-----------------------------------------------------------------------------
(* The workers.                                                            *)

(* A message that only changes places changes no range. *)
LEMMA MovesKeepRanges ==
  ASSUME SendingOK, RangesApart, Messages' = Messages, UNCHANGED <<command, at>>
  PROVE  SendingOK' /\ RangesApart'
<1>1. (\A m : Inside(m)' = Inside(m)) /\ SentBlocks' = SentBlocks
  BY DEF Inside, SentBlocks, Upwards, Start, End
<1>2. SendingOK'
  BY DEF SendingOK, Upwards, Start, End
<1> QED
  BY <1>1, <1>2 DEF RangesApart

LEMMA TakeKeepsInv ==
  ASSUME QueueInv, NEW w \in Workers, Take(w)
  PROVE  QueueInv'
<1>1. PICK m \in queue : /\ held[w] = NoMessage
                         /\ queue' = queue \ {m}
                         /\ held' = [held EXCEPT ![w] = m]
                         /\ Call(w, m.after, m.before)
  BY DEF Take
<1>2. /\ m \in Message /\ m.after \in Numbers /\ m.before \in Numbers
      /\ m # NoMessage /\ w \in Processes /\ ~Holding(w)
  BY <1>1, MessageFacts, WorkersAssumption DEF QueueInv, QueueTypeOK, Holding
<1>3. /\ call' = [call EXCEPT ![w] =
                    [phase |-> "gather", after |-> m.after, before |-> m.before]]
      /\ UNCHANGED <<data, command, at, acked, dead, crashes>>
      /\ \A v \in Workers : held'[v] = IF v = w THEN m ELSE held[v]
      /\ \A p \in Processes : call'[p] =
           IF p = w THEN [phase |-> "gather", after |-> m.after, before |-> m.before]
                    ELSE call[p]
  BY <1>1, <1>2 DEF Take, Call, QueueInv, CallInv, CallTypeOK, QueueTypeOK
<1>4. /\ CallInv'
      /\ Batches(w)' = BatchStarts(m.after, m.before) /\ InState(w, "done")' = {}
      /\ \A p \in Processes \ {w} : task'[p] = task[p]
  BY <1>1, <1>2, CallKeepsInv DEF QueueInv
<1>5. QueueTypeOK'
  <2>1. held' \in [Workers -> Message \cup {NoMessage}]
    BY <1>1, <1>2 DEF QueueInv, QueueTypeOK
  <2> QED
    BY <1>1, <1>3, <1>4, <2>1 DEF QueueInv, QueueTypeOK, CallInv
<1>6. (\A v \in Workers \ {w} : Holding(v)' <=> Holding(v)) /\ Holding(w)'
  BY <1>2, <1>3 DEF Holding
<1>7. InFlight' = InFlight /\ Messages' = Messages
  <2>1. \A n : n \in InFlight' <=> n \in InFlight
    <3> TAKE n
    <3>1. (\E v \in Workers : Holding(v)' /\ held'[v] = n)
            <=> n = m \/ \E v \in Workers : Holding(v) /\ held[v] = n
      BY <1>2, <1>3, <1>6
    <3> QED
      BY <1>1, <1>3, <3>1 DEF InFlight
  <2>2. InFlight' = InFlight
    BY <2>1
  <2> QED
    BY <1>3, <2>2 DEF Messages
<1>8. PlacesApart'
  <2>1. \A v \in Workers : Holding(v) => held[v] # m
    BY <1>1 DEF QueueInv, RangeInv, PlacesApart
  <2>2. /\ queue' \cap acked' = {} /\ queue' \cap dead' = {} /\ acked' \cap dead' = {}
        /\ m \notin queue' \cup acked' \cup dead'
    BY <1>1, <1>3 DEF QueueInv, RangeInv, PlacesApart
  <2>3. ASSUME NEW v \in Workers, Holding(v)'
        PROVE  /\ held'[v] \notin queue' \cup acked' \cup dead'
               /\ \A u \in Workers : held'[u] = held'[v] => u = v
    <3>1. CASE v = w
      <4>1. held'[v] = m
        BY <1>3, <3>1
      <4>2. ASSUME NEW u \in Workers, u # w
            PROVE  held'[u] # m
        BY <1>2, <1>3, <2>1, <4>2 DEF Holding
      <4> QED
        BY <2>2, <3>1, <4>1, <4>2
    <3>2. CASE v # w
      <4>1. Holding(v) /\ held'[v] = held[v] /\ held[v] # m
        BY <1>3, <1>6, <2>1, <2>3, <3>2
      <4> QED
        BY <1>1, <1>3, <3>2, <4>1 DEF QueueInv, RangeInv, PlacesApart
    <3> QED
      BY <3>1, <3>2
  <2> QED
    BY <2>2, <2>3 DEF PlacesApart
<1>9. SendingOK' /\ RangesApart'
  BY <1>3, <1>7, MovesKeepRanges DEF QueueInv, RangeInv
<1>10. ASSUME NEW p \in Processes
       PROVE  CallIsHeld(p)' /\ BatchesOK(p)'
  <2>1. CASE p = w
    BY <1>3, <1>4, <1>6, <2>1 DEF CallIsHeld, BatchesOK, Gathering
  <2>2. CASE p # w
    BY <1>3, <1>4, <2>2, OthersKeepWork
  <2> QED
    BY <2>1, <2>2
<1>11. UnfinishedIsInFlight'
  BY <1>3, <1>7 DEF QueueInv, WorkInv, UnfinishedIsInFlight, Inside
<1> QED
  BY <1>4, <1>5, <1>8, <1>9, <1>10, <1>11 DEF QueueInv, RangeInv, WorkInv

(* A step of the task itself moves no message. *)
LEMMA WorkKeepsPlaces ==
  ASSUME QueueInv, CallInv', UNCHANGED queueVars
  PROVE  /\ QueueTypeOK' /\ RangeInv'
         /\ InFlight' = InFlight /\ Messages' = Messages
         /\ \A v : Holding(v)' <=> Holding(v)
<1>1. UNCHANGED <<command, at, queue, held, acked, dead, crashes>>
  BY DEF queueVars
<1>2. \A v : Holding(v)' <=> Holding(v)
  BY <1>1 DEF Holding
<1>3. InFlight' = InFlight /\ Messages' = Messages
  BY <1>1, <1>2 DEF InFlight, Messages
<1>4. PlacesApart'
  BY <1>1, <1>2 DEF QueueInv, RangeInv, PlacesApart
<1>5. SendingOK' /\ RangesApart'
  BY <1>1, <1>3, MovesKeepRanges DEF QueueInv, RangeInv
<1>6. QueueTypeOK'
  BY <1>1 DEF QueueInv, QueueTypeOK, CallInv
<1> QED
  BY <1>2, <1>3, <1>4, <1>5, <1>6 DEF RangeInv

LEMMA BatchKeepsInv ==
  ASSUME QueueInv, NEW w \in Workers, NEW i \in Batches(w), BatchStep(w, i),
         UNCHANGED queueVars
  PROVE  QueueInv'
<1>1. w \in Processes
  BY WorkersAssumption
<1>2. /\ CallInv' /\ UNCHANGED call /\ Gathering(w)
      /\ task[w][i] = "fetch" /\ Batches(w)' = Batches(w)
      /\ \A q \in Processes \ {w} : task'[q] = task[q]
      /\ \/ /\ data' = Written(w, i, "done")
            /\ InState(w, "done")' \subseteq InState(w, "done") \cup {i}
         \/ /\ UNCHANGED data \/ data' = Written(w, i, "half")
            /\ InState(w, "done")' \subseteq InState(w, "done")
  BY <1>1, BatchStepKeepsInv DEF QueueInv
<1>3. /\ QueueTypeOK' /\ RangeInv' /\ InFlight' = InFlight /\ Messages' = Messages
      /\ \A v : Holding(v)' <=> Holding(v)
      /\ UNCHANGED <<held, acked>>
  BY <1>2, WorkKeepsPlaces DEF queueVars
<1>4. /\ Holding(w) /\ BatchBlocks(w, i) \subseteq Inside(held[w])
      /\ i \in BatchStarts(call[w].after, call[w].before)
      /\ call[w].after \in Numbers /\ call[w].before \in Numbers
  BY <1>1, BatchesAreHeld
<1>5. \A b \in Blocks \ BatchBlocks(w, i) : data'[b] = data[b]
  BY <1>2 DEF Written
<1>6. CallIsHeld(w) /\ BatchesOK(w)
  BY <1>1 DEF QueueInv, WorkInv
<1>7. CallIsHeld(w)'
  BY <1>2, <1>3, <1>6 DEF CallIsHeld
<1>8. ASSUME NEW j \in InState(w, "done"), NEW b \in BatchBlocks(w, j)
      PROVE  data'[b] = "done"
  <2>1. j \in BatchStarts(call[w].after, call[w].before) /\ j # i
    BY <1>1, <1>2, BatchesAreHeld DEF InState
  <2>2. i + BatchSize <= j \/ j + BatchSize <= i
    <3>1. i \in Int /\ j \in Int
      BY <1>4, <2>1, Sizes DEF BatchStarts
    <3>2. i < j \/ j < i
      BY <2>1, <3>1
    <3> QED
      BY <1>4, <2>1, <3>2, BatchesApart
  <2>3. b \notin BatchBlocks(w, i) /\ b \in Blocks
    BY <1>4, <2>1, <2>2, Sizes DEF BatchBlocks, BatchStarts
  <2>4. data[b] = "done"
    BY <1>6 DEF BatchesOK
  <2> QED
    BY <1>5, <2>3, <2>4
<1>9. BatchesOK(w)'
  <2>1. \A j : BatchBlocks(w, j)' = BatchBlocks(w, j)
    BY <1>2 DEF BatchBlocks
  <2>2. \A j \in InState(w, "done")' : \A b \in BatchBlocks(w, j)' : data'[b] = "done"
    <3>1. CASE /\ data' = Written(w, i, "done")
               /\ InState(w, "done")' \subseteq InState(w, "done") \cup {i}
      <4>1. \A b \in BatchBlocks(w, i) : data'[b] = "done"
        BY <3>1 DEF Written, BatchBlocks
      <4> QED
        BY <1>8, <2>1, <3>1, <4>1
    <3>2. CASE InState(w, "done")' \subseteq InState(w, "done")
      BY <1>8, <2>1, <3>2
    <3> QED
      BY <1>2, <3>1, <3>2
  <2>3. Gathering(w)' /\ call'[w].phase # "returned"
    BY <1>2 DEF Gathering
  <2>4. Batches(w)' = BatchStarts(call'[w].after, call'[w].before)
    BY <1>2, <1>6 DEF BatchesOK
  <2> QED
    BY <2>2, <2>3, <2>4 DEF BatchesOK
<1>10. ASSUME NEW p \in Processes
       PROVE  CallIsHeld(p)' /\ BatchesOK(p)'
  <2>1. CASE p # w
    BY <1>2, <1>3, <1>4, <1>5, <2>1, OthersKeepWork
  <2> QED
    BY <1>7, <1>9, <2>1
<1>11. UnfinishedIsInFlight'
  <2>1. \A m \in acked : \A b \in Inside(m) : data'[b] = "done"
    BY <1>4, <1>5, AckedStayDone
  <2>2. ASSUME NEW b \in Blocks, data'[b] = "half"
        PROVE  \E m \in InFlight : b \in Inside(m)
    <3>1. CASE b \in BatchBlocks(w, i)
      BY <1>4, <3>1, HeldFacts DEF QueueInv
    <3>2. CASE b \notin BatchBlocks(w, i)
      BY <1>5, <2>2, <3>2 DEF QueueInv, WorkInv, UnfinishedIsInFlight
    <3> QED
      BY <3>1, <3>2
  <2> QED
    BY <1>3, <2>1, <2>2 DEF UnfinishedIsInFlight, Inside
<1> QED
  BY <1>2, <1>3, <1>10, <1>11 DEF QueueInv, WorkInv

(* When a call returns, all blocks of its range are done. *)
LEMMA LeavesKeepInv ==
  ASSUME QueueInv, NEW w \in Workers, Return(w) \/ Raise(w), UNCHANGED queueVars
  PROVE  QueueInv'
<1>1. w \in Processes
  BY WorkersAssumption
<1>2. PICK outcome \in {"returned", "raised"} :
        /\ Leave(w, outcome) /\ Gathering(w)
        /\ outcome = "returned" => \A i \in Batches(w) : task[w][i] = "done"
  BY DEF Return, Raise
<1>3. /\ CallInv' /\ UNCHANGED data /\ call' = [call EXCEPT ![w].phase = outcome]
      /\ Batches(w)' = {} /\ InState(w, "done")' = {}
      /\ \A q \in Processes \ {w} : task'[q] = task[q]
  BY <1>1, <1>2, LeaveKeepsInv DEF QueueInv
<1>4. /\ QueueTypeOK' /\ RangeInv' /\ InFlight' = InFlight /\ Messages' = Messages
      /\ \A v : Holding(v)' <=> Holding(v)
      /\ UNCHANGED <<held, acked>>
  BY <1>3, WorkKeepsPlaces DEF queueVars
<1>5. /\ call'[w].phase = outcome
      /\ call'[w].after = call[w].after /\ call'[w].before = call[w].before
      /\ \A p \in Processes \ {w} : call'[p] = call[p]
      /\ call[w].after \in Numbers /\ call[w].before \in Numbers
  BY <1>1, <1>3 DEF QueueInv, CallInv, CallTypeOK, CallRecord
<1>6. CallIsHeld(w) /\ BatchesOK(w)
  BY <1>1 DEF QueueInv, WorkInv
<1>7. CallIsHeld(w)'
  BY <1>2, <1>4, <1>5, <1>6 DEF CallIsHeld, Gathering
<1>8. ASSUME outcome = "returned", NEW b \in Inside(call[w])
      PROVE  data[b] = "done"
  <2>1. b \in Blocks /\ call[w].after <= b /\ b < call[w].before
    BY DEF Inside
  <2>2. PICK i \in BatchStarts(call[w].after, call[w].before) :
          i <= b /\ b < i + BatchSize
    BY <1>5, <2>1, BatchesCover
  <2>3. i \in Batches(w) /\ b \in BatchBlocks(w, i)
    BY <1>2, <1>6, <2>1, <2>2 DEF BatchesOK, BatchBlocks
  <2>4. i \in InState(w, "done")
    BY <1>2, <1>8, <2>3 DEF InState
  <2> QED
    BY <1>6, <2>3, <2>4 DEF BatchesOK
<1>9. BatchesOK(w)'
  <2>1. Inside(call[w])' = Inside(call[w])
    BY <1>5 DEF Inside
  <2> QED
    BY <1>2, <1>3, <1>5, <1>8, <2>1 DEF BatchesOK, Gathering
<1>10. ASSUME NEW p \in Processes
       PROVE  CallIsHeld(p)' /\ BatchesOK(p)'
  <2>1. CASE p # w
    BY <1>3, <1>4, <1>5, <2>1, OthersKeepWork
  <2> QED
    BY <1>7, <1>9, <2>1
<1>11. UnfinishedIsInFlight'
  BY <1>3, <1>4 DEF QueueInv, WorkInv, UnfinishedIsInFlight, Inside
<1> QED
  BY <1>3, <1>4, <1>10, <1>11 DEF QueueInv, WorkInv

(***************************************************************************)
(* Worker w lets its message go, to the place that took it: the calls, the *)
(* other workers and what they hold stay as they are.                      *)
(***************************************************************************)
LEMMA LettingGo ==
  ASSUME QueueInv, NEW w \in Workers, Holding(w),
         held' = [held EXCEPT ![w] = NoMessage],
         call' = [call EXCEPT ![w] = NoCall]
  PROVE  /\ \A v \in Workers \ {w} : /\ held'[v] = held[v]
                                     /\ Holding(v)' <=> Holding(v)
         /\ ~Holding(w)'
         /\ held' \in [Workers -> Message \cup {NoMessage}]
         /\ call' \in [Processes -> CallRecord]
         /\ call'[w].phase = "idle"
         /\ \A p \in Processes \ {w} : call'[p] = call[p]
<1>1. w \in Processes
  BY WorkersAssumption
<1>2. /\ held \in [Workers -> Message \cup {NoMessage}]
      /\ call \in [Processes -> CallRecord]
  BY DEF QueueInv, QueueTypeOK, CallTypeOK
<1>3. NoCall \in CallRecord /\ NoCall.phase = "idle"
  BY SizeAssumption DEF NoCall, CallRecord, Numbers
<1> QED
  BY <1>1, <1>2, <1>3 DEF Holding

(* The messages change places only: none is lost and none is new. *)
LEMMA HandedOver ==
  ASSUME QueueInv, NEW w \in Workers, Holding(w),
         held' = [held EXCEPT ![w] = NoMessage],
         call' = [call EXCEPT ![w] = NoCall],
         \/ /\ acked' = acked \cup {held[w]} /\ UNCHANGED <<queue, dead>>
         \/ /\ dead' = dead \cup {held[w]} /\ UNCHANGED <<queue, acked>>
         \/ /\ queue' = queue \cup {held[w]} /\ UNCHANGED <<acked, dead>>
  PROVE  Messages' = Messages /\ PlacesApart'
<1> DEFINE m == held[w]
<1>1. /\ \A v \in Workers \ {w} : held'[v] = held[v] /\ (Holding(v)' <=> Holding(v))
      /\ ~Holding(w)'
  BY LettingGo
<1>2. /\ m \notin queue \cup acked \cup dead
      /\ \A v \in Workers \ {w} : held[v] # m
      /\ PlacesApart
  BY DEF QueueInv, RangeInv, PlacesApart
<1>3. Messages' = Messages
  <2>1. \A n : n \in Messages' <=> n \in Messages
    <3> TAKE n
    <3>1. (\E v \in Workers : Holding(v) /\ held[v] = n)
            <=> n = m \/ \E v \in Workers : Holding(v)' /\ held'[v] = n
      BY <1>1
    <3>2. n \in queue' \cup dead' \cup acked' <=> n = m \/ n \in queue \cup dead \cup acked
      OBVIOUS
    <3> QED
      BY <3>1, <3>2 DEF Messages, InFlight
  <2> QED
    BY <2>1
<1>4. PlacesApart'
  <2>1. queue' \cap acked' = {} /\ queue' \cap dead' = {} /\ acked' \cap dead' = {}
    BY <1>2 DEF PlacesApart
  <2>2. ASSUME NEW v \in Workers, Holding(v)'
        PROVE  /\ held'[v] \notin queue' \cup acked' \cup dead'
               /\ \A u \in Workers : held'[u] = held'[v] => u = v
    <3>1. v # w /\ Holding(v) /\ held'[v] = held[v] /\ held[v] # m
      BY <1>1, <1>2, <2>2
    <3>2. held[v] \notin queue' \cup acked' \cup dead'
      BY <1>2, <3>1 DEF PlacesApart
    <3>3. ASSUME NEW u \in Workers, held'[u] = held'[v]
          PROVE  u = v
      <4>1. u # w
        BY <1>1, <2>2, <3>3 DEF Holding
      <4> QED
        BY <1>1, <1>2, <3>1, <3>3, <4>1 DEF PlacesApart
    <3> QED
      BY <3>1, <3>2, <3>3
  <2> QED
    BY <2>1, <2>2 DEF PlacesApart
<1> QED
  BY <1>3, <1>4

(* What was in flight besides the message still is. *)
LEMMA OthersStayInFlight ==
  ASSUME QueueInv, NEW w \in Workers, Holding(w),
         held' = [held EXCEPT ![w] = NoMessage],
         call' = [call EXCEPT ![w] = NoCall],
         queue \subseteq queue', dead \subseteq dead'
  PROVE  InFlight \ {held[w]} \subseteq InFlight'
<1>1. \A v \in Workers \ {w} : held'[v] = held[v] /\ (Holding(v)' <=> Holding(v))
  BY LettingGo
<1> QED
  BY <1>1 DEF InFlight

(* A worker without a message is in no call and has no batches. *)
LEMMA ClosingKeepsWork ==
  ASSUME QueueInv, NEW w \in Workers, Holding(w),
         held' = [held EXCEPT ![w] = NoMessage],
         call' = [call EXCEPT ![w] = NoCall],
         Batches(w)' = {}, \A p \in Processes \ {w} : task'[p] = task[p],
         \A b \in Blocks : data'[b] = data[b] \/ b \in Inside(held[w])
  PROVE  \A p \in Processes : CallIsHeld(p)' /\ BatchesOK(p)'
<1>1. /\ \A v \in Workers \ {w} : held'[v] = held[v]
      /\ ~Holding(w)' /\ call'[w].phase = "idle"
      /\ \A p \in Processes \ {w} : call'[p] = call[p]
  BY LettingGo
<1>2. CallIsHeld(w)' /\ BatchesOK(w)'
  BY <1>1 DEF CallIsHeld, BatchesOK, Gathering, InState
<1>3. ASSUME NEW p \in Processes, p # w
      PROVE  CallIsHeld(p)' /\ BatchesOK(p)'
  BY <1>1, <1>3, OthersKeepWork
<1> QED
  BY <1>2, <1>3

LEMMA FinishFacts ==
  ASSUME QueueInv, NEW w \in Workers, NEW outcome \in {"returned", "raised"},
         Finish(w, outcome)
  PROVE  /\ Holding(w) /\ held[w] \in Message
         /\ held' = [held EXCEPT ![w] = NoMessage]
         /\ call' = [call EXCEPT ![w] = NoCall]
         /\ UNCHANGED <<data, command, at, crashes>>
         /\ CallInv' /\ held' \in [Workers -> Message \cup {NoMessage}]
         /\ \A p \in Processes : CallIsHeld(p)' /\ BatchesOK(p)'
         /\ outcome = "returned" => \A b \in Inside(held[w]) : data[b] = "done"
<1>1. /\ Holding(w) /\ call[w].phase = outcome /\ w \in Processes
      /\ held' = [held EXCEPT ![w] = NoMessage]
      /\ call' = [call EXCEPT ![w] = NoCall]
      /\ UNCHANGED <<task, broken, data, fails, command, at, crashes>>
  BY WorkersAssumption DEF Finish, Holding
<1>2. held[w] \in Message /\ CallIsHeld(w) /\ BatchesOK(w)
  BY <1>1, HeldFacts DEF QueueInv, WorkInv
<1>3. Batches(w)' = {}
  BY <1>1, <1>2 DEF BatchesOK, Gathering, Batches
<1>4. /\ held' \in [Workers -> Message \cup {NoMessage}]
      /\ call' \in [Processes -> CallRecord]
  BY <1>1, LettingGo
<1>5. CallInv'
  BY <1>1, <1>4
     DEF QueueInv, CallInv, CallTypeOK, TasksOK, PermitsOK, InState, Batches
<1>6. \A p \in Processes : CallIsHeld(p)' /\ BatchesOK(p)'
  BY <1>1, <1>3, ClosingKeepsWork
<1>7. outcome = "returned" => \A b \in Inside(held[w]) : data[b] = "done"
  BY <1>1, <1>2 DEF BatchesOK, CallIsHeld, Inside
<1> QED
  BY <1>1, <1>2, <1>4, <1>5, <1>6, <1>7

LEMMA AcknowledgeKeepsInv ==
  ASSUME QueueInv, NEW w \in Workers, Acknowledge(w)
  PROVE  QueueInv'
<1>1. /\ Finish(w, "returned")
      /\ acked' = acked \cup {held[w]} /\ UNCHANGED <<queue, dead>>
  BY DEF Acknowledge
<1>2. /\ Holding(w) /\ held[w] \in Message
      /\ held' = [held EXCEPT ![w] = NoMessage]
      /\ call' = [call EXCEPT ![w] = NoCall]
      /\ UNCHANGED <<data, command, at, crashes>>
      /\ CallInv' /\ held' \in [Workers -> Message \cup {NoMessage}]
      /\ \A p \in Processes : CallIsHeld(p)' /\ BatchesOK(p)'
      /\ \A b \in Inside(held[w]) : data[b] = "done"
  BY <1>1, FinishFacts
<1>3. QueueTypeOK'
  BY <1>1, <1>2 DEF QueueInv, QueueTypeOK, CallInv
<1>4. Messages' = Messages /\ PlacesApart'
  BY <1>1, <1>2, HandedOver
<1>5. RangeInv'
  BY <1>2, <1>4, MovesKeepRanges DEF QueueInv, RangeInv
<1>6. UnfinishedIsInFlight'
  <2>1. InFlight \ {held[w]} \subseteq InFlight'
    BY <1>1, <1>2, OthersStayInFlight
  <2> QED
    BY <1>1, <1>2, <2>1 DEF QueueInv, WorkInv, UnfinishedIsInFlight, Inside
<1> QED
  BY <1>2, <1>3, <1>5, <1>6 DEF QueueInv, WorkInv

(* A message that is buried keeps what it left unfinished in sight. *)
LEMMA BuryKeepsInv ==
  ASSUME QueueInv, NEW w \in Workers, Finish(w, "raised"),
         dead' = dead \cup {held[w]}, UNCHANGED <<queue, acked>>
  PROVE  QueueInv'
<1>1. /\ Holding(w) /\ held[w] \in Message
      /\ held' = [held EXCEPT ![w] = NoMessage]
      /\ call' = [call EXCEPT ![w] = NoCall]
      /\ UNCHANGED <<data, command, at, crashes>>
      /\ CallInv' /\ held' \in [Workers -> Message \cup {NoMessage}]
      /\ \A p \in Processes : CallIsHeld(p)' /\ BatchesOK(p)'
  BY FinishFacts
<1>2. QueueTypeOK'
  BY <1>1 DEF QueueInv, QueueTypeOK, CallInv
<1>3. Messages' = Messages /\ PlacesApart'
  BY <1>1, HandedOver
<1>4. RangeInv'
  BY <1>1, <1>3, MovesKeepRanges DEF QueueInv, RangeInv
<1>5. UnfinishedIsInFlight'
  <2>1. InFlight \ {held[w]} \subseteq InFlight' /\ held[w] \in InFlight'
    BY <1>1, OthersStayInFlight DEF InFlight
  <2> QED
    BY <1>1, <2>1 DEF QueueInv, WorkInv, UnfinishedIsInFlight, Inside
<1> QED
  BY <1>1, <1>2, <1>4, <1>5 DEF QueueInv, WorkInv

(***************************************************************************)
(* A message that is tried again is a message of its own, with the same    *)
(* blocks, in the place of the one that failed.                            *)
(***************************************************************************)
LEMMA RequeueKeepsInv ==
  ASSUME QueueInv, NEW w \in Workers, Finish(w, "raised"),
         queue' = queue \cup {[held[w] EXCEPT !.tries = @ + 1]},
         UNCHANGED <<acked, dead>>
  PROVE  QueueInv'
<1> DEFINE m == held[w]
           n == [m EXCEPT !.tries = @ + 1]
<1>1. /\ Holding(w) /\ m \in Message
      /\ held' = [held EXCEPT ![w] = NoMessage]
      /\ call' = [call EXCEPT ![w] = NoCall]
      /\ UNCHANGED <<data, command, at, crashes>>
      /\ CallInv' /\ held' \in [Workers -> Message \cup {NoMessage}]
      /\ \A p \in Processes : CallIsHeld(p)' /\ BatchesOK(p)'
  BY FinishFacts
<1>2. n \in Message /\ n # m /\ Inside(n) = Inside(m)
  <2>1. /\ m = [after |-> m.after, before |-> m.before, tries |-> m.tries]
        /\ m.after \in Numbers /\ m.before \in Numbers /\ m.tries \in Nat
        /\ m.after < m.before
    BY <1>1, MessageFacts DEF Message
  <2>2. n = [after |-> m.after, before |-> m.before, tries |-> m.tries + 1]
    BY <2>1
  <2>3. n \in Message
    BY <2>1, <2>2 DEF Message
  <2>4. n.tries # m.tries
    BY <2>1, <2>2
  <2> QED
    BY <2>2, <2>3, <2>4 DEF Inside
<1>3. m \in Messages /\ Inside(n) # {} /\ Inside(n) \subseteq Blocks
  BY <1>1, <1>2, HeldFacts, MessageFacts DEF QueueInv
<1> HIDE DEF m, n
<1>4. n \notin Messages
  BY <1>2, <1>3 DEF QueueInv, RangeInv, RangesApart
<1>5. queue' = queue \cup {n}
  BY DEF m, n
<1>6. /\ \A v \in Workers \ {w} : held'[v] = held[v] /\ (Holding(v)' <=> Holding(v))
      /\ ~Holding(w)'
  BY <1>1, LettingGo
<1>7. /\ m \notin queue \cup acked \cup dead
      /\ \A v \in Workers \ {w} : held[v] # m
      /\ PlacesApart
  BY <1>1 DEF QueueInv, RangeInv, PlacesApart, m
<1>8. Messages' = (Messages \ {m}) \cup {n}
  <2>1. \A x : x \in Messages' <=> x \in (Messages \ {m}) \cup {n}
    <3> TAKE x
    <3>1. (\E v \in Workers : Holding(v)' /\ held'[v] = x)
            <=> x # m /\ \E v \in Workers : Holding(v) /\ held[v] = x
      BY <1>6, <1>7 DEF m
    <3>2. x \in queue' \cup dead' \cup acked'
            <=> x = n \/ (x # m /\ x \in queue \cup dead \cup acked)
      BY <1>5, <1>7
    <3>3. x \in Messages' <=> \/ x \in queue' \cup dead' \cup acked'
                              \/ \E v \in Workers : Holding(v)' /\ held'[v] = x
      BY DEF Messages, InFlight
    <3>4. x \in Messages <=> \/ x \in queue \cup dead \cup acked
                             \/ \E v \in Workers : Holding(v) /\ held[v] = x
      BY DEF Messages, InFlight
    <3> QED
      BY <3>1, <3>2, <3>3, <3>4
  <2> QED
    BY <2>1
<1>9. QueueTypeOK'
  BY <1>1, <1>2, <1>5 DEF QueueInv, QueueTypeOK, CallInv
<1>10. PlacesApart'
  <2>1. n \notin acked \cup dead /\ \A v \in Workers : Holding(v) => held[v] # n
    BY <1>4, WhereMessagesAre
  <2>2. queue' \cap acked' = {} /\ queue' \cap dead' = {} /\ acked' \cap dead' = {}
    BY <1>5, <1>7, <2>1 DEF PlacesApart
  <2>3. ASSUME NEW v \in Workers, Holding(v)'
        PROVE  /\ held'[v] \notin queue' \cup acked' \cup dead'
               /\ \A u \in Workers : held'[u] = held'[v] => u = v
    <3>1. v # w /\ Holding(v) /\ held'[v] = held[v]
      BY <1>6, <2>3
    <3>2. held[v] \notin queue' \cup acked' \cup dead'
      BY <1>5, <1>7, <2>1, <3>1 DEF PlacesApart
    <3>3. ASSUME NEW u \in Workers, held'[u] = held'[v]
          PROVE  u = v
      <4>1. u # w
        BY <1>6, <2>3, <3>3 DEF Holding
      <4> QED
        BY <1>6, <1>7, <3>1, <3>3, <4>1 DEF PlacesApart
    <3> QED
      BY <3>1, <3>2, <3>3
  <2> QED
    BY <2>2, <2>3 DEF PlacesApart
<1>11. SendingOK' /\ RangesApart'
  <2>1. (\A x : Inside(x)' = Inside(x)) /\ SentBlocks' = SentBlocks /\ SendingOK'
    BY <1>1 DEF Inside, SentBlocks, Upwards, Start, End, SendingOK, QueueInv, RangeInv
  <2>2. RangesApart
    BY DEF QueueInv, RangeInv
  <2>3. ASSUME NEW x \in Messages \ {m}
        PROVE  Inside(x) \cap Inside(n) = {}
    BY <1>2, <1>3, <2>2 DEF RangesApart
  <2>4. \A x, y \in Messages' : x # y => Inside(x) \cap Inside(y) = {}
    BY <1>8, <2>2, <2>3 DEF RangesApart
  <2>5. \A x \in Messages' : Inside(x) \subseteq SentBlocks
    BY <1>2, <1>3, <1>8, <2>2 DEF RangesApart
  <2>6. \A b \in SentBlocks : \E x \in Messages' : b \in Inside(x)
    BY <1>2, <1>8, <2>2 DEF RangesApart
  <2> QED
    BY <2>1, <2>4, <2>5, <2>6 DEF RangesApart
<1>12. UnfinishedIsInFlight'
  <2>1. InFlight \ {m} \subseteq InFlight' /\ n \in InFlight'
    BY <1>1, <1>5, OthersStayInFlight DEF InFlight, m
  <2>2. \A x : Inside(x)' = Inside(x)
    BY DEF Inside
  <2>3. ASSUME NEW b \in Blocks, data[b] = "half"
        PROVE  \E x \in InFlight' : b \in Inside(x)
    <3>1. PICK x \in InFlight : b \in Inside(x)
      BY <2>3 DEF QueueInv, WorkInv, UnfinishedIsInFlight
    <3> QED
      BY <1>2, <2>1, <3>1
  <2> QED
    BY <1>1, <2>2, <2>3 DEF QueueInv, WorkInv, UnfinishedIsInFlight
<1> QED
  BY <1>1, <1>9, <1>10, <1>11, <1>12 DEF QueueInv, RangeInv, WorkInv

LEMMA RetryKeepsInv ==
  ASSUME QueueInv, NEW w \in Workers, Retry(w)
  PROVE  QueueInv'
BY BuryKeepsInv, RequeueKeepsInv DEF Retry

(***************************************************************************)
(* A worker dies: its message goes back, what it left half written with    *)
(* it; the batches of its call are gone.                                   *)
(***************************************************************************)
LEMMA CrashKeepsInv ==
  ASSUME QueueInv, NEW w \in Workers, Crash(w)
  PROVE  QueueInv'
<1>1. /\ Holding(w) /\ w \in Processes /\ held[w] \in Message
      /\ held' = [held EXCEPT ![w] = NoMessage]
      /\ call' = [call EXCEPT ![w] = NoCall]
      /\ task' = [task EXCEPT ![w] = [i \in {} |-> "done"]]
      /\ queue' = queue \cup {held[w]}
      /\ crashes' = crashes + 1
      /\ UNCHANGED <<broken, fails, command, at, acked, dead>>
  BY WorkersAssumption, HeldFacts DEF Crash, Holding, QueueInv
<1>2. \/ UNCHANGED data
      \/ \E i \in Batches(w) : data' = Written(w, i, "half")
  BY DEF Crash, InState
<1>3. /\ data' \in [Blocks -> {"none", "half", "done"}]
      /\ \A b \in Blocks : data'[b] = data[b] \/ b \in Inside(held[w])
  <2>1. CASE UNCHANGED data
    BY <2>1 DEF QueueInv, QueueTypeOK, CallTypeOK
  <2>2. ASSUME NEW i \in Batches(w), data' = Written(w, i, "half")
        PROVE  /\ data' \in [Blocks -> {"none", "half", "done"}]
               /\ \A b \in Blocks : data'[b] = data[b] \/ b \in Inside(held[w])
    <3>1. BatchBlocks(w, i) \subseteq Inside(held[w])
      BY <1>1, BatchesAreHeld
    <3> QED
      BY <2>2, <3>1 DEF Written, QueueInv, QueueTypeOK, CallTypeOK
  <2> QED
    BY <1>2, <2>1, <2>2
<1>4. /\ task' = [q \in Processes |-> task'[q]]
      /\ \A q \in Processes \ {w} : task'[q] = task[q]
      /\ Batches(w)' = {} /\ TasksOK(w)' /\ PermitsOK(w)'
  BY <1>1, EmptyKeepsPermits DEF QueueInv, CallInv
<1>5. ASSUME NEW q \in Processes
      PROVE  TasksOK(q)' /\ PermitsOK(q)'
  <2>1. CASE q # w
    BY <1>4, <2>1, OthersKeepPermits DEF TasksOK, Batches, QueueInv, CallInv, CallTypeOK
  <2> QED
    BY <1>4, <2>1
<1>6. /\ held' \in [Workers -> Message \cup {NoMessage}]
      /\ call' \in [Processes -> CallRecord]
  BY <1>1, LettingGo
<1>7. CallInv'
  BY <1>1, <1>3, <1>4, <1>5, <1>6 DEF QueueInv, CallInv, CallTypeOK
<1>8. QueueTypeOK'
  BY <1>1, <1>6, <1>7 DEF QueueInv, QueueTypeOK, CallInv
<1>9. Messages' = Messages /\ PlacesApart'
  BY <1>1, HandedOver
<1>10. RangeInv'
  BY <1>1, <1>9, MovesKeepRanges DEF QueueInv, RangeInv
<1>11. \A p \in Processes : CallIsHeld(p)' /\ BatchesOK(p)'
  BY <1>1, <1>3, <1>4, ClosingKeepsWork
<1>12. UnfinishedIsInFlight'
  <2>1. InFlight \ {held[w]} \subseteq InFlight' /\ held[w] \in InFlight'
    BY <1>1, OthersStayInFlight DEF InFlight
  <2>2. \A m \in acked : \A b \in Inside(m) : data'[b] = "done"
    BY <1>1, <1>3, AckedStayDone
  <2>3. ASSUME NEW b \in Blocks, data'[b] = "half"
        PROVE  \E m \in InFlight' : b \in Inside(m)
    BY <1>3, <2>1, <2>3 DEF QueueInv, WorkInv, UnfinishedIsInFlight
  <2>4. \A m : Inside(m)' = Inside(m)
    BY DEF Inside
  <2> QED
    BY <1>1, <2>2, <2>3, <2>4 DEF UnfinishedIsInFlight
<1> QED
  BY <1>7, <1>8, <1>10, <1>11, <1>12 DEF QueueInv, WorkInv

-----------------------------------------------------------------------------
(* The theorems about the queue.                                           *)

LEMMA QueueStep == QueueInv /\ [Next]_vars => QueueInv'
<1> SUFFICES ASSUME QueueInv, [Next]_vars
             PROVE  QueueInv'
  OBVIOUS
<1>1. CASE UNCHANGED vars
  <2>1. UNCHANGED callVars /\ UNCHANGED queueVars
    BY <1>1 DEF vars
  <2>2. CallInv'
    BY <2>1
       DEF QueueInv, callVars, CallInv, CallTypeOK, TasksOK, PermitsOK, InState, Batches
  <2>3. /\ QueueTypeOK' /\ RangeInv' /\ InFlight' = InFlight
        /\ \A v : Holding(v)' <=> Holding(v)
    BY <2>1, <2>2, WorkKeepsPlaces
  <2>4. WorkInv'
    BY <2>1, <2>3
       DEF QueueInv, WorkInv, CallIsHeld, BatchesOK, callVars, queueVars, Batches,
           Gathering, InState, BatchBlocks, Inside, UnfinishedIsInFlight
  <2> QED
    BY <2>2, <2>3, <2>4 DEF QueueInv
<1>2. CASE SendMessage
  BY <1>2, SendKeepsInv
<1>3. ASSUME NEW w \in Workers, WorkerStep(w) \/ Crash(w)
      PROVE  QueueInv'
  <2>1. CASE Work(w)
    BY <2>1, BatchKeepsInv, LeavesKeepInv DEF Work
  <2> QED
    BY <1>3, <2>1, TakeKeepsInv, AcknowledgeKeepsInv, RetryKeepsInv, CrashKeepsInv
       DEF WorkerStep
<1> QED
  BY <1>1, <1>2, <1>3 DEF Next

THEOREM QueueInvariant == Spec => []QueueInv
BY QueueInit, QueueStep, PTL DEF Spec

(* All fields have their types: a message is a range of known blocks. *)
THEOREM QueueTypes == Spec => []QueueTypeOK
<1>1. QueueInv => QueueTypeOK
  BY DEF QueueInv
<1> QED
  BY <1>1, QueueInvariant, PTL

(***************************************************************************)
(* Also in a worker, which reads under the same semaphore for one message  *)
(* after the other, and may die at any point.                              *)
(***************************************************************************)
THEOREM WorkersUseAllPermits == Spec => []PermitsInUse
<1>1. QueueInv => PermitsInUse
  BY DEF QueueInv, CallInv, PermitsOK, PermitsInUse
<1> QED
  BY <1>1, QueueInvariant, PTL

(***************************************************************************)
(* When all is sent, the blocks that were sent are those that were asked   *)
(* for, and each is in one message.                                        *)
(***************************************************************************)
THEOREM BackfillPartitions == Spec => []RangeIsPartitioned
<1>1. ASSUME QueueInv, ~MoreToSend
      PROVE  SentBlocks = Requested
  <2>1. Start \in Int /\ End \in Int /\ at \in Int /\ \A b \in Blocks : b \in Int
    BY <1>1, Sizes DEF QueueInv, QueueTypeOK, Start, End, Numbers
  <2>2. CASE Upwards
    BY <1>1, <2>1, <2>2 DEF SentBlocks, Requested, MoreToSend, Lesser
  <2>3. CASE ~Upwards
    BY <1>1, <2>1, <2>3 DEF SentBlocks, Requested, MoreToSend, Greater
  <2> QED
    BY <2>2, <2>3
<1>2. ASSUME QueueInv, NEW b \in SentBlocks
      PROVE  Cardinality({m \in Messages : b \in Inside(m)}) = 1
  <2>1. PICK m \in Messages : b \in Inside(m)
    BY <1>2 DEF QueueInv, RangeInv, RangesApart
  <2>2. {n \in Messages : b \in Inside(n)} = {m}
    BY <1>2, <2>1 DEF QueueInv, RangeInv, RangesApart
  <2> QED
    BY <2>2, FS_Singleton
<1>3. QueueInv => RangeIsPartitioned
  BY <1>1, <1>2 DEF RangeIsPartitioned, Messages, QueueInv, RangeInv, RangesApart
<1> QED
  BY <1>3, QueueInvariant, PTL

(***************************************************************************)
(* What is acknowledged is complete; what is half written is in flight.    *)
(***************************************************************************)
THEOREM NothingUnfinishedIsLost == Spec => []UnfinishedIsInFlight
<1>1. QueueInv => UnfinishedIsInFlight
  BY DEF QueueInv, WorkInv
<1> QED
  BY <1>1, QueueInvariant, PTL
=============================================================================
