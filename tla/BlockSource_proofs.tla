-------------------------- MODULE BlockSource_proofs --------------------------
(***************************************************************************)
(* Proofs about BlockSource, for any number of retries and forks.          *)
(***************************************************************************)
EXTENDS BlockSource, TLAPS

(***************************************************************************)
(* The loop variable counts the errors: i when an attempt is under way, and *)
(* one less than the errors while the request sleeps after one.            *)
(***************************************************************************)
Counts(r) ==
  /\ Is(r, "idle") => errors[r] = 0 /\ request[r].i = 0
  /\ Is(r, "asked") => errors[r] = request[r].i
  /\ Is(r, "sleeping") => /\ errors[r] = request[r].i + 1
                          /\ request[r].i < Retries - 1
  /\ Is(r, "answered") => errors[r] < Retries
  /\ Is(r, "raised") => r \in refused \/ errors[r] = Retries

SourceInv ==
  /\ SourceTypeOK
  /\ call = "gather" => Is("miner", "idle")
  /\ \A r \in Requests : Counts(r)

(***************************************************************************)
(* An answer has a value, and no later step takes it away; a call is past  *)
(* its gather only with all four parts, and done only with the miner too.  *)
(***************************************************************************)
Assembling ==
  /\ \A r \in Requests : Is(r, "answered") => request[r].value # Nothing
  /\ call \in {"miner", "done"} => \A r \in Parts : Is(r, "answered")
  /\ call = "done" => Is("miner", "answered")
  /\ call = "raised" => \E r \in Requests : Is(r, "raised")

-----------------------------------------------------------------------------
LEMMA Constants ==
  /\ Retries \in Nat /\ Retries > 0 /\ MaxForks \in Nat
  /\ 0 \in 0 .. Retries - 1 /\ 0 \in Versions
  /\ Parts \subseteq Requests /\ "miner" \in Requests /\ "miner" \notin Parts
  /\ "traces" \in Requests
BY SourceAssumption DEF Versions, Parts, Requests

LEMMA InitSource == Init => SourceInv
<1> SUFFICES ASSUME Init
             PROVE  SourceInv
  OBVIOUS
<1>1. PICK cached \in [Parts -> {0, Nothing}] :
        request = [r \in Requests |->
                     IF r \in Parts THEN FindOrFetch(cached, r) ELSE Idle]
  BY DEF Init
<1>2. ASSUME NEW r \in Requests
      PROVE  /\ request[r] \in [state : States, i : 0 .. Retries - 1,
                                value : Versions \cup {Nothing}]
             /\ errors[r] = 0 /\ request[r].i = 0
             /\ request[r].state \in {"idle", "asked", "answered"}
             /\ r \notin Parts => request[r].state = "idle"
  BY <1>1, Constants DEF FindOrFetch, Answer, Asked, Idle, States, Init
<1>3. SourceTypeOK
  BY <1>1, <1>2, Constants DEF Init, SourceTypeOK
<1>4. ASSUME NEW r \in Requests
      PROVE  Counts(r)
  BY <1>2, Constants DEF Counts, Is
<1> QED
  BY <1>2, <1>3, <1>4, Constants DEF SourceInv, Is

(***************************************************************************)
(* One request moves on.                                                   *)
(***************************************************************************)
LEMMA ProgressKeepsInv ==
  ASSUME SourceInv, NEW r \in Requests, Progress(r)
  PROVE  SourceInv'
<1> DEFINE Record == [state : States, i : 0 .. Retries - 1,
                      value : Versions \cup {Nothing}]
<1>1. /\ request \in [Requests -> Record] /\ request[r] \in Record
      /\ errors \in [Requests -> 0 .. Retries] /\ Counts(r)
      /\ version \in Versions
  BY DEF SourceInv, SourceTypeOK
<1>2. UNCHANGED <<version, reward, call>> /\ ~Is(r, "idle")
  BY DEF Progress, Answered, Error, WakeUp, Refuse, Is
<1>3. PICK new \in Record :
        /\ request' = [request EXCEPT ![r] = new]
        /\ new.state # "idle"
        /\ \/ /\ new.state = "answered" /\ errors[r] < Retries
              /\ UNCHANGED <<errors, refused>>
           \/ /\ new.state = "sleeping" /\ new.i = request[r].i
              /\ errors[r] = new.i /\ new.i < Retries - 1
              /\ errors' = [errors EXCEPT ![r] = @ + 1] /\ UNCHANGED refused
           \/ /\ new.state = "raised" /\ errors[r] = Retries - 1
              /\ errors' = [errors EXCEPT ![r] = @ + 1] /\ UNCHANGED refused
           \/ /\ new.state = "asked" /\ new.i = errors[r]
              /\ UNCHANGED <<errors, refused>>
           \/ /\ new.state = "raised" /\ refused' = refused \cup {r}
              /\ UNCHANGED errors
  <2>1. CASE Answered(r)
    <3> DEFINE new == [request[r] EXCEPT !.state = "answered", !.value = version]
    <3>1. request' = [request EXCEPT ![r] = new]
      BY <2>1 DEF Answered
    <3>2. new \in Record /\ new.state = "answered"
      BY <1>1 DEF States
    <3>3. errors[r] < Retries /\ UNCHANGED <<errors, refused>>
      BY <1>1, <2>1, Constants DEF Answered, Counts, Is
    <3> HIDE DEF new
    <3> QED
      BY <3>1, <3>2, <3>3
  <2>2. CASE Error(r)
    <3>1. /\ errors[r] = request[r].i /\ errors[r] \in 0 .. Retries - 1
          /\ errors' = [errors EXCEPT ![r] = @ + 1] /\ UNCHANGED refused
      BY <1>1, <2>2 DEF Error, Counts, Is
    <3>2. /\ AfterError(r) \in Record /\ AfterError(r).i = request[r].i
          /\ AfterError(r).state =
               IF request[r].i < Retries - 1 THEN "sleeping" ELSE "raised"
      BY <1>1 DEF AfterError, States
    <3>3. request' = [request EXCEPT ![r] = AfterError(r)]
      BY <2>2 DEF Error
    <3>4. CASE request[r].i < Retries - 1
      BY <3>1, <3>2, <3>3, <3>4
    <3>5. CASE ~(request[r].i < Retries - 1)
      <4>1. errors[r] = Retries - 1 /\ AfterError(r).state = "raised"
        BY <3>1, <3>2, <3>5, Constants
      <4> QED
        BY <3>1, <3>2, <3>3, <4>1
    <3> QED
      BY <3>4, <3>5
  <2>3. CASE WakeUp(r)
    <3> DEFINE new == [request[r] EXCEPT !.state = "asked", !.i = request[r].i + 1]
    <3>1. request' = [request EXCEPT ![r] = new]
      BY <2>3 DEF WakeUp
    <3>2. request[r].i + 1 \in 0 .. Retries - 1 /\ errors[r] = request[r].i + 1
      BY <1>1, <2>3, Constants DEF WakeUp, Counts, Is
    <3>3. new \in Record /\ new.state = "asked" /\ new.i = errors[r]
      BY <1>1, <3>2 DEF States
    <3>4. UNCHANGED <<errors, refused>>
      BY <2>3 DEF WakeUp
    <3> HIDE DEF new
    <3> QED
      BY <3>1, <3>3, <3>4
  <2>4. CASE Refuse(r)
    <3> DEFINE new == [request[r] EXCEPT !.state = "raised"]
    <3>1. /\ request' = [request EXCEPT ![r] = new]
          /\ refused' = refused \cup {r} /\ UNCHANGED errors
      BY <2>4 DEF Refuse
    <3>2. new \in Record /\ new.state = "raised"
      BY <1>1 DEF States
    <3> HIDE DEF new
    <3> QED
      BY <3>1, <3>2
  <2> QED
    BY <2>1, <2>2, <2>3, <2>4 DEF Progress
<1>4. request' \in [Requests -> Record] /\ errors' \in [Requests -> 0 .. Retries]
  BY <1>1, <1>3, Constants
<1>5. SourceTypeOK'
  BY <1>2, <1>3, <1>4 DEF SourceInv, SourceTypeOK
<1>6. Counts(r)'
  BY <1>1, <1>3, Constants DEF Counts, Is
<1>7. ASSUME NEW q \in Requests \ {r}
      PROVE  Counts(q)'
  BY <1>1, <1>3 DEF SourceInv, Counts, Is
<1>8. (call = "gather" => Is("miner", "idle"))'
  <2>1. CASE r = "miner"
    BY <1>2, <2>1 DEF SourceInv
  <2>2. CASE r # "miner"
    BY <1>1, <1>2, <1>3, <2>2, Constants DEF SourceInv, Is
  <2> QED
    BY <2>1, <2>2
<1> QED
  BY <1>5, <1>6, <1>7, <1>8 DEF SourceInv

(***************************************************************************)
(* The parts are together; the miner is known or asked for.                *)
(***************************************************************************)
LEMMA GatheredKeepsInv ==
  ASSUME SourceInv, Gathered
  PROVE  SourceInv'
<1> DEFINE Record == [state : States, i : 0 .. Retries - 1,
                      value : Versions \cup {Nothing}]
<1>1. PICK new \in Record :
        /\ request' = [request EXCEPT !["miner"] = new]
        /\ new.state \in {"asked", "answered"} /\ new.i = 0
  <2>1. request["traces"].value \in Versions \cup {Nothing}
    BY Constants DEF SourceInv, SourceTypeOK
  <2>2. Asked \in Record /\ Answer(request["traces"].value) \in Record
    BY <2>1, Constants DEF Asked, Answer, States
  <2> QED
    BY <2>2 DEF Gathered, Asked, Answer
<1>2. /\ call' \in {"done", "miner"} /\ UNCHANGED <<version, reward, errors, refused>>
      /\ errors["miner"] = 0
  BY Constants DEF Gathered, SourceInv, Counts
<1>3. SourceTypeOK'
  BY <1>1, <1>2 DEF SourceInv, SourceTypeOK
<1>4. Counts("miner")'
  BY <1>1, <1>2, Constants DEF SourceInv, SourceTypeOK, Counts, Is
<1>5. ASSUME NEW q \in Requests \ {"miner"}
      PROVE  Counts(q)'
  BY <1>1, <1>2 DEF SourceInv, SourceTypeOK, Counts, Is
<1> QED
  BY <1>2, <1>3, <1>4, <1>5 DEF SourceInv

LEMMA SourceInvariant == Spec => []SourceInv
<1>1. Init => SourceInv
  BY InitSource
<1>2. SourceInv /\ [Next]_vars => SourceInv'
  <2> SUFFICES ASSUME SourceInv, [Next]_vars
               PROVE  SourceInv'
    OBVIOUS
  <2>1. CASE Fork
    BY <2>1, Constants
       DEF Fork, SourceInv, SourceTypeOK, Counts, Is, Versions
  <2>2. CASE Raised \/ Assembled
    BY <2>2 DEF Raised, Assembled, SourceInv, SourceTypeOK, Counts, Is
  <2>3. CASE UNCHANGED vars
    BY <2>3 DEF vars, SourceInv, SourceTypeOK, Counts, Is
  <2> QED
    BY <2>1, <2>2, <2>3, ProgressKeepsInv, GatheredKeepsInv DEF Next
<1> QED
  BY <1>1, <1>2, PTL DEF Spec

(***************************************************************************)
(* The retry middleware raises after exactly Retries errors, or one that   *)
(* it does not retry, and an answer has cost fewer.                        *)
(***************************************************************************)
THEOREM RetriesExact == Spec => []RetriesAreExact
<1>1. SourceInv => RetriesAreExact
  BY DEF SourceInv, Counts, RetriesAreExact
<1> QED
  BY <1>1, SourceInvariant, PTL

(***************************************************************************)
(* The variables of a block's requests keep their types; the loop variable *)
(* never leaves range(retries).                                            *)
(***************************************************************************)
THEOREM SourceTypeCorrect == Spec => []SourceTypeOK
<1>1. SourceInv => SourceTypeOK
  BY DEF SourceInv
<1> QED
  BY <1>1, SourceInvariant, PTL

-----------------------------------------------------------------------------
(***************************************************************************)
(* A step of one request never touches an answer or an exception, and an   *)
(* answer that it brings is the version that the node has.                 *)
(***************************************************************************)
LEMMA ProgressIsFinal ==
  ASSUME SourceInv, NEW r \in Requests, Progress(r), NEW q \in Requests
  PROVE  /\ Is(q, "answered") => request'[q] = request[q]
         /\ Is(q, "raised") => Is(q, "raised")'
         /\ Is(q, "answered")' => Is(q, "answered")
                                  \/ request'[q].value \in Versions
<1>1. /\ request \in [Requests -> [state : States, i : 0 .. Retries - 1,
                                  value : Versions \cup {Nothing}]]
      /\ version \in Versions
  BY DEF SourceInv, SourceTypeOK
<1>2. CASE Answered(r)
  BY <1>1, <1>2 DEF Answered, Is
<1>3. CASE Error(r)
  BY <1>1, <1>3 DEF Error, AfterError, Is
<1>4. CASE WakeUp(r)
  BY <1>1, <1>4 DEF WakeUp, Is
<1>5. CASE Refuse(r)
  BY <1>1, <1>5 DEF Refuse, Is
<1> QED
  BY <1>2, <1>3, <1>4, <1>5 DEF Progress

LEMMA AssemblingInit == Init => Assembling
<1> SUFFICES ASSUME Init
             PROVE  Assembling
  OBVIOUS
<1>1. PICK cached \in [Parts -> {0, Nothing}] :
        request = [r \in Requests |->
                     IF r \in Parts THEN FindOrFetch(cached, r) ELSE Idle]
  BY DEF Init
<1>2. ASSUME NEW r \in Requests, Is(r, "answered")
      PROVE  request[r].value # Nothing
  BY <1>1, <1>2, SourceAssumption DEF Is, FindOrFetch, Answer, Asked, Idle
<1> QED
  BY <1>2 DEF Assembling, Init

LEMMA AssemblingStep ==
  ASSUME SourceInv, Assembling, [Next]_vars
  PROVE  Assembling'
<1>1. CASE Fork \/ UNCHANGED vars
  BY <1>1 DEF Fork, vars, Assembling, Is
<1>2. ASSUME NEW r \in Requests, Progress(r)
      PROVE  Assembling'
  <2>1. UNCHANGED call
    BY <1>2 DEF Progress, Answered, Error, WakeUp, Refuse
  <2>2. \A q \in Requests : Is(q, "answered")' => request'[q].value # Nothing
    BY <1>2, ProgressIsFinal, SourceAssumption DEF Assembling, Versions
  <2>3. \A q \in Requests : Is(q, "answered") => Is(q, "answered")'
    BY <1>2, ProgressIsFinal DEF Is
  <2>4. \A q \in Requests : Is(q, "raised") => Is(q, "raised")'
    BY <1>2, ProgressIsFinal
  <2> QED
    BY <2>1, <2>2, <2>3, <2>4, Constants DEF Assembling
<1>3. CASE Gathered
  <2>1. /\ request \in [Requests -> [state : States, i : 0 .. Retries - 1,
                                    value : Versions \cup {Nothing}]]
        /\ request["traces"].value # Nothing
    BY <1>3, Constants DEF SourceInv, SourceTypeOK, Gathered, Assembling, Parts
  <2>2. \A q \in Requests \ {"miner"} : request'[q] = request[q]
    BY <1>3, <2>1 DEF Gathered
  <2>3. /\ request'["miner"].state \in {"asked", "answered"}
        /\ request'["miner"].state = "answered" =>
             request'["miner"].value # Nothing
        /\ request'["miner"].state = "answered" \/ call' = "miner"
        /\ call' \in {"miner", "done"}
    BY <1>3, <2>1, Constants DEF Gathered, Answer, Asked
  <2>4. \A q \in Parts : Is(q, "answered")'
    BY <1>3, <2>2, Constants DEF Gathered, Is
  <2>5. \A q \in Requests : Is(q, "answered")' => request'[q].value # Nothing
    BY <2>2, <2>3 DEF Assembling, Is
  <2> QED
    BY <2>3, <2>4, <2>5 DEF Assembling, Is
<1>4. CASE Raised \/ Assembled
  BY <1>4 DEF Raised, Assembled, Assembling, Is
<1> QED
  BY <1>1, <1>2, <1>3, <1>4 DEF Next

(***************************************************************************)
(* create_from_block_number returns a block only with all parts and the    *)
(* miner in it, and raises only what one of its requests has raised,       *)
(* whatever fails, is retried or changes at the node meanwhile.            *)
(***************************************************************************)
THEOREM BlocksComplete == Spec => []BlocksAreComplete
<1>1. Assembling => BlocksAreComplete
  BY Constants DEF Assembling, BlocksAreComplete, Requests
<1>2. Spec => []Assembling
  BY AssemblingInit, AssemblingStep, SourceInvariant, PTL DEF Spec
<1> QED
  BY <1>1, <1>2, PTL
=============================================================================
