----------------------------- MODULE BlockSource -----------------------------
(***************************************************************************)
(* create_from_block_number of block.py over the retry middleware of       *)
(* retry.py: one block is put together from four parts that are asked for  *)
(* at the same time, and its miner, asked for when the parts are there.    *)
(*                                                                         *)
(* A part may be in the trace database, where another program put it, or   *)
(* else comes from the node, by block number: what the node answers is the *)
(* version of the block that it has at that moment.  All five methods are  *)
(* on the retry middleware's whitelist.                                    *)
(***************************************************************************)
EXTENDS Naturals

CONSTANTS
  Retries,   \* how often a request is tried, 5 in the code
  MaxForks,  \* bound: how often the node changes the block
  Nothing    \* no value

ASSUME SourceAssumption ==
  Retries \in Nat \ {0} /\ MaxForks \in Nat /\ Nothing \notin Nat

Parts == {"timestamp", "receipts", "traces", "base_fee"}
Requests == Parts \cup {"miner"}

VARIABLES
  version,  \* the version of the block that the node has
  reward,   \* whether the block has a reward trace that names its miner
  request,  \* request[r]: its state, the loop variable and its value
  call,     \* where create_from_block_number is
  errors,   \* errors[r]: how many attempts failed in a way that is retried
  refused   \* the requests that failed in a way that is not

vars == <<version, reward, request, call, errors, refused>>

Versions == 0 .. MaxForks
States == {"idle", "asked", "sleeping", "answered", "raised"}

SourceTypeOK ==
  /\ version \in Versions /\ reward \in BOOLEAN
  /\ request \in [Requests -> [state : States, i : 0 .. Retries - 1,
                               value : Versions \cup {Nothing}]]
  /\ call \in {"gather", "miner", "done", "raised"}
  /\ errors \in [Requests -> 0 .. Retries]
  /\ refused \subseteq Requests

Idle == [state |-> "idle", i |-> 0, value |-> Nothing]
Asked == [state |-> "asked", i |-> 0, value |-> Nothing]
Answer(v) == [state |-> "answered", i |-> 0, value |-> v]

(***************************************************************************)
(* All four look into the trace database before they first wait.           *)
(***************************************************************************)
FindOrFetch(cached, r) ==
  IF cached[r] # Nothing THEN Answer(cached[r]) ELSE Asked

Init ==
  /\ version = 0
  /\ reward \in BOOLEAN
  /\ \E cached \in [Parts -> {0, Nothing}] :
       request = [r \in Requests |->
                    IF r \in Parts THEN FindOrFetch(cached, r) ELSE Idle]
  /\ call = "gather"
  /\ errors = [r \in Requests |-> 0]
  /\ refused = {}

(* The node, or the chain behind it, replaces the block. *)
Fork ==
  /\ version < MaxForks
  /\ version' = version + 1
  /\ UNCHANGED <<reward, request, call, errors, refused>>

-----------------------------------------------------------------------------
(* One request.                                                            *)

Is(r, s) == request[r].state = s

Answered(r) ==
  /\ Is(r, "asked")
  /\ request' = [request EXCEPT ![r].state = "answered", ![r].value = version]
  /\ UNCHANGED <<version, reward, call, errors, refused>>

(* Defect: the loop ends without raising, and None is the answer. *)
AfterErrorSwallowed(r) ==
  IF request[r].i < Retries - 1
    THEN [request[r] EXCEPT !.state = "sleeping"]
    ELSE [request[r] EXCEPT !.state = "answered"]

(* Defect: the last attempt is not made. *)
AfterErrorEarly(r) ==
  IF request[r].i + 1 < Retries - 1
    THEN [request[r] EXCEPT !.state = "sleeping"]
    ELSE [request[r] EXCEPT !.state = "raised"]

(* The last attempt raises its error, the others back off. *)
AfterError(r) ==
  IF request[r].i < Retries - 1
    THEN [request[r] EXCEPT !.state = "sleeping"]
    ELSE [request[r] EXCEPT !.state = "raised"]

(* A timeout, a lost connection, an error status. *)
Error(r) ==
  /\ Is(r, "asked")
  /\ request' = [request EXCEPT ![r] = AfterError(r)]
  /\ errors' = [errors EXCEPT ![r] = @ + 1]
  /\ UNCHANGED <<version, reward, call, refused>>

WakeUp(r) ==
  /\ Is(r, "sleeping")
  /\ request' = [request EXCEPT ![r].state = "asked", ![r].i = @ + 1]
  /\ UNCHANGED <<version, reward, call, errors, refused>>

(* Any other exception passes the middleware. *)
Refuse(r) ==
  /\ Is(r, "asked")
  /\ request' = [request EXCEPT ![r].state = "raised"]
  /\ refused' = refused \cup {r}
  /\ UNCHANGED <<version, reward, call, errors>>

Progress(r) == Answered(r) \/ Error(r) \/ WakeUp(r) \/ Refuse(r)

-----------------------------------------------------------------------------
(* The call.                                                               *)

(***************************************************************************)
(* All parts are there.  A reward trace names the miner; without one, the  *)
(* block is asked for again.                                               *)
(***************************************************************************)
Gathered ==
  /\ call = "gather"
  /\ \A r \in Parts : Is(r, "answered")
  /\ IF reward
       THEN /\ call' = "done"
            /\ request' = [request EXCEPT !["miner"] =
                             Answer(request["traces"].value)]
       ELSE /\ call' = "miner"
            /\ request' = [request EXCEPT !["miner"] = Asked]
  /\ UNCHANGED <<version, reward, errors, refused>>

(* Defect: only the four parts are watched for an exception. *)
RaisedByPart ==
  /\ call \in {"gather", "miner"}
  /\ \E r \in Parts : Is(r, "raised")
  /\ call' = "raised"
  /\ UNCHANGED <<version, reward, request, errors, refused>>

(* The first exception ends the call; the other requests go on. *)
Raised ==
  /\ call \in {"gather", "miner"}
  /\ \E r \in Requests : Is(r, "raised")
  /\ call' = "raised"
  /\ UNCHANGED <<version, reward, request, errors, refused>>

Assembled ==
  /\ call = "miner" /\ Is("miner", "answered")
  /\ call' = "done"
  /\ UNCHANGED <<version, reward, request, errors, refused>>

Ended == call \in {"done", "raised"}

Next ==
  \/ Fork
  \/ \E r \in Requests : Progress(r)
  \/ Gathered \/ Raised \/ Assembled

Spec == Init /\ [][Next]_vars

(***************************************************************************)
(* The node or the timeout answers a request, a sleep ends, and the event  *)
(* loop resumes the call.                                                  *)
(***************************************************************************)
FairSpec ==
  /\ Spec
  /\ \A r \in Requests : WF_vars(Progress(r))
  /\ WF_vars(Gathered \/ Raised \/ Assembled)

-----------------------------------------------------------------------------
(* Properties.                                                             *)

(***************************************************************************)
(* The middleware hides fewer than Retries errors, and raises after that   *)
(* many: it neither gives up early nor loses the last error.               *)
(***************************************************************************)
RetriesAreExact ==
  \A r \in Requests :
    /\ Is(r, "raised") => r \in refused \/ errors[r] = Retries
    /\ Is(r, "answered") => errors[r] < Retries

(***************************************************************************)
(* A block is never put together with a part missing, and is put together  *)
(* unless one of its own requests has raised.                              *)
(***************************************************************************)
BlocksAreComplete ==
  /\ call = "done" =>
       \A r \in Requests : Is(r, "answered") /\ request[r].value # Nothing
  /\ call = "raised" => \E r \in Requests : Is(r, "raised")

(***************************************************************************)
(* Whatever fails and however often the block changes meanwhile, the call  *)
(* returns a block or raises.                                              *)
(***************************************************************************)
EveryCallEnds == <>Ended
=============================================================================
