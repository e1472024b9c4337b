--------------------------- MODULE Detection_proofs ---------------------------
(***************************************************************************)
(* The algorithms of Detection, on any input.  Each section reads the      *)
(* variables as its algorithm uses them.                                   *)
(***************************************************************************)
EXTENDS Detection, FiniteSetTheorems, NaturalsInduction, SequenceTheorems, TLAPS

(* The algorithms do not mix: each begins and goes on alone. *)
LEMMA OneBegins ==
  ASSUME Init
  PROVE  /\ algorithm = "swaps" => S!Init
         /\ algorithm = "sandwiches" => W!Init
         /\ algorithm = "liquidations" => L!Init
         /\ algorithm = "copy" => R!Init
         /\ algorithm = "prices" => D!Init
         /\ algorithm = "token flow" => T!Init
         /\ algorithm = "miner payments" => M!Init
         /\ algorithm = "nft trades" => N!Init
         /\ algorithm = "arbitrages" => A!Init
         /\ algorithm = "punks" => P!Init
         /\ algorithm = "classify" => C!Init
BY DEF Init

LEMMA OneGoesOn ==
  ASSUME [Next]_variables
  PROVE  /\ algorithm' = algorithm
         /\ \/ UNCHANGED variables
            \/ /\ algorithm = "swaps" => S!Next
               /\ algorithm = "sandwiches" => W!Next
               /\ algorithm = "liquidations" => L!Next
               /\ algorithm = "copy" => R!Next
               /\ algorithm = "prices" => D!Next
               /\ algorithm = "token flow" => T!Next
               /\ algorithm = "miner payments" => M!Next
               /\ algorithm = "nft trades" => N!Next
               /\ algorithm = "arbitrages" => A!Next
               /\ algorithm = "punks" => P!Next
               /\ algorithm = "classify" => C!Next
BY DEF Next, variables
-----------------------------------------------------------------------------
(* Sandwiches: input is swap, extra is front, memo is victims, and result   *)
(* is sandwiches.                                                          *)

(***************************************************************************)
(* The scan has collected the victims it has passed, and passed no return  *)
(* after a victim.                                                         *)
(***************************************************************************)
ScanInv ==
  /\ Len(input) \in Nat
  /\ extra \in Nat /\ 1 <= extra
  /\ at \in Nat /\ extra < at
  /\ memo = W!VictimsBetween(extra, at)
  /\ \A b \in W!BackRuns(extra) : at <= b
  /\ W!SandwichesAreExact

LEMMA ScanBegins == W!Init => ScanInv
<1> SUFFICES ASSUME W!Init
             PROVE  ScanInv
  OBVIOUS
<1>1. Len(input) \in Nat /\ extra = 1 /\ at = 2 /\ memo = {} /\ result = {}
  BY ListsAssumption DEF W!Init, ListsEnd
<1>2. memo = W!VictimsBetween(extra, at)
  BY <1>1 DEF W!VictimsBetween
<1>3. \A b \in W!BackRuns(extra) : at <= b
  BY <1>1 DEF W!BackRuns
<1>4. W!SandwichesAreExact
  BY <1>1 DEF W!SandwichesAreExact
<1> QED
  BY <1>1, <1>2, <1>3, <1>4 DEF ScanInv

(* The sandwich of a front run that has one. *)
SandwichOf(f) ==
  [front |-> f, back |-> W!Min(W!BackRuns(f)),
   victims |-> W!VictimsBetween(f, W!Min(W!BackRuns(f)))]

(* A front run is done with. *)
LEMMA FrontIsDone ==
  ASSUME ScanInv, input' = input, W!NextFront,
         result' = result \cup
           (IF extra \in W!Swaps /\ W!BackRuns(extra) # {}
              THEN {SandwichOf(extra)} ELSE {})
  PROVE  ScanInv'
<1>1. /\ Len(input) \in Nat /\ extra \in Nat /\ 1 <= extra
      /\ extra' = extra + 1 /\ at' = extra + 2 /\ memo' = {}
  BY DEF ScanInv, W!NextFront
<1>2. /\ \A f : W!BackRuns(f)' = W!BackRuns(f)
      /\ \A f, b : W!VictimsBetween(f, b)' = W!VictimsBetween(f, b)
      /\ W!Swaps' = W!Swaps
  BY DEF W!BackRuns, W!VictimsBetween, W!Swaps, W!IsVictim, W!IsBackRun, W!Concerns,
         W!SameDirection, W!OtherDirection, W!Sandwicher
<1>3. memo' = W!VictimsBetween(extra, at)'
  BY <1>1 DEF W!VictimsBetween
<1>4. \A b \in W!BackRuns(extra)' : at' <= b
  BY <1>1, <1>2 DEF W!BackRuns
<1>5. W!SandwichesAreExact'
  <2>1. result = {SandwichOf(f) :
          f \in {g \in 1 .. extra - 1 : g \in W!Swaps /\ W!BackRuns(g) # {}}}
    BY DEF ScanInv, W!SandwichesAreExact, SandwichOf
  <2>2. 1 .. extra' - 1 = (1 .. extra - 1) \cup {extra}
    BY <1>1
  <2>3. result' = {SandwichOf(f) :
          f \in {g \in 1 .. extra' - 1 : g \in W!Swaps /\ W!BackRuns(g) # {}}}
    BY <2>1, <2>2
  <2> QED
    BY <1>2, <2>3 DEF W!SandwichesAreExact, SandwichOf
<1> QED
  BY <1>1, <1>3, <1>4, <1>5 DEF ScanInv

LEMMA ScanGoesOn ==
  ASSUME ScanInv, [W!Next]_W!vars
  PROVE  ScanInv'
<1>1. /\ Len(input) \in Nat /\ extra \in Nat /\ 1 <= extra
      /\ at \in Nat /\ extra < at
      /\ memo = W!VictimsBetween(extra, at)
      /\ \A b \in W!BackRuns(extra) : at <= b
  BY DEF ScanInv
<1>2. CASE W!GiveUp
  <2>1. W!BackRuns(extra) = {}
    BY <1>1, <1>2 DEF W!GiveUp, W!BackRuns
  <2> QED
    BY <1>2, <2>1, FrontIsDone DEF W!GiveUp
<1>3. CASE W!Close
  <2>1. at \in W!BackRuns(extra)
    BY <1>1, <1>3 DEF W!Close, W!Scanning, W!BackRuns, W!Swaps
  <2>2. W!BackRuns(extra) \subseteq Nat
    BY <1>1 DEF W!BackRuns
  <2>3. W!Min(W!BackRuns(extra)) = at
    BY <1>1, <2>1, <2>2 DEF W!Min
  <2>4. result' = result \cup {SandwichOf(extra)}
    BY <1>1, <1>3, <2>3 DEF W!Close, SandwichOf
  <2> QED
    BY <1>3, <2>1, <2>4, FrontIsDone DEF W!Close, W!Scanning
<1>4. CASE W!GoOn
  <2>1. /\ UNCHANGED <<input, extra, result>> /\ at' = at + 1
        /\ W!Scanning /\ ~(W!IsBackRun(extra, at) /\ memo # {})
        /\ memo' = IF W!IsVictim(extra, at) THEN memo \cup {at} ELSE memo
    BY <1>4 DEF W!GoOn
  <2>2. /\ \A f : W!BackRuns(f)' = W!BackRuns(f)
        /\ \A f, b : W!VictimsBetween(f, b)' = W!VictimsBetween(f, b)
        /\ W!Swaps' = W!Swaps
    BY <2>1 DEF W!BackRuns, W!VictimsBetween, W!Swaps, W!IsVictim, W!IsBackRun,
                W!Concerns, W!SameDirection, W!OtherDirection, W!Sandwicher
  <2>3. extra + 1 .. (at + 1) - 1 = (extra + 1 .. at - 1) \cup {at}
    BY <1>1
  <2>4. memo' = W!VictimsBetween(extra, at + 1)
    BY <1>1, <2>1, <2>3 DEF W!VictimsBetween
  <2>5. at \notin W!BackRuns(extra)
    BY <1>1, <2>1 DEF W!BackRuns
  <2>6. \A b \in W!BackRuns(extra) : at + 1 <= b
    BY <1>1, <2>5 DEF W!BackRuns
  <2>7. W!SandwichesAreExact'
    BY <2>1, <2>2 DEF ScanInv, W!SandwichesAreExact
  <2>8. memo' = W!VictimsBetween(extra, at)'
    BY <2>1, <2>4 DEF W!VictimsBetween, W!IsVictim, W!Concerns, W!SameDirection,
                      W!Sandwicher
  <2>9. W!BackRuns(extra)' = W!BackRuns(extra)
    BY <2>1 DEF W!BackRuns, W!VictimsBetween, W!IsVictim, W!IsBackRun, W!Concerns,
                W!SameDirection, W!OtherDirection, W!Sandwicher
  <2>10. \A b \in W!BackRuns(extra)' : at' <= b
    BY <2>1, <2>6, <2>9
  <2>11. Len(input)' \in Nat /\ extra' \in Nat /\ 1 <= extra' /\ at' \in Nat /\ extra' < at'
    BY <1>1, <2>1
  <2> QED
    BY <2>7, <2>8, <2>10, <2>11 DEF ScanInv
<1>5. CASE UNCHANGED W!vars
  BY <1>5 DEF W!vars, ScanInv, W!SandwichesAreExact, W!BackRuns, W!VictimsBetween, W!Swaps,
              W!IsVictim, W!IsBackRun, W!Concerns, W!SameDirection, W!OtherDirection,
              W!Sandwicher
<1> QED
  BY <1>2, <1>3, <1>4, <1>5 DEF W!Next

(***************************************************************************)
(* get_sandwiches finds the sandwiches there are and nothing else, with    *)
(* the first return after a victim, in a block of any number of swaps.     *)
(***************************************************************************)
THEOREM SandwichesAreFound == Spec => []SandwichesAreExact
<1> DEFINE Inv == algorithm = "sandwiches" => ScanInv
<1>1. Inv => SandwichesAreExact
  BY DEF ScanInv, SandwichesAreExact
<1>2. Init => Inv
  BY OneBegins, ScanBegins
<1>3. Inv /\ [Next]_variables => Inv'
  <2> SUFFICES ASSUME Inv, [Next]_variables, algorithm' = "sandwiches"
               PROVE  ScanInv'
    OBVIOUS
  <2>1. algorithm = "sandwiches" /\ [W!Next]_W!vars
    BY OneGoesOn DEF variables, W!vars
  <2> QED
    BY <2>1, ScanGoesOn
<1> QED
  BY <1>1, <1>2, <1>3, PTL DEF Spec

-----------------------------------------------------------------------------
(* The reader of text: input is ends, at is taken, memo is buff, extra is   *)
(* request, and result is pieces.                                          *)

TextTypeOK ==
  /\ Ascends(input)
  /\ at \in 0 .. Len(input)
  /\ memo \in Nat \X Nat
  /\ extra \in [n : Nat, missing : Nat, open : BOOLEAN]
  /\ result \in Seq(Nat \X Nat)

(***************************************************************************)
(* The buffer is what is left of the last chunk, and the pieces end where  *)
(* it begins; a read that has stopped short has found nothing more.        *)
(***************************************************************************)
TextInv ==
  /\ TextTypeOK
  /\ memo[1] <= memo[2] /\ memo[2] = R!EndOf(at)
  /\ R!Position = memo[1]
  /\ R!ReadsAreInOrder
  /\ ~extra.open /\ extra.missing > 0 => R!NothingLeft

LEMMA TextInit == R!Init => TextInv
BY TextAssumption DEF TextsAndSizes, R!Init, TextInv, TextTypeOK, R!EndOf, R!Position,
       R!ReadsAreInOrder

LEMMA EndIsNat == ASSUME TextTypeOK PROVE R!End \in Nat
BY DEF TextTypeOK, Ascends, R!End, R!EndOf

LEMMA BeginStep ==
  ASSUME TextInv, NEW n \in Nat, R!Begin(n)
  PROVE  TextInv'
BY DEF R!Begin, TextInv, TextTypeOK, R!EndOf, R!Position, R!ReadsAreInOrder

LEMMA TakeChunkStep ==
  ASSUME TextInv, R!TakeChunk
  PROVE  TextInv'
<1>1. /\ at + 1 \in 1 .. Len(input)
      /\ R!EndOf(at) \in Nat /\ R!EndOf(at + 1) \in Nat
      /\ R!EndOf(at) <= R!EndOf(at + 1)
  <2>1. at \in Nat /\ at + 1 \in 1 .. Len(input) /\ at + 1 # 0
    BY DEF R!TakeChunk, R!Exhausted, TextInv, TextTypeOK, Ascends
  <2>2. /\ \A i \in 1 .. Len(input) : input[i] \in Nat
        /\ (IF at + 1 = 1 THEN 0 ELSE input[(at + 1) - 1]) <= input[at + 1]
    BY <2>1 DEF TextInv, TextTypeOK, Ascends
  <2>3. (at + 1) - 1 = at
    BY <2>1
  <2>4. CASE at = 0
    BY <2>1, <2>2, <2>4 DEF R!EndOf
  <2>5. CASE at # 0
    <3>1. at \in 1 .. Len(input) /\ at + 1 # 1
      BY <2>1, <2>5 DEF TextInv, TextTypeOK
    <3>2. QED
      BY <2>1, <2>2, <2>3, <2>5, <3>1 DEF R!EndOf
  <2>6. QED
    BY <2>4, <2>5
<1>2. TextTypeOK' /\ (memo[1] <= memo[2])' /\ (memo[2] = R!EndOf(at))'
  BY <1>1 DEF R!TakeChunk, R!Going, TextInv, TextTypeOK, R!EndOf
<1>3. (R!Position = memo[1])' /\ R!ReadsAreInOrder'
  BY <1>1 DEF R!TakeChunk, TextInv, TextTypeOK, R!IsEmpty, R!Position, R!ReadsAreInOrder
<1>4. extra'.open
  BY DEF R!TakeChunk, R!Going
<1>5. QED
  BY <1>2, <1>3, <1>4 DEF TextInv

LEMMA TakePieceStep ==
  ASSUME TextInv, R!TakePiece
  PROVE  TextInv'
<1> DEFINE n == R!Smaller(extra.missing, memo[2] - memo[1])
           piece == <<memo[1], memo[1] + n>>
<1>1. n \in Nat /\ n > 0 /\ n <= extra.missing /\ n <= memo[2] - memo[1]
  <2>1. extra.missing > 0 /\ memo[1] # memo[2]
    BY DEF R!TakePiece, R!Going, R!IsEmpty
  <2>2. extra.missing \in Nat /\ memo[1] \in Nat /\ memo[2] \in Nat /\ memo[1] <= memo[2]
    BY DEF TextInv, TextTypeOK
  <2> QED
    BY <2>1, <2>2 DEF R!Smaller
<1>2. /\ result' = Append(result, piece)
      /\ memo' = <<memo[1] + n, memo[2]>>
      /\ extra' = [extra EXCEPT !.missing = @ - n]
      /\ UNCHANGED <<input, at>> /\ extra.open
  BY DEF R!TakePiece, R!Going, R!Drop
<1>3. piece \in Nat \X Nat /\ piece[1] = memo[1] /\ piece[2] = memo[1] + n
  BY <1>1 DEF TextInv, TextTypeOK
<1> HIDE DEF n, piece
<1>4. TextTypeOK' /\ (memo[1] <= memo[2])' /\ (memo[2] = R!EndOf(at))'
  <2>1. memo[1] \in Nat /\ memo[2] \in Nat /\ memo[1] <= memo[2]
    BY DEF TextInv, TextTypeOK
  <2>2. /\ memo' \in Nat \X Nat /\ memo'[1] = memo[1] + n /\ memo'[2] = memo[2]
        /\ memo'[1] <= memo'[2]
    BY <1>1, <1>2, <2>1
  <2>3. extra' \in [n : Nat, missing : Nat, open : BOOLEAN]
    <3>1. extra.missing - n \in Nat
      BY <1>1 DEF TextInv, TextTypeOK
    <3>2. QED
      BY <1>2, <3>1 DEF TextInv, TextTypeOK
  <2>4. result' \in Seq(Nat \X Nat)
    BY <1>2, <1>3 DEF TextInv, TextTypeOK
  <2>5. Ascends(input)' /\ (at \in 0 .. Len(input))'
    BY <1>2 DEF TextInv, TextTypeOK, Ascends
  <2>6. (memo[2] = R!EndOf(at))'
    BY <1>2, <2>2 DEF TextInv, R!EndOf
  <2>7. QED
    BY <2>2, <2>3, <2>4, <2>5, <2>6 DEF TextTypeOK
<1>5. /\ Len(result') = Len(result) + 1 /\ Len(result) \in Nat
      /\ result' # <<>> /\ result'[Len(result')] = piece
      /\ \A i \in 1 .. Len(result) : result'[i] = result[i]
  BY <1>2, <1>3 DEF TextInv, TextTypeOK
<1>6. (R!Position = memo[1])'
  BY <1>2, <1>3, <1>5 DEF R!Position, TextInv, TextTypeOK
<1>7. R!ReadsAreInOrder'
  <2> SUFFICES ASSUME NEW i \in 1 .. Len(result) + 1
               PROVE  /\ result'[i][1] = IF i = 1 THEN 0 ELSE result'[i - 1][2]
                      /\ result'[i][1] < result'[i][2]
    BY <1>5 DEF R!ReadsAreInOrder
  <2>1. CASE i <= Len(result)
    <3>1. i \in DOMAIN result /\ result'[i] = result[i]
      BY <1>5, <2>1 DEF TextInv, TextTypeOK
    <3>2. i # 1 => result'[i - 1] = result[i - 1]
      BY <1>5, <2>1
    <3>3. QED
      BY <3>1, <3>2 DEF TextInv, R!ReadsAreInOrder
  <2>2. CASE i = Len(result) + 1
    <3>1. result'[i][1] = R!Position /\ result'[i][1] < result'[i][2]
      BY <1>1, <1>3, <1>5, <2>2 DEF TextInv, TextTypeOK
    <3>2. R!Position = IF i = 1 THEN 0 ELSE result'[i - 1][2]
      <4>1. result = <<>> <=> i = 1
        BY <1>5, <2>2 DEF TextInv, TextTypeOK
      <4>2. CASE i = 1
        BY <4>1, <4>2 DEF R!Position
      <4>3. CASE i # 1
        <5>1. i - 1 = Len(result) /\ result'[i - 1] = result[Len(result)]
          BY <1>5, <2>2, <4>3
        <5>2. QED
          BY <4>1, <4>3, <5>1 DEF R!Position
      <4>4. QED
        BY <4>2, <4>3
    <3>3. QED
      BY <3>1, <3>2
  <2>3. QED
    BY <2>1, <2>2, <1>5
<1>8. extra'.open
  BY <1>2 DEF TextInv, TextTypeOK
<1>9. QED
  BY <1>4, <1>6, <1>7, <1>8 DEF TextInv

LEMMA ReturnStep ==
  ASSUME TextInv, R!Return
  PROVE  TextInv'
<1>1. UNCHANGED <<input, at, memo, result>>
  BY DEF R!Return
<1>2. extra' = [extra EXCEPT !.open = FALSE]
  BY DEF R!Return
<1>3. /\ extra' \in [n : Nat, missing : Nat, open : BOOLEAN]
      /\ extra'.missing = extra.missing
  BY <1>2 DEF TextInv, TextTypeOK
<1>4. TextTypeOK'
  BY <1>1, <1>3 DEF TextInv, TextTypeOK, Ascends
<1>5. /\ (memo[1] <= memo[2])' /\ (memo[2] = R!EndOf(at))'
      /\ (R!Position = memo[1])' /\ R!ReadsAreInOrder'
  BY <1>1 DEF TextInv, R!EndOf, R!Position, R!ReadsAreInOrder
<1>6. extra'.missing > 0 => R!NothingLeft'
  <2>1. extra.missing > 0 => R!NothingLeft
    BY DEF R!Return, TextInv, TextTypeOK
  <2>2. QED
    BY <1>1, <1>3, <2>1 DEF R!NothingLeft, R!IsEmpty, R!Exhausted
<1>7. QED
  BY <1>4, <1>5, <1>6 DEF TextInv

LEMMA TextStep ==
  ASSUME TextInv, [R!Next]_R!vars
  PROVE  TextInv'
<1>1. CASE R!Read
  BY <1>1, BeginStep, TextAssumption DEF R!Read, TextsAndSizes
<1>2. CASE R!ReadAll
  <2>1. R!End + 1 \in Nat
    BY EndIsNat DEF TextInv
  <2>2. QED
    BY <1>2, <2>1, BeginStep DEF R!ReadAll
<1>3. CASE UNCHANGED R!vars
  BY <1>3 DEF R!vars, TextInv, TextTypeOK, R!EndOf, R!Position, R!ReadsAreInOrder,
              R!NothingLeft, R!IsEmpty, R!Exhausted
<1>4. QED
  BY <1>1, <1>2, <1>3, TakeChunkStep, TakePieceStep, ReturnStep DEF R!Next

LEMMA ShortOnlyAtEnd == ASSUME TextInv PROVE R!ShortReadsAreTheLast
BY DEF TextInv, TextTypeOK, R!ShortReadsAreTheLast, R!NothingLeft, R!IsEmpty,
       R!Exhausted, R!End

(***************************************************************************)
(* The reads return the text in order, nothing twice and nothing left out, *)
(* and have fewer characters than they were asked for only at its end.     *)
(***************************************************************************)
THEOREM TextIsRead == Spec => []ReadsAreTheText
<1> DEFINE Inv == algorithm = "copy" => TextInv
<1>1. Inv => ReadsAreTheText
  BY ShortOnlyAtEnd DEF TextInv, ReadsAreTheText, R!ReadsAreTheText
<1>2. Init => Inv
  BY OneBegins, TextInit
<1>3. Inv /\ [Next]_variables => Inv'
  <2> SUFFICES ASSUME Inv, [Next]_variables, algorithm' = "copy"
               PROVE  TextInv'
    OBVIOUS
  <2>1. algorithm = "copy" /\ [R!Next]_R!vars
    BY OneGoesOn DEF variables, R!vars
  <2> QED
    BY <2>1, TextStep
<1> QED
  BY <1>1, <1>2, <1>3, PTL DEF Spec

-----------------------------------------------------------------------------
(* Least and greatest elements.                                            *)

LEMMA HasLeast ==
  ASSUME NEW E \in SUBSET Nat, E # {}
  PROVE  \E x \in E : \A y \in E : x <= y
<1>1. IsWellFoundedOn(OpToRel(<, Nat), Nat)
  BY NatLessThanWellFounded
<1>2. PICK x \in E : \A y \in E : <<y, x>> \notin OpToRel(<, Nat)
  BY <1>1, WFMin
<1>3. ASSUME NEW y \in E
      PROVE  x <= y
  <2>1. x \in Nat /\ y \in Nat
    OBVIOUS
  <2>2. ~(y < x)
    BY <1>2, <2>1 DEF OpToRel
  <2> QED
    BY <2>1, <2>2
<1> QED
  BY <1>3

LEMMA HasGreatest ==
  ASSUME NEW E \in SUBSET Nat, E # {}, NEW n \in Nat, \A x \in E : x <= n
  PROVE  \E x \in E : \A y \in E : x >= y
<1> DEFINE Bounds == {m \in Nat : \A x \in E : x <= m}
<1>1. PICK m \in Bounds : \A k \in Bounds : m <= k
  <2>1. n \in Bounds /\ Bounds \in SUBSET Nat
    OBVIOUS
  <2> QED
    BY <2>1, HasLeast
<1>2. m \in E
  <2> SUFFICES ASSUME m \notin E
               PROVE  FALSE
    OBVIOUS
  <2>1. \A x \in E : x \in Nat /\ x < m
    BY <1>1
  <2>2. PICK x \in E : x < m
    BY <2>1
  <2>3. m \in Nat /\ m - 1 \in Nat /\ ~(m <= m - 1)
    BY <1>1, <2>1, <2>2
  <2>4. m - 1 \in Bounds
    BY <2>1, <2>3
  <2> QED
    BY <1>1, <2>3, <2>4
<1> QED
  BY <1>1, <1>2

-----------------------------------------------------------------------------
(* Prices: input is prices, extra is fetched, and result is summary.       *)

Row(token, s) == [token |-> token, time |-> s.time, usd |-> s.usd]

(* The rows of the table, and of what is fetched: no key twice. *)
AreKeyed(rows) ==
  /\ \A p \in rows : p = Row(p.token, p) /\ p.time \in Nat \ {0}
  /\ \A p, q \in rows : p.token = q.token /\ p.time = q.time => p = q

(* A price of the summary is in the table. *)
IsKnown(s, token) ==
  /\ s = [time |-> s.time, usd |-> s.usd]
  /\ Row(token, s) \in input
  /\ s.time <= BlockTime

PriceInv ==
  /\ AreKeyed(input) /\ AreKeyed(extra)
  /\ at \in Nat \ {0}
  /\ \A p \in extra : \E i \in DOMAIN Tokens : i < at /\ p.token = Tokens[i]
  /\ result.profit = D!None \/ IsKnown(result.profit, Profit)
  /\ result.miner = D!None \/ IsKnown(result.miner, Ether)

Known(token) == {p \in input : p.token = token /\ p.time <= BlockTime}

LEMMA PriceIsTheLast ==
  ASSUME PriceInv, NEW token
  PROVE  \/ Known(token) = {} /\ D!PriceOf(token) = D!None
         \/ /\ IsKnown(D!PriceOf(token), token)
            /\ \A p \in Known(token) : p.time <= D!PriceOf(token).time
<1> DEFINE times == {p.time : p \in Known(token)}
           last == D!Max(times)
           Candidates == [time : {last}, usd : {p.usd : p \in Known(token)}]
<1>1. CASE Known(token) = {}
  BY <1>1 DEF D!PriceOf, Known
<1>2. CASE Known(token) # {}
  <2>1. last \in times /\ \A n \in times : last >= n
    <3>1. times \in SUBSET Nat /\ times # {} /\ \A n \in times : n <= BlockTime
      BY <1>2 DEF PriceInv, AreKeyed, Known
    <3>2. BlockTime \in Nat
      BY PricesAssumption DEF OnePriceATime
    <3>3. \E x \in times : \A y \in times : x >= y
      BY <3>1, <3>2, HasGreatest
    <3> QED
      BY <3>3 DEF D!Max
  <2>2. PICK p \in Known(token) : p.time = last
    BY <2>1
  <2>3. [time |-> last, usd |-> p.usd] \in Candidates
    OBVIOUS
  <2>4. Row(token, [time |-> last, usd |-> p.usd]) \in Known(token)
    BY <2>2 DEF PriceInv, AreKeyed, Known, Row
  <2>5. D!PriceOf(token) = CHOOSE s \in Candidates : Row(token, s) \in Known(token)
    BY <1>2 DEF D!PriceOf, Known, Row
  <2>6. D!PriceOf(token) \in Candidates /\ Row(token, D!PriceOf(token)) \in Known(token)
    BY <2>3, <2>4, <2>5
  <2>7. /\ D!PriceOf(token).time = last
        /\ D!PriceOf(token)
             = [time |-> D!PriceOf(token).time, usd |-> D!PriceOf(token).usd]
    BY <2>6
  <2>8. last <= BlockTime
    BY <2>2 DEF Known
  <2>9. IsKnown(D!PriceOf(token), token)
    BY <2>6, <2>7, <2>8 DEF IsKnown, Known
  <2>10. \A q \in Known(token) : q.time <= D!PriceOf(token).time
    BY <2>1, <2>7
  <2> QED
    BY <2>9, <2>10
<1> QED
  BY <1>1, <1>2

LEMMA AnotherPriceIsNearer ==
  ASSUME PriceInv, NEW token,
         NEW s, s = D!None \/ IsKnown(s, token), D!PriceOf(token) # s
  PROVE  s.time < D!PriceOf(token).time /\ D!PriceOf(token).time <= BlockTime
<1> DEFINE new == D!PriceOf(token)
<1>1. CASE s = D!None
  <2>1. IsKnown(new, token)
    BY <1>1, PriceIsTheLast
  <2>2. Row(token, new).time = new.time
    BY DEF Row
  <2>3. new.time \in Nat \ {0}
    BY <2>1, <2>2 DEF IsKnown, PriceInv, AreKeyed
  <2> QED
    BY <1>1, <2>1, <2>3 DEF IsKnown, D!None
<1>2. CASE IsKnown(s, token)
  <2>1. /\ Row(token, s) \in Known(token)
        /\ Row(token, s).time = s.time /\ Row(token, s).token = token
        /\ Row(token, s).usd = s.usd
    BY <1>2 DEF IsKnown, Known, Row
  <2>2. IsKnown(new, token) /\ s.time <= new.time
    BY <2>1, PriceIsTheLast
  <2>3. /\ Row(token, new) \in input
        /\ Row(token, new).time = new.time /\ Row(token, new).token = token
        /\ Row(token, new).usd = new.usd
    BY <2>2 DEF IsKnown, Row
  <2>4. s.time \in Nat /\ new.time \in Nat
    BY <1>2, <2>1, <2>3 DEF IsKnown, PriceInv, AreKeyed
  <2>5. s.time # new.time
    <3> SUFFICES ASSUME s.time = new.time
                 PROVE  FALSE
      OBVIOUS
    <3>1. Row(token, s) = Row(token, new)
      BY <1>2, <2>1, <2>3 DEF IsKnown, PriceInv, AreKeyed
    <3>2. s.usd = new.usd
      BY <2>1, <2>3, <3>1
    <3> QED
      BY <1>2, <2>2, <3>2 DEF IsKnown
  <2> QED
    BY <2>2, <2>4, <2>5 DEF IsKnown
<1> QED
  BY <1>1, <1>2

LEMMA NothingIsPriced == ASSUME D!Init PROVE PriceInv
BY DEF D!Init, PriceInv, AreKeyed

(* The table only grows: the prices of the summary stay in it. *)
LEMMA KnownStays ==
  ASSUME PriceInv, result' = result, input \subseteq input'
  PROVE  /\ result'.profit = D!None \/ IsKnown(result.profit, Profit)'
         /\ result'.miner = D!None \/ IsKnown(result.miner, Ether)'
BY DEF PriceInv, IsKnown

LEMMA FetchTokenStep ==
  ASSUME PriceInv, D!FetchToken
  PROVE  PriceInv'
<1>1. PICK series \in Series :
        extra' = extra \cup
          {[token |-> Tokens[at], time |-> s.time, usd |-> s.usd] : s \in series}
  BY DEF D!FetchToken
<1>2. /\ at \in DOMAIN Tokens /\ at' = at + 1 /\ UNCHANGED <<input, result>>
  BY DEF D!FetchToken
<1>3. ASSUME NEW p \in extra'
      PROVE  \/ p \in extra
             \/ \E s \in series : p = Row(Tokens[at], s)
  BY <1>1 DEF Row
<1>4. \A s \in series : s.time \in Nat \ {0}
  BY PricesAssumption DEF OnePriceATime
<1>5. \A p \in extra : p.token # Tokens[at]
  BY <1>2, PricesAssumption DEF PriceInv, OnePriceATime
<1>6. AreKeyed(extra')
  <2>1. ASSUME NEW p \in extra'
        PROVE  p = Row(p.token, p) /\ p.time \in Nat \ {0}
    <3>1. CASE p \in extra
      BY <3>1 DEF PriceInv, AreKeyed
    <3>2. CASE \E s \in series : p = Row(Tokens[at], s)
      BY <1>4, <3>2 DEF Row
    <3> QED
      BY <1>3, <3>1, <3>2
  <2>2. ASSUME NEW p \in extra', NEW q \in extra', p.token = q.token, p.time = q.time
        PROVE  p = q
    <3>1. CASE p \in extra /\ q \in extra
      BY <2>2, <3>1 DEF PriceInv, AreKeyed
    <3>2. CASE \E r, s \in series : p = Row(Tokens[at], r) /\ q = Row(Tokens[at], s)
      <4>1. PICK r, s \in series : p = Row(Tokens[at], r) /\ q = Row(Tokens[at], s)
        BY <3>2
      <4>2. r.time = s.time
        BY <2>2, <4>1 DEF Row
      <4>3. r = s
        BY <4>2, PricesAssumption DEF OnePriceATime
      <4> QED
        BY <4>1, <4>3
    <3> QED
      BY <1>3, <1>5, <2>2, <3>1, <3>2 DEF Row
  <2> QED
    BY <2>1, <2>2 DEF AreKeyed
<1>7. at' \in Nat \ {0}
  BY <1>2 DEF PriceInv
<1>8. \A p \in extra' : \E i \in DOMAIN Tokens : i < at' /\ p.token = Tokens[i]
  <2> TAKE p \in extra'
  <2>1. CASE p \in extra
    BY <1>2, <2>1, PricesAssumption DEF PriceInv, OnePriceATime
  <2>2. CASE \E s \in series : p = Row(Tokens[at], s)
    BY <1>2, <2>2 DEF Row, PriceInv
  <2> QED
    BY <1>3, <2>1, <2>2
<1>9. AreKeyed(input)'
  BY <1>2 DEF PriceInv, AreKeyed
<1> QED
  BY <1>2, <1>6, <1>7, <1>8, <1>9, KnownStays DEF PriceInv

LEMMA WritePricesStep ==
  ASSUME PriceInv, D!WritePrices
  PROVE  PriceInv'
<1>1. /\ input' = D!Inserted(extra)
      /\ extra' = {} /\ at' = 1 /\ UNCHANGED result
  BY DEF D!WritePrices
<1>2. input \subseteq input'
  BY <1>1 DEF D!Inserted
<1>3. AreKeyed(input)'
  <2>1. \A p \in input' : \/ p \in input
                          \/ p \in extra /\ <<p.token, p.time>> \notin D!Keys(input)
    BY <1>1 DEF D!Inserted
  <2>2. \A p \in input' : p = Row(p.token, p) /\ p.time \in Nat \ {0}
    BY <2>1 DEF PriceInv, AreKeyed
  <2>3. ASSUME NEW p \in input', NEW q \in input', p.token = q.token, p.time = q.time
        PROVE  p = q
    <3>1. <<p.token, p.time>> = <<q.token, q.time>>
      BY <2>3
    <3>2. p \in input => <<p.token, p.time>> \in D!Keys(input)
      BY DEF D!Keys
    <3>3. q \in input => <<q.token, q.time>> \in D!Keys(input)
      BY DEF D!Keys
    <3> QED
      BY <2>1, <2>3, <3>1, <3>2, <3>3 DEF PriceInv, AreKeyed
  <2> QED
    BY <2>2, <2>3 DEF AreKeyed
<1>4. AreKeyed(extra)' /\ (\A p \in extra : \E i \in DOMAIN Tokens : i < at /\ p.token = Tokens[i])'
  BY <1>1 DEF AreKeyed
<1> QED
  BY <1>1, <1>2, <1>3, <1>4, KnownStays DEF PriceInv

LEMMA SummariseStep ==
  ASSUME PriceInv, D!Summarise
  PROVE  PriceInv' /\ D!RepeatIsNearer
<1>1. /\ result' = [profit |-> D!PriceOf(Profit), miner |-> D!PriceOf(Ether)]
      /\ UNCHANGED <<input, extra, at>>
  BY DEF D!Summarise
<1>2. \A token : D!PriceOf(token) = D!None \/ IsKnown(D!PriceOf(token), token)
  BY PriceIsTheLast
<1>3. PriceInv'
  <2>1. result'.profit = D!None \/ IsKnown(result.profit, Profit)'
    BY <1>1, <1>2 DEF IsKnown
  <2>2. result'.miner = D!None \/ IsKnown(result.miner, Ether)'
    BY <1>1, <1>2 DEF IsKnown
  <2>3. AreKeyed(input)' /\ AreKeyed(extra)' /\ at' \in Nat \ {0}
    BY <1>1 DEF PriceInv, AreKeyed
  <2>4. (\A p \in extra : \E i \in DOMAIN Tokens : i < at /\ p.token = Tokens[i])'
    BY <1>1 DEF PriceInv
  <2> QED
    BY <2>1, <2>2, <2>3, <2>4 DEF PriceInv
<1>4. D!RepeatIsNearer
  <2>1. result'.profit = D!PriceOf(Profit) /\ result'.miner = D!PriceOf(Ether)
    BY <1>1
  <2>2. result'.profit # result.profit =>
          /\ result.profit.time < result'.profit.time
          /\ result'.profit.time <= BlockTime
    BY <2>1, AnotherPriceIsNearer DEF PriceInv
  <2>3. result'.miner # result.miner =>
          /\ result.miner.time < result'.miner.time
          /\ result'.miner.time <= BlockTime
    BY <2>1, AnotherPriceIsNearer DEF PriceInv
  <2> QED
    BY <2>2, <2>3 DEF D!RepeatIsNearer
<1> QED
  BY <1>3, <1>4

LEMMA PricesGoOn ==
  ASSUME PriceInv, [D!Next]_D!vars
  PROVE  PriceInv' /\ (result' = result \/ D!RepeatIsNearer)
<1>1. CASE D!FetchToken
  BY <1>1, FetchTokenStep DEF D!FetchToken
<1>2. CASE D!FetchFails
  BY <1>2, KnownStays DEF D!FetchFails, PriceInv, AreKeyed
<1>3. CASE D!WritePrices
  BY <1>3, WritePricesStep DEF D!WritePrices
<1>4. CASE D!Summarise
  BY <1>4, SummariseStep
<1>5. CASE UNCHANGED D!vars
  BY <1>5 DEF D!vars, PriceInv, AreKeyed, IsKnown
<1> QED
  BY <1>1, <1>2, <1>3, <1>4, <1>5 DEF D!Next

(***************************************************************************)
(* However often prices are fetched and a block is inspected, its dollars  *)
(* are computed with the same price as before or with a nearer one.        *)
(***************************************************************************)
THEOREM PricesComeNearer == Spec => RepeatsComeNearer
<1> DEFINE Inv == algorithm = "prices" => PriceInv
<1>1. Init => Inv
  BY OneBegins, NothingIsPriced
<1>2. Inv /\ [Next]_variables =>
        Inv' /\ [algorithm = "prices" => D!RepeatIsNearer]_result
  <2> SUFFICES ASSUME Inv, [Next]_variables
               PROVE  Inv' /\ [algorithm = "prices" => D!RepeatIsNearer]_result
    OBVIOUS
  <2>1. algorithm' = algorithm
    BY OneGoesOn
  <2>2. CASE algorithm = "prices"
    <3>1. [D!Next]_D!vars
      BY <2>2, OneGoesOn DEF variables, D!vars
    <3> QED
      BY <2>1, <2>2, <3>1, PricesGoOn
  <2> QED
    BY <2>1, <2>2
<1> QED
  BY <1>1, <1>2, PTL DEF Spec, RepeatsComeNearer

-----------------------------------------------------------------------------
(* The tree of traces.                                                     *)

(* What a child's address is, element by element. *)
IsUnder(c, p) == Len(c) > Len(p) /\ \A k \in 1 .. Len(p) : c[k] = p[k]

(***************************************************************************)
(* What sorted() has put before another: the addresses differ first where  *)
(* the one is smaller, or has ended.                                       *)
(***************************************************************************)
IsBefore(a, b) ==
  \/ IsUnder(b, a)
  \/ \E n \in 1 .. Len(a) :
       n <= Len(b) /\ (\A k \in 1 .. n - 1 : a[k] = b[k]) /\ a[n] < b[n]

LEMMA PrefixByElement ==
  ASSUME NEW c \in Seq(Nat), NEW p \in Seq(Nat), NEW n \in 0 .. Len(c)
  PROVE  SubSeq(c, 1, n) = p <=> Len(p) = n /\ \A k \in 1 .. n : c[k] = p[k]
<1>1. /\ SubSeq(c, 1, n) \in Seq(Nat) /\ Len(SubSeq(c, 1, n)) = n
      /\ \A k \in 1 .. n : SubSeq(c, 1, n)[k] = c[k]
  <2>1. \A k \in 1 .. n : c[k] \in Nat
    OBVIOUS
  <2> QED
    BY <2>1, SubSeqProperties
<1>2. Len(p) = n /\ (\A k \in 1 .. n : c[k] = p[k]) => SubSeq(c, 1, n) = p
  BY <1>1, SeqEqual
<1> QED
  BY <1>1, <1>2

LEMMA ChildIsUnder ==
  ASSUME NEW c \in Seq(Nat), NEW p \in Seq(Nat)
  PROVE  /\ L!IsChildTraceAddress(c, p) <=> IsUnder(c, p)
         /\ S!IsChildTraceAddress(c, p) <=> IsUnder(c, p)
<1>1. Len(c) > Len(p) => Len(p) \in 0 .. Len(c)
  OBVIOUS
<1> QED
  BY <1>1, PrefixByElement
  DEF L!IsChildTraceAddress, S!IsChildTraceAddress, IsUnder

LEMMA AncestorIsAbove ==
  ASSUME NEW c \in Seq(Nat), NEW p \in Seq(Nat)
  PROVE  (\E n \in 0 .. Len(c) - 1 : p = SubSeq(c, 1, n)) <=> IsUnder(c, p)
<1>1. ASSUME NEW n \in 0 .. Len(c) - 1, p = SubSeq(c, 1, n)
      PROVE  IsUnder(c, p)
  <2>1. n \in 0 .. Len(c) /\ Len(c) > n
    OBVIOUS
  <2> QED
    BY <1>1, <2>1, PrefixByElement DEF IsUnder
<1>2. ASSUME IsUnder(c, p)
      PROVE  \E n \in 0 .. Len(c) - 1 : p = SubSeq(c, 1, n)
  <2>1. Len(p) \in 0 .. Len(c) - 1 /\ Len(p) \in 0 .. Len(c)
    BY <1>2 DEF IsUnder
  <2>2. p = SubSeq(c, 1, Len(p))
    BY <1>2, <2>1, PrefixByElement DEF IsUnder
  <2> QED
    BY <2>1, <2>2
<1> QED
  BY <1>1, <1>2

LEMMA BeforeByElement ==
  ASSUME NEW a \in Seq(Nat), NEW b \in Seq(Nat), L!AddressBefore(a, b) \/ S!AddressBefore(a, b)
  PROVE  IsBefore(a, b)
<1>1. CASE L!IsChildTraceAddress(b, a)
  BY <1>1, ChildIsUnder DEF IsBefore
<1>2. ASSUME NEW n \in 1 .. Len(a), n <= Len(b), a[n] < b[n],
             SubSeq(a, 1, n - 1) = SubSeq(b, 1, n - 1)
      PROVE  \A k \in 1 .. n - 1 : a[k] = b[k]
  <2>1. \A k \in 1 .. n - 1 : a[k] \in Nat /\ b[k] \in Nat
    BY <1>2
  <2>2. \A k \in 1 .. n - 1 : SubSeq(a, 1, n - 1)[k] = a[k]
    BY <2>1, SubSeqProperties
  <2>3. \A k \in 1 .. n - 1 : SubSeq(b, 1, n - 1)[k] = b[k]
    BY <2>1, SubSeqProperties
  <2> QED
    BY <1>2, <2>2, <2>3
<1>3. L!AddressBefore(a, b)
  BY DEF S!AddressBefore, L!AddressBefore, S!IsChildTraceAddress, L!IsChildTraceAddress
<1> QED
  BY <1>1, <1>2, <1>3 DEF L!AddressBefore, IsBefore

LEMMA UnderIsTransitive ==
  ASSUME NEW a \in Seq(Nat), NEW b \in Seq(Nat), NEW c \in Seq(Nat),
         IsUnder(a, b), IsUnder(b, c)
  PROVE  IsUnder(a, c)
BY DEF IsUnder

LEMMA UnderIsALine ==
  ASSUME NEW c \in Seq(Nat), NEW p \in Seq(Nat), NEW q \in Seq(Nat),
         IsUnder(c, p), IsUnder(c, q)
  PROVE  p = q \/ IsUnder(p, q) \/ IsUnder(q, p)
<1>1. Len(p) = Len(q) => p = q
  BY SeqEqual DEF IsUnder
<1>2. ASSUME Len(p) > Len(q)
      PROVE  IsUnder(p, q)
  <2>1. \A k \in 1 .. Len(q) : k \in 1 .. Len(p)
    BY <1>2
  <2> QED
    BY <1>2, <2>1 DEF IsUnder
<1>3. ASSUME Len(q) > Len(p)
      PROVE  IsUnder(q, p)
  <2>1. \A k \in 1 .. Len(p) : k \in 1 .. Len(q)
    BY <1>3
  <2> QED
    BY <1>3, <2>1 DEF IsUnder
<1>4. Len(p) \in Nat /\ Len(q) \in Nat
  OBVIOUS
<1> QED
  BY <1>1, <1>2, <1>3, <1>4

LEMMA BeforeIsNotUnder ==
  ASSUME NEW a \in Seq(Nat), NEW b \in Seq(Nat), IsBefore(a, b)
  PROVE  a # b /\ ~IsUnder(a, b)
BY DEF IsBefore, IsUnder

-----------------------------------------------------------------------------
(* Liquidations: input is trace, memo is parents, extra is raised, and     *)
(* result is liquidations.                                                 *)

Parsed == {p \in memo : ~L!RepaysNothing(p)}

(* What the loop has made of the traces it has passed. *)
LoanInv ==
  /\ IsCallOrder(input)
  /\ at \in Nat \ {0}
  /\ memo = {i \in L!Outermost : i < at}
  /\ ~extra => Parsed = memo
  /\ result = UNION {L!ParseLiquidation(p) : p \in Parsed}

LEMMA BelowIsUnder ==
  ASSUME IsCallOrder(input), NEW i \in L!Places, NEW p \in L!Places
  PROVE  /\ L!IsBelow(i, p) <=> /\ input[i].tx = input[p].tx
                                /\ IsUnder(input[i].address, input[p].address)
         /\ L!CalledBy(input[i], input[p]) <=> L!IsBelow(i, p)
<1>1. input[i].address \in Seq(Nat) /\ input[p].address \in Seq(Nat)
  BY DEF IsCallOrder, L!Places
<1>2. L!IsBelow(i, p) <=> /\ input[i].tx = input[p].tx
                          /\ IsUnder(input[i].address, input[p].address)
  BY <1>1, ChildIsUnder DEF L!IsBelow, L!IsChildTrace
<1>3. L!CalledBy(input[i], input[p]) <=>
        /\ input[i].tx = input[p].tx
        /\ IsUnder(input[i].address, input[p].address)
  BY <1>1, AncestorIsAbove DEF L!CalledBy
<1> QED
  BY <1>2, <1>3

LEMMA CallersComeFirst ==
  ASSUME IsCallOrder(input), NEW i \in L!Places, NEW p \in L!Places, L!IsBelow(i, p)
  PROVE  p < i
<1>1. i \in Nat /\ p \in Nat /\ i \in 1 .. Len(input) /\ p \in 1 .. Len(input)
  BY DEF L!Places
<1>2. /\ input[i].tx = input[p].tx
      /\ IsUnder(input[i].address, input[p].address)
      /\ input[i].address \in Seq(Nat) /\ input[p].address \in Seq(Nat)
  BY <1>1, BelowIsUnder DEF IsCallOrder
<1>3. i # p
  BY <1>2 DEF IsUnder
<1>4. ~(i < p)
  <2> SUFFICES ASSUME i < p
               PROVE  FALSE
    OBVIOUS
  <2>1. L!AddressBefore(input[i].address, input[p].address)
    BY <1>1, <1>2 DEF IsCallOrder
  <2> QED
    BY <1>2, <2>1, BeforeByElement, BeforeIsNotUnder
<1> QED
  BY <1>1, <1>3, <1>4

LEMMA BelowIsTransitive ==
  ASSUME IsCallOrder(input), NEW i \in L!Places, NEW p \in L!Places, NEW q \in L!Places,
         L!IsBelow(i, p), L!IsBelow(p, q)
  PROVE  L!IsBelow(i, q)
<1>1. /\ input[i].address \in Seq(Nat) /\ input[p].address \in Seq(Nat)
      /\ input[q].address \in Seq(Nat)
  BY DEF IsCallOrder, L!Places
<1> QED
  BY <1>1, BelowIsUnder, UnderIsTransitive

LEMMA CallersAreALine ==
  ASSUME IsCallOrder(input), NEW i \in L!Places, NEW p \in L!Places, NEW q \in L!Places,
         L!IsBelow(i, p), L!IsBelow(i, q), p # q
  PROVE  L!IsBelow(p, q) \/ L!IsBelow(q, p)
<1>1. /\ input[i].address \in Seq(Nat) /\ input[p].address \in Seq(Nat)
      /\ input[q].address \in Seq(Nat)
      /\ p \in 1 .. Len(input) /\ q \in 1 .. Len(input)
  BY DEF IsCallOrder, L!Places
<1>2. /\ input[i].tx = input[p].tx /\ input[i].tx = input[q].tx
      /\ IsUnder(input[i].address, input[p].address)
      /\ IsUnder(input[i].address, input[q].address)
  BY BelowIsUnder
<1>3. input[p].address # input[q].address
  <2>1. CASE p < q
    <3>1. L!AddressBefore(input[p].address, input[q].address)
      BY <1>1, <1>2, <2>1 DEF IsCallOrder
    <3> QED
      BY <1>1, <3>1, BeforeByElement, BeforeIsNotUnder
  <2>2. CASE q < p
    <3>1. L!AddressBefore(input[q].address, input[p].address)
      BY <1>1, <1>2, <2>2 DEF IsCallOrder
    <3> QED
      BY <1>1, <3>1, BeforeByElement, BeforeIsNotUnder
  <2> QED
    BY <1>1, <2>1, <2>2
<1>4. IsUnder(input[p].address, input[q].address) \/ IsUnder(input[q].address, input[p].address)
  BY <1>1, <1>2, <1>3, UnderIsALine
<1> QED
  BY <1>2, <1>4, BelowIsUnder

(* A call that liquidates is outermost, or an outermost one contains it. *)
LEMMA SomeOutermost ==
  ASSUME IsCallOrder(input), NEW i \in L!Liquidate, ~input[i].failed
  PROVE  i \in L!Outermost \/ \E q \in L!Outermost : L!IsBelow(i, q)
<1> DEFINE Above == {q \in L!Liquidate : ~input[q].failed /\ L!IsBelow(i, q)}
<1>1. CASE Above = {}
  BY <1>1, BelowIsUnder DEF L!Outermost, L!Liquidate
<1>2. CASE Above # {}
  <2>1. Above \in SUBSET Nat
    BY DEF L!Liquidate, L!Places
  <2>2. PICK q \in Above : \A r \in Above : q <= r
    BY <1>2, <2>1, HasLeast
  <2>3. ASSUME NEW r \in L!Liquidate, L!CalledBy(input[q], input[r]), ~input[r].failed
        PROVE  FALSE
    <3>1. q \in L!Places /\ r \in L!Places /\ i \in L!Places /\ L!IsBelow(q, r)
      BY <2>3, BelowIsUnder DEF L!Liquidate
    <3>2. L!IsBelow(i, r) /\ r < q
      BY <3>1, BelowIsTransitive, CallersComeFirst
    <3>3. r \in Above /\ r \in Nat /\ q \in Nat
      BY <2>1, <2>3, <3>2
    <3> QED
      BY <2>2, <3>2, <3>3
  <2>4. q \in L!Outermost
    BY <2>3 DEF L!Outermost
  <2> QED
    BY <2>4
<1> QED
  BY <1>1, <1>2

(* The loop takes the outermost ones, and no other. *)
LEMMA TakesTheOutermost ==
  ASSUME LoanInv, at \in L!Places
  PROVE  L!IsLiquidation(at) <=> at \in L!Outermost
<1>1. IsCallOrder(input) /\ memo = {i \in L!Outermost : i < at}
  BY DEF LoanInv
<1>2. ASSUME at \in L!Outermost
      PROVE  L!IsLiquidation(at)
  <2>1. ASSUME NEW p \in memo
        PROVE  ~L!IsBelow(at, p)
    <3>1. p \in L!Liquidate /\ p \in L!Places /\ ~input[p].failed
      BY <1>1 DEF L!Outermost, L!Liquidate
    <3> QED
      BY <1>1, <1>2, <3>1, BelowIsUnder DEF L!Outermost
  <2> QED
    BY <1>2, <2>1 DEF L!IsLiquidation, L!IsChildLiquidation, L!Outermost
<1>3. ASSUME L!IsLiquidation(at)
      PROVE  at \in L!Outermost
  <2>1. at \in L!Liquidate /\ ~input[at].failed /\ \A p \in memo : ~L!IsBelow(at, p)
    BY <1>3 DEF L!IsLiquidation, L!IsChildLiquidation
  <2>2. ASSUME NEW q \in L!Outermost, L!IsBelow(at, q)
        PROVE  FALSE
    <3>1. q \in L!Places
      BY DEF L!Outermost, L!Liquidate
    <3>2. q < at
      BY <1>1, <2>2, <3>1, CallersComeFirst
    <3> QED
      BY <1>1, <2>1, <2>2, <3>2
  <2> QED
    BY <1>1, <2>1, <2>2, SomeOutermost
<1> QED
  BY <1>2, <1>3

LEMMA FirstIsThere ==
  ASSUME NEW X \in SUBSET L!Places
  PROVE  /\ X = {} => L!FirstOf(X) = 0
         /\ X # {} => L!FirstOf(X) \in X /\ L!FirstOf(X) # 0
         /\ L!FirstOf(X) # 0 => L!FirstOf(X) \in X
<1>1. X \in SUBSET Nat /\ 0 \notin X
  BY DEF L!Places
<1>2. ASSUME X # {}
      PROVE  L!Min(X) \in X
  <2>1. \E x \in X : \A y \in X : x <= y
    BY <1>1, <1>2, HasLeast
  <2> QED
    BY <2>1 DEF L!Min
<1> QED
  BY <1>1, <1>2 DEF L!FirstOf

(* What parse_liquidation finds are calls below the liquidation. *)
LEMMA LegsAreBelow ==
  ASSUME IsCallOrder(input), NEW p \in L!Liquidate
  PROVE  /\ \A l, k \in L!ParseLiquidation(p) : l = k
         /\ L!ParseLiquidation(p) # {} <=> L!IsComplete(p)
         /\ \A l \in L!ParseLiquidation(p) :
              /\ l.trace = p
              /\ l.received # 0 /\ l.received \in L!ChildrenOf(p)
              /\ l.debt # 0 => l.debt \in L!ChildrenOf(p)
              /\ l.debt = l.received => input[l.debt].from = input[l.debt].to
<1> DEFINE moves == L!OfKind(L!ChildrenOf(p), "transfer")
           Earned == {i \in moves : input[i].to = input[p].from}
           Paid == {i \in moves : input[i].from = input[p].from}
           seizes == L!OfKind(L!ChildrenOf(p), "seize")
           received == L!GetReceivedTransfer(p)
           debt == L!GetDebtTransfer(p)
           seized == L!GetSeizeCall(p)
<1>1. p \in L!Places
  BY DEF L!Liquidate
<1>2. /\ moves \in SUBSET L!Places /\ Earned \in SUBSET L!Places
      /\ Paid \in SUBSET L!Places /\ seizes \in SUBSET L!Places
      /\ moves \subseteq L!ChildrenOf(p) /\ seizes \subseteq L!ChildrenOf(p)
      /\ moves = L!Moves(p, "transfer") /\ seizes = L!Moves(p, "seize")
  BY <1>1, BelowIsUnder DEF L!OfKind, L!ChildrenOf, L!Moves
<1>3. /\ received # 0 <=> Earned # {}
      /\ received # 0 => received \in Earned
  BY <1>2, FirstIsThere DEF L!GetReceivedTransfer
<1>4. /\ debt # 0 <=> Paid # {}
      /\ debt # 0 => debt \in Paid
  BY <1>2, FirstIsThere DEF L!GetDebtTransfer
<1>5. /\ seized # 0 <=> seizes # {}
      /\ seized # 0 => seized \in seizes
  BY <1>2, FirstIsThere DEF L!GetSeizeCall
<1>6. L!Earns(p) <=> received # 0
  BY <1>2, <1>3 DEF L!Earns
<1>7. L!Pays(p) <=> debt # 0
  BY <1>2, <1>4 DEF L!Pays
<1> DEFINE gained == IF received # 0 THEN received
                     ELSE IF input[p].kind = "aave" THEN 0 ELSE seized
<1>8. L!ParseLiquidation(p) =
        IF gained = 0 \/ (input[p].kind = "aave" /\ debt = 0) THEN {}
        ELSE {[trace |-> p, debt |-> debt, received |-> gained]}
  BY DEF L!ParseLiquidation, L!ParseAave, L!ParseCompound, L!Legs
<1>9. L!ParseLiquidation(p) # {} <=> L!IsComplete(p)
  BY <1>2, <1>5, <1>6, <1>7, <1>8 DEF L!IsComplete
<1>10. gained # 0 => gained \in Earned \/ gained \in seizes
  BY <1>3, <1>5
<1>11. debt = gained /\ gained # 0 => input[debt].from = input[debt].to
  <2>1. ASSUME debt = gained, gained # 0
        PROVE  gained \in Earned
    <3>1. debt \in Paid
      BY <1>4, <2>1
    <3>2. input[debt].kind = "transfer"
      BY <3>1 DEF L!OfKind
    <3> QED
      BY <1>10, <2>1, <3>2 DEF L!OfKind
  <2> QED
    BY <1>4, <2>1
<1>12. ASSUME NEW l \in L!ParseLiquidation(p)
       PROVE  /\ l = [trace |-> p, debt |-> debt, received |-> gained]
              /\ gained # 0
  BY <1>8
<1>13. ASSUME NEW l \in L!ParseLiquidation(p)
       PROVE  /\ l.trace = p
              /\ l.received # 0 /\ l.received \in L!ChildrenOf(p)
              /\ l.debt # 0 => l.debt \in L!ChildrenOf(p)
              /\ l.debt = l.received => input[l.debt].from = input[l.debt].to
  <2>1. l.trace = p /\ l.debt = debt /\ l.received = gained /\ gained # 0
    BY <1>12
  <2> QED
    BY <1>2, <1>4, <1>10, <1>11, <2>1
<1> QED
  BY <1>9, <1>12, <1>13

LEMMA LoopBegins == ASSUME L!Init PROVE LoanInv
<1>1. /\ IsCallOrder(input) /\ at = 1 /\ memo = {} /\ result = {}
  BY LiquidationsAssumption DEF L!Init, BlocksAreInCallOrder
<1>2. {i \in L!Outermost : i < 1} = {}
  BY DEF L!Outermost, L!Liquidate, L!Places
<1>3. Parsed = {} /\ memo = {i \in L!Outermost : i < at}
  BY <1>1, <1>2 DEF Parsed
<1> QED
  BY <1>1, <1>3 DEF LoanInv

LEMMA LoanTreeStays ==
  ASSUME input' = input
  PROVE  /\ IsCallOrder(input)' <=> IsCallOrder(input)
         /\ L!Outermost' = L!Outermost
         /\ \A p : L!RepaysNothing(p)' = L!RepaysNothing(p)
         /\ \A p : L!ParseLiquidation(p)' = L!ParseLiquidation(p)
<1>1. IsCallOrder(input)' <=> IsCallOrder(input)
  BY DEF IsCallOrder, L!AddressBefore, L!IsChildTraceAddress
<1>2. L!Outermost' = L!Outermost
  BY DEF L!Outermost, L!Liquidate, L!Places, L!CalledBy
<1>3. \A p : L!RepaysNothing(p)' = L!RepaysNothing(p)
  BY DEF L!RepaysNothing
<1>4. \A p : L!ParseLiquidation(p)' = L!ParseLiquidation(p)
  BY DEF L!ParseLiquidation, L!ParseAave, L!ParseCompound, L!Legs,
         L!GetReceivedTransfer, L!GetDebtTransfer, L!GetSeizeCall, L!FirstOf, L!OfKind,
         L!ChildrenOf, L!IsBelow, L!IsChildTrace, L!IsChildTraceAddress, L!Places
<1> QED
  BY <1>1, <1>2, <1>3, <1>4

LEMMA LoopGoesOn ==
  ASSUME LoanInv, [L!Next]_L!vars
  PROVE  LoanInv'
<1>1. /\ IsCallOrder(input) /\ at \in Nat \ {0}
      /\ memo = {i \in L!Outermost : i < at}
      /\ ~extra => Parsed = memo
      /\ result = UNION {L!ParseLiquidation(p) : p \in Parsed}
  BY DEF LoanInv
<1>2. L!Outermost \in SUBSET Nat
  BY DEF L!Outermost, L!Liquidate, L!Places
<1>3. ASSUME L!Advance
      PROVE  /\ input' = input /\ at \in L!Places /\ ~extra
             /\ at' \in Nat \ {0} /\ IsCallOrder(input)'
             /\ {i \in L!Outermost : i < at'}
                  = {i \in L!Outermost : i < at} \cup
                      (IF at \in L!Outermost THEN {at} ELSE {})
             /\ L!IsLiquidation(at) <=> at \in L!Outermost
  <2>1. input' = input /\ at \in L!Places /\ ~extra /\ at' = at + 1
    BY <1>3 DEF L!Advance
  <2>2. \A i \in L!Outermost : i < at' <=> i < at \/ i = at
    BY <1>1, <1>2, <2>1
  <2>3. {i \in L!Outermost : i < at'}
          = {i \in L!Outermost : i < at} \cup
              (IF at \in L!Outermost THEN {at} ELSE {})
    BY <2>2
  <2>4. at' \in Nat \ {0}
    BY <1>1, <2>1
  <2>5. L!IsLiquidation(at) <=> at \in L!Outermost
    BY <2>1, TakesTheOutermost
  <2> QED
    BY <1>1, <2>1, <2>3, <2>4, <2>5, LoanTreeStays
<1>4. CASE L!VisitLiquidation
  <2>1. L!Advance /\ L!IsLiquidation(at) /\ ~L!RepaysNothing(at)
    BY <1>4 DEF L!VisitLiquidation
  <2>2. /\ memo' = memo \cup {at} /\ extra' = extra
        /\ result' = result \cup L!ParseLiquidation(at)
    BY <1>4 DEF L!VisitLiquidation
  <2>3. memo' = {i \in L!Outermost : i < at'}
    BY <1>1, <1>3, <2>1, <2>2
  <2>4. Parsed' = Parsed \cup {at}
    BY <1>3, <2>1, <2>2, LoanTreeStays DEF Parsed
  <2>5. (~extra => Parsed = memo)'
    BY <1>1, <2>2, <2>4
  <2>6. result' = UNION {L!ParseLiquidation(p) : p \in Parsed \cup {at}}
    BY <1>1, <2>2
  <2>7. (result = UNION {L!ParseLiquidation(p) : p \in Parsed})'
    BY <1>3, <2>1, <2>4, <2>6, LoanTreeStays
  <2> QED
    BY <1>3, <2>1, <2>3, <2>5, <2>7, LoanTreeStays DEF LoanInv
<1>5. CASE L!VisitEmptyRepayment
  <2>1. L!Advance /\ L!IsLiquidation(at) /\ L!RepaysNothing(at)
    BY <1>5 DEF L!VisitEmptyRepayment
  <2>2. memo' = memo \cup {at} /\ extra' = TRUE /\ result' = result
    BY <1>5 DEF L!VisitEmptyRepayment
  <2>3. memo' = {i \in L!Outermost : i < at'}
    BY <1>1, <1>3, <2>1, <2>2
  <2>4. Parsed' = Parsed
    BY <1>3, <2>1, <2>2, LoanTreeStays DEF Parsed
  <2>5. (result = UNION {L!ParseLiquidation(p) : p \in Parsed})'
    BY <1>1, <1>3, <2>1, <2>2, <2>4, LoanTreeStays
  <2> QED
    BY <1>3, <2>1, <2>2, <2>3, <2>5, LoanTreeStays DEF LoanInv
<1>6. CASE L!VisitOther
  <2>1. L!Advance /\ ~L!IsLiquidation(at) /\ UNCHANGED <<memo, extra, result>>
    BY <1>6 DEF L!VisitOther
  <2>2. memo' = {i \in L!Outermost : i < at'}
    BY <1>1, <1>3, <2>1
  <2>3. Parsed' = Parsed
    BY <1>3, <2>1, LoanTreeStays DEF Parsed
  <2>4. (~extra => Parsed = memo)'
    BY <1>1, <2>1, <2>3
  <2>5. (result = UNION {L!ParseLiquidation(p) : p \in Parsed})'
    BY <1>1, <1>3, <2>1, <2>3, LoanTreeStays
  <2> QED
    BY <1>3, <2>1, <2>2, <2>4, <2>5, LoanTreeStays DEF LoanInv
<1>7. CASE UNCHANGED L!vars
  <2>1. UNCHANGED <<input, at, memo, result, extra>>
    BY <1>7 DEF L!vars
  <2>2. Parsed' = Parsed
    BY <2>1, LoanTreeStays DEF Parsed
  <2> QED
    BY <1>1, <2>1, <2>2, LoanTreeStays DEF LoanInv
<1> QED
  BY <1>4, <1>5, <1>6, <1>7 DEF L!Next

LEMMA ReportsTheOutermost == ASSUME LoanInv PROVE L!OutermostAreReported
<1> SUFFICES ASSUME ~extra
             PROVE  {l.trace : l \in result}
                      = {i \in L!Outermost : i < at /\ L!IsComplete(i)}
  BY DEF L!OutermostAreReported
<1>1. /\ IsCallOrder(input) /\ memo = {i \in L!Outermost : i < at}
      /\ result = UNION {L!ParseLiquidation(p) : p \in memo}
  BY DEF LoanInv
<1>2. \A p \in memo : p \in L!Liquidate
  BY <1>1 DEF L!Outermost
<1>3. ASSUME NEW l \in result
      PROVE  l.trace \in memo /\ L!IsComplete(l.trace)
  <2>1. PICK p \in memo : l \in L!ParseLiquidation(p)
    BY <1>1
  <2> QED
    BY <1>1, <1>2, <2>1, LegsAreBelow
<1>4. ASSUME NEW i \in memo, L!IsComplete(i)
      PROVE  \E l \in result : l.trace = i
  <2>1. PICK l : l \in L!ParseLiquidation(i) /\ l.trace = i
    BY <1>1, <1>2, <1>4, LegsAreBelow
  <2> QED
    BY <1>1, <2>1
<1> QED
  BY <1>1, <1>3, <1>4

LEMMA KeepsLegsApart == ASSUME LoanInv PROVE L!LegsStayApart
<1>1. /\ IsCallOrder(input) /\ memo \subseteq L!Outermost
      /\ result = UNION {L!ParseLiquidation(p) : p \in Parsed}
      /\ Parsed \subseteq memo
  BY DEF LoanInv, Parsed
<1>2. \A p \in L!Outermost : p \in L!Liquidate /\ p \in L!Places /\ ~input[p].failed
  BY DEF L!Outermost, L!Liquidate
<1>3. ASSUME NEW p \in L!Outermost, NEW q \in L!Outermost, p # q,
             NEW i \in L!ChildrenOf(p), i \in L!ChildrenOf(q)
      PROVE  FALSE
  <2>1. i \in L!Places /\ L!IsBelow(i, p) /\ L!IsBelow(i, q)
    BY <1>3 DEF L!ChildrenOf
  <2>2. L!IsBelow(p, q) \/ L!IsBelow(q, p)
    BY <1>1, <1>2, <1>3, <2>1, CallersAreALine
  <2>3. L!CalledBy(input[p], input[q]) \/ L!CalledBy(input[q], input[p])
    BY <1>1, <1>2, <2>2, BelowIsUnder
  <2> QED
    BY <1>2, <2>3 DEF L!Outermost
<1>4. ASSUME NEW l \in result, NEW k \in result
      PROVE  /\ l # k => \A leg \in {l.debt, l.received} \ {0} :
                          leg \notin {k.debt, k.received}
             /\ l.debt = l.received => input[l.debt].from = input[l.debt].to
  <2>1. PICK p \in L!Outermost : l \in L!ParseLiquidation(p)
    BY <1>1
  <2>2. PICK q \in L!Outermost : k \in L!ParseLiquidation(q)
    BY <1>1
  <2>3. /\ l.received \in L!ChildrenOf(p)
        /\ l.debt # 0 => l.debt \in L!ChildrenOf(p)
        /\ l.debt = l.received => input[l.debt].from = input[l.debt].to
    BY <1>1, <1>2, <2>1, LegsAreBelow
  <2>4. /\ k.received \in L!ChildrenOf(q)
        /\ k.debt # 0 => k.debt \in L!ChildrenOf(q)
    BY <1>1, <1>2, <2>2, LegsAreBelow
  <2>5. l # k => p # q
    BY <1>1, <1>2, <2>1, <2>2, LegsAreBelow
  <2> QED
    BY <1>3, <2>3, <2>4, <2>5
<1> QED
  BY <1>4 DEF L!LegsStayApart

LEMMA LoanAlways == Spec => [](algorithm = "liquidations" => LoanInv)
<1> DEFINE Inv == algorithm = "liquidations" => LoanInv
<1>1. Init => Inv
  BY OneBegins, LoopBegins
<1>2. Inv /\ [Next]_variables => Inv'
  <2> SUFFICES ASSUME Inv, [Next]_variables, algorithm' = "liquidations"
               PROVE  LoanInv'
    OBVIOUS
  <2>1. algorithm = "liquidations" /\ [L!Next]_L!vars
    BY OneGoesOn DEF variables, L!vars
  <2> QED
    BY <2>1, LoopGoesOn
<1> QED
  BY <1>1, <1>2, PTL DEF Spec

(***************************************************************************)
(* get_liquidations reports the outermost of nested calls that liquidate,  *)
(* once, in a block of any calls in any tree.                              *)
(***************************************************************************)
THEOREM OutermostAreFound == Spec => []OutermostAreReported
<1>1. (algorithm = "liquidations" => LoanInv) => OutermostAreReported
  BY ReportsTheOutermost DEF OutermostAreReported
<1> QED
  BY <1>1, LoanAlways, PTL

(***************************************************************************)
(* No debt and no collateral of a block is counted for two liquidations.   *)
(***************************************************************************)
THEOREM NothingIsSeizedTwice == Spec => []LegsStayApart
<1>1. (algorithm = "liquidations" => LoanInv) => LegsStayApart
  BY KeepsLegsApart DEF LegsStayApart
<1> QED
  BY <1>1, LoanAlways, PTL

-----------------------------------------------------------------------------
(* Swaps: input is trace, memo is prior, and result is swaps.              *)

TransfersBefore(s) == {t \in S!Traces : t < s /\ input[t].kind = "transfer"}
SwapsBefore(n) == {s \in S!Traces : s < n /\ input[s].kind \in {"pool", "recipient"}}

(* What the loop finds when it visits swap s. *)
SwapAt(s) ==
  S!ParseSwap(s, S!RemoveChildTransfers(TransfersBefore(s)),
              S!RemoveChildTransfers(S!ChildTransfers(s)))

(* What the loop has made of the traces it has passed. *)
SwapInv ==
  /\ IsSorted(input)
  /\ at \in 1 .. Len(input) + 1
  /\ memo = TransfersBefore(at)
  /\ result = UNION {SwapAt(s) : s \in SwapsBefore(at)}

LEMMA SwapTreeIsUnder ==
  ASSUME IsSorted(input), NEW i \in S!Traces, NEW p \in S!Traces
  PROVE  /\ S!Below(i, p) <=> IsUnder(input[i].address, input[p].address)
         /\ S!IsAncestor(p, i) <=> S!Below(i, p)
<1>1. input[i].address \in Seq(Nat) /\ input[p].address \in Seq(Nat)
  BY DEF IsSorted, S!Traces
<1>2. S!Below(i, p) <=> IsUnder(input[i].address, input[p].address)
  BY <1>1, ChildIsUnder DEF S!Below
<1>3. S!IsAncestor(p, i) <=> IsUnder(input[i].address, input[p].address)
  BY <1>1, AncestorIsAbove DEF S!IsAncestor
<1> QED
  BY <1>2, <1>3

LEMMA ParentsComeFirst ==
  ASSUME IsSorted(input), NEW i \in S!Traces, NEW p \in S!Traces, S!Below(i, p)
  PROVE  p < i
<1>1. i \in Nat /\ p \in Nat /\ i \in 1 .. Len(input) /\ p \in 1 .. Len(input)
  BY DEF S!Traces
<1>2. /\ IsUnder(input[i].address, input[p].address)
      /\ input[i].address \in Seq(Nat) /\ input[p].address \in Seq(Nat)
  BY <1>1, SwapTreeIsUnder DEF IsSorted
<1>3. i # p
  BY <1>2 DEF IsUnder
<1>4. ~(i < p)
  <2> SUFFICES ASSUME i < p
               PROVE  FALSE
    OBVIOUS
  <2>1. S!AddressBefore(input[i].address, input[p].address)
    BY <1>1 DEF IsSorted
  <2> QED
    BY <1>2, <2>1, BeforeByElement, BeforeIsNotUnder
<1> QED
  BY <1>1, <1>3, <1>4

LEMMA SwapTreeIsTransitive ==
  ASSUME IsSorted(input), NEW i \in S!Traces, NEW p \in S!Traces, NEW q \in S!Traces,
         S!Below(i, p), S!Below(p, q)
  PROVE  S!Below(i, q)
<1>1. /\ input[i].address \in Seq(Nat) /\ input[p].address \in Seq(Nat)
      /\ input[q].address \in Seq(Nat)
  BY DEF IsSorted, S!Traces
<1> QED
  BY <1>1, SwapTreeIsUnder, UnderIsTransitive

LEMMA ParentsAreALine ==
  ASSUME IsSorted(input), NEW i \in S!Traces, NEW p \in S!Traces, NEW q \in S!Traces,
         S!Below(i, p), S!Below(i, q), p # q
  PROVE  S!Below(p, q) \/ S!Below(q, p)
<1>1. /\ input[i].address \in Seq(Nat) /\ input[p].address \in Seq(Nat)
      /\ input[q].address \in Seq(Nat)
      /\ p \in 1 .. Len(input) /\ q \in 1 .. Len(input)
  BY DEF IsSorted, S!Traces
<1>2. /\ IsUnder(input[i].address, input[p].address)
      /\ IsUnder(input[i].address, input[q].address)
  BY SwapTreeIsUnder
<1>3. input[p].address # input[q].address
  <2>1. CASE p < q
    <3>1. S!AddressBefore(input[p].address, input[q].address)
      BY <1>1, <2>1 DEF IsSorted
    <3> QED
      BY <1>1, <3>1, BeforeByElement, BeforeIsNotUnder
  <2>2. CASE q < p
    <3>1. S!AddressBefore(input[q].address, input[p].address)
      BY <1>1, <2>2 DEF IsSorted
    <3> QED
      BY <1>1, <3>1, BeforeByElement, BeforeIsNotUnder
  <2> QED
    BY <1>1, <2>1, <2>2
<1>4. \/ IsUnder(input[p].address, input[q].address)
      \/ IsUnder(input[q].address, input[p].address)
  BY <1>1, <1>2, <1>3, UnderIsALine
<1> QED
  BY <1>4, SwapTreeIsUnder

(* remove_child_transfers_of_transfers leaves those that none contains. *)
LEMMA RemainsTheOuter ==
  ASSUME IsSorted(input), NEW X \in SUBSET S!Traces
  PROVE  S!RemoveChildTransfers(X) = {t \in X : \A p \in X : ~S!Below(t, p)}
<1>1. \A t, p \in X : S!Below(t, p) => p < t
  BY ParentsComeFirst
<1> QED
  BY <1>1 DEF S!RemoveChildTransfers

LEMMA OuterBefore ==
  ASSUME IsSorted(input), NEW s \in S!Traces
  PROVE  S!RemoveChildTransfers(TransfersBefore(s)) = {t \in S!OuterTokens : t < s}
<1> DEFINE All == {i \in S!Traces : input[i].kind = "transfer"}
<1>1. S!OuterTokens = {t \in All : \A p \in All : ~S!Below(t, p)}
  BY SwapTreeIsUnder DEF S!OuterTokens, S!Outermost
<1>2. S!RemoveChildTransfers(TransfersBefore(s))
        = {t \in TransfersBefore(s) : \A p \in TransfersBefore(s) : ~S!Below(t, p)}
  BY RemainsTheOuter DEF TransfersBefore
<1>3. TransfersBefore(s) = {t \in All : t < s}
  BY DEF TransfersBefore
<1>4. ASSUME NEW t \in All, t < s, NEW p \in All, S!Below(t, p)
      PROVE  p < s
  <2>1. p < t
    BY <1>4, ParentsComeFirst
  <2> QED
    BY <1>4, <2>1 DEF S!Traces
<1> HIDE DEF All
<1> QED
  BY <1>1, <1>2, <1>3, <1>4

LEMMA OuterWithin ==
  ASSUME IsSorted(input), NEW s \in S!Traces,
         input[s].kind \in {"pool", "recipient"}, ~S!InsideTransfer(s)
  PROVE  S!RemoveChildTransfers(S!ChildTransfers(s)) = {t \in S!Outer : S!IsAncestor(s, t)}
<1> DEFINE All == {i \in S!Traces : S!IsTransfer(i)}
<1>1. S!Outer = {t \in All : \A p \in All : ~S!Below(t, p)}
  BY SwapTreeIsUnder DEF S!Outer, S!Outermost
<1>2. S!ChildTransfers(s) = {t \in All : S!Below(t, s)}
  BY DEF S!ChildTransfers
<1>3. S!RemoveChildTransfers(S!ChildTransfers(s))
        = {t \in All : S!Below(t, s) /\ \A p \in All : S!Below(p, s) => ~S!Below(t, p)}
  BY <1>2, RemainsTheOuter
<1>4. ASSUME NEW t \in All, S!Below(t, s), NEW p \in All, S!Below(t, p)
      PROVE  S!Below(p, s)
  <2>1. p # s
    BY DEF S!IsTransfer
  <2>2. ~S!Below(s, p)
    BY SwapTreeIsUnder DEF S!InsideTransfer
  <2> QED
    BY <1>4, <2>1, <2>2, ParentsAreALine
<1>5. {t \in S!Outer : S!IsAncestor(s, t)} = {t \in S!Outer : S!Below(t, s)}
  BY <1>1, SwapTreeIsUnder
<1> HIDE DEF All
<1> QED
  BY <1>1, <1>3, <1>4, <1>5

LEMMA LastIsThere ==
  ASSUME IsSorted(input), NEW X \in SUBSET S!Traces, X # {}
  PROVE  S!Max(X) \in X
<1>1. X \in SUBSET Nat /\ Len(input) \in Nat /\ \A x \in X : x <= Len(input)
  BY DEF S!Traces, IsSorted
<1>2. \E x \in X : \A y \in X : x >= y
  BY <1>1, HasGreatest
<1> QED
  BY <1>2 DEF S!Max

(* A swap that the loop finds takes in before or within, and gives within. *)
LEMMA SwapIsWithin ==
  ASSUME IsSorted(input), NEW s \in S!Traces
  PROVE  /\ \A w, v \in SwapAt(s) : w = v
         /\ \A w \in SwapAt(s) :
              /\ w.trace = s
              /\ w.out \in S!Traces /\ S!IsAncestor(s, w.out)
              /\ w.in \in S!Traces /\ (w.in <= s \/ S!IsAncestor(s, w.in))
<1> DEFINE before == S!RemoveChildTransfers(TransfersBefore(s))
           children == S!RemoveChildTransfers(S!ChildTransfers(s))
           InsOf == IF input[s].kind = "pool" THEN S!PaidToPool(s, before, children)
                    ELSE S!From(before \cup children, input[s].recipient)
           OutsOf == IF input[s].kind = "pool"
                       THEN S!From(S!To(children, input[s].recipient), input[s].to)
                       ELSE S!To(children, input[s].recipient)
<1>1. before \subseteq TransfersBefore(s) /\ children \subseteq S!ChildTransfers(s)
  BY DEF S!RemoveChildTransfers
<1>2. \A t \in before : t \in S!Traces /\ t < s
  BY <1>1 DEF TransfersBefore
<1>3. \A t \in children : t \in S!Traces /\ S!IsAncestor(s, t)
  BY <1>1, SwapTreeIsUnder DEF S!ChildTransfers
<1>4. OutsOf \subseteq children
  BY DEF S!From, S!To
<1>5. \A t \in InsOf : t = s \/ t \in before \/ t \in children
  BY DEF S!From, S!To, S!PaidToPool
<1> HIDE DEF before, children
<1>6. ASSUME NEW w \in SwapAt(s)
      PROVE  /\ InsOf # {} /\ OutsOf # {}
             /\ w = [trace |-> s, in |-> S!Max(InsOf), out |-> S!Max(OutsOf)]
  <2>1. S!Cardinality({}) # 1
    <3>1. S!Cardinality({}) = Cardinality({})
      BY DEF S!Cardinality, Cardinality
    <3> QED
      BY <3>1, FS_EmptySet
  <2>2. CASE input[s].kind = "pool"
    BY <1>6, <2>1, <2>2 DEF SwapAt, before, children, S!ParseSwap, S!SwapFromPool, S!Found
  <2>3. CASE input[s].kind # "pool"
    <3>1. SwapAt(s) = S!SwapFromRecipient(s, before, children)
      BY <2>3 DEF SwapAt, before, children, S!ParseSwap
    <3>2. /\ InsOf = S!From(before \cup children, input[s].recipient)
          /\ OutsOf = S!To(children, input[s].recipient)
      BY <2>3
    <3> HIDE DEF InsOf, OutsOf
    <3>3. S!SwapFromRecipient(s, before, children) =
            IF S!Cardinality(InsOf) # 1 \/ S!Cardinality(OutsOf) # 1 THEN {}
            ELSE {[trace |-> s, in |-> S!Max(InsOf), out |-> S!Max(OutsOf)]}
      BY <3>2 DEF S!SwapFromRecipient, S!Found
    <3> QED
      BY <1>6, <2>1, <3>1, <3>3
  <2> QED
    BY <2>2, <2>3
<1> HIDE DEF InsOf, OutsOf
<1>7. ASSUME NEW w \in SwapAt(s)
      PROVE  /\ w.trace = s
             /\ w.out \in S!Traces /\ S!IsAncestor(s, w.out)
             /\ w.in \in S!Traces /\ (w.in <= s \/ S!IsAncestor(s, w.in))
  <2>1. w.trace = s /\ w.in = S!Max(InsOf) /\ w.out = S!Max(OutsOf)
    BY <1>6
  <2>2. w.out \in OutsOf
    <3>1. OutsOf \in SUBSET S!Traces
      BY <1>3, <1>4
    <3> QED
      BY <1>6, <2>1, <3>1, LastIsThere
  <2>3. w.in \in InsOf
    <3>1. InsOf \in SUBSET S!Traces
      BY <1>2, <1>3, <1>5
    <3> QED
      BY <1>6, <2>1, <3>1, LastIsThere
  <2>4. w.in \in S!Traces /\ (w.in <= s \/ S!IsAncestor(s, w.in))
    BY <1>2, <1>3, <1>5, <2>3 DEF S!Traces
  <2> QED
    BY <1>3, <1>4, <2>1, <2>2, <2>4
<1> QED
  BY <1>6, <1>7

LEMMA SwapLoopBegins == ASSUME S!Init PROVE SwapInv
<1>1. /\ IsSorted(input) /\ at = 1 /\ memo = {} /\ result = {}
      /\ at \in 1 .. Len(input) + 1
  BY SwapsAssumption DEF S!Init, TransactionsAreSorted, IsSorted
<1>2. TransfersBefore(at) = {} /\ SwapsBefore(at) = {}
  BY <1>1 DEF TransfersBefore, SwapsBefore, S!Traces
<1> QED
  BY <1>1, <1>2 DEF SwapInv

LEMMA SwapTreeStays ==
  ASSUME input' = input
  PROVE  /\ IsSorted(input)' <=> IsSorted(input)
         /\ \A s : SwapAt(s)' = SwapAt(s)
         /\ \A n : TransfersBefore(n)' = TransfersBefore(n)
         /\ \A n : SwapsBefore(n)' = SwapsBefore(n)
<1>1. IsSorted(input)' <=> IsSorted(input)
  BY DEF IsSorted, S!AddressBefore, S!IsChildTraceAddress
<1>2. \A n : TransfersBefore(n)' = TransfersBefore(n)
  BY DEF TransfersBefore, S!Traces
<1>3. \A n : SwapsBefore(n)' = SwapsBefore(n)
  BY DEF SwapsBefore, S!Traces
<1>4. /\ \A X : S!RemoveChildTransfers(X)' = S!RemoveChildTransfers(X)
      /\ \A s : S!ChildTransfers(s)' = S!ChildTransfers(s)
  BY DEF S!RemoveChildTransfers, S!ChildTransfers, S!Traces, S!IsTransfer, S!Below,
         S!IsChildTraceAddress
<1>5. \A s, X, Y : S!ParseSwap(s, X, Y)' = S!ParseSwap(s, X, Y)
  BY DEF S!ParseSwap, S!SwapFromPool, S!SwapFromRecipient, S!PaidToPool, S!Token,
         S!From, S!To, S!Found
<1>6. \A s : SwapAt(s)' = SwapAt(s)
  BY <1>2, <1>4, <1>5 DEF SwapAt
<1> QED
  BY <1>1, <1>2, <1>3, <1>6

LEMMA SwapLoopGoesOn ==
  ASSUME SwapInv, [S!Next]_S!vars
  PROVE  SwapInv'
<1>1. /\ IsSorted(input) /\ at \in 1 .. Len(input) + 1 /\ Len(input) \in Nat
      /\ memo = TransfersBefore(at)
      /\ result = UNION {SwapAt(s) : s \in SwapsBefore(at)}
  BY DEF SwapInv, IsSorted
<1>2. ASSUME S!Advance
      PROVE  /\ input' = input /\ at \in S!Traces /\ at' \in 1 .. Len(input') + 1
             /\ IsSorted(input)'
             /\ TransfersBefore(at)' = TransfersBefore(at) \cup
                  (IF input[at].kind = "transfer" THEN {at} ELSE {})
             /\ SwapsBefore(at)' = SwapsBefore(at) \cup
                  (IF input[at].kind \in {"pool", "recipient"} THEN {at} ELSE {})
  <2>1. input' = input /\ at \in S!Traces /\ at' = at + 1
    BY <1>2 DEF S!Advance
  <2>2. \A t \in S!Traces : t < at' <=> t < at \/ t = at
    BY <1>1, <2>1 DEF S!Traces
  <2>3. S!Traces' = S!Traces
    BY <2>1 DEF S!Traces
  <2>4. TransfersBefore(at)' = TransfersBefore(at) \cup
          (IF input[at].kind = "transfer" THEN {at} ELSE {})
    BY <2>1, <2>2, <2>3 DEF TransfersBefore
  <2>5. SwapsBefore(at)' = SwapsBefore(at) \cup
          (IF input[at].kind \in {"pool", "recipient"} THEN {at} ELSE {})
    BY <2>1, <2>2, <2>3 DEF SwapsBefore
  <2>6. at' \in 1 .. Len(input') + 1
    BY <1>1, <2>1 DEF S!Traces
  <2> QED
    BY <1>1, <2>1, <2>4, <2>5, <2>6, SwapTreeStays
<1>3. CASE S!VisitTransfer
  <2>1. /\ S!Advance /\ input[at].kind = "transfer"
        /\ memo' = memo \cup {at} /\ result' = result
    BY <1>3 DEF S!VisitTransfer
  <2>2. SwapsBefore(at)' = SwapsBefore(at)
    BY <1>2, <2>1
  <2>3. (result = UNION {SwapAt(s) : s \in SwapsBefore(at)})'
    BY <1>1, <1>2, <2>1, <2>2, SwapTreeStays
  <2>4. memo' = TransfersBefore(at)'
    BY <1>1, <1>2, <2>1
  <2> QED
    BY <1>2, <2>1, <2>3, <2>4 DEF SwapInv
<1>4. CASE S!VisitSwap
  <2>1. /\ S!Advance /\ input[at].kind \in {"pool", "recipient"}
        /\ memo' = memo /\ result' = result \cup SwapAt(at)
    BY <1>1, <1>4 DEF S!VisitSwap, SwapAt
  <2>2. SwapsBefore(at)' = SwapsBefore(at) \cup {at}
    BY <1>2, <2>1
  <2>3. result' = UNION {SwapAt(s) : s \in SwapsBefore(at) \cup {at}}
    BY <1>1, <2>1
  <2>4. (result = UNION {SwapAt(s) : s \in SwapsBefore(at)})'
    BY <1>2, <2>1, <2>2, <2>3, SwapTreeStays
  <2>5. memo' = TransfersBefore(at)'
    BY <1>1, <1>2, <2>1
  <2> QED
    BY <1>2, <2>1, <2>4, <2>5 DEF SwapInv
<1>5. CASE S!VisitOther
  <2>1. /\ S!Advance /\ input[at].kind \in {"eth", "other"}
        /\ memo' = memo /\ result' = result
    BY <1>5 DEF S!VisitOther
  <2>2. SwapsBefore(at)' = SwapsBefore(at)
    BY <1>2, <2>1
  <2>3. (result = UNION {SwapAt(s) : s \in SwapsBefore(at)})'
    BY <1>1, <1>2, <2>1, <2>2, SwapTreeStays
  <2>4. memo' = TransfersBefore(at)'
    BY <1>1, <1>2, <2>1
  <2> QED
    BY <1>2, <2>1, <2>3, <2>4 DEF SwapInv
<1>6. CASE UNCHANGED S!vars
  <2>1. UNCHANGED <<input, at, memo, result>>
    BY <1>6 DEF S!vars
  <2>2. (result = UNION {SwapAt(s) : s \in SwapsBefore(at)})'
    BY <1>1, <2>1, SwapTreeStays
  <2>3. memo' = TransfersBefore(at)'
    BY <1>1, <2>1, SwapTreeStays
  <2> QED
    BY <1>1, <2>1, <2>2, <2>3, SwapTreeStays DEF SwapInv
<1> QED
  BY <1>3, <1>4, <1>5, <1>6 DEF S!Next

LEMMA IgnoresTheInside == ASSUME SwapInv PROVE S!InnerTransfersDoNotMatter
<1>1. /\ IsSorted(input) /\ at \in 1 .. Len(input) + 1 /\ Len(input) \in Nat
      /\ result = UNION {SwapAt(s) : s \in SwapsBefore(at)}
  BY DEF SwapInv, IsSorted
<1> SUFFICES ASSUME NEW s \in 1 .. at - 1, input[s].kind \in {"pool", "recipient"},
                    ~S!InsideTransfer(s)
             PROVE  {w \in result : w.trace = s} =
                      S!ParseSwap(s, {t \in S!OuterTokens : t < s},
                                  {t \in S!Outer : S!IsAncestor(s, t)})
  BY DEF S!InnerTransfersDoNotMatter
<1>2. s \in SwapsBefore(at) /\ s \in S!Traces
  BY <1>1 DEF SwapsBefore, S!Traces
<1>3. ASSUME NEW q \in SwapsBefore(at), NEW w \in SwapAt(q)
      PROVE  w.trace = q
  BY <1>1, <1>3, SwapIsWithin DEF SwapsBefore
<1>4. {w \in result : w.trace = s} = SwapAt(s)
  BY <1>1, <1>2, <1>3
<1> QED
  BY <1>1, <1>2, <1>4, OuterBefore, OuterWithin DEF SwapAt

LEMMA KeepsSwapsApart == ASSUME SwapInv PROVE S!SwapsStayApart
<1>1. IsSorted(input) /\ result = UNION {SwapAt(s) : s \in SwapsBefore(at)}
  BY DEF SwapInv
<1>2. ASSUME NEW w \in result
      PROVE  \E s \in S!Traces : w \in SwapAt(s)
  BY <1>1 DEF SwapsBefore
<1>3. ASSUME NEW w \in result, NEW v \in result, v.out = w.out, v # w
      PROVE  S!IsAncestor(v.trace, w.trace) \/ S!IsAncestor(w.trace, v.trace)
  <2>1. PICK s \in S!Traces : w \in SwapAt(s)
    BY <1>2
  <2>2. PICK q \in S!Traces : v \in SwapAt(q)
    BY <1>2
  <2>3. /\ w.trace = s /\ S!IsAncestor(s, w.out) /\ w.out \in S!Traces
        /\ v.trace = q /\ S!IsAncestor(q, w.out)
    BY <1>1, <1>3, <2>1, <2>2, SwapIsWithin
  <2>4. s # q
    BY <1>1, <1>3, <2>1, <2>2, SwapIsWithin
  <2>5. S!Below(s, q) \/ S!Below(q, s)
    BY <1>1, <2>3, <2>4, SwapTreeIsUnder, ParentsAreALine
  <2> QED
    BY <1>1, <2>3, <2>5, SwapTreeIsUnder
<1>4. ASSUME NEW w \in result
      PROVE  /\ S!IsAncestor(w.trace, w.out)
             /\ w.in <= w.trace \/ S!IsAncestor(w.trace, w.in)
  <2>1. PICK s \in S!Traces : w \in SwapAt(s)
    BY <1>2
  <2> QED
    BY <1>1, <2>1, SwapIsWithin
<1> QED
  BY <1>3, <1>4 DEF S!SwapsStayApart

LEMMA SwapsAlways == Spec => [](algorithm = "swaps" => SwapInv)
<1> DEFINE Inv == algorithm = "swaps" => SwapInv
<1>1. Init => Inv
  BY OneBegins, SwapLoopBegins
<1>2. Inv /\ [Next]_variables => Inv'
  <2> SUFFICES ASSUME Inv, [Next]_variables, algorithm' = "swaps"
               PROVE  SwapInv'
    OBVIOUS
  <2>1. algorithm = "swaps" /\ [S!Next]_S!vars
    BY OneGoesOn DEF variables, S!vars
  <2> QED
    BY <2>1, SwapLoopGoesOn
<1> QED
  BY <1>1, <1>2, PTL DEF Spec

(***************************************************************************)
(* get_swaps finds the same swaps however the tokens carry out transfers,  *)
(* in a transaction of any traces in any tree.                             *)
(***************************************************************************)
THEOREM InnerTransfersAreIgnored == Spec => []InnerTransfersDoNotMatter
<1>1. (algorithm = "swaps" => SwapInv) => InnerTransfersDoNotMatter
  BY IgnoresTheInside DEF InnerTransfersDoNotMatter
<1> QED
  BY <1>1, SwapsAlways, PTL

(***************************************************************************)
(* Only swaps that are nested give out by the same transfer.               *)
(***************************************************************************)
THEOREM OnlyNestedSwapsMeet == Spec => []SwapsStayApart
<1>1. (algorithm = "swaps" => SwapInv) => SwapsStayApart
  BY KeepsSwapsApart DEF SwapsStayApart
<1> QED
  BY <1>1, SwapsAlways, PTL

-----------------------------------------------------------------------------
(* Induction, for a set: what a set has that has 0 and all successors, and  *)
(* what a set of sets has that has {} and each set with one element more.   *)

LEMMA NatSetInduction ==
  ASSUME NEW Y, 0 \in Y, \A n \in Nat : n \in Y => n + 1 \in Y
  PROVE  Nat \subseteq Y
<1> SUFFICES ASSUME Nat \ Y # {}
             PROVE  FALSE
  OBVIOUS
<1>1. PICK n \in Nat \ Y : \A k \in Nat \ Y : n <= k
  BY HasLeast
<1>2. n # 0 /\ n - 1 \in Nat /\ ~(n <= n - 1)
  BY <1>1
<1>3. n - 1 \in Y
  BY <1>1, <1>2
<1>4. (n - 1) + 1 \in Y
  BY <1>2, <1>3
<1> QED
  BY <1>1, <1>4

LEMMA SetInduction ==
  ASSUME NEW X, IsFiniteSet(X), NEW Good,
         {} \in Good,
         \A s \in SUBSET X : \A x \in X \ s : s \in Good => s \cup {x} \in Good
  PROVE  X \in Good
<1> DEFINE Y == {n \in Nat : \A s \in SUBSET X : Cardinality(s) = n => s \in Good}
<1>1. \A s \in SUBSET X : IsFiniteSet(s) /\ Cardinality(s) \in Nat
  BY FS_Subset, FS_CardinalityType
<1>2. 0 \in Y
  BY <1>1, FS_EmptySet
<1>3. ASSUME NEW n \in Nat, n \in Y
      PROVE  n + 1 \in Y
  <2> SUFFICES ASSUME NEW s \in SUBSET X, Cardinality(s) = n + 1
               PROVE  s \in Good
    OBVIOUS
  <2>1. s # {}
    BY FS_EmptySet
  <2>2. PICK x \in s : TRUE
    BY <2>1
  <2>3. Cardinality(s \ {x}) = n /\ s \ {x} \in SUBSET X
    <3>1. IsFiniteSet(s)
      BY <1>1
    <3>2. Cardinality(s \ {x}) = (n + 1) - 1
      BY <2>2, <3>1, FS_RemoveElement
    <3> QED
      BY <3>2
  <2>4. s \ {x} \in Good
    BY <1>3, <2>3
  <2>5. (s \ {x}) \cup {x} = s
    BY <2>2
  <2> QED
    BY <2>3, <2>4, <2>5
<1> HIDE DEF Y
<1>4. Nat \subseteq Y
  BY <1>2, <1>3, NatSetInduction
<1> QED
  BY <1>1, <1>4 DEF Y
-----------------------------------------------------------------------------
(* What Received and Spent add up. *)

Amounts(move, X) == M!MapThenSumSet(LAMBDA i : move[i].amount, X)

(* The fold that they are. *)
IsFold(move, X, g) ==
  g = [s \in SUBSET X |->
        IF s = {} THEN 0
        ELSE move[CHOOSE x \in s : TRUE].amount + g[s \ {CHOOSE x \in s : TRUE}]]

LEMMA AmountsAreAFold ==
  ASSUME NEW move, NEW X
  PROVE  Amounts(move, X) = (CHOOSE g : IsFold(move, X, g))[X]
BY DEF Amounts, M!MapThenSumSet, M!MapThenFoldSet, IsFold

(* There is such a fold: of the sets with n elements at most, for all n. *)
LEMMA FoldExists ==
  ASSUME NEW move, NEW X, IsFiniteSet(X)
  PROVE  \E g : IsFold(move, X, g)
<1> DEFINE Pick(s) == CHOOSE x \in s : TRUE
           Small(n) == {s \in SUBSET X : Cardinality(s) <= n}
           Is(n, g) == g = [s \in Small(n) |->
                              IF s = {} THEN 0
                              ELSE move[Pick(s)].amount + g[s \ {Pick(s)}]]
           Y == {n \in Nat : \E g : Is(n, g)}
<1>1. \A s \in SUBSET X : IsFiniteSet(s) /\ Cardinality(s) \in Nat
  BY FS_Subset, FS_CardinalityType
<1>2. ASSUME NEW n \in Nat, NEW s \in Small(n + 1), s # {}
      PROVE  s \ {Pick(s)} \in Small(n)
  <2>1. Pick(s) \in s
    BY <1>2
  <2>2. Cardinality(s \ {Pick(s)}) = Cardinality(s) - 1
    BY <1>1, <2>1, FS_RemoveElement
  <2> QED
    BY <1>1, <2>2
<1>3. 0 \in Y
  <2> DEFINE g == [s \in Small(0) |-> 0]
  <2>1. \A s \in Small(0) : s = {}
    BY <1>1, FS_EmptySet
  <2>2. Is(0, g)
    BY <2>1
  <2> QED
    BY <2>2
<1>4. ASSUME NEW n \in Nat, n \in Y
      PROVE  n + 1 \in Y
  <2>1. PICK g : Is(n, g)
    BY <1>4
  <2> DEFINE h == [s \in Small(n + 1) |->
                     IF s = {} THEN 0
                     ELSE move[Pick(s)].amount + g[s \ {Pick(s)}]]
  <2>2. ASSUME NEW s \in Small(n + 1), s # {}
        PROVE  h[s \ {Pick(s)}] = g[s \ {Pick(s)}]
    <3>1. s \ {Pick(s)} \in Small(n)
      BY <1>2, <2>2
    <3> DEFINE t == s \ {Pick(s)}
    <3>2. t \in Small(n + 1)
      BY <1>1, <3>1
    <3>3. g[t] = IF t = {} THEN 0 ELSE move[Pick(t)].amount + g[t \ {Pick(t)}]
      <4> HIDE DEF t, Pick, Small
      <4> QED
        BY <2>1, <3>1 DEF t
    <3>4. h[t] = IF t = {} THEN 0 ELSE move[Pick(t)].amount + g[t \ {Pick(t)}]
      <4> HIDE DEF t, Pick, Small
      <4> QED
        BY <3>2
    <3> QED
      BY <3>3, <3>4
  <2>3. Is(n + 1, h)
    <3> HIDE DEF Pick, Small
    <3> QED
      BY <2>2
  <2>4. n + 1 \in Nat
    OBVIOUS
  <2> HIDE DEF Is, h
  <2> QED
    BY <2>3, <2>4
<1> HIDE DEF Y
<1>5. Nat \subseteq Y
  BY <1>3, <1>4, NatSetInduction
<1>6. Cardinality(X) \in Y
  BY <1>1, <1>5
<1>7. PICK g : Is(Cardinality(X), g)
  BY <1>6 DEF Y
<1>8. Small(Cardinality(X)) = SUBSET X
  BY FS_Subset
<1> QED
  BY <1>7, <1>8 DEF IsFold

(* Folds of different sets agree where they meet. *)
LEMMA FoldsAgree ==
  ASSUME NEW move, NEW X, IsFiniteSet(X), NEW Z \in SUBSET X,
         NEW g, IsFold(move, X, g), NEW h, IsFold(move, Z, h)
  PROVE  g[Z] = h[Z]
<1> DEFINE Pick(s) == CHOOSE x \in s : TRUE
           Y == {n \in Nat : \A s \in SUBSET Z : Cardinality(s) = n => g[s] = h[s]}
<1>1. \A s \in SUBSET X : IsFiniteSet(s) /\ Cardinality(s) \in Nat
  BY FS_Subset, FS_CardinalityType
<1>2. ASSUME NEW s \in SUBSET Z
      PROVE  /\ g[s] = IF s = {} THEN 0 ELSE move[Pick(s)].amount + g[s \ {Pick(s)}]
             /\ h[s] = IF s = {} THEN 0 ELSE move[Pick(s)].amount + h[s \ {Pick(s)}]
  <2> HIDE DEF Pick
  <2>1. s \in SUBSET X
    OBVIOUS
  <2> QED
    BY <2>1 DEF IsFold, Pick
<1>3. 0 \in Y
  <2>1. \A s \in SUBSET Z : Cardinality(s) = 0 => s = {}
    BY <1>1, FS_EmptySet
  <2> QED
    BY <1>2, <2>1
<1>4. ASSUME NEW n \in Nat, n \in Y
      PROVE  n + 1 \in Y
  <2> SUFFICES ASSUME NEW s \in SUBSET Z, Cardinality(s) = n + 1
               PROVE  g[s] = h[s]
    OBVIOUS
  <2>1. s # {}
    BY FS_EmptySet
  <2>2. Pick(s) \in s
    BY <2>1
  <2>3. Cardinality(s \ {Pick(s)}) = n /\ s \ {Pick(s)} \in SUBSET Z
    <3>1. IsFiniteSet(s) /\ s \ {Pick(s)} \subseteq s
      BY <1>1
    <3>2. \A p \in s : Cardinality(s \ {p}) = Cardinality(s) - 1
      BY <3>1, FS_RemoveElement
    <3> HIDE DEF Pick
    <3>3. Cardinality(s \ {Pick(s)}) = (n + 1) - 1
      BY <2>2, <3>2
    <3> QED
      BY <3>1, <3>3
  <2>4. g[s \ {Pick(s)}] = h[s \ {Pick(s)}]
    BY <1>4, <2>3
  <2> QED
    BY <1>2, <2>1, <2>4
<1> HIDE DEF Y
<1>5. Nat \subseteq Y
  BY <1>3, <1>4, NatSetInduction
<1> QED
  BY <1>1, <1>5 DEF Y

LEMMA AmountsOfNone == ASSUME NEW move PROVE Amounts(move, {}) = 0
<1>1. PICK g : IsFold(move, {}, g)
  BY FS_EmptySet, FoldExists
<1>2. IsFold(move, {}, CHOOSE h : IsFold(move, {}, h))
  BY <1>1
<1> QED
  BY <1>2, AmountsAreAFold DEF IsFold

LEMMA AmountsTakeOne ==
  ASSUME NEW move, NEW X, IsFiniteSet(X), X # {}
  PROVE  \E x \in X : Amounts(move, X) = move[x].amount + Amounts(move, X \ {x})
<1> DEFINE x == CHOOSE y \in X : TRUE
           g == CHOOSE f : IsFold(move, X, f)
           h == CHOOSE f : IsFold(move, X \ {x}, f)
<1>1. x \in X /\ IsFiniteSet(X \ {x})
  BY FS_RemoveElement
<1>2. IsFold(move, X, g) /\ IsFold(move, X \ {x}, h)
  BY <1>1, FoldExists
<1>3. g[X] = move[x].amount + g[X \ {x}]
  <2> HIDE DEF g
  <2> QED
    BY <1>2 DEF IsFold
<1>4. g[X \ {x}] = h[X \ {x}]
  <2> HIDE DEF g, h, x
  <2> QED
    BY <1>2, FoldsAgree
<1>5. Amounts(move, X) = g[X] /\ Amounts(move, X \ {x}) = h[X \ {x}]
  BY AmountsAreAFold
<1> QED
  BY <1>1, <1>3, <1>4, <1>5

(* Amounts are integers. *)
AreAmounts(move, X) == \A x \in X : move[x].amount \in Int

LEMMA AmountsAreIntegers ==
  ASSUME NEW move, NEW X, IsFiniteSet(X), AreAmounts(move, X)
  PROVE  Amounts(move, X) \in Int
<1> DEFINE Y == {n \in Nat : \A s \in SUBSET X : Cardinality(s) = n
                                => Amounts(move, s) \in Int}
<1>1. \A s \in SUBSET X : IsFiniteSet(s) /\ Cardinality(s) \in Nat
  BY FS_Subset, FS_CardinalityType
<1>2. 0 \in Y
  <2>1. \A s \in SUBSET X : Cardinality(s) = 0 => s = {}
    BY <1>1, FS_EmptySet
  <2> QED
    BY <2>1, AmountsOfNone
<1>3. ASSUME NEW n \in Nat, n \in Y
      PROVE  n + 1 \in Y
  <2> SUFFICES ASSUME NEW s \in SUBSET X, Cardinality(s) = n + 1
               PROVE  Amounts(move, s) \in Int
    OBVIOUS
  <2>1. IsFiniteSet(s) /\ s # {}
    BY <1>1, FS_EmptySet
  <2>2. PICK x \in s : Amounts(move, s) = move[x].amount + Amounts(move, s \ {x})
    BY <2>1, AmountsTakeOne
  <2>3. Cardinality(s \ {x}) = (n + 1) - 1
    BY <2>1, FS_RemoveElement
  <2>4. Amounts(move, s \ {x}) \in Int
    BY <1>3, <2>3
  <2> QED
    BY <2>2, <2>4 DEF AreAmounts
<1> HIDE DEF Y
<1>4. Nat \subseteq Y
  BY <1>2, <1>3, NatSetInduction
<1> QED
  BY <1>1, <1>4 DEF Y

(* Whichever is taken out first. *)
LEMMA AmountsWithOne ==
  ASSUME NEW move, NEW X, IsFiniteSet(X), NEW x, x \notin X,
         AreAmounts(move, X \cup {x})
  PROVE  Amounts(move, X \cup {x}) = Amounts(move, X) + move[x].amount
<1> DEFINE Z == X \cup {x}
           Good(s) == \A y \in Z \ s :
                        Amounts(move, s \cup {y}) = Amounts(move, s) + move[y].amount
           Y == {n \in Nat : \A s \in SUBSET Z : Cardinality(s) = n => Good(s)}
<1>1. \A s \in SUBSET Z : IsFiniteSet(s) /\ Cardinality(s) \in Nat
  <2>1. IsFiniteSet(Z)
    BY FS_AddElement
  <2> QED
    BY <2>1, FS_Subset, FS_CardinalityType
<1>2. \A s \in SUBSET Z : Amounts(move, s) \in Int
  BY <1>1, AmountsAreIntegers DEF AreAmounts
<1>3. \A y \in Z : move[y].amount \in Int
  BY DEF AreAmounts
<1>4. 0 \in Y
  <2> SUFFICES ASSUME NEW y \in Z
               PROVE  Amounts(move, {y}) = Amounts(move, {}) + move[y].amount
    BY <1>1, FS_EmptySet
  <2>1. PICK p \in {y} : Amounts(move, {y}) = move[p].amount + Amounts(move, {y} \ {p})
    BY <1>1, AmountsTakeOne
  <2>2. p = y /\ {y} \ {p} = {}
    OBVIOUS
  <2>3. Amounts(move, {y}) = move[y].amount + 0 /\ Amounts(move, {}) = 0
    BY <2>1, <2>2, AmountsOfNone
  <2> QED
    BY <1>3, <2>3
<1>5. ASSUME NEW n \in Nat, n \in Y
      PROVE  n + 1 \in Y
  <2> SUFFICES ASSUME NEW s \in SUBSET Z, Cardinality(s) = n + 1, NEW y \in Z \ s
               PROVE  Amounts(move, s \cup {y}) = Amounts(move, s) + move[y].amount
    OBVIOUS
  <2> DEFINE t == s \cup {y}
  <2>1. IsFiniteSet(s) /\ IsFiniteSet(t) /\ t # {}
    BY <1>1
  <2>2. PICK p \in t : Amounts(move, t) = move[p].amount + Amounts(move, t \ {p})
    BY <2>1, AmountsTakeOne
  <2>3. CASE p = y
    <3>1. t \ {p} = s
      BY <2>3
    <3> QED
      BY <1>2, <1>3, <2>2, <2>3, <3>1
  <2>4. CASE p # y
    <3> DEFINE r == s \ {p}
    <3>1. /\ p \in s /\ r \in SUBSET Z /\ t \ {p} = r \cup {y} /\ r \cup {p} = s
          /\ p \in Z \ r /\ y \in Z \ r
      BY <2>4
    <3>2. Cardinality(r) = (n + 1) - 1
      <4>1. \A q \in s : Cardinality(s \ {q}) = Cardinality(s) - 1
        BY <2>1, FS_RemoveElement
      <4> QED
        BY <3>1, <4>1
    <3>3. Good(r)
      BY <1>5, <3>1, <3>2
    <3>4. /\ Amounts(move, t \ {p}) = Amounts(move, r) + move[y].amount
          /\ Amounts(move, s) = Amounts(move, r) + move[p].amount
      BY <3>1, <3>3
    <3> HIDE DEF r
    <3> QED
      BY <1>2, <1>3, <2>2, <3>1, <3>4
  <2> QED
    BY <2>3, <2>4
<1> HIDE DEF Y
<1>6. Nat \subseteq Y
  BY <1>4, <1>5, NatSetInduction
<1>7. Good(X)
  BY <1>1, <1>6 DEF Y
<1> QED
  BY <1>7

(* What sums have in common. *)
LEMMA AmountsApart ==
  ASSUME NEW move, NEW X, IsFiniteSet(X), NEW Z, IsFiniteSet(Z), X \cap Z = {},
         AreAmounts(move, X \cup Z)
  PROVE  Amounts(move, X \cup Z) = Amounts(move, X) + Amounts(move, Z)
<1> DEFINE Good == {s \in SUBSET Z :
                      Amounts(move, X \cup s) = Amounts(move, X) + Amounts(move, s)}
<1>0. /\ AreAmounts(move, X)
      /\ Amounts(move, X) \in Int
  BY AmountsAreIntegers DEF AreAmounts
<1>1. {} \in Good
  <2>1. X \cup {} = X
    OBVIOUS
  <2> QED
    BY <1>0, <2>1, AmountsOfNone
<1>2. ASSUME NEW s \in SUBSET Z, NEW x \in Z \ s, s \in Good
      PROVE  s \cup {x} \in Good
  <2>1. /\ IsFiniteSet(s) /\ AreAmounts(move, s \cup {x}) /\ AreAmounts(move, s)
        /\ IsFiniteSet(X \cup s) /\ x \notin X \cup s
        /\ AreAmounts(move, (X \cup s) \cup {x}) /\ move[x].amount \in Int
    BY FS_Subset, FS_Union DEF AreAmounts
  <2>2. /\ Amounts(move, (X \cup s) \cup {x}) = Amounts(move, X \cup s) + move[x].amount
        /\ Amounts(move, s \cup {x}) = Amounts(move, s) + move[x].amount
        /\ Amounts(move, s) \in Int
    BY <2>1, AmountsWithOne, AmountsAreIntegers
  <2>3. X \cup (s \cup {x}) = (X \cup s) \cup {x} /\ s \cup {x} \in SUBSET Z
    OBVIOUS
  <2>4. Amounts(move, X \cup s) = Amounts(move, X) + Amounts(move, s)
    BY <1>2
  <2>5. Amounts(move, (X \cup s) \cup {x}) = Amounts(move, X) + Amounts(move, s \cup {x})
    <3> HIDE DEF Good
    <3>1. /\ Amounts(move, X) \in Int /\ Amounts(move, s) \in Int /\ move[x].amount \in Int
      BY <1>0, <2>1, <2>2
    <3>2. \A a, b, c \in Int : (a + b) + c = a + (b + c)
      OBVIOUS
    <3> QED
      BY <2>2, <2>4, <3>1, <3>2
  <2> QED
    BY <2>3, <2>5
<1> HIDE DEF Good
<1>3. Z \in Good
  BY <1>1, <1>2, SetInduction
<1> QED
  BY <1>3 DEF Good

LEMMA AmountsOfZeros ==
  ASSUME NEW move, NEW X, IsFiniteSet(X), \A x \in X : move[x].amount = 0
  PROVE  Amounts(move, X) = 0
<1> DEFINE Good == {s \in SUBSET X : Amounts(move, s) = 0}
<1>1. {} \in Good
  BY AmountsOfNone
<1>2. ASSUME NEW s \in SUBSET X, NEW x \in X \ s, s \in Good
      PROVE  s \cup {x} \in Good
  <2>1. IsFiniteSet(s) /\ AreAmounts(move, s \cup {x})
    BY FS_Subset DEF AreAmounts
  <2>2. Amounts(move, s \cup {x}) = Amounts(move, s) + move[x].amount
    BY <2>1, AmountsWithOne
  <2>3. s \cup {x} \in SUBSET X /\ Amounts(move, s) = 0 /\ move[x].amount = 0
    BY <1>2
  <2> QED
    BY <2>2, <2>3
<1> HIDE DEF Good
<1>3. X \in Good
  BY <1>1, <1>2, SetInduction
<1> QED
  BY <1>3 DEF Good

LEMMA AmountsAreNatural ==
  ASSUME NEW move, NEW X, IsFiniteSet(X), \A x \in X : move[x].amount \in Nat
  PROVE  Amounts(move, X) \in Nat
<1> DEFINE Good == {s \in SUBSET X : Amounts(move, s) \in Nat}
<1>1. {} \in Good
  BY AmountsOfNone
<1>2. ASSUME NEW s \in SUBSET X, NEW x \in X \ s, s \in Good
      PROVE  s \cup {x} \in Good
  <2>1. IsFiniteSet(s) /\ AreAmounts(move, s \cup {x})
    BY FS_Subset DEF AreAmounts
  <2>2. Amounts(move, s \cup {x}) = Amounts(move, s) + move[x].amount
    BY <2>1, AmountsWithOne
  <2>3. s \cup {x} \in SUBSET X /\ Amounts(move, s) \in Nat /\ move[x].amount \in Nat
    BY <1>2
  <2> QED
    BY <2>2, <2>3
<1> HIDE DEF Good
<1>3. X \in Good
  BY <1>1, <1>2, SetInduction
<1> QED
  BY <1>3 DEF Good

(* The movements of money of the modules. *)
Into(move, X, holders) == {i \in X : move[i].to \in holders}
OutOf(move, X, holders) == {i \in X : move[i].from \in holders}

LEMMA MovesAreAmounts ==
  ASSUME NEW move, NEW X, NEW holders
  PROVE  /\ M!Received(move, X, holders) = Amounts(move, Into(move, X, holders))
         /\ M!Spent(move, X, holders) = Amounts(move, OutOf(move, X, holders))
         /\ T!Received(move, X, holders) = Amounts(move, Into(move, X, holders))
         /\ T!Spent(move, X, holders) = Amounts(move, OutOf(move, X, holders))
         /\ N!Received(move, X, holders) = Amounts(move, Into(move, X, holders))
         /\ N!Spent(move, X, holders) = Amounts(move, OutOf(move, X, holders))
BY DEF Amounts, Into, OutOf, M!Received, M!Spent, T!Received, T!Spent,
       N!Received, N!Spent, M!MapThenSumSet, T!MapThenSumSet, N!MapThenSumSet,
       M!MapThenFoldSet, T!MapThenFoldSet, N!MapThenFoldSet

Gained(move, X, holders) ==
  Amounts(move, Into(move, X, holders)) - Amounts(move, OutOf(move, X, holders))

LEMMA GainsAreAmounts ==
  ASSUME NEW move, NEW X, NEW holders
  PROVE  /\ T!Gain(move, X, holders) = Gained(move, X, holders)
         /\ M!Gain(move, X, holders) = Gained(move, X, holders)
         /\ N!Gain(move, X, holders) = Gained(move, X, holders)
BY MovesAreAmounts DEF Gained, T!Gain, M!Gain, N!Gain

LEMMA GainOfNone == ASSUME NEW move, NEW holders PROVE Gained(move, {}, holders) = 0
<1>1. Into(move, {}, holders) = {} /\ OutOf(move, {}, holders) = {}
  BY DEF Into, OutOf
<1> QED
  BY <1>1, AmountsOfNone DEF Gained

(* What one more move changes. *)
LEMMA GainWithOne ==
  ASSUME NEW move, NEW X, IsFiniteSet(X), NEW x, x \notin X,
         AreAmounts(move, X \cup {x}), NEW holders
  PROVE  /\ Gained(move, X, holders) \in Int
         /\ Gained(move, X \cup {x}, holders)
              = Gained(move, X, holders)
                  + (IF move[x].to \in holders THEN move[x].amount ELSE 0)
                  - (IF move[x].from \in holders THEN move[x].amount ELSE 0)
<1> DEFINE To(Z) == {i \in Z : move[i].to \in holders}
           From(Z) == {i \in Z : move[i].from \in holders}
<1>1. /\ IsFiniteSet(To(X)) /\ IsFiniteSet(From(X))
      /\ AreAmounts(move, To(X)) /\ AreAmounts(move, From(X))
      /\ move[x].amount \in Int /\ x \notin To(X) /\ x \notin From(X)
      /\ AreAmounts(move, To(X) \cup {x}) /\ AreAmounts(move, From(X) \cup {x})
  <2>1. To(X) \in SUBSET X /\ From(X) \in SUBSET X
    OBVIOUS
  <2> QED
    BY <2>1, FS_Subset DEF AreAmounts
<1>2. /\ To(X \cup {x}) = IF move[x].to \in holders THEN To(X) \cup {x} ELSE To(X)
      /\ From(X \cup {x}) = IF move[x].from \in holders THEN From(X) \cup {x} ELSE From(X)
  OBVIOUS
<1>3. /\ Amounts(move, To(X)) \in Int /\ Amounts(move, From(X)) \in Int
      /\ Amounts(move, To(X) \cup {x}) = Amounts(move, To(X)) + move[x].amount
      /\ Amounts(move, From(X) \cup {x}) = Amounts(move, From(X)) + move[x].amount
  <2> HIDE DEF To, From
  <2> QED
    BY <1>1, AmountsAreIntegers, AmountsWithOne
<1>4. /\ Gained(move, X, holders) = Amounts(move, To(X)) - Amounts(move, From(X))
      /\ Gained(move, X \cup {x}, holders)
           = Amounts(move, To(X \cup {x})) - Amounts(move, From(X \cup {x}))
  BY DEF Gained, Into, OutOf
<1> HIDE DEF To, From
<1> QED
  BY <1>1, <1>2, <1>3, <1>4
(* What some moves bring and what the others bring is what all bring. *)
LEMMA GainsApart ==
  ASSUME NEW move, NEW X, IsFiniteSet(X), AreAmounts(move, X),
         NEW U \in SUBSET X, NEW holders
  PROVE  /\ Gained(move, X \ U, holders) + Gained(move, U, holders)
              = Gained(move, X, holders)
         /\ Gained(move, X, holders) \in Int
<1> DEFINE To(Z) == Into(move, Z, holders)
           From(Z) == OutOf(move, Z, holders)
<1>1. /\ To(X \ U) \cap To(U) = {} /\ From(X \ U) \cap From(U) = {}
      /\ To(X) = To(X \ U) \cup To(U) /\ From(X) = From(X \ U) \cup From(U)
      /\ To(X) \in SUBSET X /\ From(X) \in SUBSET X
  BY DEF Into, OutOf
<1> HIDE DEF To, From
<1>2. /\ IsFiniteSet(To(X \ U)) /\ IsFiniteSet(To(U))
      /\ IsFiniteSet(From(X \ U)) /\ IsFiniteSet(From(U))
  BY <1>1, FS_Subset
<1>3. /\ AreAmounts(move, To(X)) /\ AreAmounts(move, From(X))
      /\ AreAmounts(move, To(X \ U)) /\ AreAmounts(move, To(U))
      /\ AreAmounts(move, From(X \ U)) /\ AreAmounts(move, From(U))
  BY <1>1 DEF AreAmounts
<1>4. /\ Amounts(move, To(X)) = Amounts(move, To(X \ U)) + Amounts(move, To(U))
      /\ Amounts(move, From(X)) = Amounts(move, From(X \ U)) + Amounts(move, From(U))
  <2>1. AreAmounts(move, To(X \ U) \cup To(U)) /\ AreAmounts(move, From(X \ U) \cup From(U))
    BY <1>1, <1>3
  <2>2. Amounts(move, To(X \ U) \cup To(U)) = Amounts(move, To(X \ U)) + Amounts(move, To(U))
    BY <1>1, <1>2, <2>1, AmountsApart
  <2>3. Amounts(move, From(X \ U) \cup From(U))
          = Amounts(move, From(X \ U)) + Amounts(move, From(U))
    BY <1>1, <1>2, <2>1, AmountsApart
  <2> QED
    BY <1>1, <2>2, <2>3
<1>5. /\ Amounts(move, To(X \ U)) \in Int /\ Amounts(move, To(U)) \in Int
      /\ Amounts(move, From(X \ U)) \in Int /\ Amounts(move, From(U)) \in Int
  BY <1>2, <1>3, AmountsAreIntegers
<1>6. \A Z : Gained(move, Z, holders) = Amounts(move, To(Z)) - Amounts(move, From(Z))
  BY DEF Gained, To, From
<1> QED
  BY <1>4, <1>5, <1>6
-----------------------------------------------------------------------------
(* Token flow: input is trace, extra is toAddress, memo is raised, and      *)
(* result is flows.                                                        *)

(* What the property says, undone or not, and raised or not. *)
EtherAddsUp ==
  Weth \notin T!Checked /\ ~T!Destroyed
    /\ ~T!Internal(T!TransfersOf({Weth})) /\ ~T!Borrowed({Weth}) =>
    result.ethIn - result.ethOut
      = Gained(input, T!EtherMoves, T!Checked)
          + Gained(T!TokenMove, T!TransfersOf({Weth}), T!Checked)

DollarsAddUp ==
  ~T!Internal(T!TransfersOf(Stablecoins)) /\ ~T!Borrowed(Stablecoins) =>
    result.usdIn - result.usdOut
      = Gained(T!TokenMove, T!TransfersOf(Stablecoins), T!Checked)

FlowInv ==
  /\ Len(input) \in Nat /\ at \in 1 .. Len(input) + 1
  /\ \A i \in T!Places : input[i].amount \in Nat /\ input[i].sum \in Nat
  /\ result \in [ethIn : Nat, ethOut : Nat, usdIn : Nat, usdOut : Nat]
  /\ EtherAddsUp /\ DollarsAddUp

LEMMA FlowBegins == ASSUME T!Init PROVE FlowInv
<1>1. PICK tx \in FlowTransactions : extra = tx[1] /\ input = tx[2]
  BY DEF T!Init
<1>2. /\ Len(input) \in Nat /\ at = 1
      /\ \A i \in T!Places : input[i].amount \in Nat /\ input[i].sum \in Nat
  BY <1>1, FlowsAssumption DEF T!Init, T!Places, FlowsAreAmounts
<1>3. result = [ethIn |-> 0, ethOut |-> 0, usdIn |-> 0, usdOut |-> 0]
  BY DEF T!Init
<1>4. T!EtherMoves = {} /\ \A tokens : T!TransfersOf(tokens) = {}
  <2>1. 1 .. at - 1 = {}
    BY <1>2
  <2> QED
    BY <2>1 DEF T!EtherMoves, T!TransfersOf
<1>5. \A move : Gained(move, {}, T!Checked) = 0
  BY GainOfNone
<1>6. EtherAddsUp /\ DollarsAddUp
  BY <1>3, <1>4, <1>5 DEF EtherAddsUp, DollarsAddUp
<1> QED
  BY <1>2, <1>3, <1>6 DEF FlowInv

(* What one trace adds to the flows. *)
EtherOf(t) ==
  T!EtherGot(t) - T!EtherGiven(t)
    + (IF T!IsCall(t) /\ t.to = Weth THEN T!TokensGot(t) - T!TokensGiven(t) ELSE 0)

Visits == T!VisitWeth \/ T!VisitStablecoin \/ T!VisitOther

DollarsOf(t) ==
  IF T!IsCall(t) /\ t.to \in Stablecoins THEN T!TokensGot(t) - T!TokensGiven(t) ELSE 0

LEMMA FlowStep ==
  ASSUME FlowInv, Visits
  PROVE  /\ at \in T!Places /\ at' = at + 1 /\ UNCHANGED <<extra, input>>
         /\ ~T!CannotBeRead(input[at])
         /\ result' \in [ethIn : Nat, ethOut : Nat, usdIn : Nat, usdOut : Nat]
         /\ result'.ethIn - result'.ethOut
              = result.ethIn - result.ethOut + EtherOf(input[at])
         /\ result'.usdIn - result'.usdOut
              = result.usdIn - result.usdOut + DollarsOf(input[at])
<1> DEFINE t == input[at]
<1>1. /\ at \in T!Places /\ at' = at + 1 /\ UNCHANGED <<extra, input>>
      /\ ~T!CannotBeRead(t)
  BY DEF Visits, T!VisitWeth, T!VisitStablecoin, T!VisitOther, T!Visit
<1>2. /\ T!EtherGot(t) \in Nat /\ T!EtherGiven(t) \in Nat
      /\ T!TokensGot(t) \in Nat /\ T!TokensGiven(t) \in Nat
  BY <1>1 DEF FlowInv, T!EtherGot, T!EtherGiven, T!TokensGot, T!TokensGiven
<1>3. Weth \notin Stablecoins
  BY FlowsAssumption DEF FlowsAreAmounts
<1>4. /\ result = [ethIn |-> result.ethIn, ethOut |-> result.ethOut,
                   usdIn |-> result.usdIn, usdOut |-> result.usdOut]
      /\ result.ethIn \in Nat /\ result.ethOut \in Nat
      /\ result.usdIn \in Nat /\ result.usdOut \in Nat
  BY DEF FlowInv
<1>5. CASE T!VisitWeth
  <2>1. /\ T!IsCall(t) /\ t.to = Weth
        /\ result' = [ethIn |-> result.ethIn + T!EtherGot(t) + T!TokensGot(t),
                      ethOut |-> result.ethOut + T!EtherGiven(t) + T!TokensGiven(t),
                      usdIn |-> result.usdIn, usdOut |-> result.usdOut]
    BY <1>4, <1>5 DEF T!VisitWeth
  <2> HIDE DEF t
  <2> QED
    BY <1>1, <1>2, <1>3, <1>4, <2>1 DEF EtherOf, DollarsOf, t
<1>6. CASE T!VisitStablecoin
  <2>1. /\ T!IsCall(t) /\ t.to \in Stablecoins
        /\ result' = [ethIn |-> result.ethIn + T!EtherGot(t),
                      ethOut |-> result.ethOut + T!EtherGiven(t),
                      usdIn |-> result.usdIn + T!TokensGot(t),
                      usdOut |-> result.usdOut + T!TokensGiven(t)]
    BY <1>4, <1>6 DEF T!VisitStablecoin
  <2> QED
    BY <1>1, <1>2, <1>3, <1>4, <2>1 DEF EtherOf, DollarsOf
<1>7. CASE T!VisitOther
  <2>1. /\ ~(T!IsCall(t) /\ t.to = Weth) /\ ~(T!IsCall(t) /\ t.to \in Stablecoins)
        /\ result' = [ethIn |-> result.ethIn + T!EtherGot(t),
                      ethOut |-> result.ethOut + T!EtherGiven(t),
                      usdIn |-> result.usdIn, usdOut |-> result.usdOut]
    BY <1>4, <1>7 DEF T!VisitOther
  <2> QED
    BY <1>1, <1>2, <1>3, <1>4, <2>1 DEF EtherOf, DollarsOf
<1> QED
  BY <1>5, <1>6, <1>7 DEF Visits

(* One more trace is visited. *)
LEMMA VisitedWithOne ==
  ASSUME FlowInv, at \in T!Places, at' = at + 1, UNCHANGED <<extra, input>>
  PROVE  /\ T!Places' = T!Places /\ T!Checked' = T!Checked
         /\ T!TokenMove' = T!TokenMove
         /\ T!EtherMoves' =
              IF /\ input[at].type \in {"call", "suicide"}
                 /\ Weth \notin {input[at].from, input[at].to}
                THEN T!EtherMoves \cup {at} ELSE T!EtherMoves
         /\ \A tokens : T!TransfersOf(tokens)' =
              IF /\ input[at].type = "call" /\ input[at].to \in tokens
                 /\ input[at].method \in {"transfer", "transferFrom"}
                THEN T!TransfersOf(tokens) \cup {at} ELSE T!TransfersOf(tokens)
         /\ T!EtherMoves \in SUBSET (1 .. at - 1)
         /\ \A tokens : T!TransfersOf(tokens) \in SUBSET (1 .. at - 1)
         /\ 1 .. at' - 1 = (1 .. at - 1) \cup {at}
<1>1. 1 .. at' - 1 = (1 .. at - 1) \cup {at}
  BY DEF FlowInv, T!Places
<1>2. T!Places' = T!Places
  BY DEF T!Places
<1>3. T!Checked' = T!Checked /\ T!TokenMove' = T!TokenMove
  BY <1>2 DEF T!Checked, T!TxProxies, T!TokenMove
<1> QED
  BY <1>1, <1>2, <1>3 DEF T!EtherMoves, T!TransfersOf

LEMMA MovesAreCounted ==
  ASSUME FlowInv
  PROVE  /\ \A X \in SUBSET T!Places : /\ IsFiniteSet(X)
                                       /\ AreAmounts(input, X)
                                       /\ AreAmounts(T!TokenMove, X)
         /\ 1 .. at - 1 \subseteq T!Places
<1>1. IsFiniteSet(T!Places)
  BY FS_Interval DEF FlowInv, T!Places
<1>2. \A i \in T!Places : T!TokenMove[i].amount = input[i].sum
  BY DEF T!TokenMove
<1>3. \A X \in SUBSET T!Places : IsFiniteSet(X)
  BY <1>1, FS_Subset
<1>4. \A i \in T!Places : input[i].amount \in Int /\ input[i].sum \in Int
  BY DEF FlowInv
<1>5. \A X \in SUBSET T!Places : AreAmounts(input, X) /\ AreAmounts(T!TokenMove, X)
  BY <1>2, <1>4 DEF AreAmounts
<1>6. 1 .. at - 1 \subseteq T!Places
  BY DEF FlowInv, T!Places
<1> QED
  BY <1>3, <1>5, <1>6

LEMMA GainOfVisit ==
  ASSUME FlowInv, at \in T!Places, NEW move, move = input \/ move = T!TokenMove,
         NEW X \in SUBSET (1 .. at - 1)
  PROVE  /\ Gained(move, X, T!Checked) \in Int
         /\ Gained(move, X \cup {at}, T!Checked)
              = Gained(move, X, T!Checked)
                  + (IF move[at].to \in T!Checked THEN move[at].amount ELSE 0)
                  - (IF move[at].from \in T!Checked THEN move[at].amount ELSE 0)
<1>1. X \in SUBSET T!Places /\ X \cup {at} \in SUBSET T!Places
  BY MovesAreCounted
<1>2. at \notin X
  BY DEF FlowInv, T!Places
<1>3. IsFiniteSet(X) /\ AreAmounts(move, X \cup {at})
  BY <1>1, MovesAreCounted
<1> QED
  BY <1>2, <1>3, GainWithOne

(* What a call of tokens moves, and what the code takes it to move. *)
TokensOf(t, tokens) ==
  IF T!IsCall(t) /\ t.to \in tokens THEN T!TokensGot(t) - T!TokensGiven(t) ELSE 0

LEMMA TokensMove ==
  ASSUME FlowInv, at \in T!Places, at' = at + 1, UNCHANGED <<extra, input>>,
         NEW tokens,
         ~T!Internal(T!TransfersOf(tokens)'), T!Checked' = T!Checked,
         ~(\E i \in 1 .. at' - 1 : /\ input[i].type = "delegatecall"
                                  /\ input[i].to \in tokens
                                  /\ input[i].method \in {"transfer", "transferFrom"})
  PROVE  /\ ~T!Internal(T!TransfersOf(tokens)) /\ ~T!Borrowed(tokens)
         /\ Gained(T!TokenMove, T!TransfersOf(tokens), T!Checked) \in Int
         /\ TokensOf(input[at], tokens) \in Int
         /\ Gained(T!TokenMove, T!TransfersOf(tokens)', T!Checked)
              = Gained(T!TokenMove, T!TransfersOf(tokens), T!Checked)
                  + TokensOf(input[at], tokens)
<1> DEFINE t == input[at]
           transfers == T!TransfersOf(tokens)
           after == T!TransfersOf(tokens)'
           isTransfer == /\ t.type = "call" /\ t.to \in tokens
                         /\ t.method \in {"transfer", "transferFrom"}
<1>1. /\ after = IF isTransfer THEN transfers \cup {at} ELSE transfers
      /\ transfers \in SUBSET (1 .. at - 1)
      /\ 1 .. at' - 1 = (1 .. at - 1) \cup {at}
  BY VisitedWithOne
<1>2. ~T!Internal(transfers) /\ ~T!Borrowed(tokens)
  <2>1. ~T!Internal(transfers)
    BY <1>1 DEF T!Internal
  <2>2. ~T!Borrowed(tokens)
    BY <1>1 DEF T!Borrowed
  <2> QED
    BY <2>1, <2>2
<1>3. /\ T!TokenMove[at].amount = t.sum /\ t.sum \in Nat
      /\ T!TokenMove[at].from = IF t.method = "transfer" THEN t.from ELSE t.src
      /\ T!TokenMove[at].to = t.dst
  BY DEF T!TokenMove, FlowInv
<1>4. /\ Gained(T!TokenMove, transfers, T!Checked) \in Int
      /\ Gained(T!TokenMove, transfers \cup {at}, T!Checked)
           = Gained(T!TokenMove, transfers, T!Checked)
               + (IF t.dst \in T!Checked THEN t.sum ELSE 0)
               - (IF T!TokenMove[at].from \in T!Checked THEN t.sum ELSE 0)
  BY <1>1, <1>3, GainOfVisit
<1>5. TokensOf(t, tokens) =
        IF isTransfer
          THEN (IF t.dst \in T!Checked THEN t.sum ELSE 0)
                 - (IF T!TokenMove[at].from \in T!Checked THEN t.sum ELSE 0)
          ELSE 0
  <2>1. CASE isTransfer
    <3>1. ~(T!TokenMove[at].from \in T!Checked /\ t.dst \in T!Checked)
      BY <1>1, <1>3, <2>1 DEF T!Internal
    <3> HIDE DEF t
    <3> QED
      BY <1>3, <2>1, <3>1 DEF TokensOf, T!IsCall, T!TokensGot, T!TokensGiven
  <2>2. CASE ~isTransfer
    <3>1. ~(t.type = "delegatecall" /\ t.to \in tokens
              /\ t.method \in {"transfer", "transferFrom"})
      BY <1>1
    <3> HIDE DEF t
    <3> QED
      BY <1>3, <2>2, <3>1 DEF TokensOf, T!IsCall, T!TokensGot, T!TokensGiven
  <2> QED
    BY <2>1, <2>2
<1> HIDE DEF t, transfers, after
<1> QED
  BY <1>1, <1>2, <1>3, <1>4, <1>5 DEF t, transfers, after

LEMMA EtherStep ==
  ASSUME FlowInv, Visits
  PROVE  EtherAddsUp'
<1> DEFINE t == input[at]
           moves == T!EtherMoves
           transfers == T!TransfersOf({Weth})
<1>1. /\ at \in T!Places /\ at' = at + 1 /\ UNCHANGED <<extra, input>>
      /\ ~T!CannotBeRead(t)
      /\ result'.ethIn - result'.ethOut = result.ethIn - result.ethOut + EtherOf(t)
  BY FlowStep
<1>2. /\ T!Checked' = T!Checked /\ T!TokenMove' = T!TokenMove
      /\ T!EtherMoves' = IF /\ t.type \in {"call", "suicide"}
                            /\ Weth \notin {t.from, t.to}
                           THEN moves \cup {at} ELSE moves
      /\ moves \in SUBSET (1 .. at - 1)
      /\ 1 .. at' - 1 = (1 .. at - 1) \cup {at}
  BY <1>1, VisitedWithOne
<1>3. SUFFICES ASSUME Weth \notin T!Checked, ~T!Destroyed',
                      ~T!Internal(T!TransfersOf({Weth}))', ~T!Borrowed({Weth})'
               PROVE  result'.ethIn - result'.ethOut
                        = Gained(input, T!EtherMoves', T!Checked)
                            + Gained(T!TokenMove, T!TransfersOf({Weth})', T!Checked)
  <2>1. /\ Gained(input, T!EtherMoves, T!Checked)'
             = Gained(input, T!EtherMoves', T!Checked)
        /\ Gained(T!TokenMove, T!TransfersOf({Weth}), T!Checked)'
             = Gained(T!TokenMove, T!TransfersOf({Weth})', T!Checked)
    BY <1>1, <1>2
  <2> QED
    BY <1>2, <2>1 DEF EtherAddsUp
<1>4. /\ ~T!Internal(transfers) /\ ~T!Borrowed({Weth})
      /\ Gained(T!TokenMove, transfers, T!Checked) \in Int
      /\ TokensOf(t, {Weth}) \in Int
      /\ Gained(T!TokenMove, T!TransfersOf({Weth})', T!Checked)
           = Gained(T!TokenMove, transfers, T!Checked) + TokensOf(t, {Weth})
  <2>1. ~T!Internal(T!TransfersOf({Weth})')
    BY <1>2, <1>3 DEF T!Internal
  <2>2. ~(\E i \in 1 .. at' - 1 : /\ input[i].type = "delegatecall"
                                  /\ input[i].to \in {Weth}
                                  /\ input[i].method \in {"transfer", "transferFrom"})
    BY <1>1, <1>3 DEF T!Borrowed
  <2> QED
    BY <1>1, <1>2, <2>1, <2>2, TokensMove
<1>5. /\ result.ethIn - result.ethOut
           = Gained(input, moves, T!Checked) + Gained(T!TokenMove, transfers, T!Checked)
      /\ result.ethIn - result.ethOut \in Int
  <2>1. ~T!Destroyed
    BY <1>1, <1>2, <1>3 DEF T!Destroyed
  <2> QED
    BY <1>3, <1>4, <2>1 DEF FlowInv, EtherAddsUp
<1> DEFINE ether ==
             IF t.type \in {"call", "suicide"} /\ Weth \notin {t.from, t.to}
               THEN (IF t.to \in T!Checked THEN t.amount ELSE 0)
                      - (IF t.from \in T!Checked THEN t.amount ELSE 0)
               ELSE 0
<1>6. /\ t.amount \in Nat
      /\ t.type = "suicide" => t.from \notin T!Checked /\ t.to \notin T!Checked
  BY <1>1, <1>2, <1>3 DEF FlowInv, T!Destroyed, T!CannotBeRead
<1>7. /\ Gained(input, T!EtherMoves', T!Checked) = Gained(input, moves, T!Checked) + ether
      /\ Gained(input, moves, T!Checked) \in Int /\ ether \in Int
  <2>1. /\ Gained(input, moves, T!Checked) \in Int
        /\ Gained(input, moves \cup {at}, T!Checked)
             = Gained(input, moves, T!Checked)
                 + (IF t.to \in T!Checked THEN t.amount ELSE 0)
                 - (IF t.from \in T!Checked THEN t.amount ELSE 0)
    BY <1>1, <1>2, GainOfVisit
  <2> HIDE DEF moves, t
  <2> QED
    BY <1>2, <1>6, <2>1
<1>8. EtherOf(t) = ether + TokensOf(t, {Weth})
  <2> HIDE DEF t
  <2>1. CASE T!IsCall(t) /\ t.to = Weth
    <3>1. ether = 0 /\ T!EtherGot(t) = 0 /\ T!EtherGiven(t) = 0
      BY <1>3, <2>1 DEF T!EtherGot, T!EtherGiven, T!IsCall
    <3> HIDE DEF ether
    <3> QED
      BY <1>4, <2>1, <3>1 DEF EtherOf, TokensOf
  <2>2. CASE ~(T!IsCall(t) /\ t.to = Weth)
    BY <1>3, <1>6, <2>2
      DEF EtherOf, TokensOf, T!EtherGot, T!EtherGiven, T!IsCall
  <2> QED
    BY <2>1, <2>2
<1> HIDE DEF ether, moves, transfers, t
<1> QED
  BY <1>1, <1>4, <1>5, <1>7, <1>8

LEMMA DollarStep ==
  ASSUME FlowInv, Visits
  PROVE  DollarsAddUp'
<1> DEFINE transfers == T!TransfersOf(Stablecoins)
<1>1. /\ at \in T!Places /\ at' = at + 1 /\ UNCHANGED <<extra, input>>
      /\ result'.usdIn - result'.usdOut
           = result.usdIn - result.usdOut + TokensOf(input[at], Stablecoins)
  BY FlowStep DEF TokensOf, DollarsOf
<1>2. T!Checked' = T!Checked /\ T!TokenMove' = T!TokenMove
  BY <1>1, VisitedWithOne
<1>3. SUFFICES ASSUME ~T!Internal(T!TransfersOf(Stablecoins))', ~T!Borrowed(Stablecoins)'
               PROVE  result'.usdIn - result'.usdOut
                        = Gained(T!TokenMove, T!TransfersOf(Stablecoins)', T!Checked)
  <2>1. Gained(T!TokenMove, T!TransfersOf(Stablecoins), T!Checked)'
             = Gained(T!TokenMove, T!TransfersOf(Stablecoins)', T!Checked)
    BY <1>1, <1>2
  <2> QED
    BY <1>2, <2>1 DEF DollarsAddUp
<1>4. /\ ~T!Internal(transfers) /\ ~T!Borrowed(Stablecoins)
      /\ Gained(T!TokenMove, T!TransfersOf(Stablecoins)', T!Checked)
           = Gained(T!TokenMove, transfers, T!Checked) + TokensOf(input[at], Stablecoins)
  <2>1. ~T!Internal(T!TransfersOf(Stablecoins)')
    BY <1>2, <1>3 DEF T!Internal
  <2>2. ~(\E i \in 1 .. at' - 1 : /\ input[i].type = "delegatecall"
                                  /\ input[i].to \in Stablecoins
                                  /\ input[i].method \in {"transfer", "transferFrom"})
    BY <1>1, <1>3 DEF T!Borrowed
  <2> QED
    BY <1>1, <1>2, <2>1, <2>2, TokensMove
<1>5. result.usdIn - result.usdOut = Gained(T!TokenMove, transfers, T!Checked)
  BY <1>4 DEF FlowInv, DollarsAddUp
<1> QED
  BY <1>1, <1>4, <1>5

LEMMA FlowGoesOn ==
  ASSUME FlowInv, [T!Next]_T!vars
  PROVE  FlowInv'
<1>1. CASE Visits
  <2>1. /\ at \in T!Places /\ at' = at + 1 /\ UNCHANGED <<extra, input>>
        /\ result' \in [ethIn : Nat, ethOut : Nat, usdIn : Nat, usdOut : Nat]
    BY <1>1, FlowStep
  <2>2. EtherAddsUp' /\ DollarsAddUp'
    BY <1>1, EtherStep, DollarStep
  <2>3. at' \in 1 .. Len(input) + 1
    BY <2>1 DEF FlowInv, T!Places
  <2>4. T!Places' = T!Places
    BY <2>1 DEF T!Places
  <2> QED
    BY <2>1, <2>2, <2>3, <2>4 DEF FlowInv
<1>2. CASE UNCHANGED <<extra, input, at, result>>
  <2>1. EtherAddsUp' /\ DollarsAddUp'
    <3>1. /\ T!Checked' = T!Checked /\ T!EtherMoves' = T!EtherMoves
          /\ T!TokenMove' = T!TokenMove
          /\ T!TransfersOf({Weth})' = T!TransfersOf({Weth})
          /\ T!TransfersOf(Stablecoins)' = T!TransfersOf(Stablecoins)
      BY <1>2 DEF T!Checked, T!TxProxies, T!Places, T!EtherMoves, T!TokenMove, T!TransfersOf
    <3>2. EtherAddsUp /\ DollarsAddUp
      BY DEF FlowInv
    <3>3. /\ T!Destroyed' = T!Destroyed /\ \A X : T!Internal(X)' = T!Internal(X)
          /\ \A X : T!Borrowed(X)' = T!Borrowed(X)
      BY <1>2, <3>1 DEF T!Destroyed, T!Internal, T!Borrowed
    <3> QED
      BY <1>2, <3>1, <3>2, <3>3 DEF EtherAddsUp, DollarsAddUp
  <2> QED
    BY <1>2, <2>1 DEF FlowInv, T!Places
<1>3. T!Raise \/ UNCHANGED T!vars => UNCHANGED <<extra, input, at, result>>
  BY DEF T!Raise, T!vars
<1> QED
  BY <1>1, <1>2, <1>3 DEF Visits, T!Next, T!NobodyIsCalled, T!RefundIsRead

(* What stood and what was undone is all that is counted. *)
LEMMA CountedIsGained ==
  ASSUME FlowInv, NEW move, move = input \/ move = T!TokenMove,
         NEW X \in SUBSET T!Places
  PROVE  T!Counted(move, X) = Gained(move, X, T!Checked)
<1>1. T!Undone(X) \in SUBSET X
  BY DEF T!Undone
<1>2. IsFiniteSet(X) /\ AreAmounts(move, X)
  BY MovesAreCounted
<1>3. Gained(move, X \ T!Undone(X), T!Checked) + Gained(move, T!Undone(X), T!Checked)
        = Gained(move, X, T!Checked)
  BY <1>1, <1>2, GainsApart
<1> QED
  BY <1>3, GainsAreAmounts DEF T!Counted

LEMMA FlowsAreTheGains == ASSUME FlowInv PROVE T!NetFlowsAreGains
<1>1. /\ T!EtherMoves \in SUBSET T!Places
      /\ \A tokens : T!TransfersOf(tokens) \in SUBSET T!Places
  <2>1. 1 .. at - 1 \subseteq T!Places
    BY MovesAreCounted
  <2> QED
    BY <2>1 DEF T!EtherMoves, T!TransfersOf
<1>2. /\ T!Counted(input, T!EtherMoves) = Gained(input, T!EtherMoves, T!Checked)
      /\ \A tokens : T!Counted(T!TokenMove, T!TransfersOf(tokens))
                       = Gained(T!TokenMove, T!TransfersOf(tokens), T!Checked)
  BY <1>1, CountedIsGained
<1>3. EtherAddsUp /\ DollarsAddUp
  BY DEF FlowInv
<1>4. T!EtherNetIsGain
  BY <1>2, <1>3 DEF T!EtherNetIsGain, EtherAddsUp
<1>5. T!DollarNetIsGain
  BY <1>2, <1>3 DEF T!DollarNetIsGain, DollarsAddUp
<1> QED
  BY <1>4, <1>5 DEF T!NetFlowsAreGains

(***************************************************************************)
(* Whatever a transaction does with ETH, WETH and stablecoins, the net     *)
(* flows that token flow returns are what the contract and its proxies     *)
(* gain and what was undone of it, with the exceptions that the property   *)
(* names.                                                                  *)
(***************************************************************************)
THEOREM NetFlowsAreTheGains == Spec => []NetFlowsAreGains
<1> DEFINE Inv == algorithm = "token flow" => FlowInv
<1>1. Init => Inv
  BY OneBegins, FlowBegins
<1>2. Inv /\ [Next]_variables => Inv'
  <2> SUFFICES ASSUME Inv, [Next]_variables, algorithm' = "token flow"
               PROVE  FlowInv'
    OBVIOUS
  <2>1. algorithm = "token flow" /\ FlowInv
    BY OneGoesOn
  <2>2. [T!Next]_T!vars
    BY <2>1, OneGoesOn DEF variables, T!vars
  <2> QED
    BY <2>1, <2>2, FlowGoesOn
<1>3. Inv => NetFlowsAreGains
  BY FlowsAreTheGains DEF NetFlowsAreGains
<1> QED
  BY <1>1, <1>2, <1>3, PTL DEF Spec
-----------------------------------------------------------------------------
(* Miner payments: input is trace, extra is receipts, and result is        *)
(* payments.                                                               *)

RankIn(X, k) == Cardinality({j \in X : j <= k})

(* One more, above the others, is the last one. *)
LEMMA RankOfOneMore ==
  ASSUME NEW m \in Nat \ {0}, NEW X \in SUBSET (1 .. m - 1)
  PROVE  /\ IsFiniteSet(X) /\ Cardinality(X) \in Nat
         /\ Cardinality(X \cup {m}) = Cardinality(X) + 1
         /\ RankIn(X \cup {m}, m) = Cardinality(X) + 1
         /\ \A k \in X : /\ RankIn(X \cup {m}, k) = RankIn(X, k)
                        /\ RankIn(X, k) \in 1 .. Cardinality(X)
<1>1. IsFiniteSet(X) /\ Cardinality(X) \in Nat /\ m \notin X
  <2>1. IsFiniteSet(1 .. m - 1) /\ m \notin X
    BY FS_Interval
  <2> QED
    BY <2>1, FS_Subset, FS_CardinalityType
<1>2. Cardinality(X \cup {m}) = Cardinality(X) + 1
  BY <1>1, FS_AddElement
<1>3. RankIn(X \cup {m}, m) = Cardinality(X) + 1
  <2>0. \A j \in X \cup {m} : j <= m
    OBVIOUS
  <2>1. {j \in X \cup {m} : j <= m} = X \cup {m}
    BY <2>0
  <2> QED
    BY <1>2, <2>1 DEF RankIn
<1>4. ASSUME NEW k \in X
      PROVE  /\ RankIn(X \cup {m}, k) = RankIn(X, k)
             /\ RankIn(X, k) \in 1 .. Cardinality(X)
  <2> DEFINE before == {j \in X : j <= k}
  <2>1. {j \in X \cup {m} : j <= k} = before
    OBVIOUS
  <2>2. before \in SUBSET X /\ k \in before
    OBVIOUS
  <2> HIDE DEF before
  <2>3. /\ IsFiniteSet(before) /\ Cardinality(before) <= Cardinality(X)
        /\ before # {}
    BY <1>1, <2>2, FS_Subset
  <2>4. Cardinality(before) \in Nat /\ Cardinality(before) # 0
    BY <2>3, FS_CardinalityType, FS_EmptySet
  <2>5. /\ RankIn(X \cup {m}, k) = Cardinality(before)
        /\ RankIn(X, k) = Cardinality(before)
    BY <2>1 DEF before, RankIn
  <2> QED
    BY <1>1, <2>3, <2>4, <2>5
<1> QED
  BY <1>1, <1>2, <1>3, <1>4

(* The property, with the cardinality of the theorems on finite sets. *)
AddUp ==
  /\ Len(result) = Cardinality(M!Visited)
  /\ \A k \in M!Visited : M!PaidRight(result[RankIn(M!Visited, k)], extra[k])

PaidInv ==
  /\ IsPaidBlock(extra, input)
  /\ at \in 1 .. Len(extra) + 1
  /\ result \in Seq({M!Payment(extra[k]) : k \in DOMAIN extra})
  /\ AddUp

LEMMA CardinalityIsOne == ASSUME NEW X PROVE M!Cardinality(X) = Cardinality(X)
BY DEF M!Cardinality, Cardinality

LEMMA AddUpIsTheProperty == ASSUME AddUp PROVE M!PaymentsAddUp
BY CardinalityIsOne DEF AddUp, RankIn, M!PaymentsAddUp, M!Rank

LEMMA PaymentsBegin == ASSUME M!Init PROVE PaidInv
<1>1. IsPaidBlock(extra, input) /\ at = 1 /\ result = <<>>
  BY PaymentsAssumption DEF M!Init, BlocksArePaid
<1>2. M!Visited = {}
  <2>1. 1 .. at - 1 = {}
    BY <1>1
  <2> QED
    BY <2>1 DEF M!Visited
<1>3. AddUp
  <2>1. Len(result) = 0 /\ Cardinality(M!Visited) = 0
    BY <1>1, <1>2, FS_EmptySet
  <2> QED
    BY <1>2, <2>1 DEF AddUp
<1> QED
  BY <1>1, <1>3 DEF PaidInv, IsPaidBlock

(* The first trace of a transaction is the transaction itself. *)
LEMMA FirstIsTheRoot ==
  ASSUME IsPaidBlock(extra, input), NEW tx, M!Of(tx) # {}
  PROVE  M!First(tx) \in M!Of(tx) /\ input[M!First(tx)].address = <<>>
<1>1. PICK r \in M!Of(tx) : input[r].address = <<>>
  BY DEF IsPaidBlock, M!Of
<1>2. \A i \in M!Of(tx) : input[i].address \in Seq(Nat)
  BY DEF IsPaidBlock, M!Of
<1>3. \A j \in M!Of(tx) : r = j \/ M!AddressBefore(input[r].address, input[j].address)
  <2> SUFFICES ASSUME NEW j \in M!Of(tx), r # j
               PROVE  M!AddressBefore(input[r].address, input[j].address)
    OBVIOUS
  <2>1. input[j].address # <<>>
    BY <1>1 DEF IsPaidBlock, M!Of
  <2>2. Len(input[j].address) > 0 /\ Len(input[r].address) = 0
    BY <1>1, <1>2, <2>1
  <2>3. SubSeq(input[j].address, 1, 0) = <<>>
    BY <1>2
  <2> QED
    BY <1>1, <2>2, <2>3 DEF M!AddressBefore, M!IsChildTraceAddress
<1>4. M!First(tx) \in M!Of(tx)
      /\ \A j \in M!Of(tx) :
           M!First(tx) = j \/ M!AddressBefore(input[M!First(tx)].address, input[j].address)
  BY <1>3 DEF M!First
<1>5. ~M!AddressBefore(input[M!First(tx)].address, <<>>)
  <2>1. Len(<<>>) = 0 /\ Len(input[M!First(tx)].address) \in Nat
    BY <1>2, <1>4
  <2> QED
    BY <2>1 DEF M!AddressBefore, M!IsChildTraceAddress
<1> QED
  BY <1>1, <1>4, <1>5

(* The transfers that pay the miner are all that she gains, or would. *)
LEMMA TransfersAreTheGain ==
  ASSUME IsPaidBlock(extra, input), NEW tx
  PROVE  /\ M!Received(input, M!MinerEthTransfers(tx), {Miner}) \in Nat
         /\ M!PaysPlainly(tx) =>
              M!Received(input, M!MinerEthTransfers(tx), {Miner})
                = M!Gain(input, M!Of(tx) \ M!Undone(tx), {Miner})
                    + M!Gain(input, M!Undone(tx), {Miner})
<1> DEFINE paid == M!MinerEthTransfers(tx)
           into == Into(input, M!Of(tx), {Miner})
           nothing == into \ paid
<1>1. /\ Into(input, paid, {Miner}) = paid /\ paid \cup nothing = into
      /\ M!PaysPlainly(tx) => OutOf(input, M!Of(tx), {Miner}) = {}
  BY DEF Into, OutOf, M!MinerEthTransfers, M!PaysPlainly
<1>2. /\ IsFiniteSet(paid) /\ IsFiniteSet(nothing) /\ AreAmounts(input, into)
      /\ IsFiniteSet(M!Of(tx)) /\ AreAmounts(input, M!Of(tx))
  <2>1. IsFiniteSet(DOMAIN input)
    BY FS_Interval DEF IsPaidBlock
  <2>2. /\ paid \in SUBSET DOMAIN input /\ into \in SUBSET DOMAIN input
        /\ M!Of(tx) \in SUBSET DOMAIN input
    BY DEF M!MinerEthTransfers, M!Of, Into
  <2>3. IsFiniteSet(paid) /\ IsFiniteSet(into) /\ IsFiniteSet(M!Of(tx))
    <3> HIDE DEF paid, into
    <3> QED
      BY <2>1, <2>2, FS_Subset
  <2>4. IsFiniteSet(nothing)
    <3> HIDE DEF paid, into
    <3> QED
      BY <2>3, FS_Difference
  <2>5. AreAmounts(input, into) /\ AreAmounts(input, M!Of(tx))
    <3> HIDE DEF paid, into
    <3> QED
      BY <2>2 DEF IsPaidBlock, AreAmounts
  <2> QED
    BY <2>3, <2>4, <2>5
<1>3. ASSUME M!PaysPlainly(tx)
      PROVE  Amounts(input, nothing) = 0
  <2>1. \A i \in nothing : input[i].amount = 0
    BY <1>3 DEF Into, M!MinerEthTransfers, M!PaysPlainly, M!Of, IsPaidBlock
  <2> QED
    BY <1>2, <2>1, AmountsOfZeros
<1>4. Amounts(input, into) = Amounts(input, paid) + Amounts(input, nothing)
  <2>1. paid \cap nothing = {}
    OBVIOUS
  <2> QED
    BY <1>1, <1>2, <2>1, AmountsApart
<1>5. Amounts(input, paid) \in Nat
  <2>1. \A i \in paid : input[i].amount \in Nat
    BY DEF M!MinerEthTransfers, M!Of, IsPaidBlock
  <2> HIDE DEF paid
  <2> QED
    BY <1>2, <2>1, AmountsAreNatural
<1>6. ASSUME M!PaysPlainly(tx)
      PROVE  Gained(input, M!Of(tx), {Miner}) = Amounts(input, into) - 0
  <2>1. Gained(input, M!Of(tx), {Miner}) = Amounts(input, into) - Amounts(input, {})
    BY <1>1, <1>6 DEF Gained
  <2> QED
    BY <2>1, AmountsOfNone
<1>7. M!Received(input, paid, {Miner}) = Amounts(input, paid)
  BY <1>1, MovesAreAmounts
<1>8. Gained(input, M!Of(tx), {Miner})
        = M!Gain(input, M!Of(tx) \ M!Undone(tx), {Miner})
            + M!Gain(input, M!Undone(tx), {Miner})
  <2>1. M!Undone(tx) \in SUBSET M!Of(tx)
    BY DEF M!Undone
  <2> QED
    BY <1>2, <2>1, GainsApart, GainsAreAmounts
<1> HIDE DEF paid, into, nothing
<1> QED
  BY <1>3, <1>4, <1>5, <1>6, <1>7, <1>8 DEF paid

(* A price of p for each of g units, and c over them. *)
LEMMA PriceOfAll ==
  ASSUME NEW p \in Nat, NEW g \in Nat, g # 0, NEW c \in Nat,
         NEW q, q = (p * g + c) \div g
  PROVE  (q - p) * g <= c /\ c < (q - p + 1) * g
<1>1. p * g \in Nat /\ p * g + c \in Nat
  OBVIOUS
<1>2. q \in Int /\ q * g <= p * g + c /\ p * g + c < q * g + g
  <2> DEFINE n == p * g + c
  <2>1. n \in Int /\ g \in Int /\ g > 0
    BY <1>1
  <2> HIDE DEF n
  <2>2. n \div g \in Int /\ (n \div g) * g <= n /\ n < (n \div g) * g + g
    BY <2>1
  <2> QED
    BY <2>2 DEF n
<1>3. (q - p) * g = q * g - p * g /\ (q - p + 1) * g = q * g - p * g + g
  BY <1>2
<1>4. q * g \in Int
  BY <1>2
<1> QED
  BY <1>1, <1>2, <1>3, <1>4

LEMMA PaymentIsRight ==
  ASSUME PaidInv, NEW k \in DOMAIN extra, M!Of(extra[k].tx) # {}
  PROVE  M!PaidRight(M!Payment(extra[k]), extra[k])
<1> DEFINE tx == extra[k].tx
           coinbase == M!Received(input, M!MinerEthTransfers(tx), {Miner})
           price == M!PriceWithCoinbase(extra[k], coinbase)
<1>1. M!Payment(extra[k]) =
        [tx |-> tx, coinbase |-> coinbase, priceWithCoinbase |-> price,
         from |-> input[M!First(tx)].from, to |-> input[M!First(tx)].to]
  BY DEF M!Payment
<1>2. M!First(tx) \in M!Of(tx) /\ input[M!First(tx)].address = <<>>
  BY FirstIsTheRoot DEF PaidInv
<1>3. /\ coinbase \in Nat
      /\ M!PaysPlainly(tx) =>
           coinbase = M!Gain(input, M!Of(tx) \ M!Undone(tx), {Miner})
                        + M!Gain(input, M!Undone(tx), {Miner})
  BY TransfersAreTheGain DEF PaidInv
<1> HIDE DEF coinbase
<1>4. IF extra[k].gas = 0 THEN price = 0
      ELSE /\ (price - extra[k].price) * extra[k].gas <= coinbase
           /\ coinbase < (price - extra[k].price + 1) * extra[k].gas
  <2>1. extra[k].gas \in Nat /\ extra[k].price \in Nat
    BY DEF PaidInv, IsPaidBlock
  <2> QED
    BY <1>3, <2>1, PriceOfAll DEF M!PriceWithCoinbase
<1> HIDE DEF price
<1> QED
  BY <1>1, <1>2, <1>3, <1>4 DEF M!PaidRight, M!Extra

LEMMA PaymentsGoOn ==
  ASSUME PaidInv, [M!Next]_M!vars
  PROVE  PaidInv'
<1>1. /\ IsPaidBlock(extra, input) /\ at \in 1 .. Len(extra) + 1 /\ Len(extra) \in Nat
      /\ M!Visited \in SUBSET (1 .. at - 1)
      /\ IsFiniteSet(M!Visited) /\ Cardinality(M!Visited) \in Nat
  <2>1. M!Visited \in SUBSET (1 .. at - 1)
    BY DEF M!Visited
  <2>2. IsFiniteSet(1 .. at - 1)
    BY FS_Interval DEF PaidInv
  <2>3. IsFiniteSet(M!Visited)
    BY <2>1, <2>2, FS_Subset
  <2> QED
    BY <2>1, <2>3, FS_CardinalityType DEF PaidInv, IsPaidBlock
<1>2. ASSUME UNCHANGED <<input, extra>>
      PROVE  /\ \A tx : M!Of(tx)' = M!Of(tx) /\ M!PaysPlainly(tx)' = M!PaysPlainly(tx)
             /\ \A r : M!Payment(r)' = M!Payment(r)
             /\ \A p, r : M!PaidRight(p, r)' = M!PaidRight(p, r)
  <2>1. \A tx : M!Of(tx)' = M!Of(tx)
    BY <1>2 DEF M!Of
  <2>2. /\ \A tx : M!PaysPlainly(tx)' = M!PaysPlainly(tx)
        /\ \A tx : M!First(tx)' = M!First(tx)
        /\ \A tx : M!MinerEthTransfers(tx)' = M!MinerEthTransfers(tx)
    BY <1>2, <2>1 DEF M!PaysPlainly, M!First, M!MinerEthTransfers
  <2>3. /\ \A tx : M!Received(input, M!MinerEthTransfers(tx), {Miner})'
                     = M!Received(input, M!MinerEthTransfers(tx), {Miner})
        /\ \A tx : M!Undone(tx)' = M!Undone(tx)
        /\ \A tx : M!Gain(input, M!Of(tx) \ M!Undone(tx), {Miner})'
                     = M!Gain(input, M!Of(tx) \ M!Undone(tx), {Miner})
        /\ \A tx : M!Gain(input, M!Undone(tx), {Miner})'
                     = M!Gain(input, M!Undone(tx), {Miner})
    <3>1. \A tx : M!Undone(tx)' = M!Undone(tx)
      BY <1>2, <2>1 DEF M!Undone
    <3> QED
      BY <1>2, <2>1, <2>2, <3>1, MovesAreAmounts, GainsAreAmounts
  <2>4. \A r : M!Payment(r)' = M!Payment(r)
    BY <1>2, <2>2, <2>3 DEF M!Payment, M!PriceWithCoinbase
  <2>5. \A p, r : M!PaidRight(p, r)' = M!PaidRight(p, r)
    BY <1>2, <2>1, <2>2, <2>3 DEF M!PaidRight, M!Extra
  <2> QED
    BY <2>1, <2>2, <2>4, <2>5
<1>3. CASE M!Pay
  <2>1. /\ UNCHANGED <<input, extra>> /\ at \in DOMAIN extra /\ at' = at + 1
        /\ M!Of(extra[at].tx) # {} /\ result' = Append(result, M!Payment(extra[at]))
    BY <1>3 DEF M!Pay, M!Visit
  <2>2. M!Visited' = M!Visited \cup {at} /\ at \notin M!Visited
    <3>1. 1 .. at' - 1 = (1 .. at - 1) \cup {at} /\ at \notin 1 .. at - 1
      BY <1>1, <2>1
    <3> QED
      BY <1>2, <2>1, <3>1 DEF M!Visited
  <2> DEFINE Payments == {M!Payment(extra[k]) : k \in DOMAIN extra}
  <2>3. /\ result \in Seq(Payments) /\ M!Payment(extra[at]) \in Payments
        /\ Len(result) = Cardinality(M!Visited)
    <3>1. result \in Seq(Payments) /\ Len(result) = Cardinality(M!Visited)
      BY DEF PaidInv, AddUp
    <3>2. M!Payment(extra[at]) \in Payments
      BY <2>1
    <3> QED
      BY <3>1, <3>2
  <2>4. /\ Len(result') = Len(result) + 1 /\ result' \in Seq(Payments)
        /\ \A k \in 1 .. Len(result) : result'[k] = result[k]
        /\ result'[Len(result) + 1] = M!Payment(extra[at])
    <3> HIDE DEF Payments
    <3> QED
      BY <2>1, <2>3
  <2>5. /\ Len(result') = Cardinality(M!Visited')
        /\ RankIn(M!Visited', at) = Len(result) + 1
        /\ \A k \in M!Visited : /\ RankIn(M!Visited', k) = RankIn(M!Visited, k)
                                /\ RankIn(M!Visited, k) \in 1 .. Len(result)
    <3>1. at \in Nat \ {0}
      BY <1>1
    <3>2. /\ Cardinality(M!Visited \cup {at}) = Cardinality(M!Visited) + 1
          /\ RankIn(M!Visited \cup {at}, at) = Cardinality(M!Visited) + 1
          /\ \A k \in M!Visited : /\ RankIn(M!Visited \cup {at}, k) = RankIn(M!Visited, k)
                                  /\ RankIn(M!Visited, k) \in 1 .. Cardinality(M!Visited)
      BY <1>1, <3>1, RankOfOneMore
    <3> HIDE DEF Payments
    <3> QED
      BY <2>2, <2>3, <2>4, <3>2
  <2>8. AddUp'
    <3>1. \A k \in M!Visited : M!PaidRight(result[RankIn(M!Visited, k)], extra[k])
      BY DEF PaidInv, AddUp
    <3>2. \A k \in M!Visited : M!PaidRight(result'[RankIn(M!Visited', k)], extra[k])
      BY <2>4, <2>5, <3>1
    <3>3. M!PaidRight(result'[RankIn(M!Visited', at)], extra[at])
      BY <2>1, <2>4, <2>5, PaymentIsRight
    <3>4. \A k \in M!Visited' : M!PaidRight(result'[RankIn(M!Visited', k)], extra[k])
      BY <2>2, <3>2, <3>3
    <3> QED
      BY <1>2, <2>1, <2>5, <3>4 DEF AddUp
  <2>9. at' \in 1 .. Len(extra) + 1
    BY <1>1, <2>1 DEF IsPaidBlock
  <2>10. Payments' = Payments
    BY <1>2, <2>1
  <2> QED
    BY <1>1, <2>1, <2>4, <2>8, <2>9, <2>10 DEF PaidInv, IsPaidBlock
<1>4. CASE M!PassOver
  <2>1. /\ UNCHANGED <<input, extra, result>> /\ at \in DOMAIN extra /\ at' = at + 1
        /\ M!Of(extra[at].tx) = {}
    BY <1>4 DEF M!PassOver, M!Visit
  <2>2. M!Visited' = M!Visited
    <3>1. 1 .. at' - 1 = (1 .. at - 1) \cup {at}
      BY <1>1, <2>1
    <3> QED
      BY <1>2, <2>1, <3>1 DEF M!Visited
  <2>3. AddUp'
    BY <1>2, <2>1, <2>2 DEF PaidInv, AddUp
  <2>4. at' \in 1 .. Len(extra) + 1
    BY <1>1, <2>1 DEF IsPaidBlock
  <2> QED
    BY <1>1, <1>2, <2>1, <2>3, <2>4 DEF PaidInv, IsPaidBlock
<1>5. CASE UNCHANGED M!vars
  <2>1. UNCHANGED <<input, extra, result, at>>
    BY <1>5 DEF M!vars
  <2>2. M!Visited' = M!Visited
    BY <1>2, <2>1 DEF M!Visited
  <2>3. AddUp'
    BY <1>2, <2>1, <2>2 DEF PaidInv, AddUp
  <2> QED
    BY <1>1, <1>2, <2>1, <2>3 DEF PaidInv, IsPaidBlock
<1> QED
  BY <1>3, <1>4, <1>5 DEF M!Next

(***************************************************************************)
(* In every block get_miner_payments pays each receipt with traces once,   *)
(* in order, with all the miner gained by simple transfers and what was    *)
(* undone of them, and with the price that makes of it.                    *)
(***************************************************************************)
THEOREM MinerPaymentsAddUp == Spec => []PaymentsAddUp
<1> DEFINE Inv == algorithm = "miner payments" => PaidInv
<1>1. Init => Inv
  BY OneBegins, PaymentsBegin
<1>2. Inv /\ [Next]_variables => Inv'
  <2> SUFFICES ASSUME Inv, [Next]_variables, algorithm' = "miner payments"
               PROVE  PaidInv'
    OBVIOUS
  <2>1. algorithm = "miner payments" /\ PaidInv
    BY OneGoesOn
  <2>2. [M!Next]_M!vars
    BY <2>1, OneGoesOn DEF variables, M!vars
  <2> QED
    BY <2>1, <2>2, PaymentsGoOn
<1>3. Inv => PaymentsAddUp
  BY AddUpIsTheProperty DEF PaymentsAddUp, PaidInv
<1> QED
  BY <1>1, <1>2, <1>3, PTL DEF Spec
-----------------------------------------------------------------------------
(* NFT trades: input is trace, and result is trades.                       *)

SalesAreKnown ==
  /\ Len(input) \in Nat
  /\ \A i \in N!Places : input[i].address \in Seq(Nat) /\ input[i].amount \in Nat

SaleInv ==
  /\ SalesAreKnown
  /\ at \in Nat \ {0}
  /\ \A w \in result : \E m \in N!Places : w \in N!CreateNftTrade(m, N!ChildTransfers(m))

LEMMA SalesBegin == ASSUME N!Init PROVE SaleInv
BY SalesAssumption DEF N!Init, SalesAreTransactions, SaleInv, SalesAreKnown, N!Places

LEMMA SalesGoOn ==
  ASSUME SaleInv, [N!Next]_N!vars
  PROVE  SaleInv'
<1>1. input' = input
  BY DEF N!Next, N!VisitMatch, N!VisitOther, N!Visit, N!vars
<1>2. /\ N!Places' = N!Places /\ SalesAreKnown' = SalesAreKnown
      /\ \A m, X : N!CreateNftTrade(m, X)' = N!CreateNftTrade(m, X)
      /\ \A m : N!ChildTransfers(m)' = N!ChildTransfers(m)
  <2>1. N!Places' = N!Places
    BY <1>1 DEF N!Places
  <2>2. /\ \A m, X : N!Fees(m, X)' = N!Fees(m, X)
        /\ \A X, from, to : N!FilterTransfers(X, from, to)' = N!FilterTransfers(X, from, to)
        /\ N!Anybody' = N!Anybody
    BY <1>1, <2>1 DEF N!Fees, N!FilterTransfers, N!Anybody
  <2>3. \A m, X, p : N!PaymentAmount(m, X, p)' = N!PaymentAmount(m, X, p)
    BY <1>1, <2>2 DEF N!PaymentAmount, N!MapThenSumSet, N!MapThenFoldSet
  <2>4. \A m : N!ChildTransfers(m)' = N!ChildTransfers(m)
    BY <1>1, <2>1 DEF N!ChildTransfers, N!IsBelow
  <2>5. \A m, X : N!CreateNftTrade(m, X)' = N!CreateNftTrade(m, X)
    BY <1>1, <2>1, <2>2, <2>3 DEF N!CreateNftTrade
  <2>6. SalesAreKnown' = SalesAreKnown
    BY <1>1, <2>1 DEF SalesAreKnown
  <2> QED
    BY <2>1, <2>4, <2>5, <2>6
<1>3. at' \in Nat \ {0}
  BY DEF SaleInv, N!Next, N!VisitMatch, N!VisitOther, N!Visit, N!vars
<1>4. \A w \in result' : \E m \in N!Places : w \in N!CreateNftTrade(m, N!ChildTransfers(m))
  BY DEF SaleInv, N!Next, N!VisitMatch, N!VisitOther, N!Visit, N!vars
<1> QED
  BY <1>2, <1>3, <1>4 DEF SaleInv

(* The transfers that the code takes are the outermost ones. *)
LEMMA ChildrenAreOuter ==
  ASSUME SalesAreKnown, NEW m \in N!Places
  PROVE  N!ChildTransfers(m) = N!Outer(m)
<1>1. \A i, p \in N!Places : N!IsBelow(i, p) <=> N!CalledBy(input[i], input[p])
  <2> SUFFICES ASSUME NEW i \in N!Places, NEW p \in N!Places
               PROVE  N!IsBelow(i, p) <=> N!CalledBy(input[i], input[p])
    OBVIOUS
  <2>1. input[i].address \in Seq(Nat) /\ input[p].address \in Seq(Nat)
    BY DEF SalesAreKnown
  <2>2. N!IsChildTraceAddress(input[i].address, input[p].address)
          <=> IsUnder(input[i].address, input[p].address)
    BY <2>1, ChildIsUnder DEF N!IsChildTraceAddress, L!IsChildTraceAddress
  <2>3. (\E n \in 0 .. Len(input[i].address) - 1 :
           input[p].address = SubSeq(input[i].address, 1, n))
          <=> IsUnder(input[i].address, input[p].address)
    BY <2>1, AncestorIsAbove
  <2> QED
    BY <2>2, <2>3 DEF N!IsBelow, N!IsChildTrace, N!CalledBy
<1> QED
  BY <1>1 DEF N!ChildTransfers, N!Outer

(* The one element of a set of places. *)
LEMMA OnlyPlace ==
  ASSUME SalesAreKnown, NEW X \in SUBSET N!Places, N!Cardinality(X) = 1
  PROVE  X = {N!Max(X)}
<1>1. IsFiniteSet(X)
  <2>1. IsFiniteSet(N!Places)
    BY FS_Interval DEF SalesAreKnown, N!Places
  <2> QED
    BY <2>1, FS_Subset
<1>2. Cardinality(X) = 1
  BY DEF N!Cardinality, Cardinality
<1>3. PICK x : X = {x}
  BY <1>1, <1>2, FS_Singleton
<1>4. x \in Nat
  BY <1>3 DEF N!Places, SalesAreKnown
<1>5. \E y \in X : \A z \in X : y >= z
  BY <1>3, <1>4
<1>6. N!Max(X) \in X
  BY <1>5 DEF N!Max
<1> QED
  BY <1>3, <1>6

LEMMA PriceOfTheSale ==
  ASSUME SalesAreKnown, NEW m \in N!Places,
         NEW w \in N!CreateNftTrade(m, N!ChildTransfers(m)),
         N!PaysFeesOnly(w), input[m].buyer \notin {input[m].seller, ExchangeWallet}
  PROVE  w.match = m /\
         w.amount = N!Gain(input, N!In(w.currency, m) \ {w.token}, {input[m].seller})
                      - N!Spent(input, N!BuyersFees(w), {input[m].buyer})
<1> DEFINE O == N!Outer(m)
           buyer == input[m].buyer
           seller == input[m].seller
           toBuyer == N!FilterTransfers(O, N!Anybody, {buyer})
           toSeller == N!FilterTransfers(O, N!Anybody, {seller})
           token == N!Max(toBuyer)
           payment == N!Max(toSeller)
           feesOfSeller == {i \in O : input[i].from = seller /\ input[i].to = ExchangeWallet}
           feesOfBuyer == {i \in O : input[i].from = buyer /\ input[i].to = ExchangeWallet}
           X == N!In(w.currency, m) \ {w.token}
<1>1. /\ O \in SUBSET N!Places
      /\ toBuyer = {i \in O : input[i].to = buyer}
      /\ toSeller = {i \in O : input[i].to = seller}
      /\ N!Fees(m, O) = feesOfSeller \cup feesOfBuyer
  <2>1. O \in SUBSET N!Places
    BY DEF N!Outer
  <2>2. \A i \in O : input[i].from \in N!Anybody
    BY <2>1 DEF N!Anybody
  <2> HIDE DEF O
  <2> QED
    BY <2>1, <2>2 DEF N!FilterTransfers, N!Fees
<1>2. N!ChildTransfers(m) = O
  BY ChildrenAreOuter
<1>3. /\ N!Cardinality(toBuyer) = 1 /\ N!Cardinality(toSeller) = 1
      /\ w = [match |-> m, token |-> token, currency |-> input[payment].token,
              amount |-> N!PaymentAmount(m, O, payment)]
  <2> HIDE DEF O
  <2> QED
    BY <1>2 DEF N!CreateNftTrade
<1>4. /\ toBuyer = {token} /\ toSeller = {payment}
  BY <1>1, <1>3, OnlyPlace
<1>5. /\ w.match = m /\ w.token = token /\ w.currency = input[payment].token
      /\ w.amount = N!PaymentAmount(m, O, payment)
  BY <1>3
<1> HIDE DEF O, toBuyer, toSeller, token, payment
<1>6. /\ token \in O /\ input[token].to = buyer
      /\ payment \in O /\ input[payment].to = seller /\ payment # token
      /\ \A i \in O : input[i].to = seller => i = payment
  BY <1>1, <1>4
<1>7. \A i \in O \ {token} : input[i].from = seller
        => input[i].to = ExchangeWallet /\ input[i].token = input[payment].token
  BY <1>5 DEF N!PaysFeesOnly, O
<1>8. X = {i \in O : input[i].token = input[payment].token /\ i # token}
  BY <1>5 DEF N!In, O
<1>9. Into(input, X, {seller}) = {payment}
  BY <1>6, <1>8 DEF Into
<1>10. OutOf(input, X, {seller}) = feesOfSeller
  BY <1>6, <1>7, <1>8 DEF OutOf
<1>11. /\ N!BuyersFees(w) = feesOfBuyer
       /\ OutOf(input, feesOfBuyer, {buyer}) = feesOfBuyer
  BY <1>5 DEF N!BuyersFees, OutOf, O
<1>12. /\ IsFiniteSet(feesOfSeller) /\ IsFiniteSet(feesOfBuyer)
       /\ feesOfSeller \cap feesOfBuyer = {}
       /\ AreAmounts(input, feesOfSeller \cup feesOfBuyer)
       /\ AreAmounts(input, feesOfSeller) /\ AreAmounts(input, feesOfBuyer)
  <2>1. feesOfSeller \in SUBSET N!Places /\ feesOfBuyer \in SUBSET N!Places
    BY <1>1
  <2>2. IsFiniteSet(N!Places)
    BY FS_Interval DEF SalesAreKnown, N!Places
  <2>3. feesOfSeller \cap feesOfBuyer = {}
    OBVIOUS
  <2> HIDE DEF feesOfSeller, feesOfBuyer
  <2>4. IsFiniteSet(feesOfSeller) /\ IsFiniteSet(feesOfBuyer)
    BY <2>1, <2>2, FS_Subset
  <2>5. \A i \in N!Places : input[i].amount \in Int
    BY DEF SalesAreKnown
  <2> QED
    BY <2>1, <2>3, <2>4, <2>5 DEF AreAmounts
<1> HIDE DEF feesOfSeller, feesOfBuyer, X, buyer, seller
<1>13. /\ Amounts(input, feesOfSeller \cup feesOfBuyer)
            = Amounts(input, feesOfSeller) + Amounts(input, feesOfBuyer)
       /\ Amounts(input, feesOfSeller) \in Int /\ Amounts(input, feesOfBuyer) \in Int
  BY <1>12, AmountsApart, AmountsAreIntegers
<1>14. Amounts(input, {payment}) = input[payment].amount /\ input[payment].amount \in Int
  <2>1. input[payment].amount \in Int
    BY <1>1, <1>6 DEF SalesAreKnown
  <2>2. Amounts(input, {} \cup {payment}) = Amounts(input, {}) + input[payment].amount
    BY <2>1, FS_EmptySet, AmountsWithOne DEF AreAmounts
  <2>3. {} \cup {payment} = {payment}
    OBVIOUS
  <2> QED
    BY <2>1, <2>2, <2>3, AmountsOfNone
<1>15. N!PaymentAmount(m, O, payment)
         = input[payment].amount - Amounts(input, feesOfSeller \cup feesOfBuyer)
  BY <1>1 DEF N!PaymentAmount, Amounts, N!MapThenSumSet, N!MapThenFoldSet,
              M!MapThenSumSet, M!MapThenFoldSet
<1>16. /\ N!Gain(input, X, {seller}) = input[payment].amount - Amounts(input, feesOfSeller)
       /\ N!Spent(input, N!BuyersFees(w), {buyer}) = Amounts(input, feesOfBuyer)
  <2>1. N!Gain(input, X, {seller}) = Gained(input, X, {seller})
    BY GainsAreAmounts
  <2>2. Gained(input, X, {seller}) = input[payment].amount - Amounts(input, feesOfSeller)
    BY <1>9, <1>10, <1>14 DEF Gained
  <2>3. N!Spent(input, feesOfBuyer, {buyer})
          = Amounts(input, OutOf(input, feesOfBuyer, {buyer}))
    BY MovesAreAmounts
  <2> QED
    BY <1>11, <2>1, <2>2, <2>3
<1>17. w.amount = N!Gain(input, X, {seller}) - N!Spent(input, N!BuyersFees(w), {buyer})
  BY <1>5, <1>13, <1>14, <1>15, <1>16
<1> QED
  BY <1>5, <1>17 DEF X, seller, buyer

(***************************************************************************)
(* In every transaction the price of a sale that get_nft_trades reports is *)
(* what the sale leaves the seller with, less the buyer's fees.            *)
(***************************************************************************)
THEOREM PricesAreProceeds == Spec => []PriceIsProceeds
<1> DEFINE Inv == algorithm = "nft trades" => SaleInv
<1>1. Init => Inv
  BY OneBegins, SalesBegin
<1>2. Inv /\ [Next]_variables => Inv'
  <2> SUFFICES ASSUME Inv, [Next]_variables, algorithm' = "nft trades"
               PROVE  SaleInv'
    OBVIOUS
  <2>1. algorithm = "nft trades" /\ SaleInv
    BY OneGoesOn
  <2>2. [N!Next]_N!vars
    BY <2>1, OneGoesOn DEF variables, N!vars
  <2> QED
    BY <2>1, <2>2, SalesGoOn
<1>3. Inv => PriceIsProceeds
  <2> SUFFICES ASSUME SaleInv, NEW w \in result, N!PaysFeesOnly(w),
                      input[w.match].buyer \notin {input[w.match].seller, ExchangeWallet}
               PROVE  w.amount = N!Gain(input, N!In(w.currency, w.match) \ {w.token},
                                        {input[w.match].seller})
                        - N!Spent(input, N!BuyersFees(w), {input[w.match].buyer})
    BY DEF PriceIsProceeds, N!PriceIsProceeds
  <2>1. PICK m \in N!Places : w \in N!CreateNftTrade(m, N!ChildTransfers(m))
    BY DEF SaleInv
  <2>2. w.match = m
    BY <2>1 DEF N!CreateNftTrade
  <2> QED
    BY <2>1, <2>2, PriceOfTheSale DEF SaleInv
<1> QED
  BY <1>1, <1>2, <1>3, PTL DEF Spec
-----------------------------------------------------------------------------
(* Arbitrages: input is swap, memo is used, and extra is found.            *)

(* The loop over the next swaps, up to the k-th. *)
IsBest(search, call, max, k, best) ==
  best = [n \in 0 .. k |->
            IF n = 0 THEN A!NoRoute ELSE A!TryNext(search, call, max, best[n - 1], n)]

LEMMA BestExists ==
  ASSUME NEW search, NEW call, NEW max, NEW k \in Nat
  PROVE  \E best : IsBest(search, call, max, k, best)
<1> DEFINE Y == {n \in Nat : \E best : IsBest(search, call, max, n, best)}
<1>1. 0 \in Y
  <2> DEFINE best == [n \in 0 .. 0 |-> A!NoRoute]
  <2>1. IsBest(search, call, max, 0, best)
    BY DEF IsBest
  <2> QED
    BY <2>1
<1>2. ASSUME NEW n \in Nat, n \in Y
      PROVE  n + 1 \in Y
  <2>1. PICK before : IsBest(search, call, max, n, before)
    BY <1>2
  <2> DEFINE best == [i \in 0 .. n + 1 |->
                        IF i = n + 1 THEN A!TryNext(search, call, max, before[n], n + 1)
                                     ELSE before[i]]
  <2>2. ASSUME NEW i \in 0 .. n + 1
        PROVE  best[i] = IF i = 0 THEN A!NoRoute
                         ELSE A!TryNext(search, call, max, best[i - 1], i)
    <3>1. CASE i = n + 1
      <4>1. best[i] = A!TryNext(search, call, max, before[n], n + 1)
        BY <3>1
      <4>2. best[i - 1] = before[n]
        BY <3>1
      <4> QED
        BY <3>1, <4>1, <4>2
    <3>2. CASE i # n + 1
      <4>1. i \in 0 .. n /\ best[i] = before[i] /\ (i # 0 => best[i - 1] = before[i - 1])
        BY <3>2
      <4>2. before[i] = IF i = 0 THEN A!NoRoute
                        ELSE A!TryNext(search, call, max, before[i - 1], i)
        <5> HIDE DEF best
        <5> QED
          BY <2>1, <4>1 DEF IsBest
      <4> HIDE DEF best
      <4> QED
        BY <4>1, <4>2
    <3> QED
      BY <3>1, <3>2
  <2>3. best = [i \in 0 .. n + 1 |-> best[i]]
    OBVIOUS
  <2>4. IsBest(search, call, max, n + 1, best)
    <3> HIDE DEF best
    <3> QED
      BY <2>2, <2>3 DEF IsBest
  <2> HIDE DEF best
  <2> QED
    BY <2>4
<1> HIDE DEF Y
<1>3. Nat \subseteq Y
  BY <1>1, <1>2, NatSetInduction
<1> QED
  BY <1>3 DEF Y

LEMMA RestIsTheBest ==
  ASSUME Len(input) \in Nat, NEW search, NEW call, NEW max
  PROVE  \E best : /\ IsBest(search, call, max, Len(input), best)
                   /\ A!ShortestRest(search, call, max) = best[Len(input)]
<1>1. A!ShortestRest(search, call, max)
        = (CHOOSE best : IsBest(search, call, max, Len(input), best))[Len(input)]
  BY DEF A!ShortestRest, IsBest
<1> QED
  BY <1>1, BestExists

(* What each step of the loop does. *)
LEMMA BestByStep ==
  ASSUME NEW search, NEW call, NEW max, NEW k \in Nat, NEW best,
         IsBest(search, call, max, k, best)
  PROVE  /\ best[0] = A!NoRoute
         /\ \A n \in 1 .. k : best[n] = A!TryNext(search, call, max, best[n - 1], n)
BY DEF IsBest

(* Searches that answer alike what the loop asks have the same best. *)
LEMMA BestsAgree ==
  ASSUME NEW search, NEW other, NEW call, NEW max, NEW k \in Nat,
         NEW best, IsBest(search, call, max, k, best),
         NEW third, IsBest(other, call, max, k, third),
         \A n \in 1 .. k : A!TryNext(other, call, max, best[n - 1], n)
                             = A!TryNext(search, call, max, best[n - 1], n)
  PROVE  best[k] = third[k]
<1> DEFINE Y == {n \in Nat : n <= k => best[n] = third[n]}
<1>1. 0 \in Y
  BY BestByStep
<1>2. ASSUME NEW n \in Nat, n \in Y
      PROVE  n + 1 \in Y
  <2> SUFFICES ASSUME n + 1 <= k
               PROVE  best[n + 1] = third[n + 1]
    OBVIOUS
  <2>1. n + 1 \in 1 .. k /\ (n + 1) - 1 = n /\ best[n] = third[n]
    BY <1>2
  <2>4. \A i \in 1 .. k : best[i] = A!TryNext(search, call, max, best[i - 1], i)
    BY BestByStep
  <2>5. \A i \in 1 .. k : third[i] = A!TryNext(other, call, max, third[i - 1], i)
    BY BestByStep
  <2>6. best[n + 1] = A!TryNext(search, call, max, best[n], n + 1)
    BY <2>1, <2>4
  <2>7. third[n + 1] = A!TryNext(other, call, max, best[n], n + 1)
    BY <2>1, <2>5
  <2>3. A!TryNext(other, call, max, best[n], n + 1)
          = A!TryNext(search, call, max, best[n], n + 1)
    BY <2>1
  <2> QED
    BY <2>3, <2>6, <2>7
<1> HIDE DEF Y
<1>3. Nat \subseteq Y
  BY <1>1, <1>2, NatSetInduction
<1> QED
  BY <1>3 DEF Y

(* A route that the search may find. *)
IsRoute(r, call, max) ==
  /\ r \in Seq(A!Swaps) /\ Len(r) \in 2 .. max
  /\ r[1] = call.start /\ r[Len(r)] \in call.ends
  /\ \A i \in 2 .. Len(r) - 1 : r[i] \in A!Others(call)
  /\ A!IsChain(r)

(* What it should answer: a shortest one. *)
Answers(r, call, max) ==
  /\ r = A!NoRoute \/ IsRoute(r, call, max)
  /\ \A p \in Seq(A!Swaps) :
       IsRoute(p, call, max) => r # A!NoRoute /\ Len(r) <= Len(p)

IsGood(search, k) ==
  \A m \in 0 .. k : \A call \in A!Calls :
    call.start \notin call.ends => Answers(search[m][call], call, m)

(* What the search asks for a swap that can go on. *)
SubCall(call, next) == [start |-> next, ends |-> call.ends, all |-> A!Others(call)]

Tried(call, next) == next \in A!Others(call) /\ A!OutsMatchIns(call.start, next)

(* The best so far, after the n-th swap. *)
IsBestRest(best, call, max, n) ==
  /\ best = A!NoRoute \/ \E x \in 1 .. n : /\ Tried(call, x)
                                          /\ IsRoute(best, SubCall(call, x), max - 1)
  /\ \A x \in 1 .. n : \A p \in Seq(A!Swaps) :
       Tried(call, x) /\ IsRoute(p, SubCall(call, x), max - 1)
         => best # A!NoRoute /\ Len(best) <= Len(p)

LEMMA SubCallIsCall ==
  ASSUME NEW call \in A!Calls, NEW x \in A!Others(call)
  PROVE  /\ SubCall(call, x) \in A!Calls
         /\ SubCall(call, x).start = x
         /\ SubCall(call, x).ends = call.ends
         /\ SubCall(call, x).all = A!Others(call)
         /\ x \notin call.ends /\ x # call.start /\ x \in A!Swaps
<1>1. /\ call.start \in A!Swaps /\ call.ends \in SUBSET A!Swaps
      /\ call.all \in SUBSET A!Swaps
  BY DEF A!Calls
<1>2. /\ A!Others(call) \in SUBSET A!Swaps
      /\ x \notin call.ends /\ x # call.start /\ x \in A!Swaps
  BY <1>1 DEF A!Others
<1>3. SubCall(call, x) \in A!Calls
  BY <1>1, <1>2 DEF SubCall, A!Calls
<1> QED
  BY <1>2, <1>3 DEF SubCall

LEMMA RouteOfLess ==
  ASSUME NEW r, NEW call, NEW max \in Nat, NEW less \in Nat, less <= max,
         IsRoute(r, call, less)
  PROVE  IsRoute(r, call, max)
<1>1. Len(r) \in 2 .. max
  BY DEF IsRoute
<1> QED
  BY <1>1 DEF IsRoute

(* The loop bounds the search by what it has. *)
LEMMA LimitIsLess ==
  ASSUME NEW max \in Nat, max >= 3, NEW call, NEW best, NEW n,
         IsBestRest(best, call, max, n)
  PROVE  /\ best = A!NoRoute => max - 1 \in 0 .. max - 1
         /\ best # A!NoRoute => Len(best) \in 2 .. max - 1 /\ Len(best) - 1 \in 0 .. max - 1
<1>1. best # A!NoRoute => Len(best) \in 2 .. max - 1
  BY DEF IsBestRest, IsRoute
<1> QED
  BY <1>1

LEMMA TryIsGood ==
  ASSUME NEW max \in Nat, max >= 3, NEW search, IsGood(search, max - 1),
         NEW call \in A!Calls, NEW n \in Nat, n >= 1, NEW best,
         IsBestRest(best, call, max, n - 1)
  PROVE  IsBestRest(A!TryNext(search, call, max, best, n), call, max, n)
<1> DEFINE limit == IF best = A!NoRoute THEN max - 1 ELSE Len(best) - 1
           new == search[limit][SubCall(call, n)]
           tried == A!TryNext(search, call, max, best, n)
<1>1. /\ limit \in 0 .. max - 1
      /\ best = A!NoRoute => limit = max - 1
      /\ best # A!NoRoute => limit = Len(best) - 1 /\ Len(best) \in 2 .. max - 1
  BY LimitIsLess
<1>2. tried = IF Tried(call, n) /\ A!IsShorter(new, best) THEN new ELSE best
  BY DEF A!TryNext, Tried, SubCall
<1>3. Tried(call, n) => Answers(new, SubCall(call, n), limit)
  BY <1>1, SubCallIsCall DEF IsGood, Tried
<1>4. \A x \in 1 .. n : x = n \/ x \in 1 .. n - 1
  OBVIOUS
<1>5. n \in 1 .. n /\ (\A x \in 1 .. n - 1 : x \in 1 .. n)
  OBVIOUS
<1> HIDE DEF limit, new, tried
<1>6. CASE Tried(call, n) /\ A!IsShorter(new, best)
  <2>1. tried = new /\ IsRoute(new, SubCall(call, n), limit)
        /\ (best # A!NoRoute => Len(new) < Len(best))
    BY <1>2, <1>3, <1>6 DEF Answers, A!IsShorter
  <2>2. /\ IsRoute(new, SubCall(call, n), max - 1)
        /\ Len(new) \in Nat /\ Len(new) <= limit
    BY <1>1, <2>1, RouteOfLess DEF IsRoute
  <2>3. new # A!NoRoute
    BY <1>6 DEF A!IsShorter
  <2>4. ASSUME NEW x \in 1 .. n, NEW p \in Seq(A!Swaps), Tried(call, x),
               IsRoute(p, SubCall(call, x), max - 1)
        PROVE  Len(new) <= Len(p)
    <3>1. Len(p) \in 2 .. max - 1
      BY <2>4 DEF IsRoute
    <3>2. CASE x = n
      <4>1. CASE Len(p) <= limit
        <5>1. IsRoute(p, SubCall(call, n), limit)
          BY <1>1, <2>4, <3>1, <3>2, <4>1 DEF IsRoute
        <5> QED
          BY <1>3, <1>6, <5>1 DEF Answers
      <4>2. CASE ~(Len(p) <= limit)
        BY <1>1, <2>2, <3>1, <4>2
      <4> QED
        BY <4>1, <4>2
    <3>3. CASE x \in 1 .. n - 1
      <4>1. best # A!NoRoute /\ Len(best) <= Len(p)
        BY <2>4, <3>3 DEF IsBestRest
      <4> QED
        BY <1>1, <2>1, <2>2, <3>1, <4>1
    <3> QED
      BY <1>4, <3>2, <3>3
  <2> QED
    BY <1>5, <1>6, <2>1, <2>2, <2>3, <2>4 DEF IsBestRest, tried
<1>7. CASE ~(Tried(call, n) /\ A!IsShorter(new, best))
  <2>1. tried = best
    BY <1>2, <1>7
  <2>2. ASSUME NEW x \in 1 .. n, NEW p \in Seq(A!Swaps), Tried(call, x),
               IsRoute(p, SubCall(call, x), max - 1)
        PROVE  best # A!NoRoute /\ Len(best) <= Len(p)
    <3>1. Len(p) \in 2 .. max - 1
      BY <2>2 DEF IsRoute
    <3>2. CASE x = n
      <4>1. Answers(new, SubCall(call, n), limit) /\ ~A!IsShorter(new, best)
        BY <1>3, <1>7, <2>2, <3>2
      <4>2. new = A!NoRoute
        <5>1. new # A!NoRoute => Len(new) \in Nat /\ Len(new) <= limit
          BY <1>1, <4>1 DEF Answers, IsRoute
        <5>2. new # A!NoRoute => best # A!NoRoute /\ ~(Len(new) < Len(best))
          BY <4>1 DEF A!IsShorter
        <5> QED
          BY <1>1, <5>1, <5>2
      <4>3. ~(Len(p) <= limit)
        <5>1. SUFFICES ASSUME Len(p) <= limit
                       PROVE  FALSE
          OBVIOUS
        <5>2. IsRoute(p, SubCall(call, n), limit)
          BY <1>1, <2>2, <3>1, <3>2, <5>1 DEF IsRoute
        <5> QED
          BY <4>1, <4>2, <5>2 DEF Answers
      <4> QED
        BY <1>1, <3>1, <4>3
    <3>3. CASE x \in 1 .. n - 1
      BY <2>2, <3>3 DEF IsBestRest
    <3> QED
      BY <1>4, <3>2, <3>3
  <2>3. best = A!NoRoute \/ \E x \in 1 .. n : /\ Tried(call, x)
                                            /\ IsRoute(best, SubCall(call, x), max - 1)
    BY <1>5 DEF IsBestRest
  <2> QED
    BY <2>1, <2>2, <2>3 DEF IsBestRest, tried
<1> QED
  BY <1>6, <1>7

LEMMA BestIsGood ==
  ASSUME NEW max \in Nat, max >= 3, NEW search, IsGood(search, max - 1),
         NEW call \in A!Calls, NEW k \in Nat,
         NEW best, IsBest(search, call, max, k, best)
  PROVE  \A n \in 0 .. k : IsBestRest(best[n], call, max, n)
<1> DEFINE Y == {n \in Nat : n <= k => IsBestRest(best[n], call, max, n)}
<1>1. 0 \in Y
  <2>1. best[0] = A!NoRoute
    BY BestByStep
  <2> QED
    BY <2>1 DEF IsBestRest
<1>2. ASSUME NEW n \in Nat, n \in Y
      PROVE  n + 1 \in Y
  <2> SUFFICES ASSUME n + 1 <= k
               PROVE  IsBestRest(best[n + 1], call, max, n + 1)
    OBVIOUS
  <2>1. n + 1 \in 1 .. k /\ (n + 1) - 1 = n /\ n + 1 \in Nat /\ n + 1 >= 1
    OBVIOUS
  <2>2. IsBestRest(best[n], call, max, n)
    BY <1>2
  <2>3. \A i \in 1 .. k : best[i] = A!TryNext(search, call, max, best[i - 1], i)
    BY BestByStep
  <2>4. best[n + 1] = A!TryNext(search, call, max, best[n], n + 1)
    BY <2>1, <2>3
  <2>5. IsBestRest(best[n], call, max, (n + 1) - 1)
    BY <2>1, <2>2
  <2>6. IsBestRest(A!TryNext(search, call, max, best[n], n + 1), call, max, n + 1)
    BY <2>1, <2>5, TryIsGood
  <2> QED
    BY <2>4, <2>6
<1> HIDE DEF Y
<1>3. Nat \subseteq Y
  BY <1>1, <1>2, NatSetInduction
<1> QED
  BY <1>3 DEF Y

(* A route goes on with a route of what is asked for the next swap. *)
LEMMA StartThenRoute ==
  ASSUME NEW call \in A!Calls, call.start \notin call.ends, NEW max \in Nat,
         NEW x, Tried(call, x), NEW r, IsRoute(r, SubCall(call, x), max - 1)
  PROVE  /\ IsRoute(<<call.start>> \o r, call, max)
         /\ Len(<<call.start>> \o r) = Len(r) + 1
<1> DEFINE q == <<call.start>> \o r
           n == Len(r)
<1>1. /\ x \in A!Others(call) /\ A!OutsMatchIns(call.start, x)
      /\ SubCall(call, x).start = x /\ SubCall(call, x).ends = call.ends
      /\ x # call.start
      /\ call.start \in A!Swaps
  BY SubCallIsCall DEF Tried, A!Calls
<1>2. /\ r \in Seq(A!Swaps) /\ n \in Nat /\ 2 <= n /\ n <= max - 1
      /\ r[1] = x /\ r[n] \in call.ends
      /\ \A i \in 2 .. n - 1 : r[i] \in A!Others(SubCall(call, x))
  BY <1>1 DEF IsRoute
<1>3. A!Others(SubCall(call, x)) = A!Others(call) \ (call.ends \cup {x})
  BY <1>1 DEF A!Others, SubCall
<1>4. /\ \A i, j \in 1 .. n : r[i] = r[j] => i = j
      /\ \A i \in 1 .. n - 1 : A!OutsMatchIns(r[i], r[i + 1])
  <2>1. DOMAIN r = 1 .. n
    BY <1>2
  <2> QED
    BY <2>1 DEF IsRoute, A!IsChain
<1>5. /\ q \in Seq(A!Swaps) /\ Len(q) = n + 1 /\ DOMAIN q = 1 .. n + 1
      /\ q[1] = call.start
      /\ \A i \in 2 .. n + 1 : q[i] = r[i - 1]
  BY <1>1, <1>2
<1> HIDE DEF q, n
<1>6. \A i \in 1 .. n : r[i] # call.start
  <2> TAKE i \in 1 .. n
  <2>1. i = 1 \/ i = n \/ i \in 2 .. n - 1
    BY <1>2
  <2>2. call.start \notin A!Others(call)
    BY DEF A!Others
  <2> QED
    BY <1>1, <1>2, <1>3, <2>1, <2>2
<1>7. Len(q) \in 2 .. max /\ q[Len(q)] \in call.ends
  BY <1>2, <1>5
<1>8. \A i \in 2 .. Len(q) - 1 : q[i] \in A!Others(call)
  <2> TAKE i \in 2 .. Len(q) - 1
  <2>1. q[i] = r[i - 1] /\ (i - 1 = 1 \/ i - 1 \in 2 .. n - 1)
    BY <1>2, <1>5
  <2> QED
    BY <1>1, <1>2, <1>3, <2>1
<1>9. A!IsChain(q)
  <2>1. ASSUME NEW i \in 1 .. n + 1, NEW j \in 1 .. n + 1, q[i] = q[j]
        PROVE  i = j
    <3>1. i = 1 \/ i \in 2 .. n + 1
      BY <1>2
    <3>2. j = 1 \/ j \in 2 .. n + 1
      BY <1>2
    <3>3. i \in 2 .. n + 1 => i - 1 \in 1 .. n /\ q[i] = r[i - 1]
      BY <1>2, <1>5
    <3>4. j \in 2 .. n + 1 => j - 1 \in 1 .. n /\ q[j] = r[j - 1]
      BY <1>2, <1>5
    <3>5. i \in 2 .. n + 1 /\ j \in 2 .. n + 1 => i - 1 = j - 1
      BY <1>4, <2>1, <3>3, <3>4
    <3> QED
      BY <1>2, <1>5, <1>6, <2>1, <3>1, <3>2, <3>3, <3>4, <3>5
  <2>2. ASSUME NEW i \in 1 .. n
        PROVE  A!OutsMatchIns(q[i], q[i + 1])
    <3>1. q[i + 1] = r[i]
      BY <1>2, <1>5
    <3>2. CASE i = 1
      BY <1>1, <1>2, <1>5, <3>1, <3>2
    <3>3. CASE i # 1
      <4>1. i - 1 \in 1 .. n - 1 /\ q[i] = r[i - 1] /\ (i - 1) + 1 = i
        BY <1>2, <1>5, <3>3
      <4> QED
        BY <1>4, <3>1, <4>1
    <3> QED
      BY <3>2, <3>3
  <2> QED
    BY <1>2, <1>5, <2>1, <2>2 DEF A!IsChain
<1>10. IsRoute(q, call, max)
  BY <1>5, <1>7, <1>8, <1>9 DEF IsRoute
<1> QED
  BY <1>5, <1>10 DEF q, n

LEMMA RestOfRoute ==
  ASSUME NEW call \in A!Calls, NEW max \in Nat, NEW p, IsRoute(p, call, max), Len(p) >= 3
  PROVE  /\ Tried(call, p[2])
         /\ Tail(p) \in Seq(A!Swaps)
         /\ Len(Tail(p)) = Len(p) - 1
         /\ IsRoute(Tail(p), SubCall(call, p[2]), max - 1)
<1> DEFINE q == Tail(p)
           n == Len(p)
<1>1. /\ p \in Seq(A!Swaps) /\ n \in Nat /\ 3 <= n /\ n <= max
      /\ p[1] = call.start /\ p[n] \in call.ends
      /\ \A i \in 2 .. n - 1 : p[i] \in A!Others(call)
  BY DEF IsRoute
<1>2. /\ \A i, j \in 1 .. n : p[i] = p[j] => i = j
      /\ \A i \in 1 .. n - 1 : A!OutsMatchIns(p[i], p[i + 1])
  <2>1. DOMAIN p = 1 .. n
    BY <1>1
  <2> QED
    BY <2>1 DEF IsRoute, A!IsChain
<1>3. /\ q \in Seq(A!Swaps) /\ Len(q) = n - 1 /\ DOMAIN q = 1 .. n - 1
      /\ \A i \in 1 .. n - 1 : q[i] = p[i + 1]
  BY <1>1
<1> HIDE DEF q, n
<1>4. Tried(call, p[2])
  <2>1. 2 \in 2 .. n - 1 /\ 1 \in 1 .. n - 1 /\ 1 + 1 = 2
    BY <1>1
  <2>2. p[2] \in A!Others(call)
    BY <1>1, <2>1
  <2>3. A!OutsMatchIns(p[1], p[2])
    BY <1>2, <2>1
  <2> QED
    BY <1>1, <2>2, <2>3 DEF Tried
<1>5. /\ SubCall(call, p[2]).start = p[2] /\ SubCall(call, p[2]).ends = call.ends
      /\ A!Others(SubCall(call, p[2])) = A!Others(call) \ (call.ends \cup {p[2]})
  BY DEF SubCall, A!Others
<1>6. Len(q) \in 2 .. max - 1 /\ q[1] = p[2] /\ q[Len(q)] \in call.ends
  BY <1>1, <1>3
<1>7. \A i \in 2 .. Len(q) - 1 : q[i] \in A!Others(SubCall(call, p[2]))
  <2> TAKE i \in 2 .. Len(q) - 1
  <2>1. /\ q[i] = p[i + 1] /\ i + 1 \in 2 .. n - 1
        /\ i + 1 \in 1 .. n /\ 2 \in 1 .. n /\ i + 1 # 2
    BY <1>1, <1>3
  <2>2. p[i + 1] \in A!Others(call) /\ p[i + 1] # p[2]
    BY <1>1, <1>2, <2>1
  <2>3. p[i + 1] \notin call.ends
    BY <2>2 DEF A!Others
  <2> QED
    BY <1>5, <2>1, <2>2, <2>3
<1>8. A!IsChain(q)
  <2>1. ASSUME NEW i \in 1 .. n - 1, NEW j \in 1 .. n - 1, q[i] = q[j]
        PROVE  i = j
    <3>1. i + 1 \in 1 .. n /\ j + 1 \in 1 .. n /\ p[i + 1] = p[j + 1]
      BY <1>1, <1>3, <2>1
    <3>2. i + 1 = j + 1
      BY <1>2, <3>1
    <3> QED
      BY <3>2
  <2>2. ASSUME NEW i \in 1 .. Len(q) - 1
        PROVE  A!OutsMatchIns(q[i], q[i + 1])
    <3>1. /\ i \in 1 .. n - 1 /\ i + 1 \in 1 .. n - 1
      BY <1>1, <1>3
    <3>2. q[i] = p[i + 1] /\ q[i + 1] = p[(i + 1) + 1]
      BY <1>3, <3>1
    <3> QED
      BY <1>2, <3>1, <3>2
  <2> QED
    BY <1>3, <2>1, <2>2 DEF A!IsChain
<1>9. IsRoute(q, SubCall(call, p[2]), max - 1)
  BY <1>3, <1>5, <1>6, <1>7, <1>8 DEF IsRoute
<1> QED
  BY <1>3, <1>4, <1>9 DEF q, n

(* What the search answers, if search answers what it asks. *)
SearchBody(search, max, call) ==
  LET closing == {e \in call.ends : A!OutsMatchIns(call.start, e)}
      rest == A!ShortestRest(search, call, max)
  IN  IF call.ends = {} \/ max < 2 THEN A!NoRoute
      ELSE IF closing # {} THEN <<call.start, A!Min(closing)>>
      ELSE IF max = 2 \/ rest = A!NoRoute THEN A!NoRoute
      ELSE <<call.start>> \o rest

LEMMA RestIsGood ==
  ASSUME Len(input) \in Nat, NEW max \in Nat, max >= 3,
         NEW search, IsGood(search, max - 1), NEW call \in A!Calls
  PROVE  IsBestRest(A!ShortestRest(search, call, max), call, max, Len(input))
<1>1. PICK best : /\ IsBest(search, call, max, Len(input), best)
                  /\ A!ShortestRest(search, call, max) = best[Len(input)]
  BY RestIsTheBest
<1>2. \A n \in 0 .. Len(input) : IsBestRest(best[n], call, max, n)
  BY <1>1, BestIsGood
<1>3. Len(input) \in 0 .. Len(input)
  OBVIOUS
<1> QED
  BY <1>1, <1>2, <1>3

LEMMA ShortRoutesClose ==
  ASSUME NEW call \in A!Calls, NEW max \in Nat, NEW p, IsRoute(p, call, max)
  PROVE  /\ Len(p) \in Nat /\ 2 <= Len(p) /\ Len(p) <= max
         /\ max = 2 => Len(p) = 2
         /\ Len(p) = 2 \/ Len(p) >= 3
         /\ call.ends # {}
         /\ Len(p) = 2 => p[2] \in call.ends /\ A!OutsMatchIns(call.start, p[2])
<1>1. /\ p \in Seq(A!Swaps) /\ Len(p) \in Nat /\ 2 <= Len(p) /\ Len(p) <= max
      /\ p[1] = call.start /\ p[Len(p)] \in call.ends
  BY DEF IsRoute
<1>2. Len(p) = 2 => A!OutsMatchIns(p[1], p[1 + 1])
  <2>1. 1 \in 1 .. Len(p) - 1
    BY <1>1
  <2> QED
    BY <2>1 DEF IsRoute, A!IsChain
<1>3. \A n \in Nat : 2 <= n /\ n <= max =>
        (max = 2 => n = 2) /\ (n = 2 \/ n >= 3)
  OBVIOUS
<1>4. (max = 2 => Len(p) = 2) /\ (Len(p) = 2 \/ Len(p) >= 3)
  BY <1>1, <1>3
<1> QED
  BY <1>1, <1>2, <1>4

LEMMA BodyIsGood ==
  ASSUME Len(input) \in Nat, NEW max \in 0 .. Len(input),
         NEW search, IsGood(search, max - 1),
         NEW call \in A!Calls, call.start \notin call.ends
  PROVE  Answers(SearchBody(search, max, call), call, max)
<1> DEFINE closing == {e \in call.ends : A!OutsMatchIns(call.start, e)}
           rest == A!ShortestRest(search, call, max)
           r == SearchBody(search, max, call)
<1>1. /\ call.ends = {} \/ max < 2 => r = A!NoRoute
      /\ ~(call.ends = {} \/ max < 2) /\ closing # {}
           => r = <<call.start, A!Min(closing)>>
      /\ ~(call.ends = {} \/ max < 2) /\ closing = {} /\ (max = 2 \/ rest = A!NoRoute)
           => r = A!NoRoute
      /\ ~(call.ends = {} \/ max < 2) /\ closing = {} /\ ~(max = 2 \/ rest = A!NoRoute)
           => r = <<call.start>> \o rest
  BY DEF SearchBody
<1>2. /\ max \in Nat /\ call.start \in A!Swaps
      /\ closing \in SUBSET A!Swaps /\ closing \in SUBSET Nat
      /\ \A e : e \in closing <=> e \in call.ends /\ A!OutsMatchIns(call.start, e)
  BY DEF A!Calls, A!Swaps
<1>3. \A p : IsRoute(p, call, max) =>
        /\ Len(p) \in Nat /\ 2 <= Len(p) /\ Len(p) <= max
        /\ max = 2 => Len(p) = 2
        /\ Len(p) = 2 \/ Len(p) >= 3
        /\ call.ends # {}
        /\ Len(p) = 2 => closing # {}
  BY <1>2, ShortRoutesClose
<1> HIDE DEF closing, rest, r
<1> SUFFICES Answers(r, call, max)
  BY DEF r
<1>4. CASE call.ends = {} \/ max < 2
  BY <1>1, <1>2, <1>3, <1>4 DEF Answers
<1>5. CASE ~(call.ends = {} \/ max < 2) /\ closing # {}
  <2>1. A!Min(closing) \in closing
    <3>1. \E x \in closing : \A y \in closing : x <= y
      BY <1>2, <1>5, HasLeast
    <3> QED
      BY <3>1 DEF A!Min
  <2>2. PICK e \in call.ends : /\ A!OutsMatchIns(call.start, e) /\ e \in A!Swaps
                               /\ r = <<call.start, e>>
    <3>1. r = <<call.start, A!Min(closing)>>
      BY <1>1, <1>5
    <3> QED
      BY <1>2, <2>1, <3>1
  <2>3. /\ r \in Seq(A!Swaps) /\ Len(r) = 2 /\ r[1] = call.start /\ r[2] = e
        /\ r # A!NoRoute /\ call.start # e /\ DOMAIN r = 1 .. 2
    BY <1>2, <2>2 DEF A!NoRoute
  <2>4. A!IsChain(r)
    <3>1. \A i, j \in DOMAIN r : r[i] = r[j] => i = j
      <4>1. \A i \in DOMAIN r : i = 1 \/ i = 2
        BY <2>3
      <4> QED
        BY <2>3, <4>1
    <3>2. \A i \in 1 .. Len(r) - 1 : A!OutsMatchIns(r[i], r[i + 1])
      <4>1. \A i \in 1 .. Len(r) - 1 : i = 1 /\ i + 1 = 2
        BY <2>3
      <4> QED
        BY <2>2, <2>3, <4>1
    <3> QED
      BY <3>1, <3>2 DEF A!IsChain
  <2>5. IsRoute(r, call, max)
    <3>1. Len(r) \in 2 .. max
      BY <1>2, <1>5, <2>3
    <3>2. \A i \in 2 .. Len(r) - 1 : FALSE
      BY <2>3
    <3> QED
      BY <2>2, <2>3, <2>4, <3>1, <3>2 DEF IsRoute
  <2>6. \A p \in Seq(A!Swaps) : IsRoute(p, call, max) => Len(r) <= Len(p)
    BY <1>3, <2>3
  <2> QED
    BY <2>3, <2>5, <2>6 DEF Answers
<1>6. CASE ~(call.ends = {} \/ max < 2) /\ closing = {} /\ max = 2
  <2>1. r = A!NoRoute
    BY <1>1, <1>6
  <2>2. ASSUME NEW p, IsRoute(p, call, max)
        PROVE  FALSE
    <3>1. Len(p) = 2
      BY <1>3, <1>6, <2>2
    <3> QED
      BY <1>3, <1>6, <2>2, <3>1
  <2> QED
    BY <2>1, <2>2 DEF Answers
<1>7. CASE ~(call.ends = {} \/ max < 2) /\ closing = {} /\ max # 2
  <2>1. max >= 3
    BY <1>2, <1>7
  <2>2. IsBestRest(rest, call, max, Len(input))
    BY <1>2, <2>1, RestIsGood DEF rest
  <2>3. ASSUME NEW p \in Seq(A!Swaps), IsRoute(p, call, max)
        PROVE  rest # A!NoRoute /\ Len(rest) + 1 <= Len(p)
    <3>1. Len(p) \in Nat /\ Len(p) >= 3
      BY <1>3, <1>7, <2>3
    <3>2. /\ Tried(call, p[2])
          /\ Tail(p) \in Seq(A!Swaps) /\ Len(Tail(p)) = Len(p) - 1
          /\ IsRoute(Tail(p), SubCall(call, p[2]), max - 1)
      BY <1>2, <2>3, <3>1, RestOfRoute
    <3>3. p[2] \in 1 .. Len(input)
      BY <3>1 DEF A!Swaps
    <3>4. rest # A!NoRoute /\ Len(rest) <= Len(Tail(p))
      BY <2>2, <3>2, <3>3 DEF IsBestRest
    <3>5. Len(rest) \in Nat
      BY <2>2, <3>4 DEF IsBestRest, IsRoute
    <3> QED
      BY <3>1, <3>2, <3>4, <3>5
  <2>4. CASE rest = A!NoRoute
    <3>1. r = A!NoRoute
      BY <1>1, <1>7, <2>4
    <3> QED
      BY <2>3, <2>4, <3>1 DEF Answers
  <2>5. CASE rest # A!NoRoute
    <3>1. r = <<call.start>> \o rest
      BY <1>1, <1>7, <2>5
    <3>2. PICK x \in 1 .. Len(input) : /\ Tried(call, x)
                                       /\ IsRoute(rest, SubCall(call, x), max - 1)
      BY <2>2, <2>5 DEF IsBestRest
    <3>3. IsRoute(r, call, max) /\ Len(r) = Len(rest) + 1
      BY <1>2, <3>1, <3>2, StartThenRoute
    <3>4. Len(r) \in 2 .. max
      BY <3>3 DEF IsRoute
    <3>5. r # A!NoRoute
      BY <3>4 DEF A!NoRoute
    <3> QED
      BY <2>3, <3>3, <3>5 DEF Answers
  <2> QED
    BY <2>4, <2>5
<1> QED
  BY <1>4, <1>5, <1>6, <1>7

(* What a body asks has a lower bound. *)
LEMMA BodyAgrees ==
  ASSUME Len(input) \in Nat, NEW max \in 0 .. Len(input),
         NEW search, IsGood(search, max - 1),
         NEW other, \A m \in 0 .. max - 1 : other[m] = search[m],
         NEW call \in A!Calls
  PROVE  SearchBody(other, max, call) = SearchBody(search, max, call)
<1>1. CASE max < 3
  BY <1>1 DEF SearchBody
<1>2. CASE max >= 3
  <2>1. PICK best : /\ IsBest(search, call, max, Len(input), best)
                    /\ A!ShortestRest(search, call, max) = best[Len(input)]
    BY RestIsTheBest
  <2>2. PICK third : /\ IsBest(other, call, max, Len(input), third)
                     /\ A!ShortestRest(other, call, max) = third[Len(input)]
    BY RestIsTheBest
  <2>3. \A n \in 0 .. Len(input) : IsBestRest(best[n], call, max, n)
    BY <1>2, <2>1, BestIsGood
  <2>4. ASSUME NEW n \in 1 .. Len(input)
        PROVE  A!TryNext(other, call, max, best[n - 1], n)
                 = A!TryNext(search, call, max, best[n - 1], n)
    <3> DEFINE b == best[n - 1]
               limit == IF b = A!NoRoute THEN max - 1 ELSE Len(b) - 1
    <3>1. n - 1 \in 0 .. Len(input)
      OBVIOUS
    <3>2. IsBestRest(b, call, max, n - 1)
      BY <2>3, <3>1
    <3> HIDE DEF b
    <3>3. limit \in 0 .. max - 1
      <4>1. max \in Nat
        OBVIOUS
      <4>2. /\ b = A!NoRoute => limit = max - 1
            /\ b # A!NoRoute => limit = Len(b) - 1
        OBVIOUS
      <4> HIDE DEF limit
      <4> QED
        BY <1>2, <3>2, <4>1, <4>2, LimitIsLess
    <3>4. other[limit] = search[limit]
      BY <3>3
    <3>5. A!TryNext(other, call, max, b, n) = A!TryNext(search, call, max, b, n)
      BY <3>4 DEF A!TryNext
    <3> QED
      BY <3>5 DEF b
  <2>5. best[Len(input)] = third[Len(input)]
    BY <2>1, <2>2, <2>4, BestsAgree
  <2> QED
    BY <2>1, <2>2, <2>5 DEF SearchBody
<1> QED
  BY <1>1, <1>2

(* The search, for bounds up to k. *)
IsSearch(k, g) ==
  g = [max \in 0 .. k |-> [call \in A!Calls |-> SearchBody(g, max, call)]]

LEMMA SearchByBound ==
  ASSUME NEW k \in Nat, NEW g, IsSearch(k, g)
  PROVE  \A max \in 0 .. k :
           /\ g[max] = [call \in A!Calls |-> SearchBody(g, max, call)]
           /\ \A call \in A!Calls : g[max][call] = SearchBody(g, max, call)
<1>1. \A max \in 0 .. k : g[max] = [call \in A!Calls |-> SearchBody(g, max, call)]
  BY DEF IsSearch
<1> QED
  BY <1>1

LEMMA SearchIsGood ==
  ASSUME Len(input) \in Nat, NEW k \in 0 .. Len(input), NEW g, IsSearch(k, g)
  PROVE  IsGood(g, k)
<1>0. k \in Nat
  OBVIOUS
<1> DEFINE Y == {n \in Nat : n <= k => IsGood(g, n)}
           Good(m) == \A call \in A!Calls :
                        call.start \notin call.ends => Answers(g[m][call], call, m)
<1>1. ASSUME NEW n \in 0 .. k, IsGood(g, n - 1)
      PROVE  IsGood(g, n)
  <2>1. n \in 0 .. Len(input)
    OBVIOUS
  <2>2. ASSUME NEW call \in A!Calls, call.start \notin call.ends
        PROVE  Answers(g[n][call], call, n)
    <3>1. g[n][call] = SearchBody(g, n, call)
      BY <1>0, SearchByBound
    <3>2. Answers(SearchBody(g, n, call), call, n)
      BY <1>1, <2>1, <2>2, BodyIsGood
    <3> QED
      BY <3>1, <3>2
  <2>3. \A m \in 0 .. n : m = n \/ m \in 0 .. n - 1
    OBVIOUS
  <2>4. Good(n)
    BY <2>2
  <2>5. \A m \in 0 .. n - 1 : Good(m)
    BY <1>1 DEF IsGood
  <2> HIDE DEF Good
  <2>6. \A m \in 0 .. n : Good(m)
    BY <2>3, <2>4, <2>5
  <2> QED
    BY <2>6 DEF Good, IsGood
<1> HIDE DEF Good
<1>2. IsGood(g, 0 - 1)
  <2>1. 0 .. 0 - 1 = {}
    OBVIOUS
  <2> QED
    BY <2>1 DEF IsGood
<1>3. 0 \in Y
  BY <1>0, <1>1, <1>2
<1>4. ASSUME NEW n \in Nat, n \in Y
      PROVE  n + 1 \in Y
  <2> SUFFICES ASSUME n + 1 <= k
               PROVE  IsGood(g, n + 1)
    OBVIOUS
  <2>1. n + 1 \in 0 .. k /\ (n + 1) - 1 = n /\ IsGood(g, n)
    BY <1>0, <1>4
  <2>2. IsGood(g, (n + 1) - 1)
    BY <2>1
  <2> QED
    BY <1>1, <2>1, <2>2
<1> HIDE DEF Y
<1>5. Nat \subseteq Y
  BY <1>3, <1>4, NatSetInduction
<1> QED
  BY <1>0, <1>5 DEF Y

LEMMA SearchExists ==
  ASSUME Len(input) \in Nat
  PROVE  \E g : IsSearch(Len(input), g)
<1> DEFINE Y == {n \in Nat : n <= Len(input) => \E g : IsSearch(n, g)}
<1>1. 0 \in Y
  <2> DEFINE none == [max \in 0 .. 0 |-> [call \in A!Calls |-> A!NoRoute]]
  <2>1. \A g, call : SearchBody(g, 0, call) = A!NoRoute
    BY DEF SearchBody
  <2>2. none = [max \in 0 .. 0 |-> [call \in A!Calls |-> SearchBody(none, max, call)]]
    <3>1. \A max \in 0 .. 0 : max = 0
      OBVIOUS
    <3> HIDE DEF none
    <3>2. \A max \in 0 .. 0 :
            [call \in A!Calls |-> SearchBody(none, max, call)]
              = [call \in A!Calls |-> A!NoRoute]
      BY <2>1, <3>1
    <3> QED
      BY <3>2 DEF none
  <2> HIDE DEF none
  <2>3. IsSearch(0, none)
    BY <2>2 DEF IsSearch
  <2> QED
    BY <2>3
<1>2. ASSUME NEW n \in Nat, n \in Y
      PROVE  n + 1 \in Y
  <2> SUFFICES ASSUME n + 1 <= Len(input)
               PROVE  \E h : IsSearch(n + 1, h)
    OBVIOUS
  <2>1. PICK g : IsSearch(n, g)
    BY <1>2
  <2>2. /\ n \in 0 .. Len(input) /\ n + 1 \in 0 .. Len(input)
        /\ \A max \in 0 .. n + 1 : max = n + 1 \/ max \in 0 .. n
    OBVIOUS
  <2>3. IsGood(g, n)
    BY <2>1, <2>2, SearchIsGood
  <2> DEFINE Last == [call \in A!Calls |-> SearchBody(g, n + 1, call)]
             h == [max \in 0 .. n + 1 |-> IF max = n + 1 THEN Last ELSE g[max]]
  <2>4. /\ h[n + 1] = Last
        /\ \A max \in 0 .. n : h[max] = g[max]
    BY <2>2
  <2>5. h = [max \in 0 .. n + 1 |-> h[max]]
    OBVIOUS
  <2> HIDE DEF h
  <2>6. ASSUME NEW max \in 0 .. n + 1, NEW call \in A!Calls
        PROVE  SearchBody(h, max, call) = SearchBody(g, max, call)
    <3>1. max \in 0 .. Len(input)
      OBVIOUS
    <3>2. IsGood(g, max - 1)
      <4>1. \A m \in 0 .. max - 1 : m \in 0 .. n
        OBVIOUS
      <4> QED
        BY <2>3, <4>1 DEF IsGood
    <3>3. \A m \in 0 .. max - 1 : h[m] = g[m]
      BY <2>4
    <3> QED
      BY <3>1, <3>2, <3>3, BodyAgrees
  <2>7. ASSUME NEW max \in 0 .. n + 1
        PROVE  h[max] = [call \in A!Calls |-> SearchBody(h, max, call)]
    <3>1. h[max] = [call \in A!Calls |-> SearchBody(g, max, call)]
      <4>1. CASE max = n + 1
        BY <2>4, <4>1
      <4>2. CASE max \in 0 .. n
        <5>1. h[max] = g[max]
          BY <2>4, <4>2
        <5>2. g[max] = [call \in A!Calls |-> SearchBody(g, max, call)]
          BY <2>1, <4>2, SearchByBound
        <5> QED
          BY <5>1, <5>2
      <4> QED
        BY <2>2, <4>1, <4>2
    <3> HIDE DEF Last
    <3>2. [call \in A!Calls |-> SearchBody(g, max, call)]
            = [call \in A!Calls |-> SearchBody(h, max, call)]
      BY <2>6
    <3> QED
      BY <3>1, <3>2
  <2>8. IsSearch(n + 1, h)
    BY <2>5, <2>7 DEF IsSearch
  <2> QED
    BY <2>8
<1> HIDE DEF Y
<1>3. Nat \subseteq Y
  BY <1>1, <1>2, NatSetInduction
<1> QED
  BY <1>3 DEF Y

(***************************************************************************)
(* _get_shortest_route answers a shortest route, whenever there is one.    *)
(***************************************************************************)
THEOREM SearchIsExact ==
  ASSUME Len(input) \in Nat, NEW call \in A!Calls, call.start \notin call.ends
  PROVE  Answers(A!ShortestRoute[Len(input)][call], call, Len(input))
<1>1. A!ShortestRoute = CHOOSE g : IsSearch(Len(input), g)
  BY DEF A!ShortestRoute, IsSearch, SearchBody
<1>2. IsSearch(Len(input), A!ShortestRoute)
  BY <1>1, SearchExists
<1>3. Len(input) \in 0 .. Len(input)
  OBVIOUS
<1>4. IsGood(A!ShortestRoute, Len(input))
  BY <1>2, <1>3, SearchIsGood
<1> QED
  BY <1>3, <1>4 DEF IsGood

(* A chain to an end begins with a route: it ends at the first end.        *)
LEMMA ChainHasRoute ==
  ASSUME Len(input) \in Nat, NEW call \in A!Calls, call.all = A!Swaps,
         NEW e \in call.ends, NEW m \in Nat, m <= Len(input),
         A!Connected(call.start, e, m)
  PROVE  \E p \in Seq(A!Swaps) : IsRoute(p, call, Len(input)) /\ Len(p) <= m
<1>1. call.start \in A!Swaps /\ e \in A!Swaps
  BY DEF A!Calls
<1>2. PICK between \in A!SeqOf(A!Swaps, m - 2) :
        A!IsChain(<<call.start>> \o between \o <<e>>)
  BY DEF A!Connected
<1>3. PICK b \in 0 .. m - 2 : between \in [1 .. b -> A!Swaps]
  BY <1>2 DEF A!SeqOf
<1>4. between \in Seq(A!Swaps) /\ Len(between) = b /\ b \in Nat
  BY <1>3
<1> DEFINE c == <<call.start>> \o between \o <<e>>
           n == b + 2
<1>5. /\ c \in Seq(A!Swaps) /\ Len(c) = n /\ DOMAIN c = 1 .. n
      /\ c[1] = call.start /\ c[n] = e
  BY <1>1, <1>4
<1>6. n \in Nat /\ 2 <= n /\ n <= m
  BY <1>3, <1>4
<1>7. A!IsChain(c)
  BY <1>2
<1> HIDE DEF c, n
<1>8. /\ \A i, j \in 1 .. n : c[i] = c[j] => i = j
      /\ \A i \in 1 .. n - 1 : A!OutsMatchIns(c[i], c[i + 1])
      /\ \A i \in 1 .. n : c[i] \in A!Swaps
  BY <1>5, <1>7 DEF A!IsChain
<1>9. PICK k \in 2 .. n : c[k] \in call.ends /\ \A i \in 2 .. k - 1 : c[i] \notin call.ends
  <2> DEFINE K == {i \in 2 .. n : c[i] \in call.ends}
  <2>1. n \in K /\ K \in SUBSET Nat
    BY <1>5, <1>6
  <2>2. PICK k \in K : \A i \in K : k <= i
    BY <2>1, HasLeast
  <2>3. \A i \in 2 .. k - 1 : i \in 2 .. n /\ ~(k <= i)
    BY <1>6, <2>2
  <2> QED
    BY <2>2, <2>3
<1> DEFINE p == [i \in 1 .. k |-> c[i]]
<1>10. k \in Nat /\ n \in Nat /\ 2 <= k /\ k <= n /\ k <= m /\ k <= Len(input)
  BY <1>6
<1>11. /\ p \in Seq(A!Swaps) /\ Len(p) = k /\ DOMAIN p = 1 .. k
       /\ \A i \in 1 .. k : p[i] = c[i]
  BY <1>8, <1>10
<1> HIDE DEF p
<1>12. A!IsChain(p)
  <2>1. \A i, j \in 1 .. k : p[i] = p[j] => i = j
    BY <1>8, <1>10, <1>11
  <2>2. ASSUME NEW i \in 1 .. k - 1
        PROVE  A!OutsMatchIns(p[i], p[i + 1])
    <3>1. i \in 1 .. k /\ i + 1 \in 1 .. k /\ i \in 1 .. n - 1
      BY <1>10
    <3> QED
      BY <1>8, <1>11, <3>1
  <2> QED
    BY <1>11, <2>1, <2>2 DEF A!IsChain
<1>13. \A i \in 2 .. k - 1 : p[i] \in A!Others(call)
  <2> TAKE i \in 2 .. k - 1
  <2>1. i \in 1 .. k /\ i \in 1 .. n /\ 1 \in 1 .. n /\ i # 1
    BY <1>10
  <2>2. p[i] = c[i] /\ c[i] # c[1] /\ c[i] \in A!Swaps /\ c[i] \notin call.ends
    BY <1>8, <1>9, <1>11, <2>1
  <2> QED
    BY <1>5, <2>2 DEF A!Others
<1>14. p[1] = call.start /\ p[k] \in call.ends
  BY <1>5, <1>9, <1>10, <1>11
<1>15. IsRoute(p, call, Len(input))
  BY <1>10, <1>11, <1>12, <1>13, <1>14 DEF IsRoute
<1> QED
  BY <1>10, <1>11, <1>15

(* What the loop asks for a start. *)
FreeCall(s, before) == [start |-> s, ends |-> A!Ends(s) \ before, all |-> A!Swaps]

(* The swaps of the first routes. *)
UsedIn(list, k) == UNION {A!ToSet(list[j]) : j \in 1 .. k - 1}

(* The loop's memory is right, and each start it has passed was answered.  *)
LegInv ==
  /\ Len(input) \in Nat
  /\ at \in 1 .. Len(input) + 1
  /\ result # A!NotYet => at = Len(input) + 1
  /\ extra \in Seq(Seq(A!Swaps))
  /\ memo = UsedIn(extra, Len(extra) + 1)
  /\ \A k \in 1 .. Len(extra) :
       /\ extra[k] # A!NoRoute
       /\ extra[k][1] \notin UsedIn(extra, k)
       /\ extra[k][1] \in A!Swaps
       /\ Answers(extra[k], FreeCall(extra[k][1], UsedIn(extra, k)), Len(input))
  /\ \A s \in 1 .. at - 1 :
       s \notin memo => \E before \in SUBSET memo :
                          Answers(A!NoRoute, FreeCall(s, before), Len(input))

LEMMA FreeCallIsCall ==
  ASSUME NEW s \in A!Swaps, NEW before
  PROVE  /\ FreeCall(s, before) \in A!Calls
         /\ FreeCall(s, before).start = s
         /\ FreeCall(s, before).ends = A!Ends(s) \ before
         /\ FreeCall(s, before).all = A!Swaps
         /\ s \notin A!Ends(s) /\ A!Ends(s) \in SUBSET A!Swaps
<1>1. s \notin A!Ends(s) /\ A!Ends(s) \in SUBSET A!Swaps
  BY DEF A!Ends
<1>2. FreeCall(s, before) \in A!Calls
  BY <1>1 DEF FreeCall, A!Calls
<1> QED
  BY <1>1, <1>2 DEF FreeCall

LEMMA LegsBegin == ASSUME A!Init PROVE LegInv
<1>1. /\ Len(input) \in Nat /\ at = 1 /\ memo = {} /\ extra = << >>
      /\ result = A!NotYet
  BY ListsAssumption DEF A!Init, ListsEnd
<1>2. /\ extra \in Seq(Seq(A!Swaps)) /\ Len(extra) = 0
      /\ \A k \in 1 .. Len(extra) : FALSE
      /\ \A s \in 1 .. at - 1 : FALSE
  BY <1>1
<1>3. UsedIn(extra, Len(extra) + 1) = {}
  BY <1>2 DEF UsedIn
<1> QED
  BY <1>1, <1>2, <1>3 DEF LegInv

LEMMA RoutesStay ==
  ASSUME input' = input
  PROVE  /\ A!Swaps' = A!Swaps
         /\ \A r, call, max : Answers(r, call, max)' <=> Answers(r, call, max)
         /\ \A s, before : FreeCall(s, before)' = FreeCall(s, before)
<1>1. A!Swaps' = A!Swaps
  BY DEF A!Swaps
<1>2. \A i, j : A!OutsMatchIns(i, j)' = A!OutsMatchIns(i, j)
  BY DEF A!OutsMatchIns, A!EqualWithinPercent
<1>3. \A r, call, max : IsRoute(r, call, max)' <=> IsRoute(r, call, max)
  BY <1>1, <1>2 DEF IsRoute, A!IsChain, A!Others
<1>4. \A s : A!Ends(s)' = A!Ends(s)
  BY <1>1 DEF A!Ends
<1> QED
  BY <1>1, <1>3, <1>4 DEF Answers, FreeCall, A!NoRoute

LEMMA UsedByElement ==
  ASSUME NEW x, NEW k, NEW list
  PROVE  x \in UsedIn(list, k) <=> \E j \in 1 .. k - 1 : x \in A!ToSet(list[j])
BY DEF UsedIn

LEMMA UsedIsIn == \A k : A!UsedBefore(k) = UsedIn(extra, k)
BY DEF UsedIn, A!UsedBefore

(* A new route adds its swaps. *)
LEMMA UsedWithRoute ==
  ASSUME NEW list \in Seq(Seq(A!Swaps)), NEW route \in Seq(A!Swaps)
  PROVE  /\ \A k \in 1 .. Len(list) + 1 :
              UsedIn(Append(list, route), k) = UsedIn(list, k)
         /\ UsedIn(Append(list, route), Len(list) + 2)
              = UsedIn(list, Len(list) + 1) \cup A!ToSet(route)
<1> DEFINE n == Len(list)
           longer == Append(list, route)
<1>0. n \in Nat
  OBVIOUS
<1>1. /\ n \in Nat
      /\ \A j \in 1 .. n : longer[j] = list[j]
      /\ longer[n + 1] = route
  OBVIOUS
<1> HIDE DEF n, longer
<1>2. ASSUME NEW k \in 1 .. n + 1
      PROVE  UsedIn(longer, k) = UsedIn(list, k)
  <2>0. \A j \in 1 .. k - 1 : j \in 1 .. n
    BY <1>0
  <2>1. \A j \in 1 .. k - 1 : longer[j] = list[j]
    BY <1>1, <2>0
  <2>2. \A x : x \in UsedIn(longer, k) <=> x \in UsedIn(list, k)
    BY <2>1, UsedByElement
  <2> QED
    BY <2>2
<1>3. UsedIn(longer, n + 2) = UsedIn(list, n + 1) \cup A!ToSet(route)
  <2>1. 1 .. (n + 2) - 1 = (1 .. (n + 1) - 1) \cup {n + 1}
    BY <1>1
  <2>0. \A j \in 1 .. (n + 1) - 1 : j \in 1 .. n
    BY <1>0
  <2>2. \A j \in 1 .. (n + 1) - 1 : longer[j] = list[j]
    BY <1>1, <2>0
  <2>3. ASSUME NEW x
        PROVE  x \in UsedIn(longer, n + 2)
                 <=> x \in UsedIn(list, n + 1) \/ x \in A!ToSet(route)
    <3>1. x \in UsedIn(longer, n + 2)
            <=> \E j \in 1 .. (n + 2) - 1 : x \in A!ToSet(longer[j])
      BY UsedByElement
    <3>2. x \in UsedIn(list, n + 1)
            <=> \E j \in 1 .. (n + 1) - 1 : x \in A!ToSet(list[j])
      BY UsedByElement
    <3> QED
      BY <1>1, <2>1, <2>2, <3>1, <3>2
  <2> QED
    BY <2>3
<1> QED
  BY <1>2, <1>3 DEF n, longer

LEMMA VisitStep ==
  ASSUME LegInv, A!Visit
  PROVE  LegInv'
<1> DEFINE call == FreeCall(at, memo)
           route == A!ShortestRoute[Len(input)][call]
<1>1. /\ Len(input) \in Nat /\ at \in A!Swaps /\ at \in Nat
      /\ at' = at + 1 /\ input' = input /\ result' = result
      /\ at' \in 1 .. Len(input) + 1 /\ result = A!NotYet
      /\ extra \in Seq(Seq(A!Swaps))
      /\ \A s \in 1 .. at' - 1 : s = at \/ s \in 1 .. at - 1
  BY DEF LegInv, A!Visit, A!Swaps
<1>2. /\ at \in memo \/ route = A!NoRoute => memo' = memo /\ extra' = extra
      /\ ~(at \in memo \/ route = A!NoRoute)
           => extra' = Append(extra, route) /\ memo' = memo \cup A!ToSet(route)
  BY DEF A!Visit, A!UnusedEnds, A!Claim, FreeCall
<1>3. Answers(route, call, Len(input))
  BY <1>1, FreeCallIsCall, SearchIsExact
<1> HIDE DEF route
<1>4. /\ A!Swaps' = A!Swaps /\ Len(input') = Len(input)
      /\ \A r, c, m : Answers(r, c, m)' <=> Answers(r, c, m)
      /\ \A s, before : FreeCall(s, before)' = FreeCall(s, before)
  BY <1>1, RoutesStay
<1>5. /\ memo = UsedIn(extra, Len(extra) + 1)
      /\ \A k \in 1 .. Len(extra) :
           /\ extra[k] # A!NoRoute
           /\ extra[k][1] \notin UsedIn(extra, k)
           /\ extra[k][1] \in A!Swaps
           /\ Answers(extra[k], FreeCall(extra[k][1], UsedIn(extra, k)), Len(input))
      /\ \A s \in 1 .. at - 1 :
           s \notin memo => \E before \in SUBSET memo :
                              Answers(A!NoRoute, FreeCall(s, before), Len(input))
  BY DEF LegInv
<1>6. A!NoRoute' = A!NoRoute /\ A!NotYet' = A!NotYet
  BY DEF A!NoRoute, A!NotYet
<1>7. CASE at \in memo \/ route = A!NoRoute
  <2>1. memo' = memo /\ extra' = extra
    BY <1>2, <1>7
  <2>3. \A s \in 1 .. at' - 1 :
          s \notin memo => \E before \in SUBSET memo :
                             Answers(A!NoRoute, FreeCall(s, before), Len(input))
    BY <1>1, <1>3, <1>5, <1>7
  <2> QED
    BY <1>1, <1>4, <1>5, <1>6, <2>1, <2>3 DEF LegInv
<1>8. CASE ~(at \in memo \/ route = A!NoRoute)
  <2>1. /\ extra' = Append(extra, route) /\ memo' = memo \cup A!ToSet(route)
        /\ route # A!NoRoute /\ at \notin memo
    BY <1>2, <1>8
  <2>2. route \in Seq(A!Swaps) /\ Len(route) \in Nat /\ 2 <= Len(route) /\ route[1] = at
    BY <1>3, <2>1 DEF Answers, IsRoute, FreeCall
  <2>3. /\ \A k \in 1 .. Len(extra) + 1 : UsedIn(extra', k) = UsedIn(extra, k)
        /\ UsedIn(extra', Len(extra) + 2)
             = UsedIn(extra, Len(extra) + 1) \cup A!ToSet(route)
    <3>1. /\ \A k \in 1 .. Len(extra) + 1 :
               UsedIn(Append(extra, route), k) = UsedIn(extra, k)
          /\ UsedIn(Append(extra, route), Len(extra) + 2)
               = UsedIn(extra, Len(extra) + 1) \cup A!ToSet(route)
      BY <1>1, <2>2, UsedWithRoute
    <3> QED
      BY <2>1, <3>1
  <2>4. /\ Len(extra) \in Nat /\ Len(extra') = Len(extra) + 1
        /\ extra' \in Seq(Seq(A!Swaps))
        /\ \A j \in 1 .. Len(extra) : extra'[j] = extra[j]
        /\ extra'[Len(extra) + 1] = route
        /\ Len(extra') + 1 = Len(extra) + 2
        /\ \A k \in 1 .. Len(extra') : k = Len(extra) + 1 \/ k \in 1 .. Len(extra)
        /\ \A k \in 1 .. Len(extra) : k \in 1 .. Len(extra) + 1
        /\ Len(extra) + 1 \in 1 .. Len(extra) + 1
    BY <1>1, <2>1, <2>2
  <2>5. at \in memo'
    <3>1. 1 \in DOMAIN route
      BY <2>2
    <3>2. route[1] \in A!ToSet(route)
      BY <3>1 DEF A!ToSet
    <3> QED
      BY <2>1, <2>2, <3>2
  <2>6. \A s \in 1 .. at' - 1 :
          s \notin memo' => \E before \in SUBSET memo' :
                              Answers(A!NoRoute, FreeCall(s, before), Len(input))
    BY <1>1, <1>5, <2>1, <2>5
  <2>7. memo' = UsedIn(extra', Len(extra) + 2)
    BY <1>5, <2>1, <2>3
  <2>8. ASSUME NEW k \in 1 .. Len(extra')
        PROVE  /\ extra'[k] # A!NoRoute
               /\ extra'[k][1] \notin UsedIn(extra', k)
               /\ extra'[k][1] \in A!Swaps
               /\ Answers(extra'[k], FreeCall(extra'[k][1], UsedIn(extra', k)), Len(input))
    <3>1. CASE k = Len(extra) + 1
      <4>1. extra'[k] = route /\ UsedIn(extra', k) = memo
        BY <1>5, <2>3, <2>4, <3>1
      <4> QED
        BY <1>1, <1>3, <2>1, <2>2, <4>1
    <3>2. CASE k \in 1 .. Len(extra)
      <4>1. extra'[k] = extra[k] /\ UsedIn(extra', k) = UsedIn(extra, k)
        BY <2>3, <2>4, <3>2
      <4> QED
        BY <1>5, <3>2, <4>1
    <3> QED
      BY <2>4, <3>1, <3>2
  <2> QED
    BY <1>1, <1>4, <1>6, <2>4, <2>6, <2>7, <2>8 DEF LegInv
<1> QED
  BY <1>7, <1>8

LEMMA ReportStep ==
  ASSUME LegInv, A!Report \/ UNCHANGED A!vars
  PROVE  LegInv'
<1>1. /\ input' = input /\ at' = at /\ memo' = memo /\ extra' = extra
      /\ result' = result \/ at > Len(input)
  BY DEF A!Report, A!vars
<1>2. /\ A!Swaps' = A!Swaps /\ Len(input') = Len(input)
      /\ \A r, c, m : Answers(r, c, m)' <=> Answers(r, c, m)
      /\ \A s, before : FreeCall(s, before)' = FreeCall(s, before)
  BY <1>1, RoutesStay
<1>4. A!NoRoute' = A!NoRoute /\ A!NotYet' = A!NotYet
  BY DEF A!NoRoute, A!NotYet
<1>5. result' # A!NotYet => at = Len(input) + 1
  BY <1>1 DEF LegInv
<1> QED
  BY <1>1, <1>2, <1>4, <1>5 DEF LegInv

(* What a route that was found is. *)
LEMMA FoundIsShortest ==
  ASSUME LegInv, NEW k \in 1 .. Len(extra)
  PROVE  /\ IsRoute(extra[k], FreeCall(extra[k][1], UsedIn(extra, k)), Len(input))
         /\ A!LastOf(extra[k]) \in A!Ends(extra[k][1]) \ UsedIn(extra, k)
         /\ \A e \in A!Ends(extra[k][1]) \ UsedIn(extra, k) :
              ~A!Connected(extra[k][1], e, Len(extra[k]) - 1)
<1> DEFINE r == extra[k]
           call == FreeCall(r[1], UsedIn(extra, k))
<1>1. /\ r # A!NoRoute /\ r[1] \in A!Swaps /\ Len(input) \in Nat
      /\ Answers(r, call, Len(input))
  BY DEF LegInv
<1>2. IsRoute(r, call, Len(input))
  BY <1>1 DEF Answers
<1>3. call \in A!Calls /\ call.start = r[1] /\ call.all = A!Swaps
      /\ call.ends = A!Ends(r[1]) \ UsedIn(extra, k)
  BY <1>1, FreeCallIsCall
<1>4. A!LastOf(r) \in call.ends
  BY <1>2 DEF IsRoute, A!LastOf
<1>5. Len(r) \in Nat /\ Len(r) - 1 \in Nat /\ Len(r) - 1 <= Len(input)
      /\ Len(r) <= Len(input)
  <2>1. Len(r) \in 2 .. Len(input)
    BY <1>2 DEF IsRoute
  <2> QED
    BY <1>1, <2>1
<1> HIDE DEF call, r
<1>6. ASSUME NEW e \in call.ends, A!Connected(call.start, e, Len(r) - 1)
      PROVE  FALSE
  <2>1. PICK p \in Seq(A!Swaps) : IsRoute(p, call, Len(input)) /\ Len(p) <= Len(r) - 1
    BY <1>1, <1>3, <1>5, <1>6, ChainHasRoute
  <2>2. Len(r) <= Len(p)
    BY <1>1, <2>1 DEF Answers
  <2>3. Len(p) \in Nat
    BY <2>1
  <2> QED
    BY <1>5, <2>1, <2>2, <2>3
<1> QED
  BY <1>2, <1>3, <1>4, <1>6 DEF r, call

LEMMA LegsAlways == Spec => [](algorithm = "arbitrages" => LegInv)
<1> DEFINE Inv == algorithm = "arbitrages" => LegInv
<1>1. Init => Inv
  BY OneBegins, LegsBegin
<1>2. Inv /\ [Next]_variables => Inv'
  <2> SUFFICES ASSUME Inv, [Next]_variables, algorithm' = "arbitrages"
               PROVE  LegInv'
    OBVIOUS
  <2>1. algorithm = "arbitrages" /\ LegInv
    BY OneGoesOn
  <2>2. [A!Next]_A!vars
    BY <2>1, OneGoesOn DEF variables, A!vars
  <2> QED
    BY <2>1, <2>2, VisitStep, ReportStep DEF A!Next
<1> QED
  BY <1>1, <1>2, PTL DEF Spec

(***************************************************************************)
(* In every transaction the routes that get_arbitrages finds are chains of *)
(* different swaps, and no free end of their starts is nearer.             *)
(***************************************************************************)
THEOREM FoundRoutesAreShortest == Spec => []RoutesAreShortest
<1>1. (algorithm = "arbitrages" => LegInv) => RoutesAreShortest
  BY FoundIsShortest, UsedIsIn DEF RoutesAreShortest, A!RoutesAreShortest, IsRoute
<1> QED
  BY <1>1, LegsAlways, PTL

(***************************************************************************)
(* In every transaction no swap of an arbitrage that get_arbitrages found  *)
(* opens or closes a later one.                                            *)
(***************************************************************************)
THEOREM NothingOpensTwice == Spec => []OpensAndClosesOnce
<1>1. (algorithm = "arbitrages" => LegInv) => OpensAndClosesOnce
  <2> SUFFICES ASSUME LegInv, NEW k \in 1 .. Len(extra)
               PROVE  {extra[k][1], A!LastOf(extra[k])} \cap A!UsedBefore(k) = {}
    BY DEF OpensAndClosesOnce, A!OpensAndClosesOnce
  <2>1. extra[k][1] \notin A!UsedBefore(k)
    BY UsedIsIn DEF LegInv
  <2>2. A!LastOf(extra[k]) \notin A!UsedBefore(k)
    BY FoundIsShortest, UsedIsIn
  <2> QED
    BY <2>1, <2>2
<1> QED
  BY <1>1, LegsAlways, PTL

(***************************************************************************)
(* In every transaction get_arbitrages leaves no opening and no end in no  *)
(* arbitrage with a chain between them, though it takes routes greedily.   *)
(***************************************************************************)
THEOREM NoRouteIsLeft == Spec => []LeftoversHaveNoRoute
<1>1. (algorithm = "arbitrages" => LegInv) => LeftoversHaveNoRoute
  <2> DEFINE left == A!Swaps \ A!UsedBefore(Len(extra) + 1)
  <2> SUFFICES ASSUME LegInv, result # A!NotYet,
                      NEW s \in left, NEW e \in left \cap A!Ends(s),
                      A!Connected(s, e, Len(input))
               PROVE  FALSE
    BY DEF LeftoversHaveNoRoute, A!LeftoversHaveNoRoute
  <2>1. /\ Len(input) \in Nat /\ s \in A!Swaps /\ s \in 1 .. at - 1
        /\ s \notin memo /\ e \notin memo
    BY UsedIsIn DEF LegInv, A!Swaps
  <2>2. PICK before \in SUBSET memo :
          Answers(A!NoRoute, FreeCall(s, before), Len(input))
    BY <2>1 DEF LegInv
  <2> DEFINE call == FreeCall(s, before)
  <2>3. call \in A!Calls /\ call.start = s /\ call.all = A!Swaps
        /\ call.ends = A!Ends(s) \ before
    BY <2>1, FreeCallIsCall
  <2>4. e \in call.ends
    BY <2>1, <2>2, <2>3
  <2> HIDE DEF call
  <2>5. PICK p \in Seq(A!Swaps) : IsRoute(p, call, Len(input))
    <3>1. Len(input) <= Len(input)
      BY <2>1
    <3> QED
      BY <2>1, <2>3, <2>4, <3>1, ChainHasRoute
  <2> QED
    BY <2>2, <2>5 DEF Answers, call
<1> QED
  BY <1>1, LegsAlways, PTL
-----------------------------------------------------------------------------
(* Punks: input is traces, and result is snipes.                           *)

HavePlaces(B) ==
  /\ IsFiniteSet(B)
  /\ \A t \in B : t.tx \in Nat /\ t.address \in Nat /\ t.price \in Nat
  /\ \A s, t \in B : s.tx = t.tx /\ s.address = t.address => s = t

Earlier(B, t) == {s \in B : P!Before(s, t)}

LEMMA PunkCardinality == ASSUME NEW X PROVE P!Cardinality(X) = Cardinality(X)
BY DEF P!Cardinality, Cardinality

LEMMA BeforeIsAnOrder ==
  ASSUME NEW B, HavePlaces(B)
  PROVE  /\ \A s, t \in B : s = t \/ P!Before(s, t) \/ P!Before(t, s)
         /\ \A s, t \in B : P!Before(s, t) => s # t /\ ~P!Before(t, s)
         /\ \A r, s, t \in B : P!Before(r, s) /\ P!Before(s, t) => P!Before(r, t)
BY DEF HavePlaces, P!Before

(* A trace has more before it than each of those that are before it. *)
LEMMA EarlierCounts ==
  ASSUME NEW B, HavePlaces(B)
  PROVE  /\ \A t \in B : Cardinality(Earlier(B, t)) \in 0 .. Cardinality(B) - 1
         /\ \A s, t \in B : P!Before(s, t)
              => Cardinality(Earlier(B, s)) < Cardinality(Earlier(B, t))
<1>0. IsFiniteSet(B) /\ Cardinality(B) \in Nat
  BY FS_CardinalityType DEF HavePlaces
<1>1. \A t \in B : /\ Earlier(B, t) \in SUBSET B /\ t \notin Earlier(B, t)
                   /\ IsFiniteSet(Earlier(B, t)) /\ Cardinality(Earlier(B, t)) \in Nat
  <2> TAKE t \in B
  <2>1. Earlier(B, t) \in SUBSET B /\ t \notin Earlier(B, t)
    BY BeforeIsAnOrder DEF Earlier
  <2> QED
    BY <1>0, <2>1, FS_Subset, FS_CardinalityType
<1>2. \A s \in B, X \in SUBSET B : s \notin X /\ IsFiniteSet(X)
        => Cardinality(X \cup {s}) = Cardinality(X) + 1
  BY FS_AddElement
<1>3. \A X \in SUBSET B : \A Z \in SUBSET X :
        IsFiniteSet(X) => Cardinality(Z) <= Cardinality(X)
  BY FS_Subset
<1>4. ASSUME NEW t \in B
      PROVE  Cardinality(Earlier(B, t)) \in 0 .. Cardinality(B) - 1
  <2>1. Earlier(B, t) \cup {t} \in SUBSET B
    BY <1>1
  <2>2. Cardinality(Earlier(B, t) \cup {t}) <= Cardinality(B)
    BY <1>0, <1>3, <2>1
  <2>3. Cardinality(Earlier(B, t) \cup {t}) = Cardinality(Earlier(B, t)) + 1
    BY <1>1, <1>2
  <2>4. Cardinality(Earlier(B, t)) \in Nat
    BY <1>1
  <2> QED
    BY <1>0, <2>2, <2>3, <2>4
<1>5. ASSUME NEW s \in B, NEW t \in B, P!Before(s, t)
      PROVE  Cardinality(Earlier(B, s)) < Cardinality(Earlier(B, t))
  <2>1. Earlier(B, s) \cup {s} \in SUBSET Earlier(B, t)
    BY <1>5, BeforeIsAnOrder DEF Earlier
  <2>2. Cardinality(Earlier(B, s) \cup {s}) <= Cardinality(Earlier(B, t))
    BY <1>1, <1>3, <2>1
  <2>3. Cardinality(Earlier(B, s) \cup {s}) = Cardinality(Earlier(B, s)) + 1
    BY <1>1, <1>2
  <2>4. Cardinality(Earlier(B, s)) \in Nat /\ Cardinality(Earlier(B, t)) \in Nat
    BY <1>1
  <2> QED
    BY <2>2, <2>3, <2>4
<1> QED
  BY <1>4, <1>5

(* Sorting loses nothing. *)
LEMMA InOrderIsSorted ==
  ASSUME NEW B, HavePlaces(B)
  PROVE  /\ Len(P!InOrder(B)) = Cardinality(B) /\ Cardinality(B) \in Nat
         /\ DOMAIN P!InOrder(B) = 1 .. Cardinality(B)
         /\ \A i \in 1 .. Cardinality(B) : P!InOrder(B)[i] \in B
         /\ \A t \in B : \E i \in 1 .. Cardinality(B) : P!InOrder(B)[i] = t
         /\ \A i, j \in 1 .. Cardinality(B) :
              i < j => P!Before(P!InOrder(B)[i], P!InOrder(B)[j])
<1> DEFINE n == Cardinality(B)
           list == P!InOrder(B)
           rank == [t \in B |-> Cardinality(Earlier(B, t)) + 1]
<1>1. IsFiniteSet(B) /\ n \in Nat
  BY FS_CardinalityType DEF HavePlaces
<1>2. list = [i \in 1 .. n |-> CHOOSE t \in B : Cardinality(Earlier(B, t)) = i - 1]
  BY DEF P!InOrder, Earlier, P!Cardinality, Cardinality
<1>3. Len(list) = n /\ DOMAIN list = 1 .. n
  <2> HIDE DEF n, list
  <2> QED
    BY <1>1, <1>2
<1>4. \A t \in B : rank[t] \in 1 .. n /\ rank[t] - 1 = Cardinality(Earlier(B, t))
  BY <1>1, EarlierCounts
<1>5. \A s, t \in B : P!Before(s, t) => rank[s] < rank[t]
  <2>1. \A t \in B : Cardinality(Earlier(B, t)) \in Nat
    BY <1>1, EarlierCounts
  <2> QED
    BY <2>1, EarlierCounts
<1>6. rank \in [B -> 1 .. n]
  BY <1>4
<1> HIDE DEF n, list, rank
<1>7. \A s, t \in B : rank[s] = rank[t] => s = t
  <2> TAKE s, t \in B
  <2>1. rank[s] \in Nat /\ rank[t] \in Nat
    BY <1>1, <1>4
  <2> QED
    BY <1>5, <2>1, BeforeIsAnOrder
<1>8. \A i \in 1 .. n : \E t \in B : rank[t] = i
  <2>1. rank \in Injection(B, 1 .. n)
    BY <1>6, <1>7 DEF Injection, IsInjective
  <2>2. IsFiniteSet(1 .. n) /\ Cardinality(1 .. n) = Cardinality(B)
    BY <1>1, FS_Interval DEF n
  <2>3. rank \in Surjection(B, 1 .. n)
    BY <2>1, <2>2, FS_Injection
  <2> QED
    BY <2>3 DEF Surjection
<1>9. \A i \in 1 .. n : list[i] \in B /\ rank[list[i]] = i
  <2> TAKE i \in 1 .. n
  <2>1. PICK t \in B : rank[t] = i
    BY <1>8
  <2>2. Cardinality(Earlier(B, t)) = i - 1
    BY <1>4, <2>1
  <2>3. list[i] = CHOOSE s \in B : Cardinality(Earlier(B, s)) = i - 1
    BY <1>2
  <2>4. list[i] \in B /\ Cardinality(Earlier(B, list[i])) = i - 1
    BY <2>2, <2>3
  <2>5. rank[list[i]] - 1 = i - 1 /\ rank[list[i]] \in Nat
    BY <1>1, <1>4, <2>4
  <2> QED
    BY <2>4, <2>5
<1>10. \A t \in B : \E i \in 1 .. n : list[i] = t
  BY <1>4, <1>7, <1>9
<1>11. ASSUME NEW i \in 1 .. n, NEW j \in 1 .. n, i < j
       PROVE  P!Before(list[i], list[j])
  <2>1. list[i] \in B /\ list[j] \in B /\ rank[list[i]] = i /\ rank[list[j]] = j
    BY <1>9
  <2>2. list[i] # list[j] /\ ~P!Before(list[j], list[i])
    BY <1>5, <1>11, <2>1
  <2> QED
    BY <2>1, <2>2, BeforeIsAnOrder
<1> QED
  BY <1>1, <1>3, <1>9, <1>10, <1>11 DEF n, list

(* The loop of _get_highest_punk_bid_per_index, up to the k-th bid. *)
IsHighest(punk, k, best) ==
  best = [b \in 0 .. k |->
            IF b = 0 THEN 0
            ELSE IF P!Bids[b].punk = punk /\ P!Outbids(b, best[b - 1]) THEN b
            ELSE best[b - 1]]

LEMMA HighestByStep ==
  ASSUME NEW punk, NEW k \in Nat, NEW best, IsHighest(punk, k, best)
  PROVE  /\ best[0] = 0
         /\ \A b \in 1 .. k : best[b] =
              IF P!Bids[b].punk = punk /\ P!Outbids(b, best[b - 1]) THEN b ELSE best[b - 1]
BY DEF IsHighest

LEMMA HighestExists ==
  ASSUME NEW punk, NEW k \in Nat
  PROVE  \E best : IsHighest(punk, k, best)
<1> DEFINE Y == {n \in Nat : \E best : IsHighest(punk, n, best)}
           Step(b, before) ==
             IF P!Bids[b].punk = punk /\ P!Outbids(b, before) THEN b ELSE before
<1>1. 0 \in Y
  <2> DEFINE best == [b \in 0 .. 0 |-> 0]
  <2>1. IsHighest(punk, 0, best)
    BY DEF IsHighest
  <2> QED
    BY <2>1
<1>2. ASSUME NEW n \in Nat, n \in Y
      PROVE  n + 1 \in Y
  <2>1. PICK before : IsHighest(punk, n, before)
    BY <1>2
  <2>2. /\ before[0] = 0
        /\ \A b \in 1 .. n : before[b] = Step(b, before[b - 1])
    BY <2>1, HighestByStep
  <2> HIDE DEF Step
  <2> DEFINE best == [b \in 0 .. n + 1 |->
                        IF b = n + 1 THEN Step(n + 1, before[n]) ELSE before[b]]
  <2>3. ASSUME NEW b \in 0 .. n + 1
        PROVE  best[b] = IF b = 0 THEN 0 ELSE Step(b, best[b - 1])
    <3>1. CASE b = n + 1
      <4>1. best[b] = Step(n + 1, before[n])
        BY <3>1
      <4>2. best[b - 1] = before[n]
        BY <3>1
      <4> QED
        BY <3>1, <4>1, <4>2
    <3>2. CASE b # n + 1
      <4>1. /\ best[b] = before[b] /\ (b # 0 => best[b - 1] = before[b - 1])
            /\ b = 0 \/ b \in 1 .. n
        BY <3>2
      <4> HIDE DEF best
      <4> QED
        BY <2>2, <4>1
    <3> QED
      BY <3>1, <3>2
  <2>4. best = [b \in 0 .. n + 1 |-> best[b]]
    OBVIOUS
  <2> HIDE DEF best
  <2>5. best = [b \in 0 .. n + 1 |-> IF b = 0 THEN 0 ELSE Step(b, best[b - 1])]
    BY <2>3, <2>4
  <2>6. IsHighest(punk, n + 1, best)
    BY <2>5 DEF IsHighest, Step
  <2> QED
    BY <2>6
<1> HIDE DEF Y
<1>3. Nat \subseteq Y
  BY <1>1, <1>2, NatSetInduction
<1> QED
  BY <1>3 DEF Y

(* b is the place of the highest bid of the punk, of the first k. *)
IsHighestOf(b, punk, k) ==
  /\ b = 0 => \A i \in 1 .. k : P!Bids[i].punk # punk
  /\ b # 0 => /\ b \in 1 .. k /\ P!Bids[b].punk = punk
              /\ \A i \in 1 .. k : P!Bids[i].punk = punk =>
                   /\ P!Bids[i].price <= P!Bids[b].price
                   /\ i < b => P!Bids[i].price < P!Bids[b].price

LEMMA HighestStep ==
  ASSUME NEW n \in Nat, NEW k \in 1 .. n, NEW punk, NEW b, IsHighestOf(b, punk, k - 1),
         \A i \in 1 .. n : P!Bids[i].price \in Nat
  PROVE  IsHighestOf(IF P!Bids[k].punk = punk /\ P!Outbids(k, b) THEN k ELSE b, punk, k)
<1>1. /\ \A i \in 1 .. k : i = k \/ i \in 1 .. k - 1
      /\ \A i \in 1 .. k - 1 : i \in 1 .. k /\ i \in 1 .. n /\ i < k /\ i \in Nat
      /\ k \in 1 .. k /\ k \in Nat /\ k # 0 /\ ~(k < k)
      /\ \A i \in 1 .. k : i \in 1 .. n
  OBVIOUS
<1>2. CASE P!Bids[k].punk = punk /\ P!Outbids(k, b)
  <2>1. \A i \in 1 .. k - 1 : P!Bids[i].punk = punk => P!Bids[i].price < P!Bids[k].price
    <3>1. CASE b = 0
      BY <3>1 DEF IsHighestOf
    <3>2. CASE b # 0
      <4>1. P!Bids[k].price > P!Bids[b].price /\ b \in 1 .. k - 1
        BY <1>2, <3>2 DEF P!Outbids, IsHighestOf
      <4>2. \A i \in 1 .. k - 1 : P!Bids[i].punk = punk => P!Bids[i].price <= P!Bids[b].price
        BY <3>2 DEF IsHighestOf
      <4> QED
        BY <1>1, <4>1, <4>2
    <3> QED
      BY <3>1, <3>2
  <2>2. \A i \in 1 .. k : P!Bids[i].punk = punk =>
          /\ P!Bids[i].price <= P!Bids[k].price
          /\ i < k => P!Bids[i].price < P!Bids[k].price
    BY <1>1, <2>1
  <2> QED
    BY <1>1, <1>2, <2>2 DEF IsHighestOf
<1>3. CASE ~(P!Bids[k].punk = punk /\ P!Outbids(k, b))
  <2>1. CASE P!Bids[k].punk # punk
    <3>1. b # 0 => b \in 1 .. k
      BY <1>1 DEF IsHighestOf
    <3> QED
      BY <1>1, <1>3, <2>1, <3>1 DEF IsHighestOf
  <2>2. CASE P!Bids[k].punk = punk
    <3>1. b # 0 /\ ~(P!Bids[k].price > P!Bids[b].price)
      BY <1>3, <2>2 DEF P!Outbids
    <3>2. b \in 1 .. k - 1 /\ b \in 1 .. k /\ b \in Nat /\ ~(k < b) /\ b \in 1 .. n
      BY <1>1, <3>1 DEF IsHighestOf
    <3>3. P!Bids[k].price <= P!Bids[b].price
      BY <1>1, <3>1, <3>2
    <3> QED
      BY <1>1, <1>3, <3>1, <3>2, <3>3 DEF IsHighestOf
  <2> QED
    BY <2>1, <2>2
<1> QED
  BY <1>2, <1>3

LEMMA HighestIsHighest ==
  ASSUME NEW n \in Nat, n = Len(P!Bids), NEW punk,
         \A i \in 1 .. n : P!Bids[i].price \in Nat
  PROVE  IsHighestOf(P!HighestBid(punk), punk, n)
<1>1. P!HighestBid(punk) = (CHOOSE best : IsHighest(punk, n, best))[n]
  BY DEF P!HighestBid, IsHighest
<1>2. PICK best : IsHighest(punk, n, best) /\ P!HighestBid(punk) = best[n]
  BY <1>1, HighestExists
<1>3. /\ best[0] = 0
      /\ \A b \in 1 .. n : best[b] =
           IF P!Bids[b].punk = punk /\ P!Outbids(b, best[b - 1]) THEN b ELSE best[b - 1]
  BY <1>2, HighestByStep
<1> DEFINE Y == {k \in Nat : k <= n => IsHighestOf(best[k], punk, k)}
<1>4. 0 \in Y
  <2>1. 1 .. 0 = {}
    OBVIOUS
  <2> QED
    BY <1>3, <2>1 DEF IsHighestOf
<1>5. ASSUME NEW k \in Nat, k \in Y
      PROVE  k + 1 \in Y
  <2> SUFFICES ASSUME k + 1 <= n
               PROVE  IsHighestOf(best[k + 1], punk, k + 1)
    OBVIOUS
  <2>1. k + 1 \in 1 .. n /\ (k + 1) - 1 = k
    OBVIOUS
  <2>2. IsHighestOf(best[k], punk, (k + 1) - 1)
    BY <1>5, <2>1
  <2>3. best[k + 1] = IF P!Bids[k + 1].punk = punk /\ P!Outbids(k + 1, best[k])
                        THEN k + 1 ELSE best[k]
    BY <1>3, <2>1
  <2>4. IsHighestOf(IF P!Bids[k + 1].punk = punk /\ P!Outbids(k + 1, best[k])
                      THEN k + 1 ELSE best[k], punk, k + 1)
    BY <2>1, <2>2, HighestStep
  <2> QED
    BY <2>3, <2>4
<1> HIDE DEF Y
<1>6. Nat \subseteq Y
  BY <1>4, <1>5, NatSetInduction
<1> QED
  BY <1>2, <1>6 DEF Y

BidTraces == {t \in input : t.kind = "bid"}
AcceptTraces == {t \in input : t.kind = "accept" /\ ~t.failed}

LEMMA PunkListsAreSorted ==
  ASSUME HavePlaces(input)
  PROVE  /\ HavePlaces(BidTraces) /\ HavePlaces(AcceptTraces)
         /\ P!Bids = P!InOrder(BidTraces) /\ P!Acceptances = P!InOrder(AcceptTraces)
<1>1. IsFiniteSet(BidTraces) /\ IsFiniteSet(AcceptTraces)
  <2>1. BidTraces \in SUBSET input /\ AcceptTraces \in SUBSET input
    BY DEF BidTraces, AcceptTraces
  <2> QED
    BY <2>1, FS_Subset DEF HavePlaces
<1>2. HavePlaces(BidTraces) /\ HavePlaces(AcceptTraces)
  BY <1>1 DEF HavePlaces, BidTraces, AcceptTraces
<1> QED
  BY <1>2 DEF P!Bids, P!Acceptances, BidTraces, AcceptTraces

(* The first of the best bids has one name only. *)
LEMMA EarliestIsOne ==
  ASSUME NEW B, HavePlaces(B), NEW b \in B, \A c \in B : b = c \/ P!Before(b, c)
  PROVE  P!Earliest(B) = b
<1>1. P!Earliest(B) \in B /\ \A c \in B : P!Earliest(B) = c \/ P!Before(P!Earliest(B), c)
  BY DEF P!Earliest
<1> QED
  BY <1>1, BeforeIsAnOrder

LEMMA HighestIsBest ==
  ASSUME HavePlaces(input), NEW punk
  PROVE  LET b == P!HighestBid(punk)
         IN  /\ b = 0 => P!BestBids(punk) = {}
             /\ b # 0 => /\ P!Bids[b] \in P!BestBids(punk)
                         /\ P!Bids[b] = P!Earliest(P!BestBids(punk))
                         /\ \A c \in P!BestBids(punk) : c.price = P!Bids[b].price
<1> DEFINE b == P!HighestBid(punk)
           n == Len(P!Bids)
<1>1. /\ n \in Nat
      /\ \A i \in 1 .. n : P!Bids[i] \in BidTraces
      /\ \A t \in BidTraces : \E i \in 1 .. n : P!Bids[i] = t
      /\ \A i, j \in 1 .. n : i < j => P!Before(P!Bids[i], P!Bids[j])
  BY PunkListsAreSorted, InOrderIsSorted
<1>2. \A t \in input : t.price \in Nat
  BY DEF HavePlaces
<1>3. \A i \in 1 .. n : P!Bids[i] \in input /\ P!Bids[i].kind = "bid"
                        /\ P!Bids[i].price \in Nat
  BY <1>1, <1>2 DEF BidTraces
<1>4. IsHighestOf(b, punk, n)
  BY <1>1, <1>3, HighestIsHighest
<1>5. \A t \in input : t.kind = "bid" => \E i \in 1 .. n : P!Bids[i] = t
  BY <1>1 DEF BidTraces
<1> HIDE DEF b, n
<1>6. b = 0 => P!BestBids(punk) = {}
  <2> SUFFICES ASSUME b = 0, NEW t \in P!BestBids(punk)
               PROVE  FALSE
    OBVIOUS
  <2>1. t \in input /\ t.kind = "bid" /\ t.punk = punk
    BY DEF P!BestBids
  <2> QED
    BY <1>4, <1>5, <2>1 DEF IsHighestOf
<1>7. ASSUME b # 0
      PROVE  /\ P!Bids[b] \in P!BestBids(punk)
             /\ P!Bids[b] = P!Earliest(P!BestBids(punk))
             /\ \A c \in P!BestBids(punk) : c.price = P!Bids[b].price
  <2>1. /\ b \in 1 .. n /\ P!Bids[b].punk = punk
        /\ \A i \in 1 .. n : P!Bids[i].punk = punk =>
             /\ P!Bids[i].price <= P!Bids[b].price
             /\ i < b => P!Bids[i].price < P!Bids[b].price
    BY <1>4, <1>7 DEF IsHighestOf
  <2>2. \A c \in input : c.kind = "bid" /\ c.punk = punk => c.price <= P!Bids[b].price
    BY <1>5, <2>1
  <2>3. P!Bids[b] \in P!BestBids(punk)
    BY <1>3, <2>1, <2>2 DEF P!BestBids
  <2>4. \A c \in P!BestBids(punk) : c.price = P!Bids[b].price
    <3> TAKE c \in P!BestBids(punk)
    <3>1. c \in input /\ c.kind = "bid" /\ c.punk = punk /\ P!Bids[b].price <= c.price
      BY <1>3, <2>1, <2>3 DEF P!BestBids
    <3>2. c.price <= P!Bids[b].price
      BY <2>2, <3>1
    <3> QED
      BY <1>2, <1>3, <2>1, <3>1, <3>2
  <2>5. \A c \in P!BestBids(punk) : P!Bids[b] = c \/ P!Before(P!Bids[b], c)
    <3> TAKE c \in P!BestBids(punk)
    <3>1. PICK i \in 1 .. n : P!Bids[i] = c
      BY <1>5 DEF P!BestBids
    <3>2. P!Bids[i].punk = punk /\ P!Bids[i].price = P!Bids[b].price
      BY <2>4, <3>1 DEF P!BestBids
    <3>3. ~(i < b)
      <4>1. P!Bids[b].price \in Nat /\ ~(P!Bids[b].price < P!Bids[b].price)
        BY <1>3, <2>1
      <4> QED
        BY <2>1, <3>2, <4>1
    <3>4. i = b \/ b < i
      BY <2>1, <3>3
    <3> QED
      BY <1>1, <2>1, <3>1, <3>4 DEF n
  <2>6. HavePlaces(P!BestBids(punk))
    <3>1. P!BestBids(punk) \in SUBSET input
      BY DEF P!BestBids
    <3>2. IsFiniteSet(P!BestBids(punk))
      BY <3>1, FS_Subset DEF HavePlaces
    <3> QED
      BY <3>1, <3>2 DEF HavePlaces
  <2> QED
    BY <2>3, <2>4, <2>5, <2>6, EarliestIsOne
<1> QED
  BY <1>6, <1>7 DEF b

(* The code's condition is the property's. *)
LEMMA SnipedWhenToBe ==
  ASSUME HavePlaces(input), NEW a
  PROVE  P!IsSniped(a) <=> P!IsToBeSniped(a)
<1>1. \A c \in P!BestBids(a.punk) : P!HighestBid(a.punk) # 0
  BY HighestIsBest
<1>2. P!HighestBid(a.punk) # 0 =>
        /\ P!Bids[P!HighestBid(a.punk)] \in P!BestBids(a.punk)
        /\ \A c \in P!BestBids(a.punk) : c.price = P!Bids[P!HighestBid(a.punk)].price
  BY HighestIsBest
<1> QED
  BY <1>1, <1>2 DEF P!IsSniped, P!IsToBeSniped

SnipesOf(block) == {P!Snipe(b, a) : b \in block, a \in block}

(* The property, with the cardinality of the theorems on finite sets. *)
Exact ==
  /\ Len(result) = Cardinality(P!Sniped)
  /\ \A k \in P!Sniped :
       result[RankIn(P!Sniped, k)]
         = P!Snipe(P!Earliest(P!BestBids(P!Acceptances[k].punk)), P!Acceptances[k])

PunkInv ==
  /\ HavePlaces(input)
  /\ at \in 1 .. Len(P!Acceptances) + 1
  /\ result \in Seq(SnipesOf(input))
  /\ Exact

LEMMA PunksBegin == ASSUME P!Init PROVE PunkInv
<1>1. input \in BidBlocks /\ at = 1 /\ result = << >>
  BY DEF P!Init
<1>2. HavePlaces(input)
  BY <1>1, BidsAssumption DEF BidsHavePlaces, HavePlaces
<1>3. Len(P!Acceptances) \in Nat
  BY <1>2, PunkListsAreSorted, InOrderIsSorted
<1>4. P!Sniped = {}
  <2>1. 1 .. at - 1 = {}
    BY <1>1
  <2> QED
    BY <2>1 DEF P!Sniped
<1>5. Len(result) = 0 /\ Cardinality(P!Sniped) = 0 /\ result \in Seq(SnipesOf(input))
  BY <1>1, <1>4, FS_EmptySet
<1>6. Exact
  BY <1>4, <1>5 DEF Exact
<1> QED
  BY <1>1, <1>2, <1>3, <1>5, <1>6 DEF PunkInv

LEMMA PunksGoOn ==
  ASSUME PunkInv, [P!Next]_P!vars
  PROVE  PunkInv'
<1>1. /\ HavePlaces(input) /\ at \in 1 .. Len(P!Acceptances) + 1
      /\ result \in Seq(SnipesOf(input)) /\ Exact
      /\ Len(P!Acceptances) \in Nat /\ DOMAIN P!Acceptances = 1 .. Len(P!Acceptances)
      /\ \A k \in 1 .. Len(P!Acceptances) : P!Acceptances[k] \in input
  <2>1. /\ Len(P!Acceptances) \in Nat /\ DOMAIN P!Acceptances = 1 .. Len(P!Acceptances)
        /\ \A k \in 1 .. Len(P!Acceptances) : P!Acceptances[k] \in AcceptTraces
    BY PunkListsAreSorted, InOrderIsSorted DEF PunkInv
  <2> QED
    BY <2>1 DEF PunkInv, AcceptTraces
<1>2. ASSUME input' = input
      PROVE  /\ P!Acceptances' = P!Acceptances
             /\ \A a : P!IsToBeSniped(a)' = P!IsToBeSniped(a)
             /\ \A punk : P!BestBids(punk)' = P!BestBids(punk)
  <2>1. \A punk : P!BestBids(punk)' = P!BestBids(punk)
    BY <1>2 DEF P!BestBids
  <2>2. \A a : P!IsToBeSniped(a)' = P!IsToBeSniped(a)
    BY <2>1 DEF P!IsToBeSniped
  <2>3. P!Acceptances' = P!Acceptances
    BY <1>2 DEF P!Acceptances
  <2> QED
    BY <2>1, <2>2, <2>3
<1> DEFINE a == P!Acceptances[at]
           snipe == P!Snipe(P!Bids[P!HighestBid(a.punk)], a)
           Snipe(k) == P!Snipe(P!Earliest(P!BestBids(P!Acceptances[k].punk)),
                               P!Acceptances[k])
<1>3. /\ Len(result) = Cardinality(P!Sniped)
      /\ \A k \in P!Sniped : result[RankIn(P!Sniped, k)] = Snipe(k)
  BY <1>1 DEF Exact
<1>4. P!Sniped \in SUBSET (1 .. at - 1) /\ at \in Nat \ {0}
  BY <1>1 DEF P!Sniped
<1>5. ASSUME P!Visit
      PROVE  /\ input' = input /\ at \in 1 .. Len(P!Acceptances) /\ at' = at + 1
             /\ at' \in 1 .. Len(P!Acceptances) + 1
             /\ P!Sniped' = IF P!IsSniped(a) THEN P!Sniped \cup {at} ELSE P!Sniped
  <2>1. input' = input /\ at \in 1 .. Len(P!Acceptances) /\ at' = at + 1
    BY <1>1, <1>5 DEF P!Visit
  <2>2. at' \in 1 .. Len(P!Acceptances) + 1 /\ 1 .. at' - 1 = (1 .. at - 1) \cup {at}
    BY <1>1, <2>1
  <2>3. P!IsSniped(a) <=> P!IsToBeSniped(P!Acceptances[at])
    BY <1>1, SnipedWhenToBe
  <2>4. P!Sniped' = {k \in 1 .. at' - 1 : P!IsToBeSniped(P!Acceptances[k])}
    BY <1>2, <2>1 DEF P!Sniped
  <2>5. P!Sniped' = IF P!IsSniped(a) THEN P!Sniped \cup {at} ELSE P!Sniped
    <3> HIDE DEF a
    <3> QED
      BY <2>2, <2>3, <2>4 DEF P!Sniped
  <2> QED
    BY <2>1, <2>2, <2>5
<1> HIDE DEF a, snipe, Snipe
<1>6. ASSUME input' = input, Len(result') = Cardinality(P!Sniped'),
             \A k \in P!Sniped' : result'[RankIn(P!Sniped', k)] = Snipe(k)
      PROVE  Exact'
  BY <1>2, <1>6 DEF Exact, Snipe, P!Earliest
<1>7. CASE P!VisitSniped
  <2>1. /\ input' = input /\ at \in 1 .. Len(P!Acceptances) /\ at' = at + 1
        /\ at' \in 1 .. Len(P!Acceptances) + 1
        /\ P!IsSniped(a) /\ result' = Append(result, snipe)
        /\ P!Sniped' = P!Sniped \cup {at}
    BY <1>5, <1>7 DEF P!VisitSniped, snipe, a
  <2>2. /\ P!Bids[P!HighestBid(a.punk)] = P!Earliest(P!BestBids(a.punk))
        /\ P!Bids[P!HighestBid(a.punk)] \in P!BestBids(a.punk)
    BY <1>1, <2>1, HighestIsBest DEF P!IsSniped
  <2>3. snipe = Snipe(at) /\ snipe \in SnipesOf(input)
    <3>1. P!Bids[P!HighestBid(a.punk)] \in input /\ a \in input
      BY <1>1, <2>1, <2>2 DEF P!BestBids, a
    <3> QED
      BY <2>2, <3>1 DEF snipe, Snipe, a, SnipesOf
  <2>4. /\ Len(result') = Len(result) + 1 /\ result' \in Seq(SnipesOf(input))
        /\ \A i \in 1 .. Len(result) : result'[i] = result[i]
        /\ result'[Len(result) + 1] = snipe
    BY <1>1, <2>1, <2>3
  <2>5. /\ Cardinality(P!Sniped') = Len(result) + 1
        /\ RankIn(P!Sniped', at) = Len(result) + 1
        /\ \A k \in P!Sniped : /\ RankIn(P!Sniped', k) = RankIn(P!Sniped, k)
                               /\ RankIn(P!Sniped, k) \in 1 .. Len(result)
    BY <1>3, <1>4, <2>1, RankOfOneMore
  <2>6. \A k \in P!Sniped' : result'[RankIn(P!Sniped', k)] = Snipe(k)
    BY <1>3, <2>1, <2>3, <2>4, <2>5
  <2>7. Exact'
    BY <1>6, <2>1, <2>4, <2>5, <2>6
  <2> QED
    BY <1>1, <1>2, <2>1, <2>4, <2>7 DEF PunkInv
<1>8. CASE P!VisitOther
  <2>1. /\ input' = input /\ at' \in 1 .. Len(P!Acceptances) + 1 /\ result' = result
        /\ P!Sniped' = P!Sniped
    BY <1>5, <1>8 DEF P!VisitOther, a
  <2>2. Exact'
    BY <1>3, <1>6, <2>1
  <2> QED
    BY <1>1, <1>2, <2>1, <2>2 DEF PunkInv
<1>9. CASE UNCHANGED P!vars
  <2>1. input' = input /\ at' = at /\ result' = result
    BY <1>9 DEF P!vars
  <2>2. P!Sniped' = P!Sniped
    BY <1>2, <2>1 DEF P!Sniped
  <2>3. Exact'
    BY <1>3, <1>6, <2>1, <2>2
  <2> QED
    BY <1>1, <1>2, <2>1, <2>3 DEF PunkInv
<1> QED
  BY <1>7, <1>8, <1>9 DEF P!Next

(***************************************************************************)
(* In every block get_punk_snipes reports the snipes there are, each with  *)
(* the first of the best bids, in the order of the acceptances.            *)
(***************************************************************************)
THEOREM SnipesAreFound == Spec => []SnipesAreExact
<1> DEFINE Inv == algorithm = "punks" => PunkInv
<1>1. Init => Inv
  BY OneBegins, PunksBegin
<1>2. Inv /\ [Next]_variables => Inv'
  <2> SUFFICES ASSUME Inv, [Next]_variables, algorithm' = "punks"
               PROVE  PunkInv'
    OBVIOUS
  <2>1. algorithm = "punks" /\ PunkInv
    BY OneGoesOn
  <2>2. [P!Next]_P!vars
    BY <2>1, OneGoesOn DEF variables, P!vars
  <2> QED
    BY <2>1, <2>2, PunksGoOn
<1>3. Inv => SnipesAreExact
  BY PunkCardinality DEF PunkInv, Exact, RankIn, SnipesAreExact, P!SnipesAreExact, P!Rank
<1> QED
  BY <1>1, <1>2, <1>3, PTL DEF Spec
-----------------------------------------------------------------------------
(* Classifier: input is trace, and result is classified.  First the table  *)
(* of the specs, which is a constant.                                      *)

PlainPools ==
  {"StableSwap3Pool", "StableSwapAETH", "StableSwapEURS", "StableSwaphBTC",
   "StableSwapLink", "StableSwaprenBTC", "StableSwaprETH", "StableSwapsBTC",
   "StableSwapsETH", "StableSwapstETH"}

LendingPools ==
  {"StableSwapAAVE", "StableSwapBUSD", "StableSwapCompound", "StableSwapIronBank",
   "StableSwapPAX", "StableSwapsAAVE", "StableSwapsUSD", "StableSwapUSDT",
   "StableSwapY", "StableSwapYv2", "StableSwapbBTC", "StableSwapDUSD",
   "StableSwapGUSD", "StableSwapHUSD", "StableSwapLinkUSD", "StableSwapMUSD",
   "StableSwapoBTC", "StableSwappBTC", "StableSwapRSV", "StableSwaptBTC",
   "StableSwapUSD", "StableSwapUSDP", "StableSwapUST"}

(* The ABIs with one class for all that they classify. *)
OneClass ==
  {"ERC20", "WETH9", "UniswapV3Pool", "UniswapV2Pair", "AaveLendingPool",
   "aTokens", "INativeOrdersFeature", "BPool", "WyvernExchange", "BancorNetwork"}

ClassAt(a) ==
  IF a = "ERC20" THEN "ERC20TransferClassifier"
  ELSE IF a = "WETH9" THEN "WethTransferClassifier"
  ELSE IF a = "UniswapV3Pool" THEN "UniswapV3SwapClassifier"
  ELSE IF a = "UniswapV2Pair" THEN "UniswapV2SwapClassifier"
  ELSE IF a = "AaveLendingPool" THEN "AaveLiquidationClassifier"
  ELSE IF a = "aTokens" THEN "AaveTransferClassifier"
  ELSE IF a = "INativeOrdersFeature" THEN "ZeroExSwapClassifier"
  ELSE IF a = "BPool" THEN "BalancerSwapClassifier"
  ELSE IF a = "WyvernExchange" THEN "OpenseaClassifier"
  ELSE "BancorSwapClassifier"

FunctionsAt(a) ==
  IF a \in {"ERC20", "WETH9"} THEN C!Transfers
  ELSE IF a = "UniswapV3Pool" THEN {"swapV3"}
  ELSE IF a = "UniswapV2Pair" THEN {"swapV2"}
  ELSE IF a = "AaveLendingPool" THEN {"liquidationCall"}
  ELSE IF a = "aTokens" THEN {"transferOnLiquidation"}
  ELSE IF a = "INativeOrdersFeature" THEN C!LimitOrders \cup C!RfqOrders
  ELSE IF a = "BPool" THEN {"swapExactAmountIn", "swapExactAmountOut"}
  ELSE IF a = "WyvernExchange" THEN {"atomicMatch_"}
  ELSE {"convertByPath"}

Liquidator(p) ==
  IF p = "compound_v2" THEN "CompoundLiquidationClassifier"
                       ELSE "CreamLiquidationClassifier"

(* What a spec classifies: its ABI, and with a liquidator its protocol, say. *)
ClassifiersOf(a, p) ==
  IF a \in PlainPools THEN C!All({"exchange"}, "CurveSwapClassifier")
  ELSE IF a \in LendingPools
       THEN C!All({"exchange", "exchange_underlying"}, "CurveSwapClassifier")
  ELSE IF a \in OneClass THEN C!All(FunctionsAt(a), ClassAt(a))
  ELSE IF a = "CEther"
       THEN [liquidateBorrowEther |-> Liquidator(p), seize |-> "SeizeClassifier"]
  ELSE IF a = "CToken"
       THEN [liquidateBorrow |-> Liquidator(p), seize |-> "SeizeClassifier"]
  ELSE IF a = "cryptopunks"
       THEN [enterBidForPunk |-> "PunkBidClassifier",
             acceptBidForPunk |-> "PunkBidAcceptanceClassifier"]
  ELSE C!Nothing

(* The functions that a spec without a list may classify, transfers aside. *)
Common ==
  {"swapV3", "swapV2", "liquidationCall", "transferOnLiquidation",
   "swapExactAmountIn", "swapExactAmountOut"}

(* All functions that have a classifier. *)
Classifiable ==
  {"exchange", "exchange_underlying", "liquidateBorrowEther", "liquidateBorrow",
   "seize", "enterBidForPunk", "acceptBidForPunk", "atomicMatch_",
   "convertByPath"}
  \cup C!Transfers \cup C!LimitOrders \cup C!RfqOrders \cup Common

IsRow(s) ==
  /\ s.abi \notin Classifiable
  /\ s.classifiers = ClassifiersOf(s.abi, s.protocol)
  /\ s.contracts = C!Anywhere => DOMAIN s.classifiers \subseteq C!Transfers \cup Common
  /\ s.contracts # C!Anywhere => DOMAIN s.classifiers \cap Common = {}

IsTable(list) == \E X : (\A s \in X : IsRow(s)) /\ list \in Seq(X)

(* The ABIs of which nothing is classified. *)
Unclassified(a) ==
  /\ a \notin PlainPools /\ a \notin LendingPools /\ a \notin OneClass
  /\ a # "CEther" /\ a # "CToken" /\ a # "cryptopunks" /\ a \notin Classifiable

LEMMA TablesJoin ==
  ASSUME NEW list, NEW other, IsTable(list), IsTable(other)
  PROVE  IsTable(list \o other)
<1>1. PICK X : (\A s \in X : IsRow(s)) /\ list \in Seq(X)
  BY DEF IsTable
<1>2. PICK Y : (\A s \in Y : IsRow(s)) /\ other \in Seq(Y)
  BY DEF IsTable
<1>3. list \in Seq(X \cup Y) /\ other \in Seq(X \cup Y)
  BY <1>1, <1>2
<1>4. list \o other \in Seq(X \cup Y)
  BY <1>3
<1> QED
  BY <1>1, <1>2, <1>4 DEF IsTable

(* The names of the functions that are classified, one by one. *)
LEMMA KnownNames ==
  ASSUME NEW f
  PROVE  f \in Classifiable <=>
           \/ f = "exchange" \/ f = "exchange_underlying"
           \/ f = "liquidateBorrowEther" \/ f = "liquidateBorrow" \/ f = "seize"
           \/ f = "enterBidForPunk" \/ f = "acceptBidForPunk"
           \/ f = "atomicMatch_" \/ f = "convertByPath"
           \/ f = "transfer" \/ f = "transferFrom"
           \/ f = "fillLimitOrder" \/ f = "fillOrKillLimitOrder"
           \/ f = "_fillLimitOrder" \/ f = "fillRfqOrder" \/ f = "_fillRfqOrder"
           \/ f = "swapV3" \/ f = "swapV2" \/ f = "liquidationCall"
           \/ f = "transferOnLiquidation"
           \/ f = "swapExactAmountIn" \/ f = "swapExactAmountOut"
BY DEF Classifiable, Common, C!Transfers, C!LimitOrders, C!RfqOrders

LEMMA TableHasRows ==
  ASSUME NEW list, IsTable(list)
  PROVE  Len(list) \in Nat /\ \A i \in 1 .. Len(list) : IsRow(list[i])
BY DEF IsTable

LEMMA ClassifiesNothing ==
  ASSUME NEW a, NEW p, NEW c, Unclassified(a)
  PROVE  IsRow(C!ClassifierSpec(a, p, c, C!Nothing))
<1>1. ClassifiersOf(a, p) = C!Nothing
  BY DEF ClassifiersOf, Unclassified
<1>2. DOMAIN C!Nothing = {}
  BY DEF C!Nothing
<1> QED
  BY <1>1, <1>2 DEF IsRow, Unclassified, C!ClassifierSpec

LEMMA ListIsSeq ==
  ASSUME NEW X, NEW n \in Nat, NEW list \in [1 .. n -> X]
  PROVE  list \in Seq(X)
OBVIOUS

LEMMA PlainTable ==
  ASSUME NEW Z, \A a \in Z : Unclassified(a), NEW abis \in Seq(Z), NEW p
  PROVE  IsTable(C!PlainSpecs(abis, p)) /\ IsTable(C!GeneralSpecs(abis, p))
<1> DEFINE X == {C!ClassifierSpec(a, p, {a}, C!Nothing) : a \in Z}
           Y == {C!ClassifierSpec(a, p, C!Anywhere, C!Nothing) : a \in Z}
<1>1. (\A s \in X : IsRow(s)) /\ (\A s \in Y : IsRow(s))
  BY ClassifiesNothing
<1>2. \A a \in Z : /\ C!ClassifierSpec(a, p, {a}, C!Nothing) \in X
                  /\ C!ClassifierSpec(a, p, C!Anywhere, C!Nothing) \in Y
  OBVIOUS
<1>3. DOMAIN abis = 1 .. Len(abis) /\ Len(abis) \in Nat /\ \A i \in DOMAIN abis : abis[i] \in Z
  OBVIOUS
<1> HIDE DEF X, Y
<1>4. /\ C!PlainSpecs(abis, p) \in [1 .. Len(abis) -> X]
      /\ C!GeneralSpecs(abis, p) \in [1 .. Len(abis) -> Y]
  BY <1>2, <1>3 DEF C!PlainSpecs, C!GeneralSpecs
<1>5. C!PlainSpecs(abis, p) \in Seq(X) /\ C!GeneralSpecs(abis, p) \in Seq(Y)
  BY <1>3, <1>4, ListIsSeq
<1> QED
  BY <1>1, <1>5 DEF IsTable

LEMMA PlainIsRow ==
  ASSUME NEW a \in PlainPools
  PROVE  IsRow(C!Plain(a))
<1>1. ClassifiersOf(a, "curve") = C!All({"exchange"}, "CurveSwapClassifier")
  BY DEF ClassifiersOf
<1>2. DOMAIN ClassifiersOf(a, "curve") = {"exchange"}
  BY <1>1 DEF C!All
<1>3. "exchange" \notin Common
  BY DEF Common
<1>4. {a} # C!Anywhere
  BY DEF C!Anywhere, PlainPools
<1>5. a \notin Classifiable
  BY KnownNames DEF PlainPools
<1> QED
  BY <1>1, <1>2, <1>3, <1>4, <1>5 DEF IsRow, C!Plain, C!CurvePool, C!ClassifierSpec

LEMMA LendingIsRow ==
  ASSUME NEW a \in LendingPools
  PROVE  IsRow(C!Lending(a))
<1>0. a \notin PlainPools
  BY DEF LendingPools, PlainPools
<1>1. ClassifiersOf(a, "curve")
        = C!All({"exchange", "exchange_underlying"}, "CurveSwapClassifier")
  BY <1>0 DEF ClassifiersOf
<1>2. DOMAIN ClassifiersOf(a, "curve") = {"exchange", "exchange_underlying"}
  BY <1>1 DEF C!All
<1>3. "exchange" \notin Common /\ "exchange_underlying" \notin Common
  BY DEF Common
<1>4. {a} # C!Anywhere
  BY DEF C!Anywhere, LendingPools
<1>5. a \notin Classifiable
  BY KnownNames DEF LendingPools
<1> QED
  BY <1>1, <1>2, <1>3, <1>4, <1>5 DEF IsRow, C!Lending, C!CurvePool, C!ClassifierSpec

(* One of the ABIs with one class, and one of the two that seize. *)
LEMMA OneClassIsRow ==
  ASSUME NEW a \in OneClass, NEW p, NEW c,
         c = C!Anywhere => FunctionsAt(a) \subseteq C!Transfers \cup Common,
         c # C!Anywhere => FunctionsAt(a) \cap Common = {}
  PROVE  IsRow(C!ClassifierSpec(a, p, c, C!All(FunctionsAt(a), ClassAt(a))))
<1>1. a \notin PlainPools /\ a \notin LendingPools
  BY DEF OneClass, PlainPools, LendingPools
<1>2. ClassifiersOf(a, p) = C!All(FunctionsAt(a), ClassAt(a))
  BY <1>1 DEF ClassifiersOf
<1>3. DOMAIN C!All(FunctionsAt(a), ClassAt(a)) = FunctionsAt(a)
  BY DEF C!All
<1>4. a \notin Classifiable
  BY KnownNames DEF OneClass
<1> QED
  BY <1>2, <1>3, <1>4 DEF IsRow, C!ClassifierSpec

LEMMA CEtherIsRow ==
  ASSUME NEW p, NEW c, c # C!Anywhere
  PROVE  IsRow(C!CEtherSpec(p, c, Liquidator(p)))
<1>1. ClassifiersOf("CEther", p)
        = [liquidateBorrowEther |-> Liquidator(p), seize |-> "SeizeClassifier"]
  BY DEF ClassifiersOf, PlainPools, LendingPools, OneClass
<1>2. DOMAIN [liquidateBorrowEther |-> Liquidator(p), seize |-> "SeizeClassifier"]
        = {"liquidateBorrowEther", "seize"}
  OBVIOUS
<1>3. "liquidateBorrowEther" \notin Common /\ "seize" \notin Common
  BY DEF Common
<1>4. "CEther" \notin Classifiable
  BY KnownNames
<1> QED
  BY <1>1, <1>2, <1>3, <1>4 DEF IsRow, C!CEtherSpec, C!ClassifierSpec

LEMMA CTokenIsRow ==
  ASSUME NEW p, NEW c, c # C!Anywhere
  PROVE  IsRow(C!CTokenSpec(p, c, Liquidator(p)))
<1>1. ClassifiersOf("CToken", p)
        = [liquidateBorrow |-> Liquidator(p), seize |-> "SeizeClassifier"]
  BY DEF ClassifiersOf, PlainPools, LendingPools, OneClass
<1>2. DOMAIN [liquidateBorrow |-> Liquidator(p), seize |-> "SeizeClassifier"]
        = {"liquidateBorrow", "seize"}
  OBVIOUS
<1>3. "liquidateBorrow" \notin Common /\ "seize" \notin Common
  BY DEF Common
<1>4. "CToken" \notin Classifiable
  BY KnownNames
<1> QED
  BY <1>1, <1>2, <1>3, <1>4 DEF IsRow, C!CTokenSpec, C!ClassifierSpec

LEMMA PunksIsRow == IsRow(C!CRYPTO_PUNKS_SPEC)
<1> DEFINE both == [enterBidForPunk |-> "PunkBidClassifier",
                    acceptBidForPunk |-> "PunkBidAcceptanceClassifier"]
<1>1. ClassifiersOf("cryptopunks", "cryptopunks") = both
  BY DEF ClassifiersOf, PlainPools, LendingPools, OneClass
<1>2. DOMAIN both = {"enterBidForPunk", "acceptBidForPunk"}
  OBVIOUS
<1>3. "enterBidForPunk" \notin Common /\ "acceptBidForPunk" \notin Common
  BY DEF Common
<1>4. {"cryptopunks"} # C!Anywhere
  BY DEF C!Anywhere
<1>5. "cryptopunks" \notin Classifiable
  BY KnownNames
<1> QED
  BY <1>1, <1>2, <1>3, <1>4, <1>5 DEF IsRow, C!CRYPTO_PUNKS_SPEC, C!ClassifierSpec

(* Tuples of rows. *)
LEMMA OneRow ==
  ASSUME NEW a, IsRow(a)
  PROVE  IsTable(<<a>>)
<1>1. <<a>> \in Seq({a})
  OBVIOUS
<1> QED
  BY <1>1 DEF IsTable

LEMMA TwoRows ==
  ASSUME NEW a, NEW b, IsRow(a), IsRow(b)
  PROVE  IsTable(<<a, b>>)
<1>1. <<a, b>> \in Seq({a, b})
  OBVIOUS
<1> QED
  BY <1>1 DEF IsTable

LEMMA CurveTable == IsTable(C!CURVE_BASE_POOLS)
<1> DEFINE P1 == <<"CurveTokenV1", "CurveTokenV2", "CurveTokenV3", "CurveTokenV4">>
           P2 == <<"DepositBUSD", "DepositCompound", "DepositPAX", "DepositsUSD",
                   "DepositTriCrypto", "DepositUSDT", "DepositY">>
           Pools == <<C!Plain("StableSwap3Pool"), C!Lending("StableSwapAAVE"),
              C!Plain("StableSwapAETH"), C!Lending("StableSwapBUSD"),
              C!Lending("StableSwapCompound"), C!Plain("StableSwapEURS"),
              C!Plain("StableSwaphBTC"), C!Lending("StableSwapIronBank"),
              C!Plain("StableSwapLink"), C!Lending("StableSwapPAX"),
              C!Plain("StableSwaprenBTC"), C!Plain("StableSwaprETH"),
              C!Lending("StableSwapsAAVE"), C!Plain("StableSwapsBTC"),
              C!Plain("StableSwapsETH"), C!Plain("StableSwapstETH"),
              C!Lending("StableSwapsUSD"), C!Lending("StableSwapUSDT"),
              C!Lending("StableSwapY"), C!Lending("StableSwapYv2")>>
           Z1 == {"CurveTokenV1", "CurveTokenV2", "CurveTokenV3", "CurveTokenV4"}
           Z2 == {"DepositBUSD", "DepositCompound", "DepositPAX", "DepositsUSD",
                   "DepositTriCrypto", "DepositUSDT", "DepositY"}
           X == {C!Plain(a) : a \in PlainPools} \cup {C!Lending(a) : a \in LendingPools}
<1>1. (\A a \in Z1 : Unclassified(a)) /\ (\A a \in Z2 : Unclassified(a))
  BY KnownNames DEF Unclassified, PlainPools, LendingPools, OneClass
<1>2. P1 \in Seq(Z1) /\ P2 \in Seq(Z2)
  OBVIOUS
<1>3. \A s \in X : IsRow(s)
  BY PlainIsRow, LendingIsRow
<1>4. /\ \A a \in PlainPools : C!Plain(a) \in X
      /\ \A a \in LendingPools : C!Lending(a) \in X
  OBVIOUS
<1> HIDE DEF P1, P2, Z1, Z2, X
<1>5. Pools \in Seq(X)
  BY <1>4 DEF PlainPools, LendingPools
<1>6. IsTable(Pools)
  BY <1>3, <1>5 DEF IsTable
<1> HIDE DEF Pools
<1>7. IsTable(C!PlainSpecs(P1, "curve")) /\ IsTable(C!PlainSpecs(P2, "curve"))
  BY <1>1, <1>2, PlainTable
<1>8. IsTable(C!PlainSpecs(P1, "curve") \o Pools \o C!PlainSpecs(P2, "curve"))
  BY <1>6, <1>7, TablesJoin
<1> QED
  BY <1>8 DEF P1, P2, Pools, C!CURVE_BASE_POOLS

LEMMA MetaTable == IsTable(C!CURVE_META_POOLS)
<1> DEFINE P1 == <<"DepositbBTC", "DepositDUSD", "DepositGUSD",
                   "DepositHUSD", "DepositLinkUSD", "DepositMUSD",
                   "DepositoBTC", "DepositpBTC", "DepositRSV",
                   "DeposittBTC", "DepositUSD", "DepositUST">>
           P2 == <<"StableSwapbBTC", "StableSwapDUSD", "StableSwapGUSD",
                   "StableSwapHUSD", "StableSwapLinkUSD",
                   "StableSwapMUSD", "StableSwapoBTC", "StableSwappBTC",
                   "StableSwapRSV", "StableSwaptBTC", "StableSwapUSD",
                   "StableSwapUSDP", "StableSwapUST">>
           Z1 == {"DepositbBTC", "DepositDUSD", "DepositGUSD",
                  "DepositHUSD", "DepositLinkUSD", "DepositMUSD",
                  "DepositoBTC", "DepositpBTC", "DepositRSV",
                  "DeposittBTC", "DepositUSD", "DepositUST"}
           Two == <<C!ClassifierSpec("CurveTokenV2", "curve", {"MetaTokenV2"}, C!Nothing),
                    C!ClassifierSpec("CurveTokenV3", "curve", {"MetaTokenV3"}, C!Nothing)>>
           X == {C!Lending(a) : a \in LendingPools}
<1>1. \A a \in Z1 : Unclassified(a)
  BY KnownNames DEF Unclassified, PlainPools, LendingPools, OneClass
<1>2. P1 \in Seq(Z1) /\ P2 \in Seq(LendingPools)
  BY DEF LendingPools
<1>3. \A s \in X : IsRow(s)
  BY LendingIsRow
<1>4. \A a \in LendingPools : C!Lending(a) \in X
  OBVIOUS
<1>5. IsTable(Two)
  <2>1. Unclassified("CurveTokenV2") /\ Unclassified("CurveTokenV3")
    BY KnownNames DEF Unclassified, PlainPools, LendingPools, OneClass
  <2> QED
    BY <2>1, ClassifiesNothing, TwoRows
<1> HIDE DEF P1, P2, Z1, X, Two
<1>6. /\ DOMAIN P2 = 1 .. Len(P2) /\ Len(P2) \in Nat
      /\ \A i \in DOMAIN P2 : P2[i] \in LendingPools
  BY <1>2
<1>7. C!Lendings(P2) \in [1 .. Len(P2) -> X]
  BY <1>4, <1>6 DEF C!Lendings
<1>8. IsTable(C!Lendings(P2))
  BY <1>3, <1>6, <1>7, ListIsSeq DEF IsTable
<1>9. IsTable(C!PlainSpecs(P1, "curve"))
  BY <1>1, <1>2, PlainTable
<1>10. IsTable(Two \o C!PlainSpecs(P1, "curve") \o C!Lendings(P2))
  BY <1>5, <1>8, <1>9, TablesJoin
<1> QED
  BY <1>10 DEF P1, P2, Two, C!CURVE_META_POOLS

LEMMA UniswapTable == IsTable(C!UNISWAP_CLASSIFIER_SPECS)
<1> DEFINE P1 == <<"UniswapV3Factory", "Multicall2", "ProxyAdmin",
                   "TickLens", "Quoter", "SwapRouter", "NFTDescriptor",
                   "NonfungibleTokenPositionDescriptor",
                   "TransparentUpgradeableProxy",
                   "NonfungiblePositionManager", "V3Migrator">>
           P2 == <<"IUniswapV3SwapCallback", "IUniswapV3MintCallback",
                   "IUniswapV3FlashCallback">>
           Z == {"UniswapV3Factory", "Multicall2", "ProxyAdmin",
                 "TickLens", "Quoter", "SwapRouter", "NFTDescriptor",
                 "NonfungibleTokenPositionDescriptor",
                 "TransparentUpgradeableProxy",
                 "NonfungiblePositionManager", "V3Migrator",
                 "IUniswapV3SwapCallback", "IUniswapV3MintCallback",
                 "IUniswapV3FlashCallback"}
           Pool == C!ClassifierSpec("UniswapV3Pool", "uniswap_v3", C!Anywhere,
                     C!All({"swapV3"}, "UniswapV3SwapClassifier"))
<1>1. \A a \in Z : Unclassified(a)
  BY KnownNames DEF Unclassified, PlainPools, LendingPools, OneClass
<1>2. P1 \in Seq(Z) /\ P2 \in Seq(Z)
  OBVIOUS
<1>3. IsTable(C!UNISWAPPY_V2_CONTRACT_SPECS)
  <2>1. Unclassified("UniswapV2Router")
    BY KnownNames DEF Unclassified, PlainPools, LendingPools, OneClass
  <2> QED
    BY <2>1, ClassifiesNothing, TwoRows DEF C!UNISWAPPY_V2_CONTRACT_SPECS
<1>4. IsTable(<<Pool>>)
  <2>1. /\ "UniswapV3Pool" \in OneClass
        /\ FunctionsAt("UniswapV3Pool") = {"swapV3"}
        /\ ClassAt("UniswapV3Pool") = "UniswapV3SwapClassifier"
    BY DEF OneClass, FunctionsAt, ClassAt
  <2>2. FunctionsAt("UniswapV3Pool") \subseteq Common
    BY <2>1 DEF Common
  <2>3. IsRow(Pool)
    BY <2>1, <2>2, OneClassIsRow
  <2> QED
    BY <2>3, OneRow
<1>5. IsTable(<<C!UNISWAPPY_V2_PAIR_SPEC>>)
  <2>1. /\ "UniswapV2Pair" \in OneClass
        /\ FunctionsAt("UniswapV2Pair") = {"swapV2"}
        /\ ClassAt("UniswapV2Pair") = "UniswapV2SwapClassifier"
    BY DEF OneClass, FunctionsAt, ClassAt
  <2>2. FunctionsAt("UniswapV2Pair") \subseteq Common
    BY <2>1 DEF Common
  <2>3. IsRow(C!UNISWAPPY_V2_PAIR_SPEC)
    BY <2>1, <2>2, OneClassIsRow DEF C!UNISWAPPY_V2_PAIR_SPEC
  <2> QED
    BY <2>3, OneRow
<1> HIDE DEF P1, P2, Z, Pool
<1>6. IsTable(C!PlainSpecs(P1, "uniswap_v3")) /\ IsTable(C!GeneralSpecs(P2, "none"))
  BY <1>1, <1>2, PlainTable
<1>7. IsTable(C!UNISWAP_V3_CONTRACT_SPECS)
  BY <1>6 DEF P1, C!UNISWAP_V3_CONTRACT_SPECS
<1>8. IsTable(<<Pool>> \o C!GeneralSpecs(P2, "none"))
  BY <1>4, <1>6, TablesJoin
<1>9. IsTable(C!UNISWAP_V3_GENERAL_SPECS)
  BY <1>8 DEF P2, Pool, C!UNISWAP_V3_GENERAL_SPECS
<1> QED
  BY <1>3, <1>5, <1>7, <1>9, TablesJoin DEF C!UNISWAP_CLASSIFIER_SPECS

LEMMA ZeroExContractTable == IsTable(C!ZEROX_CONTRACT_SPECS)
<1> DEFINE P1 == <<"exchangeProxyAllowanceTarget",
                   "exchangeProxyFlashWallet", "exchangeProxyGovernor",
                   "exchangeProxyLiquidityProviderSandbox",
                   "exchangeProxyTransformerDeployer", "wethTransformer",
                   "payTakerTransformer", "fillQuoteTransformer",
                   "affiliateFeeTransformer", "staking", "stakingProxy",
                   "zrxToken", "zrxVault", "devUtils">>
           Z == {"exchangeProxyAllowanceTarget",
                 "exchangeProxyFlashWallet", "exchangeProxyGovernor",
                 "exchangeProxyLiquidityProviderSandbox",
                 "exchangeProxyTransformerDeployer", "wethTransformer",
                 "payTakerTransformer", "fillQuoteTransformer",
                 "affiliateFeeTransformer", "staking", "stakingProxy",
                 "zrxToken", "zrxVault", "devUtils"}
           First == <<C!ClassifierSpec("exchangeProxy", "0x", {"exchangeProxy"}, C!Nothing)>>
           Last2 == <<C!ClassifierSpec("etherToken", "0x", {"weth"}, C!Nothing),
                      C!ClassifierSpec("erc20BridgeSampler", "0x",
                                       {"erc20BridgeSampler"}, C!Nothing)>>
<1>1. \A a \in Z : Unclassified(a)
  BY KnownNames DEF Unclassified, PlainPools, LendingPools, OneClass
<1>2. P1 \in Seq(Z)
  OBVIOUS
<1>3. /\ Unclassified("exchangeProxy") /\ Unclassified("etherToken")
      /\ Unclassified("erc20BridgeSampler")
  BY KnownNames DEF Unclassified, PlainPools, LendingPools, OneClass
<1>4. IsTable(First) /\ IsTable(Last2)
  BY <1>3, ClassifiesNothing, OneRow, TwoRows
<1> HIDE DEF P1, Z, First, Last2
<1>5. IsTable(C!PlainSpecs(P1, "0x"))
  BY <1>1, <1>2, PlainTable
<1>6. IsTable(First \o C!PlainSpecs(P1, "0x") \o Last2)
  BY <1>4, <1>5, TablesJoin
<1> QED
  BY <1>6 DEF P1, First, Last2, C!ZEROX_CONTRACT_SPECS

LEMMA ZeroExTable == IsTable(C!ZEROX_GENERIC_SPECS)
<1> DEFINE P1 == <<"IBatchFillNativeOrdersFeature", "IFeature",
                   "IFundRecoveryFeature", "ILiquidityProviderFeature",
                   "IMetaTransactionsFeature", "IMultiplexFeature">>
           P2 == <<"IOtcOrdersFeature", "IOwnableFeature",
                   "IPancakeSwapFeature",
                   "ISimpleFunctionRegistryFeature",
                   "ITestSimpleFunctionRegistryFeature",
                   "ITokenSpenderFeature", "ITransformERC20Feature",
                   "IUniswapFeature", "IUniswapV3Feature",
                   "IBootstrapFeature">>
           Z == {"IBatchFillNativeOrdersFeature", "IFeature",
                 "IFundRecoveryFeature", "ILiquidityProviderFeature",
                 "IMetaTransactionsFeature", "IMultiplexFeature",
                 "IOtcOrdersFeature", "IOwnableFeature",
                 "IPancakeSwapFeature", "ISimpleFunctionRegistryFeature",
                 "ITestSimpleFunctionRegistryFeature",
                 "ITokenSpenderFeature", "ITransformERC20Feature",
                 "IUniswapFeature", "IUniswapV3Feature",
                 "IBootstrapFeature"}
           Orders == C!ClassifierSpec("INativeOrdersFeature", "0x", {"exchangeProxy"},
                       C!All(C!LimitOrders \cup C!RfqOrders, "ZeroExSwapClassifier"))
<1>1. \A a \in Z : Unclassified(a)
  BY KnownNames DEF Unclassified, PlainPools, LendingPools, OneClass
<1>2. P1 \in Seq(Z) /\ P2 \in Seq(Z)
  OBVIOUS
<1>3. IsTable(<<Orders>>)
  <2>1. /\ "INativeOrdersFeature" \in OneClass
        /\ FunctionsAt("INativeOrdersFeature") = C!LimitOrders \cup C!RfqOrders
        /\ ClassAt("INativeOrdersFeature") = "ZeroExSwapClassifier"
    BY DEF OneClass, FunctionsAt, ClassAt
  <2>2. (C!LimitOrders \cup C!RfqOrders) \cap Common = {}
    BY DEF Common, C!LimitOrders, C!RfqOrders
  <2>3. {"exchangeProxy"} # C!Anywhere
    BY DEF C!Anywhere
  <2>4. IsRow(Orders)
    BY <2>1, <2>2, <2>3, OneClassIsRow
  <2> QED
    BY <2>4, OneRow
<1> HIDE DEF P1, P2, Z, Orders
<1>4. IsTable(C!GeneralSpecs(P1, "0x")) /\ IsTable(C!GeneralSpecs(P2, "0x"))
  BY <1>1, <1>2, PlainTable
<1>5. IsTable(C!GeneralSpecs(P1, "0x") \o <<Orders>> \o C!GeneralSpecs(P2, "0x"))
  BY <1>3, <1>4, TablesJoin
<1> QED
  BY <1>5 DEF P1, P2, Orders, C!ZEROX_GENERIC_SPECS

LEMMA LendersTable ==
  /\ IsTable(C!AAVE_CLASSIFIER_SPECS)
  /\ IsTable(C!BALANCER_V1_SPECS)
  /\ IsTable(C!COMPOUND_CLASSIFIER_SPECS)
<1>1. IsTable(C!AAVE_CLASSIFIER_SPECS)
  <2>1. /\ {"AaveLendingPool", "aTokens"} \subseteq OneClass
        /\ FunctionsAt("AaveLendingPool") = {"liquidationCall"}
        /\ FunctionsAt("aTokens") = {"transferOnLiquidation"}
        /\ ClassAt("AaveLendingPool") = "AaveLiquidationClassifier"
        /\ ClassAt("aTokens") = "AaveTransferClassifier"
    BY DEF OneClass, FunctionsAt, ClassAt
  <2>2. /\ FunctionsAt("AaveLendingPool") \subseteq Common
        /\ FunctionsAt("aTokens") \subseteq Common
    BY <2>1 DEF Common
  <2>3. /\ IsRow(C!ClassifierSpec("AaveLendingPool", "aave", C!Anywhere,
                   C!All({"liquidationCall"}, "AaveLiquidationClassifier")))
        /\ IsRow(C!ClassifierSpec("aTokens", "aave", C!Anywhere,
                   C!All({"transferOnLiquidation"}, "AaveTransferClassifier")))
    BY <2>1, <2>2, OneClassIsRow
  <2> QED
    BY <2>3, TwoRows DEF C!AAVE_CLASSIFIER_SPECS
<1>2. IsTable(C!BALANCER_V1_SPECS)
  <2>1. /\ "BPool" \in OneClass
        /\ FunctionsAt("BPool") = {"swapExactAmountIn", "swapExactAmountOut"}
        /\ ClassAt("BPool") = "BalancerSwapClassifier"
    BY DEF OneClass, FunctionsAt, ClassAt
  <2>2. FunctionsAt("BPool") \subseteq Common
    BY <2>1 DEF Common
  <2>3. IsRow(C!ClassifierSpec("BPool", "balancer_v1", C!Anywhere,
                C!All({"swapExactAmountIn", "swapExactAmountOut"},
                      "BalancerSwapClassifier")))
    BY <2>1, <2>2, OneClassIsRow
  <2> QED
    BY <2>3, OneRow DEF C!BALANCER_V1_SPECS
<1>3. IsTable(C!COMPOUND_CLASSIFIER_SPECS)
  <2>1. Liquidator("compound_v2") = "CompoundLiquidationClassifier"
    BY DEF Liquidator
  <2>2. {"cETH"} # C!Anywhere /\ {"cDAI"} # C!Anywhere
    BY DEF C!Anywhere
  <2> QED
    BY <2>1, <2>2, CEtherIsRow, CTokenIsRow, TwoRows DEF C!COMPOUND_CLASSIFIER_SPECS
<1> QED
  BY <1>1, <1>2, <1>3

LEMMA LastRows ==
  /\ IsRow(C!CREAM_CRETH_SPEC) /\ IsRow(C!CREAM_CTOKEN_SPEC)
  /\ IsRow(C!OPENSEA_SPEC) /\ IsRow(C!BANCOR_NETWORK_SPEC)
<1>1. Liquidator("cream") = "CreamLiquidationClassifier"
  BY DEF Liquidator
<1>2. /\ {"crETH"} # C!Anywhere /\ {"crETH", "crDAI"} # C!Anywhere
      /\ {"WyvernExchange"} # C!Anywhere /\ {"BancorNetwork"} # C!Anywhere
  BY DEF C!Anywhere
<1>3. /\ {"WyvernExchange", "BancorNetwork"} \subseteq OneClass
      /\ FunctionsAt("WyvernExchange") = {"atomicMatch_"}
      /\ FunctionsAt("BancorNetwork") = {"convertByPath"}
      /\ ClassAt("WyvernExchange") = "OpenseaClassifier"
      /\ ClassAt("BancorNetwork") = "BancorSwapClassifier"
  BY DEF OneClass, FunctionsAt, ClassAt
<1>4. "atomicMatch_" \notin Common /\ "convertByPath" \notin Common
  BY DEF Common
<1>5. IsRow(C!CREAM_CRETH_SPEC) /\ IsRow(C!CREAM_CTOKEN_SPEC)
  BY <1>1, <1>2, CEtherIsRow, CTokenIsRow DEF C!CREAM_CRETH_SPEC, C!CREAM_CTOKEN_SPEC
<1>6. IsRow(C!OPENSEA_SPEC)
  BY <1>2, <1>3, <1>4, OneClassIsRow DEF C!OPENSEA_SPEC
<1>7. IsRow(C!BANCOR_NETWORK_SPEC)
  BY <1>2, <1>3, <1>4, OneClassIsRow DEF C!BANCOR_NETWORK_SPEC
<1> QED
  BY <1>5, <1>6, <1>7

LEMMA FirstRows == IsRow(C!ERC20_SPEC) /\ IsRow(C!WETH_SPEC)
<1>1. /\ {"ERC20", "WETH9"} \subseteq OneClass
      /\ FunctionsAt("ERC20") = C!Transfers /\ FunctionsAt("WETH9") = C!Transfers
      /\ ClassAt("ERC20") = "ERC20TransferClassifier"
      /\ ClassAt("WETH9") = "WethTransferClassifier"
  BY DEF OneClass, FunctionsAt, ClassAt
<1>2. C!Transfers \cap Common = {} /\ {"weth"} # C!Anywhere
  BY DEF Common, C!Transfers, C!Anywhere
<1>3. IsRow(C!ERC20_SPEC)
  BY <1>1, OneClassIsRow DEF C!ERC20_SPEC
<1>4. IsRow(C!WETH_SPEC)
  BY <1>1, <1>2, OneClassIsRow DEF C!WETH_SPEC
<1> QED
  BY <1>3, <1>4

LEMMA ListsJoin ==
  ASSUME NEW X, NEW list \in Seq(X), NEW other \in Seq(X)
  PROVE  /\ list \o other \in Seq(X)
         /\ Len(list) \in Nat /\ Len(other) \in Nat
         /\ Len(list \o other) = Len(list) + Len(other)
         /\ 1 <= Len(list) => (list \o other)[1] = list[1]
OBVIOUS

LEMMA SpecsAreRows ==
  /\ IsTable(C!Specs)
  /\ Len(C!Specs) \in Nat /\ 1 <= Len(C!Specs) /\ DOMAIN C!Specs = 1 .. Len(C!Specs)
  /\ C!Specs[1] = C!ERC20_SPEC
<1> DEFINE Firsts == <<C!ERC20_SPEC, C!WETH_SPEC>>
           Lasts == <<C!CREAM_CRETH_SPEC, C!CREAM_CTOKEN_SPEC, C!CRYPTO_PUNKS_SPEC,
                      C!OPENSEA_SPEC, C!BANCOR_NETWORK_SPEC>>
           X == {C!CREAM_CRETH_SPEC, C!CREAM_CTOKEN_SPEC, C!CRYPTO_PUNKS_SPEC,
                 C!OPENSEA_SPEC, C!BANCOR_NETWORK_SPEC}
<1>1. IsTable(Firsts)
  BY FirstRows, TwoRows
<1>2. \A s \in X : IsRow(s)
  BY LastRows, PunksIsRow
<1>3. Lasts \in Seq(X)
  OBVIOUS
<1>4. IsTable(Lasts)
  BY <1>2, <1>3 DEF IsTable
<1>5. Len(Firsts) = 2 /\ Firsts[1] = C!ERC20_SPEC
  OBVIOUS
<1> HIDE DEF Firsts, Lasts, X
<1>6. IsTable(C!CURVE_BASE_POOLS \o C!CURVE_META_POOLS \o C!UNISWAP_CLASSIFIER_SPECS
              \o C!AAVE_CLASSIFIER_SPECS \o C!ZEROX_CONTRACT_SPECS \o C!ZEROX_GENERIC_SPECS
              \o C!BALANCER_V1_SPECS \o C!COMPOUND_CLASSIFIER_SPECS \o Lasts)
  BY <1>4, CurveTable, MetaTable, UniswapTable, ZeroExContractTable, ZeroExTable,
     LendersTable, TablesJoin
<1>7. IsTable(C!AllAfterWeth)
  BY <1>6 DEF Lasts, C!AllAfterWeth
<1>8. IsTable(Firsts \o C!AllAfterWeth)
  BY <1>1, <1>7, TablesJoin
<1>9. C!Specs = Firsts \o C!AllAfterWeth
  BY DEF Firsts, C!Specs, C!ALL_CLASSIFIER_SPECS
<1>10. PICK Y : Firsts \in Seq(Y)
  BY <1>1 DEF IsTable
<1>11. PICK Z : C!AllAfterWeth \in Seq(Z)
  BY <1>7 DEF IsTable
<1> DEFINE V == Y \cup Z
<1>12. Firsts \in Seq(V) /\ C!AllAfterWeth \in Seq(V)
  BY <1>10, <1>11
<1> HIDE DEF V
<1>13. /\ C!Specs \in Seq(V) /\ Len(C!Specs) \in Nat /\ 1 <= Len(C!Specs)
       /\ C!Specs[1] = C!ERC20_SPEC
  <2>1. /\ Firsts \o C!AllAfterWeth \in Seq(V)
        /\ Len(Firsts) \in Nat /\ Len(C!AllAfterWeth) \in Nat
        /\ Len(Firsts \o C!AllAfterWeth) = Len(Firsts) + Len(C!AllAfterWeth)
        /\ 1 <= Len(Firsts) => (Firsts \o C!AllAfterWeth)[1] = Firsts[1]
    BY <1>12, ListsJoin
  <2> QED
    BY <1>5, <1>9, <2>1
<1>14. DOMAIN C!Specs = 1 .. Len(C!Specs)
  BY <1>13
<1> QED
  BY <1>8, <1>9, <1>13, <1>14

(* The spec of an ABI and a protocol that is kept. *)
LEMMA HasLast ==
  ASSUME NEW n \in Nat, NEW X \in SUBSET (1 .. n), X # {}
  PROVE  C!Max(X) \in X
<1>1. X \in SUBSET Nat /\ \A x \in X : x <= n
  OBVIOUS
<1>2. \E x \in X : \A y \in X : x >= y
  BY <1>1, HasGreatest
<1> QED
  BY <1>2 DEF C!Max

LEMMA FindSpecFinds ==
  ASSUME NEW i \in DOMAIN C!Specs, NEW j,
         j = C!FindSpec(C!Specs[i].abi, C!Specs[i].protocol)
  PROVE  /\ j \in DOMAIN C!Specs
         /\ C!Specs[j].abi = C!Specs[i].abi
         /\ C!Specs[j].protocol = C!Specs[i].protocol
<1> DEFINE I == {k \in 1 .. Len(C!Specs) : /\ C!Specs[k].abi = C!Specs[i].abi
                                         /\ C!Specs[k].protocol = C!Specs[i].protocol}
<1>1. Len(C!Specs) \in Nat /\ DOMAIN C!Specs = 1 .. Len(C!Specs)
  BY SpecsAreRows
<1>2. i \in I
  BY <1>1
<1>3. j = IF I # {} THEN C!Max(I) ELSE 0
  BY DEF C!FindSpec, C!SelectLastInSeq
<1>4. C!Max(I) \in I
  BY <1>1, <1>2, HasLast
<1> QED
  BY <1>1, <1>2, <1>3, <1>4

LEMMA DecoderFinds ==
  ASSUME NEW i \in DOMAIN C!Specs
  PROVE  \E j \in DOMAIN C!Specs : /\ C!Specs[j].abi = C!Specs[i].abi
                                  /\ C!Decoder(C!Specs[i].abi) = C!Abi(C!Specs[j])
<1> DEFINE I == {k \in 1 .. Len(C!Specs) : C!Specs[k].abi = C!Specs[i].abi}
<1>1. Len(C!Specs) \in Nat /\ DOMAIN C!Specs = 1 .. Len(C!Specs)
  BY SpecsAreRows
<1>2. i \in I
  BY <1>1
<1>3. C!Decoder(C!Specs[i].abi) = C!Abi(C!Specs[IF I # {} THEN C!Max(I) ELSE 0])
  BY DEF C!Decoder, C!SelectLastInSeq
<1>4. C!Max(I) \in I
  BY <1>1, <1>2, HasLast
<1> QED
  BY <1>1, <1>2, <1>3, <1>4

(* Of one ABI, the protocol makes no difference to what is decoded. *)
LEMMA FunctionsAreOfTheAbi ==
  ASSUME NEW a, NEW p, NEW q
  PROVE  DOMAIN ClassifiersOf(a, p) = DOMAIN ClassifiersOf(a, q)
<1>1. /\ DOMAIN [liquidateBorrowEther |-> Liquidator(p), seize |-> "SeizeClassifier"]
           = {"liquidateBorrowEther", "seize"}
      /\ DOMAIN [liquidateBorrowEther |-> Liquidator(q), seize |-> "SeizeClassifier"]
           = {"liquidateBorrowEther", "seize"}
      /\ DOMAIN [liquidateBorrow |-> Liquidator(p), seize |-> "SeizeClassifier"]
           = {"liquidateBorrow", "seize"}
      /\ DOMAIN [liquidateBorrow |-> Liquidator(q), seize |-> "SeizeClassifier"]
           = {"liquidateBorrow", "seize"}
  OBVIOUS
<1>2. CASE a \in PlainPools \/ a \in LendingPools \/ a \in OneClass
  BY <1>2 DEF ClassifiersOf
<1>3. CASE ~(a \in PlainPools \/ a \in LendingPools \/ a \in OneClass) /\ a = "CEther"
  BY <1>1, <1>3 DEF ClassifiersOf
<1>4. CASE /\ ~(a \in PlainPools \/ a \in LendingPools \/ a \in OneClass)
           /\ a # "CEther" /\ a = "CToken"
  BY <1>1, <1>4 DEF ClassifiersOf
<1>5. CASE /\ ~(a \in PlainPools \/ a \in LendingPools \/ a \in OneClass)
           /\ a # "CEther" /\ a # "CToken"
  BY <1>5 DEF ClassifiersOf
<1> QED
  BY <1>2, <1>3, <1>4, <1>5

LEMMA DecoderIsAbi ==
  ASSUME NEW i \in DOMAIN C!Specs
  PROVE  C!Decoder(C!Specs[i].abi) = C!Abi(C!Specs[i])
<1>1. PICK j \in DOMAIN C!Specs : /\ C!Specs[j].abi = C!Specs[i].abi
                                 /\ C!Decoder(C!Specs[i].abi) = C!Abi(C!Specs[j])
  BY DecoderFinds
<1>2. IsRow(C!Specs[i]) /\ IsRow(C!Specs[j])
  BY SpecsAreRows, TableHasRows
<1>3. DOMAIN C!Specs[i].classifiers = DOMAIN C!Specs[j].classifiers
  BY <1>1, <1>2, FunctionsAreOfTheAbi DEF IsRow
<1> QED
  BY <1>1, <1>3 DEF C!Abi

(* What is classified somewhere is classified by all that know it. *)
LEMMA ClassifiedIsKnown ==
  ASSUME NEW a, NEW p
  PROVE  DOMAIN ClassifiersOf(a, p) \subseteq Classifiable
<1>1. CASE a \in PlainPools \/ a \in LendingPools
  BY <1>1, KnownNames DEF ClassifiersOf, C!All
<1>2. CASE ~(a \in PlainPools \/ a \in LendingPools) /\ a \in OneClass
  <2>1. DOMAIN ClassifiersOf(a, p) = FunctionsAt(a)
    BY <1>2 DEF ClassifiersOf, C!All
  <2>2. FunctionsAt(a) \subseteq Classifiable
    BY DEF FunctionsAt, Classifiable, Common
  <2> QED
    BY <2>1, <2>2
<1>3. CASE /\ ~(a \in PlainPools \/ a \in LendingPools \/ a \in OneClass)
           /\ a = "CEther"
  BY <1>3, KnownNames DEF ClassifiersOf
<1>4. CASE /\ ~(a \in PlainPools \/ a \in LendingPools \/ a \in OneClass)
           /\ a = "CToken"
  BY <1>4, KnownNames DEF ClassifiersOf
<1>5. CASE /\ ~(a \in PlainPools \/ a \in LendingPools \/ a \in OneClass)
           /\ a # "CEther" /\ a # "CToken"
  BY <1>5, KnownNames DEF ClassifiersOf, C!Nothing
<1> QED
  BY <1>1, <1>2, <1>3, <1>4, <1>5

LEMMA SharedFunctions ==
  ASSUME NEW f \in DOMAIN C!AbisWith \cup {"fee", "owner"}, f \in Classifiable
  PROVE  f \in C!Transfers
<1>1. \/ f \in {"transfer", "transferFrom"}
      \/ f \in {"approve", "allowance", "increaseAllowance", "balanceOf",
               "totalSupply", "decimals", "symbol", "name", "DOMAIN_SEPARATOR",
               "getReserves", "token0", "factory", "fee",
               "uniswapV3SwapCallback", "uniswapV3MintCallback", "owner",
               "transferOwnership", "deposit", "borrow"}
  BY DEF C!AbisWith
<1> QED
  BY <1>1, KnownNames DEF C!Transfers

LEMMA KnownIsClassified ==
  ASSUME NEW i \in DOMAIN C!Specs, NEW f \in C!Abi(C!Specs[i]),
         f \in Classifiable, f \notin C!Transfers
  PROVE  f \in DOMAIN C!Specs[i].classifiers
<1>1. IsRow(C!Specs[i])
  BY SpecsAreRows, TableHasRows
<1>2. C!Specs[i].abi \notin Classifiable
  BY <1>1 DEF IsRow
<1>3. f \notin DOMAIN C!AbisWith \cup {"fee", "owner"}
  BY SharedFunctions
<1> QED
  BY <1>2, <1>3 DEF C!Abi

(* get_classifier finds what the spec of the call has for it. *)
LEMMA ClassIsFound ==
  ASSUME NEW i \in DOMAIN C!Specs, NEW t, t.kind = "decoded",
         t.abi = C!Specs[i].abi, t.protocol = C!Specs[i].protocol
  PROVE  C!GetClassifier(t) = C!ClassOf(C!Specs[i], input.function)
<1> DEFINE j == C!FindSpec(t.abi, t.protocol)
<1>1. /\ j \in DOMAIN C!Specs
      /\ C!Specs[j].abi = C!Specs[i].abi /\ C!Specs[j].protocol = C!Specs[i].protocol
  BY FindSpecFinds
<1>2. IsRow(C!Specs[i]) /\ IsRow(C!Specs[j])
  BY <1>1, SpecsAreRows, TableHasRows
<1>3. C!Specs[j].classifiers = C!Specs[i].classifiers
  BY <1>1, <1>2 DEF IsRow
<1>4. C!ClassOf(C!Specs[j], input.function) = C!ClassOf(C!Specs[i], input.function)
  BY <1>3 DEF C!ClassOf
<1> QED
  BY <1>4 DEF C!GetClassifier

(* The first spec reads all transfers. *)
LEMMA TransfersAreRead ==
  /\ 1 \in DOMAIN C!Specs /\ C!Specs[1] = C!ERC20_SPEC
  /\ C!Specs[1].abi = "ERC20" /\ C!Specs[1].protocol = "none"
  /\ C!Covers(C!Specs[1])
  /\ C!Transfers \subseteq C!Decoder(C!Specs[1].abi)
  /\ \A f \in C!Transfers : C!ClassOf(C!Specs[1], f) = "ERC20TransferClassifier"
<1>1. 1 \in DOMAIN C!Specs /\ C!Specs[1] = C!ERC20_SPEC
  BY SpecsAreRows
<1>2. /\ C!ERC20_SPEC.abi = "ERC20" /\ C!ERC20_SPEC.protocol = "none"
      /\ C!ERC20_SPEC.contracts = C!Anywhere
      /\ C!ERC20_SPEC.classifiers = C!All(C!Transfers, "ERC20TransferClassifier")
  BY DEF C!ERC20_SPEC, C!ClassifierSpec
<1>3. /\ DOMAIN C!ERC20_SPEC.classifiers = C!Transfers
      /\ \A f \in C!Transfers : C!ERC20_SPEC.classifiers[f] = "ERC20TransferClassifier"
  BY <1>2 DEF C!All
<1>4. C!Transfers \subseteq C!Decoder(C!Specs[1].abi)
  BY <1>1, <1>3, DecoderIsAbi DEF C!Abi
<1> QED
  BY <1>1, <1>2, <1>3, <1>4 DEF C!Covers, C!ClassOf

-----------------------------------------------------------------------------
(***************************************************************************)
(* A call that is decoded was claimed by the spec it is offered to, and a  *)
(* transfer goes no further than the first.                                *)
(***************************************************************************)
Claimed(i) ==
  /\ i \in DOMAIN C!Specs
  /\ C!Covers(C!Specs[i]) /\ C!Decodes(C!Specs[i])
  /\ result = C!Outcome("decoded", C!Specs[i].abi, C!Specs[i].protocol,
                        C!ClassOf(C!Specs[i], input.function))

Claims(i) == C!Covers(C!Specs[i]) /\ C!Decodes(C!Specs[i])

ClassInv ==
  /\ at \in Nat /\ 1 <= at
  /\ result = C!Pending \/ result.kind \in {"decoded", "call"} \/ input.type # "call"
  /\ result.kind = "decoded" => Claimed(at)
  /\ result = C!Pending => \A i \in DOMAIN C!Specs : i < at => ~Claims(i)
  /\ result.kind = "call" => \A i \in DOMAIN C!Specs : ~Claims(i)
  /\ C!IsTokenTransfer => at = 1 /\ (result = C!Pending \/ result.kind = "decoded")

LEMMA ClassifyBegins == C!Init => ClassInv
<1> SUFFICES ASSUME C!Init
             PROVE  ClassInv
  OBVIOUS
<1>1. C!Pending.kind = "pending"
  BY DEF C!Pending, C!Outcome
<1>2. at = 1 /\ result = C!Pending
  BY DEF C!Init
<1>3. \A i \in DOMAIN C!Specs : ~(i < at)
  BY <1>2, SpecsAreRows
<1> QED
  BY <1>1, <1>2, <1>3 DEF ClassInv

LEMMA ClassifyGoesOn == ClassInv /\ [C!Next]_C!vars => ClassInv'
<1> SUFFICES ASSUME ClassInv, [C!Next]_C!vars
             PROVE  ClassInv'
  OBVIOUS
<1>1. input' = input => \A i : Claims(i)' = Claims(i)
  BY DEF Claims, C!Covers, C!Decodes
<1>2. \A kind, abi, protocol, class : C!Outcome(kind, abi, protocol, class).kind = kind
  BY DEF C!Outcome
<1>3. C!Pending.kind = "pending"
  BY <1>2 DEF C!Pending
<1>4. CASE UNCHANGED C!vars
  <2>1. input' = input /\ result' = result /\ at' = at
    BY <1>4 DEF C!vars
  <2> QED
    BY <1>1, <2>1 DEF ClassInv, Claimed, C!IsTokenTransfer, C!Covers, C!Decodes
<1>5. CASE C!PassOn
  <2>1. /\ input' = input /\ result' = result /\ result = C!Pending /\ at' = at + 1
        /\ ~Claims(at)
    BY <1>5 DEF C!PassOn, C!Offered, Claims
  <2>2. ~C!IsTokenTransfer
    <3> SUFFICES ASSUME C!IsTokenTransfer
                 PROVE  FALSE
      OBVIOUS
    <3>1. at = 1
      BY DEF ClassInv
    <3>2. C!Decodes(C!Specs[1])
      BY TransfersAreRead DEF C!IsTokenTransfer, C!Decodes
    <3> QED
      BY <2>1, <3>1, <3>2, TransfersAreRead DEF Claims
  <2>3. ~C!IsTokenTransfer'
    BY <2>1, <2>2 DEF C!IsTokenTransfer
  <2>4. \A i \in DOMAIN C!Specs : i < at' => ~Claims(i)'
    <3> SUFFICES ASSUME NEW i \in DOMAIN C!Specs, i < at + 1
                 PROVE  ~Claims(i)
      BY <1>1, <2>1
    <3>1. i \in Nat /\ at \in Nat
      BY SpecsAreRows DEF ClassInv
    <3>2. i = at \/ i < at
      BY <3>1
    <3> QED
      BY <2>1, <3>2 DEF ClassInv
  <2>5. at' \in Nat /\ 1 <= at'
    BY <2>1 DEF ClassInv
  <2>6. result'.kind = "pending"
    BY <1>3, <2>1
  <2> QED
    BY <2>1, <2>3, <2>4, <2>5, <2>6 DEF ClassInv
<1>6. CASE C!Claim
  <2>1. /\ input' = input /\ at' = at /\ at \in DOMAIN C!Specs
        /\ C!Covers(C!Specs[at]) /\ C!Decodes(C!Specs[at])
        /\ result' = C!Outcome("decoded", C!Specs[at].abi, C!Specs[at].protocol,
                               C!ClassOf(C!Specs[at], input.function))
    BY <1>6 DEF C!Claim, C!Offered
  <2>2. result'.kind = "decoded" /\ result' # C!Pending
    BY <1>2, <1>3, <2>1
  <2>3. Claimed(at)'
    BY <2>1 DEF Claimed, C!Covers, C!Decodes
  <2>4. C!IsTokenTransfer' => C!IsTokenTransfer
    BY <2>1 DEF C!IsTokenTransfer
  <2> QED
    BY <2>1, <2>2, <2>3, <2>4 DEF ClassInv
<1>7. CASE C!Unclaimed
  <2>1. /\ input' = input /\ at' = at /\ at > Len(C!Specs) /\ result = C!Pending
        /\ result' = C!Outcome("call", "none", "none", "none")
    BY <1>7 DEF C!Unclaimed
  <2>2. result'.kind = "call" /\ result' # C!Pending
    BY <1>2, <1>3, <2>1
  <2>3. \A i \in DOMAIN C!Specs : ~Claims(i)'
    <3> SUFFICES ASSUME NEW i \in DOMAIN C!Specs
                 PROVE  ~Claims(i)
      BY <1>1, <2>1
    <3>1. i \in 1 .. Len(C!Specs) /\ Len(C!Specs) \in Nat /\ at \in Nat
      BY SpecsAreRows DEF ClassInv
    <3>2. i < at
      BY <2>1, <3>1
    <3> QED
      BY <2>1, <3>2 DEF ClassInv
  <2>4. ~C!IsTokenTransfer
    BY <2>1, SpecsAreRows DEF ClassInv
  <2>5. ~C!IsTokenTransfer'
    BY <2>1, <2>4 DEF C!IsTokenTransfer
  <2> QED
    BY <2>1, <2>2, <2>3, <2>5 DEF ClassInv
<1>8. CASE C!NotACall
  <2>1. /\ input' = input /\ at' = at /\ input.type # "call"
        /\ result' = C!Outcome(IF input.type = "reward" THEN "dropped" ELSE "other",
                               "none", "none", "none")
    BY <1>8 DEF C!NotACall
  <2>2. result'.kind \in {"dropped", "other"} /\ result' # C!Pending
    BY <1>2, <1>3, <2>1
  <2>3. ~C!IsTokenTransfer'
    BY <2>1 DEF C!IsTokenTransfer
  <2> QED
    BY <2>1, <2>2, <2>3 DEF ClassInv
<1> QED
  BY <1>4, <1>5, <1>6, <1>7, <1>8 DEF C!Next

LEMMA ClassifiedAlways == Spec => [](algorithm = "classify" => ClassInv)
<1> DEFINE Inv == algorithm = "classify" => ClassInv
<1>1. Init => Inv
  BY OneBegins, ClassifyBegins
<1>2. Inv /\ [Next]_variables => Inv'
  <2> SUFFICES ASSUME Inv, [Next]_variables, algorithm' = "classify"
               PROVE  ClassInv'
    OBVIOUS
  <2>1. algorithm = "classify" /\ ClassInv
    BY OneGoesOn
  <2>2. [C!Next]_C!vars
    BY <2>1, OneGoesOn DEF variables, C!vars
  <2> QED
    BY <2>1, <2>2, ClassifyGoesOn
<1> QED
  BY <1>1, <1>2, PTL DEF Spec

(***************************************************************************)
(* Whatever call was classified, get_classifier gives back the classifier  *)
(* of the spec that claimed it.                                            *)
(***************************************************************************)
THEOREM ClassifiersAreFoundAgain == Spec => []ClassifierIsFoundAgain
<1>1. (algorithm = "classify" => ClassInv) => ClassifierIsFoundAgain
  <2> SUFFICES ASSUME ClassInv, result.kind = "decoded"
               PROVE  /\ C!GetClassifier(result) = C!ClassOf(C!Specs[at], input.function)
                      /\ C!Classification(C!GetClassifier(result)) = result.classification
    BY DEF ClassifierIsFoundAgain, C!ClassifierIsFoundAgain
  <2>1. /\ at \in DOMAIN C!Specs
        /\ result = C!Outcome("decoded", C!Specs[at].abi, C!Specs[at].protocol,
                              C!ClassOf(C!Specs[at], input.function))
    BY DEF ClassInv, Claimed
  <2>2. /\ result.abi = C!Specs[at].abi /\ result.protocol = C!Specs[at].protocol
        /\ result.classification
             = C!Classification(C!ClassOf(C!Specs[at], input.function))
    BY <2>1 DEF C!Outcome
  <2>3. C!GetClassifier(result) = C!ClassOf(C!Specs[at], input.function)
    BY <2>1, <2>2, ClassIsFound
  <2> QED
    BY <2>2, <2>3
<1> QED
  BY <1>1, ClassifiedAlways, PTL

(***************************************************************************)
(* Whatever contract is called, a transfer that can be decoded is one from *)
(* the payer to the payee.                                                 *)
(***************************************************************************)
THEOREM TransfersHaveTheRightPayer == Spec => []TransfersHaveTheirPayer
<1>1. (algorithm = "classify" => ClassInv) => TransfersHaveTheirPayer
  <2> SUFFICES ASSUME ClassInv, C!IsTokenTransfer, result # C!Pending
               PROVE  C!TransferOf(result)
                        = <<IF input.function = "transfer" THEN input.from ELSE input.src,
                            input.dst>>
    BY DEF TransfersHaveTheirPayer, C!TransfersHaveTheirPayer
  <2>1. /\ at = 1 /\ result.kind = "decoded"
        /\ result = C!Outcome("decoded", C!Specs[at].abi, C!Specs[at].protocol,
                              C!ClassOf(C!Specs[at], input.function))
    BY DEF ClassInv, Claimed
  <2>2. result.abi = C!Specs[1].abi /\ result.protocol = C!Specs[1].protocol
    BY <2>1 DEF C!Outcome
  <2>3. input.function \in C!Transfers
    BY DEF C!IsTokenTransfer
  <2>4. C!GetClassifier(result) = "ERC20TransferClassifier"
    BY <2>1, <2>2, <2>3, TransfersAreRead, ClassIsFound
  <2>5. C!Classification("ERC20TransferClassifier") = "transfer"
    BY DEF C!Classification
  <2>6. input.function = "transfer" \/ input.function = "transferFrom"
    BY <2>3 DEF C!Transfers
  <2> QED
    BY <2>4, <2>5, <2>6 DEF C!TransferOf
<1> QED
  BY <1>1, ClassifiedAlways, PTL

(***************************************************************************)
(* A call that can be decoded, of a function other than the transfers, is  *)
(* what a spec that lists the contract and classifies the function says;   *)
(* if there is none, but one that lists the contract and knows the         *)
(* function, the call is decoded and has no classification.                *)
(***************************************************************************)
THEOREM ListedContractsSpeakFirst == Spec => []ListedContractsAreTheirOwn
<1>1. (algorithm = "classify" => ClassInv) => ListedContractsAreTheirOwn
  <2> DEFINE knowing == {i \in DOMAIN C!Specs : /\ input.to \in C!Specs[i].contracts
                                               /\ input.function \in C!Abi(C!Specs[i])}
             speakers == {i \in knowing :
                            input.function \in DOMAIN C!Specs[i].classifiers}
  <2> SUFFICES ASSUME ClassInv, result # C!Pending, input.type = "call", input.fits,
                      input.function \notin C!Transfers, NEW k \in knowing
               PROVE  /\ result.kind = "decoded"
                      /\ IF speakers = {} THEN result.classification = "unknown"
                         ELSE \E i \in speakers :
                                /\ result.protocol = C!Specs[i].protocol
                                /\ result.classification
                                     = C!Classification(C!ClassOf(C!Specs[i],
                                                                  input.function))
    BY DEF ListedContractsAreTheirOwn, C!ListedContractsAreTheirOwn
  <2>1. /\ k \in DOMAIN C!Specs /\ input.to \in C!Specs[k].contracts
        /\ input.function \in C!Abi(C!Specs[k])
    OBVIOUS
  <2>2. Claims(k)
    BY <2>1, DecoderIsAbi DEF Claims, C!Covers, C!Decodes
  <2>3. result.kind = "decoded"
    BY <2>1, <2>2 DEF ClassInv
  <2>4. Claimed(at)
    BY <2>3 DEF ClassInv
  <2>5. /\ result.protocol = C!Specs[at].protocol
        /\ result.classification
             = C!Classification(C!ClassOf(C!Specs[at], input.function))
    BY <2>4 DEF Claimed, C!Outcome
  <2>6. at \in DOMAIN C!Specs /\ input.function \in C!Abi(C!Specs[at])
    BY <2>4, DecoderIsAbi DEF Claimed, C!Decodes
  <2>7. \A i \in DOMAIN C!Specs :
          /\ IsRow(C!Specs[i])
          /\ DOMAIN C!Specs[i].classifiers \subseteq Classifiable
    BY SpecsAreRows, TableHasRows, ClassifiedIsKnown DEF IsRow
  <2>8. \A i \in speakers : i \in DOMAIN C!Specs /\ i \in knowing
                          /\ input.function \in DOMAIN C!Specs[i].classifiers
    OBVIOUS
  <2>9. CASE speakers = {}
    <3>1. input.function \notin DOMAIN C!Specs[k].classifiers
      BY <2>9
    <3>2. input.function \notin Classifiable
      BY <2>1, <3>1, KnownIsClassified
    <3>3. C!ClassOf(C!Specs[at], input.function) = "none"
      BY <2>6, <2>7, <3>2 DEF C!ClassOf
    <3>4. C!Classification("none") = "unknown"
      BY DEF C!Classification
    <3> QED
      BY <2>3, <2>5, <2>9, <3>3, <3>4
  <2>10. CASE speakers # {}
    <3>1. PICK n \in speakers : TRUE
      BY <2>10
    <3>2. input.function \in Classifiable
      BY <2>7, <2>8, <3>1
    <3>3. input.function \in DOMAIN C!Specs[at].classifiers
      BY <2>6, <3>2, KnownIsClassified
    <3>4. CASE input.to \in C!Specs[at].contracts
      <4>1. at \in speakers
        BY <2>6, <3>3, <3>4
      <4> QED
        BY <2>3, <2>5, <2>10, <4>1
    <3>5. CASE input.to \notin C!Specs[at].contracts
      <4>1. C!Specs[at].contracts = C!Anywhere
        BY <2>4, <3>5 DEF Claimed, C!Covers
      <4>2. input.to \in C!Specs[n].contracts
        BY <2>8, <3>1
      <4>3. C!Specs[n].contracts # C!Anywhere
        BY <3>5, <4>1, <4>2
      <4> QED
        BY <2>6, <2>7, <2>8, <3>1, <3>3, <4>1, <4>3 DEF IsRow
    <3> QED
      BY <3>4, <3>5
  <2> QED
    BY <2>9, <2>10
<1> QED
  BY <1>1, ClassifiedAlways, PTL
=============================================================================
