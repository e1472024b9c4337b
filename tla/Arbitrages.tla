------------------------------ MODULE Arbitrages ------------------------------
(***************************************************************************)
(* get_arbitrages of arbitrages.py, on the swaps of one transaction (the   *)
(* code groups by transaction first, and the groups do not meet).          *)
(*                                                                         *)
(* A swap is named by its place in the list, which is the order of the     *)
(* trace addresses.  swap[i] says which pool made it, who paid the pool    *)
(* and whom the pool paid, and the two tokens and their amounts.  The      *)
(* amounts are positive.                                                   *)
(*                                                                         *)
(* The loop looks for a route from each swap that could open an arbitrage  *)
(* to one that could close it; the swaps of the routes it found are used.  *)
(***************************************************************************)
EXTENDS Integers, Sequences, FiniteSets, SequencesExt

CONSTANTS
  Transactions  \* bound: the lists of swaps to look at

VARIABLES
  swap,    \* the swaps of the transaction
  at,      \* the swap the loop is at
  used,    \* used_swaps
  found,   \* all_arbitrages: the routes, in the order they were found
  result   \* what is returned, in the end

vars == <<swap, at, used, found, result>>

Swaps == 1 .. Len(swap)
NotYet == << <<>> >>
NoRoute == <<>>
LastOf(r) == r[Len(r)]

(* The difference is below 1% of the mean. *)
EqualWithinPercent(x, y) == 200 * (IF x < y THEN y - x ELSE x - y) < x + y

(* _swap_outs_match_swap_ins: j can go on with what i has left. *)
OutsMatchIns(i, j) ==
  /\ swap[i].tokenOut = swap[j].tokenIn
  /\ \/ swap[i].pool = swap[j].from
     \/ swap[i].to = swap[j].pool
     \/ swap[i].to = swap[j].from
  /\ EqualWithinPercent(swap[i].amountOut, swap[j].amountIn)

(* _get_all_start_end_swaps: the swaps that could close what s opens. *)
Ends(s) ==
  {e \in Swaps \ {s} :
     /\ swap[s].tokenIn = swap[e].tokenOut
     /\ swap[s].pool # swap[e].pool
     /\ swap[s].from = swap[e].to
     /\ \A i \in Swaps : swap[i].pool # swap[s].from}

-----------------------------------------------------------------------------
(* _get_shortest_route.                                                    *)

(* What it is called with: start_swap, end_swaps and all_swaps. *)
Calls == [start : Swaps, ends : SUBSET Swaps, all : SUBSET Swaps]

(* other_swaps *)
Others(call) == call.all \ (call.ends \cup {call.start})

(* Defect: the first route stays, though a later one is shorter. *)
KeepsFirst(new, best) == best = NoRoute

IsShorter(new, best) ==
  new # NoRoute /\ (best = NoRoute \/ Len(new) < Len(best))

(* One next_swap, with a bound that falls when a route is found; search    *)
(* has the routes for each bound.                                          *)
TryNext(search, call, max, best, next) ==
  LET limit == IF best = NoRoute THEN max - 1 ELSE Len(best) - 1
      new == search[limit][[start |-> next, ends |-> call.ends, all |-> Others(call)]]
  IN  IF /\ next \in Others(call) /\ OutsMatchIns(call.start, next)
         /\ IsShorter(new, best)
        THEN new ELSE best

(* shortest_remaining_route, after all of them in their order. *)
ShortestRest(search, call, max) ==
  LET best[n \in 0 .. Len(swap)] ==
        IF n = 0 THEN NoRoute ELSE TryNext(search, call, max, best[n - 1], n)
  IN  best[Len(swap)]

(***************************************************************************)
(* A route of at most max swaps.  Closing at once comes first; otherwise   *)
(* each swap that can go on is tried.  No bound is the length of the list. *)
(***************************************************************************)
ShortestRoute[max \in 0 .. Len(swap)] ==
  [call \in Calls |->
     LET closing == {e \in call.ends : OutsMatchIns(call.start, e)}
         rest == ShortestRest(ShortestRoute, call, max)
     IN  IF call.ends = {} \/ max < 2 THEN NoRoute
         ELSE IF closing # {} THEN <<call.start, Min(closing)>>
         ELSE IF max = 2 \/ rest = NoRoute THEN NoRoute
         ELSE <<call.start>> \o rest]

-----------------------------------------------------------------------------
(* The loop.                                                               *)

Init ==
  /\ swap \in Transactions
  /\ at = 1
  /\ used = {}
  /\ found = <<>>
  /\ result = NotYet

(* Defect: an end that an arbitrage has used may close another. *)
AllEnds(s) == Ends(s)

UnusedEnds(s) == Ends(s) \ used

(* Defect: all the swaps that might have closed it are used up as well. *)
ClaimEnds(route) == ToSet(route) \cup Ends(Head(route))

Claim(route) == ToSet(route)

(***************************************************************************)
(* A swap that an arbitrage has used opens no other; but on the way from   *)
(* start to end any swap may be used again.                                *)
(***************************************************************************)
Visit ==
  /\ at \in Swaps
  /\ at' = at + 1
  /\ LET call == [start |-> at, ends |-> UnusedEnds(at), all |-> Swaps]
         route == ShortestRoute[Len(swap)][call]
     IN  IF at \in used \/ route = NoRoute
           THEN UNCHANGED <<used, found>>
           ELSE /\ found' = Append(found, route)
                /\ used' = used \cup Claim(route)
  /\ UNCHANGED <<swap, result>>

(***************************************************************************)
(* Among several, those that end before they start are dropped.            *)
(***************************************************************************)
Filter(routes) ==
  IF Len(routes) = 1 THEN routes
  ELSE SelectSeq(routes, LAMBDA r : r[1] < LastOf(r))

Report ==
  /\ at > Len(swap) /\ result = NotYet
  /\ result' = Filter(found)
  /\ UNCHANGED <<swap, at, used, found>>

Next == Visit \/ Report
Spec == Init /\ [][Next]_vars /\ WF_vars(Next)

-----------------------------------------------------------------------------
(* Properties.                                                             *)

(* Different swaps, each going on where the last ended. *)
IsChain(c) ==
  /\ \A i, j \in DOMAIN c : c[i] = c[j] => i = j
  /\ \A i \in 1 .. Len(c) - 1 : OutsMatchIns(c[i], c[i + 1])

(* Is there a chain of at most n swaps from s to another one, e? *)
Connected(s, e, n) ==
  \E between \in SeqOf(Swaps, n - 2) : IsChain(<<s>> \o between \o <<e>>)

UsedBefore(k) == UNION {ToSet(found[j]) : j \in 1 .. k - 1}

(***************************************************************************)
(* The docstring: swaps in a series that return the initial token to the   *)
(* initial sender.  Every route is such a series, of different swaps, and  *)
(* none from its start to an end that was free is shorter, although the    *)
(* search cuts off whatever cannot be shorter than what it has.            *)
(***************************************************************************)
RoutesAreShortest ==
  \A k \in 1 .. Len(found) :
    LET r == found[k]
        free == Ends(r[1]) \ UsedBefore(k)
    IN  /\ IsChain(r) /\ LastOf(r) \in Ends(r[1])
        /\ \A e \in free : ~Connected(r[1], e, Len(r) - 1)

(***************************************************************************)
(* No swap that has its part in an arbitrage opens or closes another one   *)
(* that is found later, so that no profit is reported twice under two      *)
(* openings.                                                               *)
(***************************************************************************)
OpensAndClosesOnce ==
  \A k \in 1 .. Len(found) :
    {found[k][1], LastOf(found[k])} \cap UsedBefore(k) = {}

(***************************************************************************)
(* Nothing is missed by taking the routes greedily, one start after the    *)
(* other: in the end no swap that is in no arbitrage has a route to an end *)
(* that is in none either.                                                 *)
(***************************************************************************)
LeftoversHaveNoRoute ==
  result # NotYet =>
    LET left == Swaps \ UsedBefore(Len(found) + 1)
    IN  \A s \in left : \A e \in left \cap Ends(s) :
          ~Connected(s, e, Len(swap))
=============================================================================
