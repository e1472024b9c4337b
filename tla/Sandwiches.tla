------------------------------ MODULE Sandwiches ------------------------------
(***************************************************************************)
(* get_sandwiches of sandwiches.py: every swap of a block, in the order of *)
(* execution, is tried as the front run of a sandwich, and the swaps after *)
(* it are scanned for victims and for a back run.                          *)
(*                                                                         *)
(* A swap is named by its place in the sorted list (transaction position,  *)
(* then trace address).  swap[i] says which transaction it is in, in which *)
(* pool, which token it takes for which, who paid and who was paid.        *)
(* Amounts play no part in what is found.                                  *)
(***************************************************************************)
EXTENDS Integers, Sequences, FiniteSets, FiniteSetsExt

CONSTANTS
  Routers,  \* the three Uniswap routers, which are nobody's sandwicher
  BlockSwaps  \* bound: the lists of swaps to look at

VARIABLES
  swap,       \* the swaps of the block, sorted
  front,      \* the swap that is tried as front run
  at,         \* the swap that the scan looks at
  victims,    \* sandwiched_swaps
  sandwiches  \* what was found: front run, back run and victims

vars == <<swap, front, at, victims, sandwiches>>

Swaps == 1 .. Len(swap)
Sandwicher(f) == swap[f].to

SameDirection(i, j) ==
  swap[i].tokenIn = swap[j].tokenIn /\ swap[i].tokenOut = swap[j].tokenOut

OtherDirection(i, j) ==
  swap[i].tokenIn = swap[j].tokenOut /\ swap[i].tokenOut = swap[j].tokenIn

Init ==
  /\ swap \in BlockSwaps
  /\ front = 1 /\ at = 2
  /\ victims = {} /\ sandwiches = {}

-----------------------------------------------------------------------------
(* The scan.                                                               *)

(* Swaps of the front run's own transaction and of other pools are skipped.*)
Concerns(f, i) == swap[i].tx # swap[f].tx /\ swap[i].pool = swap[f].pool

IsVictim(f, i) ==
  Concerns(f, i) /\ SameDirection(f, i) /\ swap[i].from # Sandwicher(f)

IsBackRun(f, i) ==
  Concerns(f, i) /\ OtherDirection(f, i) /\ swap[i].from = Sandwicher(f)

NextFront == /\ front' = front + 1 /\ at' = front + 2 /\ victims' = {}

(* A front run by a router, or the end of the list. *)
GiveUp ==
  /\ front \in Swaps
  /\ Sandwicher(front) \in Routers \/ at > Len(swap)
  /\ NextFront
  /\ UNCHANGED <<swap, sandwiches>>

Scanning == front \in Swaps /\ Sandwicher(front) \notin Routers /\ at \in Swaps

(* The front run pays someone, who comes back after at least one victim. *)
Close ==
  /\ Scanning
  /\ IsBackRun(front, at) /\ victims # {}
  /\ sandwiches' = sandwiches \cup
       {[front |-> front, back |-> at, victims |-> victims]}
  /\ NextFront
  /\ UNCHANGED swap

(* Defect: a return before any victim ends the scan. *)
GoOnUntilReturn ==
  /\ Scanning
  /\ ~(IsBackRun(front, at) /\ victims # {})
  /\ at' = IF IsBackRun(front, at) THEN Len(swap) + 1 ELSE at + 1
  /\ victims' = IF IsVictim(front, at) THEN victims \cup {at} ELSE victims
  /\ UNCHANGED <<swap, front, sandwiches>>

GoOn ==
  /\ Scanning
  /\ ~(IsBackRun(front, at) /\ victims # {})
  /\ at' = at + 1
  /\ victims' = IF IsVictim(front, at) THEN victims \cup {at} ELSE victims
  /\ UNCHANGED <<swap, front, sandwiches>>

Next == GiveUp \/ Close \/ GoOn
Spec == Init /\ [][Next]_vars

-----------------------------------------------------------------------------
(* Properties.                                                             *)

(* The back runs that a front run f could have, with the victims before.   *)
VictimsBetween(f, b) == {v \in f + 1 .. b - 1 : IsVictim(f, v)}
BackRuns(f) ==
  IF Sandwicher(f) \in Routers THEN {}
  ELSE {b \in f + 1 .. Len(swap) : IsBackRun(f, b) /\ VictimsBetween(f, b) # {}}

(***************************************************************************)
(* The scan, with its early ends and skips, finds every sandwich there is  *)
(* and nothing else: a front run with some victim before some return of    *)
(* the sandwicher is found with the first such return and all the victims  *)
(* before it, and so are sandwiches inside or across other sandwiches.     *)
(***************************************************************************)
SandwichesAreExact ==
  sandwiches =
    {[front |-> f, back |-> Min(BackRuns(f)),
      victims |-> VictimsBetween(f, Min(BackRuns(f)))] :
        f \in {g \in 1 .. front - 1 : g \in Swaps /\ BackRuns(g) # {}}}
=============================================================================
