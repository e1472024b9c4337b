------------------------------- MODULE Accounts -------------------------------
(***************************************************************************)
(* What movements of money do to its holders, for the properties of the    *)
(* modules that report money: their reports are compared with it.  A move  *)
(* is a record with at least from, to and amount; S has the moves' places  *)
(* and move gives the move at a place.                                     *)
(***************************************************************************)
EXTENDS Integers, FiniteSetsExt

Received(move, S, holders) ==
  MapThenSumSet(LAMBDA i : move[i].amount,
                {i \in S : move[i].to \in holders})

Spent(move, S, holders) ==
  MapThenSumSet(LAMBDA i : move[i].amount,
                {i \in S : move[i].from \in holders})

(* How much more the holders have after the moves in S than before. *)
Gain(move, S, holders) ==
  Received(move, S, holders) - Spent(move, S, holders)
=============================================================================
