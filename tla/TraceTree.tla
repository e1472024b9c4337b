------------------------------ MODULE TraceTree ------------------------------
(***************************************************************************)
(* traces.py: where traces are in the call tree of their transaction.  A   *)
(* trace address is the sequence of the calls' indices on the way from the *)
(* transaction to the trace; the traces of a transaction sorted by address *)
(* are in the order in which the calls began.                              *)
(***************************************************************************)
EXTENDS Integers, Sequences

IsChildTraceAddress(child, parent) ==
  /\ Len(child) > Len(parent)
  /\ SubSeq(child, 1, Len(parent)) = parent

(* How sorted() compares two addresses, as lists. *)
AddressBefore(a, b) ==
  \/ IsChildTraceAddress(b, a)
  \/ \E n \in 1 .. Len(a) :
       n <= Len(b) /\ SubSeq(a, 1, n - 1) = SubSeq(b, 1, n - 1) /\ a[n] < b[n]

(* A trace as get_child_traces sees it: a record with a tx and an address. *)
IsChildTrace(t, tx, parent) ==
  t.tx = tx /\ IsChildTraceAddress(t.address, parent)

-----------------------------------------------------------------------------
(* For the properties: t is called, directly or not, by p. *)
CalledBy(t, p) ==
  /\ t.tx = p.tx
  /\ \E n \in 0 .. Len(t.address) - 1 : p.address = SubSeq(t.address, 1, n)
=============================================================================
