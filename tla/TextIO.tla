-------------------------------- MODULE TextIO --------------------------------
(***************************************************************************)
(* StringIteratorIO and BytesIteratorIO of text_io.py: an iterator over    *)
(* chunks of a text, read as a file.  COPY reads the rows of write_as_csv  *)
(* this way, until a read has nothing; the upload of an export reads the   *)
(* block this way, and a read of fewer than the n characters that it asked *)
(* for is the end for it.                                                  *)
(*                                                                         *)
(* What the characters are plays no part: they are numbered, and ends[i]   *)
(* is the number of the last one of chunk i.  A chunk may be empty.  What  *)
(* a read returns is made of pieces <<a, b>>, the characters after a up to *)
(* b.                                                                      *)
(***************************************************************************)
EXTENDS Integers, Sequences

CONSTANTS
  Texts,  \* bound: the sequences of ends to look at
  Sizes   \* bound: how much a read may ask for

VARIABLES
  ends,    \* the chunks that the iterator gives
  taken,   \* how many of them it has given
  buff,    \* _buff: the characters after buff[1] up to buff[2]
  request, \* what the read was asked for, what is missing, is it going on
  pieces   \* what all reads until now have returned, and this one so far

vars == <<ends, taken, buff, request, pieces>>

EndOf(i) == IF i = 0 THEN 0 ELSE ends[i]
End == EndOf(Len(ends))

IsEmpty == buff[1] = buff[2]
Exhausted == taken = Len(ends)

Init ==
  /\ ends \in Texts
  /\ taken = 0
  /\ buff = <<0, 0>>
  /\ request = [n |-> 0, missing |-> 0, open |-> FALSE]
  /\ pieces = <<>>

(* The reader goes on until a read has returned nothing. *)
ReaderIsDone == request.n > 0 /\ request.missing = request.n

Begin(n) ==
  /\ ~request.open /\ ~ReaderIsDone
  /\ request' = [n |-> n, missing |-> n, open |-> TRUE]
  /\ UNCHANGED <<ends, taken, buff, pieces>>

Read == \E n \in Sizes : Begin(n)

(* Without a size, read goes on until there is nothing left. *)
ReadAll == Begin(End + 1)

Going == request.open /\ request.missing > 0 /\ UNCHANGED ends

(* _read1 takes chunks until one is not empty. *)
TakeChunk ==
  /\ Going
  /\ IsEmpty /\ ~Exhausted
  /\ taken' = taken + 1
  /\ buff' = <<EndOf(taken), EndOf(taken + 1)>>
  /\ UNCHANGED <<request, pieces>>

Drop(n) == buff' = <<buff[1] + n, buff[2]>>

Smaller(a, b) == IF a < b THEN a ELSE b

TakePiece ==
  LET n == Smaller(request.missing, buff[2] - buff[1])
  IN  /\ Going
      /\ ~IsEmpty
      /\ pieces' = Append(pieces, <<buff[1], buff[1] + n>>)
      /\ request' = [request EXCEPT !.missing = @ - n]
      /\ Drop(n)
      /\ UNCHANGED taken

(* Defect: an empty chunk is taken for the end. *)
NothingInChunk == IsEmpty /\ taken > 0

NothingLeft == IsEmpty /\ Exhausted

Return ==
  /\ request.open
  /\ request.missing = 0 \/ NothingLeft
  /\ request' = [request EXCEPT !.open = FALSE]
  /\ UNCHANGED <<ends, taken, buff, pieces>>

Next == Read \/ ReadAll \/ TakeChunk \/ TakePiece \/ Return
Spec == Init /\ [][Next]_vars

-----------------------------------------------------------------------------
(* Properties.                                                             *)

(* How far the reads have come. *)
Position == IF pieces = <<>> THEN 0 ELSE pieces[Len(pieces)][2]

ReadsAreInOrder ==
  \A i \in DOMAIN pieces :
    /\ pieces[i][1] = IF i = 1 THEN 0 ELSE pieces[i - 1][2]
    /\ pieces[i][1] < pieces[i][2]

ShortReadsAreTheLast ==
  ~request.open /\ request.missing > 0 => Position = End

(***************************************************************************)
(* A file of text_io.py reads as its text: what the reads return is one    *)
(* after the other, nothing twice and nothing left out, and one has fewer  *)
(* characters than it was asked for, or none at all, only at the end,      *)
(* whatever chunks are empty; so COPY gets every row before it ends, and   *)
(* an upload has the whole block.                                          *)
(***************************************************************************)
ReadsAreTheText == ReadsAreInOrder /\ ShortReadsAreTheLast
=============================================================================
