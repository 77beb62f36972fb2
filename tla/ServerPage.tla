----------------------------- MODULE ServerPage -----------------------------
(***************************************************************************)
(* The server's side of one request for a page, as the paging code relies  *)
(* on it.                                                                  *)
(***************************************************************************)
EXTENDS Integers, Sequences

\* The rows of data in [offset, offset + limit).
Window(data, offset, limit) ==
    LET last == IF offset + limit <= Len(data) THEN offset + limit ELSE Len(data)
    IN  SubSeq(data, offset + 1, last)

\* The number of that page, counted from the first row of data.
PageNumber(offset, limit) == (offset \div limit) + 1

=============================================================================
