------------------------------ MODULE RowStream ------------------------------
(***************************************************************************)
(* What a caller who pages through a result wants: the rows of ONE result, *)
(* one after the other from the first on, until all have come or the       *)
(* stream is cut short (by a limit, a failure, or the caller).  Pages,     *)
(* offsets, cursors and counters do not appear here.                       *)
(***************************************************************************)
EXTENDS Sequences, Naturals

CONSTANT Rows

VARIABLES
    result,                 \* the rows to come, fixed when the stream opens
    delivered,              \* those handed over, in order
    opened,
    outcome                 \* "open", then "complete" or "cut"

streamVars == <<result, delivered, opened, outcome>>

StreamInit ==
    /\ result = << >>
    /\ delivered = << >>
    /\ opened = FALSE
    /\ outcome = "open"

\* The result is fixed; when it has no rows that is all.
Open ==
    /\ ~opened /\ opened' = TRUE
    /\ outcome = "open"
    /\ result' \in Seq(Rows)
    /\ outcome' = IF result' = << >> THEN "complete" ELSE "open"
    /\ UNCHANGED delivered

\* The next row of the result, which may be the one a limit is reached with.
Deliver ==
    /\ opened /\ outcome = "open"
    /\ Len(delivered) < Len(result)
    /\ delivered' = Append(delivered, result[Len(delivered) + 1])
    /\ outcome' \in {"open", "cut"}
    /\ UNCHANGED <<result, opened>>

Complete ==
    /\ opened /\ outcome = "open"
    /\ Len(delivered) = Len(result)
    /\ outcome' = "complete"
    /\ UNCHANGED <<result, delivered, opened>>

Cut ==
    /\ outcome = "open" /\ outcome' = "cut"
    /\ UNCHANGED <<result, delivered, opened>>

StreamNext == Open \/ Deliver \/ Complete \/ Cut

StreamSpec == StreamInit /\ [][StreamNext]_streamVars

\* No caller who keeps asking waits for ever.
StreamEnds == <>(outcome # "open")

=============================================================================
