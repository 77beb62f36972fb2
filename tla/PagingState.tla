----------------------------- MODULE PagingState -----------------------------
(***************************************************************************)
(* PagingState and Page: the paging that saved queries, the history of     *)
(* queries and of adapter fetches, and enforcement tasks share.            *)
(*                                                                         *)
(*     with PagingState(...) as state:                                     *)
(*         while not state.stop_paging:                                    *)
(*             page = state.page(method, request_obj)                      *)
(*             yield from page.rows                                        *)
(*                                                                         *)
(* StopFetch leaves the loop from wherever it is raised, and __exit__      *)
(* swallows it.  pc names the point reached:                               *)
(*   page     the top of the loop                                          *)
(*   rows     the for loop over page.response, with rows left              *)
(*   yielded  suspended, a row is with the caller                          *)
(*   stopped  StopFetch ended the loop                                     *)
(*   failed   another exception did                                        *)
(*   abandoned  the caller closed or dropped the suspended generator       *)
(* Here a row_stop of None is written -1.                                  *)
(***************************************************************************)
EXTENDS ServerPage, SequencesExt

CONSTANTS
    Rows,
    Arguments,              \* what a PagingState may be made with
    Populations,            \* what the server may hold at first
    MaxChanges              \* bound: rows that appear or disappear meanwhile

(* What __post_init__ lets pass; a larger page_size, or a negative row_start
   or row_stop, raises before anything else happens.  Rows have an id, by
   which the server holds each of them once.                               *)
ASSUME PagingAssumption ==
    /\ Arguments \subseteq [page_size : Nat \ {0}, row_start : Nat,
                            row_stop : Nat \cup {-1}]
    /\ Populations \subseteq Seq(Rows)
    /\ \A p \in Populations : IsInjective(p)
    /\ MaxChanges \in Nat

VARIABLES
    args,                   \* the arguments, fixed from Init
    page_size,              \* as __post_init__ leaves it
    row_number,             \* the offset of the next request
    rows_fetched_total,
    rows_yielded_total,
    stop_paging,
    response,               \* page.response
    taken,                  \* how many rows of it the for loop has taken
    pc,
    population,             \* what the server holds, in order
    changes                 \* how often that changed

(* What happened, for the properties only. *)
VARIABLES
    opened,                 \* a page has been received
    base,                   \* what the server held then
    yielded,                \* the rows handed to the caller, in order
    inserted, deleted       \* did rows appear, disappear, since then

pagingVars  == <<args, page_size, row_number, rows_fetched_total,
                 rows_yielded_total, stop_paging, response, taken, pc>>
serverVars  == <<population, changes>>
historyVars == <<opened, base, yielded, inserted, deleted>>
vars        == <<pagingVars, serverVars, historyVars>>

PagingTypeOK ==
    /\ args \in Arguments
    /\ page_size \in 0..args.page_size
    /\ row_number \in Nat
    /\ rows_fetched_total \in Nat
    /\ rows_yielded_total \in Nat
    /\ stop_paging \in BOOLEAN
    /\ response \in Seq(Rows)
    /\ taken \in 0..Len(response)
    /\ pc \in {"page", "rows", "yielded", "stopped", "failed", "abandoned"}
    /\ population \in Seq(Rows) /\ changes \in Nat
    /\ opened \in BOOLEAN /\ inserted \in BOOLEAN /\ deleted \in BOOLEAN
    /\ base \in Seq(Rows)
    /\ yielded \in Seq(Rows)

-----------------------------------------------------------------------------
\* Mutant: None is taken for a number.
PageSizeOfNone(a) == IF a.row_stop < a.page_size THEN a.row_stop ELSE a.page_size

\* A page never asks for more rows than are wanted altogether.
PageSizeOf(a) ==
    IF a.row_stop # -1 /\ a.row_stop < a.page_size THEN a.row_stop ELSE a.page_size

PagingInit ==
    /\ args \in Arguments
    /\ page_size = PageSizeOf(args)
    /\ row_number = args.row_start
    /\ rows_fetched_total = 0 /\ rows_yielded_total = 0
    /\ stop_paging = FALSE
    /\ response = << >> /\ taken = 0
    /\ pc = "page"
    /\ population \in Populations /\ changes = 0
    /\ opened = FALSE /\ base = << >> /\ yielded = << >>
    /\ inserted = FALSE /\ deleted = FALSE

\* Mutant: the limit must be passed, not reached.
RowStopPassed == args.row_stop # -1 /\ rows_yielded_total > args.row_stop

\* check_stop raises StopFetch.
RowStopReached == args.row_stop # -1 /\ rows_yielded_total >= args.row_stop

Goto(from, to) == pc = from /\ pc' = to

StopFetch == pc' = "stopped" /\ stop_paging' = TRUE

-----------------------------------------------------------------------------
(* state.page(): Page.__post_init__ checks, requests and counts, and the     *)
(* first thing page.rows does is to stop at a page without rows.             *)

StopBeforeRequest ==
    /\ pc = "page"
    /\ RowStopReached
    /\ StopFetch
    /\ UNCHANGED <<args, page_size, row_number, rows_fetched_total,
                   rows_yielded_total, response, taken, serverVars, historyVars>>

\* Mutant: the server is taken to count rows from one.
OffsetOneBased == row_number + 1

Offset == row_number

\* Mutant: an empty page does not stop the paging.
EmptyPageIgnored(rows) == FALSE

NoRowsReturned(rows) == rows = << >>

RequestPage ==
    LET rows == Window(population, Offset, page_size)
    IN  /\ pc = "page"
        /\ ~RowStopReached
        /\ response' = rows /\ taken' = 0
        /\ rows_fetched_total' = rows_fetched_total + Len(rows)
        /\ IF NoRowsReturned(rows)
           THEN StopFetch
           ELSE /\ pc' = IF rows = << >> THEN "page" ELSE "rows"
                /\ UNCHANGED stop_paging
        /\ opened' = TRUE
        /\ base' = IF opened THEN base ELSE population
        /\ UNCHANGED <<args, page_size, row_number, rows_yielded_total>>
        /\ UNCHANGED <<serverVars, yielded, inserted, deleted>>

RequestFails ==
    /\ Goto("page", "failed")
    /\ ~RowStopReached
    /\ UNCHANGED <<args, page_size, row_number, rows_fetched_total,
                   rows_yielded_total, stop_paging, response, taken>>
    /\ UNCHANGED <<serverVars, historyVars>>

-----------------------------------------------------------------------------
(* page.rows.                                                              *)

Row == response[taken + 1]

\* Mutant: the row is not counted into the offset.
HandleRowUncounted ==
    /\ rows_yielded_total' = rows_yielded_total + 1
    /\ UNCHANGED row_number

HandleRow ==
    /\ row_number' = row_number + 1
    /\ rows_yielded_total' = rows_yielded_total + 1

YieldRow ==
    /\ Goto("rows", "yielded")
    /\ HandleRow
    /\ taken' = taken + 1
    /\ yielded' = Append(yielded, Row)
    /\ UNCHANGED <<args, page_size, rows_fetched_total, stop_paging, response>>
    /\ UNCHANGED <<serverVars, opened, base, inserted, deleted>>

\* The caller asks for more; check_stop runs behind the yield.
Resume ==
    /\ pc = "yielded"
    /\ IF RowStopReached
       THEN StopFetch
       ELSE /\ pc' = IF taken < Len(response) THEN "rows" ELSE "page"
            /\ UNCHANGED stop_paging
    /\ UNCHANGED <<args, page_size, row_number, rows_fetched_total,
                   rows_yielded_total, response, taken, serverVars, historyVars>>

Abandon ==
    /\ Goto("yielded", "abandoned")
    /\ UNCHANGED <<args, page_size, row_number, rows_fetched_total,
                   rows_yielded_total, stop_paging, response, taken>>
    /\ UNCHANGED <<serverVars, historyVars>>

-----------------------------------------------------------------------------
(* The server, between two requests of this client: other clients add and
   delete saved queries, tasks are started and purged.                     *)

ServerMayChange ==
    /\ pc = "page"
    /\ changes < MaxChanges
    /\ changes' = changes + 1
    /\ UNCHANGED <<pagingVars, opened, base, yielded>>

RowAppears ==
    /\ ServerMayChange
    /\ \E r \in Rows, i \in 1..(Len(population) + 1) :
          /\ ~Contains(population, r)
          /\ population' = InsertAt(population, i, r)
    /\ inserted' = (inserted \/ opened)
    /\ UNCHANGED deleted

RowDisappears ==
    /\ ServerMayChange
    /\ \E i \in 1..Len(population) : population' = RemoveAt(population, i)
    /\ deleted' = (deleted \/ opened)
    /\ UNCHANGED inserted

-----------------------------------------------------------------------------
Advance == StopBeforeRequest \/ RequestPage \/ YieldRow \/ Resume

Client == Advance \/ RequestFails \/ Abandon

Server == RowAppears \/ RowDisappears

Ended == pc \in {"stopped", "failed", "abandoned"} /\ UNCHANGED vars

PagingNext == Client \/ Server \/ Ended

(* The generator runs in its caller's thread, and a request comes back: it goes
   on unless something fails or the caller lets go, which need not happen.  *)
PagingSpec == PagingInit /\ [][PagingNext]_vars /\ WF_vars(Advance)

-----------------------------------------------------------------------------
(* The stream of rows its caller sees.                                     *)

Outcome ==
    CASE pc \in {"page", "rows", "yielded"} -> "open"
      [] pc = "stopped" /\ opened /\ response = << >> -> "complete"
      [] OTHER -> "cut"

Stream == INSTANCE RowStream
          WITH result <- IF opened
                         THEN SubSeq(base, args.row_start + 1, Len(base))
                         ELSE << >>,
               delivered <- yielded,
               outcome <- Outcome

-----------------------------------------------------------------------------
(* Properties.                                                             *)

(* row_number, from which every request takes its offset, always stands right
   behind the last row the caller was given, and the rows of a page that are
   still to be given are all that was fetched ahead: also when the caller was
   cut off by row_stop in the middle of a page.  row_stop bounds the rows the
   caller is given, and a paging that stops has found no more rows or given
   that many.                                                              *)
OffsetFollowsCaller ==
    /\ row_number = args.row_start + Len(yielded)
    /\ rows_fetched_total = Len(yielded) + Len(response) - taken
    /\ args.row_stop # -1 => Len(yielded) <= args.row_stop
    /\ pc = "stopped" => \/ opened /\ response = << >>
                         \/ Len(yielded) = args.row_stop

(* As long as the server's rows have not changed since the first page, every
   step is one of RowStream: one result, in order, nothing skipped or given
   twice, nothing after the end, and called complete exactly when it is.   *)
FollowsRowStream ==
    /\ Stream!StreamInit
    /\ [][~(inserted' \/ deleted') => Stream!StreamNext]_(Stream!streamVars)

(* Rows that appear are the only reason for a row to come twice, and rows that
   disappear the only one for a row of the first result to be missing when the
   paging ran to the end.                                                  *)
PagingFaultsExplained ==
    /\ ~inserted => IsInjective(yielded)
    /\ ~deleted /\ Outcome = "complete" =>
        \A k \in (args.row_start + 1)..Len(base) : Contains(yielded, base[k])

(* While its caller keeps asking, a paging ends: the server's changes are
   bounded, and every page has rows or is the last.                        *)
PagingEnds == Stream!StreamEnds

(* The docs of get_query_history and get_fetch_history, and the help of the
   commands: "Start at row N", "Stop at row N".  The rows given are those from
   row row_start up to row row_stop.                                       *)
StopsAtRowStop ==
    args.row_stop # -1 /\ yielded # << >> => row_number <= args.row_stop

=============================================================================
