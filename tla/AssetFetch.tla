----------------------------- MODULE AssetFetch -----------------------------
(***************************************************************************)
(* AssetMixin.get_generator: the fetch of assets, page by page, as a       *)
(* generator its caller may stop consuming, with a callbacks object the    *)
(* rows go through and a server whose population changes meanwhile.        *)
(*                                                                         *)
(* pc names the point the generator has reached:                           *)
(*   count    asking for the initial count until it is an int              *)
(*   start    state created, callbacks.start() next                        *)
(*   fetch    the top of the while loop, a page request next               *)
(*   row      the for loop over page.assets, with rows left                *)
(*   yielded  suspended in "yield from", a row is with the caller          *)
(*   dropped  the same point when the callbacks left nothing to yield      *)
(*   loop     the for loop is over, page.process_loop next                 *)
(*   tag_add, tag_remove, close                                            *)
(*            StopFetch broke the while loop; callbacks.stop() in steps    *)
(*   done     the generator returned                                       *)
(*   failed   another exception left the generator                         *)
(*   abandoned  the caller closed or dropped the suspended generator       *)
(***************************************************************************)
EXTENDS AssetPage, AssetCallbacks

CONSTANTS
    Calls,              \* the arguments get_generator may be called with
    Populations,        \* what the server may hold at first: sequences of Assets
    RepeatsCursor,      \* does every response carry the cursor, or only the first
    MaxPending,         \* bound: count responses without a value
    MaxChanges,         \* bound: assets that appear or disappear meanwhile
    MaxMalformed        \* bound: malformed items among the responses

VARIABLES
    pc,
    state,              \* the paging state shared by the page and the callbacks
    page,               \* page.assets
    next,               \* how many of them the for loop has taken
    cursor,             \* request_obj.cursor_id: << >>, or <<what it stands for>>
    pending,            \* count responses without a value so far
    population,         \* what the server holds, in the order of the query
    changes             \* how often that changed

(* What happened, for the properties only; no action reads these. *)
VARIABLES
    started,            \* a page has been fetched
    base,               \* what the server paged over for the first page
    seen,               \* rows handed to callbacks.process_row, in order
    kept,               \* those the custom callbacks let through
    malformed,          \* malformed items met
    inserted, deleted   \* did assets appear, disappear, after the first page

fetchVars   == <<pc, state, page, next, cursor, pending, population, changes>>
historyVars == <<started, base, seen, kept, malformed, inserted, deleted>>
vars        == <<fetchVars, historyVars, callbackVars>>

ClientPoints == {"count", "start", "fetch", "row", "yielded", "dropped", "loop",
                 "tag_add", "tag_remove", "close"}
Ends         == {"done", "failed", "abandoned"}

FetchArgs ==
    [ max_rows : Int, max_pages : Int, page_size : Nat, page_start : Int,
      row_start : Int, use_cursor : BOOLEAN,
      export : Exports, to_file : BOOLEAN, file_exists : BOOLEAN,
      export_backup : BOOLEAN, export_overwrite : BOOLEAN,
      table_max_rows : Nat, custom_cb : BOOLEAN,
      tags_add : BOOLEAN, tags_remove : BOOLEAN ]

\* Assets have an id, by which the server holds each of them once.
ASSUME AssetFetchAssumption ==
    /\ {"[", "]", "header"} \cap Assets = {}
    /\ Calls \subseteq FetchArgs
    /\ Populations \subseteq Seq(Assets)
    /\ \A p \in Populations : IsInjective(p)
    /\ RepeatsCursor \in BOOLEAN
    /\ MaxPending \in Nat
    /\ MaxChanges \in Nat
    /\ MaxMalformed \in Nat

CursorTypeOK == cursor \in Seq(Seq(Assets)) /\ Len(cursor) <= 1

TypeOK ==
    /\ args \in FetchArgs
    /\ CallbacksTypeOK
    /\ CursorTypeOK
    /\ pc \in ClientPoints \cup Ends
    /\ state \in State
    /\ page \in Seq(Assets)
    /\ next \in 0..Len(page)
    /\ pending \in Nat
    /\ population \in Seq(Assets)
    /\ base \in Seq(Assets)
    /\ seen \in Seq(Assets)
    /\ kept \in Seq(Assets)
    /\ malformed \in Nat
    /\ changes \in Nat
    /\ started \in BOOLEAN
    /\ inserted \in BOOLEAN
    /\ deleted \in BOOLEAN

Init ==
    /\ args \in Calls
    /\ population \in Populations
    /\ CallbacksInit
    /\ pc = "count"
    /\ state = CreateState(args)
    /\ page = << >> /\ next = 0
    /\ cursor = << >>
    /\ pending = 0 /\ changes = 0 /\ malformed = 0
    /\ started = FALSE /\ base = << >>
    /\ seen = << >> /\ kept = << >>
    /\ inserted = FALSE /\ deleted = FALSE

Goto(from, to) == pc = from /\ pc' = to

-----------------------------------------------------------------------------
(* Before the loop.                                                        *)

\* count(): the server has no value yet; use_cache_entry is set and it is
\* asked again, for as long as that takes.
CountPending ==
    /\ pending < MaxPending
    /\ Goto("count", "count")
    /\ pending' = pending + 1
    /\ UNCHANGED <<state, page, next, cursor, population, changes>>
    /\ UNCHANGED <<historyVars, callbackVars>>

CountDone ==
    /\ Goto("count", "start")
    /\ UNCHANGED <<state, page, next, cursor, pending, population, changes>>
    /\ UNCHANGED <<historyVars, callbackVars>>

StartCallbacks ==
    /\ Goto("start", "fetch")
    /\ Start
    /\ UNCHANGED <<state, page, next, cursor, pending, population, changes>>
    /\ UNCHANGED historyVars

StartRefused ==
    /\ OpenRefused
    /\ Goto("start", "failed")
    /\ UNCHANGED <<state, page, next, cursor, pending, population, changes>>
    /\ UNCHANGED <<historyVars, callbackVars>>

-----------------------------------------------------------------------------
(* One turn of the while loop.                                             *)

\* What the server pages over: the result the cursor stands for, if one was sent.
Served == IF cursor = << >> THEN population ELSE cursor[1]

\* Mutant: the cursor of the response is not taken over.
NextCursorDropped == << >>

\* "request_obj.cursor_id = page.cursor", "" when the response has none.
NextCursor ==
    IF args.use_cursor /\ (cursor = << >> \/ RepeatsCursor) THEN <<Served>> ELSE << >>

\* Mutant: the last row of a page is left out.
ForLoopShort(assets, n) == IF n + 1 < Len(assets) THEN "row" ELSE "loop"

\* "for row in page.assets", n of them taken.
ForLoop(assets, n) == IF n < Len(assets) THEN "row" ELSE "loop"

\* A page arrives; its i-th item is malformed, none when i = 0.
FetchPage(i) ==
    LET window == Window(Served, state.rows_offset, state.page_size)
        assets == LoadResponse(window, i)
        number == PageNumber(state.rows_offset, state.page_size)
    IN  /\ i \in 0..Len(window)
        /\ i # 0 => malformed < MaxMalformed
        /\ Goto("fetch", IF StopAtPage(assets) THEN "tag_add" ELSE ForLoop(assets, 0))
        /\ state' = ProcessPage(state, assets, number)
        /\ page' = assets
        /\ next' = 0
        /\ cursor' = NextCursor
        /\ started' = TRUE
        /\ base' = IF started THEN base ELSE Served
        /\ malformed' = IF i # 0 THEN malformed + 1 ELSE malformed
        /\ UNCHANGED <<pending, population, changes>>
        /\ UNCHANGED <<seen, kept, inserted, deleted, callbackVars>>

\* A request fails for good (Http gave up, bad status, unusable body).
RequestFails ==
    /\ pc \in {"count", "fetch"} /\ pc' = "failed"
    /\ UNCHANGED <<state, page, next, cursor, pending, population, changes>>
    /\ UNCHANGED <<historyVars, callbackVars>>

\* The row the for loop takes; do_pre_row counts it before anything else.
Row == page[next + 1]

TakeRow ==
    /\ next < Len(page)
    /\ next' = next + 1
    /\ state' = [state EXCEPT !.rows_processed_total = @ + 1]
    /\ seen' = Append(seen, Row)

Keeps == IF args.custom_cb THEN BOOLEAN ELSE {TRUE}

ProcessRow(keep) ==
    /\ Goto("row", IF Yields(keep) THEN "yielded" ELSE "dropped")
    /\ TakeRow
    /\ ~TableFull(state'.rows_processed_total)
    /\ DoRow(Row, keep)
    /\ kept' = IF keep THEN Append(kept, Row) ELSE kept
    /\ UNCHANGED <<page, cursor, pending, population, changes>>
    /\ UNCHANGED <<started, base, malformed, inserted, deleted>>

\* Table.check_stop raises StopFetch from inside process_row.
StopTable ==
    /\ Goto("row", "tag_add")
    /\ TakeRow
    /\ TableFull(state'.rows_processed_total)
    /\ UNCHANGED <<page, cursor, pending, population, changes>>
    /\ UNCHANGED <<started, base, kept, malformed, inserted, deleted>>
    /\ UNCHANGED callbackVars

\* Formatting or writing the row raises something else, after do_pre_row; the
\* row may have been remembered or written by then.
RowFails ==
    /\ Goto("row", "failed")
    /\ TakeRow
    /\ UNCHANGED <<page, cursor, pending, population, changes>>
    /\ UNCHANGED <<started, base, kept, malformed, inserted, deleted>>
    /\ \/ ~TableFull(state'.rows_processed_total) /\ DoRow(Row, TRUE)
       \/ UNCHANGED callbackVars

\* The caller asks for more; page.process_row runs behind the yield.
Resume ==
    /\ pc \in {"yielded", "dropped"}
    /\ pc' = IF StopAtRow(state) THEN "tag_add" ELSE ForLoop(page, next)
    /\ UNCHANGED <<state, page, next, cursor, pending, population, changes>>
    /\ UNCHANGED <<historyVars, callbackVars>>

\* The caller is done with the generator: GeneratorExit, nothing is stopped.
Abandon ==
    /\ Goto("yielded", "abandoned")
    /\ UNCHANGED <<state, page, next, cursor, pending, population, changes>>
    /\ UNCHANGED <<historyVars, callbackVars>>

ProcessLoop ==
    /\ Goto("loop", IF StopAtLoop(state) THEN "tag_add" ELSE "fetch")
    /\ UNCHANGED <<state, page, next, cursor, pending, population, changes>>
    /\ UNCHANGED <<historyVars, callbackVars>>

-----------------------------------------------------------------------------
(* callbacks.stop(), once the loop is over.                                *)

\* A label request may fail after the server has seen it.
TagAdd ==
    /\ Goto("tag_add", "tag_remove") \/ (args.tags_add /\ Goto("tag_add", "failed"))
    /\ DoTagAdd
    /\ UNCHANGED <<state, page, next, cursor, pending, population, changes>>
    /\ UNCHANGED historyVars

TagRemove ==
    /\ Goto("tag_remove", "close") \/ (args.tags_remove /\ Goto("tag_remove", "failed"))
    /\ DoTagRemove
    /\ UNCHANGED <<state, page, next, cursor, pending, population, changes>>
    /\ UNCHANGED historyVars

Close ==
    /\ Goto("close", "done")
    /\ CloseExport
    /\ UNCHANGED <<state, page, next, cursor, pending, population, changes>>
    /\ UNCHANGED historyVars

-----------------------------------------------------------------------------
(* The server, between two requests of this client: a discovery cycle, or
   another client, makes assets enter or leave the result of the query.    *)

ServerMayChange ==
    /\ pc \in {"count", "fetch"}
    /\ changes < MaxChanges
    /\ changes' = changes + 1
    /\ UNCHANGED <<pc, state, page, next, cursor, pending>>
    /\ UNCHANGED <<started, base, seen, kept, malformed, callbackVars>>

AssetAppears ==
    /\ ServerMayChange
    /\ \E a \in Assets, i \in 1..(Len(population) + 1) :
          /\ ~Contains(population, a)
          /\ population' = InsertAt(population, i, a)
    /\ inserted' = (inserted \/ started)
    /\ UNCHANGED deleted

AssetDisappears ==
    /\ ServerMayChange
    /\ \E i \in 1..Len(population) : population' = RemoveAt(population, i)
    /\ deleted' = (deleted \/ started)
    /\ UNCHANGED inserted

-----------------------------------------------------------------------------
Client ==
    \/ CountPending
    \/ CountDone
    \/ StartCallbacks
    \/ StartRefused
    \/ \E i \in 0..state.page_size : FetchPage(i)
    \/ RequestFails
    \/ \E keep \in Keeps : ProcessRow(keep)
    \/ StopTable
    \/ RowFails
    \/ Resume
    \/ Abandon
    \/ ProcessLoop
    \/ TagAdd
    \/ TagRemove
    \/ Close

Server == AssetAppears \/ AssetDisappears

\* An ended fetch stays as it is.
Ended == pc \in Ends /\ UNCHANGED vars

Next == Client \/ Server \/ Ended

Spec == Init /\ [][Next]_vars

(* The generator runs in the caller's thread: while the caller keeps asking,
   it always goes on, and the caller asks again or abandons it.            *)
FairSpec == Spec /\ WF_vars(Client)

-----------------------------------------------------------------------------
(* The stream of rows a caller sees, when the server pages over one result.  *)

\* The points of callbacks.stop(), and behind it.
Stopping == {"tag_add", "tag_remove", "close", "done"}

\* What the stream is going to deliver: the result from the start on.
Requested == IF started THEN SubSeq(base, StartOf(args) + 1, Len(base)) ELSE << >>

Outcome ==
    IF pc \notin Stopping \cup Ends THEN "open"
    ELSE IF started /\ page = << >> THEN "complete" ELSE "cut"

Stream == INSTANCE RowStream
          WITH Rows <- Assets, result <- Requested, delivered <- seen,
               opened <- started, outcome <- Outcome

-----------------------------------------------------------------------------
(* Properties.                                                             *)

\* Why a while loop may end with StopFetch, read off the state it ends in.
StopReason ==
    \/ page = << >>
    \/ StopAtRow(state)
    \/ TableFull(state.rows_processed_total)
    \/ next = Len(page) /\ StopAtLoop(state)

\* Nothing disturbs the paging: every item is well formed, and the server
\* pages over one result throughout.
Undisturbed ==
    /\ malformed = 0
    /\ (args.use_cursor /\ RepeatsCursor) \/ ~(inserted \/ deleted)

(* The counters of the state dict, which three methods of two classes update,
   always agree: the offset of the next request is where the fetch started
   plus what was fetched, and what was fetched is what the callbacks have
   been given plus what is left of the page.                               *)
Accounting ==
    /\ state.rows_offset = StartOf(args) + state.rows_fetched_total
    /\ state.rows_processed_total = Len(seen)
    /\ state.rows_fetched_total = Len(seen) + (Len(page) - next)

(* Undisturbed, the caller is given the rows of one result of the query from
   the requested start on: in order, none twice, none left out; and the fetch
   ends by itself only at the end of that result or at a limit it was given. *)
ExactWindow ==
    Undisturbed =>
        /\ \A k \in 1..Len(seen) :
              /\ StartOf(args) + k <= Len(base)
              /\ seen[k] = base[StartOf(args) + k]
        /\ pc \in Stopping =>
              \/ StartOf(args) + Len(seen) >= Len(base)
              \/ StopAtRow(state)
              \/ TableFull(Len(seen))
              \/ next = Len(page) /\ StopAtLoop(state)

(* No limit is overrun, although the last page may bring more rows than are
   still wanted: max_rows bounds the rows the callbacks are given and
   table_max_rows those that reach the table; undisturbed, max_pages bounds
   the rows fetched to that many full pages.                               *)
LimitsRespected ==
    /\ state.max_rows # 0 => Len(seen) <= state.max_rows
    /\ args.export = "table" /\ args.table_max_rows # 0 =>
          Len(table) <= args.table_max_rows
    /\ Undisturbed /\ state.max_pages # 0 =>
          state.rows_fetched_total <= state.max_pages * state.page_size

(* When the population changes under offset paging, assets that appear can
   only make rows come twice: as long as none appears no row comes twice.
   And assets that disappear can only make rows be missed: as long as none
   does, a fetch that ran to the end has given the caller every asset that was
   in the result at the first page, from the requested start on.           *)
FaultsExplained ==
    /\ malformed = 0 /\ ~inserted => IsInjective(seen)
    /\ malformed = 0 /\ ~deleted /\ pc \in Stopping /\ page = << >> =>
        \A k \in (StartOf(args) + 1)..Len(base) : Contains(seen, base[k])

(* Labels are only ever sent once the paging is over for one of its reasons,
   never after a failure in the middle of it or a generator given up: so they
   cannot change the result that is being paged over.  The two requests come
   in order, add first, and each names exactly the rows the callbacks let
   through, once each, however often paging brought them.                  *)
TagsOnceAtTheEnd ==
    /\ calls # << >> => pc \in {"tag_remove", "close", "done", "failed"} /\ StopReason
    /\ \A i \in DOMAIN calls :
          /\ IsInjective(calls[i].ids)
          /\ ToSet(calls[i].ids) = ToSet(kept)
          /\ calls[i].op = "add" => i = 1
    /\ pc = "done" =>
          Len(calls) = Cardinality({t \in {"add", "remove"} :
                          IF t = "add" THEN args.tags_add ELSE args.tags_remove})

(* A fetch that ends well leaves a whole file: the rows the callbacks let
   through, once each time they came, enclosed by what the format opens and
   ends with, and closed unless it is stdout.                              *)
ExportWhole ==
    pc = "done" =>
        /\ fd = IF args.export = "base" THEN "none"
                ELSE IF args.to_file THEN "closed" ELSE "open"
        /\ written = CASE args.export = "json"  -> <<"[">> \o kept \o <<"]">>
                       [] args.export = "csv"   -> IF seen = << >> THEN << >>
                                                   ELSE <<"header">> \o kept
                       [] args.export = "table" -> kept
                       [] args.export = "base"  -> << >>

(* However the fetch ends, a file that was there before is not lost unless the
   caller asked to overwrite it without a backup.                          *)
OldFileKept ==
    args.file_exists /\ (args.export_backup \/ ~args.export_overwrite) =>
        "old" \in {target, backup}

(* The help of --table-max-rows: "Only return this many rows for
   --export-format=table".  A table that was cut off at the limit, without
   custom callbacks that drop rows, has that many rows.                    *)
TableShowsMaxRows ==
    pc = "done" /\ ~args.custom_cb /\ TableFull(state.rows_processed_total) =>
        Len(table) = args.table_max_rows

(* While its caller keeps asking, a fetch comes to an end: the changes of the
   server are bounded, and every page moves the offset on or is the last.  *)
Terminates == <>(pc \in Ends)

(* As long as nothing disturbs the paging (with a cursor that every response
   repeats, whatever the population does; by offset, while it stays) every step
   is one of RowStream: the pages, the offset and the limits never show as a
   row skipped, repeated or out of order, no row comes after the end, and the
   stream is called complete exactly when every row was delivered.         *)
ImplementsRowStream ==
    /\ Stream!StreamInit
    /\ [][Undisturbed' => Stream!StreamNext]_(Stream!streamVars)

=============================================================================
