--------------------------- MODULE AssetFetchProofs ---------------------------
(***************************************************************************)
(* Theorems about AssetFetch, for every set of assets, every family of     *)
(* calls and populations, and every bound.                                 *)
(*                                                                         *)
(* First where the rows of a page come from: IInv has the types and the    *)
(* counters, WindowInv ties a page to what the server had.  On them rests  *)
(* what a fetch leaves its caller with: the limits it respected, the file, *)
(* the labels, the stream of rows, and what may come twice or be missed    *)
(* when the server changes under it.                                       *)
(***************************************************************************)
EXTENDS AssetFetch, PagingLemmas, FiniteSetTheorems

-----------------------------------------------------------------------------
(* The paging arithmetic.                                                  *)

\* The size of a page, and where a fetch starts, are what State says.
LEMMA PageSizeType ==
    ASSUME NEW a \in FetchArgs
    PROVE  PageSizeOf(a) \in Nat \ {0}
<1>1. a.page_size \in Nat /\ a.max_rows \in Int
    BY DEF FetchArgs
<1>2. QED
    BY <1>1, MaxPageSizeAssumption DEF PageSizeOf, ParseIntMinMax, ParseNat

\* A fetch starts at a row, whatever the caller passed for it.
LEMMA StartType ==
    ASSUME NEW a \in FetchArgs
    PROVE  StartOf(a) \in Nat
<1> DEFINE pages == ParseNat(a.page_start)
<1>1. a.page_size \in Nat /\ a.page_start \in Int /\ a.row_start \in Int
    BY DEF FetchArgs
<1>2. pages \in Nat /\ ParseNat(a.row_start) \in Nat
    BY <1>1 DEF ParseNat
<1>3. pages * a.page_size \in Nat
    <2> HIDE DEF pages
    <2>1. \A m, n \in Nat : m * n \in Nat
        OBVIOUS
    <2>2. QED
        BY <1>1, <1>2, <2>1
<1>4. QED
    BY <1>2, <1>3 DEF StartOf

\* create_state makes a state that starts at the start, with nothing fetched.
LEMMA CreateStateType ==
    ASSUME NEW a \in FetchArgs
    PROVE  /\ CreateState(a) \in State
           /\ CreateState(a).rows_offset = StartOf(a)
           /\ CreateState(a).rows_fetched_total = 0
           /\ CreateState(a).rows_processed_total = 0
<1>1. a.max_rows \in Int /\ a.max_pages \in Int
    BY DEF FetchArgs
<1>2. ParseNat(a.max_rows) \in Nat /\ ParseNat(a.max_pages) \in Nat
    BY <1>1 DEF ParseNat
<1>3. QED
    BY <1>2, PageSizeType, StartType DEF CreateState, State

\* What load_response makes of a window has at most as many rows.
LEMMA LoadResponseType ==
    ASSUME NEW S, NEW w \in Seq(S), NEW i \in 0..Len(w)
    PROVE  LoadResponse(w, i) \in Seq(S) /\ Len(LoadResponse(w, i)) <= Len(w)
<1>0. Len(w) \in Nat
    BY LenProperties
<1>1. CASE i = 0
    BY <1>0, <1>1 DEF LoadResponse
<1>2. CASE i # 0
    <2>1. i \in 1..Len(w)
        BY <1>0, <1>2
    <2>2. QED
        BY <1>0, <1>2, <2>1, RemoveAtProperties DEF LoadResponse
<1>3. QED
    BY <1>1, <1>2

\* process_page keeps the type, and counts the rows of the page twice over.
LEMMA ProcessPageType ==
    ASSUME NEW s \in State, NEW S, NEW assets \in Seq(S), NEW number \in Nat
    PROVE  /\ ProcessPage(s, assets, number) \in State
           /\ ProcessPage(s, assets, number).rows_offset
                 = s.rows_offset + Len(assets)
           /\ ProcessPage(s, assets, number).rows_fetched_total
                 = s.rows_fetched_total + Len(assets)
           /\ ProcessPage(s, assets, number).rows_processed_total
                 = s.rows_processed_total
<1> DEFINE offset  == s.rows_offset + Len(assets)
           fetched == s.rows_fetched_total + Len(assets)
<1>1. offset \in Nat /\ fetched \in Nat
    <2>1. Len(assets) \in Nat
        BY LenProperties
    <2>2. QED
        BY <2>1 DEF State
<1>2. ProcessPage(s, assets, number) =
        [s EXCEPT !.rows_offset = offset, !.rows_fetched_total = fetched,
                  !.page_number = number]
    BY DEF ProcessPage
<1> HIDE DEF offset, fetched
<1> DEFINE t == [s EXCEPT !.rows_offset = offset, !.rows_fetched_total = fetched,
                          !.page_number = number]
<1>3. t \in State
    BY <1>1 DEF State
<1>4. /\ t.rows_offset = offset /\ t.rows_fetched_total = fetched
      /\ t.rows_processed_total = s.rows_processed_total
    BY DEF State
<1> HIDE DEF t
<1>5. ProcessPage(s, assets, number) = t
    BY <1>2 DEF t
<1>6. QED
    BY <1>3, <1>4, <1>5 DEF offset, fetched

\* Pages are numbered with natural numbers.
LEMMA PageNumberType ==
    ASSUME NEW offset \in Nat, NEW limit \in Nat \ {0}
    PROVE  PageNumber(offset, limit) \in Nat
BY DEF PageNumber

-----------------------------------------------------------------------------
(* Type correctness.                                                       *)

\* The client's cursor and the server's population are both data to page over.
LEMMA ServedType ==
    ASSUME TypeOK
    PROVE  Served \in Seq(Assets)
<1>1. CASE cursor = << >>
    BY <1>1 DEF TypeOK, Served
<1>2. CASE cursor # << >>
    <2> DEFINE SA == Seq(Assets)
    <2>0. cursor \in Seq(SA)
        BY DEF TypeOK, CursorTypeOK
    <2> HIDE DEF SA
    <2>1. Len(cursor) \in Nat \ {0}
        BY <1>2, <2>0, EmptySeq
    <2>2. cursor[1] \in SA
        BY <2>0, <2>1, ElementOfSeq
    <2>3. QED
        BY <1>2, <2>2 DEF Served, SA
<1>3. QED
    BY <1>1, <1>2

\* A cursor that stands for a sequence of assets, and no cursor.
LEMMA CursorType ==
    ASSUME cursor' = << >> \/ \E s \in Seq(Assets) : cursor' = <<s>>
    PROVE  CursorTypeOK'
<1> DEFINE SA == Seq(Assets)
<1> SUFFICES cursor' \in Seq(SA) /\ Len(cursor') <= 1
    BY DEF CursorTypeOK
<1> HIDE DEF SA
<1>1. CASE cursor' = << >>
    BY <1>1, EmptySeq
<1>2. ASSUME NEW s \in SA, cursor' = <<s>>
      PROVE  cursor' \in Seq(SA) /\ Len(cursor') <= 1
    BY <1>2
<1>3. QED
    BY <1>1, <1>2 DEF SA

\* The type invariant holds before the first request.
LEMMA TypeInit == Init => TypeOK
<1> SUFFICES ASSUME Init PROVE TypeOK
    OBVIOUS
<1>1. args \in FetchArgs /\ population \in Seq(Assets)
    BY AssetFetchAssumption DEF Init
<1>2. state \in State
    BY <1>1, CreateStateType DEF Init
<1>3. CallbacksTypeOK
    BY EmptySeq DEF Init, CallbacksInit, CallbacksTypeOK
<1>4. CursorTypeOK
    <2> DEFINE SA == Seq(Assets)
    <2>1. cursor = << >>
        BY DEF Init
    <2> HIDE DEF SA
    <2>2. cursor \in Seq(SA) /\ Len(cursor) <= 1
        BY <2>1, EmptySeq
    <2>3. QED
        BY <2>2 DEF CursorTypeOK, SA
<1>5. page \in Seq(Assets) /\ Len(page) = 0 /\ base \in Seq(Assets)
      /\ seen \in Seq(Assets) /\ kept \in Seq(Assets)
    BY EmptySeq DEF Init
<1>6. pc \in ClientPoints
    BY DEF Init, ClientPoints
<1>7. next \in 0..Len(page) /\ pending \in Nat /\ changes \in Nat
      /\ malformed \in Nat
    <2>1. next = 0 /\ pending = 0 /\ changes = 0 /\ malformed = 0
        BY DEF Init
    <2>2. QED
        BY <1>5, <2>1
<1>8. started \in BOOLEAN /\ inserted \in BOOLEAN /\ deleted \in BOOLEAN
    BY Zenon DEF Init
<1>9. QED
    BY <1>1, <1>2, <1>3, <1>4, <1>5, <1>6, <1>7, <1>8 DEF TypeOK

\* The steps that only move pc on.
LEMMA TypeOfMove ==
    ASSUME TypeOK,
           pc' \in ClientPoints \cup Ends,
           UNCHANGED <<state, page, next, cursor, population, changes>>,
           pending' \in Nat,
           UNCHANGED <<historyVars, callbackVars>>
    PROVE  TypeOK'
<1>1. CallbacksTypeOK'
    BY DEF TypeOK, CallbacksTypeOK, callbackVars
<1>2. CursorTypeOK'
    BY DEF TypeOK, CursorTypeOK
<1>3. QED
    BY <1>1, <1>2 DEF TypeOK, historyVars, callbackVars

-----------------------------------------------------------------------------
(* The fragments of AssetCallbacks keep its type.                          *)

\* The rows a callbacks object is told of are assets, and so are its tokens.
LEMMA RememberType ==
    ASSUME NEW s \in Seq(Assets), NEW row \in Assets
    PROVE  Remember(s, row) \in Seq(Assets)
BY DEF Remember

\* The CSV header is a token as well.
LEMMA WithHeaderType ==
    ASSUME NEW s \in Seq(Tokens)
    PROVE  WithHeader(s) \in Seq(Tokens)
<1>1. "header" \in Tokens
    BY DEF Tokens
<1>2. <<"header">> \in Seq(Tokens)
    BY <1>1
<1>3. QED
    BY <1>2 DEF WithHeader

\* start() keeps the type of what the callbacks hold.
LEMMA StartTypes ==
    ASSUME CallbacksTypeOK, Start, target \in {"absent", "old"}
    PROVE  CallbacksTypeOK'
<1>1. <<"[">> \in Seq(Tokens) /\ << >> \in Seq(Tokens)
    <2>1. "[" \in Tokens
        BY DEF Tokens
    <2>2. QED
        BY <2>1, EmptySeq
<1>2. written' \in Seq(Tokens)
    BY <1>1 DEF Start
<1>3. target' \in {"absent", "old", "new"} /\ backup' \in {"absent", "old"}
      /\ fd' \in {"none", "open", "closed"}
    BY DEF CallbacksTypeOK, Start
<1>4. QED
    BY <1>2, <1>3 DEF CallbacksTypeOK, Start

\* So does do_row, whether or not the row is kept.
LEMMA DoRowTypes ==
    ASSUME CallbacksTypeOK, NEW row \in Assets, NEW keep \in BOOLEAN, DoRow(row, keep)
    PROVE  CallbacksTypeOK'
<1>1. tag_rows_add' \in Seq(Assets) /\ tag_rows_remove' \in Seq(Assets)
    BY RememberType DEF DoRow, CallbacksTypeOK
<1>2. written' \in Seq(Tokens)
    <2>1. row \in Tokens
        BY DEF Tokens
    <2>2. WithHeader(written) \in Seq(Tokens)
        BY WithHeaderType DEF CallbacksTypeOK
    <2>3. QED
        BY <2>1, <2>2 DEF DoRow, WriteRow
<1>3. table' \in Seq(Assets)
    BY DEF DoRow, WriteRow, CallbacksTypeOK
<1>4. QED
    BY <1>1, <1>2, <1>3 DEF CallbacksTypeOK, DoRow

\* So do the label requests stop() sends.
LEMMA DoTagTypes ==
    ASSUME CallbacksTypeOK, DoTagAdd \/ DoTagRemove
    PROVE  CallbacksTypeOK'
<1>1. ASSUME NEW op \in {"add", "remove"}, NEW ids \in Seq(Assets)
      PROVE  Append(calls, [op |-> op, ids |-> ids]) \in Seq(LabelCalls)
    <2> DEFINE call == [op |-> op, ids |-> ids]
    <2>1. call \in LabelCalls
        BY DEF LabelCalls
    <2>2. calls \in Seq(LabelCalls)
        BY DEF CallbacksTypeOK
    <2> HIDE DEF call
    <2>3. Append(calls, call) \in Seq(LabelCalls)
        BY <2>1, <2>2
    <2>4. QED
        BY <2>3 DEF call
<1>2. calls' \in Seq(LabelCalls)
    <2>1. CASE DoTagAdd
        BY <1>1, <2>1 DEF CallbacksTypeOK, DoTagAdd
    <2>2. CASE DoTagRemove
        BY <1>1, <2>2 DEF CallbacksTypeOK, DoTagRemove
    <2>3. QED
        BY <2>1, <2>2
<1>3. UNCHANGED <<target, backup, fd, written, table, tag_rows_add, tag_rows_remove>>
    BY DEF DoTagAdd, DoTagRemove
<1>4. QED
    BY <1>2, <1>3 DEF CallbacksTypeOK

\* So does the end of the export.
LEMMA CloseExportTypes ==
    ASSUME CallbacksTypeOK, CloseExport
    PROVE  CallbacksTypeOK'
<1>1. written' \in Seq(Tokens)
    <2>1. "]" \in Tokens /\ Assets \subseteq Tokens
        BY DEF Tokens
    <2>2. written \in Seq(Tokens) /\ table \in Seq(Tokens)
        BY <2>1, SeqMonotonic DEF CallbacksTypeOK
    <2>3. written \o table \in Seq(Tokens) /\ Append(written, "]") \in Seq(Tokens)
        BY <2>1, <2>2, ConcatProperties
    <2>4. QED
        BY <2>2, <2>3 DEF CloseExport
<1>2. fd' \in {"none", "open", "closed"}
    BY DEF CloseExport, CallbacksTypeOK
<1>3. QED
    BY <1>1, <1>2 DEF CallbacksTypeOK, CloseExport

-----------------------------------------------------------------------------
(* The inductive invariant.                                                *)

\* Before a request and after the last row of a page, the for loop has taken
\* all of page.assets: without it Accounting does not survive FetchPage.
Consumed == pc \in {"count", "start", "fetch", "loop"} => next = Len(page)

\* Until the callbacks are started nothing has happened to the export file:
\* without it neither the type of backup nor OldFileKept survives Start.
Untouched ==
    pc \in {"count", "start"} =>
        target = IF args.file_exists THEN "old" ELSE "absent"

IInv == TypeOK /\ Untouched /\ OldFileKept /\ Consumed /\ Accounting

-----------------------------------------------------------------------------
(* Every step keeps the type.                                              *)

\* What the for loop takes is an asset, and counts as one row processed.
LEMMA TakeRowTypes ==
    ASSUME TypeOK, TakeRow
    PROVE  /\ Row \in Assets
           /\ next' = next + 1 /\ next' \in 0..Len(page)
           /\ state' \in State
           /\ state'.rows_processed_total = state.rows_processed_total + 1
           /\ state'.rows_fetched_total = state.rows_fetched_total
           /\ state'.rows_offset = state.rows_offset
           /\ seen' \in Seq(Assets) /\ Len(seen') = Len(seen) + 1
<1>0. Len(page) \in Nat /\ next \in 0..Len(page) /\ page \in Seq(Assets)
    BY LenProperties DEF TypeOK
<1>1. next + 1 \in 1..Len(page) /\ next' = next + 1
    BY <1>0 DEF TakeRow
<1>2. Row \in Assets
    BY <1>0, <1>1, ElementOfSeq DEF Row
<1>3. seen' \in Seq(Assets) /\ Len(seen') = Len(seen) + 1
    BY <1>2 DEF TypeOK, TakeRow
<1> DEFINE processed == state.rows_processed_total + 1
<1>4. state \in State /\ processed \in Nat
    BY DEF TypeOK, State
<1>5. state' = [state EXCEPT !.rows_processed_total = processed]
    BY DEF TakeRow
<1> HIDE DEF processed
<1>6. /\ state' \in State
      /\ state'.rows_processed_total = processed
      /\ state'.rows_fetched_total = state.rows_fetched_total
      /\ state'.rows_offset = state.rows_offset
    BY <1>4, <1>5 DEF State
<1>7. QED
    BY <1>0, <1>1, <1>2, <1>3, <1>6 DEF processed

\* A page brings assets, leaves the for loop at its first, and is counted.
LEMMA FetchPageTypes ==
    ASSUME TypeOK, NEW i \in Nat, FetchPage(i)
    PROVE  /\ page' \in Seq(Assets) /\ next' = 0
           /\ state' \in State
           /\ state'.rows_offset = state.rows_offset + Len(page')
           /\ state'.rows_fetched_total = state.rows_fetched_total + Len(page')
           /\ state'.rows_processed_total = state.rows_processed_total
           /\ CursorTypeOK'
           /\ base' \in Seq(Assets)
           /\ pc' \in {"tag_add", "row"}
<1> DEFINE window == Window(Served, state.rows_offset, state.page_size)
           assets == LoadResponse(window, i)
           number == PageNumber(state.rows_offset, state.page_size)
<1>1. state \in State /\ state.rows_offset \in Nat /\ state.page_size \in Nat \ {0}
    BY DEF TypeOK, State
<1>2. window \in Seq(Assets) /\ number \in Nat
    BY <1>1, ServedType, WindowProperties, PageNumberType
<1>3. i \in 0..Len(window) /\ page' = assets /\ next' = 0
      /\ state' = ProcessPage(state, assets, number)
      /\ pc' = (IF StopAtPage(assets) THEN "tag_add" ELSE ForLoop(assets, 0))
      /\ cursor' = NextCursor
      /\ base' = IF started THEN base ELSE Served
    BY DEF FetchPage, Goto
<1> HIDE DEF window, number
<1>4. assets \in Seq(Assets)
    BY <1>2, <1>3, LoadResponseType
<1> HIDE DEF assets
<1>5. /\ state' \in State
      /\ state'.rows_offset = state.rows_offset + Len(assets)
      /\ state'.rows_fetched_total = state.rows_fetched_total + Len(assets)
      /\ state'.rows_processed_total = state.rows_processed_total
    BY <1>1, <1>2, <1>3, <1>4, ProcessPageType
<1>6. CursorTypeOK'
    BY <1>3, ServedType, CursorType DEF NextCursor
<1>7. base' \in Seq(Assets)
    BY <1>3, ServedType DEF TypeOK
<1>8. pc' \in {"tag_add", "row"}
    <2>1. assets # << >> => Len(assets) \in Nat \ {0}
        BY <1>4, EmptySeq
    <2>2. QED
        BY <1>3, <2>1 DEF StopAtPage, ForLoop
<1>9. QED
    BY <1>3, <1>4, <1>5, <1>6, <1>7, <1>8

\* So does the server, which changes what it pages over and nothing else.
LEMMA TypeOfServer ==
    ASSUME TypeOK, AssetAppears \/ AssetDisappears
    PROVE  TypeOK'
<1>0. ServerMayChange
    BY DEF AssetAppears, AssetDisappears
<1>1. changes' \in Nat
    BY <1>0 DEF TypeOK, ServerMayChange
<1>2. population' \in Seq(Assets)
    <2>1. CASE AssetAppears
        BY <2>1, InsertAtProperties DEF TypeOK, AssetAppears
    <2>2. CASE AssetDisappears
        BY <2>2, RemoveAtProperties DEF TypeOK, AssetDisappears
    <2>3. QED
        BY <2>1, <2>2
<1>3. inserted' \in BOOLEAN /\ deleted' \in BOOLEAN
    BY Zenon DEF TypeOK, AssetAppears, AssetDisappears
<1>4. CallbacksTypeOK'
    BY <1>0 DEF TypeOK, CallbacksTypeOK, ServerMayChange, callbackVars
<1>5. CursorTypeOK'
    BY <1>0 DEF TypeOK, CursorTypeOK, ServerMayChange
<1>6. QED
    BY <1>0, <1>1, <1>2, <1>3, <1>4, <1>5 DEF TypeOK, ServerMayChange, callbackVars

\* Every step keeps the type invariant.
LEMMA TypeNext ==
    ASSUME TypeOK, Untouched, [Next]_vars
    PROVE  TypeOK'
<1> USE DEF Goto
<1>1. CASE CountPending
    <2>1. pc' \in ClientPoints /\ pending' \in Nat
        BY <1>1 DEF CountPending, ClientPoints, TypeOK
    <2>2. QED
        BY <1>1, <2>1, TypeOfMove DEF CountPending
<1>2. CASE CountDone
    <2>1. pc' \in ClientPoints /\ pending' \in Nat
        BY <1>2 DEF CountDone, ClientPoints, TypeOK
    <2>2. QED
        BY <1>2, <2>1, TypeOfMove DEF CountDone
<1>3. CASE StartCallbacks
    <2>1. target \in {"absent", "old"}
        BY <1>3 DEF StartCallbacks, Untouched
    <2>2. CallbacksTypeOK'
        BY <1>3, <2>1, StartTypes DEF StartCallbacks, TypeOK
    <2>3. CursorTypeOK'
        BY <1>3 DEF StartCallbacks, TypeOK, CursorTypeOK
    <2>4. pc' \in ClientPoints /\ args' = args
        BY <1>3 DEF StartCallbacks, ClientPoints, Start
    <2>5. QED
        BY <1>3, <2>2, <2>3, <2>4 DEF StartCallbacks, TypeOK, historyVars
<1>4. CASE StartRefused
    <2>1. pc' \in Ends /\ pending' \in Nat
        BY <1>4 DEF StartRefused, Ends, TypeOK
    <2>2. QED
        BY <1>4, <2>1, TypeOfMove DEF StartRefused
<1>5. ASSUME NEW i \in 0..state.page_size, FetchPage(i)
      PROVE  TypeOK'
    <2>0. i \in Nat
        BY DEF TypeOK, State
    <2>1. /\ page' \in Seq(Assets) /\ next' = 0 /\ state' \in State
          /\ CursorTypeOK' /\ base' \in Seq(Assets)
          /\ pc' \in {"tag_add", "row"}
        BY <1>5, <2>0, FetchPageTypes
    <2>2. next' \in 0..Len(page')
        <3>1. Len(page') \in Nat
            BY <2>1, LenProperties
        <3>2. QED
            BY <2>1, <3>1
    <2>3. malformed' \in Nat
        BY <1>5 DEF FetchPage, TypeOK
    <2>4. CallbacksTypeOK' /\ args' = args
        BY <1>5 DEF FetchPage, TypeOK, CallbacksTypeOK, callbackVars
    <2>5. pc' \in ClientPoints /\ started' \in BOOLEAN
        BY <1>5, <2>1 DEF FetchPage, ClientPoints
    <2>6. UNCHANGED <<pending, population, changes, seen, kept, inserted, deleted>>
        BY <1>5 DEF FetchPage
    <2>7. QED
        BY <2>1, <2>2, <2>3, <2>4, <2>5, <2>6 DEF TypeOK
<1>6. CASE RequestFails
    <2>1. pc' \in Ends /\ pending' \in Nat
        BY <1>6 DEF RequestFails, Ends, TypeOK
    <2>2. QED
        BY <1>6, <2>1, TypeOfMove DEF RequestFails
<1>7. ASSUME NEW keep \in Keeps, ProcessRow(keep)
      PROVE  TypeOK'
    <2>0. keep \in BOOLEAN
        BY DEF Keeps
    <2>1. /\ Row \in Assets /\ next' \in 0..Len(page) /\ state' \in State
          /\ seen' \in Seq(Assets)
        BY <1>7, TakeRowTypes DEF ProcessRow
    <2>2. CallbacksTypeOK' /\ args' = args
        BY <1>7, <2>0, <2>1, DoRowTypes DEF ProcessRow, TypeOK, DoRow
    <2>3. kept' \in Seq(Assets)
        BY <1>7, <2>1 DEF ProcessRow, TypeOK
    <2>4. CursorTypeOK' /\ pc' \in ClientPoints
        BY <1>7 DEF ProcessRow, TypeOK, CursorTypeOK, ClientPoints
    <2>5. UNCHANGED <<page, pending, population, changes, started, base,
                      malformed, inserted, deleted>>
        BY <1>7 DEF ProcessRow
    <2>6. QED
        BY <2>1, <2>2, <2>3, <2>4, <2>5 DEF TypeOK
<1>8. CASE StopTable \/ RowFails
    <2>1. /\ Row \in Assets /\ next' \in 0..Len(page) /\ state' \in State
          /\ seen' \in Seq(Assets)
        BY <1>8, TakeRowTypes DEF StopTable, RowFails
    <2>2. CallbacksTypeOK' /\ args' = args
        <3>1. CASE UNCHANGED callbackVars
            BY <3>1 DEF TypeOK, CallbacksTypeOK, callbackVars
        <3>2. CASE DoRow(Row, TRUE)
            BY <2>1, <3>2, DoRowTypes DEF TypeOK, DoRow
        <3>3. QED
            BY <1>8, <3>1, <3>2 DEF StopTable, RowFails
    <2>3. CursorTypeOK' /\ pc' \in ClientPoints \cup Ends
        BY <1>8 DEF StopTable, RowFails, TypeOK, CursorTypeOK, ClientPoints, Ends
    <2>4. UNCHANGED <<page, pending, population, changes, started, base, kept,
                      malformed, inserted, deleted>>
        BY <1>8 DEF StopTable, RowFails
    <2>5. QED
        BY <2>1, <2>2, <2>3, <2>4 DEF TypeOK
<1>9. CASE Resume
    <2>1. pc' \in ClientPoints /\ pending' \in Nat
        BY <1>9 DEF Resume, ClientPoints, TypeOK, ForLoop
    <2>2. QED
        BY <1>9, <2>1, TypeOfMove DEF Resume
<1>10. CASE Abandon
    <2>1. pc' \in Ends /\ pending' \in Nat
        BY <1>10 DEF Abandon, Ends, TypeOK
    <2>2. QED
        BY <1>10, <2>1, TypeOfMove DEF Abandon
<1>11. CASE ProcessLoop
    <2>1. pc' \in ClientPoints /\ pending' \in Nat
        BY <1>11 DEF ProcessLoop, ClientPoints, TypeOK
    <2>2. QED
        BY <1>11, <2>1, TypeOfMove DEF ProcessLoop
<1>12. CASE TagAdd \/ TagRemove \/ Close
    <2>1. CallbacksTypeOK' /\ args' = args
        BY <1>12, DoTagTypes, CloseExportTypes
           DEF TagAdd, TagRemove, Close, TypeOK, DoTagAdd, DoTagRemove, CloseExport
    <2>2. CursorTypeOK'
        BY <1>12 DEF TagAdd, TagRemove, Close, TypeOK, CursorTypeOK
    <2>3. pc' \in ClientPoints \cup Ends
        BY <1>12 DEF TagAdd, TagRemove, Close, ClientPoints, Ends
    <2>4. /\ UNCHANGED <<state, page, next, pending, population, changes>>
          /\ UNCHANGED historyVars
        BY <1>12 DEF TagAdd, TagRemove, Close
    <2>5. QED
        BY <2>1, <2>2, <2>3, <2>4 DEF TypeOK, historyVars
<1>13. CASE AssetAppears \/ AssetDisappears
    BY <1>13, TypeOfServer
<1>14. CASE UNCHANGED vars
    <2>1. CallbacksTypeOK'
        BY <1>14 DEF vars, TypeOK, CallbacksTypeOK, callbackVars
    <2>2. CursorTypeOK'
        BY <1>14 DEF vars, fetchVars, TypeOK, CursorTypeOK
    <2>3. QED
        BY <1>14, <2>1, <2>2 DEF vars, fetchVars, historyVars, callbackVars, TypeOK
<1>15. QED
    BY <1>1, <1>2, <1>3, <1>4, <1>5, <1>6, <1>7, <1>8, <1>9, <1>10, <1>11,
       <1>12, <1>13, <1>14
       DEF Next, Client, Server, Ended

-----------------------------------------------------------------------------
(* Every step keeps the rest of the invariant.                             *)

\* Only Start touches the file, and it refuses to lose it.
LEMMA FileNext ==
    ASSUME TypeOK, Untouched, OldFileKept, [Next]_vars
    PROVE  Untouched' /\ OldFileKept'
<1>1. CASE StartCallbacks
    <2>1. /\ target = IF args.file_exists THEN "old" ELSE "absent"
          /\ target' = IF ExportsToFile THEN "new" ELSE target
          /\ backup' = IF ExportsToFile /\ args.export_backup THEN target ELSE backup
          /\ ~OpenRefused /\ args' = args /\ pc' = "fetch"
        BY <1>1 DEF StartCallbacks, Start, Goto, Untouched
    <2>2. Untouched'
        BY <2>1 DEF Untouched
    <2>3. OldFileKept'
        <3>1. CASE ExportsToFile
            BY <2>1, <3>1 DEF OldFileKept, OpenRefused
        <3>2. CASE ~ExportsToFile
            BY <2>1, <3>2 DEF OldFileKept
        <3>3. QED
            BY <3>1, <3>2
    <2>4. QED
        BY <2>2, <2>3
<1>2. CASE ~StartCallbacks
    <2>1. UNCHANGED <<args, target, backup>>
        BY <1>2 DEF Next, Client, Server, Ended, vars, callbackVars, CountPending,
           CountDone, StartRefused, FetchPage, RequestFails, ProcessRow, StopTable,
           RowFails, Resume, Abandon, ProcessLoop, TagAdd, TagRemove, Close,
           AssetAppears, AssetDisappears, ServerMayChange, DoRow, DoTagAdd,
           DoTagRemove, CloseExport
    <2>2. pc' \in {"count", "start"} => pc \in {"count", "start"}
        BY <1>2 DEF Next, Client, Server, Ended, vars, fetchVars, CountPending,
           CountDone, StartRefused, FetchPage, RequestFails, ProcessRow, StopTable,
           RowFails, Resume, Abandon, ProcessLoop, TagAdd, TagRemove, Close,
           AssetAppears, AssetDisappears, ServerMayChange, Goto, ForLoop
    <2>3. QED
        BY <2>1, <2>2 DEF Untouched, OldFileKept
<1>3. QED
    BY <1>1, <1>2

\* Where the counters agree before a step they agree behind it.
LEMMA AccountingNext ==
    ASSUME TypeOK, Consumed, Accounting, [Next]_vars
    PROVE  Consumed' /\ Accounting'
<1>0. /\ state.rows_offset \in Nat /\ state.rows_fetched_total \in Nat
      /\ state.rows_processed_total \in Nat
      /\ Len(page) \in Nat /\ next \in 0..Len(page) /\ Len(seen) \in Nat
    BY LenProperties DEF TypeOK, State
<1>1. StartOf(args) \in Nat
    BY StartType DEF TypeOK
<1>2. args' = args
    BY DEF Next, Client, Server, Ended, vars, callbackVars, CountPending,
       CountDone, StartCallbacks, Start, StartRefused, FetchPage, RequestFails,
       ProcessRow, StopTable, RowFails, Resume, Abandon, ProcessLoop, TagAdd,
       TagRemove, Close, AssetAppears, AssetDisappears, ServerMayChange, DoRow,
       DoTagAdd, DoTagRemove, CloseExport
<1>3. ASSUME NEW i \in 0..state.page_size, FetchPage(i)
      PROVE  Consumed' /\ Accounting'
    <2>0. i \in Nat
        BY DEF TypeOK, State
    <2>1. /\ page' \in Seq(Assets) /\ next' = 0
          /\ state'.rows_offset = state.rows_offset + Len(page')
          /\ state'.rows_fetched_total = state.rows_fetched_total + Len(page')
          /\ state'.rows_processed_total = state.rows_processed_total
          /\ pc' \in {"tag_add", "row"}
        BY <1>3, <2>0, FetchPageTypes
    <2>2. next = Len(page) /\ seen' = seen
        BY <1>3 DEF FetchPage, Goto, Consumed
    <2>3. Len(page') \in Nat
        BY <2>1, LenProperties
    <2>4. Consumed'
        BY <2>1 DEF Consumed
    <2>5. Accounting'
        BY <1>0, <1>1, <1>2, <2>1, <2>2, <2>3 DEF Accounting
    <2>6. QED
        BY <2>4, <2>5
<1>4. ASSUME TakeRow, page' = page,
             pc' \in {"yielded", "dropped", "tag_add", "failed"}
      PROVE  Consumed' /\ Accounting'
    <2>1. /\ next' = next + 1
          /\ state'.rows_processed_total = state.rows_processed_total + 1
          /\ state'.rows_fetched_total = state.rows_fetched_total
          /\ state'.rows_offset = state.rows_offset
          /\ Len(seen') = Len(seen) + 1
        BY <1>4, TakeRowTypes
    <2>2. Consumed'
        BY <1>4 DEF Consumed
    <2>3. Accounting'
        BY <1>0, <1>1, <1>2, <1>4, <2>1 DEF Accounting
    <2>4. QED
        BY <2>2, <2>3
<1>5. ASSUME UNCHANGED <<state, page, next, seen>>,
             pc' \in {"count", "start", "fetch", "loop"} => next = Len(page)
      PROVE  Consumed' /\ Accounting'
    BY <1>2, <1>5 DEF Consumed, Accounting
<1>6. CASE \E keep \in Keeps : ProcessRow(keep)
    <2>1. TakeRow /\ page' = page /\ pc' \in {"yielded", "dropped"}
        BY <1>6 DEF ProcessRow, Goto
    <2>2. QED
        BY <1>4, <2>1
<1>7. CASE StopTable \/ RowFails
    <2>1. TakeRow /\ page' = page /\ pc' \in {"tag_add", "failed"}
        BY <1>7 DEF StopTable, RowFails, Goto
    <2>2. QED
        BY <1>4, <2>1
<1>8. CASE Resume
    <2>1. UNCHANGED <<state, page, next, seen>>
        BY <1>8 DEF Resume, historyVars
    <2>2. pc' = "tag_add" \/ pc' = ForLoop(page, next)
        BY <1>8 DEF Resume
    <2>3. pc' \in {"count", "start", "fetch", "loop"} => next = Len(page)
        BY <1>0, <2>2 DEF ForLoop
    <2>4. QED
        BY <1>5, <2>1, <2>3
<1>9. CASE CountPending \/ CountDone \/ StartCallbacks \/ ProcessLoop
    <2>1. UNCHANGED <<state, page, next, seen>>
        BY <1>9 DEF CountPending, CountDone, StartCallbacks, ProcessLoop, historyVars
    <2>2. pc \in {"count", "start", "loop"}
        BY <1>9 DEF CountPending, CountDone, StartCallbacks, ProcessLoop, Goto
    <2>3. QED
        BY <1>5, <2>1, <2>2 DEF Consumed
<1>10. CASE \/ StartRefused \/ RequestFails \/ Abandon
            \/ TagAdd \/ TagRemove \/ Close
    <2>1. UNCHANGED <<state, page, next, seen>>
        BY <1>10 DEF StartRefused, RequestFails, Abandon, TagAdd, TagRemove, Close,
           historyVars
    <2>2. pc' \notin {"count", "start", "fetch", "loop"}
        BY <1>10 DEF StartRefused, RequestFails, Abandon, TagAdd, TagRemove, Close,
           Goto
    <2>3. QED
        BY <1>5, <2>1, <2>2
<1>11. CASE AssetAppears \/ AssetDisappears \/ UNCHANGED vars
    <2>1. UNCHANGED <<pc, state, page, next, seen>>
        BY <1>11 DEF AssetAppears, AssetDisappears, ServerMayChange, vars,
           fetchVars, historyVars
    <2>2. QED
        BY <1>5, <2>1 DEF Consumed
<1>12. QED
    BY <1>3, <1>6, <1>7, <1>8, <1>9, <1>10, <1>11
       DEF Next, Client, Server, Ended

\* The inductive invariant holds before the first request.
LEMMA IInvInit == Init => IInv
<1> SUFFICES ASSUME Init PROVE IInv
    OBVIOUS
<1>1. TypeOK
    BY TypeInit
<1>2. Untouched /\ OldFileKept
    BY DEF Init, CallbacksInit, Untouched, OldFileKept
<1>3. Len(page) = 0 /\ Len(seen) = 0 /\ next = 0
    BY EmptySeq DEF Init
<1>4. Consumed
    BY <1>3 DEF Consumed
<1>5. Accounting
    <2>1. /\ state.rows_offset = StartOf(args)
          /\ state.rows_fetched_total = 0 /\ state.rows_processed_total = 0
        BY <1>1, CreateStateType DEF Init, TypeOK
    <2>2. StartOf(args) \in Nat
        BY <1>1, StartType DEF TypeOK
    <2>3. QED
        BY <1>3, <2>1, <2>2 DEF Accounting
<1>6. QED
    BY <1>1, <1>2, <1>4, <1>5 DEF IInv

\* The inductive invariant holds throughout: types, the file that was there
\* before, and the counters, which the paging arithmetic needs together.
THEOREM Invariance == Spec => []IInv
<1>1. Init => IInv
    BY IInvInit
<1>2. IInv /\ [Next]_vars => IInv'
    BY TypeNext, FileNext, AccountingNext DEF IInv
<1>3. QED
    BY <1>1, <1>2, PTL DEF Spec

\* Every variable of a fetch keeps its type: pages and populations stay
\* sequences of assets, the counters of the state dict naturals, and the page
\* size positive, whatever arguments get_generator was called with.
THEOREM TypeCorrect == Spec => []TypeOK
<1>1. IInv => TypeOK
    BY DEF IInv
<1>2. QED
    BY <1>1, Invariance, PTL

\* The paging state never disagrees with the rows handed over (create_state,
\* process_page and do_pre_row): the next request starts right behind them.
THEOREM AccountingCorrect == Spec => []Accounting
<1>1. IInv => Accounting
    BY DEF IInv
<1>2. QED
    BY <1>1, Invariance, PTL

\* No fetch, however it ends, loses a file it was not told to overwrite
\* (open_fd_path and path_backup_file).
THEOREM OldFileNeverLost == Spec => []OldFileKept
<1>1. IInv => OldFileKept
    BY DEF IInv
<1>2. QED
    BY <1>1, Invariance, PTL

-----------------------------------------------------------------------------
(* The rows delivered are a window of one result.                          *)

\* Before the first page there is nothing to be consistent with.
Fresh == ~started => cursor = << >> /\ page = << >> /\ seen = << >>

\* A repeated cursor always stands for the result of the first page, and so
\* does the population while it has not changed since.
SameResult ==
    /\ started /\ args.use_cursor /\ RepeatsCursor => cursor = <<base>>
    /\ started /\ ~(inserted \/ deleted) =>
          population = base /\ (cursor # << >> => cursor = <<base>>)

\* The page is the piece of that result that ends where the next one begins.
PageInWindow ==
    Undisturbed =>
        \A j \in 1..Len(page) :
            /\ state.rows_offset - Len(page) + j <= Len(base)
            /\ page[j] = base[state.rows_offset - Len(page) + j]

\* The two halves of ExactWindow.
SeenInWindow ==
    Undisturbed =>
        \A k \in 1..Len(seen) :
            /\ StartOf(args) + k <= Len(base)
            /\ seen[k] = base[StartOf(args) + k]

StoppedForAReason ==
    Undisturbed /\ pc \in Stopping =>
        \/ StartOf(args) + Len(seen) >= Len(base)
        \/ StopAtRow(state)
        \/ TableFull(Len(seen))
        \/ next = Len(page) /\ StopAtLoop(state)

WindowInv == Fresh /\ SameResult /\ PageInWindow /\ SeenInWindow /\ StoppedForAReason

\* ExactWindow is about the rows seen, and about why the loop was left.
LEMMA ExactWindowHalves == SeenInWindow /\ StoppedForAReason <=> ExactWindow
BY DEF SeenInWindow, StoppedForAReason, ExactWindow

\* args never changes, and once disturbed a fetch stays disturbed.
LEMMA DisturbedForGood ==
    ASSUME TypeOK, [Next]_vars
    PROVE  args' = args /\ (Undisturbed' => Undisturbed)
<1>1. args' = args
    BY DEF Next, Client, Server, Ended, vars, callbackVars, CountPending,
       CountDone, StartCallbacks, Start, StartRefused, FetchPage, RequestFails,
       ProcessRow, StopTable, RowFails, Resume, Abandon, ProcessLoop, TagAdd,
       TagRemove, Close, AssetAppears, AssetDisappears, ServerMayChange, DoRow,
       DoTagAdd, DoTagRemove, CloseExport
<1>2. malformed' = malformed \/ malformed' = malformed + 1
    BY DEF Next, Client, Server, Ended, vars, historyVars, CountPending,
       CountDone, StartCallbacks, StartRefused, FetchPage, RequestFails,
       ProcessRow, StopTable, RowFails, Resume, Abandon, ProcessLoop, TagAdd,
       TagRemove, Close, AssetAppears, AssetDisappears, ServerMayChange
<1>3. (inserted => inserted') /\ (deleted => deleted')
    <2>1. CASE AssetAppears
        BY <2>1 DEF AssetAppears
    <2>2. CASE AssetDisappears
        BY <2>2 DEF AssetDisappears
    <2>3. CASE ~(AssetAppears \/ AssetDisappears)
        <3>1. inserted' = inserted /\ deleted' = deleted
            BY <2>3
               DEF Next, Client, Server, Ended, vars, historyVars, CountPending,
               CountDone, StartCallbacks, StartRefused, FetchPage, RequestFails,
               ProcessRow, StopTable, RowFails, Resume, Abandon, ProcessLoop,
               TagAdd, TagRemove, Close
        <3>2. QED
            BY <3>1
    <2>4. QED
        BY <2>1, <2>2, <2>3
<1>4. malformed' = 0 => malformed = 0
    BY <1>2 DEF TypeOK
<1>5. QED
    BY <1>1, <1>3, <1>4, Zenon DEF Undisturbed

\* Nothing has been delivered before the first page.
LEMMA WindowInit ==
    ASSUME Init
    PROVE  WindowInv
<1>1. Len(page) = 0 /\ Len(seen) = 0
    BY EmptySeq DEF Init
<1>2. Fresh /\ SameResult
    BY DEF Init, Fresh, SameResult
<1>3. PageInWindow /\ SeenInWindow
    BY <1>1 DEF PageInWindow, SeenInWindow
<1>4. StoppedForAReason
    BY DEF Init, Stopping, StoppedForAReason
<1>5. QED
    BY <1>2, <1>3, <1>4 DEF WindowInv

\* Undisturbed, the page that arrives is a window of the result of the first one:
\* this is where the cursor and the population meet.
LEMMA FetchedWindow ==
    ASSUME TypeOK, SameResult, NEW i \in Nat, FetchPage(i),
           Undisturbed', args' = args
    PROVE  /\ Served = base'
           /\ page' = Window(Served, state.rows_offset, state.page_size)
<1> DEFINE window == Window(Served, state.rows_offset, state.page_size)
<1>1. /\ base' = (IF started THEN base ELSE Served)
      /\ page' = LoadResponse(window, i)
      /\ malformed' = IF i # 0 THEN malformed + 1 ELSE malformed
      /\ UNCHANGED <<inserted, deleted>>
    BY DEF FetchPage
<1>2. page' = window
    <2>1. i = 0
        BY <1>1 DEF Undisturbed, TypeOK
    <2>2. QED
        BY <1>1, <2>1 DEF LoadResponse
<1>3. Served = base'
    <2>1. CASE ~started
        BY <1>1, <2>1
    <2>2. CASE started
        <3>1. (args.use_cursor /\ RepeatsCursor) \/ ~(inserted \/ deleted)
            BY <1>1 DEF Undisturbed
        <3>2. cursor = <<base>> \/ (cursor = << >> /\ population = base)
            BY <2>2, <3>1 DEF SameResult
        <3>3. Served = base
            BY <3>2 DEF Served
        <3>4. QED
            BY <1>1, <2>2, <3>3
    <2>3. QED
        BY <2>1, <2>2
<1>4. QED
    BY <1>2, <1>3

\* A page is the next piece of that result.
LEMMA WindowOfFetch ==
    ASSUME IInv, WindowInv, NEW i \in 0..state.page_size, FetchPage(i),
           args' = args, Undisturbed' => Undisturbed
    PROVE  WindowInv'
<1> USE DEF IInv, WindowInv
<1> DEFINE window == Window(Served, state.rows_offset, state.page_size)
<1>0. i \in Nat
    BY DEF TypeOK, State
<1>1. /\ page' \in Seq(Assets)
      /\ state'.rows_offset = state.rows_offset + Len(page')
      /\ pc' \in {"tag_add", "row"}
    BY <1>0, FetchPageTypes
<1>2. /\ started' = TRUE /\ base' = (IF started THEN base ELSE Served)
      /\ cursor' = NextCursor /\ page' = LoadResponse(window, i)
      /\ i # 0 => malformed' = malformed + 1
      /\ pc' = (IF StopAtPage(page') THEN "tag_add" ELSE ForLoop(page', 0))
      /\ UNCHANGED <<population, seen, inserted, deleted>>
    BY DEF FetchPage, Goto
<1>3. state.rows_offset \in Nat /\ state.page_size \in Nat \ {0}
    BY DEF TypeOK, State
<1>4. Served \in Seq(Assets) /\ base' \in Seq(Assets) /\ Len(base') \in Nat
    <2>1. Served \in Seq(Assets) /\ base' \in Seq(Assets)
        BY <1>2, ServedType DEF TypeOK
    <2>2. QED
        BY <2>1, LenProperties
<1>5. Fresh'
    BY <1>2 DEF Fresh
<1>6. ~started => Served = population /\ base' = population
    BY <1>2 DEF Fresh, Served
<1>7. SameResult'
    <2>1. args.use_cursor /\ RepeatsCursor => cursor' = <<base'>>
        BY <1>2 DEF SameResult, NextCursor, Served
    <2>2. ASSUME ~(inserted \/ deleted)
          PROVE  population = base' /\ (cursor' # << >> => cursor' = <<base'>>)
        BY <1>2, <1>6, <2>2 DEF SameResult, NextCursor, Served
    <2>3. QED
        BY <1>2, <2>1, <2>2 DEF SameResult
<1>8. ASSUME Undisturbed'
      PROVE  page' = window /\ Served = base'
    BY <1>0, <1>8, FetchedWindow
<1>9. ASSUME Undisturbed'
      PROVE  /\ Len(page') = 0 => Len(base') <= state.rows_offset
             /\ \A j \in 1..Len(page') :
                   /\ state.rows_offset + j <= Len(base')
                   /\ page'[j] = base'[state.rows_offset + j]
    <2>1. /\ Len(window) = 0 => Len(Served) <= state.rows_offset
          /\ \A j \in 1..Len(window) :
                /\ state.rows_offset + j <= Len(Served)
                /\ window[j] = Served[state.rows_offset + j]
        BY <1>3, <1>4, WindowProperties
    <2> HIDE DEF window
    <2>2. QED
        BY <1>8, <1>9, <2>1
<1> HIDE DEF window
<1>10. Len(page') \in Nat
    BY <1>1, LenProperties
<1>11. PageInWindow'
    <2> SUFFICES ASSUME Undisturbed', NEW j \in 1..Len(page')
                 PROVE  /\ state'.rows_offset - Len(page') + j <= Len(base')
                        /\ page'[j] = base'[state'.rows_offset - Len(page') + j]
        BY DEF PageInWindow
    <2>1. state'.rows_offset - Len(page') + j = state.rows_offset + j
        BY <1>1, <1>3, <1>10
    <2>2. QED
        BY <1>9, <2>1
<1>12. SeenInWindow'
    <2> SUFFICES ASSUME Undisturbed', NEW k \in 1..Len(seen)
                 PROVE  /\ StartOf(args) + k <= Len(base')
                        /\ seen[k] = base'[StartOf(args) + k]
        BY <1>2 DEF SeenInWindow
    <2>1. CASE started
        BY <1>2, <2>1 DEF SeenInWindow
    <2>2. CASE ~started
        BY <2>2, EmptySeq DEF Fresh
    <2>3. QED
        BY <2>1, <2>2
<1>13. StoppedForAReason'
    <2> SUFFICES ASSUME Undisturbed', pc' = "tag_add"
                 PROVE  StartOf(args) + Len(seen) >= Len(base')
        BY <1>1, <1>2 DEF StoppedForAReason, Stopping
    <2>1. Len(page') = 0
        <3>1. page' = << >>
            BY <1>2 DEF StopAtPage, ForLoop
        <3>2. QED
            BY <3>1, EmptySeq
    <2>2. state.rows_offset = StartOf(args) + Len(seen)
        <3>1. next = Len(page) /\ Len(page) \in Nat /\ Len(seen) \in Nat
            BY LenProperties DEF Consumed, FetchPage, Goto, TypeOK
        <3>2. QED
            BY <3>1 DEF Accounting
    <2>3. QED
        BY <1>3, <1>4, <1>9, <2>1, <2>2
<1>14. QED
    BY <1>5, <1>7, <1>11, <1>12, <1>13

\* The row the for loop takes is the next one of the result.
LEMMA WindowOfRow ==
    ASSUME IInv, WindowInv, TakeRow, args' = args, Undisturbed' => Undisturbed,
           UNCHANGED <<page, cursor, population, started, base, inserted, deleted>>,
           \/ pc' \in {"yielded", "dropped", "failed"}
           \/ pc' = "tag_add" /\ TableFull(state'.rows_processed_total)
    PROVE  WindowInv'
<1> USE DEF IInv, WindowInv
<1>0. /\ state.rows_offset \in Nat /\ state.rows_fetched_total \in Nat
      /\ Len(page) \in Nat /\ next \in 0..Len(page) /\ Len(seen) \in Nat
      /\ StartOf(args) \in Nat /\ Len(base) \in Nat
    BY LenProperties, StartType DEF TypeOK, State
<1>1. /\ Row \in Assets /\ next < Len(page)
      /\ state'.rows_offset = state.rows_offset
      /\ state'.rows_processed_total = state.rows_processed_total + 1
      /\ Len(seen') = Len(seen) + 1 /\ seen' = Append(seen, Row)
    BY TakeRowTypes DEF TakeRow
<1>2. started
    <2>1. page # << >>
        BY <1>0, <1>1, EmptySeq
    <2>2. QED
        BY <2>1 DEF Fresh
<1>3. Fresh' /\ SameResult'
    BY <1>2 DEF Fresh, SameResult
<1>4. PageInWindow'
    BY <1>1 DEF PageInWindow
<1>5. SeenInWindow'
    <2> SUFFICES ASSUME Undisturbed, NEW k \in 1..Len(seen')
                 PROVE  /\ StartOf(args) + k <= Len(base)
                        /\ seen'[k] = base[StartOf(args) + k]
        BY DEF SeenInWindow
    <2>1. CASE k \in 1..Len(seen)
        <3>1. seen'[k] = seen[k]
            BY <1>1, <2>1 DEF TypeOK
        <3>2. QED
            BY <2>1, <3>1 DEF SeenInWindow
    <2>2. CASE k = Len(seen) + 1
        <3>1. seen'[k] = Row
            BY <1>1, <2>2 DEF TypeOK
        <3>2. state.rows_offset - Len(page) + (next + 1) = StartOf(args) + k
            <4> DEFINE size == Len(page)  done == Len(seen)  start == StartOf(args)
                       offset == state.rows_offset
            <4>1. offset = start + (done + (size - next)) /\ k = done + 1
                BY <2>2 DEF Accounting
            <4>2. offset \in Int /\ start \in Int /\ done \in Int /\ size \in Int
                  /\ next \in Int
                BY <1>0
            <4> HIDE DEF size, done, start, offset
            <4>3. offset - size + (next + 1) = start + k
                BY <4>1, <4>2
            <4>4. QED
                BY <4>3 DEF size, done, start, offset
        <3>3. next + 1 \in 1..Len(page)
            BY <1>0, <1>1
        <3>4. QED
            BY <3>1, <3>2, <3>3 DEF PageInWindow, Row
    <2>3. QED
        BY <1>0, <1>1, <2>1, <2>2
<1>6. StoppedForAReason'
    <2>1. CASE pc' \in {"yielded", "dropped", "failed"}
        BY <2>1 DEF StoppedForAReason, Stopping
    <2>2. CASE TableFull(state'.rows_processed_total)
        <3>1. state'.rows_processed_total = Len(seen')
            BY <1>0, <1>1 DEF Accounting
        <3>2. TableFull(Len(seen'))
            BY <2>2, <3>1
        <3>3. TableFull(Len(seen))'
            BY <3>2 DEF TableFull
        <3>4. QED
            BY <3>3 DEF StoppedForAReason
    <2>3. QED
        BY <2>1, <2>2
<1>7. QED
    BY <1>3, <1>4, <1>5, <1>6

\* The steps that leave the page, the rows and the counters alone.
LEMMA WindowOfMove ==
    ASSUME WindowInv, args' = args, Undisturbed' => Undisturbed,
           UNCHANGED <<state, page, next, seen, started, base>>,
           SameResult', cursor' = cursor \/ started,
           \/ pc' \notin Stopping
           \/ pc \in Stopping
           \/ StopAtRow(state)
           \/ next = Len(page) /\ StopAtLoop(state)
    PROVE  WindowInv'
<1> USE DEF WindowInv
<1>1. Fresh'
    BY DEF Fresh
<1>2. PageInWindow'
    BY DEF PageInWindow
<1>3. SeenInWindow'
    BY DEF SeenInWindow
<1>4. StoppedForAReason'
    BY DEF StoppedForAReason, StopAtRow, StopAtLoop, TableFull
<1>5. QED
    BY <1>1, <1>2, <1>3, <1>4

\* Every step keeps the rows seen within the one result they come from.
LEMMA WindowNext ==
    ASSUME IInv, WindowInv, [Next]_vars
    PROVE  WindowInv'
<1> USE DEF Goto
<1>0. args' = args /\ (Undisturbed' => Undisturbed)
    BY DisturbedForGood DEF IInv
<1>1. ASSUME NEW i \in 0..state.page_size, FetchPage(i)
      PROVE  WindowInv'
    BY <1>0, <1>1, WindowOfFetch
<1>2. ASSUME NEW keep \in Keeps, ProcessRow(keep)
      PROVE  WindowInv'
    <2>1. /\ TakeRow /\ pc' \in {"yielded", "dropped"}
          /\ UNCHANGED <<page, cursor, population, started, base, inserted, deleted>>
        BY <1>2 DEF ProcessRow
    <2>2. QED
        BY <1>0, <2>1, WindowOfRow
<1>3. CASE StopTable \/ RowFails
    <2>1. /\ TakeRow
          /\ \/ pc' = "failed"
             \/ pc' = "tag_add" /\ TableFull(state'.rows_processed_total)
          /\ UNCHANGED <<page, cursor, population, started, base, inserted, deleted>>
        BY <1>3 DEF StopTable, RowFails
    <2>2. QED
        BY <1>0, <2>1, WindowOfRow
<1>4. ASSUME UNCHANGED <<state, page, next, cursor, population, historyVars>>,
             \/ pc' \notin Stopping
             \/ pc \in Stopping
             \/ StopAtRow(state)
             \/ next = Len(page) /\ StopAtLoop(state)
      PROVE  WindowInv'
    <2>1. UNCHANGED <<cursor, population, started, base, seen, inserted, deleted>>
        BY <1>4 DEF historyVars
    <2>2. SameResult'
        BY <1>0, <2>1 DEF WindowInv, SameResult
    <2>3. QED
        BY <1>0, <1>4, <2>1, <2>2, WindowOfMove
<1>5. CASE Resume
    BY <1>4, <1>5 DEF Resume, ForLoop, Stopping
<1>6. CASE ProcessLoop
    <2>1. next = Len(page)
        BY <1>6 DEF ProcessLoop, IInv, Consumed
    <2>2. QED
        BY <1>4, <1>6, <2>1 DEF ProcessLoop, Stopping
<1>7. CASE \/ CountPending \/ CountDone \/ StartCallbacks \/ StartRefused
           \/ RequestFails \/ Abandon
    BY <1>4, <1>7 DEF CountPending, CountDone, StartCallbacks, StartRefused,
       RequestFails, Abandon, Stopping
<1>8. CASE TagAdd \/ TagRemove \/ Close
    BY <1>4, <1>8 DEF TagAdd, TagRemove, Close, Stopping
<1>9. CASE UNCHANGED vars
    BY <1>4, <1>9 DEF vars, fetchVars
<1>10. CASE AssetAppears \/ AssetDisappears
    <2>1. UNCHANGED <<pc, state, page, next, cursor, started, base, seen>>
        BY <1>10 DEF AssetAppears, AssetDisappears, ServerMayChange
    <2>2. started => inserted' \/ deleted'
        BY <1>10 DEF AssetAppears, AssetDisappears
    <2>3. SameResult'
        BY <1>0, <2>1, <2>2 DEF WindowInv, SameResult
    <2>4. QED
        BY <1>0, <2>1, <2>3, WindowOfMove
<1>11. QED
    BY <1>1, <1>2, <1>3, <1>5, <1>6, <1>7, <1>8, <1>9, <1>10
       DEF Next, Client, Server, Ended

\* Undisturbed, whatever the population, the limits and the page size, the
\* caller is given the rows of one result from the requested start on, in
\* order, none twice and none left out, and get_generator's loop stops only at
\* the end of that result or at a limit it was given.
THEOREM WindowExact == Spec => []ExactWindow
<1>1. Init => IInv /\ WindowInv
    BY IInvInit, WindowInit
<1>2. IInv /\ WindowInv /\ [Next]_vars => IInv' /\ WindowInv'
    BY TypeNext, FileNext, AccountingNext, WindowNext DEF IInv
<1>3. IInv /\ WindowInv => ExactWindow
    BY ExactWindowHalves DEF WindowInv
<1>4. QED
    BY <1>1, <1>2, <1>3, PTL DEF Spec

-----------------------------------------------------------------------------
(* The limits.                                                             *)

\* Where a row may still be taken, max_rows have not been: without it the limit
\* does not survive TakeRow.
RowsLeft ==
    pc \in {"count", "start", "fetch", "row", "loop"} => ~StopAtRow(state)

\* Where a page may still be requested, the server's number of the last one is
\* below max_pages.
PagesLeft == pc \in {"count", "start", "fetch"} => ~StopAtLoop(state)

RowsLimited == state.max_rows # 0 => Len(seen) <= state.max_rows

\* The table is behind the rows seen, and check_stop looks at those.
TableLimited ==
    /\ Len(table) <= Len(seen)
    /\ args.export = "table" /\ args.table_max_rows # 0 =>
          Len(table) <= args.table_max_rows

\* Undisturbed, what was fetched is some number k of full pages, and the server
\* has numbered at least that many; or the end of the result has been reached
\* within them.
FullPages(k) ==
    /\ state.rows_fetched_total <= k * state.page_size
    /\ \/ state.rows_fetched_total = k * state.page_size
       \/ started /\ state.rows_offset >= Len(base)

PagesFull == Undisturbed => \E k \in 0..state.page_number : FullPages(k)

PagesLimited ==
    Undisturbed /\ state.max_pages # 0 =>
        state.rows_fetched_total <= state.max_pages * state.page_size

LimitInv ==
    RowsLeft /\ PagesLeft /\ RowsLimited /\ TableLimited /\ PagesFull /\ PagesLimited

-----------------------------------------------------------------------------
\* A product grows with its factor.
LEMMA ProductMonotonic ==
    ASSUME NEW m \in Nat, NEW n \in Nat, NEW size \in Nat, m <= n
    PROVE  m * size <= n * size
OBVIOUS

\* The number of a page behind k full ones is more than k.
LEMMA PageNumberBehind ==
    ASSUME NEW k \in Nat, NEW offset \in Nat, NEW size \in Nat \ {0},
           k * size <= offset
    PROVE  /\ PageNumber(offset, size) \in Nat
           /\ k + 1 <= PageNumber(offset, size)
           /\ offset <= PageNumber(offset, size) * size
<1> DEFINE q == offset \div size
<1>1. q \in Nat /\ q * size <= offset /\ offset < (q + 1) * size
    OBVIOUS
<1> HIDE DEF q
<1>2. k <= q
    <2> SUFFICES ASSUME q + 1 <= k PROVE FALSE
        BY <1>1
    <2>1. (q + 1) * size <= k * size
        BY <1>1, ProductMonotonic
    <2>2. (q + 1) * size \in Int /\ k * size \in Int
        BY <1>1
    <2>3. QED
        BY <1>1, <2>1, <2>2
<1>3. QED
    BY <1>1, <1>2 DEF PageNumber, q

\* What a page changes in the state dict, and what it leaves alone.
LEMMA FetchedState ==
    ASSUME TypeOK, NEW i \in Nat, FetchPage(i)
    PROVE  /\ state'.max_rows = state.max_rows /\ state'.max_pages = state.max_pages
           /\ state'.page_size = state.page_size
           /\ state'.page_number = PageNumber(state.rows_offset, state.page_size)
<1> DEFINE offset  == state.rows_offset + Len(page')
           fetched == state.rows_fetched_total + Len(page')
           number  == PageNumber(state.rows_offset, state.page_size)
<1>1. state' = [state EXCEPT !.rows_offset = offset, !.rows_fetched_total = fetched,
                             !.page_number = number]
    BY DEF FetchPage, ProcessPage
<1>2. state \in State
    BY DEF TypeOK
<1> HIDE DEF offset, fetched, number
<1>3. /\ state'.max_rows = state.max_rows /\ state'.max_pages = state.max_pages
      /\ state'.page_size = state.page_size /\ state'.page_number = number
    BY <1>1, <1>2 DEF State
<1>4. QED
    BY <1>3 DEF number

\* What a row changes in it, and what it leaves alone.
LEMMA RowState ==
    ASSUME TypeOK, TakeRow
    PROVE  /\ state'.max_rows = state.max_rows /\ state'.max_pages = state.max_pages
           /\ state'.page_size = state.page_size
           /\ state'.page_number = state.page_number
           /\ state'.rows_offset = state.rows_offset
           /\ state'.rows_fetched_total = state.rows_fetched_total
           /\ state'.rows_processed_total = state.rows_processed_total + 1
BY DEF TypeOK, State, TakeRow

\* The numbers the limits are about.
LEMMA LimitTypes ==
    ASSUME TypeOK
    PROVE  /\ state.max_rows \in Nat /\ state.max_pages \in Nat
           /\ state.page_size \in Nat \ {0} /\ state.page_number \in Nat
           /\ state.rows_offset \in Nat /\ state.rows_fetched_total \in Nat
           /\ state.rows_processed_total \in Nat
           /\ Len(seen) \in Nat /\ Len(table) \in Nat /\ Len(base) \in Nat
           /\ Len(page) \in Nat /\ args.table_max_rows \in Nat
           /\ StartOf(args) \in Nat
BY LenProperties, StartType DEF TypeOK, State, CallbacksTypeOK, FetchArgs

\* Nothing has been fetched before the first request.
LEMMA LimitInit == Init => LimitInv
<1> SUFFICES ASSUME Init PROVE LimitInv
    OBVIOUS
<1>0. TypeOK
    BY TypeInit
<1>1. /\ state.rows_fetched_total = 0 /\ state.rows_processed_total = 0
      /\ state.page_number = 0
    BY <1>0, CreateStateType DEF Init, TypeOK, CreateState
<1>2. Len(seen) = 0 /\ Len(table) = 0
    BY EmptySeq DEF Init, CallbacksInit
<1>3. RowsLeft /\ PagesLeft /\ RowsLimited
    BY <1>0, <1>1, <1>2, LimitTypes
       DEF RowsLeft, PagesLeft, RowsLimited, StopAtRow, StopAtLoop
<1>4. TableLimited
    BY <1>0, <1>2, LimitTypes DEF TableLimited
<1>5. PagesFull
    <2>1. FullPages(0)
        BY <1>0, <1>1, LimitTypes DEF FullPages
    <2>2. 0 \in 0..state.page_number
        BY <1>1
    <2>3. QED
        BY <2>1, <2>2 DEF PagesFull
<1>6. PagesLimited
    <2>1. 0 <= state.max_pages * state.page_size
        BY <1>0, LimitTypes
    <2>2. QED
        BY <1>1, <2>1 DEF PagesLimited
<1>7. QED
    BY <1>3, <1>4, <1>5, <1>6 DEF LimitInv

\* A page that is fetched undisturbed is full, or the last with rows, or empty;
\* and it is one of the pages asked for.
LEMMA PagesOfFetch ==
    ASSUME IInv, WindowInv, LimitInv, NEW i \in Nat, FetchPage(i),
           args' = args, Undisturbed' => Undisturbed
    PROVE  PagesFull' /\ PagesLimited'
<1> SUFFICES ASSUME Undisturbed'
             PROVE  /\ \E k \in 0..state'.page_number : FullPages(k)'
                    /\ state'.max_pages # 0 =>
                          state'.rows_fetched_total
                              <= state'.max_pages * state'.page_size
    BY DEF PagesFull, PagesLimited
<1> DEFINE size    == state.page_size
           offset  == state.rows_offset
           fetched == state.rows_fetched_total
           count   == Len(page')
           number  == PageNumber(offset, size)
<1>1. /\ size \in Nat \ {0} /\ offset \in Nat /\ fetched \in Nat
      /\ state.page_number \in Nat /\ state.max_pages \in Nat
      /\ StartOf(args) \in Nat /\ offset = StartOf(args) + fetched
    BY LimitTypes DEF IInv, Accounting
<1>2. /\ state'.rows_offset = offset + count
      /\ state'.rows_fetched_total = fetched + count
      /\ state'.page_size = size /\ state'.page_number = number
      /\ state'.max_pages = state.max_pages
    BY FetchPageTypes, FetchedState DEF IInv
<1>3. Served = base' /\ page' = Window(Served, offset, size)
    BY FetchedWindow DEF IInv, WindowInv
<1>4. Served \in Seq(Assets) /\ Len(Served) \in Nat
    BY ServedType, LenProperties DEF IInv
<1>5. /\ count \in 0..size
      /\ \A j \in 1..count : offset + j <= Len(base')
      /\ count < size => Len(base') <= offset + count
    BY <1>1, <1>3, <1>4, WindowProperties
<1>6. started' /\ (started => base' = base)
    BY DEF FetchPage
<1>7. PICK k \in 0..state.page_number : FullPages(k)
    BY DEF LimitInv, PagesFull
<1>8. /\ state.max_pages # 0 => state.page_number < state.max_pages
      /\ state.max_pages # 0 => fetched <= state.max_pages * size
    <2>1. pc = "fetch"
        BY DEF FetchPage, Goto
    <2>2. QED
        BY <1>1, <2>1 DEF LimitInv, PagesLeft, StopAtLoop, PagesLimited
<1>9. k \in Nat /\ fetched <= k * size
      /\ (fetched = k * size \/ (started /\ offset >= Len(base)))
    BY <1>1, <1>7 DEF FullPages
<1>10. count \in Nat /\ Len(base') \in Nat /\ Len(base) \in Nat
    <2>1. count \in Nat
        BY <1>1, <1>5
    <2>2. Len(base') \in Nat
        BY <1>3, <1>4
    <2>3. QED
        BY <2>1, <2>2, LimitTypes DEF IInv
<1> DEFINE full == k * size
           more == (k + 1) * size
<1> HIDE DEF size, offset, fetched, count
<1>11. full \in Nat /\ more = full + size
    BY <1>1, <1>9
<1>12. CASE fetched = full
    <2>1. number \in Nat /\ k + 1 <= number
        <3>1. k * size <= offset
            BY <1>1, <1>12
        <3>2. QED
            BY <1>1, <1>9, <3>1, PageNumberBehind
    <2>2. /\ fetched + count <= more
          /\ \/ fetched + count = more
             \/ offset + count >= Len(base')
        <3> HIDE DEF full, more, number
        <3>1. CASE count = size
            BY <1>1, <1>10, <1>11, <1>12, <3>1
        <3>2. CASE count < size
            <4>1. Len(base') <= offset + count
                BY <1>5, <3>2
            <4>2. QED
                BY <1>1, <1>10, <1>11, <1>12, <3>2, <4>1
        <3>3. QED
            BY <1>1, <1>5, <1>10, <3>1, <3>2
    <2>3. FullPages(k + 1)'
        BY <1>2, <1>6, <2>2 DEF FullPages
    <2>4. k + 1 \in 0..state'.page_number
        BY <1>2, <1>9, <2>1
    <2>5. ASSUME state.max_pages # 0
          PROVE  fetched + count <= state.max_pages * size
        <3> DEFINE most == state.max_pages * size
        <3>1. k + 1 <= state.max_pages
            BY <1>1, <1>7, <1>8, <2>5
        <3>2. more <= most /\ most \in Nat
            BY <1>1, <1>9, <3>1, ProductMonotonic
        <3> HIDE DEF full, more, most
        <3>3. fetched + count <= most
            BY <1>1, <1>10, <1>11, <2>2, <3>2
        <3>4. QED
            BY <3>3 DEF most
    <2>6. QED
        BY <1>2, <2>3, <2>4, <2>5
<1>13. CASE fetched # full
    <2>1. started
        BY <1>9, <1>13
    <2>2. Len(base') <= offset
        <3>1. offset >= Len(base)
            BY <1>9, <1>13
        <3>2. QED
            BY <1>1, <1>6, <1>10, <2>1, <3>1
    <2>3. count = 0
        <3>1. CASE 1 \in 1..count
            <4>1. offset + 1 <= Len(base')
                BY <1>5, <3>1
            <4>2. QED
                BY <1>1, <1>10, <2>2, <4>1
        <3>2. QED
            BY <1>10, <3>1
    <2>4. PICK n \in Nat : n = number /\ offset <= n * size
        <3>1. 0 * size <= offset
            BY <1>1
        <3>2. QED
            BY <1>1, <3>1, PageNumberBehind
    <2>5. fetched <= n * size
        <3> DEFINE product == n * size
        <3>1. product \in Nat
            BY <1>1
        <3>2. offset <= product
            BY <2>4
        <3> HIDE DEF product
        <3>3. fetched <= product
            BY <1>1, <3>1, <3>2
        <3>4. QED
            BY <3>3 DEF product
    <2>6. fetched + count = fetched /\ offset + count = offset
        BY <1>1, <2>3
    <2>7. FullPages(n)'
        BY <1>2, <1>6, <2>2, <2>5, <2>6 DEF FullPages
    <2>8. n \in 0..state'.page_number
        BY <1>2, <2>4
    <2>9. QED
        BY <1>2, <1>8, <2>6, <2>7, <2>8
<1>14. QED
    BY <1>12, <1>13

\* Where none of what PagesFull speaks of changes, it stays true.
LEMMA PagesKept ==
    ASSUME PagesFull, PagesLimited, Undisturbed' => Undisturbed,
           UNCHANGED <<base, started>>,
           /\ state'.rows_fetched_total = state.rows_fetched_total
           /\ state'.rows_offset = state.rows_offset
           /\ state'.page_size = state.page_size
           /\ state'.page_number = state.page_number
           /\ state'.max_pages = state.max_pages
    PROVE  PagesFull' /\ PagesLimited'
<1>1. ASSUME NEW k \in Nat, FullPages(k)
      PROVE  FullPages(k)'
    BY <1>1 DEF FullPages
<1>2. PagesFull'
    <2> SUFFICES ASSUME Undisturbed
                 PROVE  \E k \in 0..state.page_number : FullPages(k)'
        BY DEF PagesFull
    <2>1. PICK k \in 0..state.page_number : FullPages(k)
        BY DEF PagesFull
    <2>2. k \in Nat
        OBVIOUS
    <2>3. FullPages(k)'
        BY <1>1, <2>1, <2>2
    <2>4. QED
        BY <2>3
<1>3. PagesLimited'
    BY DEF PagesLimited
<1>4. QED
    BY <1>2, <1>3

\* A page counts as fetched, and nothing of it has been handed over yet.
LEMMA LimitOfFetch ==
    ASSUME IInv, WindowInv, LimitInv, NEW i \in Nat, FetchPage(i),
           args' = args, Undisturbed' => Undisturbed
    PROVE  LimitInv'
<1>1. /\ state'.max_rows = state.max_rows
      /\ state'.rows_processed_total = state.rows_processed_total
      /\ pc' \in {"tag_add", "row"}
    BY FetchPageTypes, FetchedState DEF IInv
<1>2. pc = "fetch" /\ UNCHANGED <<seen, table>>
    BY DEF FetchPage, Goto, callbackVars
<1>3. RowsLeft'
    BY <1>1, <1>2 DEF LimitInv, RowsLeft, StopAtRow
<1>4. PagesLeft'
    BY <1>1 DEF PagesLeft
<1>5. RowsLimited' /\ TableLimited'
    BY <1>1, <1>2 DEF LimitInv, RowsLimited, TableLimited
<1>6. PagesFull' /\ PagesLimited'
    BY PagesOfFetch
<1>7. QED
    BY <1>3, <1>4, <1>5, <1>6 DEF LimitInv

\* A row is one more of those wanted, and goes to a table that is not full.
LEMMA LimitOfRow ==
    ASSUME IInv, LimitInv, TakeRow, args' = args, Undisturbed' => Undisturbed,
           pc = "row", pc' \in {"yielded", "dropped", "tag_add", "failed"},
           UNCHANGED <<base, started>>,
           \/ table' = table
           \/ /\ ~TableFull(state'.rows_processed_total)
              /\ table' = IF args.export = "table" THEN Append(table, Row) ELSE table
    PROVE  LimitInv'
<1>0. /\ state.max_rows \in Nat /\ state.rows_processed_total \in Nat
      /\ args.table_max_rows \in Nat
      /\ Len(seen) \in Nat /\ Len(table) \in Nat
      /\ state.rows_processed_total = Len(seen)
    BY LimitTypes DEF IInv, Accounting
<1>1. /\ state'.max_rows = state.max_rows /\ state'.max_pages = state.max_pages
      /\ state'.page_size = state.page_size
      /\ state'.page_number = state.page_number
      /\ state'.rows_offset = state.rows_offset
      /\ state'.rows_fetched_total = state.rows_fetched_total
      /\ state'.rows_processed_total = Len(seen) + 1
    BY <1>0, RowState DEF IInv
<1>2. Row \in Assets /\ Len(seen') = Len(seen) + 1
    BY TakeRowTypes DEF IInv
<1>3. RowsLeft' /\ PagesLeft'
    BY DEF RowsLeft, PagesLeft
<1>4. RowsLimited'
    <2>1. state.max_rows # 0 => Len(seen) < state.max_rows
        BY <1>0 DEF LimitInv, RowsLeft, StopAtRow
    <2>2. QED
        BY <1>0, <1>1, <1>2, <2>1 DEF RowsLimited
<1>5. TableLimited'
    <2>1. CASE table' = table
        BY <1>0, <1>2, <2>1 DEF LimitInv, TableLimited
    <2>2. CASE /\ ~TableFull(state'.rows_processed_total)
               /\ args.export = "table" /\ table' = Append(table, Row)
        <3>1. Len(table') = Len(table) + 1
            BY <1>2, <2>2 DEF IInv, TypeOK, CallbacksTypeOK
        <3>2. Len(table') <= Len(seen')
            BY <1>0, <1>2, <3>1 DEF LimitInv, TableLimited
        <3>3. args.table_max_rows # 0 => Len(seen') <= args.table_max_rows
            BY <1>0, <1>1, <1>2, <2>2 DEF TableFull
        <3>4. QED
            BY <1>0, <1>2, <3>1, <3>2, <3>3 DEF TableLimited
    <2>3. QED
        BY <2>1, <2>2
<1>6. PagesFull' /\ PagesLimited'
    BY <1>1, PagesKept DEF LimitInv
<1>7. QED
    BY <1>3, <1>4, <1>5, <1>6 DEF LimitInv

\* The steps that take no row and fetch no page.
LEMMA LimitOfMove ==
    ASSUME LimitInv, args' = args, Undisturbed' => Undisturbed,
           UNCHANGED <<state, seen, base, started, table>>, RowsLeft', PagesLeft'
    PROVE  LimitInv'
<1>1. PagesFull' /\ PagesLimited'
    BY PagesKept DEF LimitInv
<1>2. RowsLimited' /\ TableLimited'
    BY DEF LimitInv, RowsLimited, TableLimited
<1>3. QED
    BY <1>1, <1>2 DEF LimitInv

\* Every step keeps within the limits.
LEMMA LimitNext ==
    ASSUME IInv, WindowInv, LimitInv, [Next]_vars
    PROVE  LimitInv'
<1>0. args' = args /\ (Undisturbed' => Undisturbed)
    BY DisturbedForGood DEF IInv
<1>1. ASSUME NEW i \in 0..state.page_size, FetchPage(i)
      PROVE  LimitInv'
    <2>1. i \in Nat
        BY DEF IInv, TypeOK, State
    <2>2. QED
        BY <1>0, <1>1, <2>1, LimitOfFetch
<1>2. ASSUME NEW keep \in Keeps, ProcessRow(keep)
      PROVE  LimitInv'
    <2>1. /\ TakeRow /\ pc = "row" /\ pc' \in {"yielded", "dropped"}
          /\ UNCHANGED <<base, started>>
          /\ ~TableFull(state'.rows_processed_total)
          /\ table' = IF args.export = "table" /\ keep
                      THEN Append(table, Row) ELSE table
        BY <1>2 DEF ProcessRow, Goto, DoRow, WriteRow
    <2>2. QED
        BY <1>0, <2>1, LimitOfRow
<1>3. CASE StopTable \/ RowFails
    <2>1. /\ TakeRow /\ pc = "row" /\ pc' \in {"tag_add", "failed"}
          /\ UNCHANGED <<base, started>>
          /\ \/ table' = table
             \/ /\ ~TableFull(state'.rows_processed_total)
                /\ table' = IF args.export = "table"
                            THEN Append(table, Row) ELSE table
        BY <1>3 DEF StopTable, RowFails, Goto, DoRow, WriteRow, callbackVars
    <2>2. QED
        BY <1>0, <2>1, LimitOfRow
<1>4. ASSUME UNCHANGED <<state, seen, base, started, table>>,
             \/ pc' \in {"tag_add", "tag_remove", "close"} \cup Ends
             \/ pc' \in {"row", "yielded", "dropped", "loop"} /\ ~StopAtRow(state)
             \/ /\ pc \in {"count", "start", "fetch"} \/ ~StopAtLoop(state)
                /\ pc \in {"count", "start", "fetch", "loop"}
             \/ pc' = pc
      PROVE  LimitInv'
    <2>1. RowsLeft'
        BY <1>4 DEF LimitInv, RowsLeft, StopAtRow, Ends
    <2>2. PagesLeft'
        BY <1>4 DEF LimitInv, PagesLeft, StopAtLoop, Ends
    <2>3. QED
        BY <1>0, <1>4, <2>1, <2>2, LimitOfMove
<1>5. CASE Resume
    BY <1>4, <1>5 DEF Resume, ForLoop, historyVars, callbackVars
<1>6. CASE ProcessLoop
    BY <1>4, <1>6 DEF ProcessLoop, Goto, historyVars, callbackVars
<1>7. CASE CountPending \/ CountDone \/ StartCallbacks
    BY <1>4, <1>7 DEF CountPending, CountDone, StartCallbacks, Start, Goto,
       historyVars, callbackVars
<1>8. CASE StartRefused \/ RequestFails \/ Abandon
    BY <1>4, <1>8 DEF StartRefused, RequestFails, Abandon, Goto, Ends,
       historyVars, callbackVars
<1>9. CASE TagAdd \/ TagRemove \/ Close
    BY <1>4, <1>9 DEF TagAdd, TagRemove, Close, Goto, DoTagAdd, DoTagRemove,
       CloseExport, Ends, historyVars
<1>10. CASE AssetAppears \/ AssetDisappears \/ UNCHANGED vars
    BY <1>4, <1>10 DEF AssetAppears, AssetDisappears, ServerMayChange, vars,
       fetchVars, historyVars, callbackVars
<1>11. QED
    BY <1>1, <1>2, <1>3, <1>5, <1>6, <1>7, <1>8, <1>9, <1>10
       DEF Next, Client, Server, Ended

\* No fetch overruns a limit: max_rows bounds the rows handed to the callbacks
\* (process_row), table_max_rows those in the table (Table.check_stop) and,
\* undisturbed, max_pages full pages the rows fetched (process_loop).
THEOREM LimitsNeverOverrun == Spec => []LimitsRespected
<1>1. Init => IInv /\ WindowInv /\ LimitInv
    BY IInvInit, WindowInit, LimitInit
<1>2. IInv /\ WindowInv /\ LimitInv /\ [Next]_vars => IInv' /\ WindowInv' /\ LimitInv'
    BY TypeNext, FileNext, AccountingNext, WindowNext, LimitNext DEF IInv
<1>3. LimitInv => LimitsRespected
    BY DEF LimitInv, RowsLimited, TableLimited, PagesLimited, LimitsRespected
<1>4. QED
    BY <1>1, <1>2, <1>3, PTL DEF Spec

-----------------------------------------------------------------------------
(* The file.                                                               *)

\* The points where the export file is being written.
Exporting == {"fetch", "row", "yielded", "dropped", "loop",
              "tag_add", "tag_remove", "close"}

\* What each format has written when some rows were seen and some kept.
Content == CASE args.export = "json" -> <<"[">> \o kept
             [] args.export = "csv"  -> IF seen = << >> THEN << >>
                                        ELSE <<"header">> \o kept
             [] OTHER                -> << >>

\* Without it a CSV file could be without its header and yet have rows.
KeptOfSeen == seen = << >> => kept = << >>

\* Before start() there are no rows, so that Content is what it writes.
NothingYet == pc \in {"count", "start"} => seen = << >> /\ table = << >>

FileSoFar ==
    pc \in Exporting =>
        /\ fd = IF args.export = "base" THEN "none" ELSE "open"
        /\ written = Content
        /\ table = IF args.export = "table" THEN kept ELSE << >>

ExportInv == KeptOfSeen /\ NothingYet /\ FileSoFar /\ ExportWhole

\* A row written behind an opening token and the rows before it.
LEMMA AppendBehind ==
    ASSUME NEW opening \in Tokens, NEW rows \in Seq(Assets), NEW row \in Tokens
    PROVE  /\ Append(<<opening>> \o rows, row) = <<opening>> \o Append(rows, row)
           /\ Append(<<opening>> \o rows, row) = <<opening>> \o rows \o <<row>>
           /\ <<opening>> \o rows # << >>
           /\ <<opening>> \o << >> = <<opening>>
           /\ Append(<<opening>>, row) = <<opening>> \o Append(<< >>, row)
<1>1. rows \in Seq(Tokens) /\ <<opening>> \in Seq(Tokens) /\ <<row>> \in Seq(Tokens)
      /\ << >> \in Seq(Tokens)
    <2>1. Assets \subseteq Tokens
        BY DEF Tokens
    <2>2. QED
        BY <2>1, SeqMonotonic, EmptySeq
<1>2. <<opening>> \o rows \in Seq(Tokens)
    BY <1>1, ConcatProperties
<1>3. Append(<<opening>> \o rows, row) = <<opening>> \o rows \o <<row>>
    BY <1>2, AppendIsConcat
<1>4. Append(rows, row) = rows \o <<row>> /\ Append(<< >>, row) = << >> \o <<row>>
    BY <1>1, AppendIsConcat
<1>5. (<<opening>> \o rows) \o <<row>> = <<opening>> \o (rows \o <<row>>)
    BY <1>1, ConcatAssociative
<1>6. <<opening>> \o rows # << >>
    <2>1. <<opening>> # << >>
        OBVIOUS
    <2>2. QED
        BY <1>1, <2>1, ConcatEqualIffEmpty
<1>7. <<opening>> \o << >> = <<opening>> /\ << >> \o <<row>> = <<row>>
    BY <1>1, ConcatEmptySeq
<1>8. Append(<<opening>>, row) = <<opening>> \o <<row>>
    BY <1>1, AppendIsConcat
<1>9. QED
    BY <1>3, <1>4, <1>5, <1>6, <1>7, <1>8

\* A row goes behind what was written, and behind the header if it is the first.
LEMMA ExportOfRow ==
    ASSUME TypeOK, ExportInv, NEW keep \in BOOLEAN, ProcessRow(keep)
    PROVE  ExportInv'
<1>1. Row \in Assets /\ Row \in Tokens
    BY TakeRowTypes DEF ProcessRow, Tokens
<1>2. /\ args.export \in Exports /\ args' = args
      /\ seen \in Seq(Assets) /\ kept \in Seq(Assets)
      /\ "[" \in Tokens /\ "header" \in Tokens
    BY DEF TypeOK, FetchArgs, ProcessRow, DoRow, Tokens
<1>3. /\ pc = "row" /\ pc' \in {"yielded", "dropped"}
      /\ seen' = Append(seen, Row) /\ fd' = fd
      /\ kept' = (IF keep THEN Append(kept, Row) ELSE kept)
      /\ table' = IF args.export = "table" /\ keep THEN Append(table, Row) ELSE table
      /\ written' = IF args.export \in {"json", "csv"} /\ keep
                    THEN Append(WithHeader(written), Row) ELSE WithHeader(written)
    BY DEF ProcessRow, Goto, TakeRow, DoRow, WriteRow
<1>4. seen' # << >>
    BY <1>1, <1>2, <1>3, AppendProperties
<1>5. /\ fd = (IF args.export = "base" THEN "none" ELSE "open")
      /\ written = Content
      /\ table = (IF args.export = "table" THEN kept ELSE << >>)
      /\ (seen = << >> => kept = << >>)
    BY <1>3 DEF ExportInv, FileSoFar, KeptOfSeen, Exporting
<1>6. KeptOfSeen' /\ NothingYet' /\ ExportWhole'
    BY <1>3, <1>4 DEF KeptOfSeen, NothingYet, ExportWhole
<1>7. written' = Content'
    <2>1. CASE args.export = "json"
        <3>1. written = <<"[">> \o kept /\ WithHeader(written) = written
            BY <1>5, <2>1 DEF Content, WithHeader
        <3>2. Content' = <<"[">> \o kept'
            BY <1>2, <2>1 DEF Content
        <3>3. Append(<<"[">> \o kept, Row) = <<"[">> \o Append(kept, Row)
            BY <1>1, <1>2, AppendBehind
        <3>4. QED
            BY <1>3, <2>1, <3>1, <3>2, <3>3
    <2>2. CASE args.export = "csv"
        <3>1. WithHeader(written) = <<"header">> \o kept
            <4>1. CASE seen = << >>
                BY <1>1, <1>2, <1>5, <2>2, <4>1, AppendBehind DEF Content, WithHeader
            <4>2. CASE seen # << >>
                BY <1>1, <1>2, <1>5, <2>2, <4>2, AppendBehind DEF Content, WithHeader
            <4>3. QED
                BY <4>1, <4>2
        <3>2. Content' = <<"header">> \o kept'
            BY <1>2, <1>4, <2>2 DEF Content
        <3>3. Append(<<"header">> \o kept, Row) = <<"header">> \o Append(kept, Row)
            BY <1>1, <1>2, AppendBehind
        <3>4. QED
            BY <1>3, <2>2, <3>1, <3>2, <3>3
    <2>3. CASE args.export \notin {"json", "csv"}
        BY <1>2, <1>3, <1>5, <2>3 DEF Content, WithHeader
    <2>4. QED
        BY <2>1, <2>2, <2>3
<1>8. FileSoFar'
    BY <1>2, <1>3, <1>5, <1>7 DEF FileSoFar
<1>9. QED
    BY <1>6, <1>8 DEF ExportInv

\* start() opens the file, and with it the array of a JSON export.
LEMMA ExportOfStart ==
    ASSUME TypeOK, ExportInv, StartCallbacks
    PROVE  ExportInv'
<1>1. /\ pc = "start" /\ pc' = "fetch" /\ args' = args
      /\ fd' = (IF args.export = "base" THEN "none" ELSE "open")
      /\ written' = (IF args.export = "json" THEN <<"[">> ELSE << >>)
      /\ UNCHANGED <<table, seen, kept>>
    BY DEF StartCallbacks, Goto, Start, historyVars
<1>2. seen = << >> /\ kept = << >> /\ table = << >>
    BY <1>1 DEF ExportInv, NothingYet, KeptOfSeen
<1>3. "[" \in Tokens /\ << >> \in Seq(Assets)
    BY EmptySeq DEF Tokens
<1>4. <<"[">> \o << >> = <<"[">>
    BY <1>3, AppendBehind
<1>5. written' = Content'
    BY <1>1, <1>2, <1>4 DEF Content
<1>6. KeptOfSeen' /\ NothingYet' /\ FileSoFar' /\ ExportWhole'
    BY <1>1, <1>2, <1>5 DEF KeptOfSeen, NothingYet, FileSoFar, ExportWhole
<1>7. QED
    BY <1>6 DEF ExportInv

\* close ends the array, or writes the table that was kept until then.
LEMMA ExportOfClose ==
    ASSUME TypeOK, ExportInv, Close
    PROVE  ExportInv'
<1>1. /\ pc = "close" /\ pc' = "done" /\ args' = args
      /\ UNCHANGED <<seen, kept, table>>
      /\ written' = CASE args.export = "json"  -> Append(written, "]")
                      [] args.export = "table" -> written \o table
                      [] OTHER                 -> written
      /\ fd' = IF ExportsToFile THEN "closed" ELSE fd
    BY DEF Close, Goto, CloseExport, historyVars
<1>2. /\ fd = (IF args.export = "base" THEN "none" ELSE "open")
      /\ written = Content
      /\ table = (IF args.export = "table" THEN kept ELSE << >>)
    BY <1>1 DEF ExportInv, FileSoFar, Exporting
<1>3. /\ args.export \in Exports /\ args.to_file \in BOOLEAN
      /\ kept \in Seq(Assets) /\ "[" \in Tokens /\ "]" \in Tokens
    BY DEF TypeOK, FetchArgs, Tokens
<1>4. fd' = IF args.export = "base" THEN "none"
            ELSE IF args.to_file THEN "closed" ELSE "open"
    BY <1>1, <1>2 DEF ExportsToFile
<1>5. CASE args.export = "json"
    <2>1. written' = <<"[">> \o kept \o <<"]">>
        BY <1>1, <1>2, <1>3, <1>5, AppendBehind DEF Content
    <2>2. ExportWhole'
        BY <1>1, <1>4, <1>5, <2>1 DEF ExportWhole
    <2>3. QED
        BY <1>1, <2>2 DEF ExportInv, KeptOfSeen, NothingYet, FileSoFar, Exporting
<1>6. CASE args.export = "table"
    <2>1. written' = kept
        BY <1>1, <1>2, <1>3, <1>6, ConcatEmptySeq DEF Content
    <2>2. ExportWhole'
        BY <1>1, <1>4, <1>6, <2>1 DEF ExportWhole
    <2>3. QED
        BY <1>1, <2>2 DEF ExportInv, KeptOfSeen, NothingYet, FileSoFar, Exporting
<1>7. CASE args.export \in {"csv", "base"}
    <2>1. written' = Content
        BY <1>1, <1>2, <1>7
    <2>2. ExportWhole'
        BY <1>1, <1>4, <1>7, <2>1 DEF ExportWhole, Content
    <2>3. QED
        BY <1>1, <2>2 DEF ExportInv, KeptOfSeen, NothingYet, FileSoFar, Exporting
<1>8. QED
    BY <1>3, <1>5, <1>6, <1>7 DEF Exports

\* The steps that write nothing and take no row.
LEMMA ExportOfMove ==
    ASSUME ExportInv, args' = args,
           UNCHANGED <<fd, written, table, seen, kept>>,
           pc' \in Exporting => pc \in Exporting,
           pc' \in {"count", "start"} => pc \in {"count", "start"},
           pc' = "done" => pc = "done"
    PROVE  ExportInv'
<1>1. Content' = Content
    BY DEF Content
<1>2. KeptOfSeen' /\ NothingYet' /\ FileSoFar'
    BY <1>1 DEF ExportInv, KeptOfSeen, NothingYet, FileSoFar
<1>3. ExportWhole'
    BY DEF ExportInv, ExportWhole
<1>4. QED
    BY <1>2, <1>3 DEF ExportInv

\* A row that stops the fetch, or fails: no file is closed behind a failure,
\* and a full table is behind the rows seen by those it left out.
LEMMA ExportOfStop ==
    ASSUME TypeOK, ExportInv, StopTable \/ RowFails
    PROVE  ExportInv'
<1>1. Row \in Assets /\ seen \in Seq(Assets) /\ args.export \in Exports
    BY TakeRowTypes DEF StopTable, RowFails, TypeOK, FetchArgs
<1>2. seen' = Append(seen, Row) /\ seen' # << >> /\ pc = "row" /\ kept' = kept
    <2>1. seen' = Append(seen, Row) /\ pc = "row" /\ kept' = kept
        BY DEF StopTable, RowFails, TakeRow, Goto
    <2>2. QED
        BY <1>1, <2>1, AppendProperties
<1>3. CASE RowFails
    <2>1. pc' = "failed"
        BY <1>3 DEF RowFails, Goto
    <2>2. QED
        BY <1>2, <2>1
           DEF ExportInv, KeptOfSeen, NothingYet, FileSoFar, Exporting, ExportWhole
<1>4. CASE StopTable
    <2>1. /\ pc' = "tag_add" /\ args.export = "table" /\ args' = args
          /\ UNCHANGED <<fd, written, table>>
        BY <1>4 DEF StopTable, Goto, TableFull, callbackVars
    <2>2. Content = << >> /\ Content' = << >>
        BY <2>1 DEF Content
    <2>3. QED
        BY <1>2, <2>1, <2>2
           DEF ExportInv, KeptOfSeen, NothingYet, FileSoFar, Exporting, ExportWhole
<1>5. QED
    BY <1>3, <1>4

\* Every step leaves the file as it should be.
LEMMA ExportNext ==
    ASSUME TypeOK, ExportInv, [Next]_vars
    PROVE  ExportInv'
<1> USE DEF Goto, Exporting
<1>1. CASE StartCallbacks
    BY <1>1, ExportOfStart
<1>2. ASSUME NEW keep \in Keeps, ProcessRow(keep)
      PROVE  ExportInv'
    BY <1>2, ExportOfRow DEF Keeps
<1>3. CASE StopTable \/ RowFails
    BY <1>3, ExportOfStop
<1>4. CASE Close
    BY <1>4, ExportOfClose
<1>5. CASE CountPending \/ CountDone \/ StartRefused \/ RequestFails
    BY <1>5, ExportOfMove DEF CountPending, CountDone, StartRefused, RequestFails,
       historyVars, callbackVars
<1>6. ASSUME NEW i \in 0..state.page_size, FetchPage(i)
      PROVE  ExportInv'
    <2>1. i \in Nat
        BY DEF TypeOK, State
    <2>2. pc' \in {"tag_add", "row"}
        BY <1>6, <2>1, FetchPageTypes
    <2>3. pc = "fetch" /\ args' = args /\ UNCHANGED <<fd, written, table, seen, kept>>
        BY <1>6 DEF FetchPage, callbackVars
    <2>4. QED
        BY <2>2, <2>3, ExportOfMove
<1>7. CASE Resume \/ Abandon \/ ProcessLoop
    BY <1>7, ExportOfMove DEF Resume, ForLoop, Abandon, ProcessLoop, historyVars,
       callbackVars
<1>8. CASE TagAdd \/ TagRemove
    BY <1>8, ExportOfMove DEF TagAdd, TagRemove, DoTagAdd, DoTagRemove, historyVars
<1>9. CASE AssetAppears \/ AssetDisappears \/ UNCHANGED vars
    BY <1>9, ExportOfMove DEF AssetAppears, AssetDisappears, ServerMayChange, vars,
       fetchVars, historyVars, callbackVars
<1>10. QED
    BY <1>1, <1>2, <1>3, <1>4, <1>5, <1>6, <1>7, <1>8, <1>9
       DEF Next, Client, Server, Ended

\* A fetch that ends well leaves a whole file of every format: opened by
\* start(), a row behind another, ended by stop() and closed unless it is stdout.
THEOREM ExportIsWhole == Spec => []ExportWhole
<1>1. Init => IInv /\ ExportInv
    <2>1. Init => ExportInv
        BY DEF Init, CallbacksInit, ExportInv, KeptOfSeen, NothingYet, FileSoFar,
           Exporting, ExportWhole
    <2>2. QED
        BY <2>1, IInvInit
<1>2. IInv /\ ExportInv /\ [Next]_vars => IInv' /\ ExportInv'
    BY TypeNext, FileNext, AccountingNext, ExportNext DEF IInv
<1>3. ExportInv => ExportWhole
    BY DEF ExportInv
<1>4. QED
    BY <1>1, <1>2, <1>3, PTL DEF Spec

-----------------------------------------------------------------------------
(* The labels.                                                             *)

\* A fetch is stopped for one of its reasons, and they hold on.
StoppedByReason == pc \in Stopping => StopReason

\* What the callbacks remember for a label is what they let through, once each.
\* Only a row that fails is remembered without being let through: behind it
\* nothing is sent.
RememberedOnce ==
    pc # "failed" =>
        /\ args.tags_add =>
              IsInjective(tag_rows_add) /\ ToSet(tag_rows_add) = ToSet(kept)
        /\ args.tags_remove =>
              IsInjective(tag_rows_remove) /\ ToSet(tag_rows_remove) = ToSet(kept)

\* How many label requests there are at each point of stop().
LabelsAdded   == IF args.tags_add THEN 1 ELSE 0
LabelsRemoved == IF args.tags_remove THEN 1 ELSE 0

CallsCounted ==
    /\ pc \notin {"tag_remove", "close", "done", "failed"} => calls = << >>
    /\ pc = "tag_remove" => Len(calls) = LabelsAdded
    /\ pc \in {"close", "done"} => Len(calls) = LabelsAdded + LabelsRemoved

CallsExplained ==
    /\ calls # << >> => StopReason
    /\ \A i \in 1..Len(calls) :
          /\ IsInjective(calls[i].ids)
          /\ ToSet(calls[i].ids) = ToSet(kept)
          /\ calls[i].op = "add" => i = 1

TagInv == StoppedByReason /\ RememberedOnce /\ CallsCounted /\ CallsExplained

\* Appending adds one element, and Remember keeps a sequence without repetition.
LEMMA AppendElements ==
    ASSUME NEW s \in Seq(Assets), NEW row \in Assets
    PROVE  /\ ToSet(Append(s, row)) = ToSet(s) \cup {row}
           /\ IsInjective(s) /\ ~Contains(s, row) => IsInjective(Append(s, row))
<1>1. DOMAIN s = 1..Len(s) /\ Len(s) \in Nat
    BY LenProperties
<1>2. /\ Append(s, row) \in Seq(Assets) /\ Len(Append(s, row)) = Len(s) + 1
      /\ \A i \in 1..Len(s) : Append(s, row)[i] = s[i]
      /\ Append(s, row)[Len(s) + 1] = row
    BY AppendProperties
<1> DEFINE t == Append(s, row)
<1>3. DOMAIN t = 1..(Len(s) + 1)
    BY <1>2, LenProperties
<1> HIDE DEF t
<1>4. ToSet(t) = ToSet(s) \cup {row}
    <2>1. ASSUME NEW x \in ToSet(t) PROVE x \in ToSet(s) \cup {row}
        <3>1. PICK i \in 1..(Len(s) + 1) : t[i] = x
            BY <1>3, <2>1 DEF ToSet
        <3>2. CASE i \in 1..Len(s)
            BY <1>1, <1>2, <3>1, <3>2 DEF ToSet, t
        <3>3. CASE i = Len(s) + 1
            BY <1>2, <3>1, <3>3 DEF t
        <3>4. QED
            BY <1>1, <3>2, <3>3
    <2>2. ASSUME NEW x \in ToSet(s) PROVE x \in ToSet(t)
        <3>1. PICK i \in 1..Len(s) : s[i] = x
            BY <1>1, <2>2 DEF ToSet
        <3>2. i \in DOMAIN t /\ t[i] = x
            BY <1>1, <1>2, <1>3, <3>1 DEF t
        <3>3. QED
            BY <3>2 DEF ToSet
    <2>3. row \in ToSet(t)
        <3>1. Len(s) + 1 \in DOMAIN t /\ t[Len(s) + 1] = row
            BY <1>1, <1>2, <1>3 DEF t
        <3>2. QED
            BY <3>1 DEF ToSet
    <2>4. QED
        BY <2>1, <2>2, <2>3
<1>5. ASSUME IsInjective(s), ~Contains(s, row)
      PROVE  IsInjective(t)
    <2>1. \A i \in 1..Len(s) : s[i] # row
        BY <1>5 DEF Contains
    <2>2. \A i, j \in 1..Len(s) : s[i] = s[j] => i = j
        BY <1>1, <1>5 DEF IsInjective
    <2>3. ASSUME NEW i \in 1..(Len(s) + 1), NEW j \in 1..(Len(s) + 1), t[i] = t[j]
          PROVE  i = j
        <3>1. \A k \in 1..(Len(s) + 1) : k \in 1..Len(s) \/ k = Len(s) + 1
            BY <1>1
        <3>2. QED
            BY <1>2, <2>1, <2>2, <2>3, <3>1 DEF t
    <2>4. QED
        BY <1>3, <2>3 DEF IsInjective
<1>6. QED
    BY <1>4, <1>5 DEF t

LEMMA RememberOnce ==
    ASSUME NEW s \in Seq(Assets), NEW row \in Assets, IsInjective(s)
    PROVE  /\ IsInjective(Remember(s, row))
           /\ ToSet(Remember(s, row)) = ToSet(s) \cup {row}
<1>1. CASE Contains(s, row)
    <2>1. row \in ToSet(s)
        <3>1. DOMAIN s = 1..Len(s)
            BY LenProperties
        <3>2. QED
            BY <1>1, <3>1 DEF Contains, ToSet
    <2>2. Remember(s, row) = s
        BY <1>1 DEF Remember
    <2>3. QED
        BY <2>1, <2>2
<1>2. CASE ~Contains(s, row)
    BY <1>2, AppendElements DEF Remember
<1>3. QED
    BY <1>1, <1>2

\* Until stop() the label requests are still to come.
LEMMA TagOfPaging ==
    ASSUME calls = << >>, calls' = calls, RememberedOnce',
           pc' \notin {"tag_remove", "close", "done"},
           pc' = "tag_add" => StopReason'
    PROVE  TagInv'
<1>1. StoppedByReason'
    BY DEF StoppedByReason, Stopping
<1>2. CallsCounted'
    BY DEF CallsCounted
<1>3. CallsExplained'
    <2>1. Len(calls') = 0
        BY EmptySeq
    <2>2. QED
        BY <2>1 DEF CallsExplained
<1>4. QED
    BY <1>1, <1>2, <1>3 DEF TagInv

\* A row that is let through is remembered, whatever was remembered before.
LEMMA TagOfRow ==
    ASSUME TypeOK, TagInv, NEW keep \in BOOLEAN, ProcessRow(keep)
    PROVE  TagInv'
<1>1. /\ Row \in Assets /\ tag_rows_add \in Seq(Assets)
      /\ tag_rows_remove \in Seq(Assets) /\ kept \in Seq(Assets)
    BY TakeRowTypes DEF ProcessRow, TypeOK, CallbacksTypeOK
<1>2. /\ pc = "row" /\ pc' \in {"yielded", "dropped"} /\ UNCHANGED <<args, calls>>
      /\ kept' = (IF keep THEN Append(kept, Row) ELSE kept)
      /\ tag_rows_add' = (IF args.tags_add /\ keep
                          THEN Remember(tag_rows_add, Row) ELSE tag_rows_add)
      /\ tag_rows_remove' = (IF args.tags_remove /\ keep
                             THEN Remember(tag_rows_remove, Row) ELSE tag_rows_remove)
    BY DEF ProcessRow, Goto, DoRow
<1>3. calls = << >>
    BY <1>2 DEF TagInv, CallsCounted
<1>4. RememberedOnce'
    <2>1. /\ args.tags_add => /\ IsInjective(tag_rows_add)
                              /\ ToSet(tag_rows_add) = ToSet(kept)
          /\ args.tags_remove => /\ IsInjective(tag_rows_remove)
                                 /\ ToSet(tag_rows_remove) = ToSet(kept)
        BY <1>2 DEF TagInv, RememberedOnce
    <2>2. CASE keep
        <3>1. ToSet(kept') = ToSet(kept) \cup {Row}
            BY <1>1, <1>2, <2>2, AppendElements
        <3>2. args.tags_add => /\ IsInjective(tag_rows_add')
                               /\ ToSet(tag_rows_add') = ToSet(tag_rows_add) \cup {Row}
            BY <1>1, <1>2, <2>1, <2>2, RememberOnce
        <3>3. args.tags_remove =>
                 /\ IsInjective(tag_rows_remove')
                 /\ ToSet(tag_rows_remove') = ToSet(tag_rows_remove) \cup {Row}
            BY <1>1, <1>2, <2>1, <2>2, RememberOnce
        <3>4. QED
            BY <1>2, <2>1, <3>1, <3>2, <3>3 DEF RememberedOnce
    <2>3. CASE ~keep
        BY <1>2, <2>1, <2>3 DEF RememberedOnce
    <2>4. QED
        BY <2>2, <2>3
<1>5. QED
    BY <1>2, <1>3, <1>4, TagOfPaging

\* A request that is sent is behind those sent before, and names what was kept.
LEMMA TagOfCall ==
    ASSUME TypeOK, TagInv, NEW op \in {"add", "remove"}, NEW ids \in Seq(Assets),
           pc \in {"tag_add", "tag_remove"},
           IsInjective(ids), ToSet(ids) = ToSet(kept), op = "add" => calls = << >>,
           UNCHANGED <<args, state, page, next, kept>>,
           calls' = Append(calls, [op |-> op, ids |-> ids])
    PROVE  CallsExplained' /\ Len(calls') = Len(calls) + 1
<1> DEFINE call == [op |-> op, ids |-> ids]
<1>1. call \in LabelCalls /\ call.op = op /\ call.ids = ids
    BY DEF LabelCalls
<1>2. calls \in Seq(LabelCalls) /\ Len(calls) \in Nat
    BY LenProperties DEF TypeOK, CallbacksTypeOK
<1> HIDE DEF call
<1>3. /\ Len(Append(calls, call)) = Len(calls) + 1
      /\ \A i \in 1..Len(calls) : Append(calls, call)[i] = calls[i]
      /\ Append(calls, call)[Len(calls) + 1] = call
    BY <1>1, <1>2, AppendProperties
<1>4. calls' = Append(calls, call)
    BY DEF call
<1>5. StopReason'
    <2>1. StopReason
        BY DEF TagInv, StoppedByReason, Stopping
    <2>2. QED
        BY <2>1 DEF StopReason, StopAtRow, StopAtLoop, TableFull
<1>6. ASSUME NEW i \in 1..Len(calls')
      PROVE  /\ IsInjective(calls'[i].ids)
             /\ ToSet(calls'[i].ids) = ToSet(kept')
             /\ calls'[i].op = "add" => i = 1
    <2>1. CASE i \in 1..Len(calls)
        <3>1. calls'[i] = calls[i]
            BY <1>3, <1>4, <2>1
        <3>2. QED
            BY <2>1, <3>1 DEF TagInv, CallsExplained
    <2>2. CASE i = Len(calls) + 1
        <3>1. calls'[i] = call
            BY <1>3, <1>4, <2>2
        <3>2. op = "add" => i = 1
            <4>1. op = "add" => Len(calls) = 0
                BY EmptySeq
            <4>2. QED
                BY <1>2, <2>2, <4>1
        <3>3. QED
            BY <1>1, <3>1, <3>2
    <2>3. QED
        BY <1>2, <1>3, <1>4, <2>1, <2>2
<1>7. QED
    BY <1>3, <1>4, <1>5, <1>6 DEF CallsExplained

\* stop() sends the labels to add, then those to remove, then closes.
LEMMA TagOfStop ==
    ASSUME TypeOK, TagInv, TagAdd \/ TagRemove \/ Close
    PROVE  TagInv'
<1>1. /\ UNCHANGED <<args, state, page, next, kept, tag_rows_add, tag_rows_remove>>
      /\ pc \in {"tag_add", "tag_remove", "close"}
    BY DEF TagAdd, TagRemove, Close, Goto, DoTagAdd, DoTagRemove, CloseExport,
       historyVars
<1>2. StopReason /\ StopReason'
    <2>1. StopReason
        BY <1>1 DEF TagInv, StoppedByReason, Stopping
    <2>2. QED
        BY <1>1, <2>1 DEF StopReason, StopAtRow, StopAtLoop, TableFull
<1>3. StoppedByReason' /\ RememberedOnce'
    BY <1>1, <1>2 DEF StoppedByReason, TagInv, RememberedOnce
<1>4. CallsExplained /\ Len(calls) \in Nat /\ Len(<< >>) = 0
    BY LenProperties, EmptySeq DEF TagInv, TypeOK, CallbacksTypeOK
<1>5. calls' = calls => CallsExplained'
    BY <1>1, <1>2, <1>4 DEF CallsExplained
<1>6. tag_rows_add \in Seq(Assets) /\ tag_rows_remove \in Seq(Assets)
    BY DEF TypeOK, CallbacksTypeOK
<1>7. CASE TagAdd
    <2>1. /\ pc = "tag_add" /\ calls = << >>
          /\ \/ pc' = "tag_remove"
             \/ pc' = "failed" /\ args.tags_add
          /\ calls' = (IF args.tags_add
                       THEN Append(calls, [op |-> "add", ids |-> tag_rows_add])
                       ELSE calls)
        BY <1>7 DEF TagAdd, Goto, DoTagAdd, TagInv, CallsCounted
    <2>2. CASE args.tags_add
        <3>1. IsInjective(tag_rows_add) /\ ToSet(tag_rows_add) = ToSet(kept)
            BY <1>1, <2>2 DEF TagInv, RememberedOnce
        <3>2. CallsExplained' /\ Len(calls') = Len(calls) + 1
            BY <1>1, <1>6, <2>1, <2>2, <3>1, TagOfCall
        <3>3. CallsCounted'
            BY <1>1, <1>4, <2>1, <2>2, <3>2 DEF CallsCounted, LabelsAdded
        <3>4. QED
            BY <1>3, <3>2, <3>3 DEF TagInv
    <2>3. CASE ~args.tags_add
        <3>1. CallsCounted'
            BY <1>1, <1>4, <2>1, <2>3 DEF CallsCounted, LabelsAdded
        <3>2. QED
            BY <1>3, <1>5, <2>1, <2>3, <3>1 DEF TagInv
    <2>4. QED
        BY <2>2, <2>3
<1>8. CASE TagRemove
    <2>1. /\ pc = "tag_remove" /\ Len(calls) = LabelsAdded
          /\ \/ pc' = "close"
             \/ pc' = "failed" /\ args.tags_remove
          /\ calls' = (IF args.tags_remove
                       THEN Append(calls, [op |-> "remove", ids |-> tag_rows_remove])
                       ELSE calls)
        BY <1>8 DEF TagRemove, Goto, DoTagRemove, TagInv, CallsCounted
    <2>2. LabelsAdded' = LabelsAdded /\ LabelsRemoved' = LabelsRemoved
          /\ LabelsAdded \in Nat
        BY <1>1 DEF LabelsAdded, LabelsRemoved
    <2>3. CASE args.tags_remove
        <3>1. IsInjective(tag_rows_remove) /\ ToSet(tag_rows_remove) = ToSet(kept)
            BY <1>1, <2>3 DEF TagInv, RememberedOnce
        <3>2. CallsExplained' /\ Len(calls') = Len(calls) + 1
            BY <1>1, <1>6, <2>1, <2>3, <3>1, TagOfCall
        <3>3. CallsCounted'
            BY <2>1, <2>2, <2>3, <3>2 DEF CallsCounted, LabelsRemoved
        <3>4. QED
            BY <1>3, <3>2, <3>3 DEF TagInv
    <2>4. CASE ~args.tags_remove
        <3>1. CallsCounted'
            BY <2>1, <2>2, <2>4 DEF CallsCounted, LabelsRemoved
        <3>2. QED
            BY <1>3, <1>5, <2>1, <2>4, <3>1 DEF TagInv
    <2>5. QED
        BY <2>3, <2>4
<1>9. CASE Close
    <2>1. pc = "close" /\ pc' = "done" /\ calls' = calls
        BY <1>9 DEF Close, Goto, CloseExport
    <2>2. CallsCounted'
        BY <1>1, <2>1 DEF TagInv, CallsCounted, LabelsAdded, LabelsRemoved
    <2>3. QED
        BY <1>3, <1>5, <2>1, <2>2 DEF TagInv
<1>10. QED
    BY <1>7, <1>8, <1>9

\* Every step sends what it should, if anything.
LEMMA TagNext ==
    ASSUME IInv, TagInv, [Next]_vars
    PROVE  TagInv'
<1> USE DEF Goto
<1>1. ASSUME NEW keep \in Keeps, ProcessRow(keep)
      PROVE  TagInv'
    BY <1>1, TagOfRow DEF Keeps, IInv
<1>2. CASE TagAdd \/ TagRemove \/ Close
    BY <1>2, TagOfStop DEF IInv
<1>3. ASSUME pc \notin {"tag_remove", "close", "done", "failed"},
             pc' \notin {"tag_remove", "close", "done"}, UNCHANGED calls,
             UNCHANGED <<args, kept, tag_rows_add, tag_rows_remove>> \/ pc' = "failed",
             pc' = "tag_add" => StopReason'
      PROVE  TagInv'
    <2>1. calls = << >>
        BY <1>3 DEF TagInv, CallsCounted
    <2>2. RememberedOnce'
        BY <1>3 DEF TagInv, RememberedOnce
    <2>3. QED
        BY <1>3, <2>1, <2>2, TagOfPaging
<1>4. CASE CountPending \/ CountDone \/ StartRefused \/ RequestFails \/ Abandon
    BY <1>3, <1>4 DEF CountPending, CountDone, StartRefused, RequestFails, Abandon,
       historyVars, callbackVars
<1>5. CASE StartCallbacks
    BY <1>3, <1>5 DEF StartCallbacks, Start, historyVars
<1>6. ASSUME NEW i \in 0..state.page_size, FetchPage(i)
      PROVE  TagInv'
    <2>1. i \in Nat
        BY DEF IInv, TypeOK, State
    <2>2. pc' \in {"tag_add", "row"}
        BY <1>6, <2>1, FetchPageTypes DEF IInv
    <2>3. pc' = "tag_add" => page' = << >>
        BY <1>6 DEF FetchPage, StopAtPage, ForLoop
    <2>4. pc' = "tag_add" => StopReason'
        BY <2>3 DEF StopReason
    <2>5. pc = "fetch" /\ UNCHANGED <<calls, args, kept, tag_rows_add, tag_rows_remove>>
        BY <1>6 DEF FetchPage, callbackVars
    <2>6. QED
        BY <1>3, <2>2, <2>4, <2>5
<1>7. CASE StopTable
    <2>1. pc = "row" /\ UNCHANGED <<calls, args, kept, tag_rows_add, tag_rows_remove>>
          /\ pc' = "tag_add" /\ TableFull(state'.rows_processed_total)
        BY <1>7 DEF StopTable, callbackVars
    <2>2. StopReason'
        BY <2>1 DEF StopReason, TableFull
    <2>3. QED
        BY <1>3, <2>1, <2>2
<1>8. CASE RowFails
    BY <1>3, <1>8 DEF RowFails, DoRow, callbackVars
<1>9. CASE Resume
    <2>1. /\ pc \in {"yielded", "dropped"} /\ pc' \in {"tag_add", "row", "loop"}
          /\ pc' = "tag_add" => StopAtRow(state)
          /\ UNCHANGED <<state, calls, args, kept, tag_rows_add, tag_rows_remove>>
        BY <1>9 DEF Resume, ForLoop, historyVars, callbackVars
    <2>2. pc' = "tag_add" => StopReason'
        BY <2>1 DEF StopReason, StopAtRow
    <2>3. QED
        BY <1>3, <2>1, <2>2
<1>10. CASE ProcessLoop
    <2>1. /\ pc = "loop" /\ pc' \in {"tag_add", "fetch"}
          /\ pc' = "tag_add" => StopAtLoop(state)
          /\ UNCHANGED <<state, next, page, calls, args, kept,
                         tag_rows_add, tag_rows_remove>>
        BY <1>10 DEF ProcessLoop, historyVars, callbackVars
    <2>2. next = Len(page)
        BY <2>1 DEF IInv, Consumed
    <2>3. pc' = "tag_add" => StopReason'
        BY <2>1, <2>2 DEF StopReason, StopAtLoop
    <2>4. QED
        BY <1>3, <2>1, <2>3
<1>11. CASE AssetAppears \/ AssetDisappears
    BY <1>3, <1>11 DEF AssetAppears, AssetDisappears, ServerMayChange, callbackVars
<1>12. CASE UNCHANGED vars
    BY <1>12 DEF TagInv, StoppedByReason, RememberedOnce, CallsCounted, LabelsAdded,
       LabelsRemoved, CallsExplained, StopReason, StopAtRow, StopAtLoop, TableFull,
       vars, fetchVars, historyVars, callbackVars
<1>13. QED
    BY <1>1, <1>2, <1>4, <1>5, <1>6, <1>7, <1>8, <1>9, <1>10, <1>11, <1>12
       DEF Next, Client, Server, Ended

\* As many label requests as there are kinds of labels asked for.
LEMMA LabelsWanted ==
    ASSUME TypeOK
    PROVE  LabelsAdded + LabelsRemoved =
              Cardinality({t \in {"add", "remove"} :
                              IF t = "add" THEN args.tags_add ELSE args.tags_remove})
<1> DEFINE wanted == {t \in {"add", "remove"} :
                         IF t = "add" THEN args.tags_add ELSE args.tags_remove}
<1>1. /\ IsFiniteSet({"add"}) /\ IsFiniteSet({"remove"})
      /\ Cardinality({"add"}) = 1 /\ Cardinality({"remove"}) = 1
      /\ Cardinality({}) = 0
    <2>1. {} \cup {"add"} = {"add"} /\ {} \cup {"remove"} = {"remove"}
        OBVIOUS
    <2>2. QED
        BY <2>1, FS_EmptySet, FS_AddElement
<1>2. Cardinality({"add"} \cup {"remove"}) = 2
    <2>1. "remove" \notin {"add"}
        OBVIOUS
    <2>2. QED
        BY <1>1, <2>1, FS_AddElement
<1>3. CASE args.tags_add /\ args.tags_remove
    <2>1. wanted = {"add"} \cup {"remove"}
        BY <1>3
    <2>2. QED
        BY <1>2, <1>3, <2>1 DEF LabelsAdded, LabelsRemoved
<1>4. CASE args.tags_add /\ ~args.tags_remove
    <2>1. wanted = {"add"}
        BY <1>4
    <2>2. QED
        BY <1>1, <1>4, <2>1 DEF LabelsAdded, LabelsRemoved
<1>5. CASE ~args.tags_add /\ args.tags_remove
    <2>1. wanted = {"remove"}
        BY <1>5
    <2>2. QED
        BY <1>1, <1>5, <2>1 DEF LabelsAdded, LabelsRemoved
<1>6. CASE ~args.tags_add /\ ~args.tags_remove
    <2>1. wanted = {}
        BY <1>6
    <2>2. QED
        BY <1>1, <1>6, <2>1 DEF LabelsAdded, LabelsRemoved
<1>7. QED
    BY <1>3, <1>4, <1>5, <1>6

\* stop() sends each label once and only behind the paging, for the rows the
\* callbacks let through, whatever came before it: a failure, rows twice, a
\* generator given up.
THEOREM TagsAreSentOnce == Spec => []TagsOnceAtTheEnd
<1>1. Init => IInv /\ TagInv
    <2>1. Init => TagInv
        BY EmptySeq DEF Init, CallbacksInit, TagInv, StoppedByReason, Stopping,
           RememberedOnce, IsInjective, CallsCounted, CallsExplained
    <2>2. QED
        BY <2>1, IInvInit
<1>2. IInv /\ TagInv /\ [Next]_vars => IInv' /\ TagInv'
    BY TypeNext, FileNext, AccountingNext, TagNext DEF IInv
<1>3. IInv /\ TagInv => TagsOnceAtTheEnd
    <2> SUFFICES ASSUME IInv, TagInv PROVE TagsOnceAtTheEnd
        OBVIOUS
    <2>1. DOMAIN calls = 1..Len(calls)
        BY LenProperties DEF IInv, TypeOK, CallbacksTypeOK
    <2>2. calls # << >> => pc \in {"tag_remove", "close", "done", "failed"} /\ StopReason
        BY DEF TagInv, CallsCounted, CallsExplained
    <2>3. \A i \in DOMAIN calls :
              /\ IsInjective(calls[i].ids)
              /\ ToSet(calls[i].ids) = ToSet(kept)
              /\ calls[i].op = "add" => i = 1
        BY <2>1 DEF TagInv, CallsExplained
    <2>4. pc = "done" => Len(calls) = LabelsAdded + LabelsRemoved
        BY DEF TagInv, CallsCounted
    <2>5. QED
        BY <2>2, <2>3, <2>4, LabelsWanted DEF IInv, TagsOnceAtTheEnd
<1>4. QED
    BY <1>1, <1>2, <1>3, PTL DEF Spec

-----------------------------------------------------------------------------
(* The stream of rows.                                                     *)

\* As long as a fetch goes on its last page has rows: without it a limit could be
\* taken for the end of the result.
OpenPage == started /\ pc \notin Stopping \cup Ends => page # << >>

StreamInv == IInv /\ WindowInv /\ OpenPage

LEMMA OpenPageNext ==
    ASSUME IInv, OpenPage, [Next]_vars
    PROVE  OpenPage'
<1>1. ASSUME NEW i \in 0..state.page_size, FetchPage(i)
      PROVE  OpenPage'
    <2>1. pc' = "tag_add" \/ page' # << >>
        BY <1>1 DEF FetchPage, Goto, StopAtPage
    <2>2. QED
        BY <2>1 DEF OpenPage, Stopping
<1>2. CASE ~\E i \in 0..state.page_size : FetchPage(i)
    <2>1. UNCHANGED <<started, page>>
        BY <1>2 DEF Next, Client, Server, Ended, vars, fetchVars, historyVars,
           CountPending, CountDone, StartCallbacks, StartRefused, RequestFails,
           ProcessRow, StopTable, RowFails, Resume, Abandon, ProcessLoop, TagAdd,
           TagRemove, Close, AssetAppears, AssetDisappears, ServerMayChange
    <2>2. pc \in Stopping \cup Ends => pc' \in Stopping \cup Ends
        BY <1>2 DEF Next, Client, Server, Ended, vars, fetchVars, Goto, Stopping, Ends,
           CountPending, CountDone, StartCallbacks, StartRefused, RequestFails,
           ProcessRow, StopTable, RowFails, Resume, Abandon, ProcessLoop, TagAdd,
           TagRemove, Close, AssetAppears, AssetDisappears, ServerMayChange
    <2>3. QED
        BY <2>1, <2>2 DEF OpenPage
<1>3. QED
    BY <1>1, <1>2

\* The rows requested are those of the result from the start on.
LEMMA RequestedRows ==
    ASSUME TypeOK
    PROVE  /\ Requested \in Seq(Assets)
           /\ Len(Requested) = IF started /\ StartOf(args) < Len(base)
                               THEN Len(base) - StartOf(args) ELSE 0
           /\ \A k \in 1..Len(Requested) : Requested[k] = base[StartOf(args) + k]
<1>1. StartOf(args) \in Nat /\ base \in Seq(Assets)
    BY StartType DEF TypeOK
<1>2. CASE started
    BY <1>1, <1>2, RestProperties DEF Requested
<1>3. CASE ~started
    BY <1>3, EmptySeq DEF Requested
<1>4. QED
    BY <1>2, <1>3

\* What does not show in the stream.
LEMMA StreamStutters ==
    ASSUME UNCHANGED <<args, started, base, seen>>, Outcome' = Outcome
    PROVE  UNCHANGED Stream!streamVars
BY DEF Stream!streamVars, Requested

\* What every page that arrives undisturbed is of the result.
LEMMA PageOfResult ==
    ASSUME StreamInv, NEW i \in Nat, FetchPage(i), Undisturbed', args' = args
    PROVE  /\ Served = base' /\ base' \in Seq(Assets) /\ Len(base') \in Nat
           /\ page' = << >> => Len(base') <= StartOf(args) + Len(seen)
           /\ page' # << >> => StartOf(args) + Len(seen) < Len(base')
           /\ Outcome = "open"
           /\ Outcome' = IF page' = << >> THEN "complete" ELSE "open"
<1>1. /\ state.rows_offset \in Nat /\ state.page_size \in Nat \ {0}
      /\ StartOf(args) \in Nat /\ Len(seen) \in Nat /\ Len(page) \in Nat
    BY LimitTypes DEF StreamInv, IInv
<1>2. state.rows_offset = StartOf(args) + Len(seen)
    <2>1. next = Len(page)
        BY DEF StreamInv, IInv, Consumed, FetchPage, Goto
    <2>2. QED
        BY <1>1, <2>1 DEF StreamInv, IInv, Accounting
<1>3. Served = base' /\ page' = Window(Served, state.rows_offset, state.page_size)
    BY FetchedWindow DEF StreamInv, IInv, WindowInv
<1>4. Served \in Seq(Assets) /\ base' \in Seq(Assets) /\ Len(base') \in Nat
    BY <1>3, ServedType, LenProperties DEF StreamInv, IInv
<1>5. page' \in Seq(Assets) /\ pc' \in {"tag_add", "row"}
    BY FetchPageTypes DEF StreamInv, IInv
<1>6. /\ Len(page') = 0 => Len(base') <= state.rows_offset
      /\ \A j \in 1..Len(page') : state.rows_offset + j <= Len(base')
    <2> DEFINE window == Window(Served, state.rows_offset, state.page_size)
    <2>1. /\ Len(window) = 0 => Len(Served) <= state.rows_offset
          /\ \A j \in 1..Len(window) : state.rows_offset + j <= Len(Served)
        BY <1>1, <1>4, WindowPlace
    <2> HIDE DEF window
    <2>2. page' = window
        BY <1>3 DEF window
    <2>3. QED
        BY <1>3, <2>1, <2>2
<1>7. CASE page' = << >>
    <2>1. pc' = "tag_add" /\ started' /\ pc = "fetch"
        BY <1>7 DEF FetchPage, Goto, StopAtPage
    <2>2. Outcome = "open" /\ Outcome' = "complete"
        BY <1>7, <2>1 DEF Outcome, Stopping, Ends
    <2>3. Len(page') = 0
        BY <1>7, EmptySeq
    <2>4. QED
        BY <1>2, <1>3, <1>4, <1>6, <1>7, <2>2, <2>3
<1>8. CASE page' # << >>
    <2>1. pc' = "row" /\ pc = "fetch"
        BY <1>5, <1>8 DEF FetchPage, Goto, StopAtPage, ForLoop
    <2>2. Outcome = "open" /\ Outcome' = "open"
        BY <2>1 DEF Outcome, Stopping, Ends
    <2>3. Len(page') \in Nat \ {0}
        BY <1>5, <1>8, EmptySeq
    <2>4. state.rows_offset + 1 <= Len(base')
        BY <1>6, <2>3
    <2>5. QED
        BY <1>1, <1>2, <1>3, <1>4, <1>8, <2>2, <2>4
<1>9. QED
    BY <1>7, <1>8

\* The first page opens the stream.
LEMMA StreamOpens ==
    ASSUME StreamInv, NEW i \in Nat, FetchPage(i), Undisturbed', args' = args,
           ~started
    PROVE  Stream!Open
<1>1. /\ base' \in Seq(Assets) /\ Len(base') \in Nat
      /\ page' = << >> => Len(base') <= StartOf(args) + Len(seen)
      /\ page' # << >> => StartOf(args) + Len(seen) < Len(base')
      /\ Outcome = "open"
      /\ Outcome' = IF page' = << >> THEN "complete" ELSE "open"
    BY PageOfResult
<1>2. started' = TRUE /\ seen' = seen
    BY DEF FetchPage
<1>3. Len(seen) = 0 /\ StartOf(args) \in Nat
    BY EmptySeq, LimitTypes DEF StreamInv, IInv, WindowInv, Fresh
<1>4. /\ Requested' \in Seq(Assets)
      /\ Len(Requested') = IF StartOf(args) < Len(base')
                           THEN Len(base') - StartOf(args) ELSE 0
    BY <1>1, <1>2, <1>3, RestProperties DEF Requested
<1>5. Requested' = << >> <=> page' = << >>
    <2>1. Requested' = << >> <=> Len(Requested') = 0
        BY <1>4, EmptySeq
    <2>2. QED
        BY <1>1, <1>3, <1>4, <2>1
<1>6. QED
    BY <1>1, <1>2, <1>4, <1>5 DEF Stream!Open

\* An empty page behind the last row completes it, and a page with rows does not
\* show.
LEMMA StreamGoesOn ==
    ASSUME StreamInv, NEW i \in Nat, FetchPage(i), Undisturbed', Undisturbed,
           args' = args, started
    PROVE  Stream!Complete \/ UNCHANGED Stream!streamVars
<1>1. /\ page' = << >> => Len(base') <= StartOf(args) + Len(seen)
      /\ Outcome = "open"
      /\ Outcome' = IF page' = << >> THEN "complete" ELSE "open"
    BY PageOfResult
<1>2. UNCHANGED <<started, seen, base>>
    BY DEF FetchPage
<1>3. Requested' = Requested
    BY <1>2 DEF Requested
<1>4. CASE page' # << >>
    BY <1>1, <1>2, <1>4, StreamStutters
<1>5. CASE page' = << >>
    <2>1. Len(seen) \in Nat /\ Len(base) \in Nat /\ StartOf(args) \in Nat
        BY LimitTypes DEF StreamInv, IInv
    <2>2. Len(seen) > 0 => StartOf(args) + Len(seen) <= Len(base)
        BY <2>1 DEF StreamInv, WindowInv, SeenInWindow
    <2>3. Len(Requested) = Len(seen)
        BY <1>1, <1>2, <1>5, <2>1, <2>2, RequestedRows DEF StreamInv, IInv
    <2>4. QED
        BY <1>1, <1>2, <1>3, <1>5, <2>3 DEF Stream!Complete
<1>6. QED
    BY <1>4, <1>5

\* A row that goes to the callbacks is delivered, whether they can take it or not.
LEMMA StreamDelivers ==
    ASSUME StreamInv, Undisturbed, TakeRow, args' = args, pc = "row",
           pc' \in {"yielded", "dropped", "tag_add", "failed"},
           UNCHANGED <<page, started, base>>
    PROVE  Stream!Deliver
<1>1. /\ Len(seen) \in Nat /\ Len(base) \in Nat /\ StartOf(args) \in Nat
      /\ Len(page) \in Nat /\ next \in Nat /\ next < Len(page)
      /\ state.rows_offset \in Nat /\ state.rows_fetched_total \in Nat
    <2>1. next < Len(page)
        BY DEF TakeRow
    <2>2. next \in Nat
        BY LimitTypes DEF StreamInv, IInv, TypeOK
    <2>3. QED
        BY <2>1, <2>2, LimitTypes DEF StreamInv, IInv
<1>2. page # << >> /\ started
    <2>1. page # << >>
        BY <1>1, EmptySeq
    <2>2. QED
        BY <2>1 DEF StreamInv, WindowInv, Fresh
<1>3. state.rows_offset - Len(page) + (next + 1) = StartOf(args) + (Len(seen) + 1)
    <2>1. /\ state.rows_offset = StartOf(args) + state.rows_fetched_total
          /\ state.rows_fetched_total = Len(seen) + (Len(page) - next)
        BY DEF StreamInv, IInv, Accounting
    <2>2. QED
        BY <1>1, <2>1
<1>4. /\ StartOf(args) + (Len(seen) + 1) <= Len(base)
      /\ Row = base[StartOf(args) + (Len(seen) + 1)]
    <2>1. next + 1 \in 1..Len(page)
        BY <1>1
    <2>2. QED
        BY <1>3, <2>1 DEF StreamInv, WindowInv, PageInWindow, Row
<1>5. /\ Len(seen) < Len(Requested)
      /\ Requested[Len(seen) + 1] = Row
    <2>1. Len(Requested) = Len(base) - StartOf(args)
        BY <1>1, <1>2, <1>4, RequestedRows DEF StreamInv, IInv
    <2>2. Len(seen) + 1 \in 1..Len(Requested)
        BY <1>1, <1>4, <2>1
    <2>3. QED
        BY <1>1, <1>4, <2>1, <2>2, RequestedRows DEF StreamInv, IInv
<1>6. Outcome = "open" /\ Outcome' \in {"open", "cut"} /\ Requested' = Requested
    BY <1>2 DEF Outcome, Stopping, Ends, Requested
<1>7. seen' = Append(seen, Row)
    BY DEF TakeRow
<1>8. QED
    BY <1>2, <1>5, <1>6, <1>7 DEF Stream!Deliver

\* Whatever else ends a fetch that goes on cuts the stream.
LEMMA StreamCut ==
    ASSUME OpenPage, UNCHANGED <<args, started, base, seen, page>>,
           pc \notin Stopping \cup Ends, pc' \in Stopping \cup Ends
    PROVE  Stream!Cut
<1>1. Outcome = "open" /\ Outcome' = "cut"
    BY DEF Outcome, OpenPage
<1>2. Requested' = Requested
    BY DEF Requested
<1>3. QED
    BY <1>1, <1>2 DEF Stream!Cut

\* An undisturbed step of a fetch is a step of the stream, or does not show.
LEMMA StreamStep ==
    ASSUME StreamInv, [Next]_vars
    PROVE  [Undisturbed' => Stream!StreamNext]_(Stream!streamVars)
<1> SUFFICES ASSUME Undisturbed'
             PROVE  Stream!StreamNext \/ UNCHANGED Stream!streamVars
    OBVIOUS
<1>0. args' = args /\ Undisturbed
    BY DisturbedForGood DEF StreamInv, IInv
<1>1. ASSUME NEW i \in 0..state.page_size, FetchPage(i)
      PROVE  Stream!StreamNext \/ UNCHANGED Stream!streamVars
    <2>1. i \in Nat
        BY DEF StreamInv, IInv, TypeOK, State
    <2>2. CASE started
        BY <1>0, <1>1, <2>1, <2>2, StreamGoesOn DEF Stream!StreamNext
    <2>3. CASE ~started
        BY <1>0, <1>1, <2>1, <2>3, StreamOpens DEF Stream!StreamNext
    <2>4. QED
        BY <2>2, <2>3
<1>2. CASE (\E keep \in Keeps : ProcessRow(keep)) \/ StopTable \/ RowFails
    <2>1. /\ TakeRow /\ pc = "row"
          /\ pc' \in {"yielded", "dropped", "tag_add", "failed"}
          /\ UNCHANGED <<page, started, base>>
        BY <1>2 DEF ProcessRow, StopTable, RowFails, Goto
    <2>2. QED
        BY <1>0, <2>1, StreamDelivers DEF Stream!StreamNext
<1>3. ASSUME UNCHANGED <<started, base, seen, page>>,
             pc \in Stopping \cup Ends => pc' \in Stopping \cup Ends
      PROVE  Stream!StreamNext \/ UNCHANGED Stream!streamVars
    <2>1. CASE pc \notin Stopping \cup Ends /\ pc' \in Stopping \cup Ends
        BY <1>0, <1>3, <2>1, StreamCut DEF StreamInv, Stream!StreamNext
    <2>2. CASE pc \in Stopping \cup Ends <=> pc' \in Stopping \cup Ends
        <3>1. Outcome' = Outcome
            BY <1>3, <2>2 DEF Outcome
        <3>2. QED
            BY <1>0, <1>3, <3>1, StreamStutters
    <2>3. QED
        BY <1>3, <2>1, <2>2
<1>4. CASE \/ CountPending \/ CountDone \/ StartCallbacks \/ StartRefused
           \/ RequestFails \/ Resume \/ Abandon \/ ProcessLoop
           \/ TagAdd \/ TagRemove \/ Close
    <2>1. UNCHANGED <<started, base, seen, page>>
        BY <1>4 DEF CountPending, CountDone, StartCallbacks, StartRefused,
           RequestFails, Resume, Abandon, ProcessLoop, TagAdd, TagRemove, Close,
           historyVars
    <2>2. pc \in Stopping \cup Ends => pc' \in Stopping \cup Ends
        BY <1>4 DEF CountPending, CountDone, StartCallbacks, StartRefused,
           RequestFails, Resume, Abandon, ProcessLoop, TagAdd, TagRemove, Close,
           Goto, Stopping, Ends
    <2>3. QED
        BY <1>3, <2>1, <2>2
<1>5. CASE AssetAppears \/ AssetDisappears \/ UNCHANGED vars
    <2>1. UNCHANGED <<pc, started, base, seen, page>>
        BY <1>5 DEF AssetAppears, AssetDisappears, ServerMayChange, vars, fetchVars,
           historyVars
    <2>2. QED
        BY <1>3, <2>1
<1>6. QED
    BY <1>1, <1>2, <1>4, <1>5 DEF Next, Client, Server, Ended

\* The inductive invariant of the refinement.
LEMMA StreamInvariant == Spec => []StreamInv
<1>1. Init => StreamInv
    <2>1. Init => OpenPage
        BY DEF Init, OpenPage
    <2>2. QED
        BY <2>1, IInvInit, WindowInit DEF StreamInv
<1>2. StreamInv /\ [Next]_vars => StreamInv'
    BY TypeNext, FileNext, AccountingNext, WindowNext, OpenPageNext DEF StreamInv, IInv
<1>3. QED
    BY <1>1, <1>2, PTL DEF Spec

LEMMA StreamStarts == Init => Stream!StreamInit
BY DEF Init, Stream!StreamInit, Outcome, Requested, Stopping, Ends

\* As long as nothing disturbs the paging, by offset or by cursor, get_generator
\* is a RowStream: one result from the requested start on, in order, no row left
\* out or twice, none behind its end, and complete exactly when it is called so.
THEOREM FetchImplementsStream == Spec => ImplementsRowStream
<1>1. StreamInv /\ [Next]_vars =>
        [Undisturbed' => Stream!StreamNext]_(Stream!streamVars)
    BY StreamStep
<1>2. QED
    BY <1>1, StreamInvariant, StreamStarts, PTL DEF Spec, ImplementsRowStream

\* Where every call pages by a cursor that every response repeats, and items are
\* well formed, it is a RowStream whatever the server's population does meanwhile.
THEOREM CursorImplementsStream ==
    ASSUME RepeatsCursor, MaxMalformed = 0, \A a \in Calls : a.use_cursor
    PROVE  Spec => Stream!StreamSpec
<1> DEFINE Sure == args.use_cursor /\ malformed = 0
<1>1. Init => Sure
    BY DEF Init
<1>2. TypeOK /\ Sure /\ [Next]_vars => Sure'
    <2> SUFFICES ASSUME TypeOK, Sure, [Next]_vars PROVE Sure'
        OBVIOUS
    <2>1. args' = args
        BY DisturbedForGood
    <2>2. malformed' = malformed
        <3>1. ASSUME NEW i \in 0..state.page_size, FetchPage(i)
              PROVE  malformed' = malformed
            <4>1. i # 0 => malformed < MaxMalformed
                BY <3>1 DEF FetchPage
            <4>2. i = 0
                BY <4>1
            <4>3. QED
                BY <3>1, <4>2 DEF FetchPage
        <3>2. CASE ~\E i \in 0..state.page_size : FetchPage(i)
            BY <3>2 DEF Next, Client, Server, Ended, vars, historyVars, CountPending,
               CountDone, StartCallbacks, StartRefused, RequestFails, ProcessRow,
               StopTable, RowFails, Resume, Abandon, ProcessLoop, TagAdd, TagRemove,
               Close, AssetAppears, AssetDisappears, ServerMayChange
        <3>3. QED
            BY <3>1, <3>2
    <2>3. QED
        BY <2>1, <2>2
<1>3. Sure' => Undisturbed'
    BY DEF Undisturbed
<1>4. ImplementsRowStream /\ []Sure => Stream!StreamSpec
    BY <1>3, PTL DEF ImplementsRowStream, Stream!StreamSpec
<1>5. QED
    BY <1>1, <1>2, <1>4, TypeCorrect, FetchImplementsStream, PTL DEF Spec

-----------------------------------------------------------------------------
(* What comes twice, and what is missed, where the server's population      *)
(* changes under the fetch, whether it pages by offsets or by cursors.     *)

\* The rows handed to the callbacks, those of the page still to be, and those
\* that what the server would page over now holds behind the next offset.
HandedOver == RowsBehind(seen, 0)
OnPage     == RowsBehind(page, next)
Ahead      == RowsBehind(Served, state.rows_offset)

\* The rows a fetch is asked for: those of the result of its first page.
Wanted == RowsBehind(base, StartOf(args))

\* A cursor stands for an earlier population.  Until an asset appears none is
\* further from the offset in the population than in the cursor's result, and
\* until one disappears none is nearer: this is what makes a fetch no worse
\* when some of its pages come by a cursor and others do not.
CursorBehind ==
    /\ ~inserted => \A r \in Nat : RowsBehind(population, r) \subseteq RowsBehind(Served, r)
    /\ ~deleted  => \A r \in Nat : RowsBehind(Served, r) \subseteq RowsBehind(population, r)

EachOnce == IsInjective(population) /\ IsInjective(Served)

\* Until an asset appears nothing that has come is still to come.
ComesOnce ==
    malformed = 0 /\ ~inserted =>
        /\ IsInjective(seen)
        /\ \A i, j \in (next + 1)..Len(page) : page[i] = page[j] => i = j
        /\ HandedOver \cap OnPage = {}
        /\ (HandedOver \cup OnPage) \cap Ahead = {}

\* Until an asset disappears what was wanted has come or is still to come.
NoneMissed ==
    started /\ malformed = 0 /\ ~deleted =>
        Wanted \subseteq HandedOver \cup OnPage \cup Ahead

\* Behind an empty page it has come: what the server holds then may be new.
AllCame ==
    started /\ malformed = 0 /\ ~deleted /\ page = << >> => Wanted \subseteq HandedOver

NoBaseYet == ~started => base = << >> /\ ~inserted /\ ~deleted

FaultsInv ==
    NoBaseYet /\ CursorBehind /\ EachOnce /\ ComesOnce /\ NoneMissed /\ AllCame

-----------------------------------------------------------------------------
\* The numbers and sequences the invariant is about.
LEMMA FaultTypes ==
    ASSUME TypeOK
    PROVE  /\ state.rows_offset \in Nat /\ state.page_size \in Nat \ {0}
           /\ StartOf(args) \in Nat
           /\ Served \in Seq(Assets) /\ population \in Seq(Assets)
           /\ page \in Seq(Assets) /\ Len(page) \in Nat /\ next \in 0..Len(page)
           /\ seen \in Seq(Assets) /\ Len(seen) \in Nat
           /\ base \in Seq(Assets) /\ Len(base) \in Nat /\ malformed \in Nat
BY ServedType, StartType, LenProperties DEF TypeOK, State

\* No row has come before the first request.
LEMMA FaultsInit == Init => FaultsInv
<1> SUFFICES ASSUME Init PROVE FaultsInv
    OBVIOUS
<1>1. /\ Len(page) = 0 /\ Len(seen) = 0 /\ next = 0 /\ cursor = << >> /\ ~started
      /\ DOMAIN seen = 1..Len(seen) /\ ~inserted /\ ~deleted /\ base = << >>
    <2>1. << >> \in Seq(Assets) /\ Len(<< >>) = 0
        BY EmptySeq
    <2>2. DOMAIN seen = 1..Len(seen)
        BY <2>1, LenProperties DEF Init
    <2>3. QED
        BY <2>1, <2>2 DEF Init
<1>2. Served = population
    BY <1>1 DEF Served
<1>3. EachOnce /\ CursorBehind /\ NoBaseYet
    BY <1>1, <1>2, AssetFetchAssumption DEF Init, EachOnce, CursorBehind, NoBaseYet
<1>4. ComesOnce
    <2>1. HandedOver = {} /\ OnPage = {}
        BY <1>1 DEF HandedOver, OnPage, RowsBehind
    <2>2. QED
        BY <1>1, <2>1 DEF ComesOnce, IsInjective
<1>5. NoneMissed /\ AllCame
    BY <1>1 DEF NoneMissed, AllCame
<1>6. QED
    BY <1>3, <1>4, <1>5 DEF FaultsInv

\* A page takes the first of the rows ahead; behind it are the others, of the
\* cursor's result or, where the response brought none, of the population.
LEMMA PageTakesAhead ==
    ASSUME IInv, FaultsInv, NEW i \in Nat, FetchPage(i), malformed' = 0
    PROVE  /\ OnPage = {} /\ HandedOver' = HandedOver
           /\ OnPage' \subseteq Ahead
           /\ \A m, n \in (next' + 1)..Len(page') : page'[m] = page'[n] => m = n
           /\ ~inserted => Ahead' \subseteq Ahead /\ OnPage' \cap Ahead' = {}
           /\ ~deleted  => Ahead \subseteq OnPage' \cup Ahead'
           /\ page' = << >> /\ ~deleted => Ahead = {}
<1> DEFINE offset == state.rows_offset
           size   == state.page_size
           window == Window(Served, offset, size)
           rest   == RowsBehind(Served, offset + Len(window))
<1>1. /\ page' = LoadResponse(window, i) /\ cursor' = NextCursor
      /\ malformed' = (IF i # 0 THEN malformed + 1 ELSE malformed)
      /\ UNCHANGED <<population, seen>> /\ pc = "fetch"
    BY DEF FetchPage, Goto
<1>2. page' = window
    <2>1. i = 0
        BY <1>1, FaultTypes DEF IInv
    <2>2. QED
        BY <1>1, <2>1 DEF LoadResponse
<1>3. /\ next' = 0 /\ state'.rows_offset = offset + Len(page')
      /\ page' \in Seq(Assets) /\ Len(page') \in Nat
    BY FetchPageTypes, LenProperties DEF IInv
<1>4. /\ RowsBehind(Served, offset) = {window[j] : j \in 1..Len(window)} \cup rest
      /\ {window[j] : j \in 1..Len(window)} \cap rest = {}
      /\ \A m, n \in 1..Len(window) : window[m] = window[n] => m = n
    BY FaultTypes, WindowOfBehind DEF IInv, FaultsInv, EachOnce
<1>5. Len(window) = 0 => Len(Served) <= offset
    <2>1. /\ Served \in Seq(Assets) /\ offset \in Nat
          /\ state.page_size \in Nat \ {0}
        BY FaultTypes DEF IInv
    <2>2. QED
        BY <2>1, WindowPlace
<1>6. Served' = population \/ Served' = Served
    BY <1>1 DEF NextCursor, Served
<1>7. offset + Len(page') \in Nat
    BY <1>3, FaultTypes DEF IInv
<1>8. /\ ~inserted => RowsBehind(Served', offset + Len(page')) \subseteq
                         RowsBehind(Served, offset + Len(page'))
      /\ ~deleted => RowsBehind(Served, offset + Len(page')) \subseteq
                        RowsBehind(Served', offset + Len(page'))
    BY <1>6, <1>7 DEF FaultsInv, CursorBehind
<1> HIDE DEF offset, window
<1>9. rest = RowsBehind(Served, offset + Len(page'))
    BY <1>2
<1>10. Ahead' = RowsBehind(Served', offset + Len(page')) /\ Ahead = RowsBehind(Served, offset)
    BY <1>3 DEF Ahead, offset
<1>11. OnPage' = {window[j] : j \in 1..Len(window)}
    BY <1>2, <1>3 DEF OnPage, RowsBehind
<1> HIDE DEF rest
<1>12. OnPage = {}
    <2>1. next = Len(page)
        BY <1>1 DEF IInv, Consumed
    <2>2. QED
        BY <2>1, FaultTypes DEF IInv, OnPage, RowsBehind
<1>13. HandedOver' = HandedOver
    BY <1>1 DEF HandedOver
<1>14. page' = << >> => Ahead = {}
    <2>1. page' = << >> => Len(window) = 0
        BY <1>2, EmptySeq
    <2>2. Len(Served) \in Nat /\ offset \in Nat
        BY FaultTypes, LenProperties DEF IInv, offset
    <2>3. QED
        BY <1>5, <1>10, <2>1, <2>2 DEF RowsBehind
<1>15. \A m, n \in (next' + 1)..Len(page') : page'[m] = page'[n] => m = n
    BY <1>2, <1>3, <1>4
<1>16. QED
    BY <1>4, <1>8, <1>9, <1>10, <1>11, <1>12, <1>13, <1>14, <1>15

\* A page keeps what has come apart from what is to come.
LEMMA FaultsOfPage ==
    ASSUME IInv, WindowInv, FaultsInv, NEW i \in Nat, FetchPage(i), args' = args
    PROVE  FaultsInv'
<1>1. /\ cursor' = NextCursor /\ started'
      /\ base' = (IF started THEN base ELSE Served)
      /\ malformed' = (IF i # 0 THEN malformed + 1 ELSE malformed)
      /\ UNCHANGED <<population, seen, inserted, deleted>>
    BY DEF FetchPage
<1>2. malformed' = 0 => malformed = 0
    BY <1>1, FaultTypes DEF IInv
<1>3. Served' = population \/ Served' = Served
    BY <1>1 DEF NextCursor, Served
<1>4. EachOnce' /\ CursorBehind' /\ NoBaseYet'
    BY <1>1, <1>3 DEF FaultsInv, EachOnce, CursorBehind, NoBaseYet
<1>5. ASSUME malformed' = 0
      PROVE  /\ OnPage = {} /\ HandedOver' = HandedOver
             /\ OnPage' \subseteq Ahead
             /\ \A m, n \in (next' + 1)..Len(page') : page'[m] = page'[n] => m = n
             /\ ~inserted => Ahead' \subseteq Ahead /\ OnPage' \cap Ahead' = {}
             /\ ~deleted  => Ahead \subseteq OnPage' \cup Ahead'
             /\ page' = << >> /\ ~deleted => Ahead = {}
    BY <1>5, PageTakesAhead
<1>6. ComesOnce'
    <2> SUFFICES ASSUME malformed' = 0, ~inserted
                 PROVE  /\ IsInjective(seen)
                        /\ HandedOver' \cap OnPage' = {}
                        /\ (HandedOver' \cup OnPage') \cap Ahead' = {}
        BY <1>1, <1>5 DEF ComesOnce
    <2>1. IsInjective(seen) /\ HandedOver \cap Ahead = {}
        BY <1>2 DEF FaultsInv, ComesOnce
    <2>2. QED
        BY <1>5, <2>1
<1>7. ASSUME malformed' = 0, ~deleted
      PROVE  Wanted' \subseteq HandedOver \cup Ahead
    <2>1. CASE started
        <3>1. Wanted' = Wanted
            BY <1>1, <2>1 DEF Wanted
        <3>2. QED
            BY <1>2, <1>5, <1>7, <2>1, <3>1 DEF FaultsInv, NoneMissed
    <2>2. CASE ~started
        <3>1. state.rows_offset = StartOf(args)
            <4>1. Len(page) = 0 /\ Len(seen) = 0 /\ next = 0
                BY <2>2, EmptySeq, FaultTypes DEF IInv, WindowInv, Fresh
            <4>2. QED
                BY <4>1, FaultTypes DEF IInv, Accounting
        <3>2. Wanted' = Ahead
            BY <1>1, <2>2, <3>1 DEF Wanted, Ahead
        <3>3. QED
            BY <3>2
    <2>3. QED
        BY <2>1, <2>2
<1>8. NoneMissed' /\ AllCame'
    BY <1>1, <1>5, <1>7 DEF NoneMissed, AllCame
<1>9. QED
    BY <1>4, <1>6, <1>8 DEF FaultsInv

\* A row that is taken leaves the page for the callbacks.
LEMMA FaultsOfRow ==
    ASSUME IInv, WindowInv, FaultsInv, TakeRow, args' = args,
           UNCHANGED <<page, cursor, population, started, base,
                       malformed, inserted, deleted>>
    PROVE  FaultsInv'
<1>1. /\ Row \in Assets /\ Row = page[next + 1] /\ next' = next + 1 /\ next < Len(page)
      /\ state'.rows_offset = state.rows_offset /\ seen' = Append(seen, Row)
    BY TakeRowTypes DEF IInv, Row, TakeRow
<1>2. /\ page \in Seq(Assets) /\ next \in Nat /\ seen \in Seq(Assets)
      /\ Len(page) \in Nat /\ page # << >>
    BY <1>1, EmptySeq, FaultTypes DEF IInv
<1>3. Served' = Served
    BY DEF Served
<1>4. UNCHANGED <<Ahead, Wanted>>
    BY <1>1, <1>3 DEF Ahead, Wanted
<1>5. HandedOver' = HandedOver \cup {Row}
      /\ (IsInjective(seen) /\ Row \notin HandedOver => IsInjective(seen'))
    BY <1>1, <1>2, AppendRows DEF HandedOver
<1>6. /\ OnPage = OnPage' \cup {Row}
      /\ (\A i, j \in (next + 1)..Len(page) : page[i] = page[j] => i = j) =>
            Row \notin OnPage'
    BY <1>1, <1>2, NextOfBehind DEF OnPage
<1>7. EachOnce' /\ CursorBehind' /\ NoBaseYet'
    BY <1>3 DEF FaultsInv, EachOnce, CursorBehind, NoBaseYet
<1>8. ComesOnce'
    <2> SUFFICES ASSUME malformed = 0, ~inserted
                 PROVE  /\ IsInjective(seen')
                        /\ \A i, j \in (next' + 1)..Len(page) : page[i] = page[j] => i = j
                        /\ HandedOver' \cap OnPage' = {}
                        /\ (HandedOver' \cup OnPage') \cap Ahead' = {}
        BY DEF ComesOnce
    <2>1. /\ IsInjective(seen)
          /\ \A i, j \in (next + 1)..Len(page) : page[i] = page[j] => i = j
          /\ HandedOver \cap OnPage = {}
          /\ (HandedOver \cup OnPage) \cap Ahead = {}
        BY DEF FaultsInv, ComesOnce
    <2>2. Row \notin OnPage'
        BY <1>6, <2>1
    <2>3. IsInjective(seen')
        BY <1>5, <1>6, <2>1
    <2>4. \A i, j \in (next' + 1)..Len(page) : page[i] = page[j] => i = j
        BY <1>1, <1>2, <2>1
    <2>5. HandedOver' \cap OnPage' = {}
        BY <1>5, <1>6, <2>1, <2>2
    <2>6. (HandedOver' \cup OnPage') \cap Ahead' = {}
        BY <1>4, <1>5, <1>6, <2>1
    <2>7. QED
        BY <2>3, <2>4, <2>5, <2>6
<1>9. NoneMissed' /\ AllCame'
    BY <1>2, <1>4, <1>5, <1>6 DEF FaultsInv, NoneMissed, AllCame
<1>10. QED
    BY <1>7, <1>8, <1>9 DEF FaultsInv

\* Assets that appear or disappear only push others away from the offset or pull
\* them towards it, in the population; a cursor's result is not touched.
LEMMA FaultsOfServer ==
    ASSUME IInv, WindowInv, FaultsInv, AssetAppears \/ AssetDisappears
    PROVE  FaultsInv'
<1>0. /\ population \in Seq(Assets) /\ state.rows_offset \in Nat
      /\ Len(seen) \in Nat /\ Len(page) \in Nat /\ next \in 0..Len(page)
    BY FaultTypes DEF IInv
<1>1. /\ UNCHANGED <<args, state, page, next, cursor, started, base, seen, malformed>>
      /\ pc \in {"count", "fetch"}
    BY DEF AssetAppears, AssetDisappears, ServerMayChange, callbackVars
<1>2. HandedOver' = HandedOver /\ OnPage' = OnPage /\ Wanted' = Wanted
    BY <1>1 DEF HandedOver, OnPage, Wanted
<1>3. IF cursor = << >> THEN Served = population /\ Served' = population'
                       ELSE Served' = Served
    BY <1>1 DEF Served
<1>4. ~started => /\ HandedOver = {} /\ OnPage = {} /\ cursor = << >>
                  /\ Len(seen) = 0 /\ Len(page) = 0 /\ base = << >>
                  /\ ~inserted /\ ~deleted
    <2>1. ~started => /\ cursor = << >> /\ Len(seen) = 0 /\ Len(page) = 0
                      /\ base = << >> /\ ~inserted /\ ~deleted
        BY EmptySeq DEF WindowInv, Fresh, FaultsInv, NoBaseYet
    <2>2. QED
        BY <1>0, <2>1 DEF HandedOver, OnPage, RowsBehind
<1>5. CASE AssetDisappears
    <2>1. PICK i \in 1..Len(population) : population' = RemoveAt(population, i)
        BY <1>5 DEF AssetDisappears
    <2>2. inserted' = inserted /\ deleted' = (deleted \/ started)
        BY <1>5 DEF AssetDisappears
    <2>3. \A r \in Nat : RowsBehind(population', r) \subseteq RowsBehind(population, r)
        BY <1>0, <2>1, BehindRemoveAt
    <2>4. IsInjective(population')
        BY <1>0, <2>1, RemoveAtDistinct DEF FaultsInv, EachOnce
    <2>5. EachOnce'
        BY <1>3, <2>4 DEF FaultsInv, EachOnce
    <2>6. CursorBehind'
        <3>1. CASE cursor = << >>
            BY <1>3, <3>1 DEF CursorBehind
        <3>2. CASE cursor # << >>
            <4>1. started
                BY <1>4, <3>2
            <4>2. deleted'
                BY <2>2, <4>1
            <4>3. QED
                BY <1>3, <2>2, <2>3, <3>2, <4>2 DEF FaultsInv, CursorBehind
        <3>3. QED
            BY <3>1, <3>2
    <2>7. Ahead' \subseteq Ahead
        BY <1>0, <1>1, <1>3, <2>3 DEF Ahead
    <2>8. ComesOnce'
        BY <1>1, <1>2, <2>2, <2>7 DEF FaultsInv, ComesOnce
    <2>9. started => deleted'
        BY <2>2
    <2>10. NoBaseYet' /\ NoneMissed' /\ AllCame'
        BY <1>1, <1>4, <2>2, <2>9, Zenon DEF NoBaseYet, NoneMissed, AllCame
    <2>11. QED
        BY <2>5, <2>6, <2>8, <2>10 DEF FaultsInv
<1>6. CASE AssetAppears
    <2>1. PICK a \in Assets, i \in 1..(Len(population) + 1) :
              ~Contains(population, a) /\ population' = InsertAt(population, i, a)
        BY <1>6 DEF AssetAppears
    <2>2. deleted' = deleted /\ inserted' = (inserted \/ started)
        BY <1>6 DEF AssetAppears
    <2>3. \A r \in Nat : RowsBehind(population, r) \subseteq RowsBehind(population', r)
        BY <1>0, <2>1, BehindInsertAt
    <2>4. IsInjective(population')
        BY <1>0, <2>1, InsertAtDistinct DEF FaultsInv, EachOnce
    <2>5. EachOnce'
        BY <1>3, <2>4 DEF FaultsInv, EachOnce
    <2>6. CursorBehind'
        <3>1. CASE cursor = << >>
            BY <1>3, <3>1 DEF CursorBehind
        <3>2. CASE cursor # << >>
            <4>1. started
                BY <1>4, <3>2
            <4>2. inserted'
                BY <2>2, <4>1
            <4>3. QED
                BY <1>3, <2>2, <2>3, <3>2, <4>2 DEF FaultsInv, CursorBehind
        <3>3. QED
            BY <3>1, <3>2
    <2>7. Ahead \subseteq Ahead'
        BY <1>0, <1>1, <1>3, <2>3 DEF Ahead
    <2>8. NoneMissed' /\ AllCame'
        BY <1>1, <1>2, <2>2, <2>7 DEF FaultsInv, NoneMissed, AllCame
    <2>9. ComesOnce'
        <3>1. CASE started
            <4>1. inserted'
                BY <2>2, <3>1
            <4>2. QED
                BY <4>1 DEF ComesOnce
        <3>2. CASE ~started
            BY <1>1, <1>2, <1>4, <3>2 DEF FaultsInv, ComesOnce
        <3>3. QED
            BY <3>1, <3>2
    <2>10. NoBaseYet'
        BY <1>1, <1>4, <2>2, Zenon DEF NoBaseYet
    <2>11. QED
        BY <2>5, <2>6, <2>8, <2>9, <2>10 DEF FaultsInv
<1>7. QED
    BY <1>5, <1>6

\* Every step keeps what has come apart from what is to come.
LEMMA FaultsNext ==
    ASSUME IInv, WindowInv, FaultsInv, [Next]_vars
    PROVE  FaultsInv'
<1>0. args' = args
    BY DisturbedForGood DEF IInv
<1>1. ASSUME NEW i \in 0..state.page_size, FetchPage(i)
      PROVE  FaultsInv'
    <2>1. i \in Nat
        BY FaultTypes DEF IInv
    <2>2. QED
        BY <1>0, <1>1, <2>1, FaultsOfPage
<1>2. CASE (\E keep \in Keeps : ProcessRow(keep)) \/ StopTable \/ RowFails
    <2>1. TakeRow /\ UNCHANGED <<page, cursor, population, started, base,
                                 malformed, inserted, deleted>>
        BY <1>2 DEF ProcessRow, StopTable, RowFails
    <2>2. QED
        BY <1>0, <2>1, FaultsOfRow
<1>3. CASE AssetAppears \/ AssetDisappears
    BY <1>3, FaultsOfServer
<1>4. CASE \/ CountPending \/ CountDone \/ StartCallbacks \/ StartRefused
           \/ RequestFails \/ Resume \/ Abandon \/ ProcessLoop
           \/ TagAdd \/ TagRemove \/ Close \/ UNCHANGED vars
    <2>1. UNCHANGED <<state, page, next, cursor, population, started, base, seen,
                      malformed, inserted, deleted>>
        BY <1>4 DEF CountPending, CountDone, StartCallbacks, StartRefused,
           RequestFails, Resume, Abandon, ProcessLoop, TagAdd, TagRemove, Close,
           vars, fetchVars, historyVars
    <2>2. UNCHANGED <<Served, HandedOver, OnPage, Wanted>>
        BY <1>0, <2>1 DEF Served, HandedOver, OnPage, Wanted
    <2>3. UNCHANGED Ahead
        BY <2>1, <2>2 DEF Ahead
    <2>4. NoBaseYet' /\ CursorBehind' /\ EachOnce'
        BY <2>1, <2>2 DEF FaultsInv, NoBaseYet, CursorBehind, EachOnce
    <2>5. ComesOnce' /\ NoneMissed' /\ AllCame'
        BY <2>1, <2>2, <2>3 DEF FaultsInv, ComesOnce, NoneMissed, AllCame
    <2>6. QED
        BY <2>4, <2>5 DEF FaultsInv
<1>5. QED
    BY <1>1, <1>2, <1>3, <1>4 DEF Next, Client, Server, Ended

\* What the invariant says of a fetch that came to the end of the rows.
LEMMA FaultsAreExplained ==
    ASSUME IInv, FaultsInv
    PROVE  FaultsExplained
<1>1. malformed = 0 /\ ~inserted => IsInjective(seen)
    BY DEF FaultsInv, ComesOnce
<1>2. ASSUME malformed = 0, ~deleted, page = << >>,
             NEW k \in (StartOf(args) + 1)..Len(base)
      PROVE  Contains(seen, base[k])
    <2>1. started
        <3>1. CASE ~started
            <4>1. Len(base) = 0 /\ StartOf(args) \in Nat
                BY <3>1, EmptySeq, FaultTypes DEF IInv, FaultsInv, NoBaseYet
            <4>2. QED
                BY <4>1
        <3>2. QED
            BY <3>1
    <2>2. base[k] \in Wanted
        BY DEF Wanted, RowsBehind
    <2>3. base[k] \in HandedOver
        BY <1>2, <2>1, <2>2 DEF FaultsInv, AllCame
    <2>4. QED
        BY <2>3 DEF HandedOver, RowsBehind, Contains
<1>3. QED
    BY <1>1, <1>2 DEF FaultsExplained

\* However the population changes under a fetch, by offset, by cursor or by both
\* in turn, a row only comes twice when an asset has appeared since the first
\* page, and a row that was wanted is only missing at the end when one has
\* disappeared (process_page and "request_obj.cursor_id = page.cursor").
THEOREM FetchFaults == Spec => []FaultsExplained
<1>1. Init => IInv /\ WindowInv /\ FaultsInv
    BY IInvInit, WindowInit, FaultsInit
<1>2. IInv /\ WindowInv /\ FaultsInv /\ [Next]_vars => IInv' /\ WindowInv' /\ FaultsInv'
    BY TypeNext, FileNext, AccountingNext, WindowNext, FaultsNext DEF IInv
<1>3. IInv /\ FaultsInv => FaultsExplained
    BY FaultsAreExplained
<1>4. QED
    BY <1>1, <1>2, <1>3, PTL DEF Spec

=============================================================================
