----------------------------- MODULE PagingProofs -----------------------------
(***************************************************************************)
(* Theorems about PagingState, for every set of rows, every family of      *)
(* arguments and populations, and however often the server's rows change.  *)
(***************************************************************************)
EXTENDS PagingState, PagingLemmas

-----------------------------------------------------------------------------
(* The inductive invariant: the counters.                                  *)

\* The size of a page is fixed when the paging begins.
PageSizeKept == page_size = PageSizeOf(args)

\* Where the for loop stands in its page: behind the last row when the next page
\* is requested, before a row when it goes on with one.
LoopPosition ==
    /\ pc = "page" => taken = Len(response)
    /\ pc = "rows" => taken < Len(response)
    /\ pc \in {"rows", "yielded", "abandoned"} => opened
    /\ taken <= Len(yielded)

\* Behind check_stop there is room for the next row: without it the limit does
\* not survive YieldRow.
RoomForRow == pc = "rows" => ~RowStopReached

\* The counter check_stop reads is that of the rows handed over.
YieldedCounted == rows_yielded_total = Len(yielded)

CountInv ==
    /\ PagingTypeOK
    /\ PageSizeKept
    /\ LoopPosition
    /\ RoomForRow
    /\ YieldedCounted
    /\ OffsetFollowsCaller

-----------------------------------------------------------------------------
\* What the arguments are.
LEMMA ArgumentTypes ==
    ASSUME args \in Arguments
    PROVE  /\ args.page_size \in Nat \ {0} /\ args.row_start \in Nat
           /\ args.row_stop \in Int /\ (args.row_stop # -1 => args.row_stop \in Nat)
BY PagingAssumption

\* A page that is requested asks for at least one row.
LEMMA RequestedSize ==
    ASSUME CountInv, ~RowStopReached
    PROVE  page_size \in Nat \ {0}
<1>1. rows_yielded_total \in Nat /\ args \in Arguments
    BY DEF CountInv, PagingTypeOK
<1>2. QED
    BY <1>1, ArgumentTypes DEF CountInv, PageSizeKept, PageSizeOf, RowStopReached

\* The lengths that the proofs below calculate with are natural numbers.
LEMMA LengthTypes ==
    ASSUME PagingTypeOK
    PROVE  /\ Len(response) \in Nat /\ Len(yielded) \in Nat /\ Len(base) \in Nat
           /\ Len(population) \in Nat /\ taken \in Nat /\ taken <= Len(response)
           /\ args.row_start \in Nat
BY LenProperties, ArgumentTypes DEF PagingTypeOK

\* The counters start out right.
LEMMA CountInit == PagingInit => CountInv
<1> SUFFICES ASSUME PagingInit PROVE CountInv
    OBVIOUS
<1>1. args \in Arguments /\ population \in Seq(Rows)
    BY PagingAssumption DEF PagingInit
<1>2. /\ response \in Seq(Rows) /\ Len(response) = 0
      /\ yielded \in Seq(Rows) /\ Len(yielded) = 0
      /\ base \in Seq(Rows)
    BY EmptySeq DEF PagingInit
<1>3. page_size \in 0..args.page_size
    BY <1>1, ArgumentTypes DEF PagingInit, PageSizeOf
<1>4. PagingTypeOK
    <2>1. args.row_start \in Nat
        BY <1>1, ArgumentTypes
    <2>2. taken \in 0..Len(response)
        BY <1>2 DEF PagingInit
    <2>3. QED
        BY <1>1, <1>2, <1>3, <2>1, <2>2 DEF PagingInit, PagingTypeOK
<1>5. OffsetFollowsCaller
    BY <1>1, <1>2, ArgumentTypes DEF PagingInit, OffsetFollowsCaller
<1>6. QED
    BY <1>2, <1>4, <1>5
       DEF PagingInit, CountInv, PageSizeKept, LoopPosition, RoomForRow,
           YieldedCounted

\* The page that RequestPage receives, when it has rows and when it has none.
LEMMA PageReceived ==
    ASSUME CountInv, RequestPage
    PROVE  /\ response' = Window(population, row_number, page_size)
           /\ response' \in Seq(Rows) /\ Len(response') \in Nat
           /\ \A j \in 1..Len(response') :
                 /\ row_number + j <= Len(population)
                 /\ response'[j] = population[row_number + j]
           /\ response' = << >> => Len(population) <= row_number /\ pc' = "stopped"
           /\ response' # << >> => Len(response') > 0 /\ pc' = "rows"
           /\ base' = (IF opened THEN base ELSE population)
<1>1. population \in Seq(Rows) /\ row_number \in Nat /\ page_size \in Nat \ {0}
    BY RequestedSize DEF CountInv, PagingTypeOK, RequestPage
<1>2. response' = Window(population, row_number, page_size)
    BY DEF RequestPage, Offset
<1>3. /\ response' \in Seq(Rows) /\ Len(response') \in Nat
      /\ \A j \in 1..Len(response') :
            /\ row_number + j <= Len(population)
            /\ response'[j] = population[row_number + j]
      /\ Len(response') = 0 => Len(population) <= row_number
    BY <1>1, <1>2, WindowProperties
<1>4. /\ response' = << >> => Len(response') = 0
      /\ response' # << >> => Len(response') > 0
    BY <1>3, EmptySeq
<1>5. /\ pc' = IF response' = << >> THEN "stopped" ELSE "rows"
      /\ base' = (IF opened THEN base ELSE population)
    BY <1>2 DEF RequestPage, NoRowsReturned, StopFetch, Offset
<1>6. QED
    BY <1>2, <1>3, <1>4, <1>5

\* The row that is yielded is one, and the counters move on by it.
LEMMA RowYielded ==
    ASSUME CountInv, YieldRow
    PROVE  /\ Row \in Rows /\ Row = response[taken + 1]
           /\ taken + 1 \in 1..Len(response) /\ taken' = taken + 1
           /\ row_number' = row_number + 1
           /\ rows_yielded_total' = rows_yielded_total + 1
           /\ yielded' = Append(yielded, Row) /\ yielded' \in Seq(Rows)
           /\ Len(yielded') = Len(yielded) + 1
           /\ \A k \in 1..Len(yielded) : yielded'[k] = yielded[k]
           /\ yielded'[Len(yielded) + 1] = Row
<1>1. taken + 1 \in 1..Len(response) /\ response \in Seq(Rows) /\ yielded \in Seq(Rows)
    BY LengthTypes DEF CountInv, LoopPosition, YieldRow, Goto, PagingTypeOK
<1>2. Row \in Rows
    BY <1>1, ElementOfSeq DEF Row
<1>3. /\ taken' = taken + 1 /\ row_number' = row_number + 1
      /\ rows_yielded_total' = rows_yielded_total + 1
      /\ yielded' = Append(yielded, Row)
    BY DEF YieldRow, HandleRow
<1>4. /\ Append(yielded, Row) \in Seq(Rows)
      /\ Len(Append(yielded, Row)) = Len(yielded) + 1
      /\ \A k \in 1..Len(yielded) : Append(yielded, Row)[k] = yielded[k]
      /\ Append(yielded, Row)[Len(yielded) + 1] = Row
    BY <1>1, <1>2, AppendProperties
<1>5. QED
    BY <1>1, <1>2, <1>3, <1>4 DEF Row

\* What becomes of the server's rows in a step of the server.
LEMMA ServerStep ==
    ASSUME PagingTypeOK, RowAppears \/ RowDisappears
    PROVE  /\ population' \in Seq(Rows) /\ changes' \in Nat
           /\ pc = "page" /\ UNCHANGED <<pagingVars, opened, base, yielded>>
           /\ inserted' \in BOOLEAN /\ deleted' \in BOOLEAN
           /\ opened => inserted' \/ deleted'
<1>1. ServerMayChange
    BY DEF RowAppears, RowDisappears
<1>2. changes' \in Nat /\ pc = "page"
      /\ UNCHANGED <<pagingVars, opened, base, yielded>>
    BY <1>1 DEF PagingTypeOK, ServerMayChange
<1>3. population' \in Seq(Rows)
    <2>1. CASE RowAppears
        BY <2>1, InsertAtProperties DEF PagingTypeOK, RowAppears
    <2>2. CASE RowDisappears
        BY <2>2, RemoveAtProperties DEF PagingTypeOK, RowDisappears
    <2>3. QED
        BY <2>1, <2>2
<1>4. inserted' \in BOOLEAN /\ deleted' \in BOOLEAN
    BY Zenon DEF PagingTypeOK, RowAppears, RowDisappears
<1>5. opened => inserted' \/ deleted'
    BY DEF RowAppears, RowDisappears
<1>6. QED
    BY <1>2, <1>3, <1>4, <1>5

\* Every step keeps the counters right.
LEMMA CountNext ==
    ASSUME CountInv, [PagingNext]_vars
    PROVE  CountInv'
<1>0. /\ Len(response) \in Nat /\ Len(yielded) \in Nat /\ taken \in Nat
      /\ taken <= Len(response) /\ args.row_start \in Nat
      /\ row_number \in Nat /\ rows_yielded_total \in Nat
      /\ rows_fetched_total \in Nat
      /\ args.row_stop \in Int /\ (args.row_stop # -1 => args.row_stop \in Nat)
    BY LengthTypes, ArgumentTypes DEF CountInv, PagingTypeOK
<1>1. CASE RequestPage
    <2>1. /\ response' \in Seq(Rows) /\ Len(response') \in Nat
          /\ pc' \in {"stopped", "rows"}
          /\ pc' = "rows" => Len(response') > 0
          /\ pc' = "stopped" => response' = << >>
          /\ base' \in Seq(Rows)
        BY <1>1, PageReceived DEF CountInv, PagingTypeOK
    <2>2. /\ UNCHANGED <<args, page_size, row_number, rows_yielded_total>>
          /\ UNCHANGED <<population, changes, yielded, inserted, deleted>>
          /\ taken' = 0 /\ opened' = TRUE
          /\ rows_fetched_total' = rows_fetched_total + Len(response')
          /\ ~RowStopReached /\ pc = "page"
        BY <1>1 DEF RequestPage, serverVars
    <2>3. stop_paging' \in BOOLEAN
        BY <1>1 DEF RequestPage, StopFetch, CountInv, PagingTypeOK
    <2>4. PagingTypeOK'
        BY <1>0, <2>1, <2>2, <2>3 DEF CountInv, PagingTypeOK
    <2>5. LoopPosition'
        BY <1>0, <2>1, <2>2 DEF LoopPosition
    <2>6. RoomForRow' /\ PageSizeKept' /\ YieldedCounted'
        BY <2>2 DEF CountInv, RoomForRow, PageSizeKept, YieldedCounted,
           RowStopReached, PageSizeOf
    <2>7. OffsetFollowsCaller'
        <3>1. taken = Len(response)
            BY <2>2 DEF CountInv, LoopPosition
        <3>2. QED
            BY <1>0, <2>1, <2>2, <3>1 DEF CountInv, OffsetFollowsCaller
    <2>8. QED
        BY <2>4, <2>5, <2>6, <2>7 DEF CountInv
<1>2. CASE YieldRow
    <2>1. /\ taken' = taken + 1 /\ taken' <= Len(response)
          /\ row_number' = row_number + 1
          /\ rows_yielded_total' = rows_yielded_total + 1
          /\ yielded' \in Seq(Rows) /\ Len(yielded') = Len(yielded) + 1
        BY <1>0, <1>2, RowYielded
    <2>2. /\ pc = "rows" /\ pc' = "yielded"
          /\ UNCHANGED <<args, page_size, rows_fetched_total, stop_paging, response>>
          /\ UNCHANGED <<population, changes, opened, base, inserted, deleted>>
        BY <1>2 DEF YieldRow, Goto, serverVars
    <2>3. PagingTypeOK'
        BY <1>0, <2>1, <2>2 DEF CountInv, PagingTypeOK
    <2>4. LoopPosition'
        BY <1>0, <2>1, <2>2 DEF CountInv, LoopPosition
    <2>5. RoomForRow' /\ PageSizeKept' /\ YieldedCounted'
        BY <2>1, <2>2 DEF CountInv, RoomForRow, PageSizeKept, YieldedCounted,
           PageSizeOf
    <2>6. OffsetFollowsCaller'
        <3>1. args.row_stop # -1 => Len(yielded) < args.row_stop
            BY <1>0, <2>2 DEF CountInv, RoomForRow, YieldedCounted, RowStopReached
        <3>2. row_number' = args'.row_start + Len(yielded')
            BY <1>0, <2>1, <2>2 DEF CountInv, OffsetFollowsCaller
        <3>3. rows_fetched_total' = Len(yielded') + Len(response') - taken'
            BY <1>0, <2>1, <2>2 DEF CountInv, OffsetFollowsCaller
        <3>4. args'.row_stop # -1 => Len(yielded') <= args'.row_stop
            BY <1>0, <2>1, <2>2, <3>1 DEF CountInv, PagingTypeOK
        <3>5. QED
            BY <2>2, <3>2, <3>3, <3>4 DEF OffsetFollowsCaller
    <2>7. QED
        BY <2>3, <2>4, <2>5, <2>6 DEF CountInv
<1>3. ASSUME UNCHANGED <<args, page_size, row_number, rows_fetched_total,
                         rows_yielded_total, response, taken, opened, base, yielded>>,
             pc' \in {"page", "rows", "yielded", "stopped", "failed", "abandoned"},
             stop_paging' \in BOOLEAN, population' \in Seq(Rows), changes' \in Nat,
             inserted' \in BOOLEAN, deleted' \in BOOLEAN,
             pc' = "page" => taken = Len(response),
             pc' = "rows" => taken < Len(response) /\ ~RowStopReached,
             pc' \in {"rows", "yielded", "abandoned"} => opened,
             pc' = "stopped" => RowStopReached \/ pc = "stopped"
      PROVE  CountInv'
    <2>1. PagingTypeOK'
        BY <1>3 DEF CountInv, PagingTypeOK
    <2>2. LoopPosition'
        BY <1>3 DEF CountInv, LoopPosition
    <2>3. RoomForRow' /\ PageSizeKept' /\ YieldedCounted'
        BY <1>3 DEF CountInv, RoomForRow, PageSizeKept, YieldedCounted,
           RowStopReached, PageSizeOf
    <2>4. OffsetFollowsCaller'
        BY <1>0, <1>3 DEF CountInv, OffsetFollowsCaller, RowStopReached, YieldedCounted
    <2>5. QED
        BY <2>1, <2>2, <2>3, <2>4 DEF CountInv
<1> DEFINE Others == UNCHANGED <<args, page_size, row_number, rows_fetched_total,
                         rows_yielded_total, response, taken, opened, base, yielded>>
<1>4. CASE StopBeforeRequest
    <2>1. /\ Others /\ pc' = "stopped" /\ RowStopReached /\ stop_paging' = TRUE
          /\ UNCHANGED <<population, changes, inserted, deleted>>
        BY <1>4 DEF StopBeforeRequest, StopFetch, serverVars, historyVars
    <2>2. QED
        BY <1>3, <2>1 DEF CountInv, PagingTypeOK
<1>5. CASE Resume
    <2>1. /\ Others /\ pc = "yielded"
          /\ UNCHANGED <<population, changes, inserted, deleted>>
          /\ IF RowStopReached
             THEN pc' = "stopped" /\ stop_paging' = TRUE
             ELSE /\ pc' = IF taken < Len(response) THEN "rows" ELSE "page"
                  /\ stop_paging' = stop_paging
        BY <1>5 DEF Resume, StopFetch, serverVars, historyVars
    <2>2. opened
        BY <2>1 DEF CountInv, LoopPosition
    <2>3. /\ population' \in Seq(Rows) /\ changes' \in Nat
          /\ inserted' \in BOOLEAN /\ deleted' \in BOOLEAN
          /\ stop_paging' \in BOOLEAN
        BY <2>1 DEF CountInv, PagingTypeOK
    <2>4. CASE RowStopReached
        BY <1>3, <2>1, <2>2, <2>3, <2>4
    <2>5. CASE ~RowStopReached /\ taken < Len(response)
        BY <1>3, <2>1, <2>2, <2>3, <2>5
    <2>6. CASE ~RowStopReached /\ ~(taken < Len(response))
        <3>1. taken = Len(response)
            BY <1>0, <2>6
        <3>2. QED
            BY <1>3, <2>1, <2>2, <2>3, <2>6, <3>1
    <2>7. QED
        BY <2>4, <2>5, <2>6
<1>6. CASE RequestFails \/ Abandon
    <2>1. /\ Others
          /\ pc' = "failed" \/ (pc' = "abandoned" /\ pc = "yielded")
          /\ UNCHANGED <<stop_paging, population, changes, inserted, deleted>>
        BY <1>6 DEF RequestFails, Abandon, Goto, serverVars, historyVars
    <2>2. pc' = "abandoned" => opened
        BY <2>1 DEF CountInv, LoopPosition
    <2>3. QED
        BY <1>3, <2>1, <2>2 DEF CountInv, PagingTypeOK
<1>7. CASE RowAppears \/ RowDisappears
    <2>1. /\ Others /\ pc' = pc /\ pc = "page" /\ stop_paging' = stop_paging
          /\ population' \in Seq(Rows) /\ changes' \in Nat
          /\ inserted' \in BOOLEAN /\ deleted' \in BOOLEAN
        BY <1>7, ServerStep DEF CountInv, pagingVars
    <2>2. QED
        BY <1>3, <2>1 DEF CountInv, PagingTypeOK, LoopPosition
<1>8. CASE UNCHANGED vars
    <2>1. Others /\ UNCHANGED <<pc, stop_paging, population, changes, inserted, deleted>>
        BY <1>8 DEF vars, pagingVars, serverVars, historyVars
    <2>2. QED
        BY <1>3, <2>1 DEF CountInv, PagingTypeOK, LoopPosition, RoomForRow
<1>9. QED
    BY <1>1, <1>2, <1>4, <1>5, <1>6, <1>7, <1>8
       DEF PagingNext, Client, Advance, Server, Ended

\* The counters are right throughout.
THEOREM Counting == PagingSpec => []CountInv
<1>1. PagingInit => CountInv
    BY CountInit
<1>2. CountInv /\ [PagingNext]_vars => CountInv'
    BY CountNext
<1>3. QED
    BY <1>1, <1>2, PTL DEF PagingSpec

\* Every variable of a paging keeps its type: pages and populations stay
\* sequences of rows, and no page asks for more rows than its caller wants.
THEOREM PagingTypeCorrect == PagingSpec => []PagingTypeOK
<1>1. CountInv => PagingTypeOK
    BY DEF CountInv
<1>2. QED
    BY <1>1, Counting, PTL

\* row_number always stands right behind the last row the caller was given, what
\* was fetched ahead is what is left of the page, row_stop bounds the rows given,
\* and a paging that stops has given that many or found no more (PagingState,
\* Page.rows, check_stop).
THEOREM OffsetFollows == PagingSpec => []OffsetFollowsCaller
<1>1. CountInv => OffsetFollowsCaller
    BY DEF CountInv
<1>2. QED
    BY <1>1, Counting, PTL

-----------------------------------------------------------------------------
(* The inductive invariant: the rows, while the server's do not change.      *)

\* Before the first page there is nothing to be consistent with.
Fresh ==
    ~opened => /\ response = << >> /\ yielded = << >> /\ base = << >>
               /\ ~inserted /\ ~deleted

\* An empty page is the last, and lies behind all the server holds.
LastPage ==
    opened /\ response = << >> =>
        pc = "stopped" /\ Len(population) <= row_number

\* What the server holds is what it held at the first page.
SameResult == opened /\ ~(inserted \/ deleted) => population = base

\* The page is the piece of it that begins where its first row was yielded.
PageInWindow ==
    ~(inserted \/ deleted) =>
        \A j \in 1..Len(response) :
            /\ row_number - taken + j <= Len(base)
            /\ response[j] = base[row_number - taken + j]

\* And the rows yielded are the rows of it from row_start on.
YieldedInWindow ==
    ~(inserted \/ deleted) =>
        \A k \in 1..Len(yielded) :
            /\ args.row_start + k <= Len(base)
            /\ yielded[k] = base[args.row_start + k]

WindowInv ==
    Fresh /\ LastPage /\ SameResult /\ PageInWindow /\ YieldedInWindow

-----------------------------------------------------------------------------
\* The arguments never change, and rows that appeared or disappeared have.
LEMMA DisturbedForGood ==
    ASSUME PagingTypeOK, [PagingNext]_vars
    PROVE  /\ args' = args /\ (opened => opened' /\ base' = base)
           /\ (inserted => inserted') /\ (deleted => deleted')
<1>1. CASE RequestPage
    BY <1>1 DEF RequestPage
<1>2. CASE YieldRow
    BY <1>2 DEF YieldRow
<1>3. CASE RowAppears \/ RowDisappears
    <2>1. args' = args /\ opened' = opened /\ base' = base
        BY <1>3 DEF RowAppears, RowDisappears, ServerMayChange, pagingVars
    <2>2. CASE RowAppears
        BY <2>1, <2>2 DEF RowAppears
    <2>3. CASE RowDisappears
        BY <2>1, <2>3 DEF RowDisappears
    <2>4. QED
        BY <1>3, <2>2, <2>3
<1>4. CASE StopBeforeRequest \/ RequestFails \/ Resume \/ Abandon
    BY <1>4 DEF StopBeforeRequest, RequestFails, Resume, Abandon, historyVars
<1>5. CASE UNCHANGED vars
    BY <1>5 DEF vars, pagingVars, historyVars
<1>6. QED
    BY <1>1, <1>2, <1>3, <1>4, <1>5
       DEF PagingNext, Client, Advance, Server, Ended

\* Nothing has come before the first request.
LEMMA WindowInit == PagingInit => WindowInv
<1> SUFFICES ASSUME PagingInit PROVE WindowInv
    OBVIOUS
<1>1. Len(response) = 0 /\ Len(yielded) = 0
    BY EmptySeq DEF PagingInit
<1>2. QED
    BY <1>1 DEF PagingInit, WindowInv, Fresh, LastPage, SameResult, PageInWindow,
       YieldedInWindow

\* A page is the next piece of what the server holds.
LEMMA WindowOfPage ==
    ASSUME CountInv, WindowInv, RequestPage
    PROVE  WindowInv'
<1>0. /\ Len(yielded) \in Nat /\ row_number \in Nat
      /\ UNCHANGED <<args, row_number, population, yielded, inserted, deleted>>
      /\ taken' = 0 /\ opened' = TRUE
    BY LengthTypes DEF CountInv, PagingTypeOK, RequestPage, serverVars
<1>1. /\ Len(response') \in Nat
      /\ \A j \in 1..Len(response') :
            /\ row_number + j <= Len(population)
            /\ response'[j] = population[row_number + j]
      /\ response' = << >> => Len(population) <= row_number /\ pc' = "stopped"
      /\ base' = (IF opened THEN base ELSE population)
    BY PageReceived
<1>2. ~(inserted \/ deleted) => base' = population
    BY <1>1 DEF WindowInv, SameResult
<1>3. Fresh' /\ SameResult'
    BY <1>0, <1>2 DEF Fresh, SameResult
<1>4. LastPage'
    BY <1>0, <1>1 DEF LastPage
<1>5. PageInWindow'
    <2> SUFFICES ASSUME ~(inserted \/ deleted), NEW j \in 1..Len(response')
                 PROVE  /\ row_number - 0 + j <= Len(base')
                        /\ response'[j] = base'[row_number - 0 + j]
        BY <1>0 DEF PageInWindow
    <2>1. row_number - 0 + j = row_number + j
        BY <1>0, <1>1
    <2>2. QED
        BY <1>1, <1>2, <2>1
<1>6. YieldedInWindow'
    <2>1. CASE opened
        <3>1. base' = base
            BY <1>1, <2>1
        <3>2. QED
            BY <1>0, <3>1 DEF WindowInv, YieldedInWindow
    <2>2. CASE ~opened
        <3>1. Len(yielded) = 0
            BY <2>2, EmptySeq DEF WindowInv, Fresh
        <3>2. QED
            BY <1>0, <3>1 DEF YieldedInWindow
    <2>3. QED
        BY <2>1, <2>2
<1>7. QED
    BY <1>3, <1>4, <1>5, <1>6 DEF WindowInv

\* The row that is yielded is the next one of it.
LEMMA WindowOfRow ==
    ASSUME CountInv, WindowInv, YieldRow
    PROVE  WindowInv'
<1>0. /\ Len(yielded) \in Nat /\ row_number \in Nat /\ taken \in Nat
      /\ Len(response) \in Nat /\ args.row_start \in Nat
      /\ row_number = args.row_start + Len(yielded)
      /\ opened /\ pc = "rows" /\ taken < Len(response)
    BY LengthTypes DEF CountInv, PagingTypeOK, OffsetFollowsCaller, LoopPosition,
       YieldRow, Goto
<1>1. /\ Row = response[taken + 1] /\ taken + 1 \in 1..Len(response)
      /\ taken' = taken + 1 /\ row_number' = row_number + 1
      /\ Len(yielded') = Len(yielded) + 1
      /\ \A k \in 1..Len(yielded) : yielded'[k] = yielded[k]
      /\ yielded'[Len(yielded) + 1] = Row
    BY RowYielded
<1>2. UNCHANGED <<args, response, population, opened, base, inserted, deleted>>
    BY DEF YieldRow, serverVars
<1>3. Fresh' /\ SameResult'
    BY <1>0, <1>2 DEF WindowInv, Fresh, SameResult
<1>4. LastPage'
    <2>1. response # << >>
        BY <1>0, EmptySeq
    <2>2. QED
        BY <1>2, <2>1 DEF LastPage
<1>5. PageInWindow'
    <2>1. (row_number + 1) - (taken + 1) = row_number - taken
        <3>1. row_number \in Nat /\ taken \in Nat
            BY <1>0
        <3>2. QED
            BY <3>1
    <2>2. QED
        BY <1>1, <1>2, <2>1 DEF WindowInv, PageInWindow
<1>6. YieldedInWindow'
    <2> SUFFICES ASSUME ~(inserted \/ deleted), NEW k \in 1..(Len(yielded) + 1)
                 PROVE  /\ args.row_start + k <= Len(base)
                        /\ yielded'[k] = base[args.row_start + k]
        BY <1>1, <1>2 DEF YieldedInWindow
    <2>1. CASE k \in 1..Len(yielded)
        BY <1>1, <2>1 DEF WindowInv, YieldedInWindow
    <2>2. CASE k = Len(yielded) + 1
        <3>1. row_number - taken + (taken + 1) = args.row_start + k
            <4>1. /\ row_number \in Nat /\ taken \in Nat /\ args.row_start \in Nat
                  /\ Len(yielded) \in Nat /\ row_number = args.row_start + Len(yielded)
                BY <1>0
            <4>2. row_number - taken + (taken + 1) = row_number + 1
                BY <4>1
            <4>3. row_number + 1 = args.row_start + (Len(yielded) + 1)
                BY <4>1
            <4>4. QED
                BY <2>2, <4>2, <4>3
        <3>2. QED
            BY <1>1, <2>2, <3>1 DEF WindowInv, PageInWindow
    <2>3. QED
        BY <1>0, <2>1, <2>2
<1>7. QED
    BY <1>3, <1>4, <1>5, <1>6 DEF WindowInv

\* Every step keeps the rows yielded within the one result they come from.
LEMMA WindowNext ==
    ASSUME CountInv, WindowInv, [PagingNext]_vars
    PROVE  WindowInv'
<1>1. CASE RequestPage
    BY <1>1, WindowOfPage
<1>2. CASE YieldRow
    BY <1>2, WindowOfRow
<1>3. ASSUME UNCHANGED <<args, row_number, response, taken, population, historyVars>>,
             pc' = "stopped" \/ (pc # "stopped")
      PROVE  WindowInv'
    <2>1. UNCHANGED <<opened, base, yielded, inserted, deleted>>
        BY <1>3 DEF historyVars
    <2>2. Fresh' /\ LastPage' /\ SameResult'
        BY <1>3, <2>1 DEF WindowInv, Fresh, LastPage, SameResult
    <2>3. PageInWindow' /\ YieldedInWindow'
        BY <1>3, <2>1 DEF WindowInv, PageInWindow, YieldedInWindow
    <2>4. QED
        BY <2>2, <2>3 DEF WindowInv
<1>4. CASE StopBeforeRequest \/ RequestFails \/ Resume \/ Abandon
    BY <1>3, <1>4 DEF StopBeforeRequest, RequestFails, Resume, Abandon, serverVars,
       Goto
<1>5. CASE UNCHANGED vars
    <2>1. WindowInv' <=> WindowInv
        BY <1>5 DEF vars, pagingVars, serverVars, historyVars, WindowInv, Fresh,
           LastPage, SameResult, PageInWindow, YieldedInWindow
    <2>2. QED
        BY <2>1
<1>6. CASE RowAppears \/ RowDisappears
    <2>1. /\ UNCHANGED <<args, pc, row_number, response, taken, opened, base, yielded>>
          /\ pc = "page"
          /\ opened => inserted' \/ deleted'
          /\ (inserted => inserted') /\ (deleted => deleted')
        BY <1>6, ServerStep, DisturbedForGood DEF CountInv, pagingVars
    <2>2. ~opened => ~inserted' /\ ~deleted'
        BY <1>6 DEF RowAppears, RowDisappears, WindowInv, Fresh
    <2>3. Fresh' /\ LastPage' /\ SameResult'
        BY <2>1, <2>2 DEF WindowInv, Fresh, LastPage, SameResult
    <2>4. PageInWindow' /\ YieldedInWindow'
        BY <2>1 DEF WindowInv, PageInWindow, YieldedInWindow
    <2>5. QED
        BY <2>3, <2>4 DEF WindowInv
<1>7. QED
    BY <1>1, <1>2, <1>4, <1>5, <1>6
       DEF PagingNext, Client, Advance, Server, Ended

-----------------------------------------------------------------------------
(* Every step is one of RowStream.                                         *)

\* The result a stream of rows stands for: what the server held at the first
\* page, from row_start on.
Requested ==
    IF opened THEN SubSeq(base, args.row_start + 1, Len(base)) ELSE << >>

\* Its rows, and how many there are.
LEMMA RequestedRows ==
    ASSUME PagingTypeOK
    PROVE  /\ Requested \in Seq(Rows)
           /\ Len(Requested) = IF opened /\ args.row_start < Len(base)
                               THEN Len(base) - args.row_start ELSE 0
           /\ \A k \in 1..Len(Requested) : Requested[k] = base[args.row_start + k]
<1>1. args.row_start \in Nat /\ base \in Seq(Rows)
    BY LengthTypes DEF PagingTypeOK
<1>2. CASE opened
    BY <1>1, <1>2, RestProperties DEF Requested
<1>3. CASE ~opened
    BY <1>3, EmptySeq DEF Requested
<1>4. QED
    BY <1>2, <1>3

\* What does not show in the stream.
LEMMA StreamStutters ==
    ASSUME UNCHANGED <<args, opened, base, yielded>>, Outcome' = Outcome
    PROVE  UNCHANGED Stream!streamVars
BY DEF Stream!streamVars

\* The first page opens the stream.
LEMMA StreamOpens ==
    ASSUME CountInv, WindowInv, RequestPage, ~opened
    PROVE  Stream!Open
<1>1. /\ opened' = TRUE /\ yielded' = yielded /\ args' = args /\ pc = "page"
      /\ response' = << >> => Len(population) <= row_number /\ pc' = "stopped"
      /\ response' # << >> => Len(response') > 0 /\ pc' = "rows"
      /\ \A j \in 1..Len(response') : row_number + j <= Len(population)
      /\ base' = population /\ Len(response') \in Nat
    BY PageReceived DEF RequestPage
<1>2. row_number = args.row_start /\ row_number \in Nat /\ Len(population) \in Nat
    <2>1. Len(yielded) = 0
        BY EmptySeq DEF WindowInv, Fresh
    <2>2. QED
        BY <2>1, LengthTypes DEF CountInv, OffsetFollowsCaller, PagingTypeOK
<1>3. population \in Seq(Rows)
    BY DEF CountInv, PagingTypeOK
<1>4. /\ Requested' \in Seq(Rows)
      /\ Len(Requested') = IF args.row_start < Len(population)
                           THEN Len(population) - args.row_start ELSE 0
    BY <1>1, <1>2, <1>3, RestProperties DEF Requested
<1>5. Requested' = << >> <=> response' = << >>
    <2>1. Requested' = << >> <=> Len(Requested') = 0
        BY <1>4, EmptySeq
    <2>2. CASE response' = << >>
        BY <1>1, <1>2, <1>4, <2>1, <2>2
    <2>3. CASE response' # << >>
        <3>1. row_number + 1 <= Len(population)
            BY <1>1, <2>3
        <3>2. QED
            BY <1>2, <1>4, <2>1, <2>3, <3>1
    <2>4. QED
        BY <2>2, <2>3
<1>6. Outcome = "open"
    BY <1>1 DEF Outcome
<1>7. Outcome' = IF Requested' = << >> THEN "complete" ELSE "open"
    <2>1. CASE response' = << >>
        BY <1>1, <1>5, <2>1 DEF Outcome
    <2>2. CASE response' # << >>
        BY <1>1, <1>5, <2>2 DEF Outcome
    <2>3. QED
        BY <2>1, <2>2
<1>8. QED
    BY <1>1, <1>4, <1>6, <1>7 DEF Stream!Open, Requested

\* An empty page behind the last row completes it, and a page with rows does not
\* show.
LEMMA StreamGoesOn ==
    ASSUME CountInv, WindowInv, RequestPage, opened, ~(inserted' \/ deleted')
    PROVE  Stream!Complete \/ UNCHANGED Stream!streamVars
<1>0. /\ Len(yielded) \in Nat /\ Len(base) \in Nat /\ args.row_start \in Nat
      /\ Len(response) \in Nat /\ taken \in Nat
      /\ row_number = args.row_start + Len(yielded)
    BY LengthTypes DEF CountInv, OffsetFollowsCaller
<1>1. /\ UNCHANGED <<args, yielded, opened, base, inserted, deleted>> /\ pc = "page"
      /\ response' = << >> => Len(population) <= row_number /\ pc' = "stopped"
      /\ response' # << >> => pc' = "rows"
    BY PageReceived DEF RequestPage
<1>2. Requested' = Requested
    BY <1>1 DEF Requested
<1>3. Outcome = "open" /\ population = base
    BY <1>1 DEF Outcome, WindowInv, SameResult
<1>4. CASE response' # << >>
    <2>1. Outcome' = "open"
        BY <1>1, <1>4 DEF Outcome
    <2>2. QED
        BY <1>1, <1>2, <1>3, <2>1, StreamStutters
<1>5. CASE response' = << >>
    <2>1. Outcome' = "complete"
        BY <1>1, <1>5 DEF Outcome
    <2>2. Len(yielded) > 0
        <3>1. response # << >>
            BY <1>1 DEF WindowInv, LastPage
        <3>2. Len(response) > 0 /\ taken = Len(response) /\ taken <= Len(yielded)
            BY <1>1, <3>1, EmptySeq DEF CountInv, PagingTypeOK, LoopPosition
        <3>3. QED
            BY <1>0, <3>2
    <2>3. args.row_start + Len(yielded) <= Len(base)
        BY <1>0, <1>1, <2>2 DEF WindowInv, YieldedInWindow
    <2>4. Len(Requested) = Len(yielded)
        <3>1. Len(base) = args.row_start + Len(yielded)
            BY <1>0, <1>1, <1>3, <1>5, <2>3
        <3>2. QED
            BY <1>0, <2>2, <3>1, RequestedRows DEF CountInv
    <2>5. QED
        BY <1>1, <1>2, <1>3, <2>1, <2>4 DEF Stream!Complete, Requested
<1>6. QED
    BY <1>4, <1>5

\* A row that is yielded is delivered.
LEMMA StreamDelivers ==
    ASSUME CountInv, WindowInv, YieldRow, ~(inserted' \/ deleted')
    PROVE  Stream!Deliver
<1>0. /\ Len(yielded) \in Nat /\ Len(base) \in Nat /\ args.row_start \in Nat
      /\ Len(response) \in Nat /\ taken \in Nat /\ row_number \in Nat
      /\ row_number = args.row_start + Len(yielded)
    BY LengthTypes DEF CountInv, OffsetFollowsCaller, PagingTypeOK
<1>1. /\ UNCHANGED <<args, opened, base, inserted, deleted>>
      /\ pc = "rows" /\ pc' = "yielded" /\ opened
    BY DEF YieldRow, Goto, CountInv, LoopPosition
<1>2. /\ Row = response[taken + 1] /\ taken + 1 \in 1..Len(response)
      /\ yielded' = Append(yielded, Row)
    BY RowYielded
<1>3. /\ args.row_start + (Len(yielded) + 1) <= Len(base)
      /\ Row = base[args.row_start + (Len(yielded) + 1)]
    <2>1. row_number - taken + (taken + 1) = args.row_start + (Len(yielded) + 1)
        <3>1. /\ row_number \in Nat /\ taken \in Nat /\ args.row_start \in Nat
              /\ Len(yielded) \in Nat /\ row_number = args.row_start + Len(yielded)
            BY <1>0
        <3>2. QED
            BY <3>1
    <2>2. QED
        BY <1>1, <1>2, <2>1 DEF WindowInv, PageInWindow
<1>4. /\ Len(yielded) < Len(Requested)
      /\ Requested[Len(yielded) + 1] = Row
    <2>1. Len(Requested) = Len(base) - args.row_start
        BY <1>0, <1>1, <1>3, RequestedRows DEF CountInv
    <2>2. Len(yielded) + 1 \in 1..Len(Requested)
        BY <1>0, <1>3, <2>1
    <2>3. QED
        BY <1>0, <1>3, <2>1, <2>2, RequestedRows DEF CountInv
<1>5. Outcome = "open" /\ Outcome' = "open" /\ Requested' = Requested
    BY <1>1 DEF Outcome, Requested
<1>6. QED
    BY <1>1, <1>2, <1>4, <1>5 DEF Stream!Deliver, Requested

\* Whatever ends a paging between two pages or rows cuts the stream.
LEMMA StreamCut ==
    ASSUME UNCHANGED <<args, opened, base, yielded, response>>,
           pc \in {"page", "rows", "yielded"},
           pc' \in {"stopped", "failed", "abandoned"},
           ~(opened /\ response = << >>)
    PROVE  Stream!Cut
<1>1. Outcome = "open" /\ Outcome' = "cut"
    BY DEF Outcome
<1>2. Requested' = Requested
    BY DEF Requested
<1>3. QED
    BY <1>1, <1>2 DEF Stream!Cut, Requested

\* A step of a paging is a step of the stream, unless the server's rows changed.
LEMMA StreamStep ==
    ASSUME CountInv, WindowInv, [PagingNext]_vars
    PROVE  [~(inserted' \/ deleted') => Stream!StreamNext]_(Stream!streamVars)
<1> SUFFICES ASSUME ~(inserted' \/ deleted')
             PROVE  Stream!StreamNext \/ UNCHANGED Stream!streamVars
    OBVIOUS
<1>1. CASE RequestPage
    BY <1>1, StreamOpens, StreamGoesOn DEF Stream!StreamNext
<1>2. CASE YieldRow
    BY <1>2, StreamDelivers DEF Stream!StreamNext
<1>3. opened /\ pc \in {"page", "rows", "yielded"} => response # << >>
    BY DEF WindowInv, LastPage
<1>4. CASE StopBeforeRequest \/ RequestFails \/ Abandon
    <2>1. /\ UNCHANGED <<args, opened, base, yielded, response>>
          /\ pc \in {"page", "rows", "yielded"}
          /\ pc' \in {"stopped", "failed", "abandoned"}
        BY <1>4 DEF StopBeforeRequest, RequestFails, Abandon, Goto, StopFetch,
           historyVars
    <2>2. QED
        BY <1>3, <2>1, StreamCut DEF Stream!StreamNext
<1>5. CASE Resume
    <2>1. /\ UNCHANGED <<args, opened, base, yielded, response>> /\ pc = "yielded"
          /\ pc' \in {"stopped", "rows", "page"}
        BY <1>5 DEF Resume, StopFetch, historyVars
    <2>2. CASE pc' = "stopped"
        BY <1>3, <2>1, <2>2, StreamCut DEF Stream!StreamNext
    <2>3. CASE pc' # "stopped"
        <3>1. Outcome' = Outcome
            BY <2>1, <2>3 DEF Outcome
        <3>2. QED
            BY <2>1, <3>1, StreamStutters
    <2>4. QED
        BY <2>2, <2>3
<1>6. CASE RowAppears \/ RowDisappears
    <2>1. /\ UNCHANGED <<args, pc, response, opened, base, yielded>>
        BY <1>6, ServerStep DEF CountInv, pagingVars
    <2>2. Outcome' = Outcome
        BY <2>1 DEF Outcome
    <2>3. QED
        BY <2>1, <2>2, StreamStutters
<1>7. CASE UNCHANGED vars
    <2>1. /\ UNCHANGED <<args, pc, response, opened, base, yielded>>
        BY <1>7 DEF vars, pagingVars, historyVars
    <2>2. Outcome' = Outcome
        BY <2>1 DEF Outcome
    <2>3. QED
        BY <2>1, <2>2, StreamStutters
<1>8. QED
    BY <1>1, <1>2, <1>4, <1>5, <1>6, <1>7
       DEF PagingNext, Client, Advance, Server, Ended

\* As long as the server's rows have not changed since the first page, a paging
\* of saved queries, of a history or of tasks is a RowStream: one result, in
\* order, nothing skipped or given twice, nothing after the end, and called
\* complete exactly when it is, whatever the page size and the limits.
THEOREM PagingImplementsStream == PagingSpec => FollowsRowStream
<1>1. PagingInit => CountInv /\ WindowInv /\ Stream!StreamInit
    <2>1. PagingInit => Stream!StreamInit
        BY DEF PagingInit, Stream!StreamInit, Outcome
    <2>2. QED
        BY <2>1, CountInit, WindowInit
<1>2. CountInv /\ WindowInv /\ [PagingNext]_vars => CountInv' /\ WindowInv'
    BY CountNext, WindowNext
<1>3. CountInv /\ WindowInv /\ [PagingNext]_vars =>
        [~(inserted' \/ deleted') => Stream!StreamNext]_(Stream!streamVars)
    BY StreamStep
<1>4. QED
    BY <1>1, <1>2, <1>3, PTL DEF PagingSpec, FollowsRowStream

-----------------------------------------------------------------------------
(* The inductive invariant: the rows, while the server's do change.          *)

\* The rows handed over, those fetched with the page but still to be handed
\* over, and those the server holds behind the offset of the next request.
HandedOver == RowsBehind(yielded, 0)
OnPage     == RowsBehind(response, taken)
Reach      == row_number + (Len(response) - taken)
Ahead      == RowsBehind(population, Reach)

\* The rows a paging is asked for: those of the first page's population.
Wanted     == RowsBehind(base, args.row_start)

\* Until a row appears nothing that has come is still to come: rows that
\* disappear only move others towards the offset.
ComesOnce ==
    ~inserted =>
        /\ IsInjective(yielded)
        /\ \A i, j \in (taken + 1)..Len(response) :
              response[i] = response[j] => i = j
        /\ HandedOver \cap OnPage = {}
        /\ (HandedOver \cup OnPage) \cap Ahead = {}

\* Until a row disappears all that was wanted has come or is still to come: rows
\* that appear only move others away from the offset.
NoneMissed ==
    opened /\ ~deleted => Wanted \subseteq HandedOver \cup OnPage \cup Ahead

FaultsInv == IsInjective(population) /\ ComesOnce /\ NoneMissed

-----------------------------------------------------------------------------
\* No row has come before the first request.
LEMMA FaultsInit == PagingInit => FaultsInv
<1> SUFFICES ASSUME PagingInit PROVE FaultsInv
    OBVIOUS
<1>1. /\ Len(response) = 0 /\ Len(yielded) = 0 /\ taken = 0
      /\ DOMAIN yielded = 1..Len(yielded)
    <2>1. << >> \in Seq(Rows) /\ Len(<< >>) = 0
        BY EmptySeq
    <2>2. DOMAIN yielded = 1..Len(yielded)
        BY <2>1, LenProperties DEF PagingInit
    <2>3. QED
        BY <2>1, <2>2 DEF PagingInit
<1>2. IsInjective(population)
    BY PagingAssumption DEF PagingInit
<1>3. HandedOver = {} /\ OnPage = {}
    BY <1>1 DEF HandedOver, OnPage, RowsBehind
<1>4. ComesOnce
    BY <1>1, <1>3 DEF ComesOnce, IsInjective
<1>5. NoneMissed
    BY DEF PagingInit, NoneMissed
<1>6. QED
    BY <1>2, <1>4, <1>5 DEF FaultsInv

\* A page takes the first of the rows ahead, and leaves the others there.
LEMMA PageTakesAhead ==
    ASSUME CountInv, FaultsInv, RequestPage
    PROVE  /\ OnPage = {} /\ HandedOver' = HandedOver
           /\ Ahead = OnPage' \cup Ahead'
           /\ OnPage' \cap Ahead' = {}
           /\ \A i, j \in (taken' + 1)..Len(response') :
                 response'[i] = response'[j] => i = j
<1>1. /\ Len(response) \in Nat /\ taken = Len(response) /\ row_number \in Nat
      /\ Len(population) \in Nat /\ DOMAIN population = 1..Len(population)
      /\ taken' = 0
      /\ UNCHANGED <<row_number, population, yielded>>
    BY LengthTypes, LenProperties
       DEF CountInv, LoopPosition, PagingTypeOK, RequestPage, serverVars
<1>2. response' = Window(population, row_number, page_size) /\ Len(response') \in Nat
    BY PageReceived
<1> DEFINE window == Window(population, row_number, page_size)
           rest   == RowsBehind(population, row_number + Len(window))
<1>3. /\ RowsBehind(population, row_number)
            = {window[j] : j \in 1..Len(window)} \cup rest
      /\ {window[j] : j \in 1..Len(window)} \cap rest = {}
      /\ \A i, j \in 1..Len(window) : window[i] = window[j] => i = j
    <2>1. population \in Seq(Rows) /\ page_size \in Nat \ {0}
        BY RequestedSize DEF CountInv, PagingTypeOK, RequestPage
    <2>2. QED
        BY <1>1, <2>1, WindowOfBehind DEF FaultsInv
<1> HIDE DEF window
<1>4. Ahead = RowsBehind(population, row_number)
    BY <1>1 DEF Ahead, Reach
<1>5. Ahead' = rest
    <2>1. Reach' = row_number + Len(window)
        BY <1>1, <1>2 DEF Reach, window
    <2>2. QED
        BY <1>1, <2>1 DEF Ahead
<1>6. OnPage' = {window[j] : j \in 1..Len(window)}
    BY <1>1, <1>2 DEF OnPage, RowsBehind, window
<1>7. \A i, j \in (taken' + 1)..Len(response') : response'[i] = response'[j] => i = j
    BY <1>1, <1>2, <1>3 DEF window
<1>8. OnPage = {} /\ HandedOver' = HandedOver
    BY <1>1 DEF OnPage, HandedOver, RowsBehind
<1> HIDE DEF rest
<1>9. QED
    BY <1>3, <1>4, <1>5, <1>6, <1>7, <1>8

\* A request for a page keeps what has come apart from what is to come.
LEMMA FaultsOfPage ==
    ASSUME CountInv, WindowInv, FaultsInv, RequestPage
    PROVE  FaultsInv'
<1>1. /\ UNCHANGED <<args, population, yielded, inserted, deleted>>
      /\ base' = IF opened THEN base ELSE population
    BY DEF RequestPage, serverVars
<1>2. /\ OnPage = {} /\ HandedOver' = HandedOver
      /\ Ahead = OnPage' \cup Ahead' /\ OnPage' \cap Ahead' = {}
      /\ \A i, j \in (taken' + 1)..Len(response') :
            response'[i] = response'[j] => i = j
    BY PageTakesAhead
<1>3. ComesOnce'
    <2> SUFFICES ASSUME ~inserted
                 PROVE  /\ IsInjective(yielded)
                        /\ HandedOver' \cap OnPage' = {}
                        /\ (HandedOver' \cup OnPage') \cap Ahead' = {}
        BY <1>1, <1>2 DEF ComesOnce
    <2>1. IsInjective(yielded) /\ HandedOver \cap Ahead = {}
        BY DEF FaultsInv, ComesOnce
    <2>2. QED
        BY <1>2, <2>1
<1>4. NoneMissed'
    <2>1. CASE opened
        <3>1. Wanted' = Wanted
            BY <1>1, <2>1 DEF Wanted
        <3>2. QED
            BY <1>1, <1>2, <2>1, <3>1 DEF FaultsInv, NoneMissed
    <2>2. CASE ~opened
        <3>1. base' = population /\ args' = args
            BY <1>1, <2>2
        <3>2. Reach = args.row_start
            <4>1. Len(yielded) = 0 /\ Len(response) = 0
                BY <2>2, EmptySeq DEF WindowInv, Fresh
            <4>2. QED
                BY <4>1, LengthTypes DEF CountInv, OffsetFollowsCaller, Reach
        <3>3. Wanted' = Ahead
            BY <3>1, <3>2 DEF Wanted, Ahead
        <3>4. QED
            BY <1>2, <3>3 DEF NoneMissed
    <2>3. QED
        BY <2>1, <2>2
<1>5. QED
    BY <1>1, <1>3, <1>4 DEF FaultsInv

\* A row that is yielded leaves the page for the caller.
LEMMA FaultsOfRow ==
    ASSUME CountInv, FaultsInv, YieldRow
    PROVE  FaultsInv'
<1>0. /\ Len(yielded) \in Nat /\ Len(response) \in Nat /\ taken \in Nat
      /\ row_number \in Nat /\ DOMAIN yielded = 1..Len(yielded)
    BY LengthTypes, LenProperties DEF CountInv, PagingTypeOK
<1>1. /\ Row = response[taken + 1] /\ taken + 1 \in 1..Len(response)
      /\ taken' = taken + 1 /\ row_number' = row_number + 1
      /\ yielded' \in Seq(Rows) /\ Len(yielded') = Len(yielded) + 1
      /\ \A k \in 1..Len(yielded) : yielded'[k] = yielded[k]
      /\ yielded'[Len(yielded) + 1] = Row
    BY RowYielded
<1>2. UNCHANGED <<args, response, population, opened, base, inserted, deleted>>
    BY DEF YieldRow, serverVars
<1>3. Ahead' = Ahead /\ Wanted' = Wanted
    <2>1. Reach' = Reach
        BY <1>0, <1>1, <1>2 DEF Reach
    <2>2. QED
        BY <1>2, <2>1 DEF Ahead, Wanted
<1>4. /\ HandedOver' = HandedOver \cup {Row}
      /\ IsInjective(yielded) /\ Row \notin HandedOver => IsInjective(yielded')
    <2>1. yielded \in Seq(Rows) /\ Row \in Rows
        BY <1>1, ElementOfSeq DEF CountInv, PagingTypeOK
    <2>2. yielded' = Append(yielded, Row)
        BY RowYielded
    <2>3. QED
        BY <2>1, <2>2, AppendRows DEF HandedOver
<1>5. /\ OnPage = OnPage' \cup {Row}
      /\ (\A i, j \in (taken + 1)..Len(response) : response[i] = response[j] => i = j) =>
            Row \notin OnPage'
    <2>1. response \in Seq(Rows) /\ taken < Len(response)
        BY <1>0, <1>1 DEF CountInv, PagingTypeOK
    <2>2. QED
        BY <1>0, <1>1, <1>2, <2>1, NextOfBehind DEF OnPage
<1>6. ComesOnce'
    <2> SUFFICES ASSUME ~inserted
                 PROVE  /\ IsInjective(yielded')
                        /\ \A i, j \in (taken' + 1)..Len(response) :
                              response[i] = response[j] => i = j
                        /\ HandedOver' \cap OnPage' = {}
                        /\ (HandedOver' \cup OnPage') \cap Ahead' = {}
        BY <1>2 DEF ComesOnce
    <2>1. /\ IsInjective(yielded)
          /\ \A i, j \in (taken + 1)..Len(response) :
                response[i] = response[j] => i = j
          /\ HandedOver \cap OnPage = {}
          /\ (HandedOver \cup OnPage) \cap Ahead = {}
        BY DEF FaultsInv, ComesOnce
    <2>2. Row \notin HandedOver
        BY <1>5, <2>1
    <2>3. Row \notin OnPage'
        BY <1>5, <2>1
    <2>4. IsInjective(yielded')
        BY <1>4, <2>1, <2>2
    <2>5. \A i, j \in (taken' + 1)..Len(response) :
                response[i] = response[j] => i = j
        BY <1>0, <1>1, <2>1
    <2>6. HandedOver' \cap OnPage' = {}
        BY <1>4, <1>5, <2>1, <2>3
    <2>7. (HandedOver' \cup OnPage') \cap Ahead' = {}
        BY <1>3, <1>4, <1>5, <2>1
    <2>8. QED
        BY <2>4, <2>5, <2>6, <2>7
<1>7. NoneMissed'
    BY <1>2, <1>3, <1>4, <1>5 DEF FaultsInv, NoneMissed
<1>8. QED
    BY <1>2, <1>6, <1>7 DEF FaultsInv

\* Rows that appear or disappear only push others away from the offset or pull
\* them towards it.
LEMMA FaultsOfServer ==
    ASSUME CountInv, WindowInv, FaultsInv, RowAppears \/ RowDisappears
    PROVE  FaultsInv'
<1>0. /\ population \in Seq(Rows) /\ Len(population) \in Nat
      /\ Len(response) \in Nat /\ taken \in Nat /\ taken <= Len(response)
      /\ row_number \in Nat
    BY LengthTypes DEF CountInv, PagingTypeOK
<1>1. /\ UNCHANGED <<args, row_number, response, taken, opened, base, yielded>>
      /\ (inserted => inserted') /\ (deleted => deleted')
    BY ServerStep, DisturbedForGood
       DEF CountInv, pagingVars, PagingNext, Server
<1>2. HandedOver' = HandedOver /\ OnPage' = OnPage /\ Wanted' = Wanted
    BY <1>1 DEF HandedOver, OnPage, Wanted
<1>3. Reach' = Reach /\ Reach \in Nat
    BY <1>0, <1>1 DEF Reach
<1>4. CASE RowDisappears
    <2>1. PICK i \in 1..Len(population) : population' = RemoveAt(population, i)
        BY <1>4 DEF RowDisappears
    <2>3. IsInjective(population')
        BY <1>0, <2>1, RemoveAtDistinct DEF FaultsInv
    <2>4. Ahead' \subseteq Ahead
        BY <1>0, <1>3, <2>1, BehindRemoveAt DEF Ahead
    <2>5. ComesOnce'
        BY <1>1, <1>2, <2>4 DEF FaultsInv, ComesOnce
    <2>6. NoneMissed'
        <3>1. opened => deleted'
            BY <1>4 DEF RowDisappears
        <3>2. QED
            BY <1>1, <3>1 DEF NoneMissed
    <2>7. QED
        BY <2>3, <2>5, <2>6 DEF FaultsInv
<1>5. CASE RowAppears
    <2>1. PICK r \in Rows, i \in 1..(Len(population) + 1) :
              ~Contains(population, r) /\ population' = InsertAt(population, i, r)
        BY <1>5 DEF RowAppears
    <2>3. IsInjective(population')
        BY <1>0, <2>1, InsertAtDistinct DEF FaultsInv
    <2>4. Ahead \subseteq Ahead'
        BY <1>0, <1>3, <2>1, BehindInsertAt DEF Ahead
    <2>5. NoneMissed'
        BY <1>1, <1>2, <2>4 DEF FaultsInv, NoneMissed
    <2>6. ComesOnce'
        <3>1. CASE opened
            <4>1. inserted'
                BY <1>5, <3>1 DEF RowAppears
            <4>2. QED
                BY <4>1 DEF ComesOnce
        <3>2. CASE ~opened
            <4>1. Len(yielded) = 0 /\ Len(response) = 0 /\ ~inserted
                BY <3>2, EmptySeq DEF WindowInv, Fresh
            <4>2. HandedOver = {} /\ OnPage = {}
                BY <1>0, <4>1 DEF HandedOver, OnPage, RowsBehind
            <4>3. QED
                BY <1>1, <1>2, <4>1, <4>2 DEF FaultsInv, ComesOnce
        <3>3. QED
            BY <3>1, <3>2
    <2>7. QED
        BY <2>3, <2>5, <2>6 DEF FaultsInv
<1>6. QED
    BY <1>4, <1>5

\* Every step keeps what has come apart from what is to come.
LEMMA FaultsNext ==
    ASSUME CountInv, WindowInv, FaultsInv, [PagingNext]_vars
    PROVE  FaultsInv'
<1>1. CASE RequestPage
    BY <1>1, FaultsOfPage
<1>2. CASE YieldRow
    BY <1>2, FaultsOfRow
<1>3. CASE RowAppears \/ RowDisappears
    BY <1>3, FaultsOfServer
<1>4. CASE \/ StopBeforeRequest \/ RequestFails \/ Resume \/ Abandon
           \/ UNCHANGED vars
    <2>1. UNCHANGED <<args, row_number, response, taken, population, historyVars>>
        BY <1>4 DEF StopBeforeRequest, RequestFails, Resume, Abandon, serverVars,
           vars, pagingVars
    <2>2. UNCHANGED <<opened, base, yielded, inserted, deleted>>
        BY <2>1 DEF historyVars
    <2>3. UNCHANGED <<HandedOver, OnPage, Ahead, Wanted>>
        BY <2>1, <2>2 DEF HandedOver, OnPage, Ahead, Reach, Wanted
    <2>4. QED
        BY <2>1, <2>2, <2>3 DEF FaultsInv, ComesOnce, NoneMissed
<1>5. QED
    BY <1>1, <1>2, <1>3, <1>4
       DEF PagingNext, Client, Advance, Server, Ended

\* What the invariant says of a paging that came to the end of the rows.
LEMMA FaultsAreExplained ==
    ASSUME CountInv, WindowInv, FaultsInv
    PROVE  PagingFaultsExplained
<1>1. ~inserted => IsInjective(yielded)
    BY DEF FaultsInv, ComesOnce
<1>2. ASSUME ~deleted, Outcome = "complete",
             NEW k \in (args.row_start + 1)..Len(base)
      PROVE  Contains(yielded, base[k])
    <2>1. opened /\ response = << >>
        BY <1>2 DEF Outcome
    <2>2. Len(response) = 0 /\ taken = 0 /\ Len(population) <= row_number
          /\ row_number \in Nat /\ Len(population) \in Nat
        BY <2>1, EmptySeq, LengthTypes DEF CountInv, PagingTypeOK, WindowInv, LastPage
    <2>3. OnPage = {} /\ Ahead = {}
        BY <2>2 DEF OnPage, Ahead, Reach, RowsBehind
    <2>4. base[k] \in HandedOver
        BY <1>2, <2>1, <2>3 DEF FaultsInv, NoneMissed, Wanted, RowsBehind
    <2>5. QED
        BY <2>4 DEF HandedOver, RowsBehind, Contains
<1>3. QED
    BY <1>1, <1>2 DEF PagingFaultsExplained

\* However the server's rows change under the offsets of a paging, a row only
\* comes twice when one has appeared since the first page, and a row that was
\* wanted is only missing at the end when one has disappeared.
THEOREM PagingFaults == PagingSpec => []PagingFaultsExplained
<1>1. PagingInit => CountInv /\ WindowInv /\ FaultsInv
    BY CountInit, WindowInit, FaultsInit
<1>2. CountInv /\ WindowInv /\ FaultsInv /\ [PagingNext]_vars =>
        CountInv' /\ WindowInv' /\ FaultsInv'
    BY CountNext, WindowNext, FaultsNext
<1>3. CountInv /\ WindowInv /\ FaultsInv => PagingFaultsExplained
    BY FaultsAreExplained
<1>4. QED
    BY <1>1, <1>2, <1>3, PTL DEF PagingSpec

=============================================================================
