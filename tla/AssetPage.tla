------------------------------ MODULE AssetPage ------------------------------
(***************************************************************************)
(* The paging arithmetic of a fetch of assets: the "state" dict that       *)
(* AssetsPage.create_state builds and that process_page, process_row and   *)
(* process_loop update, and the page of rows a response is turned into.    *)
(* Pure operators; AssetFetch is the state machine that applies them.      *)
(*                                                                         *)
(* An argument that is not an integer is written -1: parse_int_min_max     *)
(* treats it exactly like a value below the minimum.                       *)
(***************************************************************************)
EXTENDS ServerPage, SequencesExt

CONSTANT MaxPageSize        \* constants.api.MAX_PAGE_SIZE, also PAGE_SIZE

ASSUME MaxPageSizeAssumption == MaxPageSize \in Nat \ {0}

-----------------------------------------------------------------------------
(* tools.parse_int_min_max: a value outside its bounds becomes the default,
   it is not moved to the nearest bound.                                   *)
ParseIntMinMax(value, default, min, max) ==
    IF value \in min..max THEN value ELSE default

ParseNat(value) == IF value < 0 THEN 0 ELSE value

\* Mutant: a max_rows of 0 is taken for a limit.
PageSizeOfZeroRows(args) ==
    LET size == ParseIntMinMax(args.page_size, MaxPageSize, 1, MaxPageSize)
        rows == ParseNat(args.max_rows)
    IN  IF rows < size THEN rows ELSE size

\* The page size after clamping, and after "max_rows if max_rows < page_size".
PageSizeOf(args) ==
    LET size == ParseIntMinMax(args.page_size, MaxPageSize, 1, MaxPageSize)
        rows == ParseNat(args.max_rows)
    IN  IF rows # 0 /\ rows < size THEN rows ELSE size

\* Where the fetch starts: row_start, or page_start pages of the size the
\* caller ASKED for (it is multiplied before the size is clamped).
StartOf(args) ==
    LET row  == ParseNat(args.row_start)
        page == ParseNat(args.page_start)
    IN  IF page # 0 /\ row = 0 THEN page * args.page_size ELSE row

CreateState(args) ==
    [ max_rows             |-> ParseNat(args.max_rows),
      max_pages            |-> ParseNat(args.max_pages),
      page_size            |-> PageSizeOf(args),
      page_number          |-> 0,
      rows_offset          |-> StartOf(args),
      rows_fetched_total   |-> 0,
      rows_processed_total |-> 0 ]

State == [ max_rows : Nat, max_pages : Nat, page_size : Nat \ {0},
           page_number : Nat, rows_offset : Nat,
           rows_fetched_total : Nat, rows_processed_total : Nat ]

-----------------------------------------------------------------------------
(* AssetsPage.load_response keeps the items that have attributes: the i-th
   item of the window is the malformed one, none when i = 0.               *)
LoadResponse(window, i) == IF i = 0 THEN window ELSE RemoveAt(window, i)

\* Mutant: the offset moves on by the size asked for, not by what came.
ProcessPageBySize(state, assets, number) ==
    [state EXCEPT !.rows_offset        = @ + state.page_size,
                  !.rows_fetched_total = @ + Len(assets),
                  !.page_number        = number]

\* Mutant: the offset is derived from the number of the page.
ProcessPageByNumber(state, assets, number) ==
    [state EXCEPT !.rows_offset        = number * state.page_size,
                  !.rows_fetched_total = @ + Len(assets),
                  !.page_number        = number]

ProcessPage(state, assets, number) ==
    [state EXCEPT !.rows_offset        = @ + Len(assets),
                  !.rows_fetched_total = @ + Len(assets),
                  !.page_number        = number]

\* Mutant: an empty page does not end the fetch.
StopNever(assets) == FALSE

\* process_page stops the fetch when the page has no rows.
StopAtPage(assets) == assets = << >>

\* Mutant: max_rows must be passed, not reached.
StopAtRowLate(state) ==
    state.max_rows # 0 /\ state.rows_processed_total > state.max_rows

\* process_row stops it when max_rows rows have been processed.
StopAtRow(state) ==
    state.max_rows # 0 /\ state.rows_processed_total >= state.max_rows

\* process_loop stops it when the server's page number reaches max_pages.
StopAtLoop(state) ==
    state.max_pages # 0 /\ state.page_number >= state.max_pages

=============================================================================
