---------------------------- MODULE MCPagingState ----------------------------
(***************************************************************************)
(* PagingState on a small instance: up to four rows in pages of one to     *)
(* three, from the first row or a later one, with and without a row_stop   *)
(* below, at and above the size of a page.                                 *)
(***************************************************************************)
EXTENDS PagingState

CONSTANTS r1, r2, r3, r4, r5

FiveRows == {r1, r2, r3, r4, r5}

AllArguments ==
    [page_size : 1..3, row_start : {0, 1, 3}, row_stop : {-1, 0, 1, 2, 3}]

UpToFour == { << >>, <<r1>>, <<r1, r2, r3>>, <<r1, r2, r3, r4>> }

=============================================================================
