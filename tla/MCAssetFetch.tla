----------------------------- MODULE MCAssetFetch -----------------------------
(***************************************************************************)
(* AssetFetch on small instances: up to four assets, pages of one to three *)
(* rows, and the calls of three families.  Paging calls vary the limits,   *)
(* the start and the page size (beyond MaxPageSize too) with plain rows;   *)
(* file calls vary the format and the file over two rows in a page; tag    *)
(* calls vary the labels over three rows, of which callbacks may drop some. *)
(***************************************************************************)
EXTENDS AssetFetch

CONSTANTS a1, a2, a3, a4

FourAssets == {a1, a2, a3, a4}

Plain ==
    [ max_rows |-> -1, max_pages |-> -1, page_size |-> 2, page_start |-> -1,
      row_start |-> 0, use_cursor |-> FALSE,
      export |-> "base", to_file |-> FALSE, file_exists |-> FALSE,
      export_backup |-> FALSE, export_overwrite |-> FALSE,
      table_max_rows |-> 0, custom_cb |-> FALSE,
      tags_add |-> TRUE, tags_remove |-> FALSE ]

PagingCalls ==
    { [Plain EXCEPT !.max_rows = r, !.max_pages = p, !.page_size = s,
                    !.page_start = q, !.row_start = t, !.use_cursor = c] :
        r \in {-1, 1, 3}, p \in {-1, 2}, s \in {1, 2, 4}, q \in {-1, 1},
        t \in {0, 1}, c \in BOOLEAN }

FileArgs ==
    { f \in [to_file : BOOLEAN, file_exists : BOOLEAN, export_backup : BOOLEAN,
             export_overwrite : BOOLEAN] :
        ~f.to_file => ~f.file_exists /\ ~f.export_backup /\ ~f.export_overwrite }

FileCalls ==
    { [Plain EXCEPT !.export = e, !.to_file = f.to_file,
                    !.file_exists = f.file_exists,
                    !.export_backup = f.export_backup,
                    !.export_overwrite = f.export_overwrite,
                    !.table_max_rows = m, !.max_rows = 2] :
        e \in Exports \ {"base"}, f \in FileArgs, m \in {0, 2} }

TagCalls ==
    { [Plain EXCEPT !.export = "json", !.custom_cb = TRUE, !.tags_add = a,
                    !.tags_remove = b, !.max_rows = 3] :
        a \in BOOLEAN, b \in BOOLEAN }

FetchCalls ==
    PagingCalls \cup TagCalls
        \cup { c \in FileCalls : c.table_max_rows # 0 => c.export = "table" }

TableCalls ==
    { [Plain EXCEPT !.export = "table", !.table_max_rows = m] : m \in 1..3 }

UpToThree == { << >>, <<a1>>, <<a1, a2>>, <<a1, a2, a3>> }

=============================================================================
