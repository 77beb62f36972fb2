--------------------------- MODULE AssetCallbacks ---------------------------
(***************************************************************************)
(* The callbacks object a fetch of assets hands every row to: the export   *)
(* file (ExportMixins, Json, Csv, Table), the rows it remembers for        *)
(* tagging, and the tag requests it sends when it is stopped.              *)
(*                                                                         *)
(* The operators below are fragments of actions: AssetFetch says when each *)
(* of them happens.  Text is abstracted to tokens: "[" and "]" enclose a   *)
(* JSON array, "header" stands for the CSV columns and schema rows, and an *)
(* asset stands for its formatted row.                                     *)
(***************************************************************************)
EXTENDS Integers, Sequences, SequencesExt

CONSTANT Assets             \* internal_axon_id's, the rows of a fetch

VARIABLES
    args,                   \* the arguments of this call, fixed from Init
    target,                 \* content of the file at export_path/export_file
    backup,                 \* content of the file path_backup_file renames to
    fd,                     \* the file descriptor _fd
    written,                \* tokens written to fd
    table,                  \* Table._rows, kept in memory until stop
    tag_rows_add,           \* TAG_ROWS_ADD
    tag_rows_remove,        \* TAG_ROWS_REMOVE
    calls                   \* the label requests sent to the server, in order

callbackVars == <<args, target, backup, fd, written, table,
                  tag_rows_add, tag_rows_remove, calls>>

Exports == {"base", "json", "csv", "table"}

(* The fields of args the callbacks read: export, to_file (export_file was
   given, else stdout), file_exists (it was there before), export_backup,
   export_overwrite, table_max_rows, custom_cb (a custom callback that may
   drop rows), tags_add and tags_remove.                                   *)

Tokens == Assets \cup {"[", "]", "header"}

LabelCalls == [op : {"add", "remove"}, ids : Seq(Assets)]

CallbacksTypeOK ==
    /\ target \in {"absent", "old", "new"}
    /\ backup \in {"absent", "old"}
    /\ fd \in {"none", "open", "closed"}
    /\ written \in Seq(Tokens)
    /\ table \in Seq(Assets)
    /\ tag_rows_add \in Seq(Assets)
    /\ tag_rows_remove \in Seq(Assets)
    /\ calls \in Seq(LabelCalls)

CallbacksInit ==
    /\ target = IF args.file_exists THEN "old" ELSE "absent"
    /\ backup = "absent"
    /\ fd = "none"
    /\ written = << >>
    /\ table = << >>
    /\ tag_rows_add = << >>
    /\ tag_rows_remove = << >>
    /\ calls = << >>

-----------------------------------------------------------------------------
(* start(): open_fd, then the opening text of the format.                  *)

ExportsToFile == args.export # "base" /\ args.to_file

\* Mutant: the sense of export_overwrite is turned round.
OpenRefusedInverted ==
    /\ ExportsToFile
    /\ target # "absent"
    /\ ~args.export_backup
    /\ args.export_overwrite

\* open_fd_path raises when the file is there and may not be replaced.
OpenRefused ==
    /\ ExportsToFile
    /\ target # "absent"
    /\ ~args.export_backup
    /\ ~args.export_overwrite

Start ==
    /\ ~OpenRefused
    /\ fd' = IF args.export = "base" THEN "none" ELSE "open"
    /\ target' = IF ExportsToFile THEN "new" ELSE target
    /\ backup' = IF ExportsToFile /\ args.export_backup THEN target ELSE backup
    /\ written' = IF args.export = "json" THEN <<"[">> ELSE << >>
    /\ UNCHANGED <<args, table, tag_rows_add, tag_rows_remove, calls>>

-----------------------------------------------------------------------------
(* process_row(): one asset, which a custom callback may drop (keep).      *)

\* Table.check_stop, before the row is formatted; processed already counts it.
TableFull(processed) ==
    /\ args.export = "table"
    /\ args.table_max_rows # 0
    /\ processed >= args.table_max_rows

\* Mutant: a row that comes twice is remembered twice.
RememberAll(s, row) == Append(s, row)

Remember(s, row) == IF Contains(s, row) THEN s ELSE Append(s, row)

\* Csv.do_start: the header is written with the first row, not by start().
WithHeader(s) == IF args.export = "csv" /\ s = << >> THEN <<"header">> ELSE s

WriteRow(row, keep) ==
    /\ written' = IF args.export \in {"json", "csv"} /\ keep
                  THEN Append(WithHeader(written), row)
                  ELSE WithHeader(written)
    /\ table' = IF args.export = "table" /\ keep THEN Append(table, row) ELSE table

DoRow(row, keep) ==
    /\ tag_rows_add' = IF args.tags_add /\ keep
                       THEN Remember(tag_rows_add, row) ELSE tag_rows_add
    /\ tag_rows_remove' = IF args.tags_remove /\ keep
                          THEN Remember(tag_rows_remove, row) ELSE tag_rows_remove
    /\ WriteRow(row, keep)
    /\ UNCHANGED <<args, target, backup, fd, calls>>

\* Json and Csv give the caller the id of every row, the others what is left.
Yields(keep) == keep \/ args.export \in {"json", "csv"}

-----------------------------------------------------------------------------
(* stop(): Base.stop sends the tags, then the format ends its file.        *)

DoTagAdd ==
    /\ calls' = IF args.tags_add
                THEN Append(calls, [op |-> "add", ids |-> tag_rows_add])
                ELSE calls
    /\ UNCHANGED <<args, target, backup, fd, written, table,
                   tag_rows_add, tag_rows_remove>>

DoTagRemove ==
    /\ calls' = IF args.tags_remove
                THEN Append(calls, [op |-> "remove", ids |-> tag_rows_remove])
                ELSE calls
    /\ UNCHANGED <<args, target, backup, fd, written, table,
                   tag_rows_add, tag_rows_remove>>

\* Mutant: the end of a JSON array is not written.
CloseExportUnended ==
    /\ written' = IF args.export = "table" THEN written \o table ELSE written
    /\ fd' = IF ExportsToFile THEN "closed" ELSE fd
    /\ UNCHANGED <<args, target, backup, table,
                   tag_rows_add, tag_rows_remove, calls>>

\* The last write of each format, then close_fd (which never closes stdout).
CloseExport ==
    /\ written' = CASE args.export = "json"  -> Append(written, "]")
                    [] args.export = "table" -> written \o table
                    [] OTHER                 -> written
    /\ fd' = IF ExportsToFile THEN "closed" ELSE fd
    /\ UNCHANGED <<args, target, backup, table,
                   tag_rows_add, tag_rows_remove, calls>>

=============================================================================
