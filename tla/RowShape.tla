------------------------------ MODULE RowShape ------------------------------
(***************************************************************************)
(* What the callbacks of a fetch make of a row (Base.callbacks): reports   *)
(* added, fields excluded, nulls filled in, a row split per entity or per  *)
(* item of a field, complex fields flattened, lists joined, keys renamed.  *)
(* process_row runs them all in one go, so it is one action here, and the  *)
(* callbacks are operators from rows to rows, applied in their order.  What*)
(* carries over from row to row are the schemas and columns, kept from the *)
(* first time they are asked for.                                          *)
(*                                                                         *)
(* The fields are a sample: a simple one, a complex one with two           *)
(* sub-fields (one short name is that of an API field), the API's own, and *)
(* one nobody asked for.  A value is [list, of]: a list, or one value; text*)
(* joined from a list is one value of several parts.  Trimming is left out.*)
(***************************************************************************)
EXTENDS Integers, FiniteSets, SequencesExt, Functions

CONSTANTS
    RowArgs,        \* the arguments of a call, see below
    FirstRows,      \* rows the server sends first
    LaterRows,      \* rows the server sends after that
    Adapters,       \* adapters of the instance (adapter_map), a sequence
    Whitelist       \* report_software_whitelist: the names its patterns match

VARIABLES
    shapeArgs,      \* GETARGS and the fields asked for, fixed from Init
    include,        \* STORE["include_details"]
    excludes,       \* GETARGS["field_excludes"], extended by start
    selected,       \* names of schemas_selected, {} before they are needed
    columns,        \* final_columns; for a CSV file also the writer's fieldnames
    taken,          \* the row given to process_row last
    made,           \* the rows process_row made of it
    shapePhase      \* "new", "started", "later" (than the first row), "failed", "done"

shapeVars == <<shapeArgs, include, excludes, selected, columns, taken, made,
               shapePhase>>

(* The fields of shapeArgs: fields (asked for), field_null, field_excludes,
   field_flatten, field_explode ("" for none), explode_entities, details
   (include_details), field_join, naming ("qual", "titles" or "short" for
   field_compress with field_replace), report ("", "adapters", "software"
   or "dates" for include_dates) and export ("base" or "csv").                                           *)

(* What a CONSTANT is: a call may ask for the fields of the sample, and exclude
   anything.                                                               *)
ASSUME RowArgsAssumption ==
    \A a \in RowArgs :
        /\ a.fields \subseteq {"hostname", "software"}
        /\ IsFiniteSet(a.field_excludes)
        /\ a.field_explode \in {"", "hostname", "software"}
        /\ {a.field_null, a.field_flatten, a.explode_entities, a.details,
             a.field_join} \subseteq BOOLEAN

-----------------------------------------------------------------------------
(* Schemas. *)

ApiFields == {"internal_axon_id", "adapters", "labels"}
Passthru == {"internal_axon_id", "labels"}
EntityInfo == {"meta_data.client_used"}

DetailsOf(f) == f \o "_details"

DetailsExclude == {DetailsOf(f) : f \in ApiFields}

IsDetails(f) == f \in {"hostname_details", "software_details"} \cup DetailsExclude \cup EntityInfo

IsComplex(f) == f \in {"software", "software_details"}

Subs == {"name", "labels"}              \* short names; all are roots

SubField(s) == "software." \o s         \* also of software_details: a copy

Title(f) == "Aggregated: " \o f

(* The strings that are put together for the fields of the sample. *)
ASSUME TextsAssumption ==
    /\ DetailsOf("hostname") = "hostname_details"
    /\ DetailsOf("software") = "software_details"
    /\ DetailsOf("meta_data.client_used") = "meta_data.client_used_details"
    /\ DetailsExclude = {"internal_axon_id_details", "adapters_details", "labels_details"}
    /\ SubField("name") = "software.name" /\ SubField("labels") = "software.labels"

Reports ==
    CASE shapeArgs.report = "adapters" -> {"adapters_missing"}
      [] shapeArgs.report = "software" ->
            {"software_missing", "software_whitelist", "software_extra"}
      [] shapeArgs.report = "dates" -> {"history_date", "current_date"}
      [] OTHER -> {}

SchemasSelected(rows) ==
    LET asked == ApiFields \cup shapeArgs.fields
    IN  Reports \cup asked
            \cup (IF include THEN EntityInfo \cup {DetailsOf(f) : f \in asked} ELSE {})
            \cup UNION {DOMAIN row : row \in rows}

(* is_excluded: by the qualified name or by the short one, so a sub-field
   goes with an unrelated field of its short name.                         *)
Excluded(f) == f \in excludes

OpenSubs == {s \in Subs : s \notin excludes /\ SubField(s) \notin excludes}

(* final_schemas, by name: a complex field that is flattened or exploded is
   its sub-fields, and with explode_entities the details are gone.         *)
FinalFields(sel) ==
    LET kept == {f \in sel : /\ ~Excluded(f)
                             /\ shapeArgs.explode_entities =>
                                    ~IsDetails(f) \/ f \in EntityInfo}
        split == {f \in kept : /\ IsComplex(f)
                               /\ shapeArgs.field_flatten \/ f = shapeArgs.field_explode}
    IN  (kept \ split) \cup (IF split = {} THEN {} ELSE {SubField(s) : s \in OpenSubs})

Renamed(k) ==
    CASE k = "hostname" -> "agg:hostname"
      [] k = "software" -> "agg:software"
      [] k = "hostname_details" -> "agg:hostname_details"
      [] k = "software_details" -> "agg:software_details"
      [] k = "software.name" -> "agg:software/name"
      [] k = "software.labels" -> "agg:software/labels"
      [] OTHER -> k

(* The key a column has in the end. *)
ColumnOf(f) ==
    CASE shapeArgs.naming = "titles" -> Title(f)
      [] shapeArgs.naming = "short" -> Renamed(f)
      [] OTHER -> f

FinalColumns(sel) == {ColumnOf(f) : f \in FinalFields(sel)}

-----------------------------------------------------------------------------
(* Values, rows and the callbacks. *)

List(s) == [list |-> TRUE, of |-> s]
One(x) == [list |-> FALSE, of |-> <<x>>]
Null == One("null")

(* A row as the server sends it: the details have a value of their field, and a
   complex field and its details have items, whose sub-fields have values.
   The API's own fields come with every row.                               *)
IsValue(v) ==
    /\ v = [list |-> v.list, of |-> v.of]
    /\ v.list \in BOOLEAN
    /\ v.list \/ Len(v.of) = 1

IsField(v) == IsValue(v) /\ v.of \in Seq(Range(v.of))

HasItems(v) == \A item \in Range(v.of) : \A s \in DOMAIN item : IsField(item[s])

ASSUME RowsAssumption ==
    \A row \in FirstRows \cup LaterRows :
        /\ IsFiniteSet(DOMAIN row) /\ "adapters" \in DOMAIN row
        /\ \A f \in DOMAIN row : IsField(row[f])
        /\ "software" \in DOMAIN row => HasItems(row["software"])
        /\ \A d \in DOMAIN row : IsDetails(d) =>
              \A v \in Range(row[d].of) : IsField(v) /\ (IsComplex(d) => HasItems(v))

(* Every name there may be, and that no two of them get the same new one. *)
Names ==
    LET fields == ApiFields \cup {"hostname", "software"}
    IN  fields \cup EntityInfo \cup {DetailsOf(f) : f \in fields} \cup {SubField(s) : s \in Subs}
            \cup {"adapters_missing", "software_missing", "software_whitelist",
                  "software_extra", "history_date", "current_date"}
            \cup UNION {DOMAIN row : row \in FirstRows \cup LaterRows}

ASSUME NamesAssumption ==
    \A f, g \in Names : Title(f) = Title(g) \/ Renamed(f) = Renamed(g) => f = g

(* listify(row.get(f, [])), by its elements. *)
ItemsOf(row, f) == IF f \in DOMAIN row THEN row[f].of ELSE << >>

(* The row with the keys of new set as new says. *)
Updated(row, new) ==
    [k \in DOMAIN row \cup DOMAIN new |-> IF k \in DOMAIN new THEN new[k] ELSE row[k]]

Without(row, keys) == Restrict(row, DOMAIN row \ keys)

(* The value of an item's sub-field, null when it has none. *)
SubOf(item, s) == IF s \in DOMAIN item THEN item[s] ELSE Null

WithReport(row) ==
    CASE shapeArgs.report = "adapters" ->
            Updated(row, [f \in Reports |->
                List(SelectSeq(Adapters, LAMBDA a : ~Contains(ItemsOf(row, "adapters"), a)))])
      [] shapeArgs.report = "software" ->
            LET names == UNION {Range(SubOf(i, "name").of) :
                                    i \in {j \in Range(ItemsOf(row, "software")) :
                                              "name" \in DOMAIN j}}
            IN  Updated(row, [f \in Reports |->
                    CASE f = "software_whitelist" -> List(SetToSeq(Whitelist))
                      [] f = "software_missing" -> List(SetToSeq(Whitelist \cap names))
                      [] f = "software_extra" -> List(SetToSeq(names))])
      [] OTHER -> Updated(row, [f \in Reports |-> One("date")])

WithoutExcluded(row, sel) ==
    LET gone == {f \in sel : Excluded(f)}
        trimmed(f) == List([n \in DOMAIN row[f].of |->
                        Restrict(row[f].of[n], DOMAIN row[f].of[n] \cap OpenSubs)])
    IN  [f \in DOMAIN row \ gone |-> IF f = "software" THEN trimmed(f) ELSE row[f]]

(* do_add_null_values: also in the items of a complex field. *)
WithNulls(row, sel) ==
    LET filled == {f \in sel : ~Excluded(f) /\ ~IsDetails(f)}
        full(f) ==
            IF IsComplex(f)
            THEN List([n \in DOMAIN ItemsOf(row, f) |->
                    LET item == ItemsOf(row, f)[n]
                    IN  Updated(item, [s \in OpenSubs |-> SubOf(item, s)])])
            ELSE IF f \in DOMAIN row THEN row[f] ELSE Null
    IN  IF shapeArgs.field_null THEN Updated(row, [f \in filled |-> full(f)]) ELSE row

(* One row for every adapter of the asset, with what the details know of it;
   details that are shorter than the adapters leave the field out.         *)
PerEntity(row) ==
    LET about(n) == {f \in DOMAIN row : IsDetails(f) /\ n \in DOMAIN row[f].of}
        plain(d) == CHOOSE f \in shapeArgs.fields \cup EntityInfo :
                        IF d \in EntityInfo THEN f = d ELSE DetailsOf(f) = d
        entity(n) ==
            Updated(Restrict(row, Passthru \cap DOMAIN row),
                    [f \in {plain(d) : d \in about(n)} \cup {"adapters"} |->
                        IF f = "adapters" THEN One(row.adapters.of[n])
                        ELSE IF f \in EntityInfo THEN row[f].of[n]
                        ELSE row[DetailsOf(f)].of[n]])
    IN  IF shapeArgs.explode_entities
        THEN [n \in DOMAIN ItemsOf(row, "adapters") |-> entity(n)]
        ELSE <<row>>

(* The values of a sub-field over the items, one after the other: a value
   that is a list is spliced.                                              *)
FlatColumn(items, s) == FlattenSeq([n \in DOMAIN items |-> SubOf(items[n], s).of])

FlatRow(row, f) ==
    Updated(Without(row, {f}),
            [c \in {SubField(s) : s \in OpenSubs} |->
                List(FlatColumn(ItemsOf(row, f), CHOOSE s \in OpenSubs : SubField(s) = c))])

Flattened(row, sel) ==
    IF /\ shapeArgs.field_flatten
       /\ "software" \in sel
       /\ shapeArgs.field_explode # "software"
       /\ ~Excluded("software")
    THEN FlatRow(row, "software")
    ELSE row

(* A row with at most one item is kept, a complex field flattened. *)
PerItemAbove(few, row) ==
    LET f == shapeArgs.field_explode
        items == ItemsOf(row, f)
        single(n) ==
            IF IsComplex(f)
            THEN Updated(Without(row, {f}),
                         [c \in {SubField(s) : s \in OpenSubs} |->
                             SubOf(items[n], CHOOSE s \in OpenSubs : SubField(s) = c)])
            ELSE Updated(row, [c \in {f} |-> One(items[n])])
    IN  IF f = "" \/ Excluded(f) THEN <<row>>
        ELSE IF Len(items) > few THEN [n \in DOMAIN items |-> single(n)]
        ELSE IF IsComplex(f) THEN <<FlatRow(row, f)>>
        ELSE <<row>>

PerItemAboveTwo(row) == PerItemAbove(2, row)
PerItem(row) == PerItemAbove(1, row)

JoinedAll(row) == [k \in DOMAIN row |-> [row[k] EXCEPT !.list = FALSE]]
Joined(row) == IF shapeArgs.field_join THEN JoinedAll(row) ELSE row

(* do_change_field_titles, then compress and replace: a column that the row
   lacks gets its title and a null value.                                  *)
TitledOver(row, fields) ==
    LET titled == {Title(f) : f \in fields}
        value(t) == LET f == CHOOSE g \in fields : Title(g) = t
                    IN  IF f \in DOMAIN row THEN row[f]
                        ELSE IF IsComplex(f) THEN List(<< >>) ELSE Null
    IN  Updated(Without(row, fields), [t \in titled |-> value(t)])

Shortened(row) ==
    [k \in {Renamed(f) : f \in DOMAIN row} |->
        row[CHOOSE f \in DOMAIN row : Renamed(f) = k]]

NamedOver(row, fields) ==
    CASE shapeArgs.naming = "titles" -> TitledOver(row, fields)
      [] shapeArgs.naming = "short" -> Shortened(row)
      [] OTHER -> row

NamedWhatItHas(row, sel) == NamedOver(row, FinalFields(sel) \cap DOMAIN row)
Named(row, sel) == NamedOver(row, FinalFields(sel))

(* do_row: the callbacks in their order. *)
RowsOf(row, sel) ==
    LET clean == WithNulls(WithoutExcluded(WithReport(row), sel), sel)
        entities == PerEntity(clean)
        items == FlattenSeq([n \in DOMAIN entities |-> PerItem(Flattened(entities[n], sel))])
    IN  [n \in DOMAIN items |-> Named(Joined(items[n]), sel)]

-----------------------------------------------------------------------------
ShapeInit ==
    /\ shapeArgs \in RowArgs
    /\ include = shapeArgs.details
    /\ excludes = shapeArgs.field_excludes
    /\ selected = {}
    /\ columns = {}
    /\ taken = << >>
    /\ made = << >>
    /\ shapePhase = "new"

(* start: entities need the details, and some details are never shown. *)
Start ==
    /\ shapePhase = "new"
    /\ include' = (include \/ shapeArgs.explode_entities)
    /\ excludes' = IF include' THEN excludes \cup DetailsExclude ELSE excludes
    /\ shapePhase' = "started"
    /\ UNCHANGED <<shapeArgs, selected, columns, taken, made>>

(* What the server sends of a row: what was asked for. *)
Sent(row) ==
    Restrict(row, {f \in DOMAIN row :
        /\ f \in {"hostname", "hostname_details"} => "hostname" \in shapeArgs.fields
        /\ f \in {"software", "software_details"} => "software" \in shapeArgs.fields
        /\ IsDetails(f) => include})

(* schemas_selected and final_columns raise for a field_explode that names
   nothing, the software report when the software was not asked for.       *)
NotFound(sel) ==
    \/ /\ shapeArgs.field_explode # ""
       /\ shapeArgs.field_explode \notin sel
    \/ /\ shapeArgs.report = "software"
       /\ "software" \notin sel

(* process_row: do_pre_row, or do_start of a CSV file before there is any row,
   keeps the schemas.  The CSV writer's fieldnames are the very list of
   final_columns: with csv_key_extras "extend" write_row adds the keys of a row
   that are not among them, after the header was written without them.      *)
ProcessRow(row) ==
    /\ \/ /\ shapePhase = "started"
          /\ row \in {Sent(r) : r \in FirstRows}
       \/ /\ shapePhase = "later"
          /\ row \in {Sent(r) : r \in LaterRows}
    /\ taken' = row
    /\ selected' = IF selected # {} THEN selected
                   ELSE SchemasSelected(IF shapeArgs.export = "csv" THEN {} ELSE {row})
    /\ IF NotFound(selected')
       THEN /\ shapePhase' = "failed"
            /\ made' = << >>
            /\ UNCHANGED columns
       ELSE /\ shapePhase' = IF shapePhase = "started" THEN "later" ELSE "done"
            /\ made' = RowsOf(row, selected')
            /\ columns' = (IF columns # {} THEN columns ELSE FinalColumns(selected'))
                          \cup (IF shapeArgs.export = "csv"
                                THEN UNION {DOMAIN made'[n] : n \in DOMAIN made'} ELSE {})
    /\ UNCHANGED <<shapeArgs, include, excludes>>

ShapeNext == Start \/ \E row \in {Sent(r) : r \in FirstRows \cup LaterRows} : ProcessRow(row)

-----------------------------------------------------------------------------
(* The state has its shape: what is kept names fields, what was made are
   rows of lists and single values.                                        *)
ShapeTypeOK ==
    /\ excludes \in {shapeArgs.field_excludes, shapeArgs.field_excludes \cup DetailsExclude}
    /\ include \in BOOLEAN
    /\ IsFiniteSet(selected \cup columns)
    /\ shapePhase \in {"new", "started", "later", "failed", "done"}
    /\ \A n \in DOMAIN made : \A k \in DOMAIN made[n] :
            /\ made[n][k].list \in BOOLEAN
            /\ made[n][k].list \/ Len(made[n][k].of) = 1 \/ shapeArgs.field_join

(* Keys of a row that no column stands for: they came with a later row, or are
   the details of a complex field that was flattened, or are an excluded field
   that comes back out of its details, which are excluded by another name.  *)
Strays ==
    {f \in DOMAIN taken : f \notin selected}
        \cup {f \in DOMAIN taken : /\ IsComplex(f) /\ IsDetails(f)
                                   /\ shapeArgs.field_flatten}
        \cup {f \in excludes : /\ shapeArgs.explode_entities
                               /\ DetailsOf(f) \in DOMAIN taken}

WithoutDetails(sel) == {f \in sel : ~IsDetails(f)}

(* The keys of the rows and the columns that are announced (final_columns),
   whichever callbacks rewrite them: with titles every announced column is in
   every row.  With nulls that are filled in every column is that is announced
   for a field which is not one of details (those are never filled), unless
   entities take the row apart, which have only what is known of them.  And a
   row has no other keys but strays, which have no column, nor a place under the
   header of a CSV file.                                                     *)
RowsMatchColumns ==
    \A n \in DOMAIN made :
        LET keys == DOMAIN made[n]
        IN  /\ shapeArgs.naming = "titles" => FinalColumns(selected) \subseteq keys
            /\ shapeArgs.field_null /\ ~shapeArgs.explode_entities =>
                    FinalColumns(WithoutDetails(selected)) \subseteq keys
            /\ keys \subseteq FinalColumns(selected)
                                 \cup {ColumnOf(f) : f \in Strays} \cup Strays

(* The assets or entities a row stands for, with what is known of them before
   any callback but for what is excluded: host names and software.          *)
Sources(row) ==
    LET detail(f, n) ==
            LET d == DetailsOf(f)
            IN  IF d \in DOMAIN row /\ n \in DOMAIN row[d].of /\ ~Excluded(d)
                THEN row[d].of[n].of ELSE << >>
    IN  IF ~shapeArgs.explode_entities
        THEN << [adapter |-> "", hostname |-> ItemsOf(row, "hostname"),
                 software |-> ItemsOf(row, "software")] >>
        ELSE [n \in DOMAIN row.adapters.of |->
                [adapter |-> row.adapters.of[n], hostname |-> detail("hostname", n),
                 software |-> detail("software", n)]]

(* What a source has of the field that is exploded. *)
ItemsFor(source) ==
    LET f == shapeArgs.field_explode
    IN  IF f = "" \/ Excluded(f) THEN << >> ELSE source[f]

RowsFor(source) == IF ItemsFor(source) = << >> THEN 1 ELSE Len(ItemsFor(source))

(* The rows to expect, in their order, by source and by item. *)
Expected(sources) ==
    FlattenSeq([i \in DOMAIN sources |->
        [n \in 1..RowsFor(sources[i]) |-> [source |-> i, item |-> n]]])

(* The n-th row of a source is of its adapter, and shows its n-th item. *)
ShowsItem(row, source, n) ==
    LET f == shapeArgs.field_explode
        items == ItemsFor(source)
    IN  /\ shapeArgs.explode_entities =>
              row[ColumnOf("adapters")].of = <<source.adapter>>
        /\ n \in DOMAIN items =>
              IF f = "software"
              THEN \A s \in OpenSubs : row[ColumnOf(SubField(s))].of = SubOf(items[n], s).of
              ELSE row[ColumnOf(f)].of = <<items[n]>>

(* What of a row is that of an item: the rest is alike in all of a source. *)
OwnColumns ==
    {ColumnOf(shapeArgs.field_explode)} \cup {ColumnOf(SubField(s)) : s \in OpenSubs}

(* A flattened row keeps the items of its complex field in its columns. *)
FlattensSoftware ==
    /\ shapeArgs.field_flatten
    /\ shapeArgs.field_explode # "software"
    /\ ~Excluded("software")
    /\ "software" \in shapeArgs.fields

(* Every sub-field's column has the items' values in their order; where each
   item has one value, the n-th item's is at the n-th place.                *)
ColumnsAligned(row, source) ==
    LET items == source.software
    IN  FlattensSoftware => \A s \in OpenSubs :
            LET values == [n \in DOMAIN items |-> SubOf(items[n], s).of]
            IN  /\ row[ColumnOf(SubField(s))].of = FlattenSeq(values)
                /\ (\A n \in DOMAIN items : Len(values[n]) = 1) =>
                      row[ColumnOf(SubField(s))].of = [n \in DOMAIN items |-> values[n][1]]

AllKept(row, rows) ==
    LET sources == Sources(row)
        expected == Expected(sources)
    IN  /\ Len(rows) = Len(expected)
        /\ \A p \in DOMAIN expected :
              LET source == sources[expected[p].source]
              IN  /\ ShowsItem(rows[p], source, expected[p].item)
                  /\ ColumnsAligned(rows[p], source)
                  /\ \A q \in DOMAIN expected : expected[q].source = expected[p].source =>
                        Without(rows[q], OwnColumns) = Without(rows[p], OwnColumns)

(* No item is lost, repeated or moved before another one, from the row that
   came to the rows with their final names: field_explode makes a row per item,
   explode_entities a block of them per entity, and field_flatten has the
   values of each sub-field in the order of the items.  That the values of one
   item stand at the same place in all of its columns is true only where every
   item has one value of each sub-field: a list is spliced in (see
   FlatCorrelated).  Without its adapters an asset has no entities.          *)
ItemsKept ==
    shapePhase \in {"later", "done"} /\ "adapters" \notin excludes => AllKept(taken, made)

(* Flattened sub-fields have "their values index correlated to each other"
   (args_map, base.py:72-73): every one of their columns has a place for each
   item, whatever the item has there.                                       *)
FlatCorrelated ==
    shapePhase \in {"later", "done"} /\ "adapters" \notin excludes =>
        LET sources == Sources(taken)
            expected == Expected(sources)
        IN  \A p \in DOMAIN expected :
              FlattensSoftware => \A s \in OpenSubs :
                  Len(made[p][ColumnOf(SubField(s))].of)
                      = Len(sources[expected[p].source].software)

=============================================================================
