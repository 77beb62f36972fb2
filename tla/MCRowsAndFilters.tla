--------------------------- MODULE MCRowsAndFilters ---------------------------
(***************************************************************************)
(* The two parts of the client that rewrite lists without asking a server: *)
(* the callbacks of a row (RowShape) and the query wizards (Wizard).  They *)
(* share no state; `which` is chosen at the start, and a behaviour is of   *)
(* one of them.  The arguments of a call are those that meet each other in *)
(* the code: formats among themselves, formats with the writer of a CSV    *)
(* file, formats with reports.                                             *)
(***************************************************************************)
EXTENDS RowShape, Wizard

VARIABLE which

PlainRow ==
    [ fields |-> {"hostname", "software"}, field_null |-> FALSE, field_excludes |-> {},
      field_flatten |-> FALSE, field_explode |-> "", explode_entities |-> FALSE,
      details |-> FALSE, field_join |-> FALSE, naming |-> "qual", report |-> "",
      export |-> "base" ]

Entities == {<<FALSE, FALSE>>, <<FALSE, TRUE>>, <<TRUE, FALSE>>}

FormatArgs ==
    { [PlainRow EXCEPT !.field_null = n, !.field_excludes = e, !.field_flatten = f,
                       !.field_explode = x, !.explode_entities = s[1], !.details = s[2],
                       !.naming = m] :
        n \in BOOLEAN, e \in {{}, {"hostname"}, {"labels"}, {"software.name"}, {"adapters"}},
        f \in BOOLEAN, x \in {"", "hostname", "software"}, s \in Entities,
        m \in {"qual", "titles", "short"} }

CsvArgs ==
    { [a EXCEPT !.export = "csv", !.field_join = TRUE] :
        a \in {b \in FormatArgs : b.field_null /\ b.field_flatten} }

ReportArgs ==
    { [a EXCEPT !.report = r, !.fields = w] :
        a \in {b \in FormatArgs : b.naming # "short" /\ b.field_flatten
                                 /\ b.field_excludes \in {{}, {"labels"}}},
        r \in {"", "adapters", "software", "dates"}, w \in {{"hostname"}, {"hostname", "software"}} }

Args == FormatArgs \cup CsvArgs \cup ReportArgs

Item(n, l) == [name |-> One(n), labels |-> List(l)]
Bare(n) == [name |-> One(n)]

RowOf(adapters, hosts, software, late) ==
    [ f \in {"internal_axon_id", "adapters", "labels"}
              \cup (IF hosts = << >> THEN {} ELSE {"hostname", "hostname_details"})
              \cup (IF software = << >> THEN {} ELSE {"software", "software_details"})
              \cup {"meta_data.client_used"}
              \cup (IF late THEN {"late"} ELSE {}) |->
        CASE f = "internal_axon_id" -> One("id")
          [] f = "adapters" -> List(adapters)
          [] f = "labels" -> List(<<"tag">>)
          [] f = "hostname" -> List(hosts)
          [] f = "hostname_details" -> List([n \in DOMAIN hosts |-> One(hosts[n])])
          [] f = "software" -> List(FlattenSeq(software))
          [] f = "software_details" -> List([n \in DOMAIN software |-> List(software[n])])
          [] f = "meta_data.client_used" -> List([n \in DOMAIN adapters |-> One(adapters[n])])
          [] f = "late" -> One("late") ]

First == { RowOf(<<"aws">>, <<"h1">>, << >>, late) : late \in BOOLEAN }

Many == << <<Bare("chrome"), Item("edge", <<"l1", "l2">>)>>, <<Item("slack", <<"l3">>)>> >>

Later ==
    { RowOf(a, h[1], h[2], FALSE) :
        a \in {<<"aws">>, <<"aws", "ad">>},
        h \in {<< << >>, << >> >>, << <<"h1">>, << <<Item("chrome", <<"l1">>)>> >> >>,
               << <<"h1", "h2">>, Many>>, << <<"h1", "h2">>, << >> >>} }
    \cup {RowOf(<<"aws", "ad">>, <<"h1">>, Many, TRUE)}
AllAdapters == <<"ad", "aws", "tanium">>
White == {"chrome", "zoom"}

SomeFlags == {{}, {"("}, {")"}, {"(", ")"}, {"|"}, {"|", "("}, {"!", ")"}}

vars == <<which, shapeVars, wizardVars>>

Init ==
    /\ which \in {"rows", "filters"}
    /\ ShapeInit /\ WizardInit
    /\ which = "filters" => shapeArgs = PlainRow

Next ==
    \/ /\ which = "rows" /\ ShapeNext
       /\ UNCHANGED <<which, wizardVars>>
    \/ /\ which = "filters" /\ WizardNext
       /\ UNCHANGED <<which, shapeVars>>

Spec == Init /\ [][Next]_vars

(* Both parts have their shape: what process_row keeps and makes of a row, and
   what the CSV wizard has read and parsed.                                  *)
RowsAndFiltersTypeOK == ShapeTypeOK /\ WizardTypeOK
=============================================================================
