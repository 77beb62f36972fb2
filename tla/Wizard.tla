------------------------------- MODULE Wizard -------------------------------
(***************************************************************************)
(* The query wizards: filters with flags become the expressions of a query *)
(* (Wizard.parse), and the rows of a CSV file become saved queries with    *)
(* the filters below them (WizardCsv.parse).  A pass over the filters      *)
(* completes the brackets and weighs the filters inside them; it writes    *)
(* into the entries it is given, so they can be parsed a second time.      *)
(*                                                                         *)
(* A filter is an entry [flags, bad]: its flags, written before or behind  *)
(* its value or given as a list, and whether its text is refused (unknown  *)
(* field, operator or type).  What a filter asks for is left out.          *)
(***************************************************************************)
EXTENDS Integers, FiniteSets, SequencesExt

CONSTANTS
    FlagSets,       \* the sets of flags a filter may have
    MaxRows         \* rows of a file

ASSUME FlagsAssumption == FlagSets \subseteq SUBSET {"(", ")", "!", "|"}

VARIABLES
    rows,           \* the rows of the file read so far, as they were written
    sqs,            \* SQS: saved queries, [filters, exprs] each
    sq_entries,     \* SQ_ENTRIES: the entries below the last saved query
    wizardPhase     \* "reading", "done" or "failed"

wizardVars == <<rows, sqs, sq_entries, wizardPhase>>

Filters == [type : {"filter"}, flags : FlagSets, bad : BOOLEAN]

-----------------------------------------------------------------------------
(* _parse_flags, over all entries: what is known after each of them. *)

Untracked == [entries |-> << >>, is_open |-> FALSE, tracker |-> 0]

WithFlag(entry, flag) == [entry EXCEPT !.flags = @ \cup {flag}]

NotClosing(seen, flags) == seen.entries

(* A bracket opened inside brackets closes those at the entry before. *)
Closing(seen, flags) ==
    IF seen.is_open /\ "(" \in flags
    THEN [seen.entries EXCEPT ![Len(seen.entries)] = WithFlag(@, ")")]
    ELSE seen.entries

ParseFlags(seen, entry, is_last) ==
    LET opens == "(" \in entry.flags \/ (~seen.is_open /\ ")" \in entry.flags)
        closes == \/ ")" \in entry.flags
                  \/ is_last /\ (seen.is_open \/ opens)
        weight == IF opens THEN -1 ELSE IF seen.is_open THEN seen.tracker + 1 ELSE 0
        flags == entry.flags \cup (IF opens THEN {"("} ELSE {})
                             \cup (IF closes THEN {")"} ELSE {})
    IN  [ entries |-> Append(Closing(seen, entry.flags),
                             [flags |-> flags, weight |-> weight, bad |-> entry.bad]),
          is_open |-> (seen.is_open \/ opens) /\ ")" \notin entry.flags,
          tracker |-> IF seen.is_open /\ ~opens /\ ~closes THEN seen.tracker + 1 ELSE 0 ]

(* _parse_entries: what is known before any entry, and after each. *)
Seen(entries) ==
    LET seen[n \in 0..Len(entries)] ==
            IF n = 0 THEN Untracked
            ELSE ParseFlags(seen[n - 1], entries[n], n = Len(entries))
    IN  seen

ParseEntries(entries) == Seen(entries)[Len(entries)].entries

(* Expr.build: what the GUI is told of a filter, and how the filter stands in
   the query.                                                              *)
ExprOf(entries, n) ==
    [ leftBracket |-> "(" \in entries[n].flags,
      rightBracket |-> ")" \in entries[n].flags,
      not |-> "!" \in entries[n].flags,
      logicOp |-> IF n = 1 THEN "" ELSE IF "|" \in entries[n].flags THEN "or" ELSE "and",
      bracketWeight |-> entries[n].weight ]

(* Wizard.parse: _parse_exprs raises at a filter whose text is refused. *)
Refused(entries) == \E n \in DOMAIN entries : entries[n].bad

Exprs(entries) ==
    LET parsed == ParseEntries(entries) IN [n \in DOMAIN parsed |-> ExprOf(parsed, n)]

-----------------------------------------------------------------------------
WizardInit ==
    /\ rows = << >>
    /\ sqs = << >>
    /\ sq_entries = << >>
    /\ wizardPhase = "reading"

(* _process_sq_entries: the filters so far are the last saved query's. *)
Completed(entries) ==
    IF entries = << >> THEN sqs
    ELSE [sqs EXCEPT ![Len(sqs)] = [filters |-> entries, exprs |-> Exprs(entries)]]

NoFilters == [filters |-> << >>, exprs |-> << >>]

(* The answer to a row: the next one is read, or the loop is over. *)
After(is_last) == IF is_last THEN "done" ELSE "reading"

(* _process_sq, a row that begins a saved query: the filters above it are
   parsed, _new_sq forgets them.                                           *)
SavedQueryRow(is_last) ==
    /\ wizardPhase = "reading"
    /\ Len(rows) < MaxRows
    /\ rows' = Append(rows, [type |-> "saved_query"])
    /\ IF Refused(sq_entries)
       THEN /\ wizardPhase' = "failed"
            /\ UNCHANGED <<sqs, sq_entries>>
       ELSE /\ wizardPhase' = After(is_last)
            /\ sqs' = Append(Completed(sq_entries), NoFilters)
            /\ sq_entries' = << >>

(* A filter is kept for the saved query above it, and there must be one; the
   filter in the last row has the filters parsed.                          *)
FilterRow(filter, is_last) ==
    /\ wizardPhase = "reading"
    /\ Len(rows) < MaxRows
    /\ rows' = Append(rows, filter)
    /\ sq_entries' = Append(sq_entries, filter)
    /\ IF sqs = << >> \/ (is_last /\ Refused(sq_entries'))
       THEN /\ wizardPhase' = "failed"
            /\ UNCHANGED sqs
       ELSE /\ wizardPhase' = After(is_last)
            /\ sqs' = IF is_last THEN Completed(sq_entries') ELSE sqs

WizardNext ==
    \E is_last \in BOOLEAN :
        \/ SavedQueryRow(is_last)
        \/ \E filter \in Filters : FilterRow(filter, is_last)

-----------------------------------------------------------------------------
(* The state has its shape. *)
WizardTypeOK ==
    /\ rows \in Seq(Filters \cup {[type |-> "saved_query"]})
    /\ sq_entries \in Seq(Filters)
    /\ wizardPhase \in {"reading", "done", "failed"}
    /\ \A q \in Range(sqs) : q.filters \in Seq(Filters) /\ Len(q.exprs) = Len(q.filters)

IsQuery(n) == rows[n].type = "saved_query"

(* The filters of the q-th saved query are those in the rows below the q-th row
   that begins one, up to the next or to the end.                          *)
UnderTheirQuery ==
    \A q \in DOMAIN sqs :
        q < Len(sqs) \/ wizardPhase = "done" =>
            \E first, next \in 1..(Len(rows) + 1) :
                /\ first < next /\ IsQuery(first)
                /\ Cardinality({n \in 1..first : IsQuery(n)}) = q
                /\ next = Len(rows) + 1 \/ IsQuery(next)
                /\ \A n \in (first + 1)..(next - 1) : ~IsQuery(n)
                /\ sqs[q].filters = SubSeq(rows, first + 1, next - 1)

Lefts(exprs, n) == Cardinality({i \in 1..n : exprs[i].leftBracket})
Rights(exprs, n) == Cardinality({i \in 1..n : exprs[i].rightBracket})

(* Brackets are never nested, and all are closed in the end. *)
Balanced(exprs) ==
    /\ \A n \in DOMAIN exprs : /\ Lefts(exprs, n) - Rights(exprs, n - 1) \in {0, 1}
                              /\ Lefts(exprs, n) >= Rights(exprs, n)
    /\ Lefts(exprs, Len(exprs)) = Rights(exprs, Len(exprs))

(* A bracket that was written stays where it was; one is added only for a ")"
   without its "(", before a "(" inside brackets, or at the end.            *)
AsWritten(filters, exprs) ==
    \A n \in DOMAIN exprs :
        LET written == filters[n].flags IN
        /\ "(" \in written => exprs[n].leftBracket
        /\ ")" \in written => exprs[n].rightBracket
        /\ exprs[n].leftBracket => "(" \in written \/ ")" \in written
        /\ exprs[n].rightBracket => \/ ")" \in written
                                   \/ n = Len(exprs)
                                   \/ "(" \in filters[n + 1].flags

(* The weights count the filters inside brackets from the one that opens
   them, which has -1; outside of brackets they are 0.                     *)
Weighed(exprs) ==
    \A n \in DOMAIN exprs :
        LET open == Lefts(exprs, n) > Rights(exprs, n - 1)
            left == CHOOSE i \in 1..n : /\ exprs[i].leftBracket
                                        /\ \A j \in (i + 1)..n : ~exprs[j].leftBracket
        IN  exprs[n].bracketWeight =
                IF ~open THEN 0 ELSE IF left = n THEN -1 ELSE n - left

(* parse() writes the flags it adds into the entries, and parses them to the
   same expressions when it is given them again.                           *)
ParsedAgainAlike(filters, exprs) ==
    LET parsed == ParseEntries(filters)
    IN  Exprs([n \in DOMAIN filters |-> [filters[n] EXCEPT !.flags = parsed[n].flags]]) = exprs

(* What the wizards make of flags, from their pass over the filters to the
   expressions of the query: each saved query has its own filters, with
   brackets that balance, keep what was written and are weighed, also when
   they are parsed a second time.                                          *)
FiltersGrouped ==
    /\ wizardPhase # "failed" => UnderTheirQuery
    /\ \A q \in Range(sqs) :
            /\ Balanced(q.exprs)
            /\ AsWritten(q.filters, q.exprs)
            /\ Weighed(q.exprs)
            /\ ParsedAgainAlike(q.filters, q.exprs)

=============================================================================
