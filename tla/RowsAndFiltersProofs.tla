------------------------- MODULE RowsAndFiltersProofs -------------------------
(***************************************************************************)
(* What holds of the query wizards for every CSV file and every sequence of*)
(* filters, and of the rows that the callbacks make for every row and      *)
(* every call: the types of both; the wizards put the filters of a query   *)
(* under that query, with its brackets balanced; rows have the columns that*)
(* are announced; no item of a row is lost, repeated or moved before       *)
(* another one.                                                            *)
(*                                                                         *)
(* The pass over the filters is a recursive function of their number, so   *)
(* what it keeps is shown by induction over it (StepsTaken): Held is what  *)
(* a prefix of the pass has done to the brackets, and the second pass over *)
(* what the first one made changes nothing that FiltersGrouped tells apart.*)
(*                                                                         *)
(* A row is followed through the callbacks by its keys, and by what its    *)
(* values are: as it came (Came), on its way (Holds, Fits), with complex   *)
(* fields apart (Shaped) and with its final names (Done). Its items are    *)
(* followed by what is known of their source (Known) and by what the rows  *)
(* made of them show (FieldsShown), up to the columns they end in.         *)
(***************************************************************************)
EXTENDS MCRowsAndFilters, FiniteSetTheorems, PagingLemmas

-----------------------------------------------------------------------------
(* The query wizards: the pass over the filters.                           *)

Flags == {"(", ")", "!", "|"}

\* Filters with any flags: also those that a pass has completed.
Entries == [type : {"filter"}, flags : SUBSET Flags, bad : BOOLEAN]

ParsedEntries == [flags : SUBSET Flags, weight : Int, bad : BOOLEAN]

SeenStates == [entries : Seq(ParsedEntries), is_open : BOOLEAN, tracker : Int]

\* The pass starts without brackets.
LEMMA UntrackedIsSeen == Untracked \in SeenStates
BY EmptySeq DEF Untracked, SeenStates

\* An entry's parsed form, as it is appended.
LEMMA ClosingType ==
    ASSUME NEW seen \in SeenStates, NEW flags
    PROVE  /\ Closing(seen, flags) \in Seq(ParsedEntries)
           /\ Len(Closing(seen, flags)) = Len(seen.entries)
           /\ \A n \in 1..Len(seen.entries) :
                Closing(seen, flags)[n] =
                    IF n = Len(seen.entries) /\ seen.is_open /\ "(" \in flags
                    THEN WithFlag(seen.entries[n], ")") ELSE seen.entries[n]
<1> DEFINE s == seen.entries
<1>1. s \in Seq(ParsedEntries)
    BY DEF SeenStates
<1>2. CASE seen.is_open /\ "(" \in flags
  <2> DEFINE t == [s EXCEPT ![Len(s)] = WithFlag(@, ")")]
  <2>1. Closing(seen, flags) = t
      BY <1>2 DEF Closing
  <2>2. \A e \in ParsedEntries : WithFlag(e, ")") \in ParsedEntries
    <3>1. ASSUME NEW e \in ParsedEntries
          PROVE  [e EXCEPT !.flags = @ \cup {")"}] \in ParsedEntries
        BY DEF ParsedEntries, Flags
    <3>2. QED
        BY <3>1 DEF WithFlag
  <2>3. \A n \in 1..Len(s) : t[n] = IF n = Len(s) THEN WithFlag(s[n], ")") ELSE s[n]
      BY <1>1
  <2>4. DOMAIN t = 1..Len(s) /\ t = [n \in 1..Len(s) |-> t[n]]
      BY <1>1
  <2>5. \A n \in 1..Len(s) : t[n] \in ParsedEntries
      BY <1>1, <2>2, <2>3
  <2>6. t \in Seq(ParsedEntries) /\ Len(t) = Len(s)
    <3> HIDE DEF t, s
    <3>1. Len(s) \in Nat
        BY <1>1
    <3>2. t \in [1..Len(s) -> ParsedEntries]
        BY <2>4, <2>5
    <3>3. QED
        BY <3>1, <3>2, <2>4
  <2>7. QED
      BY <1>2, <2>1, <2>3, <2>6
<1>3. CASE ~(seen.is_open /\ "(" \in flags)
    BY <1>1, <1>3 DEF Closing
<1>4. QED
    BY <1>2, <1>3

LEMMA ParseFlagsType ==
    ASSUME NEW seen \in SeenStates, NEW entry \in Entries, NEW is_last \in BOOLEAN
    PROVE  ParseFlags(seen, entry, is_last) \in SeenStates
<1>1. Closing(seen, entry.flags) \in Seq(ParsedEntries)
    BY ClosingType
<1>2. entry.flags \in SUBSET Flags /\ entry.bad \in BOOLEAN
    BY DEF Entries
<1>3. seen.is_open \in BOOLEAN /\ seen.tracker \in Int
    BY DEF SeenStates
<1> DEFINE opens == "(" \in entry.flags \/ (~seen.is_open /\ ")" \in entry.flags)
           closes == \/ ")" \in entry.flags
                     \/ is_last /\ (seen.is_open \/ opens)
           weight == IF opens THEN -1 ELSE IF seen.is_open THEN seen.tracker + 1 ELSE 0
           flags == entry.flags \cup (IF opens THEN {"("} ELSE {})
                                \cup (IF closes THEN {")"} ELSE {})
           parsed == [flags |-> flags, weight |-> weight, bad |-> entry.bad]
           open == (seen.is_open \/ opens) /\ ")" \notin entry.flags
           tracker == IF seen.is_open /\ ~opens /\ ~closes THEN seen.tracker + 1 ELSE 0
<1>4. flags \in SUBSET Flags
    BY <1>2 DEF Flags
<1>5. weight \in Int /\ tracker \in Int /\ open \in BOOLEAN
    BY <1>3
<1>6. ParseFlags(seen, entry, is_last)
        = [entries |-> Append(Closing(seen, entry.flags), parsed),
           is_open |-> open, tracker |-> tracker]
    BY DEF ParseFlags
<1> HIDE DEF opens, closes, weight, flags, open, tracker
<1>7. parsed \in ParsedEntries
    BY <1>2, <1>4, <1>5 DEF ParsedEntries
<1>8. Append(Closing(seen, entry.flags), parsed) \in Seq(ParsedEntries)
  <2> HIDE DEF parsed
  <2>1. QED
      BY <1>1, <1>7
<1>9. QED
  <2> HIDE DEF parsed
  <2>1. QED
      BY <1>5, <1>6, <1>8 DEF SeenStates

\* The pass goes over the entries one after the other.
LEMMA SeenProperties ==
    ASSUME NEW E \in Seq(Entries)
    PROVE  /\ Len(E) \in Nat
           /\ Seen(E) \in [0..Len(E) -> SeenStates]
           /\ Seen(E)[0] = Untracked
           /\ \A n \in 1..Len(E) :
                Seen(E)[n] = ParseFlags(Seen(E)[n - 1], E[n], n = Len(E))
<1> DEFINE L == Len(E)
           step == [n \in 1..L |-> [seen \in SeenStates |-> ParseFlags(seen, E[n], n = L)]]
           All(g) == [n \in 0..L |-> IF n = 0 THEN Untracked
                                     ELSE ParseFlags(g[n - 1], E[n], n = L)]
<1>1. L \in Nat /\ \A n \in 1..L : E[n] \in Entries
    OBVIOUS
<1>2. step \in [1..L -> [SeenStates -> SeenStates]]
  <2>1. \A n \in 1..L : \A seen \in SeenStates : ParseFlags(seen, E[n], n = L) \in SeenStates
      BY <1>1, ParseFlagsType
  <2>2. QED
      BY <2>1
<1>3. PICK g : Takes(SeenStates, Untracked, L, step, g)
  <2> HIDE DEF step
  <2>1. QED
      BY <1>1, <1>2, UntrackedIsSeen, StepsTaken
<1>4. /\ g \in [0..L -> SeenStates] /\ g[0] = Untracked
      /\ \A n \in 1..L : g[n] = ParseFlags(g[n - 1], E[n], n = L)
  <2>1. /\ g \in [0..L -> SeenStates] /\ g[0] = Untracked
        /\ \A n \in 1..L : g[n] = step[n][g[n - 1]]
      BY <1>3 DEF Takes
  <2>2. ASSUME NEW n \in 1..L
        PROVE  g[n] = ParseFlags(g[n - 1], E[n], n = L)
    <3>1. n - 1 \in 0..L
        BY <1>1
    <3>2. g[n - 1] \in SeenStates /\ g[n] = step[n][g[n - 1]]
        BY <2>1, <3>1
    <3>3. QED
        BY <3>2
  <2>3. QED
      BY <2>1, <2>2
<1>5. g = All(g)
  <2>1. \A n \in 0..L : g[n] = IF n = 0 THEN Untracked ELSE ParseFlags(g[n - 1], E[n], n = L)
    <3>1. TAKE n \in 0..L
    <3>2. n = 0 \/ n \in 1..L
        BY <1>1
    <3>3. QED
        BY <1>1, <1>4, <3>2
  <2>2. g = [n \in 0..L |-> g[n]]
      BY <1>4
  <2>3. QED
      BY <2>1, <2>2
<1> DEFINE seen == CHOOSE h : h = All(h)
<1>6. seen = All(seen)
    BY <1>5
<1>7. Seen(E) = seen
    BY DEF Seen
<1> HIDE DEF seen
<1>8. seen[0] = Untracked
    BY <1>1, <1>6
<1>9. \A n \in 1..L : seen[n] = ParseFlags(seen[n - 1], E[n], n = L)
    BY <1>1, <1>6
<1>10. \A n \in 0..L : seen[n] = g[n]
  <2>1. \A n \in 1..L : seen[n - 1] = g[n - 1] => seen[n] = g[n]
      BY <1>4, <1>9
  <2>2. seen[0] = g[0]
      BY <1>4, <1>8
  <2> HIDE DEF L
  <2>3. QED
      BY <1>1, <2>1, <2>2, StepsAlike
<1>11. seen \in [0..L -> SeenStates]
  <2>1. DOMAIN seen = 0..L /\ seen = [n \in 0..L |-> seen[n]]
      BY <1>6
  <2>2. \A n \in 0..L : seen[n] \in SeenStates
      BY <1>4, <1>10
  <2>3. QED
      BY <2>1, <2>2
<1>12. QED
    BY <1>1, <1>7, <1>8, <1>9, <1>11

\* What is known after n entries, and what becomes of the n-th.
Open(E, n) == Seen(E)[n].is_open
Tracker(E, n) == Seen(E)[n].tracker
Opens(E, n) == "(" \in E[n].flags \/ (~Open(E, n - 1) /\ ")" \in E[n].flags)
Closes(E, n) == ")" \in E[n].flags \/ (n = Len(E) /\ (Open(E, n - 1) \/ Opens(E, n)))
ClosedByNext(E, n) == n < Len(E) /\ Open(E, n) /\ "(" \in E[n + 1].flags

Weight(E, n) ==
    IF Opens(E, n) THEN -1 ELSE IF Open(E, n - 1) THEN Tracker(E, n - 1) + 1 ELSE 0

Appended(E, n) ==
    [ flags |-> E[n].flags \cup (IF Opens(E, n) THEN {"("} ELSE {})
                           \cup (IF Closes(E, n) THEN {")"} ELSE {}),
      weight |-> Weight(E, n),
      bad |-> E[n].bad ]

InTheEnd(E, n) == IF ClosedByNext(E, n) THEN WithFlag(Appended(E, n), ")") ELSE Appended(E, n)

\* A step of the pass, in these terms.
LEMMA SeenStep ==
    ASSUME NEW E \in Seq(Entries), NEW n \in 1..Len(E)
    PROVE  /\ Seen(E)[n].entries = Append(Closing(Seen(E)[n - 1], E[n].flags), Appended(E, n))
           /\ Open(E, n) = ((Open(E, n - 1) \/ Opens(E, n)) /\ ")" \notin E[n].flags)
           /\ Tracker(E, n) = IF Open(E, n - 1) /\ ~Opens(E, n) /\ ~Closes(E, n)
                              THEN Tracker(E, n - 1) + 1 ELSE 0
<1>1. Seen(E)[n] = ParseFlags(Seen(E)[n - 1], E[n], n = Len(E))
    BY SeenProperties
<1>2. QED
    BY <1>1 DEF ParseFlags, Open, Tracker, Opens, Closes, Weight, Appended

LEMMA SeenTypes ==
    ASSUME NEW E \in Seq(Entries), NEW n \in 0..Len(E)
    PROVE  Open(E, n) \in BOOLEAN /\ Tracker(E, n) \in Int /\ Seen(E)[n] \in SeenStates
<1>1. Seen(E)[n] \in SeenStates
    BY SeenProperties
<1>2. QED
    BY <1>1 DEF Open, Tracker, SeenStates

LEMMA AppendedType ==
    ASSUME NEW E \in Seq(Entries), NEW n \in 1..Len(E)
    PROVE  Appended(E, n) \in ParsedEntries /\ InTheEnd(E, n) \in ParsedEntries
<1>1. n - 1 \in 0..Len(E) /\ E[n] \in Entries
    OBVIOUS
<1>2. Open(E, n - 1) \in BOOLEAN /\ Tracker(E, n - 1) \in Int
    BY <1>1, SeenTypes
<1>3. E[n].flags \in SUBSET Flags /\ E[n].bad \in BOOLEAN
    BY <1>1 DEF Entries
<1>4. Weight(E, n) \in Int
    BY <1>2 DEF Weight
<1>5. Appended(E, n) \in ParsedEntries
    BY <1>3, <1>4 DEF Appended, ParsedEntries, Flags
<1>6. WithFlag(Appended(E, n), ")") \in ParsedEntries
    BY <1>5 DEF WithFlag, ParsedEntries, Flags
<1>7. QED
    BY <1>5, <1>6 DEF InTheEnd

\* After n entries, those before the last are as they will be.
LEMMA EntriesSoFar ==
    ASSUME NEW E \in Seq(Entries), NEW n \in 0..Len(E)
    PROVE  LET p == Seen(E)[n].entries
           IN  /\ p \in Seq(ParsedEntries) /\ Len(p) = n
               /\ \A i \in 1..n : p[i] = IF i = n THEN Appended(E, i) ELSE InTheEnd(E, i)
<1> DEFINE p(m) == Seen(E)[m].entries
           OK(m) == /\ Len(p(m)) = m
                    /\ \A i \in 1..m : p(m)[i] = IF i = m THEN Appended(E, i) ELSE InTheEnd(E, i)
           S == {m \in Nat : m <= Len(E) => OK(m)}
<1>1. Len(E) \in Nat
    OBVIOUS
<1>2. 0 \in S
  <2>1. p(0) = <<>>
      BY SeenProperties DEF Untracked
  <2>2. QED
      BY <2>1
<1>3. ASSUME NEW m \in Nat, m \in S
      PROVE  m + 1 \in S
  <2>1. SUFFICES ASSUME m + 1 <= Len(E)
                 PROVE  OK(m + 1)
      OBVIOUS
  <2>2. m + 1 \in 1..Len(E) /\ (m + 1) - 1 = m /\ m \in 0..Len(E)
      BY <1>1, <2>1
  <2>3. OK(m)
      BY <1>3, <2>1
  <2> DEFINE c == Closing(Seen(E)[m], E[m + 1].flags)
  <2>4. Seen(E)[m] \in SeenStates
      BY <2>2, SeenTypes
  <2>5. p(m + 1) = Append(c, Appended(E, m + 1))
      BY <2>2, SeenStep
  <2>6. /\ c \in Seq(ParsedEntries) /\ Len(c) = m
        /\ \A i \in 1..m : c[i] = IF i = m /\ Open(E, m) /\ "(" \in E[m + 1].flags
                                  THEN WithFlag(p(m)[i], ")") ELSE p(m)[i]
    <3>1. Len(p(m)) = m
        BY <2>3
    <3>2. QED
        BY <2>4, <3>1, ClosingType DEF Open
  <2>7. \A i \in 1..m : c[i] = InTheEnd(E, i)
    <3>1. TAKE i \in 1..m
    <3>2. CASE i = m
      <4>1. p(m)[i] = Appended(E, i)
          BY <2>3, <3>2
      <4>2. ClosedByNext(E, i) = (Open(E, m) /\ "(" \in E[m + 1].flags)
          BY <2>1, <3>2 DEF ClosedByNext
      <4>3. QED
          BY <2>6, <3>2, <4>1, <4>2 DEF InTheEnd
    <3>3. CASE i # m
        BY <2>3, <2>6, <3>3
    <3>4. QED
        BY <3>2, <3>3
  <2>8. Appended(E, m + 1) \in ParsedEntries
      BY <2>2, AppendedType
  <2> HIDE DEF c
  <2>9. /\ Len(p(m + 1)) = m + 1 /\ p(m + 1)[m + 1] = Appended(E, m + 1)
        /\ \A i \in 1..m : p(m + 1)[i] = c[i]
      BY <2>5, <2>6, <2>8
  <2>10. \A i \in 1..(m + 1) : i = m + 1 \/ i \in 1..m
      OBVIOUS
  <2>11. QED
      BY <2>7, <2>9, <2>10
<1>4. Nat \subseteq S
  <2> HIDE DEF S
  <2>1. QED
      BY <1>2, <1>3, SetInduction
<1>5. OK(n)
    BY <1>4
<1>6. p(n) \in Seq(ParsedEntries)
    BY SeenTypes DEF SeenStates
<1>7. QED
    BY <1>5, <1>6

\* What a pass makes of its entries.
LEMMA ParsedIs ==
    ASSUME NEW E \in Seq(Entries)
    PROVE  /\ ParseEntries(E) \in Seq(ParsedEntries)
           /\ Len(ParseEntries(E)) = Len(E)
           /\ \A n \in 1..Len(E) : ParseEntries(E)[n] = InTheEnd(E, n)
<1>1. Len(E) \in 0..Len(E)
    OBVIOUS
<1>2. ~ClosedByNext(E, Len(E))
    BY DEF ClosedByNext
<1>3. QED
    BY <1>1, <1>2, EntriesSoFar DEF ParseEntries, InTheEnd

\* A filter stands in the query with the brackets the pass has given it.
Shuts(E, n) == Closes(E, n) \/ ClosedByNext(E, n)

LEMMA FlagsInTheEnd ==
    ASSUME NEW E \in Seq(Entries), NEW n \in 1..Len(E)
    PROVE  /\ InTheEnd(E, n).flags = E[n].flags \cup (IF Opens(E, n) THEN {"("} ELSE {})
                                                \cup (IF Shuts(E, n) THEN {")"} ELSE {})
           /\ InTheEnd(E, n).weight = Weight(E, n)
           /\ InTheEnd(E, n).bad = E[n].bad
BY DEF InTheEnd, Appended, WithFlag, Shuts

ExprFor(E, n) ==
    [ leftBracket |-> Opens(E, n), rightBracket |-> Shuts(E, n),
      not |-> "!" \in E[n].flags,
      logicOp |-> IF n = 1 THEN "" ELSE IF "|" \in E[n].flags THEN "or" ELSE "and",
      bracketWeight |-> Weight(E, n) ]

LEMMA ExprsAre ==
    ASSUME NEW E \in Seq(Entries)
    PROVE  /\ Exprs(E) = [n \in 1..Len(E) |-> ExprFor(E, n)]
           /\ DOMAIN Exprs(E) = 1..Len(E) /\ Len(Exprs(E)) = Len(E)
<1> DEFINE p == ParseEntries(E)
<1>1. DOMAIN p = 1..Len(E) /\ Len(E) \in Nat
    BY ParsedIs
<1>2. ASSUME NEW n \in 1..Len(E)
      PROVE  /\ ("(" \in p[n].flags) = Opens(E, n)
             /\ (")" \in p[n].flags) = Shuts(E, n)
             /\ ("!" \in p[n].flags) = ("!" \in E[n].flags)
             /\ ("|" \in p[n].flags) = ("|" \in E[n].flags)
             /\ p[n].weight = Weight(E, n)
  <2>1. p[n] = InTheEnd(E, n)
      BY ParsedIs
  <2>2. ("(" \in E[n].flags => Opens(E, n)) /\ (")" \in E[n].flags => Shuts(E, n))
      BY DEF Opens, Shuts, Closes
  <2>3. Opens(E, n) \in BOOLEAN /\ Shuts(E, n) \in BOOLEAN
      BY DEF Opens, Shuts, Closes, ClosedByNext
  <2>4. QED
      BY <2>1, <2>2, <2>3, FlagsInTheEnd
<1>3. Exprs(E) = [n \in 1..Len(E) |-> ExprOf(p, n)]
    BY <1>1 DEF Exprs
<1>4. \A n \in 1..Len(E) : ExprOf(p, n) = ExprFor(E, n)
    BY <1>2 DEF ExprOf, ExprFor
<1> HIDE DEF p
<1>5. Exprs(E) = [n \in 1..Len(E) |-> ExprFor(E, n)]
    BY <1>3, <1>4
<1>6. DOMAIN Exprs(E) = 1..Len(E) /\ Len(Exprs(E)) = Len(E)
  <2>1. Exprs(E) \in [1..Len(E) -> {ExprFor(E, n) : n \in 1..Len(E)}]
      BY <1>5
  <2>2. QED
      BY <1>1, <2>1
<1>7. QED
    BY <1>5, <1>6

-----------------------------------------------------------------------------
(* The brackets: they balance, keep what was written and are weighed.      *)

\* A bracket is open behind the n-th entry, and the next does not close it.
Held(E, n) == n < Len(E) /\ Open(E, n) /\ "(" \notin E[n + 1].flags

LEMMA HeldStep ==
    ASSUME NEW E \in Seq(Entries), NEW n \in 1..Len(E)
    PROVE  /\ Held(E, n - 1) => ~Opens(E, n)
           /\ Held(E, n) = ((Held(E, n - 1) \/ Opens(E, n)) /\ ~Shuts(E, n))
           /\ Shuts(E, n) => Held(E, n - 1) \/ Opens(E, n)
           /\ ~Opens(E, n) => Held(E, n - 1) = Open(E, n - 1)
           /\ Opens(E, n) \in BOOLEAN /\ Shuts(E, n) \in BOOLEAN /\ Held(E, n) \in BOOLEAN
<1>1. n - 1 < Len(E) /\ (n - 1) + 1 = n /\ n <= Len(E) /\ n - 1 \in 0..Len(E) /\ n \in 0..Len(E)
    OBVIOUS
<1>2. Open(E, n - 1) \in BOOLEAN /\ Open(E, n) \in BOOLEAN
    BY <1>1, SeenTypes
<1>3. Open(E, n) = ((Open(E, n - 1) \/ Opens(E, n)) /\ ")" \notin E[n].flags)
    BY SeenStep
<1>4. Held(E, n - 1) = (Open(E, n - 1) /\ "(" \notin E[n].flags)
    BY <1>1, <1>2 DEF Held
<1>5. n < Len(E) \/ n = Len(E)
    BY <1>1
<1>6. /\ Opens(E, n) = ("(" \in E[n].flags \/ (~Open(E, n - 1) /\ ")" \in E[n].flags))
      /\ Opens(E, n) \in BOOLEAN /\ Shuts(E, n) \in BOOLEAN /\ Held(E, n) \in BOOLEAN
    BY <1>2 DEF Opens, Shuts, Closes, ClosedByNext, Held
<1>7. /\ Held(E, n - 1) => ~Opens(E, n)
      /\ ~Opens(E, n) => Held(E, n - 1) = Open(E, n - 1)
      /\ Held(E, n - 1) \/ Opens(E, n) <=> Open(E, n - 1) \/ Opens(E, n)
      /\ Held(E, n - 1) \in BOOLEAN
    BY <1>2, <1>4, <1>6
<1>8. CASE n = Len(E)
  <2>1. ~Held(E, n) /\ ~ClosedByNext(E, n)
      BY <1>8 DEF Held, ClosedByNext
  <2>2. Shuts(E, n) <=> ")" \in E[n].flags \/ Open(E, n - 1) \/ Opens(E, n)
      BY <1>8, <2>1 DEF Shuts, Closes
  <2>3. ")" \in E[n].flags => Open(E, n - 1) \/ Opens(E, n)
      BY <1>6
  <2>4. QED
      BY <1>6, <1>7, <2>1, <2>2, <2>3
<1>9. CASE n < Len(E)
  <2>1. Shuts(E, n) <=> ")" \in E[n].flags \/ (Open(E, n) /\ "(" \in E[n + 1].flags)
      BY <1>9 DEF Shuts, Closes, ClosedByNext
  <2>2. Held(E, n) <=> Open(E, n) /\ "(" \notin E[n + 1].flags
      BY <1>9 DEF Held
  <2>3. ")" \in E[n].flags => Open(E, n - 1) \/ Opens(E, n)
      BY <1>6
  <2>4. QED
      BY <1>2, <1>3, <1>6, <1>7, <2>1, <2>2, <2>3
<1>10. QED
    BY <1>5, <1>8, <1>9

LEMMA HeldAtTheEnds ==
    ASSUME NEW E \in Seq(Entries)
    PROVE  ~Held(E, 0) /\ ~Held(E, Len(E))
<1>1. Seen(E)[0] = Untracked
    BY SeenProperties
<1>2. ~Open(E, 0)
    BY <1>1 DEF Open, Untracked
<1>3. QED
    BY <1>2 DEF Held

LEMMA ExprAt ==
    ASSUME NEW E \in Seq(Entries), NEW n \in 1..Len(E)
    PROVE  /\ Exprs(E)[n].leftBracket = Opens(E, n)
           /\ Exprs(E)[n].rightBracket = Shuts(E, n)
           /\ Exprs(E)[n].bracketWeight = Weight(E, n)
<1>1. Exprs(E)[n] = ExprFor(E, n)
    BY ExprsAre
<1>2. Opens(E, n) \in BOOLEAN /\ Shuts(E, n) \in BOOLEAN
    BY DEF Opens, Shuts, Closes, ClosedByNext
<1>3. ExprFor(E, n).leftBracket = Opens(E, n)
    BY <1>2, Zenon DEF ExprFor
<1>4. ExprFor(E, n).rightBracket = Shuts(E, n)
    BY <1>2, Zenon DEF ExprFor
<1>5. ExprFor(E, n).bracketWeight = Weight(E, n)
    BY DEF ExprFor
<1>6. QED
    BY <1>1, <1>3, <1>4, <1>5

\* Counting brackets from one entry to the next.
LEMMA CountUp ==
    ASSUME NEW n \in Nat \ {0}, NEW S, S \subseteq 1..(n - 1)
    PROVE  /\ Cardinality(S) \in Nat
           /\ Cardinality(S \cup {n}) = Cardinality(S) + 1
<1>1. IsFiniteSet(S)
  <2>1. IsFiniteSet(1..(n - 1))
    <3>1. 1 \in Int /\ n - 1 \in Int
        OBVIOUS
    <3>2. QED
        BY <3>1, FS_Interval
  <2>2. QED
      BY <2>1, FS_Subset
<1>2. n \notin S
    OBVIOUS
<1>3. QED
    BY <1>1, <1>2, FS_AddElement, FS_CardinalityType

LEMMA LeftsUp ==
    ASSUME NEW x, NEW n \in Nat \ {0}
    PROVE  /\ Lefts(x, n - 1) \in Nat
           /\ Lefts(x, n) = Lefts(x, n - 1) + (IF x[n].leftBracket THEN 1 ELSE 0)
<1> DEFINE S == {i \in 1..(n - 1) : x[i].leftBracket}
<1>1. Cardinality(S) \in Nat /\ Cardinality(S \cup {n}) = Cardinality(S) + 1
    BY CountUp
<1>2. Lefts(x, n - 1) = Cardinality(S)
    BY DEF Lefts
<1>3. CASE x[n].leftBracket
  <2>1. {i \in 1..n : x[i].leftBracket} = S \cup {n}
      BY <1>3
  <2>2. QED
      BY <1>1, <1>2, <1>3, <2>1 DEF Lefts
<1>4. CASE ~x[n].leftBracket
  <2>1. {i \in 1..n : x[i].leftBracket} = S
      BY <1>4
  <2> HIDE DEF S
  <2>2. Lefts(x, n) = Cardinality(S)
      BY <2>1 DEF Lefts
  <2>3. QED
      BY <1>1, <1>2, <1>4, <2>2
<1>5. QED
    BY <1>3, <1>4

LEMMA RightsUp ==
    ASSUME NEW x, NEW n \in Nat \ {0}
    PROVE  /\ Rights(x, n - 1) \in Nat
           /\ Rights(x, n) = Rights(x, n - 1) + (IF x[n].rightBracket THEN 1 ELSE 0)
<1> DEFINE S == {i \in 1..(n - 1) : x[i].rightBracket}
<1>1. Cardinality(S) \in Nat /\ Cardinality(S \cup {n}) = Cardinality(S) + 1
    BY CountUp
<1>2. Rights(x, n - 1) = Cardinality(S)
    BY DEF Rights
<1>3. CASE x[n].rightBracket
  <2>1. {i \in 1..n : x[i].rightBracket} = S \cup {n}
      BY <1>3
  <2>2. QED
      BY <1>1, <1>2, <1>3, <2>1 DEF Rights
<1>4. CASE ~x[n].rightBracket
  <2>1. {i \in 1..n : x[i].rightBracket} = S
      BY <1>4
  <2> HIDE DEF S
  <2>2. Rights(x, n) = Cardinality(S)
      BY <2>1 DEF Rights
  <2>3. QED
      BY <1>1, <1>2, <1>4, <2>2
<1>5. QED
    BY <1>3, <1>4

\* Behind an entry one bracket is open, if one is held open, or none.
LEMMA LeftsAndRights ==
    ASSUME NEW E \in Seq(Entries), NEW n \in 0..Len(E)
    PROVE  /\ Lefts(Exprs(E), n) \in Nat /\ Rights(Exprs(E), n) \in Nat
           /\ Lefts(Exprs(E), n) = Rights(Exprs(E), n) + (IF Held(E, n) THEN 1 ELSE 0)
<1> DEFINE x == Exprs(E)
           OK(m) == /\ Lefts(x, m) \in Nat /\ Rights(x, m) \in Nat
                    /\ Lefts(x, m) = Rights(x, m) + (IF Held(E, m) THEN 1 ELSE 0)
           S == {m \in Nat : m <= Len(E) => OK(m)}
<1>1. Len(E) \in Nat
    OBVIOUS
<1>2. 0 \in S
  <2>1. Lefts(x, 0) = 0 /\ Rights(x, 0) = 0
    <3>1. {i \in 1..0 : x[i].leftBracket} = {} /\ {i \in 1..0 : x[i].rightBracket} = {}
        OBVIOUS
    <3>2. QED
        BY <3>1, FS_EmptySet DEF Lefts, Rights
  <2>2. QED
      BY <2>1, HeldAtTheEnds
<1>3. ASSUME NEW m \in Nat, m \in S
      PROVE  m + 1 \in S
  <2>1. SUFFICES ASSUME m + 1 <= Len(E)
                 PROVE  OK(m + 1)
      OBVIOUS
  <2>2. m + 1 \in 1..Len(E) /\ m + 1 \in Nat \ {0} /\ (m + 1) - 1 = m
      BY <1>1, <2>1
  <2>3. OK(m)
      BY <1>3, <2>1
  <2>4. x[m + 1].leftBracket = Opens(E, m + 1) /\ x[m + 1].rightBracket = Shuts(E, m + 1)
      BY <2>2, ExprAt
  <2>5. /\ Lefts(x, m + 1) = Lefts(x, m) + (IF Opens(E, m + 1) THEN 1 ELSE 0)
        /\ Rights(x, m + 1) = Rights(x, m) + (IF Shuts(E, m + 1) THEN 1 ELSE 0)
      BY <2>2, <2>4, LeftsUp, RightsUp
  <2>6. /\ Held(E, m) => ~Opens(E, m + 1)
        /\ Held(E, m + 1) = ((Held(E, m) \/ Opens(E, m + 1)) /\ ~Shuts(E, m + 1))
        /\ Shuts(E, m + 1) => Held(E, m) \/ Opens(E, m + 1)
        /\ Opens(E, m + 1) \in BOOLEAN /\ Shuts(E, m + 1) \in BOOLEAN
        /\ Held(E, m + 1) \in BOOLEAN
      BY <2>2, HeldStep
  <2> HIDE DEF x
  <2>7. QED
      BY <2>3, <2>5, <2>6
<1>4. Nat \subseteq S
  <2> HIDE DEF S
  <2>1. QED
      BY <1>2, <1>3, SetInduction
<1>5. QED
    BY <1>4

LEMMA ExprsBalanced ==
    ASSUME NEW E \in Seq(Entries)
    PROVE  Balanced(Exprs(E))
<1> DEFINE x == Exprs(E)
<1>1. DOMAIN x = 1..Len(E) /\ Len(x) = Len(E) /\ Len(E) \in 0..Len(E)
  <2>1. Len(E) \in Nat
      OBVIOUS
  <2>2. QED
      BY <2>1, ExprsAre
<1>2. ASSUME NEW n \in 1..Len(E)
      PROVE  Lefts(x, n) - Rights(x, n - 1) \in {0, 1} /\ Lefts(x, n) >= Rights(x, n)
  <2>1. n - 1 \in 0..Len(E) /\ n \in 0..Len(E) /\ n \in Nat \ {0}
      OBVIOUS
  <2>2. x[n].leftBracket = Opens(E, n)
      BY ExprAt
  <2>3. Lefts(x, n) = Lefts(x, n - 1) + (IF Opens(E, n) THEN 1 ELSE 0)
      BY <2>1, <2>2, LeftsUp
  <2>4. /\ Lefts(x, n - 1) \in Nat /\ Rights(x, n - 1) \in Nat
        /\ Lefts(x, n - 1) = Rights(x, n - 1) + (IF Held(E, n - 1) THEN 1 ELSE 0)
      BY <2>1, LeftsAndRights
  <2>5. /\ Lefts(x, n) \in Nat /\ Rights(x, n) \in Nat
        /\ Lefts(x, n) = Rights(x, n) + (IF Held(E, n) THEN 1 ELSE 0)
      BY <2>1, LeftsAndRights
  <2>6. Held(E, n - 1) => ~Opens(E, n)
      BY HeldStep
  <2> HIDE DEF x
  <2>7. QED
      BY <2>3, <2>4, <2>5, <2>6
<1>3. Lefts(x, Len(E)) = Rights(x, Len(E))
  <2>1. /\ Rights(x, Len(E)) \in Nat
        /\ Lefts(x, Len(E)) = Rights(x, Len(E)) + (IF Held(E, Len(E)) THEN 1 ELSE 0)
      BY <1>1, LeftsAndRights
  <2>2. QED
      BY <2>1, HeldAtTheEnds
<1>4. QED
    BY <1>1, <1>2, <1>3 DEF Balanced

LEMMA ExprsAsWritten ==
    ASSUME NEW E \in Seq(Entries)
    PROVE  AsWritten(E, Exprs(E))
<1>1. DOMAIN Exprs(E) = 1..Len(E) /\ Len(Exprs(E)) = Len(E)
    BY ExprsAre
<1>2. ASSUME NEW n \in 1..Len(E)
      PROVE  /\ Exprs(E)[n].leftBracket = Opens(E, n)
             /\ Exprs(E)[n].rightBracket = Shuts(E, n)
    BY ExprAt
<1>3. QED
    BY <1>1, <1>2 DEF AsWritten, Opens, Shuts, Closes, ClosedByNext

\* While a bracket is open, the tracker counts from the one that opened it.
LEMMA TrackerCounts ==
    ASSUME NEW E \in Seq(Entries), NEW n \in 0..Len(E), n < Len(E), Open(E, n)
    PROVE  /\ Tracker(E, n) \in 0..(n - 1)
           /\ Opens(E, n - Tracker(E, n))
           /\ \A j \in (n - Tracker(E, n) + 1)..n : ~Opens(E, j)
<1> DEFINE OK(m) == /\ Tracker(E, m) \in 0..(m - 1)
                    /\ Opens(E, m - Tracker(E, m))
                    /\ \A j \in (m - Tracker(E, m) + 1)..m : ~Opens(E, j)
           S == {m \in Nat : m < Len(E) /\ Open(E, m) => OK(m)}
<1>1. Len(E) \in Nat
    OBVIOUS
<1>2. 0 \in S
  <2>1. Seen(E)[0] = Untracked
      BY SeenProperties
  <2>2. ~Open(E, 0)
      BY <2>1 DEF Open, Untracked
  <2>3. QED
      BY <2>2
<1>3. ASSUME NEW m \in Nat, m \in S
      PROVE  m + 1 \in S
  <2>1. SUFFICES ASSUME m + 1 < Len(E), Open(E, m + 1)
                 PROVE  OK(m + 1)
      OBVIOUS
  <2>2. m + 1 \in 1..Len(E) /\ (m + 1) - 1 = m /\ m < Len(E)
      BY <1>1, <2>1
  <2>3. /\ Open(E, m + 1) = ((Open(E, m) \/ Opens(E, m + 1)) /\ ")" \notin E[m + 1].flags)
        /\ Tracker(E, m + 1) = IF Open(E, m) /\ ~Opens(E, m + 1) /\ ~Closes(E, m + 1)
                               THEN Tracker(E, m) + 1 ELSE 0
      BY <2>2, SeenStep
  <2>4. CASE Opens(E, m + 1)
    <3>1. Tracker(E, m + 1) = 0
        BY <2>3, <2>4
    <3>2. QED
        BY <2>4, <3>1
  <2>5. CASE ~Opens(E, m + 1)
    <3>1. Open(E, m) /\ ")" \notin E[m + 1].flags
        BY <2>1, <2>3, <2>5
    <3>2. ~Closes(E, m + 1)
        BY <2>1, <3>1 DEF Closes
    <3>3. OK(m)
        BY <1>3, <2>2, <3>1
    <3>4. Tracker(E, m + 1) = Tracker(E, m) + 1
        BY <2>3, <2>5, <3>1, <3>2
    <3>5. (m + 1) - Tracker(E, m + 1) = m - Tracker(E, m)
        BY <3>3, <3>4
    <3>6. \A j \in (m - Tracker(E, m) + 1)..(m + 1) : j = m + 1 \/ j \in (m - Tracker(E, m) + 1)..m
        BY <3>3
    <3>7. QED
        BY <2>5, <3>3, <3>4, <3>5, <3>6
  <2>6. QED
      BY <2>4, <2>5
<1>4. Nat \subseteq S
  <2> HIDE DEF S
  <2>1. QED
      BY <1>2, <1>3, SetInduction
<1>5. QED
    BY <1>4

LEMMA ExprsWeighed ==
    ASSUME NEW E \in Seq(Entries)
    PROVE  Weighed(Exprs(E))
<1> DEFINE x == Exprs(E)
<1>1. DOMAIN x = 1..Len(E)
    BY ExprsAre
<1>2. SUFFICES ASSUME NEW n \in 1..Len(E)
               PROVE  LET open == Lefts(x, n) > Rights(x, n - 1)
                          left == CHOOSE i \in 1..n :
                                    /\ x[i].leftBracket
                                    /\ \A j \in (i + 1)..n : ~x[j].leftBracket
                      IN  x[n].bracketWeight =
                            IF ~open THEN 0 ELSE IF left = n THEN -1 ELSE n - left
    BY <1>1 DEF Weighed
<1> DEFINE open == Lefts(x, n) > Rights(x, n - 1)
           Nearest(i) == x[i].leftBracket /\ \A j \in (i + 1)..n : ~x[j].leftBracket
           left == CHOOSE i \in 1..n : Nearest(i)
<1>3. n \in Nat \ {0} /\ n - 1 \in 0..Len(E) /\ n \in 0..Len(E) /\ n - 1 < Len(E)
    OBVIOUS
<1>4. /\ x[n].bracketWeight = Weight(E, n)
      /\ \A i \in 1..n : x[i].leftBracket = Opens(E, i)
  <2>1. \A i \in 1..n : i \in 1..Len(E)
      OBVIOUS
  <2>2. QED
      BY <2>1, ExprAt
<1>5. open = (Held(E, n - 1) \/ Opens(E, n))
  <2>0. x[n].leftBracket = Opens(E, n)
      BY ExprAt
  <2>1. Lefts(x, n) = Lefts(x, n - 1) + (IF Opens(E, n) THEN 1 ELSE 0)
      BY <1>3, <2>0, LeftsUp
  <2>2. /\ Lefts(x, n - 1) \in Nat /\ Rights(x, n - 1) \in Nat
        /\ Lefts(x, n - 1) = Rights(x, n - 1) + (IF Held(E, n - 1) THEN 1 ELSE 0)
      BY <1>3, LeftsAndRights
  <2>3. Opens(E, n) \in BOOLEAN /\ Held(E, n - 1) \in BOOLEAN
      BY DEF Opens, Held
  <2> HIDE DEF x
  <2>4. QED
      BY <2>1, <2>2, <2>3
<1>6. \A i, k \in 1..n : Nearest(i) /\ Nearest(k) => i = k
  <2>1. SUFFICES ASSUME NEW i \in 1..n, NEW k \in 1..n, Nearest(i), Nearest(k), i < k
                 PROVE  FALSE
      OBVIOUS
  <2>2. k \in (i + 1)..n
      BY <2>1
  <2>3. QED
      BY <2>1, <2>2
<1>7. ASSUME NEW i \in 1..n, Nearest(i)
      PROVE  left = i
  <2> HIDE DEF Nearest
  <2>1. QED
      BY <1>6, <1>7
<1>8. CASE Opens(E, n)
  <2>1. Nearest(n)
      BY <1>4, <1>8
  <2>2. left = n
    <3> HIDE DEF Nearest, left
    <3>1. QED
        BY <1>7, <2>1
  <2>3. QED
      BY <1>4, <1>5, <1>8, <2>2 DEF Weight
<1>9. CASE ~Opens(E, n) /\ Open(E, n - 1)
  <2> DEFINE i == (n - 1) - Tracker(E, n - 1)
  <2>1. /\ Tracker(E, n - 1) \in 0..((n - 1) - 1) /\ Opens(E, i)
        /\ \A j \in (i + 1)..(n - 1) : ~Opens(E, j)
      BY <1>3, <1>9, TrackerCounts
  <2>2. i \in 1..n /\ i # n
      BY <2>1
  <2>3. Nearest(i)
    <3>1. \A j \in (i + 1)..n : j \in 1..n /\ (j = n \/ j \in (i + 1)..(n - 1))
        BY <2>2
    <3> HIDE DEF x
    <3>2. QED
        BY <1>4, <1>9, <2>1, <2>2, <3>1
  <2>4. left = i
    <3> HIDE DEF Nearest, left, i
    <3>1. QED
        BY <1>7, <2>2, <2>3
  <2>5. Held(E, n - 1)
      BY <1>9, HeldStep
  <2>6. Weight(E, n) = n - i
      BY <1>9, <2>1 DEF Weight
  <2> HIDE DEF left, i, x
  <2>7. QED
      BY <1>4, <1>5, <1>8, <2>2, <2>4, <2>5, <2>6 DEF left
<1>10. CASE ~Opens(E, n) /\ ~Open(E, n - 1)
  <2>1. ~Held(E, n - 1)
      BY <1>10 DEF Held
  <2>2. QED
      BY <1>4, <1>5, <1>10, <2>1 DEF Weight
<1>11. QED
    BY <1>8, <1>9, <1>10

-----------------------------------------------------------------------------
(* A second pass over the entries the first has completed.                 *)

Rewritten(E) == [n \in DOMAIN E |-> [E[n] EXCEPT !.flags = ParseEntries(E)[n].flags]]

LEMMA RewrittenIs ==
    ASSUME NEW E \in Seq(Entries)
    PROVE  /\ Rewritten(E) \in Seq(Entries) /\ Len(Rewritten(E)) = Len(E)
           /\ \A n \in 1..Len(E) :
                Rewritten(E)[n].flags = E[n].flags \cup (IF Opens(E, n) THEN {"("} ELSE {})
                                                   \cup (IF Shuts(E, n) THEN {")"} ELSE {})
<1>1. DOMAIN E = 1..Len(E) /\ Len(E) \in Nat
    OBVIOUS
<1>2. ASSUME NEW n \in 1..Len(E)
      PROVE  /\ [E[n] EXCEPT !.flags = ParseEntries(E)[n].flags] \in Entries
             /\ ParseEntries(E)[n].flags
                  = E[n].flags \cup (IF Opens(E, n) THEN {"("} ELSE {})
                               \cup (IF Shuts(E, n) THEN {")"} ELSE {})
  <2>1. ParseEntries(E)[n] = InTheEnd(E, n)
      BY ParsedIs
  <2>2. InTheEnd(E, n).flags \in SUBSET Flags
      BY AppendedType DEF ParsedEntries
  <2>3. E[n] \in Entries
      OBVIOUS
  <2>4. \A f \in SUBSET Flags : [E[n] EXCEPT !.flags = f] \in Entries
      BY <2>3 DEF Entries
  <2>5. QED
      BY <2>1, <2>2, <2>4, FlagsInTheEnd
<1>3. ASSUME NEW n \in 1..Len(E)
      PROVE  [E[n] EXCEPT !.flags = ParseEntries(E)[n].flags].flags = ParseEntries(E)[n].flags
  <2>1. E[n] \in Entries
      OBVIOUS
  <2>2. QED
      BY <2>1 DEF Entries
<1>4. Rewritten(E) \in [1..Len(E) -> Entries]
    BY <1>1, <1>2 DEF Rewritten
<1>5. \A n \in 1..Len(E) : Rewritten(E)[n].flags = ParseEntries(E)[n].flags
    BY <1>1, <1>3 DEF Rewritten
<1>6. Rewritten(E) \in Seq(Entries) /\ Len(Rewritten(E)) = Len(E)
    BY <1>1, <1>4
<1>7. QED
    BY <1>2, <1>5, <1>6

\* The second pass finds the brackets complete: it opens and closes what the
\* first one did, and counts alike where it counts at all.
LEMMA SecondPass ==
    ASSUME NEW E \in Seq(Entries), NEW n \in 0..Len(E), n < Len(E)
    PROVE  /\ Open(Rewritten(E), n) = Held(E, n)
           /\ Held(E, n) => Tracker(Rewritten(E), n) = Tracker(E, n)
<1> DEFINE F == Rewritten(E)
           OK(m) == /\ Open(F, m) = Held(E, m)
                    /\ Held(E, m) => Tracker(F, m) = Tracker(E, m)
           S == {m \in Nat : m < Len(E) => OK(m)}
<1>1. Len(E) \in Nat /\ F \in Seq(Entries) /\ Len(F) = Len(E)
    BY RewrittenIs
<1>2. 0 \in S
  <2>1. Seen(F)[0] = Untracked
      BY <1>1, SeenProperties
  <2>2. Open(F, 0) = FALSE
      BY <2>1 DEF Open, Untracked
  <2>3. Held(E, 0) \in BOOLEAN
    <3>1. Held(E, 0) \in BOOLEAN
        BY DEF Held
    <3>2. QED
        BY <3>1
  <2>4. Held(E, 0) = FALSE
      BY <2>3, HeldAtTheEnds
  <2>5. QED
      BY <2>2, <2>4
<1>3. ASSUME NEW m \in Nat, m \in S
      PROVE  m + 1 \in S
  <2>1. SUFFICES ASSUME m + 1 < Len(E)
                 PROVE  OK(m + 1)
      OBVIOUS
  <2>2. /\ m + 1 \in 1..Len(E) /\ (m + 1) - 1 = m /\ m < Len(E) /\ m + 1 # Len(E)
        /\ m \in 0..Len(E) /\ m + 1 \in 0..Len(E)
      BY <1>1, <2>1
  <2>3. OK(m)
      BY <1>3, <2>2
  <2>4. F[m + 1].flags = E[m + 1].flags \cup (IF Opens(E, m + 1) THEN {"("} ELSE {})
                                        \cup (IF Shuts(E, m + 1) THEN {")"} ELSE {})
      BY <2>2, RewrittenIs
  <2>5. /\ Held(E, m) => ~Opens(E, m + 1)
        /\ Held(E, m + 1) = ((Held(E, m) \/ Opens(E, m + 1)) /\ ~Shuts(E, m + 1))
        /\ Shuts(E, m + 1) => Held(E, m) \/ Opens(E, m + 1)
        /\ ~Opens(E, m + 1) => Held(E, m) = Open(E, m)
        /\ Opens(E, m + 1) \in BOOLEAN /\ Shuts(E, m + 1) \in BOOLEAN
        /\ Held(E, m + 1) \in BOOLEAN
      BY <2>2, HeldStep
  <2>6. ("(" \in E[m + 1].flags => Opens(E, m + 1)) /\ (")" \in E[m + 1].flags => Shuts(E, m + 1))
      BY DEF Opens, Shuts, Closes
  <2>7. ("(" \in F[m + 1].flags) = Opens(E, m + 1) /\ (")" \in F[m + 1].flags) = Shuts(E, m + 1)
      BY <2>4, <2>5, <2>6
  <2>8. Opens(F, m + 1) = Opens(E, m + 1)
      BY <2>2, <2>3, <2>5, <2>7 DEF Opens
  <2>9. Closes(F, m + 1) = Shuts(E, m + 1)
      BY <1>1, <2>2, <2>5, <2>7 DEF Closes
  <2>10. /\ Open(F, m + 1) = ((Open(F, m) \/ Opens(F, m + 1)) /\ ")" \notin F[m + 1].flags)
         /\ Tracker(F, m + 1) = IF Open(F, m) /\ ~Opens(F, m + 1) /\ ~Closes(F, m + 1)
                                THEN Tracker(F, m) + 1 ELSE 0
      BY <1>1, <2>2, SeenStep
  <2>11. Tracker(E, m + 1) = IF Open(E, m) /\ ~Opens(E, m + 1) /\ ~Closes(E, m + 1)
                             THEN Tracker(E, m) + 1 ELSE 0
      BY <2>2, SeenStep
  <2>12. ~Shuts(E, m + 1) => ~Closes(E, m + 1)
      BY DEF Shuts
  <2> HIDE DEF F
  <2>13. Open(F, m + 1) = Held(E, m + 1)
      BY <2>3, <2>5, <2>7, <2>8, <2>10
  <2>14. ASSUME Held(E, m + 1)
         PROVE  Tracker(F, m + 1) = Tracker(E, m + 1)
    <3>1. ~Closes(F, m + 1) /\ ~Closes(E, m + 1)
        BY <2>5, <2>9, <2>12, <2>14
    <3>2. CASE Opens(E, m + 1)
        BY <2>8, <2>10, <2>11, <3>2
    <3>3. CASE ~Opens(E, m + 1)
      <4>1. Held(E, m) /\ Open(E, m) /\ Open(F, m)
          BY <2>3, <2>5, <2>14, <3>3
      <4>2. QED
          BY <2>3, <2>8, <2>10, <2>11, <3>1, <3>3, <4>1
    <3>4. QED
        BY <3>2, <3>3
  <2>15. QED
      BY <2>13, <2>14
<1>4. Nat \subseteq S
  <2> HIDE DEF S
  <2>1. QED
      BY <1>2, <1>3, SetInduction
<1>5. QED
    BY <1>4

LEMMA ExprsAgain ==
    ASSUME NEW E \in Seq(Entries)
    PROVE  ParsedAgainAlike(E, Exprs(E))
<1> DEFINE F == Rewritten(E)
<1>1. Len(E) \in Nat /\ F \in Seq(Entries) /\ Len(F) = Len(E)
    BY RewrittenIs
<1>2. ASSUME NEW n \in 1..Len(E)
      PROVE  ExprFor(F, n) = ExprFor(E, n)
  <2>1. n - 1 \in 0..Len(E) /\ n - 1 < Len(E) /\ n \in 1..Len(F)
      BY <1>1
  <2>2. Open(F, n - 1) = Held(E, n - 1) /\ (Held(E, n - 1) => Tracker(F, n - 1) = Tracker(E, n - 1))
      BY <2>1, SecondPass
  <2>3. F[n].flags = E[n].flags \cup (IF Opens(E, n) THEN {"("} ELSE {})
                                \cup (IF Shuts(E, n) THEN {")"} ELSE {})
      BY RewrittenIs
  <2>4. /\ Held(E, n - 1) => ~Opens(E, n)
        /\ Held(E, n) = ((Held(E, n - 1) \/ Opens(E, n)) /\ ~Shuts(E, n))
        /\ Shuts(E, n) => Held(E, n - 1) \/ Opens(E, n)
        /\ ~Opens(E, n) => Held(E, n - 1) = Open(E, n - 1)
        /\ Opens(E, n) \in BOOLEAN /\ Shuts(E, n) \in BOOLEAN /\ Held(E, n) \in BOOLEAN
      BY HeldStep
  <2>5. ("(" \in E[n].flags => Opens(E, n)) /\ (")" \in E[n].flags => Shuts(E, n))
      BY DEF Opens, Shuts, Closes
  <2>6. /\ ("(" \in F[n].flags) = Opens(E, n) /\ (")" \in F[n].flags) = Shuts(E, n)
        /\ ("!" \in F[n].flags) = ("!" \in E[n].flags)
        /\ ("|" \in F[n].flags) = ("|" \in E[n].flags)
      BY <2>3, <2>4, <2>5
  <2>7. Opens(F, n) = Opens(E, n)
      BY <2>2, <2>4, <2>6 DEF Opens
  <2>8. Shuts(F, n) = Shuts(E, n)
    <3>1. CASE n = Len(E)
      <4>1. ~ClosedByNext(F, n)
          BY <1>1, <3>1 DEF ClosedByNext
      <4>2. Held(E, n) = FALSE
          BY <2>4, <3>1, HeldAtTheEnds
      <4>3. Held(E, n - 1) \/ Opens(E, n) => Shuts(E, n)
          BY <2>4, <4>2
      <4>4. Closes(F, n) <=> Shuts(E, n) \/ Held(E, n - 1) \/ Opens(E, n)
          BY <1>1, <2>2, <2>6, <2>7, <3>1 DEF Closes
      <4>5. Shuts(F, n) \in BOOLEAN
          BY DEF Shuts, Closes, ClosedByNext
      <4>6. QED
          BY <2>4, <4>1, <4>3, <4>4, <4>5 DEF Shuts
    <3>2. CASE n < Len(E)
      <4>1. n + 1 \in 1..Len(E) /\ (n + 1) - 1 = n /\ n \in 0..Len(E)
          BY <3>2
      <4>2. Held(E, n) => ~Opens(E, n + 1)
          BY <4>1, HeldStep
      <4>3. F[n + 1].flags = E[n + 1].flags \cup (IF Opens(E, n + 1) THEN {"("} ELSE {})
                                            \cup (IF Shuts(E, n + 1) THEN {")"} ELSE {})
          BY <4>1, RewrittenIs
      <4>4. "(" \in F[n + 1].flags => Opens(E, n + 1)
          BY <4>3 DEF Opens
      <4>5. Open(F, n) = Held(E, n)
          BY <3>2, <4>1, SecondPass
      <4>6. ~ClosedByNext(F, n)
          BY <4>2, <4>4, <4>5 DEF ClosedByNext
      <4>7. Closes(F, n) <=> Shuts(E, n)
        <5>1. n # Len(F)
            BY <1>1, <3>2
        <5>2. ")" \in F[n].flags <=> Shuts(E, n)
            BY <2>4, <2>6
        <5> HIDE DEF F
        <5>3. QED
            BY <5>1, <5>2 DEF Closes
      <4>8. Shuts(F, n) \in BOOLEAN
          BY DEF Shuts, Closes, ClosedByNext
      <4>9. QED
          BY <2>4, <4>6, <4>7, <4>8 DEF Shuts
    <3>3. QED
        BY <1>1, <3>1, <3>2
  <2>9. Weight(F, n) = Weight(E, n)
    <3>1. CASE Opens(E, n)
        BY <2>7, <3>1 DEF Weight
    <3>2. CASE ~Opens(E, n)
        BY <2>2, <2>4, <2>7, <3>2 DEF Weight
    <3>3. QED
        BY <3>1, <3>2
  <2> HIDE DEF F
  <2>10. QED
      BY <2>6, <2>7, <2>8, <2>9 DEF ExprFor
<1>3. Exprs(F) = Exprs(E)
  <2> HIDE DEF F
  <2>1. Exprs(F) = [n \in 1..Len(E) |-> ExprFor(F, n)]
      BY <1>1, ExprsAre
  <2>2. Exprs(E) = [n \in 1..Len(E) |-> ExprFor(E, n)]
      BY ExprsAre
  <2>3. QED
      BY <1>2, <2>1, <2>2
<1>4. QED
    BY <1>3 DEF ParsedAgainAlike, Rewritten

-----------------------------------------------------------------------------
(* The rows of the file: every saved query has the filters below it.       *)

WizardSpec == WizardInit /\ [][WizardNext]_wizardVars

QueryRow == [type |-> "saved_query"]
Rows == Filters \cup {QueryRow}

\* A saved query that was parsed, or has no filters yet.
ParsedQueries == {[filters |-> e, exprs |-> Exprs(e)] : e \in Seq(Filters)}

QueryAt(rs, n) == rs[n].type = "saved_query"
QueriesIn(rs, n) == Cardinality({i \in 1..n : QueryAt(rs, i)})

\* The q-th saved query begins at first, and the filters f are below it, up to
\* the row before next.
Stands(rs, q, first, next, f) ==
    /\ first < next /\ QueryAt(rs, first) /\ QueriesIn(rs, first) = q
    /\ \A n \in (first + 1)..(next - 1) : ~QueryAt(rs, n)
    /\ Len(f) = (next - first) - 1
    /\ \A n \in 1..Len(f) : f[n] = rs[first + n]

\* One that has another one below it, and the last one.
Complete(rs, q, f) ==
    \E first, next \in 1..Len(rs) : QueryAt(rs, next) /\ Stands(rs, q, first, next, f)
Latest(rs, q, f) == \E first \in 1..Len(rs) : Stands(rs, q, first, Len(rs) + 1, f)

WizardShape ==
    /\ rows \in Seq(Rows)
    /\ sq_entries \in Seq(Filters)
    /\ sqs \in Seq(ParsedQueries)
    /\ wizardPhase \in {"reading", "done", "failed"}

WizardOrder ==
    wizardPhase # "failed" =>
        /\ QueriesIn(rows, Len(rows)) = Len(sqs)
        /\ IF sqs = <<>> THEN rows = <<>> /\ sq_entries = <<>>
           ELSE /\ Latest(rows, Len(sqs), sq_entries)
                /\ sqs[Len(sqs)].filters = IF wizardPhase = "done" THEN sq_entries ELSE <<>>
        /\ \A q \in 1..Len(sqs) : q < Len(sqs) => Complete(rows, q, sqs[q].filters)

WizardInv == WizardShape /\ WizardOrder

LEMMA FiltersAreEntries == Filters \subseteq Entries /\ QueryRow \notin Filters
BY FlagsAssumption DEF Filters, Entries, Flags, QueryRow

LEMMA NoFiltersParsed == NoFilters \in ParsedQueries /\ NoFilters.filters = <<>>
<1>1. <<>> \in Seq(Entries) /\ <<>> \in Seq(Filters)
    BY EmptySeq
<1>2. Len(Exprs(<<>>)) = 0 /\ DOMAIN Exprs(<<>>) = 1..0
    BY <1>1, ExprsAre
<1>3. Exprs(<<>>) = [n \in 1..0 |-> ExprFor(<<>>, n)]
    BY <1>1, ExprsAre
<1>4. Exprs(<<>>) = <<>>
    BY <1>3
<1>5. QED
    BY <1>1, <1>4 DEF NoFilters, ParsedQueries

\* A row is added to the file.
LEMMA RowAdded ==
    ASSUME NEW rs \in Seq(Rows), NEW row \in Rows
    PROVE  /\ Append(rs, row) \in Seq(Rows) /\ Len(Append(rs, row)) = Len(rs) + 1
           /\ \A n \in 1..Len(rs) : Append(rs, row)[n] = rs[n]
           /\ Append(rs, row)[Len(rs) + 1] = row
           /\ \A n \in 0..Len(rs) : QueriesIn(Append(rs, row), n) = QueriesIn(rs, n)
           /\ QueriesIn(rs, Len(rs)) \in Nat
           /\ QueriesIn(Append(rs, row), Len(rs) + 1)
                = QueriesIn(rs, Len(rs)) + (IF row.type = "saved_query" THEN 1 ELSE 0)
<1> DEFINE t == Append(rs, row)
           S == {i \in 1..Len(rs) : QueryAt(rs, i)}
           k == Len(rs) + 1
<1>1. /\ t \in Seq(Rows) /\ Len(t) = Len(rs) + 1 /\ t[k] = row
      /\ \A n \in 1..Len(rs) : t[n] = rs[n]
    OBVIOUS
<1> HIDE DEF t
<1>2. ASSUME NEW n \in 0..Len(rs)
      PROVE  QueriesIn(t, n) = QueriesIn(rs, n)
  <2>1. {i \in 1..n : QueryAt(t, i)} = {i \in 1..n : QueryAt(rs, i)}
      BY <1>1 DEF QueryAt
  <2>2. QED
      BY <2>1 DEF QueriesIn
<1>3. k \in Nat \ {0} /\ S \subseteq 1..(k - 1)
    OBVIOUS
<1>4. Cardinality(S) \in Nat /\ Cardinality(S \cup {k}) = Cardinality(S) + 1
  <2> HIDE DEF S, k
  <2>1. QED
      BY <1>3, CountUp
<1>5. QueriesIn(rs, Len(rs)) = Cardinality(S)
    BY DEF QueriesIn
<1>6. CASE row.type = "saved_query"
  <2>1. {i \in 1..k : QueryAt(t, i)} = S \cup {k}
      BY <1>1, <1>6 DEF QueryAt
  <2>2. QueriesIn(t, k) = Cardinality(S \cup {k})
      BY <2>1 DEF QueriesIn
  <2> HIDE DEF S
  <2>3. QED
      BY <1>1, <1>2, <1>4, <1>5, <1>6, <2>2 DEF t
<1>7. CASE row.type # "saved_query"
  <2>1. {i \in 1..k : QueryAt(t, i)} = S
      BY <1>1, <1>7 DEF QueryAt
  <2> HIDE DEF S
  <2>2. QueriesIn(t, k) = Cardinality(S)
      BY <2>1 DEF QueriesIn
  <2>3. QED
      BY <1>1, <1>2, <1>4, <1>5, <1>7, <2>2 DEF t
<1>8. QED
    BY <1>6, <1>7

\* It leaves complete what was complete, completes the last saved query if it
\* begins another one, and otherwise is its next filter.
LEMMA StillComplete ==
    ASSUME NEW rs \in Seq(Rows), NEW row \in Rows, NEW q, NEW f, Complete(rs, q, f)
    PROVE  Complete(Append(rs, row), q, f)
<1> DEFINE t == Append(rs, row)
<1>1. PICK first \in 1..Len(rs), next \in 1..Len(rs) :
           QueryAt(rs, next) /\ Stands(rs, q, first, next, f)
    BY DEF Complete
<1>2. /\ Len(t) = Len(rs) + 1 /\ \A n \in 1..Len(rs) : t[n] = rs[n]
      /\ \A n \in 0..Len(rs) : QueriesIn(t, n) = QueriesIn(rs, n)
    BY RowAdded
<1>0. /\ Len(rs) \in Nat /\ first \in 0..Len(rs)
      /\ \A n \in (first + 1)..(next - 1) : n \in 1..Len(rs)
    OBVIOUS
<1> HIDE DEF t
<1>3. first \in 1..Len(t) /\ next \in 1..Len(t) /\ QueryAt(t, next) /\ QueryAt(t, first)
    BY <1>1, <1>2 DEF QueryAt, Stands
<1>4. Stands(t, q, first, next, f)
  <2>1. first < next /\ QueriesIn(t, first) = q /\ Len(f) = (next - first) - 1
    <3>1. first < next /\ QueriesIn(rs, first) = q /\ Len(f) = (next - first) - 1
        BY <1>1 DEF Stands
    <3>2. QED
        BY <1>0, <1>2, <3>1
  <2>2. \A n \in (first + 1)..(next - 1) : ~QueryAt(t, n)
    <3>1. \A n \in (first + 1)..(next - 1) : ~QueryAt(rs, n)
        BY <1>1 DEF Stands
    <3>2. QED
        BY <1>0, <1>2, <3>1 DEF QueryAt
  <2>3. \A n \in 1..Len(f) : f[n] = t[first + n]
      BY <1>1, <1>2, <2>1 DEF Stands
  <2>4. QED
      BY <1>3, <2>1, <2>2, <2>3 DEF Stands
<1>5. QED
    BY <1>3, <1>4 DEF Complete, t

LEMMA LastCompleted ==
    ASSUME NEW rs \in Seq(Rows), NEW q, NEW f, Latest(rs, q, f)
    PROVE  Complete(Append(rs, QueryRow), q, f)
<1> DEFINE t == Append(rs, QueryRow)
           next == Len(rs) + 1
<1>1. PICK first \in 1..Len(rs) : Stands(rs, q, first, next, f)
    BY DEF Latest
<1>0. Len(rs) \in Nat
    OBVIOUS
<1>2. /\ Len(t) = Len(rs) + 1 /\ t[next] = QueryRow /\ \A n \in 1..Len(rs) : t[n] = rs[n]
      /\ \A n \in 0..Len(rs) : QueriesIn(t, n) = QueriesIn(rs, n)
    BY RowAdded DEF Rows
<1>5. \A n \in (first + 1)..(next - 1) : n \in 1..Len(rs)
    BY <1>0
<1> HIDE DEF t, next
<1>3. first \in 1..Len(t) /\ next \in 1..Len(t) /\ QueryAt(t, next) /\ QueryAt(t, first)
    BY <1>0, <1>1, <1>2 DEF QueryAt, Stands, QueryRow, next
<1>4. Stands(t, q, first, next, f)
  <2>1. first < next /\ QueriesIn(t, first) = q /\ Len(f) = (next - first) - 1
    <3>1. first < next /\ QueriesIn(rs, first) = q /\ Len(f) = (next - first) - 1
        BY <1>1 DEF Stands
    <3>2. first \in 0..Len(rs)
        BY <1>0
    <3>3. QED
        BY <1>2, <3>1, <3>2
  <2>2. \A n \in (first + 1)..(next - 1) : ~QueryAt(t, n)
      BY <1>1, <1>2, <1>5 DEF QueryAt, Stands
  <2>3. \A n \in 1..Len(f) : f[n] = t[first + n]
      BY <1>0, <1>1, <1>2, <2>1 DEF Stands, next
  <2>4. QED
      BY <1>3, <2>1, <2>2, <2>3 DEF Stands
<1>6. QED
    BY <1>3, <1>4 DEF Complete, t

LEMMA LastBegins ==
    ASSUME NEW rs \in Seq(Rows)
    PROVE  Latest(Append(rs, QueryRow), QueriesIn(rs, Len(rs)) + 1, <<>>)
<1> DEFINE t == Append(rs, QueryRow)
           first == Len(rs) + 1
<1>1. /\ Len(t) = Len(rs) + 1 /\ t[first] = QueryRow
      /\ QueriesIn(t, first) = QueriesIn(rs, Len(rs)) + 1
    BY RowAdded DEF Rows, QueryRow
<1> HIDE DEF t
<1>2. first \in 1..Len(t)
    BY <1>1
<1>3. Stands(t, QueriesIn(rs, Len(rs)) + 1, first, Len(t) + 1, <<>>)
    BY <1>1 DEF Stands, QueryAt, QueryRow
<1>4. QED
    BY <1>2, <1>3 DEF Latest, t

LEMMA LastGoesOn ==
    ASSUME NEW rs \in Seq(Rows), NEW row \in Filters, NEW q, NEW f \in Seq(Filters),
           Latest(rs, q, f)
    PROVE  Latest(Append(rs, row), q, Append(f, row))
<1> DEFINE t == Append(rs, row)
           g == Append(f, row)
<1>1. PICK first \in 1..Len(rs) : Stands(rs, q, first, Len(rs) + 1, f)
    BY DEF Latest
<1>2. /\ Len(t) = Len(rs) + 1 /\ t[Len(rs) + 1] = row /\ \A n \in 1..Len(rs) : t[n] = rs[n]
      /\ \A n \in 0..Len(rs) : QueriesIn(t, n) = QueriesIn(rs, n)
    BY RowAdded DEF Rows
<1>3. Len(g) = Len(f) + 1 /\ g[Len(f) + 1] = row /\ \A n \in 1..Len(f) : g[n] = f[n]
    OBVIOUS
<1>4. row.type = "filter"
    BY DEF Filters
<1>5. Len(f) \in Nat /\ Len(rs) \in Nat
    OBVIOUS
<1> HIDE DEF t, g
<1>6. first \in 1..Len(t) /\ QueryAt(t, first)
    BY <1>1, <1>2 DEF QueryAt, Stands
<1>7. Stands(t, q, first, Len(t) + 1, g)
  <2>1. first < Len(t) + 1 /\ QueriesIn(t, first) = q /\ Len(g) = ((Len(t) + 1) - first) - 1
      BY <1>1, <1>2, <1>3 DEF Stands
  <2>2. \A n \in (first + 1)..((Len(t) + 1) - 1) : ~QueryAt(t, n)
    <3>1. TAKE n \in (first + 1)..((Len(t) + 1) - 1)
    <3>2. CASE n = Len(rs) + 1
        BY <1>2, <1>4, <3>2 DEF QueryAt
    <3>3. CASE n # Len(rs) + 1
      <4>1. n \in (first + 1)..((Len(rs) + 1) - 1) /\ n \in 1..Len(rs)
          BY <1>2, <3>3
      <4>2. QED
          BY <1>1, <1>2, <4>1 DEF QueryAt, Stands
    <3>4. QED
        BY <3>2, <3>3
  <2>3. \A n \in 1..Len(g) : g[n] = t[first + n]
    <3>1. TAKE n \in 1..Len(g)
    <3>2. Len(f) = ((Len(rs) + 1) - first) - 1
        BY <1>1 DEF Stands
    <3>3. CASE n = Len(g)
      <4>1. first + n = Len(rs) + 1
          BY <1>3, <3>2, <3>3
      <4>2. QED
          BY <1>2, <1>3, <3>3, <4>1
    <3>4. CASE n # Len(g)
      <4>0. Len(g) = Len(f) + 1 /\ n \in 1..Len(g) /\ first \in 1..Len(rs)
          BY <1>3
      <4>1. n \in 1..Len(f) /\ first + n \in 1..Len(rs)
          BY <1>5, <3>2, <3>4, <4>0
      <4>2. QED
          BY <1>1, <1>2, <1>3, <4>1 DEF Stands
    <3>5. QED
        BY <3>3, <3>4
  <2>4. QED
      BY <1>6, <2>1, <2>2, <2>3 DEF Stands
<1>8. QED
    BY <1>6, <1>7 DEF Latest, t, g

LEMMA WizardInvInit ==
    ASSUME WizardInit
    PROVE  WizardInv
<1>1. <<>> \in Seq(Rows) /\ <<>> \in Seq(Filters) /\ <<>> \in Seq(ParsedQueries)
    BY EmptySeq
<1>2. QueriesIn(<<>>, 0) = 0
  <2>1. {i \in 1..0 : QueryAt(<<>>, i)} = {}
      OBVIOUS
  <2>2. QED
      BY <2>1, FS_EmptySet DEF QueriesIn
<1>3. QED
    BY <1>1, <1>2 DEF WizardInit, WizardInv, WizardShape, WizardOrder

\* What _process_sq_entries makes of the last saved query.
LEMMA CompletedIs ==
    ASSUME WizardShape, WizardOrder, wizardPhase # "failed", sqs # <<>>,
           NEW entries \in Seq(Filters),
           entries = <<>> => sqs[Len(sqs)].filters = <<>>
    PROVE  /\ Completed(entries) \in Seq(ParsedQueries)
           /\ Len(Completed(entries)) = Len(sqs)
           /\ Completed(entries)[Len(sqs)].filters = entries
           /\ \A q \in 1..Len(sqs) : q < Len(sqs) => Completed(entries)[q] = sqs[q]
<1> DEFINE parsed == [filters |-> entries, exprs |-> Exprs(entries)]
           t == [sqs EXCEPT ![Len(sqs)] = parsed]
<1>1. sqs \in Seq(ParsedQueries) /\ Len(sqs) \in 1..Len(sqs)
    BY DEF WizardShape
<1>2. CASE entries = <<>>
    BY <1>1, <1>2 DEF Completed
<1>3. CASE entries # <<>>
  <2>1. parsed \in ParsedQueries
      BY DEF ParsedQueries
  <2>2. parsed.filters = entries
      OBVIOUS
  <2>3. Completed(entries) = t
      BY <1>3 DEF Completed
  <2> HIDE DEF parsed
  <2>4. /\ t \in Seq(ParsedQueries) /\ Len(t) = Len(sqs) /\ t[Len(sqs)] = parsed
        /\ \A q \in 1..Len(sqs) : q < Len(sqs) => t[q] = sqs[q]
      BY <1>1, <2>1
  <2>5. QED
      BY <2>2, <2>3, <2>4
<1>4. QED
    BY <1>2, <1>3

LEMMA SavedQueryRowInv ==
    ASSUME WizardInv, NEW is_last \in BOOLEAN, SavedQueryRow(is_last)
    PROVE  WizardInv'
<1>1. WizardShape /\ WizardOrder /\ wizardPhase = "reading" /\ rows' = Append(rows, QueryRow)
    BY DEF WizardInv, SavedQueryRow, QueryRow
<1>2. rows \in Seq(Rows) /\ QueryRow \in Rows /\ sq_entries \in Seq(Filters) /\ sqs \in Seq(ParsedQueries)
    BY <1>1 DEF WizardShape, Rows
<1>3. rows' \in Seq(Rows) /\ Len(rows') = Len(rows) + 1
    BY <1>1, <1>2
<1>4. CASE Refused(sq_entries)
  <2>1. wizardPhase' = "failed" /\ sqs' = sqs /\ sq_entries' = sq_entries
      BY <1>4 DEF SavedQueryRow
  <2>2. QED
      BY <1>2, <1>3, <2>1 DEF WizardInv, WizardShape, WizardOrder
<1>5. CASE ~Refused(sq_entries)
  <2> DEFINE s == Completed(sq_entries)
             t == Append(s, NoFilters)
             N == Len(sqs)
  <2>1. /\ wizardPhase' = After(is_last) /\ sqs' = t /\ sq_entries' = <<>>
      BY <1>5 DEF SavedQueryRow
  <2>2. wizardPhase' \in {"reading", "done"}
      BY <2>1 DEF After
  <2>3. QueriesIn(rows, Len(rows)) = N /\ N \in Nat
      BY <1>1, <1>2 DEF WizardOrder
  <2>4. /\ s \in Seq(ParsedQueries) /\ Len(s) = N
        /\ \A q \in 1..N : Complete(rows', q, s[q].filters)
    <3>1. CASE sqs = <<>>
      <4>1. sq_entries = <<>>
          BY <1>1, <3>1 DEF WizardOrder
      <4>2. QED
          BY <1>2, <3>1, <4>1 DEF Completed
    <3>2. CASE sqs # <<>>
      <4>1. /\ Latest(rows, N, sq_entries) /\ sqs[N].filters = <<>>
            /\ \A q \in 1..N : q < N => Complete(rows, q, sqs[q].filters)
          BY <1>1, <3>2 DEF WizardOrder
      <4>2. /\ s \in Seq(ParsedQueries) /\ Len(s) = N /\ s[N].filters = sq_entries
            /\ \A q \in 1..N : q < N => s[q] = sqs[q]
          BY <1>1, <1>2, <3>2, <4>1, CompletedIs
      <4>3. Complete(rows', N, sq_entries)
          BY <1>1, <1>2, <4>1, LastCompleted
      <4>4. \A q \in 1..N : q < N => Complete(rows', q, sqs[q].filters)
          BY <1>1, <1>2, <4>1, StillComplete
      <4> HIDE DEF s, N
      <4>5. \A q \in 1..N : q = N \/ q < N
          BY <2>3
      <4>6. QED
          BY <4>2, <4>3, <4>4, <4>5
    <3>3. QED
        BY <3>1, <3>2
  <2> HIDE DEF s
  <2>5. /\ t \in Seq(ParsedQueries) /\ Len(t) = N + 1 /\ t[N + 1] = NoFilters
        /\ \A q \in 1..N : t[q] = s[q]
      BY <2>4, NoFiltersParsed
  <2>6. Latest(rows', N + 1, <<>>) /\ QueriesIn(rows', Len(rows')) = N + 1
    <3>1. QueriesIn(rows', Len(rows')) = N + 1
        BY <1>1, <1>2, <1>3, <2>3, RowAdded DEF QueryRow
    <3>2. QED
        BY <1>1, <1>2, <2>3, <3>1, LastBegins
  <2> HIDE DEF t, N
  <2>7. \A q \in 1..(N + 1) : q < N + 1 => Complete(rows', q, t[q].filters)
      BY <2>3, <2>4, <2>5
  <2>8. t # <<>>
      BY <2>3, <2>5
  <2>9. <<>> \in Seq(Filters)
      BY EmptySeq
  <2>10. WizardShape'
      BY <1>3, <2>1, <2>2, <2>5, <2>9 DEF WizardShape
  <2>11. WizardOrder'
      BY <2>1, <2>2, <2>5, <2>6, <2>7, <2>8, NoFiltersParsed DEF WizardOrder
  <2>12. QED
      BY <2>10, <2>11 DEF WizardInv
<1>6. QED
    BY <1>4, <1>5

LEMMA FilterRowInv ==
    ASSUME WizardInv, NEW filter \in Filters, NEW is_last \in BOOLEAN, FilterRow(filter, is_last)
    PROVE  WizardInv'
<1>1. /\ WizardShape /\ WizardOrder /\ wizardPhase = "reading"
      /\ rows' = Append(rows, filter) /\ sq_entries' = Append(sq_entries, filter)
    BY DEF WizardInv, FilterRow
<1>2. rows \in Seq(Rows) /\ filter \in Rows /\ sq_entries \in Seq(Filters) /\ sqs \in Seq(ParsedQueries)
    BY <1>1 DEF WizardShape, Rows
<1>3. /\ rows' \in Seq(Rows) /\ Len(rows') = Len(rows) + 1
      /\ sq_entries' \in Seq(Filters) /\ sq_entries' # <<>>
  <2>1. rows' \in Seq(Rows) /\ Len(rows') = Len(rows) + 1
      BY <1>1, <1>2
  <2>2. sq_entries' \in Seq(Filters) /\ Len(sq_entries') = Len(sq_entries) + 1 /\ Len(sq_entries) \in Nat
      BY <1>1, <1>2
  <2>3. QED
      BY <2>1, <2>2
<1> DEFINE fails == sqs = <<>> \/ (is_last /\ Refused(sq_entries'))
           N == Len(sqs)
<1>4. CASE fails
  <2>1. wizardPhase' = "failed" /\ sqs' = sqs
      BY <1>4 DEF FilterRow
  <2>2. QED
      BY <1>2, <1>3, <2>1 DEF WizardInv, WizardShape, WizardOrder
<1>5. CASE ~fails
  <2>1. /\ wizardPhase' = After(is_last) /\ sqs # <<>>
        /\ sqs' = IF is_last THEN Completed(sq_entries') ELSE sqs
      BY <1>5 DEF FilterRow
  <2>2. /\ Latest(rows, N, sq_entries) /\ sqs[N].filters = <<>> /\ N \in 1..N
        /\ \A q \in 1..N : q < N => Complete(rows, q, sqs[q].filters)
        /\ QueriesIn(rows, Len(rows)) = N
      BY <1>1, <1>2, <2>1 DEF WizardOrder
  <2>3. Latest(rows', N, sq_entries')
      BY <1>1, <1>2, <2>2, LastGoesOn
  <2>4. QueriesIn(rows', Len(rows')) = N
    <3>1. filter.type = "filter"
        BY DEF Filters
    <3>2. QED
        BY <1>1, <1>2, <1>3, <2>2, <3>1, RowAdded
  <2>5. \A q \in 1..N : q < N => Complete(rows', q, sqs[q].filters)
      BY <1>1, <1>2, <2>2, StillComplete
  <2>6. /\ sqs' \in Seq(ParsedQueries) /\ Len(sqs') = N
        /\ sqs'[N].filters = IF is_last THEN sq_entries' ELSE <<>>
        /\ \A q \in 1..N : q < N => sqs'[q] = sqs[q]
    <3>1. CASE is_last
      <4>1. sqs' = Completed(sq_entries')
          BY <2>1, <3>1
      <4>2. \A e \in Seq(Filters) : e # <<>> =>
              /\ Completed(e) \in Seq(ParsedQueries)
              /\ Len(Completed(e)) = N
              /\ Completed(e)[N].filters = e
              /\ \A q \in 1..N : q < N => Completed(e)[q] = sqs[q]
          BY <1>1, <2>1, CompletedIs
      <4>3. QED
          BY <1>3, <3>1, <4>1, <4>2
    <3>2. CASE ~is_last
        BY <1>2, <2>1, <2>2, <3>2
    <3>3. QED
        BY <3>1, <3>2
  <2>7. wizardPhase' = IF is_last THEN "done" ELSE "reading"
      BY <2>1 DEF After
  <2>8. WizardShape'
      BY <1>3, <2>6, <2>7 DEF WizardShape
  <2> HIDE DEF N
  <2>9. sqs' # <<>>
      BY <2>2, <2>6
  <2>10. \A q \in 1..N : q < N => Complete(rows', q, sqs'[q].filters)
      BY <2>5, <2>6
  <2>11. WizardOrder'
      BY <2>3, <2>4, <2>6, <2>7, <2>9, <2>10 DEF WizardOrder
  <2>12. QED
      BY <2>8, <2>11 DEF WizardInv
<1>6. QED
    BY <1>4, <1>5

LEMMA WizardInvNext ==
    ASSUME WizardInv, [WizardNext]_wizardVars
    PROVE  WizardInv'
<1>1. CASE UNCHANGED wizardVars
    BY <1>1 DEF WizardInv, WizardShape, WizardOrder, wizardVars
<1>2. CASE \E is_last \in BOOLEAN : SavedQueryRow(is_last)
    BY <1>2, SavedQueryRowInv
<1>3. CASE \E is_last \in BOOLEAN : \E filter \in Filters : FilterRow(filter, is_last)
    BY <1>3, FilterRowInv
<1>4. QED
    BY <1>1, <1>2, <1>3 DEF WizardNext

LEMMA WizardInvAlways == WizardSpec => []WizardInv
<1>1. WizardInit => WizardInv
    BY WizardInvInit
<1>2. WizardInv /\ [WizardNext]_wizardVars => WizardInv'
    BY WizardInvNext
<1>3. QED
    BY <1>1, <1>2, PTL DEF WizardSpec

LEMMA ParsedLength ==
    ASSUME NEW e \in Seq(Filters)
    PROVE  e \in Seq(Entries) /\ Len(Exprs(e)) = Len(e)
<1>1. e \in Seq(Entries)
  <2>1. \A n \in 1..Len(e) : e[n] \in Entries
      BY FiltersAreEntries
  <2>2. QED
      BY <2>1, FiltersAreEntries
<1>2. QED
    BY <1>1, ExprsAre

\* What the wizards keep has its shape: as many expressions as filters.
LEMMA WizardTyped == WizardInv => WizardTypeOK
<1>1. SUFFICES ASSUME WizardInv PROVE WizardTypeOK
    OBVIOUS
<1>2. WizardShape
    BY <1>1 DEF WizardInv
<1>3. ASSUME NEW q \in Range(sqs)
      PROVE  q.filters \in Seq(Filters) /\ Len(q.exprs) = Len(q.filters)
  <2>1. q \in ParsedQueries
      BY <1>2 DEF WizardShape, Range
  <2>2. PICK e \in Seq(Filters) : q = [filters |-> e, exprs |-> Exprs(e)]
      BY <2>1 DEF ParsedQueries
  <2>3. QED
      BY <2>2, ParsedLength
<1>4. QED
    BY <1>2, <1>3 DEF WizardShape, WizardTypeOK, Rows, QueryRow

\* The type invariant of the query wizards: every saved query of a CSV file has
\* an expression for each of its filters (Wizard.parse, WizardCsv.parse).
THEOREM WizardTypeCorrect == WizardSpec => []WizardTypeOK
<1>1. QED
    BY WizardInvAlways, WizardTyped, PTL

\* What stands below a saved query is what the property says of it.
LEMMA StandsBelow ==
    ASSUME NEW rs \in Seq(Rows), NEW q, NEW f \in Seq(Filters),
           NEW first \in 1..Len(rs), NEW next \in 1..(Len(rs) + 1),
           Stands(rs, q, first, next, f)
    PROVE  f = SubSeq(rs, first + 1, next - 1)
<1> DEFINE t == SubSeq(rs, first + 1, next - 1)
<1>1. /\ Len(rs) \in Nat /\ first + 1 \in Int /\ next - 1 \in Int /\ first < next
      /\ \A n \in (first + 1)..(next - 1) : rs[n] \in Rows
    BY DEF Stands
<1>2. /\ t \in Seq(Rows)
      /\ Len(t) = (IF first + 1 <= next - 1 THEN (next - 1) - (first + 1) + 1 ELSE 0)
      /\ \A n \in 1..((next - 1) - (first + 1) + 1) : t[n] = rs[(first + 1) + n - 1]
    BY <1>1, SubSeqProperties
<1> HIDE DEF t
<1>3. Len(t) = Len(f)
    BY <1>1, <1>2 DEF Stands
<1>4. \A n \in 1..Len(f) : f[n] = t[n]
  <2>1. TAKE n \in 1..Len(f)
  <2>2. Len(f) = (next - first) - 1 /\ f[n] = rs[first + n]
      BY DEF Stands
  <2>3. n \in 1..((next - 1) - (first + 1) + 1) /\ (first + 1) + n - 1 = first + n
      BY <1>1, <2>2
  <2>4. QED
      BY <1>2, <2>2, <2>3
<1>5. f \in Seq(Rows)
  <2>1. \A n \in 1..Len(f) : f[n] \in Rows
      BY DEF Rows
  <2>2. QED
      BY <2>1
<1>6. QED
    BY <1>2, <1>3, <1>4, <1>5, SeqEqual DEF t

LEMMA FiltersStand ==
    ASSUME WizardInv, wizardPhase # "failed"
    PROVE  UnderTheirQuery
<1>1. WizardShape /\ WizardOrder
    BY DEF WizardInv
<1>2. sqs \in Seq(ParsedQueries) /\ rows \in Seq(Rows) /\ DOMAIN sqs = 1..Len(sqs)
    BY <1>1 DEF WizardShape
<1>3. SUFFICES ASSUME NEW q \in 1..Len(sqs), q < Len(sqs) \/ wizardPhase = "done"
               PROVE  \E first, next \in 1..(Len(rows) + 1) :
                        /\ first < next /\ IsQuery(first)
                        /\ Cardinality({n \in 1..first : IsQuery(n)}) = q
                        /\ next = Len(rows) + 1 \/ IsQuery(next)
                        /\ \A n \in (first + 1)..(next - 1) : ~IsQuery(n)
                        /\ sqs[q].filters = SubSeq(rows, first + 1, next - 1)
    BY <1>2 DEF UnderTheirQuery
<1> DEFINE f == sqs[q].filters
<1>4. f \in Seq(Filters)
  <2>1. sqs[q] \in ParsedQueries
      BY <1>2
  <2>2. QED
      BY <2>1 DEF ParsedQueries
<1>5. \E first \in 1..Len(rows), next \in 1..(Len(rows) + 1) :
          /\ next = Len(rows) + 1 \/ QueryAt(rows, next)
          /\ Stands(rows, q, first, next, f)
  <2>1. CASE q < Len(sqs)
    <3>1. Complete(rows, q, f)
        BY <1>1, <1>3, <2>1 DEF WizardOrder
    <3>2. PICK first, next \in 1..Len(rows) : QueryAt(rows, next) /\ Stands(rows, q, first, next, f)
        BY <3>1 DEF Complete
    <3>3. next \in 1..(Len(rows) + 1)
        BY <1>2
    <3>4. QED
        BY <3>2, <3>3
  <2>2. CASE ~(q < Len(sqs))
    <3>1. q = Len(sqs) /\ wizardPhase = "done" /\ sqs # <<>>
      <4>1. Len(sqs) \in Nat /\ q \in 1..Len(sqs)
          BY <1>2
      <4>2. q = Len(sqs) /\ Len(sqs) # 0
          BY <2>2, <4>1
      <4>3. QED
          BY <1>3, <2>2, <4>2
    <3>2. Latest(rows, q, f)
        BY <1>1, <3>1 DEF WizardOrder
    <3>3. PICK first \in 1..Len(rows) : Stands(rows, q, first, Len(rows) + 1, f)
        BY <3>2 DEF Latest
    <3>4. Len(rows) + 1 \in 1..(Len(rows) + 1)
        BY <1>2
    <3>5. QED
        BY <3>3, <3>4
  <2>3. QED
      BY <2>1, <2>2
<1>6. PICK first \in 1..Len(rows), next \in 1..(Len(rows) + 1) :
          /\ next = Len(rows) + 1 \/ QueryAt(rows, next)
          /\ Stands(rows, q, first, next, f)
    BY <1>5
<1>7. f = SubSeq(rows, first + 1, next - 1)
    BY <1>2, <1>4, <1>6, StandsBelow
<1>8. first \in 1..(Len(rows) + 1)
    BY <1>2
<1>9. /\ first < next /\ IsQuery(first)
      /\ Cardinality({n \in 1..first : IsQuery(n)}) = q
      /\ \A n \in (first + 1)..(next - 1) : ~IsQuery(n)
      /\ next = Len(rows) + 1 \/ IsQuery(next)
    BY <1>6 DEF Stands, QueriesIn, QueryAt, IsQuery
<1> HIDE DEF f
<1>10. QED
    BY <1>7, <1>8, <1>9 DEF f

LEMMA FiltersAsGrouped == WizardInv => FiltersGrouped
<1>1. SUFFICES ASSUME WizardInv PROVE FiltersGrouped
    OBVIOUS
<1>2. wizardPhase # "failed" => UnderTheirQuery
    BY <1>1, FiltersStand
<1>3. ASSUME NEW q \in Range(sqs)
      PROVE  /\ Balanced(q.exprs) /\ AsWritten(q.filters, q.exprs)
             /\ Weighed(q.exprs) /\ ParsedAgainAlike(q.filters, q.exprs)
  <2>1. q \in ParsedQueries
      BY <1>1 DEF WizardInv, WizardShape, Range
  <2>2. PICK e \in Seq(Filters) : q = [filters |-> e, exprs |-> Exprs(e)]
      BY <2>1 DEF ParsedQueries
  <2>3. q.filters = e /\ q.exprs = Exprs(e) /\ e \in Seq(Entries)
      BY <2>2, ParsedLength
  <2>4. Balanced(Exprs(e)) /\ AsWritten(e, Exprs(e)) /\ Weighed(Exprs(e)) /\ ParsedAgainAlike(e, Exprs(e))
      BY <2>3, ExprsBalanced, ExprsAsWritten, ExprsWeighed, ExprsAgain
  <2>5. QED
      BY <2>3, <2>4
<1>4. QED
    BY <1>2, <1>3 DEF FiltersGrouped

\* Every saved query of a CSV file has the filters below it, and their brackets
\* balance, keep what was written and are weighed, for every list of filters;
\* a second pass over the entries, which the first has written to, finds the
\* same expressions (Wizard.parse, WizardCsv.parse).
THEOREM FiltersAreGrouped == WizardSpec => []FiltersGrouped
<1>1. QED
    BY WizardInvAlways, FiltersAsGrouped, PTL

-----------------------------------------------------------------------------
(* What the callbacks make of a row.                                        *)

\* The arguments of a call, as start() completes them.
CallGiven ==
    /\ shapeArgs.fields \subseteq {"hostname", "software"}
    /\ shapeArgs.field_explode \in {"", "hostname", "software"}
    /\ shapeArgs.field_null \in BOOLEAN /\ shapeArgs.field_flatten \in BOOLEAN
    /\ shapeArgs.explode_entities \in BOOLEAN /\ shapeArgs.field_join \in BOOLEAN
    /\ include \in BOOLEAN
    /\ shapeArgs.explode_entities => include
    /\ include => DetailsExclude \subseteq excludes

\* A row whose details are those of fields that were asked for, and what its
\* fields hold.
Came(row) ==
    /\ \A f \in DOMAIN row :
            /\ IsField(row[f])
            /\ f \in {"hostname", "hostname_details"} => "hostname" \in shapeArgs.fields
            /\ f \in {"software", "software_details"} => "software" \in shapeArgs.fields
            /\ IsDetails(f) => include
    /\ "software" \in DOMAIN row => HasItems(row["software"])
    /\ \A d \in DOMAIN row : IsDetails(d) =>
          \A v \in Range(row[d].of) : IsField(v) /\ (IsComplex(d) => HasItems(v))

\* The schemas that are selected, whatever row they were selected with.
SchemasOK(sel) ==
    /\ ApiFields \cup shapeArgs.fields \cup Reports \subseteq sel
    /\ include => EntityInfo \cup DetailsExclude \subseteq sel
    /\ ~include => \A f \in sel : ~IsDetails(f)

\* A row on its way through the callbacks.
Holds(row) ==
    /\ \A k \in DOMAIN row : IsValue(row[k])
    /\ \A k \in DOMAIN row \cap {"adapters", "hostname", "software"} :
            row[k].of \in Seq(Range(row[k].of))
    /\ "software" \in DOMAIN row => HasItems(row["software"])

LEMMA UpdatedIs ==
    ASSUME NEW row, NEW new
    PROVE  /\ DOMAIN Updated(row, new) = DOMAIN row \cup DOMAIN new
           /\ \A k \in DOMAIN row \cup DOMAIN new :
                Updated(row, new)[k] = IF k \in DOMAIN new THEN new[k] ELSE row[k]
BY DEF Updated

LEMMA ListIsValue ==
    ASSUME NEW s
    PROVE  IsValue(List(s)) /\ List(s).of = s
BY DEF IsValue, List

LEMMA OneIsValue ==
    ASSUME NEW x
    PROVE  /\ IsValue(One(x)) /\ One(x).of = <<x>>
           /\ One(x).of \in Seq(Range(One(x).of))
<1>1. <<x>> \in Seq({x}) /\ Len(<<x>>) = 1 /\ Range(<<x>>) = {x}
    BY DEF Range
<1>2. QED
    BY <1>1 DEF IsValue, One

\* A sequence is one of its elements.
LEMMA OfItsElements ==
    ASSUME NEW S, NEW s \in Seq(S)
    PROVE  s \in Seq(Range(s))
<1>1. Len(s) \in Nat /\ DOMAIN s = 1..Len(s) /\ s = [n \in 1..Len(s) |-> s[n]]
    OBVIOUS
<1>2. \A n \in 1..Len(s) : s[n] \in Range(s)
    BY <1>1 DEF Range
<1>3. s \in [1..Len(s) -> Range(s)]
    BY <1>1, <1>2
<1>4. QED
    BY <1>1, <1>3

\* A sequence made of the positions of another one.
LEMMA MappedSeq ==
    ASSUME NEW S, NEW s \in Seq(S), NEW t, DOMAIN t = DOMAIN s, t = [n \in DOMAIN t |-> t[n]]
    PROVE  t \in Seq(Range(t)) /\ Len(t) = Len(s)
<1>1. Len(s) \in Nat /\ DOMAIN s = 1..Len(s)
    OBVIOUS
<1>2. t \in [1..Len(s) -> Range(t)]
    BY <1>1 DEF Range
<1>3. QED
    BY <1>1, <1>2

LEMMA ReportAdded ==
    ASSUME NEW row
    PROVE  /\ DOMAIN WithReport(row) = DOMAIN row \cup Reports
           /\ \A k \in DOMAIN row \ Reports : WithReport(row)[k] = row[k]
           /\ \A k \in Reports : IsValue(WithReport(row)[k])
<1> DEFINE names == UNION {Range(SubOf(i, "name").of) :
                             i \in {j \in Range(ItemsOf(row, "software")) : "name" \in DOMAIN j}}
           A == [f \in Reports |->
                    List(SelectSeq(Adapters, LAMBDA a : ~Contains(ItemsOf(row, "adapters"), a)))]
           B == [f \in Reports |->
                    CASE f = "software_whitelist" -> List(SetToSeq(Whitelist))
                      [] f = "software_missing" -> List(SetToSeq(Whitelist \cap names))
                      [] f = "software_extra" -> List(SetToSeq(names))]
           C == [f \in Reports |-> One("date")]
<1>1. CASE shapeArgs.report = "adapters"
  <2>1. WithReport(row) = Updated(row, A)
      BY <1>1 DEF WithReport
  <2>2. DOMAIN A = Reports /\ \A k \in Reports : IsValue(A[k])
      BY ListIsValue
  <2> HIDE DEF A
  <2>3. /\ DOMAIN Updated(row, A) = DOMAIN row \cup DOMAIN A
        /\ \A k \in DOMAIN row \cup DOMAIN A :
             Updated(row, A)[k] = IF k \in DOMAIN A THEN A[k] ELSE row[k]
      BY UpdatedIs
  <2>4. QED
      BY <2>1, <2>2, <2>3
<1>2. CASE shapeArgs.report = "software"
  <2>1. WithReport(row) = Updated(row, B)
      BY <1>2 DEF WithReport
  <2>2. DOMAIN B = Reports
      OBVIOUS
  <2>3. Reports = {"software_missing", "software_whitelist", "software_extra"}
      BY <1>2 DEF Reports
  <2>4. \A k \in Reports : IsValue(B[k])
      BY <2>3, ListIsValue
  <2> HIDE DEF B
  <2>5. /\ DOMAIN Updated(row, B) = DOMAIN row \cup DOMAIN B
        /\ \A k \in DOMAIN row \cup DOMAIN B :
             Updated(row, B)[k] = IF k \in DOMAIN B THEN B[k] ELSE row[k]
      BY UpdatedIs
  <2>6. QED
      BY <2>1, <2>2, <2>4, <2>5
<1>3. CASE shapeArgs.report \notin {"adapters", "software"}
  <2>1. WithReport(row) = Updated(row, C)
      BY <1>3 DEF WithReport
  <2>2. DOMAIN C = Reports /\ \A k \in Reports : IsValue(C[k])
      BY OneIsValue
  <2> HIDE DEF C
  <2>3. /\ DOMAIN Updated(row, C) = DOMAIN row \cup DOMAIN C
        /\ \A k \in DOMAIN row \cup DOMAIN C :
             Updated(row, C)[k] = IF k \in DOMAIN C THEN C[k] ELSE row[k]
      BY UpdatedIs
  <2>4. QED
      BY <2>1, <2>2, <2>3
<1>4. QED
    BY <1>1, <1>2, <1>3

\* No field of the sample, and no details, is a report's.
LEMMA ReportsApart ==
    /\ \A f \in {"adapters", "hostname", "software"} : f \notin Reports
    /\ \A f \in Reports : ~IsDetails(f)
BY TextsAssumption DEF Reports, IsDetails, EntityInfo

\* Items of which nothing is told apart that is shown of them.
SameSubs(a, b) ==
    /\ DOMAIN a = DOMAIN b /\ Len(a) = Len(b)
    /\ \A n \in DOMAIN b : \A s \in OpenSubs : SubOf(a[n], s) = SubOf(b[n], s)

LEMMA ExcludedGone ==
    ASSUME NEW row, NEW sel
    PROVE  LET w == WithoutExcluded(row, sel)
           IN  /\ DOMAIN w = DOMAIN row \ (sel \cap excludes)
               /\ \A k \in DOMAIN w : k # "software" => w[k] = row[k]
               /\ "software" \in DOMAIN w /\ HasItems(row["software"])
                  /\ row["software"].of \in Seq(Range(row["software"].of))
                  => /\ IsValue(w["software"]) /\ HasItems(w["software"])
                     /\ w["software"].of \in Seq(Range(w["software"].of))
                     /\ SameSubs(w["software"].of, row["software"].of)
<1> DEFINE trimmed(f) == List([n \in DOMAIN row[f].of |->
                            Restrict(row[f].of[n], DOMAIN row[f].of[n] \cap OpenSubs)])
           w == [f \in DOMAIN row \ (sel \cap excludes) |->
                    IF f = "software" THEN trimmed(f) ELSE row[f]]
<1>1. WithoutExcluded(row, sel) = w
  <2>1. {f \in sel : Excluded(f)} = sel \cap excludes
      BY DEF Excluded
  <2>2. QED
      BY <2>1 DEF WithoutExcluded
<1>2. ASSUME "software" \in DOMAIN w, HasItems(row["software"]),
             row["software"].of \in Seq(Range(row["software"].of))
      PROVE  /\ IsValue(w["software"]) /\ HasItems(w["software"])
             /\ w["software"].of \in Seq(Range(w["software"].of))
             /\ SameSubs(w["software"].of, row["software"].of)
  <2> DEFINE of == row["software"].of
             t == [n \in DOMAIN of |-> Restrict(of[n], DOMAIN of[n] \cap OpenSubs)]
  <2>1. w["software"] = List(t)
      BY <1>2
  <2>2. IsValue(List(t)) /\ List(t).of = t
      BY ListIsValue
  <2>3. ASSUME NEW item \in Range(t), NEW s \in DOMAIN item
        PROVE  IsField(item[s])
    <3>1. PICK n \in DOMAIN of : item = Restrict(of[n], DOMAIN of[n] \cap OpenSubs)
        BY <2>3 DEF Range
    <3>2. s \in DOMAIN of[n] /\ item[s] = of[n][s]
        BY <2>3, <3>1 DEF Restrict
    <3>3. of[n] \in Range(of)
        BY DEF Range
    <3>4. QED
        BY <1>2, <3>2, <3>3 DEF HasItems
  <2>4. t \in Seq(Range(t)) /\ Len(t) = Len(of)
    <3>1. DOMAIN t = DOMAIN of /\ t = [n \in DOMAIN t |-> t[n]]
        OBVIOUS
    <3> HIDE DEF t
    <3>2. QED
        BY <1>2, <3>1, MappedSeq
  <2>5. SameSubs(t, of)
    <3>1. ASSUME NEW n \in DOMAIN of, NEW s \in OpenSubs
          PROVE  SubOf(t[n], s) = SubOf(of[n], s)
      <4>1. t[n] = Restrict(of[n], DOMAIN of[n] \cap OpenSubs)
          OBVIOUS
      <4>2. /\ DOMAIN t[n] = DOMAIN of[n] \cap OpenSubs
            /\ \A k \in DOMAIN t[n] : t[n][k] = of[n][k]
          BY <4>1 DEF Restrict
      <4>3. QED
          BY <4>2 DEF SubOf
    <3>2. DOMAIN t = DOMAIN of
        OBVIOUS
    <3>3. QED
        BY <2>4, <3>1, <3>2 DEF SameSubs
  <2> HIDE DEF t, w
  <2>6. QED
      BY <2>1, <2>2, <2>3, <2>4, <2>5 DEF HasItems
<1>3. /\ DOMAIN w = DOMAIN row \ (sel \cap excludes)
      /\ \A k \in DOMAIN w : k # "software" => w[k] = row[k]
    OBVIOUS
<1> HIDE DEF w
<1>4. QED
    BY <1>1, <1>2, <1>3

LEMMA ItemsAre ==
    ASSUME NEW row, Holds(row), NEW f \in {"adapters", "hostname", "software"}
    PROVE  /\ ItemsOf(row, f) \in Seq(Range(ItemsOf(row, f)))
           /\ f \in DOMAIN row => ItemsOf(row, f) = row[f].of
           /\ f \notin DOMAIN row => ItemsOf(row, f) = << >>
           /\ \A item \in Range(ItemsOf(row, "software")) :
                \A s \in DOMAIN item : IsField(item[s])
<1>1. << >> \in Seq(Range(<< >>)) /\ Range(<< >>) = {}
  <2>1. Range(<< >>) = {}
      BY DEF Range
  <2>2. QED
      BY <2>1, EmptySeq
<1>2. f \in DOMAIN row => /\ ItemsOf(row, f) = row[f].of
                          /\ ItemsOf(row, f) \in Seq(Range(ItemsOf(row, f)))
    BY DEF ItemsOf, Holds
<1>3. f \notin DOMAIN row => ItemsOf(row, f) = << >>
    BY DEF ItemsOf
<1>4. ASSUME NEW item \in Range(ItemsOf(row, "software")), NEW s \in DOMAIN item
      PROVE  IsField(item[s])
  <2>1. "software" \in DOMAIN row
      BY <1>1 DEF ItemsOf
  <2>2. HasItems(row["software"]) /\ item \in Range(row["software"].of)
      BY <2>1 DEF ItemsOf, Holds
  <2>3. QED
      BY <2>2 DEF HasItems
<1>5. QED
    BY <1>1, <1>2, <1>3, <1>4

LEMMA SubIsField ==
    ASSUME NEW item, \A s \in DOMAIN item : IsField(item[s]), NEW s
    PROVE  IsField(SubOf(item, s)) /\ IsValue(SubOf(item, s))
BY OneIsValue DEF SubOf, Null, IsField

LEMMA NullsFilled ==
    ASSUME NEW row, NEW sel, Holds(row)
    PROVE  LET w == WithNulls(row, sel)
               filled == {f \in sel : f \notin excludes /\ ~IsDetails(f)}
           IN  /\ DOMAIN w = DOMAIN row \cup (IF shapeArgs.field_null THEN filled ELSE {})
               /\ \A k \in DOMAIN row : k # "software" => w[k] = row[k]
               /\ \A k \in DOMAIN w \ DOMAIN row : k # "software" => w[k] = Null
               /\ SameSubs(ItemsOf(w, "software"), ItemsOf(row, "software"))
               /\ Holds(w)
<1> DEFINE filled == {f \in sel : f \notin excludes /\ ~IsDetails(f)}
           items == ItemsOf(row, "software")
           fullItems == [n \in DOMAIN items |->
                            Updated(items[n], [s \in OpenSubs |-> SubOf(items[n], s)])]
           full(f) == IF IsComplex(f)
                      THEN List([n \in DOMAIN ItemsOf(row, f) |->
                              LET item == ItemsOf(row, f)[n]
                              IN  Updated(item, [s \in OpenSubs |-> SubOf(item, s)])])
                      ELSE IF f \in DOMAIN row THEN row[f] ELSE Null
           new == [f \in filled |-> full(f)]
           w == WithNulls(row, sel)
<1>1. CASE ~shapeArgs.field_null
  <2>1. w = row
      BY <1>1 DEF WithNulls
  <2> HIDE DEF w
  <2>2. QED
      BY <1>1, <2>1 DEF w, SameSubs
<1>2. CASE shapeArgs.field_null
  <2>1. w = Updated(row, new)
      BY <1>2 DEF WithNulls, Excluded
  <2>2. \A f \in filled : f # "software" => ~IsComplex(f)
      BY DEF IsComplex, IsDetails
  <2>3. \A f \in filled : f # "software" => new[f] = IF f \in DOMAIN row THEN row[f] ELSE Null
      BY <2>2
  <2>4. "software" \in filled => new["software"] = List(fullItems)
      BY DEF IsComplex
  <2>5. DOMAIN new = filled
      OBVIOUS
  <2> HIDE DEF new, w
  <2>6. /\ DOMAIN w = DOMAIN row \cup filled
        /\ \A k \in DOMAIN row \cup filled : w[k] = IF k \in filled THEN new[k] ELSE row[k]
    <3>1. /\ DOMAIN Updated(row, new) = DOMAIN row \cup DOMAIN new
          /\ \A k \in DOMAIN row \cup DOMAIN new :
               Updated(row, new)[k] = IF k \in DOMAIN new THEN new[k] ELSE row[k]
        BY UpdatedIs
    <3>2. QED
        BY <2>1, <2>5, <3>1
  <2>7. items \in Seq(Range(items)) /\ \A item \in Range(items) : \A s \in DOMAIN item : IsField(item[s])
      BY ItemsAre
  <2>8. fullItems \in Seq(Range(fullItems)) /\ Len(fullItems) = Len(items)
    <3>1. DOMAIN fullItems = DOMAIN items /\ fullItems = [n \in DOMAIN fullItems |-> fullItems[n]]
        OBVIOUS
    <3> HIDE DEF fullItems, items
    <3>2. QED
        BY <2>7, <3>1, MappedSeq
  <2>9. ASSUME NEW item \in Range(fullItems), NEW s \in DOMAIN item
        PROVE  IsField(item[s])
    <3>1. PICK n \in DOMAIN items :
             item = Updated(items[n], [t \in OpenSubs |-> SubOf(items[n], t)])
        BY <2>9 DEF Range
    <3>2. items[n] \in Range(items)
        BY DEF Range
    <3>3. \A t \in DOMAIN items[n] : IsField(items[n][t])
        BY <2>7, <3>2
    <3>4. \A t : IsField(SubOf(items[n], t))
        BY <3>3, SubIsField
    <3> HIDE DEF items
    <3>5. QED
        BY <2>9, <3>1, <3>3, <3>4 DEF Updated
  <2>17. SameSubs(fullItems, items)
    <3>1. ASSUME NEW n \in DOMAIN items, NEW s \in OpenSubs
          PROVE  SubOf(fullItems[n], s) = SubOf(items[n], s)
      <4> DEFINE more == [t \in OpenSubs |-> SubOf(items[n], t)]
      <4>1. fullItems[n] = Updated(items[n], more)
          OBVIOUS
      <4>2. DOMAIN more = OpenSubs /\ more[s] = SubOf(items[n], s)
          OBVIOUS
      <4> HIDE DEF more, fullItems, items
      <4>3. /\ DOMAIN Updated(items[n], more) = DOMAIN items[n] \cup DOMAIN more
            /\ \A k \in DOMAIN items[n] \cup DOMAIN more :
                 Updated(items[n], more)[k] = IF k \in DOMAIN more THEN more[k] ELSE items[n][k]
          BY UpdatedIs
      <4>4. s \in DOMAIN fullItems[n] /\ fullItems[n][s] = SubOf(items[n], s)
          BY <4>1, <4>2, <4>3
      <4>5. QED
          BY <4>4 DEF SubOf
    <3>2. DOMAIN fullItems = DOMAIN items
        OBVIOUS
    <3> HIDE DEF fullItems, items
    <3>3. QED
        BY <2>8, <3>1, <3>2 DEF SameSubs
  <2> HIDE DEF fullItems, items
  <2>10. "software" \in filled =>
            /\ IsValue(w["software"]) /\ w["software"].of \in Seq(Range(w["software"].of))
            /\ HasItems(w["software"])
    <3>1. IsValue(List(fullItems)) /\ List(fullItems).of = fullItems
        BY ListIsValue
    <3>2. "software" \in filled => w["software"] = List(fullItems)
        BY <2>4, <2>6
    <3>3. QED
        BY <2>8, <2>9, <3>1, <3>2 DEF HasItems
  <2>11. IsValue(Null) /\ Null.of \in Seq(Range(Null.of))
      BY OneIsValue DEF Null
  <2>12. \A k \in DOMAIN w : k # "software" =>
            w[k] = IF k \in DOMAIN row THEN row[k] ELSE Null
      BY <2>3, <2>6
  <2>13. "software" \in DOMAIN w /\ "software" \notin filled =>
            "software" \in DOMAIN row /\ w["software"] = row["software"]
      BY <2>6
  <2> HIDE DEF filled
  <2>14. Holds(w)
    <3>1. \A k \in DOMAIN w : IsValue(w[k])
        BY <2>6, <2>10, <2>11, <2>12, <2>13 DEF Holds
    <3>2. \A k \in DOMAIN w \cap {"adapters", "hostname", "software"} :
            w[k].of \in Seq(Range(w[k].of))
        BY <2>6, <2>10, <2>11, <2>12, <2>13 DEF Holds
    <3>3. "software" \in DOMAIN w => HasItems(w["software"])
        BY <2>6, <2>10, <2>13 DEF Holds
    <3>4. QED
        BY <3>1, <3>2, <3>3 DEF Holds
  <2>15. \A k \in DOMAIN row : k # "software" => w[k] = row[k]
      BY <2>6, <2>12
  <2>16. \A k \in DOMAIN w \ DOMAIN row : k # "software" => w[k] = Null
      BY <2>6, <2>12
  <2>18. SameSubs(ItemsOf(w, "software"), items)
    <3>1. CASE "software" \in filled
      <4>1. w["software"] = List(fullItems) /\ List(fullItems).of = fullItems
          BY <2>4, <2>6, <3>1, ListIsValue
      <4>2. "software" \in DOMAIN w
          BY <2>6, <3>1
      <4>3. QED
          BY <2>17, <4>1, <4>2 DEF ItemsOf
    <3>2. CASE "software" \notin filled
      <4>1. ItemsOf(w, "software") = items
          BY <2>6, <2>13, <3>2 DEF ItemsOf, items
      <4>2. QED
          BY <4>1 DEF SameSubs
    <3>3. QED
        BY <3>1, <3>2
  <2>19. QED
      BY <1>2, <2>6, <2>14, <2>15, <2>16, <2>18 DEF w, filled, items
<1>3. QED
    BY <1>1, <1>2

\* The row before it is split: its reports, without what is excluded, with nulls.
Clean(row, sel) == WithNulls(WithoutExcluded(WithReport(row), sel), sel)

LEMMA CleanIs ==
    ASSUME CallGiven, NEW row, NEW sel, Came(row), SchemasOK(sel)
    PROVE  LET c == Clean(row, sel)
           IN  /\ Holds(c)
               /\ \A k \in DOMAIN c : k \in sel \ excludes \/ (k \in DOMAIN row /\ k \notin sel)
               /\ \A k \in DOMAIN c : IsDetails(k) => k \in DOMAIN row /\ c[k] = row[k]
               /\ shapeArgs.field_null =>
                    \A f \in sel : f \notin excludes /\ ~IsDetails(f) => f \in DOMAIN c
<1> DEFINE r == WithReport(row)
           x == WithoutExcluded(r, sel)
           c == WithNulls(x, sel)
<1>1. /\ DOMAIN r = DOMAIN row \cup Reports
      /\ \A k \in DOMAIN row \ Reports : r[k] = row[k]
      /\ \A k \in Reports : IsValue(r[k])
    BY ReportAdded
<1>2. /\ DOMAIN x = DOMAIN r \ (sel \cap excludes)
      /\ \A k \in DOMAIN x : k # "software" => x[k] = r[k]
      /\ "software" \in DOMAIN x /\ HasItems(r["software"])
         /\ r["software"].of \in Seq(Range(r["software"].of))
         => /\ IsValue(x["software"]) /\ HasItems(x["software"])
            /\ x["software"].of \in Seq(Range(x["software"].of))
    BY ExcludedGone
<1> HIDE DEF r, x
<1>3. "software" \in DOMAIN x =>
         /\ IsValue(x["software"]) /\ HasItems(x["software"])
         /\ x["software"].of \in Seq(Range(x["software"].of))
  <2>1. SUFFICES ASSUME "software" \in DOMAIN x
                 PROVE  HasItems(r["software"]) /\ r["software"].of \in Seq(Range(r["software"].of))
      BY <1>2
  <2>2. "software" \in DOMAIN row /\ r["software"] = row["software"]
      BY <1>1, <1>2, <2>1, ReportsApart
  <2>3. QED
      BY <2>2 DEF Came, IsField
<1>4. \A k \in DOMAIN x : k # "software" =>
         \/ k \in Reports /\ IsValue(x[k])
         \/ k \in DOMAIN row \ Reports /\ x[k] = row[k]
    BY <1>1, <1>2
<1>5. Holds(x)
  <2>1. \A k \in DOMAIN x : IsValue(x[k])
      BY <1>3, <1>4 DEF Came, IsField
  <2>2. \A k \in DOMAIN x \cap {"adapters", "hostname", "software"} :
            x[k].of \in Seq(Range(x[k].of))
      BY <1>3, <1>4, ReportsApart DEF Came, IsField
  <2>3. QED
      BY <1>3, <2>1, <2>2 DEF Holds
<1>6. /\ DOMAIN c = DOMAIN x \cup (IF shapeArgs.field_null
                                  THEN {f \in sel : f \notin excludes /\ ~IsDetails(f)} ELSE {})
      /\ \A k \in DOMAIN x : k # "software" => c[k] = x[k]
      /\ Holds(c)
    BY <1>5, NullsFilled
<1>7. \A k \in DOMAIN c : k \in sel \ excludes \/ (k \in DOMAIN row /\ k \notin sel)
  <2>1. Reports \subseteq sel
      BY DEF SchemasOK
  <2>2. QED
      BY <1>1, <1>2, <1>6, <2>1
<1>8. \A k \in DOMAIN c : IsDetails(k) => k \in DOMAIN row /\ c[k] = row[k]
  <2>1. ASSUME NEW k \in DOMAIN c, IsDetails(k)
        PROVE  k \in DOMAIN row /\ c[k] = row[k]
    <3>1. k \in DOMAIN x
        BY <1>6, <2>1
    <3>2. k # "software"
        BY <2>1, TextsAssumption DEF IsDetails, EntityInfo
    <3>3. k \notin Reports
        BY <2>1, ReportsApart
    <3>4. QED
        BY <1>4, <1>6, <3>1, <3>2, <3>3
  <2>2. QED
      BY <2>1
<1>9. shapeArgs.field_null => \A f \in sel : f \notin excludes /\ ~IsDetails(f) => f \in DOMAIN c
    BY <1>6
<1>10. Clean(row, sel) = c
    BY DEF Clean, x, r
<1> HIDE DEF c
<1>11. QED
    BY <1>6, <1>7, <1>8, <1>9, <1>10

\* What a row that came has of the fields that are told apart, the clean row has.
LEMMA CleanKeeps ==
    ASSUME CallGiven, NEW row, NEW sel, Came(row), SchemasOK(sel)
    PROVE  LET c == Clean(row, sel)
           IN  /\ \A k \in DOMAIN row : k # "software" /\ k \notin Reports /\ k \notin excludes
                    => k \in DOMAIN c /\ c[k] = row[k]
               /\ "hostname" \notin DOMAIN row => Len(ItemsOf(c, "hostname")) <= 1
               /\ "software" \notin excludes =>
                    SameSubs(ItemsOf(c, "software"), ItemsOf(row, "software"))
<1> DEFINE r == WithReport(row)
           x == WithoutExcluded(r, sel)
           c == WithNulls(x, sel)
<1>1. /\ DOMAIN r = DOMAIN row \cup Reports
      /\ \A k \in DOMAIN row \ Reports : r[k] = row[k]
      /\ \A k \in Reports : IsValue(r[k])
    BY ReportAdded
<1>2. /\ DOMAIN x = DOMAIN r \ (sel \cap excludes)
      /\ \A k \in DOMAIN x : k # "software" => x[k] = r[k]
      /\ "software" \in DOMAIN x /\ HasItems(r["software"])
         /\ r["software"].of \in Seq(Range(r["software"].of))
         => /\ IsValue(x["software"]) /\ HasItems(x["software"])
            /\ x["software"].of \in Seq(Range(x["software"].of))
            /\ SameSubs(x["software"].of, r["software"].of)
    BY ExcludedGone
<1> HIDE DEF r, x
<1>3. "software" \in DOMAIN x =>
         /\ "software" \in DOMAIN row
         /\ IsValue(x["software"]) /\ HasItems(x["software"])
         /\ x["software"].of \in Seq(Range(x["software"].of))
         /\ SameSubs(x["software"].of, row["software"].of)
  <2>1. SUFFICES ASSUME "software" \in DOMAIN x
                 PROVE  /\ "software" \in DOMAIN row /\ r["software"] = row["software"]
                        /\ HasItems(r["software"]) /\ r["software"].of \in Seq(Range(r["software"].of))
      BY <1>2
  <2>2. "software" \in DOMAIN row /\ r["software"] = row["software"]
      BY <1>1, <1>2, <2>1, ReportsApart
  <2>3. QED
      BY <2>2 DEF Came, IsField
<1>4. \A k \in DOMAIN x : k # "software" =>
         \/ k \in Reports /\ IsValue(x[k])
         \/ k \in DOMAIN row \ Reports /\ x[k] = row[k]
    BY <1>1, <1>2
<1>5. Holds(x)
  <2>1. \A k \in DOMAIN x : IsValue(x[k])
      BY <1>3, <1>4 DEF Came, IsField
  <2>2. \A k \in DOMAIN x \cap {"adapters", "hostname", "software"} :
            x[k].of \in Seq(Range(x[k].of))
      BY <1>3, <1>4, ReportsApart DEF Came, IsField
  <2>3. QED
      BY <1>3, <2>1, <2>2 DEF Holds
<1>6. /\ DOMAIN c = DOMAIN x \cup (IF shapeArgs.field_null
                                  THEN {f \in sel : f \notin excludes /\ ~IsDetails(f)} ELSE {})
      /\ \A k \in DOMAIN x : k # "software" => c[k] = x[k]
      /\ \A k \in DOMAIN c \ DOMAIN x : k # "software" => c[k] = Null
      /\ SameSubs(ItemsOf(c, "software"), ItemsOf(x, "software"))
    BY <1>5, NullsFilled
<1> HIDE DEF c
<1>7. \A k \in DOMAIN row : k # "software" /\ k \notin Reports /\ k \notin excludes
         => k \in DOMAIN c /\ c[k] = row[k]
    BY <1>1, <1>2, <1>6
<1>8. "hostname" \notin DOMAIN row => Len(ItemsOf(c, "hostname")) <= 1
  <2>1. SUFFICES ASSUME "hostname" \notin DOMAIN row
                 PROVE  Len(ItemsOf(c, "hostname")) <= 1
      OBVIOUS
  <2>2. "hostname" \notin DOMAIN x
      BY <1>1, <1>2, <2>1, ReportsApart
  <2>3. Null.of = <<"null">>
      BY OneIsValue DEF Null
  <2>4. CASE "hostname" \in DOMAIN c
    <3> DEFINE one == <<"null">>
    <3>1. Len(one) = 1
        OBVIOUS
    <3>2. Null.of = one
        BY <2>3
    <3> HIDE DEF one
    <3>3. ItemsOf(c, "hostname") = one
        BY <1>6, <2>2, <2>4, <3>2 DEF ItemsOf
    <3>4. QED
        BY <3>1, <3>3
  <2>5. CASE "hostname" \notin DOMAIN c
    <3>1. ItemsOf(c, "hostname") = << >>
        BY <2>5 DEF ItemsOf
    <3>2. Len(<< >>) = 0
        OBVIOUS
    <3>3. QED
        BY <3>1, <3>2
  <2>6. QED
      BY <2>4, <2>5
<1>9. "software" \notin excludes => SameSubs(ItemsOf(c, "software"), ItemsOf(row, "software"))
  <2>1. SUFFICES ASSUME "software" \notin excludes
                 PROVE  SameSubs(ItemsOf(x, "software"), ItemsOf(row, "software"))
      BY <1>6 DEF SameSubs
  <2>2. CASE "software" \in DOMAIN row
    <3>1. "software" \in DOMAIN x
        BY <1>1, <1>2, <2>1, <2>2
    <3>2. QED
        BY <1>3, <2>2, <3>1 DEF ItemsOf
  <2>3. CASE "software" \notin DOMAIN row
    <3>1. "software" \notin DOMAIN x
        BY <1>3, <2>3
    <3>2. QED
        BY <2>3, <3>1 DEF ItemsOf, SameSubs
  <2>4. QED
      BY <2>2, <2>3
<1>10. Clean(row, sel) = c
    BY DEF Clean, x, r, c
<1>11. QED
    BY <1>7, <1>8, <1>9, <1>10

Kept(sel) ==
    {f \in sel : /\ ~Excluded(f)
                 /\ shapeArgs.explode_entities => ~IsDetails(f) \/ f \in EntityInfo}

\* Strays, of a row that came and the schemas at that time.
StraysOf(row, sel) ==
    {f \in DOMAIN row : f \notin sel}
        \cup {f \in DOMAIN row : /\ IsComplex(f) /\ IsDetails(f)
                                 /\ shapeArgs.field_flatten}
        \cup {f \in excludes : /\ shapeArgs.explode_entities
                               /\ DetailsOf(f) \in DOMAIN row}

\* The keys of a row that is on its way, before complex fields are split.
Fits(row, sel, e) ==
    /\ Holds(e)
    /\ DOMAIN e \subseteq Kept(sel) \cup StraysOf(row, sel)
    /\ "software_details" \in DOMAIN e => "software_details" \in DOMAIN row
    /\ shapeArgs.field_null /\ ~shapeArgs.explode_entities =>
            Kept(WithoutDetails(sel)) \subseteq DOMAIN e

PlainOf(d) == CHOOSE f \in shapeArgs.fields \cup EntityInfo :
                  IF d \in EntityInfo THEN f = d ELSE DetailsOf(f) = d

\* The field that details are of: one that was asked for, or the details themselves.
LEMMA PlainIs ==
    ASSUME CallGiven, NEW row, Came(row), NEW d \in DOMAIN row,
           IsDetails(d), d \notin DetailsExclude
    PROVE  /\ d \in EntityInfo => PlainOf(d) = d
           /\ d \notin EntityInfo => /\ PlainOf(d) \in shapeArgs.fields
                                     /\ DetailsOf(PlainOf(d)) = d
           /\ PlainOf(d) = "software" => d = "software_details"
<1>1. CASE d \in EntityInfo
    BY <1>1 DEF PlainOf, EntityInfo
<1>2. CASE d \notin EntityInfo
  <2>1. \/ d = "hostname_details" /\ "hostname" \in shapeArgs.fields
        \/ d = "software_details" /\ "software" \in shapeArgs.fields
      BY <1>2 DEF IsDetails, Came
  <2>2. \E f \in shapeArgs.fields \cup EntityInfo : DetailsOf(f) = d
      BY <2>1, TextsAssumption
  <2>3. PlainOf(d) \in shapeArgs.fields \cup EntityInfo /\ DetailsOf(PlainOf(d)) = d
      BY <1>2, <2>2 DEF PlainOf
  <2>4. PlainOf(d) \notin EntityInfo
      BY <2>1, <2>3, TextsAssumption DEF EntityInfo
  <2>5. QED
      BY <1>2, <2>1, <2>3, <2>4, TextsAssumption
<1>3. QED
    BY <1>1, <1>2

\* What an entity's row says of it, by adapters and details.
EntityOf(c, n) ==
    LET about == {f \in DOMAIN c : IsDetails(f) /\ n \in DOMAIN c[f].of}
    IN  Updated(Restrict(c, Passthru \cap DOMAIN c),
                [f \in {PlainOf(d) : d \in about} \cup {"adapters"} |->
                    IF f = "adapters" THEN One(c.adapters.of[n])
                    ELSE IF f \in EntityInfo THEN c[f].of[n]
                    ELSE c[DetailsOf(f)].of[n]])

LEMMA EntitiesAre ==
    ASSUME NEW c, Holds(c)
    PROVE  /\ PerEntity(c) \in Seq(Range(PerEntity(c)))
           /\ ~shapeArgs.explode_entities => PerEntity(c) = <<c>>
           /\ shapeArgs.explode_entities =>
                /\ DOMAIN PerEntity(c) = DOMAIN ItemsOf(c, "adapters")
                /\ \A n \in DOMAIN PerEntity(c) :
                     PerEntity(c)[n] = EntityOf(c, n) /\ "adapters" \in DOMAIN c
<1>1. CASE ~shapeArgs.explode_entities
  <2>1. PerEntity(c) = <<c>>
      BY <1>1 DEF PerEntity
  <2>2. <<c>> \in Seq({c}) /\ Range(<<c>>) = {c}
      BY DEF Range
  <2>3. QED
      BY <1>1, <2>1, <2>2
<1>2. CASE shapeArgs.explode_entities
  <2> DEFINE items == ItemsOf(c, "adapters")
             t == [n \in DOMAIN items |-> EntityOf(c, n)]
  <2>1. PerEntity(c) = t
      BY <1>2 DEF PerEntity, EntityOf, PlainOf
  <2>2. items \in Seq(Range(items)) /\ ("adapters" \notin DOMAIN c => items = << >>)
      BY ItemsAre
  <2>3. \A n \in DOMAIN t : t[n] = EntityOf(c, n) /\ "adapters" \in DOMAIN c
      BY <2>2
  <2>4. DOMAIN t = DOMAIN items /\ t = [n \in DOMAIN t |-> t[n]]
      OBVIOUS
  <2> HIDE DEF t, items
  <2>5. t \in Seq(Range(t))
      BY <2>2, <2>4, MappedSeq
  <2>6. QED
      BY <1>2, <2>1, <2>3, <2>4, <2>5 DEF items
<1>3. QED
    BY <1>1, <1>2

LEMMA EntityFits ==
    ASSUME CallGiven, NEW row, NEW sel, Came(row), SchemasOK(sel), shapeArgs.explode_entities,
           NEW n, "adapters" \in DOMAIN Clean(row, sel)
    PROVE  Fits(row, sel, EntityOf(Clean(row, sel), n))
<1> DEFINE c == Clean(row, sel)
           about == {f \in DOMAIN c : IsDetails(f) /\ n \in DOMAIN c[f].of}
           new == [f \in {PlainOf(d) : d \in about} \cup {"adapters"} |->
                    IF f = "adapters" THEN One(c.adapters.of[n])
                    ELSE IF f \in EntityInfo THEN c[f].of[n]
                    ELSE c[DetailsOf(f)].of[n]]
           old == Restrict(c, Passthru \cap DOMAIN c)
           e == EntityOf(c, n)
<1>1. /\ Holds(c)
      /\ \A k \in DOMAIN c : k \in sel \ excludes \/ (k \in DOMAIN row /\ k \notin sel)
      /\ \A k \in DOMAIN c : IsDetails(k) => k \in DOMAIN row /\ c[k] = row[k]
    BY CleanIs
<1>2. e = Updated(old, new)
    BY DEF EntityOf
<1>3. /\ DOMAIN old = Passthru \cap DOMAIN c /\ \A k \in DOMAIN old : old[k] = c[k]
    BY DEF Restrict
<1>4. include /\ DetailsExclude \subseteq excludes \cap sel /\ EntityInfo \subseteq sel
    BY DEF CallGiven, SchemasOK
<1> HIDE DEF c
<1>5. ASSUME NEW d \in about
      PROVE  /\ d \in DOMAIN row /\ IsDetails(d) /\ d \notin DetailsExclude
             /\ c[d].of[n] \in Range(row[d].of)
             /\ d \in sel \ excludes \/ d \notin sel
             /\ d \in EntityInfo => PlainOf(d) = d
             /\ d \notin EntityInfo => PlainOf(d) \in shapeArgs.fields /\ DetailsOf(PlainOf(d)) = d
             /\ PlainOf(d) = "software" => d = "software_details"
  <2>1. d \in DOMAIN c /\ IsDetails(d) /\ n \in DOMAIN c[d].of
      OBVIOUS
  <2>2. d \in DOMAIN row /\ c[d] = row[d] /\ (d \in sel \ excludes \/ d \notin sel)
      BY <1>1, <2>1
  <2>3. d \notin DetailsExclude
      BY <1>4, <2>2
  <2>4. c[d].of[n] \in Range(row[d].of)
      BY <2>1, <2>2 DEF Range
  <2>5. QED
      BY <2>1, <2>2, <2>3, <2>4, PlainIs
<1>6. ASSUME NEW f \in {PlainOf(d) : d \in about}
      PROVE  /\ f # "adapters" /\ f \notin Passthru /\ f # "software_details"
             /\ f \in Kept(sel) \cup StraysOf(row, sel)
             /\ IsField(new[f]) /\ (f = "software" => HasItems(new[f]))
  <2>1. PICK d \in about : f = PlainOf(d)
      BY <1>6
  <2>2. /\ d \in DOMAIN row /\ IsDetails(d) /\ c[d].of[n] \in Range(row[d].of)
        /\ d \in EntityInfo => f = d
        /\ d \notin EntityInfo => f \in shapeArgs.fields /\ DetailsOf(f) = d
        /\ f = "software" => d = "software_details"
        /\ d \in sel \ excludes \/ d \notin sel
    <3> HIDE DEF about
    <3>1. QED
        BY <1>5, <2>1
  <2>3. f \in {"hostname", "software", "meta_data.client_used"}
      BY <2>2 DEF CallGiven, EntityInfo
  <2>4. f # "adapters" /\ f \notin Passthru /\ f # "software_details"
      BY <2>3 DEF Passthru
  <2>5. new[f] = IF f \in EntityInfo THEN c[f].of[n] ELSE c[DetailsOf(f)].of[n]
      BY <2>1, <2>4
  <2>6. new[f] = c[d].of[n]
    <3>1. CASE d \in EntityInfo
        BY <2>2, <2>5, <3>1
    <3>2. CASE d \notin EntityInfo
      <4>1. f \in shapeArgs.fields /\ DetailsOf(f) = d
          BY <2>2, <3>2
      <4>2. f \notin EntityInfo
          BY <4>1 DEF CallGiven, EntityInfo
      <4>3. QED
          BY <2>5, <4>1, <4>2
    <3>3. QED
        BY <3>1, <3>2
  <2> HIDE DEF new
  <2>7. IsField(new[f]) /\ (f = "software" => HasItems(new[f]))
      BY <2>2, <2>6 DEF Came, IsComplex
  <2>8. f \in Kept(sel) \cup StraysOf(row, sel)
    <3>1. CASE d \in EntityInfo
        BY <1>4, <2>2, <3>1 DEF Kept, Excluded
    <3>2. CASE d \notin EntityInfo
      <4>1. f \in shapeArgs.fields /\ DetailsOf(f) \in DOMAIN row
          BY <2>2, <3>2
      <4>2. f \in sel
          BY <4>1 DEF SchemasOK
      <4>3. ~IsDetails(f)
          BY <4>1, TextsAssumption DEF CallGiven, IsDetails, EntityInfo
      <4>4. CASE f \in excludes
          BY <4>1, <4>4 DEF StraysOf
      <4>5. CASE f \notin excludes
          BY <4>2, <4>3, <4>5 DEF Kept, Excluded
      <4>6. QED
          BY <4>4, <4>5
    <3>3. QED
        BY <3>1, <3>2
  <2>9. QED
      BY <2>4, <2>7, <2>8
<1>7. ASSUME NEW f \in DOMAIN c, f \in Passthru \cup {"adapters"}
      PROVE  f \in Kept(sel) \cup StraysOf(row, sel)
  <2>1. ~IsDetails(f)
      BY <1>7, TextsAssumption DEF Passthru, IsDetails, EntityInfo
  <2>2. f \in sel \ excludes \/ (f \in DOMAIN row /\ f \notin sel)
      BY <1>1
  <2>3. QED
      BY <2>1, <2>2 DEF Kept, StraysOf, Excluded
<1>8. new["adapters"] = One(c.adapters.of[n]) /\ DOMAIN new = {PlainOf(d) : d \in about} \cup {"adapters"}
    OBVIOUS
<1> HIDE DEF new, about, old
<1>9. /\ DOMAIN e = DOMAIN old \cup DOMAIN new
      /\ \A k \in DOMAIN old \cup DOMAIN new : e[k] = IF k \in DOMAIN new THEN new[k] ELSE old[k]
  <2>1. /\ DOMAIN Updated(old, new) = DOMAIN old \cup DOMAIN new
        /\ \A k \in DOMAIN old \cup DOMAIN new :
             Updated(old, new)[k] = IF k \in DOMAIN new THEN new[k] ELSE old[k]
      BY UpdatedIs
  <2>2. QED
      BY <1>2, <2>1
<1> HIDE DEF e
<1>10. /\ DOMAIN e \subseteq Kept(sel) \cup StraysOf(row, sel)
       /\ "software_details" \notin DOMAIN e
  <2>1. "adapters" \in DOMAIN c
      BY DEF c
  <2>2. "software_details" \notin Passthru
      BY DEF Passthru
  <2>3. QED
      BY <1>3, <1>6, <1>7, <1>8, <1>9, <2>1, <2>2
<1>11. Holds(e)
  <2>1. IsField(One(c.adapters.of[n]))
      BY OneIsValue DEF IsField
  <2>2. \A k \in DOMAIN e : \/ k \in Passthru \cap DOMAIN c /\ k \notin DOMAIN new /\ e[k] = c[k]
                            \/ k \in DOMAIN new /\ e[k] = new[k]
      BY <1>3, <1>9
  <2>3. \A k \in DOMAIN new : IsField(new[k]) /\ (k = "software" => HasItems(new[k]))
      BY <1>6, <1>8, <2>1
  <2>4. \A k \in DOMAIN e : IsValue(e[k])
      BY <1>1, <2>2, <2>3 DEF Holds, IsField
  <2>5. \A k \in DOMAIN e \cap {"adapters", "hostname", "software"} :
            k \in DOMAIN new /\ e[k] = new[k]
      BY <2>2 DEF Passthru
  <2>6. QED
      BY <2>3, <2>4, <2>5 DEF Holds, IsField
<1>12. QED
    BY <1>10, <1>11 DEF Fits, e, c

LEMMA EntitiesFit ==
    ASSUME CallGiven, NEW row, NEW sel, Came(row), SchemasOK(sel),
           NEW n \in DOMAIN PerEntity(Clean(row, sel))
    PROVE  Fits(row, sel, PerEntity(Clean(row, sel))[n])
<1> DEFINE c == Clean(row, sel)
<1>1. /\ Holds(c)
      /\ \A k \in DOMAIN c : k \in sel \ excludes \/ (k \in DOMAIN row /\ k \notin sel)
      /\ \A k \in DOMAIN c : IsDetails(k) => k \in DOMAIN row /\ c[k] = row[k]
      /\ shapeArgs.field_null =>
            \A f \in sel : f \notin excludes /\ ~IsDetails(f) => f \in DOMAIN c
    BY CleanIs
<1> HIDE DEF c
<1>2. CASE shapeArgs.explode_entities
  <2>1. PerEntity(c)[n] = EntityOf(c, n) /\ "adapters" \in DOMAIN c
      BY <1>1, <1>2, EntitiesAre DEF c
  <2>2. QED
      BY <1>2, <2>1, EntityFits DEF c
<1>3. CASE ~shapeArgs.explode_entities
  <2>1. PerEntity(c) = <<c>>
      BY <1>1, <1>3, EntitiesAre
  <2>2. n = 1 /\ PerEntity(c)[n] = c
      BY <2>1 DEF c
  <2>3. DOMAIN c \subseteq Kept(sel) \cup StraysOf(row, sel)
      BY <1>1, <1>3 DEF Kept, StraysOf, Excluded
  <2>4. shapeArgs.field_null => Kept(WithoutDetails(sel)) \subseteq DOMAIN c
      BY <1>1 DEF WithoutDetails, Kept, Excluded
  <2>5. "software_details" \in DOMAIN c => "software_details" \in DOMAIN row
      BY <1>1 DEF IsDetails
  <2>6. Fits(row, sel, c)
      BY <1>1, <2>3, <2>4, <2>5 DEF Fits
  <2>7. QED
      BY <2>2, <2>6 DEF c
<1>4. QED
    BY <1>2, <1>3

\* How a sequence of sequences is flattened, one after the other.
Flattens(S, ss, g) ==
    /\ g \in [0..Len(ss) -> Seq(S)] /\ g[0] = << >>
    /\ \A n \in 1..Len(ss) : g[n] = g[n - 1] \o ss[n]
    /\ FlattenSeq(ss) = g[Len(ss)]

LEMMA FlattenedBy ==
    ASSUME NEW S, NEW ss \in Seq(Seq(S))
    PROVE  \E g : Flattens(S, ss, g)
<1> DEFINE L == Len(ss)
           All(f) == [i \in 1..L |-> IF i = 1 THEN ss[i] ELSE f[i - 1] \o ss[i]]
           step == [n \in 1..L |-> [s \in Seq(S) |-> s \o ss[n]]]
           h == CHOOSE f : f = All(f)
<1>1. L \in Nat /\ \A n \in 1..L : ss[n] \in Seq(S)
    OBVIOUS
<1>2. << >> \in Seq(S)
    BY EmptySeq
<1>3. step \in [1..L -> [Seq(S) -> Seq(S)]]
  <2>1. \A n \in 1..L : \A s \in Seq(S) : s \o ss[n] \in Seq(S)
      BY <1>1
  <2>2. QED
      BY <2>1
<1>4. PICK g : Takes(Seq(S), << >>, L, step, g)
  <2> HIDE DEF step
  <2>1. QED
      BY <1>1, <1>2, <1>3, StepsTaken
<1>5. g \in [0..L -> Seq(S)] /\ g[0] = << >> /\ \A n \in 1..L : g[n] = g[n - 1] \o ss[n]
  <2>1. /\ g \in [0..L -> Seq(S)] /\ g[0] = << >>
        /\ \A n \in 1..L : g[n] = step[n][g[n - 1]]
      BY <1>4 DEF Takes
  <2>2. ASSUME NEW n \in 1..L
        PROVE  g[n] = g[n - 1] \o ss[n]
    <3>1. n - 1 \in 0..L
        BY <1>1
    <3>2. g[n - 1] \in Seq(S) /\ g[n] = step[n][g[n - 1]]
        BY <2>1, <3>1
    <3>3. QED
        BY <3>2
  <2>3. QED
      BY <2>1, <2>2
<1>6. CASE L = 0
  <2>1. FlattenSeq(ss) = ss /\ ss = << >>
      BY <1>6 DEF FlattenSeq
  <2>2. Flattens(S, ss, g)
      BY <1>5, <1>6, <2>1 DEF Flattens
  <2>3. QED
      BY <2>2
<1>7. CASE L # 0
  <2> DEFINE G == [i \in 1..L |-> g[i]]
  <2>1. G = All(G)
    <3>1. ASSUME NEW i \in 1..L
          PROVE  G[i] = IF i = 1 THEN ss[i] ELSE G[i - 1] \o ss[i]
      <4>1. CASE i = 1
        <5>1. i - 1 = 0 /\ ss[i] \in Seq(S)
            BY <1>1, <4>1
        <5>2. << >> \o ss[i] = ss[i]
            BY <5>1
        <5>3. g[i] = ss[i]
            BY <1>5, <5>1, <5>2
        <5>4. QED
            BY <4>1, <5>3
      <4>2. CASE i # 1
        <5>1. i - 1 \in 1..L
            BY <1>1, <4>2
        <5>2. G[i - 1] = g[i - 1] /\ G[i] = g[i]
            BY <5>1
        <5>3. QED
            BY <1>5, <4>2, <5>2
      <4>3. QED
          BY <4>1, <4>2
    <3> HIDE DEF G
    <3>2. DOMAIN G = 1..L /\ G = [i \in 1..L |-> G[i]]
        BY DEF G
    <3>3. QED
        BY <3>1, <3>2
  <2>2. h = All(h)
    <3>1. \E f : f = All(f)
        BY <2>1
    <3> HIDE DEF All
    <3>2. QED
        BY <3>1
  <2> HIDE DEF h, G
  <2>3. \A i \in 1..L : h[i] = IF i = 1 THEN ss[i] ELSE h[i - 1] \o ss[i]
      BY <2>2
  <2> DEFINE T == {n \in Nat : n \in 1..L => h[n] = g[n]}
  <2>4. 0 \in T
      BY <1>1
  <2>5. ASSUME NEW n \in Nat, n \in T
        PROVE  n + 1 \in T
    <3>1. SUFFICES ASSUME n + 1 \in 1..L
                   PROVE  h[n + 1] = g[n + 1]
        OBVIOUS
    <3>2. CASE n = 0
      <4>1. 1 \in 1..L /\ 1 - 1 = 0 /\ ss[1] \in Seq(S)
          BY <1>1, <3>1, <3>2
      <4>2. g[1] = g[0] \o ss[1]
          BY <1>5, <4>1
      <4>3. << >> \o ss[1] = ss[1]
          BY <4>1
      <4>4. h[1] = ss[1]
          BY <2>3, <4>1
      <4>5. QED
          BY <1>5, <3>2, <4>2, <4>3, <4>4
    <3>3. CASE n # 0
      <4>1. n \in 1..L /\ n + 1 # 1 /\ (n + 1) - 1 = n
          BY <1>1, <3>1, <3>3
      <4>2. h[n] = g[n]
          BY <2>5, <4>1
      <4>3. h[n + 1] = h[n] \o ss[n + 1]
          BY <2>3, <3>1, <4>1
      <4>4. g[n + 1] = g[n] \o ss[n + 1]
          BY <1>5, <3>1, <4>1
      <4>5. QED
          BY <4>2, <4>3, <4>4
    <3>4. QED
        BY <3>2, <3>3
  <2>6. Nat \subseteq T
    <3> HIDE DEF T
    <3>1. QED
        BY <2>4, <2>5, SetInduction
  <2>7. h[L] = g[L]
      BY <1>1, <1>7, <2>6
  <2>8. FlattenSeq(ss) = h[L]
      BY <1>7 DEF FlattenSeq, h
  <2>9. Flattens(S, ss, g)
      BY <1>5, <2>7, <2>8 DEF Flattens
  <2>10. QED
      BY <2>9
<1>8. QED
    BY <1>6, <1>7

\* Flattening a sequence of sequences gives a sequence of their elements.
LEMMA FlattenedSeq ==
    ASSUME NEW S, NEW ss \in Seq(Seq(S))
    PROVE  FlattenSeq(ss) \in Seq(S)
<1>1. PICK g : Flattens(S, ss, g)
    BY FlattenedBy
<1>2. Len(ss) \in 0..Len(ss)
    OBVIOUS
<1>3. QED
    BY <1>1, <1>2 DEF Flattens

\* Of two sequences of sequences: what is at one place of them once they are
\* flattened was at one place before.
SamePlaces(ss, tt) ==
    \A p \in 1..Len(FlattenSeq(ss)) : \E i \in 1..Len(ss) : \E j \in 1..Len(ss[i]) :
        FlattenSeq(ss)[p] = ss[i][j] /\ FlattenSeq(tt)[p] = tt[i][j]

LEMMA FlattenedTogether ==
    ASSUME NEW S, NEW ss \in Seq(Seq(S)), NEW T, NEW tt \in Seq(Seq(T)),
           Len(ss) = Len(tt), \A i \in 1..Len(ss) : Len(ss[i]) = Len(tt[i])
    PROVE  Len(FlattenSeq(ss)) = Len(FlattenSeq(tt)) /\ SamePlaces(ss, tt)
<1> DEFINE L == Len(ss)
           At(s, t, p) == \E i \in 1..L : \E j \in 1..Len(ss[i]) :
                              s[p] = ss[i][j] /\ t[p] = tt[i][j]
           Alike(s, t) == Len(s) = Len(t) /\ \A p \in 1..Len(s) : At(s, t, p)
<1>1. L \in Nat /\ \A i \in 1..L : ss[i] \in Seq(S) /\ tt[i] \in Seq(T)
    OBVIOUS
<1>2. PICK g : Flattens(S, ss, g)
    BY FlattenedBy
<1>3. PICK h : Flattens(T, tt, h)
    BY FlattenedBy
<1> DEFINE U == {n \in Nat : n <= L => Alike(g[n], h[n])}
<1>4. 0 \in U
  <2>1. g[0] = << >> /\ h[0] = << >>
      BY <1>2, <1>3 DEF Flattens
  <2>2. Len(<< >>) = 0 /\ 1..0 = {}
      OBVIOUS
  <2> HIDE DEF At
  <2>3. Alike(g[0], h[0])
      BY <2>1, <2>2
  <2>4. QED
      BY <2>3
<1>5. ASSUME NEW n \in Nat, n \in U
      PROVE  n + 1 \in U
  <2>1. SUFFICES ASSUME n + 1 <= L
                 PROVE  Alike(g[n + 1], h[n + 1])
      OBVIOUS
  <2>2. n \in 0..L /\ n + 1 \in 1..L /\ (n + 1) - 1 = n
      BY <1>1, <2>1
  <2>3. Alike(g[n], h[n])
      BY <1>1, <1>5, <2>1
  <2> DEFINE s == g[n]
             t == h[n]
             a == ss[n + 1]
             b == tt[n + 1]
  <2>4. s \in Seq(S) /\ t \in Seq(T) /\ a \in Seq(S) /\ b \in Seq(T) /\ Len(a) = Len(b)
      BY <1>1, <1>2, <1>3, <2>2 DEF Flattens
  <2>5. g[n + 1] = s \o a /\ h[n + 1] = t \o b
    <3>1. g[n + 1] = g[(n + 1) - 1] \o ss[n + 1]
        BY <1>2, <2>2 DEF Flattens
    <3>2. h[n + 1] = h[(n + 1) - 1] \o tt[n + 1]
        BY <1>3, <2>2 DEF Flattens
    <3>3. QED
        BY <2>2, <3>1, <3>2
  <2>6. Len(s) = Len(t) /\ \A p \in 1..Len(s) : At(s, t, p)
      BY <2>3
  <2>7. \A j \in 1..Len(a) : a[j] = ss[n + 1][j] /\ b[j] = tt[n + 1][j]
      OBVIOUS
  <2>8. Len(a) = Len(ss[n + 1])
      OBVIOUS
  <2> HIDE DEF s, t, a, b
  <2>9. /\ Len(s \o a) = Len(s) + Len(a) /\ Len(t \o b) = Len(s) + Len(a)
        /\ Len(s) \in Nat /\ Len(a) \in Nat
        /\ \A p \in 1..(Len(s) + Len(a)) :
              /\ (s \o a)[p] = IF p <= Len(s) THEN s[p] ELSE a[p - Len(s)]
              /\ (t \o b)[p] = IF p <= Len(s) THEN t[p] ELSE b[p - Len(s)]
    <3>1. /\ s \o a \in Seq(S) /\ Len(s \o a) = Len(s) + Len(a)
          /\ \A p \in 1..(Len(s) + Len(a)) :
                (s \o a)[p] = IF p <= Len(s) THEN s[p] ELSE a[p - Len(s)]
        BY <2>4, ConcatProperties
    <3>2. /\ t \o b \in Seq(T) /\ Len(t \o b) = Len(t) + Len(b)
          /\ \A p \in 1..(Len(t) + Len(b)) :
                (t \o b)[p] = IF p <= Len(t) THEN t[p] ELSE b[p - Len(t)]
        BY <2>4, ConcatProperties
    <3>3. Len(s) \in Nat /\ Len(a) \in Nat /\ Len(t) = Len(s) /\ Len(b) = Len(a)
        BY <2>4, <2>6
    <3>4. QED
        BY <3>1, <3>2, <3>3
  <2>10. ASSUME NEW p \in 1..(Len(s) + Len(a))
         PROVE  At(s \o a, t \o b, p)
    <3>1. CASE p <= Len(s)
      <4>1. p \in 1..Len(s) /\ (s \o a)[p] = s[p] /\ (t \o b)[p] = t[p]
          BY <2>9, <3>1
      <4>2. At(s, t, p)
          BY <2>6, <4>1
      <4>3. QED
          BY <4>1, <4>2
    <3>2. CASE ~(p <= Len(s))
      <4>1. p - Len(s) \in 1..Len(a)
          BY <2>9, <3>2
      <4>2. (s \o a)[p] = a[p - Len(s)] /\ (t \o b)[p] = b[p - Len(s)]
          BY <2>9, <3>2
      <4>3. /\ (s \o a)[p] = ss[n + 1][p - Len(s)] /\ (t \o b)[p] = tt[n + 1][p - Len(s)]
            /\ p - Len(s) \in 1..Len(ss[n + 1])
          BY <2>7, <2>8, <4>1, <4>2
      <4>4. QED
          BY <2>2, <4>3
    <3>3. QED
        BY <3>1, <3>2
  <2> HIDE DEF At
  <2>11. Alike(s \o a, t \o b)
      BY <2>9, <2>10
  <2>12. QED
      BY <2>5, <2>11
<1>6. Nat \subseteq U
  <2> HIDE DEF U
  <2>1. QED
      BY <1>4, <1>5, SetInduction
<1>7. FlattenSeq(ss) = g[L] /\ FlattenSeq(tt) = h[L]
    BY <1>2, <1>3 DEF Flattens
<1> HIDE DEF At
<1>8. Alike(g[L], h[L])
    BY <1>1, <1>6
<1>9. Len(FlattenSeq(ss)) = Len(FlattenSeq(tt))
      /\ \A p \in 1..Len(FlattenSeq(ss)) : At(FlattenSeq(ss), FlattenSeq(tt), p)
    BY <1>7, <1>8
<1>10. SamePlaces(ss, tt)
    BY <1>9 DEF At, SamePlaces
<1>11. QED
    BY <1>9, <1>10

\* Sequences of one element each, flattened.
LEMMA FlattenedSingles ==
    ASSUME NEW S, NEW ss \in Seq(Seq(S)), \A i \in 1..Len(ss) : Len(ss[i]) = 1
    PROVE  FlattenSeq(ss) = [i \in 1..Len(ss) |-> ss[i][1]]
<1> DEFINE L == Len(ss)
           Firsts(s, n) == Len(s) = n /\ \A i \in 1..n : s[i] = ss[i][1]
<1>1. L \in Nat /\ \A i \in 1..L : ss[i] \in Seq(S) /\ Len(ss[i]) = 1
    OBVIOUS
<1>2. PICK g : Flattens(S, ss, g)
    BY FlattenedBy
<1> DEFINE U == {n \in Nat : n <= L => Firsts(g[n], n)}
<1>3. 0 \in U
  <2>1. g[0] = << >> /\ Len(<< >>) = 0 /\ 1..0 = {}
      BY <1>2 DEF Flattens
  <2>2. QED
      BY <2>1
<1>4. ASSUME NEW n \in Nat, n \in U
      PROVE  n + 1 \in U
  <2>1. SUFFICES ASSUME n + 1 <= L
                 PROVE  Firsts(g[n + 1], n + 1)
      OBVIOUS
  <2>2. n \in 0..L /\ n + 1 \in 1..L /\ (n + 1) - 1 = n
      BY <1>1, <2>1
  <2>3. Len(g[n]) = n /\ \A i \in 1..n : g[n][i] = ss[i][1]
      BY <1>1, <1>4, <2>1
  <2> DEFINE s == g[n]
             a == ss[n + 1]
  <2>4. s \in Seq(S) /\ a \in Seq(S) /\ Len(a) = 1 /\ a[1] = ss[n + 1][1]
      BY <1>1, <1>2, <2>2 DEF Flattens
  <2>5. g[n + 1] = s \o a
      BY <1>2, <2>2 DEF Flattens
  <2>6. Len(s) = n /\ \A i \in 1..n : s[i] = ss[i][1]
      BY <2>3
  <2> HIDE DEF s, a
  <2>7. /\ Len(s \o a) = n + 1
        /\ \A i \in 1..(n + 1) : (s \o a)[i] = IF i <= n THEN s[i] ELSE a[i - n]
    <3>1. /\ s \o a \in Seq(S) /\ Len(s \o a) = Len(s) + Len(a)
          /\ \A p \in 1..(Len(s) + Len(a)) :
                (s \o a)[p] = IF p <= Len(s) THEN s[p] ELSE a[p - Len(s)]
        BY <2>4, ConcatProperties
    <3>2. QED
        BY <2>4, <2>6, <3>1
  <2>8. \A i \in 1..(n + 1) : (s \o a)[i] = ss[i][1]
      BY <2>4, <2>6, <2>7
  <2>9. QED
      BY <2>5, <2>7, <2>8
<1>5. Nat \subseteq U
  <2> HIDE DEF U
  <2>1. QED
      BY <1>3, <1>4, SetInduction
<1> DEFINE r == FlattenSeq(ss)
<1>6. r = g[L] /\ r \in Seq(S)
    BY <1>1, <1>2 DEF Flattens
<1>7. Len(r) = L /\ \A i \in 1..L : r[i] = ss[i][1]
    BY <1>1, <1>5, <1>6
<1> HIDE DEF r
<1>8. r = [i \in 1..Len(r) |-> r[i]]
    BY <1>6
<1>9. r = [i \in 1..L |-> ss[i][1]]
    BY <1>7, <1>8
<1>10. QED
    BY <1>9 DEF r

\* Sequences of their own elements are sequences over one set.
LEMMA SeqOfSeqs ==
    ASSUME NEW L \in Nat, NEW ss, ss = [n \in 1..L |-> ss[n]],
           \A n \in 1..L : ss[n] \in Seq(Range(ss[n]))
    PROVE  ss \in Seq(Seq(UNION {Range(ss[n]) : n \in 1..L}))
<1> DEFINE S == UNION {Range(ss[n]) : n \in 1..L}
<1>1. ASSUME NEW n \in 1..L
      PROVE  ss[n] \in Seq(S)
  <2> DEFINE t == ss[n]
  <2>1. t \in Seq(Range(t)) /\ Range(t) \subseteq S
      OBVIOUS
  <2>2. Len(t) \in Nat /\ DOMAIN t = 1..Len(t) /\ t = [i \in 1..Len(t) |-> t[i]]
      BY <2>1
  <2>3. \A i \in 1..Len(t) : t[i] \in S
      BY <2>1, <2>2 DEF Range
  <2> HIDE DEF S, t
  <2>4. t \in [1..Len(t) -> S]
      BY <2>2, <2>3
  <2>5. t \in Seq(S)
      BY <2>2, <2>4
  <2>6. QED
      BY <2>5 DEF t
<1>2. ss \in Seq(Seq(S))
  <2> HIDE DEF S
  <2>1. ss \in [1..L -> Seq(S)]
      BY <1>1
  <2>2. QED
      BY <2>1
<1>3. QED
    BY <1>2

LEMMA FlattenedElements ==
    ASSUME NEW L \in Nat, NEW ss, ss = [n \in 1..L |-> ss[n]],
           \A n \in 1..L : ss[n] \in Seq(Range(ss[n]))
    PROVE  /\ FlattenSeq(ss) \in Seq(Range(FlattenSeq(ss)))
           /\ \A x \in Range(FlattenSeq(ss)) : \E n \in 1..L : x \in Range(ss[n])
<1> DEFINE S == UNION {Range(ss[n]) : n \in 1..L}
<1>2. ss \in Seq(Seq(S))
    BY SeqOfSeqs
<1>3. FlattenSeq(ss) \in Seq(S)
  <2> HIDE DEF S
  <2>1. QED
      BY <1>2, FlattenedSeq
<1>4. FlattenSeq(ss) \in Seq(Range(FlattenSeq(ss)))
  <2> HIDE DEF S
  <2>1. QED
      BY <1>3, OfItsElements
<1>5. Range(FlattenSeq(ss)) \subseteq S
  <2> HIDE DEF S
  <2>1. QED
      BY <1>3 DEF Range
<1>6. QED
    BY <1>4, <1>5

SubKeys == {SubField(s) : s \in OpenSubs}

LEMMA SubKeysApart ==
    SubKeys \cap {"adapters", "hostname", "software", "software_details"} = {}
<1>1. \A s \in OpenSubs : SubField(s) \in {"software.name", "software.labels"}
    BY TextsAssumption DEF OpenSubs, Subs
<1>2. QED
    BY <1>1 DEF SubKeys

\* A row without its software, with new values for the sub-fields.
Splits(e, x) ==
    /\ DOMAIN x = (DOMAIN e \ {"software"}) \cup SubKeys
    /\ \A k \in DOMAIN e \ {"software"} : k \notin SubKeys => x[k] = e[k]
    /\ \A k \in SubKeys : IsValue(x[k])

LEMMA SplitIs ==
    ASSUME NEW e, NEW new, DOMAIN new = SubKeys, \A k \in SubKeys : IsValue(new[k])
    PROVE  Splits(e, Updated(Without(e, {"software"}), new))
<1> DEFINE old == Without(e, {"software"})
<1>1. DOMAIN old = DOMAIN e \ {"software"} /\ \A k \in DOMAIN old : old[k] = e[k]
    BY DEF Without, Restrict
<1> HIDE DEF old
<1>2. /\ DOMAIN Updated(old, new) = DOMAIN old \cup DOMAIN new
      /\ \A k \in DOMAIN old \cup DOMAIN new :
           Updated(old, new)[k] = IF k \in DOMAIN new THEN new[k] ELSE old[k]
    BY UpdatedIs
<1>3. Splits(e, Updated(old, new))
    BY <1>1, <1>2 DEF Splits
<1>4. QED
    BY <1>3 DEF old

LEMMA FlatRowIs ==
    ASSUME NEW e
    PROVE  Splits(e, FlatRow(e, "software"))
<1> DEFINE new == [c \in {SubField(s) : s \in OpenSubs} |->
                    List(FlatColumn(ItemsOf(e, "software"),
                                    CHOOSE s \in OpenSubs : SubField(s) = c))]
<1>1. FlatRow(e, "software") = Updated(Without(e, {"software"}), new)
    BY DEF FlatRow
<1>2. DOMAIN new = SubKeys /\ \A k \in SubKeys : IsValue(new[k])
    BY ListIsValue DEF SubKeys
<1> HIDE DEF new
<1>3. QED
    BY <1>1, <1>2, SplitIs

LEMMA SplitHolds ==
    ASSUME NEW e, NEW x, Holds(e), Splits(e, x)
    PROVE  Holds(x)
<1>1. \A k \in DOMAIN x : IsValue(x[k])
    BY DEF Splits, Holds
<1>2. \A k \in DOMAIN x \cap {"adapters", "hostname", "software"} :
         k \in DOMAIN e /\ k # "software" /\ x[k] = e[k]
    BY SubKeysApart DEF Splits
<1>3. QED
    BY <1>1, <1>2 DEF Holds

\* do_flatten takes the software apart, unless do_explode will.
FlattensIt(sel) ==
    /\ shapeArgs.field_flatten /\ "software" \in sel
    /\ shapeArgs.field_explode # "software" /\ ~Excluded("software")

LEMMA FlattenedIs ==
    ASSUME NEW e, NEW sel, Holds(e)
    PROVE  /\ Holds(Flattened(e, sel))
           /\ FlattensIt(sel) => Splits(e, Flattened(e, sel))
           /\ ~FlattensIt(sel) => Flattened(e, sel) = e
<1>1. CASE FlattensIt(sel)
  <2>1. Flattened(e, sel) = FlatRow(e, "software")
      BY <1>1 DEF Flattened, FlattensIt
  <2>2. QED
      BY <1>1, <2>1, FlatRowIs, SplitHolds
<1>2. CASE ~FlattensIt(sel)
    BY <1>2 DEF Flattened, FlattensIt
<1>3. QED
    BY <1>1, <1>2

\* do_explode takes the software apart in each of the rows it makes.
ExplodesIt == shapeArgs.field_explode = "software" /\ ~Excluded("software")

LEMMA OneRow ==
    ASSUME NEW x
    PROVE  <<x>> \in Seq(Range(<<x>>)) /\ Range(<<x>>) = {x}
<1>1. <<x>> \in Seq({x}) /\ Len(<<x>>) = 1 /\ Range(<<x>>) = {x}
    BY DEF Range
<1>2. QED
    BY <1>1

\* The row of the n-th item of a field.
SingleRow(e, f, n) ==
    IF IsComplex(f)
    THEN Updated(Without(e, {f}),
           [c \in {SubField(s) : s \in OpenSubs} |->
              SubOf(ItemsOf(e, f)[n], CHOOSE s \in OpenSubs : SubField(s) = c)])
    ELSE Updated(e, [c \in {f} |-> One(ItemsOf(e, f)[n])])

\* What do_explode makes of a row.
Exploded(e, x) ==
    IF ExplodesIt THEN Splits(e, x)
    ELSE DOMAIN x = DOMAIN e /\ \A k \in DOMAIN x : IsValue(x[k])

LEMMA SingleIs ==
    ASSUME NEW e, Holds(e), ~Excluded(shapeArgs.field_explode),
           NEW f \in {"hostname", "software"}, shapeArgs.field_explode = f,
           NEW n \in DOMAIN ItemsOf(e, f)
    PROVE  Exploded(e, SingleRow(e, f, n))
<1> DEFINE x == SingleRow(e, f, n)
<1>1. f \in DOMAIN e
    BY ItemsAre
<1>2. CASE f = "software"
  <2> DEFINE item == ItemsOf(e, "software")[n]
             new == [c \in {SubField(s) : s \in OpenSubs} |->
                        SubOf(item, CHOOSE s \in OpenSubs : SubField(s) = c)]
  <2>1. item \in Range(ItemsOf(e, "software"))
      BY <1>2 DEF Range
  <2>2. \A s \in DOMAIN item : IsField(item[s])
      BY <2>1, ItemsAre
  <2>3. x = Updated(Without(e, {"software"}), new)
      BY <1>2 DEF IsComplex, SingleRow
  <2>4. \A s : IsValue(SubOf(item, s))
    <3> HIDE DEF item
    <3>1. QED
        BY <2>2, SubIsField
  <2>5. DOMAIN new = SubKeys /\ \A k \in SubKeys : IsValue(new[k])
    <3> HIDE DEF item
    <3>1. QED
        BY <2>4 DEF SubKeys
  <2> HIDE DEF new, x
  <2>6. Splits(e, x)
      BY <2>3, <2>5, SplitIs
  <2>7. QED
      BY <1>2, <2>6 DEF ExplodesIt, Exploded, x
<1>3. CASE f = "hostname"
  <2> DEFINE new == [c \in {f} |-> One(ItemsOf(e, f)[n])]
  <2>1. x = Updated(e, new)
      BY <1>3 DEF IsComplex, SingleRow
  <2>2. DOMAIN new = {f} /\ \A k \in {f} : IsValue(new[k])
      BY OneIsValue
  <2> HIDE DEF new, x
  <2>3. /\ DOMAIN Updated(e, new) = DOMAIN e \cup DOMAIN new
        /\ \A k \in DOMAIN e \cup DOMAIN new :
             Updated(e, new)[k] = IF k \in DOMAIN new THEN new[k] ELSE e[k]
      BY UpdatedIs
  <2>4. DOMAIN x = DOMAIN e
      BY <1>1, <2>1, <2>2, <2>3
  <2>5. \A k \in DOMAIN x : IsValue(x[k])
      BY <2>1, <2>2, <2>3, <2>4 DEF Holds
  <2>6. QED
      BY <1>3, <2>4, <2>5 DEF ExplodesIt, Exploded, x
<1>4. QED
    BY <1>2, <1>3

LEMMA PerItemIs ==
    ASSUME NEW e, Holds(e), shapeArgs.field_explode \in {"", "hostname", "software"}
    PROVE  /\ PerItem(e) \in Seq(Range(PerItem(e)))
           /\ \A x \in Range(PerItem(e)) : Exploded(e, x)
<1> DEFINE f == shapeArgs.field_explode
           items == ItemsOf(e, f)
           many == [n \in DOMAIN items |-> SingleRow(e, f, n)]
           r == PerItem(e)
<1>1. r = IF f = "" \/ Excluded(f) THEN <<e>>
          ELSE IF Len(items) > 1 THEN many
          ELSE IF IsComplex(f) THEN <<FlatRow(e, f)>>
          ELSE <<e>>
    BY DEF PerItem, PerItemAbove, SingleRow
<1> HIDE DEF r
<1>2. ~ExplodesIt => Exploded(e, e)
    BY DEF Exploded, Holds
<1>3. CASE f = "" \/ Excluded(f)
  <2>1. r = <<e>> /\ ~ExplodesIt
      BY <1>1, <1>3 DEF ExplodesIt
  <2>2. QED
      BY <1>2, <2>1, OneRow DEF r
<1>4. CASE ~(f = "" \/ Excluded(f)) /\ Len(items) > 1
  <2>1. r = many
      BY <1>1, <1>4
  <2>2. f \in {"hostname", "software"} /\ ~Excluded(f)
      BY <1>4
  <2>3. items \in Seq(Range(items))
      BY <2>2, ItemsAre
  <2>4. \A n \in DOMAIN items : Exploded(e, many[n])
    <3>1. TAKE n \in DOMAIN items
    <3>2. many[n] = SingleRow(e, f, n)
        OBVIOUS
    <3>3. Exploded(e, SingleRow(e, f, n))
        BY <2>2, SingleIs
    <3>4. QED
        BY <3>2, <3>3
  <2>5. DOMAIN many = DOMAIN items /\ many = [n \in DOMAIN many |-> many[n]]
      OBVIOUS
  <2> HIDE DEF many, items
  <2>6. many \in Seq(Range(many))
      BY <2>3, <2>5, MappedSeq
  <2>7. \A x \in Range(many) : Exploded(e, x)
      BY <2>4, <2>5 DEF Range
  <2>8. QED
      BY <2>1, <2>6, <2>7 DEF r
<1>5. CASE ~(f = "" \/ Excluded(f)) /\ ~(Len(items) > 1) /\ IsComplex(f)
  <2>1. f = "software"
      BY <1>5 DEF IsComplex
  <2>2. r = <<FlatRow(e, "software")>> /\ ExplodesIt
      BY <1>1, <1>5, <2>1 DEF ExplodesIt
  <2>3. Exploded(e, FlatRow(e, "software"))
      BY <2>2, FlatRowIs DEF Exploded
  <2>4. QED
      BY <2>2, <2>3, OneRow DEF r
<1>6. CASE ~(f = "" \/ Excluded(f)) /\ ~(Len(items) > 1) /\ ~IsComplex(f)
  <2>1. r = <<e>> /\ ~ExplodesIt
      BY <1>1, <1>6 DEF ExplodesIt, IsComplex
  <2>2. QED
      BY <1>2, <2>1, OneRow DEF r
<1>7. QED
    BY <1>3, <1>4, <1>5, <1>6

\* A row whose keys are the announced fields, but strays.
Shaped(row, sel, x) ==
    /\ \A k \in DOMAIN x : IsValue(x[k])
    /\ DOMAIN x \subseteq FinalFields(sel) \cup StraysOf(row, sel)
    /\ shapeArgs.field_null /\ ~shapeArgs.explode_entities =>
            FinalFields(WithoutDetails(sel)) \subseteq DOMAIN x

SplitIt(sel) == FlattensIt(sel) \/ ExplodesIt

\* Which fields final_schemas takes apart, and the callbacks with it.
LEMMA FinalIs ==
    ASSUME CallGiven, NEW sel, SchemasOK(sel), ~NotFound(sel)
    PROVE  /\ SplitIt(sel) => SubKeys \subseteq FinalFields(sel) /\ "software" \notin FinalFields(sel)
           /\ \A k \in Kept(sel) : k \notin {"software", "software_details"} => k \in FinalFields(sel)
           /\ "software" \in Kept(sel) /\ ~SplitIt(sel) => "software" \in FinalFields(sel)
           /\ "software_details" \in Kept(sel) /\ ~shapeArgs.field_flatten
                => "software_details" \in FinalFields(sel)
<1> DEFINE split == {f \in Kept(sel) : /\ IsComplex(f)
                                       /\ shapeArgs.field_flatten \/ f = shapeArgs.field_explode}
<1>1. FinalFields(sel) = (Kept(sel) \ split) \cup (IF split = {} THEN {} ELSE SubKeys)
    BY DEF FinalFields, Kept, SubKeys
<1>2. \A f \in split : f \in {"software", "software_details"}
    BY DEF IsComplex
<1>3. SplitIt(sel) => "software" \in split
  <2>1. SUFFICES ASSUME SplitIt(sel) PROVE "software" \in split
      OBVIOUS
  <2>2. "software" \in sel /\ ~Excluded("software")
      BY <2>1 DEF SplitIt, FlattensIt, ExplodesIt, NotFound
  <2>3. ~IsDetails("software")
      BY TextsAssumption DEF IsDetails, EntityInfo
  <2>4. QED
      BY <2>1, <2>2, <2>3 DEF Kept, SplitIt, FlattensIt, ExplodesIt, IsComplex
<1>4. "software" \in split => SplitIt(sel)
    BY DEF Kept, SplitIt, FlattensIt, ExplodesIt
<1>5. "software_details" \in split => shapeArgs.field_flatten
    BY DEF CallGiven
<1> HIDE DEF split
<1>7. SplitIt(sel) => SubKeys \subseteq FinalFields(sel) /\ "software" \notin FinalFields(sel)
    BY <1>1, <1>3, SubKeysApart
<1>8. \A k \in Kept(sel) : k \notin {"software", "software_details"} => k \in FinalFields(sel)
    BY <1>1, <1>2
<1>9. "software" \in Kept(sel) /\ ~SplitIt(sel) => "software" \in FinalFields(sel)
    BY <1>1, <1>4
<1>10. "software_details" \in Kept(sel) /\ ~shapeArgs.field_flatten
          => "software_details" \in FinalFields(sel)
    BY <1>1, <1>5
<1>11. QED
    BY <1>7, <1>8, <1>9, <1>10

\* Without the details, what is announced is kept, or a sub-field of the one
\* complex field that there is.
LEMMA PlainFinal ==
    ASSUME CallGiven, NEW sel, SchemasOK(sel), ~NotFound(sel),
           NEW k \in FinalFields(WithoutDetails(sel))
    PROVE  /\ k \in Kept(WithoutDetails(sel)) \/ (k \in SubKeys /\ SplitIt(sel))
           /\ SplitIt(sel) => k # "software"
<1> DEFINE plain == Kept(WithoutDetails(sel))
           split == {f \in plain : /\ IsComplex(f)
                                   /\ shapeArgs.field_flatten \/ f = shapeArgs.field_explode}
<1>1. FinalFields(WithoutDetails(sel)) = (plain \ split) \cup (IF split = {} THEN {} ELSE SubKeys)
    BY DEF FinalFields, Kept, SubKeys
<1>2. \A f \in split : f = "software"
    BY DEF IsComplex, Kept, WithoutDetails, IsDetails
<1>3. "software" \in split => SplitIt(sel)
    BY DEF Kept, WithoutDetails, SplitIt, FlattensIt, ExplodesIt
<1>4. SplitIt(sel) => "software" \in split
  <2>1. SUFFICES ASSUME SplitIt(sel) PROVE "software" \in split
      OBVIOUS
  <2>2. "software" \in sel /\ ~Excluded("software")
      BY <2>1 DEF SplitIt, FlattensIt, ExplodesIt, NotFound
  <2>3. ~IsDetails("software")
      BY TextsAssumption DEF IsDetails, EntityInfo
  <2>4. QED
      BY <2>1, <2>2, <2>3 DEF Kept, WithoutDetails, SplitIt, FlattensIt, ExplodesIt, IsComplex
<1> HIDE DEF split, plain
<1>5. k \in plain \/ (k \in SubKeys /\ SplitIt(sel))
    BY <1>1, <1>2, <1>3
<1>6. SplitIt(sel) => k # "software"
    BY <1>1, <1>4, SubKeysApart
<1>7. QED
    BY <1>5, <1>6 DEF plain

LEMMA RowShaped ==
    ASSUME CallGiven, NEW row, NEW sel, SchemasOK(sel), ~NotFound(sel),
           NEW e, Fits(row, sel, e), NEW x, Exploded(Flattened(e, sel), x)
    PROVE  Shaped(row, sel, x)
<1> DEFINE b == Flattened(e, sel)
<1>1. Holds(e)
    BY DEF Fits
<1>2. /\ FlattensIt(sel) => Splits(e, b)
      /\ ~FlattensIt(sel) => b = e
    BY <1>1, FlattenedIs
<1> HIDE DEF b
<1>3. Exploded(b, x)
    BY DEF b
<1>4. FlattensIt(sel) => ~ExplodesIt
    BY DEF FlattensIt, ExplodesIt
<1>5. /\ SplitIt(sel) => DOMAIN x = (DOMAIN e \ {"software"}) \cup SubKeys
      /\ ~SplitIt(sel) => DOMAIN x = DOMAIN e
    BY <1>2, <1>3, <1>4 DEF SplitIt, Exploded, Splits
<1>6. \A k \in DOMAIN x : IsValue(x[k])
  <2>1. CASE ExplodesIt
    <3>1. Splits(e, x)
        BY <1>2, <1>3, <1>4, <2>1 DEF Exploded
    <3>2. Holds(x)
        BY <1>1, <3>1, SplitHolds
    <3>3. QED
        BY <3>2 DEF Holds
  <2>2. CASE ~ExplodesIt
      BY <1>3, <2>2 DEF Exploded
  <2>3. QED
      BY <2>1, <2>2
<1>7. DOMAIN x \subseteq FinalFields(sel) \cup StraysOf(row, sel)
  <2>1. ASSUME NEW k \in DOMAIN e, SplitIt(sel) => k # "software"
        PROVE  k \in FinalFields(sel) \cup StraysOf(row, sel)
    <3>1. k \in Kept(sel) \cup StraysOf(row, sel)
        BY DEF Fits
    <3>2. CASE k = "software_details" /\ k \in Kept(sel)
      <4>1. k \in DOMAIN row
          BY <3>2 DEF Fits
      <4>2. CASE shapeArgs.field_flatten
          BY <3>2, <4>1, <4>2 DEF StraysOf, IsComplex, IsDetails
      <4>3. CASE ~shapeArgs.field_flatten
          BY <3>2, <4>3, FinalIs
      <4>4. QED
          BY <4>2, <4>3
    <3>3. CASE k # "software_details" /\ k \in Kept(sel)
        BY <2>1, <3>3, FinalIs
    <3>4. QED
        BY <3>1, <3>2, <3>3
  <2>2. SplitIt(sel) => SubKeys \subseteq FinalFields(sel)
      BY FinalIs
  <2>3. QED
      BY <1>5, <2>1, <2>2
<1>8. shapeArgs.field_null /\ ~shapeArgs.explode_entities =>
          FinalFields(WithoutDetails(sel)) \subseteq DOMAIN x
  <2>1. SUFFICES ASSUME shapeArgs.field_null, ~shapeArgs.explode_entities,
                        NEW k \in FinalFields(WithoutDetails(sel))
                 PROVE  k \in DOMAIN x
      OBVIOUS
  <2>2. k \in Kept(WithoutDetails(sel)) \/ (k \in SubKeys /\ SplitIt(sel))
      BY <2>1, PlainFinal
  <2>3. SplitIt(sel) => k # "software"
      BY <2>1, PlainFinal
  <2>4. Kept(WithoutDetails(sel)) \subseteq DOMAIN e
      BY <2>1 DEF Fits
  <2>5. QED
      BY <1>5, <2>2, <2>3, <2>4
<1>9. QED
    BY <1>6, <1>7, <1>8 DEF Shaped

\* A value as it is shown: a list, or one value, joined of several perhaps.
Shown(v) == v.list \in BOOLEAN /\ (v.list \/ Len(v.of) = 1 \/ shapeArgs.field_join)

\* A row as the callbacks leave it.
Done(row, sel, m) ==
    /\ \A k \in DOMAIN m : Shown(m[k])
    /\ shapeArgs.naming = "titles" => FinalColumns(sel) \subseteq DOMAIN m
    /\ shapeArgs.field_null /\ ~shapeArgs.explode_entities =>
            FinalColumns(WithoutDetails(sel)) \subseteq DOMAIN m
    /\ DOMAIN m \subseteq FinalColumns(sel) \cup {ColumnOf(f) : f \in StraysOf(row, sel)}
                            \cup StraysOf(row, sel)

LEMMA JoinedIs ==
    ASSUME NEW x, \A k \in DOMAIN x : IsValue(x[k])
    PROVE  DOMAIN Joined(x) = DOMAIN x /\ \A k \in DOMAIN x : Shown(Joined(x)[k])
<1>1. CASE shapeArgs.field_join
  <2>1. Joined(x) = [k \in DOMAIN x |-> [x[k] EXCEPT !.list = FALSE]]
      BY <1>1 DEF Joined, JoinedAll
  <2>2. ASSUME NEW k \in DOMAIN x
        PROVE  Joined(x)[k].list = FALSE
    <3>1. x[k] = [list |-> x[k].list, of |-> x[k].of]
        BY DEF IsValue
    <3>2. Joined(x)[k] = [x[k] EXCEPT !.list = FALSE]
        BY <2>1
    <3>3. QED
        BY <3>1, <3>2
  <2>3. QED
      BY <1>1, <2>1, <2>2 DEF Shown
<1>2. CASE ~shapeArgs.field_join
    BY <1>2 DEF Joined, Shown, IsValue
<1>3. QED
    BY <1>1, <1>2

LEMMA TitledIs ==
    ASSUME NEW j, \A k \in DOMAIN j : Shown(j[k]), NEW F
    PROVE  LET m == TitledOver(j, F)
           IN  /\ DOMAIN m = (DOMAIN j \ F) \cup {Title(f) : f \in F}
               /\ \A k \in DOMAIN m : Shown(m[k])
<1> DEFINE value(t) == LET f == CHOOSE g \in F : Title(g) = t
                       IN  IF f \in DOMAIN j THEN j[f]
                           ELSE IF IsComplex(f) THEN List(<< >>) ELSE Null
           old == Without(j, F)
           new == [t \in {Title(f) : f \in F} |-> value(t)]
           m == TitledOver(j, F)
<1>1. m = Updated(old, new)
    BY DEF TitledOver
<1>2. DOMAIN old = DOMAIN j \ F /\ \A k \in DOMAIN old : old[k] = j[k]
    BY DEF Without, Restrict
<1>3. Shown(List(<< >>)) /\ Shown(Null)
    BY ListIsValue, OneIsValue DEF Shown, IsValue, Null
<1>4. \A t : Shown(value(t))
    BY <1>3
<1>5. DOMAIN new = {Title(f) : f \in F} /\ \A k \in DOMAIN new : Shown(new[k])
  <2> HIDE DEF value
  <2>1. QED
      BY <1>4
<1> HIDE DEF old, new, m
<1>6. /\ DOMAIN Updated(old, new) = DOMAIN old \cup DOMAIN new
      /\ \A k \in DOMAIN old \cup DOMAIN new :
           Updated(old, new)[k] = IF k \in DOMAIN new THEN new[k] ELSE old[k]
    BY UpdatedIs
<1>7. /\ DOMAIN m = (DOMAIN j \ F) \cup {Title(f) : f \in F}
      /\ \A k \in DOMAIN m : Shown(m[k])
    BY <1>1, <1>2, <1>5, <1>6
<1>8. QED
    BY <1>7 DEF m

LEMMA ShortenedIs ==
    ASSUME NEW j, \A k \in DOMAIN j : Shown(j[k])
    PROVE  /\ DOMAIN Shortened(j) = {Renamed(f) : f \in DOMAIN j}
           /\ \A k \in DOMAIN Shortened(j) : Shown(Shortened(j)[k])
<1>1. DOMAIN Shortened(j) = {Renamed(f) : f \in DOMAIN j}
    BY DEF Shortened
<1>2. ASSUME NEW k \in DOMAIN Shortened(j)
      PROVE  Shown(Shortened(j)[k])
  <2>1. \E f \in DOMAIN j : Renamed(f) = k
      BY <1>1
  <2>2. (CHOOSE f \in DOMAIN j : Renamed(f) = k) \in DOMAIN j
      BY <2>1
  <2>3. Shortened(j)[k] = j[CHOOSE f \in DOMAIN j : Renamed(f) = k]
      BY <1>1 DEF Shortened
  <2>4. QED
      BY <2>2, <2>3
<1>3. QED
    BY <1>1, <1>2

LEMMA PlainIsFinal ==
    ASSUME NEW sel
    PROVE  FinalFields(WithoutDetails(sel)) \subseteq FinalFields(sel)
<1> DEFINE split == {f \in Kept(sel) : /\ IsComplex(f)
                                       /\ shapeArgs.field_flatten \/ f = shapeArgs.field_explode}
           plain == {f \in Kept(WithoutDetails(sel)) :
                        /\ IsComplex(f)
                        /\ shapeArgs.field_flatten \/ f = shapeArgs.field_explode}
<1>1. FinalFields(sel) = (Kept(sel) \ split) \cup (IF split = {} THEN {} ELSE SubKeys)
    BY DEF FinalFields, Kept, SubKeys
<1>2. FinalFields(WithoutDetails(sel))
         = (Kept(WithoutDetails(sel)) \ plain) \cup (IF plain = {} THEN {} ELSE SubKeys)
    BY DEF FinalFields, Kept, SubKeys
<1>3. Kept(WithoutDetails(sel)) \subseteq Kept(sel)
    BY DEF Kept, WithoutDetails
<1>4. plain = Kept(WithoutDetails(sel)) \cap split
    BY <1>3
<1> HIDE DEF split, plain
<1>5. QED
    BY <1>1, <1>2, <1>3, <1>4

LEMMA RowDone ==
    ASSUME NEW row, NEW sel, NEW x, Shaped(row, sel, x)
    PROVE  Done(row, sel, Named(Joined(x), sel))
<1> DEFINE j == Joined(x)
           F == FinalFields(sel)
           G == FinalFields(WithoutDetails(sel))
           m == Named(j, sel)
<1>1. DOMAIN j = DOMAIN x /\ \A k \in DOMAIN j : Shown(j[k])
    BY JoinedIs DEF Shaped
<1>2. /\ FinalColumns(sel) = {ColumnOf(f) : f \in F}
      /\ FinalColumns(WithoutDetails(sel)) = {ColumnOf(f) : f \in G}
    BY DEF FinalColumns
<1>3. /\ DOMAIN j \subseteq F \cup StraysOf(row, sel)
      /\ shapeArgs.field_null /\ ~shapeArgs.explode_entities => G \subseteq DOMAIN j
    BY <1>1 DEF Shaped
<1> HIDE DEF j, F, G
<1>4. G \subseteq F
    BY PlainIsFinal DEF F, G
<1>5. CASE shapeArgs.naming = "titles"
  <2>1. m = TitledOver(j, F)
      BY <1>5 DEF Named, NamedOver, F
  <2>2. DOMAIN m = (DOMAIN j \ F) \cup {Title(f) : f \in F} /\ \A k \in DOMAIN m : Shown(m[k])
      BY <1>1, <2>1, TitledIs
  <2>3. \A f : ColumnOf(f) = Title(f)
      BY <1>5 DEF ColumnOf
  <2> HIDE DEF m
  <2>4. /\ FinalColumns(sel) = {Title(f) : f \in F}
        /\ FinalColumns(WithoutDetails(sel)) = {Title(f) : f \in G}
      BY <1>2, <2>3
  <2>5. Done(row, sel, m)
      BY <1>3, <1>4, <2>2, <2>4 DEF Done
  <2>6. QED
      BY <2>5 DEF m, j
<1>6. CASE shapeArgs.naming = "short"
  <2>1. m = Shortened(j)
      BY <1>6 DEF Named, NamedOver
  <2>2. DOMAIN m = {Renamed(f) : f \in DOMAIN j} /\ \A k \in DOMAIN m : Shown(m[k])
      BY <1>1, <2>1, ShortenedIs
  <2>3. \A f : ColumnOf(f) = Renamed(f)
      BY <1>6 DEF ColumnOf
  <2> HIDE DEF m
  <2>4. /\ FinalColumns(sel) = {Renamed(f) : f \in F}
        /\ FinalColumns(WithoutDetails(sel)) = {Renamed(f) : f \in G}
      BY <1>2, <2>3
  <2>5. {ColumnOf(f) : f \in StraysOf(row, sel)} = {Renamed(f) : f \in StraysOf(row, sel)}
      BY <2>3
  <2>6. DOMAIN m \subseteq FinalColumns(sel) \cup {ColumnOf(f) : f \in StraysOf(row, sel)}
      BY <1>3, <2>2, <2>4, <2>5
  <2>7. G \subseteq DOMAIN j => FinalColumns(WithoutDetails(sel)) \subseteq DOMAIN m
      BY <2>2, <2>4
  <2>8. Done(row, sel, m)
      BY <1>3, <1>6, <2>2, <2>6, <2>7 DEF Done
  <2>9. QED
      BY <2>8 DEF m, j
<1>7. CASE shapeArgs.naming \notin {"titles", "short"}
  <2>1. m = j
      BY <1>7 DEF Named, NamedOver
  <2>2. \A f : ColumnOf(f) = f
      BY <1>7 DEF ColumnOf
  <2> HIDE DEF m
  <2>3. FinalColumns(sel) = F /\ FinalColumns(WithoutDetails(sel)) = G
      BY <1>2, <2>2
  <2>4. Done(row, sel, m)
      BY <1>1, <1>3, <1>7, <2>1, <2>3 DEF Done
  <2>5. QED
      BY <2>4 DEF m, j
<1>8. QED
    BY <1>5, <1>6, <1>7

\* Every row that process_row makes of one that came fits the columns.
LEMMA RowsDone ==
    ASSUME CallGiven, NEW row, NEW sel, Came(row), SchemasOK(sel), ~NotFound(sel)
    PROVE  \A n \in DOMAIN RowsOf(row, sel) : Done(row, sel, RowsOf(row, sel)[n])
<1> DEFINE entities == PerEntity(Clean(row, sel))
           ss == [n \in DOMAIN entities |-> PerItem(Flattened(entities[n], sel))]
           items == FlattenSeq(ss)
           L == Len(entities)
<1>1. RowsOf(row, sel) = [n \in DOMAIN items |-> Named(Joined(items[n]), sel)]
    BY DEF RowsOf, Clean
<1>2. entities \in Seq(Range(entities))
    BY CleanIs, EntitiesAre
<1>3. L \in Nat /\ DOMAIN entities = 1..L
  <2> HIDE DEF entities
  <2>1. QED
      BY <1>2
<1>4. ASSUME NEW n \in DOMAIN entities
      PROVE  /\ ss[n] \in Seq(Range(ss[n]))
             /\ \A x \in Range(ss[n]) : Shaped(row, sel, x)
  <2>1. Fits(row, sel, entities[n])
      BY EntitiesFit
  <2>2. Holds(Flattened(entities[n], sel))
      BY <2>1, FlattenedIs DEF Fits
  <2> DEFINE p == PerItem(Flattened(entities[n], sel))
  <2>3. p \in Seq(Range(p)) /\ \A x \in Range(p) : Exploded(Flattened(entities[n], sel), x)
      BY <2>2, PerItemIs DEF CallGiven
  <2>4. ss[n] = p
      OBVIOUS
  <2> HIDE DEF p, ss, entities
  <2>5. ASSUME NEW x \in Range(p)
        PROVE  Shaped(row, sel, x)
    <3>1. Exploded(Flattened(entities[n], sel), x)
        BY <2>3
    <3>2. QED
        BY <2>1, <3>1, RowShaped
  <2>6. QED
      BY <2>3, <2>4, <2>5
<1>5. ss = [n \in 1..L |-> ss[n]]
    BY <1>3
<1> HIDE DEF ss, entities
<1>6. \A x \in Range(items) : Shaped(row, sel, x)
  <2>1. \A x \in Range(items) : \E n \in 1..L : x \in Range(ss[n])
    <3> HIDE DEF L
    <3>1. QED
        BY <1>3, <1>4, <1>5, FlattenedElements
  <2>2. QED
      BY <1>3, <1>4, <2>1
<1>7. \A n \in DOMAIN items : Shaped(row, sel, items[n])
  <2> HIDE DEF items
  <2>1. QED
      BY <1>6 DEF Range
<1>8. \A n \in DOMAIN items : Done(row, sel, Named(Joined(items[n]), sel))
  <2> HIDE DEF items
  <2>1. TAKE n \in DOMAIN items
  <2>2. QED
      BY <1>7, RowDone
<1> HIDE DEF items
<1>9. QED
    BY <1>1, <1>8

\* Images of a finite set are finite.
LEMMA FiniteImage ==
    ASSUME NEW S, IsFiniteSet(S), NEW f, DOMAIN f = S
    PROVE  IsFiniteSet({f[x] : x \in S})
<1> DEFINE T == {f[x] : x \in S}
           g == [x \in S |-> f[x]]
<1>1. g \in Surjection(S, T)
    BY DEF Surjection
<1>2. QED
  <2> HIDE DEF g, T
  <2>1. IsFiniteSet(T)
      BY <1>1, FS_Surjection
  <2>2. QED
      BY <2>1 DEF T

LEMMA FinitePair ==
    ASSUME NEW a, NEW b
    PROVE  IsFiniteSet({a, b})
<1>1. IsFiniteSet({a} \cup {b})
    BY FS_Singleton, FS_AddElement
<1>2. {a} \cup {b} = {a, b}
    OBVIOUS
<1>3. QED
    BY <1>1, <1>2

LEMMA FiniteTriple ==
    ASSUME NEW a, NEW b, NEW c
    PROVE  IsFiniteSet({a, b, c})
<1>1. IsFiniteSet({a, b} \cup {c})
    BY FinitePair, FS_AddElement
<1>2. {a, b} \cup {c} = {a, b, c}
    OBVIOUS
<1>3. QED
    BY <1>1, <1>2

\* The columns a row may have are finitely many.
LEMMA ColumnsFinite ==
    ASSUME NEW row, IsFiniteSet(DOMAIN row), NEW sel, IsFiniteSet(sel), IsFiniteSet(excludes)
    PROVE  /\ IsFiniteSet(FinalColumns(sel)) /\ IsFiniteSet(StraysOf(row, sel))
           /\ IsFiniteSet({ColumnOf(f) : f \in StraysOf(row, sel)})
<1>1. IsFiniteSet({SubField("name"), SubField("labels")})
    BY FinitePair
<1>2. SubKeys \subseteq {SubField("name"), SubField("labels")}
    BY DEF SubKeys, OpenSubs, Subs
<1>3. FinalFields(sel) \subseteq sel \cup SubKeys
    BY DEF FinalFields, SubKeys
<1>4. IsFiniteSet(sel \cup {SubField("name"), SubField("labels")})
    BY <1>1, FS_Union
<1>5. IsFiniteSet(FinalFields(sel))
    BY <1>2, <1>3, <1>4, FS_Subset
<1>6. IsFiniteSet(DOMAIN row \cup excludes)
    BY FS_Union
<1>7. IsFiniteSet(StraysOf(row, sel))
  <2>1. StraysOf(row, sel) \subseteq DOMAIN row \cup excludes
      BY DEF StraysOf
  <2>2. QED
      BY <1>6, <2>1, FS_Subset
<1>8. ASSUME NEW S, IsFiniteSet(S)
      PROVE  IsFiniteSet({ColumnOf(f) : f \in S})
  <2> DEFINE g == [f \in S |-> ColumnOf(f)]
  <2>1. DOMAIN g = S /\ {g[f] : f \in S} = {ColumnOf(f) : f \in S}
      OBVIOUS
  <2> HIDE DEF g
  <2>2. IsFiniteSet({g[f] : f \in S})
      BY <1>8, <2>1, FiniteImage
  <2>3. QED
      BY <2>1, <2>2
<1>9. IsFiniteSet(FinalColumns(sel))
    BY <1>5, <1>8 DEF FinalColumns
<1>10. QED
    BY <1>7, <1>8, <1>9

\* What the server sends has the shape of what it could send.
LEMMA SentCame ==
    ASSUME NEW r \in FirstRows \cup LaterRows
    PROVE  Came(Sent(r)) /\ IsFiniteSet(DOMAIN Sent(r))
<1> DEFINE keys == {f \in DOMAIN r :
                      /\ f \in {"hostname", "hostname_details"} => "hostname" \in shapeArgs.fields
                      /\ f \in {"software", "software_details"} => "software" \in shapeArgs.fields
                      /\ IsDetails(f) => include}
           row == Sent(r)
<1>1. DOMAIN row = keys /\ \A f \in keys : row[f] = r[f]
    BY DEF Sent, Restrict
<1>2. /\ IsFiniteSet(DOMAIN r)
      /\ \A f \in DOMAIN r : IsField(r[f])
      /\ "software" \in DOMAIN r => HasItems(r["software"])
      /\ \A d \in DOMAIN r : IsDetails(d) =>
            \A v \in Range(r[d].of) : IsField(v) /\ (IsComplex(d) => HasItems(v))
    BY RowsAssumption
<1> HIDE DEF row
<1>3. IsFiniteSet(DOMAIN row)
    BY <1>1, <1>2, FS_Subset
<1>4. Came(row)
    BY <1>1, <1>2 DEF Came
<1>5. QED
    BY <1>3, <1>4 DEF row

\* The schemas, whether they are selected with a row at hand or without.
LEMMA SchemasAreOK ==
    ASSUME CallGiven, NEW row, Came(row), IsFiniteSet(DOMAIN row), NEW rs \in SUBSET {row}
    PROVE  /\ SchemasOK(SchemasSelected(rs)) /\ IsFiniteSet(SchemasSelected(rs))
           /\ SchemasSelected(rs) # {}
<1> DEFINE asked == ApiFields \cup shapeArgs.fields
           details == {DetailsOf(f) : f \in asked}
           keys == UNION {DOMAIN x : x \in rs}
           sel == SchemasSelected(rs)
<1>1. sel = (Reports \cup asked) \cup (IF include THEN EntityInfo \cup details ELSE {}) \cup keys
    BY DEF SchemasSelected
<1>2. DetailsExclude \subseteq details
    BY DEF DetailsExclude
<1>3. keys \subseteq DOMAIN row
    OBVIOUS
<1>4. \A f \in asked : ~IsDetails(f)
    BY TextsAssumption DEF CallGiven, ApiFields, IsDetails, EntityInfo
<1>5. IsFiniteSet(Reports)
  <2>1. IsFiniteSet({"adapters_missing"}) /\ IsFiniteSet({})
      BY FS_Singleton, FS_EmptySet
  <2>2. IsFiniteSet({"history_date", "current_date"})
      BY FinitePair
  <2>3. IsFiniteSet({"software_missing", "software_whitelist", "software_extra"})
      BY FiniteTriple
  <2>4. QED
      BY <2>1, <2>2, <2>3 DEF Reports
<1>6. IsFiniteSet(asked)
  <2>1. IsFiniteSet(ApiFields)
      BY FiniteTriple DEF ApiFields
  <2>2. IsFiniteSet({"hostname", "software"})
      BY FinitePair
  <2>3. IsFiniteSet(shapeArgs.fields)
      BY <2>2, FS_Subset DEF CallGiven
  <2>4. QED
      BY <2>1, <2>3, FS_Union
<1>7. IsFiniteSet(details)
  <2> DEFINE g == [f \in asked |-> DetailsOf(f)]
  <2>1. DOMAIN g = asked /\ {g[f] : f \in asked} = details
      OBVIOUS
  <2> HIDE DEF g, asked, details
  <2>2. IsFiniteSet({g[f] : f \in asked})
      BY <1>6, <2>1, FiniteImage
  <2>3. QED
      BY <2>1, <2>2
<1> HIDE DEF asked, details, keys, sel
<1>8. IsFiniteSet(sel)
  <2>1. IsFiniteSet(keys)
      BY <1>3, FS_Subset
  <2>2. IsFiniteSet(Reports \cup asked)
      BY <1>5, <1>6, FS_Union
  <2>3. IsFiniteSet(EntityInfo \cup details) /\ IsFiniteSet({})
      BY <1>7, FS_Singleton, FS_Union, FS_EmptySet DEF EntityInfo
  <2>4. IsFiniteSet(IF include THEN EntityInfo \cup details ELSE {})
      BY <2>3
  <2>5. IsFiniteSet((Reports \cup asked) \cup (IF include THEN EntityInfo \cup details ELSE {}))
      BY <2>2, <2>4, FS_Union
  <2>6. QED
      BY <1>1, <2>1, <2>5, FS_Union
<1>9. ApiFields \cup shapeArgs.fields \cup Reports \subseteq sel
    BY <1>1 DEF asked
<1>10. include => EntityInfo \cup DetailsExclude \subseteq sel
    BY <1>1, <1>2
<1>11. ~include => \A f \in sel : ~IsDetails(f)
    BY <1>1, <1>3, <1>4, ReportsApart DEF Came
<1>12. sel # {}
    BY <1>9 DEF ApiFields
<1>13. QED
    BY <1>8, <1>9, <1>10, <1>11, <1>12 DEF SchemasOK, sel

-----------------------------------------------------------------------------
(* The items of a row: what its sources have, and what is shown of it.      *)

\* What a row that came has besides, and schemas with the details of their fields.
Full(row, sel) ==
    /\ "adapters" \in DOMAIN row /\ DOMAIN row \cup sel \subseteq Names
    /\ include => \A f \in shapeArgs.fields : DetailsOf(f) \in sel

\* The row of a source, before complex fields are split.
Known(e, source) ==
    /\ shapeArgs.explode_entities =>
          "adapters" \in DOMAIN e /\ e["adapters"].of = <<source.adapter>>
    /\ "hostname" \notin excludes =>
          \/ ItemsOf(e, "hostname") = source.hostname
          \/ source.hostname = << >> /\ Len(ItemsOf(e, "hostname")) <= 1
    /\ "software" \notin excludes => SameSubs(ItemsOf(e, "software"), source.software)
    /\ source.software \in Seq(Range(source.software))

\* The details of a field for the n-th adapter, and the source made of them.
DetailAt(row, f, n) ==
    LET d == DetailsOf(f)
    IN  IF d \in DOMAIN row /\ n \in DOMAIN row[d].of /\ ~Excluded(d)
        THEN row[d].of[n].of ELSE << >>

LEMMA SourcesAre ==
    ASSUME NEW row
    PROVE  /\ ~shapeArgs.explode_entities =>
                 Sources(row) = << [adapter |-> "", hostname |-> ItemsOf(row, "hostname"),
                                    software |-> ItemsOf(row, "software")] >>
           /\ shapeArgs.explode_entities =>
                 Sources(row) = [n \in DOMAIN row["adapters"].of |->
                    [adapter |-> row["adapters"].of[n], hostname |-> DetailAt(row, "hostname", n),
                     software |-> DetailAt(row, "software", n)]]
BY DEF Sources, DetailAt

LEMMA EntityKnows ==
    ASSUME CallGiven, NEW row, NEW sel, Came(row), SchemasOK(sel), Full(row, sel),
           shapeArgs.explode_entities, NEW n, NEW f \in {"hostname", "software"}
    PROVE  ItemsOf(EntityOf(Clean(row, sel), n), f) = DetailAt(row, f, n)
<1> DEFINE c == Clean(row, sel)
           about == {d \in DOMAIN c : IsDetails(d) /\ n \in DOMAIN c[d].of}
           new == [k \in {PlainOf(d) : d \in about} \cup {"adapters"} |->
                    IF k = "adapters" THEN One(c.adapters.of[n])
                    ELSE IF k \in EntityInfo THEN c[k].of[n]
                    ELSE c[DetailsOf(k)].of[n]]
           old == Restrict(c, Passthru \cap DOMAIN c)
           e == EntityOf(c, n)
           df == DetailsOf(f)
<1>1. /\ \A k \in DOMAIN c : k \in sel \ excludes \/ (k \in DOMAIN row /\ k \notin sel)
      /\ \A k \in DOMAIN c : IsDetails(k) => k \in DOMAIN row /\ c[k] = row[k]
    BY CleanIs
<1>2. e = Updated(old, new)
    BY DEF EntityOf
<1>3. DOMAIN old = Passthru \cap DOMAIN c
    BY DEF Restrict
<1>4. include /\ DetailsExclude \subseteq excludes \cap sel
    BY DEF CallGiven, SchemasOK
<1>5. \A k \in DOMAIN row : k # "software" /\ k \notin Reports /\ k \notin excludes => k \in DOMAIN c
    BY CleanKeeps
<1> HIDE DEF c
<1>6. /\ f \notin Passthru /\ f # "adapters" /\ f \notin EntityInfo
      /\ IsDetails(df) /\ df \notin EntityInfo /\ df # "software" /\ df \notin Reports
  <2>1. df \in {"hostname_details", "software_details"}
      BY TextsAssumption
  <2>2. QED
      BY <2>1, ReportsApart DEF Passthru, EntityInfo, IsDetails
<1>7. df \in DOMAIN row => f \in shapeArgs.fields /\ df \in sel /\ df \notin DetailsExclude
  <2>1. SUFFICES ASSUME df \in DOMAIN row
                 PROVE  f \in shapeArgs.fields /\ df \in sel /\ df \notin DetailsExclude
      OBVIOUS
  <2>2. f \in shapeArgs.fields
      BY <2>1, TextsAssumption DEF Came
  <2>3. df \in sel
      BY <1>4, <2>2 DEF Full
  <2>4. df \notin DetailsExclude
      BY TextsAssumption
  <2>5. QED
      BY <2>2, <2>3, <2>4
<1>8. f \in {PlainOf(d) : d \in about} <=> df \in about
  <2>1. ASSUME df \in about
        PROVE  PlainOf(df) = f
    <3>1. df \in DOMAIN row
        BY <1>1, <1>6, <2>1
    <3>2. PlainOf(df) \in shapeArgs.fields /\ DetailsOf(PlainOf(df)) = df
        BY <1>6, <1>7, <3>1, PlainIs
    <3>3. QED
        BY <3>2, TextsAssumption DEF CallGiven
  <2>2. ASSUME NEW d \in about, f = PlainOf(d)
        PROVE  d = df
    <3>1. d \in DOMAIN c /\ IsDetails(d) /\ d \in DOMAIN row
        BY <1>1, <2>2
    <3>2. d \notin DetailsExclude
        BY <1>1, <1>4, <3>1
    <3>3. /\ d \in EntityInfo => PlainOf(d) = d
          /\ d \notin EntityInfo => DetailsOf(PlainOf(d)) = d
        BY <3>1, <3>2, PlainIs
    <3>4. QED
        BY <1>6, <2>2, <3>3
  <2> HIDE DEF about
  <2>3. QED
      BY <2>1, <2>2
<1>9. df \in about <=> df \in DOMAIN row /\ n \in DOMAIN row[df].of /\ df \notin excludes
    BY <1>1, <1>5, <1>6, <1>7
<1>10. /\ DOMAIN new = {PlainOf(d) : d \in about} \cup {"adapters"}
       /\ f \in DOMAIN new => new[f] = c[DetailsOf(f)].of[n]
    BY <1>6
<1> HIDE DEF new, about, old
<1>11. /\ DOMAIN e = DOMAIN old \cup DOMAIN new
       /\ \A k \in DOMAIN old \cup DOMAIN new : e[k] = IF k \in DOMAIN new THEN new[k] ELSE old[k]
  <2>1. /\ DOMAIN Updated(old, new) = DOMAIN old \cup DOMAIN new
        /\ \A k \in DOMAIN old \cup DOMAIN new :
             Updated(old, new)[k] = IF k \in DOMAIN new THEN new[k] ELSE old[k]
      BY UpdatedIs
  <2>2. QED
      BY <1>2, <2>1
<1> HIDE DEF e
<1>12. f \in DOMAIN e <=> df \in about
    BY <1>3, <1>6, <1>8, <1>10, <1>11
<1>13. CASE df \in about
  <2>1. e[f] = c[df].of[n] /\ c[df] = row[df] /\ f \in DOMAIN e
    <3>1. f \in DOMAIN new /\ e[f] = new[f] /\ f \in DOMAIN e
        BY <1>8, <1>10, <1>11, <1>12, <1>13
    <3>2. df \in DOMAIN c /\ c[df] = row[df]
        BY <1>1, <1>6, <1>13 DEF about
    <3>3. QED
        BY <1>10, <3>1, <3>2
  <2>2. ItemsOf(e, f) = row[df].of[n].of
      BY <2>1 DEF ItemsOf
  <2>3. DetailAt(row, f, n) = row[df].of[n].of
      BY <1>9, <1>13 DEF DetailAt, Excluded
  <2>4. QED
      BY <2>2, <2>3 DEF e, c
<1>14. CASE df \notin about
  <2>1. ItemsOf(e, f) = << >>
      BY <1>12, <1>14 DEF ItemsOf
  <2>2. DetailAt(row, f, n) = << >>
      BY <1>9, <1>14 DEF DetailAt, Excluded
  <2>3. QED
      BY <2>1, <2>2 DEF e, c
<1>15. QED
    BY <1>13, <1>14

LEMMA EmptyOfItself == << >> \in Seq(Range(<< >>))
<1>1. Range(<< >>) = {}
    BY DEF Range
<1>2. QED
    BY <1>1, EmptySeq

LEMMA DetailTyped ==
    ASSUME NEW row, Came(row), NEW f \in {"hostname", "software"}, NEW n
    PROVE  DetailAt(row, f, n) \in Seq(Range(DetailAt(row, f, n)))
<1> DEFINE d == DetailsOf(f)
<1>1. CASE d \in DOMAIN row /\ n \in DOMAIN row[d].of /\ ~Excluded(d)
  <2>1. IsDetails(d)
      BY TextsAssumption DEF IsDetails
  <2>2. row[d].of[n] \in Range(row[d].of)
      BY <1>1 DEF Range
  <2>3. IsField(row[d].of[n])
      BY <1>1, <2>1, <2>2 DEF Came
  <2>4. DetailAt(row, f, n) = row[d].of[n].of
      BY <1>1 DEF DetailAt
  <2>5. QED
      BY <2>3, <2>4 DEF IsField
<1>2. CASE ~(d \in DOMAIN row /\ n \in DOMAIN row[d].of /\ ~Excluded(d))
  <2>1. DetailAt(row, f, n) = << >>
      BY <1>2 DEF DetailAt
  <2>2. QED
      BY <2>1, EmptyOfItself
<1>3. QED
    BY <1>1, <1>2

LEMMA EntityAdapter ==
    ASSUME NEW c, NEW n
    PROVE  /\ "adapters" \in DOMAIN EntityOf(c, n)
           /\ EntityOf(c, n)["adapters"].of = <<c["adapters"].of[n]>>
<1> DEFINE about == {d \in DOMAIN c : IsDetails(d) /\ n \in DOMAIN c[d].of}
           new == [k \in {PlainOf(d) : d \in about} \cup {"adapters"} |->
                    IF k = "adapters" THEN One(c.adapters.of[n])
                    ELSE IF k \in EntityInfo THEN c[k].of[n]
                    ELSE c[DetailsOf(k)].of[n]]
           old == Restrict(c, Passthru \cap DOMAIN c)
<1>1. EntityOf(c, n) = Updated(old, new)
    BY DEF EntityOf
<1>2. "adapters" \in DOMAIN new /\ new["adapters"] = One(c["adapters"].of[n])
    OBVIOUS
<1> HIDE DEF new, old
<1>3. /\ DOMAIN Updated(old, new) = DOMAIN old \cup DOMAIN new
      /\ \A k \in DOMAIN old \cup DOMAIN new :
           Updated(old, new)[k] = IF k \in DOMAIN new THEN new[k] ELSE old[k]
    BY UpdatedIs
<1>4. QED
    BY <1>1, <1>2, <1>3, OneIsValue

LEMMA SourcesKnown ==
    ASSUME CallGiven, NEW row, NEW sel, Came(row), SchemasOK(sel), Full(row, sel),
           "adapters" \notin excludes
    PROVE  LET entities == PerEntity(Clean(row, sel))
           IN  /\ Sources(row) \in Seq(Range(Sources(row)))
               /\ entities \in Seq(Range(entities))
               /\ Len(entities) = Len(Sources(row))
               /\ \A n \in 1..Len(entities) : Known(entities[n], Sources(row)[n])
<1> DEFINE c == Clean(row, sel)
           ss == Sources(row)
           es == PerEntity(c)
<1>1. Holds(c)
    BY CleanIs
<1>2. /\ \A k \in DOMAIN row : k # "software" /\ k \notin Reports /\ k \notin excludes
           => k \in DOMAIN c /\ c[k] = row[k]
      /\ "hostname" \notin DOMAIN row => Len(ItemsOf(c, "hostname")) <= 1
      /\ "software" \notin excludes => SameSubs(ItemsOf(c, "software"), ItemsOf(row, "software"))
    BY CleanKeeps
<1> HIDE DEF c
<1>3. /\ es \in Seq(Range(es))
      /\ ~shapeArgs.explode_entities => es = <<c>>
      /\ shapeArgs.explode_entities =>
           /\ DOMAIN es = DOMAIN ItemsOf(c, "adapters")
           /\ \A n \in DOMAIN es : es[n] = EntityOf(c, n)
    BY <1>1, EntitiesAre
<1> HIDE DEF es, ss
<1>4. CASE ~shapeArgs.explode_entities
  <2> DEFINE source == [adapter |-> "", hostname |-> ItemsOf(row, "hostname"),
                        software |-> ItemsOf(row, "software")]
  <2>1. ss = <<source>>
      BY <1>4, SourcesAre DEF ss
  <2>2. source.hostname = ItemsOf(row, "hostname") /\ source.software = ItemsOf(row, "software")
      OBVIOUS
  <2> HIDE DEF source
  <2>3. ss \in Seq(Range(ss)) /\ Len(ss) = 1 /\ ss[1] = source
    <3>1. <<source>> \in Seq(Range(<<source>>))
        BY OneRow
    <3>2. Len(<<source>>) = 1 /\ <<source>>[1] = source
        OBVIOUS
    <3>3. QED
        BY <2>1, <3>1, <3>2
  <2>4. Len(es) = 1 /\ es[1] = c
    <3>1. Len(<<c>>) = 1 /\ <<c>>[1] = c
        OBVIOUS
    <3>2. QED
        BY <1>3, <1>4, <3>1
  <2>5. "hostname" \notin excludes =>
           \/ ItemsOf(c, "hostname") = source.hostname
           \/ source.hostname = << >> /\ Len(ItemsOf(c, "hostname")) <= 1
    <3>1. "hostname" \in DOMAIN row /\ "hostname" \notin excludes =>
             "hostname" \in DOMAIN c /\ c["hostname"] = row["hostname"]
        BY <1>2, ReportsApart
    <3>2. QED
        BY <1>2, <2>2, <3>1 DEF ItemsOf
  <2>9. source.software \in Seq(Range(source.software))
      BY <2>2, EmptyOfItself DEF ItemsOf, Came, IsField
  <2>6. Known(c, source)
      BY <1>2, <1>4, <2>2, <2>5, <2>9 DEF Known
  <2>7. \A n \in 1..1 : n = 1
      OBVIOUS
  <2>8. QED
      BY <1>3, <2>3, <2>4, <2>6, <2>7 DEF es, ss, c
<1>5. CASE shapeArgs.explode_entities
  <2> DEFINE of == row["adapters"].of
  <2>1. "adapters" \in DOMAIN row /\ "adapters" \in DOMAIN c /\ c["adapters"] = row["adapters"]
      BY <1>2, ReportsApart DEF Full
  <2>2. ItemsOf(c, "adapters") = of /\ of \in Seq(Range(of))
      BY <2>1 DEF ItemsOf, Came, IsField
  <2>3. /\ DOMAIN ss = DOMAIN of
        /\ \A n \in DOMAIN of : /\ ss[n].adapter = of[n]
                                /\ ss[n].hostname = DetailAt(row, "hostname", n)
                                /\ ss[n].software = DetailAt(row, "software", n)
        /\ ss = [n \in DOMAIN ss |-> ss[n]]
      BY <1>5, SourcesAre DEF ss
  <2> HIDE DEF of
  <2>4. ss \in Seq(Range(ss)) /\ Len(ss) = Len(of)
      BY <2>2, <2>3, MappedSeq
  <2>5. Len(es) = Len(of)
    <3>1. es = [n \in DOMAIN es |-> es[n]]
        BY <1>3
    <3>2. QED
        BY <1>3, <1>5, <2>2, <3>1, MappedSeq
  <2>6. ASSUME NEW n \in DOMAIN of
        PROVE  Known(es[n], ss[n])
    <3>1. es[n] = EntityOf(c, n)
        BY <1>3, <1>5, <2>2
    <3>2. /\ ItemsOf(es[n], "hostname") = ss[n].hostname
          /\ ItemsOf(es[n], "software") = ss[n].software
        BY <1>5, <2>3, <3>1, EntityKnows DEF c
    <3>3. "adapters" \in DOMAIN es[n] /\ es[n]["adapters"].of = <<ss[n].adapter>>
        BY <2>1, <2>3, <3>1, EntityAdapter DEF of
    <3>4. ss[n].software \in Seq(Range(ss[n].software))
        BY <2>3, DetailTyped
    <3>5. QED
        BY <3>2, <3>3, <3>4 DEF Known, SameSubs
  <2>7. DOMAIN of = 1..Len(of)
      BY <2>2
  <2>8. QED
      BY <1>3, <2>4, <2>5, <2>6, <2>7 DEF es, ss, c
<1>6. QED
    BY <1>4, <1>5

LEMMA SubChosen ==
    ASSUME NEW s \in OpenSubs
    PROVE  (CHOOSE t \in OpenSubs : SubField(t) = SubField(s)) = s
BY TextsAssumption DEF OpenSubs, Subs

\* The values of a sub-field are sequences of values.
LEMMA ColumnTyped ==
    ASSUME NEW e, Holds(e), NEW s
    PROVE  LET items == ItemsOf(e, "software")
               ss == [n \in DOMAIN items |-> SubOf(items[n], s).of]
           IN  /\ items \in Seq(Range(items)) /\ DOMAIN items = 1..Len(items)
               /\ \E S : ss \in Seq(Seq(S))
               /\ Len(ss) = Len(items)
<1> DEFINE items == ItemsOf(e, "software")
           ss == [n \in DOMAIN items |-> SubOf(items[n], s).of]
           L == Len(items)
<1>1. items \in Seq(Range(items))
      /\ \A item \in Range(items) : \A t \in DOMAIN item : IsField(item[t])
    BY ItemsAre
<1> HIDE DEF items
<1>2. L \in Nat /\ DOMAIN items = 1..L
    BY <1>1
<1>3. ASSUME NEW n \in 1..L
      PROVE  ss[n] \in Seq(Range(ss[n]))
  <2>1. \A t \in DOMAIN items[n] : IsField(items[n][t])
      BY <1>1, <1>2 DEF Range
  <2>2. IsField(SubOf(items[n], s))
      BY <2>1, SubIsField
  <2>3. ss[n] = SubOf(items[n], s).of
      BY <1>2
  <2>4. QED
      BY <2>2, <2>3 DEF IsField
<1>4. ss = [n \in 1..L |-> ss[n]]
    BY <1>2
<1> HIDE DEF ss
<1>5. ss \in Seq(Seq(UNION {Range(ss[n]) : n \in 1..L}))
  <2> HIDE DEF L
  <2>1. QED
      BY <1>2, <1>3, <1>4, SeqOfSeqs
<1>6. Len(ss) = L
  <2> HIDE DEF L
  <2>1. QED
      BY <1>2, <1>4
<1>7. QED
    BY <1>1, <1>2, <1>5, <1>6 DEF ss, items

LEMMA FlattenedOne ==
    ASSUME NEW S, NEW ss \in Seq(Seq(S)), Len(ss) = 1
    PROVE  FlattenSeq(ss) = ss[1]
<1>1. PICK g : Flattens(S, ss, g)
    BY FlattenedBy
<1>2. g[0] = << >> /\ g[1] = g[1 - 1] \o ss[1] /\ FlattenSeq(ss) = g[1]
    BY <1>1 DEF Flattens
<1>3. 1 - 1 = 0 /\ ss[1] \in Seq(S)
    OBVIOUS
<1>4. << >> \o ss[1] = ss[1]
    BY <1>3
<1>5. QED
    BY <1>2, <1>3, <1>4

LEMMA FlatRowShows ==
    ASSUME NEW e, NEW s \in OpenSubs
    PROVE  /\ SubField(s) \in DOMAIN FlatRow(e, "software")
           /\ FlatRow(e, "software")[SubField(s)].of = FlatColumn(ItemsOf(e, "software"), s)
<1> DEFINE new == [c \in {SubField(t) : t \in OpenSubs} |->
                    List(FlatColumn(ItemsOf(e, "software"),
                                    CHOOSE t \in OpenSubs : SubField(t) = c))]
           old == Without(e, {"software"})
<1>1. FlatRow(e, "software") = Updated(old, new)
    BY DEF FlatRow
<1>2. SubField(s) \in DOMAIN new
      /\ new[SubField(s)] = List(FlatColumn(ItemsOf(e, "software"), s))
    BY SubChosen
<1> HIDE DEF new, old
<1>3. /\ DOMAIN Updated(old, new) = DOMAIN old \cup DOMAIN new
      /\ \A k \in DOMAIN old \cup DOMAIN new :
           Updated(old, new)[k] = IF k \in DOMAIN new THEN new[k] ELSE old[k]
    BY UpdatedIs
<1>4. QED
    BY <1>1, <1>2, <1>3, ListIsValue

\* A column of one item has that item's value.
LEMMA OneItemFlat ==
    ASSUME NEW e, Holds(e), NEW s \in OpenSubs, Len(ItemsOf(e, "software")) = 1
    PROVE  FlatColumn(ItemsOf(e, "software"), s) = SubOf(ItemsOf(e, "software")[1], s).of
<1> DEFINE items == ItemsOf(e, "software")
           ss == [n \in DOMAIN items |-> SubOf(items[n], s).of]
<1>1. DOMAIN items = 1..Len(items) /\ (\E S : ss \in Seq(Seq(S))) /\ Len(ss) = Len(items)
    BY ColumnTyped
<1>2. ss[1] = SubOf(items[1], s).of
    BY <1>1
<1>3. FlatColumn(items, s) = FlattenSeq(ss)
    BY DEF FlatColumn
<1> HIDE DEF ss
<1>4. PICK S : ss \in Seq(Seq(S))
    BY <1>1
<1>5. FlattenSeq(ss) = ss[1]
    BY <1>1, <1>4, FlattenedOne
<1>6. QED
    BY <1>2, <1>3, <1>5

\* A column of single values has them in the order of the items.
LEMMA SinglesFlat ==
    ASSUME NEW e, Holds(e), NEW s, NEW items, SameSubs(ItemsOf(e, "software"), items),
           s \in OpenSubs, \A n \in DOMAIN items : Len(SubOf(items[n], s).of) = 1
    PROVE  FlatColumn(ItemsOf(e, "software"), s) = [n \in DOMAIN items |-> SubOf(items[n], s).of[1]]
<1> DEFINE own == ItemsOf(e, "software")
           ss == [n \in DOMAIN own |-> SubOf(own[n], s).of]
<1>1. DOMAIN own = 1..Len(own) /\ (\E S : ss \in Seq(Seq(S))) /\ Len(ss) = Len(own)
    BY ColumnTyped
<1>2. FlatColumn(own, s) = FlattenSeq(ss)
    BY DEF FlatColumn
<1>3. DOMAIN own = DOMAIN items /\ \A n \in DOMAIN items : ss[n] = SubOf(items[n], s).of
    BY DEF SameSubs
<1> HIDE DEF ss, own
<1>4. PICK S : ss \in Seq(Seq(S))
    BY <1>1
<1>5. \A n \in 1..Len(ss) : Len(ss[n]) = 1
    BY <1>1, <1>3
<1>6. FlattenSeq(ss) = [n \in 1..Len(ss) |-> ss[n][1]]
    BY <1>4, <1>5, FlattenedSingles
<1>7. [n \in 1..Len(ss) |-> ss[n][1]] = [n \in DOMAIN items |-> SubOf(items[n], s).of[1]]
    BY <1>1, <1>3
<1>8. QED
    BY <1>2, <1>6, <1>7 DEF own

\* A column that has the values of the items in their order.
InOrder(column, items, s) ==
    LET values == [n \in DOMAIN items |-> SubOf(items[n], s).of]
    IN  /\ column = FlattenSeq(values)
        /\ (\A n \in DOMAIN items : Len(values[n]) = 1) =>
              column = [n \in DOMAIN items |-> values[n][1]]

LEMMA ColumnInOrder ==
    ASSUME NEW e, Holds(e), NEW s, NEW items, SameSubs(ItemsOf(e, "software"), items),
           s \in OpenSubs
    PROVE  InOrder(FlatColumn(ItemsOf(e, "software"), s), items, s)
<1> DEFINE own == ItemsOf(e, "software")
           values == [n \in DOMAIN items |-> SubOf(items[n], s).of]
<1>1. [n \in DOMAIN own |-> SubOf(own[n], s).of] = values
    BY DEF SameSubs
<1>2. FlatColumn(own, s) = FlattenSeq(values)
    BY <1>1 DEF FlatColumn
<1>3. \A n \in DOMAIN items : values[n] = SubOf(items[n], s).of
    OBVIOUS
<1>4. ASSUME \A n \in DOMAIN items : Len(values[n]) = 1
      PROVE  FlatColumn(own, s) = [n \in DOMAIN items |-> values[n][1]]
  <2>1. FlatColumn(own, s) = [n \in DOMAIN items |-> SubOf(items[n], s).of[1]]
      BY <1>4, SinglesFlat
  <2>2. QED
      BY <2>1
<1>5. QED
    BY <1>2, <1>4 DEF InOrder

\* The keys whose values are an item's own.
OwnKeys == {shapeArgs.field_explode} \cup SubKeys

\* What do_explode leaves as it is.
FromRow(b, x) ==
    /\ DOMAIN x = IF ExplodesIt THEN (DOMAIN b \ {"software"}) \cup SubKeys ELSE DOMAIN b
    /\ \A k \in DOMAIN b : k # shapeArgs.field_explode /\ (ExplodesIt => k \notin SubKeys)
          => x[k] = b[k]

\* What it makes of an item.
ItemShown(x, item) ==
    IF shapeArgs.field_explode = "software"
    THEN \A s \in OpenSubs : SubField(s) \in DOMAIN x /\ x[SubField(s)].of = SubOf(item, s).of
    ELSE shapeArgs.field_explode \in DOMAIN x /\ x[shapeArgs.field_explode].of = <<item>>

LEMMA SplitFromRow ==
    ASSUME NEW b, NEW x, Splits(b, x), ExplodesIt
    PROVE  FromRow(b, x)
BY DEF FromRow, Splits, ExplodesIt

LEMMA SingleShows ==
    ASSUME NEW e, Holds(e), ~Excluded(shapeArgs.field_explode),
           NEW f \in {"hostname", "software"}, shapeArgs.field_explode = f,
           NEW n \in DOMAIN ItemsOf(e, f)
    PROVE  FromRow(e, SingleRow(e, f, n)) /\ ItemShown(SingleRow(e, f, n), ItemsOf(e, f)[n])
<1> DEFINE x == SingleRow(e, f, n)
           item == ItemsOf(e, f)[n]
<1>1. f \in DOMAIN e
    BY ItemsAre
<1>2. Exploded(e, x)
    BY SingleIs
<1> HIDE DEF x
<1>3. CASE f = "software"
  <2> DEFINE new == [c \in {SubField(s) : s \in OpenSubs} |->
                        SubOf(item, CHOOSE s \in OpenSubs : SubField(s) = c)]
             old == Without(e, {f})
  <2>1. x = Updated(old, new)
      BY <1>3 DEF IsComplex, SingleRow, x
  <2>2. ExplodesIt
      BY <1>3 DEF ExplodesIt
  <2>3. FromRow(e, x)
      BY <1>2, <2>2, SplitFromRow DEF Exploded
  <2>4. \A s \in OpenSubs : SubField(s) \in DOMAIN new /\ new[SubField(s)] = SubOf(item, s)
    <3> HIDE DEF item
    <3>1. QED
        BY SubChosen
  <2> HIDE DEF new, old, item
  <2>5. /\ DOMAIN Updated(old, new) = DOMAIN old \cup DOMAIN new
        /\ \A k \in DOMAIN old \cup DOMAIN new :
             Updated(old, new)[k] = IF k \in DOMAIN new THEN new[k] ELSE old[k]
      BY UpdatedIs
  <2>6. ItemShown(x, item)
      BY <1>3, <2>1, <2>4, <2>5 DEF ItemShown
  <2>7. QED
      BY <2>3, <2>6 DEF x, item
<1>4. CASE f = "hostname"
  <2> DEFINE new == [c \in {f} |-> One(item)]
  <2>1. x = Updated(e, new)
      BY <1>4 DEF IsComplex, SingleRow, x
  <2>2. DOMAIN new = {f} /\ new[f] = One(item)
      OBVIOUS
  <2> HIDE DEF new, item
  <2>3. /\ DOMAIN Updated(e, new) = DOMAIN e \cup DOMAIN new
        /\ \A k \in DOMAIN e \cup DOMAIN new :
             Updated(e, new)[k] = IF k \in DOMAIN new THEN new[k] ELSE e[k]
      BY UpdatedIs
  <2>4. ~ExplodesIt
      BY <1>4 DEF ExplodesIt
  <2>5. FromRow(e, x)
      BY <1>1, <2>1, <2>2, <2>3, <2>4 DEF FromRow
  <2>6. x[f].of = <<item>> /\ f \in DOMAIN x
      BY <2>1, <2>2, <2>3, OneIsValue
  <2>7. ItemShown(x, item)
      BY <1>4, <2>6 DEF ItemShown
  <2>8. QED
      BY <2>5, <2>7 DEF x, item
<1>5. QED
    BY <1>3, <1>4

\* One row for each item, or one: what they show, and what they have of the row.
LEMMA PerItemShows ==
    ASSUME CallGiven, NEW e, Holds(e)
    PROVE  LET f == shapeArgs.field_explode
               items == ItemsOf(e, f)
               r == PerItem(e)
           IN  /\ f = "" \/ Excluded(f) => Len(r) = 1
               /\ ~(f = "" \/ Excluded(f)) =>
                    /\ Len(items) <= 1 => Len(r) = 1
                    /\ Len(items) > 1 => Len(r) = Len(items)
                    /\ \A n \in DOMAIN items : ItemShown(r[n], items[n])
               /\ \A n \in 1..Len(r) : FromRow(e, r[n])
<1> DEFINE f == shapeArgs.field_explode
           items == ItemsOf(e, f)
           many == [n \in DOMAIN items |-> SingleRow(e, f, n)]
           r == PerItem(e)
<1>1. r = IF f = "" \/ Excluded(f) THEN <<e>>
          ELSE IF Len(items) > 1 THEN many
          ELSE IF IsComplex(f) THEN <<FlatRow(e, f)>>
          ELSE <<e>>
    BY DEF PerItem, PerItemAbove, SingleRow
<1> HIDE DEF r
<1>2. ~ExplodesIt => FromRow(e, e)
    BY DEF FromRow
<1>3. ASSUME NEW x, r = <<x>>
      PROVE  Len(r) = 1 /\ r[1] = x /\ \A n \in 1..Len(r) : n = 1
  <2>1. Len(<<x>>) = 1 /\ <<x>>[1] = x
      OBVIOUS
  <2>2. Len(r) = 1 /\ r[1] = x
      BY <1>3, <2>1
  <2>3. \A n \in 1..1 : n = 1
      OBVIOUS
  <2>4. QED
      BY <2>2, <2>3
<1>4. CASE f = "" \/ Excluded(f)
  <2>1. r = <<e>> /\ ~ExplodesIt
      BY <1>1, <1>4 DEF ExplodesIt
  <2>2. Len(r) = 1 /\ r[1] = e /\ \A n \in 1..Len(r) : n = 1
      BY <1>3, <2>1
  <2>3. \A n \in 1..Len(r) : FromRow(e, r[n])
      BY <1>2, <2>1, <2>2
  <2>4. QED
      BY <1>4, <2>2, <2>3 DEF r
<1>5. CASE ~(f = "" \/ Excluded(f))
  <2>1. f \in {"hostname", "software"} /\ ~Excluded(f)
      BY <1>5 DEF CallGiven
  <2>2. items \in Seq(Range(items))
      BY <2>1, ItemsAre
  <2>3. Len(items) \in Nat /\ DOMAIN items = 1..Len(items)
    <3> HIDE DEF items
    <3>1. QED
        BY <2>2
  <2>4. CASE Len(items) > 1
    <3>1. r = many
        BY <1>1, <1>5, <2>4
    <3>2. ASSUME NEW n \in DOMAIN items
          PROVE  FromRow(e, many[n]) /\ ItemShown(many[n], items[n])
      <4>1. many[n] = SingleRow(e, f, n)
          OBVIOUS
      <4>2. FromRow(e, SingleRow(e, f, n)) /\ ItemShown(SingleRow(e, f, n), items[n])
          BY <2>1, SingleShows
      <4>3. QED
          BY <4>1, <4>2
    <3>3. DOMAIN many = DOMAIN items /\ many = [n \in DOMAIN many |-> many[n]]
        OBVIOUS
    <3> HIDE DEF many, items
    <3>4. Len(many) = Len(items)
        BY <2>2, <3>3, MappedSeq
    <3>5. Len(r) = Len(items)
        BY <3>1, <3>4
    <3>9. ~(Len(items) <= 1)
        BY <2>3, <2>4
    <3>6. \A n \in 1..Len(r) : FromRow(e, r[n])
        BY <2>3, <3>1, <3>2, <3>5
    <3>7. \A n \in DOMAIN items : ItemShown(r[n], items[n])
        BY <3>1, <3>2
    <3>8. QED
        BY <1>5, <3>5, <3>6, <3>7, <3>9 DEF r, items
  <2>5. CASE ~(Len(items) > 1) /\ f = "software"
    <3> DEFINE x == FlatRow(e, "software")
    <3>1. r = <<x>> /\ ExplodesIt
        BY <1>1, <1>5, <2>5 DEF IsComplex, ExplodesIt
    <3>2. FromRow(e, x)
        BY <3>1, FlatRowIs, SplitFromRow
    <3>3. ASSUME NEW n \in DOMAIN items
          PROVE  n = 1 /\ ItemShown(x, items[n])
      <4>1. n = 1 /\ Len(items) = 1
        <5> HIDE DEF items
        <5>1. QED
            BY <2>3, <2>5
      <4>2. ASSUME NEW s \in OpenSubs
            PROVE  SubField(s) \in DOMAIN x /\ x[SubField(s)].of = SubOf(items[n], s).of
        <5>1. SubField(s) \in DOMAIN x /\ x[SubField(s)].of = FlatColumn(items, s)
            BY <2>5, FlatRowShows
        <5>2. FlatColumn(items, s) = SubOf(items[1], s).of
            BY <2>5, <4>1, OneItemFlat
        <5>3. QED
            BY <4>1, <5>1, <5>2
      <4>3. QED
          BY <2>5, <4>1, <4>2 DEF ItemShown
    <3> HIDE DEF x, items
    <3>4. Len(r) = 1 /\ r[1] = x /\ \A n \in 1..Len(r) : n = 1
        BY <1>3, <3>1
    <3>5. \A n \in 1..Len(r) : FromRow(e, r[n])
        BY <3>2, <3>4
    <3>6. \A n \in DOMAIN items : ItemShown(r[n], items[n])
        BY <3>3, <3>4
    <3>7. QED
        BY <1>5, <2>5, <3>4, <3>5, <3>6 DEF r, items
  <2>6. CASE ~(Len(items) > 1) /\ f = "hostname"
    <3>1. r = <<e>> /\ ~ExplodesIt
        BY <1>1, <1>5, <2>6 DEF IsComplex, ExplodesIt
    <3>2. Len(r) = 1 /\ r[1] = e /\ \A n \in 1..Len(r) : n = 1
        BY <1>3, <3>1
    <3>3. ASSUME NEW n \in DOMAIN items
          PROVE  n = 1 /\ ItemShown(e, items[n])
      <4>1. n = 1 /\ Len(items) = 1
        <5> HIDE DEF items
        <5>1. QED
            BY <2>3, <2>6
      <4>2. "hostname" \in DOMAIN e /\ e["hostname"].of = items
        <5>1. items # << >>
          <6> HIDE DEF items
          <6>1. Len(<< >>) = 0
              OBVIOUS
          <6>2. QED
              BY <4>1, <6>1
        <5>2. QED
            BY <2>6, <5>1 DEF ItemsOf
      <4>3. items = <<items[1]>>
        <5> HIDE DEF items
        <5>1. QED
            BY <2>2, <4>1
      <4>4. QED
          BY <2>6, <4>1, <4>2, <4>3 DEF ItemShown
    <3> HIDE DEF items
    <3>4. \A n \in 1..Len(r) : FromRow(e, r[n])
        BY <1>2, <3>1, <3>2
    <3>5. \A n \in DOMAIN items : ItemShown(r[n], items[n])
        BY <3>2, <3>3
    <3>6. QED
        BY <1>5, <2>6, <3>2, <3>4, <3>5 DEF r, items
  <2>7. QED
      BY <2>1, <2>4, <2>5, <2>6
<1>6. QED
    BY <1>4, <1>5

LEMMA ExplodeApart ==
    ASSUME CallGiven
    PROVE  /\ shapeArgs.field_explode # "adapters" /\ "adapters" \notin SubKeys
           /\ shapeArgs.field_explode \notin SubKeys
<1>1. "adapters" \notin SubKeys /\ "hostname" \notin SubKeys /\ "software" \notin SubKeys
    BY SubKeysApart
<1>2. "" \notin SubKeys
    BY TextsAssumption DEF SubKeys, OpenSubs, Subs
<1>3. QED
    BY <1>1, <1>2 DEF CallGiven

\* What a row shows of its source, by the names of the fields.
FieldsShown(x, source, n, sel) ==
    /\ shapeArgs.explode_entities =>
          "adapters" \in DOMAIN x /\ x["adapters"].of = <<source.adapter>>
    /\ n \in DOMAIN ItemsFor(source) => ItemShown(x, ItemsFor(source)[n])
    /\ FlattensIt(sel) =>
          \A s \in OpenSubs :
             SubField(s) \in DOMAIN x /\ InOrder(x[SubField(s)].of, source.software, s)

LEMMA SourceItems ==
    ASSUME CallGiven, NEW source
    PROVE  /\ shapeArgs.field_explode = "" \/ Excluded(shapeArgs.field_explode)
                => ItemsFor(source) = << >>
           /\ ~(shapeArgs.field_explode = "" \/ Excluded(shapeArgs.field_explode)) =>
                \/ /\ shapeArgs.field_explode = "hostname" /\ "hostname" \notin excludes
                   /\ ItemsFor(source) = source.hostname
                \/ /\ shapeArgs.field_explode = "software" /\ "software" \notin excludes
                   /\ ItemsFor(source) = source.software
BY DEF ItemsFor, CallGiven, Excluded

\* After do_flatten.
LEMMA FlattenedKnows ==
    ASSUME NEW sel, NEW e, Holds(e)
    PROVE  LET b == Flattened(e, sel)
           IN  /\ Holds(b)
               /\ ItemsOf(b, "hostname") = ItemsOf(e, "hostname")
               /\ "adapters" \in DOMAIN e => "adapters" \in DOMAIN b /\ b["adapters"] = e["adapters"]
               /\ ~FlattensIt(sel) => b = e
               /\ FlattensIt(sel) => \A s \in OpenSubs :
                     /\ SubField(s) \in DOMAIN b
                     /\ b[SubField(s)].of = FlatColumn(ItemsOf(e, "software"), s)
<1> DEFINE b == Flattened(e, sel)
<1>1. /\ Holds(b)
      /\ FlattensIt(sel) => Splits(e, b)
      /\ ~FlattensIt(sel) => b = e
    BY FlattenedIs
<1>2. FlattensIt(sel) => b = FlatRow(e, "software")
    BY DEF Flattened, FlattensIt
<1> HIDE DEF b
<1>3. FlattensIt(sel) => \A s \in OpenSubs :
         /\ SubField(s) \in DOMAIN b
         /\ b[SubField(s)].of = FlatColumn(ItemsOf(e, "software"), s)
    BY <1>2, FlatRowShows
<1>4. \A k \in {"adapters", "hostname"} : /\ k \in DOMAIN b <=> k \in DOMAIN e
                                          /\ k \in DOMAIN e => b[k] = e[k]
    BY <1>1, SubKeysApart DEF Splits
<1>5. ItemsOf(b, "hostname") = ItemsOf(e, "hostname")
    BY <1>4 DEF ItemsOf
<1>6. QED
    BY <1>1, <1>3, <1>4, <1>5 DEF b

LEMMA OneOrMore ==
    ASSUME NEW a \in Nat, NEW b, a # 0, a <= 1 => b = 1, a > 1 => b = a
    PROVE  b = a
OBVIOUS

\* How many rows a source has.
LEMMA RowsForIs ==
    ASSUME CallGiven, NEW b, Holds(b), NEW source,
           source.software \in Seq(Range(source.software)),
           shapeArgs.field_explode = "hostname" /\ "hostname" \notin excludes =>
              \/ ItemsOf(b, "hostname") = source.hostname
              \/ source.hostname = << >> /\ Len(ItemsOf(b, "hostname")) <= 1,
           shapeArgs.field_explode = "software" /\ "software" \notin excludes =>
              SameSubs(ItemsOf(b, "software"), source.software)
    PROVE  /\ Len(PerItem(b)) = RowsFor(source)
           /\ \A n \in DOMAIN ItemsFor(source) : ItemShown(PerItem(b)[n], ItemsFor(source)[n])
<1> DEFINE f == shapeArgs.field_explode
           own == ItemsOf(b, f)
           r == PerItem(b)
           items == ItemsFor(source)
<1>1. /\ f = "" \/ Excluded(f) => Len(r) = 1
      /\ ~(f = "" \/ Excluded(f)) =>
            /\ Len(own) <= 1 => Len(r) = 1
            /\ Len(own) > 1 => Len(r) = Len(own)
            /\ \A n \in DOMAIN own : ItemShown(r[n], own[n])
    BY PerItemShows
<1>2. RowsFor(source) = IF items = << >> THEN 1 ELSE Len(items)
    BY DEF RowsFor
<1>3. DOMAIN << >> = {} /\ Len(<< >>) = 0
    OBVIOUS
<1>4. CASE f = "" \/ Excluded(f)
  <2>1. items = << >>
      BY <1>4, SourceItems
  <2>2. QED
      BY <1>1, <1>2, <1>3, <1>4, <2>1
<1>5. CASE ~(f = "" \/ Excluded(f)) /\ f = "hostname"
  <2>1. "hostname" \notin excludes /\ items = source.hostname
      BY <1>5, SourceItems
  <2>2. own \in Seq(Range(own))
      BY <1>5, ItemsAre
  <2>3. \/ own = items
        \/ items = << >> /\ Len(own) <= 1
      BY <1>5, <2>1
  <2>4. /\ Len(own) <= 1 => Len(r) = 1
        /\ Len(own) > 1 => Len(r) = Len(own)
        /\ \A n \in DOMAIN own : ItemShown(r[n], own[n])
      BY <1>1, <1>5
  <2> HIDE DEF own, items, r
  <2>5. Len(own) \in Nat /\ (Len(own) = 0 => own = << >>)
      BY <2>2
  <2>6. CASE own = items
    <3>1. Len(r) = RowsFor(source)
      <4>1. CASE items = << >>
        <5>1. Len(own) = 0
            BY <1>3, <2>6, <4>1
        <5>2. QED
            BY <1>2, <2>4, <4>1, <5>1
      <4>2. CASE items # << >>
        <5>1. Len(own) # 0 /\ RowsFor(source) = Len(own)
            BY <1>2, <2>5, <2>6, <4>2
        <5>2. Len(own) \in Nat /\ (Len(own) <= 1 => Len(r) = 1) /\ (Len(own) > 1 => Len(r) = Len(own))
            BY <2>4, <2>5
        <5>3. Len(r) = Len(own)
            BY <5>1, <5>2, OneOrMore
        <5>4. QED
            BY <5>1, <5>3
      <4>3. QED
          BY <4>1, <4>2
    <3>2. QED
        BY <2>4, <2>6, <3>1 DEF items, r
  <2>7. CASE items = << >> /\ Len(own) <= 1
      BY <1>2, <1>3, <2>4, <2>7 DEF items, r
  <2>8. QED
      BY <2>3, <2>6, <2>7
<1>6. CASE ~(f = "" \/ Excluded(f)) /\ f = "software"
  <2>1. "software" \notin excludes /\ items = source.software
      BY <1>6, SourceItems
  <2>2. SameSubs(own, items) /\ items \in Seq(Range(items))
      BY <1>6, <2>1
  <2>3. /\ Len(own) <= 1 => Len(r) = 1
        /\ Len(own) > 1 => Len(r) = Len(own)
        /\ \A n \in DOMAIN own : ItemShown(r[n], own[n])
      BY <1>1, <1>6
  <2>4. \A n \in DOMAIN own : ItemShown(r[n], items[n])
      BY <1>6, <2>2, <2>3 DEF ItemShown, SameSubs
  <2> HIDE DEF own, items, r
  <2>5. Len(items) \in Nat /\ (Len(items) = 0 => items = << >>)
      BY <2>2
  <2>6. DOMAIN own = DOMAIN items /\ Len(own) = Len(items)
      BY <2>2 DEF SameSubs
  <2>7. Len(r) = RowsFor(source)
      BY <1>2, <1>3, <2>3, <2>5, <2>6
  <2>8. QED
      BY <2>4, <2>6, <2>7 DEF items, r
<1>7. QED
    BY <1>4, <1>5, <1>6, SourceItems

\* The rows of one source.
LEMMA BlockIs ==
    ASSUME CallGiven, NEW sel, NEW e, Holds(e), NEW source, Known(e, source)
    PROVE  LET b == Flattened(e, sel)
               r == PerItem(b)
           IN  /\ Len(r) = RowsFor(source)
               /\ \A n \in 1..Len(r) : FieldsShown(r[n], source, n, sel) /\ FromRow(b, r[n])
<1> DEFINE b == Flattened(e, sel)
           r == PerItem(b)
<1>1. /\ Holds(b)
      /\ ItemsOf(b, "hostname") = ItemsOf(e, "hostname")
      /\ "adapters" \in DOMAIN e => "adapters" \in DOMAIN b /\ b["adapters"] = e["adapters"]
      /\ ~FlattensIt(sel) => b = e
      /\ FlattensIt(sel) => \A s \in OpenSubs :
            /\ SubField(s) \in DOMAIN b
            /\ b[SubField(s)].of = FlatColumn(ItemsOf(e, "software"), s)
    BY FlattenedKnows
<1> HIDE DEF b
<1>2. shapeArgs.field_explode = "software" => b = e
    BY <1>1 DEF FlattensIt
<1>3. /\ Len(r) = RowsFor(source)
      /\ \A n \in DOMAIN ItemsFor(source) : ItemShown(r[n], ItemsFor(source)[n])
    BY <1>1, <1>2, RowsForIs DEF Known
<1>4. \A n \in 1..Len(r) : FromRow(b, r[n])
    BY <1>1, PerItemShows
<1> HIDE DEF r
<1>5. ASSUME NEW n \in 1..Len(r)
      PROVE  FieldsShown(r[n], source, n, sel)
  <2> DEFINE x == r[n]
  <2>1. FromRow(b, x)
      BY <1>4
  <2>2. n \in DOMAIN ItemsFor(source) => ItemShown(x, ItemsFor(source)[n])
      BY <1>3
  <2> HIDE DEF x
  <2>3. shapeArgs.explode_entities => "adapters" \in DOMAIN x /\ x["adapters"].of = <<source.adapter>>
    <3>1. "adapters" \in DOMAIN b => "adapters" \in DOMAIN x /\ x["adapters"] = b["adapters"]
        BY <2>1, ExplodeApart DEF FromRow
    <3>2. shapeArgs.explode_entities =>
            "adapters" \in DOMAIN e /\ e["adapters"].of = <<source.adapter>>
        BY DEF Known
    <3>3. QED
        BY <1>1, <3>1, <3>2
  <2>4. ASSUME FlattensIt(sel), NEW s \in OpenSubs
        PROVE  SubField(s) \in DOMAIN x /\ InOrder(x[SubField(s)].of, source.software, s)
    <3>1. SameSubs(ItemsOf(e, "software"), source.software)
        BY <2>4 DEF Known, FlattensIt, Excluded
    <3>2. InOrder(FlatColumn(ItemsOf(e, "software"), s), source.software, s)
        BY <2>4, <3>1, ColumnInOrder
    <3>3. ~ExplodesIt
        BY <2>4 DEF FlattensIt, ExplodesIt
    <3>4. SubField(s) # shapeArgs.field_explode
        BY ExplodeApart DEF SubKeys
    <3>5. SubField(s) \in DOMAIN x /\ x[SubField(s)] = b[SubField(s)]
        BY <1>1, <2>1, <2>4, <3>3, <3>4 DEF FromRow
    <3>6. QED
        BY <1>1, <2>4, <3>2, <3>5
  <2>5. FieldsShown(x, source, n, sel)
      BY <2>2, <2>3, <2>4 DEF FieldsShown
  <2>6. QED
      BY <2>5 DEF x
<1>6. QED
    BY <1>3, <1>4, <1>5 DEF b, r

\* Rows of one source, alike but for what they have of their items.
Alike(x, y, sel) ==
    /\ DOMAIN x = DOMAIN y
    /\ \A k \in DOMAIN x : x[k] = y[k] \/ k \in OwnKeys \cap FinalFields(sel)

LEMMA RowsAlike ==
    ASSUME CallGiven, NEW sel, SchemasOK(sel), ~NotFound(sel), NEW b, NEW x, NEW y,
           FromRow(b, x), FromRow(b, y),
           shapeArgs.field_explode = "" \/ Excluded(shapeArgs.field_explode) => x = y
    PROVE  Alike(x, y, sel)
<1>1. CASE shapeArgs.field_explode = "" \/ Excluded(shapeArgs.field_explode)
    BY <1>1 DEF Alike
<1>2. CASE shapeArgs.field_explode = "hostname" /\ ~Excluded("hostname")
  <2>1. ~ExplodesIt
      BY <1>2 DEF ExplodesIt
  <2>2. DOMAIN x = DOMAIN y /\ \A k \in DOMAIN x : k # "hostname" => x[k] = y[k]
      BY <1>2, <2>1 DEF FromRow
  <2>3. "hostname" \in sel
      BY <1>2 DEF NotFound
  <2>4. ~IsDetails("hostname")
      BY TextsAssumption DEF IsDetails, EntityInfo
  <2>5. "hostname" \in Kept(sel)
      BY <1>2, <2>3, <2>4 DEF Kept
  <2>6. "hostname" \in FinalFields(sel)
      BY <2>5, FinalIs
  <2>7. QED
      BY <1>2, <2>2, <2>6 DEF Alike, OwnKeys
<1>3. CASE shapeArgs.field_explode = "software" /\ ~Excluded("software")
  <2>1. ExplodesIt
      BY <1>3 DEF ExplodesIt
  <2>2. SubKeys \subseteq FinalFields(sel)
      BY <2>1, FinalIs DEF SplitIt
  <2>3. DOMAIN x = (DOMAIN b \ {"software"}) \cup SubKeys /\ DOMAIN y = DOMAIN x
      BY <2>1 DEF FromRow
  <2>4. \A k \in DOMAIN x : k \notin SubKeys => x[k] = y[k]
      BY <1>3, <2>1, <2>3 DEF FromRow
  <2>5. QED
      BY <2>2, <2>3, <2>4 DEF Alike, OwnKeys
<1>4. QED
    BY <1>1, <1>2, <1>3 DEF CallGiven

LEMMA JoinedKeeps ==
    ASSUME NEW x
    PROVE  /\ DOMAIN Joined(x) = DOMAIN x
           /\ \A k \in DOMAIN x : IsValue(x[k]) => Joined(x)[k].of = x[k].of
           /\ \A y, k : k \in DOMAIN x /\ k \in DOMAIN y /\ x[k] = y[k] => Joined(x)[k] = Joined(y)[k]
<1>1. CASE shapeArgs.field_join
  <2>1. \A y : Joined(y) = [k \in DOMAIN y |-> [y[k] EXCEPT !.list = FALSE]]
      BY <1>1 DEF Joined, JoinedAll
  <2>2. ASSUME NEW k \in DOMAIN x, IsValue(x[k])
        PROVE  Joined(x)[k].of = x[k].of
    <3>1. x[k] = [list |-> x[k].list, of |-> x[k].of]
        BY <2>2 DEF IsValue
    <3>2. Joined(x)[k] = [x[k] EXCEPT !.list = FALSE]
        BY <2>1
    <3>3. QED
        BY <3>1, <3>2
  <2>3. ASSUME NEW y, NEW k, k \in DOMAIN x, k \in DOMAIN y, x[k] = y[k]
        PROVE  Joined(x)[k] = Joined(y)[k]
    <3>1. Joined(x)[k] = [x[k] EXCEPT !.list = FALSE]
        BY <2>1, <2>3
    <3>2. Joined(y)[k] = [y[k] EXCEPT !.list = FALSE]
        BY <2>1, <2>3
    <3>3. QED
        BY <2>3, <3>1, <3>2
  <2>4. DOMAIN Joined(x) = DOMAIN x
      BY <2>1
  <2>5. QED
      BY <2>2, <2>3, <2>4
<1>2. CASE ~shapeArgs.field_join
    BY <1>2 DEF Joined
<1>3. QED
    BY <1>1, <1>2

LEMMA FinalNames ==
    ASSUME NEW sel, sel \subseteq Names
    PROVE  SubKeys \subseteq Names /\ FinalFields(sel) \subseteq Names
<1>1. SubKeys \subseteq Names
    BY DEF SubKeys, OpenSubs, Names
<1>2. FinalFields(sel) \subseteq sel \cup SubKeys
    BY DEF FinalFields, SubKeys
<1>3. QED
    BY <1>1, <1>2

\* The row with its titles.
LEMMA TitlesAre ==
    ASSUME NEW j, NEW F, F \subseteq Names
    PROVE  LET m == TitledOver(j, F)
           IN  /\ DOMAIN m = (DOMAIN j \ F) \cup {Title(f) : f \in F}
               /\ \A f \in F : m[Title(f)] = IF f \in DOMAIN j THEN j[f]
                                             ELSE IF IsComplex(f) THEN List(<< >>) ELSE Null
               /\ \A k \in DOMAIN j \ F : k \notin {Title(f) : f \in F} => m[k] = j[k]
<1> DEFINE chosen(t) == CHOOSE g \in F : Title(g) = t
           value(t) == IF chosen(t) \in DOMAIN j THEN j[chosen(t)]
                       ELSE IF IsComplex(chosen(t)) THEN List(<< >>) ELSE Null
           old == Without(j, F)
           new == [t \in {Title(f) : f \in F} |-> value(t)]
           m == TitledOver(j, F)
<1>1. m = Updated(old, new)
    BY DEF TitledOver
<1>2. DOMAIN old = DOMAIN j \ F /\ \A k \in DOMAIN old : old[k] = j[k]
    BY DEF Without, Restrict
<1>3. ASSUME NEW f \in F
      PROVE  chosen(Title(f)) = f
  <2>1. chosen(Title(f)) \in F /\ Title(chosen(Title(f))) = Title(f)
      OBVIOUS
  <2>2. QED
      BY <2>1, NamesAssumption
<1>4. /\ DOMAIN new = {Title(f) : f \in F}
      /\ \A f \in F : new[Title(f)] = value(Title(f))
    OBVIOUS
<1> HIDE DEF chosen, new, old, m
<1>5. /\ DOMAIN Updated(old, new) = DOMAIN old \cup DOMAIN new
      /\ \A k \in DOMAIN old \cup DOMAIN new :
           Updated(old, new)[k] = IF k \in DOMAIN new THEN new[k] ELSE old[k]
    BY UpdatedIs
<1>6. \A f \in F : m[Title(f)] = IF f \in DOMAIN j THEN j[f]
                                 ELSE IF IsComplex(f) THEN List(<< >>) ELSE Null
    BY <1>1, <1>3, <1>4, <1>5
<1>7. DOMAIN m = (DOMAIN j \ F) \cup {Title(f) : f \in F}
    BY <1>1, <1>2, <1>4, <1>5
<1>8. \A k \in DOMAIN j \ F : k \notin {Title(f) : f \in F} => m[k] = j[k]
    BY <1>1, <1>2, <1>4, <1>5
<1>9. QED
    BY <1>6, <1>7, <1>8 DEF m

LEMMA ShortsAre ==
    ASSUME NEW j, DOMAIN j \subseteq Names
    PROVE  /\ DOMAIN Shortened(j) = {Renamed(f) : f \in DOMAIN j}
           /\ \A f \in DOMAIN j : Shortened(j)[Renamed(f)] = j[f]
<1> DEFINE chosen(t) == CHOOSE g \in DOMAIN j : Renamed(g) = t
<1>1. ASSUME NEW f \in DOMAIN j
      PROVE  chosen(Renamed(f)) = f
  <2>1. chosen(Renamed(f)) \in DOMAIN j /\ Renamed(chosen(Renamed(f))) = Renamed(f)
      OBVIOUS
  <2>2. QED
      BY <2>1, NamesAssumption
<1>2. Shortened(j) = [k \in {Renamed(f) : f \in DOMAIN j} |-> j[chosen(k)]]
    BY DEF Shortened
<1> HIDE DEF chosen
<1>3. QED
    BY <1>1, <1>2

\* A field's value is that of its column, in the end.
LEMMA NamedKeeps ==
    ASSUME NEW x, DOMAIN x \subseteq Names, NEW sel, sel \subseteq Names,
           NEW k \in DOMAIN x, k \in FinalFields(sel), IsValue(x[k])
    PROVE  Named(Joined(x), sel)[ColumnOf(k)].of = x[k].of
<1> DEFINE j == Joined(x)
           F == FinalFields(sel)
           m == Named(j, sel)
<1>1. DOMAIN j = DOMAIN x /\ j[k].of = x[k].of
    BY JoinedKeeps
<1>2. F \subseteq Names
    BY FinalNames
<1> HIDE DEF j, F
<1>3. CASE shapeArgs.naming = "titles"
  <2>1. m = TitledOver(j, F) /\ ColumnOf(k) = Title(k)
      BY <1>3 DEF Named, NamedOver, F, ColumnOf
  <2> HIDE DEF m
  <2>2. m[Title(k)] = j[k]
      BY <1>1, <1>2, <2>1, TitlesAre DEF F
  <2>3. QED
      BY <1>1, <2>1, <2>2 DEF m, j
<1>4. CASE shapeArgs.naming = "short"
  <2>1. m = Shortened(j) /\ ColumnOf(k) = Renamed(k)
      BY <1>4 DEF Named, NamedOver, ColumnOf
  <2> HIDE DEF m
  <2>2. m[Renamed(k)] = j[k]
      BY <1>1, <2>1, ShortsAre
  <2>3. QED
      BY <1>1, <2>1, <2>2 DEF m, j
<1>5. CASE shapeArgs.naming \notin {"titles", "short"}
  <2>1. m = j /\ ColumnOf(k) = k
      BY <1>5 DEF Named, NamedOver, ColumnOf
  <2>2. QED
      BY <1>1, <2>1 DEF m, j
<1>6. QED
    BY <1>3, <1>4, <1>5

LEMMA WithoutSame ==
    ASSUME NEW m, NEW n, NEW K, DOMAIN m = DOMAIN n, \A k \in DOMAIN m : k \notin K => m[k] = n[k]
    PROVE  Without(m, K) = Without(n, K)
BY DEF Without, Restrict

\* Rows that are alike have columns that are.
LEMMA NamedAlike ==
    ASSUME NEW x, NEW y, NEW sel, Alike(x, y, sel), DOMAIN x \subseteq Names, sel \subseteq Names
    PROVE  Without(Named(Joined(x), sel), OwnColumns) = Without(Named(Joined(y), sel), OwnColumns)
<1> DEFINE i == Joined(x)
           j == Joined(y)
           F == FinalFields(sel)
           m == Named(i, sel)
           n == Named(j, sel)
<1>1. /\ DOMAIN i = DOMAIN x /\ DOMAIN j = DOMAIN x
      /\ \A k \in DOMAIN x : i[k] = j[k] \/ k \in OwnKeys \cap F
    BY JoinedKeeps DEF Alike
<1>2. F \subseteq Names
    BY FinalNames
<1>3. \A k \in OwnKeys : ColumnOf(k) \in OwnColumns
    BY DEF OwnKeys, OwnColumns, SubKeys
<1> HIDE DEF i, j, F
<1>4. CASE shapeArgs.naming = "titles"
  <2>1. m = TitledOver(i, F) /\ n = TitledOver(j, F) /\ \A k : ColumnOf(k) = Title(k)
      BY <1>4 DEF Named, NamedOver, F, ColumnOf
  <2> HIDE DEF m, n
  <2>2. /\ DOMAIN m = (DOMAIN i \ F) \cup {Title(f) : f \in F}
        /\ \A f \in F : m[Title(f)] = IF f \in DOMAIN i THEN i[f]
                                      ELSE IF IsComplex(f) THEN List(<< >>) ELSE Null
        /\ \A k \in DOMAIN i \ F : k \notin {Title(f) : f \in F} => m[k] = i[k]
    <3> DEFINE t == TitledOver(i, F)
    <3>1. /\ DOMAIN t = (DOMAIN i \ F) \cup {Title(f) : f \in F}
          /\ \A f \in F : t[Title(f)] = IF f \in DOMAIN i THEN i[f]
                                        ELSE IF IsComplex(f) THEN List(<< >>) ELSE Null
          /\ \A k \in DOMAIN i \ F : k \notin {Title(f) : f \in F} => t[k] = i[k]
        BY <1>2, TitlesAre
    <3>2. m = t
        BY <2>1
    <3> HIDE DEF t
    <3>3. QED
        BY <3>1, <3>2
  <2>3. /\ DOMAIN n = (DOMAIN j \ F) \cup {Title(f) : f \in F}
        /\ \A f \in F : n[Title(f)] = IF f \in DOMAIN j THEN j[f]
                                      ELSE IF IsComplex(f) THEN List(<< >>) ELSE Null
        /\ \A k \in DOMAIN j \ F : k \notin {Title(f) : f \in F} => n[k] = j[k]
    <3> DEFINE t == TitledOver(j, F)
    <3>1. /\ DOMAIN t = (DOMAIN j \ F) \cup {Title(f) : f \in F}
          /\ \A f \in F : t[Title(f)] = IF f \in DOMAIN j THEN j[f]
                                        ELSE IF IsComplex(f) THEN List(<< >>) ELSE Null
          /\ \A k \in DOMAIN j \ F : k \notin {Title(f) : f \in F} => t[k] = j[k]
        BY <1>2, TitlesAre
    <3>2. n = t
        BY <2>1
    <3> HIDE DEF t
    <3>3. QED
        BY <3>1, <3>2
  <2>4. ASSUME NEW k \in DOMAIN m, k \notin OwnColumns
        PROVE  m[k] = n[k]
    <3>1. CASE k \in {Title(f) : f \in F}
      <4>1. PICK f \in F : k = Title(f)
          BY <3>1
      <4>2. f \notin OwnKeys
          BY <1>3, <2>1, <2>4, <4>1
      <4>3. f \in DOMAIN x => i[f] = j[f]
          BY <1>1, <4>2
      <4>4. QED
          BY <1>1, <2>2, <2>3, <4>1, <4>3
    <3>2. CASE k \notin {Title(f) : f \in F}
        BY <1>1, <2>2, <2>3, <3>2
    <3>3. QED
        BY <3>1, <3>2
  <2>5. DOMAIN m = DOMAIN n
      BY <1>1, <2>2, <2>3
  <2>6. Without(m, OwnColumns) = Without(n, OwnColumns)
      BY <2>4, <2>5, WithoutSame
  <2>7. QED
      BY <2>6 DEF m, n, i, j
<1>5. CASE shapeArgs.naming = "short"
  <2>1. m = Shortened(i) /\ n = Shortened(j) /\ \A k : ColumnOf(k) = Renamed(k)
      BY <1>5 DEF Named, NamedOver, ColumnOf
  <2> HIDE DEF m, n
  <2>2. /\ DOMAIN m = {Renamed(f) : f \in DOMAIN i}
        /\ \A f \in DOMAIN i : m[Renamed(f)] = i[f]
      BY <1>1, <2>1, ShortsAre
  <2>3. /\ DOMAIN n = {Renamed(f) : f \in DOMAIN j}
        /\ \A f \in DOMAIN j : n[Renamed(f)] = j[f]
      BY <1>1, <2>1, ShortsAre
  <2>4. ASSUME NEW k \in DOMAIN m, k \notin OwnColumns
        PROVE  m[k] = n[k]
    <3>1. PICK f \in DOMAIN i : k = Renamed(f)
        BY <2>2
    <3>2. f \notin OwnKeys
        BY <1>3, <2>1, <2>4, <3>1
    <3>3. QED
        BY <1>1, <2>2, <2>3, <3>1, <3>2
  <2>5. DOMAIN m = DOMAIN n
      BY <1>1, <2>2, <2>3
  <2>6. Without(m, OwnColumns) = Without(n, OwnColumns)
      BY <2>4, <2>5, WithoutSame
  <2>7. QED
      BY <2>6 DEF m, n, i, j
<1>6. CASE shapeArgs.naming \notin {"titles", "short"}
  <2>1. m = i /\ n = j /\ \A k : ColumnOf(k) = k
      BY <1>6 DEF Named, NamedOver, ColumnOf
  <2> HIDE DEF m, n
  <2>2. \A k \in DOMAIN m : k \notin OwnColumns => m[k] = n[k]
      BY <1>1, <1>3, <2>1
  <2>3. DOMAIN m = DOMAIN n
      BY <1>1, <2>1
  <2>4. Without(m, OwnColumns) = Without(n, OwnColumns)
      BY <2>2, <2>3, WithoutSame
  <2>5. QED
      BY <2>4 DEF m, n, i, j
<1>7. QED
    BY <1>4, <1>5, <1>6

\* The keys of a row on its way are names.
LEMMA EntityNamed ==
    ASSUME CallGiven, NEW row, NEW sel, Came(row), SchemasOK(sel), Full(row, sel),
           shapeArgs.explode_entities, NEW n
    PROVE  DOMAIN EntityOf(Clean(row, sel), n) \subseteq Names
<1> DEFINE c == Clean(row, sel)
           about == {d \in DOMAIN c : IsDetails(d) /\ n \in DOMAIN c[d].of}
           new == [k \in {PlainOf(d) : d \in about} \cup {"adapters"} |->
                    IF k = "adapters" THEN One(c.adapters.of[n])
                    ELSE IF k \in EntityInfo THEN c[k].of[n]
                    ELSE c[DetailsOf(k)].of[n]]
           old == Restrict(c, Passthru \cap DOMAIN c)
<1>1. /\ \A k \in DOMAIN c : k \in sel \ excludes \/ (k \in DOMAIN row /\ k \notin sel)
      /\ \A k \in DOMAIN c : IsDetails(k) => k \in DOMAIN row /\ c[k] = row[k]
    BY CleanIs
<1>2. include /\ DetailsExclude \subseteq excludes \cap sel
    BY DEF CallGiven, SchemasOK
<1>3. EntityOf(c, n) = Updated(old, new)
    BY DEF EntityOf
<1>4. DOMAIN old = Passthru \cap DOMAIN c
      /\ DOMAIN new = {PlainOf(d) : d \in about} \cup {"adapters"}
    BY DEF Restrict
<1> HIDE DEF c
<1>5. ASSUME NEW d \in about
      PROVE  PlainOf(d) \in Names
  <2>1. d \in DOMAIN c /\ IsDetails(d) /\ d \in DOMAIN row
      BY <1>1
  <2>2. d \notin DetailsExclude
      BY <1>1, <1>2, <2>1
  <2>3. PlainOf(d) \in EntityInfo \cup shapeArgs.fields
      BY <2>1, <2>2, PlainIs
  <2>4. QED
      BY <2>3 DEF Names, CallGiven
<1>6. Passthru \cup {"adapters"} \subseteq Names
    BY DEF Names, ApiFields, Passthru
<1> HIDE DEF about, new, old
<1>7. DOMAIN Updated(old, new) = DOMAIN old \cup DOMAIN new
    BY UpdatedIs
<1>8. DOMAIN EntityOf(c, n) \subseteq Names
    BY <1>3, <1>4, <1>5, <1>6, <1>7
<1>9. QED
    BY <1>8 DEF c

LEMMA EntitiesNamed ==
    ASSUME CallGiven, NEW row, NEW sel, Came(row), SchemasOK(sel), Full(row, sel),
           NEW n \in DOMAIN PerEntity(Clean(row, sel))
    PROVE  DOMAIN PerEntity(Clean(row, sel))[n] \subseteq Names
<1> DEFINE c == Clean(row, sel)
<1>1. /\ Holds(c)
      /\ \A k \in DOMAIN c : k \in sel \ excludes \/ (k \in DOMAIN row /\ k \notin sel)
    BY CleanIs
<1> HIDE DEF c
<1>2. CASE shapeArgs.explode_entities
  <2>1. PerEntity(c)[n] = EntityOf(c, n)
      BY <1>1, <1>2, EntitiesAre DEF c
  <2>2. QED
      BY <1>2, <2>1, EntityNamed DEF c
<1>3. CASE ~shapeArgs.explode_entities
  <2>1. PerEntity(c) = <<c>>
      BY <1>1, <1>3, EntitiesAre
  <2>2. PerEntity(c)[n] = c
      BY <2>1 DEF c
  <2>3. DOMAIN c \subseteq Names
      BY <1>1 DEF Full
  <2>4. QED
      BY <2>2, <2>3 DEF c
<1>4. QED
    BY <1>2, <1>3

\* The keys of the rows that do_flatten and do_explode make of it.
LEMMA RowNamed ==
    ASSUME NEW e, Holds(e), DOMAIN e \subseteq Names, NEW sel, sel \subseteq Names,
           NEW x, FromRow(Flattened(e, sel), x)
    PROVE  DOMAIN x \subseteq Names
<1> DEFINE b == Flattened(e, sel)
<1>1. /\ FlattensIt(sel) => Splits(e, b)
      /\ ~FlattensIt(sel) => b = e
    BY FlattenedIs
<1> HIDE DEF b
<1>2. DOMAIN b \subseteq DOMAIN e \cup SubKeys
    BY <1>1 DEF Splits
<1>3. DOMAIN x \subseteq DOMAIN b \cup SubKeys
    BY DEF FromRow, b
<1>4. QED
    BY <1>2, <1>3, FinalNames

\* What is shown by the names of the fields is shown by those of the columns.
LEMMA FinalShows ==
    ASSUME CallGiven, NEW sel, SchemasOK(sel), ~NotFound(sel), sel \subseteq Names,
           "adapters" \notin excludes,
           NEW x, DOMAIN x \subseteq Names, \A k \in DOMAIN x : IsValue(x[k]),
           NEW source, NEW n, FieldsShown(x, source, n, sel)
    PROVE  /\ ShowsItem(Named(Joined(x), sel), source, n)
           /\ ColumnsAligned(Named(Joined(x), sel), source)
<1> DEFINE m == Named(Joined(x), sel)
           f == shapeArgs.field_explode
           items == ItemsFor(source)
<1>1. \A k \in DOMAIN x : k \in FinalFields(sel) => m[ColumnOf(k)].of = x[k].of
    BY NamedKeeps
<1> HIDE DEF m
<1>2. \A k \in {"adapters", "hostname"} : k \in sel /\ ~Excluded(k) => k \in FinalFields(sel)
  <2>1. \A k \in {"adapters", "hostname"} : ~IsDetails(k)
      BY TextsAssumption DEF IsDetails, EntityInfo
  <2>2. \A k \in {"adapters", "hostname"} : k \in sel /\ ~Excluded(k) => k \in Kept(sel)
      BY <2>1 DEF Kept
  <2>3. QED
      BY <2>2, FinalIs
<1>3. FlattensIt(sel) \/ ExplodesIt => \A s \in OpenSubs : SubField(s) \in FinalFields(sel)
    BY FinalIs DEF SplitIt, SubKeys
<1>4. shapeArgs.explode_entities => m[ColumnOf("adapters")].of = <<source.adapter>>
  <2>1. "adapters" \in FinalFields(sel)
      BY <1>2 DEF SchemasOK, ApiFields, Excluded
  <2>2. QED
      BY <1>1, <2>1 DEF FieldsShown
<1>5. ASSUME n \in DOMAIN items
      PROVE  IF f = "software"
             THEN \A s \in OpenSubs : m[ColumnOf(SubField(s))].of = SubOf(items[n], s).of
             ELSE m[ColumnOf(f)].of = <<items[n]>>
  <2>1. ItemShown(x, items[n])
      BY <1>5 DEF FieldsShown
  <2>2. ~(f = "" \/ Excluded(f))
    <3>1. DOMAIN << >> = {}
        OBVIOUS
    <3>2. QED
        BY <1>5, <3>1, SourceItems
  <2> HIDE DEF items
  <2>3. CASE f = "software"
    <3>1. ExplodesIt
        BY <2>2, <2>3 DEF ExplodesIt
    <3>2. \A s \in OpenSubs : SubField(s) \in DOMAIN x /\ x[SubField(s)].of = SubOf(items[n], s).of
        BY <2>1, <2>3 DEF ItemShown
    <3>3. QED
        BY <1>1, <1>3, <2>3, <3>1, <3>2
  <2>4. CASE f = "hostname"
    <3>1. "hostname" \in sel
        BY <2>4 DEF NotFound
    <3>2. "hostname" \in FinalFields(sel)
        BY <1>2, <2>2, <2>4, <3>1
    <3>3. "hostname" \in DOMAIN x /\ x["hostname"].of = <<items[n]>>
        BY <2>1, <2>4 DEF ItemShown
    <3>4. QED
        BY <1>1, <2>4, <3>2, <3>3
  <2>5. QED
      BY <2>2, <2>3, <2>4 DEF CallGiven
<1>6. ShowsItem(m, source, n)
    BY <1>4, <1>5 DEF ShowsItem
<1>7. ColumnsAligned(m, source)
  <2>1. SUFFICES ASSUME FlattensSoftware, NEW s \in OpenSubs
                 PROVE  InOrder(m[ColumnOf(SubField(s))].of, source.software, s)
      BY DEF ColumnsAligned, InOrder
  <2>2. FlattensIt(sel)
      BY <2>1 DEF FlattensSoftware, FlattensIt, SchemasOK
  <2>3. SubField(s) \in DOMAIN x /\ InOrder(x[SubField(s)].of, source.software, s)
      BY <2>1, <2>2 DEF FieldsShown
  <2>4. SubField(s) \in FinalFields(sel)
      BY <1>3, <2>1, <2>2
  <2>5. m[ColumnOf(SubField(s))].of = x[SubField(s)].of
      BY <1>1, <2>3, <2>4
  <2>6. QED
      BY <2>3, <2>5
<1>8. QED
    BY <1>6, <1>7 DEF m

\* The rows of one source: they show it, and are alike but for their items.
LEMMA BlockRows ==
    ASSUME CallGiven, NEW row, NEW sel, Came(row), SchemasOK(sel), Full(row, sel),
           ~NotFound(sel), "adapters" \notin excludes,
           NEW e, Fits(row, sel, e), DOMAIN e \subseteq Names, NEW source, Known(e, source)
    PROVE  LET r == PerItem(Flattened(e, sel))
           IN  /\ r \in Seq(Range(r)) /\ Len(r) = RowsFor(source)
               /\ \A k \in 1..Len(r) : /\ ShowsItem(Named(Joined(r[k]), sel), source, k)
                                       /\ ColumnsAligned(Named(Joined(r[k]), sel), source)
               /\ \A k, l \in 1..Len(r) : Without(Named(Joined(r[k]), sel), OwnColumns)
                                            = Without(Named(Joined(r[l]), sel), OwnColumns)
<1> DEFINE b == Flattened(e, sel)
           r == PerItem(b)
<1>1. Holds(e) /\ Holds(b) /\ sel \subseteq Names
    BY FlattenedIs DEF Fits, Full
<1>2. /\ Len(r) = RowsFor(source)
      /\ \A k \in 1..Len(r) : FieldsShown(r[k], source, k, sel) /\ FromRow(b, r[k])
    BY <1>1, BlockIs
<1>3. r \in Seq(Range(r)) /\ \A x \in Range(r) : Exploded(b, x)
    BY <1>1, PerItemIs DEF CallGiven
<1>4. shapeArgs.field_explode = "" \/ Excluded(shapeArgs.field_explode) => Len(r) = 1
    BY <1>1, PerItemShows
<1> HIDE DEF r
<1>5. \A k \in 1..Len(r) : r[k] \in Range(r)
    BY <1>3 DEF Range
<1>6. ASSUME NEW k \in 1..Len(r)
      PROVE  /\ DOMAIN r[k] \subseteq Names
             /\ \A j \in DOMAIN r[k] : IsValue(r[k][j])
  <2>1. FromRow(b, r[k]) /\ Exploded(b, r[k])
      BY <1>2, <1>3, <1>5
  <2>2. DOMAIN r[k] \subseteq Names
      BY <1>1, <2>1, RowNamed
  <2>3. Shaped(row, sel, r[k])
      BY <2>1, RowShaped
  <2>4. QED
      BY <2>2, <2>3 DEF Shaped
<1> HIDE DEF b
<1>7. ASSUME NEW k \in 1..Len(r)
      PROVE  /\ ShowsItem(Named(Joined(r[k]), sel), source, k)
             /\ ColumnsAligned(Named(Joined(r[k]), sel), source)
  <2> DEFINE x == r[k]
  <2>1. FieldsShown(x, source, k, sel)
      BY <1>2
  <2>2. DOMAIN x \subseteq Names /\ \A j \in DOMAIN x : IsValue(x[j])
      BY <1>6
  <2> HIDE DEF x
  <2>3. /\ ShowsItem(Named(Joined(x), sel), source, k)
        /\ ColumnsAligned(Named(Joined(x), sel), source)
      BY <1>1, <2>1, <2>2, FinalShows
  <2>4. QED
      BY <2>3 DEF x
<1>8. ASSUME NEW k \in 1..Len(r), NEW l \in 1..Len(r)
      PROVE  Without(Named(Joined(r[k]), sel), OwnColumns)
               = Without(Named(Joined(r[l]), sel), OwnColumns)
  <2> DEFINE x == r[k]
             y == r[l]
  <2>1. FromRow(b, x) /\ FromRow(b, y) /\ DOMAIN x \subseteq Names
      BY <1>2, <1>6
  <2>2. shapeArgs.field_explode = "" \/ Excluded(shapeArgs.field_explode) => x = y
    <3>1. Len(r) = 1 => k = 1 /\ l = 1
        OBVIOUS
    <3>2. QED
        BY <1>4, <3>1
  <2> HIDE DEF x, y
  <2>3. Alike(x, y, sel)
      BY <2>1, <2>2, RowsAlike
  <2>4. Without(Named(Joined(x), sel), OwnColumns) = Without(Named(Joined(y), sel), OwnColumns)
      BY <1>1, <2>1, <2>3, NamedAlike
  <2>5. QED
      BY <2>4 DEF x, y
<1>9. QED
    BY <1>2, <1>3, <1>7, <1>8 DEF r, b

\* Every item of a row that came, in the rows that process_row makes of it.
LEMMA RowsKept ==
    ASSUME CallGiven, NEW row, NEW sel, Came(row), SchemasOK(sel), Full(row, sel),
           ~NotFound(sel), "adapters" \notin excludes
    PROVE  AllKept(row, RowsOf(row, sel))
<1> DEFINE entities == PerEntity(Clean(row, sel))
           sources == Sources(row)
           ss == [n \in DOMAIN entities |-> PerItem(Flattened(entities[n], sel))]
           tt == [n \in DOMAIN sources |->
                    [k \in 1..RowsFor(sources[n]) |-> [source |-> n, item |-> k]]]
           items == FlattenSeq(ss)
           expected == FlattenSeq(tt)
           L == Len(entities)
           out == RowsOf(row, sel)
           Final(x) == Named(Joined(x), sel)
<1>1. out = [p \in DOMAIN items |-> Final(items[p])]
    BY DEF RowsOf, Clean
<1>2. Expected(sources) = expected
    BY DEF Expected
<1>3. /\ sources \in Seq(Range(sources)) /\ entities \in Seq(Range(entities))
      /\ L = Len(sources)
      /\ \A n \in 1..L : Known(entities[n], sources[n])
    BY SourcesKnown
<1>4. L \in Nat /\ DOMAIN entities = 1..L /\ DOMAIN sources = 1..L
  <2> HIDE DEF entities, sources
  <2>1. QED
      BY <1>3
<1>5. ASSUME NEW n \in 1..L
      PROVE  /\ ss[n] \in Seq(Range(ss[n])) /\ Len(ss[n]) = RowsFor(sources[n])
             /\ \A k \in 1..Len(ss[n]) : /\ ShowsItem(Final(ss[n][k]), sources[n], k)
                                         /\ ColumnsAligned(Final(ss[n][k]), sources[n])
             /\ \A k, l \in 1..Len(ss[n]) : Without(Final(ss[n][k]), OwnColumns)
                                              = Without(Final(ss[n][l]), OwnColumns)
  <2> DEFINE e == entities[n]
             s == sources[n]
             r == PerItem(Flattened(e, sel))
  <2>1. Fits(row, sel, e)
      BY <1>4, EntitiesFit
  <2>2. DOMAIN e \subseteq Names
      BY <1>4, EntitiesNamed
  <2>3. Known(e, s)
      BY <1>3
  <2>4. ss[n] = r
      BY <1>4
  <2> HIDE DEF ss
  <2>5. /\ r \in Seq(Range(r)) /\ Len(r) = RowsFor(s)
        /\ \A k \in 1..Len(r) : ShowsItem(Final(r[k]), s, k) /\ ColumnsAligned(Final(r[k]), s)
        /\ \A k, l \in 1..Len(r) : Without(Final(r[k]), OwnColumns)
                                     = Without(Final(r[l]), OwnColumns)
    <3> HIDE DEF e, s
    <3>1. QED
        BY <2>1, <2>2, <2>3, BlockRows
  <2> HIDE DEF r
  <2>6. QED
      BY <2>4, <2>5
<1>6. ss = [n \in 1..L |-> ss[n]] /\ Len(ss) = L
    BY <1>4
<1>7. tt = [n \in 1..L |-> tt[n]] /\ Len(tt) = L
    BY <1>4
<1>8. ASSUME NEW n \in 1..L
      PROVE  /\ tt[n] \in Seq(Range(tt[n])) /\ Len(tt[n]) = Len(ss[n])
             /\ \A k \in 1..Len(tt[n]) : tt[n][k] = [source |-> n, item |-> k]
  <2> DEFINE m == RowsFor(sources[n])
             t == [k \in 1..m |-> [source |-> n, item |-> k]]
  <2>1. tt[n] = t
      BY <1>4
  <2>2. m \in Nat /\ Len(ss[n]) = m
    <3> HIDE DEF ss, m
    <3>1. QED
        BY <1>5 DEF m
  <2> HIDE DEF m, ss, tt
  <2>3. Len(t) = m /\ DOMAIN t = 1..m
      BY <2>2
  <2>4. t \in Seq(Range(t))
    <3>1. t \in [1..m -> Range(t)]
        BY DEF Range
    <3>2. QED
        BY <2>2, <3>1
  <2>5. \A k \in 1..Len(t) : t[k] = [source |-> n, item |-> k]
      BY <2>3
  <2> HIDE DEF t
  <2>6. QED
      BY <2>1, <2>2, <2>3, <2>4, <2>5
<1> HIDE DEF ss, tt, L, entities, sources
<1> DEFINE S == UNION {Range(ss[n]) : n \in 1..L}
           T == UNION {Range(tt[n]) : n \in 1..L}
<1>9. ss \in Seq(Seq(S)) /\ tt \in Seq(Seq(T))
  <2>1. \A n \in 1..L : ss[n] \in Seq(Range(ss[n])) /\ tt[n] \in Seq(Range(tt[n]))
      BY <1>5, <1>8
  <2>2. ss = [n \in 1..L |-> ss[n]] /\ tt = [n \in 1..L |-> tt[n]] /\ L \in Nat
      BY <1>4, <1>6, <1>7
  <2>3. ss \in Seq(Seq(S))
      BY <2>1, <2>2, SeqOfSeqs
  <2>4. tt \in Seq(Seq(T))
      BY <2>1, <2>2, SeqOfSeqs
  <2>5. QED
      BY <2>3, <2>4
<1> HIDE DEF S, T
<1>10. /\ Len(items) = Len(expected)
       /\ \A p \in 1..Len(items) : \E i \in 1..L : \E j \in 1..Len(ss[i]) :
            items[p] = ss[i][j] /\ expected[p] = tt[i][j]
  <2>1. Len(ss) = Len(tt) /\ \A i \in 1..Len(ss) : Len(ss[i]) = Len(tt[i])
      BY <1>6, <1>7, <1>8
  <2>2. Len(FlattenSeq(ss)) = Len(FlattenSeq(tt)) /\ SamePlaces(ss, tt)
      BY <1>9, <2>1, FlattenedTogether
  <2>3. QED
      BY <1>6, <2>2 DEF SamePlaces
<1>11. items \in Seq(S) /\ expected \in Seq(T)
    BY <1>9, FlattenedSeq
<1> HIDE DEF items, expected, Final
<1>12. DOMAIN items = 1..Len(items) /\ DOMAIN expected = 1..Len(items)
    BY <1>10, <1>11
<1>13. Len(out) = Len(expected)
  <2>1. out = [p \in DOMAIN out |-> out[p]] /\ DOMAIN out = DOMAIN items
      BY <1>1
  <2> HIDE DEF out
  <2>2. Len(out) = Len(items)
      BY <1>11, <2>1, MappedSeq
  <2>3. QED
      BY <1>10, <2>2
<1>14. ASSUME NEW p \in DOMAIN expected
       PROVE  \E i \in 1..L : \E j \in 1..Len(ss[i]) :
                /\ expected[p].source = i /\ expected[p].item = j
                /\ out[p] = Final(ss[i][j])
  <2>1. PICK i \in 1..L : \E j \in 1..Len(ss[i]) : items[p] = ss[i][j] /\ expected[p] = tt[i][j]
      BY <1>10, <1>12
  <2>2. PICK j \in 1..Len(ss[i]) : items[p] = ss[i][j] /\ expected[p] = tt[i][j]
      BY <2>1
  <2>3. tt[i][j] = [source |-> i, item |-> j]
      BY <1>8
  <2>4. out[p] = Final(items[p])
      BY <1>1, <1>12
  <2> HIDE DEF out
  <2>5. expected[p].source = i /\ expected[p].item = j /\ out[p] = Final(ss[i][j])
      BY <2>2, <2>3, <2>4
  <2>6. QED
      BY <2>5
<1> HIDE DEF out
<1>15. ASSUME NEW p \in DOMAIN expected
       PROVE  /\ ShowsItem(out[p], sources[expected[p].source], expected[p].item)
              /\ ColumnsAligned(out[p], sources[expected[p].source])
              /\ \A q \in DOMAIN expected : expected[q].source = expected[p].source =>
                    Without(out[q], OwnColumns) = Without(out[p], OwnColumns)
  <2>1. PICK i \in 1..L : \E j \in 1..Len(ss[i]) :
            /\ expected[p].source = i /\ expected[p].item = j /\ out[p] = Final(ss[i][j])
      BY <1>14
  <2>2. PICK j \in 1..Len(ss[i]) :
            /\ expected[p].source = i /\ expected[p].item = j /\ out[p] = Final(ss[i][j])
      BY <2>1
  <2>3. ShowsItem(out[p], sources[i], j) /\ ColumnsAligned(out[p], sources[i])
      BY <1>5, <2>2
  <2>4. ASSUME NEW q \in DOMAIN expected, expected[q].source = expected[p].source
        PROVE  Without(out[q], OwnColumns) = Without(out[p], OwnColumns)
    <3>1. PICK h \in 1..L : \E l \in 1..Len(ss[h]) :
              expected[q].source = h /\ out[q] = Final(ss[h][l])
        BY <1>14
    <3>2. PICK l \in 1..Len(ss[h]) : expected[q].source = h /\ out[q] = Final(ss[h][l])
        BY <3>1
    <3>3. h = i
        BY <2>2, <2>4, <3>2
    <3>4. l \in 1..Len(ss[i]) /\ out[q] = Final(ss[i][l])
        BY <3>2, <3>3
    <3>5. QED
        BY <1>5, <2>2, <3>4
  <2>5. QED
      BY <2>2, <2>3, <2>4
<1>16. Len(out) = Len(Expected(sources))
    BY <1>2, <1>13
<1>17. AllKept(row, out)
    BY <1>2, <1>15, <1>16 DEF AllKept, sources
<1>18. QED
    BY <1>17 DEF out

-----------------------------------------------------------------------------
(* The invariant.                                                           *)

ShapeSpec == ShapeInit /\ [][ShapeNext]_shapeVars

\* What start() has settled.
ArgsKept ==
    /\ shapeArgs \in RowArgs /\ include \in BOOLEAN
    /\ excludes \in {shapeArgs.field_excludes, shapeArgs.field_excludes \cup DetailsExclude}
    /\ shapePhase \in {"new", "started", "later", "failed", "done"}
    /\ shapePhase # "new" => CallGiven

\* Schemas and columns, once they are kept, are names, and the schemas hold for
\* every row that comes.
SchemasKept ==
    /\ shapePhase = "new" => selected = {} /\ made = << >>
    /\ selected # {} => SchemasOK(selected)
    /\ IsFiniteSet(selected) /\ IsFiniteSet(columns)

RowsDoneInv == \A n \in DOMAIN made : Done(taken, selected, made[n])

ShapeInv == ArgsKept /\ SchemasKept /\ RowsDoneInv

LEMMA ShapeInvInit == ShapeInit => ShapeInv
<1>1. SUFFICES ASSUME ShapeInit PROVE ShapeInv
    OBVIOUS
<1>2. DOMAIN << >> = {} /\ IsFiniteSet({})
    BY FS_EmptySet
<1>3. ArgsKept
    BY <1>1, RowArgsAssumption DEF ShapeInit, ArgsKept
<1>4. SchemasKept
    BY <1>1, <1>2 DEF ShapeInit, SchemasKept
<1>5. RowsDoneInv
    BY <1>1, <1>2 DEF ShapeInit, RowsDoneInv
<1>6. QED
    BY <1>3, <1>4, <1>5 DEF ShapeInv

LEMMA ExcludesFinite ==
    ASSUME ArgsKept
    PROVE  IsFiniteSet(excludes)
<1>1. IsFiniteSet(shapeArgs.field_excludes)
    BY RowArgsAssumption DEF ArgsKept
<1>2. IsFiniteSet(DetailsExclude)
    BY FiniteTriple, TextsAssumption
<1>3. IsFiniteSet(shapeArgs.field_excludes \cup DetailsExclude)
    BY <1>1, <1>2, FS_Union
<1>4. QED
    BY <1>1, <1>3 DEF ArgsKept

LEMMA StartKeeps ==
    ASSUME ShapeInv, Start
    PROVE  ShapeInv'
<1>1. /\ shapePhase = "new" /\ selected = {} /\ made = << >>
      /\ include' = (include \/ shapeArgs.explode_entities)
      /\ excludes' = IF include' THEN excludes \cup DetailsExclude ELSE excludes
      /\ shapePhase' = "started"
      /\ UNCHANGED <<shapeArgs, selected, columns, taken, made>>
    BY DEF Start, ShapeInv, SchemasKept
<1>2. /\ shapeArgs.fields \subseteq {"hostname", "software"}
      /\ shapeArgs.field_explode \in {"", "hostname", "software"}
      /\ shapeArgs.field_null \in BOOLEAN /\ shapeArgs.field_flatten \in BOOLEAN
      /\ shapeArgs.explode_entities \in BOOLEAN /\ shapeArgs.field_join \in BOOLEAN
    BY RowArgsAssumption DEF ShapeInv, ArgsKept
<1>3. include' \in BOOLEAN /\ (shapeArgs.explode_entities => include')
    BY <1>1
<1>4. /\ include' => DetailsExclude \subseteq excludes'
      /\ excludes' \in {shapeArgs.field_excludes, shapeArgs.field_excludes \cup DetailsExclude}
    BY <1>1 DEF ShapeInv, ArgsKept
<1>5. CallGiven'
    BY <1>1, <1>2, <1>3, <1>4 DEF CallGiven, DetailsExclude
<1>6. ArgsKept'
    BY <1>1, <1>3, <1>4, <1>5 DEF ShapeInv, ArgsKept, DetailsExclude
<1>7. SchemasKept'
    BY <1>1 DEF ShapeInv, SchemasKept
<1>8. RowsDoneInv'
  <2>1. DOMAIN made' = {}
      BY <1>1
  <2>2. QED
      BY <2>1 DEF RowsDoneInv
<1>9. QED
    BY <1>6, <1>7, <1>8 DEF ShapeInv

\* Of a row that was taken, after a step that leaves the arguments alone.
LEMMA DoneSame ==
    ASSUME UNCHANGED <<shapeArgs, include, excludes>>,
           \A n \in DOMAIN made' : Done(taken', selected', made'[n])
    PROVE  \A n \in DOMAIN made' : Done(taken, selected, made[n])'
<1>1. /\ shapeArgs' = shapeArgs /\ include' = include /\ excludes' = excludes
    OBVIOUS
<1>2. /\ FinalFields(selected)' = FinalFields(selected')
      /\ FinalFields(WithoutDetails(selected))' = FinalFields(WithoutDetails(selected'))
    BY <1>1 DEF FinalFields, Excluded, OpenSubs, WithoutDetails
<1>3. /\ FinalColumns(selected)' = FinalColumns(selected')
      /\ FinalColumns(WithoutDetails(selected))' = FinalColumns(WithoutDetails(selected'))
    BY <1>1, <1>2 DEF FinalColumns, ColumnOf
<1>4. StraysOf(taken, selected)' = StraysOf(taken', selected')
    BY <1>1 DEF StraysOf
<1>5. {ColumnOf(f) : f \in StraysOf(taken, selected)}' = {ColumnOf(f) : f \in StraysOf(taken', selected')}
    BY <1>1, <1>4 DEF ColumnOf
<1>6. QED
    BY <1>1, <1>3, <1>4, <1>5 DEF Done, Shown

LEMMA ProcessRowKeeps ==
    ASSUME ShapeInv, NEW r \in FirstRows \cup LaterRows, ProcessRow(Sent(r))
    PROVE  ShapeInv'
<1> DEFINE row == Sent(r)
           found == UNION {DOMAIN made'[n] : n \in DOMAIN made'}
           rs == IF shapeArgs.export = "csv" THEN {} ELSE {row}
<1>1. /\ shapePhase \in {"started", "later"} /\ taken' = row
      /\ selected' = IF selected # {} THEN selected ELSE SchemasSelected(rs)
      /\ UNCHANGED <<shapeArgs, include, excludes>>
    BY DEF ProcessRow
<1>2. \/ /\ NotFound(selected') /\ shapePhase' = "failed" /\ made' = << >> /\ UNCHANGED columns
      \/ /\ ~NotFound(selected') /\ shapePhase' \in {"later", "done"}
         /\ made' = RowsOf(row, selected')
         /\ columns' = (IF columns # {} THEN columns ELSE FinalColumns(selected'))
                       \cup (IF shapeArgs.export = "csv" THEN found ELSE {})
    BY DEF ProcessRow
<1>3. Came(row) /\ IsFiniteSet(DOMAIN row)
    BY SentCame
<1>4. CallGiven /\ IsFiniteSet(excludes)
    BY <1>1, ExcludesFinite DEF ShapeInv, ArgsKept
<1> HIDE DEF row
<1>5. SchemasOK(selected') /\ IsFiniteSet(selected') /\ selected' # {}
  <2>1. rs \in SUBSET {row}
      OBVIOUS
  <2> HIDE DEF rs
  <2>2. /\ SchemasOK(SchemasSelected(rs)) /\ IsFiniteSet(SchemasSelected(rs))
        /\ SchemasSelected(rs) # {}
      BY <1>3, <1>4, <2>1, SchemasAreOK
  <2>3. QED
      BY <1>1, <2>2 DEF ShapeInv, SchemasKept
<1>6. ~NotFound(selected') =>
         \A n \in DOMAIN made' : Done(row, selected', made'[n])
    BY <1>2, <1>3, <1>4, <1>5, RowsDone
<1>7. DOMAIN << >> = {}
    OBVIOUS
<1>8. \A n \in DOMAIN made' : Done(taken', selected', made'[n])
    BY <1>1, <1>2, <1>6, <1>7
<1>9. RowsDoneInv'
  <2>1. \A n \in DOMAIN made' : Done(taken, selected, made[n])'
      BY <1>1, <1>8, DoneSame
  <2>2. QED
      BY <2>1 DEF RowsDoneInv
<1>10. IsFiniteSet(columns')
  <2> DEFINE wide == FinalColumns(selected')
                       \cup ({ColumnOf(f) : f \in StraysOf(row, selected')} \cup StraysOf(row, selected'))
  <2>1. /\ IsFiniteSet(FinalColumns(selected')) /\ IsFiniteSet(StraysOf(row, selected'))
        /\ IsFiniteSet({ColumnOf(f) : f \in StraysOf(row, selected')})
      BY <1>3, <1>4, <1>5, ColumnsFinite
  <2>2. IsFiniteSet(wide)
      BY <2>1, FS_Union
  <2>3. ~NotFound(selected') => found \subseteq wide
      BY <1>6 DEF Done
  <2> HIDE DEF wide, found
  <2>4. ~NotFound(selected') => IsFiniteSet(found)
      BY <2>2, <2>3, FS_Subset
  <2>5. IsFiniteSet(columns) /\ IsFiniteSet({})
      BY FS_EmptySet DEF ShapeInv, SchemasKept
  <2>6. CASE NotFound(selected')
      BY <1>2, <2>5, <2>6
  <2>7. CASE ~NotFound(selected')
    <3>1. IsFiniteSet(IF columns # {} THEN columns ELSE FinalColumns(selected'))
        BY <2>1, <2>5
    <3>2. IsFiniteSet(IF shapeArgs.export = "csv" THEN found ELSE {})
        BY <2>4, <2>5, <2>7
    <3>3. QED
        BY <1>2, <2>7, <3>1, <3>2, FS_Union
  <2>8. QED
      BY <2>6, <2>7
<1>11. SchemasKept'
  <2>1. SchemasOK(selected)'
      BY <1>1, <1>5 DEF SchemasOK, Reports
  <2>2. shapePhase' # "new"
      BY <1>2
  <2>3. QED
      BY <1>5, <1>10, <2>1, <2>2 DEF SchemasKept
<1>12. ArgsKept'
  <2>1. CallGiven'
      BY <1>1, <1>4 DEF CallGiven
  <2>2. shapePhase' \in {"later", "failed", "done"}
      BY <1>2
  <2>3. QED
      BY <1>1, <2>1, <2>2 DEF ShapeInv, ArgsKept
<1>13. QED
    BY <1>9, <1>11, <1>12 DEF ShapeInv

LEMMA ShapeInvNext == ShapeInv /\ [ShapeNext]_shapeVars => ShapeInv'
<1>1. SUFFICES ASSUME ShapeInv, [ShapeNext]_shapeVars PROVE ShapeInv'
    OBVIOUS
<1>2. CASE Start
    BY <1>1, <1>2, StartKeeps
<1>3. CASE \E row \in {Sent(r) : r \in FirstRows \cup LaterRows} : ProcessRow(row)
  <2>1. PICK r \in FirstRows \cup LaterRows : ProcessRow(Sent(r))
      BY <1>3
  <2>2. QED
      BY <1>1, <2>1, ProcessRowKeeps
<1>4. CASE UNCHANGED shapeVars
  <2>1. /\ shapeArgs' = shapeArgs /\ include' = include /\ excludes' = excludes
        /\ selected' = selected /\ columns' = columns /\ taken' = taken /\ made' = made
        /\ shapePhase' = shapePhase
      BY <1>4 DEF shapeVars
  <2>2. ArgsKept'
      BY <1>1, <2>1 DEF ShapeInv, ArgsKept, CallGiven
  <2>3. SchemasKept'
      BY <1>1, <2>1 DEF ShapeInv, SchemasKept, SchemasOK, Reports
  <2>4. RowsDoneInv'
    <3>1. \A n \in DOMAIN made' : Done(taken', selected', made'[n])
        BY <1>1, <2>1 DEF ShapeInv, RowsDoneInv
    <3>2. \A n \in DOMAIN made' : Done(taken, selected, made[n])'
        BY <2>1, <3>1, DoneSame
    <3>3. QED
        BY <3>2 DEF RowsDoneInv
  <2>5. QED
      BY <2>2, <2>3, <2>4 DEF ShapeInv
<1>5. QED
    BY <1>1, <1>2, <1>3, <1>4 DEF ShapeNext

LEMMA ShapeInvAlways == ShapeSpec => []ShapeInv
<1>1. QED
    BY ShapeInvInit, ShapeInvNext, PTL DEF ShapeSpec

LEMMA RowsMatchInv == ShapeInv => RowsMatchColumns
<1>1. SUFFICES ASSUME ShapeInv PROVE RowsMatchColumns
    OBVIOUS
<1>2. Strays = StraysOf(taken, selected)
    BY DEF Strays, StraysOf
<1>3. QED
    BY <1>1, <1>2 DEF ShapeInv, RowsDoneInv, Done, RowsMatchColumns

LEMMA ShapeTyped == ShapeInv => ShapeTypeOK
<1>1. SUFFICES ASSUME ShapeInv PROVE ShapeTypeOK
    OBVIOUS
<1>2. IsFiniteSet(selected \cup columns)
    BY <1>1, FS_Union DEF ShapeInv, SchemasKept
<1>3. \A n \in DOMAIN made : \A k \in DOMAIN made[n] :
         /\ made[n][k].list \in BOOLEAN
         /\ made[n][k].list \/ Len(made[n][k].of) = 1 \/ shapeArgs.field_join
    BY <1>1 DEF ShapeInv, RowsDoneInv, Done, Shown
<1>4. QED
    BY <1>1, <1>2, <1>3 DEF ShapeInv, ArgsKept, ShapeTypeOK

\* Whatever row comes, and whichever callbacks rewrite it: with titles every
\* announced column is in every row; with nulls, as long as entities do not take it
\* apart, every one that is announced for a field that is not of details; and a row
\* has no other keys but strays (Base.do_row, final_columns).
THEOREM RowsMatch == ShapeSpec => []RowsMatchColumns
<1>1. QED
    BY ShapeInvAlways, RowsMatchInv, PTL

-----------------------------------------------------------------------------
(* Items are kept.                                                          *)

\* Schemas that are names, with the details of the fields that were asked for.
SchemasFull(sel) ==
    /\ sel \subseteq Names
    /\ include => \A f \in shapeArgs.fields : DetailsOf(f) \in sel

KeptInv == (selected # {} => SchemasFull(selected)) /\ ItemsKept

LEMMA SentNamed ==
    ASSUME NEW r \in FirstRows \cup LaterRows
    PROVE  "adapters" \in DOMAIN Sent(r) /\ DOMAIN Sent(r) \subseteq Names
<1>1. DOMAIN Sent(r) \subseteq DOMAIN r
    BY DEF Sent, Restrict
<1>2. DOMAIN r \subseteq Names
    BY DEF Names
<1>3. "adapters" \in DOMAIN r
    BY RowsAssumption
<1>4. ~IsDetails("adapters")
    BY TextsAssumption DEF IsDetails, EntityInfo
<1>5. "adapters" \in DOMAIN Sent(r)
    BY <1>3, <1>4 DEF Sent, Restrict
<1>6. QED
    BY <1>1, <1>2, <1>5

LEMMA SchemasAreFull ==
    ASSUME CallGiven, NEW r \in FirstRows \cup LaterRows, NEW rs \in SUBSET {Sent(r)}
    PROVE  SchemasFull(SchemasSelected(rs))
<1> DEFINE asked == ApiFields \cup shapeArgs.fields
           details == {DetailsOf(f) : f \in asked}
           keys == UNION {DOMAIN x : x \in rs}
           sel == SchemasSelected(rs)
<1>1. sel = (Reports \cup asked) \cup (IF include THEN EntityInfo \cup details ELSE {}) \cup keys
    BY DEF SchemasSelected
<1>2. asked \subseteq ApiFields \cup {"hostname", "software"}
    BY DEF CallGiven
<1>3. asked \cup EntityInfo \cup details \subseteq Names
    BY <1>2 DEF Names
<1>4. Reports \subseteq Names
    BY DEF Reports, Names
<1>5. keys \subseteq Names
    BY SentNamed
<1>6. \A f \in shapeArgs.fields : DetailsOf(f) \in details
    OBVIOUS
<1> HIDE DEF asked, details, keys, sel
<1>7. sel \subseteq Names
    BY <1>1, <1>3, <1>4, <1>5
<1>8. include => \A f \in shapeArgs.fields : DetailsOf(f) \in sel
    BY <1>1, <1>6
<1>9. QED
    BY <1>7, <1>8 DEF SchemasFull, sel

\* Of the row that was taken, after a step that leaves the arguments alone.
LEMMA AllKeptSame ==
    ASSUME UNCHANGED <<shapeArgs, include, excludes>>, AllKept(taken', made')
    PROVE  AllKept(taken, made)'
<1>1. shapeArgs' = shapeArgs /\ excludes' = excludes
    OBVIOUS
<1>2. Sources(taken)' = Sources(taken')
    BY <1>1 DEF Sources, Excluded
<1>3. \A source : ItemsFor(source)' = ItemsFor(source)
    BY <1>1 DEF ItemsFor, Excluded
<1>4. \A source : RowsFor(source)' = RowsFor(source)
    BY <1>3 DEF RowsFor
<1>5. \A sources : Expected(sources)' = Expected(sources)
    BY <1>4 DEF Expected
<1>6. OpenSubs' = OpenSubs
    BY <1>1 DEF OpenSubs
<1>7. \A k : ColumnOf(k)' = ColumnOf(k)
    BY <1>1 DEF ColumnOf
<1>8. \A row, source, n : ShowsItem(row, source, n)' = ShowsItem(row, source, n)
    BY <1>1, <1>3, <1>6, <1>7 DEF ShowsItem
<1>9. \A row, source : ColumnsAligned(row, source)' = ColumnsAligned(row, source)
    BY <1>1, <1>6, <1>7 DEF ColumnsAligned, FlattensSoftware, Excluded
<1>10. OwnColumns' = OwnColumns
    BY <1>1, <1>6, <1>7 DEF OwnColumns
<1>11. QED
    BY <1>2, <1>5, <1>8, <1>9, <1>10 DEF AllKept

LEMMA ProcessRowKeepsItems ==
    ASSUME ShapeInv, KeptInv, NEW r \in FirstRows \cup LaterRows, ProcessRow(Sent(r))
    PROVE  KeptInv'
<1> DEFINE row == Sent(r)
           rs == IF shapeArgs.export = "csv" THEN {} ELSE {row}
<1>1. /\ shapePhase \in {"started", "later"} /\ taken' = row
      /\ selected' = IF selected # {} THEN selected ELSE SchemasSelected(rs)
      /\ UNCHANGED <<shapeArgs, include, excludes>>
    BY DEF ProcessRow
<1>2. \/ NotFound(selected') /\ shapePhase' = "failed"
      \/ ~NotFound(selected') /\ made' = RowsOf(row, selected')
    BY DEF ProcessRow
<1>3. Came(row) /\ IsFiniteSet(DOMAIN row)
    BY SentCame
<1>4. CallGiven
    BY <1>1 DEF ShapeInv, ArgsKept
<1>5. rs \in SUBSET {row}
    OBVIOUS
<1>6. "adapters" \in DOMAIN row /\ DOMAIN row \subseteq Names
    BY SentNamed
<1>7. SchemasFull(SchemasSelected(rs))
    BY <1>4, <1>5, SchemasAreFull
<1> HIDE DEF row, rs
<1>8. SchemasOK(selected') /\ SchemasFull(selected')
    BY <1>1, <1>3, <1>4, <1>5, <1>7, SchemasAreOK DEF ShapeInv, SchemasKept, KeptInv
<1>9. Full(row, selected')
    BY <1>6, <1>8 DEF Full, SchemasFull
<1>10. ItemsKept'
  <2>1. SUFFICES ASSUME shapePhase' \in {"later", "done"}, "adapters" \notin excludes'
                 PROVE  AllKept(taken, made)'
      BY DEF ItemsKept
  <2>2. ~NotFound(selected') /\ made' = RowsOf(row, selected')
      BY <1>2, <2>1
  <2>3. "adapters" \notin excludes
      BY <1>1, <2>1
  <2>4. AllKept(row, RowsOf(row, selected'))
      BY <1>3, <1>4, <1>8, <1>9, <2>2, <2>3, RowsKept
  <2>5. AllKept(taken', made')
      BY <1>1, <2>2, <2>4
  <2>6. QED
      BY <1>1, <2>5, AllKeptSame
<1>11. (selected # {} => SchemasFull(selected))'
    BY <1>1, <1>8 DEF SchemasFull
<1>12. QED
    BY <1>10, <1>11 DEF KeptInv

LEMMA KeptInvInit == ShapeInit => KeptInv
BY DEF ShapeInit, KeptInv, ItemsKept

LEMMA KeptInvNext == ShapeInv /\ KeptInv /\ [ShapeNext]_shapeVars => KeptInv'
<1>1. SUFFICES ASSUME ShapeInv, KeptInv, [ShapeNext]_shapeVars PROVE KeptInv'
    OBVIOUS
<1>2. CASE Start
  <2>1. selected' = {} /\ shapePhase' = "started"
      BY <1>1, <1>2 DEF Start, ShapeInv, SchemasKept
  <2>2. QED
      BY <2>1 DEF KeptInv, ItemsKept
<1>3. CASE \E row \in {Sent(r) : r \in FirstRows \cup LaterRows} : ProcessRow(row)
  <2>1. PICK r \in FirstRows \cup LaterRows : ProcessRow(Sent(r))
      BY <1>3
  <2>2. QED
      BY <1>1, <2>1, ProcessRowKeepsItems
<1>4. CASE UNCHANGED shapeVars
  <2>1. /\ shapeArgs' = shapeArgs /\ include' = include /\ excludes' = excludes
        /\ selected' = selected /\ taken' = taken /\ made' = made /\ shapePhase' = shapePhase
      BY <1>4 DEF shapeVars
  <2>2. (selected # {} => SchemasFull(selected))'
      BY <1>1, <2>1 DEF KeptInv, SchemasFull
  <2>3. ItemsKept'
    <3>1. SUFFICES ASSUME shapePhase' \in {"later", "done"}, "adapters" \notin excludes'
                   PROVE  AllKept(taken, made)'
        BY DEF ItemsKept
    <3>2. AllKept(taken, made)
        BY <1>1, <2>1, <3>1 DEF KeptInv, ItemsKept
    <3>3. AllKept(taken', made')
        BY <2>1, <3>2
    <3>4. QED
        BY <2>1, <3>3, AllKeptSame
  <2>4. QED
      BY <2>2, <2>3 DEF KeptInv
<1>5. QED
    BY <1>1, <1>2, <1>3, <1>4 DEF ShapeNext

\* Whatever row comes, and whichever callbacks rewrite it: a source has a row for
\* each of its items, in their order, that shows it under the final name of the
\* field, or of its sub-fields; what is not an item's own is alike in all of them;
\* and the column of a flattened sub-field has the values of the items in their
\* order, at the items' own places where each of them has one value (do_explode,
\* do_explode_entities, do_flatten).  A list of values is spliced in, after which
\* the places of the columns no longer correspond.
THEOREM ItemsAreKept == ShapeSpec => []ItemsKept
<1>1. KeptInv => ItemsKept
    BY DEF KeptInv
<1>2. QED
    BY <1>1, ShapeInvAlways, KeptInvInit, KeptInvNext, PTL DEF ShapeSpec

-----------------------------------------------------------------------------
(* Rows and filters together.                                               *)

LEMMA BothParts == Spec => ShapeSpec /\ WizardSpec
<1>1. Init => ShapeInit /\ WizardInit
    BY DEF Init
<1>2. [Next]_vars => [ShapeNext]_shapeVars
    BY DEF Next, vars, shapeVars
<1>3. [Next]_vars => [WizardNext]_wizardVars
    BY DEF Next, vars, wizardVars
<1>4. QED
    BY <1>1, <1>2, <1>3, PTL DEF Spec, ShapeSpec, WizardSpec

LEMMA BothTyped == ShapeInv /\ WizardInv => RowsAndFiltersTypeOK
BY ShapeTyped, WizardTyped DEF RowsAndFiltersTypeOK

\* Whichever part a behaviour is of: what process_row keeps and makes of rows, and
\* what the wizard for CSV files reads and parses, have their shapes.
THEOREM RowsAndFiltersTypeCorrect == Spec => []RowsAndFiltersTypeOK
<1>1. QED
    BY BothParts, ShapeInvAlways, WizardInvAlways, BothTyped, PTL

=============================================================================
