----------------------------- MODULE PagingLemmas -----------------------------
(***************************************************************************)
(* What several proofs need.  First induction, and what it shows of the    *)
(* recursive functions of the models (folders and their paths, the lines   *)
(* of a query).  Then what the proofs about paging, of assets, enforcement *)
(* sets, saved queries, histories and tasks, need to know about sequences  *)
(* of rows: what rows that come and go do to them, and what a page of them *)
(* holds.                                                                  *)
(***************************************************************************)
EXTENDS ServerPage, SequencesExt, SequenceTheorems, WellFoundedInduction, TLAPS

-----------------------------------------------------------------------------
(* Induction, and the recursive functions the models are defined with.      *)

\* A set that holds 0, and with a number the next one, holds all numbers.
LEMMA SetInduction ==
    ASSUME NEW S, 0 \in S, \A n \in Nat : n \in S => n + 1 \in S
    PROVE  Nat \subseteq S
<1> DEFINE R == {ss \in Nat \X Nat : ss[1] < ss[2]}
           T == Nat \ S
<1>1. IsWellFoundedOn(R, Nat)
    BY NatLessThanWellFounded DEF OpToRel
<1>2. \A x, y \in Nat : y < x => <<y, x>> \in R
    OBVIOUS
<1> HIDE DEF R
<1>3. SUFFICES ASSUME T # {}
               PROVE  FALSE
    OBVIOUS
<1>4. PICK x \in T : \A y \in T : ~(<<y, x>> \in R)
    BY <1>1, <1>3, WFMin
<1>5. x # 0 /\ x - 1 \in Nat /\ x - 1 < x /\ (x - 1) + 1 = x
    OBVIOUS
<1>6. x - 1 \in T
    BY <1>5
<1>7. QED
    BY <1>2, <1>4, <1>5, <1>6

\* g begins at x and goes on by the steps.
Takes(D, x, N, step, g) ==
    /\ g \in [0..N -> D]
    /\ g[0] = x
    /\ \A n \in 1..N : g[n] = step[n][g[n - 1]]

\* Steps can be taken one after the other, as often as they are defined.
LEMMA StepsTaken ==
    ASSUME NEW D, NEW x \in D, NEW N \in Nat, NEW step \in [1..N -> [D -> D]]
    PROVE  \E g : Takes(D, x, N, step, g)
<1> DEFINE Taken(m, g) == g[0] = x /\ \A n \in 1..m : g[n] = step[n][g[n - 1]]
           S == {m \in Nat : m <= N => \E g \in [0..m -> D] : Taken(m, g)}
<1>1. 0 \in S
  <2>1. [n \in 0..0 |-> x] \in [0..0 -> D] /\ Taken(0, [n \in 0..0 |-> x])
      OBVIOUS
  <2>2. QED
      BY <2>1
<1>2. ASSUME NEW m \in Nat, m \in S
      PROVE  m + 1 \in S
  <2>1. SUFFICES ASSUME m + 1 <= N
                 PROVE  \E g \in [0..(m + 1) -> D] : Taken(m + 1, g)
      OBVIOUS
  <2>2. PICK g \in [0..m -> D] : Taken(m, g)
      BY <1>2, <2>1
  <2> DEFINE h == [n \in 0..(m + 1) |-> IF n = m + 1 THEN step[m + 1][g[m]] ELSE g[n]]
  <2>3. h \in [0..(m + 1) -> D]
      BY <2>1
  <2>4. Taken(m + 1, h)
    <3>1. h[0] = x
        BY <2>2
    <3>2. ASSUME NEW n \in 1..(m + 1)
          PROVE  h[n] = step[n][h[n - 1]]
      <4>1. n - 1 \in 0..m /\ h[n - 1] = g[n - 1]
          OBVIOUS
      <4>2. CASE n = m + 1
          BY <4>1, <4>2
      <4>3. CASE n # m + 1
        <5>1. n \in 1..m /\ h[n] = g[n]
            BY <4>3
        <5>2. QED
            BY <2>2, <4>1, <5>1
      <4>4. QED
          BY <4>2, <4>3
    <3>3. QED
        BY <3>1, <3>2
  <2>5. QED
      BY <2>3, <2>4
<1>3. Nat \subseteq S
  <2> HIDE DEF S
  <2>1. QED
      BY <1>1, <1>2, SetInduction
<1>4. N \in S
    BY <1>3
<1>5. QED
    BY <1>4 DEF Takes

\* Two functions that begin alike and go on alike are alike.
LEMMA StepsAlike ==
    ASSUME NEW N \in Nat, NEW f, NEW g, f[0] = g[0],
           \A n \in 1..N : f[n - 1] = g[n - 1] => f[n] = g[n]
    PROVE  \A n \in 0..N : f[n] = g[n]
<1> DEFINE S == {n \in Nat : n <= N => f[n] = g[n]}
<1>1. 0 \in S
    OBVIOUS
<1>2. ASSUME NEW n \in Nat, n \in S
      PROVE  n + 1 \in S
  <2>1. SUFFICES ASSUME n + 1 <= N
                 PROVE  f[n + 1] = g[n + 1]
      OBVIOUS
  <2>2. n + 1 \in 1..N /\ (n + 1) - 1 = n /\ f[n] = g[n]
      BY <1>2, <2>1
  <2>3. QED
      BY <2>2
<1>3. Nat \subseteq S
  <2> HIDE DEF S
  <2>1. QED
      BY <1>1, <1>2, SetInduction
<1>4. QED
    BY <1>3

-----------------------------------------------------------------------------
(* A row goes, or comes.                                                   *)

\* Taking a row out: the rows before it stay where they are, the rows behind
\* it move up by one.
LEMMA RemoveAtProperties ==
    ASSUME NEW S, NEW s \in Seq(S), NEW i \in 1..Len(s)
    PROVE  /\ RemoveAt(s, i) \in Seq(S)
           /\ Len(RemoveAt(s, i)) = Len(s) - 1
           /\ \A j \in 1..(Len(s) - 1) :
                 RemoveAt(s, i)[j] = IF j < i THEN s[j] ELSE s[j + 1]
<1> DEFINE front == SubSeq(s, 1, i - 1)
           back  == SubSeq(s, i + 1, Len(s))
<1>0. Len(s) \in Nat
    BY LenProperties
<1>1. /\ front \in Seq(S) /\ Len(front) = i - 1
      /\ \A j \in 1..(i - 1) : front[j] = s[j]
    <2>1. \A j \in 1..(i - 1) : s[j] \in S
        BY <1>0, ElementOfSeq
    <2>2. /\ front \in Seq(S) /\ Len(front) = i - 1
          /\ \A j \in 1..((i - 1) - 1 + 1) : front[j] = s[1 + j - 1]
        BY <1>0, <2>1, SubSeqProperties
    <2>3. QED
        BY <1>0, <2>2
<1>2. /\ back \in Seq(S) /\ Len(back) = Len(s) - i
      /\ \A j \in 1..(Len(s) - i) : back[j] = s[i + j]
    <2>1. \A j \in (i + 1)..Len(s) : s[j] \in S
        BY <1>0, ElementOfSeq
    <2>2. /\ back \in Seq(S) /\ Len(back) = Len(s) - i
          /\ \A j \in 1..(Len(s) - (i + 1) + 1) : back[j] = s[(i + 1) + j - 1]
        BY <1>0, <2>1, SubSeqProperties
    <2>3. QED
        BY <1>0, <2>2
<1>3. RemoveAt(s, i) = front \o back
    BY DEF RemoveAt
<1> HIDE DEF front, back
<1>4. /\ front \o back \in Seq(S) /\ Len(front \o back) = Len(front) + Len(back)
      /\ \A j \in 1..(Len(front) + Len(back)) :
            (front \o back)[j] = IF j <= Len(front) THEN front[j]
                                 ELSE back[j - Len(front)]
    BY <1>1, <1>2, ConcatProperties
<1>5. ASSUME NEW j \in 1..(Len(s) - 1)
      PROVE  (front \o back)[j] = IF j < i THEN s[j] ELSE s[j + 1]
    <2>0. j \in 1..(Len(front) + Len(back))
        BY <1>0, <1>1, <1>2
    <2>1. CASE j < i
        BY <1>0, <1>1, <1>4, <2>0, <2>1
    <2>2. CASE ~(j < i)
        <3>1. (front \o back)[j] = back[j - (i - 1)]
            BY <1>0, <1>1, <1>4, <2>0, <2>2
        <3>2. j - (i - 1) \in 1..(Len(s) - i) /\ i + (j - (i - 1)) = j + 1
            BY <1>0, <2>2
        <3>3. QED
            BY <1>2, <2>2, <3>1, <3>2
    <2>3. QED
        BY <2>1, <2>2
<1>6. RemoveAt(s, i) \in Seq(S)
    BY <1>3, <1>4
<1>7. Len(RemoveAt(s, i)) = Len(s) - 1
  <2>1. Len(RemoveAt(s, i)) = (i - 1) + (Len(s) - i)
      BY <1>1, <1>2, <1>3, <1>4
  <2>2. QED
      BY <1>0, <2>1
<1>8. \A j \in 1..(Len(s) - 1) :
         RemoveAt(s, i)[j] = IF j < i THEN s[j] ELSE s[j + 1]
    BY <1>3, <1>5, Zenon
<1>9. QED
    BY <1>6, <1>7, <1>8, Zenon

\* Putting a row in: the rows before it stay where they are, the rows from
\* there on move down by one.
LEMMA InsertAtProperties ==
    ASSUME NEW S, NEW s \in Seq(S), NEW i \in 1..(Len(s) + 1), NEW e \in S
    PROVE  /\ InsertAt(s, i, e) \in Seq(S)
           /\ Len(InsertAt(s, i, e)) = Len(s) + 1
           /\ \A j \in 1..(Len(s) + 1) :
                 InsertAt(s, i, e)[j] = IF j < i THEN s[j]
                                        ELSE IF j = i THEN e ELSE s[j - 1]
<1> DEFINE front == SubSeq(s, 1, i - 1)
           back  == SubSeq(s, i, Len(s))
           head  == front \o <<e>>
<1>0. Len(s) \in Nat
    BY LenProperties
<1>1. /\ front \in Seq(S) /\ Len(front) = i - 1
      /\ \A j \in 1..(i - 1) : front[j] = s[j]
    <2>1. \A j \in 1..(i - 1) : s[j] \in S
        BY <1>0, ElementOfSeq
    <2>2. /\ front \in Seq(S) /\ Len(front) = i - 1
          /\ \A j \in 1..((i - 1) - 1 + 1) : front[j] = s[1 + j - 1]
        BY <1>0, <2>1, SubSeqProperties
    <2>3. QED
        BY <1>0, <2>2
<1>2. /\ back \in Seq(S) /\ Len(back) = Len(s) + 1 - i
      /\ \A j \in 1..(Len(s) + 1 - i) : back[j] = s[i + j - 1]
    <2>1. \A j \in i..Len(s) : s[j] \in S
        BY <1>0, ElementOfSeq
    <2>2. /\ back \in Seq(S) /\ Len(back) = Len(s) + 1 - i
          /\ \A j \in 1..(Len(s) - i + 1) : back[j] = s[i + j - 1]
        BY <1>0, <2>1, SubSeqProperties
    <2>3. QED
        BY <1>0, <2>2
<1>3. InsertAt(s, i, e) = head \o back
    BY DEF InsertAt
<1> HIDE DEF front, back
<1>4. head \in Seq(S) /\ Len(head) = i /\ head[i] = e
      /\ \A j \in 1..(i - 1) : head[j] = s[j]
    <2>1. <<e>> \in Seq(S) /\ Len(<<e>>) = 1 /\ <<e>>[1] = e
        OBVIOUS
    <2> DEFINE one == <<e>>
    <2> HIDE DEF one
    <2>2. one \in Seq(S) /\ Len(one) = 1 /\ one[1] = e
        BY <2>1 DEF one
    <2>3. /\ front \o one \in Seq(S) /\ Len(front \o one) = Len(front) + Len(one)
          /\ \A j \in 1..(Len(front) + Len(one)) :
                (front \o one)[j] = IF j <= Len(front) THEN front[j]
                                    ELSE one[j - Len(front)]
        BY <1>1, <2>2, ConcatProperties
    <2>4. /\ front \o one \in Seq(S) /\ Len(front \o one) = i
          /\ (front \o one)[i] = e
          /\ \A j \in 1..(i - 1) : (front \o one)[j] = s[j]
        BY <1>0, <1>1, <2>2, <2>3
    <2>5. QED
        BY <2>4 DEF one
<1> HIDE DEF head
<1>5. /\ head \o back \in Seq(S) /\ Len(head \o back) = Len(head) + Len(back)
      /\ \A j \in 1..(Len(head) + Len(back)) :
            (head \o back)[j] = IF j <= Len(head) THEN head[j]
                                ELSE back[j - Len(head)]
    BY <1>2, <1>4, ConcatProperties
<1>6. ASSUME NEW j \in 1..(Len(s) + 1)
      PROVE  (head \o back)[j] = IF j < i THEN s[j] ELSE IF j = i THEN e ELSE s[j - 1]
    <2>0. j \in 1..(Len(head) + Len(back))
        BY <1>0, <1>2, <1>4
    <2>1. CASE j < i
        BY <1>0, <1>4, <1>5, <2>0, <2>1
    <2>2. CASE j = i
        BY <1>0, <1>4, <1>5, <2>0, <2>2
    <2>3. CASE j > i
        <3>1. (head \o back)[j] = back[j - i]
            BY <1>0, <1>4, <1>5, <2>0, <2>3
        <3>2. j - i \in 1..(Len(s) + 1 - i) /\ i + (j - i) - 1 = j - 1
            BY <1>0, <2>3
        <3>3. QED
            BY <1>2, <2>3, <3>1, <3>2
    <2>4. j < i \/ j = i \/ j > i
        BY <1>0
    <2>5. QED
        BY <2>1, <2>2, <2>3, <2>4, Zenon
<1>7. Len(head \o back) = Len(s) + 1
    BY <1>0, <1>2, <1>4, <1>5
<1>8. InsertAt(s, i, e) \in Seq(S) /\ Len(InsertAt(s, i, e)) = Len(s) + 1
    BY <1>3, <1>5, <1>7, Zenon
<1>9. \A j \in 1..(Len(s) + 1) :
         InsertAt(s, i, e)[j] = IF j < i THEN s[j]
                                ELSE IF j = i THEN e ELSE s[j - 1]
    BY <1>3, <1>6, Zenon
<1>10. QED
    BY <1>8, <1>9, Zenon

\* Rows that were distinct still are when one of them goes.
LEMMA RemoveAtDistinct ==
    ASSUME NEW S, NEW s \in Seq(S), NEW i \in 1..Len(s), IsInjective(s)
    PROVE  IsInjective(RemoveAt(s, i))
<1> DEFINE t == RemoveAt(s, i)
<1>0. Len(s) \in Nat /\ DOMAIN s = 1..Len(s)
    BY LenProperties
<1>1. /\ t \in Seq(S) /\ Len(t) = Len(s) - 1
      /\ \A j \in 1..(Len(s) - 1) : t[j] = IF j < i THEN s[j] ELSE s[j + 1]
    BY RemoveAtProperties
<1> HIDE DEF t
<1>2. DOMAIN t = 1..(Len(s) - 1)
    BY <1>1, LenProperties
<1>3. ASSUME NEW j \in DOMAIN t, NEW k \in DOMAIN t, t[j] = t[k]
      PROVE  j = k
    <2>1. ASSUME NEW m \in 1..Len(s), NEW n \in 1..Len(s), s[m] = s[n]
          PROVE  m = n
        BY <1>0, <2>1 DEF IsInjective
    <2>2. PICK m \in 1..Len(s) : t[j] = s[m] /\ m = IF j < i THEN j ELSE j + 1
        BY <1>0, <1>1, <1>2
    <2>3. PICK n \in 1..Len(s) : t[k] = s[n] /\ n = IF k < i THEN k ELSE k + 1
        BY <1>0, <1>1, <1>2
    <2>4. m = n
        BY <1>3, <2>1, <2>2, <2>3
    <2>5. QED
        BY <1>2, <2>2, <2>3, <2>4
<1>4. QED
    BY <1>3 DEF IsInjective, t

\* So they are when a row comes that was not among them.
LEMMA InsertAtDistinct ==
    ASSUME NEW S, NEW s \in Seq(S), NEW i \in 1..(Len(s) + 1), NEW e \in S,
           IsInjective(s), ~Contains(s, e)
    PROVE  IsInjective(InsertAt(s, i, e))
<1> DEFINE t == InsertAt(s, i, e)
<1>0. Len(s) \in Nat /\ DOMAIN s = 1..Len(s)
    BY LenProperties
<1>1. /\ t \in Seq(S) /\ Len(t) = Len(s) + 1
      /\ \A j \in 1..(Len(s) + 1) :
            t[j] = IF j < i THEN s[j] ELSE IF j = i THEN e ELSE s[j - 1]
    BY InsertAtProperties
<1> HIDE DEF t
<1>2. DOMAIN t = 1..(Len(s) + 1)
    BY <1>1, LenProperties
<1>3. ASSUME NEW j \in DOMAIN t, NEW k \in DOMAIN t, t[j] = t[k]
      PROVE  j = k
    <2>1. ASSUME NEW m \in 1..Len(s), NEW n \in 1..Len(s), s[m] = s[n]
          PROVE  m = n
        BY <1>0, <2>1 DEF IsInjective
    <2>2. \A m \in 1..Len(s) : s[m] # e
        BY DEF Contains
    <2>3. ASSUME NEW m \in DOMAIN t, m # i
          PROVE  \E n \in 1..Len(s) : t[m] = s[n] /\ n = IF m < i THEN m ELSE m - 1
        BY <1>0, <1>1, <1>2, <2>3
    <2>4. t[i] = e
        BY <1>0, <1>1
    <2>5. CASE j = i \/ k = i
        BY <1>3, <2>2, <2>3, <2>4, <2>5
    <2>6. CASE j # i /\ k # i
        <3>1. PICK m \in 1..Len(s) : t[j] = s[m] /\ m = IF j < i THEN j ELSE j - 1
            BY <2>3, <2>6
        <3>2. PICK n \in 1..Len(s) : t[k] = s[n] /\ n = IF k < i THEN k ELSE k - 1
            BY <2>3, <2>6
        <3>3. m = n
            BY <1>3, <2>1, <3>1, <3>2
        <3>4. QED
            BY <1>2, <2>6, <3>1, <3>2, <3>3
    <2>7. QED
        BY <2>5, <2>6
<1>4. QED
    BY <1>3 DEF IsInjective, t

-----------------------------------------------------------------------------
(* Pages.                                                                  *)

\* A window lies within the data: its rows are rows of the data, in order
\* from the offset on, and it only is shorter than the limit at their end.
LEMMA WindowProperties ==
    ASSUME NEW S, NEW data \in Seq(S), NEW offset \in Nat, NEW limit \in Nat \ {0}
    PROVE  /\ Window(data, offset, limit) \in Seq(S)
           /\ Len(Window(data, offset, limit)) \in 0..limit
           /\ \A j \in 1..Len(Window(data, offset, limit)) :
                 /\ offset + j <= Len(data)
                 /\ Window(data, offset, limit)[j] = data[offset + j]
           /\ Len(Window(data, offset, limit)) = 0 => Len(data) <= offset
           /\ Len(Window(data, offset, limit)) < limit =>
                 Len(data) <= offset + Len(Window(data, offset, limit))
<1> DEFINE last == IF offset + limit <= Len(data) THEN offset + limit ELSE Len(data)
           w    == SubSeq(data, offset + 1, last)
<1>0. Len(data) \in Nat
    BY LenProperties
<1>1. last \in Nat /\ last <= Len(data) /\ last <= offset + limit
      /\ (last <= offset => Len(data) <= offset)
      /\ (last < offset + limit => last = Len(data))
    BY <1>0
<1>2. w = Window(data, offset, limit)
    BY DEF Window
<1> HIDE DEF last
<1>3. \A j \in (offset + 1)..last : data[j] \in S
    BY <1>0, <1>1, ElementOfSeq
<1>4. /\ w \in Seq(S)
      /\ Len(w) = IF offset + 1 <= last THEN last - (offset + 1) + 1 ELSE 0
      /\ \A j \in 1..(last - (offset + 1) + 1) : w[j] = data[(offset + 1) + j - 1]
    BY <1>1, <1>3, SubSeqProperties
<1> HIDE DEF w
<1>5. /\ Len(w) \in 0..limit
      /\ Len(w) = 0 => Len(data) <= offset
      /\ Len(w) < limit => Len(data) <= offset + Len(w)
      /\ \A j \in 1..Len(w) : offset + j <= Len(data) /\ w[j] = data[offset + j]
    <2>1. /\ Len(w) \in 0..limit
          /\ Len(w) = 0 => Len(data) <= offset
          /\ Len(w) < limit => Len(data) <= offset + Len(w)
        BY <1>0, <1>1, <1>4
    <2>2. ASSUME NEW j \in 1..Len(w)
          PROVE  offset + j <= Len(data) /\ w[j] = data[offset + j]
        <3>1. j \in 1..(last - (offset + 1) + 1) /\ offset + j <= Len(data)
            BY <1>0, <1>1, <1>4
        <3>2. (offset + 1) + j - 1 = offset + j
            OBVIOUS
        <3>3. QED
            BY <1>4, <3>1, <3>2
    <2>3. QED
        BY <2>1, <2>2
<1>6. QED
    BY <1>2, <1>4, <1>5

\* Where a window lies, and that it is only empty behind the end.
LEMMA WindowPlace ==
    ASSUME NEW S, NEW data \in Seq(S), NEW offset \in Nat, NEW limit \in Nat \ {0}
    PROVE  /\ \A j \in 1..Len(Window(data, offset, limit)) : offset + j <= Len(data)
           /\ Len(Window(data, offset, limit)) = 0 => Len(data) <= offset
BY WindowProperties

\* What is left of the data from an offset on.
LEMMA RestProperties ==
    ASSUME NEW S, NEW data \in Seq(S), NEW offset \in Nat
    PROVE  LET rest == SubSeq(data, offset + 1, Len(data))
           IN  /\ rest \in Seq(S)
               /\ Len(rest) = IF offset < Len(data) THEN Len(data) - offset ELSE 0
               /\ \A k \in 1..Len(rest) : rest[k] = data[offset + k]
<1> DEFINE rest == SubSeq(data, offset + 1, Len(data))
<1>0. Len(data) \in Nat
    BY LenProperties
<1>1. \A i \in (offset + 1)..Len(data) : data[i] \in S
    BY <1>0, ElementOfSeq
<1>2. /\ rest \in Seq(S)
      /\ Len(rest) = IF offset + 1 <= Len(data) THEN Len(data) - (offset + 1) + 1
                     ELSE 0
      /\ \A i \in 1..(Len(data) - (offset + 1) + 1) :
            rest[i] = data[(offset + 1) + i - 1]
    BY <1>0, <1>1, SubSeqProperties
<1> HIDE DEF rest
<1>3. Len(rest) = IF offset < Len(data) THEN Len(data) - offset ELSE 0
    BY <1>0, <1>2
<1>4. ASSUME NEW k \in 1..Len(rest)
      PROVE  rest[k] = data[offset + k]
    <2>1. k \in 1..(Len(data) - (offset + 1) + 1) /\ (offset + 1) + k - 1 = offset + k
        BY <1>0, <1>3
    <2>2. QED
        BY <1>2, <2>1
<1>5. QED
    BY <1>2, <1>3, <1>4 DEF rest

-----------------------------------------------------------------------------
(* The rows behind an offset, which is all that is still to come of them.  *)

RowsBehind(data, offset) == {data[j] : j \in (offset + 1)..Len(data)}

\* A row that goes makes no other row come behind an offset.
LEMMA BehindRemoveAt ==
    ASSUME NEW S, NEW s \in Seq(S), NEW i \in 1..Len(s), NEW offset \in Nat
    PROVE  RowsBehind(RemoveAt(s, i), offset) \subseteq RowsBehind(s, offset)
<1> DEFINE t == RemoveAt(s, i)
<1>0. Len(s) \in Nat
    BY LenProperties
<1>1. /\ Len(t) = Len(s) - 1
      /\ \A j \in 1..(Len(s) - 1) : t[j] = IF j < i THEN s[j] ELSE s[j + 1]
    BY RemoveAtProperties
<1> HIDE DEF t
<1>2. ASSUME NEW j \in (offset + 1)..Len(t)
      PROVE  t[j] \in RowsBehind(s, offset)
    <2>1. PICK m \in {j, j + 1} : t[j] = s[m]
        BY <1>0, <1>1
    <2>2. m \in (offset + 1)..Len(s)
        BY <1>0, <1>1, <2>1
    <2>3. QED
        BY <2>1, <2>2 DEF RowsBehind
<1>3. RowsBehind(t, offset) \subseteq RowsBehind(s, offset)
    BY <1>2 DEF RowsBehind
<1>4. QED
    BY <1>3 DEF t

\* A row that comes makes no other row leave from behind an offset.
LEMMA BehindInsertAt ==
    ASSUME NEW S, NEW s \in Seq(S), NEW i \in 1..(Len(s) + 1), NEW e \in S,
           NEW offset \in Nat
    PROVE  RowsBehind(s, offset) \subseteq RowsBehind(InsertAt(s, i, e), offset)
<1> DEFINE t == InsertAt(s, i, e)
<1>0. Len(s) \in Nat
    BY LenProperties
<1>1. /\ Len(t) = Len(s) + 1
      /\ \A j \in 1..(Len(s) + 1) :
            t[j] = IF j < i THEN s[j] ELSE IF j = i THEN e ELSE s[j - 1]
    BY InsertAtProperties
<1> HIDE DEF t
<1>2. ASSUME NEW j \in (offset + 1)..Len(s)
      PROVE  s[j] \in RowsBehind(t, offset)
    <2>1. PICK m \in {j, j + 1} : t[m] = s[j]
        <3>1. CASE j < i
            BY <1>0, <1>1, <3>1
        <3>2. CASE ~(j < i)
            <4>1. j + 1 \in 1..(Len(s) + 1) /\ ~(j + 1 < i) /\ j + 1 # i
                  /\ (j + 1) - 1 = j
                BY <1>0, <3>2
            <4>2. t[j + 1] = s[j]
                BY <1>1, <4>1
            <4>3. QED
                BY <4>2
        <3>3. QED
            BY <3>1, <3>2
    <2>2. m \in (offset + 1)..Len(t)
        BY <1>0, <1>1, <2>1
    <2>3. QED
        BY <2>1, <2>2 DEF RowsBehind
<1>3. RowsBehind(s, offset) \subseteq RowsBehind(t, offset)
    BY <1>2 DEF RowsBehind
<1>4. QED
    BY <1>3 DEF t

\* A page takes the first of the rows behind its offset and leaves the others
\* there, each row once.
LEMMA WindowOfBehind ==
    ASSUME NEW S, NEW data \in Seq(S), NEW offset \in Nat, NEW limit \in Nat \ {0},
           IsInjective(data)
    PROVE  LET window == Window(data, offset, limit)
               taken  == {window[j] : j \in 1..Len(window)}
               rest   == RowsBehind(data, offset + Len(window))
           IN  /\ RowsBehind(data, offset) = taken \cup rest
               /\ taken \cap rest = {}
               /\ \A i, j \in 1..Len(window) : window[i] = window[j] => i = j
<1> DEFINE window == Window(data, offset, limit)
           size   == Len(window)
           taken  == {window[j] : j \in 1..size}
           rest   == RowsBehind(data, offset + size)
<1>0. Len(data) \in Nat
    BY LenProperties
<1>1. /\ size \in Nat
      /\ \A j \in 1..size :
            offset + j <= Len(data) /\ window[j] = data[offset + j]
    BY WindowProperties
<1> HIDE DEF window, size
<1>2. \A i, j \in 1..Len(data) : data[i] = data[j] => i = j
    <2>1. DOMAIN data = 1..Len(data)
        BY LenProperties
    <2>2. QED
        BY <2>1 DEF IsInjective
<1>3. taken = {data[offset + j] : j \in 1..size}
    BY <1>1
<1>4. rest = {data[j] : j \in (offset + size + 1)..Len(data)}
    BY DEF RowsBehind
<1>5. size > 0 => offset + size <= Len(data)
    BY <1>1
<1> HIDE DEF taken, rest
<1>6. RowsBehind(data, offset) = taken \cup rest
    <2>1. ASSUME NEW j \in (offset + 1)..Len(data)
          PROVE  data[j] \in taken \cup rest
        <3>1. CASE j <= offset + size
            <4>1. j - offset \in 1..size /\ offset + (j - offset) = j
                BY <1>0, <1>1, <3>1
            <4>2. QED
                BY <1>3, <4>1
        <3>2. CASE j > offset + size
            BY <1>0, <1>1, <1>4, <3>2
        <3>3. QED
            BY <1>0, <1>1, <3>1, <3>2
    <2>2. ASSUME NEW j \in 1..size
          PROVE  data[offset + j] \in RowsBehind(data, offset)
        BY <1>0, <1>1, <1>5 DEF RowsBehind
    <2>3. rest \subseteq RowsBehind(data, offset)
        BY <1>0, <1>1, <1>4 DEF RowsBehind
    <2>4. QED
        BY <1>3, <2>1, <2>2, <2>3 DEF RowsBehind
<1>7. taken \cap rest = {}
    <2>1. ASSUME NEW i \in 1..size, NEW j \in (offset + size + 1)..Len(data)
          PROVE  data[offset + i] # data[j]
        BY <1>0, <1>1, <1>2, <1>5
    <2>2. QED
        BY <1>3, <1>4, <2>1
<1>8. ASSUME NEW i \in 1..size, NEW j \in 1..size, window[i] = window[j]
      PROVE  i = j
    <2>1. offset + i \in 1..Len(data) /\ offset + j \in 1..Len(data)
        BY <1>0, <1>1, <1>5
    <2>2. offset + i = offset + j
        BY <1>1, <1>2, <1>8, <2>1
    <2>3. QED
        BY <1>1, <2>2
<1>9. QED
    BY <1>6, <1>7, <1>8 DEF window, size, taken, rest

\* One more row at the end of a sequence is one more in its set, and keeps rows
\* that are all different so if it is not one of them.
LEMMA AppendRows ==
    ASSUME NEW S, NEW s \in Seq(S), NEW e \in S
    PROVE  /\ RowsBehind(Append(s, e), 0) = RowsBehind(s, 0) \cup {e}
           /\ IsInjective(s) /\ e \notin RowsBehind(s, 0) => IsInjective(Append(s, e))
<1> DEFINE t == Append(s, e)
           last == Len(s) + 1
<1>0. Len(s) \in Nat /\ DOMAIN s = 1..Len(s)
    BY LenProperties
<1>1. /\ t \in Seq(S) /\ Len(t) = last /\ t[last] = e
      /\ \A k \in 1..Len(s) : t[k] = s[k]
    BY AppendProperties
<1>2. DOMAIN t = 1..last
    BY <1>1, LenProperties
<1> HIDE DEF t
<1>3. 1..last = (1..Len(s)) \cup {last}
    BY <1>0
<1>4. RowsBehind(t, 0) = {t[k] : k \in 1..last}
    BY <1>1 DEF RowsBehind
<1>5. RowsBehind(s, 0) = {s[k] : k \in 1..Len(s)}
    BY DEF RowsBehind
<1> HIDE DEF last
<1>6. RowsBehind(t, 0) = RowsBehind(s, 0) \cup {e}
    BY <1>1, <1>3, <1>4, <1>5
<1>7. ASSUME IsInjective(s), e \notin RowsBehind(s, 0)
      PROVE  IsInjective(t)
    <2>1. \A i, j \in 1..Len(s) : s[i] = s[j] => i = j
        BY <1>0, <1>7 DEF IsInjective
    <2>2. \A k \in 1..Len(s) : s[k] # e
        BY <1>5, <1>7
    <2>3. ASSUME NEW i \in 1..last, NEW j \in 1..last, t[i] = t[j]
          PROVE  i = j
        <3>1. CASE i \in 1..Len(s) /\ j \in 1..Len(s)
            BY <1>1, <2>1, <2>3, <3>1
        <3>2. CASE i = last /\ j \in 1..Len(s)
            BY <1>1, <2>2, <2>3, <3>2
        <3>3. CASE j = last /\ i \in 1..Len(s)
            BY <1>1, <2>2, <2>3, <3>3
        <3>4. QED
            BY <1>3, <2>3, <3>1, <3>2, <3>3
    <2>4. QED
        BY <1>2, <2>3 DEF IsInjective
<1>8. QED
    BY <1>6, <1>7 DEF t

\* The next row behind an offset, and the others.
LEMMA NextOfBehind ==
    ASSUME NEW S, NEW s \in Seq(S), NEW offset \in Nat, offset < Len(s)
    PROVE  /\ RowsBehind(s, offset) = RowsBehind(s, offset + 1) \cup {s[offset + 1]}
           /\ (\A i, j \in (offset + 1)..Len(s) : s[i] = s[j] => i = j) =>
                 s[offset + 1] \notin RowsBehind(s, offset + 1)
<1>0. Len(s) \in Nat
    BY LenProperties
<1>1. (offset + 1)..Len(s) = ((offset + 2)..Len(s)) \cup {offset + 1}
    BY <1>0
<1>2. RowsBehind(s, offset + 1) = {s[j] : j \in (offset + 2)..Len(s)}
    BY DEF RowsBehind
<1>3. RowsBehind(s, offset) = RowsBehind(s, offset + 1) \cup {s[offset + 1]}
    BY <1>1, <1>2 DEF RowsBehind
<1>4. ASSUME \A i, j \in (offset + 1)..Len(s) : s[i] = s[j] => i = j
      PROVE  s[offset + 1] \notin RowsBehind(s, offset + 1)
    <2>1. \A j \in (offset + 2)..Len(s) : s[j] # s[offset + 1]
        BY <1>0, <1>4
    <2>2. QED
        BY <1>2, <2>1
<1>5. QED
    BY <1>3, <1>4

=============================================================================
