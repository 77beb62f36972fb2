--------------------------- MODULE EnforcementProofs ---------------------------
(***************************************************************************)
(* Theorems about HttpSend and EnforcementRun, for every MAX_RETRIES, all  *)
(* arguments a Runner may be made with, and any number of requests and of  *)
(* changes of what the server counts.                                      *)
(***************************************************************************)
EXTENDS EnforcementRun, FiniteSetTheorems, SequenceTheorems, TLAPS

-----------------------------------------------------------------------------
(* The inductive invariant of HttpSend.                                    *)

\* The copies of requests that were ever put on the network.
Copies == network \cup {handled[i] : i \in DOMAIN handled}

\* No copy is of a call to come, of an attempt to come, or one too many.
CopiesWereSent ==
    \A c \in Copies :
        /\ c.call \in 1..calls
        /\ c.attempt \in 0..(AtLeastOne(max_retries) - 1)
        /\ c.call = calls => c.attempt <= attempt

\* An attempt sends one copy, and the server handles each copy once.
OneCopyEach ==
    /\ \A c, d \in Copies : c.call = d.call /\ c.attempt = d.attempt => c = d
    /\ \A i, j \in DOMAIN handled : handled[i] = handled[j] => i = j
    /\ \A i \in DOMAIN handled : handled[i] \notin network

\* There is only a further attempt after one that failed.
FurtherFailed == \A c \in Copies : c.attempt > 0 => c.call \in failed

\* A call that is under way has not returned, and backs off to try again.
UnderWay ==
    /\ calls >= 1 => max_retries >= 1
    /\ http # "idle" => calls >= 1 /\ kind \in Kinds /\ calls \notin answered
    /\ http = "sleep" =>
          calls \in failed /\ attempt < max_retries - 1 /\ answer = << >>

\* Who gets an answer was handled.
AnsweredHandled ==
    /\ http = "wait" /\ answer # << >> => HandlingsOf(calls) # {}
    /\ answered \subseteq 1..calls

\* A call that returned has been handled before every later call.
ReturnedFirst ==
    \A n \in answered : \E i \in HandlingsOf(n) :
        \A j \in DOMAIN handled : handled[j].call > n => i < j

\* LAST_REQUEST is of the latest call, LAST_RESPONSE of the last that returned.
LastOnes ==
    /\ last_request = calls
    /\ calls \in answered => last_response = calls
    /\ last_response # 0 => last_response \in answered

HttpInv ==
    /\ HttpTypeOK
    /\ CopiesWereSent
    /\ OneCopyEach
    /\ FurtherFailed
    /\ UnderWay
    /\ AnsweredHandled
    /\ ReturnedFirst
    /\ LastOnes

-----------------------------------------------------------------------------
\* What a step of a Runner does to HttpSend.
HttpStep ==
    \/ \E k \in Kinds : Call(k)
    \/ Return
    \/ Raise
    \/ BackOff
    \/ Retry
    \/ \E c \in network, reply \in Answer : Handle(c, reply)
    \/ UNCHANGED httpVars

\* The copy that a new call sends.
FirstCopy(k) == [call |-> calls + 1, kind |-> k, attempt |-> 0]

\* The copy that a retry sends.
NextCopy == [ThisCopy EXCEPT !.attempt = attempt + 1]

LEMMA CopiesTyped ==
    ASSUME HttpTypeOK
    PROVE  /\ Copies \subseteq Copy
           /\ \A i \in DOMAIN handled : handled[i] \in Copies
           /\ DOMAIN handled = 1..Len(handled) /\ Len(handled) \in Nat
<1>1. DOMAIN handled = 1..Len(handled) /\ Len(handled) \in Nat
    BY DEF HttpTypeOK
<1>2. \A i \in DOMAIN handled : handled[i] \in Copy
    BY DEF HttpTypeOK
<1>3. QED
    BY <1>1, <1>2 DEF Copies, HttpTypeOK

\* What handling a copy adds to the record of the server.
LEMMA HandleAppends ==
    ASSUME HttpTypeOK, NEW c \in network, NEW reply, Handle(c, reply)
    PROVE  /\ DOMAIN handled' = 1..(Len(handled) + 1)
           /\ Len(handled') = Len(handled) + 1
           /\ \A i \in 1..Len(handled) : handled'[i] = handled[i]
           /\ handled'[Len(handled) + 1] = c
           /\ handled' \in Seq(Copy)
           /\ Copies' = Copies
<1>1. handled \in Seq(Copy) /\ c \in Copy /\ handled' = Append(handled, c)
    BY DEF HttpTypeOK, Handle
<1>2. /\ handled' \in Seq(Copy)
      /\ Len(handled') = Len(handled) + 1
      /\ \A i \in 1..Len(handled) : handled'[i] = handled[i]
      /\ handled'[Len(handled) + 1] = c
    BY <1>1, AppendProperties
<1>3. DOMAIN handled' = 1..(Len(handled) + 1) /\ DOMAIN handled = 1..Len(handled)
      /\ Len(handled) \in Nat
    BY <1>1, <1>2
<1>4. \A x : x \in Copies' <=> x \in Copies
    <2>1. \A i \in DOMAIN handled' : i \in DOMAIN handled \/ i = Len(handled) + 1
        BY <1>3
    <2>2. \A i \in DOMAIN handled : i \in DOMAIN handled' /\ handled'[i] = handled[i]
        BY <1>2, <1>3
    <2>3. Len(handled) + 1 \in DOMAIN handled'
        BY <1>3
    <2>4. network' = network \ {c}
        BY DEF Handle
    <2>5. QED
        BY <1>2, <2>1, <2>2, <2>3, <2>4 DEF Copies
<1>5. QED
    BY <1>2, <1>3, <1>4

\* What a call or a retry adds to the copies, and that nothing else does.
LEMMA CopiesStep ==
    /\ \A k : Call(k) => Copies' = Copies \cup {FirstCopy(k)}
    /\ Retry => Copies' = Copies \cup {NextCopy}
    /\ Return \/ Raise \/ BackOff \/ UNCHANGED httpVars =>
          Copies' = Copies /\ UNCHANGED <<handled, network>>
<1>1. ASSUME NEW k, Call(k) PROVE Copies' = Copies \cup {FirstCopy(k)}
    BY <1>1 DEF Call, Copies, FirstCopy
<1>2. Retry => Copies' = Copies \cup {NextCopy}
    BY DEF Retry, Copies, NextCopy
<1>3. Return \/ Raise \/ BackOff \/ UNCHANGED httpVars =>
          Copies' = Copies /\ UNCHANGED <<handled, network>>
    BY DEF Return, Raise, BackOff, httpVars, Copies
<1>4. QED
    BY <1>1, <1>2, <1>3

LEMMA HttpInitInv == HttpInit => HttpInv
<1> SUFFICES ASSUME HttpInit PROVE HttpInv
    OBVIOUS
<1>1. HttpTypeOK
    <2>1. << >> \in Seq(Answer) /\ Len(<< >>) = 0 /\ << >> \in Seq(Copy)
        OBVIOUS
    <2>2. max_retries \in Int /\ 0 \in 0..(AtLeastOne(max_retries) - 1)
        BY HttpSendAssumption DEF HttpInit, AtLeastOne
    <2>3. QED
        BY <2>1, <2>2 DEF HttpInit, HttpTypeOK
<1>2. DOMAIN handled = {} /\ Copies = {}
    <2>1. handled = << >> /\ network = {}
        BY DEF HttpInit
    <2>2. DOMAIN << >> = {}
        OBVIOUS
    <2>3. QED
        BY <2>1, <2>2 DEF Copies
<1>3. CopiesWereSent /\ OneCopyEach /\ FurtherFailed
    BY <1>2 DEF CopiesWereSent, OneCopyEach, FurtherFailed
<1>4. UnderWay /\ AnsweredHandled /\ ReturnedFirst /\ LastOnes
    BY DEF HttpInit, UnderWay, AnsweredHandled, ReturnedFirst, LastOnes
<1>5. QED
    BY <1>1, <1>3, <1>4 DEF HttpInv

LEMMA HttpTypeNext ==
    ASSUME HttpInv, HttpStep
    PROVE  HttpTypeOK'
<1> USE DEF HttpInv, HttpTypeOK
<1>1. max_retries \in Int /\ (max_retries >= 1 => AtLeastOne(max_retries) = max_retries)
      /\ AtLeastOne(max_retries) \in Nat \ {0}
      /\ AtLeastOne(AtLeastOne(max_retries)) = AtLeastOne(max_retries)
    BY DEF AtLeastOne
<1>2. ASSUME NEW k \in Kinds, Call(k) PROVE HttpTypeOK'
    <2>1. FirstCopy(k) \in Copy
        BY DEF FirstCopy, Copy
    <2>2. network' \in SUBSET Copy
        BY <1>2, <2>1 DEF Call, FirstCopy
    <2>3. answer' \in Seq(Answer) /\ Len(answer') <= 1
        <3>1. << >> \in Seq(Answer) /\ Len(<< >>) = 0
            OBVIOUS
        <3>2. QED
            BY <1>2, <3>1 DEF Call
    <2>4. attempt' \in 0..(AtLeastOne(max_retries') - 1) /\ max_retries' \in Int
        BY <1>1, <1>2 DEF Call
    <2>5. QED
        BY <1>2, <2>2, <2>3, <2>4 DEF Call
<1>3. CASE Return
    BY <1>3 DEF Return
<1>4. CASE Raise
    BY <1>4 DEF Raise
<1>5. CASE BackOff
    <2>1. answer' \in Seq(Answer) /\ Len(answer') <= 1
        <3>1. << >> \in Seq(Answer) /\ Len(<< >>) = 0
            OBVIOUS
        <3>2. QED
            BY <1>5, <3>1 DEF BackOff
    <2>2. QED
        BY <1>5, <2>1 DEF BackOff
<1>6. CASE Retry
    <2>1. attempt + 1 \in 0..(AtLeastOne(max_retries) - 1)
        BY <1>1, <1>6 DEF Retry, UnderWay
    <2>2. NextCopy \in Copy
        <3>1. calls \in Nat \ {0} /\ kind \in Kinds
            BY <1>6 DEF Retry, UnderWay
        <3>2. QED
            BY <2>1, <3>1 DEF NextCopy, ThisCopy, Copy
    <2>3. network' = network \cup {NextCopy}
        BY <1>6 DEF Retry, NextCopy
    <2>4. network' \in SUBSET Copy
        BY <2>2, <2>3
    <2>5. QED
        BY <1>6, <2>1, <2>4 DEF Retry
<1>7. ASSUME NEW c \in network, NEW reply \in Answer, Handle(c, reply)
      PROVE  HttpTypeOK'
    <2>1. handled' \in Seq(Copy)
        BY <1>7, HandleAppends
    <2>2. answer' \in Seq(Answer) /\ Len(answer') <= 1
        <3>1. <<reply>> \in Seq(Answer) /\ Len(<<reply>>) <= 1
            OBVIOUS
        <3>2. answer' = <<reply>> \/ answer' = answer
            BY <1>7 DEF Handle
        <3>3. answer \in Seq(Answer) /\ Len(answer) <= 1
            OBVIOUS
        <3>4. CASE answer' = <<reply>>
            BY <3>1, <3>4, Zenon
        <3>5. CASE answer' = answer
            BY <3>3, <3>5, Zenon
        <3>6. QED
            BY <3>2, <3>4, <3>5
    <2>3. QED
        BY <1>7, <2>1, <2>2 DEF Handle
<1>8. CASE UNCHANGED httpVars
    BY <1>8 DEF httpVars
<1>9. QED
    BY <1>2, <1>3, <1>4, <1>5, <1>6, <1>7, <1>8 DEF HttpStep


\* Every step keeps the copies those that the calls sent, one for each attempt.
LEMMA CopiesNext ==
    ASSUME HttpInv, HttpStep
    PROVE  CopiesWereSent' /\ OneCopyEach' /\ FurtherFailed'
<1> DEFINE Top == AtLeastOne(max_retries)
<1>1. /\ max_retries \in Int /\ Top \in Nat \ {0}
      /\ max_retries >= 1 => Top = max_retries
      /\ AtLeastOne(Top) = Top
    BY DEF AtLeastOne, HttpInv, HttpTypeOK
<1>2. /\ Copies \subseteq Copy
      /\ \A i \in DOMAIN handled : handled[i] \in Copies
      /\ \A c \in network : c \in Copies
    BY CopiesTyped DEF HttpInv, Copies
<1>3. calls \in Nat /\ attempt \in Nat
    BY DEF HttpInv, HttpTypeOK, AtLeastOne
<1>4. ASSUME NEW k \in Kinds, Call(k)
      PROVE  CopiesWereSent' /\ OneCopyEach' /\ FurtherFailed'
    <2>1. Copies' = Copies \cup {FirstCopy(k)}
        BY <1>4, CopiesStep
    <2>2. FirstCopy(k).call = calls + 1 /\ FirstCopy(k).attempt = 0
        BY DEF FirstCopy
    <2>3. \A c \in Copies : c.call \in 1..calls /\ c.attempt \in 0..(Top - 1)
        BY DEF HttpInv, CopiesWereSent
    <2>4. calls' = calls + 1 /\ attempt' = 0 /\ AtLeastOne(max_retries') = Top
        BY <1>1, <1>4 DEF Call
    <2>5. CopiesWereSent'
        <3> HIDE DEF Top
        <3>1. \A c \in Copies' :
                 /\ c.call \in 1..(calls + 1)
                 /\ c.attempt \in 0..(Top - 1)
                 /\ c.call = calls + 1 => c.attempt <= 0
            BY <1>1, <1>3, <2>1, <2>2, <2>3
        <3>2. QED
            BY <2>4, <3>1 DEF CopiesWereSent
    <2>6. OneCopyEach'
        <3>1. FirstCopy(k) \notin Copies
            BY <1>3, <2>2, <2>3
        <3>2. \A c, d \in Copies' : c.call = d.call /\ c.attempt = d.attempt => c = d
            BY <1>3, <2>1, <2>2, <2>3 DEF HttpInv, OneCopyEach
        <3>3. handled' = handled /\ network' = network \cup {FirstCopy(k)}
            BY <1>4 DEF Call, FirstCopy
        <3>4. \A i \in DOMAIN handled : handled[i] \notin network'
            BY <1>2, <3>1, <3>3 DEF HttpInv, OneCopyEach
        <3>5. QED
            BY <3>2, <3>3, <3>4 DEF HttpInv, OneCopyEach
    <2>7. FurtherFailed'
        BY <1>4, <2>1, <2>2 DEF Call, HttpInv, FurtherFailed
    <2>8. QED
        BY <2>5, <2>6, <2>7
<1>5. CASE Retry
    <2>1. Copies' = Copies \cup {NextCopy}
        BY <1>5, CopiesStep
    <2>2. NextCopy.call = calls /\ NextCopy.attempt = attempt + 1
        BY DEF NextCopy, ThisCopy
    <2>3. /\ calls >= 1 /\ calls \in failed
          /\ attempt + 1 \in 0..(Top - 1)
        BY <1>1, <1>3, <1>5 DEF Retry, HttpInv, UnderWay
    <2>4. /\ calls' = calls /\ attempt' = attempt + 1
          /\ AtLeastOne(max_retries') = Top /\ failed' = failed
        BY <1>5 DEF Retry
    <2>5. \A c \in Copies : /\ c.call \in 1..calls /\ c.attempt \in 0..(Top - 1)
                            /\ c.call = calls => c.attempt <= attempt
        BY DEF HttpInv, CopiesWereSent
    <2>6. CopiesWereSent'
        <3> HIDE DEF Top
        <3>1. \A c \in Copies' :
                 /\ c.call \in 1..calls
                 /\ c.attempt \in 0..(Top - 1)
                 /\ c.call = calls => c.attempt <= attempt + 1
            BY <1>3, <2>1, <2>2, <2>3, <2>5
        <3>2. QED
            BY <2>4, <3>1 DEF CopiesWereSent
    <2>7. OneCopyEach'
        <3>1. \A c \in Copies : ~(c.call = calls /\ c.attempt = attempt + 1)
            BY <1>3, <2>5
        <3>2. \A c, d \in Copies' : c.call = d.call /\ c.attempt = d.attempt => c = d
            BY <2>1, <2>2, <3>1 DEF HttpInv, OneCopyEach
        <3>3. handled' = handled /\ network' = network \cup {NextCopy}
            BY <1>5 DEF Retry, NextCopy
        <3>4. \A i \in DOMAIN handled : handled[i] \notin network'
            BY <1>2, <2>2, <3>1, <3>3 DEF HttpInv, OneCopyEach
        <3>5. QED
            BY <3>2, <3>3, <3>4 DEF HttpInv, OneCopyEach
    <2>8. FurtherFailed'
        BY <2>1, <2>2, <2>3, <2>4 DEF HttpInv, FurtherFailed
    <2>9. QED
        BY <2>6, <2>7, <2>8
<1>6. ASSUME NEW c \in network, NEW reply \in Answer, Handle(c, reply)
      PROVE  CopiesWereSent' /\ OneCopyEach' /\ FurtherFailed'
    <2>1. /\ DOMAIN handled' = 1..(Len(handled) + 1)
          /\ \A i \in 1..Len(handled) : handled'[i] = handled[i]
          /\ handled'[Len(handled) + 1] = c
          /\ Copies' = Copies
        BY <1>6, HandleAppends DEF HttpInv
    <2>2. UNCHANGED <<max_retries, calls, attempt, failed>>
        BY <1>6 DEF Handle
    <2>3. CopiesWereSent' /\ FurtherFailed'
        BY <2>1, <2>2 DEF HttpInv, CopiesWereSent, FurtherFailed
    <2>4. DOMAIN handled = 1..Len(handled) /\ Len(handled) \in Nat
        BY CopiesTyped DEF HttpInv
    <2>5. \A i \in DOMAIN handled' :
             \/ i \in DOMAIN handled /\ handled'[i] = handled[i]
             \/ i = Len(handled) + 1 /\ handled'[i] = c
        BY <2>1, <2>4
    <2>6. \A i \in DOMAIN handled : handled[i] # c
        BY DEF HttpInv, OneCopyEach
    <2>7. \A i, j \in DOMAIN handled' : handled'[i] = handled'[j] => i = j
        BY <2>5, <2>6 DEF HttpInv, OneCopyEach
    <2>8. network' = network \ {c}
        BY <1>6 DEF Handle
    <2>9. \A i \in DOMAIN handled' : handled'[i] \notin network'
        BY <2>5, <2>8 DEF HttpInv, OneCopyEach
    <2>10. OneCopyEach'
        BY <2>1, <2>7, <2>9 DEF HttpInv, OneCopyEach
    <2>11. QED
        BY <2>3, <2>10
<1>7. CASE Return \/ Raise \/ BackOff \/ UNCHANGED httpVars
    <2>1. Copies' = Copies /\ UNCHANGED <<handled, network>>
        BY <1>7, CopiesStep
    <2>2. UNCHANGED <<max_retries, calls, attempt>> /\ failed \subseteq failed'
        BY <1>7 DEF Return, Raise, BackOff, httpVars
    <2>3. QED
        BY <2>1, <2>2 DEF HttpInv, CopiesWereSent, OneCopyEach, FurtherFailed
<1>8. QED
    BY <1>4, <1>5, <1>6, <1>7 DEF HttpStep

\* Every step keeps a call under way until it returns or raises.
LEMMA UnderWayNext ==
    ASSUME HttpInv, HttpStep
    PROVE  UnderWay' /\ LastOnes'
<1> USE DEF HttpInv, UnderWay, LastOnes
<1>1. /\ calls \in Nat /\ max_retries \in Int /\ attempt \in Int
      /\ http \in {"idle", "wait", "sleep"}
      /\ answered \subseteq 1..calls
    BY DEF HttpTypeOK, AnsweredHandled, AtLeastOne
<1>2. ASSUME NEW k \in Kinds, Call(k) PROVE UnderWay' /\ LastOnes'
    <2>1. calls + 1 \notin answered
        BY <1>1
    <2>2. AtLeastOne(max_retries) >= 1
        BY <1>1 DEF AtLeastOne
    <2>3. QED
        BY <1>1, <1>2, <2>1, <2>2 DEF Call
<1>3. CASE Return
    BY <1>1, <1>3 DEF Return
<1>4. CASE Raise
    BY <1>1, <1>4 DEF Raise
<1>5. CASE BackOff
    <2>1. max_retries >= 1 /\ attempt # max_retries - 1
        BY <1>5 DEF BackOff, LastAttempt
    <2>2. attempt < max_retries - 1
        BY <1>1, <2>1 DEF HttpTypeOK, AtLeastOne
    <2>3. QED
        BY <1>1, <1>5, <2>2 DEF BackOff
<1>6. CASE Retry
    BY <1>1, <1>6 DEF Retry
<1>7. ASSUME NEW c \in network, NEW reply \in Answer, Handle(c, reply)
      PROVE  UnderWay' /\ LastOnes'
    BY <1>1, <1>7 DEF Handle
<1>8. CASE UNCHANGED httpVars
    BY <1>8 DEF httpVars
<1>9. QED
    BY <1>2, <1>3, <1>4, <1>5, <1>6, <1>7, <1>8 DEF HttpStep

\* Every step keeps the order of the handlings of calls that returned.
LEMMA ReturnedNext ==
    ASSUME HttpInv, HttpStep
    PROVE  AnsweredHandled' /\ ReturnedFirst'
<1> USE DEF HttpInv
<1>1. /\ calls \in Nat
      /\ answered \subseteq 1..calls
      /\ DOMAIN handled = 1..Len(handled) /\ Len(handled) \in Nat
    BY CopiesTyped DEF HttpTypeOK, AnsweredHandled
<1>2. \A i \in DOMAIN handled : handled[i].call \in 1..calls
    BY CopiesTyped DEF CopiesWereSent
<1>3. ASSUME UNCHANGED <<handled, answered>>
      PROVE  ReturnedFirst'
    BY <1>3 DEF ReturnedFirst, HandlingsOf
<1>4. ASSUME NEW k \in Kinds, Call(k) PROVE AnsweredHandled' /\ ReturnedFirst'
    BY <1>1, <1>3, <1>4 DEF Call, AnsweredHandled
<1>5. CASE Return
    <2>1. UNCHANGED <<handled, calls>> /\ answered' = answered \cup {calls} /\ http' = "idle"
        BY <1>5 DEF Return
    <2>2. calls >= 1 /\ HandlingsOf(calls) # {}
        BY <1>5 DEF Return, UnderWay, AnsweredHandled
    <2>3. ASSUME NEW n \in answered'
          PROVE  \E i \in HandlingsOf(n) :
                    \A j \in DOMAIN handled : handled[j].call > n => i < j
        <3>1. CASE n \in answered
            BY <3>1 DEF ReturnedFirst
        <3>2. CASE n = calls
            <4>1. \A j \in DOMAIN handled : ~(handled[j].call > n)
                BY <1>1, <1>2, <3>2
            <4>2. QED
                BY <2>2, <3>2, <4>1
        <3>3. QED
            BY <2>1, <3>1, <3>2
    <2>4. ReturnedFirst'
        BY <2>1, <2>3 DEF ReturnedFirst, HandlingsOf
    <2>5. AnsweredHandled'
        BY <1>1, <2>1, <2>2 DEF AnsweredHandled
    <2>6. QED
        BY <2>4, <2>5
<1>6. CASE Raise \/ BackOff \/ Retry \/ UNCHANGED httpVars
    <2>1. UNCHANGED <<handled, answered, calls>>
        BY <1>6 DEF Raise, BackOff, Retry, httpVars
    <2>2. http' = "wait" /\ answer' # << >> => http = "wait" /\ answer # << >>
        <3>1. CASE Retry
            BY <3>1 DEF Retry, UnderWay
        <3>2. QED
            BY <1>6, <3>1 DEF Raise, BackOff, httpVars
    <2>3. QED
        BY <1>3, <2>1, <2>2 DEF AnsweredHandled, HandlingsOf
<1>7. ASSUME NEW c \in network, NEW reply \in Answer, Handle(c, reply)
      PROVE  AnsweredHandled' /\ ReturnedFirst'
    <2>1. /\ DOMAIN handled' = 1..(Len(handled) + 1)
          /\ \A i \in 1..Len(handled) : handled'[i] = handled[i]
          /\ handled'[Len(handled) + 1] = c
        BY <1>7, HandleAppends
    <2>2. UNCHANGED <<http, calls, answered>>
        BY <1>7 DEF Handle
    <2>3. AnsweredHandled'
        <3>1. CASE answer' = answer
            <4>1. \A i \in HandlingsOf(calls) : i \in HandlingsOf(calls)'
                BY <1>1, <2>1, <2>2 DEF HandlingsOf
            <4>2. QED
                BY <2>2, <3>1, <4>1 DEF AnsweredHandled
        <3>2. CASE c = ThisCopy
            <4>1. Len(handled) + 1 \in HandlingsOf(calls)'
                BY <1>1, <2>1, <2>2, <3>2 DEF HandlingsOf, ThisCopy
            <4>2. QED
                BY <2>2, <4>1 DEF AnsweredHandled
        <3>3. QED
            BY <1>7, <3>1, <3>2 DEF Handle
    <2>4. ASSUME NEW n \in answered
          PROVE  \E i \in HandlingsOf(n)' :
                    \A j \in DOMAIN handled' : handled'[j].call > n => i < j
        <3>1. PICK i \in HandlingsOf(n) :
                    \A j \in DOMAIN handled : handled[j].call > n => i < j
            BY DEF ReturnedFirst
        <3>2. i \in 1..Len(handled) /\ handled[i].call = n
            BY <1>1, <3>1 DEF HandlingsOf
        <3>3. i \in HandlingsOf(n)'
            BY <1>1, <2>1, <3>2 DEF HandlingsOf
        <3>4. \A j \in DOMAIN handled' : handled'[j].call > n => i < j
            BY <1>1, <2>1, <3>1, <3>2
        <3>5. QED
            BY <3>3, <3>4
    <2>5. ReturnedFirst'
        BY <2>2, <2>4 DEF ReturnedFirst, HandlingsOf
    <2>6. QED
        BY <2>3, <2>5
<1>8. QED
    BY <1>4, <1>5, <1>6, <1>7 DEF HttpStep

LEMMA HttpInvNext == HttpInv /\ HttpStep => HttpInv'
BY HttpTypeNext, CopiesNext, UnderWayNext, ReturnedNext DEF HttpInv

-----------------------------------------------------------------------------
(* What the invariant of HttpSend says of its calls.                       *)

\* A call is handled at most as often as it has attempts that were sent.
LEMMA HandlingsBounded ==
    ASSUME HttpInv, NEW n, NEW m \in Nat \ {0},
           \A i \in HandlingsOf(n) : handled[i].attempt < m
    PROVE  Cardinality(HandlingsOf(n)) <= m
<1> DEFINE f == [i \in HandlingsOf(n) |-> handled[i].attempt]
<1>1. \A i \in HandlingsOf(n) : /\ handled[i] \in Copies
                                /\ handled[i].call = n
                                /\ handled[i].attempt \in 0..(m - 1)
    BY CopiesTyped DEF HttpInv, HandlingsOf, Copy
<1>2. ASSUME NEW i \in HandlingsOf(n), NEW j \in HandlingsOf(n), f[i] = f[j]
      PROVE  i = j
    <2>1. handled[i] = handled[j]
        BY <1>1, <1>2 DEF HttpInv, OneCopyEach
    <2>2. i \in DOMAIN handled /\ j \in DOMAIN handled
        BY DEF HandlingsOf
    <2>3. QED
        BY <2>1, <2>2 DEF HttpInv, OneCopyEach
<1>3. f \in Injection(HandlingsOf(n), 0..(m - 1))
    BY <1>1, <1>2 DEF Injection, IsInjective
<1>4. IsFiniteSet(0..(m - 1)) /\ Cardinality(0..(m - 1)) = m
    <2>1. 0 \in Int /\ m - 1 \in Int /\ ~(0 > m - 1) /\ m - 1 - 0 + 1 = m
        OBVIOUS
    <2>2. QED
        BY <2>1, FS_Interval
<1>5. Cardinality(HandlingsOf(n)) <= Cardinality(0..(m - 1))
    BY <1>3, <1>4, FS_Injection
<1>6. QED
    BY <1>4, <1>5

LEMMA InvOrdersCalls == HttpInv => CallsInOrder
<1> SUFFICES ASSUME HttpInv, NEW n \in 1..calls
             PROVE  /\ Cardinality(HandlingsOf(n)) <= AtLeastOne(max_retries)
                    /\ n \in answered =>
                          \E i \in HandlingsOf(n) : \A m \in (n + 1)..calls :
                              \A j \in HandlingsOf(m) : i < j
                    /\ n \notin failed => Cardinality(HandlingsOf(n)) <= 1
    BY DEF CallsInOrder
<1>1. \A i \in HandlingsOf(n) : /\ handled[i] \in Copies /\ handled[i].call = n
                                /\ handled[i].attempt \in Nat
    BY CopiesTyped DEF HttpInv, HandlingsOf, Copy
<1>2. Cardinality(HandlingsOf(n)) <= AtLeastOne(max_retries)
    <2>1. AtLeastOne(max_retries) \in Nat \ {0}
        BY DEF AtLeastOne, HttpInv, HttpTypeOK
    <2>2. \A i \in HandlingsOf(n) : handled[i].attempt < AtLeastOne(max_retries)
        BY <1>1, <2>1 DEF HttpInv, CopiesWereSent
    <2>3. QED
        BY <2>1, <2>2, HandlingsBounded
<1>3. ASSUME n \in answered
      PROVE  \E i \in HandlingsOf(n) : \A m \in (n + 1)..calls :
                 \A j \in HandlingsOf(m) : i < j
    <2>1. PICK i \in HandlingsOf(n) :
               \A j \in DOMAIN handled : handled[j].call > n => i < j
        BY <1>3 DEF HttpInv, ReturnedFirst
    <2>2. ASSUME NEW m \in (n + 1)..calls, NEW j \in HandlingsOf(m) PROVE i < j
        BY <2>1 DEF HandlingsOf, HttpInv, HttpTypeOK
    <2>3. QED
        BY <2>2
<1>4. ASSUME n \notin failed PROVE Cardinality(HandlingsOf(n)) <= 1
    <2>1. \A i \in HandlingsOf(n) : handled[i].attempt < 1
        BY <1>1, <1>4 DEF HttpInv, FurtherFailed
    <2>2. QED
        BY <2>1, HandlingsBounded
<1>5. QED
    BY <1>2, <1>3, <1>4

LEMMA InvLastAnswer == HttpInv => LastResponseOfLastAnswered
<1> SUFFICES ASSUME HttpInv PROVE LastResponseOfLastAnswered
    OBVIOUS
<1>1. calls \in Nat /\ last_response \in Nat /\ answered \subseteq 1..calls
    BY DEF HttpInv, HttpTypeOK, AnsweredHandled
<1>2. QED
    BY <1>1 DEF HttpInv, LastOnes, LastResponseOfLastAnswered

-----------------------------------------------------------------------------
(* The inductive invariant of the Runner.                                  *)

\* The reason there has to be for a run without force.
Grounded ==
    \/ args.verified
    \/ /\ performed /\ ~OverLimit
       /\ IF args.prompt THEN consented ELSE matched

\* The Runner is in a request of the endpoint it called, and in none else.
InRequest ==
    /\ http # "idle" <=> pc \in {"counting", "running"}
    /\ pc = "counting" => kind = "count"
    /\ pc = "running" => kind = "run"

\* A count is what the server knew at some time: kept, under way, or by now.
CountsMatched ==
    /\ present = args.count_ids => matched
    /\ count_result = args.count_ids => matched
    /\ http = "wait" /\ pc = "counting" /\ answer # << >> =>
          /\ answer[1].value \in Nat
          /\ answer[1].value = args.count_ids => matched

\* What verify() has established, when it has come that far.
VerifiedForReason ==
    /\ pc \in {"counting", "check", "prompting"} => ~OverLimit
    /\ pc = "prompting" => args.prompt
    /\ verified => Grounded
    /\ unforced > 0 => Grounded

\* $executed, or an answer that will set it, comes of an execution.
ExecutedRan ==
    /\ executed => executions >= 1
    /\ http = "wait" /\ pc = "running" /\ answer # << >> /\ answer[1].ok =>
          executions >= 1

RunHandlings == {i \in DOMAIN handled : handled[i].kind = "run"}

\* An execution is of a copy of a run request, and each is of another copy.
ExecutionsHandled ==
    /\ executions >= 1 => RunHandlings # {}
    /\ executions > 1 => \E i, j \in RunHandlings : i # j

\* Unless a run was forced, forgotten or refused there is at most one request
\* for it that went without failure: the one under way, or the one executed.
OneGoodRun ==
    ~repeated /\ ~refused =>
        /\ pc = "running" => ~executed
        /\ \A c \in Copies :
              c.kind = "run" /\ c.call \notin failed =>
                  executed \/ (pc = "running" /\ c.call = calls)
        /\ \A c, d \in Copies :
              /\ c.kind = "run" /\ c.call \notin failed
              /\ d.kind = "run" /\ d.call \notin failed
              => c.call = d.call

RunnerInv ==
    /\ RunTypeOK
    /\ HttpInv
    /\ InRequest
    /\ CountsMatched
    /\ VerifiedForReason
    /\ ExecutedRan
    /\ ExecutionsHandled
    /\ OneGoodRun

-----------------------------------------------------------------------------
\* Every step is one of these, with the bounds and what only its callers ask of
\* it left out.
LEMMA StepCases ==
    ASSUME [RunNext]_vars
    PROVE  \/ \E runs \in BOOLEAN : Verify(runs)
           \/ CountAnswered \/ CheckCount \/ Prompt
           \/ \E yes \in BOOLEAN : Confirm(yes)
           \/ \E force \in BOOLEAN : Run(force)
           \/ RunAnswered \/ RequestRaises \/ RequestRetried \/ InitRedo
           \/ \E c \in network, ok \in BOOLEAN : HandleCount(c, ok)
           \/ \E c \in network, runs, ok \in BOOLEAN : HandleRun(c, runs, ok)
           \/ \E n \in 0..args.count_ids : PresenceChanges(n)
           \/ UNCHANGED vars
BY DEF RunNext, Program, Runner, User, Server

\* Every step of a Runner is one of HttpSend, or leaves it alone.
LEMMA StepOfHttp ==
    ASSUME RunTypeOK, [RunNext]_vars
    PROVE  HttpStep
<1>1. "count" \in Kinds /\ "run" \in Kinds
    BY EnforcementRunAssumption
<1>2. \A runs : Verify(runs) => HttpStep
    BY <1>1 DEF Verify, HttpStep
<1>3. \A force : Run(force) => HttpStep
    BY <1>1 DEF Run, HttpStep
<1>4. ASSUME NEW c \in network, NEW ok \in BOOLEAN, HandleCount(c, ok)
      PROVE  HttpStep
    <2>1. [ok |-> ok, value |-> present] \in Answer
        BY EnforcementRunAssumption DEF RunTypeOK, Answer
    <2>2. QED
        BY <1>4, <2>1 DEF HandleCount, HttpStep
<1>5. ASSUME NEW c \in network, NEW runs \in BOOLEAN, NEW ok \in BOOLEAN,
             HandleRun(c, runs, ok)
      PROVE  HttpStep
    <2>1. [ok |-> ok, value |-> 0] \in Answer
        BY DEF Answer
    <2>2. QED
        BY <1>5, <2>1 DEF HandleRun, HttpStep
<1>6. ASSUME NEW n, PresenceChanges(n) PROVE HttpStep
    BY <1>6 DEF PresenceChanges, HttpStep
<1>7. ASSUME NEW yes, Confirm(yes) PROVE HttpStep
    BY <1>7 DEF Confirm, HttpStep
<1>8. CountAnswered \/ RunAnswered \/ RequestRaises \/ RequestRetried => HttpStep
    BY DEF CountAnswered, RunAnswered, RequestRaises, RequestRetried, HttpStep
<1>9. CheckCount \/ Prompt \/ InitRedo \/ UNCHANGED vars => HttpStep
    BY DEF CheckCount, Prompt, InitRedo, vars, HttpStep
<1>10. QED
    BY <1>2, <1>3, <1>4, <1>5, <1>6, <1>7, <1>8, <1>9, StepCases

\* A count that an answer brings is what the server counted.
LEMMA CountsTyped ==
    ASSUME RunTypeOK
    PROVE  /\ args.count_ids \in Nat \ {0}
           /\ {args.verified, args.verify_count, args.prompt} \subseteq BOOLEAN
           /\ present \in Nat
BY EnforcementRunAssumption DEF RunTypeOK

\* An answer that has come is one.
LEMMA AnswerTyped ==
    ASSUME HttpTypeOK, answer # << >>
    PROVE  answer[1].ok \in BOOLEAN /\ answer[1].value \in Int
<1>1. answer \in Seq(Answer) /\ Len(answer) <= 1
    BY DEF HttpTypeOK
<1>2. 1 \in 1..Len(answer)
    BY <1>1
<1>3. answer[1] \in Answer
    BY <1>1, <1>2
<1>4. QED
    BY <1>3 DEF Answer

LEMMA RunnerInitInv == RunInit => RunnerInv
<1> SUFFICES ASSUME RunInit PROVE RunnerInv
    OBVIOUS
<1>1. HttpInv
    BY HttpInitInv DEF RunInit
<1>2. RunTypeOK
    BY <1>1, EnforcementRunAssumption DEF RunInit, RunTypeOK, HttpInv
<1>3. InRequest /\ VerifiedForReason /\ ExecutedRan /\ ExecutionsHandled
    BY DEF RunInit, HttpInit, InRequest, VerifiedForReason, Grounded,
       ExecutedRan, ExecutionsHandled
<1>4. CountsMatched
    <2>1. args.count_ids # -1
        BY <1>2, CountsTyped
    <2>2. present = args.count_ids => matched
        BY DEF RunInit
    <2>3. QED
        BY <2>1, <2>2 DEF RunInit, HttpInit, CountsMatched
<1>5. OneGoodRun
    <2>1. DOMAIN handled = {} /\ network = {}
        <3>1. handled = << >> /\ network = {}
            BY DEF RunInit, HttpInit
        <3>2. DOMAIN << >> = {}
            OBVIOUS
        <3>3. QED
            BY <3>1, <3>2
    <2>2. QED
        BY <2>1 DEF RunInit, OneGoodRun, Copies
<1>6. QED
    BY <1>1, <1>2, <1>3, <1>4, <1>5 DEF RunnerInv

\* Every step keeps the type of the Runner.
LEMMA RunTypeNext ==
    ASSUME RunnerInv, [RunNext]_vars
    PROVE  RunTypeOK'
<1>1. HttpTypeOK' /\ RunTypeOK
    BY HttpInvNext, StepOfHttp DEF RunnerInv, HttpInv
<1>2. ASSUME NEW runs \in BOOLEAN, Verify(runs) PROVE RunTypeOK'
    BY <1>1, <1>2 DEF Verify, Verified, OverLimit, RunTypeOK, serverVars
<1>3. CASE CountAnswered
    <2>1. answer[1].ok => answer[1].value \in Nat
        BY <1>3 DEF CountAnswered, Goto, Return, RunnerInv, CountsMatched
    <2>2. QED
        BY <1>1, <1>3, <2>1
           DEF CountAnswered, Goto, RunTypeOK, serverVars, historyVars
<1>4. CASE CheckCount
    BY <1>1, <1>4 DEF CheckCount, Verified, RunTypeOK, serverVars
<1>5. CASE Prompt
    BY <1>1, <1>5 DEF Prompt, Goto, RunTypeOK, serverVars, historyVars
<1>6. ASSUME NEW yes \in BOOLEAN, Confirm(yes) PROVE RunTypeOK'
    BY <1>1, <1>6 DEF Confirm, Verified, RunTypeOK, serverVars
<1>7. ASSUME NEW force \in BOOLEAN, Run(force) PROVE RunTypeOK'
    BY <1>1, <1>7 DEF Run, RunTypeOK, serverVars
<1>8. CASE RunAnswered
    <2>1. answer[1].ok \in BOOLEAN
        BY <1>1, <1>8, AnswerTyped DEF RunAnswered, RunTypeOK
    <2>2. QED
        BY <1>1, <1>8, <2>1 DEF RunAnswered, Goto, RunTypeOK, serverVars
<1>9. CASE RequestRaises
    BY <1>1, <1>9 DEF RequestRaises, RunTypeOK, serverVars, historyVars
<1>10. CASE RequestRetried
    BY <1>1, <1>10
       DEF RequestRetried, RunTypeOK, runnerVars, serverVars, historyVars
<1>11. CASE InitRedo
    BY <1>1, <1>11 DEF InitRedo, Goto, RunTypeOK, serverVars
<1>12. ASSUME NEW c \in network, NEW ok \in BOOLEAN, HandleCount(c, ok)
       PROVE  RunTypeOK'
    BY <1>1, <1>12
       DEF HandleCount, RunTypeOK, runnerVars, serverVars, historyVars
<1>13. ASSUME NEW c \in network, NEW runs \in BOOLEAN, NEW ok \in BOOLEAN,
              HandleRun(c, runs, ok)
       PROVE  RunTypeOK'
    BY <1>1, <1>13 DEF HandleRun, RunTypeOK, runnerVars, historyVars
<1>14. ASSUME NEW n \in 0..args.count_ids, PresenceChanges(n) PROVE RunTypeOK'
    BY <1>1, <1>14 DEF PresenceChanges, RunTypeOK, runnerVars, historyVars
<1>15. CASE UNCHANGED vars
    BY <1>1, <1>15 DEF vars, RunTypeOK, runnerVars, serverVars, historyVars
<1>16. QED
    BY <1>2, <1>3, <1>4, <1>5, <1>6, <1>7, <1>8, <1>9, <1>10, <1>11, <1>12,
       <1>13, <1>14, <1>15, StepCases

\* Every step keeps pc and Http together.
LEMMA InRequestNext ==
    ASSUME RunnerInv, [RunNext]_vars
    PROVE  InRequest'
<1> USE DEF RunnerInv, InRequest
<1>1. ASSUME NEW runs \in BOOLEAN, Verify(runs) PROVE InRequest'
    BY <1>1 DEF Verify, Verified, Call, httpVars
<1>2. CASE CountAnswered
    BY <1>2 DEF CountAnswered, Goto, Return
<1>3. CASE CheckCount
    BY <1>3 DEF CheckCount, Verified, httpVars
<1>4. CASE Prompt
    BY <1>4 DEF Prompt, Goto, httpVars
<1>5. ASSUME NEW yes \in BOOLEAN, Confirm(yes) PROVE InRequest'
    BY <1>5 DEF Confirm, Verified, httpVars
<1>6. ASSUME NEW force \in BOOLEAN, Run(force) PROVE InRequest'
    BY <1>6 DEF Run, Call, httpVars
<1>7. CASE RunAnswered
    BY <1>7 DEF RunAnswered, Goto, Return
<1>8. CASE RequestRaises
    BY <1>8 DEF RequestRaises, Raise
<1>9. CASE RequestRetried
    BY <1>9 DEF RequestRetried, BackOff, Retry, runnerVars
<1>10. CASE InitRedo
    BY <1>10 DEF InitRedo, Goto, httpVars
<1>11. ASSUME NEW c \in network, NEW ok \in BOOLEAN, HandleCount(c, ok)
       PROVE  InRequest'
    BY <1>11 DEF HandleCount, Handle, runnerVars
<1>12. ASSUME NEW c \in network, NEW runs \in BOOLEAN, NEW ok \in BOOLEAN,
              HandleRun(c, runs, ok)
       PROVE  InRequest'
    BY <1>12 DEF HandleRun, Handle, runnerVars
<1>13. ASSUME NEW n \in 0..args.count_ids, PresenceChanges(n) PROVE InRequest'
    BY <1>13 DEF PresenceChanges, runnerVars, httpVars
<1>14. CASE UNCHANGED vars
    BY <1>14 DEF vars, runnerVars, httpVars
<1>15. QED
    BY <1>1, <1>2, <1>3, <1>4, <1>5, <1>6, <1>7, <1>8, <1>9, <1>10, <1>11,
       <1>12, <1>13, <1>14, StepCases

\* Every step keeps a count that matches one that has matched.
LEMMA CountsNext ==
    ASSUME RunnerInv, [RunNext]_vars
    PROVE  CountsMatched'
<1> USE DEF RunnerInv, CountsMatched
<1>0. args.count_ids \in Nat \ {0} /\ matched \in BOOLEAN /\ present \in Nat
    BY CountsTyped DEF RunTypeOK
<1>1. ASSUME NEW runs \in BOOLEAN, Verify(runs) PROVE CountsMatched'
    BY <1>1 DEF Verify, Verified, Call, httpVars, serverVars
<1>2. CASE CountAnswered
    BY <1>2 DEF CountAnswered, Goto, Return, serverVars
<1>3. CASE CheckCount
    BY <1>3 DEF CheckCount, Verified, httpVars, serverVars
<1>4. CASE Prompt
    BY <1>4 DEF Prompt, Goto, httpVars, serverVars
<1>5. ASSUME NEW yes \in BOOLEAN, Confirm(yes) PROVE CountsMatched'
    BY <1>5 DEF Confirm, Verified, httpVars, serverVars
<1>6. ASSUME NEW force \in BOOLEAN, Run(force) PROVE CountsMatched'
    BY <1>6 DEF Run, Call, httpVars, serverVars
<1>7. CASE RunAnswered
    BY <1>7 DEF RunAnswered, Goto, Return, serverVars
<1>8. CASE RequestRaises
    BY <1>8 DEF RequestRaises, Raise, serverVars
<1>9. CASE RequestRetried
    BY <1>9 DEF RequestRetried, BackOff, Retry, runnerVars, serverVars, HttpInv,
       UnderWay
<1>10. CASE InitRedo
    BY <1>0, <1>10 DEF InitRedo, Goto, httpVars, serverVars
<1>11. ASSUME NEW c \in network, NEW ok \in BOOLEAN, HandleCount(c, ok)
       PROVE  CountsMatched'
    <2>1. UNCHANGED <<args, count_result, pc, http, present, matched>>
        BY <1>11 DEF HandleCount, Handle, runnerVars, serverVars
    <2>2. answer' = answer \/ answer' = <<[ok |-> ok, value |-> present]>>
        BY <1>11 DEF HandleCount, Handle
    <2>3. CASE answer' = answer
        BY <2>1, <2>3
    <2>4. CASE answer' = <<[ok |-> ok, value |-> present]>>
        <3>1. answer'[1].value = present
            BY <2>4
        <3>2. QED
            BY <1>0, <2>1, <3>1
    <2>5. QED
        BY <2>2, <2>3, <2>4
<1>12. ASSUME NEW c \in network, NEW runs \in BOOLEAN, NEW ok \in BOOLEAN,
              HandleRun(c, runs, ok)
       PROVE  CountsMatched'
    <2>1. UNCHANGED <<args, count_result, pc, http, present, matched>>
        BY <1>12 DEF HandleRun, Handle, runnerVars
    <2>2. pc = "counting" => answer' = answer
        BY <1>12 DEF HandleRun, Handle, ThisCopy, InRequest
    <2>3. QED
        BY <2>1, <2>2
<1>13. ASSUME NEW n \in 0..args.count_ids, PresenceChanges(n) PROVE CountsMatched'
    <2>1. UNCHANGED <<args, count_result, pc, http, answer>> /\ present' = n
        BY <1>13 DEF PresenceChanges, runnerVars, httpVars
    <2>2. matched => matched'
        BY <1>13 DEF PresenceChanges
    <2>3. n = args.count_ids => matched'
        BY <1>13 DEF PresenceChanges
    <2>4. QED
        BY <2>1, <2>2, <2>3
<1>14. CASE UNCHANGED vars
    BY <1>14 DEF vars, runnerVars, httpVars, serverVars
<1>15. QED
    BY <1>1, <1>2, <1>3, <1>4, <1>5, <1>6, <1>7, <1>8, <1>9, <1>10, <1>11,
       <1>12, <1>13, <1>14, StepCases

\* A reason stays a reason.
LEMMA GroundedStays ==
    ASSUME RunnerInv, [RunNext]_vars, Grounded
    PROVE  Grounded'
<1> USE DEF RunnerInv, Grounded, OverLimit
<1>1. ASSUME NEW runs \in BOOLEAN, Verify(runs) PROVE Grounded'
    BY <1>1 DEF Verify, Verified, serverVars
<1>2. CASE CountAnswered \/ RequestRaises \/ RequestRetried
    BY <1>2 DEF CountAnswered, RequestRaises, RequestRetried, runnerVars,
       serverVars, historyVars
<1>3. CASE CheckCount
    BY <1>3 DEF CheckCount, Verified, serverVars
<1>4. CASE Prompt \/ InitRedo \/ RunAnswered
    BY <1>4 DEF Prompt, InitRedo, RunAnswered, serverVars, historyVars
<1>5. ASSUME NEW yes \in BOOLEAN, Confirm(yes) PROVE Grounded'
    BY <1>5 DEF Confirm, Verified, serverVars
<1>6. ASSUME NEW force \in BOOLEAN, Run(force) PROVE Grounded'
    BY <1>6 DEF Run, serverVars
<1>7. ASSUME NEW c \in network, NEW ok \in BOOLEAN, HandleCount(c, ok)
      PROVE  Grounded'
    BY <1>7 DEF HandleCount, runnerVars, serverVars, historyVars
<1>8. ASSUME NEW c \in network, NEW runs \in BOOLEAN, NEW ok \in BOOLEAN,
             HandleRun(c, runs, ok)
      PROVE  Grounded'
    BY <1>8 DEF HandleRun, runnerVars, historyVars
<1>9. ASSUME NEW n \in 0..args.count_ids, PresenceChanges(n) PROVE Grounded'
    <2>1. UNCHANGED <<args, performed, consented>>
        BY <1>9 DEF PresenceChanges, runnerVars, historyVars
    <2>2. matched => matched'
        BY <1>9 DEF PresenceChanges
    <2>3. QED
        BY <2>1, <2>2
<1>10. CASE UNCHANGED vars
    BY <1>10 DEF vars, runnerVars, serverVars, historyVars
<1>11. QED
    BY <1>1, <1>2, <1>3, <1>4, <1>5, <1>6, <1>7, <1>8, <1>9, <1>10, StepCases

\* Every step keeps the reasons for a verification and for a run.
LEMMA VerifiedNext ==
    ASSUME RunnerInv, [RunNext]_vars
    PROVE  VerifiedForReason'
<1> USE DEF RunnerInv, VerifiedForReason
<1>0. args' = args /\ (OverLimit' <=> OverLimit)
    BY StepCases
       DEF Verify, CountAnswered, CheckCount, Prompt, Confirm, Run, RunAnswered,
           RequestRaises, RequestRetried, InitRedo, HandleCount, HandleRun,
           PresenceChanges, vars, runnerVars, OverLimit
<1>1. ASSUME NEW runs \in BOOLEAN, Verify(runs) PROVE VerifiedForReason'
    <2>1. UNCHANGED <<verified, unforced>>
        BY <1>1 DEF Verify
    <2>2. pc' \in {"counting", "check", "prompting"} => ~OverLimit /\ pc' # "prompting"
        BY <1>1 DEF Verify, Verified, VerifyRaises
    <2>3. QED
        BY <1>0, <2>1, <2>2, GroundedStays
<1>2. CASE CountAnswered
    <2>1. UNCHANGED <<verified, unforced>> /\ pc' # "prompting" /\ pc = "counting"
        BY <1>2 DEF CountAnswered, Goto, historyVars
    <2>2. QED
        BY <1>0, <2>1, GroundedStays
<1>3. CASE CheckCount
    <2>1. unforced' = unforced /\ pc' \in {"ready", "run"}
        BY <1>3 DEF CheckCount, Verified
    <2>2. CASE IsMatch /\ verified' = TRUE /\ Verified(then_run)
        <3>1. matched
            BY <2>2 DEF IsMatch, CountsMatched
        <3>2. performed' /\ ~OverLimit' /\ ~args'.prompt /\ matched'
            BY <1>0, <1>3, <2>2, <3>1 DEF CheckCount, Verified, serverVars
        <3>3. Grounded'
            BY <3>2 DEF Grounded
        <3>4. QED
            BY <2>1, <3>3
    <2>3. CASE UNCHANGED verified
        BY <2>1, <2>3, GroundedStays
    <2>4. QED
        BY <1>3, <2>2, <2>3 DEF CheckCount
<1>4. CASE Prompt
    <2>1. UNCHANGED <<verified, unforced>> /\ pc = "check" /\ args.prompt
        BY <1>4 DEF Prompt, Goto, historyVars
    <2>2. QED
        BY <1>0, <2>1, GroundedStays
<1>5. ASSUME NEW yes \in BOOLEAN, Confirm(yes) PROVE VerifiedForReason'
    <2>1. unforced' = unforced /\ pc' \in {"ready", "run"} /\ verified' = yes
        BY <1>5 DEF Confirm, Verified
    <2>2. CASE yes
        <3>1. args'.prompt /\ ~OverLimit'
            BY <1>0, <1>5 DEF Confirm
        <3>2. performed' /\ consented'
            BY <1>5, <2>2 DEF Confirm, Verified
        <3>3. Grounded'
            BY <3>1, <3>2 DEF Grounded
        <3>4. QED
            BY <2>1, <3>3
    <2>3. CASE ~yes
        BY <2>1, <2>3, GroundedStays
    <2>4. QED
        BY <2>2, <2>3
<1>6. ASSUME NEW force \in BOOLEAN, Run(force) PROVE VerifiedForReason'
    <2>1. verified' = verified /\ pc' \in {"ready", "running"}
        BY <1>6 DEF Run
    <2>2. unforced' = unforced \/ verified
        BY <1>6 DEF Run, RunRaises
    <2>3. QED
        BY <2>1, <2>2, GroundedStays
<1>7. CASE RunAnswered \/ RequestRaises \/ InitRedo
    <2>1. UNCHANGED <<verified, unforced>> /\ pc' = "ready"
        BY <1>7 DEF RunAnswered, RequestRaises, InitRedo, Goto, historyVars
    <2>2. QED
        BY <2>1, GroundedStays
<1>8. CASE \/ RequestRetried
           \/ \E c \in network, ok \in BOOLEAN : HandleCount(c, ok)
           \/ \E c \in network, runs, ok \in BOOLEAN : HandleRun(c, runs, ok)
           \/ \E n \in 0..args.count_ids : PresenceChanges(n)
           \/ UNCHANGED vars
    <2>1. UNCHANGED <<verified, unforced, pc>>
        BY <1>8 DEF RequestRetried, HandleCount, HandleRun, PresenceChanges, vars,
           runnerVars, historyVars
    <2>2. QED
        BY <1>0, <2>1, GroundedStays
<1>9. QED
    BY <1>1, <1>2, <1>3, <1>4, <1>5, <1>6, <1>7, <1>8, StepCases

\* What a step that handles no run leaves alone.
LEMMA OnlyRunsExecute ==
    ASSUME RunnerInv, [RunNext]_vars
    PROVE  \/ \E c \in network, runs, ok \in BOOLEAN : HandleRun(c, runs, ok)
           \/ executions' = executions
BY StepCases
   DEF Verify, CountAnswered, CheckCount, Prompt, Confirm, Run, RunAnswered,
       RequestRaises, RequestRetried, InitRedo, HandleCount, PresenceChanges, vars,
       serverVars

\* Every step keeps an execution behind what says there was one.
LEMMA ExecutedNext ==
    ASSUME RunnerInv, [RunNext]_vars
    PROVE  ExecutedRan'
<1> USE DEF RunnerInv, ExecutedRan
<1>1. executions \in Nat
    BY DEF RunTypeOK
<1>2. ASSUME NEW c \in network, NEW runs \in BOOLEAN, NEW ok \in BOOLEAN,
             HandleRun(c, runs, ok)
      PROVE  ExecutedRan'
    <2>1. UNCHANGED <<executed, pc, http>>
        BY <1>2 DEF HandleRun, Handle, runnerVars
    <2>2. executions' >= executions /\ (ok => executions' >= 1)
        BY <1>1, <1>2 DEF HandleRun
    <2>3. answer' = answer \/ answer' = <<[ok |-> ok, value |-> 0]>>
        BY <1>2 DEF HandleRun, Handle
    <2>4. executions' \in Nat
        BY <1>1, <1>2 DEF HandleRun
    <2>5. CASE answer' = answer
        BY <1>1, <2>1, <2>2, <2>4, <2>5
    <2>6. CASE answer' = <<[ok |-> ok, value |-> 0]>>
        <3>1. answer'[1].ok <=> ok
            BY <2>6
        <3>2. QED
            BY <1>1, <2>1, <2>2, <2>4, <3>1
    <2>7. QED
        BY <2>3, <2>5, <2>6
<1>3. ASSUME NEW c \in network, NEW ok \in BOOLEAN, HandleCount(c, ok)
      PROVE  ExecutedRan'
    <2>1. UNCHANGED <<executed, pc, http, executions>>
        BY <1>3 DEF HandleCount, Handle, runnerVars, serverVars
    <2>2. pc = "running" => answer' = answer
        BY <1>3 DEF HandleCount, Handle, ThisCopy, InRequest
    <2>3. QED
        BY <2>1, <2>2
<1>4. ASSUME NEW runs \in BOOLEAN, Verify(runs) PROVE ExecutedRan'
    BY <1>4 DEF Verify, Verified, serverVars
<1>5. ASSUME NEW force \in BOOLEAN, Run(force) PROVE ExecutedRan'
    BY <1>5 DEF Run, Call, serverVars
<1>6. CASE RunAnswered
    BY <1>6 DEF RunAnswered, Goto, Return, serverVars, InRequest
<1>7. CASE CountAnswered \/ RequestRaises \/ Prompt
    BY <1>7 DEF CountAnswered, RequestRaises, Prompt, Goto, serverVars
<1>8. CASE CheckCount
    BY <1>8 DEF CheckCount, Verified, serverVars
<1>9. ASSUME NEW yes \in BOOLEAN, Confirm(yes) PROVE ExecutedRan'
    BY <1>9 DEF Confirm, Verified, serverVars
<1>10. CASE RequestRetried
    BY <1>10 DEF RequestRetried, BackOff, Retry, runnerVars, serverVars, HttpInv,
       UnderWay
<1>11. CASE InitRedo
    BY <1>11 DEF InitRedo, Goto, serverVars
<1>12. ASSUME NEW n \in 0..args.count_ids, PresenceChanges(n) PROVE ExecutedRan'
    BY <1>12 DEF PresenceChanges, runnerVars, httpVars
<1>13. CASE UNCHANGED vars
    BY <1>13 DEF vars, runnerVars, serverVars, httpVars
<1>14. QED
    BY <1>2, <1>3, <1>4, <1>5, <1>6, <1>7, <1>8, <1>9, <1>10, <1>11, <1>12,
       <1>13, StepCases

\* The handlings that a step of HttpSend adds, and the ones it keeps.
LEMMA HandledGrows ==
    ASSUME HttpInv, HttpStep
    PROVE  \A i \in DOMAIN handled : i \in DOMAIN handled' /\ handled'[i] = handled[i]
<1>1. ASSUME NEW c \in network, NEW reply \in Answer, Handle(c, reply)
      PROVE  \A i \in DOMAIN handled : i \in DOMAIN handled' /\ handled'[i] = handled[i]
    <2>1. DOMAIN handled = 1..Len(handled) /\ Len(handled) \in Nat
        BY CopiesTyped DEF HttpInv
    <2>2. QED
        BY <1>1, <2>1, HandleAppends DEF HttpInv
<1>2. CASE handled' = handled
    BY <1>2
<1>3. QED
    BY <1>1, <1>2
       DEF HttpStep, Call, Return, Raise, BackOff, Retry, httpVars

\* Every step keeps another run request handled for each execution.
LEMMA ExecutionsNext ==
    ASSUME RunnerInv, [RunNext]_vars
    PROVE  ExecutionsHandled'
<1> USE DEF RunnerInv, ExecutionsHandled
<1>1. executions \in Nat
    BY DEF RunTypeOK
<1>2. RunHandlings \subseteq RunHandlings'
    BY HandledGrows, StepOfHttp DEF RunHandlings
<1>3. ASSUME NEW c \in network, NEW runs \in BOOLEAN, NEW ok \in BOOLEAN,
             HandleRun(c, runs, ok)
      PROVE  ExecutionsHandled'
    <2>1. PICK reply : Handle(c, reply)
        BY <1>3 DEF HandleRun
    <2>2. /\ DOMAIN handled = 1..Len(handled) /\ Len(handled) \in Nat
          /\ Len(handled) + 1 \in DOMAIN handled'
          /\ handled'[Len(handled) + 1] = c
        BY <2>1, HandleAppends, CopiesTyped DEF HttpInv
    <2>3. /\ Len(handled) + 1 \in RunHandlings'
          /\ Len(handled) + 1 \notin RunHandlings
        BY <1>3, <2>2 DEF RunHandlings, HandleRun
    <2>4. executions' = executions \/ executions' = executions + 1
        BY <1>3 DEF HandleRun
    <2>5. executions' > 1 => executions >= 1
        BY <1>1, <2>4
    <2>6. executions' > 1 => \E i, j \in RunHandlings' : i # j
        BY <1>2, <2>3, <2>5
    <2>7. QED
        BY <2>3, <2>6
<1>4. CASE executions' = executions
    <2>1. executions > 1 => \E i, j \in RunHandlings' : i # j
        BY <1>2
    <2>2. QED
        BY <1>2, <1>4, <2>1
<1>5. QED
    BY <1>3, <1>4, OnlyRunsExecute

\* What a step adds to the copies: at most one, of a call's own endpoint.
LEMMA NewCopies ==
    ASSUME RunnerInv, [RunNext]_vars
    PROVE  /\ failed \subseteq failed' /\ calls <= calls'
           /\ \/ \E runs \in BOOLEAN : Verify(runs)
              \/ \E force \in BOOLEAN : Run(force)
              \/ RequestRetried
              \/ Copies' = Copies /\ calls' = calls
<1>1. calls \in Nat
    BY DEF RunnerInv, HttpInv, HttpTypeOK
<1>2. failed \subseteq failed' /\ calls <= calls'
    BY <1>1, StepOfHttp
       DEF RunnerInv, HttpStep, Call, Return, Raise, BackOff, Retry, Handle, httpVars
<1>3. Return \/ Raise \/ UNCHANGED httpVars => Copies' = Copies /\ calls' = calls
    BY CopiesStep DEF Return, Raise, httpVars
<1>4. ASSUME NEW c \in network, NEW ok \in BOOLEAN, HandleCount(c, ok)
      PROVE  Copies' = Copies /\ calls' = calls
    BY <1>4, HandleAppends DEF HandleCount, Handle, RunnerInv, HttpInv
<1>5. ASSUME NEW c \in network, NEW runs \in BOOLEAN, NEW ok \in BOOLEAN,
             HandleRun(c, runs, ok)
      PROVE  Copies' = Copies /\ calls' = calls
    BY <1>5, HandleAppends DEF HandleRun, Handle, RunnerInv, HttpInv
<1>6. CountAnswered \/ RunAnswered \/ RequestRaises => Return \/ Raise
    BY DEF CountAnswered, RunAnswered, RequestRaises
<1>7. CheckCount \/ Prompt \/ InitRedo \/ UNCHANGED vars => UNCHANGED httpVars
    BY DEF CheckCount, Prompt, InitRedo, vars
<1>8. \A yes : Confirm(yes) => UNCHANGED httpVars
    BY DEF Confirm
<1>9. \A n : PresenceChanges(n) => UNCHANGED httpVars
    BY DEF PresenceChanges
<1>10. QED
    BY <1>2, <1>3, <1>4, <1>5, <1>6, <1>7, <1>8, <1>9, StepCases

\* Every step keeps all run requests but one forced, forgotten, failed or refused.
LEMMA OneGoodRunNext ==
    ASSUME RunnerInv, [RunNext]_vars
    PROVE  OneGoodRun'
<1> USE DEF RunnerInv
<1>1. failed \subseteq failed'
    BY NewCopies
<1>2. CASE \E runs \in BOOLEAN : Verify(runs)
    <2>1. /\ UNCHANGED <<repeated, refused, executed, failed>>
          /\ pc # "running" /\ pc' # "running"
        BY <1>2, StepOfHttp DEF Verify, Verified, Call, httpVars
    <2>2. Copies' = Copies \/ Copies' = Copies \cup {FirstCopy("count")}
        BY <1>2, CopiesStep DEF Verify
    <2>3. FirstCopy("count").kind = "count"
        BY DEF FirstCopy
    <2>4. QED
        BY <2>1, <2>2, <2>3 DEF OneGoodRun
<1>3. ASSUME NEW force \in BOOLEAN, Run(force) PROVE OneGoodRun'
    <2>1. /\ refused' = refused /\ executed' = executed
          /\ repeated' = (repeated \/ force)
          /\ pc # "running"
        BY <1>3 DEF Run
    <2>2. CASE RunRaises(force) /\ pc' = "ready" /\ UNCHANGED httpVars
        <3>1. Copies' = Copies /\ failed' = failed
            BY <2>2, CopiesStep DEF httpVars
        <3>2. QED
            BY <2>1, <2>2, <3>1 DEF OneGoodRun
    <2>3. CASE ~RunRaises(force) /\ pc' = "running" /\ Call("run")
        <3>1. /\ Copies' = Copies \cup {FirstCopy("run")}
              /\ failed' = failed /\ calls' = calls + 1
              /\ FirstCopy("run").call = calls + 1
            BY <2>3, CopiesStep DEF Call, FirstCopy
        <3>2. force \/ ~executed
            BY <2>3 DEF RunRaises
        <3>3. QED
            BY <2>1, <2>3, <3>1, <3>2 DEF OneGoodRun
    <2>4. QED
        BY <1>3, <2>2, <2>3 DEF Run
<1>4. CASE RequestRetried
    <2>1. UNCHANGED <<repeated, refused, executed, pc>> /\ calls' = calls
        BY <1>4 DEF RequestRetried, BackOff, Retry, runnerVars, historyVars
    <2>2. CASE BackOff
        <3>1. Copies' = Copies
            BY <2>2, CopiesStep
        <3>2. QED
            BY <1>1, <2>1, <3>1 DEF OneGoodRun
    <2>3. CASE Retry
        <3>1. Copies' = Copies \cup {NextCopy} /\ failed' = failed
            BY <2>3, CopiesStep DEF Retry
        <3>2. NextCopy.call \in failed
            BY <2>3 DEF NextCopy, ThisCopy, Retry, HttpInv, UnderWay
        <3>3. QED
            BY <2>1, <3>1, <3>2 DEF OneGoodRun
    <2>4. QED
        BY <1>4, <2>2, <2>3 DEF RequestRetried
<1>5. CASE RunAnswered
    <2>1. /\ Copies' = Copies /\ UNCHANGED <<failed, repeated>>
          /\ executed' = (executed \/ answer[1].ok)
          /\ refused' = (refused \/ ~answer[1].ok)
          /\ pc' = "ready"
        BY <1>5, CopiesStep DEF RunAnswered, Goto, Return
    <2>2. CASE answer[1].ok
        BY <2>1, <2>2 DEF OneGoodRun
    <2>3. CASE ~answer[1].ok
        BY <2>1, <2>3 DEF OneGoodRun
    <2>4. QED
        BY <2>2, <2>3
<1>6. CASE RequestRaises
    <2>1. /\ Copies' = Copies /\ failed' = failed \cup {calls}
          /\ UNCHANGED <<repeated, refused, executed>>
          /\ pc' = "ready"
        BY <1>6, CopiesStep DEF RequestRaises, Raise, historyVars
    <2>2. QED
        BY <2>1 DEF OneGoodRun
<1>7. CASE InitRedo
    BY <1>7 DEF InitRedo, OneGoodRun
<1>8. CASE \/ CountAnswered \/ CheckCount \/ Prompt
           \/ \E yes \in BOOLEAN : Confirm(yes)
    <2>1. /\ pc # "running" /\ pc' # "running"
          /\ UNCHANGED <<repeated, refused, executed>>
        BY <1>8
           DEF CountAnswered, CheckCount, Prompt, Confirm, Goto, Verified, historyVars
    <2>2. Copies' = Copies
        BY <1>8, CopiesStep DEF CountAnswered, CheckCount, Prompt, Confirm
    <2>3. QED
        BY <1>1, <2>1, <2>2 DEF OneGoodRun
<1>9. CASE \/ \E c \in network, ok \in BOOLEAN : HandleCount(c, ok)
           \/ \E c \in network, runs, ok \in BOOLEAN : HandleRun(c, runs, ok)
           \/ \E n \in 0..args.count_ids : PresenceChanges(n)
           \/ UNCHANGED vars
    <2>1. UNCHANGED <<repeated, refused, executed, pc, calls>>
        BY <1>9
           DEF HandleCount, HandleRun, Handle, PresenceChanges, vars, runnerVars,
               historyVars, httpVars
    <2>2. Copies' = Copies
        <3>1. ASSUME NEW c \in network, NEW reply, Handle(c, reply)
              PROVE  Copies' = Copies
            BY <3>1, HandleAppends DEF HttpInv
        <3>2. UNCHANGED httpVars => Copies' = Copies
            BY CopiesStep
        <3>3. QED
            BY <1>9, <3>1, <3>2 DEF HandleCount, HandleRun, PresenceChanges, vars
    <2>3. QED
        BY <1>1, <2>1, <2>2 DEF OneGoodRun
<1>10. QED
    BY <1>2, <1>3, <1>4, <1>5, <1>6, <1>7, <1>8, <1>9, StepCases

\* The inductive invariant of the Runner holds throughout.
THEOREM RunnerInvariance == RunSpec => []RunnerInv
<1>1. RunInit => RunnerInv
    BY RunnerInitInv
<1>2. RunnerInv /\ [RunNext]_vars => RunnerInv'
    <2>1. SUFFICES ASSUME RunnerInv, [RunNext]_vars PROVE RunnerInv'
        OBVIOUS
    <2>2. HttpInv'
        BY <2>1, StepOfHttp, HttpInvNext DEF RunnerInv
    <2>3. RunTypeOK' /\ InRequest' /\ CountsMatched' /\ VerifiedForReason'
        BY <2>1, RunTypeNext, InRequestNext, CountsNext, VerifiedNext
    <2>4. ExecutedRan' /\ ExecutionsHandled' /\ OneGoodRun'
        BY <2>1, ExecutedNext, ExecutionsNext, OneGoodRunNext
    <2>5. QED
        BY <2>2, <2>3, <2>4 DEF RunnerInv
<1>3. QED
    BY <1>1, <1>2, PTL DEF RunSpec

-----------------------------------------------------------------------------
\* Every variable of a Runner and of the calls it makes keeps its type: no
\* attempt of a call is beyond MAX_RETRIES, nor before the first one.
THEOREM RunTypeCorrect == RunSpec => []RunTypeOK
<1>1. RunnerInv => RunTypeOK
    BY DEF RunnerInv
<1>2. QED
    BY <1>1, RunnerInvariance, PTL

\* The server handles each call at most MAX_RETRIES times (Http.__call__), once
\* if no attempt of it failed, and a call that returned has been handled before
\* every later call is, whatever copies are lost, late or answered too late.
THEOREM CallsAreInOrder == RunSpec => []CallsInOrder
<1>1. RunnerInv => CallsInOrder
    BY InvOrdersCalls DEF RunnerInv
<1>2. QED
    BY <1>1, RunnerInvariance, PTL

\* LAST_RESPONSE is the answer to LAST_REQUEST after a call that returned, and
\* to an older one during a call and after one that raised.
THEOREM LastResponseIsOfLastAnswered == RunSpec => []LastResponseOfLastAnswered
<1>1. RunnerInv => LastResponseOfLastAnswered
    BY InvLastAnswer DEF RunnerInv
<1>2. QED
    BY <1>1, RunnerInvariance, PTL

\* The Runner sends no run without force that has not been vouched for, agreed
\* to or matched by a count, for every number of IDs and every limit on it.
THEOREM UnforcedAreGrounded == RunSpec => []UnforcedRunsGrounded
<1>1. RunnerInv => UnforcedRunsGrounded
    BY DEF RunnerInv, VerifiedForReason, Grounded, UnforcedRunsGrounded
<1>2. QED
    BY <1>1, RunnerInvariance, PTL

\* $executed means that the server ran the enforcement set, and a second run of
\* it was asked for, or follows a request that failed or was refused.
THEOREM RunsAreExplained == RunSpec => []RunsExplained
<1>1. ASSUME RunnerInv PROVE RunsExplained
    <2>1. executed => executions >= 1
        BY <1>1 DEF RunnerInv, ExecutedRan
    <2>2. ASSUME executions > 1, ~repeated, ~refused
          PROVE  \E i \in DOMAIN handled :
                    handled[i].kind = "run" /\ handled[i].call \in failed
        <3>1. PICK i \in RunHandlings, j \in RunHandlings : i # j
            BY <1>1, <2>2 DEF RunnerInv, ExecutionsHandled
        <3>2. /\ i \in DOMAIN handled /\ handled[i] \in Copies
              /\ j \in DOMAIN handled /\ handled[j] \in Copies
              /\ handled[i].kind = "run" /\ handled[j].kind = "run"
              /\ handled[i].attempt \in Nat /\ handled[j].attempt \in Nat
            BY <1>1, CopiesTyped DEF RunnerInv, HttpInv, RunHandlings, Copy
        <3>3. ASSUME handled[i].call \notin failed, handled[j].call \notin failed
              PROVE  FALSE
            <4>1. handled[i].attempt = 0 /\ handled[j].attempt = 0
                BY <1>1, <3>2, <3>3 DEF RunnerInv, HttpInv, FurtherFailed
            <4>2. handled[i].call = handled[j].call
                BY <1>1, <2>2, <3>2, <3>3 DEF RunnerInv, OneGoodRun
            <4>3. handled[i] = handled[j]
                BY <1>1, <3>2, <4>1, <4>2 DEF RunnerInv, HttpInv, OneCopyEach
            <4>4. QED
                BY <1>1, <3>1, <3>2, <4>3 DEF RunnerInv, HttpInv, OneCopyEach
        <3>4. QED
            BY <3>2, <3>3
    <2>3. QED
        BY <2>1, <2>2 DEF RunsExplained
<1>2. QED
    BY <1>1, RunnerInvariance, PTL

=============================================================================
