------------------------------- MODULE HttpSend -------------------------------
(***************************************************************************)
(* Http.__call__: one request, sent again when sending it fails, over a    *)
(* network that loses and delays messages.  The operators below are        *)
(* fragments of actions; the module that makes the calls says what the     *)
(* server does with a copy of a request and what the caller does next.     *)
(*                                                                         *)
(* A copy is what one attempt puts on the network.  The server may handle  *)
(* it at once, long after the client has given that attempt or the whole   *)
(* call up (nothing in the client takes it back), or never: a copy that    *)
(* stays on the network for ever is lost.                                  *)
(***************************************************************************)
EXTENDS Integers, Sequences, FiniteSets

CONSTANTS
    Kinds,                  \* the endpoints that are called
    RetrySettings           \* what Http.MAX_RETRIES may be configured to

ASSUME HttpSendAssumption == RetrySettings \subseteq Int

VARIABLES
    max_retries,            \* self.MAX_RETRIES, corrected by the first call
    http,                   \* "idle", "wait" for an answer, or "sleep"
    calls,                  \* how many calls were made; the number of this one
    kind,                   \* the endpoint of this call
    attempt,                \* the loop variable, 0 for the first attempt
    network,                \* copies on their way to the server
    answer,                 \* << >>, or the answer on its way back to the client
    last_request,           \* LAST_REQUEST: the number of a call, 0 if none
    last_response           \* LAST_RESPONSE: the number of the call it answers

(* What happened, for the properties only. *)
VARIABLES
    handled,                \* the copies the server handled, in that order
    answered,               \* calls that returned a response
    failed                  \* calls an attempt of which failed

httpVars == <<max_retries, http, calls, kind, attempt, network, answer,
              last_request, last_response, handled, answered, failed>>

Copy   == [call : Nat \ {0}, kind : Kinds, attempt : Nat]
Answer == [ok : BOOLEAN, value : Int]

\* "if self.MAX_RETRIES < 1: self.MAX_RETRIES = 1"
AtLeastOne(n) == IF n < 1 THEN 1 ELSE n

HttpTypeOK ==
    /\ max_retries \in Int
    /\ http \in {"idle", "wait", "sleep"}
    /\ calls \in Nat
    /\ kind \in Kinds \cup {"none"}
    /\ attempt \in 0..(AtLeastOne(max_retries) - 1)
    /\ network \in SUBSET Copy
    /\ answer \in Seq(Answer) /\ Len(answer) <= 1
    /\ last_request \in Nat
    /\ last_response \in Nat
    /\ handled \in Seq(Copy)
    /\ answered \in SUBSET Nat
    /\ failed \in SUBSET Nat

HttpInit ==
    /\ max_retries \in RetrySettings
    /\ http = "idle"
    /\ calls = 0 /\ attempt = 0
    /\ kind = "none"
    /\ network = {} /\ answer = << >>
    /\ last_request = 0 /\ last_response = 0
    /\ handled = << >> /\ answered = {} /\ failed = {}

-----------------------------------------------------------------------------
ThisCopy == [call |-> calls, kind |-> kind, attempt |-> attempt]

\* The request is prepared and its first attempt goes out.
Call(k) ==
    /\ http = "idle" /\ http' = "wait"
    /\ max_retries' = AtLeastOne(max_retries)
    /\ calls' = calls + 1
    /\ kind' = k
    /\ attempt' = 0
    /\ network' = network \cup {[call |-> calls + 1, kind |-> k, attempt |-> 0]}
    /\ answer' = << >>
    /\ last_request' = calls + 1
    /\ UNCHANGED <<last_response, handled, answered, failed>>

\* The response of the attempt that is waiting; the call returns it.
Return ==
    /\ http = "wait" /\ http' = "idle"
    /\ answer # << >>
    /\ last_response' = calls
    /\ answered' = answered \cup {calls}
    /\ UNCHANGED <<max_retries, calls, kind, attempt, network, answer,
                   last_request, handled, failed>>

\* Mutant: one attempt too many.
LastAttemptLate == attempt = max_retries

\* Sending the last attempt raised, or it timed out: so does the call.
LastAttempt == attempt = max_retries - 1

\* Mutant: a call that raises records a response all the same.
RaiseRecording ==
    /\ http = "wait" /\ http' = "idle"
    /\ LastAttempt
    /\ failed' = failed \cup {calls}
    /\ last_response' = calls
    /\ UNCHANGED <<max_retries, calls, kind, attempt, network, answer,
                   last_request, handled, answered>>

Raise ==
    /\ http = "wait" /\ http' = "idle"
    /\ LastAttempt
    /\ failed' = failed \cup {calls}
    /\ UNCHANGED <<max_retries, calls, kind, attempt, network, answer,
                   last_request, last_response, handled, answered>>

\* Sending another attempt raised, or it timed out: back off.
BackOff ==
    /\ http = "wait" /\ http' = "sleep"
    /\ ~LastAttempt
    /\ answer' = << >>
    /\ failed' = failed \cup {calls}
    /\ UNCHANGED <<max_retries, calls, kind, attempt, network, last_request,
                   last_response, handled, answered>>

\* Mutant: the attempts are not counted.
RetryUncounted ==
    /\ http = "sleep" /\ http' = "wait"
    /\ network' = network \cup {ThisCopy}
    /\ UNCHANGED <<max_retries, calls, kind, attempt, answer, last_request,
                   last_response, handled, answered, failed>>

\* The same prepared request goes out once more.
Retry ==
    /\ http = "sleep" /\ http' = "wait"
    /\ attempt' = attempt + 1
    /\ network' = network \cup {[ThisCopy EXCEPT !.attempt = attempt + 1]}
    /\ UNCHANGED <<max_retries, calls, kind, answer, last_request,
                   last_response, handled, answered, failed>>

\* The server handles a copy; the answer may be lost, and only matters when
\* the client still waits for this very attempt.
Handle(c, reply) ==
    /\ c \in network
    /\ network' = network \ {c}
    /\ handled' = Append(handled, c)
    /\ \/ http = "wait" /\ c = ThisCopy /\ answer' = <<reply>>
       \/ UNCHANGED answer
    /\ UNCHANGED <<max_retries, http, calls, kind, attempt,
                   last_request, last_response, answered, failed>>

-----------------------------------------------------------------------------
\* The places of a call's copies in the order of handling.
HandlingsOf(n) == {i \in DOMAIN handled : handled[i].call = n}

(* The server handles one call at most as often as there are attempts in the
   loop of http.py:679, which are MAX_RETRIES, one when that is 0 or negative
   (what the setting is said to count is in RetriesAsDocumented); the first
   handling of a call that returned a response comes before every handling of
   a later call, whatever became of its other copies; and a call none of whose
   attempts failed is handled at most once.                                *)
CallsInOrder ==
    \A n \in 1..calls :
        /\ Cardinality(HandlingsOf(n)) <= AtLeastOne(max_retries)
        /\ n \in answered =>
              \E i \in HandlingsOf(n) : \A m \in (n + 1)..calls :
                  \A j \in HandlingsOf(m) : i < j
        /\ n \notin failed => Cardinality(HandlingsOf(n)) <= 1

(* LAST_RESPONSE answers LAST_REQUEST exactly when the latest call returned;
   after a call that raised, or during one, it is the answer to an older one. *)
LastResponseOfLastAnswered ==
    /\ http = "idle" /\ calls \in answered => last_response = last_request
    /\ calls \notin answered => last_response < last_request \/ calls = 0
    /\ last_response # 0 => last_response \in answered

(* The docs of MAX_RETRIES: "Number of times to retry a request if it fails",
   "number of times to retry a failed connection".  A call that raised has
   been tried once, and then again that often; attempt counts from 0.      *)
RetriesAsDocumented ==
    http = "idle" /\ calls # 0 /\ calls \notin answered => attempt = max_retries

=============================================================================
