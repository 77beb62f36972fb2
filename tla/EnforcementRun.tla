---------------------------- MODULE EnforcementRun ----------------------------
(***************************************************************************)
(* Runner: run an enforcement set against given asset IDs, once they have  *)
(* been verified.  The program that holds the Runner calls verify(), run(), *)
(* verify_and_run() and init(redo=True) in any order; each may make a call *)
(* to the server through Http (HttpSend), which retries it.                *)
(*                                                                         *)
(* pc is where the Runner is: "ready" between two calls of its methods,    *)
(* "counting" and "running" in a request, "check" with the count known,    *)
(* "prompting" the user, "run" between the two halves of verify_and_run.   *)
(***************************************************************************)
EXTENDS HttpSend

CONSTANTS
    Arguments,              \* the arguments a Runner may be made with
    CountError,             \* _count_error
    MaxCalls,               \* bound: requests made
    MaxChanges              \* bound: changes of what the server counts

ASSUME EnforcementRunAssumption ==
    /\ Kinds = {"count", "run"}
    /\ CountError \in Nat
    /\ MaxCalls \in Nat
    /\ MaxChanges \in Nat
    /\ Arguments \subseteq [count_ids : Nat \ {0}, verified : BOOLEAN,
                            verify_count : BOOLEAN, prompt : BOOLEAN]

VARIABLES
    args,                   \* the arguments, fixed from Init
    verified,               \* $verified, first as given
    executed,               \* _executed
    count_result,           \* _count_result; -1 for None
    pc,
    then_run,               \* is verify() called by verify_and_run()
    present,                \* how many of the IDs the server knows
    changes                 \* how often that changed

(* What happened, for the properties only. *)
VARIABLES
    executions,             \* how often the server ran the enforcement set
    matched,                \* the server has known exactly count_ids of the IDs
    consented,              \* the user has agreed at a prompt
    performed,              \* verify() has come to its end
    refused,                \* a run request was answered with an error
    unforced,               \* run requests made without force
    repeated,               \* run(force=True) or init(redo=True) was called
    limited                 \* verify() has raised for the limit on the IDs

runnerVars  == <<args, verified, executed, count_result, pc, then_run>>
serverVars  == <<present, changes, executions, matched>>
historyVars == <<consented, performed, refused, unforced, repeated, limited>>
vars        == <<runnerVars, serverVars, historyVars, httpVars>>

RunTypeOK ==
    /\ HttpTypeOK
    /\ args \in Arguments
    /\ verified \in BOOLEAN /\ executed \in BOOLEAN
    /\ count_result \in Nat \cup {-1}
    /\ pc \in {"ready", "counting", "check", "prompting", "run", "running"}
    /\ then_run \in BOOLEAN
    /\ present \in 0..args.count_ids
    /\ changes \in Nat /\ executions \in Nat /\ unforced \in Nat
    /\ {matched, consented, performed, refused, repeated, limited} \subseteq BOOLEAN

RunInit ==
    /\ args \in Arguments
    /\ verified = args.verified
    /\ executed = FALSE
    /\ count_result = -1
    /\ pc = "ready" /\ then_run = FALSE
    /\ present \in 0..args.count_ids /\ changes = 0
    /\ executions = 0
    /\ matched = (present = args.count_ids)
    /\ consented = FALSE /\ performed = FALSE /\ refused = FALSE
    /\ unforced = 0 /\ repeated = FALSE /\ limited = FALSE
    /\ HttpInit

Goto(from, to) == pc = from /\ pc' = to

-----------------------------------------------------------------------------
(* verify().                                                               *)

OverLimit == args.count_ids >= CountError

\* "must supply verified or verify_count", or over $count_error.
VerifyRaises == (~verified /\ ~args.verify_count) \/ OverLimit

\* verify() returns: to its caller, or to verify_and_run().
Verified(runs) ==
    /\ performed' = TRUE
    /\ pc' = IF runs THEN "run" ELSE "ready"

Verify(runs) ==
    /\ pc = "ready"
    /\ then_run' = runs
    /\ limited' = (limited \/ ((verified \/ args.verify_count) /\ OverLimit))
    /\ \/ VerifyRaises /\ pc' = "ready" /\ UNCHANGED performed /\ UNCHANGED httpVars
       \/ ~VerifyRaises /\ verified /\ Verified(runs) /\ UNCHANGED httpVars
       \/ /\ ~VerifyRaises /\ ~verified
          /\ count_result # -1
          /\ pc' = "check"
          /\ UNCHANGED performed /\ UNCHANGED httpVars
       \/ /\ ~VerifyRaises /\ ~verified
          /\ count_result = -1
          /\ pc' = "counting"
          /\ Call("count")
          /\ UNCHANGED performed
    /\ UNCHANGED <<args, verified, executed, count_result, serverVars>>
    /\ UNCHANGED <<consented, refused, unforced, repeated>>

\* The answer to the count, an error if its status is bad.
CountAnswered ==
    /\ answer # << >>
    /\ Goto("counting", IF answer[1].ok THEN "check" ELSE "ready")
    /\ Return
    /\ count_result' = IF answer[1].ok THEN answer[1].value ELSE count_result
    /\ UNCHANGED <<args, verified, executed, then_run, serverVars, historyVars>>

\* Mutant: fewer assets than IDs are good enough.
IsMatchSome == args.count_ids >= count_result

IsMatch == args.count_ids = count_result

\* _check_count: without a prompt the count decides.
CheckCount ==
    /\ pc = "check"
    /\ ~args.prompt
    /\ \/ IsMatch /\ verified' = TRUE /\ Verified(then_run)
       \/ ~IsMatch /\ pc' = "ready" /\ UNCHANGED <<verified, performed>>
    /\ UNCHANGED <<args, executed, count_result, then_run, serverVars, httpVars>>
    /\ UNCHANGED <<consented, refused, unforced, repeated, limited>>

\* _check_count_prompt: with one the user does, match or not.
Prompt ==
    /\ Goto("check", "prompting")
    /\ args.prompt
    /\ UNCHANGED <<args, verified, executed, count_result, then_run>>
    /\ UNCHANGED <<serverVars, historyVars, httpVars>>

Confirm(yes) ==
    /\ pc = "prompting"
    /\ verified' = yes
    /\ consented' = (consented \/ yes)
    /\ IF yes THEN Verified(then_run) ELSE pc' = "ready" /\ UNCHANGED performed
    /\ UNCHANGED <<args, executed, count_result, then_run, serverVars, httpVars>>
    /\ UNCHANGED <<refused, unforced, repeated, limited>>

-----------------------------------------------------------------------------
(* run(force), called by the program or by verify_and_run().               *)

\* Mutant: a run that has been made is not remembered.
RunRaisesForgetful(force) == ~force /\ ~verified

RunRaises(force) == ~force /\ (~verified \/ executed)

Run(force) ==
    /\ pc = "ready" \/ (pc = "run" /\ ~force)
    /\ \/ RunRaises(force) /\ pc' = "ready" /\ UNCHANGED unforced
          /\ UNCHANGED httpVars
       \/ /\ ~RunRaises(force)
          /\ pc' = "running"
          /\ Call("run")
          /\ unforced' = IF force THEN unforced ELSE unforced + 1
    /\ repeated' = (repeated \/ force)
    /\ UNCHANGED <<args, verified, executed, count_result, then_run>>
    /\ UNCHANGED <<serverVars, consented, performed, refused, limited>>

\* "self.executed = True" only comes after an answer with a good status.
RunAnswered ==
    /\ answer # << >>
    /\ Goto("running", "ready")
    /\ Return
    /\ executed' = (executed \/ answer[1].ok)
    /\ refused' = (refused \/ ~answer[1].ok)
    /\ UNCHANGED <<args, verified, count_result, then_run, serverVars>>
    /\ UNCHANGED <<consented, performed, unforced, repeated, limited>>

\* Http gave up; the exception leaves the Runner's method.
RequestRaises ==
    /\ pc \in {"counting", "running"} /\ pc' = "ready"
    /\ Raise
    /\ UNCHANGED <<args, verified, executed, count_result, then_run>>
    /\ UNCHANGED <<serverVars, historyVars>>

RequestRetried ==
    /\ BackOff \/ Retry
    /\ UNCHANGED <<runnerVars, serverVars, historyVars>>

\* init(redo=True) forgets the count and the run, but not the verification.
InitRedo ==
    /\ Goto("ready", "ready")
    /\ executed' = FALSE
    /\ count_result' = -1
    /\ repeated' = TRUE
    /\ UNCHANGED <<args, verified, then_run, serverVars, httpVars>>
    /\ UNCHANGED <<consented, performed, refused, unforced, limited>>

-----------------------------------------------------------------------------
(* The server.                                                             *)

HandleCount(c, ok) ==
    /\ c.kind = "count"
    /\ Handle(c, [ok |-> ok, value |-> present])
    /\ UNCHANGED <<runnerVars, serverVars, historyVars>>

\* It may run the enforcement set and answer with an error all the same.
HandleRun(c, runs, ok) ==
    /\ c.kind = "run"
    /\ ok => runs
    /\ Handle(c, [ok |-> ok, value |-> 0])
    /\ executions' = IF runs THEN executions + 1 ELSE executions
    /\ UNCHANGED <<runnerVars, present, changes, matched, historyVars>>

\* Assets are discovered or removed meanwhile.
PresenceChanges(n) ==
    /\ changes < MaxChanges /\ n # present
    /\ changes' = changes + 1
    /\ present' = n
    /\ matched' = (matched \/ n = args.count_ids)
    /\ UNCHANGED <<runnerVars, executions, historyVars, httpVars>>

-----------------------------------------------------------------------------
\* verify_and_run makes two requests; the bound leaves room for both.
Program ==
    \/ /\ calls + 2 <= MaxCalls
       /\ \/ \E runs \in BOOLEAN : Verify(runs)
          \/ pc = "ready" /\ \E force \in BOOLEAN : Run(force)
    \/ InitRedo

Runner ==
    \/ CountAnswered
    \/ CheckCount
    \/ Prompt
    \/ pc = "run" /\ Run(FALSE)
    \/ RunAnswered
    \/ RequestRaises
    \/ RequestRetried

User == \E yes \in BOOLEAN : Confirm(yes)

Server ==
    \/ \E c \in network, ok \in BOOLEAN : HandleCount(c, ok)
    \/ \E c \in network, runs, ok \in BOOLEAN : HandleRun(c, runs, ok)
    \/ \E n \in 0..args.count_ids : PresenceChanges(n)

RunNext == Program \/ Runner \/ User \/ Server

RunSpec == RunInit /\ [][RunNext]_vars

(* The Runner's methods run in the caller's thread, and an attempt that gets
   no answer times out; of the user, the server and the program nothing is
   assumed.                                                                *)
FairRunSpec == RunSpec /\ WF_vars(Runner)

-----------------------------------------------------------------------------
(* Properties.                                                             *)

(* Without force, and unless the program vouched for the IDs when it made the
   Runner, the enforcement set is only sent off when verify() came to its end
   within $count_error, and for a reason: the user agreed where there is a
   prompt, else the server has once known exactly the given number of IDs,
   whatever was retried, lost or answered late in between.                 *)
UnforcedRunsGrounded ==
    unforced > 0 =>
        \/ args.verified
        \/ /\ performed /\ ~OverLimit
           /\ IF args.prompt THEN consented ELSE matched

(* What $executed says of the server: when it is set the enforcement set has
   been run; and it has been run more than once only if the program asked for
   that, or a run request failed under way or was answered with an error.  *)
RunsExplained ==
    /\ executed => executions >= 1
    /\ executions > 1 =>
          \/ repeated \/ refused
          \/ \E i \in DOMAIN handled :
                handled[i].kind = "run" /\ handled[i].call \in failed

(* A method of the Runner that makes a request comes back, with an answer, an
   exception or a prompt, even if the server never answers.                *)
MethodsReturn ==
    pc \in {"counting", "check", "run", "running"} ~> pc \in {"ready", "prompting"}

(* The notes of the Runner, on verify(): "If $count_ids is greater than
   $count_error - ERROR(Query length is over error limit ...)".  When verify()
   has raised for that reason there are more IDs than the limit.           *)
LimitedAsNoted == limited => args.count_ids > CountError

=============================================================================
