-------------------------------- MODULE Session --------------------------------
(***************************************************************************)
(* Connect, the auth models it holds (AUTH and AUTH_NULL), the Http session *)
(* both share, and the cache of API models.  Every request carries the     *)
(* headers of that one session.                                            *)
(*                                                                         *)
(* API keys are generations 1, 2, ...: the server accepts the latest, and   *)
(* moves on when somebody resets the keys.  0 stands for no keys.  Logging  *)
(* in takes up to three requests, between which the server may move on and *)
(* each of which may fail; pc names the request that is next.              *)
(***************************************************************************)
EXTENDS Integers, FiniteSets

CONSTANTS
    Models,                 \* the API models of API_ATTRS
    Signup,                 \* the one made with start=False, auth=AUTH_NULL
    MaxResets               \* bound: how often the keys are reset

ASSUME SessionAssumption ==
    /\ Signup \in Models
    /\ MaxResets \in Nat

VARIABLES
    credentials,            \* AUTH is an AuthCredentials, else an AuthApiKey
    headers,                \* the keys in http.session.headers
    is_logged_in,           \* of AUTH
    null_logged_in,         \* of AUTH_NULL
    STARTED,
    API_CACHE,
    pc,                     \* "idle", or the request of a login: "login",
                            \* "get_api_keys", "validate"
    goal,                   \* what the login is for: "login", "start", a model
    server_keys             \* the keys the server accepts

(* What happened, for the properties only. *)
VARIABLES
    validated,              \* the keys of the last successful validation
    reset,                  \* the session has been replaced (session_reset)
    logged_out,             \* logout() returned True, and no login began since
    sent                    \* requests made by models: [via, keys]

vars == <<credentials, headers, is_logged_in, null_logged_in, STARTED,
          API_CACHE, pc, goal, server_keys, validated, reset, logged_out, sent>>

Keys == 0..(MaxResets + 1)

SessionTypeOK ==
    /\ credentials \in BOOLEAN
    /\ headers \in Keys /\ validated \in Keys /\ server_keys \in Keys \ {0}
    /\ {is_logged_in, null_logged_in, STARTED, reset, logged_out} \subseteq BOOLEAN
    /\ API_CACHE \in SUBSET Models
    /\ goal \in {"login", "start"} \cup (Models \ {Signup})
    /\ pc \in {"idle", "login", "get_api_keys", "validate"}
    /\ pc # "idle" => ~is_logged_in
    /\ sent \in SUBSET [via : Models, keys : Keys]

Init ==
    /\ credentials \in BOOLEAN
    /\ headers = 0
    /\ is_logged_in = FALSE /\ null_logged_in = FALSE
    /\ STARTED = FALSE /\ API_CACHE = {}
    /\ pc = "idle" /\ goal = "login"
    /\ server_keys = 1
    /\ validated = 0 /\ reset = FALSE /\ logged_out = FALSE /\ sent = {}

-----------------------------------------------------------------------------
(* login().                                                                *)

\* What its caller does behind a login that succeeded, or had nothing to do.
Behind(for) ==
    /\ STARTED' = (STARTED \/ for # "login")
    /\ API_CACHE' = API_CACHE \cup ({for} \cap Models)

\* The first request: AuthApiKey puts the keys it was made with, the first
\* generation, in the session and validates; AuthCredentials logs in.
BeginLogin(for) ==
    /\ goal' = for
    /\ logged_out' = FALSE
    /\ pc' = IF credentials THEN "login" ELSE "validate"
    /\ headers' = IF credentials THEN headers ELSE 1
    /\ UNCHANGED <<credentials, is_logged_in, null_logged_in, STARTED,
                   API_CACHE, server_keys, validated, reset, sent>>

NothingToDo(for) ==
    /\ Behind(for)
    /\ UNCHANGED <<credentials, headers, is_logged_in, null_logged_in,
                   pc, goal, server_keys, validated, reset, logged_out, sent>>

\* Mutant: logs in again when it is logged in.
LogInAgain(for) == pc = "idle" /\ BeginLogin(for)

LogIn(for) ==
    /\ pc = "idle"
    /\ IF is_logged_in THEN NothingToDo(for) ELSE BeginLogin(for)

LoginAnswered ==
    /\ pc = "login" /\ pc' = "get_api_keys"
    /\ UNCHANGED <<credentials, headers, is_logged_in, null_logged_in,
                   STARTED, API_CACHE, goal, server_keys, validated, reset,
                   logged_out, sent>>

ApiKeysAnswered ==
    /\ pc = "get_api_keys" /\ pc' = "validate"
    /\ headers' = server_keys
    /\ UNCHANGED <<credentials, is_logged_in, null_logged_in, STARTED, API_CACHE,
                   goal, server_keys, validated, reset, logged_out, sent>>

ValidateAnswered ==
    /\ pc = "validate" /\ pc' = "idle"
    /\ headers = server_keys
    /\ is_logged_in' = TRUE
    /\ validated' = headers
    /\ reset' = FALSE
    /\ Behind(goal)
    /\ UNCHANGED <<credentials, headers, null_logged_in, goal,
                   server_keys, logged_out, sent>>

\* Mutant: the exception is lost on the way, and the caller goes on.
LoginRaisesUnseen ==
    /\ pc \in {"login", "get_api_keys", "validate"} /\ pc' = "idle"
    /\ Behind(goal)
    /\ UNCHANGED <<credentials, headers, is_logged_in, null_logged_in, goal,
                   server_keys, validated, reset, logged_out, sent>>

\* Any of the three raises; a validate does when the keys are not accepted.
\* What has been put in the session stays there.
LoginRaises ==
    /\ pc \in {"login", "get_api_keys", "validate"} /\ pc' = "idle"
    /\ UNCHANGED <<credentials, headers, is_logged_in, null_logged_in,
                   STARTED, API_CACHE, goal, server_keys, validated, reset,
                   logged_out, sent>>

-----------------------------------------------------------------------------
(* What the program calls.                                                 *)

Login == LogIn("login")

\* start(): nothing once STARTED.
StartClient == ~STARTED /\ LogIn("start")

\* _get_model: start(), then the model from the cache or a new one, whose
\* constructor logs in.
GetModel(m) ==
    /\ m # Signup
    /\ ~STARTED \/ m \notin API_CACHE
    /\ LogIn(m)

\* The signup model does not start the client and logs AUTH_NULL in.
GetSignup ==
    /\ pc = "idle"
    /\ Signup \notin API_CACHE
    /\ API_CACHE' = API_CACHE \cup {Signup}
    /\ null_logged_in' = TRUE
    /\ UNCHANGED <<credentials, headers, is_logged_in, STARTED, pc, goal,
                   server_keys, validated, reset, logged_out, sent>>

\* Mutant: the keys stay in the session.
LogoutKeepingKeys ==
    /\ pc = "idle"
    /\ is_logged_in /\ is_logged_in' = FALSE
    /\ logged_out' = TRUE
    /\ UNCHANGED <<credentials, headers, null_logged_in, STARTED, API_CACHE, pc,
                   goal, server_keys, validated, reset, sent>>

Logout ==
    /\ pc = "idle"
    /\ is_logged_in /\ is_logged_in' = FALSE
    /\ headers' = 0
    /\ logged_out' = TRUE
    /\ UNCHANGED <<credentials, null_logged_in, STARTED, API_CACHE, pc,
                   goal, server_keys, validated, reset, sent>>

\* A method of a model that is held, or was taken from the cache.
Request(m) ==
    /\ pc = "idle"
    /\ m \in API_CACHE
    /\ sent' = sent \cup {[via |-> m, keys |-> headers]}
    /\ UNCHANGED <<credentials, headers, is_logged_in, null_logged_in,
                   STARTED, API_CACHE, pc, goal, server_keys, validated, reset,
                   logged_out>>

\* A call of Http with session_reset=True: new_session() knows the headers
\* Http was made with, but not the keys.
NewSession ==
    /\ pc = "idle"
    /\ headers' = 0
    /\ reset' = TRUE
    /\ UNCHANGED <<credentials, is_logged_in, null_logged_in, STARTED,
                   API_CACHE, pc, goal, server_keys, validated, logged_out, sent>>

\* Somebody resets the API keys of the account.
KeysReset ==
    /\ server_keys <= MaxResets
    /\ server_keys' = server_keys + 1
    /\ UNCHANGED <<credentials, headers, is_logged_in, null_logged_in,
                   STARTED, API_CACHE, pc, goal, validated, reset, logged_out, sent>>

Next ==
    \/ Login \/ LoginAnswered \/ ApiKeysAnswered \/ ValidateAnswered \/ LoginRaises
    \/ StartClient
    \/ \E m \in Models : GetModel(m)
    \/ GetSignup
    \/ Logout
    \/ \E m \in Models : Request(m)
    \/ NewSession
    \/ KeysReset

Spec == Init /\ [][Next]_vars

-----------------------------------------------------------------------------
(* Properties.                                                             *)

(* However often logging in fails on the way, and whatever becomes of the keys
   meanwhile: a client is only STARTED, and a model other than signup only
   cached, once the server has accepted the keys of a login.               *)
UsableOnlyValidated ==
    STARTED \/ API_CACHE \ {Signup} # {} => validated # 0

(* While AUTH says it is logged in, requests carry the very keys the server
   accepted when it logged in; only a session_reset loses them unnoticed.  *)
LoggedInSendsValidated ==
    is_logged_in /\ ~reset => headers = validated /\ headers # 0

(* After a logout no request carries keys until somebody logs in, be it the
   constructor of a model that was not cached yet.                         *)
QuietAfterLogout == logged_out => headers = 0 /\ ~is_logged_in

(* Of AuthNull: "Authenticate using no credentials".  A request of the model
   that is bound to it carries none.                                       *)
NullSendsNoCredentials == \A r \in sent : r.via = Signup => r.keys = 0

=============================================================================
