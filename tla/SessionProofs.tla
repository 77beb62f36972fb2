----------------------------- MODULE SessionProofs -----------------------------
(***************************************************************************)
(* Theorems about Session, for every set of API models, both kinds of      *)
(* credentials, and however often the keys are reset.                      *)
(***************************************************************************)
EXTENDS Session, TLAPS

-----------------------------------------------------------------------------
(* The inductive invariant.                                                *)

\* A login that is under way has ended what a logout began: without it
\* QuietAfterLogout does not survive ApiKeysAnswered and ValidateAnswered.
LoginEndsQuiet == pc # "idle" => ~logged_out

\* AUTH is only logged in by a validation: without it a client that has nothing
\* to log in for could be STARTED unvalidated.
LoggedInIsValidated == is_logged_in => validated # 0

IInv ==
    /\ SessionTypeOK
    /\ LoginEndsQuiet
    /\ LoggedInIsValidated
    /\ UsableOnlyValidated
    /\ LoggedInSendsValidated
    /\ QuietAfterLogout

-----------------------------------------------------------------------------
\* Every step is one of these, with the guards of its caller left out: three of
\* the program's calls log in, and differ only in what for.
LEMMA StepCases ==
    ASSUME SessionTypeOK, [Next]_vars
    PROVE  \/ \E for \in {"login", "start"} \cup (Models \ {Signup}) : LogIn(for)
           \/ LoginAnswered \/ ApiKeysAnswered \/ ValidateAnswered \/ LoginRaises
           \/ GetSignup \/ Logout
           \/ \E m \in Models : Request(m)
           \/ NewSession \/ KeysReset
           \/ UNCHANGED vars
BY DEF Next, Login, StartClient, GetModel

\* Keys that are accepted are keys, and the first generation is one.
LEMMA KeysAreNaturals ==
    /\ Keys \subseteq Nat /\ 0 \in Keys /\ 1 \in Keys
    /\ \A k \in Keys \ {0} : k <= MaxResets => k + 1 \in Keys \ {0}
BY SessionAssumption DEF Keys

\* The invariant holds when nobody has logged in.
LEMMA IInvInit == Init => IInv
<1> SUFFICES ASSUME Init PROVE IInv
    OBVIOUS
<1>1. SessionTypeOK
    <2>1. headers \in Keys /\ validated \in Keys /\ server_keys \in Keys \ {0}
        BY KeysAreNaturals DEF Init
    <2>2. {is_logged_in, null_logged_in, STARTED, reset, logged_out} \subseteq BOOLEAN
        BY DEF Init
    <2>3. QED
        BY <2>1, <2>2 DEF Init, SessionTypeOK
<1>2. QED
    BY <1>1 DEF Init, IInv, LoginEndsQuiet, LoggedInIsValidated,
       UsableOnlyValidated, LoggedInSendsValidated, QuietAfterLogout

\* Every step keeps the type.
LEMMA TypeNext ==
    ASSUME SessionTypeOK, [Next]_vars
    PROVE  SessionTypeOK'
<1>1. ASSUME NEW for \in {"login", "start"} \cup (Models \ {Signup}), LogIn(for)
      PROVE  SessionTypeOK'
    <2>1. CASE NothingToDo(for)
        BY <2>1 DEF SessionTypeOK, NothingToDo, Behind
    <2>2. CASE ~is_logged_in /\ BeginLogin(for)
        BY <2>2, KeysAreNaturals DEF SessionTypeOK, BeginLogin
    <2>3. QED
        BY <1>1, <2>1, <2>2 DEF LogIn
<1>2. CASE LoginAnswered
    BY <1>2 DEF SessionTypeOK, LoginAnswered
<1>3. CASE ApiKeysAnswered
    BY <1>3 DEF SessionTypeOK, ApiKeysAnswered
<1>4. CASE ValidateAnswered
    BY <1>4 DEF SessionTypeOK, ValidateAnswered, Behind
<1>5. CASE LoginRaises
    BY <1>5 DEF SessionTypeOK, LoginRaises
<1>6. CASE GetSignup
    BY <1>6, SessionAssumption DEF SessionTypeOK, GetSignup
<1>7. CASE Logout
    BY <1>7, KeysAreNaturals DEF SessionTypeOK, Logout
<1>8. ASSUME NEW m \in Models, Request(m)
      PROVE  SessionTypeOK'
    <2>1. [via |-> m, keys |-> headers] \in [via : Models, keys : Keys]
        BY DEF SessionTypeOK
    <2>2. QED
        BY <1>8, <2>1 DEF SessionTypeOK, Request
<1>9. CASE NewSession
    BY <1>9, KeysAreNaturals DEF SessionTypeOK, NewSession
<1>10. CASE KeysReset
    BY <1>10, KeysAreNaturals DEF SessionTypeOK, KeysReset
<1>11. CASE UNCHANGED vars
    BY <1>11 DEF SessionTypeOK, vars
<1>12. QED
    BY <1>1, <1>2, <1>3, <1>4, <1>5, <1>6, <1>7, <1>8, <1>9, <1>10, <1>11,
       StepCases

\* Every step keeps what makes a client usable: a validation of its keys.
LEMMA ValidatedNext ==
    ASSUME IInv, [Next]_vars
    PROVE  LoggedInIsValidated' /\ UsableOnlyValidated'
<1> USE DEF IInv, LoggedInIsValidated, UsableOnlyValidated
<1>1. ASSUME NEW for \in {"login", "start"} \cup (Models \ {Signup}), LogIn(for)
      PROVE  LoggedInIsValidated' /\ UsableOnlyValidated'
    BY <1>1 DEF LogIn, NothingToDo, BeginLogin
<1>2. CASE ValidateAnswered
    <2>1. validated' # 0
        BY <1>2 DEF ValidateAnswered, SessionTypeOK
    <2>2. QED
        BY <2>1
<1>3. CASE GetSignup
    BY <1>3 DEF GetSignup
<1>4. CASE Logout
    BY <1>4 DEF Logout
<1>5. CASE LoginAnswered \/ ApiKeysAnswered \/ LoginRaises
    BY <1>5 DEF LoginAnswered, ApiKeysAnswered, LoginRaises
<1>6. CASE (\E m \in Models : Request(m)) \/ NewSession \/ KeysReset
    BY <1>6 DEF Request, NewSession, KeysReset
<1>7. CASE UNCHANGED vars
    BY <1>7 DEF vars
<1>8. QED
    BY <1>1, <1>2, <1>3, <1>4, <1>5, <1>6, <1>7, StepCases

\* Every step keeps the session's headers what AUTH takes them to be.
LEMMA HeadersNext ==
    ASSUME IInv, [Next]_vars
    PROVE  LoginEndsQuiet' /\ LoggedInSendsValidated' /\ QuietAfterLogout'
<1> USE DEF IInv, LoginEndsQuiet, LoggedInSendsValidated, QuietAfterLogout
<1>1. ASSUME NEW for \in {"login", "start"} \cup (Models \ {Signup}), LogIn(for)
      PROVE  LoginEndsQuiet' /\ LoggedInSendsValidated' /\ QuietAfterLogout'
    BY <1>1 DEF LogIn, NothingToDo, BeginLogin
<1>2. CASE ValidateAnswered
    BY <1>2 DEF ValidateAnswered, SessionTypeOK
<1>3. CASE LoginAnswered \/ ApiKeysAnswered \/ LoginRaises
    BY <1>3 DEF LoginAnswered, ApiKeysAnswered, LoginRaises, SessionTypeOK
<1>4. CASE GetSignup
    BY <1>4 DEF GetSignup
<1>5. CASE Logout
    BY <1>5 DEF Logout
<1>6. CASE (\E m \in Models : Request(m)) \/ KeysReset
    BY <1>6 DEF Request, KeysReset
<1>7. CASE NewSession
    BY <1>7 DEF NewSession
<1>8. CASE UNCHANGED vars
    BY <1>8 DEF vars
<1>9. QED
    BY <1>1, <1>2, <1>3, <1>4, <1>5, <1>6, <1>7, <1>8, StepCases

\* The inductive invariant holds throughout.
THEOREM Invariance == Spec => []IInv
<1>1. Init => IInv
    BY IInvInit
<1>2. IInv /\ [Next]_vars => IInv'
    BY TypeNext, ValidatedNext, HeadersNext DEF IInv
<1>3. QED
    BY <1>1, <1>2, PTL DEF Spec

-----------------------------------------------------------------------------
\* Every variable of a session keeps its type, and AUTH never says it is logged
\* in while a login is under way (login() returns at once when it is).
THEOREM SessionTypeCorrect == Spec => []SessionTypeOK
<1>1. IInv => SessionTypeOK
    BY DEF IInv
<1>2. QED
    BY <1>1, Invariance, PTL

\* A client is only STARTED, and a model other than signup only cached, once the
\* server has accepted the keys of a login (start(), _get_model, login()),
\* whichever of its three requests fail, and however often the keys are reset.
THEOREM UsableIsValidated == Spec => []UsableOnlyValidated
<1>1. IInv => UsableOnlyValidated
    BY DEF IInv
<1>2. QED
    BY <1>1, Invariance, PTL

\* While AUTH says it is logged in, the session the requests of every model go
\* through carries the very keys that were validated, unless Http was told to
\* reset the session.
THEOREM LoggedInSendsTheValidated == Spec => []LoggedInSendsValidated
<1>1. IInv => LoggedInSendsValidated
    BY DEF IInv
<1>2. QED
    BY <1>1, Invariance, PTL

\* After logout() nothing carries keys until somebody logs in.
THEOREM LogoutIsQuiet == Spec => []QuietAfterLogout
<1>1. IInv => QuietAfterLogout
    BY DEF IInv
<1>2. QED
    BY <1>1, Invariance, PTL

=============================================================================
