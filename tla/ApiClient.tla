------------------------------ MODULE ApiClient -------------------------------
(***************************************************************************)
(* Programs that call methods of the API client against one server.  Most  *)
(* methods that change something make several requests: they read, decide, *)
(* write what they read with a part replaced, and read the result back.    *)
(* Each request is a step of its own here, so other clients act between    *)
(* any two of them.  The modules of the methods (SettingsEdit, CnxEdit,    *)
(* SavedQueryEdit, FolderEdit) extend this one.                            *)
(*                                                                         *)
(* pc[c] names the request client c makes next, "idle" between two calls;  *)
(* job[c] is the call: the method with its arguments.  A request that      *)
(* fails raises out of the method; one that writes may have been carried   *)
(* out all the same (HttpSend models how that comes about).                *)
(***************************************************************************)
EXTENDS Naturals, FiniteSets

CONSTANTS
    Clients,
    MaxCalls                \* bound: calls made by all clients together

ASSUME ApiClientAssumption ==
    /\ IsFiniteSet(Clients)
    /\ MaxCalls \in Nat

VARIABLES
    pc,
    job,
    told,                   \* how the call that ends in this step does, or "none"
    calls                   \* calls made

clientVars == <<pc, job, told, calls>>

NoJob == [op |-> "none"]

ClientInit ==
    /\ pc = [c \in Clients |-> "idle"]
    /\ job = [c \in Clients |-> NoJob]
    /\ told = "none"
    /\ calls = 0

\* Client c calls a method; its first request is made at `to`.
Begin(c, j, to) ==
    /\ pc[c] = "idle"
    /\ calls < MaxCalls
    /\ calls' = calls + 1
    /\ pc' = [pc EXCEPT ![c] = to]
    /\ job' = [job EXCEPT ![c] = j]
    /\ told' = "none"

\* From one request of the call to the next.
Go(c, to) ==
    /\ pc' = [pc EXCEPT ![c] = to]
    /\ told' = "none"
    /\ UNCHANGED <<job, calls>>

\* The call ends: it has "returned"; it has "raised", or "raised_with" the
\* object that was written in the exception; or a request "failed".
End(c, how) ==
    /\ pc' = [pc EXCEPT ![c] = "idle"]
    /\ job' = [job EXCEPT ![c] = NoJob]
    /\ told' = how
    /\ UNCHANGED calls

\* Client c is done with its write, whichever way it went.
Leaves(c, at) == pc[c] = at /\ pc'[c] # at

=============================================================================
