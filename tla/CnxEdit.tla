------------------------------- MODULE CnxEdit --------------------------------
(***************************************************************************)
(* The connections of an adapter.  The methods that update one take a      *)
(* connection that was fetched before, and send all of it back: the        *)
(* configuration, the label, whether it is active and its tunnel, as they  *)
(* were then, with what the caller names replaced.  Its own discovery is   *)
(* never sent back: every request switches it off.  Connections come by    *)
(* two requests, the labels by the second.                                 *)
(*                                                                         *)
(* A connection has an id, which lasts, and a UUID, which the server may   *)
(* change when it is updated: the pair of the id and a generation.  A      *)
(* request for a UUID that is no more raises CnxGoneError.                 *)
(***************************************************************************)
EXTENDS ApiClient

CONSTANTS
    CnxIds,
    ConfigKeys,             \* the keys of a connection's configuration
    SchemaKeys,              \* those the adapter's schema has
    CnxUpdates,             \* the calls of update_cnx considered
    Unset,                  \* a field without a value
    Free,                   \* an id that was never used
    Gone,                   \* there is no such connection (any more)
    MaxGeneration           \* bound: how often a UUID changes

Arguments == {"active", "tunnel"}

Fields == ConfigKeys \cup Arguments \cup {"label", "discovery"}

\* What a field holds: "old" at first, "new" when it is updated; "off" is the
\* discovery {"enabled": False}.
FieldValues == {"old", "new", "off", Unset}

ASSUME CnxAssumption ==
    /\ ConfigKeys \cap {"label", "active", "tunnel", "discovery"} = {}
    /\ ConfigKeys # {}
    /\ SchemaKeys \subseteq ConfigKeys
    /\ Unset \notin {"old", "new", "off"}
    /\ MaxGeneration \in Nat
    /\ CnxUpdates \subseteq [op : {"update"}, parse : BOOLEAN,
                             named : SUBSET (ConfigKeys \cup Arguments)]
    /\ \A j \in CnxUpdates : j.parse => j.named \subseteq SchemaKeys \cup Arguments

VARIABLES
    cnxs,                   \* the server's connections
    held,                   \* per client: the connection it has fetched last
    reading,                \* per client: the one a call works with
    made                    \* per client: the UUID its write was answered with

cnxVars == <<cnxs, held, reading, made>>

Cnxs == [gen : 0..MaxGeneration, fields : [Fields -> FieldValues]]

\* A connection as fetched; `stale` (history) has the fields that have been
\* changed on the server since.
Fetched == [id : CnxIds, gen : 0..MaxGeneration,
            fields : [Fields -> FieldValues], stale : SUBSET Fields]

\* What stands for no connection is none.
ASSUME NoCnxAssumption ==
    /\ Free # Gone
    /\ Free \notin Cnxs /\ Gone \notin Cnxs /\ Gone \notin Fetched

CnxTypeOK ==
    /\ cnxs \in [CnxIds -> Cnxs \cup {Free, Gone}]
    /\ \A c \in Clients : {held[c], reading[c]} \subseteq Fetched \cup {Gone}
    /\ made \in [Clients -> (CnxIds \X (0..MaxGeneration)) \cup {Gone}]
    /\ \A c \in Clients :
         pc[c] \in {"idle", "cnxs", "labels", "write", "back", "backlabels"}

CnxInit ==
    /\ \E i \in CnxIds :
         cnxs = [d \in CnxIds |->
                   IF d = i THEN [gen |-> 0, fields |-> [f \in Fields |-> "old"]]
                   ELSE Free]
    /\ held \in [Clients -> {Gone} \cup
                 { [id |-> i, gen |-> 0, fields |-> cnxs[i].fields, stale |-> {}] :
                     i \in { j \in CnxIds : cnxs[j] # Free } }]
    /\ reading = [c \in Clients |-> Gone]
    /\ made = [c \in Clients |-> Gone]

-----------------------------------------------------------------------------
(* The calls.  An `update` without parse_config sends the configuration as *)
(* the caller gave it, one with it what build_config makes, which refuses  *)
(* to be given a key that has no schema (ConfigUnknown, before any write);  *)
(* set_cnx_active and set_cnx_label send the one that was fetched.  by_id  *)
(* fetches the connection first, in the same call.                         *)

Sets    == { [op |-> "set", named |-> {f}, parse |-> TRUE] : f \in {"active", "label"} }
Delete  == [op |-> "delete", named |-> {}, parse |-> TRUE]
Get     == [op |-> "get", named |-> {}, parse |-> TRUE]
Add     == [op |-> "add", named |-> Fields, parse |-> TRUE]

\* The configuration keys that are sent as they were fetched: a `set` sends them
\* all, config_build goes over the schemas and not over the old keys.
KeysCarried(j) ==
    CASE j.op = "set" -> ConfigKeys
      [] j.op = "update" /\ j.parse -> SchemaKeys
      [] OTHER -> {}

\* Mutant: the label is not taken from the connection.
CarriedWithoutLabel(j) == Arguments \cup KeysCarried(j)

Carried(j) == {"label"} \cup Arguments \cup KeysCarried(j)

\* What is sent of connection x.
Sent(j, x, f) ==
    IF f = "discovery" THEN "off"
    ELSE IF f \in j.named THEN "new"
    ELSE IF f \in Carried(j) THEN x.fields[f]
    ELSE Unset

\* config_empty, and config_unchanged, for which only the configuration counts
\* and not the other arguments.
NothingNew(j, x) ==
    /\ j.op = "update" /\ j.parse
    /\ \/ \A f \in ConfigKeys : Sent(j, x, f) = Unset
       \/ \A f \in ConfigKeys : Sent(j, x, f) = x.fields[f]

Existing == { i \in CnxIds : cnxs[i] \notin {Free, Gone} }

CnxOfUuid(u) == u # Gone /\ u[1] \in Existing /\ cnxs[u[1]].gen = u[2]

-----------------------------------------------------------------------------
(* The requests.                                                           *)

\* A connection is fetched by its id in the first two requests of a call.
CnxCallById(c) ==
    /\ \E j \in CnxUpdates \cup {Delete, Get} : Begin(c, j, "cnxs")
    /\ UNCHANGED cnxVars

\* The call works with the connection the program has fetched before.
CnxCallWithHeld(c) ==
    /\ held[c] # Gone
    /\ \E j \in CnxUpdates \cup Sets \cup {Delete} :
         /\ ~NothingNew(j, held[c])
         /\ Begin(c, j, "write")
    /\ reading' = [reading EXCEPT ![c] = held[c]]
    /\ UNCHANGED <<cnxs, held, made>>

CnxCallAdd(c) ==
    /\ Begin(c, Add, "write")
    /\ UNCHANGED cnxVars

\* Everything but the label.
CnxRead(c, i) ==
    reading' = [reading EXCEPT ![c] =
                  [id |-> i, gen |-> cnxs[i].gen, stale |-> {},
                   fields |-> [cnxs[i].fields EXCEPT !["label"] = Unset]]]

\* get_label: the label that belongs to the id, "" if there is none by now.
WithLabel(x) ==
    [x EXCEPT !.fields["label"] =
                IF x.id \in Existing THEN cnxs[x.id].fields["label"] ELSE Unset,
              !.stale = @ \ {"label"}]

CnxGet(c) ==
    /\ pc[c] = "cnxs"
    /\ \/ \E i \in Existing : CnxRead(c, i) /\ Go(c, "labels")
       \/ Existing # CnxIds /\ End(c, "raised") /\ UNCHANGED reading
    /\ UNCHANGED <<cnxs, held, made>>

CnxGetLabels(c) ==
    /\ pc[c] = "labels"
    /\ LET x == WithLabel(reading[c]) IN
         IF job[c].op = "get"
         THEN /\ End(c, "returned")
              /\ held' = [held EXCEPT ![c] = x]
              /\ reading' = [reading EXCEPT ![c] = Gone]
         ELSE /\ IF NothingNew(job[c], x) THEN End(c, "raised") ELSE Go(c, "write")
              /\ reading' = [reading EXCEPT ![c] =
                               IF NothingNew(job[c], x) THEN Gone ELSE x]
              /\ UNCHANGED held
    /\ UNCHANGED <<cnxs, made>>

\* Everybody's copies of connection i miss what changes now.
MissedBy(copies, i, new) ==
    [c \in Clients |->
       IF copies[c] = Gone \/ copies[c].id # i \/ new = Gone THEN copies[c]
       ELSE [copies[c] EXCEPT !.stale =
               @ \cup { f \in Fields : new.fields[f] # cnxs[i].fields[f] }]]

\* The answer has the UUID; or it is lost.
Answered(c, u) ==
    \/ Go(c, "back") /\ made' = [made EXCEPT ![c] = u]
    \/ End(c, "failed") /\ UNCHANGED made

\* The server takes what is sent for a UUID it knows.
CnxPut(c) ==
    LET x == reading[c] IN
    /\ CnxOfUuid(<<x.id, x.gen>>)
    /\ \E g \in {x.gen, x.gen + 1} :
         /\ g <= MaxGeneration
         /\ cnxs' = [cnxs EXCEPT ![x.id] =
                       [gen |-> g, fields |-> [f \in Fields |-> Sent(job[c], x, f)]]]
         /\ Answered(c, <<x.id, g>>)
    /\ held' = MissedBy(held, x.id, cnxs'[x.id])
    /\ reading' = [MissedBy(reading, x.id, cnxs'[x.id]) EXCEPT ![c] = Gone]

CnxUpdate(c) ==
    /\ pc[c] = "write" /\ job[c].op \in {"update", "set"}
    /\ CnxPut(c)

CnxDelete(c) ==
    /\ pc[c] = "write" /\ job[c].op = "delete"
    /\ CnxOfUuid(<<reading[c].id, reading[c].gen>>)
    /\ cnxs' = [cnxs EXCEPT ![reading[c].id] = Gone]
    /\ reading' = [reading EXCEPT ![c] = Gone]
    /\ End(c, "returned") \/ End(c, "failed")
    /\ UNCHANGED <<held, made>>

\* CnxGoneError, for what another client has deleted or updated.
CnxIsGone(c) ==
    /\ pc[c] = "write" /\ job[c].op # "add"
    /\ ~CnxOfUuid(<<reading[c].id, reading[c].gen>>)
    /\ reading' = [reading EXCEPT ![c] = Gone]
    /\ End(c, "raised")
    /\ UNCHANGED <<cnxs, held, made>>

CnxAdd(c) ==
    /\ pc[c] = "write" /\ job[c].op = "add"
    /\ \E i \in CnxIds :
         /\ cnxs[i] = Free
         /\ cnxs' = [cnxs EXCEPT ![i] =
                       [gen |-> 0, fields |-> [f \in Fields |-> Sent(Add, Gone, f)]]]
         /\ Answered(c, <<i, 0>>)
    /\ UNCHANGED <<held, reading>>

\* get_by_uuid raises NotFoundError when nothing has the UUID any more, but also
\* when what has it is on another node or tunnel than was sent by now.
CnxReadBack(c) ==
    /\ pc[c] = "back"
    /\ \/ /\ CnxOfUuid(made[c])
          /\ CnxRead(c, made[c][1]) /\ Go(c, "backlabels")
          /\ UNCHANGED made
       \/ /\ End(c, "raised") /\ UNCHANGED reading
          /\ made' = [made EXCEPT ![c] = Gone]
    /\ UNCHANGED <<cnxs, held>>

\* The connection does not work: CnxAddError and CnxUpdateError have it.
Ends(j) == IF j.op = "set" THEN {"returned"} ELSE {"returned", "raised_with"}

\* The program goes on with the connection it is given, or with its old one.
CnxReadBackLabels(c) ==
    /\ pc[c] = "backlabels"
    /\ \E how \in Ends(job[c]) : End(c, how)
    /\ \/ held' = [held EXCEPT ![c] = WithLabel(reading[c])]
       \/ UNCHANGED held
    /\ reading' = [reading EXCEPT ![c] = Gone]
    /\ made' = [made EXCEPT ![c] = Gone]
    /\ UNCHANGED cnxs

CnxFail(c) ==
    /\ pc[c] # "idle"
    /\ End(c, "failed")
    /\ reading' = [reading EXCEPT ![c] = Gone]
    /\ made' = [made EXCEPT ![c] = Gone]
    /\ UNCHANGED <<cnxs, held>>

CnxNext ==
    \E c \in Clients :
        \/ CnxCallById(c) \/ CnxCallWithHeld(c) \/ CnxCallAdd(c)
        \/ CnxGet(c) \/ CnxGetLabels(c)
        \/ CnxUpdate(c) \/ CnxDelete(c) \/ CnxIsGone(c) \/ CnxAdd(c)
        \/ CnxReadBack(c) \/ CnxReadBackLabels(c) \/ CnxFail(c)

-----------------------------------------------------------------------------
(* An update changes a field its caller did not name only if that field    *)
(* was changed since the connection was fetched, by another client or by   *)
(* an update whose result the program did not go on with; or it is a key   *)
(* of a configuration sent without parse_config; or one that has no schema, *)
(* which is lost; or the connection's own discovery, which every update    *)
(* switches off.  The whole connection is written, cnx.py:648-668 and      *)
(* 721-741, 756-776.                                                       *)
CnxOnlyNamed ==
    [][ \A c \in Clients, i \in Existing, f \in Fields :
          /\ Leaves(c, "write") /\ cnxs'[i] # Gone
          /\ cnxs'[i].fields[f] # cnxs[i].fields[f]
          => /\ reading[c].id = i
             /\ \/ f \in job[c].named
                \/ f \in reading[c].stale
                \/ /\ f \in ConfigKeys /\ job[c].op = "update"
                   /\ ~job[c].parse \/ f \notin SchemaKeys
                   /\ cnxs'[i].fields[f] = Unset
                \/ f = "discovery" /\ cnxs'[i].fields[f] = "off"
      ]_<<cnxVars, clientVars>>

=============================================================================
