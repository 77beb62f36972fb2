--------------------------- MODULE SavedQueryEdit ----------------------------
(***************************************************************************)
(* Saved queries.  A caller names the query to change by a query it has    *)
(* fetched before, or by a string; the methods fetch the list of queries   *)
(* and take the FIRST whose name or UUID is the name or the UUID given.    *)
(* They set an attribute of it, send the whole query back under its UUID,  *)
(* and look for the answer in a new list.  Names are checked in a list of  *)
(* their own.  The methods of a query at hand skip the first list.         *)
(*                                                                         *)
(* The order of the list is the server's and left open, and it is read at  *)
(* once here: PagingState models its pages.                                *)
(***************************************************************************)
EXTENDS ApiClient, Sequences

CONSTANTS
    Uuids,
    Names,
    FirstNames,             \* those the queries have at first
    StrArgs,                \* bound: the names callers look queries up by
    NewNames,               \* bound: the names callers give
    Unused,                 \* a UUID that no query has had yet
    Deleted,                \* a UUID whose query was deleted
    NoQuery                 \* no query, where the client may have one

ASSUME SavedQueryAssumption ==
    /\ {Unused, Deleted, NoQuery} \cap (Uuids \cup Names) = {}
    /\ Unused # Deleted
    /\ FirstNames \cup StrArgs \cup NewNames \subseteq Names

\* body stands for the view, the description, the tags and the flags.
Attributes == {"name", "body", "folder"}

VARIABLES
    queries,                \* the server's queries
    kept,                   \* per client: the query its program has at hand
    found,                  \* per client: the one its call is to write
    todo,                   \* per client: what delete() still has to delete
    named_since             \* history: what others have named since the check

queryVars == <<queries, kept, found, todo, named_since>>

Query == [name : Names, body : {"old", "new"}, folder : {"old", "new"}]

\* A query as fetched.  History: the attributes changed since, on the server
\* or of this copy (stale), and whether another query has or was given its
\* name (shared).
Found == [uuid : Uuids \cup {NoQuery}, query : Query,
          stale : SUBSET Attributes, shared : BOOLEAN]

\* What stands for no query is none.
ASSUME NoQueryAssumption ==
    /\ NoQuery \notin Found
    /\ Unused \notin Query /\ Deleted \notin Query

SavedQueryTypeOK ==
    /\ queries \in [Uuids -> Query \cup {Unused, Deleted}]
    /\ \A c \in Clients : {kept[c], found[c]} \subseteq Found \cup {NoQuery}
    /\ \A c \in Clients : \A i \in DOMAIN todo[c] : todo[c][i] \in Uuids \cup {NoQuery}
    /\ named_since \in [Clients -> SUBSET Uuids]
    /\ \A c \in Clients :
         pc[c] \in {"idle", "list", "names", "put", "create", "delete", "back"}

In(qs) == { u \in Uuids : qs[u] \notin {Unused, Deleted} }
Listed == In(queries)

SavedQueryInit ==
    /\ \E f \in [FirstNames -> Uuids] :
         /\ \A m, n \in FirstNames : f[m] = f[n] => m = n
         /\ queries = [u \in Uuids |->
                         IF \A n \in FirstNames : f[n] # u THEN Unused
                         ELSE [name |-> CHOOSE n \in FirstNames : f[n] = u,
                               body |-> "old", folder |-> "old"]]
    /\ kept = [c \in Clients |-> NoQuery]
    /\ found = [c \in Clients |-> NoQuery]
    /\ todo = [c \in Clients |-> <<>>]
    /\ named_since = [c \in Clients |-> {}]

-----------------------------------------------------------------------------
(* The arguments: a name, or the query at hand.                            *)

Str(n)    == [name |-> n, uuid |-> NoQuery]
AtHand(c) == [name |-> kept[c].query.name, uuid |-> kept[c].uuid]

ArgumentsOf(c) ==
    { Str(n) : n \in StrArgs } \cup { AtHand(d) : d \in {c} \ { e \in {c} : kept[e] = NoQuery } }

\* get_by_multi: the queries that may come first.
Matches(arg) == { u \in Listed : queries[u].name = arg.name \/ u = arg.uuid }

\* A bug: names are checked in a list that is not fetched again.
NamesCached == FirstNames

\* _check_name_exists: the names there are.
NamesListed == { queries[u].name : u \in Listed }

\* A bug: the list comes without the views (get_view_data), and an update
\* sends another view than the query has.
FoundWithoutView(u, q) ==
    [uuid |-> u, query |-> [q EXCEPT !.body = "new"], stale |-> {},
     shared |-> \E v \in Listed \ {u} : queries[v].name = queries[u].name]

\* Query u as this list has it.
FoundAs(u, q) ==
    [uuid |-> u, query |-> q, stale |-> {},
     shared |-> \E v \in Listed \ {u} : queries[v].name = queries[u].name]

\* All copies of queries learn, for the properties, what becomes of them.
Aware(copies, qs) ==
    [d \in Clients |->
       IF copies[d] = NoQuery THEN NoQuery
       ELSE [copies[d] EXCEPT
               !.stale = @ \cup { a \in Attributes :
                                    /\ copies[d].uuid \in Listed \cap In(qs)
                                    /\ qs[copies[d].uuid][a] # queries[copies[d].uuid][a] },
               !.shared = @ \/ \E v \in In(qs) \ {copies[d].uuid} :
                                 qs[v].name = copies[d].query.name]]

NamedSince(c, u, qs) ==
    named_since' = [d \in Clients |->
        IF d # c /\ (u \notin Listed \/ qs[u].name # queries[u].name)
        THEN named_since[d] \cup {u} ELSE named_since[d]]

Forgets(c) ==
    /\ found' = [found EXCEPT ![c] = NoQuery]
    /\ todo' = [todo EXCEPT ![c] = <<>>]
    /\ named_since' = [named_since EXCEPT ![c] = {}]

-----------------------------------------------------------------------------
(* The calls.                                                              *)

\* get_by_multi, the update_ methods, update_name, copy, delete_by_name and
\* delete of one or two rows.
CallsWith(arg) ==
    { [op |-> "get", arg |-> arg], [op |-> "update", arg |-> arg, attr |-> "body"] }
    \cup { [op |-> op, arg |-> arg, name |-> n] : op \in {"rename", "copy"}, n \in NewNames }

\* Bound: one row, or a name and the query at hand.
Deletes(c) ==
    { [op |-> "delete", args |-> <<a>>, errors |-> TRUE] : a \in ArgumentsOf(c) }
    \cup { [op |-> "delete", args |-> <<Str(n), a>>, errors |-> errors] :
             n \in StrArgs, a \in ArgumentsOf(c) \ { Str(m) : m \in Names },
             errors \in BOOLEAN }

SavedQueryCall(c) ==
    /\ \E j \in Deletes(c) \cup UNION { CallsWith(a) : a \in ArgumentsOf(c) } :
         Begin(c, j, "list")
    /\ UNCHANGED queryVars

SavedQueryAdd(c) ==
    /\ \E n \in NewNames :
         /\ Begin(c, [op |-> "add", name |-> n], "names")
         /\ found' = [found EXCEPT ![c] =
              [uuid |-> NoQuery, stale |-> {}, shared |-> FALSE,
               query |-> [name |-> n, body |-> "new", folder |-> "new"]]]
    /\ UNCHANGED <<queries, kept, todo, named_since>>

\* move() and update_description() set the attribute of the query at hand,
\* which keeps it also if the update then fails.
SavedQueryObjectUpdate(c) ==
    /\ kept[c] # NoQuery
    /\ \E attr \in {"folder", "body"} :
         /\ Begin(c, [op |-> "update", arg |-> AtHand(c), attr |-> attr], "put")
         /\ kept' = [kept EXCEPT ![c].query[attr] = "new", ![c].stale = @ \cup {attr}]
         /\ found' = [found EXCEPT ![c] = kept'[c]]
    /\ UNCHANGED <<queries, todo, named_since>>

\* copy() and delete() of the query at hand.
SavedQueryObject(c) ==
    /\ kept[c] # NoQuery
    /\ \/ /\ \E n \in NewNames :
               Begin(c, [op |-> "copy", arg |-> AtHand(c), name |-> n], "names")
          /\ found' = [found EXCEPT ![c] = kept[c]]
          /\ UNCHANGED todo
       \/ /\ Begin(c, [op |-> "delete", args |-> <<AtHand(c)>>, errors |-> TRUE], "delete")
          /\ todo' = [todo EXCEPT ![c] = <<kept[c].uuid>>]
          /\ UNCHANGED found
    /\ UNCHANGED <<queries, kept, named_since>>

-----------------------------------------------------------------------------
(* The requests.                                                           *)

NotFound(c) ==
    /\ End(c, "raised")
    /\ Forgets(c)
    /\ UNCHANGED <<queries, kept>>

SavedQueryList(c) ==
    /\ pc[c] = "list" /\ job[c].op # "delete"
    /\ LET arg == job[c].arg IN
       \/ Matches(arg) = {} /\ NotFound(c)
       \/ \E u \in Matches(arg) :
            /\ job[c].op = "get"
            /\ End(c, "returned")
            /\ kept' = [kept EXCEPT ![c] = FoundAs(u, queries[u])]
            /\ UNCHANGED <<queries, found, todo, named_since>>
       \/ \E u \in Matches(arg) :
            /\ job[c].op = "update"
            /\ Go(c, "put")
            /\ found' = [found EXCEPT ![c] =
                 FoundAs(u, [queries[u] EXCEPT ![job[c].attr] = "new"])]
            /\ UNCHANGED <<queries, kept, todo, named_since>>
       \/ \E u \in Matches(arg) :
            /\ job[c].op \in {"rename", "copy"}
            /\ Go(c, "names")
            /\ found' = [found EXCEPT ![c] = FoundAs(u, queries[u])]
            /\ UNCHANGED <<queries, kept, todo, named_since>>

\* delete() looks all its rows up in one list.
SavedQueryRows(c) ==
    /\ pc[c] = "list" /\ job[c].op = "delete"
    /\ Go(c, "delete")
    /\ \E us \in [DOMAIN job[c].args -> Uuids \cup {NoQuery}] :
         /\ \A i \in DOMAIN us :
              LET m == Matches(job[c].args[i])
              IN  IF m = {} THEN us[i] = NoQuery ELSE us[i] \in m
         /\ todo' = [todo EXCEPT ![c] = us]
    /\ UNCHANGED <<queries, kept, found, named_since>>

\* _check_name_exists; a copy has its name prefixed until it is free.
SavedQueryNames(c) ==
    /\ pc[c] = "names"
    /\ \/ job[c].op # "copy" /\ job[c].name \in NamesListed /\ NotFound(c)
       \/ \E n \in Names \ NamesListed :
            /\ job[c].name \notin NamesListed => n = job[c].name
            /\ job[c].name \in NamesListed => job[c].op = "copy"
            /\ Go(c, IF job[c].op = "rename" THEN "put" ELSE "create")
            /\ found' = [found EXCEPT ![c].query.name = n]
            /\ named_since' = [named_since EXCEPT ![c] = {}]
            /\ UNCHANGED <<queries, kept, todo>>

Sends(c, u) ==
    LET qs == [queries EXCEPT ![u] = found[c].query] IN
    /\ queries' = qs
    /\ kept' = Aware(kept, qs)
    /\ NamedSince(c, u, qs)
    /\ UNCHANGED todo
    /\ \/ Go(c, "back") /\ found' = [Aware(found, qs) EXCEPT ![c].uuid = u]
       \/ End(c, "failed") /\ found' = [Aware(found, qs) EXCEPT ![c] = NoQuery]

\* _update_from_dataclass: the whole query under its UUID.
SavedQueryPut(c) ==
    /\ pc[c] = "put"
    /\ \/ found[c].uuid \in Listed /\ Sends(c, found[c].uuid)
       \/ found[c].uuid \notin Listed /\ NotFound(c)

SavedQueryCreate(c) ==
    /\ pc[c] = "create"
    /\ \E u \in Uuids : queries[u] = Unused /\ Sends(c, u)

\* The rows that are not of query u, in their order.
RowsBut(uuids, u) ==
    LET but[n \in 0..Len(uuids)] ==
            IF n = 0 THEN <<>>
            ELSE IF uuids[n] = u THEN but[n - 1] ELSE Append(but[n - 1], uuids[n])
    IN  but[Len(uuids)]

\* The rest of delete(): a row already deleted by it is passed over, one
\* that is not found or cannot be deleted raises, or is passed over too.
SavedQueryDelete(c) ==
    /\ pc[c] = "delete"
    /\ \/ todo[c] = <<>> /\ End(c, "returned") /\ UNCHANGED queryVars
       \/ /\ todo[c] # <<>>
          /\ LET u == Head(todo[c])
                 qs == [queries EXCEPT ![u] = Deleted]
             IN \/ /\ u \in Listed
                   /\ queries' = qs
                   /\ todo' = [todo EXCEPT ![c] = RowsBut(Tail(@), u)]
                   /\ Go(c, "delete")
                   /\ kept' = Aware(kept, qs) /\ found' = Aware(found, qs)
                   /\ UNCHANGED named_since
                \/ /\ u \notin Listed /\ ~job[c].errors
                   /\ todo' = [todo EXCEPT ![c] = Tail(@)]
                   /\ Go(c, "delete")
                   /\ UNCHANGED <<queries, kept, found, named_since>>
                \/ u \notin Listed /\ job[c].errors /\ NotFound(c)

\* get_by_multi of the answer to an update, get_by_uuid of what was created.
ReadBackAs(c) ==
    IF job[c].op \in {"add", "copy"} THEN Listed \cap {found[c].uuid}
    ELSE Matches([name |-> found[c].query.name, uuid |-> found[c].uuid])

SavedQueryReadBack(c) ==
    /\ pc[c] = "back"
    /\ \/ ReadBackAs(c) = {} /\ NotFound(c)
       \/ \E u \in ReadBackAs(c) :
            /\ End(c, "returned")
            /\ kept' = [kept EXCEPT ![c] = FoundAs(u, queries[u])]
            /\ Forgets(c)
            /\ UNCHANGED queries

SavedQueryFail(c) ==
    /\ pc[c] # "idle"
    /\ End(c, "failed")
    /\ Forgets(c)
    /\ UNCHANGED <<queries, kept>>

SavedQueryNext ==
    \E c \in Clients :
        \/ SavedQueryCall(c) \/ SavedQueryAdd(c)
        \/ SavedQueryObjectUpdate(c) \/ SavedQueryObject(c)
        \/ SavedQueryList(c) \/ SavedQueryRows(c) \/ SavedQueryNames(c)
        \/ SavedQueryPut(c) \/ SavedQueryCreate(c) \/ SavedQueryDelete(c)
        \/ SavedQueryReadBack(c) \/ SavedQueryFail(c)

-----------------------------------------------------------------------------
(* A query is meant by the one that was fetched, and the lookup by name or *)
(* UUID finds another one only if the name was shared or was used again    *)
(* since.  An update changes an attribute it was not asked to change only  *)
(* if it was changed since the query was fetched.  saved_query.py:452-471  *)
(* and 1301-1340.                                                          *)
SavedQueryOnlyMeant ==
    [][ \A c \in Clients :
          /\ /\ Leaves(c, "list") /\ found'[c] # NoQuery
             /\ job[c].arg.uuid # NoQuery
             => found'[c].uuid = job[c].arg.uuid \/ kept[c].shared
          /\ Leaves(c, "list") /\ job[c].op = "delete" =>
               \A i \in DOMAIN todo'[c] :
                  \/ NoQuery \in {job[c].args[i].uuid, todo'[c][i]}
                  \/ todo'[c][i] = job[c].args[i].uuid
                  \/ kept[c].shared
          /\ Leaves(c, "put") =>
               \A u \in Listed : \A a \in Attributes :
                  queries'[u][a] # queries[u][a] =>
                     /\ u = found[c].uuid
                     /\ \/ a \in found[c].stale
                        \/ a = IF job[c].op = "rename" THEN "name" ELSE job[c].attr
      ]_<<queryVars, clientVars>>

(* Two queries get the same name only if the other one was named after     *)
(* this call had checked the names, or if the name is an old one of the    *)
(* query, written back by an update that read it before it was renamed.    *)
(* saved_query.py:963-964, 113-116.                                        *)
SavedQueryNamesUnique ==
    [][ \A c \in Clients : Leaves(c, "put") \/ Leaves(c, "create") =>
          \A u, v \in In(queries') :
             /\ u # v /\ queries'[u].name = queries'[v].name
             /\ u \notin Listed \/ queries[u].name # queries'[u].name
             => v \in named_since[c] \/ "name" \in found[c].stale
      ]_<<queryVars, clientVars>>

=============================================================================
