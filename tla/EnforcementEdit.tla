--------------------------- MODULE EnforcementEdit ---------------------------
(***************************************************************************)
(* Enforcement sets.  A set is looked for in the pages of all of them: each*)
(* page lists the sets without their actions and triggers, which a request *)
(* per set then fetches, and the first set with the name or the UUID given *)
(* is taken.  So a lookup is many requests, and the sets change between    *)
(* them.  A name is free when such a lookup ends without a match.          *)
(*                                                                         *)
(* Updates send back the name, the actions and the triggers; descriptions  *)
(* and folders have requests of their own, so a set that is made in a      *)
(* folder is made first and moved then.  What is returned is looked for    *)
(* once more.  The requests that change nothing (folders, action types,    *)
(* saved queries) are left out.                                            *)
(***************************************************************************)
EXTENDS ApiClient, ServerPage

CONSTANTS
    EcIds,                  \* UUIDs of sets
    SetLists,               \* the server's list of the sets with these UUIDs
    FirstSets,              \* the sets there are at first, by their UUID
    SetNames,
    SetArgs,                \* bound: the names callers look sets up by
    NewSetNames,            \* bound: the names callers give
    Actions,
    PageLimit,              \* MAX_PAGE_SIZE
    NoSet,                  \* no set, or a UUID that no set has had yet
    GoneSet                 \* a UUID whose set was deleted

ASSUME EnforcementAssumption ==
    /\ PageLimit \in Nat \ {0}
    /\ SetArgs \cup NewSetNames \subseteq SetNames
    /\ IsFiniteSet(EcIds) /\ {NoSet, GoneSet} \cap EcIds = {}

(* A list has every set, each once (S and T may be the same), and one that is
   added moves no other forward.                                           *)
ASSUME SetListsAssumption ==
    \A S \in SUBSET EcIds :
        /\ SetLists[S] \in Seq(S)
        /\ \A u \in S : \E i \in 1..Len(SetLists[S]) : SetLists[S][i] = u
        /\ \A T \in SUBSET S :
              \A i \in 1..Len(SetLists[T]), j \in 1..Len(SetLists[S]) :
                 SetLists[T][i] = SetLists[S][j] => i <= j

VARIABLES
    ecs,                    \* the server's sets
    ec_held,                \* per client: the set its program has at hand
    ec_found,               \* per client: the set its call works with
    lookup,                 \* per client: the lookup it is in
    unlisted                \* history: what a check of a name may not have seen

enforcementVars == <<ecs, ec_held, ec_found, lookup, unlisted>>

(* description is a set of texts, a new one is appended or replaces them;
   trigger stands for the query, the schedule and the conditions.          *)
Ec == [ name : SetNames, actions : SUBSET Actions, trigger : {"none", "old", "new"},
        description : SUBSET {"old", "new"}, folder : {"root", "old", "new"} ]
EcParts == {"name", "actions", "trigger", "description", "folder"}

(* A set as fetched.  History: the parts changed since (stale), and whether
   another set has, or got, its name (shared).                             *)
EcFound == [ uuid : EcIds \cup {NoSet}, set : Ec, stale : SUBSET EcParts, shared : BOOLEAN ]

(* What stands for no set is none, and the first sets are sets. *)
ASSUME FirstSetsAssumption ==
    /\ NoSet # GoneSet
    /\ NoSet \notin Ec /\ GoneSet \notin Ec /\ NoSet \notin EcFound
    /\ \A u \in EcIds : u \in DOMAIN FirstSets => FirstSets[u] \in Ec

(* Why sets are listed: to find one, to see that a name is free, to give a
   copy a free name, or to return what was written.                        *)
NoLookup == [why |-> "none"]
Look(why, name, uuid) ==
    [why |-> why, name |-> name, uuid |-> uuid, offset |-> 0, rows |-> << >>, names |-> {}]

EnforcementTypeOK ==
    /\ ecs \in [EcIds -> Ec \cup {NoSet, GoneSet}]
    /\ \A c \in Clients : {ec_held[c], ec_found[c]} \subseteq EcFound \cup {NoSet}
    /\ \A c \in Clients :
         lookup[c] # NoLookup =>
             /\ lookup[c].why \in {"find", "free", "names", "back"}
             /\ lookup[c].offset <= Cardinality(EcIds)
             /\ Len(lookup[c].rows) <= PageLimit
    /\ \A c \in Clients :
         /\ (pc[c] \in {"page", "full"}) = (lookup[c] # NoLookup)
         /\ pc[c] = "full" => lookup[c].rows # << >>

EcsIn(sets) == {u \in EcIds : sets[u] \notin {NoSet, GoneSet}}

(* The server's list. *)
EcList == SetLists[EcsIn(ecs)]

EcFoundAs(u) ==
    [ uuid |-> u, set |-> ecs[u], stale |-> {},
      shared |-> \E v \in EcsIn(ecs) \ {u} : ecs[v].name = ecs[u].name ]

EnforcementInit ==
    /\ ecs = [u \in EcIds |-> IF u \in DOMAIN FirstSets THEN FirstSets[u] ELSE NoSet]
    /\ ec_held \in [Clients -> {NoSet} \cup {EcFoundAs(u) : u \in EcsIn(ecs)}]
    /\ ec_found = [c \in Clients |-> NoSet]
    /\ lookup = [c \in Clients |-> NoLookup]
    /\ unlisted = [c \in Clients |-> {}]

-----------------------------------------------------------------------------
(* The calls, each with the set it is about: by name, or one at hand. *)

EcNamed(n) == [name |-> n, uuid |-> NoSet]
EcAtHand(c) == [name |-> ec_held[c].set.name, uuid |-> ec_held[c].uuid]

(* Bound: a program that has a set at hand looks it up by that. *)
EcArgs(c) == IF ec_held[c] = NoSet THEN {EcNamed(n) : n \in SetArgs} ELSE {EcAtHand(c)}

(* get_set, the update_ methods, copy and delete. *)
EcJobs(arg) ==
    { [op |-> op, arg |-> arg] : op \in {"get", "schedule", "query", "move", "delete"} }
    \cup { [op |-> op, arg |-> arg, action |-> a] : op \in {"add", "remove"}, a \in Actions }
    \cup { [op |-> "describe", arg |-> arg, append |-> b] : b \in BOOLEAN }
    \cup { [op |-> "rename", arg |-> arg, name |-> n] : n \in NewSetNames }
    \cup { [op |-> "clone", arg |-> arg, name |-> n, folder |-> f] :
             n \in NewSetNames, f \in {"root", "new"} }

LooksFirst(c, why, name, uuid) == lookup' = [lookup EXCEPT ![c] = Look(why, name, uuid)]

EcCall(c) ==
    /\ \E arg \in EcArgs(c) : \E j \in EcJobs(arg) :
         /\ Begin(c, j, "page")
         /\ LooksFirst(c, "find", arg.name, arg.uuid)
    /\ UNCHANGED <<ecs, ec_held, ec_found, unlisted>>

(* create: its name must be free; no set has all of its parts yet. *)
EcCallCreate(c) ==
    /\ \E n \in NewSetNames, f \in {"root", "new"} :
         /\ Begin(c, [op |-> "create", name |-> n, folder |-> f], "page")
         /\ LooksFirst(c, "free", n, NoSet)
         /\ ec_found' = [ec_found EXCEPT ![c] =
              [ uuid |-> NoSet, stale |-> {}, shared |-> FALSE,
                set |-> [name |-> n, actions |-> {}, trigger |-> "new",
                         description |-> {"new"}, folder |-> "root"] ]]
    /\ UNCHANGED <<ecs, ec_held, unlisted>>

EcDescribed(j, set) ==
    [set EXCEPT !.description = IF j.append THEN @ \cup {"new"} ELSE {"new"}]

(* The methods of a set at hand.  update_description and move change it
   before their request; copy takes its parts and lists the names only.    *)
EcCallObject(c) ==
    /\ ec_held[c] # NoSet
    /\ \/ \E b \in BOOLEAN :
            LET j == [op |-> "redescribe", append |-> b] IN
            /\ Begin(c, j, "describe")
            /\ ec_found' = [ec_found EXCEPT ![c] = [ec_held[c] EXCEPT !.set = EcDescribed(j, @)]]
            /\ ec_held' = [ec_held EXCEPT ![c] = ec_found'[c], ![c].stale = @ \cup {"description"}]
            /\ UNCHANGED <<lookup, unlisted>>
       \/ /\ Begin(c, [op |-> "move", arg |-> EcAtHand(c)], "move")
          /\ ec_found' = [ec_found EXCEPT ![c] = ec_held[c]]
          /\ ec_held' = [ec_held EXCEPT ![c].set.folder = "new", ![c].stale = @ \cup {"folder"}]
          /\ UNCHANGED <<lookup, unlisted>>
       \/ /\ Begin(c, [op |-> "delete", arg |-> EcAtHand(c)], "delete")
          /\ ec_found' = [ec_found EXCEPT ![c] = ec_held[c]]
          /\ UNCHANGED <<ec_held, lookup, unlisted>>
       \/ \E n \in NewSetNames, f \in {ec_held[c].set.folder, "new"} :
            /\ Begin(c, [op |-> "copy", name |-> n, folder |-> f], "page")
            /\ LooksFirst(c, "names", n, NoSet)
            /\ ec_found' = [ec_found EXCEPT ![c] = [ec_held[c] EXCEPT
                              !.uuid = NoSet, !.set.folder = "root", !.stale = {}]]
            /\ UNCHANGED <<ec_held, unlisted>>
    /\ UNCHANGED ecs

-----------------------------------------------------------------------------
(* Lookups. *)

EcEnds(c, how) ==
    /\ End(c, how)
    /\ ec_found' = [ec_found EXCEPT ![c] = NoSet]
    /\ lookup' = [lookup EXCEPT ![c] = NoLookup]

ForgetsIfDone(c) ==
    unlisted' = IF pc'[c] = "idle" THEN [unlisted EXCEPT ![c] = {}] ELSE unlisted

LooksOn(c, look) ==
    /\ Go(c, IF look.rows = << >> THEN "page" ELSE "full")
    /\ lookup' = [lookup EXCEPT ![c] = look]
    /\ UNCHANGED ec_found

(* The lookup is over, the call goes on with a request. *)
EcGoes(c, to, found) ==
    /\ Go(c, to)
    /\ lookup' = [lookup EXCEPT ![c] = NoLookup]
    /\ ec_found' = [ec_found EXCEPT ![c] = found]

(* get_sets_generator counts the rows it was given, and the server counts from
   the first of the sets there are then.                                   *)
NextOffset(look, page) == look.offset + Len(page)

(* The lookup found nothing: a name is free, or a copy has one that is. *)
EcNone(c) ==
    CASE lookup[c].why = "free" ->
            EcGoes(c, IF job[c].op = "rename" THEN "put" ELSE "create",
                   [ec_found[c] EXCEPT !.set.name = job[c].name])
      [] lookup[c].why = "names" ->
            \E n \in SetNames \ lookup[c].names :
                /\ job[c].name \notin lookup[c].names => n = job[c].name
                /\ EcGoes(c, "create", [ec_found[c] EXCEPT !.set.name = n])
      [] OTHER -> EcEnds(c, "raised")

EcPage(c) ==
    /\ pc[c] = "page"
    /\ LET look == lookup[c]
           page == Window(EcList, look.offset, PageLimit)
           next == [look EXCEPT !.offset = NextOffset(look, page)]
       IN  IF page = << >> THEN EcNone(c)
           ELSE IF look.why = "names"
           THEN LooksOn(c, [next EXCEPT !.names = @ \cup {ecs[page[n]].name : n \in DOMAIN page}])
           ELSE LooksOn(c, [next EXCEPT !.rows = page])
    /\ ForgetsIfDone(c)
    /\ UNCHANGED <<ecs, ec_held>>

(* What an update of the model raises by itself. *)
EcRefused(j, set) ==
    \/ j.op = "remove" /\ j.action \notin set.actions
    \/ j.op = "schedule" /\ set.trigger = "none"

EcEdited(j, set) ==
    CASE j.op = "add" -> [set EXCEPT !.actions = @ \cup {j.action}]
      [] j.op = "remove" -> [set EXCEPT !.actions = @ \ {j.action}]
      [] j.op \in {"schedule", "query"} -> [set EXCEPT !.trigger = "new"]
      [] j.op = "describe" -> EcDescribed(j, set)
      [] OTHER -> set

(* get_set has found set u for the call. *)
EcTakes(c, u) ==
    LET found == [EcFoundAs(u) EXCEPT !.set = EcEdited(job[c], ecs[u])] IN
    CASE job[c].op = "get" -> EcEnds(c, "returned")
      [] EcRefused(job[c], ecs[u]) -> EcEnds(c, "raised")
      [] job[c].op = "rename" ->
            /\ Go(c, "page")
            /\ LooksFirst(c, "free", job[c].name, NoSet)
            /\ ec_found' = [ec_found EXCEPT ![c] = found]
      [] job[c].op \in {"describe", "move", "delete", "clone"} -> EcGoes(c, job[c].op, found)
      [] OTHER -> EcGoes(c, "put", found)

(* get_full of the next row, and what get_set makes of it. *)
EcFull(c) ==
    /\ pc[c] = "full"
    /\ LET look == lookup[c]
           u == Head(look.rows)
           matches == u \in EcsIn(ecs) /\ (ecs[u].name = look.name \/ u = look.uuid)
       IN  /\ CASE u \notin EcsIn(ecs)  -> EcEnds(c, "failed")
                [] u \in EcsIn(ecs) /\ ~matches -> LooksOn(c, [look EXCEPT !.rows = Tail(@)])
                [] matches /\ look.why = "find" -> EcTakes(c, u)
                [] matches /\ look.why = "free" -> EcEnds(c, "raised")
                [] matches /\ look.why = "back" -> EcEnds(c, "returned")
           /\ ec_held' = IF told' = "returned"
                         THEN [ec_held EXCEPT ![c] = EcFoundAs(u)] ELSE ec_held
    /\ ForgetsIfDone(c)
    /\ UNCHANGED ecs

-----------------------------------------------------------------------------
(* Requests that write.  What was written may be answered, or not. *)

(* All copies of sets learn, for the properties, what becomes of them. *)
EcAware(copies, sets) ==
    [d \in Clients |->
       IF copies[d] = NoSet THEN NoSet
       ELSE [copies[d] EXCEPT
               !.stale = @ \cup {p \in EcParts :
                                   /\ copies[d].uuid \in EcsIn(ecs) \cap EcsIn(sets)
                                   /\ sets[copies[d].uuid][p] # ecs[copies[d].uuid][p]},
               !.shared = @ \/ \E v \in EcsIn(sets) \ {copies[d].uuid} :
                                 sets[v].name = copies[d].set.name]]

(* The sets that a check of names by others may not have seen: one that got its
   name since, and any of them once one was deleted, as those after it moved up. *)
EcUnlisted(c, sets) ==
    LET renamed == {u \in EcsIn(sets) : u \notin EcsIn(ecs) \/ ecs[u].name # sets[u].name}
        moved == IF EcsIn(ecs) \subseteq EcsIn(sets) THEN {} ELSE EcsIn(sets)
        checks(d) == lookup[d].why \in {"free", "names"} \/ pc[d] \in {"put", "create"}
    IN  [d \in Clients |->
           IF d = c THEN {} ELSE IF checks(d) THEN unlisted[d] \cup renamed \cup moved
           ELSE unlisted[d]]

(* The request has made `sets` of the sets, and the call goes on with set u: it is
   returned, moved first, or nothing is left to do.                        *)
EcWrites(c, sets, u, to, name) ==
    LET copies == EcAware(ec_found, sets)
        mine == [uuid |-> u, set |-> IF u \in EcsIn(sets) THEN sets[u] ELSE ec_found[c].set,
                 stale |-> {}, shared |-> copies[c].shared]
    IN  /\ ecs' = sets
        /\ ec_held' = EcAware(ec_held, sets)
        /\ unlisted' = EcUnlisted(c, sets)
        /\ \/ /\ End(c, "failed")
              /\ ec_found' = [copies EXCEPT ![c] = NoSet]
              /\ UNCHANGED lookup
           \/ /\ to = "done"
              /\ End(c, "returned")
              /\ ec_found' = [copies EXCEPT ![c] = NoSet]
              /\ UNCHANGED lookup
           \/ /\ to = "back"
              /\ Go(c, "page")
              /\ lookup' = [lookup EXCEPT ![c] = Look("back", name, u)]
              /\ ec_found' = [copies EXCEPT ![c] = mine]
           \/ /\ to = "move"
              /\ Go(c, "move")
              /\ ec_found' = [copies EXCEPT ![c] = mine]
              /\ UNCHANGED lookup

(* _update sends the name, the actions and the triggers: the folder it is given
   too is no attribute of the request, which drops it.                     *)
EcSentWithFolder(set, new) ==
    [set EXCEPT !.name = new.name, !.actions = new.actions, !.trigger = new.trigger,
                !.folder = new.folder]
EcSent(set, new) ==
    [set EXCEPT !.name = new.name, !.actions = new.actions, !.trigger = new.trigger]

EcPut(c) ==
    /\ pc[c] = "put"
    /\ LET u == ec_found[c].uuid IN
       /\ u \in EcsIn(ecs)
       /\ EcWrites(c, [ecs EXCEPT ![u] = EcSent(@, ec_found[c].set)], u, "back",
                   ec_found[c].set.name)

EcDescribe(c) ==
    /\ pc[c] = "describe"
    /\ LET u == ec_found[c].uuid IN
       /\ u \in EcsIn(ecs)
       /\ EcWrites(c, [ecs EXCEPT ![u].description = ec_found[c].set.description], u,
                   IF job[c].op = "redescribe" THEN "done" ELSE "back", ec_found[c].set.name)

(* A set that is not there is not moved.  What was moved is returned by its UUID,
   what was made and then moved also by its name.                          *)
EcMove(c) ==
    /\ pc[c] = "move"
    /\ LET u == ec_found[c].uuid
           to == IF job[c].op = "move" THEN "new" ELSE job[c].folder
           sets == IF u \in EcsIn(ecs) THEN [ecs EXCEPT ![u].folder = to] ELSE ecs
       IN  EcWrites(c, sets, u, "back", IF job[c].op = "move" THEN NoSet ELSE ec_found[c].set.name)

(* A new set is moved where the caller wants it, unless it is there or is wanted
   no deeper than the root folders.                                        *)
MovedNext(folder, wanted) == IF wanted \in {"root", folder} THEN "back" ELSE "move"

EcCreate(c) ==
    /\ pc[c] = "create"
    /\ \E u \in {v \in EcIds : ecs[v] = NoSet} :
         EcWrites(c, [ecs EXCEPT ![u] = ec_found[c].set], u,
                  MovedNext("root", job[c].folder), ec_found[c].set.name)

(* copy: the server copies the set as it is by then, into a folder of its choice. *)
EcClone(c) ==
    /\ pc[c] = "clone"
    /\ ec_found[c].uuid \in EcsIn(ecs)
    /\ \E u \in {v \in EcIds : ecs[v] = NoSet} :
         LET source == ecs[ec_found[c].uuid] IN
         \E folder \in {"root", source.folder}, trigger \in {"none", source.trigger} :
            EcWrites(c, [ecs EXCEPT ![u] = [source EXCEPT !.name = job[c].name,
                                             !.folder = folder, !.trigger = trigger]],
                     u, MovedNext(folder, job[c].folder), job[c].name)

EcDelete(c) ==
    /\ pc[c] = "delete"
    /\ LET u == ec_found[c].uuid IN
       EcWrites(c, IF u \in EcsIn(ecs) THEN [ecs EXCEPT ![u] = GoneSet] ELSE ecs, u, "done", NoSet)

(* A request fails, or is refused: that of a set that is gone always is. *)
EcFail(c) ==
    /\ pc[c] # "idle"
    /\ EcEnds(c, "failed")
    /\ ForgetsIfDone(c)
    /\ UNCHANGED <<ecs, ec_held>>

EnforcementNext ==
    \E c \in Clients :
        \/ EcCall(c) \/ EcCallCreate(c) \/ EcCallObject(c)
        \/ EcPage(c) \/ EcFull(c)
        \/ EcPut(c) \/ EcDescribe(c) \/ EcMove(c)
        \/ EcCreate(c) \/ EcClone(c) \/ EcDelete(c) \/ EcFail(c)

-----------------------------------------------------------------------------
(* What a call may change of the sets there were. *)
EcMeant(j) ==
    CASE j.op \in {"add", "remove"} -> {"actions"}
      [] j.op \in {"schedule", "query"} -> {"trigger"}
      [] j.op = "rename" -> {"name"}
      [] j.op \in {"describe", "redescribe"} -> {"description"}
      [] j.op \in {"move", "create", "copy", "clone"} -> {"folder"}
      [] OTHER -> {}

(* A lookup takes another set than the one at hand only if that one's name is or
   was shared.                                                             *)
TakesTheOneAtHand(c) ==
    /\ pc[c] = "full" /\ lookup[c].why = "find" /\ lookup[c].uuid # NoSet
    /\ ec_found'[c] # NoSet
    => ec_found'[c].uuid = lookup[c].uuid \/ ec_held[c].shared

WritesSet(c) == pc[c] \in {"put", "describe", "move", "delete"} /\ pc'[c] # pc[c]

(* A request changes one set: the part it is about, or name, actions and trigger
   that were changed since they were read; folder and description are never
   written back.                                                           *)
ChangesOnlyMeant(c) ==
    WritesSet(c) =>
       \A v \in EcsIn(ecs) \cap EcsIn(ecs') : \A p \in EcParts :
          ecs'[v][p] # ecs[v][p] =>
             /\ v = ec_found[c].uuid
             /\ \/ p \in EcMeant(job[c])
                \/ p \in {"name", "actions", "trigger"} \cap ec_found[c].stale

(* A text is appended to the description as it was read. *)
AppendsToDescription(c) ==
    WritesSet(c) /\ pc[c] = "describe" /\ ecs' # ecs /\ job[c].append =>
       \/ ecs[ec_found[c].uuid].description \subseteq ecs'[ec_found[c].uuid].description
       \/ "description" \in ec_found[c].stale

(* A set that was to be made in a folder, or moved there, is in it when the call
   returns, unless it was moved or deleted since: its folder is not part of the
   request that makes it.                                                  *)
ReturnsWhereWanted(c) ==
    /\ pc[c] = "full" /\ lookup[c].why = "back" /\ pc'[c] = "idle" /\ told' = "returned"
    /\ job[c].op \in {"create", "copy", "clone", "move"}
    /\ ec_found[c].uuid \in EcsIn(ecs)
    => \/ ecs[ec_found[c].uuid].folder = IF job[c].op = "move" THEN "new" ELSE job[c].folder
       \/ job[c].op # "move" /\ job[c].folder = "root"
       \/ "folder" \in ec_found[c].stale

(* An update works on the set that is meant, changes of it only what is meant, and
   leaves it where it is wanted.  enforcements.py:118-122, 270-279, 634-649,
   731-740, 891-923; json_api/enforcements.py:566-576, 618-632, 930-937.   *)
SetOnlyMeant ==
    [][ \A c \in Clients :
          /\ TakesTheOneAtHand(c) /\ ChangesOnlyMeant(c)
          /\ AppendsToDescription(c) /\ ReturnsWhereWanted(c)
      ]_<<enforcementVars, clientVars>>

(* Two sets get the same name only if the one was named, or the list had a set
   deleted from it, after this call began to check the name; or if the name is an
   old one of the set, written back; or by copy, which checks none.
   enforcements.py:161-201, 270-279, 308-322.                              *)
SetNamesUnique ==
    [][ \A c \in Clients : Leaves(c, "put") \/ Leaves(c, "create") =>
          \A u, v \in EcsIn(ecs') :
             /\ u # v /\ ecs'[u].name = ecs'[v].name
             /\ u \notin EcsIn(ecs) \/ ecs[u].name # ecs'[u].name
             => v \in unlisted[c] \/ "name" \in ec_found[c].stale
      ]_<<enforcementVars, clientVars>>

=============================================================================
