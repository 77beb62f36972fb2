------------------------------ MODULE AccessEdit ------------------------------
(***************************************************************************)
(* System users and system roles.  A user or a role is named by its name,  *)
(* looked up in a list, and sent back whole with a part replaced.          *)
(*                                                                         *)
(* Every user that is listed is given its role, which is looked up by name *)
(* in a list of roles that is kept for a minute: a role that got its name  *)
(* since is not in it, and NotFoundError then comes out of the listing.    *)
(* That is also what tells add() that a name is free.                      *)
(*                                                                         *)
(* A list is read at once here (EnforcementEdit has the pages of such a    *)
(* list).  The scope of a role is a value; the links and mails for a new   *)
(* password change nothing and are left out.  External: the server makes   *)
(* users and roles of names that are taken, and deletes no role in use.    *)
(***************************************************************************)
EXTENDS ApiClient

CONSTANTS
    UserIds, RoleIds,
    UserNames, RoleNames,
    Perms,                  \* a permission: an action of a category
    FirstUsers, FirstRoles, \* those there are at first, by their UUID
    NoOne,                  \* nobody: no user, or a UUID that is not used yet
    GoneOne,                \* a UUID whose user or role was deleted
    NotCached               \* the list of roles has not been kept

ASSUME AccessAssumption ==
    /\ DOMAIN FirstUsers \subseteq UserIds
    /\ DOMAIN FirstRoles \subseteq RoleIds
    /\ {NoOne, GoneOne} \cap (UserIds \cup RoleIds) = {}

VARIABLES
    users,                  \* the server's users
    roles,                  \* the server's roles
    cached,                 \* per client: the names of the roles it has kept
    looked                  \* per client: what its call has found so far

accessVars == <<users, roles, cached, looked>>

(* rest: the title, the department and the scopes the user may take on. *)
User == [ name : UserNames, role : RoleIds, internal : BOOLEAN,
          email : {"old", "new"}, flag : {"old", "new"}, rest : {"old", "reset"} ]
Role == [ name : RoleNames, perms : SUBSET Perms, scope : {"old", "new"},
          predefined : BOOLEAN ]
AccessParts == {"name", "role", "email", "flag", "rest", "perms", "scope"}

(* Nobody is a user or a role, and every user there is at first has a role. *)
ASSUME FirstAccessAssumption ==
    /\ NoOne # GoneOne /\ {NoOne, GoneOne} \cap (User \cup Role) = {}
    /\ FirstUsers \in [DOMAIN FirstUsers -> User]
    /\ FirstRoles \in [DOMAIN FirstRoles -> Role]
    /\ \A u \in DOMAIN FirstUsers : FirstUsers[u].role \in DOMAIN FirstRoles

(* The user or the role found, the role named for a user, the roles the listed
   users have, and whether the call is at its read back.  History: the parts
   that were changed since (stale), who has got the name since it was checked
   (since), and whether the check was cut short (cut).                     *)
Looked == [ id : UserIds \cup RoleIds \cup {NoOne}, image : User \cup Role \cup {NoOne},
            role : RoleIds \cup {NoOne}, wanted : SUBSET RoleNames, back : BOOLEAN,
            stale : SUBSET AccessParts, since : SUBSET (UserIds \cup RoleIds), cut : BOOLEAN ]
NothingLooked ==
    [ id |-> NoOne, image |-> NoOne, role |-> NoOne, wanted |-> {}, back |-> FALSE,
      stale |-> {}, since |-> {}, cut |-> FALSE ]

AccessTypeOK ==
    /\ users \in [UserIds -> User \cup {NoOne, GoneOne}]
    /\ roles \in [RoleIds -> Role \cup {NoOne, GoneOne}]
    /\ cached \in [Clients -> (SUBSET RoleNames) \cup {NotCached}]
    /\ looked \in [Clients -> Looked]
    /\ \A u \in UserIds : users[u] \in User => roles[users[u].role] \in Role

There(table) == {i \in DOMAIN table : table[i] \notin {NoOne, GoneOne}}
NamedIn(table, n) == {i \in There(table) : table[i].name = n}
NamesIn(table) == {table[i].name : i \in There(table)}

AccessInit ==
    /\ users = [u \in UserIds |-> IF u \in DOMAIN FirstUsers THEN FirstUsers[u] ELSE NoOne]
    /\ roles = [r \in RoleIds |-> IF r \in DOMAIN FirstRoles THEN FirstRoles[r] ELSE NoOne]
    /\ cached \in [Clients -> {NotCached, NamesIn(roles)}]
    /\ looked = [c \in Clients |-> NothingLooked]

-----------------------------------------------------------------------------
(* The calls. *)

UserOps == {"set_email", "set_flag", "set_role", "add_user", "delete_user", "get_user"}

AcCall(c) ==
    /\ \/ \E op \in {"set_email", "set_flag", "delete_user", "get_user"}, n \in UserNames :
            Begin(c, [op |-> op, name |-> n], "users")
       \/ \E op \in {"set_role", "add_user"}, n \in UserNames, r \in RoleNames :
            Begin(c, [op |-> op, name |-> n, role |-> r], "roles")
       \/ \E op \in {"set_scope", "delete_role"}, n \in RoleNames :
            Begin(c, [op |-> op, name |-> n], "roles")
       \/ \E op \in {"set_perms", "add_role"}, n \in RoleNames, p \in Perms, grant \in BOOLEAN :
            /\ op = "add_role" => grant
            /\ Begin(c, [op |-> op, name |-> n, perm |-> p, grant |-> grant], "roles")
       \/ \E n, m \in RoleNames :
            /\ n # m
            /\ Begin(c, [op |-> "set_name", name |-> n, new |-> m], "roles")
    /\ UNCHANGED accessVars

AcGoes(c, to, look) ==
    /\ Go(c, to)
    /\ looked' = [looked EXCEPT ![c] = look]

AcEnds(c, how) ==
    /\ End(c, how)
    /\ looked' = [looked EXCEPT ![c] = NothingLooked]

(* A minute has passed since the roles were kept. *)
AcExpires(c) ==
    /\ cached[c] # NotCached
    /\ cached' = [cached EXCEPT ![c] = NotCached]
    /\ told' = "none"
    /\ UNCHANGED <<pc, job, calls, users, roles, looked>>

-----------------------------------------------------------------------------
(* Users: the list, and the roles of those in it. *)

(* _update_user_attr: a user of another source is refused. *)
OtherSource(j, image) ==
    \/ j.op \in {"set_email", "set_role"} /\ ~image.internal
    \/ j.op = "set_flag" /\ image.internal

(* The users are listed, with the roles the client keeps. *)
AcListed(c, look, kept_names) ==
    LET known == look.wanted \subseteq kept_names
        done == [look EXCEPT !.wanted = {}, !.cut = look.cut \/ ~known]
        add == job[c].op = "add_user"
    IN  CASE ~known \/ look.id = NoOne ->
               IF add /\ ~look.back THEN AcGoes(c, "write", [done EXCEPT !.id = NoOne, !.image = NoOne])
               ELSE AcEnds(c, "raised")
          [] known /\ look.id # NoOne ->
               IF look.back \/ job[c].op = "get_user" THEN AcEnds(c, "returned")
               ELSE IF add \/ OtherSource(job[c], look.image) THEN AcEnds(c, "raised")
               ELSE AcGoes(c, "write", done)

(* A list without any user of the name has nobody to return. *)
AcUsers(c) ==
    /\ pc[c] = "users"
    /\ LET named == NamedIn(users, job[c].name)
           wanted == {roles[users[u].role].name : u \in There(users)}
       IN  \E u \in IF named = {} THEN {NoOne} ELSE named :
             LET look == [looked[c] EXCEPT
                            !.id = u, !.image = IF u = NoOne THEN NoOne ELSE users[u],
                            !.wanted = wanted, !.stale = {}, !.since = {}]
             IN  IF cached[c] = NotCached /\ wanted # {} THEN AcGoes(c, "kept", look)
                 ELSE AcListed(c, look, IF cached[c] = NotCached THEN {} ELSE cached[c])
    /\ UNCHANGED <<users, roles, cached>>

(* The roles are fetched for the first user that is given its role, and kept. *)
AcKeep(c) ==
    /\ pc[c] = "kept"
    /\ cached' = [cached EXCEPT ![c] = NamesIn(roles)]
    /\ AcListed(c, looked[c], NamesIn(roles))
    /\ UNCHANGED <<users, roles>>

-----------------------------------------------------------------------------
(* Roles: the list. *)

(* A bug: the roles that are kept say which names are taken. *)
TakenAsKept(c, n) == n \in (IF cached[c] = NotCached THEN NamesIn(roles) ELSE cached[c])

(* check_exists, and set_name: the names in a new list. *)
Taken(c, n) == n \in NamesIn(roles)

AcRoles(c) ==
    /\ pc[c] = "roles"
    /\ LET j == job[c]
           named == NamedIn(roles, j.name)
           Finds(r) == [looked[c] EXCEPT !.id = r, !.image = roles[r]]
       IN  CASE j.op \in UserOps ->
                  \/ NamedIn(roles, j.role) = {} /\ AcEnds(c, "raised")
                  \/ \E r \in NamedIn(roles, j.role) :
                       AcGoes(c, "users", [looked[c] EXCEPT !.role = r])
             [] j.op = "add_role" ->
                  IF Taken(c, j.name) THEN AcEnds(c, "raised")
                  ELSE AcGoes(c, "write", looked[c])
             [] OTHER ->
                  IF named = {} \/ (j.op = "set_name" /\ Taken(c, j.new))
                  THEN AcEnds(c, "raised")
                  ELSE \E r \in named :
                         IF roles[r].predefined THEN AcEnds(c, "raised")
                         ELSE AcGoes(c, "write", Finds(r))
    /\ UNCHANGED <<users, roles, cached>>

(* What a method of a role returns. *)
AcRoleBack(c) ==
    /\ pc[c] = "back"
    /\ LET n == IF job[c].op = "set_name" THEN job[c].new ELSE job[c].name IN
       AcEnds(c, IF NamedIn(roles, n) = {} THEN "raised" ELSE "returned")
    /\ UNCHANGED <<users, roles, cached>>

-----------------------------------------------------------------------------
(* Requests that write. *)

(* _update of a user: its title, department and scopes are not among the
   parameters, so the request has their defaults.                         *)
UserSent(c) ==
    LET j == job[c]
        sent == [looked[c].image EXCEPT !.rest = "reset"]
    IN  CASE j.op = "set_email" -> [sent EXCEPT !.email = "new"]
          [] j.op = "set_flag"  -> [sent EXCEPT !.flag = "new"]
          [] j.op = "set_role"  -> [sent EXCEPT !.role = looked[c].role]
UserMade(c) ==
    [ name |-> job[c].name, role |-> looked[c].role, internal |-> TRUE,
      email |-> "new", flag |-> "old", rest |-> "reset" ]

(* A bug: the restriction to a scope is left to its default. *)
RoleSentUnscoped(c) ==
    [ looked[c].image EXCEPT
        !.name = IF job[c].op = "set_name" THEN job[c].new ELSE @,
        !.scope = IF job[c].op = "set_scope" THEN "new" ELSE "old" ]

(* _update of a role: all of it. *)
RoleSent(c) ==
    LET j == job[c]
        image == looked[c].image
    IN  CASE j.op = "set_name"  -> [image EXCEPT !.name = j.new]
          [] j.op = "set_scope" -> [image EXCEPT !.scope = "new"]
          [] j.op = "set_perms" ->
               [image EXCEPT !.perms = IF j.grant THEN @ \cup {j.perm} ELSE @ \ {j.perm}]
RoleMade(c) ==
    [ name |-> job[c].name, perms |-> {job[c].perm}, scope |-> "old", predefined |-> FALSE ]

(* Table t became new: what clients in a call have found of it is no longer so. *)
AcAware(c, t, new) ==
    [d \in Clients |->
       IF d = c \/ pc[d] = "idle" THEN looked[d]
       ELSE [looked[d] EXCEPT
               !.stale = @ \cup (IF looked[d].id \in There(t) \cap There(new)
                                 THEN {p \in AccessParts \cap DOMAIN t[looked[d].id] :
                                         t[looked[d].id][p] # new[looked[d].id][p]}
                                 ELSE {}),
               !.since = @ \cup {i \in There(new) : i \notin There(t) \/ t[i].name # new[i].name}]]

(* What follows a write: a read back, nothing after a delete, or a failure. *)
AcWritten(c, table, new, back, id) ==
    \/ /\ Go(c, back) /\ back # "none"
       /\ looked' = [AcAware(c, table, new) EXCEPT ![c].back = TRUE, ![c].role = id]
    \/ /\ End(c, "returned") /\ back = "none"
       /\ looked' = [AcAware(c, table, new) EXCEPT ![c] = NothingLooked]
    \/ /\ End(c, "failed")
       /\ looked' = [AcAware(c, table, new) EXCEPT ![c] = NothingLooked]

AcWriteUser(c) ==
    /\ pc[c] = "write" /\ job[c].op \in UserOps
    /\ \/ /\ job[c].op = "add_user"
          /\ looked[c].role \in There(roles)
          /\ \E u \in {v \in UserIds : users[v] = NoOne} :
               users' = [users EXCEPT ![u] = UserMade(c)]
          /\ AcWritten(c, users, users', "users", looked[c].role)
       \/ /\ job[c].op \in {"set_email", "set_flag", "set_role"}
          /\ looked[c].id \in There(users)
          /\ UserSent(c).role \in There(roles)
          /\ users' = [users EXCEPT ![looked[c].id] = UserSent(c)]
          /\ AcWritten(c, users, users', "users", looked[c].role)
       \/ /\ job[c].op = "delete_user"
          /\ looked[c].id \in There(users)
          /\ users' = [users EXCEPT ![looked[c].id] = GoneOne]
          /\ AcWritten(c, users, users', "none", NoOne)
    /\ UNCHANGED <<roles, cached>>

(* add() takes the refusal "Invalid input" for a role made nonetheless. *)
AcWriteRole(c) ==
    /\ pc[c] = "write" /\ job[c].op \notin UserOps
    /\ \/ /\ job[c].op = "add_role"
          /\ \E r \in {s \in RoleIds : roles[s] = NoOne} :
               /\ roles' = [roles EXCEPT ![r] = RoleMade(c)]
               /\ AcWritten(c, roles, roles', "back", r)
       \/ /\ job[c].op = "add_role"
          /\ UNCHANGED roles
          /\ AcGoes(c, "back", [looked[c] EXCEPT !.back = TRUE])
       \/ /\ job[c].op \in {"set_name", "set_scope", "set_perms"}
          /\ looked[c].id \in There(roles)
          /\ roles' = [roles EXCEPT ![looked[c].id] = RoleSent(c)]
          /\ AcWritten(c, roles, roles', "back", NoOne)
       \/ /\ job[c].op = "delete_role"
          /\ looked[c].id \in There(roles)
          /\ \A u \in There(users) : users[u].role # looked[c].id
          /\ roles' = [roles EXCEPT ![looked[c].id] = GoneOne]
          /\ AcWritten(c, roles, roles', "none", NoOne)
    /\ UNCHANGED <<users, cached>>

AcFail(c) ==
    /\ pc[c] # "idle"
    /\ AcEnds(c, "failed")
    /\ UNCHANGED <<users, roles, cached>>

AccessNext ==
    \E c \in Clients :
        \/ AcCall(c) \/ AcExpires(c)
        \/ AcUsers(c) \/ AcKeep(c) \/ AcRoles(c) \/ AcRoleBack(c)
        \/ AcWriteUser(c) \/ AcWriteRole(c) \/ AcFail(c)

-----------------------------------------------------------------------------
AccessMeant(j) ==
    CASE j.op = "set_email" -> {"email"}
      [] j.op = "set_flag"  -> {"flag"}
      [] j.op = "set_role"  -> {"role"}
      [] j.op = "set_name"  -> {"name"}
      [] j.op = "set_scope" -> {"scope"}
      [] j.op = "set_perms" -> {"perms"}
      [] OTHER -> {}

(* Between tables t and new only the one that was looked up has changed: what the
   call is about, or a part that was changed since it was read, or its rest.   *)
AccessChanges(c, t, new, rest) ==
    \A i \in There(t) :
       /\ i \notin There(new) => i = looked[c].id
       /\ i \in There(new) /\ new[i] # t[i] =>
            /\ i = looked[c].id
            /\ \A p \in DOMAIN t[i] :
                 new[i][p] # t[i][p] => p \in AccessMeant(job[c]) \cup looked[c].stale \cup rest

(* A write to users or roles changes one of them, the one that has the name given
   or had it when the call looked, and of it what the call names or another client
   changed meanwhile; a user also loses its title, department and scopes.  Of the
   permissions only the one named changes.  system_users.py:209-322, 458-493,
   531-570; system_roles.py:185-329.                                       *)
AccessOnlyMeant ==
    [][ \A c \in Clients :
          Leaves(c, "write") =>
             LET i == looked[c].id IN
             /\ AccessChanges(c, users, users', {"rest"})
             /\ AccessChanges(c, roles, roles', {})
             /\ users' # users /\ i # NoOne => users[i].name = job[c].name
             /\ roles' # roles /\ i # NoOne =>
                  roles[i].name = job[c].name \/ "name" \in looked[c].stale
             /\ roles' # roles /\ job[c].op = "set_perms" =>
                  \A p \in Perms \ {job[c].perm} :
                     (p \in roles'[i].perms) # (p \in roles[i].perms) =>
                        "perms" \in looked[c].stale
      ]_<<accessVars, clientVars>>

(* add() makes a second user of a name only if the first was made after it had
   looked, or if it could not tell, since a user had a role that the roles kept
   did not have.  add() of a role that returns has made it, or another one got
   its name after it had looked: the refusal it takes for success means no less.
   system_users.py:174-190; system_roles.py:163-183;
   json_api/system_users.py:133-146.                                       *)
AccessAddTold ==
    [][ \A c \in Clients :
          /\ Leaves(c, "write") /\ job[c].op = "add_user" =>
               \A u \in There(users') \ There(users) : \A v \in NamedIn(users, users'[u].name) :
                  v \in looked[c].since \/ looked[c].cut
          /\ Leaves(c, "write") /\ job[c].op = "add_role" =>
               \A r \in There(roles') \ There(roles) :
                  NamedIn(roles, job[c].name) \subseteq looked[c].since
          /\ Leaves(c, "back") /\ told' = "returned" /\ job[c].op = "add_role" =>
               \/ looked[c].role # NoOne
               \/ \E r \in looked[c].since : r \in NamedIn(roles, job[c].name)
      ]_<<accessVars, clientVars>>

=============================================================================
