----------------------------- MODULE AccessProofs -----------------------------
(***************************************************************************)
(* Theorems about two parts of the API whose methods look something up in  *)
(* lists and write it in further requests, for any number of clients,      *)
(* calls and objects:                                                      *)
(*   - users and roles (AccessEdit), found by name and written back whole; *)
(*   - enforcement sets (EnforcementEdit), found in pages, written by      *)
(*     requests for their parts and looked for again.                      *)
(* At the end, all components of the API beside each other (MCServerEdits):*)
(* a behaviour is one of the component that is called, so what was proved  *)
(* of each one here and in EditProofs holds of the whole.                  *)
(***************************************************************************)
EXTENDS MCServerEdits, EditProofs, FiniteSetTheorems, PagingLemmas, TLAPS

AccessSpec ==
    ClientInit /\ AccessInit /\ [][AccessNext]_<<accessVars, clientVars>>

(* The calls there are. *)
AccessJobs ==
    [op : {"set_email", "set_flag", "delete_user", "get_user"}, name : UserNames]
    \cup [op : {"set_role", "add_user"}, name : UserNames, role : RoleNames]
    \cup [op : {"set_scope", "delete_role"}, name : RoleNames]
    \cup [op : {"set_perms", "add_role"}, name : RoleNames, perm : Perms, grant : BOOLEAN]
    \cup [op : {"set_name"}, name : RoleNames, new : RoleNames]

-----------------------------------------------------------------------------
(* What a call has found is still so where its history does not tell.  The
   operators are of the tables, so that they can be used of the next ones. *)

(* What was found in table t had the name, and is still there as it was read,
   or was deleted: its UUID is not used again.                             *)
FoundIn(t, l, n) ==
    /\ l.image.name = n
    /\ t[l.id] # NoOne
    /\ l.id \in There(t) =>
          \A p \in DOMAIN l.image \ l.stale : t[l.id][p] = l.image[p]

(* A user keeps its name, as no method gives it another. *)
UserFound(us, l, n) ==
    /\ l.id \in UserIds /\ l.image \in User
    /\ FoundIn(us, l, n)
    /\ l.id \in There(us) => us[l.id].name = n
RoleFound(rs, l, n) ==
    /\ l.id \in RoleIds /\ l.image \in Role
    /\ FoundIn(rs, l, n)

(* Who has the name that was found free got it since. *)
FreeBut(t, l, n) == NamedIn(t, n) \subseteq l.since

UserLook(p, j, l, us) ==
    \/ l.id = NoOne /\ (j.op = "add_user" => l.cut \/ FreeBut(us, l, j.name))
    \/ /\ l.id # NoOne /\ UserFound(us, l, j.name)
       /\ p = "write" => j.op # "add_user"

RoleLook(j, l, rs) ==
    \/ l.id = NoOne
    \/ l.id # NoOne /\ j.op # "add_role" /\ RoleFound(rs, l, j.name)

ClientOK(p, j, l, us, rs) ==
    /\ p # "idle" => j \in AccessJobs
    /\ p \in {"idle", "roles"} => l.id = NoOne
    /\ p \in {"users", "kept"} => j.op \in UserOps
    /\ p = "back" => j.op \notin UserOps
    /\ p \in {"kept", "write"} /\ j.op \in UserOps => UserLook(p, j, l, us)
    /\ p = "write" /\ j.op \notin UserOps => RoleLook(j, l, rs)
    /\ p = "write" /\ j.op = "add_role" => FreeBut(rs, l, j.name)
    /\ p = "back" /\ j.op = "add_role" => l.role # NoOne \/ FreeBut(rs, l, j.name)

AccessShape == DOMAIN pc = Clients /\ DOMAIN job = Clients

AccessInv ==
    /\ AccessTypeOK
    /\ AccessShape
    /\ \A c \in Clients : ClientOK(pc[c], job[c], looked[c], users, roles)

-----------------------------------------------------------------------------
(* Facts about the operators of AccessEdit.                                *)

\* What a client calls, by its kind.
LEMMA JobTyped ==
    ASSUME NEW j \in AccessJobs
    PROVE  /\ j.op \in UserOps => j.name \in UserNames
           /\ j.op \notin UserOps => j.name \in RoleNames
           /\ j.op \in {"set_role", "add_user"} => j.role \in RoleNames
           /\ j.op \in {"set_perms", "add_role"} => j.perm \in Perms /\ j.grant \in BOOLEAN
           /\ j.op = "set_name" => j.new \in RoleNames
BY DEF AccessJobs, UserOps

\* A call for users does not read or write roles but by their names.
LEMMA JobKinds ==
    ASSUME NEW j \in AccessJobs
    PROVE  j.op \in UserOps \cup {"set_scope", "delete_role", "set_perms", "add_role", "set_name"}
BY DEF AccessJobs, UserOps

\* What is in a table of users or of roles is a user or a role.
LEMMA ThereTyped ==
    ASSUME NEW us \in [UserIds -> User \cup {NoOne, GoneOne}],
           NEW rs \in [RoleIds -> Role \cup {NoOne, GoneOne}]
    PROVE  /\ There(us) \subseteq UserIds /\ \A u \in There(us) : us[u] \in User
           /\ There(rs) \subseteq RoleIds /\ \A r \in There(rs) : rs[r] \in Role
           /\ \A u \in UserIds : us[u] \in User => u \in There(us)
           /\ \A r \in RoleIds : rs[r] \in Role => r \in There(rs)
           /\ NoOne \notin There(us) /\ NoOne \notin There(rs)
           /\ NamesIn(rs) \subseteq RoleNames
<1>1. /\ There(us) \subseteq UserIds /\ \A u \in There(us) : us[u] \in User
      /\ There(rs) \subseteq RoleIds /\ \A r \in There(rs) : rs[r] \in Role
    BY DEF There
<1>2. /\ \A u \in UserIds : us[u] \in User => u \in There(us)
      /\ \A r \in RoleIds : rs[r] \in Role => r \in There(rs)
    BY FirstAccessAssumption DEF There
<1>3. NoOne \notin There(us) /\ NoOne \notin There(rs)
    BY <1>1, AccessAssumption
<1>4. NamesIn(rs) \subseteq RoleNames
    BY <1>1 DEF NamesIn, Role
<1>5. QED
    BY <1>1, <1>2, <1>3, <1>4

\* A look that has only learned more of what others did.
Grown(l, m) ==
    /\ m.id = l.id /\ m.image = l.image /\ m.role = l.role /\ m.cut = l.cut
    /\ l.stale \subseteq m.stale /\ l.since \subseteq m.since

LEMMA GrownFound ==
    ASSUME NEW t, NEW l, NEW m, NEW n, Grown(l, m)
    PROVE  /\ FoundIn(t, l, n) => FoundIn(t, m, n)
           /\ FreeBut(t, l, n) => FreeBut(t, m, n)
BY DEF Grown, FoundIn, FreeBut

\* What a write to table t makes the other clients learn.
LEMMA AwareGrows ==
    ASSUME looked \in [Clients -> Looked], NEW c \in Clients, NEW d \in Clients, NEW t, NEW new
    PROVE  LET m == AcAware(c, t, new)[d] IN
           /\ Grown(looked[d], m)
           /\ d = c => m = looked[c]
           /\ d # c /\ pc[d] # "idle" =>
                 /\ looked[d].id \in There(t) \cap There(new) =>
                       \A p \in AccessParts \cap DOMAIN t[looked[d].id] :
                          t[looked[d].id][p] # new[looked[d].id][p] => p \in m.stale
                 /\ \A i \in There(new) :
                       i \notin There(t) \/ t[i].name # new[i].name => i \in m.since
<1> DEFINE Stale == IF looked[d].id \in There(t) \cap There(new)
                    THEN {p \in AccessParts \cap DOMAIN t[looked[d].id] :
                            t[looked[d].id][p] # new[looked[d].id][p]}
                    ELSE {}
           Since == {i \in There(new) : i \notin There(t) \/ t[i].name # new[i].name}
           m == AcAware(c, t, new)[d]
<1>1. looked[d] \in Looked
    OBVIOUS
<1>2. m = IF d = c \/ pc[d] = "idle" THEN looked[d]
          ELSE [looked[d] EXCEPT !.stale = @ \cup Stale, !.since = @ \cup Since]
    BY DEF AcAware
<1>3. CASE d = c \/ pc[d] = "idle"
    BY <1>2, <1>3 DEF Grown
<1>4. CASE ~(d = c \/ pc[d] = "idle")
    <2> HIDE DEF Stale, Since, m
    <2>1. m = [looked[d] EXCEPT !.stale = looked[d].stale \cup Stale,
                                !.since = looked[d].since \cup Since]
        BY <1>2, <1>4
    <2>2. /\ m.stale = looked[d].stale \cup Stale /\ m.since = looked[d].since \cup Since
          /\ m.id = looked[d].id /\ m.image = looked[d].image /\ m.role = looked[d].role
          /\ m.cut = looked[d].cut
        BY <1>1, <2>1 DEF Looked
    <2>3. QED
        BY <1>4, <2>2 DEF Grown, Stale, Since, m
<1>5. QED
    BY <1>3, <1>4

LEMMA AwareTyped ==
    ASSUME looked \in [Clients -> Looked], NEW c \in Clients, NEW t, NEW new,
           DOMAIN new \subseteq UserIds \cup RoleIds
    PROVE  AcAware(c, t, new) \in [Clients -> Looked]
<1> SUFFICES ASSUME NEW d \in Clients PROVE AcAware(c, t, new)[d] \in Looked
    BY DEF AcAware
<1> DEFINE Stale == IF looked[d].id \in There(t) \cap There(new)
                    THEN {p \in AccessParts \cap DOMAIN t[looked[d].id] :
                            t[looked[d].id][p] # new[looked[d].id][p]}
                    ELSE {}
           Since == {i \in There(new) : i \notin There(t) \/ t[i].name # new[i].name}
<1>1. looked[d] \in Looked
    OBVIOUS
<1>2. Stale \subseteq AccessParts /\ Since \subseteq UserIds \cup RoleIds
    BY DEF There
<1>3. AcAware(c, t, new)[d] =
        IF d = c \/ pc[d] = "idle" THEN looked[d]
        ELSE [looked[d] EXCEPT !.stale = @ \cup Stale, !.since = @ \cup Since]
    BY DEF AcAware
<1> HIDE DEF Stale, Since
<1>4. [looked[d] EXCEPT !.stale = @ \cup Stale, !.since = @ \cup Since] \in Looked
    BY <1>1, <1>2 DEF Looked
<1>5. QED
    BY <1>1, <1>3, <1>4

\* Where only c's call has written, what another one has found stays found.
WrittenBy(c, t, new, rest) ==
    \A i \in DOMAIN t :
        \/ new[i] = t[i]
        \/ t[i] = NoOne
        \/ i = looked[c].id /\ i \in There(t) /\ new[i] = GoneOne
        \/ /\ i = looked[c].id /\ i \in There(t) /\ i \in There(new)
           /\ \A p \in DOMAIN t[i] :
                 new[i][p] # t[i][p] => p \in AccessMeant(job[c]) \cup looked[c].stale \cup rest

LEMMA MeantIsPart == ASSUME NEW j PROVE AccessMeant(j) \subseteq AccessParts
BY DEF AccessMeant, AccessParts

LEMMA FoundStays ==
    ASSUME looked \in [Clients -> Looked], NEW c \in Clients, NEW d \in Clients \ {c},
           pc[d] # "idle", NEW t, NEW new, DOMAIN new = DOMAIN t, NEW rest \in SUBSET AccessParts,
           WrittenBy(c, t, new, rest), NEW n, FoundIn(t, looked[d], n),
           looked[d].id \in DOMAIN t,
           looked[d].id \in There(t) => DOMAIN t[looked[d].id] = DOMAIN looked[d].image
    PROVE  FoundIn(new, AcAware(c, t, new)[d], n)
<1> DEFINE i == looked[d].id
           m == AcAware(c, t, new)[d]
<1>1. Grown(looked[d], m)
    BY AwareGrows
<1>2. m.image.name = n /\ m.id = i /\ m.image = looked[d].image
    BY <1>1 DEF Grown, FoundIn
<1>3. t[i] # NoOne
    BY DEF FoundIn
<1>4. looked[c].stale \subseteq AccessParts
    BY DEF Looked
<1>5. CASE new[i] = t[i]
    BY <1>1, <1>2, <1>5 DEF FoundIn, Grown, There
<1>6. CASE new[i] = GoneOne
    <2>1. i \notin There(new) /\ new[i] # NoOne
        BY <1>6, FirstAccessAssumption DEF There
    <2>2. QED
        BY <1>2, <2>1 DEF FoundIn
<1>7. CASE /\ i \in There(t) /\ i \in There(new)
           /\ \A p \in DOMAIN t[i] : new[i][p] # t[i][p] =>
                 p \in AccessMeant(job[c]) \cup looked[c].stale \cup rest
    <2>1. new[i] # NoOne
        BY <1>7 DEF There
    <2>2. ASSUME NEW p \in DOMAIN m.image \ m.stale PROVE new[i][p] = m.image[p]
        <3>1. p \in DOMAIN t[i] /\ p \notin looked[d].stale /\ t[i][p] = m.image[p]
            BY <1>1, <1>2, <1>7 DEF FoundIn, Grown
        <3>2. CASE p \in AccessParts
            BY <1>7, <3>1, <3>2, AwareGrows
        <3>3. CASE p \notin AccessParts
            BY <1>4, <1>7, <3>1, <3>3, MeantIsPart
        <3>4. QED
            BY <3>2, <3>3
    <2>3. QED
        BY <1>2, <2>1, <2>2 DEF FoundIn
<1>8. QED
    BY <1>3, <1>5, <1>6, <1>7 DEF WrittenBy

\* A name that was found free is still so but for those that got it since.
LEMMA FreeStays ==
    ASSUME looked \in [Clients -> Looked], NEW c \in Clients, NEW d \in Clients \ {c},
           pc[d] # "idle", NEW t, NEW new, NEW n, FreeBut(t, looked[d], n)
    PROVE  FreeBut(new, AcAware(c, t, new)[d], n)
BY AwareGrows DEF FreeBut, NamedIn, Grown

-----------------------------------------------------------------------------
(* How a step moves a client.                                              *)

\* What the other clients have is untouched by a step that writes nothing.
QuietMove(c) ==
    /\ DOMAIN pc' = Clients /\ DOMAIN job' = Clients
    /\ looked' \in [Clients -> Looked]
    /\ \A d \in Clients \ {c} : pc'[d] = pc[d] /\ job'[d] = job[d] /\ looked'[d] = looked[d]
    /\ ClientOK(pc'[c], job'[c], looked'[c], users, roles)

LEMMA GoesQuietly ==
    ASSUME AccessShape, looked \in [Clients -> Looked], NEW c \in Clients, NEW to,
           NEW look \in Looked, AcGoes(c, to, look), ClientOK(to, job[c], look, users, roles)
    PROVE  QuietMove(c)
BY DEF AccessShape, AcGoes, Go, QuietMove

LEMMA NothingIsLooked == NothingLooked \in Looked /\ NothingLooked.id = NoOne
BY DEF NothingLooked, Looked

LEMMA IdleOK ==
    ASSUME NEW j, NEW us, NEW rs PROVE ClientOK("idle", j, NothingLooked, us, rs)
BY NothingIsLooked DEF ClientOK

LEMMA EndsQuietly ==
    ASSUME AccessShape, looked \in [Clients -> Looked], NEW c \in Clients, NEW how,
           AcEnds(c, how)
    PROVE  QuietMove(c)
BY NothingIsLooked, IdleOK DEF AccessShape, AcEnds, End, QuietMove

LEMMA QuietStep ==
    ASSUME AccessInv, NEW c \in Clients, QuietMove(c), users' = users, roles' = roles,
           cached' \in [Clients -> (SUBSET RoleNames) \cup {NotCached}]
    PROVE  AccessInv'
BY DEF AccessInv, AccessTypeOK, AccessShape, QuietMove

\* The users are listed: a call goes on with the one found, or ends.
LEMMA ListedMoves ==
    ASSUME AccessInv, NEW c \in Clients, NEW look \in Looked, NEW names,
           job[c] \in AccessJobs, job[c].op \in UserOps,
           UserLook("kept", job[c], look, users), AcListed(c, look, names)
    PROVE  QuietMove(c)
<1> DEFINE known == look.wanted \subseteq names
           done == [look EXCEPT !.wanted = {}, !.cut = look.cut \/ ~known]
           noOne == [done EXCEPT !.id = NoOne, !.image = NoOne]
<1>0. AccessShape /\ looked \in [Clients -> Looked]
    BY DEF AccessInv, AccessTypeOK
<1>1. done = [look EXCEPT !.wanted = {}, !.cut = look.cut \/ ~known]
    OBVIOUS
<1>2. known \in BOOLEAN
    OBVIOUS
<1> HIDE DEF known
<1>3. /\ done \in Looked /\ done.id = look.id /\ done.image = look.image
      /\ done.stale = look.stale /\ done.since = look.since
      /\ done.cut = (look.cut \/ ~known)
    BY <1>2 DEF Looked
<1> HIDE DEF done
<1>4. /\ noOne \in Looked /\ noOne.id = NoOne
      /\ noOne.since = look.since /\ noOne.cut = (look.cut \/ ~known)
    BY <1>3 DEF Looked
<1> HIDE DEF noOne
<1>5. \/ \E how : AcEnds(c, how)
      \/ /\ ~known \/ look.id = NoOne
         /\ job[c].op = "add_user" /\ AcGoes(c, "write", noOne)
      \/ known /\ look.id # NoOne /\ job[c].op # "add_user" /\ AcGoes(c, "write", done)
    BY Zenon DEF AcListed, known, done, noOne
<1>6. CASE \E how : AcEnds(c, how)
    BY <1>0, <1>6, EndsQuietly
<1>7. CASE /\ ~known \/ look.id = NoOne
           /\ job[c].op = "add_user" /\ AcGoes(c, "write", noOne)
    <2>1. noOne.cut \/ FreeBut(users, noOne, job[c].name)
        BY <1>4, <1>7 DEF UserLook, FreeBut
    <2>2. ClientOK("write", job[c], noOne, users, roles)
        BY <1>4, <2>1, <1>7 DEF ClientOK, UserLook
    <2>3. QED
        BY <1>0, <1>4, <1>7, <2>2, GoesQuietly
<1>8. CASE known /\ look.id # NoOne /\ job[c].op # "add_user" /\ AcGoes(c, "write", done)
    <2>1. UserFound(users, done, job[c].name)
        BY <1>3, <1>8 DEF UserLook, UserFound, FoundIn
    <2>2. ClientOK("write", job[c], done, users, roles)
        BY <1>3, <2>1, <1>8 DEF ClientOK, UserLook, UserOps
    <2>3. QED
        BY <1>0, <1>3, <1>8, <2>2, GoesQuietly
<1>9. QED
    BY <1>5, <1>6, <1>7, <1>8

\* What a client reads of the users is what there is.
LEMMA UsersMoves ==
    ASSUME AccessInv, NEW c \in Clients, AcUsers(c)
    PROVE  QuietMove(c)
<1> DEFINE named == NamedIn(users, job[c].name)
           wanted == {roles[users[u].role].name : u \in There(users)}
           Finding(u) == [looked[c] EXCEPT
                         !.id = u, !.image = IF u = NoOne THEN NoOne ELSE users[u],
                         !.wanted = wanted, !.stale = {}, !.since = {}]
<1>0. /\ AccessShape /\ looked \in [Clients -> Looked]
      /\ ClientOK(pc[c], job[c], looked[c], users, roles) /\ pc[c] = "users"
    BY DEF AccessInv, AccessTypeOK, AcUsers
<1>1. job[c] \in AccessJobs /\ job[c].op \in UserOps
    BY <1>0 DEF ClientOK
<1>2. PICK u \in IF named = {} THEN {NoOne} ELSE named :
         IF cached[c] = NotCached /\ wanted # {} THEN AcGoes(c, "kept", Finding(u))
         ELSE AcListed(c, Finding(u), IF cached[c] = NotCached THEN {} ELSE cached[c])
    BY DEF AcUsers
<1>3. There(users) \subseteq UserIds /\ \A v \in There(users) : users[v] \in User
    BY ThereTyped DEF AccessInv, AccessTypeOK
<1>4. wanted \in SUBSET RoleNames
    <2>1. ASSUME NEW v \in There(users) PROVE roles[users[v].role].name \in RoleNames
        BY <1>3 DEF AccessInv, AccessTypeOK, Role
    <2>2. QED
        BY <2>1
<1>5. u # NoOne => u \in UserIds /\ u \in There(users) /\ users[u] \in User /\ users[u].name = job[c].name
    BY <1>2, <1>3 DEF NamedIn
<1>6. u = NoOne => named = {}
    BY <1>2, <1>3, AccessAssumption DEF NamedIn
<1>7. (IF u = NoOne THEN NoOne ELSE users[u]) \in User \cup Role \cup {NoOne}
    BY <1>5
<1> DEFINE look == Finding(u)
<1>8. /\ look \in Looked /\ look.id = u /\ look.stale = {} /\ look.since = {}
      /\ look.image = IF u = NoOne THEN NoOne ELSE users[u]
    <2>1. looked[c] \in Looked
        BY <1>0
    <2> HIDE DEF wanted, named
    <2>2. QED
        BY <1>4, <1>5, <1>7, <2>1 DEF Looked
<1>9. UserLook("kept", job[c], look, users)
    <2>1. CASE u = NoOne
        BY <1>6, <1>8, <2>1 DEF UserLook, FreeBut
    <2>2. CASE u # NoOne
        <3> HIDE DEF look
        <3>1. users[u] # NoOne
            BY <1>5, <2>2 DEF There
        <3>2. QED
            BY <1>5, <1>8, <2>2, <3>1 DEF UserLook, UserFound, FoundIn
    <2>3. QED
        BY <2>1, <2>2
<1> HIDE DEF look
<1>10. CASE AcGoes(c, "kept", look)
    <2>1. ClientOK("kept", job[c], look, users, roles)
        BY <1>1, <1>9 DEF ClientOK, UserLook
    <2>2. QED
        BY <1>0, <1>8, <1>10, <2>1, GoesQuietly
<1>11. CASE \E names : AcListed(c, look, names)
    BY <1>1, <1>8, <1>9, <1>11, ListedMoves
<1>12. QED
    BY <1>2, <1>10, <1>11 DEF look

\* What a client reads of the roles is what there is.
LEMMA RolesMoves ==
    ASSUME AccessInv, NEW c \in Clients, AcRoles(c)
    PROVE  QuietMove(c)
<1> DEFINE Finds(r) == [looked[c] EXCEPT !.id = r, !.image = roles[r]]
<1>0. /\ AccessShape /\ looked \in [Clients -> Looked]
      /\ ClientOK(pc[c], job[c], looked[c], users, roles) /\ pc[c] = "roles"
    BY DEF AccessInv, AccessTypeOK, AcRoles
<1>1. job[c] \in AccessJobs /\ looked[c].id = NoOne /\ looked[c] \in Looked
    BY <1>0 DEF ClientOK
<1>2. There(roles) \subseteq RoleIds /\ \A r \in There(roles) : roles[r] \in Role
    BY ThereTyped DEF AccessInv, AccessTypeOK
<1>3. \/ \E how : AcEnds(c, how)
      \/ /\ job[c].op \in UserOps
         /\ \E r \in NamedIn(roles, job[c].role) :
               AcGoes(c, "users", [looked[c] EXCEPT !.role = r])
      \/ /\ job[c].op = "add_role" /\ ~Taken(c, job[c].name)
         /\ AcGoes(c, "write", looked[c])
      \/ /\ job[c].op \notin UserOps \cup {"add_role"}
         /\ \E r \in NamedIn(roles, job[c].name) : AcGoes(c, "write", Finds(r))
    BY DEF AcRoles
<1>4. CASE \E how : AcEnds(c, how)
    BY <1>0, <1>4, EndsQuietly
<1>5. ASSUME job[c].op \in UserOps, NEW r \in NamedIn(roles, job[c].role),
             AcGoes(c, "users", [looked[c] EXCEPT !.role = r])
      PROVE  QuietMove(c)
    <2>1. r \in RoleIds
        BY <1>2, <1>5 DEF NamedIn
    <2>2. [looked[c] EXCEPT !.role = r] \in Looked
        BY <1>1, <2>1 DEF Looked
    <2>3. ClientOK("users", job[c], [looked[c] EXCEPT !.role = r], users, roles)
        BY <1>1, <1>5 DEF ClientOK
    <2>4. QED
        BY <1>0, <1>5, <2>2, <2>3, GoesQuietly
<1>6. CASE /\ job[c].op = "add_role" /\ ~Taken(c, job[c].name)
           /\ AcGoes(c, "write", looked[c])
    <2>1. NamedIn(roles, job[c].name) = {}
        BY <1>6 DEF Taken, NamesIn, NamedIn
    <2>2. ClientOK("write", job[c], looked[c], users, roles)
        BY <1>1, <1>6, <2>1 DEF ClientOK, RoleLook, FreeBut, UserOps
    <2>3. QED
        BY <1>0, <1>1, <1>6, <2>2, GoesQuietly
<1>7. ASSUME job[c].op \notin UserOps \cup {"add_role"}, NEW r \in NamedIn(roles, job[c].name),
             AcGoes(c, "write", Finds(r))
      PROVE  QuietMove(c)
    <2>1. /\ r \in RoleIds /\ roles[r] \in Role /\ roles[r] # NoOne /\ r # NoOne
          /\ roles[r].name = job[c].name
        BY <1>2, <1>7, AccessAssumption DEF NamedIn, There
    <2>2. /\ Finds(r) \in Looked /\ Finds(r).id = r /\ Finds(r).image = roles[r]
        BY <1>1, <2>1 DEF Looked
    <2> HIDE DEF Finds
    <2>3. RoleLook(job[c], Finds(r), roles)
        BY <1>7, <2>1, <2>2 DEF RoleLook, RoleFound, FoundIn
    <2>4. ClientOK("write", job[c], Finds(r), users, roles)
        BY <1>1, <1>7, <2>3 DEF ClientOK
    <2>5. QED
        BY <1>0, <1>7, <2>2, <2>4, GoesQuietly
<1>8. QED
    BY <1>3, <1>4, <1>5, <1>6, <1>7

\* A call begins with nothing found.
LEMMA CallMoves ==
    ASSUME AccessInv, NEW c \in Clients, AcCall(c)
    PROVE  QuietMove(c)
<1>0. /\ AccessShape /\ looked \in [Clients -> Looked] /\ looked' = looked
      /\ ClientOK(pc[c], job[c], looked[c], users, roles)
    BY DEF AccessInv, AccessTypeOK, AcCall, accessVars
<1>1. PICK j \in AccessJobs, to \in {"users", "roles"} :
         /\ to = "users" => j.op \in UserOps
         /\ Begin(c, j, to)
    <2>1. CASE \E op \in {"set_email", "set_flag", "delete_user", "get_user"}, n \in UserNames :
                  Begin(c, [op |-> op, name |-> n], "users")
        BY <2>1 DEF AccessJobs, UserOps
    <2>2. CASE \E op \in {"set_role", "add_user"}, n \in UserNames, r \in RoleNames :
                  Begin(c, [op |-> op, name |-> n, role |-> r], "roles")
        BY <2>2 DEF AccessJobs
    <2>3. CASE \E op \in {"set_scope", "delete_role"}, n \in RoleNames :
                  Begin(c, [op |-> op, name |-> n], "roles")
        BY <2>3 DEF AccessJobs
    <2>4. CASE \E op \in {"set_perms", "add_role"}, n \in RoleNames, p \in Perms, grant \in BOOLEAN :
                  /\ op = "add_role" => grant
                  /\ Begin(c, [op |-> op, name |-> n, perm |-> p, grant |-> grant], "roles")
        BY <2>4 DEF AccessJobs
    <2>5. CASE \E n, m \in RoleNames :
                  /\ n # m
                  /\ Begin(c, [op |-> "set_name", name |-> n, new |-> m], "roles")
        BY <2>5 DEF AccessJobs
    <2>6. QED
        BY <2>1, <2>2, <2>3, <2>4, <2>5 DEF AcCall
<1>2. /\ pc[c] = "idle" /\ pc' = [pc EXCEPT ![c] = to] /\ job' = [job EXCEPT ![c] = j]
    BY <1>1 DEF Begin
<1>3. ClientOK(to, j, looked[c], users, roles)
    BY <1>0, <1>1, <1>2 DEF ClientOK
<1>4. QED
    BY <1>0, <1>2, <1>3 DEF QuietMove, AccessShape

-----------------------------------------------------------------------------
(* Requests that write.                                                    *)

\* How a write of table t moves the clients.
WriteMove(c, t, new, back, id) ==
    /\ DOMAIN pc' = Clients /\ DOMAIN job' = Clients
    /\ looked' \in [Clients -> Looked]
    /\ \A d \in Clients \ {c} :
          pc'[d] = pc[d] /\ job'[d] = job[d] /\ looked'[d] = AcAware(c, t, new)[d]
    /\ \/ /\ pc'[c] = back /\ back # "none" /\ job'[c] = job[c]
          /\ looked'[c].id = looked[c].id /\ looked'[c].role = id
       \/ pc'[c] = "idle" /\ looked'[c] = NothingLooked

LEMMA WrittenMoves ==
    ASSUME AccessShape, looked \in [Clients -> Looked], NEW c \in Clients,
           NEW t, NEW new, DOMAIN new \subseteq UserIds \cup RoleIds,
           NEW back, NEW id \in RoleIds \cup {NoOne}, AcWritten(c, t, new, back, id)
    PROVE  WriteMove(c, t, new, back, id)
<1> DEFINE aware == AcAware(c, t, new)
<1>1. aware \in [Clients -> Looked]
    BY AwareTyped
<1>2. aware[c] = looked[c]
    BY AwareGrows
<1> HIDE DEF aware
<1>3. CASE /\ Go(c, back) /\ back # "none"
           /\ looked' = [aware EXCEPT ![c].back = TRUE, ![c].role = id]
    <2>1. looked' = [aware EXCEPT ![c] = [aware[c] EXCEPT !.back = TRUE, !.role = id]]
        BY <1>1, <1>3
    <2>2. [aware[c] EXCEPT !.back = TRUE, !.role = id] \in Looked
        BY <1>1 DEF Looked
    <2>3. looked' \in [Clients -> Looked] /\ looked'[c] = [aware[c] EXCEPT !.back = TRUE, !.role = id]
          /\ \A d \in Clients \ {c} : looked'[d] = aware[d]
        BY <1>1, <2>1, <2>2
    <2>4. looked'[c].id = looked[c].id /\ looked'[c].role = id
        BY <1>1, <1>2, <2>3 DEF Looked
    <2>5. QED
        BY <1>3, <2>3, <2>4 DEF Go, AccessShape, aware, WriteMove
<1>4. CASE \E how : End(c, how) /\ looked' = [aware EXCEPT ![c] = NothingLooked]
    BY <1>1, <1>4, NothingIsLooked DEF End, AccessShape, aware, WriteMove
<1>5. QED
    BY <1>3, <1>4 DEF AcWritten, aware

\* An update of a user keeps its name, and changes what the call is about but
\* for what the request leaves to its defaults.
LEMMA UserSentIs ==
    ASSUME NEW c \in Clients, looked[c].image \in User,
           job[c].op \in {"set_email", "set_flag", "set_role"},
           UserSent(c).role \in RoleIds
    PROVE  /\ UserSent(c) \in User
           /\ UserSent(c).name = looked[c].image.name
           /\ \A p \in DOMAIN looked[c].image : UserSent(c)[p] # looked[c].image[p] =>
                 p \in AccessMeant(job[c]) \cup {"rest"}
<1> DEFINE image == looked[c].image
           sent == [image EXCEPT !.rest = "reset"]
<1>1. /\ sent \in User
      /\ \A p \in DOMAIN image : sent[p] # image[p] => p = "rest"
      /\ sent.name = image.name
    BY DEF User
<1>2. DOMAIN sent = DOMAIN image
    OBVIOUS
<1>3. UserSent(c) = CASE job[c].op = "set_email" -> [sent EXCEPT !.email = "new"]
                      [] job[c].op = "set_flag"  -> [sent EXCEPT !.flag = "new"]
                      [] job[c].op = "set_role"  -> [sent EXCEPT !.role = looked[c].role]
    BY DEF UserSent
<1> HIDE DEF sent, image
<1>4. CASE job[c].op = "set_email"
    BY <1>1, <1>2, <1>3, <1>4 DEF User, AccessMeant, image
<1>5. CASE job[c].op = "set_flag"
    BY <1>1, <1>2, <1>3, <1>5 DEF User, AccessMeant, image
<1>6. CASE job[c].op = "set_role"
    BY <1>1, <1>2, <1>3, <1>6 DEF User, AccessMeant, image
<1>7. QED
    BY <1>4, <1>5, <1>6

\* An update of a role changes what the call is about.
LEMMA RoleSentIs ==
    ASSUME NEW c \in Clients, looked[c].image \in Role, job[c] \in AccessJobs,
           job[c].op \in {"set_name", "set_scope", "set_perms"}
    PROVE  /\ RoleSent(c) \in Role
           /\ \A p \in DOMAIN looked[c].image : RoleSent(c)[p] # looked[c].image[p] =>
                 p \in AccessMeant(job[c])
           /\ job[c].op = "set_perms" =>
                 \A p \in Perms \ {job[c].perm} :
                    (p \in RoleSent(c).perms) = (p \in looked[c].image.perms)
<1> DEFINE image == looked[c].image
<1>1. RoleSent(c) = CASE job[c].op = "set_name"  -> [image EXCEPT !.name = job[c].new]
                      [] job[c].op = "set_scope" -> [image EXCEPT !.scope = "new"]
                      [] job[c].op = "set_perms" ->
                           [image EXCEPT !.perms = IF job[c].grant THEN @ \cup {job[c].perm}
                                                                   ELSE @ \ {job[c].perm}]
    BY DEF RoleSent
<1>2. image \in Role
    OBVIOUS
<1> HIDE DEF image
<1>3. CASE job[c].op = "set_name"
    BY <1>1, <1>2, <1>3, JobTyped DEF Role, AccessMeant, image
<1>4. CASE job[c].op = "set_scope"
    BY <1>1, <1>2, <1>4 DEF Role, AccessMeant, image
<1>5. CASE job[c].op = "set_perms"
    <2> DEFINE perms == IF job[c].grant THEN image.perms \cup {job[c].perm}
                                        ELSE image.perms \ {job[c].perm}
    <2>1. perms \in SUBSET Perms
        BY <1>2, <1>5, JobTyped DEF Role
    <2>2. RoleSent(c) = [image EXCEPT !.perms = perms]
        BY <1>1, <1>5
    <2>3. \A p \in Perms \ {job[c].perm} : (p \in perms) = (p \in image.perms)
        OBVIOUS
    <2> HIDE DEF perms
    <2>4. QED
        BY <1>2, <1>5, <2>1, <2>2, <2>3 DEF Role, AccessMeant, image
<1>6. QED
    BY <1>3, <1>4, <1>5

\* What a write to the users does.
UsersWritten(c) ==
    /\ roles' = roles /\ cached' = cached
    /\ job[c].op \in UserOps /\ pc[c] = "write"
    /\ users' \in [UserIds -> User \cup {NoOne, GoneOne}]
    /\ WrittenBy(c, users, users', {"rest"})
    /\ \A u \in There(users') : users'[u].role \in There(roles)
    /\ \A u \in There(users') :
          \/ u \in There(users) /\ users'[u].name = users[u].name
          \/ u \notin There(users) /\ job[c].op = "add_user" /\ users'[u].name = job[c].name
    /\ looked[c].id # NoOne /\ users' # users => users[looked[c].id].name = job[c].name
    /\ \E back \in {"users", "none"}, id \in RoleIds \cup {NoOne} :
          AcWritten(c, users, users', back, id)

LEMMA WritesUser ==
    ASSUME AccessInv, NEW c \in Clients, AcWriteUser(c)
    PROVE  UsersWritten(c)
<1> DEFINE i == looked[c].id
<1>0. /\ users \in [UserIds -> User \cup {NoOne, GoneOne}]
      /\ roles \in [RoleIds -> Role \cup {NoOne, GoneOne}]
      /\ looked[c] \in Looked /\ pc[c] = "write" /\ job[c].op \in UserOps
      /\ ClientOK(pc[c], job[c], looked[c], users, roles)
      /\ roles' = roles /\ cached' = cached
    BY DEF AccessInv, AccessTypeOK, AcWriteUser
<1>1. /\ job[c] \in AccessJobs /\ UserLook("write", job[c], looked[c], users)
      /\ looked[c].role \in RoleIds \cup {NoOne}
    BY <1>0 DEF ClientOK, Looked
<1>2. /\ There(users) \subseteq UserIds /\ There(roles) \subseteq RoleIds
      /\ \A u \in There(users) : users[u] \in User
      /\ \A u \in UserIds : users[u] \in User => u \in There(users)
      /\ \A r \in RoleIds : roles[r] \in Role => r \in There(roles)
      /\ NoOne \notin There(users)
    BY <1>0, ThereTyped
<1>3. \A u \in There(users) : users[u].role \in There(roles)
    BY <1>2 DEF AccessInv, AccessTypeOK, User
<1>4. \A v \in User : v # NoOne /\ v # GoneOne
    BY FirstAccessAssumption
<1>5. CASE /\ job[c].op = "add_user" /\ looked[c].role \in There(roles)
           /\ \E u \in {v \in UserIds : users[v] = NoOne} : users' = [users EXCEPT ![u] = UserMade(c)]
           /\ AcWritten(c, users, users', "users", looked[c].role)
    <2>1. PICK u \in UserIds : users[u] = NoOne /\ users' = [users EXCEPT ![u] = UserMade(c)]
        BY <1>5
    <2>2. UserMade(c) \in User /\ UserMade(c).name = job[c].name
          /\ UserMade(c).role = looked[c].role
        BY <1>0, <1>1, <1>2, <1>5, JobTyped DEF UserMade, User
    <2>3. i = NoOne
        BY <1>1, <1>5 DEF UserLook
    <2>4. /\ users' \in [UserIds -> User \cup {NoOne, GoneOne}]
          /\ users'[u] = UserMade(c) /\ \A v \in UserIds \ {u} : users'[v] = users[v]
        BY <1>0, <2>1, <2>2
    <2>5. There(users') = There(users) \cup {u} /\ u \notin There(users)
        BY <1>0, <1>4, <2>1, <2>2, <2>4 DEF There
    <2>6. WrittenBy(c, users, users', {"rest"})
        BY <1>0, <2>1, <2>4 DEF WrittenBy
    <2>7. QED
        BY <1>0, <1>1, <1>2, <1>3, <1>5, <2>2, <2>3, <2>4, <2>5, <2>6 DEF UsersWritten
<1>6. CASE /\ job[c].op \in {"set_email", "set_flag", "set_role"}
           /\ i \in There(users) /\ UserSent(c).role \in There(roles)
           /\ users' = [users EXCEPT ![i] = UserSent(c)]
           /\ AcWritten(c, users, users', "users", looked[c].role)
    <2>1. /\ looked[c].image \in User /\ i \in UserIds
          /\ looked[c].image.name = job[c].name /\ users[i].name = job[c].name
          /\ \A p \in DOMAIN looked[c].image \ looked[c].stale : users[i][p] = looked[c].image[p]
        BY <1>1, <1>2, <1>6 DEF UserLook, UserFound, FoundIn
    <2>2. /\ UserSent(c) \in User /\ UserSent(c).name = job[c].name
          /\ \A p \in DOMAIN looked[c].image : UserSent(c)[p] # looked[c].image[p] =>
                p \in AccessMeant(job[c]) \cup {"rest"}
        BY <1>2, <1>6, <2>1, UserSentIs
    <2>3. /\ users' \in [UserIds -> User \cup {NoOne, GoneOne}]
          /\ users'[i] = UserSent(c) /\ \A v \in UserIds \ {i} : users'[v] = users[v]
        BY <1>0, <1>6, <2>1, <2>2
    <2>4. There(users') = There(users)
        BY <1>0, <1>4, <1>6, <2>2, <2>3 DEF There
    <2>5. DOMAIN users[i] = DOMAIN looked[c].image
        BY <1>2, <1>6, <2>1 DEF User
    <2>6. WrittenBy(c, users, users', {"rest"})
        BY <1>0, <1>6, <2>1, <2>2, <2>3, <2>4, <2>5 DEF WrittenBy
    <2>7. QED
        BY <1>0, <1>1, <1>2, <1>3, <1>6, <2>1, <2>2, <2>3, <2>4, <2>6 DEF UsersWritten
<1>7. CASE /\ job[c].op = "delete_user" /\ i \in There(users)
           /\ users' = [users EXCEPT ![i] = GoneOne]
           /\ AcWritten(c, users, users', "none", NoOne)
    <2>1. i \in UserIds /\ users[i].name = job[c].name
        BY <1>1, <1>2, <1>7 DEF UserLook, UserFound
    <2>2. /\ users' \in [UserIds -> User \cup {NoOne, GoneOne}]
          /\ users'[i] = GoneOne /\ \A v \in UserIds \ {i} : users'[v] = users[v]
        BY <1>0, <1>7, <2>1
    <2>3. There(users') = There(users) \ {i}
        BY <1>0, <2>1, <2>2 DEF There
    <2>4. WrittenBy(c, users, users', {"rest"})
        BY <1>0, <1>7, <2>2 DEF WrittenBy
    <2>5. QED
        BY <1>0, <1>2, <1>3, <1>7, <2>1, <2>2, <2>3, <2>4 DEF UsersWritten
<1>8. QED
    BY <1>5, <1>6, <1>7 DEF AcWriteUser

\* What a write to the roles does.
RolesWritten(c) ==
    /\ users' = users /\ cached' = cached
    /\ job[c].op \notin UserOps /\ pc[c] = "write"
    /\ roles' \in [RoleIds -> Role \cup {NoOne, GoneOne}]
    /\ WrittenBy(c, roles, roles', {})
    /\ \A u \in There(users) : users[u].role \in There(roles')
    /\ \A r \in There(roles') : r \notin There(roles) =>
          job[c].op = "add_role" /\ roles'[r].name = job[c].name
    /\ looked[c].id # NoOne /\ roles' # roles =>
          roles[looked[c].id].name = job[c].name \/ "name" \in looked[c].stale
    /\ job[c].op = "set_perms" /\ roles' # roles =>
          \A p \in Perms \ {job[c].perm} :
             (p \in roles'[looked[c].id].perms) # (p \in roles[looked[c].id].perms) =>
                "perms" \in looked[c].stale
    /\ \/ /\ users' = users /\ roles' = roles /\ job[c].op = "add_role"
          /\ AcGoes(c, "back", [looked[c] EXCEPT !.back = TRUE])
       \/ \E back \in {"back", "none"}, id \in RoleIds \cup {NoOne} :
             /\ AcWritten(c, roles, roles', back, id)
             /\ job[c].op = "add_role" => id # NoOne

LEMMA WritesRole ==
    ASSUME AccessInv, NEW c \in Clients, AcWriteRole(c)
    PROVE  RolesWritten(c)
<1> DEFINE i == looked[c].id
<1>0. /\ users \in [UserIds -> User \cup {NoOne, GoneOne}]
      /\ roles \in [RoleIds -> Role \cup {NoOne, GoneOne}]
      /\ looked[c] \in Looked /\ pc[c] = "write" /\ job[c].op \notin UserOps
      /\ ClientOK(pc[c], job[c], looked[c], users, roles)
      /\ users' = users /\ cached' = cached
    BY DEF AccessInv, AccessTypeOK, AcWriteRole
<1>1. job[c] \in AccessJobs /\ RoleLook(job[c], looked[c], roles)
    BY <1>0 DEF ClientOK
<1>2. /\ There(users) \subseteq UserIds /\ There(roles) \subseteq RoleIds
      /\ \A u \in There(users) : users[u] \in User
      /\ \A r \in There(roles) : roles[r] \in Role
      /\ \A r \in RoleIds : roles[r] \in Role => r \in There(roles)
      /\ NoOne \notin There(roles)
    BY <1>0, ThereTyped
<1>3. \A u \in There(users) : users[u].role \in There(roles)
    BY <1>2 DEF AccessInv, AccessTypeOK, User
<1>4. \A v \in Role : v # NoOne /\ v # GoneOne
    BY FirstAccessAssumption
<1>5. CASE /\ job[c].op = "add_role"
           /\ \E r \in {s \in RoleIds : roles[s] = NoOne} :
                 /\ roles' = [roles EXCEPT ![r] = RoleMade(c)]
                 /\ AcWritten(c, roles, roles', "back", r)
    <2>1. PICK r \in RoleIds : /\ roles[r] = NoOne /\ roles' = [roles EXCEPT ![r] = RoleMade(c)]
                               /\ AcWritten(c, roles, roles', "back", r)
        BY <1>5
    <2>2. RoleMade(c) \in Role /\ RoleMade(c).name = job[c].name
        BY <1>0, <1>1, <1>5, JobTyped DEF RoleMade, Role
    <2>3. i = NoOne /\ r # NoOne
        BY <1>1, <1>5, AccessAssumption DEF RoleLook
    <2>4. /\ roles' \in [RoleIds -> Role \cup {NoOne, GoneOne}]
          /\ roles'[r] = RoleMade(c) /\ \A v \in RoleIds \ {r} : roles'[v] = roles[v]
        BY <1>0, <2>1, <2>2
    <2>5. There(roles') = There(roles) \cup {r} /\ r \notin There(roles)
        BY <1>0, <1>4, <2>1, <2>2, <2>4 DEF There
    <2>6. WrittenBy(c, roles, roles', {})
        BY <1>0, <2>1, <2>4 DEF WrittenBy
    <2>7. QED
        BY <1>0, <1>3, <1>5, <2>1, <2>2, <2>3, <2>4, <2>5, <2>6 DEF RolesWritten
<1>6. CASE /\ job[c].op = "add_role" /\ UNCHANGED roles
           /\ AcGoes(c, "back", [looked[c] EXCEPT !.back = TRUE])
    <2>1. WrittenBy(c, roles, roles', {})
        BY <1>6 DEF WrittenBy
    <2>2. QED
        BY <1>0, <1>3, <1>6, <2>1 DEF RolesWritten
<1>7. CASE /\ job[c].op \in {"set_name", "set_scope", "set_perms"}
           /\ i \in There(roles)
           /\ roles' = [roles EXCEPT ![i] = RoleSent(c)]
           /\ AcWritten(c, roles, roles', "back", NoOne)
    <2>1. /\ looked[c].image \in Role /\ i \in RoleIds
          /\ looked[c].image.name = job[c].name
          /\ \A p \in DOMAIN looked[c].image \ looked[c].stale : roles[i][p] = looked[c].image[p]
        BY <1>1, <1>2, <1>7 DEF RoleLook, RoleFound, FoundIn
    <2>2. /\ RoleSent(c) \in Role
          /\ \A p \in DOMAIN looked[c].image : RoleSent(c)[p] # looked[c].image[p] =>
                p \in AccessMeant(job[c])
          /\ job[c].op = "set_perms" =>
                \A p \in Perms \ {job[c].perm} :
                   (p \in RoleSent(c).perms) = (p \in looked[c].image.perms)
        BY <1>1, <1>7, <2>1, RoleSentIs
    <2>3. /\ roles' \in [RoleIds -> Role \cup {NoOne, GoneOne}]
          /\ roles'[i] = RoleSent(c) /\ \A v \in RoleIds \ {i} : roles'[v] = roles[v]
        BY <1>0, <1>7, <2>1, <2>2
    <2>4. There(roles') = There(roles)
        BY <1>0, <1>4, <1>7, <2>2, <2>3 DEF There
    <2>5. DOMAIN roles[i] = DOMAIN looked[c].image /\ {"name", "perms"} \subseteq DOMAIN looked[c].image
        BY <1>2, <1>7, <2>1 DEF Role
    <2>6. WrittenBy(c, roles, roles', {})
        BY <1>0, <1>7, <2>1, <2>2, <2>3, <2>4, <2>5 DEF WrittenBy
    <2>7. roles[i].name = job[c].name \/ "name" \in looked[c].stale
        BY <2>1, <2>5
    <2>8. roles[i].perms = looked[c].image.perms \/ "perms" \in looked[c].stale
        BY <2>1, <2>5
    <2>9. QED
        BY <1>0, <1>3, <1>7, <2>2, <2>3, <2>4, <2>6, <2>7, <2>8 DEF RolesWritten
<1>8. CASE /\ job[c].op = "delete_role" /\ i \in There(roles)
           /\ \A u \in There(users) : users[u].role # i
           /\ roles' = [roles EXCEPT ![i] = GoneOne]
           /\ AcWritten(c, roles, roles', "none", NoOne)
    <2>1. /\ i \in RoleIds /\ looked[c].image.name = job[c].name /\ looked[c].image \in Role
          /\ \A p \in DOMAIN looked[c].image \ looked[c].stale : roles[i][p] = looked[c].image[p]
        BY <1>1, <1>2, <1>8 DEF RoleLook, RoleFound, FoundIn
    <2>2. /\ roles' \in [RoleIds -> Role \cup {NoOne, GoneOne}]
          /\ roles'[i] = GoneOne /\ \A v \in RoleIds \ {i} : roles'[v] = roles[v]
        BY <1>0, <1>8, <2>1
    <2>3. There(roles') = There(roles) \ {i}
        BY <1>0, <2>1, <2>2 DEF There
    <2>4. WrittenBy(c, roles, roles', {})
        BY <1>0, <1>8, <2>2 DEF WrittenBy
    <2>5. roles[i].name = job[c].name \/ "name" \in looked[c].stale
        BY <2>1 DEF Role
    <2>6. QED
        BY <1>0, <1>3, <1>8, <2>2, <2>3, <2>4, <2>5 DEF RolesWritten
<1>9. QED
    BY <1>5, <1>6, <1>7, <1>8 DEF AcWriteRole

\* A write to the users leaves what the other clients know true.
LEMMA OthersOfUsers ==
    ASSUME AccessInv, NEW c \in Clients, UsersWritten(c), NEW d \in Clients \ {c}
    PROVE  ClientOK(pc[d], job[d], AcAware(c, users, users')[d], users', roles)
<1> DEFINE l == looked[d]
           m == AcAware(c, users, users')[d]
           n == job[d].name
<1>0. /\ users \in [UserIds -> User \cup {NoOne, GoneOne}]
      /\ users' \in [UserIds -> User \cup {NoOne, GoneOne}]
      /\ roles \in [RoleIds -> Role \cup {NoOne, GoneOne}]
      /\ looked \in [Clients -> Looked]
      /\ ClientOK(pc[d], job[d], l, users, roles)
      /\ WrittenBy(c, users, users', {"rest"})
    BY DEF AccessInv, AccessTypeOK, UsersWritten
<1>1. Grown(l, m)
    BY <1>0, AwareGrows
<1>2. /\ There(users) \subseteq UserIds /\ There(users') \subseteq UserIds
      /\ \A u \in There(users) : users[u] \in User
    BY <1>0, ThereTyped
<1>3. pc[d] = "idle" => ClientOK(pc[d], job[d], m, users', roles)
    BY <1>0, <1>1 DEF ClientOK, Grown
<1>4. ASSUME pc[d] # "idle", UserLook(pc[d], job[d], l, users)
      PROVE  UserLook(pc[d], job[d], m, users')
    <2>1. CASE l.id = NoOne
        <3>1. FreeBut(users, l, n) => FreeBut(users', m, n)
            BY <1>0, <1>4, FreeStays
        <3>2. QED
            BY <1>1, <1>4, <2>1, <3>1 DEF UserLook, Grown
    <2>2. CASE l.id # NoOne
        <3>1. UserFound(users, l, n)
            BY <1>4, <2>2 DEF UserLook
        <3>2. l.id \in There(users) => DOMAIN users[l.id] = DOMAIN l.image
            BY <1>2, <3>1 DEF UserFound, User
        <3>3. FoundIn(users', m, n)
            <4>1. {"rest"} \in SUBSET AccessParts
                BY DEF AccessParts
            <4>2. DOMAIN users' = DOMAIN users /\ l.id \in DOMAIN users
                BY <1>0, <3>1 DEF UserFound
            <4>3. FoundIn(users, l, n)
                BY <3>1 DEF UserFound
            <4>4. QED
                BY <1>0, <1>4, <3>2, <4>1, <4>2, <4>3, FoundStays
        <3>4. ASSUME l.id \in There(users') PROVE users'[l.id].name = n
            <4>1. l.id \in There(users)
                BY <1>0, <1>2, <3>1, <3>4 DEF WrittenBy, UserFound, FoundIn, There
            <4>2. QED
                BY <3>1, <3>4, <4>1 DEF UsersWritten, UserFound
        <3>5. UserFound(users', m, n)
            BY <1>1, <3>1, <3>3, <3>4 DEF UserFound, Grown
        <3>6. QED
            BY <1>1, <1>4, <2>2, <3>5 DEF UserLook, Grown
    <2>3. QED
        BY <2>1, <2>2
<1>5. RoleLook(job[d], l, roles) => RoleLook(job[d], m, roles)
    BY <1>1, GrownFound DEF RoleLook, RoleFound, Grown
<1>6. FreeBut(roles, l, n) => FreeBut(roles, m, n)
    BY <1>1, GrownFound
<1>7. m.id = l.id /\ m.role = l.role
    BY <1>1 DEF Grown
<1> HIDE DEF m, l, n
<1>8. pc[d] # "idle" => ClientOK(pc[d], job[d], m, users', roles)
    BY <1>0, <1>4, <1>5, <1>6, <1>7 DEF ClientOK, n
<1>9. QED
    BY <1>3, <1>8 DEF m

\* So does a write to the roles.
LEMMA OthersOfRoles ==
    ASSUME AccessInv, NEW c \in Clients, RolesWritten(c), NEW d \in Clients \ {c}
    PROVE  ClientOK(pc[d], job[d], AcAware(c, roles, roles')[d], users, roles')
<1> DEFINE l == looked[d]
           m == AcAware(c, roles, roles')[d]
           n == job[d].name
<1>0. /\ roles \in [RoleIds -> Role \cup {NoOne, GoneOne}]
      /\ roles' \in [RoleIds -> Role \cup {NoOne, GoneOne}]
      /\ users \in [UserIds -> User \cup {NoOne, GoneOne}]
      /\ looked \in [Clients -> Looked]
      /\ ClientOK(pc[d], job[d], l, users, roles)
      /\ WrittenBy(c, roles, roles', {})
    BY DEF AccessInv, AccessTypeOK, RolesWritten
<1>1. Grown(l, m)
    BY <1>0, AwareGrows
<1>2. \A r \in There(roles) : roles[r] \in Role
    BY <1>0, ThereTyped
<1>3. pc[d] = "idle" => ClientOK(pc[d], job[d], m, users, roles')
    BY <1>0, <1>1 DEF ClientOK, Grown
<1>4. ASSUME pc[d] # "idle", RoleLook(job[d], l, roles)
      PROVE  RoleLook(job[d], m, roles')
    <2>1. CASE l.id = NoOne
        BY <1>1, <2>1 DEF RoleLook, Grown
    <2>2. CASE l.id # NoOne
        <3>1. RoleFound(roles, l, n)
            BY <1>4, <2>2 DEF RoleLook
        <3>2. l.id \in There(roles) => DOMAIN roles[l.id] = DOMAIN l.image
            BY <1>2, <3>1 DEF RoleFound, Role
        <3>3. /\ DOMAIN roles' = DOMAIN roles /\ l.id \in DOMAIN roles
              /\ {} \in SUBSET AccessParts /\ FoundIn(roles, l, n)
            BY <1>0, <3>1 DEF RoleFound
        <3>4. FoundIn(roles', m, n)
            BY <1>0, <1>4, <3>2, <3>3, FoundStays
        <3>5. QED
            BY <1>1, <1>4, <2>2, <3>1, <3>4 DEF RoleLook, RoleFound, Grown
    <2>3. QED
        BY <2>1, <2>2
<1>5. UserLook(pc[d], job[d], l, users) => UserLook(pc[d], job[d], m, users)
    BY <1>1, GrownFound DEF UserLook, UserFound, Grown
<1>6. pc[d] # "idle" /\ FreeBut(roles, l, n) => FreeBut(roles', m, n)
    BY <1>0, FreeStays
<1>7. m.id = l.id /\ m.role = l.role
    BY <1>1 DEF Grown
<1> HIDE DEF m, l, n
<1>8. pc[d] # "idle" => ClientOK(pc[d], job[d], m, users, roles')
    BY <1>0, <1>4, <1>5, <1>6, <1>7 DEF ClientOK, n
<1>9. QED
    BY <1>3, <1>8 DEF m

-----------------------------------------------------------------------------
LEMMA AccessInitInv == ClientInit /\ AccessInit => AccessInv
<1> SUFFICES ASSUME ClientInit, AccessInit PROVE AccessInv
    OBVIOUS
<1>1. /\ users \in [UserIds -> User \cup {NoOne, GoneOne}]
      /\ roles \in [RoleIds -> Role \cup {NoOne, GoneOne}]
    BY AccessAssumption, FirstAccessAssumption DEF AccessInit
<1>2. \A u \in UserIds : users[u] \in User => roles[users[u].role] \in Role
    BY AccessAssumption, FirstAccessAssumption DEF AccessInit
<1>3. cached \in [Clients -> (SUBSET RoleNames) \cup {NotCached}]
    <2>1. NamesIn(roles) \in SUBSET RoleNames
        BY <1>1, ThereTyped
    <2>2. cached \in [Clients -> {NotCached, NamesIn(roles)}]
        BY DEF AccessInit
    <2>3. QED
        BY <2>1, <2>2
<1>4. looked \in [Clients -> Looked]
    BY NothingIsLooked DEF AccessInit
<1>5. \A c \in Clients : ClientOK(pc[c], job[c], looked[c], users, roles)
    BY IdleOK DEF ClientInit, AccessInit
<1>6. QED
    BY <1>1, <1>2, <1>3, <1>4, <1>5 DEF AccessInv, AccessTypeOK, AccessShape, ClientInit

\* Every step keeps what the calls know true.
LEMMA AccessInvNext ==
    ASSUME AccessInv, [AccessNext]_<<accessVars, clientVars>>
    PROVE  AccessInv'
<1>0. /\ AccessShape /\ looked \in [Clients -> Looked]
      /\ cached \in [Clients -> (SUBSET RoleNames) \cup {NotCached}]
      /\ users \in [UserIds -> User \cup {NoOne, GoneOne}]
      /\ roles \in [RoleIds -> Role \cup {NoOne, GoneOne}]
      /\ NamesIn(roles) \subseteq RoleNames
    BY ThereTyped DEF AccessInv, AccessTypeOK
<1>1. ASSUME NEW c \in Clients, AcCall(c) PROVE AccessInv'
    BY <1>0, <1>1, CallMoves, QuietStep DEF AcCall, accessVars
<1>2. ASSUME NEW c \in Clients, AcExpires(c) PROVE AccessInv'
    <2>1. /\ cached' \in [Clients -> (SUBSET RoleNames) \cup {NotCached}]
          /\ pc' = pc /\ job' = job /\ looked' = looked /\ users' = users /\ roles' = roles
        BY <1>0, <1>2 DEF AcExpires
    <2>2. AccessTypeOK' /\ AccessShape'
        BY <2>1 DEF AccessInv, AccessTypeOK, AccessShape
    <2>3. \A d \in Clients : ClientOK(pc'[d], job'[d], looked'[d], users', roles')
        BY <2>1 DEF AccessInv
    <2>4. QED
        BY <2>2, <2>3 DEF AccessInv
<1>3. ASSUME NEW c \in Clients, AcUsers(c) PROVE AccessInv'
    BY <1>0, <1>3, UsersMoves, QuietStep DEF AcUsers
<1>4. ASSUME NEW c \in Clients, AcKeep(c) PROVE AccessInv'
    <2>1. /\ looked[c] \in Looked /\ job[c] \in AccessJobs /\ job[c].op \in UserOps
          /\ UserLook("kept", job[c], looked[c], users)
        BY <1>0, <1>4 DEF AcKeep, AccessInv, ClientOK
    <2>2. QuietMove(c)
        BY <1>4, <2>1, ListedMoves DEF AcKeep
    <2>3. cached' \in [Clients -> (SUBSET RoleNames) \cup {NotCached}]
        BY <1>0, <1>4 DEF AcKeep
    <2>4. QED
        BY <1>4, <2>2, <2>3, QuietStep DEF AcKeep
<1>5. ASSUME NEW c \in Clients, AcRoles(c) PROVE AccessInv'
    BY <1>0, <1>5, RolesMoves, QuietStep DEF AcRoles
<1>6. ASSUME NEW c \in Clients, AcRoleBack(c) PROVE AccessInv'
    BY <1>0, <1>6, EndsQuietly, QuietStep DEF AcRoleBack
<1>7. ASSUME NEW c \in Clients, AcFail(c) PROVE AccessInv'
    BY <1>0, <1>7, EndsQuietly, QuietStep DEF AcFail
<1>8. ASSUME NEW c \in Clients, AcWriteUser(c) PROVE AccessInv'
    <2>1. UsersWritten(c)
        BY <1>8, WritesUser
    <2>2. PICK back \in {"users", "none"}, id \in RoleIds \cup {NoOne} :
             AcWritten(c, users, users', back, id)
        BY <2>1 DEF UsersWritten
    <2>3. DOMAIN users' \subseteq UserIds \cup RoleIds
        BY <2>1 DEF UsersWritten
    <2>4. WriteMove(c, users, users', back, id)
        BY <1>0, <2>2, <2>3, WrittenMoves
    <2>5. roles' = roles /\ cached' = cached
        BY <2>1 DEF UsersWritten
    <2>6. ClientOK(pc'[c], job'[c], looked'[c], users', roles')
        <3>1. CASE pc'[c] = "idle" /\ looked'[c] = NothingLooked
            BY <3>1, IdleOK
        <3>2. CASE /\ pc'[c] = back /\ back # "none" /\ job'[c] = job[c]
                   /\ looked'[c].id = looked[c].id /\ looked'[c].role = id
            <4>1. job[c] \in AccessJobs /\ job[c].op \in UserOps
                BY <2>1 DEF UsersWritten, AccessInv, ClientOK
            <4>2. QED
                BY <2>2, <3>2, <4>1 DEF ClientOK
        <3>3. QED
            BY <2>4, <3>1, <3>2 DEF WriteMove
    <2>7. \A d \in Clients \ {c} : ClientOK(pc'[d], job'[d], looked'[d], users', roles')
        BY <2>1, <2>4, <2>5, OthersOfUsers DEF WriteMove
    <2>8. AccessTypeOK'
        <3>1. users' \in [UserIds -> User \cup {NoOne, GoneOne}]
            BY <2>1 DEF UsersWritten
        <3>2. \A u \in UserIds : users'[u] \in User => roles'[users'[u].role] \in Role
            BY <1>0, <2>1, <2>5, <3>1, ThereTyped DEF UsersWritten
        <3>3. QED
            BY <1>0, <2>4, <2>5, <3>1, <3>2 DEF AccessTypeOK, WriteMove
    <2>9. QED
        BY <2>4, <2>6, <2>7, <2>8 DEF AccessInv, AccessShape, WriteMove
<1>9. ASSUME NEW c \in Clients, AcWriteRole(c) PROVE AccessInv'
    <2>1. RolesWritten(c)
        BY <1>9, WritesRole
    <2>2. /\ users' = users /\ cached' = cached /\ job[c].op \notin UserOps
          /\ roles' \in [RoleIds -> Role \cup {NoOne, GoneOne}] /\ pc[c] = "write"
          /\ job[c] \in AccessJobs
        BY <2>1 DEF RolesWritten, AccessInv, ClientOK
    <2>3. CASE /\ roles' = roles /\ job[c].op = "add_role"
               /\ AcGoes(c, "back", [looked[c] EXCEPT !.back = TRUE])
        <3>1. [looked[c] EXCEPT !.back = TRUE] \in Looked
            BY <1>0 DEF Looked
        <3>2. FreeBut(roles, looked[c], job[c].name)
            BY <2>2, <2>3 DEF AccessInv, ClientOK
        <3>3. [looked[c] EXCEPT !.back = TRUE].since = looked[c].since
            BY <1>0 DEF Looked
        <3>4. FreeBut(roles, [looked[c] EXCEPT !.back = TRUE], job[c].name)
            BY <3>2, <3>3 DEF FreeBut
        <3>5. ClientOK("back", job[c], [looked[c] EXCEPT !.back = TRUE], users, roles)
            BY <2>2, <3>4 DEF ClientOK
        <3>6. QuietMove(c)
            BY <1>0, <2>3, <3>1, <3>5, GoesQuietly
        <3>7. QED
            BY <1>0, <2>2, <2>3, <3>6, QuietStep
    <2>4. ASSUME NEW back \in {"back", "none"}, NEW id \in RoleIds \cup {NoOne},
                 AcWritten(c, roles, roles', back, id),
                 job[c].op = "add_role" => id # NoOne
          PROVE  AccessInv'
        <3>1. DOMAIN roles' \subseteq UserIds \cup RoleIds
            BY <2>2
        <3>2. WriteMove(c, roles, roles', back, id)
            BY <1>0, <2>4, <3>1, WrittenMoves
        <3>3. ClientOK(pc'[c], job'[c], looked'[c], users', roles')
            <4>1. CASE pc'[c] = "idle" /\ looked'[c] = NothingLooked
                BY <4>1, IdleOK
            <4>2. CASE /\ pc'[c] = back /\ back # "none" /\ job'[c] = job[c]
                       /\ looked'[c].id = looked[c].id /\ looked'[c].role = id
                BY <2>2, <2>4, <4>2 DEF ClientOK
            <4>3. QED
                BY <3>2, <4>1, <4>2 DEF WriteMove
        <3>4. \A d \in Clients \ {c} : ClientOK(pc'[d], job'[d], looked'[d], users', roles')
            BY <2>1, <2>2, <3>2, OthersOfRoles DEF WriteMove
        <3>5. AccessTypeOK'
            <4>1. \A u \in UserIds : users[u] \in User => roles'[users[u].role] \in Role
                BY <1>0, <2>1, <2>2, ThereTyped DEF RolesWritten
            <4>2. QED
                BY <1>0, <2>2, <3>2, <4>1 DEF AccessTypeOK, WriteMove
        <3>6. QED
            BY <3>2, <3>3, <3>4, <3>5 DEF AccessInv, AccessShape, WriteMove
    <2>5. QED
        BY <2>1, <2>3, <2>4 DEF RolesWritten
<1>10. CASE UNCHANGED <<accessVars, clientVars>>
    BY <1>10 DEF accessVars, clientVars, AccessInv, AccessTypeOK, AccessShape
<1>11. QED
    BY <1>1, <1>2, <1>3, <1>4, <1>5, <1>6, <1>7, <1>8, <1>9, <1>10 DEF AccessNext

LEMMA AccessInvariance == AccessSpec => []AccessInv
<1>1. ClientInit /\ AccessInit => AccessInv
    BY AccessInitInv
<1>2. AccessInv /\ [AccessNext]_<<accessVars, clientVars>> => AccessInv'
    BY AccessInvNext
<1>3. QED
    BY <1>1, <1>2, PTL DEF AccessSpec

\* Users and roles keep their type, and every user has a role there is: roles in
\* use are not deleted, nor given to a user once they are gone.
THEOREM AccessTypeCorrect == AccessSpec => []AccessTypeOK
<1>1. AccessInv => AccessTypeOK
    BY DEF AccessInv
<1>2. QED
    BY <1>1, AccessInvariance, PTL

-----------------------------------------------------------------------------
(* What a step writes.                                                     *)

\* A client that leaves a request has made that step itself.
LEMMA AccessLeaves ==
    ASSUME AccessInv, [AccessNext]_<<accessVars, clientVars>>,
           NEW c \in Clients, NEW at \in {"write", "back"}, Leaves(c, at)
    PROVE  \/ AcFail(c)
           \/ at = "write" /\ (AcWriteUser(c) \/ AcWriteRole(c))
           \/ at = "back" /\ AcRoleBack(c)
<1>0. pc[c] = at /\ pc'[c] # pc[c]
    BY DEF Leaves
<1>1. ~UNCHANGED <<accessVars, clientVars>>
    BY <1>0 DEF clientVars
<1>2. PICK d \in Clients : \/ AcCall(d) \/ AcExpires(d)
                           \/ AcUsers(d) \/ AcKeep(d) \/ AcRoles(d) \/ AcRoleBack(d)
                           \/ AcWriteUser(d) \/ AcWriteRole(d) \/ AcFail(d)
    BY <1>1 DEF AccessNext
<1>3. \A to, look : AcGoes(d, to, look) => pc' = [pc EXCEPT ![d] = to]
    BY DEF AcGoes, Go
<1>4. \A how : AcEnds(d, how) => pc' = [pc EXCEPT ![d] = "idle"]
    BY DEF AcEnds, End
<1>5. \A look, names : AcListed(d, look, names) => \E to : pc' = [pc EXCEPT ![d] = to]
    BY <1>3, <1>4 DEF AcListed
<1>6. \A t, new, back, id : AcWritten(d, t, new, back, id) => \E to : pc' = [pc EXCEPT ![d] = to]
    BY DEF AcWritten, Go, End
<1>7. \E to : pc' = [pc EXCEPT ![d] = to]
    <2>1. CASE AcCall(d)
        BY <2>1 DEF AcCall, Begin
    <2>2. CASE AcExpires(d)
        BY <1>0, <2>2 DEF AcExpires, AccessInv, AccessShape
    <2>3. CASE AcUsers(d)
        BY <1>3, <1>5, <2>3 DEF AcUsers
    <2>4. CASE AcKeep(d)
        BY <1>5, <2>4 DEF AcKeep
    <2>5. CASE AcRoles(d)
        BY <1>3, <1>4, <2>5 DEF AcRoles
    <2>6. CASE AcRoleBack(d) \/ AcFail(d)
        BY <1>4, <2>6 DEF AcRoleBack, AcFail
    <2>7. CASE AcWriteUser(d)
        BY <1>6, <2>7 DEF AcWriteUser
    <2>8. CASE AcWriteRole(d)
        BY <1>3, <1>6, <2>8 DEF AcWriteRole
    <2>9. QED
        BY <1>2, <2>1, <2>2, <2>3, <2>4, <2>5, <2>6, <2>7, <2>8
<1>8. d = c
    BY <1>0, <1>7
<1>9. ~AcCall(c) /\ ~AcExpires(c)
    BY <1>0 DEF AcCall, AcExpires, Begin
<1>10. ~AcUsers(c) /\ ~AcKeep(c) /\ ~AcRoles(c)
    BY <1>0 DEF AcUsers, AcKeep, AcRoles
<1>11. at = "write" => ~AcRoleBack(c)
    BY <1>0 DEF AcRoleBack
<1>12. at = "back" => ~AcWriteUser(c) /\ ~AcWriteRole(c)
    BY <1>0 DEF AcWriteUser, AcWriteRole
<1>13. QED
    BY <1>2, <1>8, <1>9, <1>10, <1>11, <1>12

LEMMA WrittenChanges ==
    ASSUME NEW c \in Clients, NEW t, NEW new, NEW rest
    PROVE  /\ WrittenBy(c, t, new, rest) /\ DOMAIN new = DOMAIN t =>
                 AccessChanges(c, t, new, rest)
           /\ AccessChanges(c, t, t, rest)
<1>1. AccessChanges(c, t, t, rest)
    BY DEF AccessChanges
<1>2. ASSUME WrittenBy(c, t, new, rest), DOMAIN new = DOMAIN t
      PROVE  AccessChanges(c, t, new, rest)
    <2>1. ASSUME NEW i \in There(t)
          PROVE  /\ i \notin There(new) => i = looked[c].id
                 /\ i \in There(new) /\ new[i] # t[i] =>
                       /\ i = looked[c].id
                       /\ \A p \in DOMAIN t[i] : new[i][p] # t[i][p] =>
                             p \in AccessMeant(job[c]) \cup looked[c].stale \cup rest
        BY <1>2 DEF WrittenBy, There
    <2>2. QED
        BY <2>1 DEF AccessChanges
<1>3. QED
    BY <1>1, <1>2

\* What AccessOnlyMeant says of a write of c.
WritesMeant(c) ==
    LET i == looked[c].id IN
    /\ AccessChanges(c, users, users', {"rest"})
    /\ AccessChanges(c, roles, roles', {})
    /\ users' # users /\ i # NoOne => users[i].name = job[c].name
    /\ roles' # roles /\ i # NoOne =>
         roles[i].name = job[c].name \/ "name" \in looked[c].stale
    /\ roles' # roles /\ job[c].op = "set_perms" =>
         \A p \in Perms \ {job[c].perm} :
            (p \in roles'[i].perms) # (p \in roles[i].perms) =>
               "perms" \in looked[c].stale

\* The setters and delete_by_name of users and roles change one user or role,
\* the one of the name that was given, and of it what they were called for,
\* what somebody has changed since it was read, or what _update of users leaves
\* to its defaults; and of the permissions only the one that was named.
THEOREM AccessWritesOnlyMeant == AccessSpec => AccessOnlyMeant
<1>1. ASSUME AccessInv, [AccessNext]_<<accessVars, clientVars>>,
             NEW c \in Clients, Leaves(c, "write")
      PROVE  WritesMeant(c)
    <2>1. AcFail(c) \/ AcWriteUser(c) \/ AcWriteRole(c)
        BY <1>1, AccessLeaves
    <2>2. CASE AcFail(c)
        BY <2>2, WrittenChanges DEF AcFail, WritesMeant
    <2>3. CASE AcWriteUser(c)
        <3>1. UsersWritten(c)
            BY <1>1, <2>3, WritesUser
        <3>2. AccessChanges(c, users, users', {"rest"}) /\ AccessChanges(c, roles, roles', {})
            BY <1>1, <3>1, WrittenChanges DEF UsersWritten, AccessInv, AccessTypeOK
        <3>3. QED
            BY <3>1, <3>2 DEF UsersWritten, WritesMeant
    <2>4. CASE AcWriteRole(c)
        <3>1. RolesWritten(c)
            BY <1>1, <2>4, WritesRole
        <3>2. AccessChanges(c, users, users', {"rest"}) /\ AccessChanges(c, roles, roles', {})
            BY <1>1, <3>1, WrittenChanges DEF RolesWritten, AccessInv, AccessTypeOK
        <3>3. QED
            BY <3>1, <3>2 DEF RolesWritten, WritesMeant
    <2>5. QED
        BY <2>1, <2>2, <2>3, <2>4
<1>2. AccessInv /\ [AccessNext]_<<accessVars, clientVars>> =>
         [ \A c \in Clients : Leaves(c, "write") => WritesMeant(c)
         ]_<<accessVars, clientVars>>
    BY <1>1
<1>3. QED
    BY <1>2, AccessInvariance, PTL DEF AccessSpec, AccessOnlyMeant, WritesMeant

\* What AccessAddTold says of a step of c.
AddsTold(c) ==
    /\ Leaves(c, "write") /\ job[c].op = "add_user" =>
         \A u \in There(users') \ There(users) : \A v \in NamedIn(users, users'[u].name) :
            v \in looked[c].since \/ looked[c].cut
    /\ Leaves(c, "write") /\ job[c].op = "add_role" =>
         \A r \in There(roles') \ There(roles) :
            NamedIn(roles, job[c].name) \subseteq looked[c].since
    /\ Leaves(c, "back") /\ told' = "returned" /\ job[c].op = "add_role" =>
         \/ looked[c].role # NoOne
         \/ \E r \in looked[c].since : r \in NamedIn(roles, job[c].name)

\* add() of users gives a name twice only where the first of it came after the
\* look, or the look was cut short by a role that was not among those kept; and
\* add() of roles that returns has made one, or one got the name meanwhile.
THEOREM AccessAddIsTold == AccessSpec => AccessAddTold
<1>1. ASSUME AccessInv, [AccessNext]_<<accessVars, clientVars>>, NEW c \in Clients
      PROVE  AddsTold(c)
    <2>0. /\ ClientOK(pc[c], job[c], looked[c], users, roles)
          /\ users \in [UserIds -> User \cup {NoOne, GoneOne}]
          /\ roles \in [RoleIds -> Role \cup {NoOne, GoneOne}]
        BY <1>1 DEF AccessInv, AccessTypeOK
    <2>1. ASSUME Leaves(c, "write"), job[c].op = "add_user",
                 NEW u \in There(users') \ There(users), NEW v \in NamedIn(users, users'[u].name)
          PROVE  v \in looked[c].since \/ looked[c].cut
        <3>1. AcFail(c) \/ AcWriteUser(c) \/ AcWriteRole(c)
            BY <1>1, <2>1, AccessLeaves
        <3>2. ~AcFail(c)
            BY <2>1 DEF AcFail
        <3>3. ~AcWriteRole(c)
            BY <2>1 DEF AcWriteRole
        <3>4. UsersWritten(c)
            BY <1>1, <3>1, <3>2, <3>3, WritesUser
        <3>5. users'[u].name = job[c].name
            BY <2>1, <3>4 DEF UsersWritten
        <3>6. job[c].op \in UserOps /\ pc[c] = "write"
            BY <3>4 DEF UsersWritten
        <3>7. looked[c].cut \/ FreeBut(users, looked[c], job[c].name)
            BY <2>0, <2>1, <3>6 DEF ClientOK, UserLook
        <3>8. QED
            BY <2>1, <3>5, <3>7 DEF FreeBut
    <2>2. ASSUME Leaves(c, "write"), job[c].op = "add_role"
          PROVE  NamedIn(roles, job[c].name) \subseteq looked[c].since
        BY <2>0, <2>2 DEF ClientOK, Leaves, FreeBut
    <2>3. ASSUME Leaves(c, "back"), told' = "returned", job[c].op = "add_role"
          PROVE  looked[c].role # NoOne \/ \E r \in looked[c].since : r \in NamedIn(roles, job[c].name)
        <3>1. AcFail(c) \/ AcRoleBack(c)
            BY <1>1, <2>3, AccessLeaves
        <3>2. ~AcFail(c)
            BY <2>3 DEF AcFail, AcEnds, End
        <3>3. NamedIn(roles, job[c].name) # {}
            BY <2>3, <3>1, <3>2 DEF AcRoleBack, AcEnds, End
        <3>4. looked[c].role # NoOne \/ NamedIn(roles, job[c].name) \subseteq looked[c].since
            BY <2>0, <2>3 DEF ClientOK, Leaves, FreeBut
        <3>5. QED
            BY <3>3, <3>4
    <2>4. QED
        BY <2>1, <2>2, <2>3 DEF AddsTold
<1>2. AccessInv /\ [AccessNext]_<<accessVars, clientVars>> =>
         [ \A c \in Clients : AddsTold(c) ]_<<accessVars, clientVars>>
    BY <1>1
<1>3. QED
    BY <1>2, AccessInvariance, PTL DEF AccessSpec, AccessAddTold, AddsTold

-----------------------------------------------------------------------------
(* Enforcement sets. *)

EnforcementSpec ==
    ClientInit /\ EnforcementInit /\ [][EnforcementNext]_<<enforcementVars, clientVars>>

\* The server's sets, and the variables of the clients, are functions.
EcShape ==
    /\ ecs \in [EcIds -> Ec \cup {NoSet, GoneSet}]
    /\ DOMAIN pc = Clients /\ DOMAIN job = Clients
    /\ DOMAIN ec_held = Clients /\ DOMAIN ec_found = Clients
    /\ DOMAIN lookup = Clients

\* Copy x is of a set that there was.
EcKnown(x, es) == x \in EcFound /\ x.uuid \in EcIds /\ es[x.uuid] # NoSet

\* It differs from what there is only in what is stale, and in `but`.
EcCopy(x, but, es) ==
    /\ EcKnown(x, es)
    /\ x.uuid \in EcsIn(es) =>
         \A p \in EcParts \ (x.stale \cup but) : x.set[p] = es[x.uuid][p]

\* It knows whether another set has its name.
EcSharedNoted(x, es) ==
    \A v \in EcsIn(es) \ {x.uuid} : es[v].name = x.set.name => x.shared

FindOps == {"get", "schedule", "query", "move", "delete", "add", "remove",
            "describe", "rename", "clone"}

\* What calls were given.
EcJobOK(j) ==
    /\ j.op = "add" => j.action \in Actions
    /\ j.op \in {"rename", "create", "copy", "clone"} => j.name \in SetNames
    /\ j.op \in {"create", "copy", "clone"} => j.folder \in {"root", "old", "new"}

\* A lookup is by a name, or for the set at hand.
LookedUp(l, h) ==
    \/ l.uuid = NoSet
    \/ h # NoSet /\ l.uuid = h.uuid /\ l.name = h.set.name

\* Set x is where the call wanted it, or was moved since.
Placed(x, j, es) ==
    x.uuid \in EcsIn(es) =>
       \/ es[x.uuid].folder = IF j.op = "move" THEN "new" ELSE j.folder
       \/ j.op # "move" /\ j.folder = "root"
       \/ "folder" \in x.stale

\* A text is appended to the description, or the description was changed since.
Appended(x, es) ==
    x.uuid \in EcsIn(es) /\ "description" \notin x.stale =>
       es[x.uuid].description \subseteq x.set.description

EcLooks(j, h, f, l, es) ==
    /\ DOMAIN l = {"why", "name", "uuid", "offset", "rows", "names"}
    /\ \/ l.why = "find" /\ j.op \in FindOps /\ f = NoSet /\ LookedUp(l, h)
       \/ /\ l.why = "free"
          /\ \/ j.op = "rename" /\ EcCopy(f, {}, es)
             \/ j.op = "create" /\ f \in EcFound
       \/ l.why = "names" /\ l.rows = << >> /\ j.op = "copy" /\ f \in EcFound
       \/ /\ l.why = "back" /\ f \in EcFound
          /\ j.op \in {"create", "copy", "clone", "move"} => EcKnown(f, es) /\ Placed(f, j, es)

EcWorks(p, j, f, es) ==
    \/ p = "put" /\ j.op \in {"add", "remove", "schedule", "query", "rename"}
       /\ EcCopy(f, EcMeant(j), es)
    \/ p = "describe" /\ j.op \in {"describe", "redescribe"}
       /\ EcKnown(f, es) /\ (j.append => Appended(f, es))
    \/ p = "move" /\ j.op \in {"move", "create", "copy", "clone"} /\ EcKnown(f, es)
    \/ p = "create" /\ j.op \in {"create", "copy"} /\ f \in EcFound
    \/ p = "clone" /\ j.op = "clone" /\ EcKnown(f, es)
    \/ p = "delete" /\ j.op = "delete" /\ EcKnown(f, es)

EcHolds(h, es) == h # NoSet => EcCopy(h, {}, es) /\ EcSharedNoted(h, es)

EcStands(p, j, h, f, l, es) ==
    \/ p = "idle" /\ f = NoSet
    \/ /\ p \in {"page", "full"} /\ EcJobOK(j) /\ EcLooks(j, h, f, l, es)
       /\ p = "full" => l.why # "names"
    \/ EcJobOK(j) /\ EcWorks(p, j, f, es)

\* What a client holds and works with is so but for what its history says.
EcClientOK(p, j, h, f, l, es) == EcHolds(h, es) /\ EcStands(p, j, h, f, l, es)

EcInv ==
    /\ EcShape
    /\ \A c \in Clients :
         EcClientOK(pc[c], job[c], ec_held[c], ec_found[c], lookup[c], ecs)

\* The sets of a table are its records.
LEMMA EcsInTyped ==
    ASSUME NEW es \in [EcIds -> Ec \cup {NoSet, GoneSet}], NEW u
    PROVE  u \in EcsIn(es) <=> u \in EcIds /\ es[u] \in Ec
BY FirstSetsAssumption DEF EcsIn

\* What a request shows is a copy of what there is.
LEMMA EcReadCopy ==
    ASSUME EcShape, NEW u \in EcsIn(ecs)
    PROVE  /\ EcFoundAs(u) # NoSet /\ EcFoundAs(u).uuid = u /\ EcFoundAs(u).set = ecs[u]
           /\ EcHolds(EcFoundAs(u), ecs) /\ EcCopy(EcFoundAs(u), {}, ecs)
<1> DEFINE x == EcFoundAs(u)
<1>1. u \in EcIds /\ ecs[u] \in Ec /\ ecs[u] # NoSet
    BY EcsInTyped, FirstSetsAssumption DEF EcShape
<1>2. /\ x.uuid = u /\ x.set = ecs[u]
      /\ x.shared = \E v \in EcsIn(ecs) \ {u} : ecs[v].name = ecs[u].name
    BY DEF EcFoundAs
<1>3. x \in EcFound
    BY <1>1 DEF EcFoundAs, EcFound
<1> HIDE DEF x
<1>4. x # NoSet
    BY <1>3, FirstSetsAssumption
<1>5. EcCopy(x, {}, ecs)
    BY <1>1, <1>2, <1>3 DEF EcCopy, EcKnown
<1>6. EcSharedNoted(x, ecs)
    BY <1>2 DEF EcSharedNoted
<1>7. QED
    BY <1>2, <1>4, <1>5, <1>6 DEF x, EcHolds

\* What an update makes of a set is a set, another one only in what it is for.
LEMMA EcEditedSet ==
    ASSUME NEW j, EcJobOK(j), j.op \in FindOps, NEW set \in Ec
    PROVE  /\ EcEdited(j, set) \in Ec
           /\ \A p \in EcParts \ EcMeant(j) : EcEdited(j, set)[p] = set[p]
           /\ j.op \in {"rename", "get", "move", "delete", "clone"} => EcEdited(j, set) = set
           /\ j.op = "describe" => EcEdited(j, set) = EcDescribed(j, set)
<1>1. CASE j.op = "add"
    <2>1. EcEdited(j, set) = [set EXCEPT !.actions = @ \cup {j.action}] /\ EcMeant(j) = {"actions"}
        BY <1>1 DEF EcEdited, EcMeant
    <2>2. j.action \in Actions
        BY <1>1 DEF EcJobOK
    <2>3. QED
        BY <1>1, <2>1, <2>2 DEF Ec, EcParts
<1>2. CASE j.op = "remove"
    <2>1. EcEdited(j, set) = [set EXCEPT !.actions = @ \ {j.action}] /\ EcMeant(j) = {"actions"}
        BY <1>2 DEF EcEdited, EcMeant
    <2>2. QED
        BY <1>2, <2>1 DEF Ec, EcParts
<1>3. CASE j.op \in {"schedule", "query"}
    <2>1. EcEdited(j, set) = [set EXCEPT !.trigger = "new"] /\ EcMeant(j) = {"trigger"}
        BY <1>3 DEF EcEdited, EcMeant
    <2>2. QED
        BY <1>3, <2>1 DEF Ec, EcParts
<1>4. CASE j.op = "describe"
    <2>1. EcEdited(j, set) = EcDescribed(j, set) /\ EcMeant(j) = {"description"}
        BY <1>4 DEF EcEdited, EcMeant
    <2>2. EcDescribed(j, set) =
             [set EXCEPT !.description = IF j.append THEN @ \cup {"new"} ELSE {"new"}]
        BY DEF EcDescribed
    <2>3. QED
        BY <1>4, <2>1, <2>2 DEF Ec, EcParts
<1>5. CASE j.op \in {"rename", "get", "move", "delete", "clone"}
    BY <1>5 DEF EcEdited
<1>6. QED
    BY <1>1, <1>2, <1>3, <1>4, <1>5 DEF FindOps

\* The copy that an update has found and edited.
LEMMA EcEditedCopy ==
    ASSUME EcShape, NEW u \in EcsIn(ecs), NEW j, EcJobOK(j), j.op \in FindOps
    PROVE  LET x == [EcFoundAs(u) EXCEPT !.set = EcEdited(j, ecs[u])] IN
           /\ x.uuid = u /\ EcCopy(x, EcMeant(j), ecs)
           /\ j.op = "rename" => EcCopy(x, {}, ecs)
           /\ j.op = "describe" /\ j.append => Appended(x, ecs)
<1> DEFINE y == EcFoundAs(u)
           x == [y EXCEPT !.set = EcEdited(j, ecs[u])]
<1>1. u \in EcIds /\ ecs[u] \in Ec
    BY EcsInTyped DEF EcShape
<1>2. y.uuid = u /\ y.set = ecs[u] /\ EcCopy(y, {}, ecs) /\ y \in EcFound
    BY EcReadCopy DEF EcCopy, EcKnown
<1>3. EcEdited(j, ecs[u]) \in Ec
    BY <1>1, EcEditedSet
<1> HIDE DEF y
<1>4. /\ x.uuid = u /\ x.set = EcEdited(j, ecs[u]) /\ x.stale = y.stale
      /\ x \in EcFound
    BY <1>2, <1>3 DEF EcFound
<1> HIDE DEF x
<1>5. EcKnown(x, ecs)
    BY <1>2, <1>4 DEF EcCopy, EcKnown
<1>6. EcCopy(x, EcMeant(j), ecs)
    <2>1. \A p \in EcParts \ EcMeant(j) : EcEdited(j, ecs[u])[p] = ecs[u][p]
        BY <1>1, EcEditedSet
    <2>2. QED
        BY <1>4, <1>5, <2>1 DEF EcCopy
<1>7. j.op = "rename" => EcCopy(x, {}, ecs)
    BY <1>1, <1>4, <1>5, EcEditedSet DEF EcCopy
<1>8. j.op = "describe" /\ j.append => Appended(x, ecs)
    <2> SUFFICES ASSUME j.op = "describe", j.append
                 PROVE  ecs[u].description \subseteq x.set.description
        BY <1>4 DEF Appended
    <2>1. x.set = EcDescribed(j, ecs[u])
        BY <1>1, <1>4, EcEditedSet
    <2>2. x.set.description = ecs[u].description \cup {"new"}
        BY <1>1, <2>1 DEF EcDescribed, Ec
    <2>3. QED
        BY <2>2
<1>9. QED
    BY <1>4, <1>6, <1>7, <1>8 DEF x, y

\* Sets come, change and go; they do not come back.
EcOnwards(es) ==
    /\ es \in [EcIds -> Ec \cup {NoSet, GoneSet}]
    /\ \A u \in EcIds : ecs[u] # NoSet =>
          es[u] # NoSet /\ (u \in EcsIn(es) => u \in EcsIn(ecs))

\* Copies are as good after a change as before it.
LEMMA EcAwareCopies ==
    ASSUME EcShape, NEW es, EcOnwards(es), NEW copies, NEW d \in Clients, copies[d] \in EcFound
    PROVE  LET x == copies[d]
               y == EcAware(copies, es)[d]
           IN  /\ y # NoSet /\ y \in EcFound /\ y.uuid = x.uuid /\ y.set = x.set
               /\ EcSharedNoted(y, es)
               /\ EcKnown(x, ecs) =>
                    /\ EcKnown(y, es)
                    /\ \A but : EcCopy(x, but, ecs) => EcCopy(y, but, es)
                    /\ \A j : Placed(x, j, ecs) => Placed(y, j, es)
                    /\ Appended(x, ecs) => Appended(y, es)
<1> DEFINE x == copies[d]
           y == EcAware(copies, es)[d]
           new == { p \in EcParts : /\ x.uuid \in EcsIn(ecs) \cap EcsIn(es)
                                    /\ es[x.uuid][p] # ecs[x.uuid][p] }
           met == \E v \in EcsIn(es) \ {x.uuid} : es[v].name = x.set.name
<1>1. x # NoSet
    BY FirstSetsAssumption
<1>2. y = [x EXCEPT !.stale = @ \cup new, !.shared = @ \/ met]
    BY <1>1 DEF EcAware
<1>3. new \subseteq EcParts /\ met \in BOOLEAN
    OBVIOUS
<1>4. \A p \in EcParts \ new : x.uuid \in EcsIn(ecs) \cap EcsIn(es) =>
         es[x.uuid][p] = ecs[x.uuid][p]
    OBVIOUS
<1>5. met <=> \E v \in EcsIn(es) \ {x.uuid} : es[v].name = x.set.name
    OBVIOUS
<1> HIDE DEF y, new, met
<1>6. /\ y.uuid = x.uuid /\ y.set = x.set /\ y.stale = x.stale \cup new
      /\ y.shared = (x.shared \/ met)
    BY <1>2 DEF EcFound
<1>7. y \in EcFound /\ y # NoSet
    <2>1. y \in EcFound
        BY <1>2, <1>3 DEF EcFound
    <2>2. QED
        BY <2>1, FirstSetsAssumption
<1>8. EcSharedNoted(y, es)
    BY <1>5, <1>6 DEF EcSharedNoted
<1>9. ASSUME EcKnown(x, ecs)
      PROVE  EcKnown(y, es) /\ (x.uuid \in EcsIn(es) => x.uuid \in EcsIn(ecs))
    BY <1>6, <1>7, <1>9 DEF EcKnown, EcOnwards
<1>10. ASSUME EcKnown(x, ecs), NEW but, EcCopy(x, but, ecs)
       PROVE  EcCopy(y, but, es)
    <2>1. ASSUME x.uuid \in EcsIn(es), NEW p \in EcParts \ (y.stale \cup but)
          PROVE  y.set[p] = es[x.uuid][p]
        <3>1. x.uuid \in EcsIn(ecs) /\ p \notin new /\ p \in EcParts \ (x.stale \cup but)
            BY <1>6, <1>9, <1>10, <2>1
        <3>2. x.set[p] = ecs[x.uuid][p]
            BY <1>10, <3>1 DEF EcCopy
        <3>3. es[x.uuid][p] = ecs[x.uuid][p]
            BY <1>4, <2>1, <3>1
        <3>4. QED
            BY <1>6, <3>2, <3>3
    <2>2. QED
        BY <1>6, <1>9, <1>10, <2>1 DEF EcCopy
<1>11. {"folder", "description"} \subseteq EcParts
    BY DEF EcParts
<1>12. ASSUME EcKnown(x, ecs), NEW j, Placed(x, j, ecs)
       PROVE  Placed(y, j, es)
    <2> SUFFICES ASSUME x.uuid \in EcsIn(es), "folder" \notin y.stale
                 PROVE  \/ es[x.uuid].folder = IF j.op = "move" THEN "new" ELSE j.folder
                        \/ j.op # "move" /\ j.folder = "root"
        BY <1>6 DEF Placed
    <2>1. x.uuid \in EcsIn(ecs) /\ "folder" \notin x.stale /\ "folder" \notin new
        BY <1>6, <1>9, <1>12
    <2>2. es[x.uuid]["folder"] = ecs[x.uuid]["folder"]
        BY <1>4, <1>11, <2>1
    <2>3. QED
        BY <1>12, <2>1, <2>2 DEF Placed
<1>13. ASSUME EcKnown(x, ecs), Appended(x, ecs)
       PROVE  Appended(y, es)
    <2> SUFFICES ASSUME x.uuid \in EcsIn(es), "description" \notin y.stale
                 PROVE  es[x.uuid].description \subseteq x.set.description
        BY <1>6 DEF Appended
    <2>1. /\ x.uuid \in EcsIn(ecs) /\ "description" \notin x.stale
          /\ "description" \notin new
        BY <1>6, <1>9, <1>13
    <2>2. es[x.uuid]["description"] = ecs[x.uuid]["description"]
        BY <1>4, <1>11, <2>1
    <2>3. QED
        BY <1>13, <2>1, <2>2 DEF Appended
<1>14. QED
    BY <1>6, <1>7, <1>8, <1>9, <1>10, <1>12, <1>13 DEF y

LEMMA EcAwareOfNone ==
    ASSUME NEW copies, NEW es, NEW d \in Clients, copies[d] = NoSet
    PROVE  EcAware(copies, es)[d] = NoSet
BY DEF EcAware

\* What a client holds, after a change of the sets.
LEMMA EcHeldAware ==
    ASSUME EcShape, NEW es, EcOnwards(es), NEW copies, NEW d \in Clients,
           EcHolds(copies[d], ecs)
    PROVE  /\ EcHolds(EcAware(copies, es)[d], es)
           /\ \A l : LookedUp(l, copies[d]) => LookedUp(l, EcAware(copies, es)[d])
<1>1. CASE copies[d] = NoSet
    BY <1>1, EcAwareOfNone DEF EcHolds, LookedUp
<1>2. CASE copies[d] # NoSet
    <2>1. EcCopy(copies[d], {}, ecs) /\ EcKnown(copies[d], ecs) /\ copies[d] \in EcFound
        BY <1>2 DEF EcHolds, EcCopy, EcKnown
    <2>2. QED
        BY <1>2, <2>1, EcAwareCopies DEF EcHolds, LookedUp
<1>3. QED
    BY <1>1, <1>2

\* What it works with, after a change of the sets.
LEMMA EcFoundAware ==
    ASSUME EcShape, NEW es, EcOnwards(es), NEW d \in Clients,
           NEW p, NEW j, NEW l, EcHolds(ec_held[d], ecs),
           EcStands(p, j, ec_held[d], ec_found[d], l, ecs)
    PROVE  EcStands(p, j, EcAware(ec_held, es)[d], EcAware(ec_found, es)[d], l, es)
<1> DEFINE h == ec_held[d]
           f == ec_found[d]
           h2 == EcAware(ec_held, es)[d]
           f2 == EcAware(ec_found, es)[d]
<1>1. LookedUp(l, h) => LookedUp(l, h2)
    BY EcHeldAware
<1>2. f = NoSet => f2 = NoSet
    BY EcAwareOfNone
<1>3. f \in EcFound => f2 \in EcFound
    BY EcAwareCopies
<1>4. EcKnown(f, ecs) => /\ EcKnown(f2, es)
                         /\ \A but : EcCopy(f, but, ecs) => EcCopy(f2, but, es)
                         /\ Placed(f, j, ecs) => Placed(f2, j, es)
                         /\ Appended(f, ecs) => Appended(f2, es)
    <2>1. EcKnown(f, ecs) => f \in EcFound
        BY DEF EcKnown
    <2>2. QED
        BY <2>1, EcAwareCopies
<1>5. \A but : EcCopy(f, but, ecs) => EcKnown(f, ecs)
    BY DEF EcCopy
<1> HIDE DEF h, f, h2, f2
<1>6. EcStands(p, j, h, f, l, ecs)
    BY DEF h, f
<1>7. EcLooks(j, h, f, l, ecs) => EcLooks(j, h2, f2, l, es)
    BY <1>1, <1>2, <1>3, <1>4, <1>5 DEF EcLooks
<1>8. EcWorks(p, j, f, ecs) => EcWorks(p, j, f2, es)
    BY <1>3, <1>4, <1>5 DEF EcWorks
<1>9. EcStands(p, j, h2, f2, l, es)
    BY <1>2, <1>6, <1>7, <1>8 DEF EcStands
<1>10. QED
    BY <1>9 DEF h2, f2

\* A step of one client leaves the others where they are.
EcElsewhere(c) ==
    /\ DOMAIN pc' = Clients /\ DOMAIN job' = Clients
    /\ \A d \in Clients \ {c} : pc'[d] = pc[d] /\ job'[d] = job[d]

LEMMA EcMoves ==
    ASSUME EcShape, NEW c \in Clients
    PROVE  /\ \A j, to : Begin(c, j, to) =>
                 pc[c] = "idle" /\ pc'[c] = to /\ job'[c] = j /\ EcElsewhere(c)
           /\ \A to : Go(c, to) =>
                 pc'[c] = to /\ job'[c] = job[c] /\ told' = "none" /\ EcElsewhere(c)
           /\ \A how : End(c, how) => pc'[c] = "idle" /\ told' = how /\ EcElsewhere(c)
BY DEF EcShape, EcElsewhere, Begin, Go, End

EcKeepsOthers(c) ==
    /\ DOMAIN ec_held' = Clients /\ DOMAIN ec_found' = Clients /\ DOMAIN lookup' = Clients
    /\ \A d \in Clients \ {c} :
          ec_held'[d] = ec_held[d] /\ ec_found'[d] = ec_found[d] /\ lookup'[d] = lookup[d]

\* A step that changes no set is about its own client.
LEMMA EcQuiet ==
    ASSUME EcInv, NEW c \in Clients, EcElsewhere(c), EcKeepsOthers(c), ecs' = ecs,
           EcHolds(ec_held'[c], ecs),
           EcStands(pc'[c], job'[c], ec_held'[c], ec_found'[c], lookup'[c], ecs)
    PROVE  EcInv'
<1>1. EcShape'
    BY DEF EcInv, EcShape, EcElsewhere, EcKeepsOthers
<1>2. ASSUME NEW d \in Clients
      PROVE  EcClientOK(pc'[d], job'[d], ec_held'[d], ec_found'[d], lookup'[d], ecs')
    <2>1. CASE d = c
        BY <2>1 DEF EcClientOK
    <2>2. CASE d # c
        BY <2>2 DEF EcInv, EcElsewhere, EcKeepsOthers
    <2>3. QED
        BY <2>1, <2>2
<1>3. QED
    BY <1>1, <1>2 DEF EcInv

\* What the invariant says of one client.
LEMMA EcOne ==
    ASSUME EcInv, NEW c \in Clients
    PROVE  /\ EcShape /\ EcHolds(ec_held[c], ecs)
           /\ EcStands(pc[c], job[c], ec_held[c], ec_found[c], lookup[c], ecs)
BY DEF EcInv, EcClientOK

\* A call that has ended has nothing left but the set at hand.
LEMMA EcEndsMoves ==
    ASSUME EcShape, NEW c \in Clients, NEW how, EcEnds(c, how)
    PROVE  /\ pc'[c] = "idle" /\ told' = how /\ EcElsewhere(c)
           /\ ec_found'[c] = NoSet
           /\ DOMAIN ec_found' = Clients /\ DOMAIN lookup' = Clients
           /\ \A d \in Clients \ {c} :
                 ec_found'[d] = ec_found[d] /\ lookup'[d] = lookup[d]
BY EcMoves DEF EcEnds, EcShape

LEMMA EcIdle ==
    ASSUME NEW j, NEW h, NEW l, NEW es
    PROVE  EcStands("idle", j, h, NoSet, l, es)
BY DEF EcStands

\* An end that leaves the set at hand, or finds it anew.
LEMMA EcEndsInv ==
    ASSUME EcInv, NEW c \in Clients, NEW how, EcEnds(c, how), ecs' = ecs,
           \/ ec_held' = ec_held
           \/ \E u \in EcsIn(ecs) : ec_held' = [ec_held EXCEPT ![c] = EcFoundAs(u)]
    PROVE  EcInv'
<1>1. EcShape /\ EcHolds(ec_held[c], ecs)
    BY EcOne
<1>2. /\ pc'[c] = "idle" /\ EcElsewhere(c) /\ ec_found'[c] = NoSet
      /\ DOMAIN ec_found' = Clients /\ DOMAIN lookup' = Clients
      /\ \A d \in Clients \ {c} : ec_found'[d] = ec_found[d] /\ lookup'[d] = lookup[d]
    BY <1>1, EcEndsMoves
<1>3. /\ DOMAIN ec_held' = Clients
      /\ \A d \in Clients \ {c} : ec_held'[d] = ec_held[d]
      /\ EcHolds(ec_held'[c], ecs)
    <2>1. CASE ec_held' = ec_held
        BY <1>1, <2>1 DEF EcShape
    <2>2. ASSUME NEW u \in EcsIn(ecs), ec_held' = [ec_held EXCEPT ![c] = EcFoundAs(u)]
          PROVE  /\ DOMAIN ec_held' = Clients
                 /\ \A d \in Clients \ {c} : ec_held'[d] = ec_held[d]
                 /\ EcHolds(ec_held'[c], ecs)
        BY <1>1, <2>2, EcReadCopy DEF EcShape
    <2>3. QED
        BY <2>1, <2>2
<1>4. EcKeepsOthers(c)
    BY <1>2, <1>3 DEF EcKeepsOthers
<1>5. QED
    BY <1>2, <1>3, <1>4, EcIdle, EcQuiet

\* A lookup that has begun is of its call.
LEMMA LookShape ==
    ASSUME NEW why, NEW name, NEW uuid
    PROVE  LET l == Look(why, name, uuid) IN
           /\ DOMAIN l = {"why", "name", "uuid", "offset", "rows", "names"}
           /\ l.why = why /\ l.name = name /\ l.uuid = uuid /\ l.rows = << >>
BY DEF Look

LEMMA EcJobsOK ==
    ASSUME NEW arg, NEW j \in EcJobs(arg)
    PROVE  EcJobOK(j) /\ j.op \in FindOps /\ j.arg = arg
<1>1. CASE j \in { [op |-> op, arg |-> arg] :
                     op \in {"get", "schedule", "query", "move", "delete"} }
    BY <1>1 DEF EcJobOK, FindOps
<1>2. CASE j \in { [op |-> op, arg |-> arg, action |-> a] :
                     op \in {"add", "remove"}, a \in Actions }
    BY <1>2 DEF EcJobOK, FindOps
<1>3. CASE j \in { [op |-> "describe", arg |-> arg, append |-> b] : b \in BOOLEAN }
    BY <1>3 DEF EcJobOK, FindOps
<1>4. CASE j \in { [op |-> "rename", arg |-> arg, name |-> n] : n \in NewSetNames }
    BY <1>4, EnforcementAssumption DEF EcJobOK, FindOps
<1>5. CASE j \in { [op |-> "clone", arg |-> arg, name |-> n, folder |-> f] :
                     n \in NewSetNames, f \in {"root", "new"} }
    BY <1>5, EnforcementAssumption DEF EcJobOK, FindOps
<1>6. QED
    BY <1>1, <1>2, <1>3, <1>4, <1>5 DEF EcJobs

LEMMA EcArgsLookedUp ==
    ASSUME NEW c \in Clients, NEW arg \in EcArgs(c), NEW l, l.uuid = arg.uuid, l.name = arg.name
    PROVE  LookedUp(l, ec_held[c])
BY DEF EcArgs, EcNamed, EcAtHand, LookedUp

LEMMA EcCallsInv ==
    ASSUME EcInv, NEW c \in Clients, EcCall(c) \/ EcCallCreate(c)
    PROVE  EcInv'
<1>1. /\ EcShape /\ EcHolds(ec_held[c], ecs)
      /\ EcStands(pc[c], job[c], ec_held[c], ec_found[c], lookup[c], ecs)
    BY EcOne
<1>2. pc[c] = "idle" => ec_found[c] = NoSet
    BY <1>1 DEF EcStands, EcWorks
<1>3. CASE EcCall(c)
    <2>1. PICK arg \in EcArgs(c) : \E j \in EcJobs(arg) :
             Begin(c, j, "page") /\ LooksFirst(c, "find", arg.name, arg.uuid)
        BY <1>3 DEF EcCall
    <2>2. PICK j \in EcJobs(arg) :
             Begin(c, j, "page") /\ LooksFirst(c, "find", arg.name, arg.uuid)
        BY <2>1
    <2> DEFINE l == Look("find", arg.name, arg.uuid)
    <2>3. pc[c] = "idle" /\ pc'[c] = "page" /\ job'[c] = j /\ EcElsewhere(c)
        BY <1>1, <2>2, EcMoves
    <2>4. /\ ecs' = ecs /\ EcKeepsOthers(c) /\ lookup'[c] = l
          /\ ec_held'[c] = ec_held[c] /\ ec_found'[c] = ec_found[c]
        BY <1>1, <1>3, <2>2 DEF EcCall, LooksFirst, EcKeepsOthers, EcShape
    <2>5. EcJobOK(j) /\ j.op \in FindOps
        BY EcJobsOK
    <2>6. /\ DOMAIN l = {"why", "name", "uuid", "offset", "rows", "names"}
          /\ l.why = "find" /\ l.uuid = arg.uuid /\ l.name = arg.name
        BY LookShape
    <2> HIDE DEF l
    <2>7. LookedUp(l, ec_held[c])
        BY <2>6, EcArgsLookedUp
    <2>8. EcLooks(j, ec_held[c], ec_found[c], l, ecs)
        BY <1>2, <2>3, <2>5, <2>6, <2>7 DEF EcLooks
    <2>9. EcStands("page", j, ec_held[c], ec_found[c], l, ecs)
        BY <2>5, <2>8 DEF EcStands
    <2>10. QED
        BY <1>1, <2>3, <2>4, <2>9, EcQuiet
<1>4. CASE EcCallCreate(c)
    <2>1. PICK n \in NewSetNames, f \in {"root", "new"} :
             /\ Begin(c, [op |-> "create", name |-> n, folder |-> f], "page")
             /\ LooksFirst(c, "free", n, NoSet)
             /\ ec_found' = [ec_found EXCEPT ![c] =
                  [ uuid |-> NoSet, stale |-> {}, shared |-> FALSE,
                    set |-> [name |-> n, actions |-> {}, trigger |-> "new",
                             description |-> {"new"}, folder |-> "root"] ]]
        BY <1>4 DEF EcCallCreate
    <2> DEFINE l == Look("free", n, NoSet)
               j == [op |-> "create", name |-> n, folder |-> f]
    <2>2. pc'[c] = "page" /\ job'[c] = j /\ EcElsewhere(c)
        BY <1>1, <2>1, EcMoves
    <2>3. /\ ecs' = ecs /\ EcKeepsOthers(c) /\ lookup'[c] = l /\ ec_held'[c] = ec_held[c]
        BY <1>1, <1>4, <2>1 DEF EcCallCreate, LooksFirst, EcKeepsOthers, EcShape
    <2>4. ec_found'[c] \in EcFound
        <3>1. n \in SetNames
            BY EnforcementAssumption
        <3>2. [name |-> n, actions |-> {}, trigger |-> "new",
               description |-> {"new"}, folder |-> "root"] \in Ec
            BY <3>1 DEF Ec
        <3>3. QED
            BY <1>1, <2>1, <3>2 DEF EcFound, EcShape
    <2>5. EcJobOK(j) /\ j.op = "create"
        BY EnforcementAssumption DEF EcJobOK
    <2>6. /\ DOMAIN l = {"why", "name", "uuid", "offset", "rows", "names"} /\ l.why = "free"
        BY LookShape
    <2> HIDE DEF l, j
    <2>7. EcLooks(j, ec_held[c], ec_found'[c], l, ecs)
        BY <2>4, <2>5, <2>6 DEF EcLooks
    <2>8. EcStands("page", j, ec_held[c], ec_found'[c], l, ecs)
        BY <2>5, <2>7 DEF EcStands
    <2>9. QED
        BY <1>1, <2>2, <2>3, <2>8, EcQuiet
<1>5. QED
    BY <1>3, <1>4

\* update_description of a set at hand changes it there, then on the server.
LEMMA EcRedescribeInv ==
    ASSUME EcInv, NEW c \in Clients, ec_held[c] # NoSet, NEW b \in BOOLEAN,
           Begin(c, [op |-> "redescribe", append |-> b], "describe"),
           ec_found' = [ec_found EXCEPT ![c] =
              [ec_held[c] EXCEPT !.set = EcDescribed([op |-> "redescribe", append |-> b], @)]],
           ec_held' = [ec_held EXCEPT ![c] = ec_found'[c], ![c].stale = @ \cup {"description"}],
           UNCHANGED <<ecs, lookup>>
    PROVE  EcInv'
<1> DEFINE h == ec_held[c]
           j == [op |-> "redescribe", append |-> b]
           f == ec_found'[c]
           h2 == ec_held'[c]
           set == EcDescribed(j, h.set)
<1>1. EcShape /\ EcHolds(h, ecs) /\ EcCopy(h, {}, ecs) /\ EcSharedNoted(h, ecs)
    BY EcOne DEF EcHolds
<1>2. h \in EcFound /\ h.set \in Ec /\ EcKnown(h, ecs)
    BY <1>1 DEF EcCopy, EcKnown, EcFound
<1>3. pc'[c] = "describe" /\ job'[c] = j /\ EcElsewhere(c)
    BY <1>1, EcMoves
<1>4. f = [h EXCEPT !.set = set] /\ h2 = [f EXCEPT !.stale = @ \cup {"description"}]
    BY <1>1 DEF EcShape
<1>5. EcKeepsOthers(c) /\ ecs' = ecs
    BY <1>1 DEF EcKeepsOthers, EcShape
<1>6. set = [h.set EXCEPT !.description = IF b THEN @ \cup {"new"} ELSE {"new"}]
    BY DEF EcDescribed
<1> HIDE DEF set
<1>7. /\ set \in Ec /\ set.name = h.set.name
      /\ \A p \in EcParts \ {"description"} : set[p] = h.set[p]
      /\ b => set.description = h.set.description \cup {"new"}
    BY <1>2, <1>6 DEF Ec, EcParts
<1> HIDE DEF f, h2
<1>8. /\ f \in EcFound /\ f.uuid = h.uuid /\ f.set = set /\ f.stale = h.stale
      /\ f.shared = h.shared
    BY <1>2, <1>4, <1>7 DEF EcFound
<1>9. /\ h2 \in EcFound /\ h2.uuid = h.uuid /\ h2.set = set
      /\ h2.stale = h.stale \cup {"description"} /\ h2.shared = h.shared
    <2>1. "description" \in EcParts
        BY DEF EcParts
    <2>2. QED
        BY <1>4, <1>8, <2>1 DEF EcFound
<1>10. EcHolds(h2, ecs)
    <2>1. EcKnown(h2, ecs)
        BY <1>2, <1>9 DEF EcKnown
    <2>2. EcCopy(h2, {}, ecs)
        BY <1>1, <1>7, <1>9, <2>1 DEF EcCopy
    <2>3. EcSharedNoted(h2, ecs)
        BY <1>1, <1>7, <1>9 DEF EcSharedNoted
    <2>4. QED
        BY <2>2, <2>3 DEF EcHolds
<1>11. EcKnown(f, ecs)
    BY <1>2, <1>8 DEF EcKnown
<1>12. b => Appended(f, ecs)
    <2>1. "description" \in EcParts
        BY DEF EcParts
    <2>2. h.uuid \in EcsIn(ecs) /\ "description" \notin h.stale =>
             h.set["description"] = ecs[h.uuid]["description"]
        BY <1>1, <2>1 DEF EcCopy
    <2>3. QED
        BY <1>7, <1>8, <2>2 DEF Appended
<1>13. EcStands("describe", j, h2, f, lookup[c], ecs)
    <2>1. j.op = "redescribe" /\ j.append = b
        OBVIOUS
    <2> HIDE DEF j
    <2>2. EcJobOK(j)
        BY <2>1 DEF EcJobOK
    <2>3. EcWorks("describe", j, f, ecs)
        BY <1>11, <1>12, <2>1 DEF EcWorks
    <2>4. QED
        BY <2>2, <2>3 DEF EcStands
<1>14. QED
    BY <1>3, <1>5, <1>10, <1>13, EcQuiet DEF h2, f

\* move() of a set at hand likewise.
LEMMA EcMoveHeldInv ==
    ASSUME EcInv, NEW c \in Clients, ec_held[c] # NoSet, NEW arg,
           Begin(c, [op |-> "move", arg |-> arg], "move"),
           ec_found' = [ec_found EXCEPT ![c] = ec_held[c]],
           ec_held' = [ec_held EXCEPT ![c].set.folder = "new", ![c].stale = @ \cup {"folder"}],
           UNCHANGED <<ecs, lookup>>
    PROVE  EcInv'
<1> DEFINE h == ec_held[c]
           j == [op |-> "move", arg |-> arg]
           h2 == ec_held'[c]
<1>1. EcShape /\ EcHolds(h, ecs) /\ EcCopy(h, {}, ecs) /\ EcSharedNoted(h, ecs)
    BY EcOne DEF EcHolds
<1>2. h \in EcFound /\ h.set \in Ec /\ EcKnown(h, ecs)
    BY <1>1 DEF EcCopy, EcKnown, EcFound
<1>3. pc'[c] = "move" /\ job'[c] = j /\ EcElsewhere(c)
    BY <1>1, EcMoves
<1>4. h2 = [h EXCEPT !.set.folder = "new", !.stale = @ \cup {"folder"}]
    BY <1>1 DEF EcShape
<1>5. EcKeepsOthers(c) /\ ecs' = ecs /\ ec_found'[c] = h /\ lookup'[c] = lookup[c]
    BY <1>1 DEF EcKeepsOthers, EcShape
<1> HIDE DEF h2
<1>6. /\ h2.uuid = h.uuid /\ h2.shared = h.shared /\ h2.stale = h.stale \cup {"folder"}
      /\ h2.set = [h.set EXCEPT !.folder = "new"]
    BY <1>2, <1>4 DEF EcFound
<1>7. /\ h2.set \in Ec /\ h2.set.name = h.set.name
      /\ \A p \in EcParts \ {"folder"} : h2.set[p] = h.set[p]
    BY <1>2, <1>6 DEF Ec, EcParts
<1>8. h2 \in EcFound
    <2>1. h2 = [uuid |-> h2.uuid, set |-> h2.set, stale |-> h2.stale, shared |-> h2.shared]
        BY <1>2, <1>4 DEF EcFound
    <2>2. /\ h2.uuid \in EcIds \cup {NoSet} /\ h2.shared \in BOOLEAN
          /\ h2.stale \in SUBSET EcParts
        BY <1>2, <1>6 DEF EcFound, EcParts
    <2>3. QED
        BY <1>7, <2>1, <2>2 DEF EcFound
<1>9. EcHolds(h2, ecs)
    <2>1. EcKnown(h2, ecs)
        BY <1>2, <1>6, <1>8 DEF EcKnown
    <2>2. EcCopy(h2, {}, ecs)
        BY <1>1, <1>6, <1>7, <2>1 DEF EcCopy
    <2>3. EcSharedNoted(h2, ecs)
        BY <1>1, <1>6, <1>7 DEF EcSharedNoted
    <2>4. QED
        BY <2>2, <2>3 DEF EcHolds
<1>10. EcStands("move", j, h2, h, lookup[c], ecs)
    <2>1. j.op = "move"
        OBVIOUS
    <2> HIDE DEF j
    <2>2. EcJobOK(j) /\ EcWorks("move", j, h, ecs)
        BY <1>2, <2>1 DEF EcJobOK, EcWorks
    <2>3. QED
        BY <2>2 DEF EcStands
<1>11. QED
    BY <1>3, <1>5, <1>9, <1>10, EcQuiet DEF h2

LEMMA EcCallObjectInv ==
    ASSUME EcInv, NEW c \in Clients, EcCallObject(c)
    PROVE  EcInv'
<1> DEFINE h == ec_held[c]
<1>1. h # NoSet /\ ecs' = ecs
    BY DEF EcCallObject
<1>2. EcShape /\ EcHolds(h, ecs) /\ EcCopy(h, {}, ecs)
    BY <1>1, EcOne DEF EcHolds
<1>3. h \in EcFound /\ h.set \in Ec /\ EcKnown(h, ecs)
    BY <1>2 DEF EcCopy, EcKnown, EcFound
<1>4. CASE /\ Begin(c, [op |-> "delete", arg |-> EcAtHand(c)], "delete")
           /\ ec_found' = [ec_found EXCEPT ![c] = ec_held[c]]
           /\ UNCHANGED <<ec_held, lookup, unlisted>>
    <2> DEFINE j == [op |-> "delete", arg |-> EcAtHand(c)]
    <2>1. pc'[c] = "delete" /\ job'[c] = j /\ EcElsewhere(c)
        BY <1>2, <1>4, EcMoves
    <2>2. /\ EcKeepsOthers(c) /\ ec_found'[c] = h /\ lookup'[c] = lookup[c]
          /\ ec_held'[c] = h
        BY <1>2, <1>4 DEF EcKeepsOthers, EcShape
    <2>3. j.op = "delete"
        OBVIOUS
    <2> HIDE DEF j
    <2>4. EcJobOK(j) /\ EcWorks("delete", j, h, ecs)
        BY <1>3, <2>3 DEF EcJobOK, EcWorks
    <2>5. EcStands("delete", j, h, h, lookup[c], ecs)
        BY <2>4 DEF EcStands
    <2>6. QED
        BY <1>1, <1>2, <2>1, <2>2, <2>5, EcQuiet
<1>5. ASSUME NEW n \in NewSetNames, NEW f \in {h.set.folder, "new"},
             Begin(c, [op |-> "copy", name |-> n, folder |-> f], "page"),
             LooksFirst(c, "names", n, NoSet),
             ec_found' = [ec_found EXCEPT ![c] = [h EXCEPT
                            !.uuid = NoSet, !.set.folder = "root", !.stale = {}]],
             UNCHANGED <<ec_held, unlisted>>
      PROVE  EcInv'
    <2> DEFINE j == [op |-> "copy", name |-> n, folder |-> f]
               l == Look("names", n, NoSet)
               x == [h EXCEPT !.uuid = NoSet, !.set.folder = "root", !.stale = {}]
    <2>1. pc'[c] = "page" /\ job'[c] = j /\ EcElsewhere(c)
        BY <1>2, <1>5, EcMoves
    <2>2. /\ EcKeepsOthers(c) /\ ec_found'[c] = x /\ lookup'[c] = l /\ ec_held'[c] = h
        BY <1>2, <1>5 DEF EcKeepsOthers, EcShape, LooksFirst
    <2>3. x = [h EXCEPT !.uuid = NoSet, !.set.folder = "root", !.stale = {}]
        OBVIOUS
    <2> HIDE DEF x
    <2>4. x \in EcFound
        <3>1. /\ x.uuid = NoSet /\ x.stale = {} /\ x.shared = h.shared
              /\ x.set = [h.set EXCEPT !.folder = "root"]
            BY <1>3, <2>3 DEF EcFound
        <3>2. x.set \in Ec
            BY <1>3, <3>1 DEF Ec
        <3>3. x = [uuid |-> x.uuid, set |-> x.set, stale |-> x.stale, shared |-> x.shared]
            BY <1>3, <2>3 DEF EcFound
        <3>4. h.shared \in BOOLEAN
            BY <1>3 DEF EcFound
        <3>5. QED
            BY <3>1, <3>2, <3>3, <3>4 DEF EcFound
    <2>5. EcJobOK(j) /\ j.op = "copy"
        <3>1. f \in {"root", "old", "new"} /\ n \in SetNames
            BY <1>3, EnforcementAssumption DEF Ec
        <3>2. QED
            BY <3>1 DEF EcJobOK
    <2>6. /\ DOMAIN l = {"why", "name", "uuid", "offset", "rows", "names"}
          /\ l.why = "names" /\ l.rows = << >>
        BY LookShape
    <2> HIDE DEF j, l
    <2>7. EcLooks(j, h, x, l, ecs)
        BY <2>4, <2>5, <2>6 DEF EcLooks
    <2>8. EcStands("page", j, h, x, l, ecs)
        BY <2>5, <2>7 DEF EcStands
    <2>9. QED
        BY <1>1, <1>2, <2>1, <2>2, <2>8, EcQuiet
<1>6. QED
    BY <1>1, <1>4, <1>5, EcRedescribeInv, EcMoveHeldInv DEF EcCallObject

\* A lookup goes on for what it was begun for.
LEMMA EcLooksOnInv ==
    ASSUME EcInv, NEW c \in Clients, pc[c] \in {"page", "full"}, NEW look,
           DOMAIN look = DOMAIN lookup[c], look.why = lookup[c].why,
           look.name = lookup[c].name, look.uuid = lookup[c].uuid,
           look.why = "names" => look.rows = << >>,
           LooksOn(c, look), ecs' = ecs, ec_held' = ec_held
    PROVE  EcInv'
<1>1. /\ EcShape /\ EcHolds(ec_held[c], ecs)
      /\ EcStands(pc[c], job[c], ec_held[c], ec_found[c], lookup[c], ecs)
    BY EcOne
<1>2. EcJobOK(job[c]) /\ EcLooks(job[c], ec_held[c], ec_found[c], lookup[c], ecs)
    BY <1>1 DEF EcStands, EcWorks
<1>3. /\ pc'[c] = IF look.rows = << >> THEN "page" ELSE "full"
      /\ job'[c] = job[c] /\ EcElsewhere(c)
    BY <1>1, EcMoves DEF LooksOn
<1>4. EcKeepsOthers(c) /\ lookup'[c] = look /\ ec_found'[c] = ec_found[c]
    BY <1>1 DEF LooksOn, EcKeepsOthers, EcShape
<1>5. EcLooks(job[c], ec_held[c], ec_found[c], look, ecs)
    BY <1>2 DEF EcLooks, LookedUp
<1>6. EcStands(pc'[c], job[c], ec_held[c], ec_found[c], look, ecs)
    BY <1>2, <1>3, <1>5 DEF EcStands
<1>7. QED
    BY <1>1, <1>3, <1>4, <1>6, EcQuiet

\* After a lookup the call goes on with its request.
LEMMA EcGoesInv ==
    ASSUME EcInv, NEW c \in Clients, NEW to, NEW x, EcGoes(c, to, x),
           EcJobOK(job[c]), EcWorks(to, job[c], x, ecs), ecs' = ecs, ec_held' = ec_held
    PROVE  EcInv'
<1>1. EcShape /\ EcHolds(ec_held[c], ecs)
    BY EcOne
<1>2. pc'[c] = to /\ job'[c] = job[c] /\ EcElsewhere(c)
    BY <1>1, EcMoves DEF EcGoes
<1>3. EcKeepsOthers(c) /\ ec_found'[c] = x
    BY <1>1 DEF EcGoes, EcKeepsOthers, EcShape
<1>4. EcStands(to, job[c], ec_held[c], x, lookup'[c], ecs)
    BY DEF EcStands
<1>5. QED
    BY <1>1, <1>2, <1>3, <1>4, EcQuiet

\* A copy is given its name.
LEMMA EcRenamed ==
    ASSUME NEW x \in EcFound, NEW n \in SetNames
    PROVE  LET y == [x EXCEPT !.set.name = n] IN
           /\ y \in EcFound
           /\ EcCopy(x, {}, ecs) => EcCopy(y, {"name"}, ecs)
<1> DEFINE y == [x EXCEPT !.set.name = n]
<1>1. y = [x EXCEPT !.set.name = n]
    OBVIOUS
<1> HIDE DEF y
<1>2. x.set \in Ec
    BY DEF EcFound
<1>3. /\ y.uuid = x.uuid /\ y.stale = x.stale /\ y.shared = x.shared
      /\ y.set = [x.set EXCEPT !.name = n]
    BY <1>1 DEF EcFound
<1>4. y.set \in Ec /\ \A p \in EcParts \ {"name"} : y.set[p] = x.set[p]
    BY <1>2, <1>3 DEF Ec, EcParts
<1>5. y \in EcFound
    <2>1. y = [uuid |-> y.uuid, set |-> y.set, stale |-> y.stale, shared |-> y.shared]
        BY <1>1 DEF EcFound
    <2>2. y.uuid \in EcIds \cup {NoSet} /\ y.stale \in SUBSET EcParts /\ y.shared \in BOOLEAN
        BY <1>3 DEF EcFound
    <2>3. QED
        BY <1>4, <2>1, <2>2 DEF EcFound
<1>6. EcCopy(x, {}, ecs) => EcCopy(y, {"name"}, ecs)
    BY <1>3, <1>4, <1>5 DEF EcCopy, EcKnown
<1>7. QED
    BY <1>5, <1>6 DEF y

\* Where a lookup has found nothing, names are free.
LEMMA EcNoneInv ==
    ASSUME EcInv, NEW c \in Clients, pc[c] = "page", EcNone(c), ecs' = ecs, ec_held' = ec_held
    PROVE  EcInv'
<1> DEFINE j == job[c]
           f == ec_found[c]
           l == lookup[c]
<1>1. EcJobOK(j) /\ EcLooks(j, ec_held[c], f, l, ecs)
    BY EcOne DEF EcStands, EcWorks
<1>2. CASE l.why = "free"
    <2>1. EcGoes(c, IF j.op = "rename" THEN "put" ELSE "create",
                 [f EXCEPT !.set.name = j.name])
        BY <1>2 DEF EcNone
    <2>2. \/ j.op = "rename" /\ EcCopy(f, {}, ecs)
          \/ j.op = "create" /\ f \in EcFound
        BY <1>1, <1>2 DEF EcLooks
    <2>3. f \in EcFound /\ j.name \in SetNames
        BY <1>1, <2>2 DEF EcJobOK, EcCopy, EcKnown
    <2> DEFINE y == [f EXCEPT !.set.name = j.name]
    <2>4. y \in EcFound /\ (EcCopy(f, {}, ecs) => EcCopy(y, {"name"}, ecs))
        BY <2>3, EcRenamed
    <2> HIDE DEF y
    <2>5. EcWorks(IF j.op = "rename" THEN "put" ELSE "create", j, y, ecs)
        <3>1. CASE j.op = "rename"
            <4>1. EcMeant(j) = {"name"}
                BY <3>1 DEF EcMeant
            <4>2. QED
                BY <2>2, <2>4, <3>1, <4>1 DEF EcWorks
        <3>2. CASE j.op = "create"
            BY <2>4, <3>2 DEF EcWorks
        <3>3. QED
            BY <2>2, <3>1, <3>2
    <2>6. QED
        BY <1>1, <2>1, <2>5, EcGoesInv DEF y
<1>3. CASE l.why = "names"
    <2>1. PICK n \in SetNames : EcGoes(c, "create", [f EXCEPT !.set.name = n])
        BY <1>3 DEF EcNone
    <2>2. j.op = "copy" /\ f \in EcFound
        BY <1>1, <1>3 DEF EcLooks
    <2> DEFINE y == [f EXCEPT !.set.name = n]
    <2>3. y \in EcFound
        BY <2>2, EcRenamed
    <2> HIDE DEF y
    <2>4. EcWorks("create", j, y, ecs)
        BY <2>2, <2>3 DEF EcWorks
    <2>5. QED
        BY <1>1, <2>1, <2>4, EcGoesInv DEF y
<1>4. CASE l.why \notin {"free", "names"}
    BY <1>4, EcEndsInv DEF EcNone
<1>5. QED
    BY <1>2, <1>3, <1>4

LEMMA EcPageInv ==
    ASSUME EcInv, NEW c \in Clients, EcPage(c)
    PROVE  EcInv'
<1> DEFINE look == lookup[c]
           page == Window(EcList, look.offset, PageLimit)
           next == [look EXCEPT !.offset = NextOffset(look, page)]
<1>1. pc[c] = "page" /\ ecs' = ecs /\ ec_held' = ec_held
    BY DEF EcPage
<1>2. EcLooks(job[c], ec_held[c], ec_found[c], look, ecs)
    BY <1>1, EcOne DEF EcStands, EcWorks
<1>3. DOMAIN look = {"why", "name", "uuid", "offset", "rows", "names"}
    BY <1>2 DEF EcLooks
<1> HIDE DEF page
<1>4. /\ DOMAIN next = DOMAIN look /\ next.why = look.why /\ next.name = look.name
      /\ next.uuid = look.uuid /\ next.rows = look.rows
    BY <1>3
<1>5. CASE page = << >> /\ EcNone(c)
    BY <1>1, <1>5, EcNoneInv
<1> HIDE DEF next
<1>6. ASSUME look.why = "names", NEW more, LooksOn(c, [next EXCEPT !.names = more])
      PROVE  EcInv'
    <2> DEFINE on == [next EXCEPT !.names = more]
    <2>1. /\ DOMAIN on = DOMAIN look /\ on.why = look.why /\ on.name = look.name
          /\ on.uuid = look.uuid /\ on.rows = look.rows
        BY <1>3, <1>4
    <2>2. look.rows = << >>
        BY <1>2, <1>6 DEF EcLooks
    <2> HIDE DEF on
    <2>3. QED
        BY <1>1, <1>6, <2>1, <2>2, EcLooksOnInv DEF on
<1>7. ASSUME look.why # "names", LooksOn(c, [next EXCEPT !.rows = page])
      PROVE  EcInv'
    <2> DEFINE on == [next EXCEPT !.rows = page]
    <2>1. /\ DOMAIN on = DOMAIN look /\ on.why = look.why /\ on.name = look.name
          /\ on.uuid = look.uuid
        BY <1>3, <1>4
    <2> HIDE DEF on
    <2>2. QED
        BY <1>1, <1>7, <2>1, EcLooksOnInv DEF on
<1>8. \/ page = << >> /\ EcNone(c)
      \/ /\ look.why = "names"
         /\ LooksOn(c, [next EXCEPT !.names = next.names \cup
                                      {ecs[page[n]].name : n \in DOMAIN page}])
      \/ look.why # "names" /\ LooksOn(c, [next EXCEPT !.rows = page])
    <2>1. next.why = look.why
        BY <1>4
    <2>2. [next EXCEPT !.names = @ \cup {ecs[page[n]].name : n \in DOMAIN page}]
           = [next EXCEPT !.names = next.names \cup {ecs[page[n]].name : n \in DOMAIN page}]
        BY <1>3, <1>4
    <2>3. QED
        BY <2>2 DEF EcPage, page, next
<1>9. QED
    BY <1>5, <1>6, <1>7, <1>8

\* The ways a call goes on with the set it has found.
LEMMA EcTakesCases ==
    ASSUME NEW c \in Clients, NEW u, EcTakes(c, u), job[c].op \in FindOps
    PROVE  LET x == [EcFoundAs(u) EXCEPT !.set = EcEdited(job[c], ecs[u])] IN
           \/ EcEnds(c, "returned")
           \/ EcEnds(c, "raised")
           \/ /\ job[c].op = "rename" /\ Go(c, "page")
              /\ LooksFirst(c, "free", job[c].name, NoSet)
              /\ ec_found' = [ec_found EXCEPT ![c] = x]
           \/ job[c].op \in {"describe", "move", "delete", "clone"} /\ EcGoes(c, job[c].op, x)
           \/ job[c].op \in {"add", "remove", "schedule", "query"} /\ EcGoes(c, "put", x)
<1> DEFINE x == [EcFoundAs(u) EXCEPT !.set = EcEdited(job[c], ecs[u])]
<1>1. EcRefused(job[c], ecs[u]) => job[c].op \in {"remove", "schedule"}
    BY DEF EcRefused
<1>2. CASE EcRefused(job[c], ecs[u])
    BY <1>1, <1>2 DEF EcTakes
<1>3. CASE ~EcRefused(job[c], ecs[u])
    <2> HIDE DEF x
    <2>1. CASE job[c].op = "get"
        BY <1>3, <2>1 DEF EcTakes
    <2>2. CASE job[c].op = "rename"
        BY <1>3, <2>2 DEF EcTakes, x
    <2>3. CASE job[c].op \in {"describe", "move", "delete", "clone"}
        BY <1>3, <2>3 DEF EcTakes, x
    <2>4. CASE job[c].op \in {"add", "remove", "schedule", "query"}
        BY <1>3, <2>4 DEF EcTakes, x
    <2>5. QED
        BY <2>1, <2>2, <2>3, <2>4 DEF FindOps
<1>4. QED
    BY <1>2, <1>3

LEMMA EcTakesInv ==
    ASSUME EcInv, NEW c \in Clients, pc[c] = "full", lookup[c].why = "find",
           NEW u \in EcsIn(ecs), EcTakes(c, u), ecs' = ecs,
           ec_held' = IF told' = "returned"
                      THEN [ec_held EXCEPT ![c] = EcFoundAs(u)] ELSE ec_held
    PROVE  EcInv'
<1> DEFINE j == job[c]
           x == [EcFoundAs(u) EXCEPT !.set = EcEdited(j, ecs[u])]
<1>1. EcShape /\ EcHolds(ec_held[c], ecs)
    BY EcOne
<1>2. EcJobOK(j) /\ j.op \in FindOps
    BY EcOne DEF EcStands, EcWorks, EcLooks
<1>3. /\ EcCopy(x, EcMeant(j), ecs) /\ EcKnown(x, ecs)
      /\ j.op = "rename" => EcCopy(x, {}, ecs)
      /\ j.op = "describe" /\ j.append => Appended(x, ecs)
    BY <1>1, <1>2, EcEditedCopy DEF EcCopy
<1> HIDE DEF x
<1>4. CASE EcEnds(c, "returned") \/ EcEnds(c, "raised")
    BY <1>1, <1>4, EcEndsInv
<1>5. CASE /\ j.op = "rename" /\ Go(c, "page") /\ LooksFirst(c, "free", j.name, NoSet)
           /\ ec_found' = [ec_found EXCEPT ![c] = x]
    <2> DEFINE l == Look("free", j.name, NoSet)
    <2>1. pc'[c] = "page" /\ job'[c] = j /\ told' = "none" /\ EcElsewhere(c)
        BY <1>1, <1>5, EcMoves
    <2>2. /\ ec_held' = ec_held /\ EcKeepsOthers(c) /\ ec_found'[c] = x /\ lookup'[c] = l
        BY <1>1, <1>5, <2>1 DEF LooksFirst, EcKeepsOthers, EcShape
    <2>3. DOMAIN l = {"why", "name", "uuid", "offset", "rows", "names"} /\ l.why = "free"
        BY LookShape
    <2> HIDE DEF l
    <2>4. EcLooks(j, ec_held[c], x, l, ecs)
        BY <1>3, <1>5, <2>3 DEF EcLooks
    <2>5. EcStands("page", j, ec_held[c], x, l, ecs)
        BY <1>2, <2>4 DEF EcStands
    <2>6. QED
        BY <1>1, <2>1, <2>2, <2>5, EcQuiet
<1>6. ASSUME NEW to, EcGoes(c, to, x), EcWorks(to, j, x, ecs)
      PROVE  EcInv'
    <2>1. told' = "none"
        BY <1>1, <1>6, EcMoves DEF EcGoes
    <2>2. QED
        BY <1>2, <1>6, <2>1, EcGoesInv
<1>7. j.op \in {"describe", "move", "delete", "clone"} => EcWorks(j.op, j, x, ecs)
    BY <1>3 DEF EcWorks
<1>8. j.op \in {"add", "remove", "schedule", "query"} => EcWorks("put", j, x, ecs)
    BY <1>3 DEF EcWorks
<1>9. QED
    BY <1>2, <1>4, <1>5, <1>6, <1>7, <1>8, EcTakesCases DEF x

\* What a lookup makes of the next row.
EcMatches(u, l) == u \in EcsIn(ecs) /\ (ecs[u].name = l.name \/ u = l.uuid)

LEMMA EcFullCases ==
    ASSUME EcInv, NEW c \in Clients, EcFull(c)
    PROVE  LET l == lookup[c]
               u == Head(l.rows)
           IN  \/ u \notin EcsIn(ecs) /\ EcEnds(c, "failed")
               \/ /\ u \in EcsIn(ecs) /\ ~EcMatches(u, l)
                  /\ LooksOn(c, [l EXCEPT !.rows = Tail(l.rows)])
               \/ EcMatches(u, l) /\ l.why = "find" /\ EcTakes(c, u)
               \/ EcMatches(u, l) /\ l.why = "free" /\ EcEnds(c, "raised")
               \/ EcMatches(u, l) /\ l.why = "back" /\ EcEnds(c, "returned")
<1> DEFINE l == lookup[c]
           u == Head(l.rows)
<1>1. pc[c] = "full"
    BY DEF EcFull
<1>2. EcLooks(job[c], ec_held[c], ec_found[c], l, ecs) /\ l.why # "names"
    BY <1>1, EcOne DEF EcStands, EcWorks
<1>3. /\ l.why \in {"find", "free", "back"}
      /\ DOMAIN l = {"why", "name", "uuid", "offset", "rows", "names"}
    BY <1>2 DEF EcLooks
<1>4. [l EXCEPT !.rows = Tail(@)] = [l EXCEPT !.rows = Tail(l.rows)]
    BY <1>3
<1>5. CASE u \notin EcsIn(ecs)
    BY <1>5 DEF EcFull
<1>6. CASE u \in EcsIn(ecs) /\ ~EcMatches(u, l)
    BY <1>4, <1>6 DEF EcFull, EcMatches
<1>7. CASE EcMatches(u, l) /\ l.why = "find"
    BY <1>7 DEF EcFull, EcMatches
<1>8. CASE EcMatches(u, l) /\ l.why = "free"
    BY <1>8 DEF EcFull, EcMatches
<1>9. CASE EcMatches(u, l) /\ l.why = "back"
    BY <1>9 DEF EcFull, EcMatches
<1>10. QED
    BY <1>3, <1>5, <1>6, <1>7, <1>8, <1>9 DEF EcMatches

LEMMA EcFullInv ==
    ASSUME EcInv, NEW c \in Clients, EcFull(c)
    PROVE  EcInv'
<1> DEFINE l == lookup[c]
           u == Head(l.rows)
<1>1. pc[c] = "full" /\ ecs' = ecs
      /\ ec_held' = IF told' = "returned"
                    THEN [ec_held EXCEPT ![c] = EcFoundAs(u)] ELSE ec_held
    BY DEF EcFull
<1>2. EcLooks(job[c], ec_held[c], ec_found[c], l, ecs) /\ l.why # "names" /\ EcShape
    BY <1>1, EcOne DEF EcStands, EcWorks
<1>3. CASE u \notin EcsIn(ecs) /\ EcEnds(c, "failed")
    <2>1. ec_held' = ec_held
        BY <1>1, <1>2, <1>3, EcEndsMoves
    <2>2. QED
        BY <1>1, <1>3, <2>1, EcEndsInv
<1>4. CASE LooksOn(c, [l EXCEPT !.rows = Tail(l.rows)])
    <2> DEFINE on == [l EXCEPT !.rows = Tail(l.rows)]
    <2>1. ec_held' = ec_held
        BY <1>1, <1>2, <1>4, EcMoves DEF LooksOn
    <2>2. /\ DOMAIN on = DOMAIN l /\ on.why = l.why /\ on.name = l.name
          /\ on.uuid = l.uuid
        BY <1>2 DEF EcLooks
    <2> HIDE DEF on
    <2>3. QED
        BY <1>1, <1>2, <1>4, <2>1, <2>2, EcLooksOnInv DEF on
<1> HIDE DEF u
<1>5. CASE EcMatches(u, l) /\ l.why = "find" /\ EcTakes(c, u)
    BY <1>1, <1>5, EcTakesInv DEF EcMatches
<1>6. CASE EcMatches(u, l) /\ l.why = "free" /\ EcEnds(c, "raised")
    <2>1. ec_held' = ec_held
        BY <1>1, <1>2, <1>6, EcEndsMoves
    <2>2. QED
        BY <1>1, <1>6, <2>1, EcEndsInv
<1>7. CASE EcMatches(u, l) /\ l.why = "back" /\ EcEnds(c, "returned")
    BY <1>1, <1>7, EcEndsInv DEF EcMatches
<1>8. QED
    BY <1>3, <1>4, <1>5, <1>6, <1>7, EcFullCases DEF u

\* A set as it was just written.
LEMMA EcMineKnown ==
    ASSUME EcShape, NEW es, EcOnwards(es), NEW c \in Clients, ec_found[c] \in EcFound,
           NEW u \in EcIds, es[u] # NoSet, NEW x,
           x = [uuid |-> u, set |-> IF u \in EcsIn(es) THEN es[u] ELSE ec_found[c].set,
                stale |-> {}, shared |-> EcAware(ec_found, es)[c].shared]
    PROVE  EcKnown(x, es) /\ x.uuid = u /\ x.stale = {}
<1>1. EcAware(ec_found, es)[c] \in EcFound
    BY EcAwareCopies
<1>2. EcAware(ec_found, es)[c].shared \in BOOLEAN /\ ec_found[c].set \in Ec
    BY <1>1 DEF EcFound
<1>3. u \in EcsIn(es) => es[u] \in Ec
    BY EcsInTyped DEF EcOnwards
<1>4. (IF u \in EcsIn(es) THEN es[u] ELSE ec_found[c].set) \in Ec
    BY <1>2, <1>3
<1>5. x \in EcFound
    BY <1>2, <1>4 DEF EcFound
<1>6. QED
    BY <1>5 DEF EcKnown

\* What is written is noted in every copy.
LEMMA EcWritesInv ==
    ASSUME EcInv, NEW c \in Clients, pc[c] \notin {"idle", "page", "full"},
           NEW es, EcOnwards(es), NEW u \in EcIds, es[u] # NoSet, ec_found[c] \in EcFound,
           NEW to, NEW name, EcWrites(c, es, u, to, name),
           to = "move" => job[c].op \in {"create", "copy", "clone"},
           to = "back" /\ job[c].op \in {"create", "copy", "clone", "move"} /\ u \in EcsIn(es) =>
                 \/ es[u].folder = IF job[c].op = "move" THEN "new" ELSE job[c].folder
                 \/ job[c].op # "move" /\ job[c].folder = "root"
    PROVE  EcInv'
<1> DEFINE copies == EcAware(ec_found, es)
           mine == [uuid |-> u, set |-> IF u \in EcsIn(es) THEN es[u] ELSE ec_found[c].set,
                    stale |-> {}, shared |-> copies[c].shared]
<1>1. EcShape /\ \A d \in Clients :
         /\ EcHolds(ec_held[d], ecs)
         /\ EcStands(pc[d], job[d], ec_held[d], ec_found[d], lookup[d], ecs)
    BY EcOne
<1>2. EcKnown(mine, es) /\ mine.uuid = u /\ mine.stale = {}
    BY <1>1, EcMineKnown
<1>3. ecs' = es /\ ec_held' = EcAware(ec_held, es) /\ DOMAIN copies = Clients
    BY DEF EcWrites, EcAware
<1>4. \/ /\ \E how : End(c, how)
         /\ ec_found' = [copies EXCEPT ![c] = NoSet] /\ UNCHANGED lookup
      \/ /\ to = "back" /\ Go(c, "page")
         /\ lookup' = [lookup EXCEPT ![c] = Look("back", name, u)]
         /\ ec_found' = [copies EXCEPT ![c] = mine]
      \/ /\ to = "move" /\ Go(c, "move")
         /\ ec_found' = [copies EXCEPT ![c] = mine] /\ UNCHANGED lookup
    BY DEF EcWrites
<1> HIDE DEF copies, mine
<1>5. /\ EcElsewhere(c)
      /\ DOMAIN ec_found' = Clients /\ DOMAIN lookup' = Clients
      /\ \A d \in Clients \ {c} : ec_found'[d] = copies[d] /\ lookup'[d] = lookup[d]
    BY <1>1, <1>3, <1>4, EcMoves DEF EcShape
<1>6. DOMAIN ec_held' = Clients
    BY <1>3 DEF EcAware
<1>7. EcShape'
    BY <1>1, <1>3, <1>5, <1>6 DEF EcShape, EcElsewhere, EcOnwards
<1>8. ASSUME NEW d \in Clients
      PROVE  EcHolds(ec_held'[d], es)
    BY <1>1, <1>3, EcHeldAware
<1>9. ASSUME NEW d \in Clients \ {c}
      PROVE  EcStands(pc'[d], job'[d], ec_held'[d], ec_found'[d], lookup'[d], es)
    <2>1. EcStands(pc[d], job[d], EcAware(ec_held, es)[d], copies[d], lookup[d], es)
        BY <1>1, EcFoundAware DEF copies
    <2>2. QED
        BY <1>3, <1>5, <2>1 DEF EcElsewhere
<1>10. EcJobOK(job[c])
    BY <1>1 DEF EcStands
<1>11. EcStands(pc'[c], job'[c], ec_held'[c], ec_found'[c], lookup'[c], es)
    <2>1. CASE /\ \E how : End(c, how)
               /\ ec_found' = [copies EXCEPT ![c] = NoSet] /\ UNCHANGED lookup
        <3>1. pc'[c] = "idle" /\ ec_found'[c] = NoSet
            BY <1>1, <1>3, <2>1, EcMoves
        <3>2. QED
            BY <3>1 DEF EcStands
    <2>2. CASE /\ to = "back" /\ Go(c, "page")
               /\ lookup' = [lookup EXCEPT ![c] = Look("back", name, u)]
               /\ ec_found' = [copies EXCEPT ![c] = mine]
        <3> DEFINE l == Look("back", name, u)
        <3>1. /\ pc'[c] = "page" /\ job'[c] = job[c]
              /\ ec_found'[c] = mine /\ lookup'[c] = l
            BY <1>1, <1>3, <2>2, EcMoves DEF EcShape
        <3>2. DOMAIN l = {"why", "name", "uuid", "offset", "rows", "names"} /\ l.why = "back"
            BY LookShape
        <3> HIDE DEF l
        <3>3. job[c].op \in {"create", "copy", "clone", "move"} => Placed(mine, job[c], es)
            BY <1>2, <2>2 DEF Placed
        <3>4. mine \in EcFound
            BY <1>2 DEF EcKnown
        <3>5. EcLooks(job[c], ec_held'[c], mine, l, es)
            BY <1>2, <3>2, <3>3, <3>4 DEF EcLooks
        <3>6. QED
            BY <1>10, <3>1, <3>2, <3>5 DEF EcStands
    <2>3. CASE /\ to = "move" /\ Go(c, "move")
               /\ ec_found' = [copies EXCEPT ![c] = mine] /\ UNCHANGED lookup
        <3>1. pc'[c] = "move" /\ job'[c] = job[c] /\ ec_found'[c] = mine
            BY <1>1, <1>3, <2>3, EcMoves
        <3>2. EcWorks("move", job[c], mine, es)
            BY <1>2, <2>3 DEF EcWorks
        <3>3. QED
            BY <1>10, <3>1, <3>2 DEF EcStands
    <2>4. QED
        BY <1>4, <2>1, <2>2, <2>3
<1>12. QED
    <2>1. ASSUME NEW d \in Clients
          PROVE  EcClientOK(pc'[d], job'[d], ec_held'[d], ec_found'[d], lookup'[d], ecs')
        <3>1. CASE d = c
            BY <1>3, <1>8, <1>11, <3>1 DEF EcClientOK
        <3>2. CASE d # c
            BY <1>3, <1>8, <1>9, <3>2 DEF EcClientOK
        <3>3. QED
            BY <3>1, <3>2
    <2>2. QED
        BY <1>7, <2>1 DEF EcInv

\* The changes that requests make are onwards.
LEMMA EcSetOnwards ==
    ASSUME EcShape, NEW u \in EcIds, ecs[u] # GoneSet, NEW q \in Ec \cup {GoneSet}
    PROVE  /\ EcOnwards([ecs EXCEPT ![u] = q])
           /\ [ecs EXCEPT ![u] = q][u] = q /\ q # NoSet
<1> DEFINE es == [ecs EXCEPT ![u] = q]
<1>1. es \in [EcIds -> Ec \cup {NoSet, GoneSet}]
    BY DEF EcShape
<1>2. es[u] = q /\ \A v \in EcIds \ {u} : es[v] = ecs[v]
    BY DEF EcShape
<1>3. q # NoSet
    BY FirstSetsAssumption
<1>4. ASSUME NEW v \in EcIds, ecs[v] # NoSet
      PROVE  es[v] # NoSet /\ (v \in EcsIn(es) => v \in EcsIn(ecs))
    <2>1. CASE v = u
        BY <1>2, <1>3, <1>4, <2>1 DEF EcsIn
    <2>2. CASE v # u
        BY <1>2, <1>4, <2>2 DEF EcsIn
    <2>3. QED
        BY <2>1, <2>2
<1>5. QED
    BY <1>1, <1>2, <1>3, <1>4 DEF EcOnwards

LEMMA EcSameOnwards ==
    ASSUME EcShape
    PROVE  EcOnwards(ecs)
BY DEF EcShape, EcOnwards

\* What a client that is to write works with.
LEMMA EcWorking ==
    ASSUME EcInv, NEW c \in Clients, pc[c] \notin {"idle", "page", "full"}
    PROVE  /\ EcShape /\ EcJobOK(job[c]) /\ EcWorks(pc[c], job[c], ec_found[c], ecs)
           /\ ec_found[c] \in EcFound /\ ec_found[c].set \in Ec
<1>1. EcShape /\ EcJobOK(job[c]) /\ EcWorks(pc[c], job[c], ec_found[c], ecs)
    BY EcOne DEF EcStands
<1>2. ec_found[c] \in EcFound
    BY <1>1 DEF EcWorks, EcCopy, EcKnown
<1>3. QED
    BY <1>1, <1>2 DEF EcFound

LEMMA EcPutInv ==
    ASSUME EcInv, NEW c \in Clients, EcPut(c)
    PROVE  EcInv' /\ EcOnwards(ecs')
<1> DEFINE f == ec_found[c]
           u == f.uuid
           q == EcSent(ecs[u], f.set)
           es == [ecs EXCEPT ![u] = q]
<1>1. pc[c] = "put" /\ u \in EcsIn(ecs)
    BY DEF EcPut
<1>2. /\ EcShape /\ f \in EcFound /\ f.set \in Ec
      /\ job[c].op \in {"add", "remove", "schedule", "query", "rename"}
    BY <1>1, EcWorking DEF EcWorks
<1>3. u \in EcIds /\ ecs[u] \in Ec /\ ecs[u] # GoneSet
    BY <1>1, <1>2, EcsInTyped, FirstSetsAssumption DEF EcShape
<1>4. q \in Ec
    BY <1>2, <1>3 DEF EcSent, Ec
<1>5. EcWrites(c, es, u, "back", f.set.name)
    <2>1. es = [ecs EXCEPT ![u] = EcSent(@, f.set)]
        BY <1>2, <1>3 DEF EcShape
    <2>2. QED
        BY <2>1 DEF EcPut
<1> HIDE DEF q
<1>6. EcOnwards(es) /\ es[u] # NoSet
    BY <1>2, <1>3, <1>4, EcSetOnwards
<1> HIDE DEF es
<1>7. ecs' = es
    BY <1>5 DEF EcWrites
<1>8. QED
    BY <1>1, <1>2, <1>3, <1>5, <1>6, <1>7, EcWritesInv

LEMMA EcDescribeInv ==
    ASSUME EcInv, NEW c \in Clients, EcDescribe(c)
    PROVE  EcInv' /\ EcOnwards(ecs')
<1> DEFINE f == ec_found[c]
           u == f.uuid
           q == [ecs[u] EXCEPT !.description = f.set.description]
           es == [ecs EXCEPT ![u] = q]
           to == IF job[c].op = "redescribe" THEN "done" ELSE "back"
<1>1. pc[c] = "describe" /\ u \in EcsIn(ecs)
    BY DEF EcDescribe
<1>2. EcShape /\ f \in EcFound /\ f.set \in Ec /\ job[c].op \in {"describe", "redescribe"}
    BY <1>1, EcWorking DEF EcWorks
<1>3. u \in EcIds /\ ecs[u] \in Ec /\ ecs[u] # GoneSet
    BY <1>1, <1>2, EcsInTyped, FirstSetsAssumption DEF EcShape
<1>4. q \in Ec
    BY <1>2, <1>3 DEF Ec
<1>5. EcWrites(c, es, u, to, f.set.name)
    <2>1. es = [ecs EXCEPT ![u].description = f.set.description]
        BY <1>2, <1>3 DEF EcShape
    <2>2. QED
        BY <2>1 DEF EcDescribe
<1> HIDE DEF q
<1>6. EcOnwards(es) /\ es[u] # NoSet
    BY <1>2, <1>3, <1>4, EcSetOnwards
<1> HIDE DEF es
<1>7. ecs' = es
    BY <1>5 DEF EcWrites
<1>8. QED
    BY <1>1, <1>2, <1>3, <1>5, <1>6, <1>7, EcWritesInv

LEMMA EcMoveInv ==
    ASSUME EcInv, NEW c \in Clients, EcMove(c)
    PROVE  EcInv' /\ EcOnwards(ecs')
<1> DEFINE f == ec_found[c]
           u == f.uuid
           to == IF job[c].op = "move" THEN "new" ELSE job[c].folder
           q == [ecs[u] EXCEPT !.folder = to]
           es == IF u \in EcsIn(ecs) THEN [ecs EXCEPT ![u].folder = to] ELSE ecs
           name == IF job[c].op = "move" THEN NoSet ELSE f.set.name
<1>1. pc[c] = "move"
    BY DEF EcMove
<1>2. /\ EcShape /\ EcJobOK(job[c]) /\ EcKnown(f, ecs)
      /\ job[c].op \in {"move", "create", "copy", "clone"}
    BY <1>1, EcWorking DEF EcWorks
<1>3. u \in EcIds /\ f \in EcFound /\ ecs[u] # NoSet
    BY <1>2 DEF EcKnown
<1>4. EcWrites(c, es, u, "back", name)
    BY DEF EcMove
<1>5. to \in {"root", "old", "new"}
    BY <1>2 DEF EcJobOK
<1>6. EcOnwards(es) /\ es[u] # NoSet /\ (u \in EcsIn(es) => es[u].folder = to)
    <2>1. CASE u \in EcsIn(ecs)
        <3>1. ecs[u] \in Ec /\ ecs[u] # GoneSet
            BY <1>2, <2>1, EcsInTyped, FirstSetsAssumption DEF EcShape
        <3>2. q \in Ec /\ q.folder = to
            BY <1>5, <3>1 DEF Ec
        <3>3. es = [ecs EXCEPT ![u] = q]
            BY <1>2, <2>1 DEF EcShape
        <3> HIDE DEF q, es
        <3>4. /\ EcOnwards([ecs EXCEPT ![u] = q])
              /\ [ecs EXCEPT ![u] = q][u] = q /\ q # NoSet
            BY <1>2, <1>3, <3>1, <3>2, EcSetOnwards
        <3>5. QED
            BY <3>2, <3>3, <3>4
    <2>2. CASE u \notin EcsIn(ecs)
        BY <1>2, <1>3, <2>2, EcSameOnwards
    <2>3. QED
        BY <2>1, <2>2
<1> HIDE DEF es
<1>7. u \in EcsIn(es) => es[u].folder = IF job[c].op = "move" THEN "new" ELSE job[c].folder
    BY <1>6
<1>8. ecs' = es
    BY <1>4 DEF EcWrites
<1>9. QED
    BY <1>1, <1>2, <1>3, <1>4, <1>6, <1>7, <1>8, EcWritesInv

LEMMA EcCreateInv ==
    ASSUME EcInv, NEW c \in Clients, EcCreate(c)
    PROVE  EcInv' /\ EcOnwards(ecs')
<1> DEFINE f == ec_found[c]
           to == MovedNext("root", job[c].folder)
<1>1. pc[c] = "create"
    BY DEF EcCreate
<1>2. EcShape /\ f \in EcFound /\ f.set \in Ec /\ job[c].op \in {"create", "copy"}
    BY <1>1, EcWorking DEF EcWorks
<1>3. PICK u \in EcIds : /\ ecs[u] = NoSet
                         /\ EcWrites(c, [ecs EXCEPT ![u] = f.set], u, to, f.set.name)
    BY DEF EcCreate
<1>4. ecs[u] # GoneSet
    BY <1>3, FirstSetsAssumption
<1> DEFINE es == [ecs EXCEPT ![u] = f.set]
<1>5. EcOnwards(es) /\ es[u] # NoSet
    BY <1>2, <1>4, EcSetOnwards
<1>6. EcWrites(c, es, u, to, f.set.name)
    BY <1>3
<1> HIDE DEF es
<1>7. to = "back" => job[c].folder = "root"
    BY DEF MovedNext
<1>8. ecs' = es
    BY <1>6 DEF EcWrites
<1>9. QED
    BY <1>1, <1>2, <1>5, <1>6, <1>7, <1>8, EcWritesInv

LEMMA EcCloneInv ==
    ASSUME EcInv, NEW c \in Clients, EcClone(c)
    PROVE  EcInv' /\ EcOnwards(ecs')
<1> DEFINE f == ec_found[c]
           source == ecs[f.uuid]
<1>1. pc[c] = "clone" /\ f.uuid \in EcsIn(ecs)
    BY DEF EcClone
<1>2. EcShape /\ f \in EcFound /\ EcJobOK(job[c]) /\ job[c].op = "clone"
    BY <1>1, EcWorking DEF EcWorks
<1>3. source \in Ec /\ job[c].name \in SetNames
    BY <1>1, <1>2, EcsInTyped DEF EcShape, EcJobOK
<1>4. PICK u \in EcIds, folder \in {"root", source.folder}, trigger \in {"none", source.trigger} :
         /\ ecs[u] = NoSet
         /\ EcWrites(c, [ecs EXCEPT ![u] = [source EXCEPT !.name = job[c].name,
                                             !.folder = folder, !.trigger = trigger]],
                     u, MovedNext(folder, job[c].folder), job[c].name)
    BY DEF EcClone
<1> DEFINE q == [source EXCEPT !.name = job[c].name, !.folder = folder, !.trigger = trigger]
           es == [ecs EXCEPT ![u] = q]
           to == MovedNext(folder, job[c].folder)
<1>5. q \in Ec /\ q.folder = folder
    BY <1>3, <1>4 DEF Ec
<1>6. ecs[u] # GoneSet
    BY <1>4, FirstSetsAssumption
<1>7. EcWrites(c, es, u, to, job[c].name)
    BY <1>4
<1> HIDE DEF q
<1>8. EcOnwards(es) /\ es[u] = q /\ es[u] # NoSet
    BY <1>2, <1>5, <1>6, EcSetOnwards
<1> HIDE DEF es
<1>9. to = "back" => job[c].folder = "root" \/ es[u].folder = job[c].folder
    BY <1>5, <1>8 DEF MovedNext
<1>10. ecs' = es
    BY <1>7 DEF EcWrites
<1>11. QED
    BY <1>1, <1>2, <1>7, <1>8, <1>9, <1>10, EcWritesInv

LEMMA EcDeleteInv ==
    ASSUME EcInv, NEW c \in Clients, EcDelete(c)
    PROVE  EcInv' /\ EcOnwards(ecs')
<1> DEFINE f == ec_found[c]
           u == f.uuid
           es == IF u \in EcsIn(ecs) THEN [ecs EXCEPT ![u] = GoneSet] ELSE ecs
<1>1. pc[c] = "delete" /\ EcWrites(c, es, u, "done", NoSet)
    BY DEF EcDelete
<1>2. EcShape /\ EcKnown(f, ecs) /\ job[c].op = "delete"
    BY <1>1, EcWorking DEF EcWorks
<1>3. u \in EcIds /\ f \in EcFound /\ ecs[u] # NoSet
    BY <1>2 DEF EcKnown
<1>4. EcOnwards(es) /\ es[u] # NoSet
    <2>1. CASE u \in EcsIn(ecs)
        <3>1. ecs[u] # GoneSet
            BY <2>1 DEF EcsIn
        <3>2. QED
            BY <1>2, <1>3, <2>1, <3>1, EcSetOnwards
    <2>2. CASE u \notin EcsIn(ecs)
        BY <1>2, <1>3, <2>2, EcSameOnwards
    <2>3. QED
        BY <2>1, <2>2
<1> HIDE DEF es
<1>5. ecs' = es
    BY <1>1 DEF EcWrites
<1>6. QED
    BY <1>1, <1>2, <1>3, <1>4, <1>5, EcWritesInv

LEMMA EcFailInv ==
    ASSUME EcInv, NEW c \in Clients, EcFail(c)
    PROVE  EcInv'
BY EcEndsInv DEF EcFail

LEMMA EcInitInv ==
    ASSUME ClientInit, EnforcementInit
    PROVE  EcInv
<1>1. ASSUME NEW u \in EcIds
      PROVE  ecs[u] \in Ec \cup {NoSet, GoneSet}
    BY FirstSetsAssumption DEF EnforcementInit
<1>2. EcShape
    BY <1>1 DEF EcShape, ClientInit, EnforcementInit
<1>3. ASSUME NEW c \in Clients
      PROVE  EcClientOK(pc[c], job[c], ec_held[c], ec_found[c], lookup[c], ecs)
    <2>1. EcHolds(ec_held[c], ecs)
        <3>1. CASE ec_held[c] = NoSet
            BY <3>1 DEF EcHolds
        <3>2. CASE \E u \in EcsIn(ecs) : ec_held[c] = EcFoundAs(u)
            BY <1>2, <3>2, EcReadCopy
        <3>3. QED
            BY <3>1, <3>2 DEF EnforcementInit
    <2>2. pc[c] = "idle" /\ ec_found[c] = NoSet
        BY DEF ClientInit, EnforcementInit
    <2>3. QED
        BY <2>1, <2>2 DEF EcClientOK, EcStands
<1>4. QED
    BY <1>2, <1>3 DEF EcInv

LEMMA EcInvNext ==
    ASSUME EcInv, [EnforcementNext]_<<enforcementVars, clientVars>>
    PROVE  EcInv'
<1>1. ASSUME NEW c \in Clients,
             \/ EcCall(c) \/ EcCallCreate(c) \/ EcCallObject(c)
             \/ EcPage(c) \/ EcFull(c)
             \/ EcPut(c) \/ EcDescribe(c) \/ EcMove(c)
             \/ EcCreate(c) \/ EcClone(c) \/ EcDelete(c) \/ EcFail(c)
      PROVE  EcInv'
    BY <1>1, EcCallsInv, EcCallObjectInv, EcPageInv, EcFullInv, EcPutInv, EcDescribeInv,
       EcMoveInv, EcCreateInv, EcCloneInv, EcDeleteInv, EcFailInv
<1>2. CASE UNCHANGED <<enforcementVars, clientVars>>
    BY <1>2 DEF enforcementVars, clientVars, EcInv, EcShape
<1>3. QED
    BY <1>1, <1>2 DEF EnforcementNext

LEMMA EcInvariance == EnforcementSpec => []EcInv
<1>1. ClientInit /\ EnforcementInit => EcInv
    BY EcInitInv
<1>2. EcInv /\ [EnforcementNext]_<<enforcementVars, clientVars>> => EcInv'
    BY EcInvNext
<1>3. QED
    BY <1>1, <1>2, PTL DEF EnforcementSpec

\* Who moves does so itself, from where it is.
LEMMA EcMovesItself ==
    ASSUME EcInv, [EnforcementNext]_<<enforcementVars, clientVars>>, NEW c \in Clients,
           pc[c] # "idle", pc'[c] # pc[c]
    PROVE  \/ EcPage(c) \/ EcFull(c) \/ EcPut(c) \/ EcDescribe(c) \/ EcMove(c)
           \/ EcCreate(c) \/ EcClone(c) \/ EcDelete(c) \/ EcFail(c)
<1>1. EcShape
    BY DEF EcInv
<1>2. ~(UNCHANGED <<enforcementVars, clientVars>>)
    BY DEF clientVars
<1>3. PICK d \in Clients :
             \/ EcCall(d) \/ EcCallCreate(d) \/ EcCallObject(d)
             \/ EcPage(d) \/ EcFull(d)
             \/ EcPut(d) \/ EcDescribe(d) \/ EcMove(d)
             \/ EcCreate(d) \/ EcClone(d) \/ EcDelete(d) \/ EcFail(d)
    BY <1>2 DEF EnforcementNext
<1>4. EcElsewhere(d)
    <2>1. \A j, to : Begin(d, j, to) => EcElsewhere(d)
        BY <1>1, EcMoves
    <2>2. \A to : Go(d, to) => EcElsewhere(d)
        BY <1>1, EcMoves
    <2>3. \A how : End(d, how) => EcElsewhere(d)
        BY <1>1, EcMoves
    <2>4. \A how : EcEnds(d, how) => EcElsewhere(d)
        BY <2>3 DEF EcEnds
    <2>5. \A es, u, to, name : EcWrites(d, es, u, to, name) => EcElsewhere(d)
        BY <2>2, <2>3 DEF EcWrites
    <2>6. CASE EcCall(d) \/ EcCallCreate(d) \/ EcCallObject(d)
        BY <2>1, <2>6 DEF EcCall, EcCallCreate, EcCallObject
    <2>7. CASE EcPage(d)
        <3>1. EcNone(d) \/ \E look : LooksOn(d, look)
            BY <2>7 DEF EcPage
        <3>2. CASE \E look : LooksOn(d, look)
            BY <2>2, <3>2 DEF LooksOn
        <3>3. CASE EcNone(d)
            <4>1. \A to, x : EcGoes(d, to, x) => EcElsewhere(d)
                BY <2>2 DEF EcGoes
            <4>2. \/ \E to, x : EcGoes(d, to, x)
                  \/ EcEnds(d, "raised")
                BY <3>3 DEF EcNone
            <4>3. QED
                BY <2>4, <4>1, <4>2
        <3>4. QED
            BY <3>1, <3>2, <3>3
    <2>8. CASE EcFull(d)
        <3>1. \A look : LooksOn(d, look) => EcElsewhere(d)
            BY <2>2 DEF LooksOn
        <3>2. ASSUME NEW u, lookup[d].why = "find", EcTakes(d, u)
              PROVE  EcElsewhere(d)
            <4>1. job[d].op \in FindOps
                BY <2>8, <3>2, EcOne DEF EcFull, EcStands, EcWorks, EcLooks
            <4>2. \A to, x : EcGoes(d, to, x) => EcElsewhere(d)
                BY <2>2 DEF EcGoes
            <4>3. QED
                BY <2>2, <2>4, <3>2, <4>1, <4>2, EcTakesCases
        <3>3. QED
            BY <2>4, <2>8, <3>1, <3>2, EcFullCases
    <2>9. CASE EcPut(d) \/ EcDescribe(d) \/ EcMove(d) \/ EcCreate(d) \/ EcClone(d)
               \/ EcDelete(d)
        BY <2>5, <2>9 DEF EcPut, EcDescribe, EcMove, EcCreate, EcClone, EcDelete
    <2>10. CASE EcFail(d)
        BY <2>4, <2>10 DEF EcFail
    <2>11. QED
        BY <1>3, <2>6, <2>7, <2>8, <2>9, <2>10
<1>5. d = c
    BY <1>4 DEF EcElsewhere
<1>6. ~(EcCall(c) \/ EcCallCreate(c) \/ EcCallObject(c))
    BY DEF EcCall, EcCallCreate, EcCallObject, Begin
<1>7. QED
    BY <1>3, <1>5, <1>6

\* A step of d takes up nothing for c.
FindsNone(c) == ec_found'[c] = NoSet

LEMMA EcOthersFindNone ==
    ASSUME EcInv, NEW c \in Clients, ec_found[c] = NoSet, NEW d \in Clients, d # c,
             \/ EcCall(d) \/ EcCallCreate(d) \/ EcCallObject(d)
             \/ EcPage(d) \/ EcFull(d)
             \/ EcPut(d) \/ EcDescribe(d) \/ EcMove(d)
             \/ EcCreate(d) \/ EcClone(d) \/ EcDelete(d) \/ EcFail(d)
    PROVE  FindsNone(c)
<1>1. EcShape
    BY DEF EcInv
<1>2. ec_found' = ec_found => FindsNone(c)
    BY DEF FindsNone
<1>3. \A x : ec_found' = [ec_found EXCEPT ![d] = x] => FindsNone(c)
    BY <1>1 DEF EcShape, FindsNone
<1>4. \A es, x : ec_found' = [EcAware(ec_found, es) EXCEPT ![d] = x] => FindsNone(c)
    BY DEF EcAware, FindsNone
<1>5. \A how : EcEnds(d, how) => FindsNone(c)
    BY <1>3 DEF EcEnds
<1>6. \A to, x : EcGoes(d, to, x) => FindsNone(c)
    BY <1>3 DEF EcGoes
<1>7. \A look : LooksOn(d, look) => FindsNone(c)
    BY <1>2 DEF LooksOn
<1>8. \A es, u, to, name : EcWrites(d, es, u, to, name) => FindsNone(c)
    BY <1>4 DEF EcWrites
<1>9. CASE EcCall(d)
    BY <1>2, <1>9 DEF EcCall
<1>10. CASE EcCallCreate(d)
    BY <1>3, <1>10 DEF EcCallCreate
<1>11. CASE EcCallObject(d)
    BY <1>3, <1>11 DEF EcCallObject
<1>12. CASE EcPage(d)
    <2>1. EcNone(d) \/ \E look : LooksOn(d, look)
        BY <1>12 DEF EcPage
    <2>2. EcNone(d) => EcEnds(d, "raised") \/ \E to, x : EcGoes(d, to, x)
        BY DEF EcNone
    <2>3. QED
        BY <1>5, <1>6, <1>7, <2>1, <2>2
<1>13. CASE EcFull(d)
    <2>1. ASSUME NEW u, lookup[d].why = "find", EcTakes(d, u)
          PROVE  FindsNone(c)
        <3>1. job[d].op \in FindOps
            BY <1>13, <2>1, EcOne DEF EcFull, EcStands, EcWorks, EcLooks
        <3>2. QED
            BY <1>3, <1>5, <1>6, <2>1, <3>1, EcTakesCases
    <2>2. QED
        BY <1>5, <1>7, <1>13, <2>1, EcFullCases
<1>14. CASE EcPut(d) \/ EcDescribe(d) \/ EcMove(d) \/ EcCreate(d) \/ EcClone(d)
            \/ EcDelete(d)
    BY <1>8, <1>14 DEF EcPut, EcDescribe, EcMove, EcCreate, EcClone, EcDelete
<1>15. CASE EcFail(d)
    BY <1>5, <1>15 DEF EcFail
<1>16. QED
    BY <1>9, <1>10, <1>11, <1>12, <1>13, <1>14, <1>15

\* What a lookup that is to find a set takes up is one that matches.
LEMMA EcFindsMatch ==
    ASSUME EcInv, [EnforcementNext]_<<enforcementVars, clientVars>>, NEW c \in Clients,
           pc[c] = "full", lookup[c].why = "find", ec_found'[c] # NoSet
    PROVE  EcMatches(ec_found'[c].uuid, lookup[c])
<1>1. /\ EcShape /\ job[c].op \in FindOps /\ ec_found[c] = NoSet
    BY EcOne DEF EcStands, EcWorks, EcLooks
<1>2. ~(UNCHANGED <<enforcementVars, clientVars>>)
    BY <1>1 DEF enforcementVars
<1>3. PICK d \in Clients :
             \/ EcCall(d) \/ EcCallCreate(d) \/ EcCallObject(d)
             \/ EcPage(d) \/ EcFull(d)
             \/ EcPut(d) \/ EcDescribe(d) \/ EcMove(d)
             \/ EcCreate(d) \/ EcClone(d) \/ EcDelete(d) \/ EcFail(d)
    BY <1>2 DEF EnforcementNext
<1>4. d = c
    BY <1>1, <1>3, EcOthersFindNone DEF FindsNone
<1>5. \A how : ~EcEnds(c, how)
    BY <1>1, EcEndsMoves
<1>6. EcFull(c)
    BY <1>3, <1>4, <1>5 DEF EcCall, EcCallCreate, EcCallObject, Begin, EcPage, EcPut,
       EcDescribe, EcMove, EcCreate, EcClone, EcDelete, EcFail
<1>7. \A look : ~LooksOn(c, look)
    BY <1>1 DEF LooksOn
<1> DEFINE u == Head(lookup[c].rows)
           x == [EcFoundAs(u) EXCEPT !.set = EcEdited(job[c], ecs[u])]
<1>8. EcMatches(u, lookup[c]) /\ EcTakes(c, u)
    BY <1>5, <1>6, <1>7, EcFullCases
<1>9. ec_found' = [ec_found EXCEPT ![c] = x]
    BY <1>1, <1>5, <1>8, EcTakesCases DEF EcGoes
<1>10. x.uuid = u
    BY DEF EcFoundAs
<1> HIDE DEF x
<1>11. ec_found'[c] = x
    BY <1>1, <1>9 DEF EcShape
<1>12. QED
    BY <1>8, <1>10, <1>11

\* A lookup takes another set than the one at hand only if the name is shared.
LEMMA EcTakesTheOneAtHand ==
    ASSUME EcInv, [EnforcementNext]_<<enforcementVars, clientVars>>, NEW c \in Clients,
           pc[c] = "full", lookup[c].why = "find", lookup[c].uuid # NoSet, ec_found'[c] # NoSet
    PROVE  ec_found'[c].uuid = lookup[c].uuid \/ ec_held[c].shared
<1> DEFINE v == ec_found'[c].uuid
<1>1. /\ LookedUp(lookup[c], ec_held[c]) /\ EcHolds(ec_held[c], ecs)
    BY EcOne DEF EcStands, EcWorks, EcLooks
<1>2. /\ ec_held[c] # NoSet /\ lookup[c].uuid = ec_held[c].uuid
      /\ lookup[c].name = ec_held[c].set.name
    BY <1>1 DEF LookedUp
<1>3. EcSharedNoted(ec_held[c], ecs)
    BY <1>1, <1>2 DEF EcHolds
<1>4. v \in EcsIn(ecs) /\ (ecs[v].name = lookup[c].name \/ v = lookup[c].uuid)
    BY EcFindsMatch DEF EcMatches
<1> HIDE DEF v
<1>5. v = lookup[c].uuid \/ ec_held[c].shared
    BY <1>2, <1>3, <1>4 DEF EcSharedNoted
<1>6. QED
    BY <1>5 DEF v

\* A client that leaves a request that writes has failed, or has made it.
LEMMA EcWroteCases ==
    ASSUME EcInv, [EnforcementNext]_<<enforcementVars, clientVars>>, NEW c \in Clients,
           pc[c] \in {"put", "describe", "move", "delete"}, pc'[c] # pc[c]
    PROVE  \/ ecs' = ecs
           \/ EcPut(c) \/ EcDescribe(c) \/ EcMove(c) \/ EcDelete(c)
<1>1. \/ EcPage(c) \/ EcFull(c) \/ EcPut(c) \/ EcDescribe(c) \/ EcMove(c)
      \/ EcCreate(c) \/ EcClone(c) \/ EcDelete(c) \/ EcFail(c)
    BY EcMovesItself
<1>2. ~EcPage(c) /\ ~EcFull(c) /\ ~EcCreate(c) /\ ~EcClone(c)
    BY DEF EcPage, EcFull, EcCreate, EcClone
<1>3. EcFail(c) => ecs' = ecs
    BY DEF EcFail
<1>4. QED
    BY <1>1, <1>2, <1>3

\* What ChangesOnlyMeant says of the sets that a request of c changes.
EcWritesMeant(c) ==
    \A v \in EcsIn(ecs) \cap EcsIn(ecs') : \A p \in EcParts :
       ecs'[v][p] # ecs[v][p] =>
          /\ v = ec_found[c].uuid
          /\ \/ p \in EcMeant(job[c])
             \/ p \in {"name", "actions", "trigger"} \cap ec_found[c].stale

\* A request that writes one set changes only that one.
LEMMA EcWritesOne ==
    ASSUME EcShape, NEW c \in Clients, NEW u, u = ec_found[c].uuid, NEW q,
           ecs' = [ecs EXCEPT ![u] = q],
           u \in EcsIn(ecs) /\ u \in EcsIn(ecs') =>
              \A p \in EcParts : q[p] # ecs[u][p] =>
                 \/ p \in EcMeant(job[c])
                 \/ p \in {"name", "actions", "trigger"} \cap ec_found[c].stale
    PROVE  EcWritesMeant(c)
<1> SUFFICES ASSUME NEW v \in EcsIn(ecs) \cap EcsIn(ecs'), NEW p \in EcParts,
                    ecs'[v][p] # ecs[v][p]
             PROVE  /\ v = ec_found[c].uuid
                    /\ \/ p \in EcMeant(job[c])
                       \/ p \in {"name", "actions", "trigger"} \cap ec_found[c].stale
    BY DEF EcWritesMeant
<1>1. v \in EcIds /\ DOMAIN ecs = EcIds
    BY DEF EcsIn, EcShape
<1>2. v = u
    BY <1>1
<1>3. ecs'[u] = q
    BY <1>1, <1>2
<1>4. QED
    BY <1>2, <1>3

\* put writes the name, the actions and the trigger as they were read, but for
\* the part that is updated.
LEMMA EcPutMeant ==
    ASSUME EcInv, NEW c \in Clients, EcPut(c)
    PROVE  EcWritesMeant(c)
<1> DEFINE f == ec_found[c]
           u == f.uuid
           q == EcSent(ecs[u], f.set)
<1>1. pc[c] = "put" /\ u \in EcsIn(ecs)
    BY DEF EcPut
<1>2. EcShape /\ EcCopy(f, EcMeant(job[c]), ecs) /\ f.set \in Ec
    BY <1>1, EcWorking DEF EcWorks
<1>3. ecs[u] \in Ec
    BY <1>1, <1>2, EcsInTyped DEF EcShape
<1>4. ecs' = [ecs EXCEPT ![u] = q]
    BY DEF EcPut, EcWrites
<1>5. \A p \in EcParts : q[p] = IF p \in {"name", "actions", "trigger"} THEN f.set[p]
                               ELSE ecs[u][p]
    BY <1>3 DEF EcSent, Ec, EcParts
<1> HIDE DEF q
<1>6. ASSUME NEW p \in EcParts, q[p] # ecs[u][p]
      PROVE  \/ p \in EcMeant(job[c])
             \/ p \in {"name", "actions", "trigger"} \cap f.stale
    BY <1>1, <1>2, <1>5, <1>6 DEF EcCopy
<1>7. QED
    BY <1>2, <1>4, <1>6, EcWritesOne

LEMMA EcDescribeMeant ==
    ASSUME EcInv, NEW c \in Clients, EcDescribe(c)
    PROVE  /\ EcWritesMeant(c)
           /\ job[c].append =>
                \/ ecs[ec_found[c].uuid].description \subseteq ecs'[ec_found[c].uuid].description
                \/ "description" \in ec_found[c].stale
<1> DEFINE f == ec_found[c]
           u == f.uuid
           q == [ecs[u] EXCEPT !.description = f.set.description]
<1>1. pc[c] = "describe" /\ u \in EcsIn(ecs)
    BY DEF EcDescribe
<1>2. /\ EcShape /\ job[c].op \in {"describe", "redescribe"}
      /\ job[c].append => Appended(f, ecs)
    BY <1>1, EcWorking DEF EcWorks
<1>3. ecs[u] \in Ec /\ u \in DOMAIN ecs
    BY <1>1, <1>2, EcsInTyped DEF EcShape, EcsIn
<1>4. ecs' = [ecs EXCEPT ![u] = q]
    BY DEF EcDescribe, EcWrites
<1>5. \A p \in EcParts \ {"description"} : q[p] = ecs[u][p]
    BY <1>3 DEF Ec, EcParts
<1>6. q.description = f.set.description
    BY <1>3 DEF Ec
<1> HIDE DEF q
<1>7. EcMeant(job[c]) = {"description"}
    BY <1>2 DEF EcMeant
<1>8. EcWritesMeant(c)
    BY <1>2, <1>4, <1>5, <1>7, EcWritesOne
<1>9. ecs'[u].description = f.set.description
    BY <1>3, <1>4, <1>6
<1>10. QED
    BY <1>1, <1>2, <1>8, <1>9 DEF Appended

LEMMA EcMoveMeant ==
    ASSUME EcInv, NEW c \in Clients, EcMove(c)
    PROVE  EcWritesMeant(c)
<1> DEFINE f == ec_found[c]
           u == f.uuid
           to == IF job[c].op = "move" THEN "new" ELSE job[c].folder
           q == [ecs[u] EXCEPT !.folder = to]
<1>1. pc[c] = "move"
    BY DEF EcMove
<1>2. EcShape /\ job[c].op \in {"move", "create", "copy", "clone"}
    BY <1>1, EcWorking DEF EcWorks
<1>3. ecs' = IF u \in EcsIn(ecs) THEN [ecs EXCEPT ![u].folder = to] ELSE ecs
    BY DEF EcMove, EcWrites
<1>4. CASE u \in EcsIn(ecs)
    <2>1. ecs[u] \in Ec
        BY <1>2, <1>4, EcsInTyped DEF EcShape
    <2>2. ecs' = [ecs EXCEPT ![u] = q]
        BY <1>3, <1>4
    <2>3. \A p \in EcParts \ {"folder"} : q[p] = ecs[u][p]
        BY <2>1 DEF Ec, EcParts
    <2> HIDE DEF q
    <2>4. EcMeant(job[c]) = {"folder"}
        BY <1>2 DEF EcMeant
    <2>5. QED
        BY <1>2, <2>2, <2>3, <2>4, EcWritesOne
<1>5. CASE u \notin EcsIn(ecs)
    BY <1>3, <1>5 DEF EcWritesMeant
<1>6. QED
    BY <1>4, <1>5

LEMMA EcDeleteMeant ==
    ASSUME EcInv, NEW c \in Clients, EcDelete(c)
    PROVE  EcWritesMeant(c)
<1> DEFINE u == ec_found[c].uuid
<1>1. EcShape
    BY DEF EcInv
<1>2. ecs' = IF u \in EcsIn(ecs) THEN [ecs EXCEPT ![u] = GoneSet] ELSE ecs
    BY DEF EcDelete, EcWrites
<1>3. CASE u \in EcsIn(ecs)
    <2>1. ecs' = [ecs EXCEPT ![u] = GoneSet] /\ u \in DOMAIN ecs
        BY <1>1, <1>2, <1>3 DEF EcShape, EcsIn
    <2>2. u \notin EcsIn(ecs')
        BY <2>1 DEF EcsIn
    <2>3. QED
        BY <1>1, <2>1, <2>2, EcWritesOne
<1>4. CASE u \notin EcsIn(ecs)
    BY <1>2, <1>4 DEF EcWritesMeant
<1>5. QED
    BY <1>3, <1>4

\* An update of an enforcement set changes the set it found, that is the one at
\* hand unless its name was shared, and of it the part it is for and what changed
\* since it was read; a text is appended to the description as it was read; and
\* what create, copy and move return is in the folder that was asked for.
THEOREM EnforcementWritesOnlyMeant == EnforcementSpec => SetOnlyMeant
<1>1. ASSUME EcInv, [EnforcementNext]_<<enforcementVars, clientVars>>, NEW c \in Clients
      PROVE  /\ TakesTheOneAtHand(c) /\ ChangesOnlyMeant(c)
             /\ AppendsToDescription(c) /\ ReturnsWhereWanted(c)
    <2>1. TakesTheOneAtHand(c)
        BY <1>1, EcTakesTheOneAtHand DEF TakesTheOneAtHand
    <2>2. ChangesOnlyMeant(c)
        <3>1. ecs' = ecs => EcWritesMeant(c)
            BY DEF EcWritesMeant
        <3>2. WritesSet(c) => EcWritesMeant(c)
            BY <1>1, <3>1, EcWroteCases, EcPutMeant, EcDescribeMeant, EcMoveMeant,
               EcDeleteMeant DEF WritesSet
        <3>3. QED
            BY <3>2 DEF ChangesOnlyMeant, EcWritesMeant
    <2>3. AppendsToDescription(c)
        <3>1. WritesSet(c) /\ pc[c] = "describe" /\ ecs' # ecs => EcDescribe(c)
            BY <1>1, EcWroteCases DEF WritesSet, EcPut, EcMove, EcDelete
        <3>2. QED
            BY <1>1, <3>1, EcDescribeMeant DEF AppendsToDescription
    <2>4. ReturnsWhereWanted(c)
        <3>1. pc[c] = "full" /\ lookup[c].why = "back"
              /\ job[c].op \in {"create", "copy", "clone", "move"} =>
                 Placed(ec_found[c], job[c], ecs)
            BY <1>1, EcOne DEF EcStands, EcWorks, EcLooks
        <3>2. QED
            BY <3>1 DEF ReturnsWhereWanted, Placed
    <2>5. QED
        BY <2>1, <2>2, <2>3, <2>4
<1>2. EcInv /\ [EnforcementNext]_<<enforcementVars, clientVars>> =>
         [ \A c \in Clients :
              /\ TakesTheOneAtHand(c) /\ ChangesOnlyMeant(c)
              /\ AppendsToDescription(c) /\ ReturnsWhereWanted(c)
         ]_<<enforcementVars, clientVars>>
    BY <1>1
<1>3. QED
    BY <1>2, EcInvariance, PTL DEF EnforcementSpec, SetOnlyMeant

-----------------------------------------------------------------------------
(* Names of sets: what a check of one has not met is still ahead of it, or is in
   its history.                                                            *)

\* The sets that a client has in its page, and those in the pages behind it.
InRows(l) == RowsBehind(l.rows, 0)
Ahead(l, es) == RowsBehind(SetLists[EcsIn(es)], l.offset)

\* A client that lists sets is at some place of the list.
EcPlaceOK(p, l) ==
    p \in {"page", "full"} =>
       /\ l.offset \in Nat /\ l.rows \in Seq(EcIds)
       /\ p = "page" <=> l.rows = << >>

\* Who has the name that is checked is still to be listed, or got it since; who
\* has a name that was not met, too; and when a name was free who has it got it
\* since.
EcNamesOK(p, j, f, l, un, es) ==
    /\ p \in {"page", "full"} /\ l.why = "free" =>
          /\ l.name = j.name
          /\ \A v \in EcsIn(es) :
                es[v].name = j.name => v \in un \cup InRows(l) \cup Ahead(l, es)
    /\ p \in {"page", "full"} /\ l.why = "names" =>
          \A v \in EcsIn(es) : v \in un \cup Ahead(l, es) \/ es[v].name \in l.names
    /\ p = "create" \/ (p = "put" /\ j.op = "rename") =>
          \A v \in EcsIn(es) : es[v].name = f.set.name => v \in un

EcNamesInv ==
    /\ DOMAIN unlisted = Clients
    /\ \A c \in Clients :
          /\ EcPlaceOK(pc[c], lookup[c])
          /\ EcNamesOK(pc[c], job[c], ec_found[c], lookup[c], unlisted[c], ecs)

\* Every set is in the list, and a set that is added moves none forward.
LEMMA EcListed ==
    ASSUME NEW S \in SUBSET EcIds
    PROVE  /\ SetLists[S] \in Seq(S) /\ SetLists[S] \in Seq(EcIds)
           /\ IsInjective(SetLists[S])
           /\ S \subseteq RowsBehind(SetLists[S], 0)
           /\ \A T \in SUBSET S : \A k \in Nat :
                 RowsBehind(SetLists[T], k) \cap T \subseteq RowsBehind(SetLists[S], k)
<1> DEFINE s == SetLists[S]
<1>1. s \in Seq(S) /\ \A u \in S : \E i \in 1..Len(s) : s[i] = u
    BY SetListsAssumption
<1>2. Len(s) \in Nat /\ DOMAIN s = 1..Len(s) /\ s \in [1..Len(s) -> S]
    BY <1>1, LenProperties
<1>3. s \in Seq(EcIds)
    BY <1>2, SeqDef
<1>4. \A T \in SUBSET S : \A i \in 1..Len(SetLists[T]), j \in 1..Len(s) :
         SetLists[T][i] = s[j] => i <= j
    BY SetListsAssumption
<1>5. IsInjective(s)
    <2>1. ASSUME NEW i \in 1..Len(s), NEW j \in 1..Len(s), s[i] = s[j]
          PROVE  i = j
        <3>1. i <= j /\ j <= i
            BY <1>4, <2>1
        <3>2. QED
            BY <1>2, <3>1
    <2>2. QED
        BY <1>2, <2>1 DEF IsInjective
<1>6. S \subseteq RowsBehind(s, 0)
    <2>1. ASSUME NEW u \in S
          PROVE  u \in RowsBehind(s, 0)
        <3>1. PICK i \in 1..Len(s) : s[i] = u
            BY <1>1
        <3>2. QED
            BY <3>1 DEF RowsBehind
    <2>2. QED
        BY <2>1
<1>7. ASSUME NEW T \in SUBSET S, NEW k \in Nat, NEW v \in T, v \in RowsBehind(SetLists[T], k)
      PROVE  v \in RowsBehind(s, k)
    <2>0. Len(SetLists[T]) \in Nat
        <3>1. T \in SUBSET EcIds
            OBVIOUS
        <3>2. SetLists[T] \in Seq(T)
            BY <3>1, SetListsAssumption
        <3>3. QED
            BY <3>2, LenProperties
    <2>1. PICK i \in (k + 1)..Len(SetLists[T]) : SetLists[T][i] = v
        BY <1>7 DEF RowsBehind
    <2>2. PICK j \in 1..Len(s) : s[j] = v
        BY <1>1, <1>7
    <2>3. i \in 1..Len(SetLists[T])
        BY <2>0
    <2>4. i <= j
        BY <1>4, <2>1, <2>2, <2>3
    <2>5. j \in (k + 1)..Len(s)
        BY <1>2, <2>0, <2>4
    <2>6. QED
        BY <2>2, <2>5 DEF RowsBehind
<1> HIDE DEF s
<1>8. \A T \in SUBSET S : \A k \in Nat :
         RowsBehind(SetLists[T], k) \cap T \subseteq RowsBehind(s, k)
    BY <1>7
<1>9. QED
    BY <1>1, <1>3, <1>5, <1>6, <1>8 DEF s

\* What is behind an offset is in the page there or behind that.
LEMMA EcPageTaken ==
    ASSUME NEW s \in Seq(EcIds), IsInjective(s), NEW k \in Nat
    PROVE  LET page == Window(s, k, PageLimit) IN
           /\ page \in Seq(EcIds) /\ k + Len(page) \in Nat
           /\ RowsBehind(s, k) = RowsBehind(page, 0) \cup RowsBehind(s, k + Len(page))
           /\ page = << >> => RowsBehind(s, k) = {}
           /\ \A v \in RowsBehind(page, 0) : \E n \in DOMAIN page : page[n] = v
<1> DEFINE page == Window(s, k, PageLimit)
<1>0. PageLimit \in Nat \ {0}
    BY EnforcementAssumption
<1>1. page \in Seq(EcIds) /\ (Len(page) = 0 => Len(s) <= k)
    BY <1>0, WindowProperties
<1>2. Len(page) \in Nat /\ DOMAIN page = 1..Len(page) /\ Len(s) \in Nat
    BY <1>1, LenProperties
<1>3. RowsBehind(s, k) = {page[j] : j \in 1..Len(page)} \cup RowsBehind(s, k + Len(page))
    BY <1>0, WindowOfBehind
<1> HIDE DEF page
<1>4. RowsBehind(page, 0) = {page[j] : j \in 1..Len(page)}
    BY DEF RowsBehind
<1>5. ASSUME page = << >>
      PROVE  RowsBehind(s, k) = {}
    <2>1. Len(page) = 0
        BY <1>5
    <2>2. Len(s) <= k
        BY <1>1, <2>1
    <2>3. (k + 1)..Len(s) = {}
        BY <1>2, <2>2
    <2>4. QED
        BY <2>3 DEF RowsBehind
<1>6. QED
    BY <1>1, <1>2, <1>3, <1>4, <1>5 DEF page

\* What is in a page is its first row or in the rest.
LEMMA EcRowTaken ==
    ASSUME NEW s \in Seq(EcIds), s # << >>
    PROVE  /\ Tail(s) \in Seq(EcIds) /\ Head(s) \in EcIds
           /\ RowsBehind(s, 0) = {Head(s)} \cup RowsBehind(Tail(s), 0)
<1>1. /\ Head(s) \in EcIds /\ Tail(s) \in Seq(EcIds)
      /\ Len(Tail(s)) = Len(s) - 1 /\ \A i \in 1..Len(Tail(s)) : Tail(s)[i] = s[i + 1]
      /\ Len(s) \in Nat \ {0} /\ Head(s) = s[1]
    BY HeadTailProperties, EmptySeq, LenProperties
<1>2. ASSUME NEW v \in RowsBehind(s, 0)
      PROVE  v = Head(s) \/ v \in RowsBehind(Tail(s), 0)
    <2>1. PICK j \in 1..Len(s) : s[j] = v
        BY <1>2 DEF RowsBehind
    <2>2. CASE j = 1
        BY <1>1, <2>1, <2>2
    <2>3. CASE j # 1
        <3>1. j - 1 \in 1..Len(Tail(s)) /\ (j - 1) + 1 = j
            BY <1>1, <2>3
        <3>2. Tail(s)[j - 1] = v
            BY <1>1, <2>1, <3>1
        <3>3. QED
            BY <3>1, <3>2 DEF RowsBehind
    <2>4. QED
        BY <2>2, <2>3
<1>3. ASSUME NEW v, v = Head(s) \/ v \in RowsBehind(Tail(s), 0)
      PROVE  v \in RowsBehind(s, 0)
    <2>1. CASE v = Head(s)
        BY <1>1, <2>1 DEF RowsBehind
    <2>2. CASE v \in RowsBehind(Tail(s), 0)
        <3>1. PICK j \in 1..Len(Tail(s)) : Tail(s)[j] = v
            BY <2>2 DEF RowsBehind
        <3>2. j + 1 \in 1..Len(s) /\ s[j + 1] = v
            BY <1>1, <3>1
        <3>3. QED
            BY <3>2 DEF RowsBehind
    <2>3. QED
        BY <1>3, <2>1, <2>2
<1>4. QED
    BY <1>1, <1>2, <1>3

LEMMA EcListIs ==
    ASSUME NEW es
    PROVE  EcsIn(es) \in SUBSET EcIds
BY DEF EcsIn

\* Nothing is wrong with a client that lists nothing and checks no name.
LEMMA EcNamesElse ==
    ASSUME NEW p, NEW j, NEW f, NEW l, NEW un, NEW es,
           p \notin {"page", "full"} \/ l.why \notin {"free", "names"},
           p # "create" /\ ~(p = "put" /\ j.op = "rename")
    PROVE  EcNamesOK(p, j, f, l, un, es)
BY DEF EcNamesOK

\* A write by another client is noted of the sets that it names, and of all of
\* them where it may have moved them forward.
LEMMA EcNamesWritten ==
    ASSUME EcInv, NEW es, EcOnwards(es), NEW c \in Clients, NEW d \in Clients, d # c,
           EcPlaceOK(pc[d], lookup[d]),
           EcNamesOK(pc[d], job[d], ec_found[d], lookup[d], unlisted[d], ecs)
    PROVE  EcNamesOK(pc[d], job[d], EcAware(ec_found, es)[d], lookup[d],
                     EcUnlisted(c, es)[d], es)
<1> DEFINE p == pc[d]
           j == job[d]
           l == lookup[d]
           f == ec_found[d]
           un == unlisted[d]
           un2 == EcUnlisted(c, es)[d]
           f2 == EcAware(ec_found, es)[d]
           Frees == p \in {"page", "full"} /\ l.why = "free"
           Lists == p \in {"page", "full"} /\ l.why = "names"
           Holds == p = "create" \/ (p = "put" /\ j.op = "rename")
<1>1. EcShape
    BY DEF EcInv
<1>2. CASE ~(Frees \/ Lists \/ Holds)
    BY <1>2 DEF EcNamesOK
<1>3. CASE Frees \/ Lists \/ Holds
    <2>1. un2 = un \cup {u \in EcsIn(es) : u \notin EcsIn(ecs) \/ ecs[u].name # es[u].name}
                   \cup (IF EcsIn(ecs) \subseteq EcsIn(es) THEN {} ELSE EcsIn(es))
        BY <1>3 DEF EcUnlisted
    <2> HIDE DEF un2
    <2>2. Holds => f2.set = f.set
        <3>1. Holds => f \in EcFound
            BY EcWorking
        <3>2. QED
            BY <1>1, <3>1, EcAwareCopies
    <2>3. \A v \in EcsIn(es) : v \in un2 \/ (v \in EcsIn(ecs) /\ es[v].name = ecs[v].name)
        BY <2>1
    <2>4. un \subseteq un2
        BY <2>1
    <2>5. ASSUME Frees \/ Lists, NEW v \in EcsIn(es), v \in EcsIn(ecs), v \in Ahead(l, ecs)
          PROVE  v \in un2 \/ v \in Ahead(l, es)
        <3>1. CASE EcsIn(ecs) \subseteq EcsIn(es)
            <4>1. l.offset \in Nat
                BY <2>5 DEF EcPlaceOK
            <4>2. EcsIn(ecs) \in SUBSET EcsIn(es) /\ EcsIn(es) \in SUBSET EcIds
                BY <3>1, EcListIs
            <4>3. QED
                BY <2>5, <4>1, <4>2, EcListed DEF Ahead
        <3>2. CASE ~(EcsIn(ecs) \subseteq EcsIn(es))
            BY <2>1, <2>5, <3>2
        <3>3. QED
            BY <3>1, <3>2
    <2> HIDE DEF f2
    <2>6. ASSUME Frees
          PROVE  /\ l.name = j.name
                 /\ \A v \in EcsIn(es) :
                       es[v].name = j.name => v \in un2 \cup InRows(l) \cup Ahead(l, es)
        BY <2>3, <2>4, <2>5, <2>6 DEF EcNamesOK
    <2>7. ASSUME Lists
          PROVE  \A v \in EcsIn(es) : v \in un2 \cup Ahead(l, es) \/ es[v].name \in l.names
        BY <2>3, <2>4, <2>5, <2>7 DEF EcNamesOK
    <2>8. ASSUME Holds
          PROVE  \A v \in EcsIn(es) : es[v].name = f2.set.name => v \in un2
        BY <2>2, <2>3, <2>4, <2>8 DEF EcNamesOK
    <2>9. EcNamesOK(p, j, f2, l, un2, es)
        BY <2>6, <2>7, <2>8 DEF EcNamesOK
    <2>10. QED
        BY <2>9 DEF f2, un2
<1>4. QED
    BY <1>2, <1>3

\* A step that changes no set concerns the one client only.
LEMMA EcNamesQuiet ==
    ASSUME EcNamesInv, NEW c \in Clients, EcElsewhere(c), EcKeepsOthers(c), ecs' = ecs,
           DOMAIN unlisted' = Clients, \A d \in Clients \ {c} : unlisted'[d] = unlisted[d],
           EcPlaceOK(pc'[c], lookup'[c]),
           EcNamesOK(pc'[c], job'[c], ec_found'[c], lookup'[c], unlisted'[c], ecs)
    PROVE  EcNamesInv'
<1>1. ASSUME NEW d \in Clients
      PROVE  /\ EcPlaceOK(pc'[d], lookup'[d])
             /\ EcNamesOK(pc'[d], job'[d], ec_found'[d], lookup'[d], unlisted'[d], ecs')
    <2>1. CASE d = c
        BY <2>1
    <2>2. CASE d # c
        BY <2>2 DEF EcNamesInv, EcElsewhere, EcKeepsOthers
    <2>3. QED
        BY <2>1, <2>2
<1>2. QED
    BY <1>1 DEF EcNamesInv

\* Calls that end, and requests that write, check no name any more.
LEMMA EcNamesEnds ==
    ASSUME EcInv, EcNamesInv, NEW c \in Clients, NEW how, EcEnds(c, how), ForgetsIfDone(c),
           ecs' = ecs, ec_held' = ec_held \/ \E x : ec_held' = [ec_held EXCEPT ![c] = x]
    PROVE  EcNamesInv'
<1>1. /\ EcShape /\ DOMAIN unlisted = Clients
      /\ pc'[c] = "idle" /\ EcElsewhere(c)
      /\ DOMAIN ec_found' = Clients /\ DOMAIN lookup' = Clients
      /\ \A d \in Clients \ {c} : ec_found'[d] = ec_found[d] /\ lookup'[d] = lookup[d]
    BY EcEndsMoves DEF EcInv, EcNamesInv
<1>2. EcKeepsOthers(c)
    BY <1>1 DEF EcKeepsOthers, EcShape
<1>3. DOMAIN unlisted' = Clients /\ \A d \in Clients \ {c} : unlisted'[d] = unlisted[d]
    BY <1>1 DEF ForgetsIfDone
<1>4. EcPlaceOK(pc'[c], lookup'[c])
    BY <1>1 DEF EcPlaceOK
<1>5. EcNamesOK(pc'[c], job'[c], ec_found'[c], lookup'[c], unlisted'[c], ecs)
    BY <1>1, EcNamesElse
<1>6. QED
    BY <1>1, <1>2, <1>3, <1>4, <1>5, EcNamesQuiet

LEMMA EcNamesWrites ==
    ASSUME EcInv, EcNamesInv, NEW c \in Clients, NEW es, EcOnwards(es), NEW u, NEW to, NEW name,
           EcWrites(c, es, u, to, name)
    PROVE  EcNamesInv'
<1>1. EcShape /\ DOMAIN unlisted = Clients
    BY DEF EcInv, EcNamesInv
<1> DEFINE copies == EcAware(ec_found, es)
<1>2. /\ ecs' = es /\ unlisted' = EcUnlisted(c, es) /\ EcElsewhere(c)
      /\ \E x : ec_found' = [copies EXCEPT ![c] = x]
      /\ lookup' = lookup \/ \E x : lookup' = [lookup EXCEPT ![c] = x]
    BY <1>1, EcMoves DEF EcWrites
<1>3. DOMAIN copies = Clients
    BY DEF EcAware
<1>4. \A d \in Clients \ {c} : ec_found'[d] = copies[d] /\ lookup'[d] = lookup[d]
    BY <1>1, <1>2, <1>3 DEF EcShape
<1>5. /\ EcPlaceOK(pc'[c], lookup'[c])
      /\ EcNamesOK(pc'[c], job'[c], ec_found'[c], lookup'[c], unlisted'[c], es)
    <2>1. CASE pc'[c] \in {"idle", "move"}
        BY <2>1, EcNamesElse DEF EcPlaceOK
    <2>2. CASE pc'[c] = "page" /\ lookup'[c] = Look("back", name, u)
        <3>1. /\ lookup'[c].offset = 0 /\ lookup'[c].rows = << >> /\ lookup'[c].why = "back"
            BY <2>2 DEF Look
        <3>2. EcPlaceOK(pc'[c], lookup'[c])
            <4>1. lookup'[c].rows \in Seq(EcIds)
                BY <3>1, EmptySeq
            <4>2. lookup'[c].offset \in Nat
                BY <3>1
            <4>3. QED
                BY <2>2, <3>1, <4>1, <4>2 DEF EcPlaceOK
        <3>3. EcNamesOK(pc'[c], job'[c], ec_found'[c], lookup'[c], unlisted'[c], es)
            BY <2>2, <3>1, EcNamesElse
        <3>4. QED
            BY <3>2, <3>3
    <2>3. QED
        <3>1. \/ pc'[c] \in {"idle", "move"}
              \/ pc'[c] = "page" /\ lookup' = [lookup EXCEPT ![c] = Look("back", name, u)]
            BY <1>1, EcMoves DEF EcWrites
        <3>2. lookup' = [lookup EXCEPT ![c] = Look("back", name, u)] =>
                 lookup'[c] = Look("back", name, u)
            BY <1>1 DEF EcShape
        <3>3. QED
            BY <2>1, <2>2, <3>1, <3>2
<1>6. DOMAIN unlisted' = Clients
    BY <1>2 DEF EcUnlisted
<1> HIDE DEF copies
<1>7. ASSUME NEW d \in Clients, d # c
      PROVE  /\ EcPlaceOK(pc'[d], lookup'[d])
             /\ EcNamesOK(pc'[d], job'[d], ec_found'[d], lookup'[d], unlisted'[d], es)
    <2>1. pc'[d] = pc[d] /\ job'[d] = job[d] /\ lookup'[d] = lookup[d] /\ ec_found'[d] = copies[d]
        BY <1>2, <1>4, <1>7 DEF EcElsewhere
    <2>2. /\ EcPlaceOK(pc[d], lookup[d])
          /\ EcNamesOK(pc[d], job[d], ec_found[d], lookup[d], unlisted[d], ecs)
        BY DEF EcNamesInv
    <2>3. EcNamesOK(pc[d], job[d], copies[d], lookup[d], EcUnlisted(c, es)[d], es)
        BY <1>7, <2>2, EcNamesWritten DEF copies
    <2>4. QED
        BY <1>2, <2>1, <2>2, <2>3
<1>8. QED
    BY <1>2, <1>5, <1>6, <1>7 DEF EcNamesInv

\* A lookup that begins has all sets ahead of it.
LEMMA EcNamesBegins ==
    ASSUME EcInv, EcNamesInv, NEW c \in Clients, NEW why, NEW name, NEW uuid,
           pc'[c] = "page", EcElsewhere(c), LooksFirst(c, why, name, uuid),
           why = "free" => name = job'[c].name,
           ec_found' = ec_found \/ \E x : ec_found' = [ec_found EXCEPT ![c] = x],
           UNCHANGED <<ecs, ec_held, unlisted>>
    PROVE  EcNamesInv'
<1>1. EcShape /\ DOMAIN unlisted = Clients
    BY DEF EcInv, EcNamesInv
<1>2. EcKeepsOthers(c) /\ lookup'[c] = Look(why, name, uuid)
    BY <1>1 DEF EcKeepsOthers, EcShape, LooksFirst
<1> DEFINE l == lookup'[c]
<1>3. /\ l.why = why /\ l.name = name /\ l.offset = 0 /\ l.rows = << >> /\ l.names = {}
      /\ << >> \in Seq(EcIds)
    BY <1>2, EmptySeq DEF Look
<1> HIDE DEF l
<1>4. EcPlaceOK("page", l)
    BY <1>3 DEF EcPlaceOK
<1>5. EcsIn(ecs) \subseteq Ahead(l, ecs)
    BY <1>3, EcListIs, EcListed DEF Ahead
<1>6. EcNamesOK("page", job'[c], ec_found'[c], l, unlisted'[c], ecs)
    BY <1>3, <1>5 DEF EcNamesOK
<1>7. QED
    BY <1>1, <1>2, <1>4, <1>6, EcNamesQuiet DEF l

\* What the client works with changes otherwise, without a lookup.
LEMMA EcNamesRequests ==
    ASSUME EcInv, EcNamesInv, NEW c \in Clients, EcElsewhere(c), EcKeepsOthers(c),
           pc'[c] \notin {"page", "full", "create"},
           ~(pc'[c] = "put" /\ job'[c].op = "rename"),
           UNCHANGED <<ecs, unlisted>>
    PROVE  EcNamesInv'
<1>1. DOMAIN unlisted = Clients
    BY DEF EcNamesInv
<1>2. EcPlaceOK(pc'[c], lookup'[c])
    BY DEF EcPlaceOK
<1>3. EcNamesOK(pc'[c], job'[c], ec_found'[c], lookup'[c], unlisted'[c], ecs)
    BY EcNamesElse
<1>4. QED
    BY <1>1, <1>2, <1>3, EcNamesQuiet

LEMMA EcNamesCalls ==
    ASSUME EcInv, EcNamesInv, NEW c \in Clients, EcCall(c) \/ EcCallCreate(c)
    PROVE  EcNamesInv'
<1>1. EcShape
    BY DEF EcInv
<1>2. CASE EcCall(c)
    <2>1. PICK arg, j : Begin(c, j, "page") /\ LooksFirst(c, "find", arg.name, arg.uuid)
        BY <1>2 DEF EcCall
    <2>2. UNCHANGED <<ecs, ec_held, ec_found, unlisted>>
        BY <1>2 DEF EcCall
    <2>3. pc'[c] = "page" /\ EcElsewhere(c)
        BY <1>1, <2>1, EcMoves
    <2>4. QED
        BY <2>1, <2>2, <2>3, EcNamesBegins
<1>3. CASE EcCallCreate(c)
    <2>1. PICK n, f : /\ Begin(c, [op |-> "create", name |-> n, folder |-> f], "page")
                      /\ LooksFirst(c, "free", n, NoSet)
        BY <1>3 DEF EcCallCreate
    <2>2. /\ UNCHANGED <<ecs, ec_held, unlisted>>
          /\ \E x : ec_found' = [ec_found EXCEPT ![c] = x]
        BY <1>3 DEF EcCallCreate
    <2>3. pc'[c] = "page" /\ EcElsewhere(c) /\ job'[c].name = n
        BY <1>1, <2>1, EcMoves
    <2>4. QED
        BY <2>1, <2>2, <2>3, EcNamesBegins
<1>4. QED
    BY <1>2, <1>3

LEMMA EcNamesCallObject ==
    ASSUME EcInv, EcNamesInv, NEW c \in Clients, EcCallObject(c)
    PROVE  EcNamesInv'
<1>1. EcShape
    BY DEF EcInv
<1>2. ASSUME NEW j, NEW to \in {"describe", "move", "delete"}, Begin(c, j, to),
             \E x : ec_found' = [ec_found EXCEPT ![c] = x],
             \/ ec_held' = ec_held
             \/ \E x : ec_held' = [ec_held EXCEPT ![c] = x],
             UNCHANGED <<ecs, lookup, unlisted>>
      PROVE  EcNamesInv'
    <2>1. pc'[c] = to /\ EcElsewhere(c)
        BY <1>1, <1>2, EcMoves
    <2>2. EcKeepsOthers(c)
        BY <1>1, <1>2 DEF EcKeepsOthers, EcShape
    <2>3. QED
        BY <1>2, <2>1, <2>2, EcNamesRequests
<1>3. ASSUME NEW b \in BOOLEAN,
             Begin(c, [op |-> "redescribe", append |-> b], "describe"),
             ec_found' = [ec_found EXCEPT ![c] =
                [ec_held[c] EXCEPT !.set = EcDescribed([op |-> "redescribe", append |-> b], @)]],
             ec_held' = [ec_held EXCEPT ![c] = ec_found'[c],
                                        ![c].stale = @ \cup {"description"}],
             UNCHANGED <<ecs, lookup, unlisted>>
      PROVE  EcNamesInv'
    <2>1. \E x : ec_held' = [ec_held EXCEPT ![c] = x]
        BY <1>1, <1>3 DEF EcShape
    <2>2. QED
        BY <1>2, <1>3, <2>1
<1>4. ASSUME Begin(c, [op |-> "move", arg |-> EcAtHand(c)], "move"),
             ec_found' = [ec_found EXCEPT ![c] = ec_held[c]],
             ec_held' = [ec_held EXCEPT ![c].set.folder = "new", ![c].stale = @ \cup {"folder"}],
             UNCHANGED <<ecs, lookup, unlisted>>
      PROVE  EcNamesInv'
    <2>1. \E x : ec_held' = [ec_held EXCEPT ![c] = x]
        BY <1>1, <1>4 DEF EcShape
    <2>2. QED
        BY <1>2, <1>4, <2>1
<1>5. ASSUME NEW n, NEW f, Begin(c, [op |-> "copy", name |-> n, folder |-> f], "page"),
             LooksFirst(c, "names", n, NoSet), \E x : ec_found' = [ec_found EXCEPT ![c] = x],
             UNCHANGED <<ecs, ec_held, unlisted>>
      PROVE  EcNamesInv'
    <2>1. pc'[c] = "page" /\ EcElsewhere(c)
        BY <1>1, <1>5, EcMoves
    <2>2. QED
        BY <1>5, <2>1, EcNamesBegins
<1>6. QED
    BY <1>2, <1>3, <1>4, <1>5 DEF EcCallObject

\* A lookup that goes on with `look`.
LEMMA EcNamesLooksOn ==
    ASSUME EcInv, EcNamesInv, NEW c \in Clients, pc[c] \in {"page", "full"}, NEW look,
           LooksOn(c, look), ForgetsIfDone(c), ecs' = ecs, ec_held' = ec_held,
           look.why = lookup[c].why, look.offset \in Nat, look.rows \in Seq(EcIds),
           EcNamesOK("full", job[c], ec_found[c], look, unlisted[c], ecs)
    PROVE  EcNamesInv'
<1> DEFINE to == IF look.rows = << >> THEN "page" ELSE "full"
<1>1. EcShape /\ DOMAIN unlisted = Clients
    BY DEF EcInv, EcNamesInv
<1>2. Go(c, to) /\ lookup' = [lookup EXCEPT ![c] = look] /\ ec_found' = ec_found
    BY DEF LooksOn
<1>3. /\ pc'[c] = to /\ job'[c] = job[c] /\ EcElsewhere(c)
    BY <1>1, <1>2, EcMoves
<1>4. lookup'[c] = look /\ EcKeepsOthers(c) /\ ec_found'[c] = ec_found[c]
    BY <1>1, <1>2 DEF EcKeepsOthers, EcShape
<1>5. unlisted' = unlisted
    BY <1>3 DEF ForgetsIfDone
<1>6. EcPlaceOK(to, look)
    BY DEF EcPlaceOK
<1>7. EcNamesOK(to, job[c], ec_found[c], look, unlisted[c], ecs)
    BY DEF EcNamesOK
<1> HIDE DEF to
<1>8. QED
    BY <1>1, <1>3, <1>4, <1>5, <1>6, <1>7, EcNamesQuiet

\* The end of a list: a name that was not met is free, but for who got it since.
LEMMA EcNamesGoes ==
    ASSUME EcInv, EcNamesInv, NEW c \in Clients, NEW to \in {"put", "create"}, NEW n,
           EcGoes(c, to, [ec_found[c] EXCEPT !.set.name = n]), ec_found[c] \in EcFound,
           \A v \in EcsIn(ecs) : ecs[v].name = n => v \in unlisted[c],
           UNCHANGED <<ecs, ec_held>>, ForgetsIfDone(c)
    PROVE  EcNamesInv'
<1> DEFINE x == [ec_found[c] EXCEPT !.set.name = n]
<1>1. EcShape /\ DOMAIN unlisted = Clients
    BY DEF EcInv, EcNamesInv
<1>2. /\ Go(c, to) /\ lookup' = [lookup EXCEPT ![c] = NoLookup]
      /\ ec_found' = [ec_found EXCEPT ![c] = x]
    BY DEF EcGoes
<1>3. x.set.name = n
    BY DEF EcFound, Ec
<1> HIDE DEF x
<1>4. pc'[c] = to /\ EcElsewhere(c)
    BY <1>1, <1>2, EcMoves
<1>5. ec_found'[c] = x /\ EcKeepsOthers(c)
    BY <1>1, <1>2 DEF EcKeepsOthers, EcShape
<1>6. unlisted' = unlisted
    BY <1>4 DEF ForgetsIfDone
<1>7. EcPlaceOK(pc'[c], lookup'[c])
    BY <1>4 DEF EcPlaceOK
<1>8. EcNamesOK(pc'[c], job'[c], x, lookup'[c], unlisted[c], ecs)
    BY <1>3, <1>4 DEF EcNamesOK
<1>9. QED
    BY <1>1, <1>4, <1>5, <1>6, <1>7, <1>8, EcNamesQuiet

LEMMA EcNamesPage ==
    ASSUME EcInv, EcNamesInv, NEW c \in Clients, EcPage(c)
    PROVE  EcNamesInv'
<1> DEFINE l == lookup[c]
           s == SetLists[EcsIn(ecs)]
           page == Window(s, l.offset, PageLimit)
           next == [l EXCEPT !.offset = NextOffset(l, page)]
<1>1. pc[c] = "page" /\ ecs' = ecs /\ ec_held' = ec_held /\ ForgetsIfDone(c)
    BY DEF EcPage
<1>2. EcShape /\ EcLooks(job[c], ec_held[c], ec_found[c], l, ecs)
    BY <1>1, EcOne DEF EcStands, EcWorks
<1>3. /\ l.offset \in Nat /\ l.rows = << >>
      /\ EcNamesOK("page", job[c], ec_found[c], l, unlisted[c], ecs)
    BY <1>1 DEF EcNamesInv, EcPlaceOK
<1>4. DOMAIN l = {"why", "name", "uuid", "offset", "rows", "names"}
    BY <1>2 DEF EcLooks
<1>5. s \in Seq(EcIds) /\ IsInjective(s)
    BY EcListIs, EcListed
<1>6. /\ page \in Seq(EcIds) /\ l.offset + Len(page) \in Nat
      /\ RowsBehind(s, l.offset) = RowsBehind(page, 0) \cup RowsBehind(s, l.offset + Len(page))
      /\ page = << >> => RowsBehind(s, l.offset) = {}
      /\ \A v \in RowsBehind(page, 0) : \E n \in DOMAIN page : page[n] = v
    BY <1>3, <1>5, EcPageTaken
<1>7. InRows(l) = {}
    <2>1. Len(l.rows) = 0
        BY <1>3
    <2>2. QED
        BY <2>1 DEF InRows, RowsBehind
<1>8. Ahead(l, ecs) = RowsBehind(s, l.offset)
    BY DEF Ahead
<1>9. /\ page = << >> => EcNone(c)
      /\ page # << >> /\ l.why = "names" =>
            LooksOn(c, [next EXCEPT !.names = @ \cup {ecs[page[n]].name : n \in DOMAIN page}])
      /\ page # << >> /\ l.why # "names" => LooksOn(c, [next EXCEPT !.rows = page])
    BY DEF EcPage, EcList
<1> HIDE DEF s, page, l
<1>10. CASE page = << >> /\ l.why = "free"
    <2>1. \A v \in EcsIn(ecs) : ecs[v].name = job[c].name => v \in unlisted[c]
        BY <1>3, <1>6, <1>7, <1>8, <1>10 DEF EcNamesOK
    <2>2. ec_found[c] \in EcFound
        BY <1>2, <1>10 DEF EcLooks, EcCopy, EcKnown
    <2>3. EcGoes(c, IF job[c].op = "rename" THEN "put" ELSE "create",
                 [ec_found[c] EXCEPT !.set.name = job[c].name])
        BY <1>9, <1>10 DEF EcNone, l
    <2>4. QED
        BY <1>1, <2>1, <2>2, <2>3, EcNamesGoes
<1>11. CASE page = << >> /\ l.why = "names"
    <2>1. PICK n \in SetNames \ l.names :
             EcGoes(c, "create", [ec_found[c] EXCEPT !.set.name = n])
        BY <1>9, <1>11 DEF EcNone, l
    <2>2. \A v \in EcsIn(ecs) : ecs[v].name = n => v \in unlisted[c]
        BY <1>3, <1>6, <1>8, <1>11, <2>1 DEF EcNamesOK
    <2>3. ec_found[c] \in EcFound
        BY <1>2, <1>11 DEF EcLooks
    <2>4. QED
        BY <1>1, <2>1, <2>2, <2>3, EcNamesGoes
<1>12. CASE page = << >> /\ l.why \notin {"free", "names"}
    <2>1. EcEnds(c, "raised")
        BY <1>9, <1>12 DEF EcNone, l
    <2>2. QED
        BY <1>1, <2>1, EcNamesEnds
<1>13. CASE page # << >> /\ l.why = "names"
    <2> DEFINE m == [next EXCEPT !.names = @ \cup {ecs[page[n]].name : n \in DOMAIN page}]
    <2>1. /\ m.offset = l.offset + Len(page) /\ m.rows = l.rows /\ m.why = l.why
          /\ m.names = l.names \cup {ecs[page[n]].name : n \in DOMAIN page}
        BY <1>4 DEF NextOffset
    <2>2. LooksOn(c, m)
        BY <1>9, <1>13
    <2> HIDE DEF m
    <2>3. Ahead(m, ecs) = RowsBehind(s, l.offset + Len(page))
        BY <2>1 DEF Ahead, s
    <2>4. ASSUME NEW v \in EcsIn(ecs)
          PROVE  v \in unlisted[c] \cup Ahead(m, ecs) \/ ecs[v].name \in m.names
        BY <1>3, <1>6, <1>8, <1>13, <2>1, <2>3 DEF EcNamesOK
    <2>5. EcNamesOK("full", job[c], ec_found[c], m, unlisted[c], ecs)
        BY <1>13, <2>1, <2>4 DEF EcNamesOK
    <2>6. m.offset \in Nat /\ m.rows \in Seq(EcIds)
        BY <1>3, <1>6, <2>1, EmptySeq
    <2>7. QED
        BY <1>1, <2>1, <2>2, <2>5, <2>6, EcNamesLooksOn DEF l
<1>14. CASE page # << >> /\ l.why # "names"
    <2> DEFINE m == [next EXCEPT !.rows = page]
    <2>1. /\ m.offset = l.offset + Len(page) /\ m.rows = page /\ m.why = l.why
          /\ m.name = l.name
        BY <1>4 DEF NextOffset
    <2>2. LooksOn(c, m)
        BY <1>9, <1>14
    <2> HIDE DEF m
    <2>3. Ahead(m, ecs) = RowsBehind(s, l.offset + Len(page)) /\ InRows(m) = RowsBehind(page, 0)
        BY <2>1 DEF Ahead, InRows, s
    <2>4. EcNamesOK("full", job[c], ec_found[c], m, unlisted[c], ecs)
        BY <1>3, <1>6, <1>7, <1>8, <1>14, <2>1, <2>3 DEF EcNamesOK
    <2>5. m.offset \in Nat /\ m.rows \in Seq(EcIds)
        BY <1>6, <2>1
    <2>6. QED
        BY <1>1, <2>1, <2>2, <2>4, <2>5, EcNamesLooksOn DEF l
<1>15. QED
    BY <1>10, <1>11, <1>12, <1>13, <1>14

LEMMA EcNamesFull ==
    ASSUME EcInv, EcNamesInv, NEW c \in Clients, EcFull(c)
    PROVE  EcNamesInv'
<1> DEFINE l == lookup[c]
           u == Head(l.rows)
           j == job[c]
<1>1. pc[c] = "full" /\ ecs' = ecs /\ ForgetsIfDone(c)
      /\ ec_held' = IF told' = "returned"
                    THEN [ec_held EXCEPT ![c] = EcFoundAs(u)] ELSE ec_held
    BY DEF EcFull
<1>2. EcShape /\ EcLooks(j, ec_held[c], ec_found[c], l, ecs)
    BY <1>1, EcOne DEF EcStands, EcWorks
<1>3. /\ l.offset \in Nat /\ l.rows \in Seq(EcIds) /\ l.rows # << >>
      /\ EcNamesOK("full", j, ec_found[c], l, unlisted[c], ecs)
    BY <1>1 DEF EcNamesInv, EcPlaceOK
<1>4. CASE \E how : EcEnds(c, how)
    BY <1>1, <1>4, EcNamesEnds
<1>5. CASE LooksOn(c, [l EXCEPT !.rows = Tail(l.rows)]) /\ u \in EcsIn(ecs) /\ ~EcMatches(u, l)
    <2> DEFINE m == [l EXCEPT !.rows = Tail(l.rows)]
    <2>1. /\ m.offset = l.offset /\ m.rows = Tail(l.rows) /\ m.why = l.why
          /\ m.name = l.name /\ m.names = l.names
        BY <1>2 DEF EcLooks
    <2>2. LooksOn(c, m)
        BY <1>5
    <2> HIDE DEF m
    <2>3. Ahead(m, ecs) = Ahead(l, ecs)
        BY <2>1 DEF Ahead
    <2>4. m.rows \in Seq(EcIds) /\ InRows(l) = {u} \cup InRows(m)
        BY <1>3, <2>1, EcRowTaken DEF InRows
    <2>5. ecs[u].name # l.name
        BY <1>5 DEF EcMatches
    <2>6. EcNamesOK("full", j, ec_found[c], m, unlisted[c], ecs)
        BY <1>3, <2>1, <2>3, <2>4, <2>5 DEF EcNamesOK
    <2>7. ec_held' = ec_held
        <3>1. told' = "none"
            BY <2>2 DEF LooksOn, Go
        <3>2. QED
            BY <1>1, <3>1
    <2>8. QED
        BY <1>1, <1>3, <2>1, <2>2, <2>4, <2>6, <2>7, EcNamesLooksOn
<1>6. CASE l.why = "find" /\ EcTakes(c, u)
    <2> DEFINE x == [EcFoundAs(u) EXCEPT !.set = EcEdited(j, ecs[u])]
    <2>1. j.op \in FindOps
        BY <1>2, <1>6 DEF EcLooks
    <2>2. \/ \E how : EcEnds(c, how)
          \/ /\ j.op = "rename" /\ Go(c, "page")
             /\ LooksFirst(c, "free", j.name, NoSet)
             /\ ec_found' = [ec_found EXCEPT ![c] = x]
          \/ j.op \in {"describe", "move", "delete", "clone"} /\ EcGoes(c, j.op, x)
          \/ j.op \in {"add", "remove", "schedule", "query"} /\ EcGoes(c, "put", x)
        BY <1>6, <2>1, EcTakesCases
    <2> HIDE DEF x
    <2>3. CASE /\ j.op = "rename" /\ Go(c, "page")
               /\ LooksFirst(c, "free", j.name, NoSet)
               /\ ec_found' = [ec_found EXCEPT ![c] = x]
        <3>1. pc'[c] = "page" /\ job'[c] = j /\ EcElsewhere(c) /\ told' = "none"
            BY <1>2, <2>3, EcMoves
        <3>2. ec_held' = ec_held /\ unlisted' = unlisted
            BY <1>1, <3>1 DEF ForgetsIfDone
        <3>3. QED
            BY <1>1, <2>3, <3>1, <3>2, EcNamesBegins
    <2>4. ASSUME NEW to \in {"describe", "move", "delete", "clone", "put"}, EcGoes(c, to, x),
                 j.op # "rename"
          PROVE  EcNamesInv'
        <3>1. Go(c, to)
            BY <2>4 DEF EcGoes
        <3>2. pc'[c] = to /\ job'[c] = j /\ EcElsewhere(c) /\ told' = "none"
            BY <1>2, <3>1, EcMoves
        <3>3. ec_held' = ec_held /\ unlisted' = unlisted
            BY <1>1, <3>2 DEF ForgetsIfDone
        <3>4. EcKeepsOthers(c)
            BY <1>2, <2>4, <3>3 DEF EcKeepsOthers, EcShape, EcGoes
        <3>5. QED
            BY <1>1, <2>4, <3>2, <3>3, <3>4, EcNamesRequests
    <2>5. QED
        BY <1>4, <2>2, <2>3, <2>4
<1>7. QED
    BY <1>4, <1>5, <1>6, EcFullCases

LEMMA EcNamesRequestsWrite ==
    ASSUME EcInv, EcNamesInv, NEW c \in Clients,
           EcPut(c) \/ EcDescribe(c) \/ EcMove(c) \/ EcCreate(c) \/ EcClone(c) \/ EcDelete(c)
    PROVE  EcNamesInv'
<1>1. EcOnwards(ecs')
    BY EcPutInv, EcDescribeInv, EcMoveInv, EcCreateInv, EcCloneInv, EcDeleteInv
<1>2. ASSUME NEW es, NEW u, NEW to, NEW name, EcWrites(c, es, u, to, name)
      PROVE  EcNamesInv'
    <2>1. ecs' = es
        BY <1>2 DEF EcWrites
    <2>2. EcOnwards(es)
        BY <1>1, <2>1
    <2>3. QED
        BY <1>2, <2>2, EcNamesWrites
<1>3. CASE EcPut(c)
    BY <1>2, <1>3 DEF EcPut
<1>4. CASE EcDescribe(c)
    BY <1>2, <1>4 DEF EcDescribe
<1>5. CASE EcMove(c)
    BY <1>2, <1>5 DEF EcMove
<1>6. CASE EcCreate(c)
    BY <1>2, <1>6 DEF EcCreate
<1>7. CASE EcClone(c)
    BY <1>2, <1>7 DEF EcClone
<1>8. CASE EcDelete(c)
    BY <1>2, <1>8 DEF EcDelete
<1>9. QED
    BY <1>3, <1>4, <1>5, <1>6, <1>7, <1>8

LEMMA EcNamesNext ==
    ASSUME EcInv, EcNamesInv, [EnforcementNext]_<<enforcementVars, clientVars>>
    PROVE  EcNamesInv'
<1>1. ASSUME NEW c \in Clients, EcFail(c)
      PROVE  EcNamesInv'
    BY <1>1, EcNamesEnds DEF EcFail
<1>2. ASSUME NEW c \in Clients,
             \/ EcCall(c) \/ EcCallCreate(c) \/ EcCallObject(c)
             \/ EcPage(c) \/ EcFull(c)
             \/ EcPut(c) \/ EcDescribe(c) \/ EcMove(c)
             \/ EcCreate(c) \/ EcClone(c) \/ EcDelete(c) \/ EcFail(c)
      PROVE  EcNamesInv'
    BY <1>1, <1>2, EcNamesCalls, EcNamesCallObject, EcNamesPage, EcNamesFull,
       EcNamesRequestsWrite
<1>3. CASE UNCHANGED <<enforcementVars, clientVars>>
    BY <1>3 DEF enforcementVars, clientVars, EcNamesInv
<1>4. QED
    BY <1>2, <1>3 DEF EnforcementNext

LEMMA EcNamesInit ==
    ASSUME ClientInit, EnforcementInit
    PROVE  EcNamesInv
<1>1. DOMAIN unlisted = Clients
    BY DEF EnforcementInit
<1>2. ASSUME NEW c \in Clients
      PROVE  /\ EcPlaceOK(pc[c], lookup[c])
             /\ EcNamesOK(pc[c], job[c], ec_found[c], lookup[c], unlisted[c], ecs)
    <2>1. pc[c] = "idle"
        BY DEF ClientInit
    <2>2. QED
        BY <2>1, EcNamesElse DEF EcPlaceOK
<1>3. QED
    BY <1>1, <1>2 DEF EcNamesInv

LEMMA EcNamesInvariance == EnforcementSpec => [](EcInv /\ EcNamesInv)
<1>1. ClientInit /\ EnforcementInit => EcNamesInv
    BY EcNamesInit
<1>2. EcInv /\ EcNamesInv /\ [EnforcementNext]_<<enforcementVars, clientVars>> => EcNamesInv'
    BY EcNamesNext
<1>3. QED
    BY <1>1, <1>2, EcInvariance, PTL DEF EnforcementSpec

\* A set that gets, by a request that writes one, the name of another has got it
\* by this request, and the other had it before.
LEMMA EcNameGiven ==
    ASSUME NEW w \in EcIds, NEW es, \A x \in EcIds \ {w} : es[x] = ecs[x],
           NEW u \in EcsIn(es), NEW v \in EcsIn(es), u # v, es[u].name = es[v].name,
           u \notin EcsIn(ecs) \/ ecs[u].name # es[u].name
    PROVE  u = w /\ v \in EcsIn(ecs) /\ ecs[v].name = es[w].name
<1>1. u \in EcIds /\ v \in EcIds
    BY DEF EcsIn
<1>2. u = w
    BY <1>1 DEF EcsIn
<1>3. es[v] = ecs[v]
    BY <1>1, <1>2
<1>4. QED
    BY <1>1, <1>2, <1>3 DEF EcsIn

LEMMA EcPutNames ==
    ASSUME EcInv, EcNamesInv, NEW c \in Clients, EcPut(c),
           NEW u \in EcsIn(ecs'), NEW v \in EcsIn(ecs'), u # v, ecs'[u].name = ecs'[v].name,
           u \notin EcsIn(ecs) \/ ecs[u].name # ecs'[u].name
    PROVE  v \in unlisted[c] \/ "name" \in ec_found[c].stale
<1> DEFINE f == ec_found[c]
           w == f.uuid
           q == EcSent(ecs[w], f.set)
<1>1. pc[c] = "put" /\ w \in EcsIn(ecs)
    BY DEF EcPut
<1>2. /\ EcShape /\ EcCopy(f, EcMeant(job[c]), ecs) /\ f.set \in Ec
      /\ job[c].op \in {"add", "remove", "schedule", "query", "rename"}
    BY <1>1, EcWorking DEF EcWorks
<1>3. ecs[w] \in Ec /\ w \in EcIds
    BY <1>1, <1>2, EcsInTyped DEF EcShape
<1>4. ecs' = [ecs EXCEPT ![w] = q]
    BY DEF EcPut, EcWrites
<1>5. q \in Ec /\ q.name = f.set.name
    BY <1>2, <1>3 DEF EcSent, Ec
<1> HIDE DEF q
<1>6. u = w /\ ecs'[u] = q /\ v \in EcsIn(ecs) /\ ecs[v].name = f.set.name
    <2>1. ecs'[w] = q /\ \A x \in EcIds \ {w} : ecs'[x] = ecs[x]
        BY <1>2, <1>3, <1>4 DEF EcShape
    <2>2. u = w /\ v \in EcsIn(ecs) /\ ecs[v].name = ecs'[w].name
        BY <1>3, <2>1, EcNameGiven
    <2>3. QED
        BY <1>5, <2>1, <2>2
<1>7. CASE job[c].op = "rename"
    BY <1>1, <1>6, <1>7 DEF EcNamesInv, EcNamesOK
<1>8. CASE job[c].op # "rename"
    <2>1. "name" \notin EcMeant(job[c]) /\ "name" \in EcParts
        BY <1>2, <1>8 DEF EcMeant, EcParts
    <2>2. ecs'[u].name = f.set.name
        BY <1>5, <1>6
    <2>3. f.set.name # ecs[w].name
        BY <1>1, <1>6, <2>2
    <2>4. "name" \notin f.stale => f.set["name"] = ecs[w]["name"]
        BY <1>1, <1>2, <2>1 DEF EcCopy
    <2>5. QED
        BY <2>3, <2>4
<1>9. QED
    BY <1>7, <1>8

LEMMA EcCreateNames ==
    ASSUME EcInv, EcNamesInv, NEW c \in Clients, EcCreate(c),
           NEW u \in EcsIn(ecs'), NEW v \in EcsIn(ecs'), u # v, ecs'[u].name = ecs'[v].name,
           u \notin EcsIn(ecs) \/ ecs[u].name # ecs'[u].name
    PROVE  v \in unlisted[c]
<1> DEFINE f == ec_found[c]
<1>1. pc[c] = "create"
    BY DEF EcCreate
<1>2. EcShape /\ f.set \in Ec
    BY <1>1, EcWorking
<1>3. PICK w \in EcIds : ecs' = [ecs EXCEPT ![w] = f.set]
    BY DEF EcCreate, EcWrites
<1>4. v \in EcsIn(ecs) /\ ecs[v].name = f.set.name
    <2>1. ecs'[w] = f.set /\ \A x \in EcIds \ {w} : ecs'[x] = ecs[x]
        BY <1>2, <1>3 DEF EcShape
    <2>2. v \in EcsIn(ecs) /\ ecs[v].name = ecs'[w].name
        BY <2>1, EcNameGiven
    <2>3. QED
        BY <2>1, <2>2
<1>5. QED
    BY <1>1, <1>4 DEF EcNamesInv, EcNamesOK

\* Two sets get the same name only by a check that may not have seen the other, by
\* a name that was read before it changed, or by a copy.  A name counts as free
\* after the pages of all sets were read, one request each, and what other calls
\* write in between is not looked at again; for any number of sets, of callers
\* and any size of pages.
THEOREM EnforcementNamesAreUnique == EnforcementSpec => SetNamesUnique
<1> DEFINE KeepsNames ==
        \A c \in Clients : Leaves(c, "put") \/ Leaves(c, "create") =>
          \A u, v \in EcsIn(ecs') :
             /\ u # v /\ ecs'[u].name = ecs'[v].name
             /\ u \notin EcsIn(ecs) \/ ecs[u].name # ecs'[u].name
             => v \in unlisted[c] \/ "name" \in ec_found[c].stale
<1>1. ASSUME EcInv, EcNamesInv, [EnforcementNext]_<<enforcementVars, clientVars>>
      PROVE  KeepsNames
    <2> SUFFICES ASSUME NEW c \in Clients, Leaves(c, "put") \/ Leaves(c, "create"),
                        NEW u \in EcsIn(ecs'), NEW v \in EcsIn(ecs'),
                        u # v, ecs'[u].name = ecs'[v].name,
                        u \notin EcsIn(ecs) \/ ecs[u].name # ecs'[u].name
                 PROVE  v \in unlisted[c] \/ "name" \in ec_found[c].stale
        OBVIOUS
    <2>1. pc[c] \in {"put", "create"} /\ pc'[c] # pc[c]
        BY DEF Leaves
    <2>2. \/ EcPage(c) \/ EcFull(c) \/ EcPut(c) \/ EcDescribe(c) \/ EcMove(c)
          \/ EcCreate(c) \/ EcClone(c) \/ EcDelete(c) \/ EcFail(c)
        BY <1>1, <2>1, EcMovesItself
    <2>3. EcPut(c) \/ EcCreate(c) \/ EcFail(c)
        BY <2>1, <2>2 DEF EcPage, EcFull, EcDescribe, EcMove, EcClone, EcDelete
    <2>4. ~EcFail(c)
        BY DEF EcFail
    <2>5. QED
        BY <1>1, <2>3, <2>4, EcPutNames, EcCreateNames
<1>2. EcInv /\ EcNamesInv /\ [EnforcementNext]_<<enforcementVars, clientVars>> =>
         [KeepsNames]_<<enforcementVars, clientVars>>
    BY <1>1
<1>3. QED
    BY <1>2, EcNamesInvariance, PTL DEF EnforcementSpec, SetNamesUnique

-----------------------------------------------------------------------------
(* Lookups of sets stay inside the list and their pages.                   *)

\* A client looks sets up in its pages, within the list; or it does not.
EcLookOK(p, l) ==
    IF p \in {"page", "full"}
    THEN l.offset <= Cardinality(EcIds) /\ Len(l.rows) <= PageLimit
    ELSE l = NoLookup

EcLookInv == \A c \in Clients : EcLookOK(pc[c], lookup[c])

\* No list has more sets than there are UUIDs.
LEMMA EcListFits ==
    ASSUME NEW S \in SUBSET EcIds
    PROVE  Len(SetLists[S]) \in Nat /\ Len(SetLists[S]) <= Cardinality(EcIds)
<1> DEFINE s == SetLists[S]
           L == Len(s)
<1>1. s \in Seq(EcIds) /\ IsInjective(s)
    BY EcListed
<1>2. L \in Nat /\ DOMAIN s = 1..L /\ s \in [1..L -> EcIds]
    BY <1>1, LenProperties
<1> HIDE DEF s
<1>3. s \in Injection(1..L, EcIds)
    BY <1>1, <1>2 DEF IsInjective, Injection
<1>4. Cardinality(1..L) = L
    <2> HIDE DEF L
    <2>1. Cardinality(1..L) = IF 1 > L THEN 0 ELSE L - 1 + 1
        BY <1>2, FS_Interval
    <2>2. QED
        BY <1>2, <2>1
<1>5. Cardinality(1..L) <= Cardinality(EcIds)
    BY <1>3, EnforcementAssumption, FS_Injection
<1>6. QED
    BY <1>2, <1>4, <1>5 DEF s

LEMMA EcBeginsWithin ==
    ASSUME NEW why, NEW name, NEW uuid
    PROVE  EcLookOK("page", Look(why, name, uuid))
<1>1. Cardinality(EcIds) \in Nat /\ PageLimit \in Nat
    BY EnforcementAssumption, FS_CardinalityType
<1>2. Look(why, name, uuid).offset = 0 /\ Len(Look(why, name, uuid).rows) = 0
    BY DEF Look
<1>3. QED
    BY <1>1, <1>2 DEF EcLookOK

\* A page ends within the list.
LEMMA EcPageWithin ==
    ASSUME NEW k \in Nat,
           Window(SetLists[EcsIn(ecs)], k, PageLimit) # << >>
    PROVE  LET page == Window(SetLists[EcsIn(ecs)], k, PageLimit) IN
           k + Len(page) <= Cardinality(EcIds) /\ Len(page) <= PageLimit
<1> DEFINE s == SetLists[EcsIn(ecs)]
           page == Window(s, k, PageLimit)
<1>1. s \in Seq(EcIds) /\ Len(s) \in Nat /\ Len(s) <= Cardinality(EcIds)
    BY EcListIs, EcListed, EcListFits
<1>2. PageLimit \in Nat \ {0} /\ Cardinality(EcIds) \in Nat
    BY EnforcementAssumption, FS_CardinalityType
<1>3. /\ page \in Seq(EcIds) /\ Len(page) \in 0..PageLimit
      /\ \A j \in 1..Len(page) : k + j <= Len(s)
    <2> HIDE DEF s
    <2>1. QED
        BY <1>1, <1>2, WindowProperties
<1>4. page # << >>
    OBVIOUS
<1> HIDE DEF page, s
<1>5. Len(page) # 0
    BY <1>3, <1>4, EmptySeq
<1>6. Len(page) \in 1..Len(page)
    BY <1>2, <1>3, <1>5
<1>7. k + Len(page) <= Len(s)
    BY <1>3, <1>6
<1>8. QED
    BY <1>1, <1>2, <1>3, <1>7 DEF page, s

\* What a step does to the lookup of its client.
EcLooksWell(c) ==
    /\ EcElsewhere(c)
    /\ \A d \in Clients \ {c} : lookup'[d] = lookup[d]
    /\ EcLookOK(pc'[c], lookup'[c])

LEMMA EcLookAlone ==
    ASSUME EcLookInv, NEW c \in Clients, EcLooksWell(c)
    PROVE  EcLookInv'
<1>1. ASSUME NEW d \in Clients
      PROVE  EcLookOK(pc'[d], lookup'[d])
    <2>1. CASE d = c
        BY <2>1 DEF EcLooksWell
    <2>2. CASE d # c
        BY <2>2 DEF EcLookInv, EcLooksWell, EcElsewhere
    <2>3. QED
        BY <2>1, <2>2
<1>2. QED
    BY <1>1 DEF EcLookInv

LEMMA EcEndsWithin ==
    ASSUME EcShape, NEW c \in Clients, NEW how, EcEnds(c, how)
    PROVE  EcLooksWell(c)
<1>1. /\ pc'[c] = "idle" /\ EcElsewhere(c)
      /\ \A d \in Clients \ {c} : lookup'[d] = lookup[d]
    BY EcEndsMoves
<1>2. lookup'[c] = NoLookup
    BY DEF EcEnds, EcShape
<1>3. QED
    BY <1>1, <1>2 DEF EcLooksWell, EcLookOK

LEMMA EcGoesWithin ==
    ASSUME EcShape, NEW c \in Clients, NEW to, NEW x, EcGoes(c, to, x),
           to \notin {"page", "full"}
    PROVE  EcLooksWell(c)
<1>1. Go(c, to) /\ lookup' = [lookup EXCEPT ![c] = NoLookup]
    BY DEF EcGoes
<1>2. pc'[c] = to /\ EcElsewhere(c)
    BY <1>1, EcMoves
<1>3. lookup'[c] = NoLookup /\ \A d \in Clients \ {c} : lookup'[d] = lookup[d]
    BY <1>1 DEF EcShape
<1>4. QED
    BY <1>2, <1>3 DEF EcLooksWell, EcLookOK

LEMMA EcFirstWithin ==
    ASSUME EcShape, NEW c \in Clients, NEW why, NEW name, NEW uuid,
           LooksFirst(c, why, name, uuid), pc'[c] = "page", EcElsewhere(c)
    PROVE  EcLooksWell(c)
<1>1. /\ lookup'[c] = Look(why, name, uuid)
      /\ \A d \in Clients \ {c} : lookup'[d] = lookup[d]
    BY DEF LooksFirst, EcShape
<1>2. QED
    BY <1>1, EcBeginsWithin DEF EcLooksWell

LEMMA EcOnWithin ==
    ASSUME EcShape, NEW c \in Clients, NEW look, LooksOn(c, look), EcLookOK("full", look)
    PROVE  EcLooksWell(c)
<1> DEFINE to == IF look.rows = << >> THEN "page" ELSE "full"
<1>1. Go(c, to) /\ lookup' = [lookup EXCEPT ![c] = look]
    BY DEF LooksOn
<1>2. to \in {"page", "full"}
    OBVIOUS
<1> HIDE DEF to
<1>3. pc'[c] = to /\ EcElsewhere(c)
    BY <1>1, EcMoves
<1>4. lookup'[c] = look /\ \A d \in Clients \ {c} : lookup'[d] = lookup[d]
    BY <1>1 DEF EcShape
<1>5. EcLookOK(pc'[c], look)
    BY <1>2, <1>3 DEF EcLookOK
<1>6. QED
    BY <1>3, <1>4, <1>5 DEF EcLooksWell

\* A step that is not part of a lookup, before and after.
LEMMA EcNoneWithin ==
    ASSUME EcShape, EcLookInv, NEW c \in Clients, EcElsewhere(c), lookup' = lookup,
           {pc[c], pc'[c]} \cap {"page", "full"} = {}
    PROVE  EcLooksWell(c)
<1>1. lookup[c] = NoLookup
    BY DEF EcLookInv, EcLookOK
<1>2. QED
    BY <1>1 DEF EcLooksWell, EcLookOK

\* Calls.
LEMMA EcCallsWithin ==
    ASSUME EcInv, EcLookInv, NEW c \in Clients, EcCall(c) \/ EcCallCreate(c) \/ EcCallObject(c)
    PROVE  EcLooksWell(c)
<1>1. EcShape
    BY DEF EcInv
<1>2. ASSUME NEW j, Begin(c, j, "page"), NEW why, NEW name, NEW uuid,
             LooksFirst(c, why, name, uuid)
      PROVE  EcLooksWell(c)
    BY <1>1, <1>2, EcMoves, EcFirstWithin
<1>3. ASSUME NEW j, NEW to \in {"describe", "move", "delete"}, Begin(c, j, to), lookup' = lookup
      PROVE  EcLooksWell(c)
    BY <1>1, <1>3, EcMoves, EcNoneWithin
<1>4. CASE EcCall(c)
    <2>1. PICK arg, j : Begin(c, j, "page") /\ LooksFirst(c, "find", arg.name, arg.uuid)
        BY <1>4 DEF EcCall
    <2>2. QED
        BY <1>2, <2>1
<1>5. CASE EcCallCreate(c)
    <2>1. PICK n, f : /\ Begin(c, [op |-> "create", name |-> n, folder |-> f], "page")
                      /\ LooksFirst(c, "free", n, NoSet)
        BY <1>5 DEF EcCallCreate
    <2>2. QED
        BY <1>2, <2>1
<1>6. CASE EcCallObject(c)
    <2>1. ASSUME NEW b, Begin(c, [op |-> "redescribe", append |-> b], "describe"),
                 lookup' = lookup
          PROVE  EcLooksWell(c)
        BY <1>3, <2>1
    <2>2. ASSUME Begin(c, [op |-> "move", arg |-> EcAtHand(c)], "move"), lookup' = lookup
          PROVE  EcLooksWell(c)
        BY <1>3, <2>2
    <2>3. ASSUME Begin(c, [op |-> "delete", arg |-> EcAtHand(c)], "delete"), lookup' = lookup
          PROVE  EcLooksWell(c)
        BY <1>3, <2>3
    <2>4. ASSUME NEW n, NEW f, Begin(c, [op |-> "copy", name |-> n, folder |-> f], "page"),
                 LooksFirst(c, "names", n, NoSet)
          PROVE  EcLooksWell(c)
        BY <1>2, <2>4
    <2>5. QED
        BY <1>6, <2>1, <2>2, <2>3, <2>4 DEF EcCallObject
<1>7. QED
    BY <1>4, <1>5, <1>6

\* The pages and the sets in them.
LEMMA EcPageLooks ==
    ASSUME EcInv, EcNamesInv, EcLookInv, NEW c \in Clients, EcPage(c)
    PROVE  EcLooksWell(c)
<1> DEFINE l == lookup[c]
           page == Window(SetLists[EcsIn(ecs)], l.offset, PageLimit)
           next == [l EXCEPT !.offset = NextOffset(l, page)]
<1>1. pc[c] = "page"
    BY DEF EcPage
<1>2. EcShape /\ DOMAIN l = {"why", "name", "uuid", "offset", "rows", "names"}
    BY <1>1, EcOne DEF EcStands, EcWorks, EcLooks
<1>3. l.offset \in Nat /\ Len(l.rows) <= PageLimit
    BY <1>1 DEF EcNamesInv, EcPlaceOK, EcLookInv, EcLookOK
<1>4. /\ page = << >> => EcNone(c)
      /\ page # << >> /\ l.why = "names" =>
            LooksOn(c, [next EXCEPT !.names = @ \cup {ecs[page[n]].name : n \in DOMAIN page}])
      /\ page # << >> /\ l.why # "names" => LooksOn(c, [next EXCEPT !.rows = page])
    BY DEF EcPage, EcList
<1>5. page # << >> => l.offset + Len(page) <= Cardinality(EcIds) /\ Len(page) <= PageLimit
    BY <1>3, EcPageWithin
<1> HIDE DEF page, l
<1>6. CASE page = << >>
    <2>1. EcNone(c)
        BY <1>4, <1>6
    <2>2. \/ \E to \in {"put", "create"} : \E x : EcGoes(c, to, x)
          \/ EcEnds(c, "raised")
        <3>1. CASE lookup[c].why = "free"
            BY <2>1, <3>1 DEF EcNone
        <3>2. CASE lookup[c].why = "names"
            BY <2>1, <3>2 DEF EcNone
        <3>3. CASE lookup[c].why \notin {"free", "names"}
            BY <2>1, <3>3 DEF EcNone
        <3>4. QED
            BY <3>1, <3>2, <3>3
    <2>3. QED
        BY <1>2, <2>2, EcGoesWithin, EcEndsWithin
<1>7. CASE page # << >> /\ l.why = "names"
    <2> DEFINE m == [next EXCEPT !.names = @ \cup {ecs[page[n]].name : n \in DOMAIN page}]
    <2>1. m.offset = l.offset + Len(page) /\ m.rows = l.rows
        BY <1>2 DEF NextOffset
    <2>2. LooksOn(c, m)
        BY <1>4, <1>7
    <2> HIDE DEF m
    <2>3. EcLookOK("full", m)
        BY <1>3, <1>5, <1>7, <2>1 DEF EcLookOK
    <2>4. QED
        BY <1>2, <2>2, <2>3, EcOnWithin
<1>8. CASE page # << >> /\ l.why # "names"
    <2> DEFINE m == [next EXCEPT !.rows = page]
    <2>1. m.offset = l.offset + Len(page) /\ m.rows = page
        BY <1>2 DEF NextOffset
    <2>2. LooksOn(c, m)
        BY <1>4, <1>8
    <2> HIDE DEF m
    <2>3. EcLookOK("full", m)
        BY <1>5, <1>8, <2>1 DEF EcLookOK
    <2>4. QED
        BY <1>2, <2>2, <2>3, EcOnWithin
<1>9. QED
    BY <1>6, <1>7, <1>8

LEMMA EcFullLooks ==
    ASSUME EcInv, EcNamesInv, EcLookInv, NEW c \in Clients, EcFull(c)
    PROVE  EcLooksWell(c)
<1> DEFINE l == lookup[c]
           u == Head(l.rows)
<1>1. pc[c] = "full"
    BY DEF EcFull
<1>2. EcShape /\ EcLooks(job[c], ec_held[c], ec_found[c], l, ecs)
    BY <1>1, EcOne DEF EcStands, EcWorks
<1>3. l.rows \in Seq(EcIds) /\ l.rows # << >> /\ EcLookOK("full", l)
    BY <1>1 DEF EcNamesInv, EcPlaceOK, EcLookInv
<1>4. CASE \E how : EcEnds(c, how)
    BY <1>2, <1>4, EcEndsWithin
<1>5. CASE LooksOn(c, [l EXCEPT !.rows = Tail(l.rows)])
    <2> DEFINE m == [l EXCEPT !.rows = Tail(l.rows)]
    <2>1. m.offset = l.offset /\ m.rows = Tail(l.rows)
        BY <1>2 DEF EcLooks
    <2>2. LooksOn(c, m)
        BY <1>5
    <2> HIDE DEF m
    <2>3. Len(Tail(l.rows)) = Len(l.rows) - 1 /\ Len(l.rows) \in Nat /\ PageLimit \in Nat
        BY <1>3, HeadTailProperties, LenProperties, EnforcementAssumption
    <2>4. EcLookOK("full", m)
        BY <1>3, <2>1, <2>3 DEF EcLookOK
    <2>5. QED
        BY <1>2, <2>2, <2>4, EcOnWithin
<1>6. CASE l.why = "find" /\ EcTakes(c, u)
    <2>1. job[c].op \in FindOps
        BY <1>2, <1>6 DEF EcLooks
    <2>2. \/ \E how : EcEnds(c, how)
          \/ Go(c, "page") /\ LooksFirst(c, "free", job[c].name, NoSet)
          \/ \E to \in {"describe", "move", "delete", "clone", "put"} : \E x : EcGoes(c, to, x)
        BY <1>6, <2>1, EcTakesCases
    <2>3. CASE Go(c, "page") /\ LooksFirst(c, "free", job[c].name, NoSet)
        BY <1>2, <2>3, EcMoves, EcFirstWithin
    <2>4. CASE \E to \in {"describe", "move", "delete", "clone", "put"} : \E x : EcGoes(c, to, x)
        BY <1>2, <2>4, EcGoesWithin
    <2>5. QED
        BY <1>4, <2>2, <2>3, <2>4
<1>7. QED
    BY <1>4, <1>5, <1>6, EcFullCases

LEMMA EcWritesLook ==
    ASSUME EcInv, EcLookInv, NEW c \in Clients,
           EcPut(c) \/ EcDescribe(c) \/ EcMove(c) \/ EcCreate(c) \/ EcClone(c) \/ EcDelete(c)
    PROVE  EcLooksWell(c)
<1>1. EcShape
    BY DEF EcInv
<1>2. pc[c] \notin {"page", "full"}
    BY DEF EcPut, EcDescribe, EcMove, EcCreate, EcClone, EcDelete
<1>3. ASSUME NEW sets, NEW u, NEW to, NEW name, EcWrites(c, sets, u, to, name)
      PROVE  EcLooksWell(c)
    <2>1. CASE lookup' = lookup /\ (Go(c, "move") \/ \E how : End(c, how))
        BY <1>1, <1>2, <2>1, EcMoves, EcNoneWithin
    <2>2. CASE Go(c, "page") /\ LooksFirst(c, "back", name, u)
        BY <1>1, <2>2, EcMoves, EcFirstWithin
    <2>3. QED
        BY <1>3, <2>1, <2>2 DEF EcWrites, LooksFirst
<1>4. CASE EcPut(c)
    BY <1>3, <1>4 DEF EcPut
<1>5. CASE EcDescribe(c)
    BY <1>3, <1>5 DEF EcDescribe
<1>6. CASE EcMove(c)
    BY <1>3, <1>6 DEF EcMove
<1>7. CASE EcCreate(c)
    BY <1>3, <1>7 DEF EcCreate
<1>8. CASE EcClone(c)
    BY <1>3, <1>8 DEF EcClone
<1>9. CASE EcDelete(c)
    BY <1>3, <1>9 DEF EcDelete
<1>10. QED
    BY <1>4, <1>5, <1>6, <1>7, <1>8, <1>9

LEMMA EcLookNext ==
    ASSUME EcInv, EcNamesInv, EcLookInv, [EnforcementNext]_<<enforcementVars, clientVars>>
    PROVE  EcLookInv'
<1>1. CASE UNCHANGED <<enforcementVars, clientVars>>
    BY <1>1 DEF enforcementVars, clientVars, EcLookInv
<1>2. ASSUME NEW c \in Clients,
             \/ EcCall(c) \/ EcCallCreate(c) \/ EcCallObject(c)
             \/ EcPage(c) \/ EcFull(c)
             \/ EcPut(c) \/ EcDescribe(c) \/ EcMove(c)
             \/ EcCreate(c) \/ EcClone(c) \/ EcDelete(c) \/ EcFail(c)
      PROVE  EcLookInv'
    <2>1. EcShape
        BY DEF EcInv
    <2>2. EcFail(c) => EcLooksWell(c)
        BY <2>1, EcEndsWithin DEF EcFail
    <2>3. EcLooksWell(c)
        BY <1>2, <2>2, EcCallsWithin, EcPageLooks, EcFullLooks, EcWritesLook
    <2>4. QED
        BY <2>3, EcLookAlone
<1>3. QED
    BY <1>1, <1>2 DEF EnforcementNext

LEMMA EcLookInvariance == EnforcementSpec => [](EcInv /\ EcNamesInv /\ EcLookInv)
<1>1. ClientInit /\ EnforcementInit => EcLookInv
    BY DEF ClientInit, EnforcementInit, EcLookInv, EcLookOK
<1>2. EcInv /\ EcNamesInv /\ EcLookInv /\ [EnforcementNext]_<<enforcementVars, clientVars>>
        => EcLookInv'
    BY EcLookNext
<1>3. QED
    BY <1>1, <1>2, EcNamesInvariance, PTL DEF EnforcementSpec

\* The invariants together give every variable its type.
LEMMA EcTyped == EcInv /\ EcNamesInv /\ EcLookInv => EnforcementTypeOK
<1> SUFFICES ASSUME EcInv, EcNamesInv, EcLookInv
             PROVE  EnforcementTypeOK
    OBVIOUS
<1>1. ASSUME NEW c \in Clients
      PROVE  /\ ec_held[c] \in EcFound \cup {NoSet}
             /\ ec_found[c] \in EcFound \cup {NoSet}
    BY EcOne DEF EcHolds, EcCopy, EcKnown, EcStands, EcLooks, EcWorks
<1>2. ASSUME NEW c \in Clients, pc[c] \in {"page", "full"}
      PROVE  /\ lookup[c] # NoLookup
             /\ lookup[c].why \in {"find", "free", "names", "back"}
             /\ lookup[c].offset <= Cardinality(EcIds)
             /\ Len(lookup[c].rows) <= PageLimit
             /\ pc[c] = "full" => lookup[c].rows # << >>
    <2>1. EcLooks(job[c], ec_held[c], ec_found[c], lookup[c], ecs)
        BY <1>2, EcOne DEF EcStands, EcWorks
    <2>2. "offset" \in DOMAIN lookup[c] /\ "offset" \notin DOMAIN NoLookup
        BY <2>1 DEF EcLooks, NoLookup
    <2>3. lookup[c].why \in {"find", "free", "names", "back"}
        BY <2>1 DEF EcLooks
    <2>4. EcPlaceOK(pc[c], lookup[c]) /\ EcLookOK(pc[c], lookup[c])
        BY DEF EcNamesInv, EcLookInv
    <2>5. QED
        BY <1>2, <2>2, <2>3, <2>4 DEF EcPlaceOK, EcLookOK
<1>3. ASSUME NEW c \in Clients, pc[c] \notin {"page", "full"}
      PROVE  lookup[c] = NoLookup
    BY <1>3 DEF EcLookInv, EcLookOK
<1>4. QED
    BY <1>1, <1>2, <1>3 DEF EnforcementTypeOK, EcInv, EcShape

\* Every variable of the enforcement sets keeps its type; a lookup stays within
\* the list and within its page, and is there while the call lists sets.
THEOREM EnforcementTypeCorrect == EnforcementSpec => []EnforcementTypeOK
<1>1. QED
    BY EcLookInvariance, EcTyped, PTL

-----------------------------------------------------------------------------
(* The components of the API beside each other: MCServerEdits.  A behaviour is
   one of the component that was chosen, and leaves the others alone.      *)

\* The component that was chosen.
Chosen(x) == which = x

LEMMA SettingsChosen == Spec /\ Chosen("settings") => SettingsSpec /\ []Chosen("settings")
<1>1. Init => ClientInit /\ SettingsInit
    BY DEF Init
<1>2. Chosen("settings") /\ [Next]_vars =>
         Chosen("settings")' /\ [SettingsNext]_<<settingsVars, clientVars>>
    BY DEF Next, vars, Chosen
<1>3. QED
    BY <1>1, <1>2, PTL DEF Spec, SettingsSpec

LEMMA CnxsChosen == Spec /\ Chosen("cnxs") => CnxSpec /\ []Chosen("cnxs")
<1>1. Init => ClientInit /\ CnxInit
    BY DEF Init
<1>2. Chosen("cnxs") /\ [Next]_vars => Chosen("cnxs")' /\ [CnxNext]_<<cnxVars, clientVars>>
    BY DEF Next, vars, Chosen
<1>3. QED
    BY <1>1, <1>2, PTL DEF Spec, CnxSpec

LEMMA QueriesChosen == Spec /\ Chosen("queries") => SavedQuerySpec /\ []Chosen("queries")
<1>1. Init => ClientInit /\ SavedQueryInit
    BY DEF Init
<1>2. Chosen("queries") /\ [Next]_vars =>
         Chosen("queries")' /\ [SavedQueryNext]_<<queryVars, clientVars>>
    BY DEF Next, vars, Chosen
<1>3. QED
    BY <1>1, <1>2, PTL DEF Spec, SavedQuerySpec

LEMMA FoldersChosen == Spec /\ Chosen("folders") => FolderSpec /\ []Chosen("folders")
<1>1. Init => ClientInit /\ FolderInit
    BY DEF Init
<1>2. Chosen("folders") /\ [Next]_vars =>
         Chosen("folders")' /\ [FolderNext]_<<folderVars, clientVars>>
    BY DEF Next, vars, Chosen
<1>3. QED
    BY <1>1, <1>2, PTL DEF Spec, FolderSpec

LEMMA SetsChosen == Spec /\ Chosen("sets") => EnforcementSpec /\ []Chosen("sets")
<1>1. Init => ClientInit /\ EnforcementInit
    BY DEF Init
<1>2. Chosen("sets") /\ [Next]_vars =>
         Chosen("sets")' /\ [EnforcementNext]_<<enforcementVars, clientVars>>
    BY DEF Next, vars, Chosen
<1>3. QED
    BY <1>1, <1>2, PTL DEF Spec, EnforcementSpec

LEMMA AccessChosen == Spec /\ Chosen("access") => AccessSpec /\ []Chosen("access")
<1>1. Init => ClientInit /\ AccessInit
    BY DEF Init
<1>2. Chosen("access") /\ [Next]_vars =>
         Chosen("access")' /\ [AccessNext]_<<accessVars, clientVars>>
    BY DEF Next, vars, Chosen
<1>3. QED
    BY <1>1, <1>2, PTL DEF Spec, AccessSpec

\* Whichever component is called, its variables keep their types.
THEOREM EditsTypeCorrect == Spec => []EditsTypeOK
<1>1. Init => \/ Chosen("settings") \/ Chosen("cnxs") \/ Chosen("queries")
              \/ Chosen("folders") \/ Chosen("sets") \/ Chosen("access")
    BY DEF Init, Chosen
<1>2. /\ Chosen("settings") /\ SettingsTypeOK => EditsTypeOK
      /\ Chosen("cnxs") /\ CnxTypeOK => EditsTypeOK
      /\ Chosen("queries") /\ SavedQueryTypeOK => EditsTypeOK
      /\ Chosen("folders") /\ FolderTypeOK => EditsTypeOK
      /\ Chosen("sets") /\ EnforcementTypeOK => EditsTypeOK
      /\ Chosen("access") /\ AccessTypeOK => EditsTypeOK
    BY DEF EditsTypeOK, Chosen
<1>3. QED
    BY <1>1, <1>2, PTL, SettingsChosen, SettingsTypeCorrect, CnxsChosen, CnxTypeCorrect,
       QueriesChosen, SavedQueryTypeCorrect, FoldersChosen, FolderTypeCorrect,
       SetsChosen, EnforcementTypeCorrect, AccessChosen, AccessTypeCorrect
    DEF Spec

\* Two saved queries get the same name only for the reasons SavedQueryNamesUnique
\* gives, two enforcement sets only for those of SetNamesUnique: a component that
\* is not called names nothing.
THEOREM NamesAreUnique == Spec => NamesUnique
<1>1. ~Chosen("queries") /\ [Next]_vars => ~Chosen("queries")' /\ UNCHANGED queryVars
    BY DEF Next, vars, Chosen
<1>2. UNCHANGED queryVars =>
      [ \A c \in Clients : Leaves(c, "put") \/ Leaves(c, "create") =>
          \A u, v \in In(queries') :
             /\ u # v /\ queries'[u].name = queries'[v].name
             /\ u \notin Listed \/ queries[u].name # queries'[u].name
             => v \in named_since[c] \/ "name" \in found[c].stale
      ]_<<queryVars, clientVars>>
    BY DEF queryVars, Listed
<1>3. ~Chosen("sets") /\ [Next]_vars => ~Chosen("sets")' /\ UNCHANGED enforcementVars
    BY DEF Next, vars, Chosen
<1>4. UNCHANGED enforcementVars =>
      [ \A c \in Clients : Leaves(c, "put") \/ Leaves(c, "create") =>
          \A u, v \in EcsIn(ecs') :
             /\ u # v /\ ecs'[u].name = ecs'[v].name
             /\ u \notin EcsIn(ecs) \/ ecs[u].name # ecs'[u].name
             => v \in unlisted[c] \/ "name" \in ec_found[c].stale
      ]_<<enforcementVars, clientVars>>
    BY DEF enforcementVars
<1>5. Spec => SavedQueryNamesUnique
    BY <1>1, <1>2, PTL, QueriesChosen, SavedQueryNamesAreUnique DEF Spec, SavedQueryNamesUnique
<1>6. Spec => SetNamesUnique
    BY <1>3, <1>4, PTL, SetsChosen, EnforcementNamesAreUnique DEF Spec, SetNamesUnique
<1>7. QED
    BY <1>5, <1>6, PTL DEF NamesUnique

=============================================================================
