------------------------------ MODULE FolderEdit ------------------------------
(***************************************************************************)
(* Folders of saved queries and enforcement sets.  A program has a folder  *)
(* object at hand: its id, its path, its children, and the whole tree it   *)
(* was loaded from.  The methods check a change against that data - the    *)
(* target is not under the folder itself, no sibling has the name, nothing *)
(* is left inside - and then send it as ids.  Some fetch the tree first,   *)
(* some only when it is a minute old, some never.                          *)
(*                                                                         *)
(* The server does as it is told, but for ids it does not have, and lists  *)
(* what hangs together with the root.  Two objects that share one tree     *)
(* count as two clients.                                                   *)
(***************************************************************************)
EXTENDS ApiClient, Sequences

CONSTANTS
    FolderIds,
    Root,                   \* "/", which is no folder of its own
    ReadOnly,               \* the folders that are read-only
    FirstTree,              \* bound: the folders there are at first
    FolderNames,            \* bound: the names callers give
    FolderArgs,             \* bound: the folders callers look for
    FolderObjects,          \* bound: saved queries or enforcement sets
    NoFolder,               \* not created yet, or none at hand
    GoneFolder              \* deleted

Folder == [parent : FolderIds \cup {Root}, name : STRING]

ASSUME FolderAssumption ==
    /\ IsFiniteSet(FolderIds)
    /\ ReadOnly \subseteq FolderIds
    /\ {Root, NoFolder, GoneFolder} \cap FolderIds = {}
    /\ NoFolder # GoneFolder
    /\ NoFolder \notin Folder /\ GoneFolder \notin Folder
    /\ FirstTree \in [FolderIds -> Folder \cup {NoFolder}]
    /\ \A f \in FolderIds : FirstTree[f] # NoFolder =>
         FirstTree[f].parent = Root \/ FirstTree[FirstTree[f].parent] # NoFolder
    /\ FolderNames \subseteq STRING
    /\ \A a \in FolderArgs :
         \/ a.id \in FolderIds
         \/ a.id = NoFolder /\ a.path \in Seq(STRING) \ {<<>>}

VARIABLES
    tree,                   \* the server's folders: parent and name
    where,                  \* and the folder each object is in
    handle,                 \* per client: the folder it has at hand
    view,                   \* the tree as last fetched, where folders are looked for
    own,                    \* the tree the folder at hand was loaded from
    goal,                   \* the folder its call has reached, and the names left
    since                   \* history: what changed since own, view and the objects were read

folderVars == <<tree, where, handle, view, own, goal, since>>

NoGoal == [at |-> NoFolder, under |-> NoFolder, rest |-> <<>>]
NoChange == [own |-> {}, view |-> {}, objects |-> {}]

FoldersIn(t) == { f \in FolderIds : t[f] \notin {NoFolder, GoneFolder} }

\* f and the folders it is in, the root included if it hangs together with it.
FolderAbove(t, f) ==
    LET up[n \in 0..Cardinality(FolderIds)] ==
          IF n = 0 THEN {f}
          ELSE LET below == up[n - 1]
               IN  below \cup { t[g].parent : g \in below \ {Root} }
    IN  up[Cardinality(FolderIds)]

FolderUnder(t, f) == { g \in FoldersIn(t) : f \in FolderAbove(t, g) }

\* _get: what the server lists.
FetchedTree ==
    LET listed == FolderUnder(tree, Root)
    IN  [f \in FolderIds |-> IF f \in listed THEN tree[f] ELSE NoFolder]

FolderPath(t, f) ==
    LET path[g \in FoldersIn(t) \cup {Root}] ==
          IF g = Root THEN <<>> ELSE Append(path[t[g].parent], t[g].name)
    IN  path[f]

ChildrenNamed(t, f, name) ==
    { g \in FoldersIn(t) : t[g].parent = f /\ t[g].name = name }

\* find_by_path: part by part, each time the first subfolder of the name, up
\* to a part there is no subfolder for.
Walked(t, f, parts) ==
    LET walk[n \in 0..Len(parts)] ==
          IF n = 0 THEN { [at |-> f, under |-> NoFolder, rest |-> parts] }
          ELSE UNION { LET next == ChildrenNamed(t, w.at, Head(w.rest))
                       IN  IF w.rest = <<>> \/ next = {} THEN {w}
                           ELSE { [w EXCEPT !.at = g, !.rest = Tail(@)] : g \in next } :
                       w \in walk[n - 1] }
    IN  walk[Len(parts)]

\* find: an id of any folder, or an absolute path.
ById(f)       == [id |-> f, path |-> <<>>]
ByPath(parts) == [id |-> NoFolder, path |-> parts]

FolderMatches(t, arg) ==
    IF arg.id = NoFolder THEN Walked(t, Root, arg.path)
    ELSE { [NoGoal EXCEPT !.at = f] : f \in {arg.id} \cap FoldersIn(t) }

FolderTypeOK ==
    /\ \A t \in {tree} \cup { view[c] : c \in Clients } \cup { own[c] : c \in Clients } :
         \A f \in FolderIds :
            \/ t[f] \in {NoFolder, GoneFolder}
            \/ t[f].parent \in FolderIds \cup {Root} /\ t[f].name \in STRING
    /\ where \in [FolderObjects -> FolderIds \cup {NoFolder, GoneFolder}]
    /\ \A c \in Clients :
         /\ handle[c] \in FolderIds \cup {NoFolder}
         /\ handle[c] \in FoldersIn(own[c]) \/ handle[c] = NoFolder
         /\ goal[c].at \in FolderIds \cup {NoFolder}
         /\ since[c].view \subseteq since[c].own /\ since[c].own \subseteq FolderIds
         /\ since[c].objects \subseteq FolderObjects
         /\ pc[c] \in {"idle", "get", "target", "part", "part_back", "move", "parent",
                       "rename", "fresh", "objects", "delete", "back"}

FolderInit ==
    /\ tree = FirstTree
    /\ where = [o \in FolderObjects |-> NoFolder]
    /\ handle \in [Clients -> FoldersIn(FetchedTree) \ ReadOnly]
    /\ view = [c \in Clients |-> FetchedTree]
    /\ own = view
    /\ goal = [c \in Clients |-> NoGoal]
    /\ since = [c \in Clients |-> NoChange]

-----------------------------------------------------------------------------
(* The calls.  delete() is called with confirm=True.                       *)

OwnPath(c) == FolderPath(own[c], handle[c])

\* _check_update_ok and _check_minimum_depth; a deleted folder is not at hand.
MayChange(c) ==
    /\ handle[c] \notin {NoFolder} \cup ReadOnly
    /\ Len(OwnPath(c)) >= 2

\* Folders.find and Folders.create, for another folder to have at hand.
FolderCallFind(c) ==
    /\ \E a \in FolderArgs, create \in BOOLEAN :
         Begin(c, [op |-> "get", to |-> a, create |-> create], "get")
    /\ handle' = [handle EXCEPT ![c] = NoFolder]
    /\ UNCHANGED <<tree, where, view, own, goal, since>>

FolderCallChange(c) ==
    /\ MayChange(c)
    /\ \/ \E a \in FolderArgs, create \in BOOLEAN :
            Begin(c, [op |-> "move", to |-> a, create |-> create], "target")
       \/ \E subfolders, objects \in BOOLEAN :
            Begin(c, [op |-> "delete", subfolders |-> subfolders, objects |-> objects], "fresh")
    /\ UNCHANGED folderVars

RenameAllowed(c, t, name) ==
    LET parent == own[c][handle[c]].parent
    IN  parent \in FoldersIn(t) /\ ChildrenNamed(t, parent, name) = {}

\* rename() looks for the parent in a tree that it fetches again only when
\* that is a minute old.
FolderCallRename(c) ==
    /\ MayChange(c)
    /\ \E name \in FolderNames :
         \/ Begin(c, [op |-> "rename", name |-> name], "parent")
         \/ /\ RenameAllowed(c, view[c], name)
            /\ Begin(c, [op |-> "rename", name |-> name], "rename")
    /\ UNCHANGED folderVars

\* create() looks among the children of the folder at hand, as it was loaded.
FolderCallCreate(c) ==
    /\ handle[c] \notin {NoFolder} \cup ReadOnly
    /\ \E name \in FolderNames :
         /\ ChildrenNamed(own[c], handle[c], name) = {}
         /\ Begin(c, [op |-> "create", create |-> TRUE], "part")
         /\ goal' = [goal EXCEPT ![c] = [NoGoal EXCEPT !.at = handle[c], !.rest = <<name>>]]
    /\ UNCHANGED <<tree, where, handle, view, own, since>>

\* A subfolder, and create() of a name that is there: without a request.
FolderTakeChild(c) ==
    /\ pc[c] = "idle"
    /\ \E f \in FolderIds :
         /\ f \in FoldersIn(own[c]) /\ own[c][f].parent = handle[c]
         /\ handle' = [handle EXCEPT ![c] = f]
    /\ told' = "none"
    /\ UNCHANGED <<pc, job, calls, tree, where, view, own, goal, since>>

-----------------------------------------------------------------------------
(* The requests.                                                           *)

FolderEnds(c, how) ==
    /\ End(c, how)
    /\ goal' = [goal EXCEPT ![c] = NoGoal]

\* A bug: the folder at hand is looked for in the old tree.
FolderLoaded(c) == handle[c] \in FoldersIn(own[c])

\* _refresh fetches the tree, and finds the folder at hand in it or raises.
FolderFound(c) == handle[c] \in FoldersIn(FetchedTree)

Refetched(c) == view' = [view EXCEPT ![c] = FetchedTree]

FolderNotFound(c) ==
    /\ Refetched(c)
    /\ since' = [since EXCEPT ![c].view = {}]
    /\ FolderEnds(c, "raised")
    /\ UNCHANGED <<tree, where, handle, own>>

FolderRefresh(c) ==
    /\ Refetched(c)
    /\ own' = [own EXCEPT ![c] = FetchedTree]
    /\ since' = [since EXCEPT ![c] = NoChange]

\* A bug: only the folder itself is refused as the target.
PathsSame(inner, outer) == inner = outer

\* _check_under_folder, by the parts of the paths.
PathsUnder(inner, outer) ==
    /\ Len(outer) <= Len(inner)
    /\ SubSeq(inner, 1, Len(outer)) = outer

\* What move() checks of its target, the folder at hand being as in o.
MoveAllowed(c, o, target) ==
    /\ target \notin {Root} \cup ReadOnly
    /\ ~PathsUnder(FolderPath(FetchedTree, target), FolderPath(o, handle[c]))
    /\ ChildrenNamed(FetchedTree, target, o[handle[c]].name) = {}

\* A fetch brings find to w, the folder at hand being as in o, and s the
\* changes since: find is there, creates the next part, or raises.
FolderReaches(c, w, o, s) ==
    LET there == w.rest = <<>>
        makes == ~there /\ job[c].create /\ w.at \notin {Root} \cup ReadOnly
        moves == there /\ job[c].op = "move" /\ MoveAllowed(c, o, w.at)
        holds == there /\ job[c].op # "move"
    IN  /\ Refetched(c)
        /\ own' = [own EXCEPT ![c] = IF holds THEN FetchedTree ELSE o]
        /\ since' = [since EXCEPT ![c] = IF holds THEN [s EXCEPT !.own = s.view] ELSE s]
        /\ handle' = [handle EXCEPT ![c] = IF holds THEN w.at ELSE @]
        /\ \/ makes /\ Go(c, "part") /\ goal' = [goal EXCEPT ![c] = w]
           \/ moves /\ Go(c, "move") /\ goal' = [goal EXCEPT ![c] = w]
           \/ holds /\ FolderEnds(c, "returned")
           \/ ~(makes \/ moves \/ holds) /\ FolderEnds(c, "raised")
        /\ UNCHANGED <<tree, where>>

FolderGet(c) ==
    /\ pc[c] = "get"
    /\ \/ FolderMatches(FetchedTree, job[c].to) = {} /\ FolderNotFound(c)
       \/ \E w \in FolderMatches(FetchedTree, job[c].to) :
            FolderReaches(c, w, own[c], [since[c] EXCEPT !.view = {}])

\* move() refreshes before it looks for its target.
FolderTarget(c) ==
    /\ pc[c] = "target"
    /\ \/ /\ ~FolderFound(c) \/ FolderMatches(FetchedTree, job[c].to) = {}
          /\ FolderNotFound(c)
       \/ /\ FolderFound(c)
          /\ \E w \in FolderMatches(FetchedTree, job[c].to) :
               FolderReaches(c, w, FetchedTree, NoChange)

\* All copies of the tree learn, for the properties, what becomes of it.
FolderWrites(c, t, w, to) ==
    LET changed == { f \in FolderIds : t[f] # tree[f] } IN
    /\ tree' = t /\ where' = w
    /\ Go(c, to) \/ End(c, "failed")
    /\ since' = [d \in Clients |->
         [since[d] EXCEPT !.own = @ \cup changed, !.view = @ \cup changed]]
    /\ UNCHANGED <<view, own>>

\* The server has no folder of that id.
FolderRefused(c) ==
    /\ FolderEnds(c, "raised")
    /\ UNCHANGED <<tree, where, handle, view, own, since>>

FolderPart(c) ==
    /\ pc[c] = "part"
    /\ LET g == goal[c] IN
       \/ g.at \notin FoldersIn(tree) /\ FolderRefused(c)
       \/ /\ g.at \in FoldersIn(tree)
          /\ \E f \in FolderIds :
               /\ tree[f] = NoFolder
               /\ FolderWrites(c, [tree EXCEPT ![f] = [parent |-> g.at, name |-> Head(g.rest)]],
                               where, "part_back")
               /\ goal' = [goal EXCEPT ![c] =
                    IF told' = "failed" THEN NoGoal
                    ELSE [at |-> f, under |-> g.at, rest |-> Tail(g.rest)]]
          /\ UNCHANGED handle

\* The parent is refreshed, and the new folder found by its id.
FolderPartBack(c) ==
    /\ pc[c] = "part_back"
    /\ LET g == goal[c] IN
       \/ ~({g.at, g.under} \subseteq FoldersIn(FetchedTree)) /\ FolderNotFound(c)
       \/ /\ {g.at, g.under} \subseteq FoldersIn(FetchedTree)
          /\ \E w \in Walked(FetchedTree, g.at, g.rest) :
               FolderReaches(c, w, own[c], [since[c] EXCEPT !.view = {}])

FolderMove(c) ==
    /\ pc[c] = "move"
    /\ \/ ~({handle[c], goal[c].at} \subseteq FoldersIn(tree)) /\ FolderRefused(c)
       \/ /\ {handle[c], goal[c].at} \subseteq FoldersIn(tree)
          /\ FolderWrites(c, [tree EXCEPT ![handle[c]].parent = goal[c].at], where, "back")
          /\ goal' = [goal EXCEPT ![c] = NoGoal]
          /\ UNCHANGED handle

\* The parent id was read before this fetch, and the siblings are those of
\* that parent; since.own goes on from where it was read.
FolderParent(c) ==
    /\ pc[c] = "parent"
    /\ \/ ~FolderFound(c) /\ FolderNotFound(c)
       \/ /\ FolderFound(c)
          /\ Refetched(c)
          /\ own' = [own EXCEPT ![c] = FetchedTree]
          /\ since' = [since EXCEPT ![c].view = {}]
          /\ \/ RenameAllowed(c, FetchedTree, job[c].name) /\ Go(c, "rename") /\ UNCHANGED goal
             \/ ~RenameAllowed(c, FetchedTree, job[c].name) /\ FolderEnds(c, "raised")
          /\ UNCHANGED <<tree, where, handle>>

FolderRename(c) ==
    /\ pc[c] = "rename"
    /\ \/ handle[c] \notin FoldersIn(tree) /\ FolderRefused(c)
       \/ /\ handle[c] \in FoldersIn(tree)
          /\ FolderWrites(c, [tree EXCEPT ![handle[c]].name = job[c].name], where, "back")
          /\ UNCHANGED <<handle, goal>>

\* delete() refreshes, then fetches the objects, and counts what is inside.
FolderFresh(c) ==
    /\ pc[c] = "fresh"
    /\ \/ ~FolderFound(c) /\ FolderNotFound(c)
       \/ /\ FolderFound(c)
          /\ FolderRefresh(c)
          /\ Go(c, "objects")
          /\ UNCHANGED <<tree, where, handle, goal>>

SubfoldersInside(c) == FolderUnder(view[c], handle[c]) \ {handle[c]}

\* A bug: the objects in the subfolders are not counted.
ObjectsDirectly(c) == { o \in FolderObjects : where[o] = handle[c] }

ObjectsInside(c) == { o \in FolderObjects : where[o] \in FolderUnder(view[c], handle[c]) }

FolderCounts(c) ==
    /\ pc[c] = "objects"
    /\ LET ok == /\ SubfoldersInside(c) = {} \/ job[c].subfolders
                 /\ ObjectsInside(c) = {} \/ job[c].objects
       IN  \/ ok /\ Go(c, "delete")
           \/ ~ok /\ End(c, "raised")
    /\ since' = [since EXCEPT ![c].objects = {}]
    /\ UNCHANGED <<tree, where, handle, view, own, goal>>

FolderDelete(c) ==
    /\ pc[c] = "delete"
    /\ \/ handle[c] \notin FoldersIn(tree) /\ FolderRefused(c)
       \/ /\ handle[c] \in FoldersIn(tree)
          /\ LET gone == FolderUnder(tree, handle[c]) IN
             FolderWrites(c, [f \in FolderIds |-> IF f \in gone THEN GoneFolder ELSE tree[f]],
                          [o \in FolderObjects |->
                             IF where[o] \in gone THEN GoneFolder ELSE where[o]], "back")
          /\ handle' = [handle EXCEPT ![c] = IF told' = "failed" THEN @ ELSE NoFolder]
          /\ UNCHANGED goal

\* The refresh at the end, of the tree alone after a delete.
FolderBack(c) ==
    /\ pc[c] = "back"
    /\ \/ handle[c] # NoFolder /\ ~FolderFound(c) /\ FolderNotFound(c)
       \/ /\ handle[c] = NoFolder \/ FolderFound(c)
          /\ FolderRefresh(c)
          /\ FolderEnds(c, "returned")
          /\ UNCHANGED <<tree, where, handle>>

FolderFail(c) ==
    /\ pc[c] # "idle"
    /\ FolderEnds(c, "failed")
    /\ UNCHANGED <<tree, where, handle, view, own, since>>

\* Somebody saves an object in a folder (SavedQueryEdit).
FolderObject ==
    /\ \E o \in FolderObjects, f \in FoldersIn(tree) :
         /\ where[o] = NoFolder
         /\ where' = [where EXCEPT ![o] = f]
         /\ since' = [d \in Clients |-> [since[d] EXCEPT !.objects = @ \cup {o}]]
    /\ told' = "none"
    /\ UNCHANGED <<pc, job, calls, tree, handle, view, own, goal>>

FolderNext ==
    \/ FolderObject
    \/ \E c \in Clients :
        \/ FolderCallFind(c) \/ FolderCallChange(c) \/ FolderCallRename(c)
        \/ FolderCallCreate(c) \/ FolderTakeChild(c)
        \/ FolderGet(c) \/ FolderTarget(c) \/ FolderPart(c) \/ FolderPartBack(c)
        \/ FolderMove(c) \/ FolderParent(c) \/ FolderRename(c)
        \/ FolderFresh(c) \/ FolderCounts(c) \/ FolderDelete(c)
        \/ FolderBack(c) \/ FolderFail(c)

-----------------------------------------------------------------------------
\* Nothing that hung together with the root comes off it in a move.
MoveKeepsTree(c) ==
    Leaves(c, "move") =>
      \A f \in FolderUnder(tree, Root) :
         \/ f \in FolderUnder(tree', Root)
         \/ FolderAbove(tree, goal[c].at)
              \cap (since[c].view \cup (FoldersIn(own[c]) \cap since[c].own)) # {}

NamesKeptApart(c) ==
    Leaves(c, "move") \/ Leaves(c, "rename") \/ Leaves(c, "part") =>
      \A f, g \in FoldersIn(tree') :
         f # g /\ tree'[f] = tree'[g] /\ tree'[f] # tree[f]
         => \/ g \in since[c].view
            \/ f \in since[c].own
            \/ job[c].op = "create" /\ g \in since[c].own

(* A folder comes to be inside itself only if a folder on the path of the  *)
(* target was changed by others after that path was read, or one that      *)
(* move() knew after its own path was; two folders of a parent come to     *)
(* share a name only if the sibling was changed after the siblings were    *)
(* read, or the folder itself was after its parent or name was read.       *)
(* base.py:871-883, 917, 1015, 1597-1617.                                  *)
FoldersStayTree ==
    [][ \A c \in Clients : MoveKeepsTree(c) /\ NamesKeptApart(c) ]_<<folderVars, clientVars>>

DeleteSparesFolders(c) ==
    Leaves(c, "delete") =>
      \A f \in FoldersIn(tree) \ (FoldersIn(tree') \cup {handle[c]}) :
         job[c].subfolders \/ FolderAbove(tree, f) \cap since[c].view # {}

DeleteSparesObjects(c) ==
    Leaves(c, "delete") =>
      \A o \in FolderObjects : where'[o] # where[o] =>
         \/ job[c].objects
         \/ o \in since[c].objects
         \/ FolderAbove(tree, where[o]) \cap since[c].view # {}

(* delete() without delete_subfolders, or without delete_objects, takes a  *)
(* subfolder, or an object, with it only if that came into the folder      *)
(* after the tree, or the objects, had been read for the check.            *)
(* base.py:951-976.                                                        *)
FolderDeleteSparesUnseen ==
    [][ \A c \in Clients : DeleteSparesFolders(c) /\ DeleteSparesObjects(c)
      ]_<<folderVars, clientVars>>

=============================================================================
