---------------------------- MODULE MCServerEdits -----------------------------
(***************************************************************************)
(* Two clients that edit what the server keeps, checked for one component  *)
(* at a time: `which` is chosen at the start.  The components share        *)
(* nothing on the server and a call is of one component, so their          *)
(* interleavings add no state that a property could tell apart.  The       *)
(* symmetry is sound: only invariants and action properties are checked.   *)
(***************************************************************************)
EXTENDS SettingsEdit, CnxEdit, SavedQueryEdit, FolderEdit, EnforcementEdit, AccessEdit,
        TLC

CONSTANTS c1, c2, u1, u2, u3
VARIABLE which

TwoClients == {c1, c2}

At(section, sub, key) == [section |-> section, sub |-> sub, key |-> key]

SomePlaces ==
    { At("a", "", "x"), At("a", "", "z"), At("a", "", "u"), At("a", "s", "y"), At("a", "s", "v"),
      At(CaSection, "", "enabled"), At(CaSection, "", "file") }
SomeDescribed == { p \in SomePlaces : p.key \notin {"u", "v"} }
OnOff == {"on", "off"}
SomeSettingsCalls ==
    { [op |-> "update", level |-> LevelOf(p), named |-> p :> "on", check |-> check] :
        p \in { q \in SomePlaces : q.section = "a" }, check \in BOOLEAN }

TwoCnxs == {"i1", "i2"}
ThreeKeys == {"user", "domain", "old_key"}
TwoSchemaKeys == {"user", "domain"}
SomeCnxUpdates ==
    { [op |-> "update", named |-> {"user"}, parse |-> TRUE],
      [op |-> "update", named |-> {"active"}, parse |-> FALSE],
      [op |-> "update", named |-> {"user", "tunnel"}, parse |-> TRUE] }

ThreeUuids == {u1, u2, u3}
Symmetry == Permutations(TwoClients) \cup Permutations(ThreeUuids)
OneName == {"x"}
FourNames == {"x", "y", "z", "w"}
TwoNames == {"x", "y"}
GivenNames == {"x", "z"}

SomeFolders == {"pub", "arc", "f1", "f2", "f3"}
PublicAndArchive == {"pub", "arc"}
Archive == {"arc"}
NestedTree ==
    [f \in SomeFolders |->
       CASE f \in PublicAndArchive -> [parent |-> Root, name |-> f]
         [] f = "f1" -> [parent |-> "pub", name |-> "x"]
         [] f = "f2" -> [parent |-> "f1", name |-> "y"]
         [] f = "f3" -> NoFolder]
SomeFolderArgs ==
    { ByPath(<<"arc">>), ByPath(<<"pub", "x", "y", "x">>), ById("pub"), ById("f2") }
OneObject == {"o"}
FolderCalls == 2            \* bound: calls to folders

ThreeSets == {"e1", "e2", "e3"}
ListsByUuid ==
    [S \in SUBSET ThreeSets |-> SelectSeq(<<"e1", "e2", "e3">>, LAMBDA u : u \in S)]
ASet(name, actions, trigger) ==
    [name |-> name, actions |-> actions, trigger |-> trigger,
     description |-> {"old"}, folder |-> "old"]
TwoFirstSets == "e2" :> ASet("y", {"a"}, "old") @@ "e3" :> ASet("x", {}, "none")
NewName == {"z"}
OneAction == {"a"}
TwoUsers ==
    "s1" :> [name |-> "a", role |-> "r1", internal |-> TRUE, email |-> "old", flag |-> "old", rest |-> "old"]
    @@ "s2" :> [name |-> "b", role |-> "r2", internal |-> FALSE, email |-> "old", flag |-> "old", rest |-> "old"]
TwoRoles ==
    "r1" :> [name |-> "R", perms |-> {"p"}, scope |-> "old", predefined |-> FALSE]
    @@ "r2" :> [name |-> "P", perms |-> {"p", "q"}, scope |-> "old", predefined |-> TRUE]
ThreeUsers == {"s1", "s2", "s3"}
ThreeRoles == {"r1", "r2", "r3"}
ThreeUserNames == {"a", "b", "n"}
ThreeRoleNames == {"R", "P", "N"}
TwoPerms == {"p", "q"}
AccessCalls == 2            \* bound: calls about users and roles
CnxCalls == 2           \* bound: calls to connections
SetCalls == 2               \* bound: calls about enforcement sets

vars == <<which, clientVars, settingsVars, cnxVars, queryVars, folderVars, enforcementVars, accessVars>>

Init ==
    /\ which \in {"settings", "cnxs", "queries", "folders", "sets", "access"}
    /\ ClientInit /\ SettingsInit /\ CnxInit /\ SavedQueryInit /\ FolderInit
    /\ EnforcementInit /\ AccessInit
    /\ which # "cnxs" => cnxs["i1"] = Free /\ \A c \in Clients : held[c] = Gone
    /\ which # "folders" => \A c \in Clients : handle[c] = "pub"
    /\ which # "sets" => \A c \in Clients : ec_held[c] = NoSet
    /\ which # "access" => \A c \in Clients : cached[c] = NotCached

Next ==
    \/ /\ which = "settings" /\ SettingsNext
       /\ UNCHANGED <<which, cnxVars, queryVars, folderVars, enforcementVars, accessVars>>
    \/ /\ which = "cnxs" /\ CnxNext /\ calls' <= CnxCalls
       /\ UNCHANGED <<which, settingsVars, queryVars, folderVars, enforcementVars, accessVars>>
    \/ /\ which = "queries" /\ SavedQueryNext
       /\ UNCHANGED <<which, settingsVars, cnxVars, folderVars, enforcementVars, accessVars>>
    \/ /\ which = "folders" /\ FolderNext /\ calls' <= FolderCalls
       /\ UNCHANGED <<which, settingsVars, cnxVars, queryVars, enforcementVars, accessVars>>
    \/ /\ which = "sets" /\ EnforcementNext /\ calls' <= SetCalls
       /\ UNCHANGED <<which, settingsVars, cnxVars, queryVars, folderVars, accessVars>>
    \/ /\ which = "access" /\ AccessNext /\ calls' <= AccessCalls
       /\ UNCHANGED <<which, settingsVars, cnxVars, queryVars, folderVars, enforcementVars>>

Spec == Init /\ [][Next]_vars

EditsTypeOK ==
    CASE which = "settings" -> SettingsTypeOK
      [] which = "cnxs"     -> CnxTypeOK
      [] which = "queries"  -> SavedQueryTypeOK
      [] which = "folders"  -> FolderTypeOK
      [] which = "sets"     -> EnforcementTypeOK
      [] which = "access"   -> AccessTypeOK

(* No two saved queries, and no two enforcement sets, have the same name but for
   the reasons each module gives: a name is checked and used later.        *)
NamesUnique == SavedQueryNamesUnique /\ SetNamesUnique
=============================================================================
