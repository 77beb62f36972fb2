----------------------------- MODULE SettingsEdit -----------------------------
(***************************************************************************)
(* The system settings: sections of keys, some with sub sections, the list *)
(* of trusted CA certificates among them, and the pending certificate      *)
(* signing request.  A place is a key of a section or of a sub section     *)
(* (sub = "" for the section itself); `stored` is what the server has at   *)
(* each.  update_section and update_sub_section write ALL places back as   *)
(* they read them, the CA methods all places of their section.             *)
(*                                                                         *)
(* A section has keys its schema does not describe: these are dropped when *)
(* the section is written.  A certificate is "on" in the list or Absent.   *)
(***************************************************************************)
EXTENDS ApiClient

CONSTANTS
    Places,                 \* the places of the settings
    Described,              \* those in the schema of their section
    Values,                 \* what a key may hold
    Absent,                 \* nothing there
    SettingsCalls           \* the calls of update_(sub_)section considered

CaSection == "ssl_trust_settings"
CaEnabled == [section |-> CaSection, sub |-> "", key |-> "enabled"]
Csr       == [section |-> "csr", sub |-> "", key |-> "pending"]

LevelOf(p) == <<p.section, p.sub>>

CaPlaces == { p \in Places : p.section = CaSection }
CaFiles  == CaPlaces \ {CaEnabled}

ASSUME SettingsAssumption ==
    /\ Described \subseteq Places
    /\ CaEnabled \in Described /\ Csr \notin Places
    /\ Absent \notin Values \cup Clients
    /\ {"on", "off"} \subseteq Values
    /\ \A j \in SettingsCalls :
         /\ j.op = "update" /\ j.check \in BOOLEAN
         /\ \A p \in DOMAIN j.named :
              p \in Places /\ LevelOf(p) = j.level /\ j.named[p] \in Values

VARIABLES
    stored,                 \* what the server has at every place
    seen,                   \* per client: what its call has read
    touched                 \* history: places others have changed since

settingsVars == <<stored, seen, touched>>

AllPlaces == Places \cup {Csr}
Contents  == [AllPlaces -> Values \cup Clients \cup {Absent}]

SettingsTypeOK ==
    /\ stored \in Contents
    /\ \A c \in Clients : seen[c] \in Contents \cup {<<>>}
    /\ touched \in [Clients -> SUBSET AllPlaces]
    /\ \A c \in Clients : pc[c] \in {"idle", "read", "upload", "write", "back"}

SettingsInit ==
    /\ stored = [p \in AllPlaces |->
                   IF p \in {Csr} \cup CaFiles THEN Absent ELSE "off"]
    /\ seen = [c \in Clients |-> <<>>]
    /\ touched = [c \in Clients |-> {}]

-----------------------------------------------------------------------------
(* The calls.  `named` is what the caller asks to be changed.              *)

CaEnable(v)   == [op |-> "ca_enable", named |-> [p \in {CaEnabled} |-> v]]
CaAdd(f)      == [op |-> "ca_add", named |-> [p \in {f, CaEnabled} |-> "on"]]
CaRemove(f)   == [op |-> "ca_remove", named |-> [p \in {f} |-> Absent]]
CsrCreate(c, overwrite) ==
    [op |-> "csr_create", named |-> [p \in {Csr} |-> c], overwrite |-> overwrite]
CsrCancel     == [op |-> "csr_cancel", named |-> [p \in {Csr} |-> Absent]]

CallsOf(c) ==
    SettingsCalls
    \cup { CaEnable(v) : v \in {"on", "off"} }
    \cup { CaAdd(f) : f \in CaFiles } \cup { CaRemove(f) : f \in CaFiles }
    \cup { CsrCreate(c, o) : o \in BOOLEAN } \cup {CsrCancel}

\* The places a call writes.
Scope(j) ==
    CASE j.op = "update"                      -> Places
      [] j.op \in {"csr_create", "csr_cancel"} -> {Csr}
      [] OTHER                                -> CaPlaces

\* config_build: keys not supplied are kept, those without a schema are not.
Dropped(j, p) == j.op = "update" /\ LevelOf(p) = j.level /\ p \notin Described

\* A bug: what is not supplied is not kept.
BuiltFromSupplied(j, r, p) ==
    IF p \in DOMAIN j.named THEN j.named[p]
    ELSE IF j.op = "update" /\ LevelOf(p) = j.level THEN Absent ELSE r[p]

Built(j, r, p) ==
    IF p \in DOMAIN j.named THEN j.named[p]
    ELSE IF Dropped(j, p) THEN Absent ELSE r[p]

\* config_unchanged: nothing differs, or nothing is left of the section.
Unchanged(j, r) ==
    LET under(p) == p.section = j.level[1] /\ j.level[2] \in {"", p.sub}
        its == { p \in Places : under(p) }
    IN  \/ \A p \in its : Built(j, r, p) = r[p]
        \/ \A p \in its : Built(j, r, p) = Absent

\* What makes a call raise once it has read: ConfigUnknown, ConfigUnchanged,
\* NotFoundError, and ApiError for a request that is pending or is not.
Refused(j, r) ==
    CASE j.op = "update"     -> \/ ~(DOMAIN j.named \subseteq Described)
                                \/ j.check /\ Unchanged(j, r)
      [] j.op = "ca_remove"  -> \E f \in DOMAIN j.named : r[f] = Absent
      [] j.op = "csr_create" -> r[Csr] # Absent /\ ~j.overwrite
      [] j.op = "csr_cancel" -> r[Csr] = Absent
      [] OTHER               -> FALSE

-----------------------------------------------------------------------------
(* The requests.                                                           *)

SettingsCall(c) ==
    /\ \E j \in CallsOf(c) : Begin(c, j, "read")
    /\ UNCHANGED settingsVars

\* get_section or csr_get, and the checks on what it gave.
SettingsRead(c) ==
    /\ pc[c] = "read"
    /\ IF Refused(job[c], stored)
       THEN End(c, "raised") /\ UNCHANGED seen
       ELSE /\ Go(c, IF job[c].op = "ca_add" THEN "upload" ELSE "write")
            /\ seen' = [seen EXCEPT ![c] = stored]
    /\ touched' = [touched EXCEPT ![c] = {}]
    /\ UNCHANGED stored

\* ca_add uploads the certificate between its read and its write.
SettingsUpload(c) ==
    /\ pc[c] = "upload"
    /\ Go(c, "write")
    /\ UNCHANGED settingsVars

\* The whole configuration is sent; the answer may be lost.
SettingsWrite(c) ==
    /\ pc[c] = "write"
    /\ stored' = [p \in AllPlaces |->
                    IF p \in Scope(job[c]) THEN Built(job[c], seen[c], p)
                                           ELSE stored[p]]
    /\ touched' = [d \in Clients |->
                     IF d = c THEN {}
                     ELSE touched[d] \cup { p \in AllPlaces : stored'[p] # stored[p] }]
    /\ seen' = [seen EXCEPT ![c] = <<>>]
    /\ \/ job[c].op = "csr_cancel" /\ End(c, "returned")
       \/ job[c].op # "csr_cancel" /\ Go(c, "back")
       \/ End(c, "failed")

\* The section, or the signing request, is read back: csr_get raises if
\* there is none by now.
SettingsReadBack(c) ==
    /\ pc[c] = "back"
    /\ End(c, IF job[c].op = "csr_create" /\ stored[Csr] = Absent
              THEN "raised" ELSE "returned")
    /\ UNCHANGED settingsVars

\* A request fails before the server has done anything.
SettingsFail(c) ==
    /\ pc[c] # "idle"
    /\ End(c, "failed")
    /\ seen' = [seen EXCEPT ![c] = <<>>]
    /\ UNCHANGED <<stored, touched>>

SettingsNext ==
    \E c \in Clients :
        \/ SettingsCall(c) \/ SettingsRead(c) \/ SettingsUpload(c)
        \/ SettingsWrite(c) \/ SettingsReadBack(c) \/ SettingsFail(c)

-----------------------------------------------------------------------------
(* Although everything read is written back, a call changes a place its    *)
(* caller did not name only if another client has changed that place       *)
(* since the read (its change is then lost), or the place has no schema    *)
(* (keys of the section written that are undescribed are dropped).  And a  *)
(* signing request that is pending is replaced without overwrite only if   *)
(* it was created since csr_create looked.  The readings and the write of  *)
(* update_section, settings.py:118-139.                                    *)
SettingsOnlyNamed ==
    [][ \A c \in Clients, p \in AllPlaces :
          Leaves(c, "write") /\ stored'[p] # stored[p] =>
             \/ p \in touched[c]
             \/ p \in Places /\ p \notin Described /\ Dropped(job[c], p)
             \/ /\ p \in DOMAIN job[c].named
                /\ job[c].op = "csr_create" => job[c].overwrite \/ stored[p] = Absent
      ]_<<settingsVars, clientVars>>

=============================================================================
