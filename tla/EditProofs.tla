------------------------------ MODULE EditProofs ------------------------------
(***************************************************************************)
(* Theorems about methods that check a change against what they have read  *)
(* and write it back later, for any number of clients and of calls: of the *)
(* system settings (SettingsEdit), of adapter connections (CnxEdit), of    *)
(* saved queries (SavedQueryEdit) and of folders (FolderEdit).             *)
(*                                                                         *)
(* A folder hangs together with the root as long as nobody else has        *)
(* changed the tree that a move was checked against, and a deletion spares *)
(* what it was not to delete.  The server's tree is followed level by      *)
(* level: what is above a folder is the last of Height sets, each one      *)
(* level larger than the one before, and what holds of every tree is shown *)
(* by induction over the levels.  The invariant says of each client what   *)
(* it knows about the server: its two copies of the tree are those of the  *)
(* server but for the folders counted as changed since, and so is what a   *)
(* walk found out on the way.                                              *)
(***************************************************************************)
EXTENDS SettingsEdit, CnxEdit, SavedQueryEdit, FolderEdit, FiniteSetTheorems,
        PagingLemmas

-----------------------------------------------------------------------------
(* System settings.                                                        *)

SettingsSpec ==
    ClientInit /\ SettingsInit /\ [][SettingsNext]_<<settingsVars, clientVars>>

\* The variables of the clients are functions, and of the settings.
SettingsShape ==
    /\ DOMAIN pc = Clients /\ DOMAIN job = Clients
    /\ DOMAIN seen = Clients /\ DOMAIN touched = Clients
    /\ DOMAIN stored = AllPlaces

\* A call that is to write has found nothing to refuse.
SeenUnrefused ==
    \A c \in Clients : pc[c] \in {"upload", "write"} =>
        job[c] \in CallsOf(c) /\ ~Refused(job[c], seen[c])

\* What such a call has read and nobody has touched since is still so.
SeenUntouched ==
    \A c \in Clients : pc[c] \in {"upload", "write"} =>
        /\ seen[c] \in Contents
        /\ \A p \in AllPlaces \ touched[c] : seen[c][p] = stored[p]

SettingsInv ==
    /\ SettingsTypeOK
    /\ SettingsShape
    /\ \A c \in Clients : pc[c] # "idle" => job[c] \in CallsOf(c)
    /\ SeenUnrefused
    /\ SeenUntouched

\* A signing request is asked for the one place it is for.
LEMMA CsrCallNamesCsr ==
    ASSUME NEW c \in Clients, NEW j \in CallsOf(c), j.op = "csr_create"
    PROVE  DOMAIN j.named = {Csr} /\ j.overwrite \in BOOLEAN
<1>1. j \notin SettingsCalls
    BY SettingsAssumption
<1>2. \A v : CaEnable(v).op = "ca_enable"
    BY DEF CaEnable
<1>3. \A f : CaAdd(f).op = "ca_add" /\ CaRemove(f).op = "ca_remove"
    BY DEF CaAdd, CaRemove
<1>4. CsrCancel.op = "csr_cancel"
    BY DEF CsrCancel
<1>5. PICK o \in BOOLEAN : j = CsrCreate(c, o)
    BY <1>1, <1>2, <1>3, <1>4 DEF CallsOf
<1>6. QED
    BY <1>5 DEF CsrCreate

\* What calls name is of the settings, and so is what they put there.
LEMMA NamedTyped ==
    ASSUME NEW c \in Clients, NEW j \in CallsOf(c), NEW p \in DOMAIN j.named
    PROVE  p \in AllPlaces /\ j.named[p] \in Values \cup Clients \cup {Absent}
<1> DEFINE Right(k) == \A q \in DOMAIN k.named :
              q \in AllPlaces /\ k.named[q] \in Values \cup Clients \cup {Absent}
<1>1. CaEnabled \in AllPlaces /\ Csr \in AllPlaces /\ CaFiles \subseteq AllPlaces
      /\ {"on", "off"} \subseteq Values
    BY SettingsAssumption DEF AllPlaces, CaFiles, CaPlaces
<1>2. \A k \in SettingsCalls : Right(k)
    BY SettingsAssumption DEF AllPlaces
<1>3. \A v \in {"on", "off"} : Right(CaEnable(v))
    BY <1>1 DEF CaEnable
<1>4. \A f \in CaFiles : Right(CaAdd(f)) /\ Right(CaRemove(f))
    BY <1>1 DEF CaAdd, CaRemove
<1>5. \A o \in BOOLEAN : Right(CsrCreate(c, o))
    BY <1>1 DEF CsrCreate
<1>6. Right(CsrCancel)
    BY <1>1 DEF CsrCancel
<1>7. Right(j)
    BY <1>2, <1>3, <1>4, <1>5, <1>6 DEF CallsOf
<1>8. QED
    BY <1>7

\* What is built of what was read is what a place may hold.
LEMMA BuiltTyped ==
    ASSUME NEW c \in Clients, NEW j \in CallsOf(c), NEW r \in Contents,
           NEW p \in AllPlaces
    PROVE  Built(j, r, p) \in Values \cup Clients \cup {Absent}
<1>1. r[p] \in Values \cup Clients \cup {Absent}
    BY DEF Contents
<1>2. QED
    BY <1>1, NamedTyped DEF Built

LEMMA SettingsInitInv == ClientInit /\ SettingsInit => SettingsInv
<1> SUFFICES ASSUME ClientInit, SettingsInit PROVE SettingsInv
    OBVIOUS
<1>1. stored \in Contents
    BY SettingsAssumption DEF SettingsInit, Contents
<1>2. QED
    BY <1>1
       DEF ClientInit, SettingsInit, SettingsInv, SettingsTypeOK, SettingsShape,
           SeenUnrefused, SeenUntouched

\* Every step is a request, or the call, of one of the clients.
LEMMA SettingsCases ==
    ASSUME [SettingsNext]_<<settingsVars, clientVars>>
    PROVE  \/ \E c \in Clients :
                 \/ SettingsCall(c) \/ SettingsRead(c) \/ SettingsUpload(c)
                 \/ SettingsWrite(c) \/ SettingsReadBack(c) \/ SettingsFail(c)
           \/ UNCHANGED <<settingsVars, clientVars>>
BY DEF SettingsNext

\* What a call that begins, goes on or ends makes of pc and job.
LEMMA ClientMoves ==
    ASSUME NEW c \in Clients, DOMAIN pc = Clients, DOMAIN job = Clients
    PROVE  /\ \A j, to : Begin(c, j, to) =>
                 pc' = [pc EXCEPT ![c] = to] /\ job' = [job EXCEPT ![c] = j]
                 /\ pc'[c] = to /\ job'[c] = j
           /\ \A to : Go(c, to) =>
                 pc' = [pc EXCEPT ![c] = to] /\ pc'[c] = to /\ job' = job
           /\ \A how : End(c, how) =>
                 pc' = [pc EXCEPT ![c] = "idle"] /\ pc'[c] = "idle"
                 /\ job' = [job EXCEPT ![c] = NoJob]
BY DEF Begin, Go, End

\* What a write makes of the settings: of what a call has read that nobody has
\* touched, not even this write, nothing changes.
LEMMA SettingsWritten ==
    ASSUME SettingsInv, NEW c \in Clients, SettingsWrite(c)
    PROVE  /\ stored' \in Contents
           /\ touched' \in [Clients -> SUBSET AllPlaces]
           /\ \A d \in Clients \ {c} : \A p \in AllPlaces \ touched'[d] :
                 p \notin touched[d] /\ stored'[p] = stored[p]
<1> USE DEF SettingsInv
<1>1. seen[c] \in Contents /\ job[c] \in CallsOf(c) /\ stored \in Contents
    BY DEF SettingsWrite, SeenUntouched, SeenUnrefused, SettingsTypeOK
<1>2. \A p \in AllPlaces :
         /\ Built(job[c], seen[c], p) \in Values \cup Clients \cup {Absent}
         /\ stored[p] \in Values \cup Clients \cup {Absent}
    BY <1>1, BuiltTyped DEF Contents
<1>3. stored' = [p \in AllPlaces |->
                   IF p \in Scope(job[c]) THEN Built(job[c], seen[c], p)
                                          ELSE stored[p]]
    BY DEF SettingsWrite
<1>4. stored' \in Contents
    BY <1>2, <1>3 DEF Contents
<1>5. touched' = [d \in Clients |->
                    IF d = c THEN {}
                    ELSE touched[d] \cup { p \in AllPlaces : stored'[p] # stored[p] }]
    BY DEF SettingsWrite
<1>6. touched' \in [Clients -> SUBSET AllPlaces]
    BY <1>5 DEF SettingsTypeOK
<1>7. QED
    BY <1>4, <1>5, <1>6

\* Every step keeps what the calls have read true where nobody has touched it.
LEMMA SettingsInvNext ==
    ASSUME SettingsInv, [SettingsNext]_<<settingsVars, clientVars>>
    PROVE  SettingsInv'
<1> USE DEF SettingsInv, SettingsShape
<1>0. DOMAIN pc = Clients /\ DOMAIN job = Clients /\ stored \in Contents
    BY DEF SettingsTypeOK
<1>1. ASSUME NEW c \in Clients, SettingsCall(c) PROVE SettingsInv'
    <2>1. PICK j \in CallsOf(c) : Begin(c, j, "read")
        BY <1>1 DEF SettingsCall
    <2>2. /\ pc' = [pc EXCEPT ![c] = "read"] /\ job' = [job EXCEPT ![c] = j]
          /\ UNCHANGED settingsVars
        BY <1>0, <1>1, <2>1, ClientMoves DEF SettingsCall
    <2>3. QED
        BY <2>2 DEF settingsVars, SettingsTypeOK, SeenUnrefused, SeenUntouched
<1>2. ASSUME NEW c \in Clients, SettingsRead(c) PROVE SettingsInv'
    <2>1. /\ stored' = stored /\ touched' = [touched EXCEPT ![c] = {}]
          /\ pc[c] = "read"
        BY <1>2 DEF SettingsRead
    <2>2. CASE Refused(job[c], stored)
        <3>1. /\ pc' = [pc EXCEPT ![c] = "idle"] /\ job' = [job EXCEPT ![c] = NoJob]
              /\ seen' = seen
            BY <1>0, <1>2, <2>2, ClientMoves DEF SettingsRead
        <3>2. QED
            BY <2>1, <3>1 DEF SettingsTypeOK, SeenUnrefused, SeenUntouched
    <2>3. CASE ~Refused(job[c], stored)
        <3>1. PICK to \in {"upload", "write"} :
                 /\ pc' = [pc EXCEPT ![c] = to] /\ job' = job
                 /\ seen' = [seen EXCEPT ![c] = stored]
            BY <1>0, <1>2, <2>3, ClientMoves DEF SettingsRead
        <3>2. SettingsTypeOK'
            BY <1>0, <2>1, <3>1 DEF SettingsTypeOK
        <3>3. SeenUnrefused'
            BY <2>1, <2>3, <3>1 DEF SeenUnrefused
        <3>4. SeenUntouched'
            BY <1>0, <2>1, <3>1 DEF SeenUntouched
        <3>5. QED
            BY <2>1, <3>1, <3>2, <3>3, <3>4
    <2>4. QED
        BY <2>2, <2>3
<1>3. ASSUME NEW c \in Clients, SettingsUpload(c) PROVE SettingsInv'
    <2>1. /\ pc' = [pc EXCEPT ![c] = "write"] /\ job' = job /\ pc[c] = "upload"
          /\ UNCHANGED settingsVars
        BY <1>0, <1>3, ClientMoves DEF SettingsUpload
    <2>2. QED
        BY <2>1 DEF settingsVars, SettingsTypeOK, SeenUnrefused, SeenUntouched
<1>4. ASSUME NEW c \in Clients, SettingsWrite(c) PROVE SettingsInv'
    <2>1. PICK to \in {"idle", "back"} :
             /\ pc' = [pc EXCEPT ![c] = to]
             /\ job' = job \/ (to = "idle" /\ job' = [job EXCEPT ![c] = NoJob])
        BY <1>0, <1>4, ClientMoves DEF SettingsWrite
    <2>2. pc[c] = "write" /\ seen' = [seen EXCEPT ![c] = <<>>]
        BY <1>4 DEF SettingsWrite
    <2>3. /\ stored' \in Contents
          /\ touched' \in [Clients -> SUBSET AllPlaces]
          /\ \A d \in Clients \ {c} : \A p \in AllPlaces \ touched'[d] :
                p \notin touched[d] /\ stored'[p] = stored[p]
        BY <1>4, SettingsWritten
    <2>4. SettingsTypeOK' /\ SettingsShape'
        BY <2>1, <2>2, <2>3 DEF SettingsTypeOK, Contents
    <2>5. SeenUnrefused'
        BY <2>1, <2>2 DEF SeenUnrefused
    <2>6. SeenUntouched'
        BY <2>1, <2>2, <2>3 DEF SeenUntouched
    <2>7. \A d \in Clients : pc'[d] # "idle" => job'[d] \in CallsOf(d)
        BY <2>1, <2>2
    <2>8. QED
        BY <2>4, <2>5, <2>6, <2>7
<1>5. ASSUME NEW c \in Clients, SettingsReadBack(c) PROVE SettingsInv'
    <2>1. /\ pc' = [pc EXCEPT ![c] = "idle"] /\ job' = [job EXCEPT ![c] = NoJob]
          /\ UNCHANGED settingsVars
        BY <1>0, <1>5, ClientMoves DEF SettingsReadBack
    <2>2. QED
        BY <2>1 DEF settingsVars, SettingsTypeOK, SeenUnrefused, SeenUntouched
<1>6. ASSUME NEW c \in Clients, SettingsFail(c) PROVE SettingsInv'
    <2>1. /\ pc' = [pc EXCEPT ![c] = "idle"] /\ job' = [job EXCEPT ![c] = NoJob]
          /\ seen' = [seen EXCEPT ![c] = <<>>] /\ UNCHANGED <<stored, touched>>
        BY <1>0, <1>6, ClientMoves DEF SettingsFail
    <2>2. QED
        BY <2>1 DEF SettingsTypeOK, SeenUnrefused, SeenUntouched
<1>7. CASE UNCHANGED <<settingsVars, clientVars>>
    BY <1>7 DEF settingsVars, clientVars, SettingsTypeOK, SeenUnrefused, SeenUntouched
<1>8. QED
    BY <1>1, <1>2, <1>3, <1>4, <1>5, <1>6, <1>7, SettingsCases

LEMMA SettingsInvariance == SettingsSpec => []SettingsInv
<1>1. ClientInit /\ SettingsInit => SettingsInv
    BY SettingsInitInv
<1>2. SettingsInv /\ [SettingsNext]_<<settingsVars, clientVars>> => SettingsInv'
    BY SettingsInvNext
<1>3. QED
    BY <1>1, <1>2, PTL DEF SettingsSpec

\* The settings, and what the calls have read of them, keep their type.
THEOREM SettingsTypeCorrect == SettingsSpec => []SettingsTypeOK
<1>1. SettingsInv => SettingsTypeOK
    BY DEF SettingsInv
<1>2. QED
    BY <1>1, SettingsInvariance, PTL

\* A step with which a client leaves its write is that write, or its failure.
LEMMA SettingsLeaves ==
    ASSUME SettingsInv, [SettingsNext]_<<settingsVars, clientVars>>,
           NEW c \in Clients, Leaves(c, "write")
    PROVE  SettingsWrite(c) \/ stored' = stored
<1> USE DEF SettingsInv, SettingsShape
<1>1. ASSUME NEW d \in Clients, SettingsWrite(d) PROVE d = c
    <2>1. pc' = [pc EXCEPT ![d] = "idle"] \/ pc' = [pc EXCEPT ![d] = "back"]
        BY <1>1, ClientMoves DEF SettingsWrite
    <2>2. QED
        BY <2>1 DEF Leaves
<1>2. ASSUME NEW d \in Clients,
             \/ SettingsCall(d) \/ SettingsRead(d) \/ SettingsUpload(d)
             \/ SettingsReadBack(d) \/ SettingsFail(d)
      PROVE  stored' = stored
    BY <1>2 DEF SettingsCall, SettingsRead, SettingsUpload, SettingsReadBack,
       SettingsFail, settingsVars
<1>3. QED
    BY <1>1, <1>2, SettingsCases DEF settingsVars

\* update_section, update_sub_section, the methods for trusted CA certificates
\* and for the signing request change no place of the settings but the ones
\* their caller named, those without a schema in the section written, and those
\* that somebody has changed since they were read; and a signing request only
\* where none was found, or with overwrite.
THEOREM SettingsWritesOnlyNamed == SettingsSpec => SettingsOnlyNamed
<1>1. ASSUME SettingsInv, [SettingsNext]_<<settingsVars, clientVars>>,
             NEW c \in Clients, NEW p \in AllPlaces,
             Leaves(c, "write"), stored'[p] # stored[p]
      PROVE  \/ p \in touched[c]
             \/ p \in Places /\ p \notin Described /\ Dropped(job[c], p)
             \/ /\ p \in DOMAIN job[c].named
                /\ job[c].op = "csr_create" => job[c].overwrite \/ stored[p] = Absent
    <2>1. SettingsWrite(c)
        BY <1>1, SettingsLeaves
    <2>2. /\ p \in Scope(job[c])
          /\ stored'[p] = Built(job[c], seen[c], p)
        BY <1>1, <2>1 DEF SettingsWrite
    <2>3. /\ job[c] \in CallsOf(c) /\ ~Refused(job[c], seen[c])
          /\ p \notin touched[c] => seen[c][p] = stored[p]
        BY <1>1, <2>1 DEF SettingsWrite, SettingsInv, SeenUnrefused, SeenUntouched
    <2>4. CASE p \in DOMAIN job[c].named /\ p \notin touched[c]
        <3>1. ASSUME job[c].op = "csr_create"
              PROVE  job[c].overwrite \/ stored[p] = Absent
            <4>1. p = Csr
                BY <2>3, <2>4, <3>1, CsrCallNamesCsr
            <4>2. ~(seen[c][Csr] # Absent /\ ~job[c].overwrite)
                BY <2>3, <3>1 DEF Refused
            <4>3. QED
                BY <2>3, <2>4, <4>1, <4>2
        <3>2. QED
            BY <2>4, <3>1
    <2>5. CASE p \notin DOMAIN job[c].named /\ Dropped(job[c], p)
        <3>1. p \in Places /\ p \notin Described
            BY <2>2, <2>5 DEF Dropped, Scope
        <3>2. QED
            BY <2>5, <3>1
    <2>6. CASE p \notin DOMAIN job[c].named /\ ~Dropped(job[c], p)
        BY <1>1, <2>2, <2>3, <2>6 DEF Built
    <2>7. QED
        BY <2>4, <2>5, <2>6
<1>2. SettingsInv /\ [SettingsNext]_<<settingsVars, clientVars>> =>
         [ \A c \in Clients, p \in AllPlaces :
             Leaves(c, "write") /\ stored'[p] # stored[p] =>
                \/ p \in touched[c]
                \/ p \in Places /\ p \notin Described /\ Dropped(job[c], p)
                \/ /\ p \in DOMAIN job[c].named
                   /\ job[c].op = "csr_create" =>
                         job[c].overwrite \/ stored[p] = Absent
         ]_<<settingsVars, clientVars>>
    BY <1>1
<1>3. QED
    BY <1>2, SettingsInvariance, PTL DEF SettingsSpec, SettingsOnlyNamed

-----------------------------------------------------------------------------
(* Adapter connections.                                                    *)

CnxSpec == ClientInit /\ CnxInit /\ [][CnxNext]_<<cnxVars, clientVars>>

CnxJobs == CnxUpdates \cup Sets \cup {Delete, Get, Add}

CnxShape ==
    /\ DOMAIN pc = Clients /\ DOMAIN job = Clients
    /\ DOMAIN held = Clients /\ DOMAIN reading = Clients

\* The copy x is of one that was among the connections t: in all fields but these
\* it is as that is now, or has been noted not to be.
Copied(t, x, but) ==
    /\ x \in Fetched
    /\ t[x.id] # Free
    /\ t[x.id] # Gone =>
          \A f \in Fields \ (x.stale \cup but) : x.fields[f] = t[x.id].fields[f]

\* What a program holds, and what a call works with, has been copied.
CopiesNoted ==
    \A c \in Clients :
        /\ held[c] # Gone => Copied(cnxs, held[c], {})
        /\ reading[c] # Gone => Copied(cnxs, reading[c], {"label"})
        /\ pc[c] = "write" /\ reading[c] # Gone => Copied(cnxs, reading[c], {})

\* A request that works with a connection has one, and no other does.
HasReading ==
    \A c \in Clients :
        /\ pc[c] # "idle" => job[c] \in CnxJobs
        /\ pc[c] \in {"cnxs", "labels"} => job[c].op # "add"
        /\ reading[c] # Gone <=> \/ pc[c] \in {"labels", "backlabels"}
                                 \/ pc[c] = "write" /\ job[c].op # "add"

CnxInv ==
    /\ CnxTypeOK
    /\ CnxShape
    /\ CopiesNoted
    /\ HasReading

\* What is there is a connection, for which a field is sent a value it may have.
LEMMA ExistingTyped ==
    ASSUME CnxTypeOK
    PROVE  /\ DOMAIN cnxs = CnxIds
           /\ Existing \subseteq CnxIds
           /\ \A i \in Existing : cnxs[i] \in Cnxs
BY DEF CnxTypeOK, Existing

LEMMA SentTyped ==
    ASSUME NEW j, NEW x \in Fetched
    PROVE  [f \in Fields |-> Sent(j, x, f)] \in [Fields -> FieldValues]
BY DEF Sent, Fetched, FieldValues

\* Of a new connection everything is new, but its discovery is off.
LEMMA AddedTyped ==
    [f \in Fields |-> Sent(Add, Gone, f)] \in [Fields -> FieldValues]
<1>1. ASSUME NEW f \in Fields PROVE Sent(Add, Gone, f) \in {"new", "off"}
    BY DEF Sent, Add
<1>2. QED
    BY <1>1 DEF FieldValues

LEMMA CnxInitInv == ClientInit /\ CnxInit => CnxInv
<1> SUFFICES ASSUME ClientInit, CnxInit PROVE CnxInv
    OBVIOUS
<1>1. PICK i \in CnxIds :
         cnxs = [d \in CnxIds |->
                   IF d = i THEN [gen |-> 0, fields |-> [f \in Fields |-> "old"]]
                   ELSE Free]
    BY DEF CnxInit
<1> DEFINE first == [gen |-> 0, fields |-> [f \in Fields |-> "old"]]
<1>2. first \in Cnxs
    BY CnxAssumption DEF Cnxs, FieldValues
<1>3. cnxs[i] = first /\ \A d \in CnxIds \ {i} : cnxs[d] = Free
    BY <1>1
<1>4. \A c \in Clients :
         \/ held[c] = Gone
         \/ held[c] = [id |-> i, gen |-> 0, fields |-> first.fields, stale |-> {}]
    BY <1>3 DEF CnxInit
<1>5. [id |-> i, gen |-> 0, fields |-> first.fields, stale |-> {}] \in Fetched
    BY <1>2 DEF Fetched, Cnxs
<1>6. CnxTypeOK
    BY <1>1, <1>2, <1>4, <1>5 DEF ClientInit, CnxInit, CnxTypeOK
<1>7. CnxShape
    BY DEF ClientInit, CnxInit, CnxShape
<1>8. CopiesNoted
    <2>1. cnxs[i] # Free
        BY <1>2, <1>3, NoCnxAssumption
    <2>2. ASSUME NEW c \in Clients, held[c] # Gone PROVE Copied(cnxs, held[c], {})
        BY <1>3, <1>4, <1>5, <2>1, <2>2 DEF Copied
    <2>3. QED
        BY <2>2 DEF CnxInit, CopiesNoted
<1>9. HasReading
    BY DEF ClientInit, CnxInit, HasReading
<1>10. QED
    BY <1>6, <1>7, <1>8, <1>9 DEF CnxInv

\* Every step is a request, or the call, of one of the clients.
LEMMA CnxCases ==
    ASSUME [CnxNext]_<<cnxVars, clientVars>>
    PROVE  \/ \E c \in Clients :
                 \/ CnxCallById(c) \/ CnxCallWithHeld(c) \/ CnxCallAdd(c)
                 \/ CnxGet(c) \/ CnxGetLabels(c)
                 \/ CnxUpdate(c) \/ CnxDelete(c) \/ CnxIsGone(c) \/ CnxAdd(c)
                 \/ CnxReadBack(c) \/ CnxReadBackLabels(c) \/ CnxFail(c)
           \/ UNCHANGED <<cnxVars, clientVars>>
BY DEF CnxNext

\* A connection that is fetched is copied, but for its label.
LEMMA ReadCopies ==
    ASSUME CnxTypeOK, NEW c \in Clients, NEW i \in Existing, DOMAIN reading = Clients,
           CnxRead(c, i)
    PROVE  \E x \in Fetched :
              /\ reading' = [reading EXCEPT ![c] = x]
              /\ Copied(cnxs, x, {"label"})
<1> DEFINE x == [id |-> i, gen |-> cnxs[i].gen, stale |-> {},
                 fields |-> [cnxs[i].fields EXCEPT !["label"] = Unset]]
<1>1. cnxs[i] \in Cnxs /\ i \in CnxIds /\ cnxs[i] # Free
    BY ExistingTyped, NoCnxAssumption
<1>2. x.fields \in [Fields -> FieldValues]
    BY <1>1 DEF Cnxs, FieldValues
<1>3. x \in Fetched
    BY <1>1, <1>2 DEF Fetched, Cnxs
<1>4. \A f \in Fields \ {"label"} : x.fields[f] = cnxs[i].fields[f]
    BY <1>1 DEF Cnxs
<1>5. Copied(cnxs, x, {"label"})
    BY <1>1, <1>3, <1>4 DEF Copied
<1>6. reading' = [reading EXCEPT ![c] = x]
    BY DEF CnxRead
<1> HIDE DEF x
<1>7. QED
    BY <1>3, <1>5, <1>6

\* With its label it is copied whole.
LEMMA WithLabelCopies ==
    ASSUME CnxTypeOK, NEW x \in Fetched, Copied(cnxs, x, {"label"})
    PROVE  Copied(cnxs, WithLabel(x), {})
<1> DEFINE label == IF x.id \in Existing THEN cnxs[x.id].fields["label"] ELSE Unset
           y == WithLabel(x)
<1>1. x.id \in Existing => cnxs[x.id] \in Cnxs
    BY ExistingTyped
<1>2. label \in FieldValues
    BY <1>1 DEF Cnxs, FieldValues, Fields
<1>3. /\ y.id = x.id /\ y.gen = x.gen
      /\ y.fields = [x.fields EXCEPT !["label"] = label]
      /\ y.stale = x.stale \ {"label"}
      /\ y = [id |-> y.id, gen |-> y.gen, fields |-> y.fields, stale |-> y.stale]
    <2>1. x = [id |-> x.id, gen |-> x.gen, fields |-> x.fields, stale |-> x.stale]
        BY DEF Fetched
    <2>2. y = [x EXCEPT !.fields["label"] = label, !.stale = @ \ {"label"}]
        BY Zenon DEF WithLabel
    <2> HIDE DEF y, label
    <2>3. y.id = x.id /\ y.gen = x.gen
        BY <2>1, <2>2
    <2>4. y.fields = [x.fields EXCEPT !["label"] = label]
        BY <2>1, <2>2
    <2>5. y.stale = x.stale \ {"label"}
        BY <2>1, <2>2
    <2>6. y = [id |-> y.id, gen |-> y.gen, fields |-> y.fields, stale |-> y.stale]
        BY <2>1, <2>2
    <2>7. QED
        BY <2>3, <2>4, <2>5, <2>6
<1>4. y \in Fetched
    BY <1>2, <1>3 DEF Fetched
<1>5. ASSUME x.id \in Existing, NEW f \in Fields \ y.stale
      PROVE  y.fields[f] = cnxs[x.id].fields[f]
    BY <1>3, <1>5 DEF Copied, Fetched, Existing
<1>6. x.id \in CnxIds /\ cnxs[x.id] # Free
    BY DEF Copied, Fetched
<1>7. cnxs[x.id] # Gone => x.id \in Existing
    BY <1>6 DEF Existing
<1> HIDE DEF y
<1>8. Copied(cnxs, y, {})
    BY <1>3, <1>4, <1>5, <1>6, <1>7 DEF Copied
<1>9. QED
    BY <1>8 DEF y

\* What changes on the server is noted in every copy.
LEMMA MissedCopies ==
    ASSUME CnxTypeOK, NEW i \in Existing, NEW new \in Cnxs, NEW copies,
           NEW d \in Clients, NEW but
    PROVE  /\ copies[d] = Gone => MissedBy(copies, i, new)[d] = Gone
           /\ copies[d] # Gone /\ Copied(cnxs, copies[d], but) =>
                 /\ MissedBy(copies, i, new)[d] # Gone
                 /\ Copied([cnxs EXCEPT ![i] = new], MissedBy(copies, i, new)[d], but)
<1> DEFINE y == copies[d]
           t == [cnxs EXCEPT ![i] = new]
           changed == { f \in Fields : new.fields[f] # cnxs[i].fields[f] }
           z == MissedBy(copies, i, new)[d]
<1>1. new # Gone /\ new # Free
    BY NoCnxAssumption
<1>2. y = Gone => z = Gone
    BY DEF MissedBy
<1>3. ASSUME y # Gone, Copied(cnxs, y, but) PROVE z # Gone /\ Copied(t, z, but)
    <2>1. CASE y.id # i
        <3>1. z = y
            BY <2>1 DEF MissedBy
        <3>2. t[y.id] = cnxs[y.id]
            BY <2>1, <1>3, ExistingTyped DEF Copied, Fetched
        <3>3. QED
            BY <1>3, <3>1, <3>2 DEF Copied
    <2>2. CASE y.id = i
        <3>1. z = [y EXCEPT !.stale = @ \cup changed]
            BY <1>1, <1>3, <2>2 DEF MissedBy
        <3>2. y \in Fetched /\ t[i] = new
            BY <1>3, ExistingTyped DEF Copied
        <3>3. z \in Fetched /\ z.id = i /\ z.fields = y.fields
              /\ z.stale = y.stale \cup changed
            <4> HIDE DEF z, changed
            <4>1. changed \subseteq Fields
                BY DEF changed
            <4>2. QED
                BY <2>2, <3>1, <3>2, <4>1 DEF Fetched
        <3>4. \A f \in Fields \ (y.stale \cup but) : y.fields[f] = cnxs[i].fields[f]
            BY <1>3, <2>2 DEF Copied, Existing
        <3>5. \A f \in Fields \ (z.stale \cup but) : z.fields[f] = new.fields[f]
            BY <3>3, <3>4
        <3>6. Copied(t, z, but)
            <4> HIDE DEF z, t
            <4>1. QED
                BY <1>1, <3>2, <3>3, <3>5 DEF Copied
        <3>7. QED
            BY <3>3, <3>6, NoCnxAssumption
    <2>3. QED
        BY <2>1, <2>2
<1>4. QED
    BY <1>2, <1>3

\* An answer is the UUID of what was written, and an UUID it is.
LEMMA AnsweredMoves ==
    ASSUME NEW c \in Clients, NEW u, Answered(c, u), DOMAIN pc = Clients,
           DOMAIN job = Clients
    PROVE  \/ /\ pc' = [pc EXCEPT ![c] = "back"] /\ job' = job
              /\ made' = [made EXCEPT ![c] = u]
           \/ /\ pc' = [pc EXCEPT ![c] = "idle"] /\ job' = [job EXCEPT ![c] = NoJob]
              /\ made' = made
BY ClientMoves DEF Answered

\* An update keeps the copies of everybody as good as they were.
LEMMA CnxUpdateInv ==
    ASSUME CnxInv, NEW c \in Clients, CnxUpdate(c)
    PROVE  CnxInv'
<1> DEFINE x == reading[c]
<1> USE DEF CnxInv
<1>1. /\ x # Gone /\ x \in Fetched /\ x.id \in Existing
      /\ pc[c] = "write" /\ job[c] \in CnxJobs
    BY DEF CnxUpdate, CnxPut, CnxOfUuid, HasReading, CnxTypeOK
<1>2. PICK g \in {x.gen, x.gen + 1} :
         /\ g <= MaxGeneration
         /\ cnxs' = [cnxs EXCEPT ![x.id] =
                       [gen |-> g, fields |-> [f \in Fields |-> Sent(job[c], x, f)]]]
         /\ Answered(c, <<x.id, g>>)
    BY DEF CnxUpdate, CnxPut
<1> DEFINE new == [gen |-> g, fields |-> [f \in Fields |-> Sent(job[c], x, f)]]
<1>3. x.gen \in 0..MaxGeneration /\ x.id \in CnxIds
    BY <1>1 DEF Fetched
<1>4. g \in 0..MaxGeneration
    BY <1>2, <1>3, CnxAssumption
<1>5. new \in Cnxs
    BY <1>1, <1>4, SentTyped DEF Cnxs
<1> HIDE DEF new
<1>6. cnxs' = [cnxs EXCEPT ![x.id] = new] /\ cnxs'[x.id] = new
    BY <1>2, <1>3, ExistingTyped DEF new
<1>7. /\ held' = MissedBy(held, x.id, new)
      /\ reading' = [MissedBy(reading, x.id, new) EXCEPT ![c] = Gone]
    BY <1>6 DEF CnxUpdate, CnxPut
<1>8. /\ DOMAIN held' = Clients /\ DOMAIN reading' = Clients /\ reading'[c] = Gone
      /\ \A d \in Clients \ {c} : reading'[d] = MissedBy(reading, x.id, new)[d]
    BY <1>7 DEF MissedBy
<1>9. \/ /\ pc' = [pc EXCEPT ![c] = "back"] /\ job' = job
         /\ made' = [made EXCEPT ![c] = <<x.id, g>>]
      \/ /\ pc' = [pc EXCEPT ![c] = "idle"] /\ job' = [job EXCEPT ![c] = NoJob]
         /\ made' = made
    BY <1>2, AnsweredMoves DEF CnxShape
<1>10. ASSUME NEW d \in Clients
       PROVE  /\ held[d] = Gone => held'[d] = Gone
              /\ held[d] # Gone => held'[d] # Gone /\ Copied(cnxs', held'[d], {})
    <2>1. held'[d] = MissedBy(held, x.id, new)[d]
        BY <1>7
    <2>2. held[d] = Gone => held'[d] = Gone
        BY <1>1, <1>5, <2>1, MissedCopies
    <2>3. held[d] # Gone => Copied(cnxs, held[d], {})
        BY DEF CopiesNoted
    <2>4. held[d] # Gone =>
             /\ MissedBy(held, x.id, new)[d] # Gone
             /\ Copied([cnxs EXCEPT ![x.id] = new], MissedBy(held, x.id, new)[d], {})
        BY <1>1, <1>5, <2>3, MissedCopies
    <2>5. QED
        BY <1>6, <2>1, <2>2, <2>4
<1>11. ASSUME NEW d \in Clients \ {c}
       PROVE  /\ reading[d] = Gone => reading'[d] = Gone
              /\ reading[d] # Gone =>
                    reading'[d] # Gone /\ Copied(cnxs', reading'[d], {"label"})
              /\ reading[d] # Gone /\ pc[d] = "write" =>
                    Copied(cnxs', reading'[d], {})
    <2>1. reading'[d] = MissedBy(reading, x.id, new)[d]
        BY <1>8
    <2>2. reading[d] = Gone => reading'[d] = Gone
        BY <1>1, <1>5, <2>1, MissedCopies
    <2>3. ASSUME NEW but, reading[d] # Gone, Copied(cnxs, reading[d], but)
          PROVE  reading'[d] # Gone /\ Copied(cnxs', reading'[d], but)
        <3>1. /\ MissedBy(reading, x.id, new)[d] # Gone
              /\ Copied([cnxs EXCEPT ![x.id] = new],
                        MissedBy(reading, x.id, new)[d], but)
            BY <1>1, <1>5, <2>3, MissedCopies
        <3>2. QED
            BY <1>6, <2>1, <3>1
    <2>4. QED
        BY <2>2, <2>3 DEF CopiesNoted
<1>12. CopiesNoted'
    BY <1>8, <1>9, <1>10, <1>11 DEF CopiesNoted, CnxShape
<1>13. HasReading'
    BY <1>1, <1>8, <1>9, <1>11 DEF HasReading, CnxShape
<1>14. CnxShape'
    BY <1>8, <1>9 DEF CnxShape
<1>15. CnxTypeOK'
    <2>1. cnxs' \in [CnxIds -> Cnxs \cup {Free, Gone}]
        BY <1>5, <1>6 DEF CnxTypeOK
    <2>2. \A d \in Clients : {held'[d], reading'[d]} \subseteq Fetched \cup {Gone}
        BY <1>8, <1>10, <1>11 DEF Copied
    <2>3. made' \in [Clients -> (CnxIds \X (0..MaxGeneration)) \cup {Gone}]
        BY <1>3, <1>4, <1>9 DEF CnxTypeOK
    <2>4. QED
        BY <1>9, <2>1, <2>2, <2>3 DEF CnxTypeOK, CnxShape
<1>16. QED
    BY <1>12, <1>13, <1>14, <1>15

\* A step of client c that writes nothing, and has only copies in the end.
LEMMA CnxQuietInv ==
    ASSUME CnxInv, NEW c \in Clients, cnxs' = cnxs,
           CnxShape',
           \A d \in Clients \ {c} : /\ pc'[d] = pc[d] /\ job'[d] = job[d]
                                    /\ held'[d] = held[d]
                                    /\ reading'[d] = reading[d],
           made' \in [Clients -> (CnxIds \X (0..MaxGeneration)) \cup {Gone}],
           pc'[c] \in {"idle", "cnxs", "labels", "write", "back", "backlabels"},
           pc'[c] # "idle" => job'[c] \in CnxJobs,
           pc'[c] \in {"cnxs", "labels"} => job'[c].op # "add",
           held'[c] # Gone => Copied(cnxs, held'[c], {}),
           reading'[c] # Gone => Copied(cnxs, reading'[c], {"label"}),
           pc'[c] = "write" /\ reading'[c] # Gone => Copied(cnxs, reading'[c], {}),
           reading'[c] # Gone <=> \/ pc'[c] \in {"labels", "backlabels"}
                                  \/ pc'[c] = "write" /\ job'[c].op # "add"
    PROVE  CnxInv'
<1> USE DEF CnxInv
<1>1. CnxShape'
    OBVIOUS
<1>2. CopiesNoted'
    BY DEF CopiesNoted, CnxShape
<1>3. HasReading'
    BY DEF HasReading, CnxShape
<1>4. CnxTypeOK'
    <2>1. held'[c] \in Fetched \cup {Gone} /\ reading'[c] \in Fetched \cup {Gone}
        BY DEF Copied
    <2>2. \A d \in Clients : {held'[d], reading'[d]} \subseteq Fetched \cup {Gone}
        BY <2>1 DEF CnxTypeOK, CnxShape
    <2>3. \A d \in Clients :
             pc'[d] \in {"idle", "cnxs", "labels", "write", "back", "backlabels"}
        BY DEF CnxTypeOK, CnxShape
    <2>4. QED
        BY <2>2, <2>3 DEF CnxTypeOK
<1>5. QED
    BY <1>1, <1>2, <1>3, <1>4

\* The jobs that calls begin with are jobs.
LEMMA CnxJobsBegin ==
    /\ CnxUpdates \cup Sets \cup {Delete, Get, Add} \subseteq CnxJobs
    /\ Add.op = "add"
BY DEF CnxJobs, Add

\* A call that begins, with the connection it works with if it has one.
LEMMA CnxCallsInv ==
    ASSUME CnxInv, NEW c \in Clients,
           CnxCallById(c) \/ CnxCallWithHeld(c) \/ CnxCallAdd(c)
    PROVE  CnxInv'
<1> USE DEF CnxInv
<1>0. /\ DOMAIN pc = Clients /\ DOMAIN job = Clients
      /\ DOMAIN held = Clients /\ DOMAIN reading = Clients /\ DOMAIN made = Clients
      /\ made \in [Clients -> (CnxIds \X (0..MaxGeneration)) \cup {Gone}]
      /\ held[c] # Gone => Copied(cnxs, held[c], {})
      /\ reading[c] # Gone => Copied(cnxs, reading[c], {"label"})
    BY DEF CnxShape, CnxTypeOK, CopiesNoted
<1>1. CASE CnxCallById(c)
    <2>1. PICK j \in CnxUpdates \cup {Delete, Get} : Begin(c, j, "cnxs")
        BY <1>1 DEF CnxCallById
    <2>2. /\ UNCHANGED <<cnxs, held, reading, made>> /\ pc[c] = "idle"
          /\ pc' = [pc EXCEPT ![c] = "cnxs"] /\ job' = [job EXCEPT ![c] = j]
        BY <1>0, <1>1, <2>1, ClientMoves DEF CnxCallById, Begin, cnxVars
    <2>3. reading[c] = Gone /\ CnxShape'
        BY <2>2 DEF HasReading, CnxShape
    <2>4. j \in CnxJobs /\ j.op # "add"
        BY <2>1, CnxAssumption DEF CnxJobs, Delete, Get
    <2>5. QED
        BY <1>0, <2>2, <2>3, <2>4, CnxQuietInv
<1>2. CASE CnxCallWithHeld(c)
    <2>1. PICK j \in CnxUpdates \cup Sets \cup {Delete} : Begin(c, j, "write")
        BY <1>2 DEF CnxCallWithHeld
    <2>2. /\ UNCHANGED <<cnxs, held, made>> /\ held[c] # Gone
          /\ reading' = [reading EXCEPT ![c] = held[c]]
          /\ pc' = [pc EXCEPT ![c] = "write"] /\ job' = [job EXCEPT ![c] = j]
        BY <1>0, <1>2, <2>1, ClientMoves DEF CnxCallWithHeld
    <2>3. Copied(cnxs, held[c], {"label"})
        BY <1>0, <2>2 DEF Copied
    <2>4. j \in CnxJobs /\ j.op # "add"
        BY <2>1, CnxAssumption DEF CnxJobs, Sets, Delete
    <2>5. CnxShape'
        BY <2>2 DEF CnxShape
    <2>6. QED
        BY <1>0, <2>2, <2>3, <2>4, <2>5, CnxQuietInv
<1>3. CASE CnxCallAdd(c)
    <2>1. /\ UNCHANGED <<cnxs, held, reading, made>> /\ pc[c] = "idle"
          /\ pc' = [pc EXCEPT ![c] = "write"] /\ job' = [job EXCEPT ![c] = Add]
        BY <1>0, <1>3, ClientMoves DEF CnxCallAdd, Begin, cnxVars
    <2>2. reading[c] = Gone /\ CnxShape'
        BY <2>1 DEF HasReading, CnxShape
    <2>3. QED
        BY <1>0, <2>1, <2>2, CnxJobsBegin, CnxQuietInv
<1>4. QED
    BY <1>1, <1>2, <1>3

\* The requests that read.
LEMMA CnxReadsInv ==
    ASSUME CnxInv, NEW c \in Clients,
           \/ CnxGet(c) \/ CnxGetLabels(c) \/ CnxReadBack(c) \/ CnxReadBackLabels(c)
    PROVE  CnxInv'
<1> USE DEF CnxInv
<1>0. /\ DOMAIN pc = Clients /\ DOMAIN job = Clients
      /\ DOMAIN held = Clients /\ DOMAIN reading = Clients /\ DOMAIN made = Clients
      /\ made \in [Clients -> (CnxIds \X (0..MaxGeneration)) \cup {Gone}]
      /\ held[c] # Gone => Copied(cnxs, held[c], {})
      /\ reading[c] # Gone => Copied(cnxs, reading[c], {"label"})
      /\ reading[c] # Gone <=> \/ pc[c] \in {"labels", "backlabels"}
                               \/ pc[c] = "write" /\ job[c].op # "add"
      /\ pc[c] # "idle" => job[c] \in CnxJobs
      /\ pc[c] \in {"cnxs", "labels"} => job[c].op # "add"
    BY DEF CnxShape, CnxTypeOK, CopiesNoted, HasReading
<1>1. CASE CnxGet(c)
    <2>1. pc[c] = "cnxs" /\ UNCHANGED <<cnxs, held, made>> /\ reading[c] = Gone
        BY <1>0, <1>1 DEF CnxGet
    <2>2. CASE \E i \in Existing : CnxRead(c, i) /\ Go(c, "labels")
        <3>1. PICK x \in Fetched : /\ reading' = [reading EXCEPT ![c] = x]
                                   /\ Copied(cnxs, x, {"label"})
            BY <1>0, <2>2, ReadCopies
        <3>2. pc' = [pc EXCEPT ![c] = "labels"] /\ job' = job
            BY <1>0, <2>2, ClientMoves
        <3>3. CnxShape' /\ x # Gone
            BY <2>1, <3>1, <3>2, NoCnxAssumption DEF CnxShape
        <3>4. QED
            BY <1>0, <2>1, <3>1, <3>2, <3>3, CnxQuietInv
    <2>3. CASE End(c, "raised") /\ UNCHANGED reading
        <3>1. pc' = [pc EXCEPT ![c] = "idle"] /\ job' = [job EXCEPT ![c] = NoJob]
            BY <1>0, <2>3, ClientMoves
        <3>2. CnxShape'
            BY <2>1, <2>3, <3>1 DEF CnxShape
        <3>3. QED
            BY <1>0, <2>1, <2>3, <3>1, <3>2, CnxQuietInv
    <2>4. QED
        BY <1>1, <2>2, <2>3 DEF CnxGet
<1>2. ASSUME reading[c] # Gone PROVE Copied(cnxs, WithLabel(reading[c]), {})
                                     /\ WithLabel(reading[c]) # Gone
                                     /\ Copied(cnxs, WithLabel(reading[c]), {"label"})
    <2>1. reading[c] \in Fetched /\ Copied(cnxs, reading[c], {"label"})
        BY <1>0, <1>2 DEF Copied
    <2>2. Copied(cnxs, WithLabel(reading[c]), {})
        BY <2>1, WithLabelCopies
    <2>3. QED
        BY <2>2, NoCnxAssumption DEF Copied
<1>3. CASE CnxGetLabels(c)
    <2> DEFINE x == WithLabel(reading[c])
    <2>1. /\ pc[c] = "labels" /\ UNCHANGED <<cnxs, made>> /\ reading[c] # Gone
          /\ Copied(cnxs, x, {}) /\ Copied(cnxs, x, {"label"}) /\ x # Gone
        BY <1>0, <1>2, <1>3 DEF CnxGetLabels
    <2>2. CASE job[c].op = "get"
        <3>1. /\ held' = [held EXCEPT ![c] = x]
              /\ reading' = [reading EXCEPT ![c] = Gone]
              /\ pc' = [pc EXCEPT ![c] = "idle"] /\ job' = [job EXCEPT ![c] = NoJob]
            BY <1>0, <1>3, <2>2, ClientMoves DEF CnxGetLabels
        <3> HIDE DEF x
        <3>2. CnxShape'
            BY <3>1 DEF CnxShape
        <3>3. QED
            BY <1>0, <2>1, <3>1, <3>2, CnxQuietInv
    <2>3. CASE job[c].op # "get" /\ NothingNew(job[c], x)
        <3>1. /\ held' = held
              /\ reading' = [reading EXCEPT ![c] = Gone]
              /\ pc' = [pc EXCEPT ![c] = "idle"] /\ job' = [job EXCEPT ![c] = NoJob]
            BY <1>0, <1>3, <2>3, ClientMoves DEF CnxGetLabels
        <3> HIDE DEF x
        <3>2. CnxShape'
            BY <3>1 DEF CnxShape
        <3>3. QED
            BY <1>0, <2>1, <3>1, <3>2, CnxQuietInv
    <2>4. CASE job[c].op # "get" /\ ~NothingNew(job[c], x)
        <3>1. /\ held' = held
              /\ reading' = [reading EXCEPT ![c] = x]
              /\ pc' = [pc EXCEPT ![c] = "write"] /\ job' = job
            BY <1>0, <1>3, <2>4, ClientMoves DEF CnxGetLabels
        <3> HIDE DEF x
        <3>2. CnxShape'
            BY <3>1 DEF CnxShape
        <3>3. job[c].op # "add"
            BY <1>0, <2>1
        <3>4. QED
            BY <1>0, <2>1, <3>1, <3>2, <3>3, CnxQuietInv
    <2>5. QED
        BY <2>2, <2>3, <2>4
<1>4. CASE CnxReadBack(c)
    <2>1. pc[c] = "back" /\ UNCHANGED <<cnxs, held>> /\ reading[c] = Gone
        BY <1>0, <1>4 DEF CnxReadBack
    <2>2. CASE /\ CnxOfUuid(made[c])
               /\ CnxRead(c, made[c][1]) /\ Go(c, "backlabels")
               /\ UNCHANGED made
        <3>1. CnxRead(c, made[c][1]) /\ Go(c, "backlabels") /\ UNCHANGED made
            BY <2>2
        <3>2. PICK x \in Fetched : /\ reading' = [reading EXCEPT ![c] = x]
                                   /\ Copied(cnxs, x, {"label"})
            BY <1>0, <2>2, <3>1, ReadCopies DEF CnxOfUuid
        <3>3. pc' = [pc EXCEPT ![c] = "backlabels"] /\ job' = job
            BY <1>0, <3>1, ClientMoves
        <3>4. CnxShape' /\ x # Gone
            BY <2>1, <3>2, <3>3, NoCnxAssumption DEF CnxShape
        <3>5. QED
            BY <1>0, <2>1, <3>1, <3>2, <3>3, <3>4, CnxQuietInv
    <2>3. CASE /\ End(c, "raised") /\ UNCHANGED reading
               /\ made' = [made EXCEPT ![c] = Gone]
        <3>1. /\ pc' = [pc EXCEPT ![c] = "idle"] /\ job' = [job EXCEPT ![c] = NoJob]
              /\ reading' = reading /\ made' = [made EXCEPT ![c] = Gone]
            BY <1>0, <2>3, ClientMoves
        <3>2. CnxShape'
            BY <2>1, <3>1 DEF CnxShape
        <3>3. made' \in [Clients -> (CnxIds \X (0..MaxGeneration)) \cup {Gone}]
            BY <1>0, <3>1
        <3>4. QED
            BY <1>0, <2>1, <3>1, <3>2, <3>3, CnxQuietInv
    <2>4. QED
        BY <1>4, <2>2, <2>3 DEF CnxReadBack
<1>5. CASE CnxReadBackLabels(c)
    <2> DEFINE x == WithLabel(reading[c])
    <2>1. /\ pc[c] = "backlabels" /\ cnxs' = cnxs
          /\ Copied(cnxs, x, {}) /\ x # Gone
        BY <1>0, <1>2, <1>5 DEF CnxReadBackLabels
    <2>2. /\ pc' = [pc EXCEPT ![c] = "idle"] /\ job' = [job EXCEPT ![c] = NoJob]
          /\ reading' = [reading EXCEPT ![c] = Gone]
          /\ made' = [made EXCEPT ![c] = Gone]
          /\ held' = [held EXCEPT ![c] = x] \/ held' = held
        BY <1>0, <1>5, ClientMoves DEF CnxReadBackLabels
    <2> HIDE DEF x
    <2>3. CnxShape'
        BY <2>2 DEF CnxShape
    <2>4. made' \in [Clients -> (CnxIds \X (0..MaxGeneration)) \cup {Gone}]
        BY <1>0, <2>2
    <2>5. /\ held'[c] # Gone => Copied(cnxs, held'[c], {})
          /\ \A d \in Clients \ {c} : held'[d] = held[d]
        BY <1>0, <2>1, <2>2
    <2>6. QED
        BY <1>0, <2>1, <2>2, <2>3, <2>4, <2>5, CnxQuietInv
<1>6. QED
    BY <1>1, <1>3, <1>4, <1>5

\* A connection that is made or deleted is none of those that were copied, or is
\* none any more: the copies stay as good as they were.
LEMMA OthersCopied ==
    ASSUME CnxTypeOK, NEW i \in CnxIds, NEW new, NEW x, NEW but,
           Copied(cnxs, x, but), cnxs[i] = Free \/ new = Gone
    PROVE  Copied([cnxs EXCEPT ![i] = new], x, but)
<1> DEFINE t == [cnxs EXCEPT ![i] = new]
<1>1. x.id \in CnxIds /\ DOMAIN cnxs = CnxIds
    BY ExistingTyped DEF Copied, Fetched
<1>2. CASE x.id # i
    <2>1. t[x.id] = cnxs[x.id]
        BY <1>1, <1>2
    <2> HIDE DEF t
    <2>2. Copied(t, x, but)
        BY <2>1 DEF Copied
    <2>3. QED
        BY <2>2 DEF t
<1>3. CASE x.id = i
    <2>1. t[x.id] = new /\ new = Gone
        BY <1>1, <1>3 DEF Copied
    <2> HIDE DEF t
    <2>2. Copied(t, x, but)
        BY <2>1, NoCnxAssumption DEF Copied
    <2>3. QED
        BY <2>2 DEF t
<1>4. QED
    BY <1>2, <1>3

\* The other requests that write, and the ways a call ends before it could.
LEMMA CnxOthersInv ==
    ASSUME CnxInv, NEW c \in Clients,
           CnxDelete(c) \/ CnxAdd(c) \/ CnxIsGone(c) \/ CnxFail(c)
    PROVE  CnxInv'
<1> USE DEF CnxInv
<1>0. /\ DOMAIN pc = Clients /\ DOMAIN job = Clients
      /\ DOMAIN held = Clients /\ DOMAIN reading = Clients /\ DOMAIN made = Clients
      /\ made \in [Clients -> (CnxIds \X (0..MaxGeneration)) \cup {Gone}]
      /\ held[c] # Gone => Copied(cnxs, held[c], {})
      /\ cnxs \in [CnxIds -> Cnxs \cup {Free, Gone}]
    BY DEF CnxShape, CnxTypeOK, CopiesNoted
<1>1. CASE CnxIsGone(c) \/ CnxFail(c)
    <2>1. /\ pc' = [pc EXCEPT ![c] = "idle"] /\ job' = [job EXCEPT ![c] = NoJob]
          /\ reading' = [reading EXCEPT ![c] = Gone] /\ UNCHANGED <<cnxs, held>>
          /\ made' = made \/ made' = [made EXCEPT ![c] = Gone]
        BY <1>0, <1>1, ClientMoves DEF CnxIsGone, CnxFail
    <2>2. CnxShape' /\ made' \in [Clients -> (CnxIds \X (0..MaxGeneration)) \cup {Gone}]
        BY <1>0, <2>1 DEF CnxShape
    <2>3. QED
        BY <1>0, <2>1, <2>2, CnxQuietInv
<1>2. ASSUME NEW i \in CnxIds, NEW new \in Cnxs \cup {Gone},
             cnxs[i] = Free \/ new = Gone,
             cnxs' = [cnxs EXCEPT ![i] = new], held' = held,
             NEW to \in {"idle", "back"}, pc' = [pc EXCEPT ![c] = to],
             \/ job' = job /\ pc[c] # "idle"
             \/ to = "idle" /\ job' = [job EXCEPT ![c] = NoJob],
             CnxShape', reading'[c] = Gone,
             \A d \in Clients \ {c} : reading'[d] = reading[d],
             made' \in [Clients -> (CnxIds \X (0..MaxGeneration)) \cup {Gone}]
      PROVE  CnxInv'
    <2>1. \A d \in Clients : \A but :
             /\ Copied(cnxs, held[d], but) => Copied(cnxs', held[d], but)
             /\ Copied(cnxs, reading[d], but) => Copied(cnxs', reading[d], but)
        BY <1>2, OthersCopied
    <2>2. CopiesNoted'
        BY <1>0, <1>2, <2>1 DEF CopiesNoted
    <2>3. HasReading'
        BY <1>0, <1>2 DEF HasReading
    <2>4. CnxTypeOK'
        <3>1. cnxs' \in [CnxIds -> Cnxs \cup {Free, Gone}]
            BY <1>0, <1>2
        <3>2. \A d \in Clients : {held'[d], reading'[d]} \subseteq Fetched \cup {Gone}
            BY <1>2 DEF CnxTypeOK
        <3>3. \A d \in Clients :
                 pc'[d] \in {"idle", "cnxs", "labels", "write", "back", "backlabels"}
            BY <1>0, <1>2 DEF CnxTypeOK
        <3>4. QED
            BY <1>2, <3>1, <3>2, <3>3 DEF CnxTypeOK
    <2>5. QED
        BY <1>2, <2>2, <2>3, <2>4
<1>3. CASE CnxDelete(c)
    <2>1. /\ cnxs' = [cnxs EXCEPT ![reading[c].id] = Gone]
          /\ reading' = [reading EXCEPT ![c] = Gone] /\ UNCHANGED <<held, made>>
          /\ pc' = [pc EXCEPT ![c] = "idle"] /\ job' = [job EXCEPT ![c] = NoJob]
          /\ reading[c].id \in CnxIds
        BY <1>0, <1>3, ClientMoves DEF CnxDelete, CnxOfUuid, Existing
    <2>2. CnxShape'
        BY <2>1 DEF CnxShape
    <2>3. QED
        BY <1>0, <1>2, <2>1, <2>2
<1>4. CASE CnxAdd(c)
    <2> DEFINE new == [gen |-> 0, fields |-> [f \in Fields |-> Sent(Add, Gone, f)]]
    <2>1. new \in Cnxs
        BY AddedTyped, CnxAssumption DEF Cnxs
    <2> HIDE DEF new
    <2>2. PICK i \in CnxIds : /\ cnxs[i] = Free
                              /\ cnxs' = [cnxs EXCEPT ![i] = new]
                              /\ Answered(c, <<i, 0>>)
        BY <1>4 DEF CnxAdd, new
    <2>3. \/ /\ pc' = [pc EXCEPT ![c] = "back"] /\ job' = job
             /\ made' = [made EXCEPT ![c] = <<i, 0>>]
          \/ /\ pc' = [pc EXCEPT ![c] = "idle"] /\ job' = [job EXCEPT ![c] = NoJob]
             /\ made' = made
        BY <1>0, <2>2, AnsweredMoves
    <2>4. /\ UNCHANGED <<held, reading>> /\ pc[c] = "write" /\ reading[c] = Gone
        BY <1>4 DEF CnxAdd, HasReading
    <2>5. made' \in [Clients -> (CnxIds \X (0..MaxGeneration)) \cup {Gone}]
        BY <1>0, <2>3, CnxAssumption
    <2>6. CnxShape'
        BY <2>3, <2>4 DEF CnxShape
    <2>7. CASE job' = job
        BY <1>2, <2>1, <2>2, <2>3, <2>4, <2>5, <2>6, <2>7
    <2>8. CASE job' = [job EXCEPT ![c] = NoJob] /\ pc' = [pc EXCEPT ![c] = "idle"]
        BY <1>2, <2>1, <2>2, <2>4, <2>5, <2>6, <2>8
    <2>9. QED
        BY <2>3, <2>7, <2>8
<1>5. QED
    BY <1>1, <1>3, <1>4

LEMMA CnxInvariance == CnxSpec => []CnxInv
<1>1. ClientInit /\ CnxInit => CnxInv
    BY CnxInitInv
<1>2. ASSUME CnxInv, [CnxNext]_<<cnxVars, clientVars>>
      PROVE  CnxInv'
    <2>1. CASE UNCHANGED <<cnxVars, clientVars>>
        <3>1. UNCHANGED <<pc, job, cnxs, held, reading, made>>
            BY <2>1 DEF cnxVars, clientVars
        <3>2. CnxTypeOK' /\ CnxShape' /\ HasReading'
            BY <1>2, <3>1 DEF CnxInv, CnxTypeOK, CnxShape, HasReading
        <3>3. CopiesNoted'
            BY <1>2, <3>1 DEF CnxInv, CopiesNoted
        <3>4. QED
            BY <3>2, <3>3 DEF CnxInv
    <2>2. QED
        BY <1>2, <2>1, CnxCases, CnxCallsInv, CnxReadsInv, CnxUpdateInv, CnxOthersInv
<1>3. QED
    BY <1>1, <1>2, PTL DEF CnxSpec

\* Connections, and copies of them, keep their type: no copy is without an id.
THEOREM CnxTypeCorrect == CnxSpec => []CnxTypeOK
<1>1. CnxInv => CnxTypeOK
    BY DEF CnxInv
<1>2. QED
    BY <1>1, CnxInvariance, PTL

\* A step of another client does not move client c.
LEMMA CnxMovesItself ==
    ASSUME CnxInv, NEW c \in Clients, NEW d \in Clients \ {c},
           \/ CnxCallById(d) \/ CnxCallWithHeld(d) \/ CnxCallAdd(d)
           \/ CnxGet(d) \/ CnxGetLabels(d)
           \/ CnxUpdate(d) \/ CnxDelete(d) \/ CnxIsGone(d) \/ CnxAdd(d)
           \/ CnxReadBack(d) \/ CnxReadBackLabels(d) \/ CnxFail(d)
    PROVE  pc'[c] = pc[c]
<1>0. DOMAIN pc = Clients /\ DOMAIN job = Clients
    BY DEF CnxInv, CnxShape
<1>1. \A j, to : Begin(d, j, to) => pc'[c] = pc[c]
    BY <1>0, ClientMoves
<1>2. \A to : Go(d, to) => pc'[c] = pc[c]
    BY <1>0, ClientMoves
<1>3. \A how : End(d, how) => pc'[c] = pc[c]
    BY <1>0, ClientMoves
<1>4. \A u : Answered(d, u) => pc'[c] = pc[c]
    BY <1>2, <1>3 DEF Answered
<1>5. CASE CnxCallById(d) \/ CnxCallWithHeld(d) \/ CnxCallAdd(d)
    BY <1>1, <1>5 DEF CnxCallById, CnxCallWithHeld, CnxCallAdd
<1>6. CASE CnxGet(d) \/ CnxGetLabels(d) \/ CnxReadBack(d) \/ CnxReadBackLabels(d)
    BY <1>2, <1>3, <1>6 DEF CnxGet, CnxGetLabels, CnxReadBack, CnxReadBackLabels
<1>7. CASE CnxUpdate(d) \/ CnxAdd(d)
    BY <1>4, <1>7 DEF CnxUpdate, CnxPut, CnxAdd
<1>8. CASE CnxDelete(d) \/ CnxIsGone(d) \/ CnxFail(d)
    BY <1>3, <1>8 DEF CnxDelete, CnxIsGone, CnxFail
<1>9. QED
    BY <1>5, <1>6, <1>7, <1>8

\* A client leaves its write with an update, with no change of any connection
\* that there was, or with its end.
LEMMA CnxLeaves ==
    ASSUME CnxInv, [CnxNext]_<<cnxVars, clientVars>>, NEW c \in Clients,
           Leaves(c, "write"), NEW i \in Existing, cnxs'[i] # Gone
    PROVE  CnxUpdate(c) \/ cnxs'[i] = cnxs[i]
<1>0. pc[c] = "write" /\ pc'[c] # "write"
    BY DEF Leaves
<1>1. \/ CnxUpdate(c) \/ CnxDelete(c) \/ CnxIsGone(c) \/ CnxAdd(c) \/ CnxFail(c)
      \/ cnxs' = cnxs
    <2>1. UNCHANGED <<cnxVars, clientVars>> => cnxs' = cnxs
        BY DEF cnxVars
    <2>2. CnxCallById(c) \/ CnxCallWithHeld(c) \/ CnxCallAdd(c) \/ CnxGet(c)
          \/ CnxGetLabels(c) \/ CnxReadBack(c) \/ CnxReadBackLabels(c) => cnxs' = cnxs
        BY DEF CnxCallById, CnxCallWithHeld, CnxCallAdd, CnxGet, CnxGetLabels,
               CnxReadBack, CnxReadBackLabels, cnxVars
    <2>3. QED
        BY <1>0, <2>1, <2>2, CnxCases, CnxMovesItself
<1>2. CASE CnxDelete(c)
    BY <1>2, ExistingTyped DEF CnxDelete, CnxInv
<1>3. CASE CnxAdd(c)
    BY <1>3, ExistingTyped DEF CnxAdd, Existing, CnxInv
<1>4. CASE CnxIsGone(c) \/ CnxFail(c)
    BY <1>4 DEF CnxIsGone, CnxFail
<1>5. QED
    BY <1>1, <1>2, <1>3, <1>4

\* What of a connection update_cnx, set_cnx_active, set_cnx_label and their kind
\* change without having been told to, and that nobody else has changed since it was
\* fetched, is a key that is not sent (of a configuration given without
\* parse_config, or one without a schema) and lost, or the connection's own
\* discovery, switched off; and they change no other connection.
THEOREM CnxWritesOnlyNamed == CnxSpec => CnxOnlyNamed
<1>1. ASSUME CnxInv, [CnxNext]_<<cnxVars, clientVars>>,
             NEW c \in Clients, NEW i \in Existing, NEW f \in Fields,
             Leaves(c, "write"), cnxs'[i] # Gone,
             cnxs'[i].fields[f] # cnxs[i].fields[f]
      PROVE  /\ reading[c].id = i
             /\ \/ f \in job[c].named
                \/ f \in reading[c].stale
                \/ /\ f \in ConfigKeys /\ job[c].op = "update"
                   /\ ~job[c].parse \/ f \notin SchemaKeys
                   /\ cnxs'[i].fields[f] = Unset
                \/ f = "discovery" /\ cnxs'[i].fields[f] = "off"
    <2> DEFINE x == reading[c]
    <2>1. CnxUpdate(c)
        BY <1>1, CnxLeaves
    <2>2. PICK g :
             cnxs' = [cnxs EXCEPT ![x.id] =
                        [gen |-> g, fields |-> [h \in Fields |-> Sent(job[c], x, h)]]]
        BY <2>1 DEF CnxUpdate, CnxPut
    <2>3. x.id \in Existing /\ DOMAIN cnxs = CnxIds /\ x.id \in CnxIds
        BY <1>1, <2>1, ExistingTyped DEF CnxUpdate, CnxPut, CnxOfUuid, CnxInv
    <2>4. x.id = i
        BY <1>1, <2>2
    <2>5. cnxs'[i].fields[f] = Sent(job[c], x, f)
        BY <2>2, <2>3, <2>4
    <2>6. Copied(cnxs, x, {})
        BY <1>1, <2>1 DEF CnxUpdate, CnxInv, HasReading, CopiesNoted
    <2>7. f \notin x.stale => x.fields[f] = cnxs[i].fields[f]
        BY <2>3, <2>4, <2>6 DEF Copied, Existing
    <2>8. ASSUME f \notin job[c].named, f \notin x.stale, f # "discovery"
          PROVE  f \notin Carried(job[c]) /\ Sent(job[c], x, f) = Unset
        BY <1>1, <2>5, <2>7, <2>8 DEF Sent
    <2>9. ASSUME f \notin Carried(job[c])
          PROVE  \/ f = "discovery"
                 \/ /\ f \in ConfigKeys /\ job[c].op = "update"
                    /\ ~job[c].parse \/ f \notin SchemaKeys
        BY <2>1, <2>9 DEF CnxUpdate, Carried, KeysCarried, Fields
    <2>10. f = "discovery" => Sent(job[c], x, f) = "off"
        BY DEF Sent
    <2>11. QED
        BY <2>4, <2>5, <2>8, <2>9, <2>10
<1>2. CnxInv /\ [CnxNext]_<<cnxVars, clientVars>> =>
         [ \A c \in Clients, i \in Existing, f \in Fields :
             /\ Leaves(c, "write") /\ cnxs'[i] # Gone
             /\ cnxs'[i].fields[f] # cnxs[i].fields[f]
             => /\ reading[c].id = i
                /\ \/ f \in job[c].named
                   \/ f \in reading[c].stale
                   \/ /\ f \in ConfigKeys /\ job[c].op = "update"
                      /\ ~job[c].parse \/ f \notin SchemaKeys
                      /\ cnxs'[i].fields[f] = Unset
                   \/ f = "discovery" /\ cnxs'[i].fields[f] = "off"
         ]_<<cnxVars, clientVars>>
    BY <1>1
<1>3. QED
    BY <1>2, CnxInvariance, PTL DEF CnxSpec, CnxOnlyNamed

-----------------------------------------------------------------------------
(* Saved queries.                                                          *)

SavedQuerySpec ==
    ClientInit /\ SavedQueryInit /\ [][SavedQueryNext]_<<queryVars, clientVars>>

AtRest == {"idle", "list", "delete"}
AtWork == {"names", "put", "create", "back"}

\* The server's queries, and the variables of the clients, are functions.
SqShape ==
    /\ queries \in [Uuids -> Query \cup {Unused, Deleted}]
    /\ DOMAIN pc = Clients /\ DOMAIN job = Clients
    /\ DOMAIN kept = Clients /\ DOMAIN found = Clients
    /\ DOMAIN todo = Clients /\ DOMAIN named_since = Clients

\* Copy x of a query is of one that there was, and differs from what there is
\* only in what is stale, and in `but`.
SqCopy(x, but, qs) ==
    /\ x \in Found
    /\ x.uuid \in Uuids
    /\ qs[x.uuid] # Unused
    /\ x.uuid \in In(qs) =>
         \A a \in Attributes \ (x.stale \cup but) : x.query[a] = qs[x.uuid][a]

\* It knows whether another query has its name.
SharedNoted(x, qs) ==
    \A v \in In(qs) \ {x.uuid} : qs[v].name = x.query.name => x.shared

\* What a query is looked up by is a string, or the query at hand.
IsHandled(arg, k) ==
    \/ arg.uuid = NoQuery
    \/ k # NoQuery /\ arg.uuid = k.uuid /\ arg.name = k.query.name

HandledJob(j, k) ==
    IF j.op = "delete" THEN \A i \in DOMAIN j.args : IsHandled(j.args[i], k)
    ELSE j.op \in {"get", "update", "rename", "copy"} /\ IsHandled(j.arg, k)

\* The attribute an update is for.
Own(j) == IF j.op = "rename" THEN {"name"} ELSE {j.attr}

\* Who has a name that was free has it since.
NamedNoted(x, n, qs) == \A v \in In(qs) : qs[v].name = x.query.name => v \in n

\* What a client holds and has read is so but for what its history says.
SqClientOK(p, j, k, f, n, qs) ==
    /\ p \in AtRest \cup AtWork
    /\ k # NoQuery => SqCopy(k, {}, qs) /\ SharedNoted(k, qs)
    /\ p \in AtRest => f = NoQuery
    /\ p \in AtWork => f \in Found
    /\ p = "list" => HandledJob(j, k)
    /\ p = "list" /\ j.op = "update" => j.attr \in {"body", "folder"}
    /\ p = "names" =>
         \/ j.op = "add"
         \/ j.op \in {"rename", "copy"} /\ SqCopy(f, {}, qs)
    /\ p = "put" =>
         /\ SqCopy(f, Own(j), qs)
         /\ \/ j.op = "rename"
            \/ j.op = "update" /\ j.attr \in {"body", "folder"}
    /\ (p = "create" \/ (p = "put" /\ j.op = "rename")) => NamedNoted(f, n, qs)

SqInv ==
    /\ SqShape
    /\ \A c \in Clients : SqClientOK(pc[c], job[c], kept[c], found[c], named_since[c], queries)

\* The queries of a table are its records.
LEMMA InTyped ==
    ASSUME NEW qs \in [Uuids -> Query \cup {Unused, Deleted}], NEW u
    PROVE  u \in In(qs) <=> u \in Uuids /\ qs[u] \in Query
BY NoQueryAssumption DEF In

\* What a list shows is a copy of what there is.
LEMMA ListedCopy ==
    ASSUME SqShape, NEW u \in Listed
    PROVE  /\ FoundAs(u, queries[u]) # NoQuery
           /\ SqCopy(FoundAs(u, queries[u]), {}, queries)
           /\ SharedNoted(FoundAs(u, queries[u]), queries)
<1> DEFINE x == FoundAs(u, queries[u])
<1>1. u \in Uuids /\ queries[u] \in Query /\ queries[u] # Unused
    BY InTyped, NoQueryAssumption DEF Listed, SqShape
<1>2. /\ x.uuid = u /\ x.query = queries[u]
      /\ x.shared = \E v \in Listed \ {u} : queries[v].name = queries[u].name
    BY DEF FoundAs
<1>3. x \in Found
    BY <1>1 DEF FoundAs, Found
<1> HIDE DEF x
<1>4. x # NoQuery
    BY <1>3, NoQueryAssumption
<1>5. SqCopy(x, {}, queries)
    BY <1>1, <1>2, <1>3 DEF SqCopy
<1>6. SharedNoted(x, queries)
    BY <1>2 DEF SharedNoted, Listed
<1>7. QED
    BY <1>4, <1>5, <1>6 DEF x

\* So is the one an update makes of it, but for its own attribute.
LEMMA UpdatedCopy ==
    ASSUME SqShape, NEW u \in Listed, NEW attr \in {"body", "folder"}
    PROVE  SqCopy(FoundAs(u, [queries[u] EXCEPT ![attr] = "new"]), {attr}, queries)
<1> DEFINE q == [queries[u] EXCEPT ![attr] = "new"]
           x == FoundAs(u, q)
<1>1. u \in Uuids /\ queries[u] \in Query /\ queries[u] # Unused
    BY InTyped, NoQueryAssumption DEF Listed, SqShape
<1>2. q \in Query /\ \A a \in Attributes \ {attr} : q[a] = queries[u][a]
    BY <1>1 DEF Query, Attributes
<1> HIDE DEF q
<1>3. x.uuid = u /\ x.query = q /\ x \in Found
    BY <1>1, <1>2 DEF FoundAs, Found
<1> HIDE DEF x
<1>4. SqCopy(x, {attr}, queries)
    BY <1>1, <1>2, <1>3 DEF SqCopy
<1>5. QED
    BY <1>4 DEF x, q

\* Queries come, change and go; they do not come back.
Onwards(qs) ==
    /\ qs \in [Uuids -> Query \cup {Unused, Deleted}]
    /\ \A u \in Uuids : queries[u] # Unused =>
          qs[u] # Unused /\ (u \in In(qs) => u \in Listed)

\* Copies are as good after a change as before it.
LEMMA AwareCopies ==
    ASSUME SqShape, NEW qs, Onwards(qs), NEW copies, NEW d \in Clients, copies[d] \in Found
    PROVE  /\ Aware(copies, qs)[d] # NoQuery
           /\ Aware(copies, qs)[d] \in Found
           /\ Aware(copies, qs)[d].uuid = copies[d].uuid
           /\ Aware(copies, qs)[d].query = copies[d].query
           /\ SharedNoted(Aware(copies, qs)[d], qs)
           /\ \A but : SqCopy(copies[d], but, queries) => SqCopy(Aware(copies, qs)[d], but, qs)
<1> DEFINE x == copies[d]
           y == Aware(copies, qs)[d]
           new == { a \in Attributes : /\ x.uuid \in Listed \cap In(qs)
                                       /\ qs[x.uuid][a] # queries[x.uuid][a] }
           met == \E v \in In(qs) \ {x.uuid} : qs[v].name = x.query.name
<1>1. x # NoQuery
    BY NoQueryAssumption
<1>2. y = [x EXCEPT !.stale = @ \cup new, !.shared = @ \/ met]
    BY <1>1 DEF Aware
<1>3. new \subseteq Attributes /\ met \in BOOLEAN
    OBVIOUS
<1>4. new = { a \in Attributes : /\ x.uuid \in Listed \cap In(qs)
                                 /\ qs[x.uuid][a] # queries[x.uuid][a] }
    OBVIOUS
<1>5. met <=> \E v \in In(qs) \ {x.uuid} : qs[v].name = x.query.name
    OBVIOUS
<1> HIDE DEF y, new, met
<1>6. /\ y.uuid = x.uuid /\ y.query = x.query /\ y.stale = x.stale \cup new
      /\ y.shared = (x.shared \/ met)
    BY <1>2 DEF Found
<1>7. y \in Found
    BY <1>2, <1>3 DEF Found
<1>8. SharedNoted(y, qs)
    BY <1>5, <1>6 DEF SharedNoted
<1>9. ASSUME NEW but, SqCopy(x, but, queries)
      PROVE  SqCopy(y, but, qs)
    <2>1. x.uuid \in Uuids /\ queries[x.uuid] # Unused
        BY <1>9 DEF SqCopy
    <2>2. qs[x.uuid] # Unused
        BY <2>1 DEF Onwards
    <2>3. ASSUME x.uuid \in In(qs), NEW a \in Attributes \ (y.stale \cup but)
          PROVE  y.query[a] = qs[x.uuid][a]
        <3>1. x.uuid \in Listed
            BY <2>1, <2>3 DEF Onwards
        <3>2. a \notin new /\ a \notin x.stale /\ a \notin but
            BY <1>6, <2>3
        <3>3. x.query[a] = queries[x.uuid][a]
            BY <1>9, <2>3, <3>1, <3>2 DEF SqCopy, Listed
        <3>4. qs[x.uuid][a] = queries[x.uuid][a]
            BY <1>4, <2>3, <3>1, <3>2
        <3>5. QED
            BY <1>6, <3>3, <3>4
    <2>4. QED
        BY <1>6, <1>7, <2>1, <2>2, <2>3 DEF SqCopy
<1>10. y # NoQuery
    BY <1>7, NoQueryAssumption
<1>11. QED
    BY <1>6, <1>7, <1>8, <1>9, <1>10 DEF y

LEMMA AwareOfNone ==
    ASSUME NEW copies, NEW qs, NEW d \in Clients, copies[d] = NoQuery
    PROVE  Aware(copies, qs)[d] = NoQuery
BY DEF Aware

\* One query is written, made or deleted.
OneMoves(u, qs) ==
    /\ u \in Uuids /\ queries[u] # Deleted
    /\ \E q \in Query \cup {Deleted} : qs = [queries EXCEPT ![u] = q]

LEMMA OneMovesOnwards ==
    ASSUME SqShape, NEW u, NEW qs, OneMoves(u, qs)
    PROVE  /\ Onwards(qs)
           /\ u \in In(qs) \/ qs[u] = Deleted
           /\ \A v \in Uuids \ {u} : qs[v] = queries[v]
<1>1. PICK q \in Query \cup {Deleted} : qs = [queries EXCEPT ![u] = q]
    BY DEF OneMoves
<1>2. /\ u \in Uuids /\ queries[u] # Deleted
      /\ qs[u] = q /\ \A v \in Uuids \ {u} : qs[v] = queries[v]
    BY <1>1 DEF OneMoves, SqShape
<1>3. qs \in [Uuids -> Query \cup {Unused, Deleted}]
    BY <1>1, <1>2 DEF SqShape
<1>4. q # Unused /\ (q # Deleted => q \in Query)
    BY NoQueryAssumption, SavedQueryAssumption
<1>5. ASSUME NEW v \in Uuids, queries[v] # Unused
      PROVE  qs[v] # Unused /\ (v \in In(qs) => v \in Listed)
    <2>1. CASE v = u
        BY <1>2, <1>4, <1>5, <2>1 DEF Listed, In
    <2>2. CASE v # u
        BY <1>2, <1>5, <2>2 DEF Listed, In
    <2>3. QED
        BY <2>1, <2>2
<1>6. u \in In(qs) \/ qs[u] = Deleted
    BY <1>2, <1>4, NoQueryAssumption DEF In
<1>7. QED
    BY <1>2, <1>3, <1>5, <1>6 DEF Onwards

\* What another client holds and has read is as good after such a step.
LEMMA OthersAware ==
    ASSUME SqShape, NEW u, NEW qs, OneMoves(u, qs), NEW d \in Clients,
           NEW p, NEW j, NEW n, NEW m,
           SqClientOK(p, j, kept[d], found[d], n, queries),
           n \subseteq m,
           u \in In(qs) /\ (u \notin Listed \/ qs[u].name # queries[u].name) => u \in m
    PROVE  SqClientOK(p, j, Aware(kept, qs)[d], Aware(found, qs)[d], m, qs)
<1> DEFINE k == kept[d]
           f == found[d]
           k2 == Aware(kept, qs)[d]
           f2 == Aware(found, qs)[d]
<1>1. /\ Onwards(qs)
      /\ \A v \in Uuids \ {u} : qs[v] = queries[v]
    BY OneMovesOnwards
<1>2. k # NoQuery => k \in Found
    BY DEF SqClientOK, SqCopy
<1>3. /\ k = NoQuery => k2 = NoQuery
      /\ k # NoQuery => /\ k2 # NoQuery /\ k2.uuid = k.uuid /\ k2.query = k.query
                        /\ SqCopy(k2, {}, qs) /\ SharedNoted(k2, qs)
    <2>1. k = NoQuery => k2 = NoQuery
        BY AwareOfNone
    <2>2. k # NoQuery => SqCopy(k, {}, queries)
        BY DEF SqClientOK
    <2>3. QED
        BY <1>1, <1>2, <2>1, <2>2, AwareCopies
<1>4. /\ f = NoQuery => f2 = NoQuery
      /\ f \in Found => /\ f2 \in Found /\ f2.query = f.query
                        /\ \A but : SqCopy(f, but, queries) => SqCopy(f2, but, qs)
    BY <1>1, AwareOfNone, AwareCopies
<1>5. f \in Found /\ NamedNoted(f, n, queries) => NamedNoted(f2, m, qs)
    <2> SUFFICES ASSUME f \in Found, NamedNoted(f, n, queries),
                        NEW v \in In(qs), qs[v].name = f2.query.name
                 PROVE  v \in m
        BY DEF NamedNoted
    <2>1. qs[v].name = f.query.name
        BY <1>4
    <2>2. CASE v = u
        <3>1. CASE u \notin Listed \/ qs[u].name # queries[u].name
            BY <2>2, <3>1
        <3>2. CASE u \in Listed /\ qs[u].name = queries[u].name
            BY <2>1, <2>2, <3>2 DEF NamedNoted, Listed
        <3>3. QED
            BY <3>1, <3>2
    <2>3. CASE v # u
        <3>1. v \in In(queries) /\ queries[v] = qs[v]
            BY <1>1, <2>3 DEF In
        <3>2. QED
            BY <2>1, <3>1 DEF NamedNoted
    <2>4. QED
        BY <2>2, <2>3
<1>6. \A arg : IsHandled(arg, k) => IsHandled(arg, k2)
    BY <1>3 DEF IsHandled
<1>7. HandledJob(j, k) => HandledJob(j, k2)
    BY <1>6 DEF HandledJob
<1>8. p \in {"put", "create"} => f \in Found
    BY DEF SqClientOK, AtWork
<1> HIDE DEF k, f, k2, f2
<1>9. SqClientOK(p, j, k, f, n, queries)
    BY DEF k, f
<1>10. SqClientOK(p, j, k2, f2, m, qs)
    <2>1. /\ p \in AtRest => f2 = NoQuery
          /\ p \in AtWork => f2 \in Found
        BY <1>4, <1>9 DEF SqClientOK
    <2>2. p = "names" => f \in Found
        BY <1>9 DEF SqClientOK, AtWork
    <2>3. QED
        BY <1>3, <1>4, <1>5, <1>7, <1>8, <1>9, <2>1, <2>2 DEF SqClientOK
<1>11. QED
    BY <1>10 DEF k2, f2

\* A step of one client leaves the others where they are.
SqElsewhere(c) ==
    /\ DOMAIN pc' = Clients /\ DOMAIN job' = Clients
    /\ \A d \in Clients \ {c} : pc'[d] = pc[d] /\ job'[d] = job[d]

LEMMA SqMoves ==
    ASSUME SqShape, NEW c \in Clients
    PROVE  /\ \A j, to : Begin(c, j, to) =>
                 pc[c] = "idle" /\ pc'[c] = to /\ job'[c] = j /\ SqElsewhere(c)
           /\ \A to : Go(c, to) => pc'[c] = to /\ job'[c] = job[c] /\ SqElsewhere(c)
           /\ \A how : End(c, how) => pc'[c] = "idle" /\ SqElsewhere(c)
BY DEF SqShape, SqElsewhere, Begin, Go, End

\* What a client holds and has read is its own.
SqKeepsOthers(c) ==
    /\ DOMAIN kept' = Clients /\ DOMAIN found' = Clients
    /\ DOMAIN todo' = Clients /\ DOMAIN named_since' = Clients
    /\ \A d \in Clients \ {c} :
          kept'[d] = kept[d] /\ found'[d] = found[d] /\ named_since'[d] = named_since[d]

\* A step that changes no query is about its own client.
LEMMA SqQuiet ==
    ASSUME SqInv, NEW c \in Clients, SqElsewhere(c), SqKeepsOthers(c), queries' = queries,
           SqClientOK(pc'[c], job'[c], kept'[c], found'[c], named_since'[c], queries)
    PROVE  SqInv'
<1>1. SqShape'
    BY DEF SqInv, SqShape, SqElsewhere, SqKeepsOthers
<1>2. ASSUME NEW d \in Clients
      PROVE  SqClientOK(pc'[d], job'[d], kept'[d], found'[d], named_since'[d], queries')
    <2>1. CASE d = c
        BY <2>1
    <2>2. CASE d # c
        BY <2>2 DEF SqInv, SqElsewhere, SqKeepsOthers
    <2>3. QED
        BY <2>1, <2>2
<1>3. QED
    BY <1>1, <1>2 DEF SqInv

\* A call that has ended has nothing left but the query at hand.
LEMMA SqIdle ==
    ASSUME NEW p, NEW j, NEW k, NEW f, NEW n, NEW qs, SqClientOK(p, j, k, f, n, qs),
           NEW i, NEW m
    PROVE  SqClientOK("idle", i, k, NoQuery, m, qs)
BY DEF SqClientOK, AtRest, AtWork

LEMMA SqForgets ==
    ASSUME SqShape, NEW c \in Clients, Forgets(c)
    PROVE  /\ DOMAIN found' = Clients /\ DOMAIN todo' = Clients
           /\ DOMAIN named_since' = Clients /\ found'[c] = NoQuery
           /\ \A d \in Clients \ {c} :
                 found'[d] = found[d] /\ named_since'[d] = named_since[d]
BY DEF SqShape, Forgets

\* A call that raises is over.
LEMMA SqRaisedInv ==
    ASSUME SqInv, NEW c \in Clients, \E how : End(c, how), Forgets(c),
           UNCHANGED <<queries, kept>>
    PROVE  SqInv'
<1>1. SqShape
    BY DEF SqInv
<1>2. pc'[c] = "idle" /\ SqElsewhere(c)
    BY <1>1, SqMoves
<1>3. found'[c] = NoQuery /\ SqKeepsOthers(c)
    BY <1>1, SqForgets DEF SqKeepsOthers, SqShape
<1>4. SqClientOK(pc[c], job[c], kept[c], found[c], named_since[c], queries)
    BY DEF SqInv
<1>5. SqClientOK("idle", job'[c], kept[c], NoQuery, named_since'[c], queries)
    BY <1>4, SqIdle
<1>6. QED
    BY <1>2, <1>3, <1>5, SqQuiet

\* A query is looked up by a string, or is the one at hand.
LEMMA ArgumentsHandled ==
    ASSUME NEW c \in Clients, NEW arg \in ArgumentsOf(c)
    PROVE  IsHandled(arg, kept[c])
<1>1. CASE arg \in { Str(n) : n \in StrArgs }
    BY <1>1 DEF Str, IsHandled
<1>2. CASE arg = AtHand(c) /\ kept[c] # NoQuery
    BY <1>2 DEF AtHand, IsHandled
<1>3. QED
    BY <1>1, <1>2 DEF ArgumentsOf

LEMMA CallsHandled ==
    ASSUME NEW c \in Clients,
           NEW j \in Deletes(c) \cup UNION { CallsWith(a) : a \in ArgumentsOf(c) }
    PROVE  HandledJob(j, kept[c]) /\ (j.op = "update" => j.attr \in {"body", "folder"})
<1>1. CASE j \in { [op |-> "delete", args |-> <<a>>, errors |-> TRUE] : a \in ArgumentsOf(c) }
    <2>1. PICK a \in ArgumentsOf(c) : j = [op |-> "delete", args |-> <<a>>, errors |-> TRUE]
        BY <1>1
    <2>2. \A i \in DOMAIN j.args : j.args[i] = a
        BY <2>1
    <2>3. QED
        BY <2>1, <2>2, ArgumentsHandled DEF HandledJob
<1>2. CASE j \in { [op |-> "delete", args |-> <<Str(n), a>>, errors |-> errors] :
                     n \in StrArgs, a \in ArgumentsOf(c) \ { Str(m) : m \in Names },
                     errors \in BOOLEAN }
    <2>1. PICK n \in StrArgs, a \in ArgumentsOf(c), errors \in BOOLEAN :
              j = [op |-> "delete", args |-> <<Str(n), a>>, errors |-> errors]
        BY <1>2
    <2>2. \A i \in DOMAIN j.args : j.args[i] \in {Str(n), a}
        BY <2>1
    <2>3. IsHandled(Str(n), kept[c])
        BY DEF Str, IsHandled
    <2>4. QED
        BY <2>1, <2>2, <2>3, ArgumentsHandled DEF HandledJob
<1>3. ASSUME NEW a \in ArgumentsOf(c), j \in CallsWith(a)
      PROVE  HandledJob(j, kept[c]) /\ (j.op = "update" => j.attr \in {"body", "folder"})
    <2>1. IsHandled(a, kept[c])
        BY ArgumentsHandled
    <2>2. /\ j.op \in {"get", "update", "rename", "copy"} /\ j.arg = a
          /\ j.op = "update" => j.attr = "body"
        BY <1>3 DEF CallsWith
    <2>3. QED
        BY <2>1, <2>2 DEF HandledJob
<1>4. QED
    BY <1>1, <1>2, <1>3 DEF Deletes

\* Calls begin with what they were given.
LEMMA SqCallsInv ==
    ASSUME SqInv, NEW c \in Clients,
           SavedQueryCall(c) \/ SavedQueryAdd(c) \/ SavedQueryObject(c)
    PROVE  SqInv'
<1>1. SqShape
    BY DEF SqInv
<1>2. SqClientOK(pc[c], job[c], kept[c], found[c], named_since[c], queries)
    BY DEF SqInv
<1>3. CASE SavedQueryCall(c)
    <2>1. PICK j \in Deletes(c) \cup UNION { CallsWith(a) : a \in ArgumentsOf(c) } :
              Begin(c, j, "list")
        BY <1>3 DEF SavedQueryCall
    <2>2. pc[c] = "idle" /\ pc'[c] = "list" /\ job'[c] = j /\ SqElsewhere(c)
        BY <1>1, <2>1, SqMoves
    <2>3. /\ UNCHANGED queryVars /\ queries' = queries /\ SqKeepsOthers(c)
          /\ kept'[c] = kept[c] /\ found'[c] = found[c] /\ named_since'[c] = named_since[c]
        BY <1>1, <1>3 DEF SavedQueryCall, queryVars, SqKeepsOthers, SqShape
    <2>4. HandledJob(j, kept[c]) /\ (j.op = "update" => j.attr \in {"body", "folder"})
        BY CallsHandled
    <2>5. SqClientOK("list", j, kept[c], found[c], named_since[c], queries)
        BY <1>2, <2>2, <2>4 DEF SqClientOK, AtRest, AtWork
    <2>6. QED
        BY <2>2, <2>3, <2>5, SqQuiet
<1>4. CASE SavedQueryAdd(c)
    <2>1. PICK n \in NewNames :
             /\ Begin(c, [op |-> "add", name |-> n], "names")
             /\ found' = [found EXCEPT ![c] =
                  [uuid |-> NoQuery, stale |-> {}, shared |-> FALSE,
                   query |-> [name |-> n, body |-> "new", folder |-> "new"]]]
        BY <1>4 DEF SavedQueryAdd
    <2>2. /\ pc[c] = "idle" /\ pc'[c] = "names" /\ SqElsewhere(c)
          /\ job'[c] = [op |-> "add", name |-> n]
        BY <1>1, <2>1, SqMoves
    <2>3. /\ queries' = queries /\ SqKeepsOthers(c)
          /\ kept'[c] = kept[c] /\ named_since'[c] = named_since[c]
        BY <1>1, <1>4, <2>1 DEF SavedQueryAdd, SqKeepsOthers, SqShape
    <2>4. found'[c] \in Found
        <3>1. n \in Names
            BY SavedQueryAssumption
        <3>2. found'[c] = [uuid |-> NoQuery, stale |-> {}, shared |-> FALSE,
                           query |-> [name |-> n, body |-> "new", folder |-> "new"]]
            BY <1>1, <2>1 DEF SqShape
        <3>3. QED
            BY <3>1, <3>2 DEF Found, Query
    <2>5. job'[c].op = "add"
        BY <2>2
    <2>6. SqClientOK("names", job'[c], kept[c], found'[c], named_since[c], queries)
        BY <1>2, <2>4, <2>5 DEF SqClientOK, AtRest, AtWork
    <2>7. QED
        BY <2>2, <2>3, <2>6, SqQuiet
<1>5. CASE SavedQueryObject(c)
    <2>1. kept[c] # NoQuery /\ kept[c] \in Found /\ SqCopy(kept[c], {}, queries)
        BY <1>2, <1>5 DEF SavedQueryObject, SqClientOK, SqCopy
    <2>2. queries' = queries /\ kept' = kept /\ named_since' = named_since
        BY <1>5 DEF SavedQueryObject
    <2>3. CASE /\ \E n \in NewNames :
                    Begin(c, [op |-> "copy", arg |-> AtHand(c), name |-> n], "names")
               /\ found' = [found EXCEPT ![c] = kept[c]]
               /\ UNCHANGED todo
        <3>1. PICK n : Begin(c, [op |-> "copy", arg |-> AtHand(c), name |-> n], "names")
            BY <2>3
        <3>2. /\ pc'[c] = "names" /\ job'[c].op = "copy" /\ SqElsewhere(c)
              /\ found'[c] = kept[c] /\ SqKeepsOthers(c)
            BY <1>1, <2>2, <2>3, <3>1, SqMoves DEF SqKeepsOthers, SqShape
        <3>3. SqClientOK("names", job'[c], kept[c], kept[c], named_since[c], queries)
            BY <1>2, <2>1, <3>2 DEF SqClientOK, AtRest, AtWork
        <3>4. QED
            BY <2>2, <3>2, <3>3, SqQuiet
    <2>4. CASE /\ Begin(c, [op |-> "delete", args |-> <<AtHand(c)>>, errors |-> TRUE], "delete")
               /\ todo' = [todo EXCEPT ![c] = <<kept[c].uuid>>]
               /\ UNCHANGED found
        <3>1. /\ pc[c] = "idle" /\ pc'[c] = "delete" /\ SqElsewhere(c) /\ SqKeepsOthers(c)
            BY <1>1, <2>2, <2>4, SqMoves DEF SqKeepsOthers, SqShape
        <3>2. SqClientOK("delete", job'[c], kept[c], found[c], named_since[c], queries)
            BY <1>2, <3>1 DEF SqClientOK, AtRest, AtWork
        <3>3. QED
            BY <2>2, <2>4, <3>1, <3>2, SqQuiet
    <2>5. QED
        BY <1>5, <2>3, <2>4 DEF SavedQueryObject
<1>6. QED
    BY <1>3, <1>4, <1>5

\* A query at hand is changed at hand, and then sent.
LEMMA SqObjectUpdateInv ==
    ASSUME SqInv, NEW c \in Clients, SavedQueryObjectUpdate(c)
    PROVE  SqInv'
<1>1. SqShape
    BY DEF SqInv
<1>2. SqClientOK(pc[c], job[c], kept[c], found[c], named_since[c], queries)
    BY DEF SqInv
<1>3. PICK attr \in {"folder", "body"} :
         /\ Begin(c, [op |-> "update", arg |-> AtHand(c), attr |-> attr], "put")
         /\ kept' = [kept EXCEPT ![c].query[attr] = "new", ![c].stale = @ \cup {attr}]
         /\ found' = [found EXCEPT ![c] = kept'[c]]
    BY DEF SavedQueryObjectUpdate
<1> DEFINE x == kept[c]
           y == kept'[c]
<1>4. /\ x \in Found /\ SqCopy(x, {}, queries) /\ SharedNoted(x, queries)
    BY <1>2 DEF SavedQueryObjectUpdate, SqClientOK, SqCopy
<1>5. /\ pc[c] = "idle" /\ pc'[c] = "put" /\ SqElsewhere(c)
      /\ job'[c] = [op |-> "update", arg |-> AtHand(c), attr |-> attr]
    BY <1>1, <1>3, SqMoves
<1>6. /\ queries' = queries /\ SqKeepsOthers(c) /\ named_since' = named_since
      /\ found'[c] = y
    BY <1>1, <1>3 DEF SavedQueryObjectUpdate, SqKeepsOthers, SqShape
<1>7. y = [x EXCEPT !.query[attr] = "new", !.stale = @ \cup {attr}]
    BY <1>1, <1>3 DEF SqShape
<1> HIDE DEF y
<1>8. x.query \in Query /\ x.stale \subseteq Attributes
    BY <1>4 DEF Found
<1>9. y.uuid = x.uuid /\ y.shared = x.shared /\ y.stale = x.stale \cup {attr}
      /\ y.query = [x.query EXCEPT ![attr] = "new"]
    BY <1>4, <1>7 DEF Found
<1>10. /\ y.query \in Query /\ y.query.name = x.query.name
       /\ \A a \in Attributes \ {attr} : y.query[a] = x.query[a]
    BY <1>8, <1>9 DEF Query, Attributes
<1>11. y \in Found
    <2>1. attr \in Attributes
        BY DEF Attributes
    <2>2. y = [uuid |-> y.uuid, query |-> y.query, stale |-> y.stale, shared |-> y.shared]
        BY <1>4, <1>7 DEF Found
    <2>3. y.stale \subseteq Attributes
        BY <1>8, <1>9, <2>1
    <2>4. y.uuid \in Uuids \cup {NoQuery} /\ y.shared \in BOOLEAN
        BY <1>4, <1>9 DEF Found
    <2>5. QED
        BY <1>10, <2>2, <2>3, <2>4 DEF Found
<1>12. SqCopy(y, {}, queries) /\ SharedNoted(y, queries) /\ y # NoQuery
    <2>1. SqCopy(y, {}, queries)
        BY <1>4, <1>9, <1>10, <1>11 DEF SqCopy
    <2>2. SharedNoted(y, queries)
        BY <1>4, <1>9, <1>10 DEF SharedNoted
    <2>3. QED
        BY <1>11, <2>1, <2>2, NoQueryAssumption
<1>13. SqCopy(y, Own(job'[c]), queries)
    BY <1>12 DEF SqCopy
<1>14. job'[c].op = "update" /\ job'[c].attr \in {"body", "folder"}
    BY <1>5
<1>15. SqClientOK("put", job'[c], y, y, named_since[c], queries)
    BY <1>11, <1>12, <1>13, <1>14 DEF SqClientOK, AtRest, AtWork
<1>16. QED
    BY <1>5, <1>6, <1>15, SqQuiet DEF y

\* A lookup finds a query as it is.
LEMMA SqListInv ==
    ASSUME SqInv, NEW c \in Clients, SavedQueryList(c)
    PROVE  SqInv'
<1>1. SqShape
    BY DEF SqInv
<1>2. SqClientOK(pc[c], job[c], kept[c], found[c], named_since[c], queries)
    BY DEF SqInv
<1>3. pc[c] = "list"
    BY DEF SavedQueryList
<1>4. CASE NotFound(c)
    BY <1>4, SqRaisedInv DEF NotFound
<1>5. ASSUME NEW u \in Matches(job[c].arg),
             job[c].op = "get", End(c, "returned"),
             kept' = [kept EXCEPT ![c] = FoundAs(u, queries[u])],
             UNCHANGED <<queries, found, todo, named_since>>
      PROVE  SqInv'
    <2>1. u \in Listed
        BY <1>5 DEF Matches
    <2>2. pc'[c] = "idle" /\ SqElsewhere(c)
        BY <1>1, <1>5, SqMoves
    <2>3. SqKeepsOthers(c) /\ kept'[c] = FoundAs(u, queries[u])
        BY <1>1, <1>5 DEF SqKeepsOthers, SqShape
    <2>4. kept'[c] # NoQuery /\ SqCopy(kept'[c], {}, queries) /\ SharedNoted(kept'[c], queries)
        BY <1>1, <2>1, <2>3, ListedCopy
    <2>5. SqClientOK("idle", job'[c], kept'[c], found[c], named_since[c], queries)
        BY <1>2, <1>3, <2>4 DEF SqClientOK, AtRest, AtWork
    <2>6. QED
        BY <1>5, <2>2, <2>3, <2>5, SqQuiet
<1>6. ASSUME NEW u \in Matches(job[c].arg),
             job[c].op = "update", Go(c, "put"),
             found' = [found EXCEPT ![c] =
                FoundAs(u, [queries[u] EXCEPT ![job[c].attr] = "new"])],
             UNCHANGED <<queries, kept, todo, named_since>>
      PROVE  SqInv'
    <2>1. u \in Listed
        BY <1>6 DEF Matches
    <2>2. pc'[c] = "put" /\ job'[c] = job[c] /\ SqElsewhere(c)
        BY <1>1, <1>6, SqMoves
    <2>3. /\ SqKeepsOthers(c)
          /\ found'[c] = FoundAs(u, [queries[u] EXCEPT ![job[c].attr] = "new"])
        BY <1>1, <1>6 DEF SqKeepsOthers, SqShape
    <2>4. job[c].attr \in {"body", "folder"}
        BY <1>2, <1>3, <1>6 DEF SqClientOK
    <2>5. SqCopy(found'[c], {job[c].attr}, queries)
        BY <1>1, <2>1, <2>3, <2>4, UpdatedCopy
    <2>6. SqCopy(found'[c], Own(job[c]), queries) /\ found'[c] \in Found
        BY <1>6, <2>5 DEF Own, SqCopy
    <2>7. SqClientOK("put", job[c], kept[c], found'[c], named_since[c], queries)
        BY <1>2, <1>6, <2>4, <2>6 DEF SqClientOK, AtRest, AtWork
    <2>8. QED
        BY <1>6, <2>2, <2>3, <2>7, SqQuiet
<1>7. ASSUME NEW u \in Matches(job[c].arg),
             job[c].op \in {"rename", "copy"}, Go(c, "names"),
             found' = [found EXCEPT ![c] = FoundAs(u, queries[u])],
             UNCHANGED <<queries, kept, todo, named_since>>
      PROVE  SqInv'
    <2>1. u \in Listed
        BY <1>7 DEF Matches
    <2>2. pc'[c] = "names" /\ job'[c] = job[c] /\ SqElsewhere(c)
        BY <1>1, <1>7, SqMoves
    <2>3. SqKeepsOthers(c) /\ found'[c] = FoundAs(u, queries[u])
        BY <1>1, <1>7 DEF SqKeepsOthers, SqShape
    <2>4. SqCopy(found'[c], {}, queries) /\ found'[c] \in Found
        BY <1>1, <2>1, <2>3, ListedCopy DEF SqCopy
    <2>5. SqClientOK("names", job[c], kept[c], found'[c], named_since[c], queries)
        BY <1>2, <1>7, <2>4 DEF SqClientOK, AtRest, AtWork
    <2>6. QED
        BY <1>7, <2>2, <2>3, <2>5, SqQuiet
<1>8. QED
    BY <1>4, <1>5, <1>6, <1>7 DEF SavedQueryList

LEMMA SqRowsInv ==
    ASSUME SqInv, NEW c \in Clients, SavedQueryRows(c)
    PROVE  SqInv'
<1>1. SqShape
    BY DEF SqInv
<1>2. SqClientOK(pc[c], job[c], kept[c], found[c], named_since[c], queries)
    BY DEF SqInv
<1>3. pc[c] = "list" /\ Go(c, "delete") /\ UNCHANGED <<queries, kept, found, named_since>>
    BY DEF SavedQueryRows
<1>4. PICK us : todo' = [todo EXCEPT ![c] = us]
    BY DEF SavedQueryRows
<1>5. pc'[c] = "delete" /\ job'[c] = job[c] /\ SqElsewhere(c)
    BY <1>1, <1>3, SqMoves
<1>6. SqKeepsOthers(c)
    BY <1>1, <1>3, <1>4 DEF SqKeepsOthers, SqShape
<1>7. SqClientOK("delete", job[c], kept[c], found[c], named_since[c], queries)
    BY <1>2, <1>3 DEF SqClientOK, AtRest, AtWork
<1>8. QED
    BY <1>3, <1>5, <1>6, <1>7, SqQuiet

\* A name is free when it is checked.
LEMMA SqNamesInv ==
    ASSUME SqInv, NEW c \in Clients, SavedQueryNames(c)
    PROVE  SqInv'
<1>1. SqShape
    BY DEF SqInv
<1>2. SqClientOK(pc[c], job[c], kept[c], found[c], named_since[c], queries)
    BY DEF SqInv
<1>3. pc[c] = "names"
    BY DEF SavedQueryNames
<1>4. CASE NotFound(c)
    BY <1>4, SqRaisedInv DEF NotFound
<1>5. ASSUME NEW n \in Names \ NamesListed,
             job[c].name \in NamesListed => job[c].op = "copy",
             Go(c, IF job[c].op = "rename" THEN "put" ELSE "create"),
             found' = [found EXCEPT ![c].query.name = n],
             named_since' = [named_since EXCEPT ![c] = {}],
             UNCHANGED <<queries, kept, todo>>
      PROVE  SqInv'
    <2> DEFINE x == found[c]
               y == found'[c]
               to == IF job[c].op = "rename" THEN "put" ELSE "create"
    <2>1. pc'[c] = to /\ job'[c] = job[c] /\ SqElsewhere(c)
        BY <1>1, <1>5, SqMoves
    <2>2. SqKeepsOthers(c)
        BY <1>1, <1>5 DEF SqKeepsOthers, SqShape
    <2>3. x \in Found
        BY <1>2, <1>3 DEF SqClientOK, AtWork
    <2>4. y = [x EXCEPT !.query.name = n]
        BY <1>1, <1>5 DEF SqShape
    <2> HIDE DEF y
    <2>5. x.query \in Query
        BY <2>3 DEF Found
    <2>6. /\ y.uuid = x.uuid /\ y.stale = x.stale /\ y.shared = x.shared
          /\ y.query = [x.query EXCEPT !.name = n]
        BY <2>3, <2>4 DEF Found
    <2>7. /\ y.query \in Query /\ y.query.name = n
          /\ \A a \in Attributes \ {"name"} : y.query[a] = x.query[a]
        BY <2>5, <2>6 DEF Query, Attributes
    <2>8. y \in Found
        <3>1. y = [uuid |-> y.uuid, query |-> y.query, stale |-> y.stale, shared |-> y.shared]
            BY <2>3, <2>4 DEF Found
        <3>2. y.uuid \in Uuids \cup {NoQuery} /\ y.stale \in SUBSET Attributes /\ y.shared \in BOOLEAN
            BY <2>3, <2>6 DEF Found
        <3>3. QED
            BY <2>7, <3>1, <3>2 DEF Found
    <2>9. NamedNoted(y, {}, queries)
        BY <1>5, <2>7 DEF NamedNoted, NamesListed, Listed
    <2>10. CASE job[c].op = "rename"
        <3>1. SqCopy(x, {}, queries)
            BY <1>2, <1>3, <2>10 DEF SqClientOK
        <3>2. SqCopy(y, Own(job[c]), queries)
            BY <2>6, <2>7, <2>8, <2>10, <3>1 DEF SqCopy, Own
        <3>3. SqClientOK("put", job[c], kept[c], y, {}, queries)
            BY <1>2, <2>8, <2>9, <2>10, <3>2 DEF SqClientOK, AtRest, AtWork
        <3>4. QED
            BY <1>1, <1>5, <2>1, <2>2, <2>10, <3>3, SqQuiet DEF SqShape, y
    <2>11. CASE job[c].op # "rename"
        <3>1. SqClientOK("create", job[c], kept[c], y, {}, queries)
            BY <1>2, <2>8, <2>9 DEF SqClientOK, AtRest, AtWork
        <3>2. QED
            BY <1>1, <1>5, <2>1, <2>2, <2>11, <3>1, SqQuiet DEF SqShape, y
    <2>12. QED
        BY <2>10, <2>11
<1>6. QED
    BY <1>4, <1>5 DEF SavedQueryNames

LEMMA SqReadBackInv ==
    ASSUME SqInv, NEW c \in Clients, SavedQueryReadBack(c)
    PROVE  SqInv'
<1>1. SqShape
    BY DEF SqInv
<1>2. SqClientOK(pc[c], job[c], kept[c], found[c], named_since[c], queries)
    BY DEF SqInv
<1>3. CASE NotFound(c)
    BY <1>3, SqRaisedInv DEF NotFound
<1>4. ASSUME NEW u \in ReadBackAs(c), End(c, "returned"),
             kept' = [kept EXCEPT ![c] = FoundAs(u, queries[u])],
             Forgets(c), UNCHANGED queries
      PROVE  SqInv'
    <2>1. u \in Listed
        BY <1>4 DEF ReadBackAs, Matches
    <2>2. pc'[c] = "idle" /\ SqElsewhere(c)
        BY <1>1, <1>4, SqMoves
    <2>3. /\ SqKeepsOthers(c) /\ found'[c] = NoQuery
          /\ kept'[c] = FoundAs(u, queries[u])
        BY <1>1, <1>4, SqForgets DEF SqKeepsOthers, SqShape
    <2>4. kept'[c] # NoQuery /\ SqCopy(kept'[c], {}, queries) /\ SharedNoted(kept'[c], queries)
        BY <1>1, <2>1, <2>3, ListedCopy
    <2>5. SqClientOK("idle", job'[c], kept'[c], NoQuery, named_since'[c], queries)
        BY <2>4 DEF SqClientOK, AtRest, AtWork
    <2>6. QED
        BY <1>4, <2>2, <2>3, <2>5, SqQuiet
<1>5. QED
    BY <1>3, <1>4 DEF SavedQueryReadBack

LEMMA SqFailInv ==
    ASSUME SqInv, NEW c \in Clients, SavedQueryFail(c)
    PROVE  SqInv'
BY SqRaisedInv DEF SavedQueryFail

\* What is sent is noted in every copy, and in who waits for a free name.
LEMMA SqSendsInv ==
    ASSUME SqInv, NEW c \in Clients, pc[c] \in {"put", "create"},
           NEW u \in Uuids, queries[u] # Deleted, Sends(c, u)
    PROVE  SqInv'
<1> DEFINE qs == [queries EXCEPT ![u] = found[c].query]
           sent == Aware(found, qs)
<1>1. SqShape
    BY DEF SqInv
<1>2. \A d \in Clients : SqClientOK(pc[d], job[d], kept[d], found[d], named_since[d], queries)
    BY DEF SqInv
<1>3. found[c] \in Found /\ found[c].query \in Query
    BY <1>2 DEF SqClientOK, AtWork, Found
<1>4. /\ queries' = qs /\ kept' = Aware(kept, qs) /\ NamedSince(c, u, qs) /\ UNCHANGED todo
      /\ \/ Go(c, "back") /\ found' = [sent EXCEPT ![c].uuid = u]
         \/ End(c, "failed") /\ found' = [sent EXCEPT ![c] = NoQuery]
    BY DEF Sends
<1>5. OneMoves(u, qs)
    BY <1>3 DEF OneMoves
<1>6. DOMAIN kept' = Clients /\ DOMAIN sent = Clients
    BY <1>4 DEF Aware
<1>7. Onwards(qs)
    BY <1>1, <1>5, OneMovesOnwards
<1> HIDE DEF qs, sent
<1>8. DOMAIN found' = Clients /\ \A d \in Clients \ {c} : found'[d] = sent[d]
    BY <1>4, <1>6
<1>9. /\ DOMAIN named_since' = Clients
      /\ \A d \in Clients \ {c} : named_since'[d] =
            IF u \notin Listed \/ qs[u].name # queries[u].name
            THEN named_since[d] \cup {u} ELSE named_since[d]
    BY <1>4 DEF NamedSince
<1>10. SqElsewhere(c)
    BY <1>1, <1>4, SqMoves
<1>11. SqShape'
    BY <1>1, <1>4, <1>6, <1>7, <1>8, <1>9, <1>10 DEF SqShape, SqElsewhere, Onwards
<1>12. ASSUME NEW d \in Clients \ {c}
       PROVE  SqClientOK(pc'[d], job'[d], kept'[d], found'[d], named_since'[d], qs)
    <2>1. /\ named_since[d] \subseteq named_since'[d]
          /\ u \notin Listed \/ qs[u].name # queries[u].name => u \in named_since'[d]
        BY <1>9
    <2>2. SqClientOK(pc[d], job[d], Aware(kept, qs)[d], Aware(found, qs)[d],
                     named_since'[d], qs)
        BY <1>1, <1>2, <1>5, <2>1, OthersAware
    <2>3. QED
        BY <1>4, <1>8, <1>10, <2>2 DEF SqElsewhere, sent
<1>13. SqClientOK(pc'[c], job'[c], kept'[c], found'[c], named_since'[c], qs)
    <2>1. SqClientOK(pc[c], job[c], Aware(kept, qs)[c], Aware(found, qs)[c],
                     named_since[c] \cup {u}, qs)
        BY <1>1, <1>2, <1>5, OthersAware
    <2>2. kept'[c] # NoQuery => SqCopy(kept'[c], {}, qs) /\ SharedNoted(kept'[c], qs)
        BY <1>4, <2>1 DEF SqClientOK
    <2>3. sent[c] \in Found
        BY <1>1, <1>3, <1>7, AwareCopies DEF sent
    <2>4. CASE Go(c, "back") /\ found' = [sent EXCEPT ![c].uuid = u]
        <3>1. pc'[c] = "back"
            BY <1>1, <2>4, SqMoves
        <3>2. found'[c] = [sent[c] EXCEPT !.uuid = u]
            BY <1>6, <2>4
        <3>3. found'[c] \in Found
            BY <2>3, <3>2 DEF Found
        <3>4. QED
            BY <2>2, <3>1, <3>3 DEF SqClientOK, AtRest, AtWork
    <2>5. CASE End(c, "failed") /\ found' = [sent EXCEPT ![c] = NoQuery]
        <3>1. pc'[c] = "idle" /\ found'[c] = NoQuery
            BY <1>1, <1>6, <2>5, SqMoves
        <3>2. QED
            BY <2>2, <3>1 DEF SqClientOK, AtRest, AtWork
    <2>6. QED
        BY <1>4, <2>4, <2>5
<1>14. QED
    <2>1. ASSUME NEW d \in Clients
          PROVE  SqClientOK(pc'[d], job'[d], kept'[d], found'[d], named_since'[d], queries')
        <3>1. CASE d = c
            BY <1>4, <1>13, <3>1
        <3>2. CASE d # c
            BY <1>4, <1>12, <3>2
        <3>3. QED
            BY <3>1, <3>2
    <2>2. QED
        BY <1>11, <2>1 DEF SqInv

LEMMA SqPutInv ==
    ASSUME SqInv, NEW c \in Clients, SavedQueryPut(c)
    PROVE  SqInv'
<1>1. CASE found[c].uuid \in Listed /\ Sends(c, found[c].uuid)
    <2>1. found[c].uuid \in Uuids /\ queries[found[c].uuid] # Deleted
        BY <1>1 DEF Listed, In
    <2>2. QED
        BY <1>1, <2>1, SqSendsInv DEF SavedQueryPut
<1>2. CASE NotFound(c)
    BY <1>2, SqRaisedInv DEF NotFound
<1>3. QED
    BY <1>1, <1>2 DEF SavedQueryPut

LEMMA SqCreateInv ==
    ASSUME SqInv, NEW c \in Clients, SavedQueryCreate(c)
    PROVE  SqInv'
<1>1. PICK u \in Uuids : queries[u] = Unused /\ Sends(c, u)
    BY DEF SavedQueryCreate
<1>2. queries[u] # Deleted
    BY <1>1, SavedQueryAssumption
<1>3. QED
    BY <1>1, <1>2, SqSendsInv DEF SavedQueryCreate

\* What is deleted is nobody's any more.
LEMMA SqDeletesInv ==
    ASSUME SqInv, NEW c \in Clients, pc[c] = "delete", NEW u \in Listed, Go(c, "delete"),
           queries' = [queries EXCEPT ![u] = Deleted],
           kept' = Aware(kept, [queries EXCEPT ![u] = Deleted]),
           found' = Aware(found, [queries EXCEPT ![u] = Deleted]),
           DOMAIN todo' = Clients, UNCHANGED named_since
    PROVE  SqInv'
<1> DEFINE qs == [queries EXCEPT ![u] = Deleted]
<1>1. SqShape
    BY DEF SqInv
<1>2. \A d \in Clients : SqClientOK(pc[d], job[d], kept[d], found[d], named_since[d], queries)
    BY DEF SqInv
<1>3. u \in Uuids /\ queries[u] # Deleted
    BY DEF Listed, In
<1>4. OneMoves(u, qs)
    BY <1>3 DEF OneMoves
<1>5. u \notin In(qs)
    BY <1>1, <1>3 DEF In, SqShape
<1>6. queries' = qs /\ kept' = Aware(kept, qs) /\ found' = Aware(found, qs)
    OBVIOUS
<1> HIDE DEF qs
<1>7. Onwards(qs)
    BY <1>1, <1>4, OneMovesOnwards
<1>8. pc'[c] = pc[c] /\ job'[c] = job[c] /\ SqElsewhere(c)
    BY <1>1, SqMoves
<1>9. DOMAIN kept' = Clients /\ DOMAIN found' = Clients
    BY <1>6 DEF Aware
<1>10. SqShape'
    BY <1>1, <1>6, <1>7, <1>8, <1>9 DEF SqShape, SqElsewhere, Onwards
<1>11. ASSUME NEW d \in Clients
       PROVE  SqClientOK(pc'[d], job'[d], kept'[d], found'[d], named_since'[d], queries')
    <2>1. pc'[d] = pc[d] /\ job'[d] = job[d]
        BY <1>8 DEF SqElsewhere
    <2>2. SqClientOK(pc[d], job[d], Aware(kept, qs)[d], Aware(found, qs)[d], named_since[d], qs)
        BY <1>1, <1>2, <1>4, <1>5, OthersAware
    <2>3. QED
        BY <1>6, <2>1, <2>2
<1>12. QED
    BY <1>10, <1>11 DEF SqInv

LEMMA SqDeleteInv ==
    ASSUME SqInv, NEW c \in Clients, SavedQueryDelete(c)
    PROVE  SqInv'
<1>1. SqShape
    BY DEF SqInv
<1>2. SqClientOK(pc[c], job[c], kept[c], found[c], named_since[c], queries)
    BY DEF SqInv
<1>3. pc[c] = "delete"
    BY DEF SavedQueryDelete
<1> DEFINE u == Head(todo[c])
           rest == RowsBut(Tail(todo[c]), u)
<1>4. CASE End(c, "returned") /\ UNCHANGED queryVars
    <2>1. pc'[c] = "idle" /\ SqElsewhere(c)
        BY <1>1, <1>4, SqMoves
    <2>2. /\ queries' = queries /\ SqKeepsOthers(c) /\ kept' = kept
          /\ found' = found /\ named_since' = named_since
        BY <1>1, <1>4 DEF queryVars, SqKeepsOthers, SqShape
    <2>3. SqClientOK("idle", job'[c], kept[c], found[c], named_since[c], queries)
        BY <1>2, <1>3 DEF SqClientOK, AtRest, AtWork
    <2>4. QED
        BY <2>1, <2>2, <2>3, SqQuiet
<1>5. CASE /\ Go(c, "delete") /\ todo' = [todo EXCEPT ![c] = Tail(@)]
           /\ UNCHANGED <<queries, kept, found, named_since>>
    <2>1. pc'[c] = "delete" /\ job'[c] = job[c] /\ SqElsewhere(c)
        BY <1>1, <1>5, SqMoves
    <2>2. SqKeepsOthers(c)
        BY <1>1, <1>5 DEF SqKeepsOthers, SqShape
    <2>3. QED
        BY <1>2, <1>3, <1>5, <2>1, <2>2, SqQuiet
<1>6. CASE NotFound(c)
    BY <1>6, SqRaisedInv DEF NotFound
<1>7. CASE /\ u \in Listed
           /\ queries' = [queries EXCEPT ![u] = Deleted]
           /\ todo' = [todo EXCEPT ![c] = rest]
           /\ Go(c, "delete")
           /\ kept' = Aware(kept, [queries EXCEPT ![u] = Deleted])
           /\ found' = Aware(found, [queries EXCEPT ![u] = Deleted])
           /\ UNCHANGED named_since
    <2> HIDE DEF u, rest
    <2>1. DOMAIN todo' = Clients
        BY <1>1, <1>7 DEF SqShape
    <2>2. QED
        BY <1>3, <1>7, <2>1, SqDeletesInv
<1>8. QED
    BY <1>4, <1>5, <1>6, <1>7 DEF SavedQueryDelete

LEMMA SqInitInv ==
    ASSUME ClientInit, SavedQueryInit
    PROVE  SqInv
<1>1. PICK f \in [FirstNames -> Uuids] :
         queries = [u \in Uuids |->
                      IF \A n \in FirstNames : f[n] # u THEN Unused
                      ELSE [name |-> CHOOSE n \in FirstNames : f[n] = u,
                            body |-> "old", folder |-> "old"]]
    BY DEF SavedQueryInit
<1>2. ASSUME NEW u \in Uuids
      PROVE  queries[u] \in Query \cup {Unused, Deleted}
    <2>1. CASE \A n \in FirstNames : f[n] # u
        BY <1>1, <2>1
    <2>2. CASE \E n \in FirstNames : f[n] = u
        <3> DEFINE m == CHOOSE n \in FirstNames : f[n] = u
        <3>1. m \in FirstNames
            BY <2>2
        <3>2. m \in Names
            BY <3>1, SavedQueryAssumption
        <3> HIDE DEF m
        <3>3. [name |-> m, body |-> "old", folder |-> "old"] \in Query
            BY <3>2 DEF Query
        <3>4. queries[u] = [name |-> m, body |-> "old", folder |-> "old"]
            BY <1>1, <2>2 DEF m
        <3>5. QED
            BY <3>3, <3>4
    <2>3. QED
        BY <2>1, <2>2
<1>3. SqShape
    BY <1>1, <1>2 DEF SqShape, ClientInit, SavedQueryInit
<1>4. ASSUME NEW c \in Clients
      PROVE  SqClientOK(pc[c], job[c], kept[c], found[c], named_since[c], queries)
    BY DEF ClientInit, SavedQueryInit, SqClientOK, AtRest, AtWork
<1>5. QED
    BY <1>3, <1>4 DEF SqInv

LEMMA SqInvNext ==
    ASSUME SqInv, [SavedQueryNext]_<<queryVars, clientVars>>
    PROVE  SqInv'
<1>1. ASSUME NEW c \in Clients,
             \/ SavedQueryCall(c) \/ SavedQueryAdd(c)
             \/ SavedQueryObjectUpdate(c) \/ SavedQueryObject(c)
             \/ SavedQueryList(c) \/ SavedQueryRows(c) \/ SavedQueryNames(c)
             \/ SavedQueryPut(c) \/ SavedQueryCreate(c) \/ SavedQueryDelete(c)
             \/ SavedQueryReadBack(c) \/ SavedQueryFail(c)
      PROVE  SqInv'
    BY <1>1, SqCallsInv, SqObjectUpdateInv, SqListInv, SqRowsInv, SqNamesInv, SqPutInv,
       SqCreateInv, SqDeleteInv, SqReadBackInv, SqFailInv
<1>2. CASE UNCHANGED <<queryVars, clientVars>>
    BY <1>2 DEF queryVars, clientVars, SqInv, SqShape
<1>3. QED
    BY <1>1, <1>2 DEF SavedQueryNext

LEMMA SqInvariance == SavedQuerySpec => []SqInv
<1>1. ClientInit /\ SavedQueryInit => SqInv
    BY SqInitInv
<1>2. SqInv /\ [SavedQueryNext]_<<queryVars, clientVars>> => SqInv'
    BY SqInvNext
<1>3. QED
    BY <1>1, <1>2, PTL DEF SavedQuerySpec

\* Who moves does so itself, from where it is.
LEMMA SqMovesItself ==
    ASSUME SqInv, [SavedQueryNext]_<<queryVars, clientVars>>, NEW c \in Clients,
           pc[c] # "idle", pc'[c] # pc[c]
    PROVE  \/ SavedQueryList(c) \/ SavedQueryRows(c) \/ SavedQueryNames(c)
           \/ SavedQueryPut(c) \/ SavedQueryCreate(c) \/ SavedQueryDelete(c)
           \/ SavedQueryReadBack(c) \/ SavedQueryFail(c)
<1>1. SqShape
    BY DEF SqInv
<1>2. ~(UNCHANGED <<queryVars, clientVars>>)
    BY DEF clientVars
<1>3. PICK d \in Clients :
             \/ SavedQueryCall(d) \/ SavedQueryAdd(d)
             \/ SavedQueryObjectUpdate(d) \/ SavedQueryObject(d)
             \/ SavedQueryList(d) \/ SavedQueryRows(d) \/ SavedQueryNames(d)
             \/ SavedQueryPut(d) \/ SavedQueryCreate(d) \/ SavedQueryDelete(d)
             \/ SavedQueryReadBack(d) \/ SavedQueryFail(d)
    BY <1>2 DEF SavedQueryNext
<1>4. SqElsewhere(d)
    <2>1. \A j, to : Begin(d, j, to) => SqElsewhere(d)
        BY <1>1, SqMoves
    <2>2. \A to : Go(d, to) => SqElsewhere(d)
        BY <1>1, SqMoves
    <2>3. \A how : End(d, how) => SqElsewhere(d)
        BY <1>1, SqMoves
    <2>4. NotFound(d) => SqElsewhere(d)
        BY <2>3 DEF NotFound
    <2>5. \A u : Sends(d, u) => SqElsewhere(d)
        BY <2>2, <2>3 DEF Sends
    <2>6. CASE SavedQueryCall(d) \/ SavedQueryAdd(d) \/ SavedQueryObjectUpdate(d)
               \/ SavedQueryObject(d)
        BY <2>1, <2>6 DEF SavedQueryCall, SavedQueryAdd, SavedQueryObjectUpdate,
                          SavedQueryObject
    <2>7. CASE SavedQueryList(d) \/ SavedQueryRows(d)
        BY <2>2, <2>3, <2>4, <2>7 DEF SavedQueryList, SavedQueryRows
    <2>8. CASE SavedQueryNames(d) \/ SavedQueryDelete(d)
        BY <2>2, <2>3, <2>4, <2>8 DEF SavedQueryNames, SavedQueryDelete
    <2>9. CASE SavedQueryPut(d) \/ SavedQueryCreate(d)
        BY <2>4, <2>5, <2>9 DEF SavedQueryPut, SavedQueryCreate
    <2>10. CASE SavedQueryReadBack(d) \/ SavedQueryFail(d)
        BY <2>3, <2>4, <2>10 DEF SavedQueryReadBack, SavedQueryFail
    <2>11. QED
        BY <1>3, <2>6, <2>7, <2>8, <2>9, <2>10
<1>5. d = c
    BY <1>4 DEF SqElsewhere
<1>6. ~(SavedQueryCall(c) \/ SavedQueryAdd(c)
        \/ SavedQueryObjectUpdate(c) \/ SavedQueryObject(c))
    BY DEF SavedQueryCall, SavedQueryAdd, SavedQueryObjectUpdate, SavedQueryObject, Begin
<1>7. QED
    BY <1>3, <1>5, <1>6

\* A query that matches what is at hand is the one at hand, or shares its name.
LEMMA MatchesHandled ==
    ASSUME NEW arg, NEW k, IsHandled(arg, k), arg.uuid # NoQuery,
           k # NoQuery => SharedNoted(k, queries), NEW u \in Matches(arg)
    PROVE  u = arg.uuid \/ k.shared
<1>1. k # NoQuery /\ arg.uuid = k.uuid /\ arg.name = k.query.name
    BY DEF IsHandled
<1>2. u \in Listed /\ (queries[u].name = arg.name \/ u = arg.uuid)
    BY DEF Matches
<1>3. QED
    BY <1>1, <1>2 DEF SharedNoted, Listed

\* The query a call means is the one that it finds.
LEMMA SqFindsMeant ==
    ASSUME SqInv, NEW c \in Clients, pc[c] = "list", pc'[c] # "list",
           SavedQueryList(c) \/ SavedQueryRows(c) \/ SavedQueryFail(c)
    PROVE  /\ found'[c] # NoQuery /\ job[c].arg.uuid # NoQuery =>
                 found'[c].uuid = job[c].arg.uuid \/ kept[c].shared
           /\ job[c].op = "delete" =>
                 \A i \in DOMAIN todo'[c] :
                    \/ NoQuery \in {job[c].args[i].uuid, todo'[c][i]}
                    \/ todo'[c][i] = job[c].args[i].uuid
                    \/ kept[c].shared
<1>1. SqShape
    BY DEF SqInv
<1>2. /\ SqClientOK(pc[c], job[c], kept[c], found[c], named_since[c], queries)
      /\ found[c] = NoQuery /\ HandledJob(job[c], kept[c])
      /\ kept[c] # NoQuery => SharedNoted(kept[c], queries)
    BY DEF SqInv, SqClientOK, AtRest
<1>3. ASSUME Forgets(c)
      PROVE  found'[c] = NoQuery /\ DOMAIN todo'[c] = {}
    BY <1>1, <1>3 DEF Forgets, SqShape
<1>4. CASE SavedQueryFail(c) \/ NotFound(c)
    BY <1>3, <1>4 DEF SavedQueryFail, NotFound
<1>5. ASSUME SavedQueryList(c), ~NotFound(c)
      PROVE  /\ job[c].op # "delete"
             /\ found'[c] # NoQuery /\ job[c].arg.uuid # NoQuery =>
                   found'[c].uuid = job[c].arg.uuid \/ kept[c].shared
    <2>1. job[c].op # "delete" /\ IsHandled(job[c].arg, kept[c])
        BY <1>2, <1>5 DEF SavedQueryList, HandledJob
    <2>2. PICK u \in Matches(job[c].arg) :
              \/ found' = found
              \/ \E q : found' = [found EXCEPT ![c] = FoundAs(u, q)]
        <3>1. PICK u \in Matches(job[c].arg) :
                  \/ found' = found
                  \/ found' = [found EXCEPT ![c] =
                        FoundAs(u, [queries[u] EXCEPT ![job[c].attr] = "new"])]
                  \/ found' = [found EXCEPT ![c] = FoundAs(u, queries[u])]
            BY <1>5 DEF SavedQueryList
        <3>2. QED
            BY <3>1
    <2>3. CASE found' = found
        BY <1>2, <2>1, <2>3
    <2>4. ASSUME NEW q, found' = [found EXCEPT ![c] = FoundAs(u, q)]
          PROVE  found'[c].uuid = u
        BY <1>1, <2>4 DEF FoundAs, SqShape
    <2>5. job[c].arg.uuid # NoQuery => u = job[c].arg.uuid \/ kept[c].shared
        BY <1>2, <2>1, MatchesHandled
    <2>6. QED
        BY <2>1, <2>2, <2>3, <2>4, <2>5
<1>6. ASSUME SavedQueryRows(c)
      PROVE  /\ found'[c] = NoQuery
             /\ \A i \in DOMAIN todo'[c] :
                   \/ NoQuery \in {job[c].args[i].uuid, todo'[c][i]}
                   \/ todo'[c][i] = job[c].args[i].uuid
                   \/ kept[c].shared
    <2>1. found'[c] = NoQuery
        BY <1>2, <1>6 DEF SavedQueryRows
    <2>2. \A i \in DOMAIN job[c].args : IsHandled(job[c].args[i], kept[c])
        BY <1>2, <1>6 DEF SavedQueryRows, HandledJob
    <2>3. PICK us \in [DOMAIN job[c].args -> Uuids \cup {NoQuery}] :
             /\ \A i \in DOMAIN us :
                  LET m == Matches(job[c].args[i])
                  IN  IF m = {} THEN us[i] = NoQuery ELSE us[i] \in m
             /\ todo' = [todo EXCEPT ![c] = us]
        BY <1>6 DEF SavedQueryRows
    <2>4. todo'[c] = us /\ DOMAIN us = DOMAIN job[c].args
        BY <1>1, <2>3 DEF SqShape
    <2>5. ASSUME NEW i \in DOMAIN job[c].args, us[i] # NoQuery,
                 job[c].args[i].uuid # NoQuery
          PROVE  us[i] = job[c].args[i].uuid \/ kept[c].shared
        <3>1. us[i] \in Matches(job[c].args[i])
            BY <2>3, <2>4, <2>5
        <3>2. QED
            BY <1>2, <2>2, <2>5, <3>1, MatchesHandled
    <2>6. QED
        BY <2>1, <2>4, <2>5
<1>7. QED
    BY <1>4, <1>5, <1>6

\* An update writes what it read, but for what it is for.
LEMMA SqWritesMeant ==
    ASSUME SqInv, NEW c \in Clients, pc[c] = "put", SavedQueryPut(c) \/ SavedQueryFail(c),
           NEW u \in Listed, NEW a \in Attributes, queries'[u][a] # queries[u][a]
    PROVE  /\ u = found[c].uuid
           /\ \/ a \in found[c].stale
              \/ a = IF job[c].op = "rename" THEN "name" ELSE job[c].attr
<1>1. SqShape
    BY DEF SqInv
<1>2. SqCopy(found[c], Own(job[c]), queries)
    BY DEF SqInv, SqClientOK
<1>3. queries' = [queries EXCEPT ![found[c].uuid] = found[c].query]
    BY DEF SavedQueryPut, SavedQueryFail, NotFound, Sends
<1>4. u = found[c].uuid /\ queries'[u] = found[c].query
    BY <1>1, <1>3 DEF SqShape, Listed, In
<1>5. a \in found[c].stale \cup Own(job[c])
    BY <1>2, <1>4 DEF SqCopy, Listed
<1>6. QED
    BY <1>4, <1>5 DEF Own

\* A saved query that is meant by one at hand is the one that is found, unless
\* the name was shared; and an update changes it only in what it is for, or in
\* what was changed since it was read.
THEOREM SavedQueryWritesOnlyMeant == SavedQuerySpec => SavedQueryOnlyMeant
<1>1. ASSUME SqInv, [SavedQueryNext]_<<queryVars, clientVars>>, NEW c \in Clients
      PROVE  /\ /\ Leaves(c, "list") /\ found'[c] # NoQuery
                /\ job[c].arg.uuid # NoQuery
                => found'[c].uuid = job[c].arg.uuid \/ kept[c].shared
             /\ Leaves(c, "list") /\ job[c].op = "delete" =>
                  \A i \in DOMAIN todo'[c] :
                     \/ NoQuery \in {job[c].args[i].uuid, todo'[c][i]}
                     \/ todo'[c][i] = job[c].args[i].uuid
                     \/ kept[c].shared
             /\ Leaves(c, "put") =>
                  \A u \in Listed : \A a \in Attributes :
                     queries'[u][a] # queries[u][a] =>
                        /\ u = found[c].uuid
                        /\ \/ a \in found[c].stale
                           \/ a = IF job[c].op = "rename" THEN "name" ELSE job[c].attr
    <2>1. CASE Leaves(c, "list")
        <3>1. pc[c] = "list" /\ pc'[c] # "list"
            BY <2>1 DEF Leaves
        <3>2. SavedQueryList(c) \/ SavedQueryRows(c) \/ SavedQueryFail(c)
            BY <1>1, <3>1, SqMovesItself DEF SavedQueryNames, SavedQueryPut,
               SavedQueryCreate, SavedQueryDelete, SavedQueryReadBack
        <3>3. QED
            BY <1>1, <3>1, <3>2, SqFindsMeant DEF Leaves
    <2>2. CASE Leaves(c, "put")
        <3>1. pc[c] = "put" /\ pc'[c] # "put"
            BY <2>2 DEF Leaves
        <3>2. SavedQueryPut(c) \/ SavedQueryFail(c)
            BY <1>1, <3>1, SqMovesItself DEF SavedQueryList, SavedQueryRows,
               SavedQueryNames, SavedQueryCreate, SavedQueryDelete, SavedQueryReadBack
        <3>3. QED
            BY <1>1, <3>1, <3>2, SqWritesMeant DEF Leaves
    <2>3. QED
        BY <2>1, <2>2
<1>2. SqInv /\ [SavedQueryNext]_<<queryVars, clientVars>> =>
    [ \A c \in Clients :
          /\ /\ Leaves(c, "list") /\ found'[c] # NoQuery
             /\ job[c].arg.uuid # NoQuery
             => found'[c].uuid = job[c].arg.uuid \/ kept[c].shared
          /\ Leaves(c, "list") /\ job[c].op = "delete" =>
               \A i \in DOMAIN todo'[c] :
                  \/ NoQuery \in {job[c].args[i].uuid, todo'[c][i]}
                  \/ todo'[c][i] = job[c].args[i].uuid
                  \/ kept[c].shared
          /\ Leaves(c, "put") =>
               \A u \in Listed : \A a \in Attributes :
                  queries'[u][a] # queries[u][a] =>
                     /\ u = found[c].uuid
                     /\ \/ a \in found[c].stale
                        \/ a = IF job[c].op = "rename" THEN "name" ELSE job[c].attr
      ]_<<queryVars, clientVars>>
    BY <1>1
<1>3. QED
    BY <1>2, SqInvariance, PTL DEF SavedQuerySpec, SavedQueryOnlyMeant

\* What is sent has a name of its own, or one that somebody got since it was
\* checked, or its old name, which somebody has taken since.
LEMMA SqSendsUnique ==
    ASSUME SqInv, NEW c \in Clients,
           \/ pc[c] = "put" /\ SavedQueryPut(c)
           \/ pc[c] = "create" /\ SavedQueryCreate(c)
           \/ SavedQueryFail(c),
           NEW u \in In(queries'), NEW v \in In(queries'), u # v,
           queries'[u].name = queries'[v].name,
           u \notin Listed \/ queries[u].name # queries'[u].name
    PROVE  v \in named_since[c] \/ "name" \in found[c].stale
<1>1. SqShape
    BY DEF SqInv
<1>2. SqClientOK(pc[c], job[c], kept[c], found[c], named_since[c], queries)
    BY DEF SqInv
<1>3. queries' # queries
    BY DEF Listed
<1>4. ~SavedQueryFail(c) /\ ~NotFound(c)
    BY <1>3 DEF SavedQueryFail, NotFound
<1>5. PICK w \in Uuids : /\ Sends(c, w)
                         /\ \/ pc[c] = "put" /\ w = found[c].uuid /\ w \in Listed
                            \/ pc[c] = "create"
    BY <1>4 DEF SavedQueryPut, SavedQueryCreate, Listed, In
<1>6. queries' = [queries EXCEPT ![w] = found[c].query]
    BY <1>5 DEF Sends
<1>7. \A x \in Uuids \ {w} : queries'[x] = queries[x]
    BY <1>1, <1>6 DEF SqShape
<1>8. u \in Uuids /\ v \in Uuids
    BY DEF In
<1>9. u = w
    BY <1>7, <1>8 DEF Listed, In
<1>10. v \in In(queries) /\ queries[v].name = found[c].query.name
    <2>1. queries'[u] = found[c].query
        BY <1>1, <1>5, <1>6, <1>9 DEF SqShape
    <2>2. queries'[v] = queries[v]
        BY <1>7, <1>8, <1>9
    <2>3. QED
        BY <1>8, <2>1, <2>2 DEF In
<1>11. CASE pc[c] = "create" \/ job[c].op = "rename"
    <2>1. NamedNoted(found[c], named_since[c], queries)
        BY <1>2, <1>5, <1>11 DEF SqClientOK
    <2>2. QED
        BY <1>10, <2>1 DEF NamedNoted
<1>12. CASE pc[c] = "put" /\ job[c].op # "rename"
    <2>1. job[c].op = "update" /\ job[c].attr \in {"body", "folder"}
        BY <1>2, <1>12 DEF SqClientOK
    <2>2. SqCopy(found[c], {job[c].attr}, queries)
        BY <1>2, <1>12 DEF SqClientOK, Own
    <2>3. u = found[c].uuid /\ u \in Listed
        BY <1>5, <1>9, <1>12
    <2>4. queries[u].name # found[c].query.name
        BY <1>1, <1>5, <1>6, <1>9, <2>3 DEF SqShape
    <2>5. QED
        BY <2>1, <2>2, <2>3, <2>4 DEF SqCopy, Listed, Attributes
<1>13. QED
    BY <1>5, <1>11, <1>12

\* Two saved queries get the same name only if the other one got it after this
\* call had checked it, or if an update wrote an old name back.
THEOREM SavedQueryNamesAreUnique == SavedQuerySpec => SavedQueryNamesUnique
<1>1. ASSUME SqInv, [SavedQueryNext]_<<queryVars, clientVars>>, NEW c \in Clients,
             Leaves(c, "put") \/ Leaves(c, "create"),
             NEW u \in In(queries'), NEW v \in In(queries'), u # v,
             queries'[u].name = queries'[v].name,
             u \notin Listed \/ queries[u].name # queries'[u].name
      PROVE  v \in named_since[c] \/ "name" \in found[c].stale
    <2>1. pc[c] \in {"put", "create"} /\ pc'[c] # pc[c]
        BY <1>1 DEF Leaves
    <2>2. \/ pc[c] = "put" /\ SavedQueryPut(c)
          \/ pc[c] = "create" /\ SavedQueryCreate(c)
          \/ SavedQueryFail(c)
        BY <1>1, <2>1, SqMovesItself DEF SavedQueryList, SavedQueryRows,
           SavedQueryNames, SavedQueryPut, SavedQueryCreate, SavedQueryDelete,
           SavedQueryReadBack
    <2>3. QED
        BY <1>1, <2>2, SqSendsUnique
<1>2. SqInv /\ [SavedQueryNext]_<<queryVars, clientVars>> =>
    [ \A c \in Clients : Leaves(c, "put") \/ Leaves(c, "create") =>
          \A u, v \in In(queries') :
             /\ u # v /\ queries'[u].name = queries'[v].name
             /\ u \notin Listed \/ queries[u].name # queries'[u].name
             => v \in named_since[c] \/ "name" \in found[c].stale
      ]_<<queryVars, clientVars>>
    BY <1>1
<1>3. QED
    BY <1>2, SqInvariance, PTL DEF SavedQuerySpec, SavedQueryNamesUnique

\* Leaving a query's rows out leaves rows.
LEMMA RowsButTyped ==
    ASSUME NEW S, NEW s \in Seq(S), NEW u
    PROVE  RowsBut(s, u) \in Seq(S)
<1> DEFINE L == Len(s)
           step == [n \in 1..L |-> [t \in Seq(S) |-> IF s[n] = u THEN t ELSE Append(t, s[n])]]
           All(g) == [n \in 0..L |-> IF n = 0 THEN <<>>
                                     ELSE IF s[n] = u THEN g[n - 1] ELSE Append(g[n - 1], s[n])]
<1>1. L \in Nat /\ \A n \in 1..L : s[n] \in S
    BY LenProperties, ElementOfSeq
<1>2. step \in [1..L -> [Seq(S) -> Seq(S)]]
  <2>1. \A n \in 1..L : \A t \in Seq(S) :
           (IF s[n] = u THEN t ELSE Append(t, s[n])) \in Seq(S)
      BY <1>1, AppendProperties
  <2>2. QED
      BY <2>1
<1>3. PICK g : Takes(Seq(S), <<>>, L, step, g)
  <2> HIDE DEF step
  <2>1. <<>> \in Seq(S)
      BY EmptySeq
  <2>2. QED
      BY <1>1, <1>2, <2>1, StepsTaken
<1>4. /\ g \in [0..L -> Seq(S)] /\ g[0] = <<>>
      /\ \A n \in 1..L : g[n] = IF s[n] = u THEN g[n - 1] ELSE Append(g[n - 1], s[n])
  <2>1. /\ g \in [0..L -> Seq(S)] /\ g[0] = <<>>
        /\ \A n \in 1..L : g[n] = step[n][g[n - 1]]
      BY <1>3 DEF Takes
  <2>2. \A n \in 1..L : g[n - 1] \in Seq(S)
      BY <1>1, <2>1
  <2>3. QED
      BY <2>1, <2>2
<1>5. g = All(g)
  <2>1. \A n \in 0..L : n = 0 \/ n \in 1..L
      BY <1>1
  <2>2. \A n \in 0..L : g[n] = IF n = 0 THEN <<>>
                               ELSE IF s[n] = u THEN g[n - 1] ELSE Append(g[n - 1], s[n])
      BY <1>1, <1>4, <2>1
  <2>3. g = [n \in 0..L |-> g[n]]
      BY <1>4
  <2>4. QED
      BY <2>2, <2>3
<1> DEFINE but == CHOOSE h : h = All(h)
<1>6. but = All(but)
    BY <1>5
<1>7. RowsBut(s, u) = but[L]
    BY DEF RowsBut
<1> HIDE DEF but
<1>8. \A n \in 0..L : but[n] = g[n]
  <2>1. \A n \in 1..L : but[n] = IF s[n] = u THEN but[n - 1] ELSE Append(but[n - 1], s[n])
    <3>1. TAKE n \in 1..L
    <3>2. n \in 0..L /\ n # 0
        BY <1>1
    <3>3. but[n] = All(but)[n]
        BY <1>6
    <3>4. QED
        BY <3>2, <3>3
  <2>2. \A n \in 1..L : but[n - 1] = g[n - 1] => but[n] = g[n]
      BY <1>4, <2>1
  <2>3. but[0] = g[0]
      BY <1>1, <1>4, <1>6
  <2> HIDE DEF L
  <2>4. QED
      BY <1>1, <2>2, <2>3, StepsAlike
<1>9. but[L] = g[L] /\ g[L] \in Seq(S)
  <2> HIDE DEF L
  <2>1. L \in 0..L
      BY <1>1
  <2>2. QED
      BY <1>4, <1>8, <2>1
<1>10. QED
    BY <1>7, <1>9

\* What a call of delete() still has to delete are queries, or what it did not
\* find; what was named since a check are queries.
SqLeft ==
    /\ todo \in [Clients -> Seq(Uuids \cup {NoQuery})]
    /\ named_since \in [Clients -> SUBSET Uuids]

\* The rows of a delete() are a sequence.
ListsRows(p, j) == p = "list" /\ j.op = "delete" => \E n \in Nat : DOMAIN j.args = 1..n

SqListsRows == \A c \in Clients : ListsRows(pc[c], job[c])

SqLeftInv == SqLeft /\ SqListsRows

\* A step that lists no rows and leaves what is left.
LEMMA SqLeftQuiet ==
    ASSUME SqShape, SqLeftInv, NEW c \in Clients, SqElsewhere(c), pc'[c] # "list", SqLeft'
    PROVE  SqLeftInv'
<1>1. \A d \in Clients : ListsRows(pc'[d], job'[d])
    BY DEF SqLeftInv, SqListsRows, ListsRows, SqElsewhere
<1>2. QED
    BY <1>1 DEF SqLeftInv, SqListsRows

\* What was named since is a set of queries still.
LEMMA SqNamedTyped ==
    ASSUME SqLeft, NEW c \in Clients, NEW u \in Uuids, NEW qs, NamedSince(c, u, qs)
    PROVE  named_since' \in [Clients -> SUBSET Uuids]
BY DEF SqLeft, NamedSince

LEMMA SqForgetsLeft ==
    ASSUME SqLeft, NEW c \in Clients, Forgets(c)
    PROVE  SqLeft'
<1>1. <<>> \in Seq(Uuids \cup {NoQuery})
    BY EmptySeq
<1>2. QED
    BY <1>1 DEF SqLeft, Forgets

\* Calls.
LEMMA SqDeletesListed ==
    ASSUME NEW c \in Clients, NEW j \in Deletes(c)
    PROVE  \E n \in Nat : DOMAIN j.args = 1..n
<1>1. CASE j \in { [op |-> "delete", args |-> <<a>>, errors |-> TRUE] : a \in ArgumentsOf(c) }
    <2>1. DOMAIN j.args = 1..1
        BY <1>1
    <2>2. QED
        BY <2>1
<1>2. CASE j \in { [op |-> "delete", args |-> <<Str(n), a>>, errors |-> errors] :
                     n \in StrArgs, a \in ArgumentsOf(c) \ { Str(m) : m \in Names },
                     errors \in BOOLEAN }
    <2>1. PICK x, y : j.args = <<x, y>>
        BY <1>2
    <2>2. DOMAIN j.args = 1..2
        BY <2>1
    <2>3. QED
        BY <2>2
<1>3. QED
    BY <1>1, <1>2 DEF Deletes

LEMMA SqCallLeft ==
    ASSUME SqInv, SqLeftInv, NEW c \in Clients, SavedQueryCall(c)
    PROVE  SqLeftInv'
<1>1. PICK j \in Deletes(c) \cup UNION { CallsWith(a) : a \in ArgumentsOf(c) } :
          Begin(c, j, "list")
    BY DEF SavedQueryCall
<1>2. SqShape /\ SqElsewhere(c) /\ pc'[c] = "list" /\ job'[c] = j
    BY <1>1, SqMoves DEF SqInv
<1>3. ListsRows("list", j)
    <2>1. CASE j \in Deletes(c)
        BY <2>1, SqDeletesListed DEF ListsRows
    <2>2. CASE j \in UNION { CallsWith(a) : a \in ArgumentsOf(c) }
        <3>1. j.op # "delete"
            BY <2>2 DEF CallsWith
        <3>2. QED
            BY <3>1 DEF ListsRows
    <2>3. QED
        BY <2>1, <2>2
<1>4. \A d \in Clients : ListsRows(pc'[d], job'[d])
    BY <1>2, <1>3 DEF SqLeftInv, SqListsRows, SqElsewhere
<1>5. SqLeft'
    BY DEF SavedQueryCall, queryVars, SqLeftInv, SqLeft
<1>6. QED
    BY <1>4, <1>5 DEF SqLeftInv, SqListsRows

LEMMA SqBeginsLeft ==
    ASSUME SqInv, SqLeftInv, NEW c \in Clients,
           SavedQueryAdd(c) \/ SavedQueryObjectUpdate(c) \/ SavedQueryObject(c)
    PROVE  SqLeftInv'
<1>1. \E j : \E to \in {"names", "put", "delete"} : Begin(c, j, to)
    <2>1. CASE SavedQueryAdd(c)
        <3>1. PICK n : Begin(c, [op |-> "add", name |-> n], "names")
            BY <2>1 DEF SavedQueryAdd
        <3>2. QED
            BY <3>1
    <2>2. CASE SavedQueryObjectUpdate(c)
        <3>1. PICK attr : Begin(c, [op |-> "update", arg |-> AtHand(c), attr |-> attr], "put")
            BY <2>2 DEF SavedQueryObjectUpdate
        <3>2. QED
            BY <3>1
    <2>3. CASE SavedQueryObject(c)
        <3>1. CASE \E n : Begin(c, [op |-> "copy", arg |-> AtHand(c), name |-> n], "names")
            BY <3>1
        <3>2. CASE Begin(c, [op |-> "delete", args |-> <<AtHand(c)>>, errors |-> TRUE], "delete")
            BY <3>2
        <3>3. QED
            BY <2>3, <3>1, <3>2 DEF SavedQueryObject
    <2>4. QED
        BY <2>1, <2>2, <2>3
<1>2. SqShape /\ SqElsewhere(c) /\ pc'[c] # "list"
    BY <1>1, SqMoves DEF SqInv
<1>3. SqLeft'
    <2>1. CASE UNCHANGED <<todo, named_since>>
        BY <2>1 DEF SqLeftInv, SqLeft
    <2>2. CASE /\ kept[c] # NoQuery
               /\ todo' = [todo EXCEPT ![c] = <<kept[c].uuid>>] /\ UNCHANGED named_since
        <3>1. kept[c].uuid \in Uuids
            BY <2>2 DEF SqInv, SqClientOK, SqCopy
        <3>2. <<kept[c].uuid>> \in Seq(Uuids \cup {NoQuery})
            BY <3>1
        <3>3. QED
            BY <2>2, <3>2 DEF SqLeftInv, SqLeft
    <2>3. QED
        BY <2>1, <2>2 DEF SavedQueryAdd, SavedQueryObjectUpdate, SavedQueryObject
<1>4. QED
    BY <1>2, <1>3, SqLeftQuiet

\* Requests.
LEMMA SqReadsLeft ==
    ASSUME SqInv, SqLeftInv, NEW c \in Clients,
           SavedQueryList(c) \/ SavedQueryNames(c) \/ SavedQueryReadBack(c) \/ SavedQueryFail(c)
    PROVE  SqLeftInv'
<1>1. (\E to : to # "list" /\ Go(c, to)) \/ (\E how : End(c, how))
    BY DEF SavedQueryList, SavedQueryNames, SavedQueryReadBack, SavedQueryFail, NotFound
<1>2. SqShape /\ SqElsewhere(c) /\ pc'[c] # "list"
    BY <1>1, SqMoves DEF SqInv
<1>3. SqLeft'
    <2>1. CASE UNCHANGED <<todo, named_since>>
        BY <2>1 DEF SqLeftInv, SqLeft
    <2>2. CASE Forgets(c)
        BY <2>2, SqForgetsLeft DEF SqLeftInv
    <2>3. CASE named_since' = [named_since EXCEPT ![c] = {}] /\ UNCHANGED todo
        BY <2>3 DEF SqLeftInv, SqLeft
    <2>4. QED
        BY <2>1, <2>2, <2>3
        DEF SavedQueryList, SavedQueryNames, SavedQueryReadBack, SavedQueryFail, NotFound
<1>4. QED
    BY <1>2, <1>3, SqLeftQuiet

LEMMA SqRowsLeft ==
    ASSUME SqInv, SqLeftInv, NEW c \in Clients, SavedQueryRows(c)
    PROVE  SqLeftInv'
<1>1. SqShape /\ SqElsewhere(c) /\ pc'[c] # "list"
    BY SqMoves DEF SqInv, SavedQueryRows
<1>2. PICK n \in Nat : DOMAIN job[c].args = 1..n
    BY DEF SavedQueryRows, SqLeftInv, SqListsRows, ListsRows
<1>3. PICK us \in [DOMAIN job[c].args -> Uuids \cup {NoQuery}] :
          todo' = [todo EXCEPT ![c] = us]
    BY DEF SavedQueryRows
<1>4. us \in Seq(Uuids \cup {NoQuery})
    BY <1>2, <1>3
<1>5. SqLeft'
    BY <1>3, <1>4 DEF SavedQueryRows, SqLeftInv, SqLeft
<1>6. QED
    BY <1>1, <1>5, SqLeftQuiet

LEMMA SqSendsLeft ==
    ASSUME SqInv, SqLeftInv, NEW c \in Clients, SavedQueryPut(c) \/ SavedQueryCreate(c)
    PROVE  SqLeftInv'
<1>1. CASE NotFound(c)
    <2>1. SqShape /\ SqElsewhere(c) /\ pc'[c] # "list"
        BY <1>1, SqMoves DEF SqInv, NotFound
    <2>2. SqLeft'
        BY <1>1, SqForgetsLeft DEF SqLeftInv, NotFound
    <2>3. QED
        BY <2>1, <2>2, SqLeftQuiet
<1>2. CASE \E u \in Uuids : Sends(c, u)
    <2>1. PICK u \in Uuids : Sends(c, u)
        BY <1>2
    <2>2. (\E to : to # "list" /\ Go(c, to)) \/ (\E how : End(c, how))
        BY <2>1 DEF Sends
    <2>3. SqShape /\ SqElsewhere(c) /\ pc'[c] # "list"
        BY <2>2, SqMoves DEF SqInv
    <2>4. SqLeft'
        BY <2>1, SqNamedTyped DEF Sends, SqLeftInv, SqLeft
    <2>5. QED
        BY <2>3, <2>4, SqLeftQuiet
<1>3. QED
    BY <1>1, <1>2 DEF SavedQueryPut, SavedQueryCreate, Listed, In

LEMMA SqDeleteLeft ==
    ASSUME SqInv, SqLeftInv, NEW c \in Clients, SavedQueryDelete(c)
    PROVE  SqLeftInv'
<1>1. (\E to : to # "list" /\ Go(c, to)) \/ (\E how : End(c, how))
    BY DEF SavedQueryDelete, NotFound
<1>2. SqShape /\ SqElsewhere(c) /\ pc'[c] # "list"
    BY <1>1, SqMoves DEF SqInv
<1> DEFINE rest == Tail(todo[c])
           Left == Seq(Uuids \cup {NoQuery})
<1>3. CASE UNCHANGED <<todo, named_since>>
    BY <1>2, <1>3, SqLeftQuiet DEF SqLeftInv, SqLeft
<1>4. CASE Forgets(c)
    BY <1>2, <1>4, SqForgetsLeft, SqLeftQuiet DEF SqLeftInv
<1>5. CASE /\ todo[c] # <<>> /\ UNCHANGED named_since
           /\ \/ todo' = [todo EXCEPT ![c] = rest]
              \/ \E u : todo' = [todo EXCEPT ![c] = RowsBut(rest, u)]
    <2>1. todo[c] \in Left
        BY DEF SqLeftInv, SqLeft
    <2>2. rest \in Left
        BY <1>5, <2>1, HeadTailProperties
    <2> HIDE DEF rest
    <2>3. \A u : RowsBut(rest, u) \in Left
        BY <2>2, RowsButTyped
    <2>4. todo' \in [Clients -> Left]
        BY <1>5, <2>2, <2>3 DEF SqLeftInv, SqLeft
    <2>5. QED
        BY <1>2, <1>5, <2>4, SqLeftQuiet DEF SqLeftInv, SqLeft
<1>6. QED
    BY <1>3, <1>4, <1>5 DEF SavedQueryDelete, NotFound, queryVars

LEMMA SqLeftNext ==
    ASSUME SqInv, SqLeftInv, [SavedQueryNext]_<<queryVars, clientVars>>
    PROVE  SqLeftInv'
<1>1. CASE UNCHANGED <<queryVars, clientVars>>
    BY <1>1 DEF queryVars, clientVars, SqLeftInv, SqLeft, SqListsRows
<1>2. QED
    BY <1>1, SqCallLeft, SqBeginsLeft, SqReadsLeft, SqRowsLeft, SqSendsLeft, SqDeleteLeft
    DEF SavedQueryNext

LEMMA SqLeftInit ==
    ASSUME ClientInit, SavedQueryInit
    PROVE  SqLeftInv
<1>1. <<>> \in Seq(Uuids \cup {NoQuery})
    BY EmptySeq
<1>2. QED
    BY <1>1 DEF ClientInit, SavedQueryInit, SqLeftInv, SqLeft, SqListsRows, ListsRows

\* The invariants together give every variable its type.
LEMMA SqTyped == SqInv /\ SqLeftInv => SavedQueryTypeOK
<1> SUFFICES ASSUME SqInv, SqLeftInv PROVE SavedQueryTypeOK
    OBVIOUS
<1>1. ASSUME NEW c \in Clients
      PROVE  /\ {kept[c], found[c]} \subseteq Found \cup {NoQuery}
             /\ pc[c] \in {"idle", "list", "names", "put", "create", "delete", "back"}
    BY DEF SqInv, SqClientOK, SqCopy, AtRest, AtWork
<1>2. ASSUME NEW c \in Clients, NEW i \in DOMAIN todo[c]
      PROVE  todo[c][i] \in Uuids \cup {NoQuery}
    BY DEF SqLeftInv, SqLeft
<1>3. QED
    BY <1>1, <1>2 DEF SavedQueryTypeOK, SqInv, SqShape, SqLeftInv, SqLeft

LEMMA SqLeftInvariance == SavedQuerySpec => [](SqInv /\ SqLeftInv)
<1>1. ClientInit /\ SavedQueryInit => SqLeftInv
    BY SqLeftInit
<1>2. SqInv /\ SqLeftInv /\ [SavedQueryNext]_<<queryVars, clientVars>> => SqLeftInv'
    BY SqLeftNext
<1>3. QED
    BY <1>1, <1>2, SqInvariance, PTL DEF SavedQuerySpec

\* Every variable of the saved queries keeps its type: the server's queries, the
\* copies that programs and calls have of them, and the rows delete() has left.
THEOREM SavedQueryTypeCorrect == SavedQuerySpec => []SavedQueryTypeOK
<1>1. QED
    BY SqLeftInvariance, SqTyped, PTL

-----------------------------------------------------------------------------
(* Folders.  Trees: what is above a folder.                                *)

\* Every folder is in the root or in a folder that is there.
ParentsListed(t) == \A f \in FoldersIn(t) : t[f].parent \in FoldersIn(t) \cup {Root}

\* There are no more levels than folders.
Height == Cardinality(FolderIds)

\* One level further up.
OneUp(t, below) == below \cup { t[g].parent : g \in below \ {Root} }

\* up[n] is what is above f, n levels up.
GoesUp(t, f, up) ==
    /\ up \in [0..Height -> SUBSET (FoldersIn(t) \cup {Root})]
    /\ up[0] = {f}
    /\ \A n \in 1..Height : up[n] = OneUp(t, up[n - 1])
    /\ FolderAbove(t, f) = up[Height]

LEMMA AboveIterates ==
    ASSUME NEW t, ParentsListed(t), NEW f \in FoldersIn(t) \cup {Root}
    PROVE  /\ Height \in Nat
           /\ \E up : GoesUp(t, f, up)
<1> DEFINE U == FoldersIn(t) \cup {Root}
           D == SUBSET U
           first == {f}
           step == [n \in 1..Height |-> [below \in D |-> OneUp(t, below)]]
           Up(g) == [n \in 0..Height |-> IF n = 0 THEN {f} ELSE OneUp(t, g[n - 1])]
<1>1. Height \in Nat
    BY FolderAssumption, FS_CardinalityType DEF Height
<1>2. \A below \in D : OneUp(t, below) \in D
    BY DEF ParentsListed, OneUp
<1>3. step \in [1..Height -> [D -> D]]
    BY <1>2
<1>4. first \in D
    OBVIOUS
<1>5. PICK g \in [0..Height -> D] : g[0] = first /\ \A n \in 1..Height : g[n] = step[n][g[n - 1]]
  <2> HIDE DEF step, D, first
  <2>1. \E g : Takes(D, first, Height, step, g)
      BY <1>1, <1>3, <1>4, StepsTaken
  <2>2. QED
      BY <2>1 DEF Takes
<1>6. \A n \in 1..Height : g[n] = OneUp(t, g[n - 1])
  <2>1. TAKE n \in 1..Height
  <2>2. n - 1 \in 0..Height
      BY <1>1
  <2>3. QED
      BY <1>5, <2>2
<1>7. g = Up(g)
  <2>1. ASSUME NEW n \in 0..Height PROVE g[n] = Up(g)[n]
    <3>1. CASE n = 0
        BY <1>5, <3>1
    <3>2. CASE n # 0
      <4>1. n \in 1..Height
          BY <1>1, <3>2
      <4>2. QED
          BY <1>6, <4>1, <3>2
    <3>3. QED
        BY <3>1, <3>2
  <2>2. QED
      BY <1>5, <2>1
<1> DEFINE up == CHOOSE h : h = Up(h)
<1>8. up = Up(up)
    BY <1>7
<1>9. FolderAbove(t, f) = up[Height]
    BY DEF FolderAbove, OneUp, Height
<1>10. up = g
  <2>1. up[0] = g[0]
    <3>1. 0 \in 0..Height
        BY <1>1
    <3>2. Up(up)[0] = first
        BY <3>1
    <3>3. QED
        BY <1>5, <1>8, <3>2
  <2>2. ASSUME NEW n \in 1..Height, up[n - 1] = g[n - 1]
        PROVE  up[n] = g[n]
    <3>1. n \in 0..Height /\ n # 0
        BY <1>1
    <3>2. up[n] = OneUp(t, up[n - 1])
        BY <1>8, <3>1
    <3>3. QED
        BY <1>6, <2>2, <3>2
  <2>3. \A n \in 0..Height : up[n] = g[n]
    <3> HIDE DEF up
    <3>1. QED
        BY <1>1, <2>1, <2>2, StepsAlike
  <2>4. DOMAIN up = 0..Height /\ up = [n \in 0..Height |-> up[n]]
      BY <1>8
  <2>5. QED
      BY <2>3, <2>4
<1>11. QED
    BY <1>1, <1>5, <1>6, <1>9, <1>10 DEF GoesUp

\* f is above itself, and so is the parent of what is above f: each step
\* takes in at least one more folder until no more is above.
LEMMA AboveProperties ==
    ASSUME NEW t, ParentsListed(t), NEW f \in FoldersIn(t) \cup {Root}
    PROVE  /\ f \in FolderAbove(t, f)
           /\ FolderAbove(t, f) \subseteq FoldersIn(t) \cup {Root}
           /\ \A g \in FolderAbove(t, f) \ {Root} : t[g].parent \in FolderAbove(t, f)
<1> DEFINE U == FoldersIn(t) \cup {Root}
<1>0. PICK up : GoesUp(t, f, up)
    BY AboveIterates
<1>1. /\ up \in [0..Height -> SUBSET U]
      /\ up[0] = {f}
      /\ \A n \in 1..Height : up[n] = OneUp(t, up[n - 1])
      /\ FolderAbove(t, f) = up[Height]
    BY <1>0 DEF GoesUp
<1>2. Height \in Nat /\ IsFiniteSet(U) /\ Cardinality(U) <= Height + 1
  <2>1. FoldersIn(t) \in SUBSET FolderIds /\ Root \notin FoldersIn(t)
      BY FolderAssumption DEF FoldersIn
  <2>2. IsFiniteSet(FoldersIn(t)) /\ Cardinality(FoldersIn(t)) <= Height
      BY <2>1, FolderAssumption, FS_Subset DEF Height
  <2>3. /\ IsFiniteSet(U)
        /\ Cardinality(U) = Cardinality(FoldersIn(t)) + 1
      BY <2>1, <2>2, FS_AddElement
  <2>4. Height \in Nat /\ Cardinality(FoldersIn(t)) \in Nat
      BY <2>2, FolderAssumption, FS_CardinalityType DEF Height
  <2>5. QED
      BY <2>2, <2>3, <2>4
<1> DEFINE Whole(S) == \A g \in S \ {Root} : t[g].parent \in S
           S == {n \in Nat : n <= Height =>
                   f \in up[n] /\ (Whole(up[n]) \/ Cardinality(up[n]) >= n + 1)}
<1>3. \A n \in 0..Height : IsFiniteSet(up[n]) /\ Cardinality(up[n]) \in Nat
    BY <1>1, <1>2, FS_Subset, FS_CardinalityType
<1>4. 0 \in S
  <2>1. Cardinality(up[0]) >= 0 + 1 /\ f \in up[0]
    <3>1. Cardinality({f}) = 1
        BY FS_Singleton
    <3>2. QED
        BY <1>1, <3>1
  <2>2. QED
      BY <2>1
<1>5. ASSUME NEW n \in Nat, n \in S
      PROVE  n + 1 \in S
  <2>1. SUFFICES ASSUME n + 1 <= Height
                 PROVE  /\ f \in up[n + 1]
                        /\ Whole(up[n + 1]) \/ Cardinality(up[n + 1]) >= n + 2
      OBVIOUS
  <2>2. n + 1 \in 1..Height /\ n \in 0..Height /\ (n + 1) - 1 = n /\ n + 1 \in 0..Height
      BY <1>2, <2>1
  <2>3. up[n + 1] = OneUp(t, up[n])
      BY <1>1, <2>2
  <2>4. f \in up[n] /\ (Whole(up[n]) \/ Cardinality(up[n]) >= n + 1)
    <3>1. n <= Height
        BY <1>2, <2>1
    <3>2. QED
        BY <1>5, <3>1
  <2>5. f \in up[n + 1]
      BY <2>3, <2>4 DEF OneUp
  <2>6. CASE Whole(up[n])
    <3>1. up[n + 1] = up[n]
        BY <2>3, <2>6 DEF OneUp
    <3>2. QED
        BY <2>5, <2>6, <3>1
  <2>7. CASE ~Whole(up[n])
    <3>1. PICK g \in up[n] \ {Root} : t[g].parent \notin up[n]
        BY <2>7
    <3>2. up[n] \cup {t[g].parent} \subseteq up[n + 1]
        BY <2>3, <3>1 DEF OneUp
    <3>3. Cardinality(up[n] \cup {t[g].parent}) = Cardinality(up[n]) + 1
        BY <1>3, <2>2, <3>1, FS_AddElement
    <3>4. Cardinality(up[n] \cup {t[g].parent}) <= Cardinality(up[n + 1])
        BY <1>3, <2>2, <3>2, FS_Subset
    <3>5. QED
        BY <1>3, <2>2, <2>4, <2>5, <2>7, <3>3, <3>4
  <2>8. QED
      BY <2>6, <2>7
<1>6. Height \in S
  <2> HIDE DEF S
  <2>1. Nat \subseteq S
      BY <1>4, <1>5, SetInduction
  <2>2. QED
      BY <1>2, <2>1
<1>7. f \in up[Height] /\ up[Height] \subseteq U
    BY <1>1, <1>2, <1>6
<1>8. Whole(up[Height])
  <2>1. CASE Cardinality(up[Height]) >= Height + 1
    <3>1. Cardinality(up[Height]) <= Cardinality(U) /\ Cardinality(U) \in Nat
        BY <1>2, <1>7, FS_Subset, FS_CardinalityType
    <3>2. Cardinality(up[Height]) = Cardinality(U)
        BY <1>2, <1>3, <2>1, <3>1
    <3>3. up[Height] = U
        BY <1>2, <1>7, <3>2, FS_Subset
    <3>4. QED
        BY <3>3 DEF ParentsListed
  <2>2. QED
      BY <1>2, <1>6, <2>1
<1>9. QED
    BY <1>1, <1>7, <1>8

\* What holds f, and with a folder its parent, holds all that is above f.
LEMMA AboveLeast ==
    ASSUME NEW t, ParentsListed(t), NEW f \in FoldersIn(t) \cup {Root},
           NEW S, f \in S,
           \A g \in (S \cap FolderAbove(t, f)) \ {Root} : t[g].parent \in S
    PROVE  FolderAbove(t, f) \subseteq S
<1> DEFINE A == S \cap FolderAbove(t, f)
<1>0. PICK up : GoesUp(t, f, up)
    BY AboveIterates
<1>1. /\ Height \in Nat
      /\ up[0] = {f}
      /\ \A n \in 1..Height : up[n] = OneUp(t, up[n - 1])
      /\ FolderAbove(t, f) = up[Height]
    BY <1>0, AboveIterates DEF GoesUp
<1>2. f \in A /\ \A g \in A \ {Root} : t[g].parent \in A
    BY AboveProperties
<1> DEFINE T == {n \in Nat : n <= Height => up[n] \subseteq A}
<1> HIDE DEF A
<1>3. 0 \in T
    BY <1>1, <1>2
<1>4. ASSUME NEW n \in Nat, n \in T
      PROVE  n + 1 \in T
  <2>1. SUFFICES ASSUME n + 1 <= Height
                 PROVE  up[n + 1] \subseteq A
      OBVIOUS
  <2>2. n + 1 \in 1..Height /\ n <= Height /\ (n + 1) - 1 = n
      BY <1>1, <2>1
  <2>3. up[n + 1] = OneUp(t, up[n]) /\ up[n] \subseteq A
      BY <1>1, <1>4, <2>2
  <2>4. QED
      BY <1>2, <2>3 DEF OneUp
<1>5. Nat \subseteq T
  <2> HIDE DEF T
  <2>1. QED
      BY <1>3, <1>4, SetInduction
<1>6. Height \in T
    BY <1>1, <1>5
<1>7. QED
    BY <1>1, <1>6 DEF A

\* What is above a folder above f is above f.
LEMMA AboveOfAbove ==
    ASSUME NEW t, ParentsListed(t), NEW f \in FoldersIn(t) \cup {Root},
           NEW g \in FolderAbove(t, f)
    PROVE  FolderAbove(t, g) \subseteq FolderAbove(t, f)
<1>1. /\ g \in FoldersIn(t) \cup {Root}
      /\ \A h \in FolderAbove(t, f) \ {Root} : t[h].parent \in FolderAbove(t, f)
    BY AboveProperties
<1>2. QED
    BY <1>1, AboveLeast

\* Above a folder are the folder and what is above its parent.
LEMMA AboveStep ==
    ASSUME NEW t, ParentsListed(t), NEW f \in FoldersIn(t)
    PROVE  FolderAbove(t, f) = {f} \cup FolderAbove(t, t[f].parent)
<1> DEFINE p == t[f].parent
           A == {f} \cup FolderAbove(t, p)
<1>1. p \in FoldersIn(t) \cup {Root} /\ f # Root
    BY FolderAssumption DEF ParentsListed, FoldersIn
<1>2. FolderAbove(t, f) \subseteq A
  <2>1. /\ p \in FolderAbove(t, p)
        /\ \A h \in FolderAbove(t, p) \ {Root} : t[h].parent \in FolderAbove(t, p)
      BY <1>1, AboveProperties
  <2>2. f \in A /\ \A h \in (A \cap FolderAbove(t, f)) \ {Root} : t[h].parent \in A
      BY <2>1
  <2> HIDE DEF A
  <2>3. QED
      BY <2>2, AboveLeast
<1>3. f \in FolderAbove(t, f) /\ p \in FolderAbove(t, f)
    BY <1>1, AboveProperties
<1>4. FolderAbove(t, p) \subseteq FolderAbove(t, f)
    BY <1>3, AboveOfAbove
<1>5. QED
    BY <1>2, <1>3, <1>4

\* Trees that agree on what is above f in the one have the same above f.
LEMMA AboveAlike ==
    ASSUME NEW t, ParentsListed(t), NEW u, ParentsListed(u),
           NEW f \in FoldersIn(t) \cup {Root},
           \A g \in FolderAbove(t, f) \ {Root} : g \in FoldersIn(u) /\ u[g].parent = t[g].parent
    PROVE  FolderAbove(u, f) = FolderAbove(t, f)
<1>1. /\ f \in FolderAbove(t, f)
      /\ \A g \in FolderAbove(t, f) \ {Root} : t[g].parent \in FolderAbove(t, f)
    BY AboveProperties
<1>2. f \in FoldersIn(u) \cup {Root}
    BY <1>1
<1>3. FolderAbove(u, f) \subseteq FolderAbove(t, f)
  <2>1. \A g \in (FolderAbove(t, f) \cap FolderAbove(u, f)) \ {Root} :
           u[g].parent \in FolderAbove(t, f)
      BY <1>1
  <2>2. QED
      BY <1>1, <1>2, <2>1, AboveLeast
<1>4. FolderAbove(t, f) \subseteq FolderAbove(u, f)
  <2>1. /\ f \in FolderAbove(u, f)
        /\ \A g \in FolderAbove(u, f) \ {Root} : u[g].parent \in FolderAbove(u, f)
      BY <1>2, AboveProperties
  <2>2. \A g \in (FolderAbove(u, f) \cap FolderAbove(t, f)) \ {Root} :
           t[g].parent \in FolderAbove(u, f)
      BY <2>1
  <2>3. QED
      BY <2>1, <2>2, AboveLeast
<1>5. QED
    BY <1>3, <1>4

\* All folders hang together with the root.
Rooted(t) == \A f \in FoldersIn(t) : Root \in FolderAbove(t, f)

\* What holds of the root, and of a folder if of its parent, holds of all.
LEMMA TreeInduction ==
    ASSUME NEW t, ParentsListed(t), Rooted(t), NEW S, Root \in S,
           \A g \in FoldersIn(t) : t[g].parent \in S => g \in S
    PROVE  FoldersIn(t) \subseteq S
<1>1. SUFFICES ASSUME NEW f \in FoldersIn(t), f \notin S
               PROVE  FALSE
    OBVIOUS
<1> DEFINE B == (FoldersIn(t) \cup {Root}) \ S
<1>2. \A g \in (B \cap FolderAbove(t, f)) \ {Root} : t[g].parent \in B
    BY DEF ParentsListed
<1>3. f \in B
    BY <1>1
<1>4. FolderAbove(t, f) \subseteq B
  <2> HIDE DEF B
  <2>1. QED
      BY <1>2, <1>3, AboveLeast
<1>5. QED
    BY <1>4 DEF Rooted

-----------------------------------------------------------------------------
(* The tree as it is fetched.                                              *)

Tree(t) ==
    /\ t \in [FolderIds -> Folder \cup {NoFolder, GoneFolder}]
    /\ ParentsListed(t)

LEMMA TreeFolders ==
    ASSUME NEW t, Tree(t)
    PROVE  /\ FoldersIn(t) = { f \in FolderIds : t[f] \in Folder }
           /\ FoldersIn(t) \subseteq FolderIds /\ Root \notin FoldersIn(t)
           /\ \A f \in FoldersIn(t) : /\ t[f].parent \in FoldersIn(t) \cup {Root}
                                      /\ t[f].name \in STRING
BY FolderAssumption DEF Tree, FoldersIn, ParentsListed, Folder

\* A fetch lists the folders that hang together with the root, as they are:
\* with a folder its parent and the folders in it.
LEMMA FetchedProperties ==
    ASSUME Tree(tree)
    PROVE  /\ Tree(FetchedTree) /\ Rooted(FetchedTree)
           /\ FoldersIn(FetchedTree) = FolderUnder(tree, Root)
           /\ \A f \in FoldersIn(FetchedTree) :
                f \in FoldersIn(tree) /\ FetchedTree[f] = tree[f]
           /\ \A f \in FoldersIn(tree) :
                tree[f].parent \in FoldersIn(FetchedTree) \cup {Root} => f \in FoldersIn(FetchedTree)
<1> DEFINE L == FolderUnder(tree, Root)
<1>1. ParentsListed(tree) /\ FoldersIn(tree) \subseteq FolderIds /\ Root \notin FoldersIn(tree)
      /\ \A f \in FoldersIn(tree) : tree[f] \in Folder
    BY TreeFolders DEF Tree
<1>2. \A f : f \in L <=> f \in FoldersIn(tree) /\ Root \in FolderAbove(tree, f)
    BY DEF FolderUnder
<1>3. FetchedTree = [f \in FolderIds |-> IF f \in L THEN tree[f] ELSE NoFolder]
    BY DEF FetchedTree
<1> HIDE DEF L
<1>4. FoldersIn(FetchedTree) = L /\ \A f \in L : FetchedTree[f] = tree[f]
    BY <1>1, <1>2, <1>3, FolderAssumption DEF FoldersIn
<1>5. ASSUME NEW f \in FoldersIn(tree)
      PROVE  f \in L <=> tree[f].parent \in L \cup {Root}
  <2>1. FolderAbove(tree, f) = {f} \cup FolderAbove(tree, tree[f].parent)
      BY <1>1, AboveStep
  <2>2. tree[f].parent \in FoldersIn(tree) \cup {Root}
      BY <1>1 DEF ParentsListed
  <2>3. Root \in FolderAbove(tree, Root)
      BY <1>1, AboveProperties
  <2>4. QED
      BY <1>1, <1>2, <2>1, <2>2, <2>3
<1>6. ParentsListed(FetchedTree)
    BY <1>2, <1>4, <1>5 DEF ParentsListed
<1>7. Tree(FetchedTree)
    BY <1>1, <1>2, <1>3, <1>6 DEF Tree
<1>8. Rooted(FetchedTree)
  <2>1. ASSUME NEW f \in L
        PROVE  Root \in FolderAbove(FetchedTree, f)
    <3>1. f \in FoldersIn(tree) /\ Root \in FolderAbove(tree, f)
        BY <1>2
    <3>2. \A g \in FolderAbove(tree, f) \ {Root} : g \in L
      <4> DEFINE M == L \cup {Root}
      <4>1. f \in M
          OBVIOUS
      <4>2. \A g \in (M \cap FolderAbove(tree, f)) \ {Root} : tree[g].parent \in M
          BY <1>2, <1>5
      <4>3. FolderAbove(tree, f) \subseteq M
        <5> HIDE DEF M
        <5>1. QED
            BY <1>1, <3>1, <4>1, <4>2, AboveLeast
      <4>4. QED
          BY <4>3
    <3>3. FolderAbove(FetchedTree, f) = FolderAbove(tree, f)
        BY <1>1, <1>4, <1>6, <3>1, <3>2, AboveAlike
    <3>4. QED
        BY <3>1, <3>3
  <2>2. QED
      BY <1>4, <2>1 DEF Rooted
<1>9. QED
    BY <1>2, <1>4, <1>5, <1>7, <1>8 DEF L

-----------------------------------------------------------------------------
(* Paths.                                                                  *)

\* p has the paths of the folders of A, which is closed under parents.
HasPaths(t, A, p) ==
    /\ A \subseteq FoldersIn(t) \cup {Root}
    /\ \A g \in A \ {Root} : t[g].parent \in A
    /\ p \in [A -> Seq(STRING)]
    /\ \A g \in A : p[g] = IF g = Root THEN <<>> ELSE Append(p[t[g].parent], t[g].name)

LEMMA PathsAlike ==
    ASSUME NEW t, Tree(t), Rooted(t), NEW A, NEW p, HasPaths(t, A, p),
           NEW B, NEW q, HasPaths(t, B, q)
    PROVE  \A g \in A \cap B : p[g] = q[g]
<1> DEFINE S == {g \in FoldersIn(t) \cup {Root} : g \in A \cap B => p[g] = q[g]}
<1>1. ParentsListed(t) /\ Root \notin FoldersIn(t)
    BY TreeFolders DEF Tree
<1>2. Root \in S
    BY DEF HasPaths
<1>3. ASSUME NEW g \in FoldersIn(t), t[g].parent \in S
      PROVE  g \in S
  <2>1. SUFFICES ASSUME g \in A \cap B
                 PROVE  p[g] = q[g]
      OBVIOUS
  <2>2. g # Root /\ t[g].parent \in A \cap B
      BY <1>1, <2>1 DEF HasPaths
  <2>3. /\ p[g] = Append(p[t[g].parent], t[g].name)
        /\ q[g] = Append(q[t[g].parent], t[g].name)
      BY <2>1, <2>2 DEF HasPaths
  <2>4. QED
      BY <1>3, <2>2, <2>3
<1>4. FoldersIn(t) \subseteq S
  <2> HIDE DEF S
  <2>1. QED
      BY <1>1, <1>2, <1>3, TreeInduction
<1>5. A \subseteq S
    BY <1>2, <1>4 DEF HasPaths
<1>6. QED
    BY <1>5

\* Every folder of a rooted tree has a path.
LEMMA PathsAbove ==
    ASSUME NEW t, Tree(t), Rooted(t), NEW f \in FoldersIn(t) \cup {Root}
    PROVE  \E p : HasPaths(t, FolderAbove(t, f), p)
<1> DEFINE S == {g \in FoldersIn(t) \cup {Root} : \E p : HasPaths(t, FolderAbove(t, g), p)}
<1>1. ParentsListed(t) /\ Root \notin FoldersIn(t)
    BY TreeFolders DEF Tree
<1>2. Root \in S
  <2>1. Root \in FolderAbove(t, Root)
      BY <1>1, AboveProperties
  <2>2. FolderAbove(t, Root) \subseteq {Root}
    <3> DEFINE M == {Root}
    <3>1. Root \in M /\ \A g \in (M \cap FolderAbove(t, Root)) \ {Root} : t[g].parent \in M
        OBVIOUS
    <3>2. FolderAbove(t, Root) \subseteq M
      <4> HIDE DEF M
      <4>1. QED
          BY <1>1, <3>1, AboveLeast
    <3>3. QED
        BY <3>2
  <2>3. HasPaths(t, {Root}, [g \in {Root} |-> <<>>])
      BY DEF HasPaths
  <2>4. FolderAbove(t, Root) = {Root}
      BY <2>1, <2>2
  <2>5. QED
      BY <2>3, <2>4
<1>3. ASSUME NEW g \in FoldersIn(t), t[g].parent \in S
      PROVE  g \in S
  <2> DEFINE A == FolderAbove(t, t[g].parent)
             B == FolderAbove(t, g)
  <2>1. PICK p : HasPaths(t, A, p)
      BY <1>3
  <2>2. /\ B = {g} \cup A /\ t[g].parent \in A
        /\ B \subseteq FoldersIn(t) \cup {Root}
        /\ \A h \in B \ {Root} : t[h].parent \in B
        /\ \A h \in A \ {Root} : t[h].parent \in A
    <3>1. t[g].parent \in FoldersIn(t) \cup {Root}
        BY <1>1 DEF ParentsListed
    <3>2. QED
        BY <1>1, <3>1, AboveStep, AboveProperties
  <2>3. CASE g \in A
      BY <2>1, <2>2, <2>3
  <2>4. CASE g \notin A
    <3> DEFINE q == [h \in B |-> IF h = g THEN Append(p[t[g].parent], t[g].name) ELSE p[h]]
    <3>1. g # Root /\ t[g].name \in STRING /\ p \in [A -> Seq(STRING)]
        BY <1>1, <2>1, TreeFolders DEF HasPaths
    <3>2. q \in [B -> Seq(STRING)]
      <4>1. Append(p[t[g].parent], t[g].name) \in Seq(STRING)
          BY <2>2, <3>1
      <4>2. QED
          BY <2>2, <3>1, <4>1
    <3>3. ASSUME NEW h \in B
          PROVE  q[h] = IF h = Root THEN <<>> ELSE Append(q[t[h].parent], t[h].name)
      <4>1. CASE h = g
          BY <2>2, <2>4, <3>1, <4>1
      <4>2. CASE h # g
        <5>1. h \in A /\ q[h] = p[h]
            BY <2>2, <4>2
        <5>2. p[h] = IF h = Root THEN <<>> ELSE Append(p[t[h].parent], t[h].name)
            BY <2>1, <5>1 DEF HasPaths
        <5>3. h # Root => t[h].parent \in A /\ q[t[h].parent] = p[t[h].parent]
            BY <2>2, <2>4, <5>1
        <5>4. QED
            BY <5>1, <5>2, <5>3
      <4>3. QED
          BY <4>1, <4>2
    <3>4. HasPaths(t, B, q)
      <4> HIDE DEF q, A, B
      <4>1. QED
          BY <2>2, <3>2, <3>3 DEF HasPaths
    <3>5. QED
        BY <3>4
  <2>5. QED
      BY <2>3, <2>4
<1>4. FoldersIn(t) \subseteq S
  <2> HIDE DEF S
  <2>1. QED
      BY <1>1, <1>2, <1>3, TreeInduction
<1>5. f \in S
    BY <1>2, <1>4
<1>6. QED
    BY <1>5

\* The path of a folder is that of its parent, and its name.
LEMMA PathProperties ==
    ASSUME NEW t, Tree(t), Rooted(t)
    PROVE  /\ FolderPath(t, Root) = <<>>
           /\ \A g \in FoldersIn(t) \cup {Root} : FolderPath(t, g) \in Seq(STRING)
           /\ \A g \in FoldersIn(t) :
                FolderPath(t, g) = Append(FolderPath(t, t[g].parent), t[g].name)
<1> DEFINE U == FoldersIn(t) \cup {Root}
           of(g) == CHOOSE p : HasPaths(t, FolderAbove(t, g), p)
           all == [g \in U |-> of(g)[g]]
           Eq(p) == [g \in U |-> IF g = Root THEN <<>> ELSE Append(p[t[g].parent], t[g].name)]
           path == CHOOSE p : p = Eq(p)
<1>1. ParentsListed(t) /\ Root \notin FoldersIn(t)
    BY TreeFolders DEF Tree
<1>2. \A g \in U : HasPaths(t, FolderAbove(t, g), of(g))
    BY PathsAbove
<1>3. ASSUME NEW g \in U
      PROVE  /\ all[g] \in Seq(STRING)
             /\ all[g] = IF g = Root THEN <<>> ELSE Append(all[t[g].parent], t[g].name)
  <2> DEFINE p == of(g)
             A == FolderAbove(t, g)
  <2>1. HasPaths(t, A, p)
      BY <1>2
  <2>2. g \in A
      BY <1>1, AboveProperties
  <2>3. p[g] \in Seq(STRING)
        /\ p[g] = IF g = Root THEN <<>> ELSE Append(p[t[g].parent], t[g].name)
      BY <2>1, <2>2 DEF HasPaths
  <2>4. ASSUME g # Root
        PROVE  all[t[g].parent] = p[t[g].parent]
    <3> DEFINE h == t[g].parent
    <3>1. h \in U /\ h \in A
        BY <2>1, <2>2, <2>4 DEF HasPaths
    <3>2. HasPaths(t, FolderAbove(t, h), of(h)) /\ h \in FolderAbove(t, h)
        BY <1>1, <1>2, <3>1, AboveProperties
    <3>3. of(h)[h] = p[h]
      <4> HIDE DEF of, p, A, h
      <4>1. QED
          BY <2>1, <3>1, <3>2, PathsAlike
    <3>4. QED
        BY <3>1, <3>3
  <2>5. all[g] = p[g]
      OBVIOUS
  <2> HIDE DEF p, all
  <2>6. QED
      BY <2>3, <2>4, <2>5
<1>4. all = Eq(all)
  <2> HIDE DEF of
  <2>1. \A g \in U : all[g] = Eq(all)[g]
    <3> HIDE DEF all
    <3>1. QED
        BY <1>3
  <2>2. all = [g \in U |-> all[g]] /\ Eq(all) = [g \in U |-> Eq(all)[g]]
      OBVIOUS
  <2> HIDE DEF all, Eq
  <2>3. QED
      BY <2>1, <2>2
<1> HIDE DEF all
<1>5. path = Eq(path)
    BY <1>4
<1> HIDE DEF path
<1>6. \A g \in U : path[g] = IF g = Root THEN <<>> ELSE Append(path[t[g].parent], t[g].name)
    BY <1>5
<1>7. \A g \in U : FolderPath(t, g) = path[g]
    BY DEF FolderPath, path
<1>8. \A g \in U : path[g] \in Seq(STRING)
  <2> DEFINE S == {g \in U : path[g] \in Seq(STRING)}
  <2>1. Root \in S
    <3>1. path[Root] = <<>>
        BY <1>6
    <3>2. path[Root] \in Seq(STRING)
        BY <3>1, EmptySeq
    <3>3. QED
        BY <3>2
  <2>2. ASSUME NEW g \in FoldersIn(t), t[g].parent \in S
        PROVE  g \in S
    <3>1. t[g].name \in STRING /\ path[g] = Append(path[t[g].parent], t[g].name)
        BY <1>1, <1>6, TreeFolders
    <3>2. QED
        BY <2>2, <3>1
  <2>3. FoldersIn(t) \subseteq S
    <3> HIDE DEF S
    <3>1. QED
        BY <1>1, <2>1, <2>2, TreeInduction
  <2>4. QED
      BY <2>1, <2>3
<1>9. QED
  <2>1. \A g \in FoldersIn(t) : t[g].parent \in U /\ g # Root
      BY <1>1 DEF ParentsListed
  <2>2. QED
      BY <1>6, <1>7, <1>8, <2>1

\* The path of a folder begins with the path of each folder above it.
LEMMA PathAbove ==
    ASSUME NEW t, Tree(t), Rooted(t), NEW f \in FoldersIn(t),
           NEW h \in FolderAbove(t, f)
    PROVE  PathsUnder(FolderPath(t, f), FolderPath(t, h))
<1> DEFINE S == {g \in FoldersIn(t) \cup {Root} : PathsUnder(FolderPath(t, f), FolderPath(t, g))}
<1>1. ParentsListed(t) /\ Root \notin FoldersIn(t)
    BY TreeFolders DEF Tree
<1>2. f \in S
  <2>1. FolderPath(t, f) \in Seq(STRING)
      BY PathProperties
  <2>2. QED
      BY <2>1 DEF PathsUnder
<1>3. ASSUME NEW g \in FoldersIn(t), g \in S
      PROVE  t[g].parent \in S
  <2> DEFINE p == FolderPath(t, f)
             q == FolderPath(t, t[g].parent)
             r == FolderPath(t, g)
  <2>1. t[g].parent \in FoldersIn(t) \cup {Root} /\ t[g].name \in STRING
      BY <1>1, TreeFolders DEF ParentsListed
  <2>2. p \in Seq(STRING) /\ q \in Seq(STRING) /\ r = Append(q, t[g].name)
      BY <2>1, PathProperties
  <2>3. Len(r) <= Len(p) /\ SubSeq(p, 1, Len(r)) = r
      BY <1>3 DEF PathsUnder
  <2> HIDE DEF p, q, r
  <2>4. Len(r) = Len(q) + 1 /\ SubSeq(r, 1, Len(q)) = q /\ Len(p) \in Nat /\ Len(q) \in Nat
      BY <2>1, <2>2
  <2>5. SubSeq(p, 1, Len(q)) = q
    <3>1. \A i \in 1..Len(q) : p[i] = q[i]
      <4>1. TAKE i \in 1..Len(q)
      <4>2. i \in 1..Len(r) /\ r[i] = q[i]
          BY <2>1, <2>2, <2>4
      <4>3. SubSeq(p, 1, Len(r))[i] = p[i]
          BY <2>2, <2>3, <2>4, <4>2
      <4>4. QED
          BY <2>3, <4>2, <4>3
    <3>2. Len(SubSeq(p, 1, Len(q))) = Len(q)
        BY <2>2, <2>3, <2>4
    <3>3. \A i \in 1..Len(q) : SubSeq(p, 1, Len(q))[i] = p[i]
        BY <2>2, <2>3, <2>4
    <3>4. SubSeq(p, 1, Len(q)) \in Seq(STRING)
        BY <2>2, <2>3, <2>4
    <3>5. QED
        BY <2>2, <3>1, <3>2, <3>3, <3>4, SeqEqual
  <2>6. PathsUnder(p, q)
      BY <2>3, <2>4, <2>5 DEF PathsUnder
  <2>7. QED
      BY <2>1, <2>6 DEF p, q
<1>4. FolderAbove(t, f) \subseteq S
  <2>1. \A g \in (S \cap FolderAbove(t, f)) \ {Root} : t[g].parent \in S
      BY <1>3
  <2> HIDE DEF S
  <2>2. QED
      BY <1>1, <1>2, <2>1, AboveLeast
<1>5. QED
    BY <1>4

\* Trees that agree on what is above a folder agree on its path.
LEMMA PathAlike ==
    ASSUME NEW t, Tree(t), Rooted(t), NEW u, Tree(u), Rooted(u),
           NEW f \in FoldersIn(t),
           \A g \in FolderAbove(t, f) \ {Root} : g \in FoldersIn(u) /\ u[g] = t[g]
    PROVE  FolderPath(u, f) = FolderPath(t, f)
<1> DEFINE A == FolderAbove(t, f)
           S == {g \in FoldersIn(t) \cup {Root} : g \in A => FolderPath(u, g) = FolderPath(t, g)}
<1>1. ParentsListed(t) /\ Root \notin FoldersIn(t)
    BY TreeFolders DEF Tree
<1>2. f \in A /\ \A g \in A \ {Root} : t[g].parent \in A
    BY <1>1, AboveProperties
<1>3. Root \in S
    BY PathProperties
<1>4. ASSUME NEW g \in FoldersIn(t), t[g].parent \in S
      PROVE  g \in S
  <2>1. SUFFICES ASSUME g \in A
                 PROVE  FolderPath(u, g) = FolderPath(t, g)
      OBVIOUS
  <2>2. g # Root /\ t[g].parent \in A /\ u[g] = t[g] /\ g \in FoldersIn(u)
      BY <1>1, <1>2, <2>1
  <2>3. /\ FolderPath(t, g) = Append(FolderPath(t, t[g].parent), t[g].name)
        /\ FolderPath(u, g) = Append(FolderPath(u, u[g].parent), u[g].name)
      BY <2>2, PathProperties
  <2>4. FolderPath(u, t[g].parent) = FolderPath(t, t[g].parent)
      BY <1>4, <2>2
  <2>5. QED
      BY <2>2, <2>3, <2>4
<1>5. FoldersIn(t) \subseteq S
  <2> HIDE DEF S
  <2>1. QED
      BY <1>1, <1>3, <1>4, TreeInduction
<1>6. QED
    BY <1>2, <1>5

-----------------------------------------------------------------------------
(* Looking for a path.                                                     *)

\* One part further, if there is a folder of that name.
OneOn(t, w) ==
    LET next == ChildrenNamed(t, w.at, Head(w.rest))
    IN  IF w.rest = <<>> \/ next = {} THEN {w}
        ELSE { [w EXCEPT !.at = g, !.rest = Tail(@)] : g \in next }

AllOn(t, ws) == UNION { OneOn(t, w) : w \in ws }

Stuck(t, w) == w.rest = <<>> \/ ChildrenNamed(t, w.at, Head(w.rest)) = {}

\* Where the search from f for parts may be.
OnTheWay(t, f, parts) ==
    { w \in [at : FoldersIn(t) \cup {f}, under : {NoFolder}, rest : Seq(STRING)] :
        /\ (w.at = f /\ w.rest = parts) \/ w.at \in FoldersIn(t)
        /\ Len(w.rest) <= Len(parts) }

LEMMA OneOnProperties ==
    ASSUME NEW t, NEW f, NEW parts \in Seq(STRING), NEW w \in OnTheWay(t, f, parts)
    PROVE  /\ OneOn(t, w) \subseteq OnTheWay(t, f, parts)
           /\ \A x \in OneOn(t, w) : \/ x = w /\ Stuck(t, w)
                                     \/ Len(x.rest) = Len(w.rest) - 1
<1>1. CASE Stuck(t, w)
    BY <1>1 DEF OneOn, Stuck
<1>2. CASE ~Stuck(t, w)
  <2>1. OneOn(t, w) = { [w EXCEPT !.at = g, !.rest = Tail(@)] :
                          g \in ChildrenNamed(t, w.at, Head(w.rest)) }
      BY <1>2 DEF OneOn, Stuck
  <2>2. w.rest \in Seq(STRING) /\ w.rest # <<>>
      BY <1>2 DEF Stuck, OnTheWay
  <2>3. Tail(w.rest) \in Seq(STRING) /\ Len(Tail(w.rest)) = Len(w.rest) - 1
      BY <2>2, HeadTailProperties
  <2>4. ASSUME NEW g \in ChildrenNamed(t, w.at, Head(w.rest)),
               NEW x, x = [w EXCEPT !.at = g, !.rest = Tail(@)]
        PROVE  x \in OnTheWay(t, f, parts) /\ Len(x.rest) = Len(w.rest) - 1
    <3>1. g \in FoldersIn(t)
        BY DEF ChildrenNamed
    <3>2. x = [at |-> g, under |-> NoFolder, rest |-> Tail(w.rest)]
        BY <2>4 DEF OnTheWay
    <3>3. QED
        BY <2>3, <3>1, <3>2 DEF OnTheWay
  <2>5. QED
      BY <2>1, <2>4
<1>3. QED
    BY <1>1, <1>2

\* A search from f is somewhere below f, with the names left, and there is no
\* folder of the next one.
LEMMA WalkedProperties ==
    ASSUME NEW t, NEW f, NEW parts \in Seq(STRING), NEW w \in Walked(t, f, parts)
    PROVE  w \in OnTheWay(t, f, parts) /\ Stuck(t, w)
<1> DEFINE N == Len(parts)
           W == OnTheWay(t, f, parts)
           D == SUBSET W
           first == {[at |-> f, under |-> NoFolder, rest |-> parts]}
           step == [n \in 1..N |-> [ws \in D |-> AllOn(t, ws)]]
           On(h) == [n \in 0..N |-> IF n = 0 THEN first ELSE AllOn(t, h[n - 1])]
           walk == CHOOSE h : h = On(h)
<1>1. N \in Nat
    OBVIOUS
<1>2. first \in D
    BY DEF OnTheWay
<1>3. \A ws \in D : AllOn(t, ws) \in D
    BY OneOnProperties DEF AllOn
<1>4. step \in [1..N -> [D -> D]]
    BY <1>3
<1>5. PICK g \in [0..N -> D] : g[0] = first /\ \A n \in 1..N : g[n] = step[n][g[n - 1]]
  <2> HIDE DEF step, D, first, N
  <2>1. \E g : Takes(D, first, N, step, g)
      BY <1>1, <1>2, <1>4, StepsTaken
  <2>2. QED
      BY <2>1 DEF Takes
<1> HIDE DEF first
<1>6. \A n \in 1..N : g[n] = AllOn(t, g[n - 1])
  <2>1. TAKE n \in 1..N
  <2>2. n - 1 \in 0..N
      BY <1>1
  <2>3. g[n - 1] \in D
      BY <1>5, <2>2
  <2>4. QED
      BY <1>5, <2>3
<1>7. g = On(g)
  <2>1. ASSUME NEW n \in 0..N PROVE g[n] = On(g)[n]
    <3>1. CASE n = 0
        BY <1>5, <3>1
    <3>2. CASE n # 0
      <4>1. n \in 1..N
          BY <1>1, <3>2
      <4>2. QED
          BY <1>6, <4>1, <3>2
    <3>3. QED
        BY <3>1, <3>2
  <2>2. QED
      BY <1>5, <2>1
<1>8. walk = On(walk)
    BY <1>7
<1>9. Walked(t, f, parts) = walk[N]
    BY DEF Walked, AllOn, OneOn, first
<1>10. \A n \in 0..N : walk[n] = g[n]
  <2>1. walk[0] = g[0]
    <3>1. 0 \in 0..N
        BY <1>1
    <3>2. On(walk)[0] = first
        BY <3>1
    <3>3. QED
        BY <1>5, <1>8, <3>2
  <2>2. ASSUME NEW n \in 1..N, walk[n - 1] = g[n - 1]
        PROVE  walk[n] = g[n]
    <3>1. n \in 0..N /\ n # 0
        BY <1>1
    <3>2. walk[n] = AllOn(t, walk[n - 1])
        BY <1>8, <3>1
    <3>3. QED
        BY <1>6, <2>2, <3>2
  <2> HIDE DEF walk, N
  <2>3. QED
      BY <1>1, <2>1, <2>2, StepsAlike
\* Each part of the path takes the search further or finds it stuck.
<1> DEFINE S == {n \in Nat : n <= N =>
                   \A x \in g[n] : Stuck(t, x) \/ Len(x.rest) = N - n}
<1>11. 0 \in S
  <2>1. \A x \in first : x.rest = parts
      BY DEF first
  <2>2. QED
      BY <1>1, <1>5, <2>1
<1>12. ASSUME NEW n \in Nat, n \in S
       PROVE  n + 1 \in S
  <2>1. SUFFICES ASSUME n + 1 <= N, NEW y \in g[n + 1]
                 PROVE  Stuck(t, y) \/ Len(y.rest) = N - (n + 1)
      OBVIOUS
  <2>2. n + 1 \in 1..N /\ (n + 1) - 1 = n /\ n <= N /\ n \in 0..N
      BY <1>1, <2>1
  <2>3. g[n + 1] = AllOn(t, g[n]) /\ g[n] \subseteq W
      BY <1>5, <1>6, <2>2
  <2>4. PICK x \in g[n] : y \in OneOn(t, x)
      BY <2>3, <2>1 DEF AllOn
  <2>5. Stuck(t, x) \/ Len(x.rest) = N - n
      BY <1>12, <2>2
  <2>6. (y = x /\ Stuck(t, x)) \/ Len(y.rest) = Len(x.rest) - 1
      BY <2>3, <2>4, OneOnProperties
  <2>7. Stuck(t, x) => y = x
      BY <2>4 DEF OneOn, Stuck
  <2>8. QED
      BY <1>1, <2>5, <2>6, <2>7
<1>13. N \in S
  <2> HIDE DEF S
  <2>1. Nat \subseteq S
      BY <1>11, <1>12, SetInduction
  <2>2. QED
      BY <1>1, <2>1
<1>14. w \in g[N] /\ g[N] \subseteq W
    BY <1>1, <1>5, <1>9, <1>10
<1>15. Stuck(t, w)
  <2>1. CASE Len(w.rest) = N - N
    <3>1. w.rest \in Seq(STRING)
        BY <1>14 DEF OnTheWay
    <3>2. QED
        BY <1>1, <2>1, <3>1 DEF Stuck
  <2>2. QED
      BY <1>1, <1>13, <1>14, <2>1
<1>16. QED
    BY <1>14, <1>15

LEMMA MatchesProperties ==
    ASSUME NEW t, Tree(t), NEW arg \in FolderArgs, NEW w \in FolderMatches(t, arg)
    PROVE  /\ w \in [at : FoldersIn(t) \cup {Root}, under : {NoFolder}, rest : Seq(STRING)]
           /\ w.rest = <<>> => w.at \in FoldersIn(t)
           /\ Stuck(t, w)
<1>1. CASE arg.id = NoFolder
  <2>1. arg.path \in Seq(STRING) /\ arg.path # <<>> /\ w \in Walked(t, Root, arg.path)
      BY <1>1, FolderAssumption DEF FolderMatches
  <2>2. w \in OnTheWay(t, Root, arg.path) /\ Stuck(t, w)
      BY <2>1, WalkedProperties
  <2>3. QED
      BY <2>1, <2>2 DEF OnTheWay
<1>2. CASE arg.id # NoFolder
  <2>1. PICK f \in FoldersIn(t) : w = [NoGoal EXCEPT !.at = f]
      BY <1>2 DEF FolderMatches
  <2>2. w = [at |-> f, under |-> NoFolder, rest |-> <<>>]
      BY <2>1 DEF NoGoal
  <2>3. <<>> \in Seq(STRING)
      BY EmptySeq
  <2>4. QED
      BY <2>2, <2>3 DEF Stuck
<1>3. QED
    BY <1>1, <1>2

-----------------------------------------------------------------------------
(* The inductive invariant.                                                *)

FolderSpec ==
    ClientInit /\ FolderInit /\ [][FolderNext]_<<folderVars, clientVars>>

FolderSteps ==
    {"idle", "get", "target", "part", "part_back", "move", "parent",
     "rename", "fresh", "objects", "delete", "back"}

Goals == [at : FolderIds \cup {NoFolder}, under : FolderIds \cup {NoFolder}, rest : Seq(STRING)]

Changes ==
    { s \in [own : SUBSET FolderIds, view : SUBSET FolderIds, objects : SUBSET FolderObjects] :
        s.view \subseteq s.own }

\* v was fetched, and the tree t is still so but for what has changed since:
\* what was listed is as it was, and what is in a folder listed was listed.
Knows(t, v, changed) ==
    /\ Tree(v) /\ Rooted(v)
    /\ \A f \in FoldersIn(v) \ changed : t[f] = v[f]
    /\ \A f \in FoldersIn(t) \ changed :
         t[f].parent \in FoldersIn(v) \cup {Root} => f \in FoldersIn(v)

\* Nothing in f has the name, for all v knows.
NameFree(v, f, name) == f \in FoldersIn(v) /\ ChildrenNamed(v, f, name) = {}

\* What the call p is a step of has found out before, with h at hand.
FoundOut(p, j, h, v, o, g, changed) ==
    /\ p = "move" =>
         /\ NameFree(v, g.at, o[h].name)
         /\ ~PathsUnder(FolderPath(v, g.at), FolderPath(o, h))
    /\ p = "part" =>
         /\ g.rest # <<>>
         /\ j.op = "create" => g.at = h /\ Len(g.rest) = 1
         /\ NameFree(IF j.op = "create" THEN o ELSE v, g.at, Head(g.rest))
    /\ p = "part_back" /\ j.op = "create" => g.rest = <<>>
    /\ p = "rename" /\ h \notin changed => NameFree(v, o[h].parent, j.name)
    /\ p \in {"objects", "delete"} => v = o

\* The arguments of the call, and the folder at hand.
CallTyped(p, j, h, o) ==
    /\ h \in FoldersIn(o) \cup {NoFolder}
    /\ p \in {"target", "move", "parent", "rename", "fresh", "objects", "delete"} =>
         h \in FoldersIn(o)
    /\ p = "get" => j.op = "get"
    /\ p = "target" => j.op = "move"
    /\ p \in {"get", "target"} => j.to \in FolderArgs
    /\ p \in {"part", "part_back"} => j.op = "get" \/ h \in FoldersIn(o)
    /\ p \in {"parent", "rename"} => j.name \in STRING

\* What delete() has counted is all there was.
Counted(p, j, h, v, w, added) ==
    p = "delete" =>
       /\ j.subfolders \/ FolderUnder(v, h) \subseteq {h}
       /\ j.objects \/ \A o \in FolderObjects \ added : w[o] \notin FolderUnder(v, h)

FolderClientInv(c) ==
    /\ pc[c] \in FolderSteps /\ goal[c] \in Goals /\ since[c] \in Changes
    /\ Knows(tree, view[c], since[c].view)
    /\ Knows(tree, own[c], since[c].own)
    /\ CallTyped(pc[c], job[c], handle[c], own[c])
    /\ FoundOut(pc[c], job[c], handle[c], view[c], own[c], goal[c], since[c].own)
    /\ Counted(pc[c], job[c], handle[c], view[c], where, since[c].objects)

FolderShape ==
    /\ DOMAIN pc = Clients /\ DOMAIN job = Clients /\ DOMAIN handle = Clients
    /\ DOMAIN view = Clients /\ DOMAIN own = Clients
    /\ DOMAIN goal = Clients /\ DOMAIN since = Clients

FolderInv ==
    /\ Tree(tree)
    /\ where \in [FolderObjects -> FolderIds \cup {NoFolder, GoneFolder}]
    /\ FolderShape
    /\ \A c \in Clients : FolderClientInv(c)

-----------------------------------------------------------------------------
(* What keeps the invariant: for the other clients, and for the client of a *)
(* step.                                                                    *)

LEMMA KnowsFetched ==
    ASSUME Tree(tree), NEW s
    PROVE  Knows(tree, FetchedTree, s)
BY FetchedProperties DEF Knows

LEMMA KnowsLess ==
    ASSUME NEW t, NEW v, NEW s, NEW r, Knows(t, v, s), s \subseteq r
    PROVE  Knows(t, v, r)
BY DEF Knows

LEMMA KnowsStill ==
    ASSUME NEW t, Tree(t), NEW u, Tree(u), NEW v, NEW s, Knows(t, v, s)
    PROVE  Knows(u, v, s \cup { f \in FolderIds : u[f] # t[f] })
<1> DEFINE r == s \cup { f \in FolderIds : u[f] # t[f] }
<1>1. \A f \in FolderIds \ r : u[f] = t[f] /\ f \notin s
    OBVIOUS
<1>2. FoldersIn(t) \subseteq FolderIds /\ FoldersIn(u) \subseteq FolderIds /\ FoldersIn(v) \subseteq FolderIds
    BY DEF FoldersIn
<1>3. \A f \in FoldersIn(u) \ r : f \in FoldersIn(t) \ s
    BY <1>1, <1>2 DEF FoldersIn
<1> HIDE DEF r
<1>4. Knows(u, v, r)
    BY <1>1, <1>2, <1>3 DEF Knows
<1>5. QED
    BY <1>4 DEF r

SameFor(d) ==
    /\ pc'[d] = pc[d] /\ job'[d] = job[d] /\ handle'[d] = handle[d]
    /\ view'[d] = view[d] /\ own'[d] = own[d] /\ goal'[d] = goal[d]

\* A step that leaves the server alone keeps the invariant if it does for the
\* client itself.
LEMMA OthersAsTheyWere ==
    ASSUME FolderInv, UNCHANGED <<tree, where>>, NEW c \in Clients,
           \A d \in Clients \ {c} : SameFor(d) /\ since'[d] = since[d],
           FolderShape', FolderClientInv(c)'
    PROVE  FolderInv'
<1>1. ASSUME NEW d \in Clients, d # c
      PROVE  FolderClientInv(d)'
  <2>1. FolderClientInv(d) /\ SameFor(d) /\ since'[d] = since[d] /\ tree' = tree /\ where' = where
      BY <1>1 DEF FolderInv
  <2>2. QED
      BY <2>1 DEF FolderClientInv, SameFor
<1>2. QED
    BY <1>1 DEF FolderInv

LEMMA BeginDoes ==
    ASSUME FolderShape, NEW c \in Clients, NEW j, NEW to, Begin(c, j, to)
    PROVE  /\ pc'[c] = to /\ job'[c] = j /\ DOMAIN pc' = Clients /\ DOMAIN job' = Clients
           /\ \A d \in Clients \ {c} : pc'[d] = pc[d] /\ job'[d] = job[d]
           /\ pc[c] = "idle" /\ told' = "none"
BY DEF FolderShape, Begin

LEMMA GoDoes ==
    ASSUME FolderShape, NEW c \in Clients, NEW to, Go(c, to)
    PROVE  /\ pc'[c] = to /\ job' = job /\ DOMAIN pc' = Clients
           /\ \A d \in Clients \ {c} : pc'[d] = pc[d]
           /\ told' = "none"
BY DEF FolderShape, Go

LEMMA EndDoes ==
    ASSUME FolderShape, NEW c \in Clients, NEW how, End(c, how)
    PROVE  /\ pc'[c] = "idle" /\ job'[c] = NoJob
           /\ DOMAIN pc' = Clients /\ DOMAIN job' = Clients
           /\ \A d \in Clients \ {c} : pc'[d] = pc[d] /\ job'[d] = job[d]
           /\ told' = how
BY DEF FolderShape, End

LEMMA EndsDoes ==
    ASSUME FolderShape, NEW c \in Clients, NEW how, FolderEnds(c, how)
    PROVE  /\ pc'[c] = "idle" /\ job'[c] = NoJob /\ goal'[c] = NoGoal
           /\ DOMAIN pc' = Clients /\ DOMAIN job' = Clients /\ DOMAIN goal' = Clients
           /\ \A d \in Clients \ {c} : pc'[d] = pc[d] /\ job'[d] = job[d] /\ goal'[d] = goal[d]
<1>1. End(c, how) /\ goal' = [goal EXCEPT ![c] = NoGoal]
    BY DEF FolderEnds
<1>2. QED
    BY <1>1, EndDoes DEF FolderShape

LEMMA NoGoalIsGoal == NoGoal \in Goals /\ NoGoal.at = NoFolder /\ NoGoal.rest = <<>>
BY EmptySeq DEF NoGoal, Goals

LEMMA FailKeeps ==
    ASSUME FolderInv, NEW c \in Clients, FolderFail(c) \/ (FolderRefused(c) /\ pc[c] # "idle")
    PROVE  FolderInv'
<1>1. PICK how : FolderEnds(c, how) /\ UNCHANGED <<tree, where, handle, view, own, since>>
    BY DEF FolderFail, FolderRefused
<1>2. FolderShape
    BY DEF FolderInv
<1>3. /\ pc'[c] = "idle" /\ job'[c] = NoJob /\ goal'[c] = NoGoal
      /\ DOMAIN pc' = Clients /\ DOMAIN job' = Clients /\ DOMAIN goal' = Clients
      /\ \A d \in Clients \ {c} : pc'[d] = pc[d] /\ job'[d] = job[d] /\ goal'[d] = goal[d]
    BY <1>1, <1>2, EndsDoes
<1>4. FolderShape'
    BY <1>1, <1>2, <1>3 DEF FolderShape
<1>5. FolderClientInv(c)
    BY DEF FolderInv
<1>6. FolderClientInv(c)'
    BY <1>1, <1>3, <1>5, NoGoalIsGoal DEF FolderClientInv, FolderSteps, CallTyped, FoundOut, Counted
<1>7. \A d \in Clients \ {c} : SameFor(d) /\ since'[d] = since[d]
    BY <1>1, <1>3 DEF SameFor
<1>8. QED
    BY <1>1, <1>4, <1>6, <1>7, OthersAsTheyWere

LEMMA CallFindKeeps ==
    ASSUME FolderInv, NEW c \in Clients, FolderCallFind(c)
    PROVE  FolderInv'
<1>1. PICK a \in FolderArgs, create \in BOOLEAN :
         Begin(c, [op |-> "get", to |-> a, create |-> create], "get")
    BY DEF FolderCallFind
<1> DEFINE j == [op |-> "get", to |-> a, create |-> create]
<1>2. handle' = [handle EXCEPT ![c] = NoFolder] /\ UNCHANGED <<tree, where, view, own, goal, since>>
    BY DEF FolderCallFind
<1>3. FolderShape /\ FolderClientInv(c)
    BY DEF FolderInv
<1>4. j.op = "get" /\ j.to \in FolderArgs
    OBVIOUS
<1> HIDE DEF j
<1>5. /\ pc'[c] = "get" /\ job'[c] = j /\ DOMAIN pc' = Clients /\ DOMAIN job' = Clients
      /\ \A d \in Clients \ {c} : pc'[d] = pc[d] /\ job'[d] = job[d]
    BY <1>1, <1>3, BeginDoes DEF j
<1>6. /\ handle'[c] = NoFolder /\ DOMAIN handle' = Clients
      /\ \A d \in Clients \ {c} : handle'[d] = handle[d]
    BY <1>2, <1>3 DEF FolderShape
<1>7. FolderShape'
    BY <1>2, <1>3, <1>5, <1>6 DEF FolderShape
<1>8. FolderClientInv(c)'
    BY <1>2, <1>3, <1>4, <1>5, <1>6 DEF FolderClientInv, FolderSteps, CallTyped, FoundOut, Counted
<1>9. \A d \in Clients \ {c} : SameFor(d) /\ since'[d] = since[d]
    BY <1>2, <1>5, <1>6 DEF SameFor
<1>10. QED
    BY <1>2, <1>7, <1>8, <1>9, OthersAsTheyWere

\* The calls that begin with the folder at hand, wherever they begin.
LEMMA CallKeeps ==
    ASSUME FolderInv, NEW c \in Clients, NEW j, NEW to, Begin(c, j, to),
           UNCHANGED <<tree, where, handle, view, own, since>>, to \in FolderSteps,
           DOMAIN goal' = Clients, \A d \in Clients \ {c} : goal'[d] = goal[d],
           goal'[c] \in Goals, CallTyped(to, j, handle[c], own[c]),
           FoundOut(to, j, handle[c], view[c], own[c], goal'[c], since[c].own), to # "delete"
    PROVE  FolderInv'
<1>1. FolderShape /\ FolderClientInv(c)
    BY DEF FolderInv
<1>2. /\ pc'[c] = to /\ job'[c] = j /\ DOMAIN pc' = Clients /\ DOMAIN job' = Clients
      /\ \A d \in Clients \ {c} : pc'[d] = pc[d] /\ job'[d] = job[d]
    BY <1>1, BeginDoes
<1>3. FolderShape'
    BY <1>1, <1>2 DEF FolderShape
<1>4. FolderClientInv(c)'
    BY <1>1, <1>2 DEF FolderClientInv, Counted
<1>5. \A d \in Clients \ {c} : SameFor(d) /\ since'[d] = since[d]
    BY <1>2 DEF SameFor
<1>6. QED
    BY <1>3, <1>4, <1>5, OthersAsTheyWere

LEMMA CallChangeKeeps ==
    ASSUME FolderInv, NEW c \in Clients, FolderCallChange(c)
    PROVE  FolderInv'
<1>1. handle[c] \in FoldersIn(own[c]) /\ goal[c] \in Goals
    BY DEF FolderCallChange, MayChange, FolderInv, FolderClientInv, CallTyped
<1>2. UNCHANGED folderVars /\ DOMAIN goal' = Clients
    BY DEF FolderCallChange, FolderInv, FolderShape, folderVars
<1>3. CASE \E a \in FolderArgs, create \in BOOLEAN :
            Begin(c, [op |-> "move", to |-> a, create |-> create], "target")
  <2>1. PICK a \in FolderArgs, create \in BOOLEAN :
            Begin(c, [op |-> "move", to |-> a, create |-> create], "target")
      BY <1>3
  <2> DEFINE j == [op |-> "move", to |-> a, create |-> create]
  <2>2. j.op = "move" /\ j.to \in FolderArgs /\ Begin(c, j, "target")
      BY <2>1
  <2> HIDE DEF j
  <2>3. /\ CallTyped("target", j, handle[c], own[c])
        /\ FoundOut("target", j, handle[c], view[c], own[c], goal'[c], since[c].own)
      BY <1>1, <2>2 DEF CallTyped, FoundOut
  <2>4. QED
      BY <1>1, <1>2, <2>2, <2>3, CallKeeps DEF folderVars, FolderSteps
<1>4. CASE \E subfolders, objects \in BOOLEAN :
            Begin(c, [op |-> "delete", subfolders |-> subfolders, objects |-> objects], "fresh")
  <2>1. PICK j : Begin(c, j, "fresh")
      BY <1>4
  <2>2. /\ CallTyped("fresh", j, handle[c], own[c])
        /\ FoundOut("fresh", j, handle[c], view[c], own[c], goal'[c], since[c].own)
      BY <1>1 DEF CallTyped, FoundOut
  <2>3. QED
      BY <1>1, <1>2, <2>1, <2>2, CallKeeps DEF folderVars, FolderSteps
<1>5. QED
    BY <1>3, <1>4 DEF FolderCallChange

LEMMA CallRenameKeeps ==
    ASSUME FolderInv, NEW c \in Clients, FolderCallRename(c)
    PROVE  FolderInv'
<1>1. handle[c] \in FoldersIn(own[c]) /\ goal[c] \in Goals
    BY DEF FolderCallRename, MayChange, FolderInv, FolderClientInv, CallTyped
<1>2. UNCHANGED folderVars /\ DOMAIN goal' = Clients
    BY DEF FolderCallRename, FolderInv, FolderShape, folderVars
<1>3. PICK name \in FolderNames :
         \/ Begin(c, [op |-> "rename", name |-> name], "parent")
         \/ /\ RenameAllowed(c, view[c], name)
            /\ Begin(c, [op |-> "rename", name |-> name], "rename")
    BY DEF FolderCallRename
<1> DEFINE j == [op |-> "rename", name |-> name]
<1>4. j.name = name /\ name \in STRING
    BY FolderAssumption
<1>5. CASE Begin(c, j, "parent")
  <2> HIDE DEF j
  <2>1. /\ CallTyped("parent", j, handle[c], own[c])
        /\ FoundOut("parent", j, handle[c], view[c], own[c], goal'[c], since[c].own)
      BY <1>1, <1>4 DEF CallTyped, FoundOut
  <2>2. QED
      BY <1>1, <1>2, <1>5, <2>1, CallKeeps DEF folderVars, FolderSteps
<1>6. CASE RenameAllowed(c, view[c], name) /\ Begin(c, j, "rename")
  <2> HIDE DEF j
  <2>1. NameFree(view[c], own[c][handle[c]].parent, j.name)
      BY <1>4, <1>6 DEF RenameAllowed, NameFree
  <2>2. /\ CallTyped("rename", j, handle[c], own[c])
        /\ FoundOut("rename", j, handle[c], view[c], own[c], goal'[c], since[c].own)
      BY <1>1, <1>4, <2>1 DEF CallTyped, FoundOut
  <2>3. QED
      BY <1>1, <1>2, <1>6, <2>2, CallKeeps DEF folderVars, FolderSteps
<1>7. QED
    BY <1>3, <1>5, <1>6

LEMMA CallCreateKeeps ==
    ASSUME FolderInv, NEW c \in Clients, FolderCallCreate(c)
    PROVE  FolderInv'
<1> DEFINE j == [op |-> "create", create |-> TRUE]
           h == handle[c]
<1>1. /\ UNCHANGED <<tree, where, handle, view, own, since>>
      /\ h \in FoldersIn(own[c]) /\ h \in FolderIds
    BY DEF FolderCallCreate, FolderInv, FolderClientInv, CallTyped, FoldersIn
<1>2. PICK name \in FolderNames :
         /\ ChildrenNamed(own[c], h, name) = {}
         /\ Begin(c, j, "part")
         /\ goal' = [goal EXCEPT ![c] = [NoGoal EXCEPT !.at = h, !.rest = <<name>>]]
    BY DEF FolderCallCreate
<1> DEFINE g == [at |-> h, under |-> NoFolder, rest |-> <<name>>]
<1>3. DOMAIN goal = Clients
    BY DEF FolderInv, FolderShape
<1>4. /\ goal'[c] = g /\ DOMAIN goal' = Clients
      /\ \A d \in Clients \ {c} : goal'[d] = goal[d]
    BY <1>2, <1>3 DEF NoGoal
<1>5. /\ g \in Goals /\ g.at = h /\ g.rest # <<>> /\ Len(g.rest) = 1
      /\ Head(g.rest) = name /\ j.op = "create"
  <2>1. name \in STRING
      BY FolderAssumption
  <2>2. QED
      BY <1>1, <2>1 DEF Goals
<1>6. NameFree(own[c], h, name)
    BY <1>1, <1>2 DEF NameFree
<1> HIDE DEF g, j
<1>7. CallTyped("part", j, h, own[c]) /\ FoundOut("part", j, h, view[c], own[c], g, since[c].own)
    BY <1>1, <1>5, <1>6 DEF CallTyped, FoundOut
<1>8. QED
    BY <1>1, <1>2, <1>4, <1>5, <1>7, CallKeeps DEF FolderSteps

LEMMA TakeChildKeeps ==
    ASSUME FolderInv, NEW c \in Clients, FolderTakeChild(c)
    PROVE  FolderInv'
<1>1. PICK f \in FolderIds : f \in FoldersIn(own[c]) /\ handle' = [handle EXCEPT ![c] = f]
    BY DEF FolderTakeChild
<1>2. UNCHANGED <<pc, job, calls, tree, where, view, own, goal, since>> /\ pc[c] = "idle"
    BY DEF FolderTakeChild
<1>3. FolderShape /\ FolderClientInv(c)
    BY DEF FolderInv
<1>4. /\ handle'[c] = f /\ DOMAIN handle' = Clients
      /\ \A d \in Clients \ {c} : handle'[d] = handle[d]
    BY <1>1, <1>3 DEF FolderShape
<1>5. FolderShape'
    BY <1>2, <1>3, <1>4 DEF FolderShape
<1>6. FolderClientInv(c)'
    BY <1>1, <1>2, <1>3, <1>4 DEF FolderClientInv, FolderSteps, CallTyped, FoundOut, Counted
<1>7. \A d \in Clients \ {c} : SameFor(d) /\ since'[d] = since[d]
    BY <1>2, <1>4 DEF SameFor
<1>8. QED
    BY <1>2, <1>5, <1>6, <1>7, OthersAsTheyWere

-----------------------------------------------------------------------------
(* The requests that read.                                                 *)

LEMMA RefetchedDoes ==
    ASSUME FolderShape, NEW c \in Clients, Refetched(c)
    PROVE  /\ view'[c] = FetchedTree /\ DOMAIN view' = Clients
           /\ \A d \in Clients \ {c} : view'[d] = view[d]
BY DEF FolderShape, Refetched

LEMMA SeenNew ==
    ASSUME NEW s \in Changes, NEW r, r = [s EXCEPT !.view = {}]
    PROVE  r \in Changes /\ r.view = {} /\ r.own = s.own /\ r.objects = s.objects
BY DEF Changes

LEMMA NothingSince == NoChange \in Changes /\ NoChange.view = {} /\ NoChange.own = {}
BY DEF NoChange, Changes

LEMMA NotFoundKeeps ==
    ASSUME FolderInv, NEW c \in Clients, FolderNotFound(c)
    PROVE  FolderInv'
<1>1. FolderShape /\ FolderClientInv(c) /\ Tree(tree)
    BY DEF FolderInv
<1>2. /\ Refetched(c) /\ FolderEnds(c, "raised")
      /\ since' = [since EXCEPT ![c].view = {}]
      /\ UNCHANGED <<tree, where, handle, own>>
    BY DEF FolderNotFound
<1>3. /\ pc'[c] = "idle" /\ job'[c] = NoJob /\ goal'[c] = NoGoal
      /\ DOMAIN pc' = Clients /\ DOMAIN job' = Clients /\ DOMAIN goal' = Clients
      /\ \A d \in Clients \ {c} : pc'[d] = pc[d] /\ job'[d] = job[d] /\ goal'[d] = goal[d]
    BY <1>1, <1>2, EndsDoes
<1>4. /\ view'[c] = FetchedTree /\ DOMAIN view' = Clients
      /\ \A d \in Clients \ {c} : view'[d] = view[d]
    BY <1>1, <1>2, RefetchedDoes
<1>5. /\ since'[c] = [since[c] EXCEPT !.view = {}] /\ DOMAIN since' = Clients
      /\ \A d \in Clients \ {c} : since'[d] = since[d]
    BY <1>1, <1>2 DEF FolderShape
<1>6. since'[c] \in Changes /\ since'[c].own = since[c].own
    BY <1>1, <1>5, SeenNew DEF FolderClientInv
<1>7. Knows(tree, FetchedTree, since'[c].view)
    BY <1>1, KnowsFetched
<1>8. FolderShape'
    BY <1>1, <1>2, <1>3, <1>4, <1>5 DEF FolderShape
<1>9. FolderClientInv(c)'
    BY <1>1, <1>2, <1>3, <1>4, <1>6, <1>7, NoGoalIsGoal
    DEF FolderClientInv, FolderSteps, CallTyped, FoundOut, Counted
<1>10. \A d \in Clients \ {c} : SameFor(d) /\ since'[d] = since[d]
    BY <1>2, <1>3, <1>4, <1>5 DEF SameFor
<1>11. QED
    BY <1>2, <1>8, <1>9, <1>10, OthersAsTheyWere

\* find comes to w, in a tree that was just fetched.
LEMMA ReachesKeeps ==
    ASSUME FolderInv, NEW c \in Clients, NEW w, NEW o, NEW s,
           FolderReaches(c, w, o, s), pc[c] \in {"get", "target", "part_back"},
           w \in [at : FoldersIn(FetchedTree) \cup {Root}, under : {NoFolder}, rest : Seq(STRING)],
           w.rest = <<>> => w.at \in FoldersIn(FetchedTree),
           job[c].op = "create" => w.rest = <<>>,
           Stuck(FetchedTree, w),
           s \in Changes, s.view = {}, Knows(tree, o, s.own),
           handle[c] \in FoldersIn(o) \/ (handle[c] = NoFolder /\ job[c].op = "get")
    PROVE  FolderInv'
<1> DEFINE there == w.rest = <<>>
           makes == ~there /\ job[c].create /\ w.at \notin {Root} \cup ReadOnly
           moves == there /\ job[c].op = "move" /\ MoveAllowed(c, o, w.at)
           holds == there /\ job[c].op # "move"
           r == [s EXCEPT !.own = s.view]
<1>1. FolderShape /\ FolderClientInv(c) /\ Tree(tree)
    BY DEF FolderInv
<1>2. /\ Refetched(c)
      /\ own' = [own EXCEPT ![c] = IF holds THEN FetchedTree ELSE o]
      /\ since' = [since EXCEPT ![c] = IF holds THEN r ELSE s]
      /\ handle' = [handle EXCEPT ![c] = IF holds THEN w.at ELSE @]
      /\ UNCHANGED <<tree, where>>
    BY DEF FolderReaches
<1>3. \/ makes /\ Go(c, "part") /\ goal' = [goal EXCEPT ![c] = w]
      \/ moves /\ Go(c, "move") /\ goal' = [goal EXCEPT ![c] = w]
      \/ holds /\ FolderEnds(c, "returned")
      \/ ~(makes \/ moves \/ holds) /\ FolderEnds(c, "raised")
    BY DEF FolderReaches
<1>4. /\ view'[c] = FetchedTree /\ DOMAIN view' = Clients
      /\ \A d \in Clients \ {c} : view'[d] = view[d]
    BY <1>1, <1>2, RefetchedDoes
<1>5. /\ own'[c] = IF holds THEN FetchedTree ELSE o
      /\ DOMAIN own' = Clients /\ \A d \in Clients \ {c} : own'[d] = own[d]
    BY <1>1, <1>2 DEF FolderShape
<1>6. /\ since'[c] = IF holds THEN r ELSE s
      /\ DOMAIN since' = Clients /\ \A d \in Clients \ {c} : since'[d] = since[d]
    BY <1>1, <1>2 DEF FolderShape
<1>7. /\ handle'[c] = IF holds THEN w.at ELSE handle[c]
      /\ DOMAIN handle' = Clients /\ \A d \in Clients \ {c} : handle'[d] = handle[d]
    BY <1>1, <1>2 DEF FolderShape
<1>8. r \in Changes /\ r.view = {} /\ r.own = {}
    BY DEF Changes
<1>9. /\ Knows(tree, FetchedTree, {}) /\ Tree(FetchedTree)
      /\ FoldersIn(FetchedTree) \subseteq FolderIds
    BY <1>1, KnowsFetched, FetchedProperties DEF FoldersIn
<1> HIDE DEF r
\* The trees are known as they are, and the folder at hand is in its tree.
<1>10. /\ since'[c] \in Changes
       /\ Knows(tree, view'[c], since'[c].view) /\ Knows(tree, own'[c], since'[c].own)
       /\ ~holds => own'[c] = o /\ since'[c] = s /\ handle'[c] = handle[c]
       /\ handle'[c] \in FoldersIn(own'[c]) \cup {NoFolder}
  <2>1. CASE holds
      BY <1>4, <1>5, <1>6, <1>7, <1>8, <1>9, <2>1
  <2>2. CASE ~holds
      BY <1>4, <1>5, <1>6, <1>7, <1>9, <2>2
  <2>3. QED
      BY <2>1, <2>2
<1>11. /\ FolderShape' /\ FolderClientInv(c)'
       /\ \A d \in Clients \ {c} : SameFor(d) /\ since'[d] = since[d]
  <2>1. CASE makes /\ Go(c, "part") /\ goal' = [goal EXCEPT ![c] = w]
    <3>1. /\ pc'[c] = "part" /\ job' = job /\ DOMAIN pc' = Clients
          /\ \A d \in Clients \ {c} : pc'[d] = pc[d]
        BY <1>1, <2>1, GoDoes
    <3>2. /\ goal'[c] = w /\ DOMAIN goal' = Clients
          /\ \A d \in Clients \ {c} : goal'[d] = goal[d]
        BY <1>1, <2>1 DEF FolderShape
    <3>3. /\ w \in Goals /\ w.at \in FoldersIn(FetchedTree) /\ w.rest # <<>>
          /\ job[c].op # "create" /\ ~holds
          /\ NameFree(FetchedTree, w.at, Head(w.rest))
        BY <1>9, <2>1 DEF Goals, NameFree, Stuck
    <3>4. CallTyped("part", job[c], handle[c], o)
        BY DEF CallTyped
    <3>5. FoundOut("part", job[c], handle[c], FetchedTree, o, w, s.own)
        BY <3>3 DEF FoundOut
    <3> HIDE DEF makes, moves, holds
    <3>6. FolderClientInv(c)'
        BY <1>2, <1>4, <1>10, <3>1, <3>2, <3>3, <3>4, <3>5 DEF FolderClientInv, FolderSteps, Counted
    <3>7. FolderShape'
        BY <1>1, <1>4, <1>5, <1>6, <1>7, <3>1, <3>2 DEF FolderShape
    <3>8. QED
        BY <1>4, <1>5, <1>6, <1>7, <3>1, <3>2, <3>6, <3>7 DEF SameFor
  <2>2. CASE moves /\ Go(c, "move") /\ goal' = [goal EXCEPT ![c] = w]
    <3>1. /\ pc'[c] = "move" /\ job' = job /\ DOMAIN pc' = Clients
          /\ \A d \in Clients \ {c} : pc'[d] = pc[d]
        BY <1>1, <2>2, GoDoes
    <3>2. /\ goal'[c] = w /\ DOMAIN goal' = Clients
          /\ \A d \in Clients \ {c} : goal'[d] = goal[d]
        BY <1>1, <2>2 DEF FolderShape
    <3>3. /\ w \in Goals /\ w.at \in FoldersIn(FetchedTree)
          /\ handle[c] \in FoldersIn(o) /\ ~holds /\ MoveAllowed(c, o, w.at)
        BY <1>9, <2>2 DEF Goals
    <3>4. CallTyped("move", job[c], handle[c], o)
        BY <3>3 DEF CallTyped
    <3>5. FoundOut("move", job[c], handle[c], FetchedTree, o, w, s.own)
        BY <3>3 DEF FoundOut, MoveAllowed, NameFree
    <3> HIDE DEF makes, moves, holds
    <3>6. FolderClientInv(c)'
        BY <1>2, <1>4, <1>10, <3>1, <3>2, <3>3, <3>4, <3>5 DEF FolderClientInv, FolderSteps, Counted
    <3>7. FolderShape'
        BY <1>1, <1>4, <1>5, <1>6, <1>7, <3>1, <3>2 DEF FolderShape
    <3>8. QED
        BY <1>4, <1>5, <1>6, <1>7, <3>1, <3>2, <3>6, <3>7 DEF SameFor
  <2>3. CASE \E how : FolderEnds(c, how)
    <3>1. /\ pc'[c] = "idle" /\ job'[c] = NoJob /\ goal'[c] = NoGoal
          /\ DOMAIN pc' = Clients /\ DOMAIN job' = Clients /\ DOMAIN goal' = Clients
          /\ \A d \in Clients \ {c} : pc'[d] = pc[d] /\ job'[d] = job[d] /\ goal'[d] = goal[d]
        BY <1>1, <2>3, EndsDoes
    <3> HIDE DEF makes, moves, holds
    <3>2. FolderClientInv(c)'
        BY <1>2, <1>4, <1>10, <3>1, NoGoalIsGoal
        DEF FolderClientInv, FolderSteps, CallTyped, FoundOut, Counted
    <3>3. FolderShape'
        BY <1>1, <1>4, <1>5, <1>6, <1>7, <3>1 DEF FolderShape
    <3>4. QED
        BY <1>4, <1>5, <1>6, <1>7, <3>1, <3>2, <3>3 DEF SameFor
  <2> HIDE DEF makes, moves, holds
  <2>4. QED
      BY <1>3, <2>1, <2>2, <2>3
<1>12. QED
    BY <1>2, <1>11, OthersAsTheyWere

LEMMA GetKeeps ==
    ASSUME FolderInv, NEW c \in Clients, FolderGet(c)
    PROVE  FolderInv'
<1>1. FolderClientInv(c) /\ Tree(tree) /\ pc[c] = "get"
    BY DEF FolderInv, FolderGet
<1>2. CASE FolderNotFound(c)
    BY <1>2, NotFoundKeeps
<1>3. ASSUME NEW w \in FolderMatches(FetchedTree, job[c].to),
             FolderReaches(c, w, own[c], [since[c] EXCEPT !.view = {}])
      PROVE  FolderInv'
  <2> DEFINE s == [since[c] EXCEPT !.view = {}]
  <2>1. s \in Changes /\ s.view = {} /\ s.own = since[c].own
      BY <1>1, SeenNew DEF FolderClientInv
  <2>2. /\ job[c].to \in FolderArgs /\ job[c].op = "get"
        /\ handle[c] \in FoldersIn(own[c]) \cup {NoFolder}
        /\ Knows(tree, own[c], since[c].own)
      BY <1>1 DEF FolderClientInv, CallTyped
  <2>3. /\ w \in [at : FoldersIn(FetchedTree) \cup {Root}, under : {NoFolder}, rest : Seq(STRING)]
        /\ w.rest = <<>> => w.at \in FoldersIn(FetchedTree)
        /\ Stuck(FetchedTree, w)
      BY <1>1, <1>3, <2>2, MatchesProperties, FetchedProperties
  <2> HIDE DEF s
  <2>4. FolderReaches(c, w, own[c], s)
      BY <1>3 DEF s
  <2>5. QED
      BY <1>1, <2>1, <2>2, <2>3, <2>4, ReachesKeeps
<1>4. QED
    BY <1>2, <1>3 DEF FolderGet

LEMMA TargetKeeps ==
    ASSUME FolderInv, NEW c \in Clients, FolderTarget(c)
    PROVE  FolderInv'
<1>1. FolderClientInv(c) /\ Tree(tree) /\ pc[c] = "target"
    BY DEF FolderInv, FolderTarget
<1>2. CASE FolderNotFound(c)
    BY <1>2, NotFoundKeeps
<1>3. ASSUME NEW w \in FolderMatches(FetchedTree, job[c].to), FolderFound(c),
             FolderReaches(c, w, FetchedTree, NoChange)
      PROVE  FolderInv'
  <2>1. NoChange \in Changes /\ NoChange.view = {}
      BY NothingSince
  <2>2. /\ job[c].to \in FolderArgs /\ job[c].op = "move"
        /\ handle[c] \in FoldersIn(FetchedTree)
        /\ Knows(tree, FetchedTree, NoChange.own)
      BY <1>1, <1>3, KnowsFetched DEF FolderClientInv, CallTyped, FolderFound
  <2>3. /\ w \in [at : FoldersIn(FetchedTree) \cup {Root}, under : {NoFolder}, rest : Seq(STRING)]
        /\ w.rest = <<>> => w.at \in FoldersIn(FetchedTree)
        /\ Stuck(FetchedTree, w)
      BY <1>1, <1>3, <2>2, MatchesProperties, FetchedProperties
  <2>4. QED
      BY <1>1, <1>3, <2>1, <2>2, <2>3, ReachesKeeps
<1>4. QED
    BY <1>2, <1>3 DEF FolderTarget

LEMMA PartBackKeeps ==
    ASSUME FolderInv, NEW c \in Clients, FolderPartBack(c)
    PROVE  FolderInv'
<1> DEFINE g == goal[c]
<1>1. FolderClientInv(c) /\ Tree(tree) /\ pc[c] = "part_back"
    BY DEF FolderInv, FolderPartBack
<1>2. CASE FolderNotFound(c)
    BY <1>2, NotFoundKeeps
<1>3. ASSUME {g.at, g.under} \subseteq FoldersIn(FetchedTree),
             NEW w \in Walked(FetchedTree, g.at, g.rest),
             FolderReaches(c, w, own[c], [since[c] EXCEPT !.view = {}])
      PROVE  FolderInv'
  <2> DEFINE s == [since[c] EXCEPT !.view = {}]
  <2>1. s \in Changes /\ s.view = {} /\ s.own = since[c].own
      BY <1>1, SeenNew DEF FolderClientInv
  <2>2. /\ g.rest \in Seq(STRING) /\ Knows(tree, own[c], since[c].own)
        /\ handle[c] \in FoldersIn(own[c]) \/ (handle[c] = NoFolder /\ job[c].op = "get")
        /\ job[c].op = "create" => g.rest = <<>>
      BY <1>1 DEF FolderClientInv, CallTyped, FoundOut, Goals
  <2>3. w \in OnTheWay(FetchedTree, g.at, g.rest) /\ Stuck(FetchedTree, w)
      BY <1>3, <2>2, WalkedProperties
  <2>4. /\ w \in [at : FoldersIn(FetchedTree) \cup {Root}, under : {NoFolder}, rest : Seq(STRING)]
        /\ w.at \in FoldersIn(FetchedTree)
        /\ job[c].op = "create" => w.rest = <<>>
    <3>1. w \in [at : FoldersIn(FetchedTree), under : {NoFolder}, rest : Seq(STRING)]
          /\ Len(w.rest) <= Len(g.rest)
        BY <1>3, <2>3 DEF OnTheWay
    <3>2. g.rest = <<>> => w.rest = <<>>
        BY <3>1
    <3>3. QED
        BY <2>2, <3>1, <3>2
  <2> HIDE DEF s, g
  <2>5. FolderReaches(c, w, own[c], s)
      BY <1>3 DEF s
  <2>6. QED
      BY <1>1, <2>1, <2>2, <2>3, <2>4, <2>5, ReachesKeeps
<1>4. QED
    BY <1>2, <1>3 DEF FolderPartBack

LEMMA ParentKeeps ==
    ASSUME FolderInv, NEW c \in Clients, FolderParent(c)
    PROVE  FolderInv'
<1>1. FolderShape /\ FolderClientInv(c) /\ Tree(tree) /\ pc[c] = "parent"
    BY DEF FolderInv, FolderParent
<1>2. CASE FolderNotFound(c)
    BY <1>2, NotFoundKeeps
<1>3. CASE /\ FolderFound(c)
           /\ Refetched(c)
           /\ own' = [own EXCEPT ![c] = FetchedTree]
           /\ since' = [since EXCEPT ![c].view = {}]
           /\ \/ RenameAllowed(c, FetchedTree, job[c].name) /\ Go(c, "rename") /\ UNCHANGED goal
              \/ ~RenameAllowed(c, FetchedTree, job[c].name) /\ FolderEnds(c, "raised")
           /\ UNCHANGED <<tree, where, handle>>
  <2>1. /\ view'[c] = FetchedTree /\ DOMAIN view' = Clients
        /\ \A d \in Clients \ {c} : view'[d] = view[d]
      BY <1>1, <1>3, RefetchedDoes
  <2>2. /\ own'[c] = FetchedTree /\ DOMAIN own' = Clients
        /\ \A d \in Clients \ {c} : own'[d] = own[d]
      BY <1>1, <1>3 DEF FolderShape
  <2>3. /\ since'[c] = [since[c] EXCEPT !.view = {}] /\ DOMAIN since' = Clients
        /\ \A d \in Clients \ {c} : since'[d] = since[d]
      BY <1>1, <1>3 DEF FolderShape
  <2>4. since'[c] \in Changes /\ since'[c].own = since[c].own
      BY <1>1, <2>3, SeenNew DEF FolderClientInv
  <2>5. /\ Knows(tree, FetchedTree, since'[c].view) /\ Knows(tree, FetchedTree, since'[c].own)
        /\ handle[c] \in FoldersIn(FetchedTree) /\ handle[c] \in FoldersIn(own[c])
      BY <1>1, <1>3, KnowsFetched DEF FolderFound, FolderClientInv, CallTyped
  <2>6. CASE RenameAllowed(c, FetchedTree, job[c].name) /\ Go(c, "rename") /\ UNCHANGED goal
    <3>1. /\ pc'[c] = "rename" /\ job' = job /\ DOMAIN pc' = Clients
          /\ \A d \in Clients \ {c} : pc'[d] = pc[d]
        BY <1>1, <2>6, GoDoes
    <3>2. NameFree(FetchedTree, own[c][handle[c]].parent, job[c].name)
        BY <2>6 DEF RenameAllowed, NameFree
\* The parent was read from the tree as it was: the folder has not been moved.
    <3>3. ASSUME handle[c] \notin since[c].own
          PROVE  NameFree(FetchedTree, FetchedTree[handle[c]].parent, job[c].name)
      <4>1. tree[handle[c]] = own[c][handle[c]]
          BY <1>1, <2>5, <3>3 DEF FolderClientInv, Knows
      <4>2. tree[handle[c]] = FetchedTree[handle[c]]
          BY <1>1, <2>5, FetchedProperties
      <4>3. QED
          BY <3>2, <4>1, <4>2
    <3>4. FoundOut("rename", job[c], handle[c], FetchedTree, FetchedTree, goal[c], since[c].own)
        BY <3>3 DEF FoundOut
    <3>5. CallTyped("rename", job[c], handle[c], FetchedTree)
        BY <1>1, <2>5 DEF FolderClientInv, CallTyped
    <3>6. FolderClientInv(c)'
        BY <1>1, <1>3, <2>1, <2>2, <2>4, <2>5, <2>6, <3>1, <3>4, <3>5
        DEF FolderClientInv, FolderSteps, Counted
    <3>7. FolderShape'
        BY <1>1, <1>3, <2>1, <2>2, <2>3, <2>6, <3>1 DEF FolderShape
    <3>8. \A d \in Clients \ {c} : SameFor(d) /\ since'[d] = since[d]
        BY <1>3, <2>1, <2>2, <2>3, <2>6, <3>1 DEF SameFor
    <3>9. QED
        BY <1>3, <3>6, <3>7, <3>8, OthersAsTheyWere
  <2>7. CASE FolderEnds(c, "raised")
    <3>1. /\ pc'[c] = "idle" /\ job'[c] = NoJob /\ goal'[c] = NoGoal
          /\ DOMAIN pc' = Clients /\ DOMAIN job' = Clients /\ DOMAIN goal' = Clients
          /\ \A d \in Clients \ {c} : pc'[d] = pc[d] /\ job'[d] = job[d] /\ goal'[d] = goal[d]
        BY <1>1, <2>7, EndsDoes
    <3>2. FolderClientInv(c)'
        BY <1>1, <1>3, <2>1, <2>2, <2>4, <2>5, <3>1, NoGoalIsGoal
        DEF FolderClientInv, FolderSteps, CallTyped, FoundOut, Counted
    <3>3. FolderShape'
        BY <1>1, <1>3, <2>1, <2>2, <2>3, <3>1 DEF FolderShape
    <3>4. \A d \in Clients \ {c} : SameFor(d) /\ since'[d] = since[d]
        BY <1>3, <2>1, <2>2, <2>3, <3>1 DEF SameFor
    <3>5. QED
        BY <1>3, <3>2, <3>3, <3>4, OthersAsTheyWere
  <2>8. QED
      BY <1>3, <2>6, <2>7
<1>4. QED
    BY <1>2, <1>3 DEF FolderParent

LEMMA RefreshDoes ==
    ASSUME FolderInv, NEW c \in Clients, FolderRefresh(c)
    PROVE  /\ view'[c] = FetchedTree /\ own'[c] = FetchedTree /\ since'[c] = NoChange
           /\ DOMAIN view' = Clients /\ DOMAIN own' = Clients /\ DOMAIN since' = Clients
           /\ \A d \in Clients \ {c} :
                view'[d] = view[d] /\ own'[d] = own[d] /\ since'[d] = since[d]
           /\ Knows(tree, FetchedTree, NoChange.view) /\ Knows(tree, FetchedTree, NoChange.own)
           /\ NoChange \in Changes
<1>1. FolderShape /\ Tree(tree)
    BY DEF FolderInv
<1>2. /\ view'[c] = FetchedTree /\ DOMAIN view' = Clients
      /\ \A d \in Clients \ {c} : view'[d] = view[d]
    BY <1>1, RefetchedDoes DEF FolderRefresh
<1>3. /\ own' = [own EXCEPT ![c] = FetchedTree]
      /\ since' = [since EXCEPT ![c] = NoChange]
    BY DEF FolderRefresh
<1>4. QED
    BY <1>1, <1>2, <1>3, KnowsFetched, NothingSince DEF FolderShape

LEMMA FreshKeeps ==
    ASSUME FolderInv, NEW c \in Clients, FolderFresh(c)
    PROVE  FolderInv'
<1>1. FolderShape /\ FolderClientInv(c) /\ pc[c] = "fresh"
    BY DEF FolderInv, FolderFresh
<1>2. CASE FolderNotFound(c)
    BY <1>2, NotFoundKeeps
<1>3. CASE /\ FolderFound(c)
           /\ FolderRefresh(c)
           /\ Go(c, "objects")
           /\ UNCHANGED <<tree, where, handle, goal>>
  <2>1. /\ view'[c] = FetchedTree /\ own'[c] = FetchedTree /\ since'[c] = NoChange
        /\ DOMAIN view' = Clients /\ DOMAIN own' = Clients /\ DOMAIN since' = Clients
        /\ \A d \in Clients \ {c} :
             view'[d] = view[d] /\ own'[d] = own[d] /\ since'[d] = since[d]
        /\ Knows(tree, FetchedTree, NoChange.view) /\ Knows(tree, FetchedTree, NoChange.own)
        /\ NoChange \in Changes
      BY <1>3, RefreshDoes
  <2>2. /\ pc'[c] = "objects" /\ job' = job /\ DOMAIN pc' = Clients
        /\ \A d \in Clients \ {c} : pc'[d] = pc[d]
      BY <1>1, <1>3, GoDoes
  <2>3. FolderClientInv(c)'
      BY <1>1, <1>3, <2>1, <2>2
      DEF FolderFound, FolderClientInv, FolderSteps, CallTyped, FoundOut, Counted
  <2>4. FolderShape'
      BY <1>1, <1>3, <2>1, <2>2 DEF FolderShape
  <2>5. \A d \in Clients \ {c} : SameFor(d) /\ since'[d] = since[d]
      BY <1>3, <2>1, <2>2 DEF SameFor
  <2>6. QED
      BY <1>3, <2>3, <2>4, <2>5, OthersAsTheyWere
<1>4. QED
    BY <1>2, <1>3 DEF FolderFresh

LEMMA BackKeeps ==
    ASSUME FolderInv, NEW c \in Clients, FolderBack(c)
    PROVE  FolderInv'
<1>1. FolderShape /\ FolderClientInv(c)
    BY DEF FolderInv
<1>2. CASE FolderNotFound(c)
    BY <1>2, NotFoundKeeps
<1>3. CASE /\ handle[c] = NoFolder \/ FolderFound(c)
           /\ FolderRefresh(c)
           /\ FolderEnds(c, "returned")
           /\ UNCHANGED <<tree, where, handle>>
  <2>1. /\ view'[c] = FetchedTree /\ own'[c] = FetchedTree /\ since'[c] = NoChange
        /\ DOMAIN view' = Clients /\ DOMAIN own' = Clients /\ DOMAIN since' = Clients
        /\ \A d \in Clients \ {c} :
             view'[d] = view[d] /\ own'[d] = own[d] /\ since'[d] = since[d]
        /\ Knows(tree, FetchedTree, NoChange.view) /\ Knows(tree, FetchedTree, NoChange.own)
        /\ NoChange \in Changes
      BY <1>3, RefreshDoes
  <2>2. /\ pc'[c] = "idle" /\ job'[c] = NoJob /\ goal'[c] = NoGoal
        /\ DOMAIN pc' = Clients /\ DOMAIN job' = Clients /\ DOMAIN goal' = Clients
        /\ \A d \in Clients \ {c} : pc'[d] = pc[d] /\ job'[d] = job[d] /\ goal'[d] = goal[d]
      BY <1>1, <1>3, EndsDoes
  <2>3. FolderClientInv(c)'
      BY <1>1, <1>3, <2>1, <2>2, NoGoalIsGoal
      DEF FolderFound, FolderClientInv, FolderSteps, CallTyped, FoundOut, Counted
  <2>4. FolderShape'
      BY <1>1, <1>3, <2>1, <2>2 DEF FolderShape
  <2>5. \A d \in Clients \ {c} : SameFor(d) /\ since'[d] = since[d]
      BY <1>3, <2>1, <2>2 DEF SameFor
  <2>6. QED
      BY <1>3, <2>3, <2>4, <2>5, OthersAsTheyWere
<1>4. QED
    BY <1>2, <1>3 DEF FolderBack

LEMMA CountsKeeps ==
    ASSUME FolderInv, NEW c \in Clients, FolderCounts(c)
    PROVE  FolderInv'
<1> DEFINE ok == /\ SubfoldersInside(c) = {} \/ job[c].subfolders
                 /\ ObjectsInside(c) = {} \/ job[c].objects
<1>1. FolderShape /\ FolderClientInv(c) /\ pc[c] = "objects"
    BY DEF FolderInv, FolderCounts
<1>2. /\ (ok /\ Go(c, "delete")) \/ End(c, "raised")
      /\ since' = [since EXCEPT ![c].objects = {}]
      /\ UNCHANGED <<tree, where, handle, view, own, goal>>
    BY DEF FolderCounts
<1>3. /\ since'[c] = [since[c] EXCEPT !.objects = {}] /\ DOMAIN since' = Clients
      /\ \A d \in Clients \ {c} : since'[d] = since[d]
    BY <1>1, <1>2 DEF FolderShape
<1>4. /\ since'[c] \in Changes /\ since'[c].view = since[c].view
      /\ since'[c].own = since[c].own /\ since'[c].objects = {}
    BY <1>1, <1>3 DEF FolderClientInv, Changes
<1>5. CASE ok /\ Go(c, "delete")
  <2>1. /\ pc'[c] = "delete" /\ job' = job /\ DOMAIN pc' = Clients
        /\ \A d \in Clients \ {c} : pc'[d] = pc[d]
      BY <1>1, <1>5, GoDoes
  <2>2. Counted("delete", job[c], handle[c], view[c], where, {})
      BY <1>5 DEF Counted, SubfoldersInside, ObjectsInside
  <2> HIDE DEF ok
  <2>3. FolderClientInv(c)'
      BY <1>1, <1>2, <1>4, <2>1, <2>2 DEF FolderClientInv, FolderSteps, CallTyped, FoundOut
  <2>4. FolderShape'
      BY <1>1, <1>2, <1>3, <2>1 DEF FolderShape
  <2>5. \A d \in Clients \ {c} : SameFor(d) /\ since'[d] = since[d]
      BY <1>2, <1>3, <2>1 DEF SameFor
  <2>6. QED
      BY <1>2, <2>3, <2>4, <2>5, OthersAsTheyWere
<1>6. CASE End(c, "raised")
  <2> HIDE DEF ok
  <2>1. /\ pc'[c] = "idle" /\ job'[c] = NoJob
        /\ DOMAIN pc' = Clients /\ DOMAIN job' = Clients
        /\ \A d \in Clients \ {c} : pc'[d] = pc[d] /\ job'[d] = job[d]
      BY <1>1, <1>6, EndDoes
  <2>2. FolderClientInv(c)'
      BY <1>1, <1>2, <1>4, <2>1 DEF FolderClientInv, FolderSteps, CallTyped, FoundOut, Counted
  <2>3. FolderShape'
      BY <1>1, <1>2, <1>3, <2>1 DEF FolderShape
  <2>4. \A d \in Clients \ {c} : SameFor(d) /\ since'[d] = since[d]
      BY <1>2, <1>3, <2>1 DEF SameFor
  <2>5. QED
      BY <1>2, <2>2, <2>3, <2>4, OthersAsTheyWere
<1>7. QED
    BY <1>2, <1>5, <1>6

-----------------------------------------------------------------------------
(* The steps that change what the server has.                              *)

\* An object saved in a folder is one that all clients learn is new.
LEMMA ObjectKeeps ==
    ASSUME FolderInv, FolderObject
    PROVE  FolderInv'
<1>1. PICK o \in FolderObjects, f \in FoldersIn(tree) :
         /\ where' = [where EXCEPT ![o] = f]
         /\ since' = [d \in Clients |-> [since[d] EXCEPT !.objects = @ \cup {o}]]
    BY DEF FolderObject
<1>2. UNCHANGED <<pc, job, calls, tree, handle, view, own, goal>>
    BY DEF FolderObject
<1>3. FolderShape /\ Tree(tree)
      /\ where \in [FolderObjects -> FolderIds \cup {NoFolder, GoneFolder}]
    BY DEF FolderInv
<1>4. where' \in [FolderObjects -> FolderIds \cup {NoFolder, GoneFolder}]
    BY <1>1, <1>3 DEF FoldersIn
<1>5. ASSUME NEW c \in Clients
      PROVE  FolderClientInv(c)'
  <2>1. FolderClientInv(c)
      BY DEF FolderInv
  <2>2. since'[c] = [since[c] EXCEPT !.objects = @ \cup {o}]
      BY <1>1
  <2>3. /\ since'[c] \in Changes /\ since'[c].view = since[c].view
        /\ since'[c].own = since[c].own /\ since'[c].objects = since[c].objects \cup {o}
      BY <2>1, <2>2 DEF FolderClientInv, Changes
  <2>4. \A x \in FolderObjects \ (since[c].objects \cup {o}) : where'[x] = where[x]
      BY <1>1, <1>3
  <2>5. Counted(pc[c], job[c], handle[c], view[c], where', since'[c].objects)
      BY <2>1, <2>3, <2>4 DEF FolderClientInv, Counted
  <2>6. QED
      BY <1>2, <2>1, <2>3, <2>5 DEF FolderClientInv
<1>6. FolderShape'
    BY <1>1, <1>2, <1>3 DEF FolderShape
<1>7. QED
    BY <1>2, <1>3, <1>4, <1>5, <1>6 DEF FolderInv

\* All clients learn what a request has changed.
LEMMA WritesDo ==
    ASSUME FolderInv, NEW c \in Clients, NEW t, Tree(t), NEW w, NEW to, FolderWrites(c, t, w, to),
           w \in [FolderObjects -> FolderIds \cup {NoFolder, GoneFolder}],
           \A o \in FolderObjects : w[o] \in {where[o], GoneFolder},
           DOMAIN handle' = Clients, DOMAIN goal' = Clients,
           \A d \in Clients \ {c} : handle'[d] = handle[d] /\ goal'[d] = goal[d]
    PROVE  /\ Tree(tree') /\ FolderShape'
           /\ where' \in [FolderObjects -> FolderIds \cup {NoFolder, GoneFolder}]
           /\ \A d \in Clients \ {c} : FolderClientInv(d)'
           /\ view' = view /\ own' = own
           /\ since'[c] \in Changes /\ since[c].own \subseteq since'[c].own
           /\ Knows(tree', view[c], since'[c].view)
           /\ Knows(tree', own[c], since'[c].own)
           /\ \/ pc'[c] = to /\ job'[c] = job[c] /\ told' = "none"
              \/ pc'[c] = "idle" /\ told' = "failed"
<1> DEFINE changed == { f \in FolderIds : t[f] # tree[f] }
<1>1. /\ tree' = t /\ where' = w /\ view' = view /\ own' = own
      /\ Go(c, to) \/ End(c, "failed")
      /\ since' = [d \in Clients |->
           [since[d] EXCEPT !.own = @ \cup changed, !.view = @ \cup changed]]
    BY DEF FolderWrites
<1>2. FolderShape /\ Tree(tree)
    BY DEF FolderInv
<1>3. /\ DOMAIN pc' = Clients /\ DOMAIN job' = Clients
      /\ \A d \in Clients \ {c} : pc'[d] = pc[d] /\ job'[d] = job[d]
      /\ \/ pc'[c] = to /\ job'[c] = job[c] /\ told' = "none"
         \/ pc'[c] = "idle" /\ told' = "failed"
  <2>1. CASE Go(c, to)
      BY <1>2, <2>1, GoDoes DEF FolderShape
  <2>2. CASE End(c, "failed")
      BY <1>2, <2>2, EndDoes
  <2>3. QED
      BY <1>1, <2>1, <2>2
<1>4. ASSUME NEW d \in Clients
      PROVE  /\ since'[d] \in Changes
             /\ since'[d].own = since[d].own \cup changed
             /\ since'[d].view = since[d].view \cup changed
             /\ since'[d].objects = since[d].objects
             /\ Knows(tree', view[d], since'[d].view)
             /\ Knows(tree', own[d], since'[d].own)
  <2>1. FolderClientInv(d)
      BY DEF FolderInv
  <2>2. since'[d] = [since[d] EXCEPT !.own = @ \cup changed, !.view = @ \cup changed]
      BY <1>1
  <2>3. /\ since'[d] \in Changes
        /\ since'[d].own = since[d].own \cup changed
        /\ since'[d].view = since[d].view \cup changed
        /\ since'[d].objects = since[d].objects
      BY <2>1, <2>2 DEF FolderClientInv, Changes
  <2>4. Knows(t, view[d], since[d].view \cup changed) /\ Knows(t, own[d], since[d].own \cup changed)
      BY <1>2, <2>1, KnowsStill DEF FolderClientInv
  <2>5. QED
      BY <1>1, <2>3, <2>4
<1>5. ASSUME NEW d \in Clients, d # c
      PROVE  FolderClientInv(d)'
  <2>1. /\ FolderClientInv(d)
        /\ pc'[d] = pc[d] /\ job'[d] = job[d] /\ handle'[d] = handle[d] /\ goal'[d] = goal[d]
        /\ view'[d] = view[d] /\ own'[d] = own[d]
      BY <1>1, <1>3, <1>5 DEF FolderInv
  <2>2. /\ since'[d] \in Changes
        /\ since[d].own \subseteq since'[d].own
        /\ since'[d].objects = since[d].objects
        /\ Knows(tree', view[d], since'[d].view)
        /\ Knows(tree', own[d], since'[d].own)
      BY <1>4
  <2>3. FoundOut(pc[d], job[d], handle[d], view[d], own[d], goal[d], since'[d].own)
      BY <2>1, <2>2 DEF FolderClientInv, FoundOut
  <2>4. Counted(pc[d], job[d], handle[d], view[d], where', since'[d].objects)
    <3>1. GoneFolder \notin FolderUnder(view[d], handle[d])
        BY FolderAssumption DEF FolderUnder, FoldersIn
    <3>2. QED
        BY <1>1, <2>1, <2>2, <3>1 DEF FolderClientInv, Counted
  <2>5. QED
      BY <2>1, <2>2, <2>3, <2>4 DEF FolderClientInv
<1>6. FolderShape'
    BY <1>1, <1>2, <1>3 DEF FolderShape
<1>7. QED
    BY <1>1, <1>3, <1>4, <1>5, <1>6

LEMMA PartKeeps ==
    ASSUME FolderInv, NEW c \in Clients, FolderPart(c)
    PROVE  FolderInv'
<1> DEFINE g == goal[c]
           entry == [parent |-> g.at, name |-> Head(g.rest)]
<1>1. /\ FolderShape /\ FolderClientInv(c) /\ Tree(tree) /\ pc[c] = "part"
      /\ where \in [FolderObjects -> FolderIds \cup {NoFolder, GoneFolder}]
    BY DEF FolderInv, FolderPart
<1>2. CASE FolderRefused(c)
    BY <1>1, <1>2, FailKeeps
<1>3. ASSUME g.at \in FoldersIn(tree), NEW f \in FolderIds, tree[f] = NoFolder,
             FolderWrites(c, [tree EXCEPT ![f] = entry], where, "part_back"),
             goal' = [goal EXCEPT ![c] =
                        IF told' = "failed" THEN NoGoal
                        ELSE [at |-> f, under |-> g.at, rest |-> Tail(g.rest)]],
             UNCHANGED handle
      PROVE  FolderInv'
  <2> DEFINE t == [tree EXCEPT ![f] = entry]
             next == [at |-> f, under |-> g.at, rest |-> Tail(g.rest)]
  <2>1. g \in Goals /\ g.rest \in Seq(STRING) /\ g.rest # <<>>
        /\ (job[c].op = "create" => Len(g.rest) = 1)
        /\ handle[c] \in FoldersIn(own[c]) \cup {NoFolder}
        /\ (job[c].op = "get" \/ handle[c] \in FoldersIn(own[c]))
      BY <1>1 DEF FolderClientInv, FoundOut, CallTyped, Goals
  <2>2. /\ Head(g.rest) \in STRING /\ Tail(g.rest) \in Seq(STRING)
        /\ (job[c].op = "create" => Tail(g.rest) = <<>>)
    <3>1. /\ Head(g.rest) \in STRING /\ Tail(g.rest) \in Seq(STRING)
          /\ Len(Tail(g.rest)) = Len(g.rest) - 1
        BY <2>1, HeadTailProperties
    <3>2. ASSUME job[c].op = "create"
          PROVE  Tail(g.rest) = <<>>
      <4>1. Len(Tail(g.rest)) = 0
          BY <2>1, <3>1, <3>2
      <4>2. QED
          BY <3>1, <4>1, EmptySeq
    <3>3. QED
        BY <3>1, <3>2
  <2>3. g.at \in FolderIds
      BY <1>3 DEF FoldersIn
  <2>4. entry \in Folder /\ next \in Goals /\ next.rest = Tail(g.rest)
      BY <2>2, <2>3 DEF Folder, Goals
  <2>5. Tree(t)
    <3> HIDE DEF entry
    <3>1. /\ t \in [FolderIds -> Folder \cup {NoFolder, GoneFolder}]
          /\ t[f] = entry /\ \A x \in FolderIds \ {f} : t[x] = tree[x]
        BY <1>1, <2>4 DEF Tree
    <3>2. entry \notin {NoFolder, GoneFolder}
        BY <2>4, FolderAssumption
    <3> HIDE DEF t
    <3>3. FoldersIn(t) = FoldersIn(tree) \cup {f}
        BY <1>3, <3>1, <3>2, FolderAssumption DEF FoldersIn
    <3>4. ParentsListed(t)
      <4>1. entry.parent = g.at
          BY DEF entry
      <4>2. ASSUME NEW x \in FoldersIn(t)
            PROVE  t[x].parent \in FoldersIn(t) \cup {Root}
        <5>1. CASE x = f
            BY <1>3, <3>1, <3>3, <4>1, <5>1
        <5>2. CASE x # f
            BY <1>1, <3>1, <3>3, <5>2 DEF Tree, ParentsListed, FoldersIn
        <5>3. QED
            BY <5>1, <5>2
      <4>3. QED
          BY <4>2 DEF ParentsListed
    <3>5. QED
        BY <3>1, <3>4 DEF Tree
  <2>6. /\ DOMAIN goal' = Clients /\ goal'[c] = IF told' = "failed" THEN NoGoal ELSE next
        /\ \A d \in Clients \ {c} : goal'[d] = goal[d]
      BY <1>1, <1>3 DEF FolderShape
  <2> HIDE DEF t, next, g
  <2>7. /\ Tree(tree') /\ FolderShape'
        /\ where' \in [FolderObjects -> FolderIds \cup {NoFolder, GoneFolder}]
        /\ \A d \in Clients \ {c} : FolderClientInv(d)'
        /\ view' = view /\ own' = own
        /\ since'[c] \in Changes
        /\ Knows(tree', view[c], since'[c].view)
        /\ Knows(tree', own[c], since'[c].own)
        /\ \/ pc'[c] = "part_back" /\ job'[c] = job[c] /\ told' = "none"
           \/ pc'[c] = "idle" /\ told' = "failed"
    <3>1. FolderWrites(c, t, where, "part_back")
        BY <1>3 DEF t
    <3>2. DOMAIN handle' = Clients /\ \A d \in Clients : handle'[d] = handle[d]
        BY <1>1, <1>3 DEF FolderShape
    <3>3. QED
        BY <1>1, <2>5, <2>6, <3>1, <3>2, WritesDo
  <2>8. FolderClientInv(c)'
    <3>1. CASE pc'[c] = "part_back" /\ job'[c] = job[c] /\ told' = "none"
        BY <1>3, <2>1, <2>2, <2>4, <2>6, <2>7, <3>1
        DEF FolderClientInv, FolderSteps, CallTyped, FoundOut, Counted
    <3>2. CASE pc'[c] = "idle" /\ told' = "failed"
        BY <1>3, <2>1, <2>6, <2>7, <3>2, NoGoalIsGoal
        DEF FolderClientInv, FolderSteps, CallTyped, FoundOut, Counted
    <3>3. QED
        BY <2>7, <3>1, <3>2
  <2>9. QED
      BY <2>7, <2>8 DEF FolderInv
<1>4. QED
    BY <1>2, <1>3 DEF FolderPart

\* A request that leaves the client at the end of its call, or without one.
LEMMA WriteKeeps ==
    ASSUME FolderInv, NEW c \in Clients, NEW t, Tree(t), NEW w, FolderWrites(c, t, w, "back"),
           w \in [FolderObjects -> FolderIds \cup {NoFolder, GoneFolder}],
           \A o \in FolderObjects : w[o] \in {where[o], GoneFolder},
           DOMAIN handle' = Clients, DOMAIN goal' = Clients,
           \A d \in Clients \ {c} : handle'[d] = handle[d] /\ goal'[d] = goal[d],
           handle'[c] \in {handle[c], NoFolder}, goal'[c] \in {goal[c], NoGoal}
    PROVE  FolderInv'
<1>1. FolderClientInv(c)
    BY DEF FolderInv
<1>2. /\ Tree(tree') /\ FolderShape'
      /\ where' \in [FolderObjects -> FolderIds \cup {NoFolder, GoneFolder}]
      /\ \A d \in Clients \ {c} : FolderClientInv(d)'
      /\ view' = view /\ own' = own
      /\ since'[c] \in Changes
      /\ Knows(tree', view[c], since'[c].view)
      /\ Knows(tree', own[c], since'[c].own)
      /\ pc'[c] \in {"back", "idle"}
    BY WritesDo
<1>3. goal'[c] \in Goals /\ handle'[c] \in FoldersIn(own[c]) \cup {NoFolder}
    BY <1>1, NoGoalIsGoal DEF FolderClientInv, CallTyped
<1>4. FolderClientInv(c)'
    BY <1>2, <1>3 DEF FolderClientInv, FolderSteps, CallTyped, FoundOut, Counted
<1>5. QED
    BY <1>2, <1>4 DEF FolderInv

\* A tree in which one folder is another one's, or has another name.
LEMMA EntryChanged ==
    ASSUME NEW t, Tree(t), NEW h \in FoldersIn(t), NEW u, NEW entry \in Folder,
           u = [t EXCEPT ![h] = entry], entry.parent \in FoldersIn(t) \cup {Root}
    PROVE  Tree(u) /\ FoldersIn(u) = FoldersIn(t)
<1>1. /\ u \in [FolderIds -> Folder \cup {NoFolder, GoneFolder}]
      /\ u[h] = entry /\ \A x \in FolderIds \ {h} : u[x] = t[x]
      /\ h \in FolderIds
    BY DEF Tree, FoldersIn
<1>2. FoldersIn(u) = FoldersIn(t)
    BY <1>1, FolderAssumption DEF FoldersIn
<1>3. ParentsListed(u)
  <2>1. ASSUME NEW x \in FoldersIn(u)
        PROVE  u[x].parent \in FoldersIn(t) \cup {Root}
    <3>1. CASE x = h
        BY <1>1, <3>1
    <3>2. CASE x # h
        BY <1>1, <1>2, <3>2 DEF Tree, ParentsListed, FoldersIn
    <3>3. QED
        BY <3>1, <3>2
  <2>2. QED
      BY <1>2, <2>1 DEF ParentsListed
<1>4. QED
    BY <1>1, <1>2, <1>3 DEF Tree

LEMMA MoveKeeps ==
    ASSUME FolderInv, NEW c \in Clients, FolderMove(c)
    PROVE  FolderInv'
<1> DEFINE h == handle[c]
           entry == [parent |-> goal[c].at, name |-> tree[h].name]
           t == [tree EXCEPT ![h].parent = goal[c].at]
<1>1. /\ FolderShape /\ Tree(tree) /\ pc[c] = "move"
      /\ where \in [FolderObjects -> FolderIds \cup {NoFolder, GoneFolder}]
    BY DEF FolderInv, FolderMove
<1>2. CASE FolderRefused(c)
    BY <1>1, <1>2, FailKeeps
<1>3. CASE /\ {h, goal[c].at} \subseteq FoldersIn(tree)
           /\ FolderWrites(c, t, where, "back")
           /\ goal' = [goal EXCEPT ![c] = NoGoal]
           /\ UNCHANGED handle
  <2>1. tree[h] \in Folder /\ h \in FolderIds /\ goal[c].at \in FolderIds
      BY <1>1, <1>3, TreeFolders DEF FoldersIn
  <2>2. entry \in Folder /\ t = [tree EXCEPT ![h] = entry] /\ entry.parent = goal[c].at
    <3>1. [tree[h] EXCEPT !.parent = goal[c].at] = entry /\ entry \in Folder
        BY <2>1 DEF Folder
    <3>2. t = [tree EXCEPT ![h] = [tree[h] EXCEPT !.parent = goal[c].at]]
        OBVIOUS
    <3> HIDE DEF t
    <3>3. QED
        BY <3>1, <3>2
  <2> HIDE DEF entry, t
  <2>3. Tree(t)
      BY <1>1, <1>3, <2>2, EntryChanged
  <2>4. /\ DOMAIN goal' = Clients /\ goal'[c] = NoGoal
        /\ \A d \in Clients \ {c} : goal'[d] = goal[d]
      BY <1>1, <1>3 DEF FolderShape
  <2>5. DOMAIN handle' = Clients /\ \A d \in Clients : handle'[d] = handle[d]
      BY <1>1, <1>3 DEF FolderShape
  <2>6. QED
      BY <1>1, <1>3, <2>3, <2>4, <2>5, WriteKeeps
<1>4. QED
    BY <1>2, <1>3 DEF FolderMove

LEMMA RenameKeeps ==
    ASSUME FolderInv, NEW c \in Clients, FolderRename(c)
    PROVE  FolderInv'
<1> DEFINE h == handle[c]
           entry == [parent |-> tree[h].parent, name |-> job[c].name]
           t == [tree EXCEPT ![h].name = job[c].name]
<1>1. /\ FolderShape /\ FolderClientInv(c) /\ Tree(tree) /\ pc[c] = "rename"
      /\ where \in [FolderObjects -> FolderIds \cup {NoFolder, GoneFolder}]
    BY DEF FolderInv, FolderRename
<1>2. CASE FolderRefused(c)
    BY <1>1, <1>2, FailKeeps
<1>3. CASE /\ h \in FoldersIn(tree)
           /\ FolderWrites(c, t, where, "back")
           /\ UNCHANGED <<handle, goal>>
  <2>1. /\ tree[h] \in Folder /\ h \in FolderIds /\ job[c].name \in STRING
        /\ tree[h].parent \in FoldersIn(tree) \cup {Root}
      BY <1>1, <1>3, TreeFolders DEF FoldersIn, FolderClientInv, CallTyped
  <2>2. entry \in Folder /\ t = [tree EXCEPT ![h] = entry] /\ entry.parent = tree[h].parent
    <3>1. [tree[h] EXCEPT !.name = job[c].name] = entry /\ entry \in Folder
        BY <2>1 DEF Folder
    <3>2. t = [tree EXCEPT ![h] = [tree[h] EXCEPT !.name = job[c].name]]
        OBVIOUS
    <3> HIDE DEF t
    <3>3. QED
        BY <3>1, <3>2
  <2> HIDE DEF entry, t
  <2>3. Tree(t)
      BY <1>1, <1>3, <2>1, <2>2, EntryChanged
  <2>4. QED
      BY <1>1, <1>3, <2>3, WriteKeeps DEF FolderShape
<1>4. QED
    BY <1>2, <1>3 DEF FolderRename

LEMMA DeleteKeeps ==
    ASSUME FolderInv, NEW c \in Clients, FolderDelete(c)
    PROVE  FolderInv'
<1> DEFINE h == handle[c]
           gone == FolderUnder(tree, h)
           t == [f \in FolderIds |-> IF f \in gone THEN GoneFolder ELSE tree[f]]
           w == [o \in FolderObjects |-> IF where[o] \in gone THEN GoneFolder ELSE where[o]]
<1>1. /\ FolderShape /\ Tree(tree) /\ pc[c] = "delete"
      /\ where \in [FolderObjects -> FolderIds \cup {NoFolder, GoneFolder}]
    BY DEF FolderInv, FolderDelete
<1>2. CASE FolderRefused(c)
    BY <1>1, <1>2, FailKeeps
<1>3. CASE /\ h \in FoldersIn(tree)
           /\ FolderWrites(c, t, w, "back")
           /\ handle' = [handle EXCEPT ![c] = IF told' = "failed" THEN @ ELSE NoFolder]
           /\ UNCHANGED goal
  <2>1. Tree(t)
    <3>1. /\ t \in [FolderIds -> Folder \cup {NoFolder, GoneFolder}]
          /\ FoldersIn(t) = FoldersIn(tree) \ gone
          /\ \A f \in FoldersIn(t) : t[f] = tree[f]
        BY <1>1, FolderAssumption DEF Tree, FoldersIn
\* With a folder goes all that is in it.
    <3>2. ASSUME NEW f \in FoldersIn(t)
          PROVE  t[f].parent \in FoldersIn(t) \cup {Root}
      <4>1. f \in FoldersIn(tree) /\ f \notin gone /\ t[f] = tree[f]
          BY <3>1
      <4>2. FolderAbove(tree, f) = {f} \cup FolderAbove(tree, tree[f].parent)
          BY <1>1, <4>1, AboveStep DEF Tree
      <4>3. tree[f].parent \notin gone
          BY <4>1, <4>2 DEF FolderUnder
      <4>4. QED
          BY <1>1, <3>1, <4>1, <4>3 DEF Tree, ParentsListed
    <3>3. QED
        BY <3>1, <3>2 DEF Tree, ParentsListed
  <2>2. /\ w \in [FolderObjects -> FolderIds \cup {NoFolder, GoneFolder}]
        /\ \A o \in FolderObjects : w[o] \in {where[o], GoneFolder}
      BY <1>1
  <2>3. /\ DOMAIN handle' = Clients /\ handle'[c] \in {handle[c], NoFolder}
        /\ \A d \in Clients \ {c} : handle'[d] = handle[d]
      BY <1>1, <1>3 DEF FolderShape
  <2>4. DOMAIN goal' = Clients /\ \A d \in Clients : goal'[d] = goal[d]
      BY <1>1, <1>3 DEF FolderShape
  <2> HIDE DEF t, w, gone
  <2>5. QED
      BY <1>3, <2>1, <2>2, <2>3, <2>4, WriteKeeps
<1>4. QED
    BY <1>2, <1>3 DEF FolderDelete

-----------------------------------------------------------------------------
(* The invariant.                                                          *)

LEMMA FolderInvInit ==
    ASSUME ClientInit, FolderInit
    PROVE  FolderInv
<1>1. Tree(tree)
    BY FolderAssumption DEF FolderInit, Tree, ParentsListed, FoldersIn, Folder
<1>2. /\ pc = [c \in Clients |-> "idle"] /\ job = [c \in Clients |-> NoJob]
      /\ where = [o \in FolderObjects |-> NoFolder]
      /\ handle \in [Clients -> FoldersIn(FetchedTree) \ ReadOnly]
      /\ view = [c \in Clients |-> FetchedTree] /\ own = view
      /\ goal = [c \in Clients |-> NoGoal] /\ since = [c \in Clients |-> NoChange]
    BY DEF ClientInit, FolderInit
<1>3. FolderShape
    BY <1>2 DEF FolderShape
<1>4. ASSUME NEW c \in Clients
      PROVE  FolderClientInv(c)
  <2>1. /\ pc[c] = "idle" /\ goal[c] = NoGoal /\ since[c] = NoChange
        /\ view[c] = FetchedTree /\ own[c] = FetchedTree
        /\ handle[c] \in FoldersIn(FetchedTree)
      BY <1>2
  <2>2. Knows(tree, FetchedTree, since[c].view) /\ Knows(tree, FetchedTree, since[c].own)
      BY <1>1, KnowsFetched
  <2>3. QED
      BY <2>1, <2>2, NoGoalIsGoal, NothingSince
      DEF FolderClientInv, FolderSteps, CallTyped, FoundOut, Counted
<1>5. where \in [FolderObjects -> FolderIds \cup {NoFolder, GoneFolder}]
    BY <1>2
<1>6. QED
    BY <1>1, <1>3, <1>4, <1>5 DEF FolderInv

LEMMA FolderInvNext ==
    ASSUME FolderInv, [FolderNext]_<<folderVars, clientVars>>
    PROVE  FolderInv'
<1>1. CASE FolderObject
    BY <1>1, ObjectKeeps
<1>2. ASSUME NEW c \in Clients,
             \/ FolderCallFind(c) \/ FolderCallChange(c) \/ FolderCallRename(c)
             \/ FolderCallCreate(c) \/ FolderTakeChild(c)
      PROVE  FolderInv'
    BY <1>2, CallFindKeeps, CallChangeKeeps, CallRenameKeeps, CallCreateKeeps, TakeChildKeeps
<1>3. ASSUME NEW c \in Clients,
             \/ FolderGet(c) \/ FolderTarget(c) \/ FolderPartBack(c) \/ FolderParent(c)
             \/ FolderFresh(c) \/ FolderCounts(c) \/ FolderBack(c) \/ FolderFail(c)
      PROVE  FolderInv'
    BY <1>3, GetKeeps, TargetKeeps, PartBackKeeps, ParentKeeps, FreshKeeps, CountsKeeps,
       BackKeeps, FailKeeps
<1>4. ASSUME NEW c \in Clients,
             FolderPart(c) \/ FolderMove(c) \/ FolderRename(c) \/ FolderDelete(c)
      PROVE  FolderInv'
    BY <1>4, PartKeeps, MoveKeeps, RenameKeeps, DeleteKeeps
<1>5. CASE UNCHANGED <<folderVars, clientVars>>
  <2>1. UNCHANGED <<tree, where, pc, job, handle, view, own, goal, since>>
      BY <1>5 DEF folderVars, clientVars
  <2>2. QED
      BY <2>1 DEF FolderInv, FolderShape, FolderClientInv
<1>6. QED
    BY <1>1, <1>2, <1>3, <1>4, <1>5 DEF FolderNext

LEMMA FolderInvAlways == FolderSpec => []FolderInv
<1>1. ClientInit /\ FolderInit => FolderInv
    BY FolderInvInit
<1>2. FolderInv /\ [FolderNext]_<<folderVars, clientVars>> => FolderInv'
    BY FolderInvNext
<1>3. QED
    BY <1>1, <1>2, PTL DEF FolderSpec

LEMMA FolderInvTyped ==
    ASSUME FolderInv
    PROVE  FolderTypeOK
<1>1. ASSUME NEW t, Tree(t)
      PROVE  \A f \in FolderIds :
                \/ t[f] \in {NoFolder, GoneFolder}
                \/ t[f].parent \in FolderIds \cup {Root} /\ t[f].name \in STRING
    BY <1>1 DEF Tree, Folder
<1>2. \A t \in {tree} \cup { view[c] : c \in Clients } \cup { own[c] : c \in Clients } : Tree(t)
    BY DEF FolderInv, FolderClientInv, Knows
<1>3. ASSUME NEW c \in Clients
      PROVE  /\ handle[c] \in FolderIds \cup {NoFolder}
             /\ handle[c] \in FoldersIn(own[c]) \/ handle[c] = NoFolder
             /\ goal[c].at \in FolderIds \cup {NoFolder}
             /\ since[c].view \subseteq since[c].own /\ since[c].own \subseteq FolderIds
             /\ since[c].objects \subseteq FolderObjects
             /\ pc[c] \in FolderSteps
  <2>1. FolderClientInv(c)
      BY DEF FolderInv
  <2>2. QED
      BY <2>1 DEF FolderClientInv, CallTyped, FoldersIn, Goals, Changes
<1>4. QED
    BY <1>1, <1>2, <1>3 DEF FolderInv, FolderTypeOK, FolderSteps

\* Trees, of the server and of the clients, and what clients have at hand are of
\* their types whatever the clients do; the folder at hand is always one of the
\* tree it was loaded from.
THEOREM FolderTypeCorrect == FolderSpec => []FolderTypeOK
<1>1. FolderInv => FolderTypeOK
    BY FolderInvTyped
<1>2. QED
    BY <1>1, FolderInvAlways, PTL

-----------------------------------------------------------------------------
(* A folder does not come to be inside itself.                             *)

\* What is above f in t is known by v as it is, but for what has changed.
LEMMA KnownAbove ==
    ASSUME NEW t, Tree(t), NEW v, NEW s, Knows(t, v, s), NEW f \in FoldersIn(t),
           f \in FoldersIn(v), FolderAbove(t, f) \cap FoldersIn(v) \cap s = {}
    PROVE  \A g \in FolderAbove(t, f) \ {Root} : g \in FoldersIn(v) /\ v[g] = t[g]
<1> DEFINE A == FolderAbove(t, f)
           S == FoldersIn(v) \cup {Root}
<1>1. \A g \in (S \cap A) \ {Root} : t[g].parent \in S
    BY DEF Knows, Tree, ParentsListed
<1>2. A \subseteq S
  <2> HIDE DEF S
  <2>1. f \in S
      BY DEF S
  <2>2. QED
      BY <1>1, <2>1, AboveLeast DEF Tree
<1>3. QED
    BY <1>2 DEF Knows

LEMMA MoveStaysTree ==
    ASSUME NEW t, Tree(t), NEW u, Tree(u), NEW v, NEW vs, Knows(t, v, vs),
           NEW o, NEW os, Knows(t, o, os), vs \subseteq os,
           NEW h \in FoldersIn(t), NEW a \in FoldersIn(t), h \in FoldersIn(o), a \in FoldersIn(v),
           ~PathsUnder(FolderPath(v, a), FolderPath(o, h)),
           FoldersIn(u) = FoldersIn(t), u[h].parent = a,
           \A g \in FoldersIn(t) \ {h} : u[g] = t[g],
           FolderAbove(t, a) \cap (vs \cup (FoldersIn(o) \cap os)) = {}
    PROVE  FolderUnder(t, Root) \subseteq FolderUnder(u, Root)
<1> DEFINE A == FolderAbove(t, a)
<1>0. ParentsListed(t) /\ ParentsListed(u) /\ Tree(v) /\ Rooted(v) /\ Tree(o) /\ Rooted(o)
      /\ ParentsListed(v) /\ ParentsListed(o) /\ Root \notin FoldersIn(t)
    BY TreeFolders DEF Knows, Tree
<1>1. \A g \in A \ {Root} : g \in FoldersIn(v) /\ v[g] = t[g]
    BY KnownAbove
<1>2. FolderAbove(v, a) = A
    BY <1>0, <1>1, AboveAlike
<1>3. Root \in A
    BY <1>0, <1>2 DEF Rooted
<1>4. a \in A /\ \A g \in A \ {Root} : t[g].parent \in A
    BY <1>0, AboveProperties
\* h is not above the target: its path would begin the path of the target.
<1>5. h \notin A
  <2>1. SUFFICES ASSUME h \in A
                 PROVE  FALSE
      OBVIOUS
  <2> DEFINE B == FolderAbove(t, h)
  <2>2. B \subseteq A
      BY <1>0, <2>1, AboveOfAbove
  <2>3. \A g \in B \ {Root} : g \in FoldersIn(o) /\ o[g] = t[g]
      BY <2>2, KnownAbove
  <2>4. \A g \in B \ {Root} : g \in FoldersIn(v) /\ v[g] = t[g]
      BY <1>1, <2>2
  <2>5. FolderAbove(o, h) = B /\ h \in FoldersIn(v)
      BY <1>0, <1>1, <2>1, <2>3, AboveAlike
  <2>6. \A g \in FolderAbove(o, h) \ {Root} : g \in FoldersIn(v) /\ v[g] = o[g]
      BY <2>3, <2>4, <2>5
  <2>7. FolderPath(v, h) = FolderPath(o, h)
      BY <1>0, <2>6, PathAlike
  <2>8. PathsUnder(FolderPath(v, a), FolderPath(v, h))
      BY <1>0, <1>2, <2>1, PathAbove
  <2>9. QED
      BY <2>7, <2>8
\* So the target is still below the root, and with it whatever was.
<1>6. Root \in FolderAbove(u, a)
  <2>1. \A g \in A \ {Root} : g \in FoldersIn(u) /\ u[g].parent = t[g].parent
      BY <1>0, <1>5, AboveProperties
  <2>2. FolderAbove(u, a) = A
      BY <1>0, <2>1, AboveAlike
  <2>3. QED
      BY <1>3, <2>2
<1>7. ASSUME NEW f \in FoldersIn(t), Root \in FolderAbove(t, f), Root \notin FolderAbove(u, f)
      PROVE  FALSE
  <2> DEFINE X == FolderAbove(u, f)
  <2>1. /\ f \in X /\ X \subseteq FoldersIn(u) \cup {Root}
        /\ \A g \in X \ {Root} : u[g].parent \in X
      BY <1>0, AboveProperties
  <2>2. h \notin X
    <3>1. SUFFICES ASSUME h \in X
                   PROVE  FALSE
        OBVIOUS
    <3>2. a \in X
        BY <1>0, <2>1, <3>1
    <3>3. FolderAbove(u, a) \subseteq X
        BY <1>0, <3>2, AboveOfAbove
    <3>4. QED
        BY <1>6, <1>7, <3>3
  <2>3. \A g \in (X \cap FolderAbove(t, f)) \ {Root} : t[g].parent \in X
      BY <2>1, <2>2
  <2>4. FolderAbove(t, f) \subseteq X
    <3> HIDE DEF X
    <3>1. QED
        BY <1>0, <2>1, <2>3, AboveLeast
  <2>5. QED
      BY <1>7, <2>4
<1>8. QED
    BY <1>7 DEF FolderUnder

LEMMA FolderMovesItself ==
    ASSUME FolderInv, [FolderNext]_<<folderVars, clientVars>>, NEW c \in Clients, pc'[c] # pc[c],
           pc[c] \in {"move", "rename", "part", "delete"}
    PROVE  \/ FolderFail(c)
           \/ pc[c] = "move" /\ FolderMove(c)
           \/ pc[c] = "rename" /\ FolderRename(c)
           \/ pc[c] = "part" /\ FolderPart(c)
           \/ pc[c] = "delete" /\ FolderDelete(c)
<1>1. FolderShape
    BY DEF FolderInv
<1>2. ~(UNCHANGED <<folderVars, clientVars>>) /\ ~FolderObject
    BY DEF clientVars, FolderObject
<1>3. PICK d \in Clients :
        \/ FolderCallFind(d) \/ FolderCallChange(d) \/ FolderCallRename(d)
        \/ FolderCallCreate(d) \/ FolderTakeChild(d)
        \/ FolderGet(d) \/ FolderTarget(d) \/ FolderPart(d) \/ FolderPartBack(d)
        \/ FolderMove(d) \/ FolderParent(d) \/ FolderRename(d)
        \/ FolderFresh(d) \/ FolderCounts(d) \/ FolderDelete(d)
        \/ FolderBack(d) \/ FolderFail(d)
    BY <1>2 DEF FolderNext
<1> DEFINE Elsewhere == \A e \in Clients \ {d} : pc'[e] = pc[e]
<1>4. Elsewhere
  <2>1. \A j, to : Begin(d, j, to) => Elsewhere
      BY <1>1, BeginDoes
  <2>2. \A to : Go(d, to) => Elsewhere
      BY <1>1, GoDoes
  <2>3. \A how : End(d, how) => Elsewhere
      BY <1>1, EndDoes
  <2> HIDE DEF Elsewhere
  <2>4. \A how : FolderEnds(d, how) => Elsewhere
      BY <2>3 DEF FolderEnds
  <2>5. \A t, w, to : FolderWrites(d, t, w, to) => Elsewhere
      BY <2>2, <2>3 DEF FolderWrites
  <2>6. \A w, o, s : FolderReaches(d, w, o, s) => Elsewhere
      BY <2>2, <2>4 DEF FolderReaches
  <2>7. FolderNotFound(d) \/ FolderRefused(d) => Elsewhere
      BY <2>4 DEF FolderNotFound, FolderRefused
  <2>8. FolderTakeChild(d) => Elsewhere
      BY DEF FolderTakeChild, Elsewhere
  <2>9. CASE \/ FolderCallFind(d) \/ FolderCallChange(d) \/ FolderCallRename(d)
             \/ FolderCallCreate(d)
      BY <2>1, <2>9 DEF FolderCallFind, FolderCallChange, FolderCallRename, FolderCallCreate
  <2>10. CASE FolderGet(d) \/ FolderTarget(d) \/ FolderPartBack(d)
      BY <2>6, <2>7, <2>10 DEF FolderGet, FolderTarget, FolderPartBack
  <2>11. CASE FolderPart(d) \/ FolderMove(d) \/ FolderRename(d) \/ FolderDelete(d)
      BY <2>5, <2>7, <2>11 DEF FolderPart, FolderMove, FolderRename, FolderDelete
  <2>12. CASE FolderParent(d) \/ FolderFresh(d) \/ FolderCounts(d) \/ FolderBack(d) \/ FolderFail(d)
      BY <2>2, <2>3, <2>4, <2>7, <2>12
      DEF FolderParent, FolderFresh, FolderCounts, FolderBack, FolderFail
  <2>13. QED
      BY <1>3, <2>8, <2>9, <2>10, <2>11, <2>12
<1>5. d = c
    BY <1>4
<1>6. /\ FolderGet(c) => pc[c] = "get"
      /\ FolderTarget(c) => pc[c] = "target"
      /\ FolderPartBack(c) => pc[c] = "part_back"
      /\ FolderParent(c) => pc[c] = "parent"
      /\ FolderFresh(c) => pc[c] = "fresh"
      /\ FolderCounts(c) => pc[c] = "objects"
      /\ FolderBack(c) => pc[c] = "back"
      /\ FolderTakeChild(c) => pc[c] = "idle"
    BY DEF FolderGet, FolderTarget, FolderPartBack, FolderParent, FolderFresh, FolderCounts,
           FolderBack, FolderTakeChild
<1>7. FolderCallFind(c) \/ FolderCallChange(c) \/ FolderCallRename(c) \/ FolderCallCreate(c)
      => pc[c] = "idle"
  <2>1. \A j, to : Begin(c, j, to) => pc[c] = "idle"
      BY DEF Begin
  <2>2. QED
      BY <2>1 DEF FolderCallFind, FolderCallChange, FolderCallRename, FolderCallCreate
<1>8. /\ FolderMove(c) => pc[c] = "move"
      /\ FolderRename(c) => pc[c] = "rename"
      /\ FolderPart(c) => pc[c] = "part"
      /\ FolderDelete(c) => pc[c] = "delete"
    BY DEF FolderMove, FolderRename, FolderPart, FolderDelete
<1>9. QED
    BY <1>3, <1>5, <1>6, <1>7, <1>8

\* A request that changed nothing has broken nothing.
LEMMA NothingWritten ==
    ASSUME tree' = tree, where' = where, NEW c
    PROVE  MoveKeepsTree(c) /\ NamesKeptApart(c) /\ DeleteSparesFolders(c) /\ DeleteSparesObjects(c)
BY DEF MoveKeepsTree, NamesKeptApart, DeleteSparesFolders, DeleteSparesObjects, FoldersIn, FolderUnder

LEMMA FailWritesNothing ==
    ASSUME NEW c, FolderFail(c) \/ FolderRefused(c)
    PROVE  tree' = tree /\ where' = where
BY DEF FolderFail, FolderRefused

\* The siblings of a name were looked for in v, or what has it came later.
LEMMA NameKnownFree ==
    ASSUME NEW t, NEW v, NEW s, Knows(t, v, s), NEW a, NEW name, NameFree(v, a, name),
           NEW g \in FoldersIn(t), t[g].parent = a, t[g].name = name
    PROVE  g \in s
BY DEF Knows, NameFree, ChildrenNamed

LEMMA MoveKeepsFolders ==
    ASSUME FolderInv, NEW c \in Clients, FolderMove(c)
    PROVE  MoveKeepsTree(c) /\ NamesKeptApart(c)
<1> DEFINE h == handle[c]
           a == goal[c].at
           vs == since[c].view
           os == since[c].own
<1>1. FolderClientInv(c) /\ Tree(tree) /\ Tree(tree') /\ pc[c] = "move"
  <2>1. FolderInv'
      BY MoveKeeps
  <2>2. QED
      BY <2>1 DEF FolderInv, FolderMove
<1>2. CASE FolderRefused(c)
    BY <1>2, FailWritesNothing, NothingWritten
<1>3. CASE /\ {h, a} \subseteq FoldersIn(tree)
           /\ FolderWrites(c, [tree EXCEPT ![h].parent = a], where, "back")
  <2>1. /\ Knows(tree, view[c], vs) /\ Knows(tree, own[c], os) /\ vs \subseteq os
        /\ h \in FoldersIn(own[c])
        /\ NameFree(view[c], a, own[c][h].name)
        /\ ~PathsUnder(FolderPath(view[c], a), FolderPath(own[c], h))
      BY <1>1 DEF FolderClientInv, FoundOut, CallTyped, Changes
  <2>2. tree' = [tree EXCEPT ![h].parent = a]
      BY <1>3 DEF FolderWrites
  <2>3. tree[h] \in Folder /\ h \in FolderIds
      BY <1>1, <1>3, TreeFolders DEF FoldersIn
  <2>4. /\ tree'[h] = [parent |-> a, name |-> tree[h].name]
        /\ \A g \in FolderIds \ {h} : tree'[g] = tree[g]
    <3>1. tree'[h] = [tree[h] EXCEPT !.parent = a] /\ \A g \in FolderIds \ {h} : tree'[g] = tree[g]
        BY <1>1, <2>2, <2>3 DEF Tree
    <3>2. QED
        BY <2>3, <3>1 DEF Folder
  <2>5. FoldersIn(tree') = FoldersIn(tree)
    <3>1. [parent |-> a, name |-> tree[h].name] \in Folder
        BY <1>1, <1>3, <2>3 DEF Folder, FoldersIn
    <3>2. QED
        BY <1>3, <2>3, <2>4, <3>1, FolderAssumption DEF FoldersIn
  <2> HIDE DEF h, a, vs, os
  <2>6. MoveKeepsTree(c)
    <3>1. CASE FolderAbove(tree, a) \cap (vs \cup (FoldersIn(own[c]) \cap os)) # {}
        BY <3>1 DEF MoveKeepsTree, a, vs, os
    <3>2. CASE FolderAbove(tree, a) \cap (vs \cup (FoldersIn(own[c]) \cap os)) = {}
      <4>1. a \in FoldersIn(view[c]) /\ tree'[h].parent = a
            /\ \A g \in FoldersIn(tree) \ {h} : tree'[g] = tree[g]
          BY <2>1, <2>4 DEF NameFree, FoldersIn
      <4>2. FolderUnder(tree, Root) \subseteq FolderUnder(tree', Root)
          BY <1>1, <1>3, <2>1, <2>5, <3>2, <4>1, MoveStaysTree
      <4>3. QED
          BY <4>2 DEF MoveKeepsTree
    <3>3. QED
        BY <3>1, <3>2
  <2>7. NamesKeptApart(c)
    <3>1. SUFFICES ASSUME NEW f \in FoldersIn(tree'), NEW g \in FoldersIn(tree'),
                          f # g, tree'[f] = tree'[g], tree'[f] # tree[f]
                   PROVE  g \in vs \/ f \in os
        BY DEF NamesKeptApart, vs, os
    <3>2. f = h /\ g \in FoldersIn(tree) /\ tree[g] = tree'[h]
        BY <2>4, <2>5, <3>1 DEF FoldersIn
    <3>3. tree[g].parent = a /\ tree[g].name = tree[h].name
        BY <2>4, <3>2
    <3>4. ASSUME h \notin os
          PROVE  g \in vs
      <4>1. tree[h] = own[c][h]
          BY <2>1, <3>4 DEF Knows
      <4>2. QED
          BY <2>1, <3>2, <3>3, <4>1, NameKnownFree
    <3>5. QED
        BY <3>2, <3>4
  <2>8. QED
      BY <2>6, <2>7
<1>4. QED
    BY <1>2, <1>3 DEF FolderMove

LEMMA RenameKeepsNames ==
    ASSUME FolderInv, NEW c \in Clients, FolderRename(c)
    PROVE  NamesKeptApart(c)
<1> DEFINE h == handle[c]
           vs == since[c].view
           os == since[c].own
<1>1. FolderClientInv(c) /\ Tree(tree) /\ pc[c] = "rename"
    BY DEF FolderInv, FolderRename
<1>2. CASE FolderRefused(c)
    BY <1>2, FailWritesNothing, NothingWritten
<1>3. CASE /\ h \in FoldersIn(tree)
           /\ FolderWrites(c, [tree EXCEPT ![h].name = job[c].name], where, "back")
  <2>1. /\ Knows(tree, view[c], vs) /\ Knows(tree, own[c], os)
        /\ h \in FoldersIn(own[c])
        /\ h \notin os => NameFree(view[c], own[c][h].parent, job[c].name)
      BY <1>1 DEF FolderClientInv, FoundOut, CallTyped
  <2>2. tree' = [tree EXCEPT ![h].name = job[c].name]
      BY <1>3 DEF FolderWrites
  <2>3. tree[h] \in Folder /\ h \in FolderIds
      BY <1>1, <1>3, TreeFolders DEF FoldersIn
  <2>4. /\ tree'[h] = [parent |-> tree[h].parent, name |-> job[c].name]
        /\ \A g \in FolderIds \ {h} : tree'[g] = tree[g]
    <3>1. tree'[h] = [tree[h] EXCEPT !.name = job[c].name]
          /\ \A g \in FolderIds \ {h} : tree'[g] = tree[g]
        BY <1>1, <2>2, <2>3 DEF Tree
    <3>2. QED
        BY <2>3, <3>1 DEF Folder
  <2> HIDE DEF h, vs, os
  <2>5. SUFFICES ASSUME NEW f \in FoldersIn(tree'), NEW g \in FoldersIn(tree'),
                        f # g, tree'[f] = tree'[g], tree'[f] # tree[f]
                 PROVE  g \in vs \/ f \in os
      BY DEF NamesKeptApart, vs, os
  <2>6. f = h /\ g \in FoldersIn(tree) /\ tree[g] = tree'[h]
      BY <2>4, <2>5 DEF FoldersIn
  <2>7. tree[g].parent = tree[h].parent /\ tree[g].name = job[c].name
      BY <2>4, <2>6
  <2>8. ASSUME h \notin os
        PROVE  g \in vs
    <3>1. tree[h] = own[c][h] /\ NameFree(view[c], own[c][h].parent, job[c].name)
        BY <2>1, <2>8 DEF Knows
    <3>2. QED
        BY <2>1, <2>6, <2>7, <3>1, NameKnownFree
  <2>9. QED
      BY <2>6, <2>8
<1>4. QED
    BY <1>2, <1>3 DEF FolderRename

LEMMA PartKeepsNames ==
    ASSUME FolderInv, NEW c \in Clients, FolderPart(c)
    PROVE  NamesKeptApart(c)
<1> DEFINE a == goal[c].at
           name == Head(goal[c].rest)
           vs == since[c].view
           os == since[c].own
<1>1. FolderClientInv(c) /\ Tree(tree) /\ pc[c] = "part"
    BY DEF FolderInv, FolderPart
<1>2. CASE FolderRefused(c)
    BY <1>2, FailWritesNothing, NothingWritten
<1>3. ASSUME NEW n \in FolderIds, tree[n] = NoFolder,
             FolderWrites(c, [tree EXCEPT ![n] = [parent |-> a, name |-> name]], where, "part_back")
      PROVE  NamesKeptApart(c)
  <2>1. /\ Knows(tree, view[c], vs) /\ Knows(tree, own[c], os)
        /\ NameFree(IF job[c].op = "create" THEN own[c] ELSE view[c], a, name)
      BY <1>1 DEF FolderClientInv, FoundOut
  <2>2. tree' = [tree EXCEPT ![n] = [parent |-> a, name |-> name]]
      BY <1>3 DEF FolderWrites
  <2>3. /\ tree'[n] = [parent |-> a, name |-> name]
        /\ \A g \in FolderIds \ {n} : tree'[g] = tree[g]
      BY <1>1, <2>2 DEF Tree
  <2> HIDE DEF a, name, vs, os
  <2>4. SUFFICES ASSUME NEW f \in FoldersIn(tree'), NEW g \in FoldersIn(tree'),
                        f # g, tree'[f] = tree'[g], tree'[f] # tree[f]
                 PROVE  g \in vs \/ f \in os \/ (job[c].op = "create" /\ g \in os)
      BY DEF NamesKeptApart, vs, os
  <2>5. f = n /\ g \in FoldersIn(tree) /\ tree[g].parent = a /\ tree[g].name = name
      BY <2>3, <2>4 DEF FoldersIn
  <2>6. CASE job[c].op = "create"
      BY <2>1, <2>5, <2>6, NameKnownFree
  <2>7. CASE job[c].op # "create"
      BY <2>1, <2>5, <2>7, NameKnownFree
  <2>8. QED
      BY <2>6, <2>7
<1>4. QED
    BY <1>2, <1>3 DEF FolderPart

LEMMA TreeKeptByStep ==
    ASSUME FolderInv, [FolderNext]_<<folderVars, clientVars>>, NEW c \in Clients
    PROVE  MoveKeepsTree(c) /\ NamesKeptApart(c)
<1>1. CASE ~(Leaves(c, "move") \/ Leaves(c, "rename") \/ Leaves(c, "part"))
    BY <1>1 DEF MoveKeepsTree, NamesKeptApart
<1>2. CASE Leaves(c, "move") \/ Leaves(c, "rename") \/ Leaves(c, "part")
  <2>1. pc[c] \in {"move", "rename", "part"} /\ pc'[c] # pc[c]
      BY <1>2 DEF Leaves
  <2>2. \/ FolderFail(c)
        \/ FolderMove(c)
        \/ pc[c] = "rename" /\ FolderRename(c)
        \/ pc[c] = "part" /\ FolderPart(c)
      BY <2>1, FolderMovesItself
  <2>3. CASE FolderFail(c)
      BY <2>3, FailWritesNothing, NothingWritten
  <2>4. CASE FolderMove(c)
      BY <2>4, MoveKeepsFolders
  <2>5. CASE pc[c] = "rename" /\ FolderRename(c)
      BY <2>5, RenameKeepsNames DEF MoveKeepsTree, Leaves
  <2>6. CASE pc[c] = "part" /\ FolderPart(c)
      BY <2>6, PartKeepsNames DEF MoveKeepsTree, Leaves
  <2>7. QED
      BY <2>2, <2>3, <2>4, <2>5, <2>6
<1>3. QED
    BY <1>1, <1>2

\* A folder comes to be inside itself, or two of a parent to share a name, only
\* if others changed a folder that the call had looked at, after it had.
THEOREM FoldersRemainTree == FolderSpec => FoldersStayTree
<1>1. FolderInv /\ [FolderNext]_<<folderVars, clientVars>> =>
         [ \A c \in Clients : MoveKeepsTree(c) /\ NamesKeptApart(c) ]_<<folderVars, clientVars>>
    BY TreeKeptByStep
<1>2. QED
    BY <1>1, FolderInvAlways, PTL DEF FolderSpec, FoldersStayTree

-----------------------------------------------------------------------------
(* A delete takes what it has seen.                                        *)

\* What is under a folder that is listed is listed, and under it there, unless
\* it has come there since.
LEMMA KnownUnder ==
    ASSUME NEW t, Tree(t), NEW v, NEW s, Knows(t, v, s), NEW h \in FoldersIn(v),
           NEW f \in FolderUnder(t, h), FolderAbove(t, f) \cap s = {}
    PROVE  f \in FolderUnder(v, h)
<1> DEFINE B == { g \in FolderAbove(t, f) : g \notin FolderUnder(v, h) }
<1>0. /\ ParentsListed(t) /\ ParentsListed(v) /\ f \in FoldersIn(t) /\ h \in FolderAbove(t, f)
      /\ Root \notin FoldersIn(t)
    BY TreeFolders DEF Knows, Tree, FolderUnder
<1>1. /\ f \in FolderAbove(t, f) /\ FolderAbove(t, f) \subseteq FoldersIn(t) \cup {Root}
      /\ \A g \in FolderAbove(t, f) \ {Root} : t[g].parent \in FolderAbove(t, f)
    BY <1>0, AboveProperties
<1>2. SUFFICES ASSUME f \in B
               PROVE  FALSE
    BY <1>1
<1>3. ASSUME NEW g \in B \ {Root}
      PROVE  t[g].parent \in B
  <2> DEFINE p == t[g].parent
  <2>1. SUFFICES ASSUME p \in FolderUnder(v, h)
                 PROVE  FALSE
      BY <1>1
  <2>2. p \in FoldersIn(v) /\ h \in FolderAbove(v, p)
      BY <2>1 DEF FolderUnder
  <2>3. g \in FoldersIn(t) /\ g \notin s
      BY <1>1
  <2>4. g \in FoldersIn(v) /\ v[g] = t[g]
      BY <2>2, <2>3 DEF Knows
  <2>5. h \in FolderAbove(v, g)
      BY <1>0, <2>2, <2>4, AboveStep
  <2>6. QED
      BY <1>3, <2>4, <2>5 DEF FolderUnder
<1>4. FolderAbove(t, f) \subseteq B
  <2> HIDE DEF B
  <2>1. QED
      BY <1>0, <1>2, <1>3, AboveLeast
<1>5. h \in FolderUnder(v, h)
    BY <1>0, AboveProperties DEF FolderUnder
<1>6. QED
    BY <1>0, <1>4, <1>5

LEMMA DeleteTakesSeen ==
    ASSUME FolderInv, NEW c \in Clients, FolderDelete(c)
    PROVE  DeleteSparesFolders(c) /\ DeleteSparesObjects(c)
<1> DEFINE h == handle[c]
           gone == FolderUnder(tree, h)
           t == [f \in FolderIds |-> IF f \in gone THEN GoneFolder ELSE tree[f]]
           w == [o \in FolderObjects |-> IF where[o] \in gone THEN GoneFolder ELSE where[o]]
<1>1. FolderClientInv(c) /\ Tree(tree) /\ pc[c] = "delete"
    BY DEF FolderInv, FolderDelete
<1>2. CASE FolderRefused(c)
    BY <1>2, FailWritesNothing, NothingWritten
<1>3. CASE FolderWrites(c, t, w, "back")
  <2>1. tree' = t /\ where' = w
      BY <1>3 DEF FolderWrites
  <2>2. /\ Knows(tree, view[c], since[c].view) /\ h \in FoldersIn(view[c])
        /\ job[c].subfolders \/ FolderUnder(view[c], h) \subseteq {h}
        /\ job[c].objects \/ \A o \in FolderObjects \ since[c].objects :
                                where[o] \notin FolderUnder(view[c], h)
      BY <1>1 DEF FolderClientInv, FoundOut, CallTyped, Counted
  <2>3. \A f \in gone : f \in FolderUnder(view[c], h) \/ FolderAbove(tree, f) \cap since[c].view # {}
      BY <1>1, <2>2, KnownUnder
  <2>4. \A f \in FoldersIn(tree) \ FoldersIn(tree') : f \in gone
      BY <2>1 DEF FoldersIn
  <2>5. \A o \in FolderObjects : where'[o] # where[o] => where[o] \in gone
      BY <2>1
  <2> HIDE DEF gone, t, w
  <2>6. DeleteSparesFolders(c)
      BY <2>2, <2>3, <2>4 DEF DeleteSparesFolders
  <2>7. DeleteSparesObjects(c)
      BY <2>2, <2>3, <2>5 DEF DeleteSparesObjects
  <2>8. QED
      BY <2>6, <2>7
<1>4. QED
    BY <1>2, <1>3 DEF FolderDelete

LEMMA DeleteSparesByStep ==
    ASSUME FolderInv, [FolderNext]_<<folderVars, clientVars>>, NEW c \in Clients
    PROVE  DeleteSparesFolders(c) /\ DeleteSparesObjects(c)
<1>1. CASE ~Leaves(c, "delete")
    BY <1>1 DEF DeleteSparesFolders, DeleteSparesObjects
<1>2. CASE Leaves(c, "delete")
  <2>1. FolderFail(c) \/ FolderDelete(c)
      BY <1>2, FolderMovesItself DEF Leaves
  <2>2. CASE FolderFail(c)
      BY <2>2, FailWritesNothing, NothingWritten
  <2>3. CASE FolderDelete(c)
      BY <2>3, DeleteTakesSeen
  <2>4. QED
      BY <2>1, <2>2, <2>3
<1>3. QED
    BY <1>1, <1>2

\* A delete that was not to take subfolders, or objects, takes only those that
\* came into the folder after it had looked for them.
THEOREM DeleteSparesUnseen == FolderSpec => FolderDeleteSparesUnseen
<1>1. FolderInv /\ [FolderNext]_<<folderVars, clientVars>> =>
         [ \A c \in Clients : DeleteSparesFolders(c) /\ DeleteSparesObjects(c)
         ]_<<folderVars, clientVars>>
    BY DeleteSparesByStep
<1>2. QED
    BY <1>1, FolderInvAlways, PTL DEF FolderSpec, FolderDeleteSparesUnseen

=============================================================================
