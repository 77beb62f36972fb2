SPECIFICATION Spec
CHECK_DEADLOCK FALSE
SYMMETRY Symmetry
CONSTANTS
  c1 = c1
  c2 = c2
  u1 = u1
  u2 = u2
  u3 = u3
  FirstNames <- TwoNames
  Clients <- TwoClients
  MaxCalls = 3
  Places <- SomePlaces
  Described <- SomeDescribed
  Values <- OnOff
  Absent = Absent
  SettingsCalls <- SomeSettingsCalls
  CnxIds <- TwoCnxs
  ConfigKeys <- ThreeKeys
  SchemaKeys <- TwoSchemaKeys
  CnxUpdates <- SomeCnxUpdates
  Unset = Unset
  Free = Free
  Gone = Gone
  MaxGeneration = 1
  Uuids <- ThreeUuids
  Names <- FourNames
  StrArgs <- OneName
  NewNames <- GivenNames
  Unused = Unused
  Deleted = Deleted
  NoQuery = NoQuery
  FolderIds <- SomeFolders
  Root = Root
  ReadOnly <- Archive
  FirstTree <- NestedTree
  FolderNames <- TwoNames
  FolderArgs <- SomeFolderArgs
  FolderObjects <- OneObject
  NoFolder = NoFolder
  GoneFolder = GoneFolder
  EcIds <- ThreeSets
  SetLists <- ListsByUuid
  FirstSets <- TwoFirstSets
  SetNames <- FourNames
  SetArgs <- OneName
  NewSetNames <- NewName
  Actions <- OneAction
  PageLimit = 1
  NoSet = NoSet
  GoneSet = GoneSet
  UserIds <- ThreeUsers
  RoleIds <- ThreeRoles
  UserNames <- ThreeUserNames
  RoleNames <- ThreeRoleNames
  Perms <- TwoPerms
  FirstUsers <- TwoUsers
  FirstRoles <- TwoRoles
  NoOne = NoOne
  GoneOne = GoneOne
  NotCached = NotCached
INVARIANTS
  EditsTypeOK
PROPERTIES
  SettingsOnlyNamed
  CnxOnlyNamed
  SavedQueryOnlyMeant
  NamesUnique
  FoldersStayTree
  FolderDeleteSparesUnseen
  SetOnlyMeant
  AccessOnlyMeant
  AccessAddTold
