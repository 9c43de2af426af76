\* Two helper processes, two commands, one edit, one foreign file.
SPECIFICATION Spec
CONSTANTS
  Helpers = {h1, h2}
  MaxCommands = 2
  Versions = {v1, v2, v3}
  v1 = v1
  v2 = v2
  v3 = v3
  NoVersion = NoVersion
  Digests = {d1, d2}
  d1 = d1
  d2 = d2
  NoDigest = NoDigest
  Bundles <- MCBundles
  Hosts <- MCHosts
  Names = {n1, n2}
  ForeignNames = {n1}
  Events = {"Stop"}
  UserEntries = {"mine"}
  Contents <- MCContents
  Samples <- MCSamples
  Missing = Missing
  Invalid = Invalid
  MaxEdits = 1
INVARIANTS
  TypeOK
  CurrentInstalled
  SwitchAllOrNothing
  MergeSound
  UserConfigRecoverable
  UserHooksKept
  FailedApplyUndone
PROPERTIES
  VersionsImmutable
  ForeignShimsKept
  SwitchRecorded
CHECK_DEADLOCK FALSE
SYMMETRY HelperSymmetry
