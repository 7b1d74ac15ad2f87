SPECIFICATION Spec
CONSTANTS
  Hosts = {h1}
  Profiles = {p1}
  Values = {1, 2}
  Configs <- ProtectedConfigs
  Damages = {"broken", "invalidProfile", "lostKey", "extraFields"}
INVARIANTS
  NoPlaintextOnDisk
  AckedIsDurable
PROPERTIES
  FileStaysWhole
  OthersAreKept
