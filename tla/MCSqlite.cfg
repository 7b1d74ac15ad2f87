SPECIFICATION Spec
CONSTANTS
  h1 = h1
  h2 = h2
  f1 = f1
  NoProfile = NoProfile
  Absent = Absent
  Nobody = Nobody
  Processes = {p1, p2, p3, p4}
  Hosts = {h1, h2}
  Profiles = {f1, f2}
  Sources <- MCSources
  Refusing = {p1}
  NoCreate = {p4}
INVARIANTS
  SavedIsKept
PROPERTIES
  NoNewDangling
  ImportIsWhole
