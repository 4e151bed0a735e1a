SPECIFICATION FilesSpec
CONSTANTS
  old = old
  new = new
  id1 = id1
  id2 = id2
  id3 = id3
  n1 = n1
  n2 = n2
  n3 = n3
  s1 = s1
  s2 = s2
  Codes = {old, new}
  Opening <- OpeningMC
  Changes <- ChangesMC
  Imports <- ImportsMC
  Numbers = {n1, n2, n3}
  Levels = {"low", "high"}
  Seeded <- SeededMC
  Sessions = {s1, s2}
  Kinds <- AllKinds
  MaxRequests = 3
INVARIANTS
  TypeOK
  UncontendedSpecialIsUnique
  ImportGoesThrough
  VerifiedWithDocuments
  UnsharedFileIsTheLastWord
PROPERTIES
  AlertTellsTheLevelBefore
SYMMETRY
  Symmetry
CHECK_DEADLOCK FALSE
