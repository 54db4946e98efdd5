SPECIFICATION Spec
CONSTANTS
  p1 = p1
  p2 = p2
  f1 = f1
  f2 = f2
  t1 = t1
  Proc <- MCProc
  File <- MCFile
  Tag <- MCTag
  TagCommit <- MCTagCommit
  MaxCommit = 2
  Master = Master
  NoFile = NoFile
  Torn = Torn
  None = None
SYMMETRY MCSymmetry
INVARIANTS
  TypeOK
  TagFilesExact
  PseudoVersionNotNewer
  TornTagFileHasWriter
PROPERTIES
  ImportServesItsVersion
