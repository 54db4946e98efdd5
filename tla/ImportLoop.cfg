SPECIFICATION Spec
CONSTANTS
  File <- MCFile
  Root <- MCRoot
  Projects <- MCProjects
INVARIANTS
  TypeOK
  SpellingWalkedOnce
  AllImportsWalked
  StaysInRoot
PROPERTIES
  ParseEnds
CHECK_DEADLOCK FALSE
