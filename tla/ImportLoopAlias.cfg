SPECIFICATION Spec
CONSTANTS
  File <- MCFile
  Root <- MCRoot
  Projects <- MCProjects
INVARIANTS
  FileWalkedOnce
CHECK_DEADLOCK FALSE
