SPECIFICATION Spec
CONSTANTS
  Reps = 2
  Open <- AllRules
  Detours = 3
INVARIANTS
  TypeOK
  ScopesMirrorRules
  PathsMirrorRules
  FieldsGoToTheirType
  ExprsLeaveOneValue
  PanicsOnlyKnown
CHECK_DEADLOCK FALSE
