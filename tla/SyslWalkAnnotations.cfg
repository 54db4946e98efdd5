SPECIFICATION Spec
CONSTANTS
  Reps = 2
  Open <- TypeRules
  Detours = 5
INVARIANTS
  AnnotationsGoToTheirType
CHECK_DEADLOCK FALSE
