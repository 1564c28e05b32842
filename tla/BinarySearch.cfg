SPECIFICATION Spec
CONSTANTS
  MaxLen = 5
  Arrays <- MCArrays
  Targets <- MCTargets
INVARIANTS
  AnswerIsRight ReadsInside
PROPERTIES
  Halves
CHECK_DEADLOCK FALSE
