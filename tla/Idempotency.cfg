CONSTANTS
  Request = {r1, r2, r3}
  Body = {b1, b2}
  NoRequest = NoRequest
SYMMETRY RequestSymmetry
SPECIFICATION Spec
INVARIANTS
  RepeatedWorkHasACause
  HandlersRunAlone
  SuccessIsTrue
CHECK_DEADLOCK FALSE
