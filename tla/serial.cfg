CONSTANTS
  Models <- ModelNames
  Fields <- ClassFields
  Cases <- AllCases
SPECIFICATION Spec
CHECK_DEADLOCK FALSE
INVARIANTS
  RestoredAsReturned
  NoFalseDivergence
