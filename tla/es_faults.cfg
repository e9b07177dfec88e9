SPECIFICATION Spec
CONSTANTS
  c1 = c1
  c2 = c2
  c3 = c3
  c4 = c4
  c5 = c5
  k1 = k1
  Nobody = Nobody
  Caller = {c1, c2}
  Key = {k1}
  KeyOf <- OneKey
  Guarded = {}
  Faults <- AllFaults
SYMMETRY Symmetry
INVARIANTS SuccessIsConfirmed FailureIsConfirmed
CHECK_DEADLOCK FALSE
