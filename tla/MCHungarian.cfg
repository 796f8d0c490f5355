SPECIFICATION Spec
CONSTANT
  Costs <- MCCosts
INVARIANTS PotentialsCertify AssignmentOptimal
PROPERTIES Terminates
CHECK_DEADLOCK FALSE
