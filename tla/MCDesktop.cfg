SPECIFICATION MCSpec
INVARIANTS
  WindowsInStep
  InputInStep
PROPERTIES
  StepsSpareUse
CHECK_DEADLOCK FALSE
