SPECIFICATION Spec
CONSTANTS
  Base = 2
  Instances <- MCInstances
INVARIANTS
  TypeOK
  EncodersAgree
  Unambiguous
  PanicsExactly
CHECK_DEADLOCK FALSE
