CONSTANTS
  InputExprs <- MCInputExprs
  Null = Null
  ZeroDivResult = ZeroDivResult
  DayUnits = 2

SPECIFICATION Spec

\* The pass returns once the root is lowered.
CHECK_DEADLOCK FALSE

INVARIANTS
  TypeOK
  DtypePreserved
  BackendAccepted
  ValuePreserved
  ZeroDivisorGuarded

