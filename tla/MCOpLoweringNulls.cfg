CONSTANTS
  InputExprs <- MCLiteralExprs
  Null = Null
  ZeroDivResult = ZeroDivResult
  DayUnits = 2

SPECIFICATION Spec

\* The pass returns once the root is lowered.
CHECK_DEADLOCK FALSE

INVARIANTS
  NullPropagates
