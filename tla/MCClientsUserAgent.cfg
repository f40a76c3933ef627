\* The environments of the user-agent tests.
CONSTANTS
  t1 = t1  t2 = t2
  Threads <- MCThreads
  Configs <- IDEConfigs
  REPLocations <- MCREPLocations
  MaxAccesses = 2
  None = None
  Lower <- MCLower
SPECIFICATION Spec
INVARIANT UserAgentNamesIDE
\* Every access returns; nothing runs after the last one.
CHECK_DEADLOCK FALSE
