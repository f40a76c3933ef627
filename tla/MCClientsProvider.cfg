\* Two threads, two property accesses each, racing on the lazy getters,
\* over every way of resolving the project and every endpoint
\* configuration.
CONSTANTS
  t1 = t1  t2 = t2
  Threads <- MCThreads
  Configs <- MCConfigs
  REPLocations <- MCREPLocations
  MaxAccesses = 2
  None = None
  Lower <- MCLower
SPECIFICATION Spec
INVARIANTS TypeOK EndpointsAgree ClientsPerKindBounded
\* Every access returns; nothing runs after the last one.
CHECK_DEADLOCK FALSE
