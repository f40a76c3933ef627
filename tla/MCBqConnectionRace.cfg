\* Two concurrent create_bq_connection calls racing on the lookup.
CONSTANTS
  p1 = p1  p2 = p2  p3 = p3  r1 = r1  r2 = r2  rx = rx
  Procs <- MCProcs2
  Roles <- MCRoles
  UnknownRoles = {}
  NoRole = NoRole
  SA = SA
  OtherMember = OtherMember
  NoEtag = NoEtag
  MaxAttempts = 3
  MaxReruns = 0
SYMMETRY MCSymmetry2
SPECIFICATION Spec
INVARIANT NoAlreadyExists
\* Every call returns; nothing runs after the last one.
CHECK_DEADLOCK FALSE
