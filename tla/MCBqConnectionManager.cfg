\* Three concurrent create_bq_connection calls, two roles IAM knows and one it rejects, three attempts
\* each, one of them cut off and re-run.  No symmetry: the run
\* checks liveness.
CONSTANTS
  p1 = p1  p2 = p2  p3 = p3  r1 = r1  r2 = r2  rx = rx
  Procs <- MCProcs3
  Roles <- MCRolesUnknown
  UnknownRoles <- MCUnknownRoles
  NoRole = NoRole
  SA = SA
  OtherMember = OtherMember
  NoEtag = NoEtag
  MaxAttempts = 3
  MaxReruns = 1
SPECIFICATION Spec
CONSTRAINT RoleChoices
INVARIANTS TypeOK BindingHeldOnReturn NoDuplicateGrant
PROPERTIES PolicyOnlyGrows EveryCallReturns 
\* Every call returns; nothing runs after the last one.
CHECK_DEADLOCK FALSE
