CONSTANTS
  Requests <- MCDomainRequests
  NoTriple <- NotWritten
  NotWritten = NotWritten
SPECIFICATION Spec
INVARIANT DocumentedFormsAccepted
CHECK_DEADLOCK FALSE
