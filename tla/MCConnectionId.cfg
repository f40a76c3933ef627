CONSTANTS
  Requests <- MCPlainRequests
  NoTriple <- NotWritten
  NotWritten = NotWritten
SPECIFICATION Spec
INVARIANT RoundTrip
CHECK_DEADLOCK FALSE
