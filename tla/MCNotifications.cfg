SPECIFICATION Spec
CONSTANTS
  k1 = k1
  k2 = k2
  p1 = p1
  p2 = p2
  a1 = a1
  a2 = a2
  None = None
  Calls = {c1, c2}
  Requests <- MCRequests
  MaxAttempts = 2
  MaxRuns = 2
  MaxResends = 1
  MaxFaults = 1
INVARIANTS AnswersAreTrue NoUnaskedResend EvidenceIsTrue
PROPERTIES NothingAfterErasure 
CHECK_DEADLOCK FALSE
