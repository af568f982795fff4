SPECIFICATION FairSpec
CONSTANTS
  k1 = k1
  a1 = a1
  p1 = p1
  p2 = p2
  ck = ck
  None = None
  Slots = {k1}
  Keyed = {k1}
  Payloads = {p1, p2}
  MaxAttempts <- MCMaxAttempts
  ConcurrencyKey <- MCConcurrencyKey
  Limit <- MCLimit
  Workers = {w1, w2}
  BatchSize = 2
  Enqueuers = {e1, e2}
  MaxRequests = 3
CHECK_DEADLOCK FALSE
INVARIANTS
  PendingCanRun
  OneOwner
  EvidenceIsFinal
  LatestAccepted
PROPERTIES
  CancellationDecides
  HorizonOwnsKey
  ImplementsLifecycle
  EveryJobSettles
