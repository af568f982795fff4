SPECIFICATION Spec
CONSTANTS
  Refunds = {1, 2}
  MaxAttempts = 2
  Batch = 1
  MaxGenerations <- OldestRetried
  MaxRuns = 2
  MaxFaults = 1
INVARIANTS EvidenceMatchesHeader
PROPERTIES OutcomeIsKept RefundIsDecided
CHECK_DEADLOCK FALSE
