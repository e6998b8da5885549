SPECIFICATION DispatchSpec
CONSTANTS
  Attempts = {1, 2}
  Workers = {w1, w2}
  MaxTries = 2
  MaxCrashes = 1
  Replies = {"accepted", "lost", "garbled", "refused", "rejected"}
  SlowLease = FALSE
SYMMETRY WorkerSymmetry
INVARIANTS DispatchTypeOK AtMostOneDial AcknowledgedMeansPlaced GivenUpMeansClosedOrStarted DispatchEvidence
