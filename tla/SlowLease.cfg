SPECIFICATION DispatchSpec
CONSTANTS
  Attempts = {1}
  Workers = {w1, w2}
  MaxTries = 3
  MaxCrashes = 0
  Replies = {"accepted"}
  SlowLease = TRUE
SYMMETRY WorkerSymmetry
INVARIANTS AtMostOneDial
