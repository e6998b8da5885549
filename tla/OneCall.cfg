SPECIFICATION FairSpec
CONSTANTS
  MaxAttempts = 1
  Channels = {"freeswitch", "web"}
  EventKinds = {"PROGRESS", "ANSWER", "HANGUP", "JOB_ERR"}
  HangupCauses = {"fatal", "no_answer", "unlisted"}
  OperatorStatuses = {"CANCELLED"}
  Stale = {}
  Workers = {w1}
  MaxTries = 2
  MaxCrashes = 1
  Replies = {"accepted", "lost", "refused", "rejected"}
INVARIANTS TypeOK TaskAndAttemptsAgree
PROPERTIES ClosedStaysClosed VerdictMatchesCall ReconcilesOnlyDeadCalls LifecycleSpec DispatcherSpec EveryCallEnds
