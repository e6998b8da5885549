SPECIFICATION Spec
CONSTANTS
  MaxAttempts = 2
  Channels = {"freeswitch"}
  EventKinds = {}
  HangupCauses = {}
  OperatorStatuses = {}
  Stale = {"deliveries"}
  Workers = {w1}
  MaxTries = 1
  MaxCrashes = 0
  Replies = {"rejected"}
INVARIANTS TaskFollowsLatestAttempt
