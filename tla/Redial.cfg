SPECIFICATION Spec
CONSTANTS
  MaxAttempts = 2
  Channels = {"freeswitch", "web"}
  EventKinds = {"ANSWER", "HANGUP"}
  HangupCauses = {"no_answer"}
  OperatorStatuses = {"CANCELLED"}
  Stale = {"deliveries"}
  Workers = {w1}
  MaxTries = 1
  MaxCrashes = 0
  Replies = {"accepted", "rejected"}
INVARIANTS TaskAndAttemptsAgree 
PROPERTIES ClosedStaysClosed LifecycleSpec
