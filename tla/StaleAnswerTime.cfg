SPECIFICATION Spec
CONSTANTS
  MaxAttempts = 2
  Channels = {"freeswitch"}
  EventKinds = {"ANSWER", "HANGUP"}
  HangupCauses = {"fatal", "no_answer"}
  OperatorStatuses = {}
  Stale = {}
  Workers = {w1}
  MaxTries = 1
  MaxCrashes = 0
  Replies = {"accepted"}
PROPERTIES VerdictMatchesCall
