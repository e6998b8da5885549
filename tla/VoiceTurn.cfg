CONSTANTS
  Calls = {c1}
  NoCall = NoCall
  Channels = {"web", "freeswitch"}
  MaxTurns = 1
  MaxUtterances = 2
  MaxChunks = 1
SPECIFICATION FairSpec
INVARIANTS TypeOK SpeechIsKept OneCutPerUtterance  CleanEnd
PROPERTIES CallsEnd
CHECK_DEADLOCK FALSE
