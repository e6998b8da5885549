CONSTANTS
  Calls = {c1, c2}
  NoCall = NoCall
  Channels = {"web"}
  MaxTurns = 1
  MaxUtterances = 1
  MaxChunks = 1
SPECIFICATION Spec
INVARIANTS CutByOwnCaller
CHECK_DEADLOCK FALSE
