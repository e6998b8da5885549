SPECIFICATION Spec
CONSTANTS
  MaxTurns = 3
  MaxCalls = 2
  Window = 2
  Statuses = {201, 500}
\* A conversation ends.
CHECK_DEADLOCK FALSE
INVARIANT EscalatedWasAsked
