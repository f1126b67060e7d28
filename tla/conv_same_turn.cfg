SPECIFICATION Spec
CONSTANTS
  MaxToolRounds = 2
  EscalateAfter = 2
  MaxTurns = 3
  MaxInFlight = 1
  MaxCalls = 2
  MaxStaged = 2
  BargeIns = FALSE
  None = None
INVARIANT CommittedWasReadOut
