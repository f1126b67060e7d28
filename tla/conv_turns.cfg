SPECIFICATION FairSpec
CONSTANTS
  MaxToolRounds = 2
  EscalateAfter = 2
  MaxTurns = 3
  MaxInFlight = 2
  MaxCalls = 1
  MaxStaged = 2
  BargeIns = TRUE
  None = None
INVARIANTS TypeOK UndisturbedTurnsAsk ExecutingMeansWriting StuckCallersReachAPerson
PROPERTIES RefusedIsNotSentAgain EveryTurnEnds
