SPECIFICATION Spec
CONSTANTS
  cut = cut  colour = colour  None = None
  Services <- MCServices
  Menu <- MCMenu
  Days = {1}
  Hours = {2, 10, 14}
  Utterances <- MCUtterances
  Openings <- MCOpenings
  Starts <- MCStarts
  SpokenMenuLimit = 4
  SpokenSlotLimit = 1
  MaxToolRounds = 6
  EscalateAfter = 2
  MaxAppointments = 2
INVARIANTS OnlyTimesReadOut NoGhosts MoveOnlyOnRequest BookedWasNamed YesIsNotAskedAgain
