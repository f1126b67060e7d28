CONSTANTS
  Transports = {"browser", "twilio"}
  MaxUtterances = 1
  MaxFaulty = 1
SPECIFICATION FairSpec
INVARIANTS
  TypeOK
  SummaryIsReal
  EndedIsRecorded
PROPERTIES
  ClosedOnce
  HangUpIsRecorded
