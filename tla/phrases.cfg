SPECIFICATION Spec
CONSTANTS
  MonthLength <- MCMonthLength
  FirstWeekday = 4
  Phrases <- MCPhrases
  Nows <- MCNows
INVARIANTS NamedDayIsMeant TimeOfDayIsMeant
PROPERTY NeverTakenBack
CHECK_DEADLOCK FALSE
