SPECIFICATION FairSpec
CONSTANTS
  X = X  Y = Y  k1 = k1  a1 = a1  a2 = a2  a3 = a3
  None = None
  Requests <- OneRequest
  Keys <- OneKey
  KeyOf <- SameKey
  Attempts <- TwoAttempts
  StaleAfter = 2
  Lifetime = 3
  AgeBound = 3
  MaxMishaps = 1
  Faults = {"transient", "read_back", "bookkeeping", "crash"}
INVARIANT OKMeansDone
PROPERTY EveryReservationEnds
