SPECIFICATION FairAgentSpec
CONSTANTS
  book = book  a1 = a1  a2 = a2  None = None
  Requests <- OneAction
  Keys <- OneAction
  KeyOf <- OwnKey
  Attempts <- TwoAttempts
  StaleAfter = 3
  Lifetime = 3
  AgeBound = 1
  MaxMishaps = 1
  Faults = {"transient", "read_back", "bookkeeping", "crash"}
  MaxRetries = 2
  MaxCommits = 2
  LinkFaults = {"timeout", "network"}
INVARIANTS SuccessIsReal
PROPERTY CallerIsTold
