SPECIFICATION Spec
CONSTANTS
  X = X  Y = Y  k1 = k1  a1 = a1  a2 = a2  a3 = a3
  None = None
  Requests <- ThreeRequests
  Keys <- OneKey
  KeyOf <- SameKey
  Attempts <- ThreeAttempts
  StaleAfter = 3
  Lifetime = 4
  AgeBound = 2
  MaxMishaps = 2
  Faults = {"bookkeeping", "crash"}
SYMMETRY AttemptSymmetry
INVARIANTS AtMostOnce AnswersAreTrue ReplayAnswersOneAlike
PROPERTY CompletedIsFinal
