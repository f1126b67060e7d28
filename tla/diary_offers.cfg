SPECIFICATION FairSpec
CONSTANTS
  r1 = r1  r2 = r2  r3 = r3
  ann = ann  bob = bob  cut = cut  colour = colour  perm = perm  alice = alice
  Anyone = Anyone  None = None
  Services <- MCServices
  Staff <- MCStaff
  ServiceDef <- MCServiceDef
  StaffDef <- MCStaffDef
  WeeklyHours <- MCWeeklyHours
  Overrides <- MCOverrides
  Policy <- MCPolicy
  DayLength = 6
  WeekLength = 2
  Requests <- MCRequests
  Customers <- MCCustomers
  KnownCustomers <- NoCustomers
  Inputs <- MCInputs
  MaxInFlight = 3
  Horizon = 0
  Grid = 2
  MaxDaysScanned = 5
  WideLimit = 10
  AlternativeCount = 2
  LookBack = 2
  LookAhead = 1
  BusyBack = 3
  BusyAhead = 2
  Enquiries <- MCEnquiries
INVARIANTS OffersAreBookable NothingIsHidden
PROPERTY EveryRequestIsAnswered
