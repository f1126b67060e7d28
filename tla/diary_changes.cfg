SPECIFICATION Spec
CONSTANTS
  r1 = r1  r2 = r2  r3 = r3
  ann = ann  bob = bob  cut = cut  colour = colour  alice = alice  carol = carol
  Anyone = Anyone  None = None
  Services <- MCServices
  Staff <- MCStaff
  ServiceDef <- MCServiceDef
  StaffDef <- MCStaffDef
  WeeklyHours <- MCWeeklyHours
  Overrides <- MCOverrides
  Policy <- RoomyPolicy
  DayLength = 4
  WeekLength = 2
  Requests <- MCRequests3
  Customers <- MCCustomers
  KnownCustomers <- OnFile
  Inputs <- ChangeInputs
  MaxInFlight = 2
  Horizon = 2
SYMMETRY RequestSymmetry
INVARIANTS NoOverlap MoveIsAtomic RowsAreHonourable FeeWasAcknowledged
PROPERTY LedgerSpec
