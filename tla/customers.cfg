CONSTANTS
  Eleanor = Eleanor
  Tom = Tom
  June = June
  People <- Someone
  NumberOf <- Numbers
  SalonPhone <- Salon
  Ways = {"international", "dialled", "national", "unmarked", "bare"}
  Names = {Jo, Joe}
  Requests = {r1, r2}
  Limit = 1
SYMMETRY Symmetry
SPECIFICATION Spec
INVARIANTS
  OnePersonOneRecord
  SearchFindsThem
PROPERTIES
  BookedUnderTheirNumber
  NameIsKept
  CallersAreThemselves
