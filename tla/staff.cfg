SPECIFICATION MCSpec

CONSTANTS
  Order = {o1, o2}
  Driver = {d1, d2}
  NoDriver = NoDriver
  Instant <- MCInstant
  Duration = {2}
  Travel = {1, 3}
  NoRoute = NoRoute
  ScheduleRow <- MCRows
  Absence <- MCAbsence
  DayLength = 6
  Step = 1
  Buffer = 2
  Margin = 0
  MinLead = 1
  HorizonDays = 2
  Pad = 5
  Start = 18
  MaxNow = 19
  Newcomer = {bob}
  Founder = ann
  Nobody = Nobody
  Request = {r1, r2}
  Me = me
  Mine = mine
  DayOfWeek = {0, 1}
  Hour = {0, 1, 2}
  MaxRows = 3
  Unknown = Unknown

SYMMETRY Interchangeable

INVARIANT OfferedHasRoom
INVARIANT ReachesNextPickup
INVARIANT FreeTimesAreOffered
INVARIANT DriverAccountsHaveRow
INVARIANT DecisionsStand
INVARIANT TrailIsKeptInTurn
INVARIANT SomeAdminRemainsInTurn
INVARIANT NoOverlappingWindowsInTurn
INVARIANT SavedIsStoredWhenCalm
PROPERTY OldHoursAreGone
PROPERTY UntouchedDaysKeptWhenCalm

CHECK_DEADLOCK FALSE
