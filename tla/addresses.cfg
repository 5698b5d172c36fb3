SPECIFICATION MCSpec

CONSTANTS
  Text = {home, work}
  Row = {1, 2}
  Request = {r1, r2}
  None = None
  Idle = Idle
  AnyClient = TRUE

INVARIANT OneRecentRowPerTextInTurn
PROPERTY OrdersKeepTheirPlaces
PROPERTY RequestsEnd
