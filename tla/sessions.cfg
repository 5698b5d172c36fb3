SPECIFICATION MCSpec

CONSTANTS
  Token = {t1, t2, t3}
  Call = {c1, c2}
  None = None
  AccessTTL = 1
  RefreshTTL = 3
  Lossy = TRUE
  Impatient = TRUE
  MaxNow = 4

SYMMETRY Interchangeable

INVARIANT CondemnedStayOut
INVARIANT OneLiveTokenWhenCalm
PROPERTY DeadStaysDead
PROPERTY NoSpuriousLogoutWhenCalm

CHECK_DEADLOCK FALSE
