SPECIFICATION MCSpec

CONSTANTS
  Token = {t1, t2, t3}
  Call = {c1, c2}
  None = None
  AccessTTL = 2
  RefreshTTL = 3
  Lossy = FALSE
  Impatient = FALSE
  MaxNow = 5

SYMMETRY Interchangeable

PROPERTY NoSpuriousLogout

CHECK_DEADLOCK FALSE
