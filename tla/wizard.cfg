SPECIFICATION MCSpec

CONSTANTS
  Trip = {t1}
  Slot = {s1, s2}
  Driver = {d1}
  AnyDriver = AnyDriver
  Key = {k1, k2}
  Request = {r1, r2}
  None = None
  MaxOrders = 2
  MaxResets = 1

SYMMETRY Interchangeable

INVARIANT OneOrderPerWizard
INVARIANT ConfirmationIsComplete
INVARIANT SuccessShowsTheConfirmedWhenCalm
INVARIANT FailureMeansNoOrderWhenCalm

CHECK_DEADLOCK FALSE
