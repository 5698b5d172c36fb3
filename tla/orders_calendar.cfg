SPECIFICATION MCSpec

CONSTANTS
  OrderId = {o1, o2}
  User = {u1}
  Driver = {d1}
  Key = {k1, k2}
  Worker = {w1, w2}
  NoDriver = NoDriver
  NoTime = NoTime
  Idle = Idle
  Keep = Keep
  Time = {1, 2, 3}
  Duration = {1}
  Passengers = {1}
  Buffer = 1
  MinLead = 1
  Horizon = 3
  Weekend = {}
  MaxNow = 0

SYMMETRY Symmetry
VIEW WithoutAudit
CONSTRAINT Affordable
CONSTRAINT AllOnDuty

INVARIANT NoDoubleBooking
PROPERTY KeepsCalendars
