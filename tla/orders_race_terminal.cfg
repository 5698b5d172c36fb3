SPECIFICATION MCSpec

CONSTANTS
  OrderId = {o1}
  User = {u1}
  Driver = {d1, d2}
  Key = {k1}
  Worker = {w1, w2}
  NoDriver = NoDriver
  NoTime = NoTime
  Idle = Idle
  Keep = Keep
  Time = {1, 2, 3}
  Duration = {1}
  Passengers = {1, 2}
  Buffer = 1
  MinLead = 1
  Horizon = 2
  Weekend = {3}
  MaxNow = 1

SYMMETRY Symmetry

PROPERTY TerminalIsFinal
