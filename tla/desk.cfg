SPECIFICATION MCSpec

CONSTANTS
  OrderId = {o1}
  User = {u1}
  Driver = {d1, d2}
  Key = {k1}
  Worker = {w1}
  NoDriver = NoDriver
  NoTime = NoTime
  Idle = Idle
  Keep = Keep
  Time = {1, 2}
  Duration = {1}
  Passengers = {1}
  Buffer = 1
  MinLead = 1
  Horizon = 2
  Weekend = {}
  MaxNow = 0
  Me = d1
  Blank = Blank
  MaxTaps = 1

PROPERTY TapsDoWhatTheScreenSaid
PROPERTY QueueCatchesUp
VIEW WithoutAudit
CHECK_DEADLOCK FALSE
