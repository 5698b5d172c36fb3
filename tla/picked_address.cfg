SPECIFICATION MCSpec

CONSTANTS
  Place = {here, there}
  Text = {typed}
  Field = {from}
  None = None
  MaxGeocodes = 2

INVARIANT ChosenNamesItsPointWhenCalm

CHECK_DEADLOCK FALSE
