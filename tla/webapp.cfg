SPECIFICATION MCSpec

CONSTANTS
  Place = {here, there}
  Text = {typed}
  Field = {from}
  None = None
  MaxGeocodes = 1

INVARIANT OnlyClearedReachTheApp
INVARIANT LoggedOutStaysOut
INVARIANT LabelNamesThePointWhenCalm
PROPERTY SuggestionsFollowTheText
PROPERTY StartSettlesHere
PROPERTY PickerSettles
