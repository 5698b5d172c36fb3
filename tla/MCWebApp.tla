------------------------------ MODULE MCWebApp ------------------------------
(***************************************************************************)
(* Two parts of the web app on small instances, each by itself: its start  *)
(* (AppStart), and the address picker of the wizard (AddressPicker), with  *)
(* a user who touches it at any time and a calm one, who only moves the    *)
(* map while an answer is on its way.  The properties "when calm" are      *)
(* about the second.                                                       *)
(***************************************************************************)
EXTENDS AppStart

CONSTANTS Place, Text, Field, None, MaxGeocodes

VARIABLES
  atPicker,   \* the behaviour is one of the picker
  calm,
  pickingFor, route, addressQuery, suggestions, suggesting, geocodeStatus, geocoding,
  pickedCoords, mapResolvedLabel, mapInitialCenter, map, script, reversing

Picker == INSTANCE AddressPicker

pickerVars ==
  <<pickingFor, route, addressQuery, suggestions, suggesting, geocodeStatus, geocoding,
    pickedCoords, mapResolvedLabel, mapInitialCenter, map, script, reversing>>

MCVars == <<vars, atPicker, calm, pickerVars>>

MCInit ==
  /\ Init /\ Picker!Init
  /\ \/ atPicker = FALSE /\ calm = FALSE
     \/ atPicker = TRUE /\ calm \in BOOLEAN /\ account = Nobody

PickerNext ==
  \/ (calm => ~Picker!Awaits) /\ Picker!Touch
  \/ Picker!Answer
  \/ \E place \in Place : Picker!Drag(place)

MCNext ==
  /\ UNCHANGED <<atPicker, calm>>
  /\ \/ ~atPicker /\ Next /\ UNCHANGED pickerVars
     \/ atPicker /\ PickerNext /\ UNCHANGED vars

\* The fairness of AppStart where the behaviour is one of the start, and that of the
\* picker, which has nothing pending elsewhere.
MCFairness ==
  /\ WF_vars(~atPicker /\ Begin)
  /\ WF_vars(~atPicker /\ Proceeds("boot"))
  /\ Picker!Fairness

MCSpec == MCInit /\ [][MCNext]_MCVars /\ MCFairness

-----------------------------------------------------------------------------

\* Opening the page ends at the login or in the app (AppStart).
StartSettlesHere == ~atPicker /\ ~authReady ~> authReady

\* To a calm user the name under the map is that of the point under the pin, however
\* fast the map is moved (OrderWizardScreen.tsx, handleMapCoordsChange).
LabelNamesThePointWhenCalm == calm => Picker!LabelNamesThePoint

\* The address a calm user confirms has the text of the point it has
\* (OrderWizardScreen.tsx, the comment in handleMapCoordsChange).
ChosenNamesItsPointWhenCalm == calm => Picker!ChosenNamesItsPoint

\* Suggestions are for the text in the search field (OrderWizardScreen.tsx, the effect
\* that asks for them).
SuggestionsFollowTheText == Picker!SuggestionsFollowTheText

\* Whatever does not answer, the picker ends its waiting (MapAddressPicker.tsx).
PickerSettles == Picker!PickerSettles

=============================================================================
