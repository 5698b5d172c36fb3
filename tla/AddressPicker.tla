---------------------------- MODULE AddressPicker ----------------------------
(***************************************************************************)
(* How an address is chosen in the booking wizard (OrderWizardScreen.tsx): *)
(* from the address book, or by typing, with suggestions, a geocoder and a *)
(* map to drag under a pin (MapAddressPicker.tsx), whose point is named by *)
(* geocoding in reverse.  Answers of Yandex come in any order, or not at   *)
(* all; every request to it and the map have a time limit.                 *)
(*                                                                         *)
(* The address of a place stands for the place: where the code keeps the   *)
(* text of an address, the model keeps the place it names.                 *)
(***************************************************************************)
EXTENDS Naturals

CONSTANTS
  Field,        \* the addresses to choose: "from", "to"
  Place,        \* points on the map, and their addresses
  Text,         \* what else the user may type
  None,         \* null, and the empty text
  MaxGeocodes   \* bound on the geocoder's answers under way

VARIABLES
  pickingFor,       \* the field an address is picked for
  route,            \* the addresses chosen (from, to)
  addressQuery,     \* the text in the search field
  suggestions,      \* the text whose suggestions are listed
  suggesting,       \* requests for suggestions under way
  geocodeStatus,
  geocoding,        \* how many answers of the geocoder are under way
  pickedCoords, mapResolvedLabel, mapInitialCenter,
  map,              \* the map under the pin
  script,           \* the map's script, loaded once (yandexMaps.ts)
  reversing         \* points whose names are asked for

chosen == <<pickingFor, route>>
search == <<addressQuery, suggestions, suggesting>>
picked == <<pickedCoords, mapResolvedLabel, mapInitialCenter>>
mapVars == <<map, script>>
vars == <<chosen, search, geocodeStatus, geocoding, picked, mapVars, reversing>>

Query == Place \cup Text \cup {None}

\* An address: the text, and the point of its coordinates, if it has any.
Address == [named: Query \ {None}, at: Place \cup {None}]

Unmounted == [at |-> "closed", center |-> None]

TypeOK ==
  /\ pickingFor \in Field \cup {None}
  /\ route \in [Field -> Address \cup {None}]
  /\ addressQuery \in Query /\ suggestions \in Query
  /\ suggesting \subseteq [text: Query \ {None}, cancelled: BOOLEAN]
  /\ geocodeStatus \in {"idle", "loading", "refining"}
  /\ geocoding \in 0 .. MaxGeocodes
  /\ pickedCoords \in Place \cup {None} /\ mapResolvedLabel \in Place \cup {None}
  /\ mapInitialCenter \in Place \cup {None}
  /\ map \in [at: {"closed", "locating", "loading", "ready", "unavailable"},
              center: Place \cup {None}]
  /\ script \in {"pending", "loaded", "failed"}
  /\ reversing \subseteq [of: Place, latest: BOOLEAN]

Init ==
  /\ pickingFor = None /\ route = [field \in Field |-> None]
  /\ addressQuery = None /\ suggestions = None /\ suggesting = {}
  /\ geocodeStatus = "idle" /\ geocoding = 0
  /\ pickedCoords = None /\ mapResolvedLabel = None /\ mapInitialCenter = None
  /\ map = Unmounted /\ script = "pending"
  /\ reversing = {}

-----------------------------------------------------------------------------
(* What follows every change *)

\* The page shows the map.
MapIsShown == pickingFor # None /\ addressQuery # None /\ geocodeStatus = "refining"

\* A map that appears looks for its centre; one that disappears is destroyed.
Mounts ==
  map' = IF ~MapIsShown' THEN Unmounted
         ELSE IF MapIsShown THEN map
         ELSE [at |-> IF mapInitialCenter' = None THEN "locating" ELSE "loading",
               center |-> mapInitialCenter']

\* Mistake: the answers to an earlier text are still welcome.
CancelAll_Never == suggesting

CancelAll == {[s EXCEPT !.cancelled = TRUE] : s \in suggesting}

\* The effect of the search field: the user has typed, and suggestions are asked for
\* after a pause; or there is nothing to suggest.
Suggests ==
  IF addressQuery' = addressQuery /\ geocodeStatus' = geocodeStatus
  THEN UNCHANGED <<suggestions, suggesting>>
  ELSE IF geocodeStatus' = "idle" /\ addressQuery' # None
       THEN /\ suggesting' = CancelAll \cup {[text |-> addressQuery', cancelled |-> FALSE]}
            /\ UNCHANGED suggestions
       ELSE suggesting' = CancelAll /\ suggestions' = None

Renders == Mounts /\ Suggests

-----------------------------------------------------------------------------
(* The search field *)

OpenPicker(field) ==
  /\ pickingFor' = field
  /\ addressQuery' = None /\ pickedCoords' = None
  /\ UNCHANGED <<route, geocodeStatus, geocoding, mapResolvedLabel, mapInitialCenter,
                 script, reversing>>
  /\ Renders

Type(text) ==
  /\ pickingFor # None /\ text # addressQuery
  /\ addressQuery' = text
  /\ geocodeStatus' = "idle"
  /\ UNCHANGED <<chosen, geocoding, picked, script, reversing>>
  /\ Renders

\* The request of a text runs into its time limit or is answered; some are cancelled
\* before they are sent.
Suggested(s) ==
  /\ s \in suggesting
  /\ suggesting' = suggesting \ {s}
  /\ suggestions' \in IF s.cancelled THEN {suggestions} ELSE {s.text, None}
  /\ UNCHANGED <<chosen, addressQuery, geocodeStatus, geocoding, picked, mapVars, reversing>>

-----------------------------------------------------------------------------
(* From a text to a point *)

Geocode ==
  /\ geocoding < MaxGeocodes
  /\ geocoding' = geocoding + 1
  /\ geocodeStatus' = "loading"
  /\ UNCHANGED <<chosen, picked, script, reversing>>

handleUseTypedAddress ==
  /\ pickingFor # None /\ addressQuery # None /\ geocodeStatus # "loading"
  /\ Geocode
  /\ UNCHANGED addressQuery
  /\ Renders

\* The title of the suggestion goes to the search field, its address to the geocoder.
handleSelectSuggestion(title) ==
  /\ pickingFor # None /\ addressQuery # None /\ geocodeStatus # "refining"
  /\ suggestions # None
  /\ addressQuery' = title
  /\ Geocode
  /\ Renders

\* Mistake: only a place that is found ends the waiting.
Geocoded_IfFound(place) ==
  /\ geocoding > 0
  /\ geocoding' = geocoding - 1
  /\ pickedCoords' = place /\ mapInitialCenter' = place /\ mapResolvedLabel' = place
  /\ geocodeStatus' = IF place = None THEN geocodeStatus ELSE "refining"
  /\ UNCHANGED <<chosen, addressQuery, script, reversing>>
  /\ Renders

\* The geocoder has found a place, or None: whatever the user did meanwhile, the map
\* comes next.
Geocoded(place) ==
  /\ geocoding > 0
  /\ geocoding' = geocoding - 1
  /\ pickedCoords' = place /\ mapInitialCenter' = place /\ mapResolvedLabel' = place
  /\ geocodeStatus' = "refining"
  /\ UNCHANGED <<chosen, addressQuery, script, reversing>>
  /\ Renders

-----------------------------------------------------------------------------
(* The map *)

\* The position of the phone or, for want of one or after three seconds and a half,
\* Moscow.
Located(place) ==
  /\ map.at = "locating"
  /\ map' = [at |-> "loading", center |-> place]
  /\ UNCHANGED <<chosen, search, geocodeStatus, geocoding, picked, script, reversing>>

\* handleMapCoordsChange: the map says where the pin is.
Emit(place) ==
  /\ pickedCoords' = place
  /\ mapResolvedLabel' = None
  /\ reversing' = {[r EXCEPT !.latest = FALSE] : r \in reversing}
                    \cup {[of |-> place, latest |-> TRUE]}
  /\ UNCHANGED <<chosen, search, geocodeStatus, geocoding, mapInitialCenter>>

MapLoads ==
  /\ map.at = "loading" /\ script # "failed"
  /\ map' = [map EXCEPT !.at = "ready"]
  /\ script' = "loaded"
  /\ Emit(map.center)

\* The script fails, for good, or takes more than eight seconds this time.
MapIsGivenUp ==
  /\ map.at = "loading" /\ script # "loaded"
  /\ map' = [map EXCEPT !.at = "unavailable"]
  /\ script' \in {script, "failed"}
  /\ UNCHANGED <<chosen, search, geocodeStatus, geocoding, picked, reversing>>

Drag(place) ==
  /\ map.at = "ready"
  /\ map' = [map EXCEPT !.center = place]
  /\ UNCHANGED script
  /\ Emit(place)

\* Mistake: the name of any point the pin has been at is shown.
IsCurrent_Any(r) == TRUE

\* reverseGeocodeRequestId: the pin has not moved since.
IsCurrent(r) == r.latest

\* The name of a point, or None; it goes to the search field as well.
Named(r, name) ==
  /\ r \in reversing
  /\ reversing' = reversing \ {r}
  /\ IF IsCurrent(r)
     THEN /\ mapResolvedLabel' = name
          /\ addressQuery' = IF name = None THEN addressQuery ELSE name
     ELSE name = None /\ UNCHANGED <<mapResolvedLabel, addressQuery>>
  /\ UNCHANGED <<chosen, geocodeStatus, geocoding, pickedCoords, mapInitialCenter, script>>
  /\ Renders

-----------------------------------------------------------------------------
(* The choice *)

\* It is sent to the address book, too (Addresses).
selectAddress(address) ==
  /\ route' = [route EXCEPT ![pickingFor] = address]
  /\ pickingFor' = None /\ addressQuery' = None
  /\ pickedCoords' = None /\ mapInitialCenter' = None /\ mapResolvedLabel' = None
  /\ geocodeStatus' = "idle"
  /\ UNCHANGED <<geocoding, script, reversing>>
  /\ Renders

\* A favourite or recent address; not all have coordinates.
ChooseStored(place) ==
  /\ pickingFor # None /\ addressQuery = None
  /\ \E at \in {place, None} : selectAddress([named |-> place, at |-> at])

\* makeSyntheticAddress
ConfirmPoint ==
  /\ MapIsShown /\ pickedCoords # None
  /\ selectAddress([named |-> IF mapResolvedLabel = None THEN addressQuery ELSE mapResolvedLabel,
                    at |-> pickedCoords])

-----------------------------------------------------------------------------

\* What the user does, apart from moving the map.
Touch ==
  \/ \E field \in Field : OpenPicker(field)
  \/ \E text \in Text \cup {None} : Type(text)
  \/ handleUseTypedAddress
  \/ \E title \in Text : handleSelectSuggestion(title)
  \/ \E place \in Place : ChooseStored(place)
  \/ ConfirmPoint

MapSettles == MapLoads \/ MapIsGivenUp

\* What the browser brings.
Answer ==
  \/ \E s \in suggesting : Suggested(s)
  \/ \E place \in Place \cup {None} : Geocoded(place)
  \/ \E place \in Place : Located(place)
  \/ MapSettles
  \/ \E r \in reversing : \E name \in {r.of, None} : Named(r, name)

Next == Touch \/ Answer \/ \E place \in Place : Drag(place)

\* Time limits: eight seconds for the geocoder and for the map, three and a half for
\* the position.
Fairness ==
  /\ WF_vars(\E place \in Place \cup {None} : Geocoded(place))
  /\ WF_vars(\E place \in Place : Located(place))
  /\ WF_vars(MapSettles)

Spec == Init /\ [][Next]_vars /\ Fairness

-----------------------------------------------------------------------------
(* Properties *)

\* Answers the page waits for.
Awaits == geocoding > 0 \/ \E r \in reversing : r.latest

\* The name under the map is that of the point under the pin.
LabelNamesThePoint ==
  MapIsShown /\ mapResolvedLabel # None => mapResolvedLabel = pickedCoords

\* Suggestions that arrive are those for the text in the search field, in whatever
\* order they are answered.
SuggestionsFollowTheText ==
  [][suggestions' \in {suggestions, None} \/ suggestions' = addressQuery]_vars

\* The picker never waits for ever (MapAddressPicker.tsx: "hard timeouts guard against
\* hanging forever on flaky mobile WebViews").
PickerSettles ==
  /\ geocodeStatus = "loading" ~> geocodeStatus # "loading"
  /\ map.at \in {"locating", "loading"} ~> map.at \notin {"locating", "loading"}

\* The text of a chosen address is not the address of another point than the one it
\* has.
ChosenNamesItsPoint ==
  \A field \in Field :
    route[field] # None /\ route[field].named \in Place
      => route[field].at \in {route[field].named, None}

=============================================================================
