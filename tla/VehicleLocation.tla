---------------------------- MODULE VehicleLocation ----------------------------
(***************************************************************************)
(* Where the vehicles are, according to the client: the odometer gate in    *)
(* front of the PIN-protected Find-My-Car request of the Canadian client    *)
(* (KiaUvoApiCA.py), and the geocoder every client inherits (ApiImpl.py),   *)
(* which VehicleManager runs after each cached update.                      *)
(*                                                                         *)
(* An update is a sequence of requests and the Vehicle object is written in *)
(* between; a second thread (a forced refresh) may be at the same vehicle.  *)
(* The geocoder remembers one pair of coordinates for all vehicles.         *)
(***************************************************************************)
EXTENDS Naturals

CONSTANTS
  Updaters,   \* the threads that update vehicles
  Vehicles,   \* the vehicles of the account
  Places,     \* where a car can be
  None,       \* no value
  Rosters,    \* bound: which vehicles each thread updates; one is chosen
  MaxTrips    \* bound: trips of each car

ASSUME LocationAssumption ==
  /\ MaxTrips \in Nat
  /\ Rosters \subseteq [Updaters -> SUBSET Vehicles]
  /\ None \notin Vehicles \cup Places

VARIABLES
  roster,     \* the vehicles each thread updates, fixed
  reads,      \* the odometer of each car
  place,      \* where each car is
  odometer,   \* vehicle.odometer; None and 0 are both false, and both 0 here
  location,   \* vehicle.location
  attempted,  \* vehicle._location_fetch_attempted
  geocode,    \* vehicle.geocode, as the place it names; None is (None, None)
  previous,   \* api.previous_latitude, previous_longitude
  pc,         \* where each updater is
  veh,        \* the vehicle it updates
  reading,    \* the odometer in the answer it holds
  found,      \* the location in the answer it holds
  asked,      \* the coordinates in its geocoding request
  missed,     \* history: did the last location request for the vehicle fail?
  unprompted, \* history: those the odometer gave no reason for; 2 is "more than 1"
  geocoded,   \* history: did the vehicle's last update settle its geocode?
  wrote,      \* history: the places each vehicle put into previous
  clash       \* history: were two updaters at the vehicle at once, since its last trip or earlier?

cars    == <<roster, reads, place>>
object  == <<odometer, location, attempted, geocode>>
thread  == <<veh, reading, found, asked>>
history == <<missed, unprompted, geocoded, wrote, clash>>
vars    == <<cars, object, previous, pc, thread, history>>

PCs      == {"idle", "service", "gate", "locate", "location", "store",
             "geocode", "geocoding"}
Readings == 0..(MaxTrips + 1)
Somewhere == Places \cup {None}

Active(u) == pc[u] # "idle"

Used(v) == \E u \in Updaters : v \in roster[u]

TypeOK ==
  /\ roster \in Rosters
  /\ reads \in [Vehicles -> Readings]
  /\ place \in [Vehicles -> Places]
  /\ odometer \in [Vehicles -> Readings]
  /\ location \in [Vehicles -> Somewhere]
  /\ attempted \in [Vehicles -> BOOLEAN]
  /\ geocode \in [Vehicles -> Somewhere]
  /\ previous \in Somewhere
  /\ pc \in [Updaters -> PCs]
  /\ veh \in [Updaters -> Vehicles \cup {None}]
  /\ reading \in [Updaters -> Readings]
  /\ found \in [Updaters -> Somewhere]
  /\ asked \in [Updaters -> Somewhere]
  /\ \A u \in Updaters : pc[u] = "geocoding" => asked[u] \in Places
  /\ missed \in [Vehicles -> BOOLEAN]
  /\ unprompted \in [Vehicles -> 0..2]
  /\ geocoded \in [Vehicles -> BOOLEAN]
  /\ wrote \in [Vehicles -> SUBSET Places]
  /\ clash \in [Vehicles -> {"never", "earlier", "now"}]

\* A new session: nothing is known of any vehicle; a new car reads 0.
Init ==
  /\ roster \in Rosters
  /\ reads \in [Vehicles -> {0, 1}]
  /\ \A v \in Vehicles : ~ Used(v) => reads[v] = 0
  /\ place \in [Vehicles -> Places]
  /\ odometer = [v \in Vehicles |-> 0]
  /\ location = [v \in Vehicles |-> None]
  /\ attempted = [v \in Vehicles |-> FALSE]
  /\ geocode = [v \in Vehicles |-> None]
  /\ previous = None
  /\ pc = [u \in Updaters |-> "idle"]
  /\ veh = [u \in Updaters |-> None]
  /\ reading = [u \in Updaters |-> 0]
  /\ found = [u \in Updaters |-> None]
  /\ asked = [u \in Updaters |-> None]
  /\ missed = [v \in Vehicles |-> FALSE]
  /\ unprompted = [v \in Vehicles |-> 0]
  /\ geocoded = [v \in Vehicles |-> FALSE]
  /\ wrote = [v \in Vehicles |-> {}]
  /\ clash = [v \in Vehicles |-> "never"]

At(u, p)   == pc[u] = p
Goto(u, p) == pc' = [pc EXCEPT ![u] = p]

\* An update returns or raises; its local variables go.
End(u) ==
  /\ Goto(u, "idle")
  /\ veh' = [veh EXCEPT ![u] = None]
  /\ reading' = [reading EXCEPT ![u] = 0]
  /\ found' = [found EXCEPT ![u] = None]
  /\ asked' = [asked EXCEPT ![u] = None]

-----------------------------------------------------------------------------
(* update_vehicle_with_cached_state and force_refresh_vehicle_state.        *)

Geocoded(v, b) == geocoded' = [geocoded EXCEPT ![v] = b]

Begin(u, v) ==
  /\ At(u, "idle")
  /\ v \in roster[u]
  /\ Goto(u, "service")
  /\ veh' = [veh EXCEPT ![u] = v]
  /\ clash' = [clash EXCEPT ![v] = IF \E w \in Updaters : veh[w] = v THEN "now" ELSE @]
  /\ Geocoded(v, FALSE)
  /\ UNCHANGED <<cars, object, previous, reading, found, asked,
                 missed, unprompted, wrote>>

\* Mutant: the new reading is in the vehicle before the gate looks at it.
GotServiceStored(u) ==
  /\ At(u, "service")
  /\ reading' = [reading EXCEPT ![u] = reads[veh[u]]]
  /\ odometer' = [odometer EXCEPT ![veh[u]] = reads[veh[u]]]
  /\ Goto(u, "gate")
  /\ UNCHANGED <<cars, location, attempted, geocode, previous, veh, found, asked, history>>

\* The vehicle status, which says nothing of the location, then _get_next_service.
GotService(u) ==
  /\ At(u, "service")
  /\ reading' = [reading EXCEPT ![u] = reads[veh[u]]]
  /\ Goto(u, "gate")
  /\ UNCHANGED <<cars, object, previous, veh, found, asked, history>>

Unknown(v) == location[v] = None

\* Mutant: the location is requested as long as it is unknown.
WantedWhileUnknown(v, r) == odometer[v] # 0 => odometer[v] < r \/ Unknown(v)

\* The location is requested of a car that has moved, of one whose location
\* was never asked for, and of one without an odometer.
Wanted(v, r) == odometer[v] # 0 => odometer[v] < r \/ (Unknown(v) /\ ~ attempted[v])

Gate(u) ==
  LET v == veh[u] IN
  /\ At(u, "gate")
  /\ \/ /\ Wanted(v, reading[u])
        /\ attempted' = [attempted EXCEPT ![v] = @ \/ (odometer[v] # 0 /\ Unknown(v))]
        /\ unprompted' = [unprompted EXCEPT ![v] =
                            IF odometer[v] \in {0} \cup 0..(reading[u] - 1) \/ @ = 2 THEN @ ELSE @ + 1]
        /\ Goto(u, "locate")
     \/ /\ ~ Wanted(v, reading[u])
        /\ Goto(u, "store")
        /\ UNCHANGED <<attempted, unprompted>>
  /\ UNCHANGED <<cars, odometer, location, geocode, previous, thread,
                 missed, geocoded, wrote, clash>>

\* _get_location verifies the PIN and asks; it turns every failure into None.
GotLocation(u) ==
  LET v == veh[u] IN
  /\ At(u, "locate")
  /\ \E p \in {place[v], None} :
       /\ found' = [found EXCEPT ![u] = p]
       /\ missed' = [missed EXCEPT ![v] = p = None]
  /\ Goto(u, "location")
  /\ UNCHANGED <<cars, object, previous, veh, reading, asked,
                 unprompted, geocoded, wrote, clash>>

StoreLocation(u) ==
  /\ At(u, "location")
  /\ location' = [location EXCEPT ![veh[u]] = IF found[u] = None THEN @ ELSE found[u]]
  /\ Goto(u, "store")
  /\ UNCHANGED <<cars, odometer, attempted, geocode, previous, thread, history>>

\* _update_vehicle_properties_service.  A forced refresh is over after that,
\* and so is a cached update if a request for the charge limits fails.
StoreService(u) ==
  /\ At(u, "store")
  /\ odometer' = [odometer EXCEPT ![veh[u]] = reading[u]]
  /\ \/ End(u)
     \/ Goto(u, "geocode") /\ UNCHANGED thread
  /\ UNCHANGED <<cars, location, attempted, geocode, previous, history>>

\* The status or the service request fails: the update raises.
UpdateFails(u) ==
  /\ At(u, "service")
  /\ End(u)
  /\ UNCHANGED <<cars, object, previous, history>>

-----------------------------------------------------------------------------
(* update_geocoded_location.                                                *)

\* Mutant: a vehicle without a location is geocoded all the same.
NoLocationAsked(u) ==
  /\ At(u, "geocode")
  /\ location[veh[u]] = None
  /\ Goto(u, "geocoding")
  /\ UNCHANGED <<cars, object, previous, thread, history>>

NoLocation(u) ==
  /\ At(u, "geocode")
  /\ location[veh[u]] = None
  /\ End(u)
  /\ UNCHANGED <<cars, object, previous, history>>

\* The coordinates are the previous ones.  vehicle.geocode is a pair, and
\* true even if it is (None, None).
KeepGeocode(u) ==
  LET v == veh[u] IN
  /\ At(u, "geocode")
  /\ location[v] # None /\ location[v] = previous
  /\ Geocoded(v, TRUE)
  /\ End(u)
  /\ UNCHANGED <<cars, object, previous, missed, unprompted, wrote, clash>>

AskGeocoder(u) ==
  LET v == veh[u] IN
  /\ At(u, "geocode")
  /\ location[v] # None /\ location[v] # previous
  /\ asked' = [asked EXCEPT ![u] = location[v]]
  /\ Goto(u, "geocoding")
  /\ UNCHANGED <<cars, object, previous, veh, reading, found, history>>

\* An answer, even one without a display_name.  The vehicle's coordinates are
\* read again for the previous ones.
GeocoderAnswers(u) ==
  LET v == veh[u] IN
  /\ At(u, "geocoding")
  /\ \E p \in {asked[u], None} : geocode' = [geocode EXCEPT ![v] = p]
  /\ previous' = location[v]
  /\ wrote' = [wrote EXCEPT ![v] = @ \cup {location[v]}]
  /\ Geocoded(v, TRUE)
  /\ End(u)
  /\ UNCHANGED <<cars, odometer, location, attempted, missed, unprompted, clash>>

\* Mutant: a failure leaves the geocode as it was.
GeocoderFailsQuietly(u) ==
  /\ At(u, "geocoding")
  /\ Geocoded(veh[u], TRUE)
  /\ End(u)
  /\ UNCHANGED <<cars, object, previous, missed, unprompted, wrote, clash>>

\* OpenStreetMap answers without JSON, Google raises or there is no key.
GeocoderFails(u) ==
  LET v == veh[u] IN
  /\ At(u, "geocoding")
  /\ geocode' = [geocode EXCEPT ![v] = None]
  /\ Geocoded(v, TRUE)
  /\ End(u)
  /\ UNCHANGED <<cars, odometer, location, attempted, previous,
                 missed, unprompted, wrote, clash>>

\* The request to OpenStreetMap raises, or Google knows nothing of the place.
GeocoderSilent(u) ==
  /\ At(u, "geocoding")
  /\ Geocoded(veh[u], FALSE)
  /\ End(u)
  /\ UNCHANGED <<cars, object, previous, missed, unprompted, wrote, clash>>

-----------------------------------------------------------------------------

\* Two updaters are at the vehicle.
Crowded(v) == \E u, w \in Updaters : u # w /\ veh[u] = v /\ veh[w] = v

\* A trip ends somewhere else and adds to the odometer.
Drive(v) ==
  /\ Used(v) /\ reads[v] <= MaxTrips
  /\ roster' = roster
  /\ reads' = [reads EXCEPT ![v] = @ + 1]
  /\ \E p \in Places \ {place[v]} : place' = [place EXCEPT ![v] = p]
  /\ clash' = [clash EXCEPT ![v] = IF @ = "now" /\ ~ Crowded(v) THEN "earlier" ELSE @]
  /\ UNCHANGED <<object, previous, pc, thread, missed, unprompted, geocoded, wrote>>

Update(u) ==
  \/ GotService(u) \/ Gate(u) \/ GotLocation(u) \/ StoreLocation(u)
  \/ StoreService(u) \/ UpdateFails(u)
  \/ NoLocation(u) \/ KeepGeocode(u) \/ AskGeocoder(u)
  \/ GeocoderAnswers(u) \/ GeocoderFails(u) \/ GeocoderSilent(u)

Next == \/ \E u \in Updaters : Update(u) \/ \E v \in Vehicles : Begin(u, v)
        \/ \E v \in Vehicles : Drive(v)

Spec == Init /\ [][Next]_vars

-----------------------------------------------------------------------------
(* Properties.                                                              *)

Settled(v) == \A u \in Updaters : veh[u] # v

\* Once the client has read the odometer a parked car shows, it has the car's
\* location too, unless the request for it failed, or two updates of the
\* vehicle met since its last trip and the older answer was stored last.
\* Whatever an earlier meeting has mixed up, the first update after the next
\* trip puts right.
StaleLocationWasMissed ==
  \A v \in Vehicles :
    Settled(v) /\ clash[v] # "now" /\ odometer[v] # 0 /\ odometer[v] = reads[v] =>
      location[v] = place[v] \/ missed[v]

\* A vehicle whose odometer shows no trip is asked for its location once per
\* session, whatever becomes of the request and however often it is polled.
\* (Two updates that meet may each find the flag unset.)
UnpromptedFetchOnce == \A v \in Vehicles : clash[v] = "never" => unprompted[v] <= 1

\* A geocode of another place than the vehicle's is due to another vehicle
\* that was geocoded where this one is.
WrongGeocodeIsForeign ==
  \A v \in Vehicles :
    Settled(v) /\ clash[v] = "never" /\ geocoded[v] /\ geocode[v] # None =>
      \/ geocode[v] = location[v]
      \/ \E w \in Vehicles \ {v} : location[v] \in wrote[w]
=============================================================================
