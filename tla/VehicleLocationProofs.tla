------------------------- MODULE VehicleLocationProofs -------------------------
(***************************************************************************)
(* Proofs about VehicleLocation, for any number of updaters, vehicles and  *)
(* places, any rosters and any number of trips.                            *)
(***************************************************************************)
EXTENDS VehicleLocation, TLAPS

\* An updater is at a vehicle of the account, and one that geocodes at a
\* vehicle with a location.
Placed(u) ==
  /\ Active(u) => veh[u] \in Vehicles
  /\ ~ Active(u) => veh[u] = None
  /\ pc[u] = "geocoding" => location[veh[u]] # None

\* Odometers do not run backwards.
Behind(v)  == odometer[v] <= reads[v]
Reading(u) == pc[u] \in {"gate", "locate", "location", "store"} => reading[u] <= reads[veh[u]]

\* Vehicles that two updaters are at have clashed.
Single(v) == clash[v] # "now" => ~ Crowded(v)

Once(v) == unprompted[v] = 0 \/ (unprompted[v] = 1 /\ attempted[v])

\* What was read of a car that has not moved since is where it is.
Known(v)   == location[v] = place[v] \/ missed[v]
Current(v) ==
  /\ clash[v] # "now" /\ odometer[v] # 0 /\ odometer[v] = reads[v]
  /\ \A u \in Updaters : veh[u] = v => pc[u] # "location"
  => Known(v)

AtLocation(u) ==
  /\ pc[u] = "location" /\ clash[veh[u]] # "now"
  /\ reads[veh[u]] \in {reading[u], odometer[veh[u]]}
  => IF found[u] = None THEN missed[veh[u]] ELSE found[u] = place[veh[u]]

AtStore(u) ==
  /\ pc[u] = "store" /\ clash[veh[u]] # "now"
  /\ reading[u] # 0 /\ reading[u] = reads[veh[u]]
  => Known(veh[u])

\* The geocode of the last update, and of the last one that wrote previous.
Foreign(v, p) == \E w \in Vehicles \ {v} : p \in wrote[w]

Own(v) ==
  clash[v] = "never" /\ previous # None =>
    Foreign(v, previous) \/ geocode[v] \in {None, previous}

Right(v) ==
  clash[v] = "never" /\ geocoded[v] =>
    Foreign(v, location[v]) \/ geocode[v] \in {None, location[v]}

Geocoding(u) ==
  Active(u) /\ clash[veh[u]] = "never" =>
    /\ ~ geocoded[veh[u]]
    /\ pc[u] = "geocoding" => asked[u] = location[veh[u]]

VehInv(v) == Behind(v) /\ Single(v) /\ Once(v) /\ Current(v) /\ Own(v) /\ Right(v)
UpdInv(u) == Placed(u) /\ Reading(u) /\ AtLocation(u) /\ AtStore(u) /\ Geocoding(u)

IInv ==
  /\ TypeOK
  /\ \A v \in Vehicles : VehInv(v)
  /\ \A u \in Updaters : UpdInv(u)

-----------------------------------------------------------------------------
(* Type correctness.                                                        *)

LEMMA EndTypes ==
  ASSUME TypeOK, NEW u \in Updaters, End(u)
  PROVE  /\ pc' \in [Updaters -> PCs] /\ veh' \in [Updaters -> Vehicles \cup {None}]
         /\ reading' \in [Updaters -> Readings] /\ found' \in [Updaters -> Somewhere]
         /\ asked' \in [Updaters -> Somewhere]
         /\ \A w \in Updaters : pc'[w] = "geocoding" => asked'[w] \in Places
BY LocationAssumption DEF End, Goto, TypeOK, PCs, Readings, Somewhere

LEMMA TypeStep ==
  ASSUME IInv, [Next]_vars
  PROVE  TypeOK'
<1>0. TypeOK /\ \A u \in Updaters : Placed(u)
  BY DEF IInv, UpdInv
<1>1. ASSUME NEW u \in Updaters, NEW v \in Vehicles, Begin(u, v) PROVE TypeOK'
  BY <1>0, <1>1 DEF Begin, At, Goto, Geocoded, TypeOK, PCs, cars, object
<1>2. ASSUME NEW u \in Updaters, GotService(u) PROVE TypeOK'
  <2>1. reads[veh[u]] \in Readings
    BY <1>0, <1>2 DEF GotService, At, Active, Placed, TypeOK
  <2> QED
    BY <1>0, <1>2, <2>1 DEF GotService, At, Goto, TypeOK, PCs, cars, object, history
<1>3. ASSUME NEW u \in Updaters, Gate(u) PROVE TypeOK'
  <2>1. attempted' \in [Vehicles -> BOOLEAN]
    <3>1. \A v \in Vehicles : (attempted[v] \/ (odometer[v] # 0 /\ Unknown(v))) \in BOOLEAN
      OBVIOUS
    <3> QED
      BY <1>0, <1>3, <3>1, Zenon DEF Gate, TypeOK
  <2>2. unprompted' \in [Vehicles -> 0..2]
    BY <1>0, <1>3 DEF Gate, TypeOK
  <2> QED
    BY <1>0, <1>3, <2>1, <2>2 DEF Gate, At, Goto, TypeOK, PCs, cars, object, thread, history
<1>4. ASSUME NEW u \in Updaters, GotLocation(u) PROVE TypeOK'
  <2>1. PICK p \in {place[veh[u]], None} :
          /\ found' = [found EXCEPT ![u] = p]
          /\ missed' = [missed EXCEPT ![veh[u]] = p = None]
    BY <1>4 DEF GotLocation
  <2>2. p \in Somewhere
    BY <1>0, <1>4 DEF GotLocation, At, Active, Placed, TypeOK, Somewhere
  <2>3. missed' \in [Vehicles -> BOOLEAN]
    BY <1>0, <2>1, Zenon DEF TypeOK
  <2> QED
    BY <1>0, <1>4, <2>1, <2>2, <2>3 DEF GotLocation, At, Goto, TypeOK, PCs, cars, object
<1>5. ASSUME NEW u \in Updaters, StoreLocation(u) PROVE TypeOK'
  BY <1>0, <1>5 DEF StoreLocation, At, Goto, TypeOK, PCs, cars, thread, history
<1>6. ASSUME NEW u \in Updaters, StoreService(u) PROVE TypeOK'
  <2>1. odometer' \in [Vehicles -> Readings]
    BY <1>0, <1>6 DEF StoreService, TypeOK
  <2>2. CASE End(u)
    BY <1>0, <1>6, <2>1, <2>2, EndTypes DEF StoreService, TypeOK, cars, history
  <2>3. CASE Goto(u, "geocode") /\ UNCHANGED thread
    BY <1>0, <1>6, <2>1, <2>3 DEF StoreService, Goto, TypeOK, PCs, cars, thread, history
  <2> QED
    BY <1>6, <2>2, <2>3 DEF StoreService
<1>7. ASSUME NEW u \in Updaters, UpdateFails(u) \/ NoLocation(u) PROVE TypeOK'
  BY <1>0, <1>7, EndTypes DEF UpdateFails, NoLocation, TypeOK, cars, object, history
<1>8. ASSUME NEW u \in Updaters, KeepGeocode(u) \/ GeocoderSilent(u) PROVE TypeOK'
  BY <1>0, <1>8, EndTypes DEF KeepGeocode, GeocoderSilent, Geocoded, TypeOK, cars, object
<1>9. ASSUME NEW u \in Updaters, AskGeocoder(u) PROVE TypeOK'
  <2>1. location[veh[u]] \in Places
    BY <1>0, <1>9 DEF AskGeocoder, At, Active, Placed, TypeOK, Somewhere
  <2> QED
    BY <1>0, <1>9, <2>1 DEF AskGeocoder, At, Goto, TypeOK, PCs, Somewhere, cars, object, history
<1>10. ASSUME NEW u \in Updaters, GeocoderAnswers(u) PROVE TypeOK'
  <2>1. location[veh[u]] \in Places
    BY <1>0, <1>10 DEF GeocoderAnswers, At, Active, Placed, TypeOK, Somewhere
  <2>2. geocode' \in [Vehicles -> Somewhere]
    <3>1. asked[u] \in Somewhere /\ None \in Somewhere
      BY <1>0 DEF TypeOK, Somewhere
    <3>2. PICK p \in {asked[u], None} : geocode' = [geocode EXCEPT ![veh[u]] = p]
      BY <1>10 DEF GeocoderAnswers
    <3> QED
      BY <1>0, <3>1, <3>2 DEF TypeOK
  <2>3. wrote' \in [Vehicles -> SUBSET Places] /\ previous' \in Somewhere
    BY <1>0, <1>10, <2>1 DEF GeocoderAnswers, TypeOK, Somewhere
  <2> QED
    BY <1>0, <1>10, <2>2, <2>3, EndTypes DEF GeocoderAnswers, Geocoded, TypeOK, cars
<1>11. ASSUME NEW u \in Updaters, GeocoderFails(u) PROVE TypeOK'
  BY <1>0, <1>11, EndTypes DEF GeocoderFails, Geocoded, TypeOK, Somewhere, cars
<1>12. ASSUME NEW v \in Vehicles, Drive(v) PROVE TypeOK'
  <2>1. reads' \in [Vehicles -> Readings]
    <3>1. reads[v] + 1 \in Readings
      BY <1>0, <1>12, LocationAssumption DEF Drive, TypeOK, Readings
    <3> QED
      BY <1>0, <1>12, <3>1 DEF Drive, TypeOK
  <2> QED
    BY <1>0, <1>12, <2>1 DEF Drive, TypeOK, object, thread
<1>13. CASE UNCHANGED vars
  BY <1>0, <1>13 DEF vars, cars, object, thread, history, TypeOK
<1> QED
  BY <1>1, <1>2, <1>3, <1>4, <1>5, <1>6, <1>7, <1>8, <1>9, <1>10, <1>11, <1>12, <1>13
     DEF Next, Update

-----------------------------------------------------------------------------
(* A step of an update leaves the other vehicles and the other updaters      *)
(* alone, but for the coordinates they share.                                *)

SameVehicle(d) ==
  /\ odometer'[d] = odometer[d] /\ location'[d] = location[d] /\ attempted'[d] = attempted[d]
  /\ geocode'[d] = geocode[d] /\ missed'[d] = missed[d] /\ unprompted'[d] = unprompted[d]
  /\ geocoded'[d] = geocoded[d] /\ wrote'[d] = wrote[d]

SameUpdater(w) ==
  /\ pc'[w] = pc[w] /\ veh'[w] = veh[w] /\ reading'[w] = reading[w] /\ found'[w] = found[w]
  /\ asked'[w] = asked[w]

LEMMA EndSame ==
  ASSUME TypeOK, NEW u \in Updaters, End(u)
  PROVE  /\ pc'[u] = "idle" /\ veh'[u] = None
         /\ \A w \in Updaters \ {u} : SameUpdater(w)
BY DEF End, Goto, TypeOK, SameUpdater

Frame(u, v) ==
  /\ UNCHANGED <<reads, place, clash>>
  /\ \/ veh'[u] = v /\ Active(u)'
     \/ veh'[u] = None /\ pc'[u] = "idle"
  /\ location[v] # None => location'[v] # None
  /\ wrote[v] \subseteq wrote'[v]
  /\ previous' = previous \/ previous' \in wrote'[v]
  /\ \A d \in Vehicles \ {v} : SameVehicle(d)
  /\ \A w \in Updaters \ {u} : SameUpdater(w)

LEMMA UpdateFrame ==
  ASSUME IInv, NEW u \in Updaters, Update(u)
  PROVE  /\ Active(u) /\ veh[u] \in Vehicles
         /\ Frame(u, veh[u])
<1>0. TypeOK /\ Placed(u)
  BY DEF IInv, UpdInv
<1>a. Active(u)
  BY DEF Update, GotService, Gate, GotLocation, StoreLocation, StoreService, UpdateFails,
         NoLocation, KeepGeocode, AskGeocoder, GeocoderAnswers, GeocoderFails, GeocoderSilent,
         At, Active
<1>v. veh[u] \in Vehicles
  BY <1>0, <1>a DEF Placed
<1>1. CASE GotService(u)
  <2>1. /\ UNCHANGED <<reads, place, clash>> /\ veh'[u] = veh[u] /\ Active(u)'
        /\ location[veh[u]] # None => location'[veh[u]] # None
        /\ wrote' = wrote /\ previous' = previous
    BY <1>0, <1>v, <1>1 DEF GotService, Goto, Active, TypeOK, cars, object, thread, history
  <2>2. ASSUME NEW w \in Updaters \ {u} PROVE SameUpdater(w)
    BY <1>0, <1>1, <2>2 DEF GotService, Goto, TypeOK, SameUpdater, thread
  <2>3. ASSUME NEW d \in Vehicles \ {veh[u]} PROVE SameVehicle(d)
    BY <1>0, <1>1, <2>3 DEF GotService, TypeOK, SameVehicle, object, history
  <2> QED
    BY <1>a, <1>v, <2>1, <2>2, <2>3 DEF Frame
<1>2. CASE Gate(u)
  <2>1. /\ UNCHANGED <<reads, place, clash>> /\ veh'[u] = veh[u] /\ Active(u)'
        /\ location[veh[u]] # None => location'[veh[u]] # None
        /\ wrote' = wrote /\ previous' = previous
    BY <1>0, <1>v, <1>2 DEF Gate, Goto, Active, TypeOK, cars, object, thread, history
  <2>2. ASSUME NEW w \in Updaters \ {u} PROVE SameUpdater(w)
    BY <1>0, <1>2, <2>2 DEF Gate, Goto, TypeOK, SameUpdater, thread
  <2>3. ASSUME NEW d \in Vehicles \ {veh[u]} PROVE SameVehicle(d)
    BY <1>0, <1>2, <2>3 DEF Gate, TypeOK, SameVehicle, object, history
  <2> QED
    BY <1>a, <1>v, <2>1, <2>2, <2>3 DEF Frame
<1>3. CASE GotLocation(u)
  <2>1. /\ UNCHANGED <<reads, place, clash>> /\ veh'[u] = veh[u] /\ Active(u)'
        /\ location[veh[u]] # None => location'[veh[u]] # None
        /\ wrote' = wrote /\ previous' = previous
    BY <1>0, <1>v, <1>3 DEF GotLocation, Goto, Active, TypeOK, cars, object, thread, history
  <2>2. ASSUME NEW w \in Updaters \ {u} PROVE SameUpdater(w)
    BY <1>0, <1>3, <2>2 DEF GotLocation, Goto, TypeOK, SameUpdater, thread
  <2>3. ASSUME NEW d \in Vehicles \ {veh[u]} PROVE SameVehicle(d)
    BY <1>0, <1>3, <2>3 DEF GotLocation, TypeOK, SameVehicle, object, history
  <2> QED
    BY <1>a, <1>v, <2>1, <2>2, <2>3 DEF Frame
<1>4. CASE AskGeocoder(u)
  <2>1. /\ UNCHANGED <<reads, place, clash>> /\ veh'[u] = veh[u] /\ Active(u)'
        /\ location[veh[u]] # None => location'[veh[u]] # None
        /\ wrote' = wrote /\ previous' = previous
    BY <1>0, <1>v, <1>4 DEF AskGeocoder, Goto, Active, TypeOK, cars, object, thread, history
  <2>2. ASSUME NEW w \in Updaters \ {u} PROVE SameUpdater(w)
    BY <1>0, <1>4, <2>2 DEF AskGeocoder, Goto, TypeOK, SameUpdater, thread
  <2>3. ASSUME NEW d \in Vehicles \ {veh[u]} PROVE SameVehicle(d)
    BY <1>0, <1>4, <2>3 DEF AskGeocoder, TypeOK, SameVehicle, object, history
  <2> QED
    BY <1>a, <1>v, <2>1, <2>2, <2>3 DEF Frame
<1>5. CASE StoreLocation(u)
  <2>1. /\ UNCHANGED <<reads, place, clash>> /\ veh'[u] = veh[u] /\ Active(u)'
        /\ location[veh[u]] # None => location'[veh[u]] # None
        /\ wrote' = wrote /\ previous' = previous
    BY <1>0, <1>v, <1>5 DEF StoreLocation, Goto, Active, TypeOK, cars, object, thread, history
  <2>2. ASSUME NEW w \in Updaters \ {u} PROVE SameUpdater(w)
    BY <1>0, <1>5, <2>2 DEF StoreLocation, Goto, TypeOK, SameUpdater, thread
  <2>3. ASSUME NEW d \in Vehicles \ {veh[u]} PROVE SameVehicle(d)
    BY <1>0, <1>5, <2>3 DEF StoreLocation, TypeOK, SameVehicle, object, history
  <2> QED
    BY <1>a, <1>v, <2>1, <2>2, <2>3 DEF Frame
<1>6. CASE StoreService(u)
  <2>1. /\ UNCHANGED <<reads, place, clash, location, wrote, previous>>
        /\ End(u) \/ (Goto(u, "geocode") /\ UNCHANGED thread)
    BY <1>6 DEF StoreService, cars, history
  <2>2. ASSUME NEW d \in Vehicles \ {veh[u]} PROVE SameVehicle(d)
    BY <1>0, <1>6, <2>2 DEF StoreService, TypeOK, SameVehicle, history
  <2>3. CASE End(u)
    BY <1>a, <1>v, <2>1, <2>2, <2>3, <1>0, EndSame DEF Frame
  <2>4. CASE Goto(u, "geocode") /\ UNCHANGED thread
    <3>1. veh'[u] = veh[u] /\ Active(u)' /\ \A w \in Updaters \ {u} : SameUpdater(w)
      BY <1>0, <2>4 DEF Goto, Active, TypeOK, SameUpdater, thread
    <3> QED
      BY <1>a, <1>v, <2>1, <2>2, <3>1 DEF Frame
  <2> QED
    BY <2>1, <2>3, <2>4
<1>7. CASE \/ UpdateFails(u) \/ NoLocation(u) \/ KeepGeocode(u) \/ GeocoderSilent(u)
           \/ GeocoderFails(u) \/ GeocoderAnswers(u)
  <2>1. End(u)
    BY <1>7 DEF UpdateFails, NoLocation, KeepGeocode, GeocoderSilent, GeocoderFails, GeocoderAnswers
  <2>2. UNCHANGED <<reads, place, clash, location>>
    BY <1>7 DEF UpdateFails, NoLocation, KeepGeocode, GeocoderSilent, GeocoderFails,
                GeocoderAnswers, cars, object, history
  <2>3. wrote[veh[u]] \subseteq wrote'[veh[u]] /\ (previous' = previous \/ previous' \in wrote'[veh[u]])
    <3>1. CASE GeocoderAnswers(u)
      BY <1>0, <1>v, <3>1 DEF GeocoderAnswers, TypeOK
    <3>2. CASE ~ GeocoderAnswers(u)
      BY <1>7, <3>2 DEF UpdateFails, NoLocation, KeepGeocode, GeocoderSilent, GeocoderFails,
                        object, history
    <3> QED
      BY <3>1, <3>2
  <2>4. ASSUME NEW d \in Vehicles \ {veh[u]} PROVE SameVehicle(d)
    <3>1. CASE UpdateFails(u) \/ NoLocation(u) \/ KeepGeocode(u) \/ GeocoderSilent(u)
      BY <1>0, <2>4, <3>1 DEF UpdateFails, NoLocation, KeepGeocode, GeocoderSilent, Geocoded,
                              TypeOK, SameVehicle, object, history
    <3>2. CASE GeocoderFails(u) \/ GeocoderAnswers(u)
      BY <1>0, <2>4, <3>2 DEF GeocoderFails, GeocoderAnswers, Geocoded, TypeOK, SameVehicle
    <3> QED
      BY <1>7, <3>1, <3>2
  <2> QED
    BY <1>0, <1>a, <1>v, <2>1, <2>2, <2>3, <2>4, EndSame DEF Frame
<1> QED
  BY <1>a, <1>v, <1>1, <1>2, <1>3, <1>4, <1>5, <1>6, <1>7 DEF Update

LEMMA OtherVehicles ==
  ASSUME IInv, NEW u \in Updaters, NEW v \in Vehicles, veh[u] = v, Frame(u, v),
         NEW d \in Vehicles, d # v
  PROVE  VehInv(d)'
<1>0. VehInv(d) /\ None \notin Vehicles
  BY LocationAssumption DEF IInv
<1>1. SameVehicle(d) /\ reads'[d] = reads[d] /\ place'[d] = place[d] /\ clash'[d] = clash[d]
  BY DEF Frame
<1>2. \A w \in Updaters : veh'[w] = d <=> veh[w] = d
  BY <1>0 DEF Frame, SameUpdater
<1>3. \A w \in Updaters : veh[w] = d => pc'[w] = pc[w]
  BY DEF Frame, SameUpdater
<1>4. Behind(d)' /\ Single(d)' /\ Once(d)' /\ Current(d)'
  BY <1>0, <1>1, <1>2, <1>3 DEF VehInv, Behind, Single, Crowded, Once, Current, Known, SameVehicle
<1>5. \A p : Foreign(d, p) => Foreign(d, p)'
  BY DEF Foreign, Frame, SameVehicle
<1>6. Own(d)'
  <2>1. CASE previous' = previous
    BY <1>0, <1>1, <1>5, <2>1 DEF VehInv, Own, SameVehicle
  <2>2. CASE previous' \in wrote'[v]
    BY <2>2 DEF Own, Foreign
  <2> QED
    BY <2>1, <2>2 DEF Frame
<1>7. Right(d)'
  BY <1>0, <1>1, <1>5 DEF VehInv, Right, SameVehicle
<1> QED
  BY <1>4, <1>6, <1>7 DEF VehInv

LEMMA OtherUpdaters ==
  ASSUME IInv, NEW u \in Updaters, NEW v \in Vehicles, veh[u] = v, Frame(u, v),
         NEW w \in Updaters, w # u
  PROVE  UpdInv(w)'
<1>0. UpdInv(w) /\ VehInv(v) /\ None \notin Vehicles
  BY LocationAssumption DEF IInv
<1>1. SameUpdater(w) /\ UNCHANGED <<reads, place, clash>>
  BY DEF Frame
<1>2. CASE veh[w] = v
  <2>1. clash[v] = "now"
    BY <1>0, <1>2 DEF VehInv, Single, Crowded
  <2> QED
    BY <1>0, <1>1, <1>2, <2>1 DEF UpdInv, Placed, Reading, AtLocation, AtStore, Geocoding,
       SameUpdater, Active, Frame
<1>3. CASE veh[w] \in Vehicles /\ veh[w] # v
  <2>1. SameVehicle(veh[w])
    BY <1>3 DEF Frame
  <2> QED
    BY <1>0, <1>1, <1>3, <2>1 DEF UpdInv, Placed, Reading, AtLocation, AtStore, Known, Geocoding,
       SameUpdater, SameVehicle, Active
<1>4. CASE veh[w] \notin Vehicles
  <2>1. pc[w] = "idle" /\ veh[w] = None
    BY <1>0, <1>4 DEF UpdInv, Placed, Active
  <2> QED
    BY <1>1, <2>1 DEF UpdInv, Placed, Reading, AtLocation, AtStore, Geocoding, SameUpdater, Active
<1> QED
  BY <1>2, <1>3, <1>4

-----------------------------------------------------------------------------
(* What a step of an update does to its vehicle and its updater.            *)

\* What every step of an update leaves true.
LEMMA OwnFrame ==
  ASSUME IInv, NEW u \in Updaters, Update(u), NEW v \in Vehicles, veh[u] = v
  PROVE  /\ Single(v)' /\ UNCHANGED <<reads, place, clash>>
         /\ clash[v] # "now" => \A w \in Updaters : veh[w] = v \/ veh'[w] = v => w = u
         /\ \A p : Foreign(v, p)' = Foreign(v, p)
         /\ Active(u)' => veh'[u] = v
         /\ Active(u)' \/ (pc'[u] = "idle" /\ veh'[u] = None)
<1>0. Single(v) /\ None \notin Vehicles /\ Frame(u, v) /\ Active(u)
  BY UpdateFrame, LocationAssumption DEF IInv, VehInv
<1>1. \A w \in Updaters : veh'[w] = v => veh[w] = v
  BY <1>0 DEF Frame, SameUpdater
<1>2. Single(v)' /\ UNCHANGED <<reads, place, clash>>
  BY <1>0, <1>1 DEF Single, Crowded, Frame
<1>3. clash[v] # "now" => \A w \in Updaters : veh[w] = v \/ veh'[w] = v => w = u
  BY <1>0, <1>1 DEF Single, Crowded
<1>4. \A p : Foreign(v, p)' = Foreign(v, p)
  BY <1>0 DEF Frame, SameVehicle, Foreign
<1>5. /\ Active(u)' => veh'[u] = v
      /\ Active(u)' \/ (pc'[u] = "idle" /\ veh'[u] = None)
  BY <1>0 DEF Frame, Active
<1> QED
  BY <1>2, <1>3, <1>4, <1>5

LEMMA OwnStep ==
  ASSUME IInv, NEW u \in Updaters, Update(u), NEW v \in Vehicles, veh[u] = v
  PROVE  VehInv(v)' /\ UpdInv(u)'
<1>0. /\ TypeOK /\ VehInv(v) /\ UpdInv(u) /\ None \notin Places
      /\ Single(v)' /\ UNCHANGED <<reads, place, clash>>
      /\ clash[v] # "now" => \A w \in Updaters : veh[w] = v \/ veh'[w] = v => w = u
      /\ \A p : Foreign(v, p)' = Foreign(v, p)
      /\ Active(u)' => veh'[u] = v
      /\ Active(u)' \/ (pc'[u] = "idle" /\ veh'[u] = None)
  BY OwnFrame, LocationAssumption DEF IInv
<1>t. /\ odometer[v] \in Nat /\ reads[v] \in Nat /\ reading[u] \in Nat /\ place[v] \in Places
      /\ reads'[v] = reads[v] /\ place'[v] = place[v] /\ clash'[v] = clash[v]
  BY <1>0 DEF TypeOK, Readings
\* Steps after which the update goes on, and the vehicle's time of geocoding
\* has not come.
<1>g. ASSUME Active(u), UNCHANGED <<geocode, geocoded, previous>>
      PROVE  Own(v)' /\ Right(v)'
  <2>1. Own(v)'
    BY <1>0, <1>t, <1>g DEF VehInv, Own
  <2>2. Right(v)'
    BY <1>0, <1>t, <1>g DEF UpdInv, Geocoding, Right
  <2> QED
    BY <2>1, <2>2
\* Steps that leave everything else to the vehicle.
<1>s. ASSUME UNCHANGED <<odometer, location, attempted, unprompted, missed>>,
             pc[u] # "location", pc'[u] # "location"
      PROVE  Behind(v)' /\ Once(v)' /\ Current(v)'
  BY <1>0, <1>t, <1>s DEF VehInv, Behind, Once, Current, Known
\* Steps after which the update has no coordinates and no reading to store.
<1>u. ASSUME pc'[u] \notin {"gate", "locate", "location", "store", "geocoding"},
             UNCHANGED geocoded, Active(u)
      PROVE  UpdInv(u)'
  <2>1. Placed(u)' /\ Reading(u)' /\ AtLocation(u)' /\ AtStore(u)'
    BY <1>0, <1>u DEF Placed, Reading, AtLocation, AtStore, Active
  <2>2. Geocoding(u)'
    BY <1>0, <1>t, <1>u DEF UpdInv, Geocoding, Active
  <2> QED
    BY <2>1, <2>2 DEF UpdInv
<1>1. CASE GotService(u)
  <2>1. /\ pc[u] = "service" /\ pc'[u] = "gate" /\ reading'[u] = reads[v]
        /\ UNCHANGED <<odometer, location, attempted, geocode, previous, missed, unprompted, geocoded>>
    BY <1>0, <1>1 DEF GotService, At, Goto, TypeOK, object, history
  <2>2. VehInv(v)'
    BY <1>0, <1>g, <1>s, <2>1 DEF VehInv, Active
  <2>3. UpdInv(u)'
    BY <1>0, <1>t, <2>1 DEF UpdInv, Placed, Reading, AtLocation, AtStore, Geocoding, Active
  <2> QED
    BY <2>2, <2>3
<1>2. CASE Gate(u)
  <2>1. /\ pc[u] = "gate" /\ pc'[u] \in {"locate", "store"} /\ reading'[u] = reading[u]
        /\ UNCHANGED <<odometer, location, geocode, previous, missed, geocoded>>
        /\ pc'[u] = "store" => ~ Wanted(v, reading[u])
    BY <1>0, <1>2 DEF Gate, At, Goto, TypeOK, thread
  <2>2. Once(v)'
    <3>1. CASE Wanted(v, reading[u])
      <4>1. /\ attempted'[v] = (attempted[v] \/ (odometer[v] # 0 /\ Unknown(v)))
            /\ unprompted'[v] = IF odometer[v] \in {0} \cup 0..(reading[u] - 1) \/ unprompted[v] = 2
                                THEN unprompted[v] ELSE unprompted[v] + 1
        BY <1>0, <1>2, <3>1 DEF Gate, TypeOK
      <4>2. CASE odometer[v] \in {0} \cup 0..(reading[u] - 1)
        BY <1>0, <4>1, <4>2 DEF VehInv, Once
      <4>3. CASE odometer[v] \notin {0} \cup 0..(reading[u] - 1)
        <5>1. Unknown(v) /\ ~ attempted[v] /\ odometer[v] # 0
          BY <1>t, <3>1, <4>3 DEF Wanted
        <5>2. unprompted[v] = 0
          BY <1>0, <5>1 DEF VehInv, Once
        <5>3. attempted'[v]
          BY <4>1, <5>1, Zenon
        <5>4. unprompted'[v] = 1
          BY <4>1, <4>3, <5>2
        <5> QED
          BY <5>3, <5>4 DEF Once
      <4> QED
        BY <4>2, <4>3
    <3>2. CASE ~ Wanted(v, reading[u])
      <4>1. UNCHANGED <<attempted, unprompted>>
        BY <1>0, <1>2, <3>2 DEF Gate
      <4>2. Once(v)
        BY <1>0 DEF VehInv
      <4> QED
        BY <2>1, <4>1, <4>2 DEF Once
    <3> QED
      BY <3>1, <3>2
  <2>3. Behind(v)' /\ Current(v)'
    BY <1>0, <1>t, <2>1 DEF VehInv, Behind, Current, Known
  <2>4. AtStore(u)'
    <3> SUFFICES ASSUME pc'[u] = "store", clash[v] # "now", reading[u] # 0, reading[u] = reads[v]
                 PROVE  Known(v)
      BY <1>0, <1>t, <2>1 DEF AtStore, Active, Known
    <3>1. odometer[v] # 0 /\ odometer[v] = reads[v]
      BY <1>0, <1>t, <2>1 DEF Wanted, VehInv, Behind
    <3> QED
      BY <1>0, <2>1, <3>1 DEF VehInv, Current
  <2>5. UpdInv(u)'
    BY <1>0, <1>t, <2>1, <2>4 DEF UpdInv, Placed, Reading, AtLocation, Geocoding, Active
  <2> QED
    BY <1>0, <1>g, <2>1, <2>2, <2>3, <2>5 DEF VehInv, Active
<1>3. CASE GotLocation(u)
  <2>1. /\ pc[u] = "locate" /\ pc'[u] = "location" /\ reading'[u] = reading[u]
        /\ UNCHANGED <<odometer, location, attempted, geocode, previous, unprompted, geocoded>>
    BY <1>0, <1>3 DEF GotLocation, At, Goto, object, TypeOK
  <2>2. \E p \in {place[v], None} : found'[u] = p /\ missed'[v] = (p = None)
    <3>1. PICK p \in {place[v], None} : /\ found' = [found EXCEPT ![u] = p]
                                        /\ missed' = [missed EXCEPT ![v] = p = None]
      BY <1>3 DEF GotLocation
    <3>2. found'[u] = p /\ missed'[v] = (p = None)
      BY <1>0, <3>1, Zenon DEF TypeOK
    <3> QED
      BY <3>2
  <2>3. Behind(v)' /\ Once(v)' /\ Current(v)'
    BY <1>0, <1>t, <2>1 DEF VehInv, Behind, Once, Current, Active
  <2>4. AtLocation(u)'
    BY <1>0, <1>t, <2>1, <2>2 DEF AtLocation, Active
  <2>5. UpdInv(u)'
    BY <1>0, <1>t, <2>1, <2>4 DEF UpdInv, Placed, Reading, AtStore, Geocoding, Active
  <2> QED
    BY <1>0, <1>g, <2>1, <2>3, <2>5 DEF VehInv, Active
<1>4. CASE StoreLocation(u)
  <2>1. /\ pc[u] = "location" /\ pc'[u] = "store" /\ reading'[u] = reading[u]
        /\ UNCHANGED <<odometer, attempted, geocode, previous, missed, unprompted, geocoded>>
        /\ location'[v] = IF found[u] = None THEN location[v] ELSE found[u]
    BY <1>0, <1>4 DEF StoreLocation, At, Goto, TypeOK, thread, history
  <2>2. clash[v] # "now" /\ reads[v] \in {reading[u], odometer[v]} => Known(v)'
    BY <1>0, <1>t, <2>1 DEF UpdInv, AtLocation, Known
  <2>3. Behind(v)' /\ Once(v)' /\ Current(v)'
    BY <1>0, <1>t, <2>1, <2>2 DEF VehInv, Behind, Once, Current
  <2>4. AtStore(u)'
    BY <1>0, <1>t, <2>1, <2>2 DEF AtStore, Active
  <2>5. UpdInv(u)'
    BY <1>0, <1>t, <2>1, <2>4 DEF UpdInv, Placed, Reading, AtLocation, Geocoding, Active
  <2> QED
    BY <1>0, <1>g, <2>1, <2>3, <2>5 DEF VehInv, Active
<1>5. CASE StoreService(u)
  <2>1. /\ pc[u] = "store" /\ pc'[u] \in {"idle", "geocode"} /\ odometer'[v] = reading[u]
        /\ UNCHANGED <<location, attempted, geocode, previous, missed, unprompted, geocoded>>
    BY <1>0, <1>5 DEF StoreService, At, End, Goto, TypeOK, history
  <2>2. Behind(v)' /\ Once(v)'
    BY <1>0, <1>t, <2>1 DEF VehInv, UpdInv, Reading, Behind, Once
  <2>3. Current(v)'
    BY <1>0, <1>t, <2>1 DEF UpdInv, AtStore, Current, Known
  <2> QED
    BY <1>0, <1>g, <1>u, <2>1, <2>2, <2>3 DEF VehInv, Active
<1>6. CASE UpdateFails(u) \/ NoLocation(u)
  <2>1. /\ pc[u] \in {"service", "geocode"} /\ pc'[u] = "idle"
        /\ UNCHANGED <<odometer, location, attempted, geocode, previous, missed, unprompted, geocoded>>
    BY <1>0, <1>6, EndSame DEF UpdateFails, NoLocation, At, object, history
  <2> QED
    BY <1>0, <1>g, <1>s, <1>u, <2>1 DEF VehInv, Active
<1>7. CASE AskGeocoder(u)
  <2>1. /\ pc[u] = "geocode" /\ pc'[u] = "geocoding" /\ asked'[u] = location[v] /\ location[v] # None
        /\ UNCHANGED <<odometer, location, attempted, geocode, previous, missed, unprompted, geocoded>>
    BY <1>0, <1>7 DEF AskGeocoder, At, Goto, TypeOK, object, history
  <2>2. UpdInv(u)'
    BY <1>0, <1>t, <2>1 DEF UpdInv, Placed, Reading, AtLocation, AtStore, Geocoding, Active
  <2> QED
    BY <1>0, <1>g, <1>s, <2>1, <2>2 DEF VehInv, Active
<1>8. CASE KeepGeocode(u) \/ GeocoderAnswers(u) \/ GeocoderFails(u) \/ GeocoderSilent(u)
  <2>1. /\ pc[u] \in {"geocode", "geocoding"} /\ pc'[u] = "idle"
        /\ UNCHANGED <<odometer, location, attempted, missed, unprompted>>
    BY <1>0, <1>8, EndSame
       DEF KeepGeocode, GeocoderAnswers, GeocoderFails, GeocoderSilent, At, object
  <2>2. UpdInv(u)'
    BY <1>0, <2>1 DEF UpdInv, Placed, Reading, AtLocation, AtStore, Geocoding, Active
  <2>3. Own(v)' /\ Right(v)'
    <3>1. CASE KeepGeocode(u)
      <4>1. /\ location[v] # None /\ location[v] = previous
            /\ UNCHANGED <<geocode, previous>>
        BY <3>1 DEF KeepGeocode, object
      <4> QED
        BY <1>0, <1>t, <2>1, <4>1 DEF VehInv, Own, Right
    <3>2. CASE GeocoderAnswers(u)
      <4>1. previous' = location[v] /\ geocode'[v] \in {asked[u], None} /\ pc[u] = "geocoding"
        BY <1>0, <3>2 DEF GeocoderAnswers, At, TypeOK
      <4> QED
        BY <1>0, <1>t, <2>1, <4>1 DEF UpdInv, Geocoding, Active, Own, Right
    <3>3. CASE GeocoderFails(u)
      <4>1. geocode'[v] = None /\ previous' = previous
        BY <1>0, <3>3 DEF GeocoderFails, TypeOK
      <4> QED
        BY <4>1 DEF Own, Right
    <3>4. CASE GeocoderSilent(u)
      <4>1. ~ geocoded'[v] /\ UNCHANGED <<geocode, previous>>
        BY <1>0, <3>4, Zenon DEF GeocoderSilent, Geocoded, TypeOK, object
      <4> QED
        BY <1>0, <1>t, <4>1 DEF VehInv, Own, Right
    <3> QED
      BY <1>8, <3>1, <3>2, <3>3, <3>4
  <2> QED
    BY <1>0, <1>s, <2>1, <2>2, <2>3 DEF VehInv
<1> QED
  BY <1>1, <1>2, <1>3, <1>4, <1>5, <1>6, <1>7, <1>8 DEF Update

-----------------------------------------------------------------------------
(* The other steps.                                                         *)

LEMMA BeginStep ==
  ASSUME IInv, NEW u \in Updaters, NEW v \in Vehicles, Begin(u, v)
  PROVE  (\A d \in Vehicles : VehInv(d)') /\ (\A w \in Updaters : UpdInv(w)')
<1>0. /\ TypeOK /\ None \notin Vehicles
      /\ \A d \in Vehicles : VehInv(d)
      /\ \A w \in Updaters : UpdInv(w)
  BY LocationAssumption DEF IInv
<1>1. /\ pc[u] = "idle" /\ veh[u] = None /\ pc'[u] = "service" /\ veh'[u] = v
      /\ \A w \in Updaters \ {u} : pc'[w] = pc[w] /\ veh'[w] = veh[w]
      /\ clash'[v] = IF \E w \in Updaters : veh[w] = v THEN "now" ELSE clash[v]
      /\ ~ geocoded'[v]
      /\ \A d \in Vehicles \ {v} : clash'[d] = clash[d] /\ geocoded'[d] = geocoded[d]
      /\ UNCHANGED <<reads, place, odometer, location, attempted, geocode, previous, reading, found,
                     asked, missed, unprompted, wrote>>
  <2>1. ~ geocoded'[v] /\ \A d \in Vehicles \ {v} : geocoded'[d] = geocoded[d]
    BY <1>0, Zenon DEF Begin, Geocoded, TypeOK
  <2>2. pc[u] = "idle" /\ veh[u] = None
    BY <1>0 DEF Begin, At, UpdInv, Placed, Active
  <2>3. /\ pc' = [pc EXCEPT ![u] = "service"] /\ veh' = [veh EXCEPT ![u] = v]
        /\ clash' = [clash EXCEPT ![v] = IF \E w \in Updaters : veh[w] = v THEN "now" ELSE @]
        /\ UNCHANGED <<reads, place, odometer, location, attempted, geocode, previous, reading, found,
                       asked, missed, unprompted, wrote>>
    BY DEF Begin, Goto, cars, object
  <2>4. /\ pc'[u] = "service" /\ veh'[u] = v
        /\ \A w \in Updaters \ {u} : pc'[w] = pc[w] /\ veh'[w] = veh[w]
        /\ clash'[v] = IF \E w \in Updaters : veh[w] = v THEN "now" ELSE clash[v]
        /\ \A d \in Vehicles \ {v} : clash'[d] = clash[d]
    BY <1>0, <2>3 DEF TypeOK
  <2> QED
    BY <2>1, <2>2, <2>3, <2>4
<1>c. \A d \in Vehicles : clash'[d] # "now" => clash'[d] = clash[d]
  BY <1>1
<1>2. ASSUME NEW d \in Vehicles PROVE VehInv(d)'
  <2>0. VehInv(d) /\ (\A p : Foreign(d, p)' = Foreign(d, p))
    BY <1>0, <1>1 DEF Foreign
  <2>1. Behind(d)' /\ Once(d)'
    BY <1>1, <2>0 DEF VehInv, Behind, Once
  <2>2. Single(d)'
    <3>1. CASE d = v
      BY <1>1, <3>1 DEF Single, Crowded
    <3>2. CASE d # v
      BY <1>1, <2>0, <3>2 DEF VehInv, Single, Crowded
    <3> QED
      BY <3>1, <3>2
  <2>3. Current(d)'
    <3> SUFFICES ASSUME /\ clash'[d] # "now" /\ odometer[d] # 0 /\ odometer[d] = reads[d]
                        /\ \A w \in Updaters : veh'[w] = d => pc'[w] # "location"
                 PROVE  Known(d)
      BY <1>1 DEF Current, Known
    <3>1. \A w \in Updaters : veh[w] = d => pc[w] # "location"
      BY <1>0, <1>1
    <3> QED
      BY <1>c, <2>0, <3>1 DEF VehInv, Current
  <2>4. Own(d)'
    BY <1>1, <1>c, <2>0 DEF VehInv, Own
  <2>5. Right(d)'
    BY <1>1, <1>c, <2>0 DEF VehInv, Right
  <2> QED
    BY <2>1, <2>2, <2>3, <2>4, <2>5 DEF VehInv
<1>3. ASSUME NEW w \in Updaters PROVE UpdInv(w)'
  <2>1. CASE w = u
    BY <1>1, <2>1 DEF UpdInv, Placed, Reading, AtLocation, AtStore, Geocoding, Active
  <2>2. CASE w # u /\ veh[w] \in Vehicles
    <3>1. clash'[veh[w]] # "now" => clash'[veh[w]] = clash[veh[w]] /\ veh[w] # v
      BY <1>1, <2>2
    <3>2. veh[w] # v => geocoded'[veh[w]] = geocoded[veh[w]]
      BY <1>1, <2>2
    <3> QED
      BY <1>0, <1>1, <2>2, <3>1, <3>2
         DEF UpdInv, Placed, Reading, AtLocation, AtStore, Known, Geocoding, Active
  <2>3. CASE w # u /\ veh[w] \notin Vehicles
    <3>1. pc[w] = "idle" /\ veh[w] = None
      BY <1>0, <2>3 DEF UpdInv, Placed, Active
    <3> QED
      BY <1>1, <2>3, <3>1 DEF UpdInv, Placed, Reading, AtLocation, AtStore, Geocoding, Active
  <2> QED
    BY <2>1, <2>2, <2>3
<1> QED
  BY <1>2, <1>3

\* After a trip nothing that was read of the car is up to date.
LEMMA DriveStep ==
  ASSUME IInv, NEW v \in Vehicles, Drive(v)
  PROVE  (\A d \in Vehicles : VehInv(d)') /\ (\A w \in Updaters : UpdInv(w)')
<1>0. /\ TypeOK
      /\ \A d \in Vehicles : VehInv(d) /\ odometer[d] \in Nat /\ reads[d] \in Nat
      /\ \A w \in Updaters : UpdInv(w) /\ reading[w] \in Nat
  BY DEF IInv, TypeOK, Readings
<1>1. /\ reads'[v] = reads[v] + 1
      /\ clash'[v] = IF clash[v] = "now" /\ ~ Crowded(v) THEN "earlier" ELSE clash[v]
      /\ \A d \in Vehicles \ {v} : reads'[d] = reads[d] /\ place'[d] = place[d] /\ clash'[d] = clash[d]
      /\ UNCHANGED <<odometer, location, attempted, geocode, previous, pc, veh, reading, found, asked,
                     missed, unprompted, geocoded, wrote>>
  BY <1>0 DEF Drive, TypeOK, object, thread
<1>2. ASSUME NEW d \in Vehicles PROVE VehInv(d)'
  <2>0. VehInv(d) /\ (\A p : Foreign(d, p)' = Foreign(d, p)) /\ Crowded(d)' = Crowded(d)
    BY <1>0, <1>1 DEF Foreign, Crowded
  <2>1. CASE d = v
    <3>1. odometer'[d] < reads'[d]
      BY <1>0, <1>1, <2>0, <2>1 DEF VehInv, Behind
    <3>2. Behind(d)' /\ Current(d)'
      BY <1>0, <1>1, <2>1, <3>1 DEF Behind, Current
    <3>3. Single(d)' /\ Once(d)' /\ Own(d)' /\ Right(d)'
      BY <1>1, <2>0, <2>1 DEF VehInv, Single, Once, Own, Right
    <3> QED
      BY <3>2, <3>3 DEF VehInv
  <2>2. CASE d # v
    BY <1>1, <2>0, <2>2 DEF VehInv, Behind, Single, Once, Current, Known, Own, Right
  <2> QED
    BY <2>1, <2>2
<1>3. ASSUME NEW w \in Updaters PROVE UpdInv(w)'
  <2>0. UpdInv(w)
    BY <1>0
  <2>1. CASE veh[w] = v
    <3>1. pc[w] \in {"location", "store"} => reading[w] < reads'[v] /\ odometer[v] < reads'[v]
      BY <1>0, <1>1, <2>0, <2>1 DEF UpdInv, Reading, VehInv, Behind
    <3>2. Placed(w)' /\ Reading(w)'
      BY <1>0, <1>1, <2>0, <2>1 DEF UpdInv, Placed, Reading, Active
    <3>3. AtLocation(w)' /\ AtStore(w)'
      BY <1>0, <1>1, <2>1, <3>1 DEF AtLocation, AtStore
    <3>4. Geocoding(w)'
      BY <1>1, <2>0, <2>1 DEF UpdInv, Geocoding, Active
    <3> QED
      BY <3>2, <3>3, <3>4 DEF UpdInv
  <2>2. CASE veh[w] \in Vehicles /\ veh[w] # v
    BY <1>1, <2>0, <2>2 DEF UpdInv, Placed, Reading, AtLocation, AtStore, Known, Geocoding, Active
  <2>3. CASE veh[w] \notin Vehicles
    BY <1>1, <2>0, <2>3 DEF UpdInv, Placed, Reading, AtLocation, AtStore, Geocoding, Active
  <2> QED
    BY <2>1, <2>2, <2>3
<1> QED
  BY <1>2, <1>3

-----------------------------------------------------------------------------
(* The inductive invariant.                                                 *)

LEMMA InitInv == Init => IInv
<1> SUFFICES ASSUME Init PROVE IInv
  OBVIOUS
<1>1. TypeOK
  BY LocationAssumption DEF Init, TypeOK, PCs, Readings, Somewhere
<1>2. ASSUME NEW v \in Vehicles PROVE VehInv(v)
  BY <1>1, LocationAssumption
     DEF Init, VehInv, Behind, Single, Crowded, Once, Current, Own, Right, TypeOK, Readings
<1>3. ASSUME NEW u \in Updaters PROVE UpdInv(u)
  BY DEF Init, UpdInv, Placed, Reading, AtLocation, AtStore, Geocoding, Active
<1> QED
  BY <1>1, <1>2, <1>3 DEF IInv

LEMMA StepInv == IInv /\ [Next]_vars => IInv'
<1> SUFFICES ASSUME IInv, [Next]_vars PROVE IInv'
  OBVIOUS
<1>1. TypeOK'
  BY TypeStep
<1>2. ASSUME NEW u \in Updaters, Update(u) PROVE IInv'
  <2>1. veh[u] \in Vehicles /\ Frame(u, veh[u])
    BY <1>2, UpdateFrame
  <2>3. ASSUME NEW v \in Vehicles, v = veh[u] PROVE IInv'
    <3>3. veh[u] = v /\ Frame(u, v)
      BY <2>1, <2>3
    <3>4. VehInv(v)' /\ UpdInv(u)'
      BY <1>1, <1>2, <3>3, OwnStep
    <3>1. ASSUME NEW d \in Vehicles PROVE VehInv(d)'
      <4>1. CASE d = v
        BY <3>4, <4>1
      <4>2. CASE d # v
        BY <1>1, <1>2, <3>3, <4>2, OtherVehicles
      <4> QED
        BY <4>1, <4>2
    <3>2. \A w \in Updaters : UpdInv(w)'
      BY <1>1, <1>2, <3>3, <3>4, OtherUpdaters
    <3> QED
      BY <1>1, <3>1, <3>2 DEF IInv
  <2> QED
    BY <2>1, <2>3
<1>3. ASSUME NEW u \in Updaters, NEW v \in Vehicles, Begin(u, v) PROVE IInv'
  BY <1>1, <1>3, BeginStep DEF IInv
<1>4. ASSUME NEW v \in Vehicles, Drive(v) PROVE IInv'
  BY <1>1, <1>4, DriveStep DEF IInv
<1>5. CASE UNCHANGED vars
  <2>1. (\A d \in Vehicles : VehInv(d)') /\ (\A w \in Updaters : UpdInv(w)')
    BY <1>5 DEF vars, cars, object, thread, history, IInv, VehInv, Behind, Single, Crowded, Once,
       Current, Known, Own, Right, Foreign, UpdInv, Placed, Reading, AtLocation, AtStore, Geocoding,
       Active
  <2> QED
    BY <1>1, <2>1 DEF IInv
<1> QED
  BY <1>2, <1>3, <1>4, <1>5 DEF Next

LEMMA Inductive == Spec => []IInv
BY InitInv, StepInv, PTL DEF Spec

-----------------------------------------------------------------------------
(* The theorems.                                                            *)

\* Every variable stays in its type; in particular the coordinates that are
\* sent to the geocoder are always those of a place.
THEOREM TypeCorrect == Spec => []TypeOK
<1>1. IInv => TypeOK
  BY DEF IInv
<1> QED
  BY <1>1, Inductive, PTL

\* A vehicle whose odometer is up to date has its location too, unless the
\* request failed or two updates of it met since its last trip.
THEOREM StaleLocationsWereMissed == Spec => []StaleLocationWasMissed
<1>1. IInv => StaleLocationWasMissed
  <2> SUFFICES ASSUME IInv, NEW v \in Vehicles, Settled(v), clash[v] # "now",
                      odometer[v] # 0, odometer[v] = reads[v]
               PROVE  Known(v)
    BY DEF StaleLocationWasMissed, Known
  <2> QED
    BY DEF IInv, VehInv, Current, Settled
<1> QED
  BY <1>1, Inductive, PTL

\* The odometer gate lets an unprompted request through once per session.
THEOREM UnpromptedOnce == Spec => []UnpromptedFetchOnce
<1>1. IInv => UnpromptedFetchOnce
  BY DEF IInv, VehInv, Once, UnpromptedFetchOnce
<1> QED
  BY <1>1, Inductive, PTL

\* The one pair of coordinates the geocoder remembers gives a vehicle a wrong
\* address only if another vehicle was geocoded at the same place.
THEOREM WrongGeocodesAreForeign == Spec => []WrongGeocodeIsForeign
<1>1. IInv => WrongGeocodeIsForeign
  <2> SUFFICES ASSUME IInv, NEW v \in Vehicles, clash[v] = "never", geocoded[v], geocode[v] # None
               PROVE  geocode[v] = location[v] \/ Foreign(v, location[v])
    BY DEF WrongGeocodeIsForeign, Foreign
  <2> QED
    BY DEF IInv, VehInv, Right
<1> QED
  BY <1>1, Inductive, PTL
-----------------------------------------------------------------------------
(* An update has a bounded number of steps.                                 *)

StepsLeft(u) ==
  IF pc[u] = "idle" THEN 0
  ELSE IF pc[u] = "service" THEN 7
  ELSE IF pc[u] = "gate" THEN 6
  ELSE IF pc[u] = "locate" THEN 5
  ELSE IF pc[u] = "location" THEN 4
  ELSE IF pc[u] = "store" THEN 3
  ELSE IF pc[u] = "geocode" THEN 2
  ELSE 1

\* An update that moves comes nearer to its end, and no step takes an update
\* farther from it but the one that begins it.
UpdatesAdvance ==
  /\ \A u \in Updaters : Update(u) => StepsLeft(u)' < StepsLeft(u)
  /\ \A u \in Updaters : StepsLeft(u)' # StepsLeft(u) =>
       Update(u) \/ \E v \in Vehicles : Begin(u, v)

LEMMA UpdateAdvances ==
  ASSUME IInv, NEW u \in Updaters, Update(u)
  PROVE  StepsLeft(u)' < StepsLeft(u)
<1>0. TypeOK /\ pc[u] \in PCs
  BY DEF IInv, TypeOK
<1>e. ASSUME pc[u] # "idle", End(u) PROVE StepsLeft(u)' < StepsLeft(u)
  BY <1>0, <1>e, EndSame DEF StepsLeft, PCs
<1>1. CASE GotService(u) \/ Gate(u) \/ GotLocation(u) \/ StoreLocation(u) \/ AskGeocoder(u)
  BY <1>0, <1>1 DEF GotService, Gate, GotLocation, StoreLocation, AskGeocoder, At, Goto,
                    TypeOK, StepsLeft
<1>2. CASE StoreService(u)
  <2>1. CASE End(u)
    BY <1>e, <1>2, <2>1 DEF StoreService, At
  <2>2. CASE Goto(u, "geocode")
    BY <1>0, <1>2, <2>2 DEF StoreService, At, Goto, TypeOK, StepsLeft
  <2> QED
    BY <1>2, <2>1, <2>2 DEF StoreService
<1>3. CASE \/ UpdateFails(u) \/ NoLocation(u) \/ KeepGeocode(u) \/ GeocoderSilent(u)
           \/ GeocoderFails(u) \/ GeocoderAnswers(u)
  BY <1>e, <1>3 DEF UpdateFails, NoLocation, KeepGeocode, GeocoderSilent, GeocoderFails,
                    GeocoderAnswers, At
<1> QED
  BY <1>1, <1>2, <1>3 DEF Update

\* Every update of a vehicle ends after at most 7 steps from its first request
\* on, whatever the odometer, the geocoder and the other updates do.
THEOREM UpdatesAreShort ==
  Spec => /\ [](\A u \in Updaters : StepsLeft(u) \in 0..7)
          /\ [][UpdatesAdvance]_vars
<1>1. IInv => \A u \in Updaters : StepsLeft(u) \in 0..7
  BY DEF StepsLeft
<1>2. IInv /\ [Next]_vars => [UpdatesAdvance]_vars
  <2> SUFFICES ASSUME IInv, Next PROVE UpdatesAdvance
    OBVIOUS
  <2>0. TypeOK
    BY DEF IInv
  <2>1. ASSUME NEW u \in Updaters, StepsLeft(u)' # StepsLeft(u)
        PROVE  Update(u) \/ \E v \in Vehicles : Begin(u, v)
    <3>1. pc'[u] # pc[u]
      BY <2>1 DEF StepsLeft
    <3>2. PICK w \in Updaters : Update(w) \/ \E v \in Vehicles : Begin(w, v)
      BY <3>1 DEF Next, Drive
    <3>3. \A x \in Updaters \ {w} : pc'[x] = pc[x]
      <4>1. CASE Update(w)
        BY <4>1, UpdateFrame DEF Frame, SameUpdater
      <4>2. CASE \E v \in Vehicles : Begin(w, v)
        BY <2>0, <4>2 DEF Begin, Goto, TypeOK
      <4> QED
        BY <3>2, <4>1, <4>2
    <3> QED
      BY <3>1, <3>2, <3>3
  <2> QED
    BY <2>1, UpdateAdvances DEF UpdatesAdvance
<1> QED
  BY <1>1, <1>2, Inductive, PTL DEF Spec
=============================================================================
