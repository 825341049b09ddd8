------------------------------- MODULE Schedule -------------------------------
(***************************************************************************)
(* Scheduled charging and departures: what the car reports of them, what the *)
(* Vehicle object keeps, how the options of a caller are completed from it,  *)
(* and what the endpoints of the clients then write to the car.              *)
(*                                                                         *)
(* An option that is None means "leave unchanged", but every endpoint writes *)
(* all the settings of its scope.  Temperatures are in degrees Celsius, the  *)
(* unit of options that say nothing of it; Fahrenheit is not rounded or      *)
(* limited, and not modelled.                                                *)
(***************************************************************************)
EXTENDS Integers, FiniteSets

CONSTANTS
  Platforms,   \* the clients and cars to look at; one is chosen for a behaviour
  Settings,    \* settings the car has, or is given in the app
  Reports,     \* sets of settings that a status may mention
  Requests,    \* options a caller starts with: [values, departures]
  MaxApps,     \* bound: changes made in the app
  MaxPolls,    \* bound: statuses taken over
  MaxCalls     \* bound: schedules applied

None == -1

\* The default of every setting is 0: False, midnight, no day, 21 degrees.
Default == 0
Sunday  == 1   \* of "when": Sunday at midnight
NoDays  == 9   \* of "when": midnight, and an empty list of days
HalfDay == 4   \* "when" v + HalfDay is twelve hours after v, on the same days
Cold    == 2   \* of "temperature": below the 17 degrees that can be set
Limit   == 3   \* of "temperature": 17 degrees
Known   == 0..7
Values  == Known \cup {NoDays}

\* Options and settings: of the charge, of departure 1 and of departure 2.  The
\* options <<0, "climate">> and <<0, "temperature">> are for both departures.
\* "when" is days and time, "climate" the climate flag and defrost.
ChargeFields == {0} \X {"charging", "peakOnly", "window"}
ClimateFields == {1, 2} \X {"enabled", "when", "climate", "temperature"}
Fields == ChargeFields \cup ClimateFields
Names  == Fields \cup ({0} \X {"climate", "temperature"})
Scopes == {"charge", "climate"}
FieldsOf(scopes) == (IF "charge" \in scopes THEN ChargeFields ELSE {})
                    \cup (IF "climate" \in scopes THEN ClimateFields ELSE {})
ForBoth(f) == <<0, f[2]>>
HasForBoth(f) == f \in ClimateFields /\ f[2] \in {"climate", "temperature"}

ASSUME ScheduleAssumption ==
  /\ Platforms \subseteq {"type1", "eu", "ccs2", "ev5", "gspa"}
  /\ Settings \subseteq [Fields -> Known]
  /\ \A s \in Settings : s[<<0, "peakOnly">>] \in {0, 1}
  /\ Reports \subseteq SUBSET Fields
  /\ \A r \in Requests :
       /\ r.values \in [Names -> Values \cup {None}]
       /\ r.values[<<0, "peakOnly">>] \in {0, 1, None}
       /\ r.departures \subseteq {1, 2}
       /\ \A n \in Names : r.values[n] # None => n[1] \in r.departures \cup {0}
  /\ MaxApps \in Nat /\ MaxPolls \in Nat /\ MaxCalls \in Nat

VARIABLES
  platform,    \* fixed
  car,         \* the settings of the car
  vehicle,     \* what the Vehicle object says of them
  options,     \* the caller's options object
  departures,  \* the departures it has an object for
  pc,          \* the next request of the call
  again,       \* was the call run again after an unknown device id?
  outcome,     \* what the call came to
  asked,       \* history: the options as the caller gave them
  claimed,     \* history: the scopes the caller asked for
  origin,      \* history: where the value of a field in the options is from
  wrote,       \* history: the fields the call has written
  disturbed,   \* history: did the app change the car after that?
  apps, polls, calls  \* changes in the app, statuses, schedules so far

callVars == <<pc, again, outcome>>
history  == <<asked, claimed, origin, wrote, disturbed>>
vars == <<platform, car, vehicle, options, departures, callVars, history, apps, polls, calls>>

Unset == [n \in Names |-> None]
NoOrigin == [f \in Fields |-> "none"]

TypeOK ==
  /\ platform \in Platforms
  /\ car \in [Fields -> Known]
  /\ vehicle \in [Fields -> Known \cup {None}]
  /\ options \in [Names -> Values \cup {None}]
  /\ departures \subseteq {1, 2}
  /\ pc \in {"idle", "start", "combined", "charge", "wait", "hvac",
             "reservation-charge", "reservation-hvac"}
  /\ again \in BOOLEAN
  /\ outcome \in {"none", "ok", "refused", "error"}
  /\ asked \in [Names -> Values \cup {None}]
  /\ claimed \subseteq Scopes
  /\ origin \in [Fields -> {"none", "caller", "car", "old", "default", "mirror", "preset"}]
  /\ wrote \subseteq Fields
  /\ disturbed \in BOOLEAN
  /\ apps \in 0..MaxApps
  /\ polls \in 0..MaxPolls
  /\ calls \in 0..MaxCalls

-----------------------------------------------------------------------------
(* The status parsers.                                                      *)

\* ApiImplType1, cars before CCS2: no charge flag, no climate settings.
NotParsed == {<<0, "charging">>} \cup ({1, 2} \X {"climate", "temperature"})

ParsedType1(old, report) ==
  [f \in Fields |->
    IF f \in report \ NotParsed THEN car[f]
    ELSE IF f \in NotParsed \cup {<<0, "peakOnly">>} THEN old[f] ELSE None]

\* KiaUvoApiEU, cars before CCS2.
ParsedEU(old, report) ==
  [f \in Fields |->
    IF f \in report THEN car[f]
    ELSE CASE f[2] \in {"window", "enabled", "when"} -> None
           [] f[2] = "climate"                       -> 0
           [] OTHER                                  -> old[f]]

\* In the newer statuses one mode carries both flags of the charge; off hides
\* the preference.
Mode(f) == IF f = <<0, "peakOnly">> /\ car[<<0, "charging">>] = 0 THEN None ELSE car[f]

ParsedCCS2(old, report) ==
  [f \in Fields |->
    IF f \in report THEN Mode(f) ELSE IF f[2] = "enabled" THEN 0 ELSE old[f]]

\* GspaApiEU: only what is there is taken over.
ParsedGspa(old, report) == [f \in Fields |-> IF f \in report THEN Mode(f) ELSE old[f]]

Parsed(old, report) ==
  CASE platform = "type1"            -> ParsedType1(old, report)
    [] platform = "eu"               -> ParsedEU(old, report)
    [] platform \in {"ccs2", "ev5"}  -> ParsedCCS2(old, report)
    [] platform = "gspa"             -> ParsedGspa(old, report)

\* The newer statuses mention the mode, so both flags of the charge or none.
MayMention(report) ==
  platform \in {"ccs2", "ev5", "gspa"} =>
    (<<0, "charging">> \in report <=> <<0, "peakOnly">> \in report)

\* The vehicle has not been read yet, or once.
Init ==
  /\ platform \in Platforms
  /\ car \in Settings
  /\ LET unread == [f \in Fields |-> None]
     IN vehicle \in {unread} \cup {Parsed(unread, r) : r \in {x \in Reports : MayMention(x)}}
  /\ options = Unset /\ departures = {}
  /\ pc = "idle" /\ again = FALSE /\ outcome = "none"
  /\ asked = Unset /\ claimed = {} /\ origin = NoOrigin
  /\ wrote = {} /\ disturbed = FALSE
  /\ apps = 0 /\ polls = 0 /\ calls = 0

\* The call, if it has ended, is forgotten.
CallIsOver ==
  IF pc = "idle" THEN /\ again' = FALSE /\ outcome' = "none"
                      /\ wrote' = {} /\ disturbed' = FALSE
  ELSE UNCHANGED <<again, outcome, wrote>>

\* Nothing reads the vehicle between the completion of the options and the end
\* of the call, so a status that comes then is as one that comes after it.
Poll(report) ==
  /\ pc \in {"idle", "start"}
  /\ MayMention(report)
  /\ polls < MaxPolls /\ polls' = polls + 1
  /\ vehicle' = Parsed(vehicle, report)
  /\ CallIsOver
  /\ pc # "idle" => UNCHANGED disturbed
  /\ UNCHANGED <<platform, car, options, departures, pc, asked, claimed, origin, apps, calls>>

-----------------------------------------------------------------------------
(* Completing the options.                                                  *)

Or(a, b) == IF a # None THEN a ELSE b

\* What the caller said of a field.
Explicit(o, f) == IF HasForBoth(f) THEN Or(o[f], o[ForBoth(f)]) ELSE o[f]

Normalised(v) == IF v = NoDays THEN Default ELSE v

\* Mutant: what nobody knows stays None.
FillWithoutDefault(o, f) == Normalised(Or(Explicit(o, f), vehicle[f]))

\* Mutant: the vehicle is not asked.
FillWithDefault(o, f) == Normalised(Or(Explicit(o, f), Default))

FillField(o, f) == Normalised(Or(Or(Explicit(o, f), vehicle[f]), Default))

\* Mutant: every scope is filled.
FillEverything(o, scopes) ==
  [n \in Names |-> IF n \in Fields THEN FillField(o, n)
                   ELSE Or(o[n], FillField(o, <<1, n[2]>>))]

\* The fields of the scopes; the climate of departure 1 is copied to the
\* options for both.
Fill(o, scopes) ==
  [n \in Names |-> CASE n \in FieldsOf(scopes)      -> FillField(o, n)
                     [] n \notin Fields /\ "climate" \in scopes
                                                   -> Or(o[n], FillField(o, <<1, n[2]>>))
                     [] OTHER                      -> o[n]]

FilledDepartures(scopes) == IF "climate" \in scopes THEN {1, 2} ELSE departures

\* What the vehicle says of a field is what the car is set to, or is not.
FromStatus(f, missing) ==
  IF vehicle[f] = None THEN missing ELSE IF vehicle[f] = car[f] THEN "car" ELSE "old"

\* Where the values will be from that were not in the options yet.
Origins(o, scopes) ==
  [f \in Fields |->
    IF f \notin FieldsOf(scopes) \/ o[f] # None THEN origin[f]
    ELSE IF HasForBoth(f) /\ o[ForBoth(f)] # None
         THEN IF asked[ForBoth(f)] # None THEN "caller" ELSE "mirror"
         ELSE FromStatus(f, "default")]

Complete(o, scopes) ==
  /\ options' = Fill(o, scopes)
  /\ departures' = FilledDepartures(scopes)
  /\ origin' = Origins(o, scopes)

\* A scope is active if an option of it was given, or a departure object.
ActiveScopes ==
  {s \in Scopes :
     IF s = "charge" THEN \E f \in ChargeFields : options[f] # None
     ELSE departures # {} \/ \E n \in Names \ Fields : options[n] # None}

\* _guard_schedule_temperature: some temperature is known.
TemperatureKnown ==
  \/ options[<<0, "temperature">>] # None
  \/ \E d \in {1, 2} : options[<<d, "temperature">>] # None \/ vehicle[<<d, "temperature">>] # None

-----------------------------------------------------------------------------
(* The caller.                                                              *)

Given(v, f) == IF v[f] # None THEN "caller" ELSE "none"

NewOptions(r) ==
  /\ pc = "idle" /\ calls < MaxCalls
  /\ options' = r.values /\ asked' = r.values
  /\ departures' = r.departures
  /\ claimed' = {s \in Scopes :
                   \/ \E n \in Names : /\ r.values[n] # None
                                       /\ (s = "charge") <=> (n \in ChargeFields)
                   \/ s = "climate" /\ r.departures # {}}
  /\ origin' = [f \in Fields |-> Given(r.values, f)]
  /\ wrote' = {} /\ disturbed' = FALSE /\ outcome' = "none"
  /\ UNCHANGED <<platform, car, vehicle, pc, again, apps, polls, calls>>

\* ScheduleChargingClimateRequestOptions.from_vehicle.
FromVehicle ==
  /\ pc = "idle" /\ calls < MaxCalls
  /\ options' = Fill(Unset, Scopes)
  /\ departures' = {1, 2}
  /\ asked' = Unset /\ claimed' = Scopes
  /\ origin' = [f \in Fields |-> FromStatus(f, "preset")]
  /\ wrote' = {} /\ disturbed' = FALSE /\ outcome' = "none"
  /\ UNCHANGED <<platform, car, vehicle, pc, again, apps, polls, calls>>

\* The caller gives a departure of its options a new object, only enabled.
ReplaceDeparture(d) ==
  LET Replaced(v) == [n \in Names |-> IF n = <<d, "enabled">> THEN 1
                                      ELSE IF n[1] = d THEN None ELSE v[n]]
  IN /\ pc = "idle" /\ calls < MaxCalls /\ departures = {1, 2}
     /\ options' = Replaced(options) /\ asked' = Replaced(asked)
     /\ claimed' = claimed \cup {"climate"}
     /\ origin' = [f \in Fields |-> IF f = <<d, "enabled">> THEN "caller"
                                    ELSE IF f[1] = d THEN "none" ELSE origin[f]]
     /\ wrote' = {} /\ disturbed' = FALSE /\ outcome' = "none"
     /\ UNCHANGED <<platform, car, vehicle, departures, pc, again, apps, polls, calls>>

-----------------------------------------------------------------------------
(* The calls.                                                               *)

Call(first) ==
  /\ pc = "idle" /\ calls < MaxCalls
  /\ calls' = calls + 1
  /\ pc' = first /\ again' = FALSE /\ outcome' = "none"
  /\ wrote' = {} /\ disturbed' = FALSE
  /\ UNCHANGED <<platform, car, vehicle, apps, polls>>

schedule_charging_and_climate ==
  /\ Call("start")
  /\ claimed' = IF platform = "ev5" THEN claimed ELSE Scopes
  /\ UNCHANGED <<options, departures, asked, origin>>

Refuse ==
  /\ pc' = "idle" /\ outcome' = "refused"
  /\ UNCHANGED <<platform, car, vehicle, again, asked, claimed, wrote, disturbed, apps, polls, calls>>

Start(next) ==
  /\ pc' = next
  /\ UNCHANGED <<platform, car, vehicle, again, outcome, asked, claimed, wrote, disturbed,
                 apps, polls, calls>>

StartCombined ==
  /\ pc = "start" /\ platform \in {"type1", "eu", "ccs2"}
  /\ IF TemperatureKnown
     THEN Complete(options, Scopes) /\ Start("combined")
     ELSE Refuse /\ UNCHANGED <<options, departures, origin>>

\* Mutant: an EV5 car is taken to have a temperature.
GuardDropped == TRUE

Guard == "climate" \in ActiveScopes => TemperatureKnown

\* EV5: a scope without options is not sent; the charge options are filled
\* before the temperature is looked at.
StartFlat ==
  /\ pc = "start" /\ platform = "ev5"
  /\ CASE ActiveScopes = {} -> Refuse /\ UNCHANGED <<options, departures, origin>>
       [] ~ Guard           -> Refuse /\ Complete(options, ActiveScopes \ {"climate"})
       [] OTHER             -> /\ Complete(options, ActiveScopes)
                               /\ Start(IF "charge" \in ActiveScopes THEN "charge" ELSE "hvac")

\* The European CCI client has defaults of its own: Sunday, and everything off.
GspaFill(o, f) == Or(o[f], IF f[2] = "when" THEN Sunday ELSE Default)

StartGspa ==
  /\ pc = "start" /\ platform = "gspa"
  /\ options' = [n \in Names |->
       IF n = <<0, "charging">> \/ n = <<0, "climate">> \/ HasForBoth(n)
       THEN options[n] ELSE GspaFill(options, n)]
  /\ departures' = {1, 2}
  /\ origin' = Origins(options, Scopes)
  /\ Start("combined")

\* schedule_reservation_charge and schedule_reservation_hvac of that client.
schedule_reservation_charge ==
  /\ platform = "gspa"
  /\ Call("reservation-charge")
  /\ departures' = departures \cup {1}
  /\ origin' = Origins(options, {"charge"})
  /\ claimed' = {"charge"}
  /\ UNCHANGED <<options, asked>>

schedule_reservation_hvac ==
  /\ platform = "gspa"
  /\ Call("reservation-hvac")
  /\ departures' = {1, 2}
  /\ options' = [options EXCEPT ![<<0, "temperature">>] = Or(@, Default)]
  /\ origin' = Origins(options, {"climate"})
  /\ claimed' = {"climate"}
  /\ UNCHANGED asked

-----------------------------------------------------------------------------
(* The payloads, and what the car makes of them.                            *)

\* Rounded to half a degree, and between 17 and 27.
Clamped(v) == IF v = Cold THEN Limit ELSE v

CombinedFlag(v) == IF v = 1 THEN 2 ELSE 1

\* Mutant: the flags of the combined endpoint.
FlatFlagAligned(v) == CombinedFlag(v)

FlatFlag(v) == IF v = 1 THEN 1 ELSE 2

\* The combined endpoints read 2 as "only", the flat ones 1.
CarReadsFlag(endpoint, flag) ==
  IF (endpoint = "combined") <=> (flag = 2) THEN 1 ELSE 0

\* The value of a field in the payload.
Sent(f) ==
  LET v == IF platform # "gspa" THEN options[f]
           ELSE IF HasForBoth(f) THEN Or(options[ForBoth(f)], Default)
           ELSE IF pc = "reservation-hvac" /\ options[f] = NoDays THEN Sunday
           ELSE GspaFill(options, f)
  IN CASE f[2] = "temperature" -> Clamped(v)
       [] f[2] = "peakOnly"    -> IF pc = "combined" THEN CombinedFlag(v) ELSE FlatFlag(v)
       [] OTHER                -> v

\* An empty list selects no day.
Received(f) == IF f[2] = "peakOnly" THEN CarReadsFlag(pc, Sent(f)) ELSE Normalised(Sent(f))

\* The times of a climate reservation are sent without AM or PM: whatever the
\* cloud makes of that, they may be twelve hours off.
Ambiguous == IF pc = "reservation-hvac" THEN {1, 2} \X {"when"} ELSE {}
TwelveHoursOff(v) == IF v < HalfDay THEN v + HalfDay ELSE v - HalfDay

Write(scopes) ==
  /\ \E off \in SUBSET Ambiguous :
       car' = [f \in Fields |-> IF f \notin FieldsOf(scopes) THEN car[f]
                                ELSE IF f \in off THEN TwelveHoursOff(Received(f))
                                ELSE Received(f)]
  /\ origin' = [f \in Fields |-> IF origin[f] = "car" /\ car'[f] # car[f] THEN "old" ELSE origin[f]]
  /\ wrote' = wrote \cup FieldsOf(scopes)

Written ==
  CASE pc = "combined"                        -> Scopes
    [] pc \in {"charge", "reservation-charge"} -> {"charge"}
    [] pc \in {"hvac", "reservation-hvac"}     -> {"climate"}
    [] OTHER                                   -> {}

AfterCharge == IF "climate" \in ActiveScopes THEN "wait" ELSE "idle"

\* The cloud takes the request.
Accepted ==
  /\ Written # {}
  /\ Write(Written)
  /\ pc' = IF pc = "charge" THEN AfterCharge ELSE "idle"
  /\ outcome' = IF pc' = "idle" THEN "ok" ELSE outcome
  /\ UNCHANGED <<platform, vehicle, options, departures, again, asked, claimed, disturbed,
                 apps, polls, calls>>

\* The record of the charge settles, and the climate is sent.
Settled ==
  /\ pc = "wait"
  /\ pc' = "hvac"
  /\ UNCHANGED <<platform, car, vehicle, options, departures, again, outcome, history,
                 apps, polls, calls>>

\* A refused request, a lost answer to one the car carries out, or a record
\* that does not settle.
Failed ==
  /\ pc \notin {"idle", "start"}
  /\ pc' = "idle" /\ outcome' = "error"
  /\ \/ Write(Written)
     \/ UNCHANGED <<car, origin, wrote>>
  /\ UNCHANGED <<platform, vehicle, options, departures, again, asked, claimed, disturbed,
                 apps, polls, calls>>

\* "Invalid deviceId": the whole call is run again, with the completed options.
RunAgain ==
  /\ platform # "gspa"
  /\ pc \notin {"idle", "start"} /\ ~ again
  /\ again' = TRUE
  /\ pc' = "start"
  /\ UNCHANGED <<platform, car, vehicle, options, departures, outcome, history, apps, polls, calls>>

\* The driver changes the settings in the app or in the car.
AppChanges(s) ==
  /\ apps < MaxApps
  /\ apps' = apps + 1
  /\ car' = s
  /\ origin' = [f \in Fields |-> IF origin[f] = "car" /\ s[f] # car[f] THEN "old" ELSE origin[f]]
  /\ CallIsOver
  /\ pc # "idle" => disturbed' = (disturbed \/ wrote # {})
  /\ UNCHANGED <<platform, vehicle, options, departures, pc, asked, claimed, polls, calls>>

Next ==
  \/ \E r \in Reports : Poll(r)
  \/ \E r \in Requests : NewOptions(r)
  \/ FromVehicle
  \/ \E d \in {1, 2} : ReplaceDeparture(d)
  \/ schedule_charging_and_climate
  \/ StartCombined \/ StartFlat \/ StartGspa
  \/ schedule_reservation_charge \/ schedule_reservation_hvac
  \/ Accepted \/ Settled \/ Failed \/ RunAgain
  \/ \E s \in Settings : AppChanges(s)

Spec == Init /\ [][Next]_vars

-----------------------------------------------------------------------------
(* Properties.                                                              *)

\* "None means leave unchanged": writing a schedule changes no setting whose
\* value was taken from the vehicle while the vehicle was up to date, also
\* when the call is run again or the options are used again.  (A temperature
\* that the car was given but that cannot be set is the exception.)
LeavesUnchanged(f) ==
  origin[f] = "car" => \/ car'[f] = car[f]
                       \/ f[2] = "temperature" /\ car'[f] = Limit

UnaskedIsUnchanged ==
  [][apps' = apps /\ platform # "gspa" => \A f \in Fields : LeavesUnchanged(f)]_vars

\* What the caller said of a field; the European CCI client has one climate
\* setting for both departures, and takes an empty list for Sunday in places.
Wanted(f) ==
  LET v == IF platform = "gspa" /\ HasForBoth(f) THEN asked[ForBoth(f)] ELSE Explicit(asked, f)
  IN IF v # NoDays THEN v ELSE IF platform = "gspa" THEN None ELSE Default

\* "An explicit value (including False) is written to the car": a call that
\* returns has brought every option the caller gave to the car, the off-peak
\* mode with the meaning it was given, over every endpoint - but of the time
\* given to a climate reservation of the CCI client, which lacks AM or PM, only
\* the days and the hour on a clock face.
Arrived(f, v) ==
  CASE f[2] = "temperature" -> {Clamped(v)}
    [] f[2] = "when" /\ platform = "gspa" /\ claimed = {"climate"} -> {v, TwelveHoursOff(v)}
    [] OTHER -> {v}

ExplicitIsWritten ==
  outcome = "ok" /\ ~ disturbed =>
    \A f \in FieldsOf(claimed) : Wanted(f) # None => car[f] \in Arrived(f, Wanted(f))

\* EV5: "a scope with all fields None skips its endpoint entirely", in the
\* second run of a call too.
SilentScopeIsUntouched == platform = "ev5" => wrote \subseteq FieldsOf(claimed)

\* A temperature from neither the caller nor the car, but the default.
Invented(d, origins) == origin[<<d, "temperature">>] \in origins

ClimateWritten == platform # "gspa" /\ wrote \cap ClimateFields # {}

\* The departures' temperatures are not both reset to the default: without any
\* temperature the schedule is refused, unless from_vehicle has put the
\* default into the options.
DefaultIsGuarded == ClimateWritten => ~ \A d \in {1, 2} : Invented(d, {"default"})

\* ApiImpl.py: "When neither the caller nor the vehicle provides a temperature,
\* writing the documented default (21 C) would silently reset the car's
\* setting - so raise instead".
TemperatureIsNotInvented ==
  ClimateWritten => ~ \A d \in {1, 2} : Invented(d, {"default", "preset"})
=============================================================================
