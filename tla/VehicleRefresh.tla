----------------------------- MODULE VehicleRefresh -----------------------------
(***************************************************************************)
(* Cached updates and forced refreshes of one vehicle, client by client: how *)
(* the car's report gets into the Vehicle object, when it is refused, and    *)
(* what VehicleManager concludes from the time it finds there.               *)
(*                                                                         *)
(* A report is named by the time the car made it.  An update is a program: a *)
(* sequence of requests and of writes to the vehicle, each a step, between   *)
(* which the car may report, time pass and other threads run.  The Chinese   *)
(* and the Indian client are looked at with a car without CCS2.              *)
(***************************************************************************)
EXTENDS Integers, Sequences

CONSTANTS
  Threads,    \* the threads that update the vehicle
  Clients,    \* the clients to look at; one is chosen for a behaviour
  Offsets,    \* per client, UTC offsets of the host, in units of the clock
  Intervals,  \* the intervals check_and_force_update_vehicle is called with
  MaxTime     \* bound: the end of the clock

\* The clients whose updates are told apart.
AllClients == {"BR", "EU", "EULegacy", "AU", "AULegacy", "CN", "India",
               "HyundaiCCI", "KiaUSA", "HyundaiUSA", "SVM"}

ASSUME RefreshAssumption ==
  /\ Clients \subseteq AllClients
  /\ \A c \in Clients : Offsets[c] \subseteq Int
  /\ Intervals \subseteq Nat
  /\ MaxTime \in Nat \ {0}

VARIABLES
  client,      \* the client, fixed
  offset,      \* the host's UTC offset, fixed
  now,         \* the clock
  latest,      \* the report the cloud holds; 0 is "none"
  dated,       \* does it say when it was made?
  embedded,    \* the location in it, as the report that location was first in
  stamp,       \* vehicle.last_updated_at; 0 is None
  body,        \* the report the other properties are from; 0: they are blank
  location,    \* the report vehicle.location was first in
  checked,     \* vehicle._ota_checked
  image,       \* the surround-view image that was last returned
  ota,         \* is vehicle.ota_update_available from after the last reset?
  kind,        \* what each thread runs
  todo,        \* the steps it has left
  got,         \* the report it holds
  base,        \* the report the cloud held before the wake-up
  held,        \* the same of the answer it holds about software updates
  since,       \* history: latest when the refresh began, if it promises more
  refused,     \* history: was its wake-up refused?
  crowded,     \* history: was another thread at the vehicle during the update?
  blur,        \* history: until when stamp may be unlike the report's time
  seen,        \* history: the newest location the vehicle had
  missed,      \* history: is there an excuse for an older one?
  otaExcuse    \* history: did a software check since then fail or meet another?

rigid   == <<client, offset>>
cloud   == <<latest, dated, embedded>>
vehicle == <<stamp, body, location, checked, ota, image>>
threads == <<kind, todo, got, base, held, since, refused, crowded>>
history == <<blur, seen, missed, otaExcuse>>
vars    == <<rigid, now, cloud, vehicle, threads, history>>

-----------------------------------------------------------------------------
(* The programs.  Time passes between the steps: the sleep after a wake-up   *)
(* is the time before the next one.                                          *)

\* Mutant: the snapshot is applied whatever its time.
ForcedBRUnchecked == <<"baseline", "wake", "read", "head", "body">>

CachedBR       == <<"read", "head", "body">>
ForcedBR       == <<"baseline", "wake", "reread", "head", "body">>
CachedEU       == <<"read", "head", "body", "park">>
ForcedEU       == <<"nudge", "read", "head", "body", "park">>
ForcedEULegacy == <<"ask", "locate", "head", "body">>
CachedAU       == <<"read", "head", "body", "park">>
ForcedAU       == <<"ask", "head", "body", "park">>
CachedAULegacy == <<"read", "locate", "head", "body">>
ForcedAULegacy == <<"ask", "locate", "head", "body">>
CachedCN       == <<"read", "head", "body">>
ForcedCN       == <<"ask", "locate", "head", "body">>
CachedIndia    == <<"read", "head", "body", "more", "park", "more">>
ForcedIndia    == <<"ask", "head", "body">>
CachedHyundaiCCI == <<"read", "head", "body", "ota", "keep">>
ForcedHyundaiCCI == <<"prewakeup", "read", "head", "body", "ota", "keep">>
CachedKiaUSA   == <<"read", "head", "body">>
ForcedKiaUSA   == <<"ask", "read", "head", "body">>
CachedHyundaiUSA == <<"read", "more", "locate", "head", "body">>
ForcedHyundaiUSA == <<"ask", "more", "locate", "head", "body">>
CaptureSVM     == <<"baseline", "request", "poll", "deliver">>

Program(c) ==
  [BR         |-> [cached |-> CachedBR,         forced |-> ForcedBR],
   EU         |-> [cached |-> CachedEU,         forced |-> ForcedEU],
   EULegacy   |-> [cached |-> CachedEU,         forced |-> ForcedEULegacy],
   AU         |-> [cached |-> CachedAU,         forced |-> ForcedAU],
   AULegacy   |-> [cached |-> CachedAULegacy,   forced |-> ForcedAULegacy],
   CN         |-> [cached |-> CachedCN,         forced |-> ForcedCN],
   India      |-> [cached |-> CachedIndia,         forced |-> ForcedIndia],
   HyundaiCCI |-> [cached |-> CachedHyundaiCCI, forced |-> ForcedHyundaiCCI],
   KiaUSA     |-> [cached |-> CachedKiaUSA,     forced |-> ForcedKiaUSA],
   HyundaiUSA |-> [cached |-> CachedHyundaiUSA, forced |-> ForcedHyundaiUSA],
   SVM        |-> [cached |-> CaptureSVM,       forced |-> CaptureSVM]][c]

-----------------------------------------------------------------------------
(* The parsers, as far as they are told apart: whether the status says where *)
(* the car is, and what the vehicle's time becomes if the status has none.   *)

StatusType1      == [located |-> TRUE,  undated |-> "now"]
StatusCCS2       == [located |-> TRUE,  undated |-> "now"]
StatusEULegacy   == [located |-> TRUE,  undated |-> "now"]
StatusIndia      == [located |-> FALSE, undated |-> "now"]
StatusGspa       == [located |-> TRUE,  undated |-> "now"]
StatusKiaUSA     == [located |-> TRUE,  undated |-> "none"]
StatusHyundaiUSA == [located |-> TRUE,  undated |-> "raises"]

Status ==
  CASE client \in {"AULegacy", "CN"} -> StatusType1
    [] client \in {"BR", "EU", "AU"} -> StatusCCS2
    [] client = "EULegacy"           -> StatusEULegacy
    [] client = "India"              -> StatusIndia
    [] client = "HyundaiCCI"         -> StatusGspa
    [] client = "KiaUSA"             -> StatusKiaUSA
    [] client = "HyundaiUSA"         -> StatusHyundaiUSA

\* The forced refresh of these clients wraps the car's answer into a field the
\* parser does not look for: it finds neither a time nor data.  The Indian one
\* does not find the location either, which is therefore left out.
Unread == {"AULegacy", "CN", "India"}

\* A forced refresh of the others promises a report made after it began; the
\* wake-up of the European clients is best effort.
Promises == Clients \ ({"EU", "HyundaiCCI"} \cup Unread)

\* These take the location from the status in one update and from the car in
\* another, and do not compare the times of the two.
TwoSources == {"CN", "HyundaiUSA"}

\* The location in these statuses may be older than the status.
StaleLocations == {"EU", "EULegacy", "AU"} \cup TwoSources

-----------------------------------------------------------------------------

None == [at |-> 0, dated |-> FALSE, where |-> 0]
Ahead == IF offset > 0 THEN offset ELSE 0
Kinds == {"none", "cached", "forced"}
Steps == {"baseline", "wake", "nudge", "prewakeup", "request", "ask", "read",
          "reread", "poll", "locate", "more", "head", "body", "park", "ota", "keep",
          "deliver"}

TypeOK ==
  /\ client \in Clients
  /\ offset \in Offsets[client]
  /\ now \in 1..MaxTime
  /\ latest \in 0..now
  /\ dated \in BOOLEAN
  /\ embedded \in 0..latest
  /\ stamp \in 0..(MaxTime + Ahead)
  /\ body \in 0..latest
  /\ location \in 0..latest
  /\ checked \in BOOLEAN
  /\ ota \in BOOLEAN
  /\ image \in 0..latest
  /\ kind \in [Threads -> Kinds]
  /\ todo \in [Threads -> Seq(Steps)]
  /\ got \in [Threads -> [at : 0..latest, dated : BOOLEAN, where : 0..latest]]
  /\ base \in [Threads -> 0..latest]
  /\ held \in [Threads -> BOOLEAN]
  /\ since \in [Threads -> 0..latest]
  /\ refused \in [Threads -> BOOLEAN]
  /\ crowded \in [Threads -> BOOLEAN]
  /\ blur \in 0..(MaxTime + Ahead)
  /\ seen \in 0..latest
  /\ missed \in BOOLEAN
  /\ otaExcuse \in BOOLEAN

\* The cloud has a first report; there may be no image yet.
Init ==
  /\ client \in Clients
  /\ offset \in Offsets[client]
  /\ now = 1
  /\ latest \in IF client = "SVM" THEN {0, 1} ELSE {1}
  /\ dated \in BOOLEAN
  /\ embedded = latest
  /\ stamp = 0 /\ body = 0 /\ location = 0
  /\ checked = FALSE /\ ota = FALSE /\ image = 0
  /\ kind = [t \in Threads |-> "none"]
  /\ todo = [t \in Threads |-> <<>>]
  /\ got = [t \in Threads |-> None]
  /\ base = [t \in Threads |-> 0]
  /\ held = [t \in Threads |-> FALSE]
  /\ since = [t \in Threads |-> 0]
  /\ refused = [t \in Threads |-> FALSE]
  /\ crowded = [t \in Threads |-> FALSE]
  /\ blur = 0 /\ seen = 0 /\ missed = FALSE
  /\ otaExcuse = FALSE

Idle(t)  == kind[t] = "none"
At(t, s) == todo[t] # <<>> /\ Head(todo[t]) = s

\* The thread goes on to its next step.
Advance(t) == todo' = [todo EXCEPT ![t] = Tail(@)]

\* The thread's update is over, with an answer or an error.
Finish(t) ==
  /\ kind' = [kind EXCEPT ![t] = "none"]
  /\ todo' = [todo EXCEPT ![t] = <<>>]
  /\ got' = [got EXCEPT ![t] = None]
  /\ base' = [base EXCEPT ![t] = 0]
  /\ held' = [held EXCEPT ![t] = FALSE]
  /\ since' = [since EXCEPT ![t] = 0]
  /\ refused' = [refused EXCEPT ![t] = FALSE]
  /\ crowded' = [crowded EXCEPT ![t] = FALSE]

\* Done with this step, and with the update if it was the last one.
Proceed(t) ==
  IF Len(todo[t]) = 1 THEN Finish(t)
  ELSE /\ Advance(t)
       /\ UNCHANGED <<kind, got, base, held, since, refused, crowded>>

Run(t, k) ==
  /\ Idle(t)
  /\ kind' = [kind EXCEPT ![t] = k]
  /\ todo' = [todo EXCEPT ![t] = Program(client)[k]]
  /\ since' = [since EXCEPT ![t] = IF k = "forced" /\ client \in Promises THEN latest ELSE 0]
  /\ crowded' = [u \in Threads |-> IF u = t THEN \E v \in Threads \ {t} : ~ Idle(v)
                                    ELSE crowded[u] \/ ~ Idle(u)]
  /\ UNCHANGED <<rigid, now, cloud, vehicle, got, base, held, refused, history>>

-----------------------------------------------------------------------------
(* VehicleManager.                                                          *)

UpdateCached(t) == client # "SVM" /\ Run(t, "cached")

ForceRefresh(t) == Run(t, "forced")

NeedsForce(interval) == stamp # 0 /\ now - stamp > interval

CheckAndForce(t, interval) ==
  client # "SVM" /\ Run(t, IF NeedsForce(interval) THEN "forced" ELSE "cached")

-----------------------------------------------------------------------------
(* The requests.                                                            *)

\* The location in the report the car makes now.
NextEmbedded ==
  \/ embedded' = now + 1
  \/ client \in StaleLocations /\ embedded' = embedded

Snapshot == [at |-> latest, dated |-> dated,
             where |-> IF client # "SVM" /\ Status.located THEN embedded ELSE 0]

ReadBaseline(t) ==
  /\ At(t, "baseline")
  /\ base' = [base EXCEPT ![t] = IF client = "SVM" /\ ~ dated THEN 0 ELSE latest]
  /\ Advance(t)
  /\ UNCHANGED <<rigid, now, cloud, vehicle, kind, got, held, since, refused, crowded, history>>

\* The wake-up is accepted; or it is refused, and nobody looks at the answer.
Wake(t) ==
  /\ \/ At(t, "wake") /\ UNCHANGED refused
     \/ At(t, "nudge") /\ \E b \in BOOLEAN : refused' = [refused EXCEPT ![t] = b]
  /\ Advance(t)
  /\ UNCHANGED <<rigid, now, cloud, vehicle, kind, got, base, held, since, crowded, history>>

\* findMyCarSVM is accepted.
RequestCapture(t) ==
  /\ At(t, "request")
  /\ Advance(t)
  /\ UNCHANGED <<rigid, now, cloud, vehicle, kind, got, base, held, since, refused, crowded, history>>

Read(t) ==
  /\ At(t, "read")
  /\ Status.undated = "raises" => dated
  /\ got' = [got EXCEPT ![t] = Snapshot]
  /\ Advance(t)
  /\ UNCHANGED <<rigid, now, cloud, vehicle, kind, base, held, since, refused, crowded, history>>

\* The snapshot after the wake-up; one with the same time raises (Fail).
ReadAgain(t) ==
  /\ At(t, "reread")
  /\ latest # base[t]
  /\ got' = [got EXCEPT ![t] = Snapshot]
  /\ Advance(t)
  /\ UNCHANGED <<rigid, now, cloud, vehicle, kind, base, held, since, refused, crowded, history>>

\* _svm_is_fresh: without a time on either side it cannot be told.
IsFresh(b) == dated /\ b # 0 /\ latest > b

\* A poll that finds the old image changes nothing; the last one raises (Fail).
PollCapture(t) ==
  /\ At(t, "poll")
  /\ IsFresh(base[t])
  /\ got' = [got EXCEPT ![t] = Snapshot]
  /\ Advance(t)
  /\ UNCHANGED <<rigid, now, cloud, vehicle, kind, base, held, since, refused, crowded, history>>

\* The image is the caller's; no Vehicle is written.
Deliver(t) ==
  /\ At(t, "deliver")
  /\ image' = got[t].at
  /\ Finish(t)
  /\ UNCHANGED <<rigid, now, cloud, stamp, body, location, checked, ota, history>>

\* What the parser finds in the answer of a car that was asked.
Answer(at, isDated, where) ==
  IF client \in Unread THEN None
  ELSE [at |-> at, dated |-> isDated,
        where |-> IF Status.located /\ client # "EULegacy" THEN where ELSE 0]

\* The car itself is asked: it reports, to the cloud as well.
AskCar(t) ==
  /\ At(t, "ask")
  /\ now < MaxTime
  /\ now' = now + 1
  /\ latest' = now + 1
  /\ dated' \in IF Status.undated = "raises" THEN {TRUE} ELSE BOOLEAN
  /\ NextEmbedded
  /\ got' = [got EXCEPT ![t] = Answer(now + 1, dated', embedded')]
  /\ Advance(t)
  /\ UNCHANGED <<rigid, vehicle, kind, base, held, since, refused, crowded, history>>

\* The location, asked for before the report is applied; a failure is swallowed.
Locate(t) ==
  /\ At(t, "locate")
  /\ \E w \in {latest, got[t].where} : got' = [got EXCEPT ![t] = [@ EXCEPT !.where = w]]
  /\ Advance(t)
  /\ UNCHANGED <<rigid, now, cloud, vehicle, kind, base, held, since, refused, crowded, history>>

\* A request whose answer does not matter here, but whose failure raises.
ReadMore(t) ==
  /\ At(t, "more")
  /\ Proceed(t)
  /\ UNCHANGED <<rigid, now, cloud, vehicle, history>>

\* Any of these requests may raise, and so may the first check of an update
\* (401, an error answer, no JSON, no answer; a snapshot that is too old).
Fails == {"baseline", "wake", "nudge", "prewakeup", "request", "ask", "read",
          "reread", "poll", "more"}

Fail(t) ==
  /\ \E s \in Fails : At(t, s)
  /\ Finish(t)
  /\ UNCHANGED <<rigid, now, cloud, vehicle, history>>

-----------------------------------------------------------------------------
(* The parsers.  Each writes last_updated_at first.                         *)

\* Mutant: the offset is added to the time that is there.
StampedTwice(old, t) ==
  IF t = 0 \/ old = 0 \/ t >= old THEN t
  ELSE IF t + offset >= old THEN old + offset ELSE old

\* The setter of last_updated_at, for a vehicle whose time is old.
Stamped(old, t) ==
  IF t = 0 \/ old = 0 \/ t >= old THEN t
  ELSE IF t + offset >= old THEN t + offset ELSE old

\* Mutant: the time the status was fetched.
TimeOfFetch(r) == now

TimeOf(r) ==
  IF r.dated THEN r.at ELSE IF Status.undated = "none" THEN 0 ELSE now

WriteTime(t) ==
  /\ At(t, "head")
  /\ stamp' = Stamped(stamp, TimeOf(got[t]))
  /\ Advance(t)
  /\ UNCHANGED <<rigid, now, cloud, body, location, checked, ota, image,
                 kind, got, base, held, since, refused, crowded, history>>

Newest(a, b) == IF a > b THEN a ELSE b

\* The vehicle's time is in doubt until the given one at least.  A report from
\* before that end may still be moved by an offset, and moves the end with it.
Doubt(until) == blur' = Newest(blur, until)

DoubtAbout(r, excuse) ==
  IF excuse \/ ~ r.dated THEN now + Ahead
  ELSE IF r.at <= blur THEN r.at + Ahead ELSE 0

WriteLocation(t, w, excuse) ==
  /\ location' = IF w = 0 THEN location ELSE w
  /\ seen' = Newest(seen, w)
  /\ missed' = IF w = 0 THEN missed ELSE excuse

\* The rest of the status; what is not told apart is one step.
WriteBody(t) ==
  /\ At(t, "body")
  /\ body' = got[t].at
  /\ WriteLocation(t, got[t].where, crowded[t] \/ client \in TwoSources)
  /\ Doubt(DoubtAbout(got[t], crowded[t]))
  /\ IF Len(todo[t]) = 1 THEN Finish(t)
     ELSE /\ Advance(t)
          /\ got' = [got EXCEPT ![t] = None]
          /\ UNCHANGED <<kind, base, held, since, refused, crowded>>
  /\ UNCHANGED <<rigid, now, cloud, stamp, checked, ota, image, otaExcuse>>

\* The parser raises on the way, before or after the location.
ParserRaises(t) ==
  /\ At(t, "body")
  /\ \E w \in {0, got[t].where} : WriteLocation(t, w, TRUE)
  /\ Doubt(now + Ahead)
  /\ Finish(t)
  /\ UNCHANGED <<rigid, now, cloud, stamp, body, checked, ota, image, otaExcuse>>

\* Mutant: the location in the status is as good as the parked one.
ParkLocationNotAsked(t) ==
  /\ At(t, "park")
  /\ Proceed(t)
  /\ UNCHANGED <<rigid, now, cloud, vehicle, history>>

\* /location/park, after the status; a failure is swallowed.
ParkLocation(t) ==
  /\ At(t, "park")
  /\ \/ WriteLocation(t, latest, crowded[t])
     \/ missed' = TRUE /\ UNCHANGED <<location, seen>>
  /\ Proceed(t)
  /\ UNCHANGED <<rigid, now, cloud, stamp, body, checked, ota, image, blur, otaExcuse>>

-----------------------------------------------------------------------------
(* The software update check of the European CCI client.                    *)

InFlight(t) == At(t, "keep")

\* Mutant: a forced refresh leaves the flag alone.
FlagsKept == UNCHANGED checked

FlagsReset == checked' = FALSE

\* A forced refresh: prewakeup, whose outcome does not matter, and the flags.
PrewakeupAndReset(t) ==
  /\ At(t, "prewakeup")
  /\ FlagsReset
  /\ ota' = FALSE
  /\ held' = [u \in Threads |-> FALSE]
  /\ otaExcuse' = \E u \in Threads : InFlight(u)
  /\ Advance(t)
  /\ UNCHANGED <<rigid, now, cloud, stamp, body, location, image, kind, got, base,
                 since, refused, crowded, blur, seen, missed>>

\* The flag is set, then the cloud is asked.
AskOta(t) ==
  /\ At(t, "ota")
  /\ ~ checked
  /\ checked' = TRUE
  /\ held' = [held EXCEPT ![t] = TRUE]
  /\ otaExcuse' = (otaExcuse \/ \E u \in Threads : InFlight(u))
  /\ Advance(t)
  /\ UNCHANGED <<rigid, now, cloud, stamp, body, location, ota, image, kind, got, base,
                 since, refused, crowded, blur, seen, missed>>

SkipOta(t) ==
  /\ At(t, "ota")
  /\ checked
  /\ Finish(t)
  /\ UNCHANGED <<rigid, now, cloud, vehicle, history>>

\* get_ota_updates swallows every failure but a 401, which makes it unknown.
OtaFails(t) ==
  /\ At(t, "keep")
  /\ ota' \in {ota, FALSE}
  /\ otaExcuse' = TRUE
  /\ Finish(t)
  /\ UNCHANGED <<rigid, now, cloud, stamp, body, location, checked, image, blur, seen, missed>>

KeepOta(t) ==
  /\ At(t, "keep")
  /\ ota' = held[t]
  /\ Finish(t)
  /\ UNCHANGED <<rigid, now, cloud, stamp, body, location, checked, image, history>>

-----------------------------------------------------------------------------

\* The car reports by itself or because it was woken.
CarReports ==
  /\ now < MaxTime
  /\ now' = now + 1
  /\ latest' = now + 1
  /\ dated' \in BOOLEAN
  /\ NextEmbedded
  /\ UNCHANGED <<rigid, vehicle, threads, history>>

TimePasses ==
  /\ now < MaxTime
  /\ now' = now + 1
  /\ UNCHANGED <<rigid, cloud, vehicle, threads, history>>

Step(t) ==
  \/ UpdateCached(t) \/ ForceRefresh(t) \/ (\E i \in Intervals : CheckAndForce(t, i))
  \/ ReadBaseline(t) \/ Wake(t) \/ RequestCapture(t) \/ Read(t) \/ ReadAgain(t)
  \/ PollCapture(t) \/ Deliver(t) \/ AskCar(t) \/ Locate(t) \/ ReadMore(t) \/ Fail(t)
  \/ WriteTime(t) \/ WriteBody(t) \/ ParserRaises(t) \/ ParkLocation(t)
  \/ PrewakeupAndReset(t) \/ AskOta(t) \/ SkipOta(t) \/ OtaFails(t) \/ KeepOta(t)

Next == (\E t \in Threads : Step(t)) \/ CarReports \/ TimePasses

Spec == Init /\ [][Next]_vars

-----------------------------------------------------------------------------
(* Properties.                                                              *)

\* A forced refresh of the clients that check what they read (the Brazilian
\* one, the surround-view capture) or ask the car and read its answer (the
\* Australian one with CCS2, the old European one, the two of the USA) never
\* hands its caller a report from before the call, in any interleaving; nobody
\* is ever handed one that the car has not made.
Abstract == INSTANCE FreshReport WITH
  Calls <- Threads,
  reports <- latest,
  taken <- IF client = "SVM" THEN image ELSE body,
  call <- [t \in Threads |-> IF kind[t] = "forced"
                             THEN IF client \in Promises THEN "refresh" ELSE "cached"
                             ELSE kind[t]]

TakesFreshReports == Abstract!Spec

\* The correction of old times (Vehicle.last_updated_at) never adds up: a
\* vehicle is at most one UTC offset ahead of the clock.
StampWithinOffset == stamp <= now + Ahead

Settled == \A t \in Threads : Idle(t)

\* check_and_force_update_vehicle forces exactly when the data are older than
\* the interval, if there are data and their report is from after every doubt
\* about the time: after the last status in which the parser found no time (as in
\* every answer it cannot read), that was applied in part or met another update,
\* an offset for the error it may have left, and a silence of the car as long,
\* without which the correction of old times carries that error on.
OldDataIsForced ==
  Settled /\ body > blur => \A i \in 0..MaxTime : NeedsForce(i) <=> now - body > i

\* The location never goes back, although the statuses carry old ones, unless
\* the request that puts it right failed, the parser raised or two updates met.
LocationKeepsUp == Settled /\ ~ missed => location = seen

\* Once a forced refresh has reset the flags and the check has been made,
\* what the vehicle says of software updates is from after that refresh, or a
\* request for it failed or met another one (and is not repeated).
SoftwareCheckIsNew ==
  checked /\ (\A t \in Threads : ~ InFlight(t)) => ota \/ otaExcuse

\* KiaUvoApiEU.py: "errors propagate, so a failed wake does not fall through
\* to a stale /latest apply".
WakeErrorsPropagate == \A t \in Threads : refused[t] => ~ At(t, "body")
=============================================================================
