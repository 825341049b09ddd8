# A verification development of hyundai_kia_connect_api

`hyundai_kia_connect_api` is a Python client for the cloud services of Hyundai
and Kia. A program (usually Home Assistant) holds one `VehicleManager`, which
holds one API object of a region and brand, one `Token` and one `Vehicle`
object per car, and calls the manager from a pool of worker threads. Nothing
but the device-id registration is under a lock. The hard part of the library is
therefore not the parsing of answers, most of its lines, but what the clouds
force upon it: sessions that end at any moment, keys that are valid in one
session only, push ids that the cloud withdraws, PINs of which a few wrong ones
lock the account, reports that are older than the request they answer, writes
that replace settings nobody mentioned, commands that a car takes seconds to
carry out and that must not be carried out twice, and all of that with several
threads at the same objects. This directory specifies that part in TLA+, checks
it with TLC and proves the central results with TLAPS.

Paths below are relative to `src/hyundai_kia_connect_api/`.

## 1. Inventory

| Component | State it keeps | Operations | Correct if |
|---|---|---|---|
| `VehicleManager.py` | the current `Token`, the dictionary of vehicles, a pending OTP request | login, OTP, `check_and_refresh_token`, cached and forced updates, every command | a token is replaced only by a valid one; a refresh is made when the data are old; one failing vehicle or refresh leaves the others usable |
| `KiaUvoApiUSA.py` | none of its own: session and remember-me token are in `Token`, the vehicle key in `Vehicle.key` | login (with OTP), list, commands, status; two repair decorators | a lost session is invisible to callers, and is repaired a bounded number of times |
| `KiaUvoApiCA.py` | `API_HEADERS`, one dictionary of the API object | PIN check, commands, polling, status, location; `RetrySession` | each command goes to its vehicle, once |
| `ApiImplType1.py` (EU, AU, IN, CN, BR) | `Token.device_id`, one lock per decorated method, `Token.control_token` | commands, schedules, polling, token refresh | an id the cloud dropped is replaced without the caller noticing; the scopes of a schedule are written in order |
| `GspaApiEU.py`, `HyundaiCciApiEU.py`, `KiaCciApiEU.py` | `Token.control_token` and its expiry, a family of rotated tokens, one-shot flags of the vehicle | PIN check, commands, token rotation, polling, update check | PIN tries are never spent silently; a dropped control token costs nothing |
| `ApiImpl.py` | the previous geocoded coordinates; the options object of a caller | geocoding, session with retry and timeout, completion of schedule options | an address belongs to the place of its car; what was not given is left unchanged |
| `HyundaiBlueLinkApiUSA.py` | enrollment cache, service type per action | login, commands, polling, location gate, surround-view capture | a capture that is delivered is new |
| `KiaUvoApiEU.py`, `HyundaiBlueLinkApiBR.py` | nothing beyond Type1 | forced refresh: wake, sleep, read | a snapshot that is reported as fresh is fresh |
| `KiaUvoApiAU.py`, `KiaUvoApiIN.py`, `KiaUvoApiCN.py` | nothing beyond Type1 | status, commands of their own | the same |
| `Vehicle.py`, `Token.py` | the records the others share; the setter of `last_updated_at` | properties, serialization | the time of the data is right but for one UTC offset |
| `svm*.py`, `utils.py`, `const.py`, `cci_*.py`, `gspa/`, `exceptions.py`, `bluelink.py` | none | conversions, sign-in dialogue, command line | |

They interact by direct calls (manager to API object) and by shared objects
(`Token`, `Vehicle`, the API object itself, the options object of a schedule).
There are no callbacks and no queues: concurrency comes from the caller's
threads alone. That these exist is stated by the code: the lock of
`_retry_on_device_id_error` (`ApiImplType1.py:91`), the remarks on concurrent
callers in `KiaUvoApiUSA.py:104-108`, `GspaApiEU.py:819` and
`HyundaiCciApiEU.py:278`, and `tests/test_token_thread_safety.py`.

The behaviours that are hard to test: two repairs of the same session, a repair
inside a repair, an answer lost after the car has acted, a value tested and
then read again after another thread cleared it, headers and caches shared by
all vehicles, flags that outlive the attempt they were set for, options that
the first run of a call has filled in before the second, and reports whose time
says little about their age. `PROJECT.json` lists them, each at its line.

## 2. Modules

| Module | Models | Runs |
|---|---|---|
| `RemoteCommand` | the promise of every remote command: the car acts at most once per call, and a call that returns normally made it act | (abstract; a property of `usa_session` and `control_token`) |
| `FreshReport` | the promise of an update: it takes over a report of the car, and a refresh one made after it began | (abstract; a property of `vehicle_refresh`) |
| `KiaUsaSession` | `KiaUvoApiUSA`: both repair decorators, login, listing, and `check_and_refresh_token` | `usa_session`, `usa_session_otp` |
| `CaCommand` | `KiaUvoApiCA`: all commands, status polling, shared headers, `RetrySession` | `ca_command`, `ca_command_vehicle` |
| `DeviceIdRetry` | `ApiImplType1`: the device-id decorator and the methods it wraps, nested up to three deep | `device_id` |
| `ControlToken` | the commands of `GspaApiEU`, of the Type1 clients and of `HyundaiBlueLinkApiBR`: control token cache, PIN tries, 401 retry | `control_token` |
| `VehicleLocation` | the odometer gate of `KiaUvoApiCA` and `update_geocoded_location` of `ApiImpl` | `vehicle_location` |
| `TokenLifecycle` | `VehicleManager.login` and `check_and_refresh_token` over the clients whose refresh falls back to a login | `token_lifecycle` |
| `VehicleRefresh` | cached and forced updates of ten clients and the surround-view capture; the parsers as far as time and location go; `check_and_force_update_vehicle` | `vehicle_refresh`, `refresh_wake` |
| `Schedule` | scheduled charging and departures: what five kinds of status say of them, the completion of a caller's options, the payloads, what the car makes of them | `schedule`, `schedule_guard` |
| `KiaUsaSessionProofs`, `CaCommandProofs`, `DeviceIdProofs`, `ControlTokenProofs`, `VehicleLocationProofs`, `TokenLifecycleProofs`, `ScheduleProofs`, `VehicleRefreshProofs` | the theorems | |

`MC...` modules define the instances and symmetry sets for TLC. `KiaUsaSession`
and `ControlToken` instantiate `RemoteCommand`, `VehicleRefresh` instantiates
`FreshReport`, each under a refinement mapping; the other modules stand alone,
since the clients of two regions never run in one `VehicleManager`, and what two
modules of one client share is one field (`Token.device_id` or
`Token.control_token`), which the other module lets go bad at any time.

Every module follows one pattern. A worker thread's call has a `pc` (in
`VehicleRefresh`: the rest of its program); its steps are cut wherever another
thread can be seen: before a request is built, while it travels, after the cloud
handled it, before the answer is processed. Python code between two requests is
one step, except where the code reads a shared value twice (the control token)
or writes two fields that readers compare (time and status). Shared objects
(`Token`, `Vehicle`, fields of the API object) are variables without an index
for the thread. The cloud is what the code lets one assume of it: it accepts or
refuses credentials, may drop any of them at any time, and any request or answer
may be lost. Variables marked *history* exist for the properties only.
Definitions marked *Mutant* are deliberately wrong variants of the one below
them: put in its place, each makes one property fail.

### 2.1 KiaUsaSession

`token` holds the `Token` objects and `cur` the one the manager has; `key` is
`Vehicle.key`, known by the session it was listed in. `BeginCall` is a command
or a status request, `BeginRefresh` the manager's refresh.
`SendCommand`/`CommandOk`/`CommandFails`/`CommandRejected` are
`request_with_active_session` and the logging wrapper around a request;
`SendLogin`, `RepairLoginOk`, `ManagerLoginOk`, `LoginNeedsOtp`, `LoginFails`
are `login` inside a repair and inside a refresh; `SendList`, `ListOkRepair`,
`ListOkManager`, `ListRejected`, `ListFails` are `_get_vehicle_summary` with
`_retry_on_auth_error`, and `refresh_vehicles`. `CloudExpires...` end a session
or the remember-me token.

### 2.2 CaCommand

`headers` is `self.API_HEADERS`, which the code writes in place: `vehicleId` and
`pAuth` by every command, `transactionId` by a poll. A command writes the
vehicle (`WriteVehicle`), checks its PIN in one request and posts in the next
with whatever the dictionary holds by then. `RetrySession` is in
`ConnectionError` and `OtherRequestError`: a request that breaks is sent again,
up to `MaxAttempts` times, whether or not the cloud had acted on it.
`PinBound` says whether the cloud ties a `pAuth` to a vehicle, which the code
does not tell: both values are run.

### 2.3 DeviceIdRetry

`device` is `token.device_id`; 0 is every id the cloud does not accept. The
wrappers around a request are `outer`, `sync` and `inner`; `retried` holds
those that have used their one retry, `lock` the holder of each method's lock.
Calls are the single commands, the two scopes of a schedule each for itself
(`charge`, `climate`), both in one call, and `check_action_status`, plain and
synchronous. `CarReports` changes the record of the charge action,
`CloudInvalidates` withdraws an id.

### 2.4 ControlToken

`control` and `fresh` are the two fields of the cached control token, tested and
read in separate steps as in `_get_control_token`. `remain` is the cloud's count
of PIN tries. `Commands` collects the tables of the three client families: which
commands carry the control token, by endpoint (`GSPA_BEARER_ENDPOINTS`) or by
protocol of the car, and which may be sent twice. `DropToken` is
`_invalidate_control_token` (CCI only), `NoUsableAnswer` and the answers of
`CloudAnswers` the branches of `_gspa_post_for_data`. The history variables
`overlapped` and `revoked` are kept for the CCI client only, the one that
promises to recover. The `Token` object is not replaced during a command, which
`TokenLifecycle` looks at.

### 2.5 VehicleLocation

An update is the status request, the odometer gate (`Wanted`), the location
request and the two writes to the `Vehicle` (`StoreLocation`, `StoreService`),
then geocoding with the shared `previous` coordinates. `Drive` moves a car.
A forced update is an update that ends before geocoding, so it needs no action
of its own. `Rosters` says which thread updates which cars.

### 2.6 TokenLifecycle

`api` is one of five kinds of client, which differ in whether they test a token,
in how they refresh it (one grant, with the password or without it, a grant and
an exchange, or a login), and in whether a login can present a legacy refresh
token or end in a request for an OTP. `posts` counts every request that carries a
password, a login or a grant (`Post`, `PostGrant`). A `Token` is kept as its family of refresh tokens, whether its refresh
token is current, whether its access token is accepted and which password it
carries. `HandleAuth`, `Store`, `CountVehicles` and `Initialize`
follow `check_and_refresh_token` through; `GrantOk` to `ExchangeFails` are
`refresh_access_token`; `SignInOk` to `LoginNeedsOtp` are `login`. `Rotate` is
the cloud spending a refresh token, every copy of which becomes stale.

### 2.7 VehicleRefresh

A report is named by the time the car made it: `latest` is the one the cloud
has, `stamp` is `vehicle.last_updated_at`, `body` the report the rest of the
vehicle is from, `location` the one its coordinates are from. An update is a
program (`CachedEU`, `ForcedBR`, ...), a sequence of steps; each step is an
action: `Wake`, `Read`, `AskCar`, `Locate` are requests, `WriteTime`,
`WriteBody` and `ParkLocation` the writes to the vehicle, `ParserRaises` a parser
that stops half-way, `AskOta`, `KeepOta` and `OtaFails` the check for software
updates with its one-shot flag. `Stamped` is the setter of `last_updated_at`,
which adds the host's UTC offset to a time that would go back. That correction
keeps itself alive: once `stamp` is ahead of the data (a status without a time was
stamped with the moment it was fetched), each later report dated before it is
moved by the offset again, and leaves `stamp` as far ahead as before, for as long
as the car reports more often than the offset. `Doubt` is the history of this:
`blur` is the time until which `stamp` may differ from the report's own time, and
a report from before that end moves the end by an offset. `CarReports` and
`TimePasses` happen at any point, so a fixed sleep is no more than a step
boundary.

`Answer` is what the parser finds in the answer of a car that was asked. The
clients in `Unread` hand their parser an answer it cannot read (section 6): it
finds neither time nor data nor location, so the vehicle is stamped with the
moment of the call and its properties are blanked. Such a refresh promises
nothing (`Promises`), and puts the time in doubt.

Abstracted: a device-id error in an update, which runs it again, is `Fail` and a
new call; driving information, history and software versions are requests whose
failures are swallowed and are not told apart; disabled vehicles, which updates
skip, are absent; `last_scanned_at` is display only; a report whose stated time
is itself off by an offset is not modelled, only the correction of it. The first
surround-view capture of a car without an image has no baseline time and always
times out (`IsFresh`). The Kia CCI client has no forced refresh and no update
check of its own; its cached update is a prefix of the Hyundai one. Whether
BlueLink USA's gate lets the location request through is the choice in `Locate`.

### 2.8 Schedule

The settings of the car are eleven fields: the charge flag, the off-peak mode,
the off-peak window, and per departure its flag, its days and time, its climate
and its temperature. `vehicle` is what the `Vehicle` object says of them, written
by `Poll` through one of four parsers; `options` is the caller's object, which
the calls fill *in place* (`Complete`), so that it is still filled when the
device-id decorator runs the call again (`RunAgain`) or the caller uses it a
second time. `StartCombined`, `StartFlat` (EV5, two scopes) and `StartGspa` are
the three ways in which calls start, `Sent` is the payload, `Received` what the
car makes of it, `Written` which fields a request replaces: always all of its
scope. `FromVehicle` is `ScheduleChargingClimateRequestOptions.from_vehicle`.
`origin` records where each value of the options is from, `asked` and `claimed`
what the caller gave. Of a time that is sent without AM or PM (`Ambiguous`) the
car may make either half of the day. A value of `when` and the one twelve hours
from it are `HalfDay` apart.

## 3. What the runs show

| Run | Bounds | Shows |
|---|---|---|
| `usa_session` | 2 calls, 2 vehicles, 3 `Token` objects, 4 sessions | nested repairs log in at most twice (`LoginBudget`), heal every mixture of keys and sessions (`SoloCallSucceeds`, `RepairSendsOneSession`), a refresh realigns all keys (`RefreshRealigns`), and a repeated request is one the cloud had not acted on (`ActsAtMostOnce`, refinement of `RemoteCommand`) |
| `usa_session_otp` (violated) | 1 call | a repair whose login asks for an OTP ends in an `AttributeError` (`OtpIsSurfaced`) |
| `ca_command` | 2 calls, 2 vehicles, 2 attempts, 1 poll, pAuth not bound | a command alone is never misdirected, it repeats only after a lost answer, and it ends |
| `ca_command_vehicle` (violated) | the same, `PinBound` | two overlapping commands on two vehicles can both hit one (`ActsOnItsVehicle`) |
| `device_id` | 1 call of each of 7 kinds beside one of 3 kinds, 5 ids, 1 poll | one fault is invisible, a charge schedule is posted at most twice, the climate scope waits for the charge scope, a charge that the record says has failed is never reported as applied, and nested wrappers and their locks never wait for ever |
| `control_token` | 3 commands, 3 client families, 4 control tokens, 2 PIN tries | a dropped control token costs a lone command nothing, tries are spent one per reported failure, a command acts at most once (refinement of `RemoteCommand`) |
| `vehicle_location` | 1 car and 2 threads, or 2 cars and 1 thread; 2 places, 1 trip each | a parked car's location is right unless its request failed or two updates met, it is requested unprompted once, and a wrong address is always due to another car that was geocoded there |
| `token_lifecycle` | 2 threads, 4 token families, calls without end, all five kinds | nothing wedges the account (`CallsRecover`), refreshes stay refreshes (`RefreshIsSilent`), no password is sent twice in a call, over BlueLink USA not three times (`SignInBudget`), vehicles are listed again only by overlapping calls (`VehiclesAreKept`) |
| `vehicle_refresh` | 2 threads, 1 vehicle, 11 programs, 2 further moments, hosts one unit east or west | a refresh that promises a fresh report (Brazil, surround view, Australia with CCS2, old Europe, Kia and Hyundai USA) takes one over or raises (`TakesFreshReports`, refinement of `FreshReport`), the vehicle's time is at most one offset ahead (`StampWithinOffset`) and, if there are data and its doubts are over, decides rightly whether to force (`OldDataIsForced`), the location never goes back without an excuse (`LocationKeepsUp`), what is said of software updates is from after the last forced refresh (`SoftwareCheckIsNew`) |
| `refresh_wake` (violated) | 1 thread, European CCS2 | a refused wake-up is followed by the old status (`WakeErrorsPropagate`) |
| `schedule` | 5 kinds of endpoint, 2 settings of the car, 4 statuses, 7 requests, 2 calls, 1 poll, 1 change in the app | over all five, what was given reaches the car with its meaning, but for AM or PM of a CCI climate reservation (`ExplicitIsWritten`); over all but the CCI client, which does not ask the vehicle, "None leaves unchanged" holds for all that was known (`UnaskedIsUnchanged`) and no temperature is invented for both departures behind the guard (`DefaultIsGuarded`); an EV5 scope nobody mentioned is not written (`SilentScopeIsUntouched`) |
| `schedule_guard` (violated) | 1 call, a car without temperatures | options made by `from_vehicle` carry the default of 21 °C past the guard (`TemperatureIsNotInvented`) |

The violated runs are the `findings` of `PROJECT.json`: each states what the
library says of itself and shows a behaviour in which it does not hold.

**Bounds.** Every hazard of the list is a matter of two threads at one object, or
of one thread and the cloud, so two calls exhibit it; three commands are used
where a third one can find what two left behind (a cache and a counter of
tries). Two vehicles are enough to confuse vehicles, two places to confuse
places. Device ids, control tokens and token families that nothing refers to are
used again, so their bounds (`MaxId`, `MaxToken`, `MaxFamily`) do not end a
behaviour. Sessions of Kia USA are numbered once and for all: with four, the
first and three more, any fourth login of the two calls together can only fail;
`LoginBudget` is proved without that bound. `MaxAttempts` is 2 where the code has
4 and `PinTries` 2 where the cloud has 5: the first repeat and the lock are
reached, later repeats differ in number only; `RepeatNeedsLostAnswer` and
`TriesAreReported` are proved for every value. `MaxTime` is 3: the first report
and two later moments, at which the car reports or not, so that one thread can
hold the first, another read the second and the car make the third. The clock's
unit is the host's UTC offset, `Intervals` is one unit, and `OldDataIsForced`
looks at every interval. Several corrections in a row need an offset of several
units and a longer clock than that: for them `OldDataIsForced` rests on its
theorem, which holds for every offset and every `MaxTime`. `device_id` gives the second call one kind for each lock
of the code (`Offered`). `MaxApps`, `MaxPolls` and `MaxCalls` allow one change
behind the library's back, one status after the first and a second use of the
same options object; the values of a setting (0 to 3, for days and time also
those twelve hours later and an empty list of days) are its default, one that
cannot be set, the limit it is clamped to and another.

**Deadlock** is not checked: a call of these modules runs once, or a bound on
trips, time or calls is reached, and the system then rests. That no call waits
for ever is a liveness property instead (`CallsReturn`).

**Fairness.** `device_id`: every thread that can take a step does, and the
requests of `ApiImplSession` have timeouts (`ApiImpl.py`), so an answer or an
error always comes. `ca_command`: the same for the threads; but `RetrySession`
is a plain `requests.Session` without a timeout, so that the network answers or
breaks a request is an assumption that nothing in the code enforces
(`AnsweringSpec`). No property depends on the cloud or the user doing something
in particular. Termination of the other clients is not a run of its own: that a
call takes a bounded number of steps, whatever the others do, is proved for every
client (`CallsAreShort`, `CommandsAreShort`, `UpdatesAreShort` in section 4), and
a fair scheduler and an answering network make each of these steps happen.

## 4. What is proved

TLAPS checks the theorems below for any number of threads, calls, vehicles,
sessions and attempts, from the assumptions on the constants alone (the ASSUME of
each module). Every proof follows one argument: `Init => IInv`,
`IInv /\ [Next]_vars => IInv'`, `IInv => Inv`, where `IInv` is the type invariant
and the parts named below; there is one step for each action and, under it, one
for each part the action can disturb. Lemmas of the form `...Frame` say that a
step of one thread leaves what is said of the others alone.

`KiaUsaSessionProofs`: `TypeCorrect`, `LoginsAreBounded` (`LoginBudget`),
`RepairActsAtMostOnce` (every behaviour is one of `RemoteCommand`),
`SoloCallsSucceed` (`SoloCallSucceeds`), `RefreshesRealign` (`RefreshRealigns`),
`RepairsSendOneSession` (`RepairSendsOneSession`) and `CallsAreShort`. `LoginBudget`
is not inductive: that a third login is impossible depends on where the call is,
which decorator has used its retry and what kind of call it is. `IInv` is
`TypeOK` and, for each call, `RpcInv` (what request can be under way at which
point), `AttemptInv` and `KindInv` (which repair can have happened there),
`LoginInv` (the logins so far, at each place and in each attempt of the listing)
and `EffectInv` (the cloud has acted only if its answer says so, and then no
second attempt follows). The refinement is by steps: the cloud acting is
`Execute`, the ends of a call are `ReturnOk` and `RaiseError`, all else stutters;
`EffectInv` is what makes a normal return imply an effect.
The three theorems about a call that runs alone rest on a second invariant,
`SoloInv`. Every `Token` of the account keeps the remember-me token (`Remembered`);
for a call that is still calm, no other call is active, every answer it has got is
a good one but for the rejection of its first attempt (`CalmAnswer`), a login has
brought a live session (`CalmLogin`), the listing that follows it is sent with
that session and therefore never rejected, so that the nested login is out of
reach (`CalmList`), and in the second attempt the live session, the key of the
vehicle in the header and the key in the body agree (`CalmRepeat`). `CalmEnd` is
what is then left: the call succeeds, and after a token check one live session
has the keys of all vehicles. Which sessions and keys earlier calls left behind
does not occur in it, and that is the point.

`CaCommandProofs`: `TypeCorrect`, `AloneIsNotMisdirected`
(`MisdirectionNeedsOverlap`) and `RepeatsAreBounded` (`RepeatNeedsLostAnswer`).
`IInv` has, for each call, `Counted` (effects, lost answers and attempts agree at
every point of `RetrySession`) and `Solo` (as long as no other call overlaps, the
shared headers and the message under way hold what this call wrote, from the step
that wrote it on). `Solo` is needed because headers survive calls: what an
earlier call left behind is overwritten before it can be sent.

`DeviceIdProofs`: `TypeCorrect`, `ClimateFollowsCharge` (`ClimateAfterCharge`),
`ChargeIsRepeatedOnce` (`ChargeRepeatsOnce`), `OneFaultIsRepaired`
(`OneFaultIsInvisible`) and `FailureIsNotWordedAsApplied` (`FailedIsNotApplied`).
Which requests of a schedule precede an error is determined by the wrapper that
handles it: `Posts` bounds the posts by that wrapper's retries, `Handling` says
who may be handling what, `ClimateWaits` that the climate scope is only reached
through a settled charge, `BusyIsOver` that the worded error is raised after the
charge was accepted, `IdsAreKnown` that a call whose one fault is repaired holds
an id the cloud has issued.

`ControlTokenProofs`: `TypeCorrect`, `NoTryIsLost` (`TriesAreReported`),
`OneRevocationIsRepaired` (`SoloCommandRecovers`) and `CommandsActAtMostOnce`
(the refinement of `RemoteCommand`). `TriesAreReported` counts: the calls that
reported a failed PIN check are a finite set whose cardinality bounds the tries
gone. `Acts` ties the effects to the answer, `Alone` and `Solo` say what a
command that nothing overlapped has found in the cache, `RevokedAreCounted` that
a token the cloud no longer accepts was revoked.

`VehicleLocationProofs`: `TypeCorrect`, `StaleLocationsWereMissed`
(`StaleLocationWasMissed`), `UnpromptedOnce` (`UnpromptedFetchOnce`) and
`WrongGeocodesAreForeign` (`WrongGeocodeIsForeign`). `Current`, `AtLocation` and
`AtStore` follow what an undisturbed update holds to the place where it is
stored; `Own` and `Right` relate the shared coordinates to the car that was
geocoded last; `Single` is what overlapping updates are set apart by.

`TokenLifecycleProofs`: `TypeCorrect`, `NoPasswordIsTriedTwice`
(`SignInBudget`), `RefreshesAreSilent` (`RefreshIsSilent`), `EveryCallRecovers`
(`CallsRecover`) and `ChecksKeepVehicles` (`VehiclesAreKept`). `Shape` says what a
thread can hold at each point, `Logins` counts the passwords it has sent on the
way there, `Current` and `IntactIsCurrent` that tokens nobody spoiled are the last of
their family, `Silence` and `Success` what follows for its call, `Global` and
`Listing` who can have emptied or filled the list of vehicles, `Alone` which
threads can meet.

`ScheduleProofs`: `TypeCorrect`, `ExplicitIsAlwaysWritten` (`ExplicitIsWritten`),
`SilentScopesStay` (`SilentScopeIsUntouched`), `DefaultsAreGuarded`
(`DefaultIsGuarded`) and, for an action property, `UnaskedStays`
(`UnaskedIsUnchanged`). The strengthening: a value whose origin is an up-to-date
vehicle equals the car's setting, until the app changes it (`FromCar`); the
options keep what the caller gave, at most normalised (`Keep`); the fields of the
scopes are filled before a request is built (`Sending`); a call to an EV5 car
writes only scopes its caller gave something for (`Claims`); and a default
temperature leaves its mark in the options for both departures, so that a second
cannot follow when the same options are completed again (`Guarded`). That the
off-peak flag stays a flag (`Flags`) is what makes its conversions invertible.
`Readings` is the one place where what arrives is not determined by what was
given: the times of a CCI climate reservation.

`VehicleRefreshProofs`: `TypeCorrect`, `StampStaysClose` (`StampWithinOffset`),
`OldDataAreForced` (`OldDataIsForced`), `LocationsKeepUp` (`LocationKeepsUp`),
`SoftwareChecksAreNew` (`SoftwareCheckIsNew`) and `RefreshesAreFresh`
(`TakesFreshReports`, the refinement of `FreshReport`). The programs of the
clients are sequences, so the proof first states what any rest of a program looks
like (`WellFormed`: what comes before or after what), that the tail of such a rest
is one again, and, program by program, that the whole one is (`ProgramFacts`). The
invariant then says per thread what follows from how far it is: it is running what
is left of its program and knows whom it met (`Shape`, `Alone`); a refresh has not
begun to read or holds a report from after its beginning (`Fresh`); the vehicle's
time is that of its report, or both lie within the doubt, or a thread is between
writing the two (`TimeInv`); a location held is not older than one the vehicle
had, or the parked one is still to be asked for (`LocationInv`); a check for
software updates that nobody will hear of has an excuse (`SoftwareInv`).

No call goes on for ever, in any of the eight models: `CallsAreShort` in
`KiaUsaSessionProofs`, `CaCommandProofs`, `DeviceIdProofs`,
`TokenLifecycleProofs` and `ScheduleProofs`, `CommandsAreShort` in
`ControlTokenProofs`, `UpdatesAreShort` in `VehicleLocationProofs` and
`VehicleRefreshProofs`. Each defines a rank, `StepsLeft`, from the place of a call
and the retries it has not used, and proves two things: the rank is a number
within the bound below, and every step of a call lowers the rank of that call
while no step of another call, of the cloud, of the car or of the clock raises it
(once it is under way: the step that begins it sets it). The retries make this
worth a proof: three wrappers around a loop of polls in the device-id repair,
two wrappers that log in for each other in the Kia USA client, a login that falls
back to another, a schedule that runs again with the options its first run
filled in.

| Module | Steps of one call, at most | What makes them |
|---|---|---|
| `KiaUsaSession` | 21 | seven requests, each sent, answered and consumed |
| `CaCommand` | `(MaxPolls + 1) * (6 * MaxAttempts + 8)` | per poll two posts of `MaxAttempts` attempts |
| `DeviceIdRetry` | `12 * 20 * (MaxPolls + 1)` | a schedule and its repeat, three requests each, one of them a loop of polls that may be repeated, each poll with its own repair |
| `ControlToken` | 16 | two attempts of eight |
| `TokenLifecycle` | 11 | a test, a refresh, two logins, the vehicles |
| `VehicleLocation` | 7 | the update with its location and its address |
| `Schedule` | 9 | two runs, the wait for the record included |
| `VehicleRefresh` | 6 | the longest program of a client |

The bounds count steps of the model; they are not tight, and depend on nothing but
the two constants named. In `Schedule` a status taken over or a change made in
the app, each at most as often as its bound allows, leaves the rank as it is.

`LocksAreSafelyHeld` in `DeviceIdProofs` is the other half of "no call hangs"
where there are locks: at most one call registers under the lock of a method, and
every lock that is taken is held by a call that is registering under that very
lock, so none that waits holds one and they cannot wait in a circle. `LockInv` adds to
`IInv` in which wrapper of which method a call can be at each place (`Placed`),
that one that registers has its lock (`Holds`) and that a lock that is taken is
held by such a call (`Held`).

Every invariant and every action property of a passing run is stated by one of
these theorems. Only model-checked are the liveness properties (`CallsReturn` of
`device_id` and `ca_command`: what the ranks leave open is that a step is enabled
and taken, which is `ENABLED` and fairness) and the claims the code violates.
Liveness under fairness, `ENABLED`, what recursive operators compute, and
induction over data are beyond the provers used; no module here needs recursion.

## 5. Modelling decisions

- A request that breaks was either seen by the cloud before the break or never.
- A post and the cloud's handling of it are one step where nothing else can
  come between them that the property could see (PIN check, registration,
  login, grant, schedule); a command of Kia USA, Canada or `ControlToken` takes
  several.
- Odometer `None` and 0 are one value: the gate's tests do not tell them apart.
- The gate's test of `_location_fetch_attempted` and its setting are one step,
  and overlapping updates are set apart by `clash`.
- `TokenLifecycle` takes an access token and the CCI token it was exchanged for
  as one; a refresh token that is missing is one the cloud refuses; the routes
  that `cci_auth.py` tries in turn are one request. A post of a password is one
  call of `api.login`, of which `RetrySession` may make several requests, as
  `CaCommand` shows for commands, or the refresh grant of BlueLink USA. Whether
  its cloud compares the password of a grant with the right one, or only looks
  for one, is left open. A refusal of a legacy refresh token
  reaches `check_and_refresh_token` as an `AuthenticationError` only if its code
  is one the client maps (`ApiImplType1.py:128-167`); in other words, as an
  `APIError`, it counts as a failure, after which `CallsRecover` promises
  nothing for that call.
- `CallsRecover` excludes two cases the code does not handle: a `Token` that was
  saved with an older password (a refresh falls back to a login with it, and
  only a legacy one is replaced, `VehicleManager.py:245-250`), and a token that
  the cloud dropped early with a client that does not test it.
- The legacy route of the PIN check that the CCI client falls back to is part of
  the one verification of `ControlToken`.
- In `Schedule`, days and time of a departure are one field, and so are climate
  flag and defrost, since they are given, reported and written together. A
  status that comes while a schedule is under way is as one that comes after it,
  because the vehicle is not read in between. Temperatures are in degrees Celsius.
- `api.refresh_vehicles`, which the manager calls after a refresh, is
  `ApiImpl.refresh_vehicles` in the clients of `TokenLifecycle` and does nothing
  (`ApiImpl.py:506-509`); only Kia USA overrides it, and `KiaUsaSession` has it.
- Of a status parser, `map` names all the lines: `Status...` and `Parsed...` keep
  what they do to time, location and schedules, and abstract from the rest.

## 6. Observed while modelling, without a run of their own

Repeats and timeouts: a Canadian control post is sent again after a lost answer,
though "not all requests are safe to replay (e.g. non-idempotent control POSTs)"
(`ApiImpl.py:443-446`); Canadian requests have no timeout, unlike
`ApiImplSession` (`ApiImpl.py:438-440`).

Errors: "the charge schedule was applied" is raised for a car that never answered
(`ApiImplType1.py:1746`), and only a `DuplicateRequestError` is worded that way;
`check_and_refresh_token` drops the `OTPRequest` of a refresh, so that `send_otp`
then fails (`VehicleManager.py:266-267`); BlueLink USA's `_safe_parse_json` returns
`None` for a body that is no JSON, and its commands then return normally
(`HyundaiBlueLinkApiUSA.py:92`, `1236-1486`).

Tokens: `_get_control_token` tests the cached token and reads it again
(`GspaApiEU.py:998-999`), so that a command can go out without one when another
drops it in between; the Type1, Chinese and Brazilian clients keep a control
token that was refused until it expires (`ApiImplType1.py:2049`,
`HyundaiBlueLinkApiBR.py:462`); their own commands in Australia, India, China and
Brazil do not have the device-id retry; the European login discards the refresh
token that replaces a rotated legacy one (`KiaUvoApiEU.py:221`); BlueLink USA
sends the password with its refresh grant and, when that is refused for the
password's sake, again with the login it falls back to
(`HyundaiBlueLinkApiUSA.py:337-343`, `369-374`), so that each check with a wrong
password counts twice towards a lock of the account.

Schedules: the options object of the caller is filled in place, so that using it
again writes the values of the first time, and a departure that the caller
replaces takes the climate copied from the first departure; temperatures outside
17 to 27 °C are moved there without a word; the guard is content with the
temperature of one departure, and the other is reset to 21 °C; the CCI client
does not ask the vehicle and writes Sunday, 0:00, 21 °C and off for what is not
given; its `days or [0]` turns an empty list into Sunday, and the time of a
climate reservation is sent as `%I%M` without AM or PM, 18:00 like 6:00
(`GspaApiEU.py:2638-2655`), where every other payload has a `timeSection`; cars before CCS2
outside Europe never report the charge flag, so that every combined write
switches scheduled charging off.

Updates: the forced refreshes of Australian cars without CCS2, of Indian and of
Chinese ones are not read. `_get_forced_vehicle_state` puts the answer under
`vehicleStatus` (`ApiImplType1.py:2141-2143`), the callers pass that on
(`KiaUvoApiAU.py:207-215`, `KiaUvoApiIN.py:189-191`, `KiaUvoApiCN.py:528-530`), and
the parsers look for the time and the data a level higher. The vehicle's
properties are blanked and its time is the time of the call, so that
`check_and_force_update_vehicle` has no reason to force another refresh until the
interval has passed; the Indian parser misses the location of the answer too. As
no document of the library speaks of these answers, this is no finding of a run:
`OldDataIsForced` counts such a time as doubtful and `TakesFreshReports` leaves
these clients out.

BlueLink USA's location gate compares the odometer with the cached
enrollment (`HyundaiBlueLinkApiUSA.py:378-399`, `996-1023`), and the rule "over an
hour ago" of its docstring is not in the code (`451-459`); an action of that
client that is polled a second time is asked for with the default service type
(`1211`); a location that was geocoded as `(None, None)` is kept
(`ApiImpl.py:551-554`); a Canadian car that reports no odometer asks for its
location in every poll (`KiaUvoApiCA.py:530-546`); the Chinese forced refresh of
a CCS2 car reads `/latest` and parses it with the other protocol's parser
(`KiaUvoApiCN.py:546-573`); the CCI client's `check_action_status` does not use
the id it is given (`GspaApiEU.py:1263-1312`).

## 7. Not modelled

- Fields of a status that are copied into the `Vehicle` and read by the user
  (doors, tyres, battery, seats, diagnostics): most of the lines, data without
  control. Of the parsers, what decides about time, location and schedules is
  modelled.
- Trips, driving statistics, breakdowns, notifications: single requests whose
  answers are stored whole.
- Payloads of commands other than schedules: literals of the request.
- Schedules in degrees Fahrenheit: the clients round and limit degrees Celsius
  only (`ApiImplType1.py:1567-1587`).
- Updates of Chinese and Indian cars with CCS2: the Chinese client parses their
  status with the other protocol's parser (section 6), the Indian one has one parser
  for both protocols, and what it finds in such a status is not in the code.
- Action polling beyond Canada and Type1: a request that keeps no state.
- The OTP dialogue of `login`, `send_otp`, `verify_otp_and_complete_login`: the
  user drives it, one call after the other, before the manager has a token.
- Image slicing and redaction, value conversions, the form dialogue of the CCI
  sign-in with its encryption, device fingerprints: functions of their arguments.
- `bluelink.py`, a sequential script over the manager.
