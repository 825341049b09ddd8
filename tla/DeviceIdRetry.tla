---------------------------- MODULE DeviceIdRetry ----------------------------
(***************************************************************************)
(* The push device id of the Type1 clients (ApiImplType1.py, used by        *)
(* Europe, Australia, India, China and Brazil) and the decorator around     *)
(* every method that sends it: _retry_on_device_id_error catches the        *)
(* DeviceIDError a request raised, registers a new id under a lock, stores  *)
(* it in the shared token and runs the method once more.                    *)
(*                                                                         *)
(* Decorated methods call each other.  check_action_status(synchronous)     *)
(* calls itself for each poll, and the two-scope schedule of EV5-appMode    *)
(* cars calls it between its two POSTs, so up to three wrappers - outer,    *)
(* sync, inner - stand around one request and each may run its body again.  *)
(* A lock belongs to a decorated method, so the outer one and the two of    *)
(* check_action_status are not the same, and two methods register at once.  *)
(***************************************************************************)
EXTENDS Integers

CONSTANTS
  Calls,     \* the calls made by the worker threads
  Offered,   \* bound: the kinds of calls each of them makes
  None,      \* no value
  MaxId,     \* device ids the cloud accepts are 1..MaxId; one nothing refers to is used again
  MaxPolls   \* bound: polls a synchronous check_action_status has time for

ASSUME DeviceIdAssumption ==
  /\ MaxId \in Nat \ {0}
  /\ MaxPolls \in Nat
  /\ Offered \in [Calls -> SUBSET {"lock_action", "start_climate", "charge", "climate",
                                  "both", "check", "check_sync"}]
  /\ None \notin Calls \cup (0..MaxId)
  /\ None \notin {"charge", "hvac", "appliedButBusy", "DeviceIDError"}

VARIABLES
  device,   \* token.device_id; 0 stands for every id the cloud does not accept
  lock,     \* who holds the lock of each decorated method
  op,       \* what each call does
  pc,       \* where each call is
  leg,      \* which request of the call it is in
  body,     \* the device id captured in the request's body
  sent,     \* the device id in the headers of the request under way
  retried,  \* the wrappers of the call that have used their retry
  at,       \* the wrapper that is handling a DeviceIDError
  polls,    \* polls left in the synchronous loop
  record,   \* the cloud's record of the charge action the call asks about
  result,   \* what the call returned or raised
  posted,   \* history: charge schedules of the call the cloud took; 3 is "more than 2"
  applied,  \* history: did the vehicle apply a charge schedule of the call?
  faults    \* history: ids invalidated and registrations refused; 2 is "more than 1"

request == <<leg, body, sent>>
wrapper == <<retried, at>>
history == <<posted, applied, faults>>
vars == <<device, lock, op, pc, request, wrapper, polls, record, result, history>>

Ids       == 0..MaxId
Singles   == {"lock_action", "start_climate"}
Schedules == {"charge", "climate", "both"}
Ops       == Singles \cup Schedules \cup {"check", "check_sync"}
Locks     == Singles \cup {"schedule_charging_and_climate", "check_action_status"}
Frames    == {"inner", "sync", "outer"}
Legs      == {"single", "status", "charge", "hvac"}
PCs       == {"idle", "prepare", "post", "sent", "lock", "register", "done"}
Records   == {"running", "success", "fail", "non-response"}
Results   == {"ok", "DeviceIDError", "raised", "busy", "appliedButBusy"}

TypeOK ==
  /\ device \in Ids
  /\ lock \in [Locks -> Calls \cup {None}]
  /\ op \in [Calls -> Ops \cup {None}]
  /\ pc \in [Calls -> PCs]
  /\ leg \in [Calls -> Legs \cup {None}]
  /\ body \in [Calls -> Ids \cup {None}]
  /\ sent \in [Calls -> Ids \cup {None}]
  /\ retried \in [Calls -> SUBSET Frames]
  /\ at \in [Calls -> Frames \cup {None}]
  /\ polls \in [Calls -> 0..MaxPolls]
  /\ record \in [Calls -> Records \cup {None}]
  /\ result \in [Calls -> Results \cup {None}]
  /\ posted \in [Calls -> 0..3]
  /\ applied \in [Calls -> BOOLEAN]
  /\ faults \in 0..2

\* A token restored from an earlier run may carry an id that has become
\* invalid: the first fault.
Init ==
  /\ device \in {0, 1}
  /\ faults = 1 - device
  /\ lock = [l \in Locks |-> None]
  /\ op = [c \in Calls |-> None]
  /\ pc = [c \in Calls |-> "idle"]
  /\ leg = [c \in Calls |-> None]
  /\ body = [c \in Calls |-> None]
  /\ sent = [c \in Calls |-> None]
  /\ retried = [c \in Calls |-> {}]
  /\ at = [c \in Calls |-> None]
  /\ polls = [c \in Calls |-> 0]
  /\ record = [c \in Calls |-> None]
  /\ result = [c \in Calls |-> None]
  /\ posted = [c \in Calls |-> 0]
  /\ applied = [c \in Calls |-> FALSE]

-----------------------------------------------------------------------------
(* The wrappers around a request.                                           *)

\* The wrappers around the request a call is in.
Around(c) ==
  IF leg[c] # "status" THEN {"outer"}
  ELSE CASE op[c] = "check" -> {"inner"}
         [] op[c] = "check_sync" -> {"inner", "sync"}
         [] OTHER -> Frames

Outside(f) == CASE f = "inner" -> {"sync", "outer"}
                [] f = "sync" -> {"outer"}
                [] f = "outer" -> {}

\* Each decorated method has a lock of its own.
LockOf(c) ==
  CASE at[c] # "outer" -> "check_action_status"
    [] at[c] = "outer" /\ op[c] \in Schedules -> "schedule_charging_and_climate"
    [] OTHER -> op[c]

\* The first request of a call.
FirstLeg(o) == CASE o \in Singles -> "single"
                 [] o \in {"charge", "both"} -> "charge"
                 [] o = "climate" -> "hvac"
                 [] OTHER -> "status"

\* A call ends; its local variables go.
Finish(c, r) ==
  /\ pc' = [pc EXCEPT ![c] = "done"]
  /\ result' = [result EXCEPT ![c] = r]
  /\ leg' = [leg EXCEPT ![c] = None]
  /\ body' = [body EXCEPT ![c] = None]
  /\ sent' = [sent EXCEPT ![c] = None]
  /\ at' = [at EXCEPT ![c] = None]
  /\ polls' = [polls EXCEPT ![c] = 0]

\* The call goes on with request l.
GoOn(c, l) ==
  /\ pc' = [pc EXCEPT ![c] = "prepare"]
  /\ leg' = [leg EXCEPT ![c] = l]
  /\ body' = [body EXCEPT ![c] = None]
  /\ sent' = [sent EXCEPT ![c] = None]
  /\ at' = [at EXCEPT ![c] = None]

\* A DeviceIDError passes the wrappers fs from the inside out: the first one
\* that has its retry left handles it.
Raise(c, fs) ==
  LET catching == fs \ retried[c] IN
  \/ /\ catching = {}
     /\ Finish(c, "DeviceIDError")
  \/ /\ catching # {}
     /\ at' = [at EXCEPT ![c] = CHOOSE f \in catching : catching \ {f} \subseteq Outside(f)]
     /\ pc' = [pc EXCEPT ![c] = "lock"]
     /\ sent' = [sent EXCEPT ![c] = None]
     /\ body' = [body EXCEPT ![c] = None]
     /\ UNCHANGED <<leg, polls, result>>

-----------------------------------------------------------------------------
(* Calls and their requests.                                                *)

Begin(c, o) ==
  /\ pc[c] = "idle" /\ o \in Offered[c]
  /\ op' = [op EXCEPT ![c] = o]
  /\ pc' = [pc EXCEPT ![c] = "prepare"]
  /\ leg' = [leg EXCEPT ![c] = FirstLeg(o)]
  /\ polls' = [polls EXCEPT ![c] = IF o = "check_sync" THEN MaxPolls ELSE 0]
  /\ record' = [record EXCEPT ![c] = IF FirstLeg(o) = "status" THEN "running" ELSE None]
  /\ UNCHANGED <<device, lock, body, sent, wrapper, result, history>>

\* The other methods of one request differ from these two in their lock only.
lock_action(c)                   == Begin(c, "lock_action")
start_climate(c)                 == Begin(c, "start_climate")
schedule_charging_and_climate(c) == \E o \in Schedules : Begin(c, o)
check_action_status(c)           == \E o \in {"check", "check_sync"} : Begin(c, o)

\* lock_action's body names the device too (pre-CCS2 cars; set_navigation's
\* always does, before a PIN check), and is built before the headers.
Prepare(c) ==
  /\ pc[c] = "prepare"
  /\ pc' = [pc EXCEPT ![c] = "post"]
  /\ \E named \in BOOLEAN :
       /\ named => op[c] = "lock_action"
       /\ body' = [body EXCEPT ![c] = IF named THEN device ELSE None]
  /\ UNCHANGED <<device, lock, op, leg, sent, wrapper, polls, record, result, history>>

Send(c) ==
  /\ pc[c] = "post"
  /\ pc' = [pc EXCEPT ![c] = "sent"]
  /\ sent' = [sent EXCEPT ![c] = device]
  /\ UNCHANGED <<device, lock, op, leg, body, wrapper, polls, record, result, history>>

\* Wrong PIN, a timeout, any error code but 4002.
OtherError(c) ==
  /\ pc[c] \in {"post", "sent"}
  /\ Finish(c, "raised")
  /\ UNCHANGED <<device, lock, op, retried, record, history>>

-----------------------------------------------------------------------------
(* Answers.                                                                 *)

Known(c) == sent[c] # 0 /\ body[c] # 0

\* resCode 4002: the device id is not valid.
DeviceIdRejected(c) ==
  /\ pc[c] = "sent"
  /\ ~ Known(c)
  /\ Raise(c, Around(c))
  /\ UNCHANGED <<device, lock, op, retried, record, history>>

Answered(c, l) == pc[c] = "sent" /\ Known(c) /\ leg[c] = l

SingleOk(c) ==
  /\ Answered(c, "single")
  /\ Finish(c, "ok")
  /\ UNCHANGED <<device, lock, op, retried, record, history>>

CountPost(c) == posted' = [posted EXCEPT ![c] = IF @ < 3 THEN @ + 1 ELSE 3]

\* Mutant: the climate scope is sent without waiting for the charge action.
ChargeOkUnsettled(c) ==
  /\ Answered(c, "charge")
  /\ record' = [record EXCEPT ![c] = "running"]
  /\ CountPost(c)
  /\ GoOn(c, "hvac")
  /\ UNCHANGED <<device, lock, op, retried, polls, result, applied, faults>>

\* /charge was taken: return its id, or poll its record before /hvac.
ChargeOk(c) ==
  /\ Answered(c, "charge")
  /\ CountPost(c)
  /\ \/ /\ op[c] = "charge"
        /\ Finish(c, "ok")
        /\ UNCHANGED record
     \/ /\ op[c] = "both"
        /\ record' = [record EXCEPT ![c] = "running"]
        /\ GoOn(c, "status")
        /\ polls' = [polls EXCEPT ![c] = MaxPolls]
        /\ UNCHANGED result
  /\ UNCHANGED <<device, lock, op, retried, applied, faults>>

\* Mutant: the loop does not look at the time.
StatusPendingForever(c) ==
  /\ Answered(c, "status")
  /\ record[c] = "running"
  /\ polls' = [polls EXCEPT ![c] = @ - 1]
  /\ retried' = [retried EXCEPT ![c] = @ \ {"inner"}]
  /\ GoOn(c, "status")
  /\ UNCHANGED <<device, lock, op, record, result, history>>

\* No result in the record yet: poll again; the next poll is a new inner call.
StatusPending(c) ==
  /\ Answered(c, "status")
  /\ record[c] = "running"
  /\ polls[c] > 0
  /\ polls' = [polls EXCEPT ![c] = @ - 1]
  /\ retried' = [retried EXCEPT ![c] = @ \ {"inner"}]
  /\ GoOn(c, "status")
  /\ UNCHANGED <<device, lock, op, record, result, history>>

\* The status call returns TIMEOUT: out of time, or the vehicle did not
\* respond.  Between the scopes of a schedule that is a DuplicateRequestError
\* which says that the charge schedule was applied.
StatusTimeout(c) ==
  /\ Answered(c, "status")
  /\ \/ record[c] = "running" /\ polls[c] = 0
     \/ record[c] = "non-response"
  /\ Finish(c, IF op[c] = "both" THEN "appliedButBusy" ELSE "ok")
  /\ UNCHANGED <<device, lock, op, retried, record, history>>

\* Mutant: every outcome but SUCCESS is worded as a busy channel.
StatusNotDoneBusy(c) ==
  /\ Answered(c, "status")
  /\ Finish(c, IF op[c] = "both" THEN "appliedButBusy" ELSE "ok")
  /\ UNCHANGED <<device, lock, op, retried, record, history>>

\* FAILED, or UNKNOWN: the record is not among those the cloud lists.
StatusNotDone(c) ==
  /\ Answered(c, "status")
  /\ Finish(c, IF op[c] = "both" THEN "raised" ELSE "ok")
  /\ UNCHANGED <<device, lock, op, retried, record, history>>

\* SUCCESS: the schedule goes on with the climate scope; the wrappers of the
\* status call are gone.
StatusSuccess(c) ==
  /\ Answered(c, "status")
  /\ record[c] = "success"
  /\ \/ /\ op[c] = "both"
        /\ GoOn(c, "hvac")
        /\ retried' = [retried EXCEPT ![c] = @ \cap {"outer"}]
        /\ UNCHANGED <<polls, result>>
     \/ op[c] # "both" /\ Finish(c, "ok") /\ UNCHANGED retried
  /\ UNCHANGED <<device, lock, op, record, history>>

HvacOk(c) ==
  /\ Answered(c, "hvac")
  /\ Finish(c, "ok")
  /\ UNCHANGED <<device, lock, op, retried, record, history>>

\* Mutant: a busy channel runs the whole schedule once more.
HvacBusyAgain(c) ==
  /\ Answered(c, "hvac")
  /\ IF posted[c] = 1 THEN GoOn(c, FirstLeg(op[c])) /\ UNCHANGED <<polls, result>>
     ELSE Finish(c, "busy")
  /\ UNCHANGED <<device, lock, op, retried, record, history>>

\* 4004 for /hvac: DuplicateRequestError, worded for what was sent before.
HvacBusy(c) ==
  /\ Answered(c, "hvac")
  /\ Finish(c, IF op[c] = "both" THEN "appliedButBusy" ELSE "busy")
  /\ UNCHANGED <<device, lock, op, retried, record, history>>

-----------------------------------------------------------------------------
(* Re-registration.                                                         *)

AcquireLock(c) ==
  /\ pc[c] = "lock"
  /\ lock[LockOf(c)] = None
  /\ lock' = [lock EXCEPT ![LockOf(c)] = c]
  /\ pc' = [pc EXCEPT ![c] = "register"]
  /\ UNCHANGED <<device, op, request, wrapper, polls, record, result, history>>

Release(c) == lock' = [lock EXCEPT ![LockOf(c)] = None]

\* Every id some request or the token still refers to.
Referenced == {device} \cup {sent[d] : d \in Calls} \cup {body[d] : d \in Calls}

NewId(i) == i \notin Referenced /\ \A j \in 1..(i-1) : j \in Referenced

\* The wrapper runs its body again; the wrappers inside it are new ones.
RunAgain(c) ==
  /\ retried' = [retried EXCEPT ![c] =
                   {f \in @ : f \in Outside(at[c])} \cup {at[c]}]
  /\ GoOn(c, IF at[c] = "outer" THEN FirstLeg(op[c]) ELSE leg[c])
  /\ polls' = [polls EXCEPT ![c] = IF at[c] = "sync" THEN MaxPolls ELSE @]

\* Mutant: the new id is not stored in the token.
RegisterOkNotStored(c) ==
  /\ pc[c] = "register"
  /\ Release(c)
  /\ RunAgain(c)
  /\ UNCHANGED <<device, op, record, result, history>>

\* Mutant: the second run is made inside the with block.
RegisterOkLocked(c) ==
  /\ pc[c] = "register"
  /\ \E i \in 1..MaxId : NewId(i) /\ device' = i
  /\ RunAgain(c)
  /\ UNCHANGED <<lock, op, record, result, history>>

\* token.device_id = self._get_device_id(stamp), then the second run.
RegisterOk(c) ==
  /\ pc[c] = "register"
  /\ \E i \in 1..MaxId : NewId(i) /\ device' = i
  /\ Release(c)
  /\ RunAgain(c)
  /\ UNCHANGED <<op, record, result, history>>

Fault == faults' = IF faults < 2 THEN faults + 1 ELSE 2

\* The registration is answered with 4002: the wrapper that tried does not
\* catch that, those around it do.
RegisterRejected(c) ==
  /\ pc[c] = "register"
  /\ Release(c)
  /\ Raise(c, Around(c) \cap Outside(at[c]))
  /\ Fault
  /\ UNCHANGED <<device, op, retried, record, posted, applied>>

RegisterFails(c) ==
  /\ pc[c] = "register"
  /\ Release(c)
  /\ Finish(c, "raised")
  /\ UNCHANGED <<device, op, retried, record, history>>

-----------------------------------------------------------------------------
(* The cloud and the car.                                                   *)

\* Push delivery failed: the cloud drops a device id.
CloudInvalidates(i) ==
  LET Drop(x) == IF x = i THEN 0 ELSE x IN
  /\ i \in Referenced
  /\ device' = Drop(device)
  /\ sent' = [c \in Calls |-> Drop(sent[c])]
  /\ body' = [c \in Calls |-> Drop(body[c])]
  /\ Fault
  /\ UNCHANGED <<lock, op, pc, leg, wrapper, polls, record, result, posted, applied>>

\* The car deals with the charge schedule.
CarReports(c) ==
  /\ record[c] = "running" /\ pc[c] # "done"
  /\ \E r \in Records \ {"running"} :
       /\ record' = [record EXCEPT ![c] = r]
       /\ applied' = [applied EXCEPT ![c] = @ \/ r = "success"]
  /\ UNCHANGED <<device, lock, op, pc, request, wrapper, polls, result, posted, faults>>

-----------------------------------------------------------------------------

Start(c) ==
  \/ lock_action(c) \/ start_climate(c)
  \/ schedule_charging_and_climate(c) \/ check_action_status(c)

Thread(c) ==
  \/ Prepare(c) \/ Send(c) \/ OtherError(c) \/ DeviceIdRejected(c)
  \/ SingleOk(c) \/ ChargeOk(c)
  \/ StatusPending(c) \/ StatusTimeout(c) \/ StatusNotDone(c) \/ StatusSuccess(c)
  \/ HvacOk(c) \/ HvacBusy(c)
  \/ AcquireLock(c) \/ RegisterOk(c) \/ RegisterRejected(c) \/ RegisterFails(c)

Next == \/ \E c \in Calls : Start(c) \/ Thread(c) \/ CarReports(c)
        \/ \E i \in 1..MaxId : CloudInvalidates(i)

Spec == Init /\ [][Next]_vars

\* Threads run, and ApiImplSession's timeouts end every request.
FairSpec == Spec /\ \A c \in Calls : WF_vars(Thread(c))

-----------------------------------------------------------------------------
(* Properties.                                                              *)

\* The climate scope of a two-scope schedule is sent only once the car has
\* applied the charge scope of the same call, however often the wrappers have
\* run the schedule again.
ClimateAfterCharge ==
  \A c \in Calls : op[c] = "both" /\ leg[c] = "hvac" => record[c] = "success"

\* The charge scope is sent twice only if a DeviceIDError came all the way to
\* the wrapper of the schedule, and never three times.
ChargeRepeatsOnce ==
  \A c \in Calls : posted[c] <= IF "outer" \in retried[c] THEN 2 ELSE 1

\* One fault - an id invalidated at any point, or already invalid in the
\* restored token - is repaired under every interleaving: no caller sees the
\* DeviceIDError.
OneFaultIsInvisible ==
  faults <= 1 => \A c \in Calls : result[c] # "DeviceIDError"

\* The nested wrappers come to an end, even if the cloud rejects every id,
\* and their locks never make two calls, or one call and itself, wait forever.
CallsReturn == \A c \in Calls : pc[c] # "idle" ~> pc[c] = "done"

\* A DuplicateRequestError that says that the charge schedule was applied
\* never follows a record that says that it failed.  (It does follow one that
\* says that the car did not respond.)
FailedIsNotApplied ==
  \A c \in Calls : result[c] = "appliedButBusy" => applied[c] \/ record[c] # "fail"
=============================================================================
