---------------------------- MODULE KiaUsaSession ----------------------------
(***************************************************************************)
(* Session repair of the Kia USA client (KiaUvoApiUSA.py).                  *)
(*                                                                         *)
(* A request carries the session id of the shared Token and the key of its  *)
(* vehicle, which is valid only in the session it was listed in.  When the  *)
(* cloud rejects the session, request_with_active_session logs in again,    *)
(* writes the new session into the shared Token, lists the vehicles to get  *)
(* this vehicle's new key and sends the request once more; the listing has  *)
(* a repair of its own, _retry_on_auth_error.  VehicleManager's             *)
(* check_and_refresh_token meanwhile replaces the Token object and all      *)
(* keys.  None of this takes a lock.                                        *)
(*                                                                         *)
(* A call is one invocation by one worker thread.  Its steps are cut at     *)
(* every point where another thread can be seen: before a request is        *)
(* built, while it travels, after the cloud has handled it and before the   *)
(* answer is processed.                                                     *)
(***************************************************************************)
EXTENDS Naturals, FiniteSets

CONSTANTS
  Calls,      \* the calls made by the worker threads
  Vehicles,   \* the vehicles of the account
  Tokens,     \* identities of Token objects
  MaxSid      \* bound: sessions the cloud opens in a behaviour

ASSUME SessionAssumption ==
  /\ MaxSid \in Nat \ {0}
  /\ Tokens # {}
  /\ Vehicles # {}

VARIABLES
  live,       \* cloud: the sessions it accepts
  nextSid,    \* cloud: the session the next login opens
  rmValid,    \* cloud: does it still accept the remember-me token?
  cur,        \* VehicleManager.token: which Token object it holds
  token,      \* Token objects: access_token and whether refresh_token is set
  key,        \* Vehicle.key, as the session it was listed in
  pc,         \* where each call is
  kind,       \* what each call does
  veh,        \* the vehicle of each call
  tok,        \* the Token object each call was given
  attempt,    \* which call of func the active-session wrapper is in
  listing,    \* which call of func the _retry_on_auth_error wrapper is in
  body,       \* vinKey in the request body, 0 when the body has none
  rpc,        \* the request of each call that is under way
  result,     \* how each call ended
  effects,    \* history: how often the cloud acted on each call
  logins,     \* history: logins made on behalf of each call
  calm        \* history: nothing else happened since the call began

cloud   == <<live, nextSid, rmValid>>
shared  == <<cur, token, key>>
args    == <<kind, veh, tok>>
locals  == <<pc, attempt, listing, body, rpc, result>>
history == <<effects, logins, calm>>
vars    == <<cloud, shared, args, locals, history>>

Sids    == 1..MaxSid
Kinds   == {"none", "plain", "keyed", "refresh"}
PCs     == {"idle", "command", "repairLogin", "list", "listLogin",
            "managerLogin", "done"}
Results == {"none", "ok", "auth", "error", "otpRequired", "attributeError"}
Answers == {"ok", "auth", "bad", "fail", "otp"}

\* A request on its way and a reply on its way back.  rm says whether the
\* remember-me token is presented; new is the session a login opened or
\* the one the listed keys belong to.
Request(s, h, b, m) == [st |-> "sent", sid |-> s, hkey |-> h, bkey |-> b, rm |-> m]
Reply(a, n)         == [st |-> "answered", ans |-> a, new |-> n]
NoRpc               == [st |-> "none"]

Requests == [st : {"sent"}, sid : 0..MaxSid, hkey : 0..MaxSid, bkey : 0..MaxSid, rm : BOOLEAN]
Replies  == [st : {"answered"}, ans : Answers, new : 0..MaxSid]

LoginPCs  == {"repairLogin", "listLogin", "managerLogin"}
Active(c) == pc[c] \notin {"idle", "done"}

TypeOK ==
  /\ live \in SUBSET Sids
  /\ nextSid \in 1..(MaxSid + 1)
  /\ rmValid \in BOOLEAN
  /\ cur \in Tokens
  /\ token \in [Tokens -> [sid : Sids, rm : BOOLEAN]]
  /\ key \in [Vehicles -> Sids]
  /\ pc \in [Calls -> PCs]
  /\ kind \in [Calls -> Kinds]
  /\ veh \in [Calls -> Vehicles]
  /\ tok \in [Calls -> Tokens]
  /\ attempt \in [Calls -> 1..2]
  /\ listing \in [Calls -> 1..2]
  /\ body \in [Calls -> 0..MaxSid]
  /\ rpc \in [Calls -> {NoRpc} \cup Requests \cup Replies]
  /\ result \in [Calls -> Results]
  /\ effects \in [Calls -> Nat]
  /\ logins \in [Calls -> Nat]
  /\ calm \in [Calls -> BOOLEAN]

\* The client after a first login with OTP and initialize_vehicles.
Init ==
  /\ live = {1}
  /\ nextSid = 2
  /\ rmValid = TRUE
  /\ cur \in Tokens
  /\ token = [o \in Tokens |-> [sid |-> 1, rm |-> TRUE]]
  /\ key = [v \in Vehicles |-> 1]
  /\ pc = [c \in Calls |-> "idle"]
  /\ kind = [c \in Calls |-> "none"]
  /\ veh \in [Calls -> Vehicles]
  /\ tok = [c \in Calls |-> cur]
  /\ attempt = [c \in Calls |-> 1]
  /\ listing = [c \in Calls |-> 1]
  /\ body = [c \in Calls |-> 0]
  /\ rpc = [c \in Calls |-> NoRpc]
  /\ result = [c \in Calls |-> "none"]
  /\ effects = [c \in Calls |-> 0]
  /\ logins = [c \in Calls |-> 0]
  /\ calm = [c \in Calls |-> FALSE]

-----------------------------------------------------------------------------
(* Calls begin and end.                                                     *)

\* A control or status call of the API: the method reads vehicle.key for a
\* body that has a vinKey before it enters the request helper.
BeginCall(c) ==
  \E k \in {"plain", "keyed"} :
    /\ pc[c] = "idle"
    /\ pc' = [pc EXCEPT ![c] = "command"]
    /\ kind' = [kind EXCEPT ![c] = k]
    /\ tok' = [tok EXCEPT ![c] = cur]
    /\ body' = [body EXCEPT ![c] = IF k = "keyed" THEN key[veh[c]] ELSE 0]
    /\ calm' = [d \in Calls |-> d = c /\ rmValid /\ \A e \in Calls : ~ Active(e)]
    /\ UNCHANGED <<cloud, shared, veh, attempt, listing, rpc, result, effects, logins>>

\* VehicleManager.check_and_refresh_token once it found the token expired.
BeginRefresh(c) ==
  /\ pc[c] = "idle"
  /\ pc' = [pc EXCEPT ![c] = "managerLogin"]
  /\ kind' = [kind EXCEPT ![c] = "refresh"]
  /\ tok' = [tok EXCEPT ![c] = cur]
  /\ calm' = [d \in Calls |-> d = c /\ rmValid /\ \A e \in Calls : ~ Active(e)]
  /\ UNCHANGED <<cloud, shared, veh, attempt, listing, body, rpc, result, effects, logins>>

Finish(c, r) ==
  /\ pc' = [pc EXCEPT ![c] = "done"]
  /\ result' = [result EXCEPT ![c] = r]
  /\ rpc' = [rpc EXCEPT ![c] = NoRpc]

Answered(c, a) == rpc[c].st = "answered" /\ rpc[c].ans = a

-----------------------------------------------------------------------------
(* The decorated request: authed_api_headers, the round trip, and what      *)
(* request_with_logging and request_with_active_session make of the answer. *)

SendCommand(c) ==
  /\ pc[c] = "command"
  /\ rpc[c].st = "none"
  /\ rpc' = [rpc EXCEPT ![c] = Request(token[tok[c]].sid, key[veh[c]], body[c], FALSE)]
  /\ UNCHANGED <<cloud, shared, args, pc, attempt, listing, body, result, history>>

CommandOk(c) ==
  /\ pc[c] = "command"
  /\ Answered(c, "ok")
  /\ Finish(c, "ok")
  /\ UNCHANGED <<cloud, shared, args, attempt, listing, body, history>>

\* Mutant: every failed request is simply sent again.
CommandFailsRetried(c) ==
  /\ pc[c] = "command"
  /\ Answered(c, "fail")
  /\ rpc' = [rpc EXCEPT ![c] = NoRpc]
  /\ UNCHANGED <<cloud, shared, args, pc, attempt, listing, body, result, history>>

\* Any failure but an invalid session (RequestException, a timeout) is not retried.
CommandFails(c) ==
  /\ pc[c] = "command"
  /\ Answered(c, "fail")
  /\ Finish(c, "error")
  /\ UNCHANGED <<cloud, shared, args, attempt, listing, body, history>>

\* Mutant: every invalid session is repaired, as in a loop.
CommandRejectedAgain(c) ==
  /\ pc[c] = "command"
  /\ Answered(c, "auth")
  /\ pc' = [pc EXCEPT ![c] = "repairLogin"]
  /\ rpc' = [rpc EXCEPT ![c] = NoRpc]
  /\ UNCHANGED <<cloud, shared, args, attempt, listing, body, result, history>>

\* The first invalid session is repaired, the second is the caller's problem.
CommandRejected(c) ==
  /\ pc[c] = "command"
  /\ Answered(c, "auth")
  /\ \/ /\ attempt[c] = 1
        /\ pc' = [pc EXCEPT ![c] = "repairLogin"]
        /\ rpc' = [rpc EXCEPT ![c] = NoRpc]
        /\ UNCHANGED result
     \/ /\ attempt[c] = 2
        /\ Finish(c, "auth")
  /\ UNCHANGED <<cloud, shared, args, attempt, listing, body, history>>

-----------------------------------------------------------------------------
(* login, called from either repair or from refresh_access_token.           *)

SendLogin(c) ==
  /\ pc[c] \in LoginPCs
  /\ rpc[c].st = "none"
  /\ rpc' = [rpc EXCEPT ![c] = Request(0, 0, 0, token[tok[c]].rm)]
  /\ logins' = [logins EXCEPT ![c] = @ + 1]
  /\ UNCHANGED <<cloud, shared, args, pc, attempt, listing, body, result, effects, calm>>

\* The Token login() returns: the remember-me token is carried over.
NewToken(c) == [sid |-> rpc[c].new, rm |-> token[tok[c]].rm]

\* Both wrappers copy the new session into the Token object they were given.
RepairLoginOk(c) ==
  /\ pc[c] \in {"repairLogin", "listLogin"}
  /\ Answered(c, "ok")
  /\ token' = [token EXCEPT ![tok[c]] = NewToken(c)]
  /\ pc' = [pc EXCEPT ![c] = "list"]
  /\ listing' = [listing EXCEPT ![c] = IF pc[c] = "listLogin" THEN @ + 1 ELSE @]
  /\ rpc' = [rpc EXCEPT ![c] = NoRpc]
  /\ UNCHANGED <<cloud, cur, key, args, attempt, body, result, history>>

\* check_and_refresh_token stores a new Token object; calls already begun
\* keep the object they were given.
ManagerLoginOk(c) ==
  /\ pc[c] = "managerLogin"
  /\ Answered(c, "ok")
  /\ \E o \in Tokens \ ({cur} \cup {tok[d] : d \in {e \in Calls : Active(e)}}) :
       /\ cur' = o
       /\ token' = [token EXCEPT ![o] = NewToken(c)]
       /\ tok' = [tok EXCEPT ![c] = o]
  /\ pc' = [pc EXCEPT ![c] = "list"]
  /\ rpc' = [rpc EXCEPT ![c] = NoRpc]
  /\ UNCHANGED <<cloud, key, kind, veh, attempt, listing, body, result, history>>

\* An OTPRequest instead of a Token: the active-session wrapper reads
\* access_token of it, the other two callers check for it.
LoginNeedsOtp(c) ==
  /\ pc[c] \in LoginPCs
  /\ Answered(c, "otp")
  /\ Finish(c, IF pc[c] = "repairLogin" THEN "attributeError" ELSE "otpRequired")
  /\ UNCHANGED <<cloud, shared, args, attempt, listing, body, history>>

\* Wrong credentials raise AuthenticationError, anything else APIError or a
\* RequestException; _retry_on_auth_error turns them all into AuthenticationError.
LoginFails(c) ==
  /\ pc[c] \in LoginPCs
  /\ \/ Answered(c, "bad") /\ Finish(c, "auth")
     \/ Answered(c, "fail") /\ Finish(c, IF pc[c] = "listLogin" THEN "auth" ELSE "error")
  /\ UNCHANGED <<cloud, shared, args, attempt, listing, body, history>>

-----------------------------------------------------------------------------
(* refresh_vehicles: list the account's vehicles and take over their keys.  *)

SendList(c) ==
  /\ pc[c] = "list"
  /\ rpc[c].st = "none"
  /\ rpc' = [rpc EXCEPT ![c] = Request(token[tok[c]].sid, 0, 0, FALSE)]
  /\ UNCHANGED <<cloud, shared, args, pc, attempt, listing, body, result, history>>

\* Mutant: the request is resent with the body it was built with.
ListOkRepairOldBody(c) ==
  /\ pc[c] = "list"
  /\ kind[c] # "refresh"
  /\ Answered(c, "ok")
  /\ key' = [key EXCEPT ![veh[c]] = rpc[c].new]
  /\ attempt' = [attempt EXCEPT ![c] = @ + 1]
  /\ pc' = [pc EXCEPT ![c] = "command"]
  /\ rpc' = [rpc EXCEPT ![c] = NoRpc]
  /\ UNCHANGED <<cloud, cur, token, args, listing, body, result, history>>

\* Mutant: the request is resent without taking over the vehicle's new key.
ListOkRepairOldKey(c) ==
  /\ pc[c] = "list"
  /\ kind[c] # "refresh"
  /\ Answered(c, "ok")
  /\ attempt' = [attempt EXCEPT ![c] = @ + 1]
  /\ pc' = [pc EXCEPT ![c] = "command"]
  /\ rpc' = [rpc EXCEPT ![c] = NoRpc]
  /\ UNCHANGED <<cloud, shared, args, listing, body, result, history>>

\* The repair refreshes one vehicle, puts its key into the body and resends.
ListOkRepair(c) ==
  /\ pc[c] = "list"
  /\ kind[c] # "refresh"
  /\ Answered(c, "ok")
  /\ key' = [key EXCEPT ![veh[c]] = rpc[c].new]
  /\ body' = [body EXCEPT ![c] = IF kind[c] = "keyed" THEN rpc[c].new ELSE 0]
  /\ attempt' = [attempt EXCEPT ![c] = @ + 1]
  /\ pc' = [pc EXCEPT ![c] = "command"]
  /\ rpc' = [rpc EXCEPT ![c] = NoRpc]
  /\ UNCHANGED <<cloud, cur, token, args, listing, result, history>>

\* Mutant: the manager's refresh takes the single-vehicle branch.
ListOkManagerOneVehicle(c) ==
  /\ pc[c] = "list"
  /\ kind[c] = "refresh"
  /\ Answered(c, "ok")
  /\ key' = [key EXCEPT ![veh[c]] = rpc[c].new]
  /\ Finish(c, "ok")
  /\ UNCHANGED <<cloud, cur, token, args, attempt, listing, body, history>>

\* The manager refreshes every vehicle it holds.
ListOkManager(c) ==
  /\ pc[c] = "list"
  /\ kind[c] = "refresh"
  /\ Answered(c, "ok")
  /\ key' = [v \in Vehicles |-> rpc[c].new]
  /\ Finish(c, "ok")
  /\ UNCHANGED <<cloud, cur, token, args, attempt, listing, body, history>>

ListRejected(c) ==
  /\ pc[c] = "list"
  /\ Answered(c, "auth")
  /\ \/ /\ listing[c] = 1
        /\ pc' = [pc EXCEPT ![c] = "listLogin"]
        /\ rpc' = [rpc EXCEPT ![c] = NoRpc]
        /\ UNCHANGED result
     \/ /\ listing[c] = 2
        /\ Finish(c, "auth")
  /\ UNCHANGED <<cloud, shared, args, attempt, listing, body, history>>

ListFails(c) ==
  /\ pc[c] = "list"
  /\ Answered(c, "fail")
  /\ Finish(c, "error")
  /\ UNCHANGED <<cloud, shared, args, attempt, listing, body, history>>

-----------------------------------------------------------------------------
(* The cloud, as the client's code presents it.                             *)

Answer(c, a, n) == rpc' = [rpc EXCEPT ![c] = Reply(a, n)]

\* Error codes 1003 and 1005: the session is gone, or the key is not of it.
Accepts(r) == r.sid \in live /\ r.hkey = r.sid /\ r.bkey \in {0, r.sid}

Arrived(c, p) == pc[c] \in p /\ rpc[c].st = "sent"

\* The cloud acts on an accepted command; its answer may still be lost.
CloudCommand(c) ==
  /\ Arrived(c, {"command"})
  /\ \/ /\ Accepts(rpc[c])
        /\ effects' = [effects EXCEPT ![c] = @ + 1]
        /\ \/ Answer(c, "ok", 0) /\ UNCHANGED calm
           \/ Answer(c, "fail", 0) /\ calm' = [calm EXCEPT ![c] = FALSE]
     \/ /\ ~ Accepts(rpc[c])
        /\ Answer(c, "auth", 0)
        /\ UNCHANGED <<effects, calm>>
     \/ /\ Answer(c, "fail", 0)
        /\ calm' = [calm EXCEPT ![c] = FALSE]
        /\ UNCHANGED effects
  /\ UNCHANGED <<cloud, shared, args, pc, attempt, listing, body, result, logins>>

\* A login with a valid remember-me token opens a session, and the cloud
\* may close the others; without one the cloud asks for an OTP.
CloudLogin(c) ==
  /\ Arrived(c, LoginPCs)
  /\ \/ /\ rpc[c].rm /\ rmValid
        /\ nextSid <= MaxSid
        /\ live' \in {live \cup {nextSid}, {nextSid}}
        /\ nextSid' = nextSid + 1
        /\ Answer(c, "ok", nextSid)
        /\ UNCHANGED calm
     \/ /\ ~ (rpc[c].rm /\ rmValid)
        /\ Answer(c, "otp", 0)
        /\ UNCHANGED <<live, nextSid, calm>>
     \/ /\ \E a \in {"bad", "fail"} : Answer(c, a, 0)
        /\ calm' = [calm EXCEPT ![c] = FALSE]
        /\ UNCHANGED <<live, nextSid>>
  /\ UNCHANGED <<rmValid, shared, args, pc, attempt, listing, body, result, effects, logins>>

CloudList(c) ==
  /\ Arrived(c, {"list"})
  /\ \/ rpc[c].sid \in live /\ Answer(c, "ok", rpc[c].sid) /\ UNCHANGED calm
     \/ rpc[c].sid \notin live /\ Answer(c, "auth", 0) /\ UNCHANGED calm
     \/ Answer(c, "fail", 0) /\ calm' = [calm EXCEPT ![c] = FALSE]
  /\ UNCHANGED <<cloud, shared, args, pc, attempt, listing, body, result, effects, logins>>

Disturb == calm' = [c \in Calls |-> FALSE]

CloudExpiresSession ==
  /\ \E s \in live : live' = live \ {s}
  /\ Disturb
  /\ UNCHANGED <<nextSid, rmValid, shared, args, locals, effects, logins>>

CloudExpiresRememberMe ==
  /\ rmValid
  /\ rmValid' = FALSE
  /\ Disturb
  /\ UNCHANGED <<live, nextSid, shared, args, locals, effects, logins>>

-----------------------------------------------------------------------------

Client(c) ==
  \/ SendCommand(c) \/ CommandOk(c) \/ CommandFails(c) \/ CommandRejected(c)
  \/ SendLogin(c) \/ RepairLoginOk(c) \/ ManagerLoginOk(c) \/ LoginNeedsOtp(c)
  \/ LoginFails(c)
  \/ SendList(c) \/ ListOkRepair(c) \/ ListOkManager(c) \/ ListRejected(c) \/ ListFails(c)

Cloud(c) == CloudCommand(c) \/ CloudLogin(c) \/ CloudList(c)

Next ==
  \/ \E c \in Calls : BeginCall(c) \/ BeginRefresh(c) \/ Client(c) \/ Cloud(c)
  \/ CloudExpiresSession
  \/ CloudExpiresRememberMe

Spec == Init /\ [][Next]_vars

-----------------------------------------------------------------------------
(* Properties.                                                              *)

\* However the two repairs nest, one call logs in at most twice: a rejected
\* session can never turn into a login storm against the account.
LoginBudget == \A c \in Calls : logins[c] <= 2

\* The repair heals: whatever mixture of sessions and keys earlier races
\* left behind, a call that runs alone, with a remember-me token the cloud
\* accepts and no failing answer, succeeds.
SoloCallSucceeds ==
  \A c \in Calls : pc[c] = "done" /\ calm[c] => result[c] = "ok"

\* After check_and_refresh_token ran alone, the manager's token and the keys
\* of all its vehicles belong to one session that the cloud accepts.
RefreshRealigns ==
  \A c \in Calls : pc[c] = "done" /\ calm[c] /\ kind[c] = "refresh" =>
    /\ token[cur].sid \in live
    /\ \A v \in Vehicles : key[v] = token[cur].sid

\* A second attempt of an undisturbed repair is sent with credentials of one
\* session: header key, body key and session id agree.
RepairSendsOneSession ==
  \A c \in Calls :
    pc[c] = "command" /\ attempt[c] = 2 /\ calm[c] /\ rpc[c].st = "sent" =>
      Accepts(rpc[c])

\* _retry_on_auth_error is documented as symmetric with
\* request_with_active_session: a repair that needs an OTP must say so.
OtpIsSurfaced == \A c \in Calls : result[c] # "attributeError"

\* Calls of this client are RemoteCommands (a token refresh is none).
CallPhase(c) ==
  CASE kind[c] \in {"none", "refresh"} -> "idle"
    [] kind[c] \in {"plain", "keyed"} /\ pc[c] # "done" -> "pending"
    [] kind[c] \in {"plain", "keyed"} /\ pc[c] = "done" ->
         IF result[c] = "ok" THEN "ok" ELSE "failed"

Command == INSTANCE RemoteCommand WITH
  phase <- [c \in Calls |-> CallPhase(c)], effects <- effects

\* The session repair repeats only requests the cloud rejected: each call
\* acts at most once, and one that returns has acted.
ActsAtMostOnce == Command!Spec
=============================================================================
