---------------------------- MODULE ControlToken ----------------------------
(***************************************************************************)
(* Remote commands that carry a PIN-derived control token: the European    *)
(* CCI client (GspaApiEU.py), the Type1 clients of Europe, Australia, India *)
(* and China (ApiImplType1.py and its subclasses) and the Brazilian client. *)
(*                                                                         *)
(* _get_control_token gets the token by verifying the PIN and caches it on  *)
(* the Token object, two fields that are read and written without a lock.   *)
(* The CCI client drops the cache on a 401 and sends the command once more; *)
(* the Type1 clients only run a command again when the cloud rejects their  *)
(* device id, and keep a refused control token until it expires.  The cloud *)
(* counts failed PIN verifications and locks PIN entry after PinTries.      *)
(***************************************************************************)
EXTENDS Naturals, FiniteSets

CONSTANTS
  Calls,      \* the commands sent by the worker threads
  Clients,    \* the clients looked at: "CCI", "Type1", "BR"
  None,       \* no value
  MaxToken,   \* control tokens the cloud accepts are 1..MaxToken; one nothing refers to is used again
  PinTries    \* failed verifications after which PIN entry is locked (5)

ASSUME ControlAssumption ==
  /\ IsFiniteSet(Calls)
  /\ Clients \subseteq {"CCI", "Type1", "BR"}
  /\ MaxToken \in Nat \ {0}
  /\ PinTries \in Nat \ {0}
  /\ None \notin 0..MaxToken
  /\ None \notin {"accepted", "401", "device", "failed", "ok", "auth", "pin", "raised"}

VARIABLES
  client,      \* the client in use; it never changes
  control,     \* token.control_token; 0 stands for every token the cloud does not accept
  fresh,       \* is token.control_token_expiry in the future?
  pinRight,    \* is token.pin the PIN of the account?
  ccs,         \* does the cloud accept token.access_token?
  remain,      \* cloud: PIN verifications that may still fail
  pc,          \* where each command is
  gated,       \* does it carry the control token?
  last,        \* is this its last attempt?
  got,         \* the control token of its headers
  answer,      \* the cloud's answer, once it has seen the command
  result,      \* what the command returned or raised
  effects,     \* history: how often the cloud acted on the command
  overlapped,  \* history: another command has run since this one began (CCI)
  revoked      \* history: control tokens revoked; 2 is "more than 1" (CCI)

cache   == <<control, fresh>>
server  == <<pinRight, ccs, remain>>
request == <<last, got, answer>>
history == <<effects, overlapped, revoked>>
vars    == <<client, cache, server, pc, gated, request, result, history>>

PCs     == {"idle", "header", "cached", "pin", "store", "sent", "invalidate", "done"}
Answers == {"accepted", "401", "device", "failed"}
Results == {"ok", "auth", "pin", "raised"}
Tokens  == 0..MaxToken

Active(c) == pc[c] \notin {"idle", "done"}

TypeOK ==
  /\ client \in Clients
  /\ control \in Tokens \cup {None}
  /\ fresh \in BOOLEAN
  /\ pinRight \in BOOLEAN
  /\ ccs \in BOOLEAN
  /\ remain \in 0..PinTries
  /\ pc \in [Calls -> PCs]
  /\ gated \in [Calls -> BOOLEAN]
  /\ last \in [Calls -> BOOLEAN]
  /\ got \in [Calls -> Tokens \cup {None}]
  /\ answer \in [Calls -> Answers \cup {None}]
  /\ result \in [Calls -> Results \cup {None}]
  /\ effects \in [Calls -> 0..1]
  /\ overlapped \in [Calls -> BOOLEAN]
  /\ revoked \in 0..2

\* A Token that was serialized in an earlier run may carry a control token,
\* still accepted or not.
Init ==
  /\ client \in Clients
  /\ control \in {None, 0, 1}
  /\ fresh \in BOOLEAN
  /\ control = None => ~ fresh
  /\ revoked = IF client = "CCI" /\ control = 0 THEN 1 ELSE 0
  /\ pinRight \in BOOLEAN
  /\ ccs \in BOOLEAN
  /\ remain = PinTries
  /\ pc = [c \in Calls |-> "idle"]
  /\ gated = [c \in Calls |-> FALSE]
  /\ last = [c \in Calls |-> FALSE]
  /\ got = [c \in Calls |-> None]
  /\ answer = [c \in Calls |-> None]
  /\ result = [c \in Calls |-> None]
  /\ effects = [c \in Calls |-> 0]
  /\ overlapped = [c \in Calls |-> FALSE]

-----------------------------------------------------------------------------
(* The commands of each client.  A GSPA command is an endpoint; a Type1     *)
(* command has the set of the authorizations it may use, one for each       *)
(* protocol generation of the car: TRUE is the control token.               *)

GSPA_BEARER_ENDPOINTS ==
  {"charge-target", "charging-current", "discharge-limit", "charge-alarm",
   "reservation-charge", "reservation-charge-na", "reservation-hvac",
   "reservation-charge-hvac", "reservation-engine", "ota-updates",
   "ota-updates-reservation"}

DoorsAndLights ==
  {"door-lock", "door-unlock", "door-power-off", "charge", "portdoor", "frunk", "light",
   "hornlight", "lamp", "battery-conditioning", "rearseat-alarm", "control"}
Climate == {"temperature", "engine", "pet-care"}
Windows == {"windowcurtain", "window-curtain"}
ChargeSettings == {"charge-target", "charging-current", "discharge-limit", "charge-alarm"}
Reservations ==
  {"reservation-charge", "reservation-hvac", "reservation-engine", "reservation-charge-na",
   "reservation-charge-hvac"}
Updates == {"ota-updates", "ota-updates-reservation"}

Bearer     == {FALSE}
Pin        == {TRUE}
ByProtocol == BOOLEAN      \* a legacy car: bearer; a CCS2 car: control token

Type1Charging ==
  [start_charge |-> ByProtocol, stop_charge |-> ByProtocol, set_charging_current |-> Bearer,
   set_charge_limits |-> Bearer, set_vehicle_to_load_discharge_limit |-> Bearer]
Type1Doors   == [lock_action |-> ByProtocol, charge_port_action |-> Pin, valet_mode_action |-> Pin]
Type1Climate == [start_climate |-> ByProtocol, stop_climate |-> ByProtocol]
Type1Others  ==
  [start_hazard_lights |-> Pin, start_hazard_lights_and_horn |-> Pin, set_windows_state |-> Pin,
   set_navigation |-> Pin]

\* Not decorated with _retry_on_device_id_error.
AustralianCommands == [charge_port_action |-> Pin]
IndianCommands     == [start_climate |-> Bearer, stop_climate |-> Pin]
ChineseCommands    ==
  [charge_port_action |-> Bearer, start_climate |-> Bearer, stop_climate |-> Pin,
   start_charge |-> Bearer, stop_charge |-> Bearer, set_charge_limits |-> Bearer]
BrazilianCommands  ==
  [lock_action |-> Pin, set_windows_state |-> Pin, start_hazard_lights |-> Pin,
   start_climate |-> Pin, stop_climate |-> Pin]

Uses(table) == UNION {table[m] : m \in DOMAIN table}

\* What a command is to the rest of the module: does it carry the control
\* token, may it be sent twice?
Command(g, r) == [gated |-> g, repeats |-> r]

Commands ==
  [CCI   |-> {Command(g, g) : g \in {e \notin GSPA_BEARER_ENDPOINTS :
                e \in DoorsAndLights \cup Climate \cup Windows \cup ChargeSettings
                      \cup Reservations \cup Updates}},
   Type1 |-> {Command(g, TRUE) : g \in Uses(Type1Charging) \cup Uses(Type1Doors)
                                       \cup Uses(Type1Climate) \cup Uses(Type1Others)}
             \cup {Command(g, FALSE) : g \in Uses(AustralianCommands) \cup Uses(IndianCommands)
                                              \cup Uses(ChineseCommands)},
   BR    |-> {Command(g, FALSE) : g \in Uses(BrazilianCommands)}]

-----------------------------------------------------------------------------

At(c, p) == pc[c] = p

Goto(c, p) == pc' = [pc EXCEPT ![c] = p]

\* The locals of a command that ends or starts its second attempt.
Reset(c, l) ==
  /\ last' = [last EXCEPT ![c] = l]
  /\ got' = [got EXCEPT ![c] = None]
  /\ answer' = [answer EXCEPT ![c] = None]

Finish(c, r) ==
  /\ Goto(c, "done")
  /\ result' = [result EXCEPT ![c] = r]
  /\ gated' = [gated EXCEPT ![c] = FALSE]
  /\ overlapped' = [overlapped EXCEPT ![c] = FALSE]
  /\ Reset(c, FALSE)

SecondAttempt(c) ==
  /\ Goto(c, "header")
  /\ Reset(c, TRUE)

Overlaps(c) == IF client = "CCI" /\ \E d \in Calls \ {c} : Active(d)
               THEN {c} \cup {d \in Calls : Active(d)} ELSE {}

\* A thread sends one of the client's commands.
Begin(c) ==
  /\ At(c, "idle")
  /\ \E command \in Commands[client] :
       /\ gated' = [gated EXCEPT ![c] = command.gated]
       /\ last' = [last EXCEPT ![c] = ~ command.repeats]
  /\ Goto(c, "header")
  /\ overlapped' = [d \in Calls |-> overlapped[d] \/ d \in Overlaps(c)]
  /\ UNCHANGED <<client, cache, server, got, answer, result, effects, revoked>>

\* Before any request: a command the brand has not verified or the region
\* has no endpoint for, a car without CCS2, windows asked for different
\* states, an access token within 60 s of its end.
CommandRefused(c) ==
  /\ At(c, "header")
  /\ \/ Finish(c, "raised")
     \/ client = "CCI" /\ (gated[c] => ~ last[c]) /\ Finish(c, "auth")
  /\ UNCHANGED <<client, cache, server, effects, revoked>>

-----------------------------------------------------------------------------
(* _get_control_token, _ensure_control_token.                               *)

BearerHeaders(c) ==
  /\ At(c, "header") /\ ~ gated[c]
  /\ Goto(c, "sent")
  /\ UNCHANGED <<client, cache, server, gated, request, result, history>>

\* token.control_token is not None and its expiry is in the future.
CheckCache(c) ==
  /\ At(c, "header") /\ gated[c]
  /\ Goto(c, IF control # None /\ fresh THEN "cached" ELSE "pin")
  /\ UNCHANGED <<client, cache, server, gated, request, result, history>>

\* return token.control_token, ...: the field is read once more.
ReadCache(c) ==
  /\ At(c, "cached")
  /\ got' = [got EXCEPT ![c] = control]
  /\ Goto(c, "sent")
  /\ UNCHANGED <<client, cache, server, gated, last, answer, result, history>>

Referenced == {control} \cup {got[d] : d \in Calls}

NewToken(i) == i \notin Referenced /\ \A j \in 1..(i-1) : j \in Referenced

\* The new token is stored, its expiry in the next statement.  A Type1
\* client returns the token it got, the CCI client the field.
PinMatched(c) ==
  /\ At(c, "pin")
  /\ pinRight /\ remain > 0
  /\ remain' = PinTries
  /\ \E i \in 1..MaxToken :
       /\ NewToken(i)
       /\ control' = i
       /\ got' = IF client = "CCI" THEN got ELSE [got EXCEPT ![c] = i]
  /\ Goto(c, "store")
  /\ UNCHANGED <<client, fresh, pinRight, ccs, gated, last, answer, result, history>>

\* expiresTime may be 0.
StoreExpiry(c) ==
  /\ At(c, "store")
  /\ fresh' \in BOOLEAN
  /\ Goto(c, IF client = "CCI" THEN "cached" ELSE "sent")
  /\ UNCHANGED <<client, control, server, gated, request, result, history>>

TryGone == IF remain = 0 THEN 0 ELSE remain - 1

\* Mutant: a refused PIN is tried once more.
PinRefusedRetried(c) ==
  /\ At(c, "pin")
  /\ ~ pinRight \/ remain = 0
  /\ remain' = TryGone
  /\ \/ last[c] /\ Finish(c, "pin")
     \/ ~ last[c] /\ Reset(c, TRUE) /\ UNCHANGED <<pc, gated, result, overlapped>>
  /\ UNCHANGED <<client, cache, pinRight, ccs, effects, revoked>>

\* isMatched false, no controlToken: the PIN is wrong, or PIN entry is locked.
PinRefused(c) ==
  /\ At(c, "pin")
  /\ ~ pinRight \/ remain = 0
  /\ remain' = TryGone
  /\ Finish(c, "pin")
  /\ UNCHANGED <<client, cache, pinRight, ccs, effects, revoked>>

\* A timeout, or a body without the expected fields; the cloud has counted
\* the verification or has not.
PinUnanswered(c) ==
  /\ At(c, "pin")
  /\ remain' \in {remain, IF pinRight /\ remain > 0 THEN PinTries ELSE TryGone}
  /\ Finish(c, "raised")
  /\ UNCHANGED <<client, cache, pinRight, ccs, effects, revoked>>

\* No PIN is configured, or no X-Stamp can be made.
HeadersFail(c) ==
  /\ pc[c] \in {"header", "pin"}
  /\ Finish(c, "raised")
  /\ UNCHANGED <<client, cache, server, effects, revoked>>

-----------------------------------------------------------------------------
(* Sending the command.                                                     *)

\* The cloud: it accepts a gated command with a control token it knows, any
\* other one with the access token.
CloudAnswers(c) ==
  /\ At(c, "sent") /\ answer[c] = None
  /\ LET known == IF gated[c] /\ client # "CCI" THEN got[c] \in 1..MaxToken
                  ELSE ccs /\ (gated[c] => got[c] \in 1..MaxToken) IN
     \E a \in Answers :
       /\ a = "accepted" => known
       /\ a = "401" => ~ known
       /\ a = "device" => client # "CCI"
       /\ answer' = [answer EXCEPT ![c] = a]
       /\ effects' = [effects EXCEPT ![c] = IF a = "accepted" THEN @ + 1 ELSE @]
  /\ UNCHANGED <<client, cache, server, pc, gated, last, got, result, overlapped, revoked>>

\* The command's id.
CommandOk(c) ==
  /\ At(c, "sent") /\ answer[c] = "accepted"
  /\ Finish(c, "ok")
  /\ UNCHANGED <<client, cache, server, effects, revoked>>

Unauthorized(c) == At(c, "sent") /\ answer[c] = "401"

\* Mutant: the retry does not drop the cached token.
DropTokenNot(c) ==
  /\ Unauthorized(c) /\ client = "CCI" /\ gated[c] /\ ~ last[c]
  /\ SecondAttempt(c)
  /\ UNCHANGED <<client, cache, server, gated, result, history>>

\* First 401 of a gated GSPA command: _invalidate_control_token, one field ...
DropToken(c) ==
  /\ Unauthorized(c) /\ client = "CCI" /\ gated[c] /\ ~ last[c]
  /\ control' = None
  /\ Goto(c, "invalidate")
  /\ UNCHANGED <<client, fresh, server, gated, request, result, history>>

\* ... then the other, and the second attempt.
DropExpiry(c) ==
  /\ At(c, "invalidate")
  /\ fresh' = FALSE
  /\ SecondAttempt(c)
  /\ UNCHANGED <<client, control, server, gated, result, history>>

AuthenticationFails(c) ==
  /\ Unauthorized(c)
  /\ client = "CCI" => ~ gated[c] \/ last[c]
  /\ Finish(c, "auth")
  /\ UNCHANGED <<client, cache, server, effects, revoked>>

\* DeviceIDError: the device id is registered again and the method runs once
\* more, from its first statement.
RunAgain(c) ==
  /\ At(c, "sent") /\ answer[c] = "device" /\ ~ last[c]
  /\ SecondAttempt(c)
  /\ UNCHANGED <<client, cache, server, gated, result, history>>

\* Mutant: a command without a usable answer is sent again.
NoUsableAnswerRetried(c) ==
  /\ At(c, "sent") /\ ~ last[c]
  /\ SecondAttempt(c)
  /\ UNCHANGED <<client, cache, server, gated, result, history>>

\* A business or server error, a second rejection of the device id, an
\* unreadable body, a timeout - the command may have been accepted.
NoUsableAnswer(c) ==
  /\ At(c, "sent")
  /\ Finish(c, "raised")
  /\ UNCHANGED <<client, cache, server, effects, revoked>>

-----------------------------------------------------------------------------
(* The cloud and the clock.                                                 *)

\* The cloud stops accepting a control token.
CloudRevokes(i) ==
  LET Drop(x) == IF x = i THEN 0 ELSE x IN
  /\ i \in Referenced
  /\ control' = Drop(control)
  /\ got' = [c \in Calls |-> Drop(got[c])]
  /\ revoked' = IF client = "CCI" /\ revoked < 2 THEN revoked + 1 ELSE revoked
  /\ UNCHANGED <<client, fresh, server, pc, gated, last, answer, result, effects, overlapped>>

CloudUnlocksPin ==
  /\ remain = 0
  /\ remain' = PinTries
  /\ UNCHANGED <<client, cache, pinRight, ccs, pc, gated, request, result, history>>

ExpiryPasses ==
  /\ fresh
  /\ fresh' = FALSE
  /\ UNCHANGED <<client, control, server, pc, gated, request, result, history>>

-----------------------------------------------------------------------------

Thread(c) ==
  \/ Begin(c) \/ CommandRefused(c)
  \/ BearerHeaders(c) \/ CheckCache(c) \/ ReadCache(c)
  \/ PinMatched(c) \/ StoreExpiry(c) \/ PinRefused(c) \/ PinUnanswered(c)
  \/ HeadersFail(c)
  \/ CommandOk(c) \/ DropToken(c) \/ DropExpiry(c)
  \/ AuthenticationFails(c) \/ RunAgain(c) \/ NoUsableAnswer(c)

Next == \/ \E c \in Calls : Thread(c) \/ CloudAnswers(c)
        \/ \E i \in 1..MaxToken : CloudRevokes(i)
        \/ CloudUnlocksPin \/ ExpiryPasses

Spec == Init /\ [][Next]_vars

-----------------------------------------------------------------------------
(* Properties.                                                              *)

\* A control token the cloud has dropped, in the cache of a running CCI client
\* or of a restored Token, costs a command that runs alone nothing: it
\* verifies the PIN again and goes through.
SoloCommandRecovers ==
  client = "CCI" /\ ccs /\ revoked <= 1 =>
    \A c \in Calls : ~ overlapped[c] /\ Unauthorized(c) => ~ last[c]

\* A wrong PIN costs one of the few tries per command: the tries gone are no
\* more than the commands that raised a PIN error, or got no answer at all.
TriesAreReported ==
  PinTries - remain <= Cardinality({c \in Calls : result[c] \in {"pin", "raised"}})

CallPhase(c) ==
  CASE pc[c] = "idle" -> "idle"
    [] pc[c] = "done" /\ result[c] = "ok" -> "ok"
    [] pc[c] = "done" /\ result[c] # "ok" -> "failed"
    [] OTHER -> "pending"

Remote == INSTANCE RemoteCommand WITH
  phase <- [c \in Calls |-> CallPhase(c)], effects <- effects

\* The command the 401 path or the device-id wrapper repeats is one the cloud
\* has not acted on, so a command acts at most once and returns only if it
\* acted.
ActsAtMostOnce == Remote!Spec
=============================================================================
