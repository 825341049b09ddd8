------------------------------ MODULE CaCommand ------------------------------
(***************************************************************************)
(* Remote commands of the Canadian client (KiaUvoApiCA.py).                 *)
(*                                                                         *)
(* Every command writes the vehicle id into self.API_HEADERS - the one      *)
(* dictionary of the API object, not a copy - verifies the PIN in a first   *)
(* request (with headers of its own), writes the pAuth it got into the same *)
(* dictionary, and posts the command with whatever the dictionary holds     *)
(* then.  RetrySession sends a request again when the connection breaks,    *)
(* whether or not the cloud had already acted on it.                        *)
(*                                                                         *)
(* Of the headers the model keeps those a command writes and the cloud      *)
(* tells commands apart by: vehicleId, pAuth (as the vehicle whose PIN      *)
(* check granted it), transactionId (as the polling call it was written     *)
(* by).                                                                     *)
(***************************************************************************)
EXTENDS Naturals

CONSTANTS
  Calls,         \* the calls made by the worker threads
  Vehicles,      \* the vehicles of the account
  None,          \* no value
  MaxAttempts,   \* RetrySession(max_retries=4)
  MaxPolls,      \* bound: polls a synchronous check_action_status has time for
  PinBound       \* does the cloud accept a pAuth only for the vehicle it was granted for?

ASSUME CaAssumption ==
  /\ MaxAttempts \in Nat \ {0}
  /\ MaxPolls \in Nat
  /\ PinBound \in BOOLEAN
  /\ None \notin Calls \cup Vehicles

VARIABLES
  headers,       \* self.API_HEADERS, shared by all calls
  pc,            \* where each call is
  kind,          \* what each call does, as far as the code tells calls apart
  veh,           \* the vehicle each call was made for
  msg,           \* the POST of each call that is under way
  attempt,       \* RetrySession's attempt of that POST
  post,          \* check_action_status posts twice: which of the two it is in
  polls,         \* check_action_status: polls the time left allows; 0 unless synchronous
  sync,          \* check_action_status(synchronous=...)
  result,        \* what each call returned, or "raised"
  effects,       \* history: how often the cloud acted on each control call
  hit,           \* history: the vehicles it acted on
  lost,          \* history: answers lost after the cloud had seen the command
  answeredFor,   \* history: whose action a status answer was about
  overlapped     \* history: another call ran while this one did

args    == <<kind, veh, sync>>
local   == <<pc, msg, attempt, post, polls, result>>
history == <<effects, hit, lost, answeredFor, overlapped>>
vars    == <<headers, args, local, history>>

Kinds    == {"control", "climate", "status"}
PCs      == {"idle", "pin", "ready", "sent", "done"}
Results  == {"returned", "raised", "SUCCESS", "PENDING", "FAILED", "TIMEOUT"}
Headers  == [vid : Vehicles \cup {None}, pauth : Vehicles \cup {None}, txn : Calls \cup {None}]
\* at: has the cloud seen the message, and what did it make of it?
Message  == [h : Headers, at : {"travelling", "accepted", "rejected"}]
NoHeaders == [vid |-> None, pauth |-> None, txn |-> None]
NoMessage == [h |-> NoHeaders, at |-> "travelling"]

Active(c) == pc[c] \notin {"idle", "done"}

TypeOK ==
  /\ headers \in Headers
  /\ pc \in [Calls -> PCs]
  /\ kind \in [Calls -> Kinds \cup {None}]
  /\ veh \in [Calls -> Vehicles \cup {None}]
  /\ sync \in [Calls -> BOOLEAN]
  /\ msg \in [Calls -> Message]
  /\ attempt \in [Calls -> 0..MaxAttempts]
  /\ post \in [Calls -> 1..2]
  /\ polls \in [Calls -> 0..MaxPolls]
  /\ result \in [Calls -> Results \cup {None}]
  /\ effects \in [Calls -> Nat]
  /\ hit \in [Calls -> SUBSET (Vehicles \cup {None})]
  /\ lost \in [Calls -> Nat]
  /\ answeredFor \in [Calls -> Calls \cup {None}]
  /\ overlapped \in [Calls -> BOOLEAN]

Init ==
  /\ headers = NoHeaders
  /\ pc = [c \in Calls |-> "idle"]
  /\ kind = [c \in Calls |-> None]
  /\ veh = [c \in Calls |-> None]
  /\ sync = [c \in Calls |-> FALSE]
  /\ msg = [c \in Calls |-> NoMessage]
  /\ attempt = [c \in Calls |-> 0]
  /\ post = [c \in Calls |-> 1]
  /\ polls = [c \in Calls |-> 0]
  /\ result = [c \in Calls |-> None]
  /\ effects = [c \in Calls |-> 0]
  /\ hit = [c \in Calls |-> {}]
  /\ lost = [c \in Calls |-> 0]
  /\ answeredFor = [c \in Calls |-> None]
  /\ overlapped = [c \in Calls |-> FALSE]

\* A call ends; its local variables go.
Finish(c, r) ==
  /\ pc' = [pc EXCEPT ![c] = "done"]
  /\ result' = [result EXCEPT ![c] = r]
  /\ msg' = [msg EXCEPT ![c] = NoMessage]
  /\ attempt' = [attempt EXCEPT ![c] = 0]
  /\ post' = [post EXCEPT ![c] = 1]
  /\ polls' = [polls EXCEPT ![c] = 0]

-----------------------------------------------------------------------------
(* The body of every command up to its PIN request.                         *)

\* The calls that overlap once c starts.
Overlaps(c) == IF \E d \in Calls \ {c} : Active(d)
               THEN {c} \cup {d \in Calls : Active(d)} ELSE {}

Begin(c, k, v, s) ==
  /\ pc[c] = "idle"
  /\ pc' = [pc EXCEPT ![c] = "pin"]
  /\ kind' = [kind EXCEPT ![c] = k]
  /\ veh' = [veh EXCEPT ![c] = v]
  /\ sync' = [sync EXCEPT ![c] = s]
  /\ polls' = [polls EXCEPT ![c] = IF s THEN MaxPolls ELSE 0]
  /\ overlapped' = [d \in Calls |-> overlapped[d] \/ d \in Overlaps(c)]
  /\ UNCHANGED <<msg, attempt, post, result, effects, hit, lost, answeredFor>>

\* Mutant: the id is written once, as a default.
WriteVehicleOnce(v) ==
  headers' = [headers EXCEPT !.vid = IF @ = None THEN v ELSE @]

\* headers = self.API_HEADERS; headers["vehicleId"] = vehicle.id
WriteVehicle(v) == headers' = [headers EXCEPT !.vid = v]

lock_action(c, v)       == Begin(c, "control", v, FALSE) /\ WriteVehicle(v)
start_climate(c, v)     == Begin(c, "climate", v, FALSE) /\ WriteVehicle(v)
stop_climate(c, v)      == Begin(c, "control", v, FALSE) /\ WriteVehicle(v)
start_charge(c, v)      == Begin(c, "control", v, FALSE) /\ WriteVehicle(v)
stop_charge(c, v)       == Begin(c, "control", v, FALSE) /\ WriteVehicle(v)
set_charge_limits(c, v) == Begin(c, "control", v, FALSE) /\ WriteVehicle(v)

\* The same, and headers["transactionId"] = action_id, in each poll.
WriteAction(c, v) == headers' = [headers EXCEPT !.vid = v, !.txn = c]

check_action_status(c, v, s) == Begin(c, "status", v, s) /\ WriteAction(c, v)

\* _get_pin_token: its headers are a copy with the vehicle's own id, so the
\* pAuth is this vehicle's; it goes into the shared dictionary.
PinVerified(c) ==
  /\ pc[c] = "pin"
  /\ headers' = [headers EXCEPT !.pauth = veh[c]]
  /\ pc' = [pc EXCEPT ![c] = "ready"]
  /\ UNCHANGED <<args, msg, attempt, post, polls, result, history>>

\* No pAuth in the answer (KeyError), no connection, or - start_climate,
\* after the PIN - a temperature that is not in the vehicle's range.
PinFails(c) ==
  /\ pc[c] = "pin"
  /\ \/ UNCHANGED headers
     \/ kind[c] = "climate" /\ headers' = [headers EXCEPT !.pauth = veh[c]]
  /\ Finish(c, "raised")
  /\ UNCHANGED <<args, history>>

-----------------------------------------------------------------------------
(* RetrySession.post.                                                       *)

\* Mutant: the attempts are not counted.
SendUncounted(c) ==
  /\ pc[c] = "ready"
  /\ pc' = [pc EXCEPT ![c] = "sent"]
  /\ msg' = [msg EXCEPT ![c] = [h |-> headers, at |-> "travelling"]]
  /\ UNCHANGED <<headers, args, attempt, post, polls, result, history>>

\* Each attempt merges the shared dictionary anew.
Send(c) ==
  /\ pc[c] = "ready"
  /\ pc' = [pc EXCEPT ![c] = "sent"]
  /\ msg' = [msg EXCEPT ![c] = [h |-> headers, at |-> "travelling"]]
  /\ attempt' = [attempt EXCEPT ![c] = @ + 1]
  /\ UNCHANGED <<headers, args, post, polls, result, history>>

\* An answer is lost if the cloud had seen the command when the connection broke.
CountLost(c) == lost' = [lost EXCEPT ![c] =
  IF kind[c] # "status" /\ msg[c].at # "travelling" THEN @ + 1 ELSE @]

\* Mutant: an off-by-one in the retry bound.
ConnectionErrorOnceMore(c) ==
  /\ pc[c] = "sent"
  /\ CountLost(c)
  /\ \/ /\ attempt[c] <= MaxAttempts
        /\ pc' = [pc EXCEPT ![c] = "ready"]
        /\ msg' = [msg EXCEPT ![c] = NoMessage]
        /\ UNCHANGED <<attempt, post, polls, result>>
     \/ attempt[c] > MaxAttempts /\ Finish(c, "raised")
  /\ UNCHANGED <<headers, args, effects, hit, answeredFor, overlapped>>

\* The connection breaks, before or after the cloud saw the request.
ConnectionError(c) ==
  /\ pc[c] = "sent"
  /\ CountLost(c)
  /\ \/ /\ attempt[c] < MaxAttempts
        /\ pc' = [pc EXCEPT ![c] = "ready"]
        /\ msg' = [msg EXCEPT ![c] = NoMessage]
        /\ UNCHANGED <<attempt, post, polls, result>>
     \/ attempt[c] = MaxAttempts /\ Finish(c, "raised")
  /\ UNCHANGED <<headers, args, effects, hit, answeredFor, overlapped>>

\* Mutant: every error of a request is retried, an unreadable answer included.
OtherRequestErrorRetried(c) ==
  /\ pc[c] = "sent"
  /\ attempt[c] < MaxAttempts
  /\ pc' = [pc EXCEPT ![c] = "ready"]
  /\ msg' = [msg EXCEPT ![c] = NoMessage]
  /\ UNCHANGED <<headers, args, attempt, post, polls, result, history>>

\* Every other RequestException is raised at once.
OtherRequestError(c) ==
  /\ pc[c] = "sent"
  /\ Finish(c, "raised")
  /\ UNCHANGED <<headers, args, history>>

-----------------------------------------------------------------------------
(* The cloud, as the client's code presents it: it acts for the vehicle     *)
(* named in the headers, given a pAuth, which may have to be this vehicle's. *)

CloudReceives(c) ==
  /\ pc[c] = "sent"
  /\ msg[c].at = "travelling"
  /\ \/ /\ PinBound => msg[c].h.vid = msg[c].h.pauth
        /\ msg' = [msg EXCEPT ![c] = [h |-> msg[c].h, at |-> "accepted"]]
        /\ \/ /\ kind[c] # "status"
              /\ effects' = [effects EXCEPT ![c] = @ + 1]
              /\ hit' = [hit EXCEPT ![c] = @ \cup {msg[c].h.vid}]
           \/ kind[c] = "status" /\ UNCHANGED <<effects, hit>>
     \/ /\ msg' = [msg EXCEPT ![c] = [h |-> msg[c].h, at |-> "rejected"]]
        /\ UNCHANGED <<effects, hit>>
  /\ UNCHANGED <<headers, args, pc, attempt, post, polls, result, lost, answeredFor, overlapped>>

-----------------------------------------------------------------------------
(* What the commands make of the answer.                                    *)

\* A control method returns the transactionId header of the answer, whatever
\* the answer says; without that header it raises KeyError.
ControlReturns(c) ==
  /\ pc[c] = "sent"
  /\ kind[c] # "status"
  /\ msg[c].at # "travelling"
  /\ \E r \in {"returned", "raised"} : Finish(c, r)
  /\ UNCHANGED <<headers, args, history>>

\* The answer to the first of the two posts is thrown away.
FirstStatusPost(c) ==
  /\ pc[c] = "sent"
  /\ kind[c] = "status"
  /\ msg[c].at # "travelling"
  /\ post[c] = 1
  /\ post' = [post EXCEPT ![c] = 2]
  /\ pc' = [pc EXCEPT ![c] = "ready"]
  /\ attempt' = [attempt EXCEPT ![c] = 0]
  /\ msg' = [msg EXCEPT ![c] = NoMessage]
  /\ UNCHANGED <<headers, args, polls, result, history>>

SecondStatusPost(c) ==
  /\ pc[c] = "sent"
  /\ kind[c] = "status"
  /\ post[c] = 2

\* responseCode 1 and unknown apiResults are FAILED; a shape it does not
\* know raises InvalidAPIResponseError.
StatusUnusable(c) ==
  /\ SecondStatusPost(c)
  /\ msg[c].at = "rejected"
  /\ \E r \in {"FAILED", "raised"} : Finish(c, r)
  /\ UNCHANGED <<headers, args, history>>

\* apiResult C, or anything but C and P, of the action the header named.
StatusFinal(c) ==
  /\ SecondStatusPost(c)
  /\ msg[c].at = "accepted"
  /\ \E r \in {"SUCCESS", "FAILED"} : Finish(c, r)
  /\ answeredFor' = [answeredFor EXCEPT ![c] = msg[c].h.txn]
  /\ UNCHANGED <<headers, args, effects, hit, lost, overlapped>>

\* apiResult P and no time left (TIMEOUT), or not synchronous (PENDING).
StatusGivesUp(c) ==
  /\ SecondStatusPost(c)
  /\ msg[c].at = "accepted"
  /\ polls[c] = 0
  /\ Finish(c, IF sync[c] THEN "TIMEOUT" ELSE "PENDING")
  /\ UNCHANGED <<headers, args, history>>

\* apiResult P: sleep and poll again with the time that is left; the new
\* poll writes its headers again.
StatusPending(c) ==
  /\ SecondStatusPost(c)
  /\ msg[c].at = "accepted"
  /\ polls[c] > 0
  /\ polls' = [polls EXCEPT ![c] = @ - 1]
  /\ WriteAction(c, veh[c])
  /\ pc' = [pc EXCEPT ![c] = "pin"]
  /\ attempt' = [attempt EXCEPT ![c] = 0]
  /\ post' = [post EXCEPT ![c] = 1]
  /\ msg' = [msg EXCEPT ![c] = NoMessage]
  /\ UNCHANGED <<args, result, history>>

-----------------------------------------------------------------------------

Start(c) == \E v \in Vehicles :
  \/ lock_action(c, v) \/ start_climate(c, v) \/ stop_climate(c, v)
  \/ start_charge(c, v) \/ stop_charge(c, v) \/ set_charge_limits(c, v)
  \/ \E s \in BOOLEAN : check_action_status(c, v, s)

Thread(c) ==
  \/ PinVerified(c) \/ PinFails(c) \/ Send(c)
  \/ ControlReturns(c) \/ FirstStatusPost(c)
  \/ StatusUnusable(c) \/ StatusFinal(c) \/ StatusGivesUp(c) \/ StatusPending(c)

Network(c) == ConnectionError(c) \/ OtherRequestError(c) \/ CloudReceives(c)

Next == \E c \in Calls : Start(c) \/ Thread(c) \/ Network(c)

Spec == Init /\ [][Next]_vars

\* Threads run on, and the network answers every request or breaks it.
\* RetrySession is a plain requests.Session without a timeout: the second
\* half is an assumption about the network that nothing in the code enforces.
AnsweringSpec ==
  Spec /\ \A c \in Calls : WF_vars(Thread(c)) /\ WF_vars(Network(c))

-----------------------------------------------------------------------------
(* Properties.                                                              *)

\* Whatever earlier calls left in the shared headers, a call that runs alone
\* acts on its own vehicle only: another vehicle can be hit, and another
\* action's status reported, only while two calls overlap.
MisdirectionNeedsOverlap ==
  \A c \in Calls : ~ overlapped[c] =>
    /\ hit[c] \subseteq {veh[c]}
    /\ answeredFor[c] \in {None, c}

\* A control command acts once more only after an answer to it was lost, and
\* never more often than RetrySession sends it.
RepeatNeedsLostAnswer ==
  \A c \in Calls : effects[c] <= 1 + lost[c] /\ effects[c] <= MaxAttempts

\* A call ends when the network answers, with bounded retries and polls.
CallsReturn == \A c \in Calls : pc[c] # "idle" ~> pc[c] = "done"

\* ApiImpl.lock_action and its siblings act on the vehicle they are given.
ActsOnItsVehicle == \A c \in Calls : hit[c] \subseteq {veh[c]}
=============================================================================
