---------------------------- MODULE RemoteCommand ----------------------------
(***************************************************************************)
(* What every remote-control method of the library promises its caller,    *)
(* whatever the cloud it talks to: one call makes the vehicle act at most   *)
(* once, and a call that returns normally did make it act.  A call that     *)
(* raises may or may not have taken effect (the answer can be lost), and    *)
(* the caller must not assume either.                                       *)
(*                                                                         *)
(* The session, device-id and control-token retries of the concrete APIs    *)
(* repeat requests; each is shown to implement this specification, or is    *)
(* shown not to.                                                            *)
(***************************************************************************)
EXTENDS Naturals

CONSTANT Calls      \* the control calls issued by the worker threads

VARIABLES
  phase,            \* where each call is in its life
  effects           \* how often the vehicle acted on each call

vars == <<phase, effects>>

Phases == {"idle", "pending", "ok", "failed"}

TypeOK ==
  /\ phase \in [Calls -> Phases]
  /\ effects \in [Calls -> 0..1]

Init ==
  /\ phase = [c \in Calls |-> "idle"]
  /\ effects = [c \in Calls |-> 0]

Begin(c) ==
  /\ phase[c] = "idle"
  /\ phase' = [phase EXCEPT ![c] = "pending"]
  /\ UNCHANGED effects

\* The cloud passes the command on to the vehicle.
Execute(c) ==
  /\ phase[c] = "pending"
  /\ effects[c] = 0
  /\ effects' = [effects EXCEPT ![c] = 1]
  /\ UNCHANGED phase

ReturnOk(c) ==
  /\ phase[c] = "pending"
  /\ effects[c] = 1
  /\ phase' = [phase EXCEPT ![c] = "ok"]
  /\ UNCHANGED effects

RaiseError(c) ==
  /\ phase[c] = "pending"
  /\ phase' = [phase EXCEPT ![c] = "failed"]
  /\ UNCHANGED effects

Next == \E c \in Calls : Begin(c) \/ Execute(c) \/ ReturnOk(c) \/ RaiseError(c)

Spec == Init /\ [][Next]_vars
=============================================================================
