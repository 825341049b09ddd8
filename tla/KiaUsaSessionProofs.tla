------------------------- MODULE KiaUsaSessionProofs -------------------------
(***************************************************************************)
(* Proofs about KiaUsaSession, for any set of calls, vehicles and tokens   *)
(* and any number of sessions.  The inductive invariant CallInv of every   *)
(* call ties its login and effect counters to the place it has reached; it *)
(* bounds logins, effects and steps.  SoloInv adds what a call that runs   *)
(* alone can rely on.                                                      *)
(***************************************************************************)
EXTENDS KiaUsaSession, TLAPS

Waiting(c) == rpc[c].st # "none"

\* The request record is reset when an answer is consumed, and a positive
\* answer to a login or a listing names a session.
RpcInv(c) ==
  /\ rpc[c].st = "none" => rpc[c] = NoRpc
  /\ pc[c] \in {"idle", "done"} => rpc[c].st = "none"
  /\ pc[c] \in LoginPCs \cup {"list"} /\ Answered(c, "ok") => rpc[c].new \in Sids

\* A wrapper is in its second attempt only where nothing starts a third.
AttemptInv(c) ==
  /\ attempt[c] = 2 => pc[c] \in {"command", "done"}
  /\ listing[c] = 2 => pc[c] \in {"list", "command", "done"}
  /\ pc[c] = "command" /\ attempt[c] = 1 => listing[c] = 1

\* What a call is follows from where it is.
KindInv(c) ==
  /\ pc[c] = "idle" <=> kind[c] = "none"
  /\ pc[c] \in {"command", "repairLogin"} => kind[c] \in {"plain", "keyed"}
  /\ pc[c] = "managerLogin" => kind[c] = "refresh"

\* The logins a call has made at each place.
LoginInv(c) ==
  /\ pc[c] = "idle" => logins[c] = 0
  /\ pc[c] = "command" /\ attempt[c] = 1 => logins[c] = 0
  /\ pc[c] \in {"repairLogin", "managerLogin"} =>
       logins[c] <= IF Waiting(c) THEN 1 ELSE 0
  /\ pc[c] = "list" /\ listing[c] = 1 => logins[c] <= 1
  /\ pc[c] = "listLogin" => logins[c] <= IF Waiting(c) THEN 2 ELSE 1
  /\ logins[c] <= 2

\* The cloud has acted on a call only if its answer is on the way and no
\* retry can follow, or the call is over.
EffectInv(c) ==
  /\ effects[c] \in 0..1
  /\ effects[c] = 1 =>
       \/ pc[c] = "command" /\ (Answered(c, "ok") \/ Answered(c, "fail"))
       \/ pc[c] = "done" /\ kind[c] # "refresh"
  /\ pc[c] = "command" /\ Answered(c, "ok") => effects[c] = 1
  /\ pc[c] = "done" /\ kind[c] # "refresh" /\ result[c] = "ok" => effects[c] = 1

CallInv(c) ==
  RpcInv(c) /\ AttemptInv(c) /\ KindInv(c) /\ LoginInv(c) /\ EffectInv(c)

IInv == TypeOK /\ \A c \in Calls : CallInv(c)

-----------------------------------------------------------------------------
(* Type correctness.                                                        *)

\* The messages the client and the cloud build are messages.
LEMMA MessageTypes ==
  /\ NoRpc.st = "none"
  /\ \A s, h, b \in 0..MaxSid, m \in BOOLEAN : Request(s, h, b, m) \in Requests
  /\ \A a \in Answers, n \in 0..MaxSid : Reply(a, n) \in Replies
BY DEF NoRpc, Requests, Replies, Request, Reply

LEMMA TypeStep ==
  ASSUME IInv, [Next]_vars
  PROVE  TypeOK'
<1>0. /\ \A c \in Calls : token[tok[c]].sid \in 0..MaxSid /\ key[veh[c]] \in 0..MaxSid
      /\ \A c \in Calls : attempt[c] # 1 => attempt[c] = 2
      /\ \A c \in Calls : listing[c] # 1 => listing[c] = 2
      /\ \A s \in live : s \in 0..MaxSid
  BY SessionAssumption DEF IInv, TypeOK, Sids
<1> USE DEF IInv, TypeOK, Sids, PCs, Kinds, Results
<1>1. ASSUME NEW c \in Calls, BeginCall(c) PROVE TypeOK'
  <2>1. \A k \in {"plain", "keyed"} :
          [body EXCEPT ![c] = IF k = "keyed" THEN key[veh[c]] ELSE 0] \in [Calls -> 0..MaxSid]
    BY <1>0, SessionAssumption
  <2>2. body' \in [Calls -> 0..MaxSid]
    BY <1>1, <2>1 DEF BeginCall
  <2>3. calm' \in [Calls -> BOOLEAN]
    BY <1>1 DEF BeginCall
  <2> QED
    BY <1>1, <2>2, <2>3 DEF BeginCall, cloud, shared
<1>2. ASSUME NEW c \in Calls, BeginRefresh(c) PROVE TypeOK'
  BY <1>2 DEF BeginRefresh, cloud, shared
<1>3. ASSUME NEW c \in Calls, SendCommand(c) PROVE TypeOK'
  <2>1. Request(token[tok[c]].sid, key[veh[c]], body[c], FALSE) \in Requests
    <3>1. body[c] \in 0..MaxSid
      OBVIOUS
    <3> QED
      BY <1>0, <3>1, MessageTypes
  <2> QED
    BY <1>3, <2>1 DEF SendCommand, cloud, shared, args, history
<1>4. ASSUME NEW c \in Calls, CommandOk(c) PROVE TypeOK'
  BY <1>4 DEF CommandOk, cloud, shared, args, history, Finish
<1>5. ASSUME NEW c \in Calls, CommandFails(c) PROVE TypeOK'
  BY <1>5 DEF CommandFails, cloud, shared, args, history, Finish
<1>6. ASSUME NEW c \in Calls, CommandRejected(c) PROVE TypeOK'
  BY <1>6 DEF CommandRejected, cloud, shared, args, history, Finish
<1>7. ASSUME NEW c \in Calls, SendLogin(c) PROVE TypeOK'
  <2>1. Request(0, 0, 0, token[tok[c]].rm) \in Requests
    BY MessageTypes, SessionAssumption
  <2> QED
    BY <1>7, <2>1 DEF SendLogin, cloud, shared, args
<1>8. ASSUME NEW c \in Calls, RepairLoginOk(c) PROVE TypeOK'
  <2>1. NewToken(c) \in [sid : Sids, rm : BOOLEAN]
    BY <1>8 DEF RepairLoginOk, NewToken, CallInv, RpcInv, LoginPCs
  <2>2. pc[c] = "listLogin" => listing[c] = 1
    BY <1>0 DEF CallInv, AttemptInv
  <2> QED
    BY <1>8, <2>1, <2>2 DEF RepairLoginOk, cloud, args, history
<1>9. ASSUME NEW c \in Calls, ManagerLoginOk(c) PROVE TypeOK'
  <2>1. NewToken(c) \in [sid : Sids, rm : BOOLEAN]
    BY <1>9 DEF ManagerLoginOk, NewToken, CallInv, RpcInv, LoginPCs
  <2> QED
    BY <1>9, <2>1 DEF ManagerLoginOk, cloud, history
<1>10. ASSUME NEW c \in Calls, LoginNeedsOtp(c) PROVE TypeOK'
  BY <1>10 DEF LoginNeedsOtp, cloud, shared, args, history, Finish
<1>11. ASSUME NEW c \in Calls, LoginFails(c) PROVE TypeOK'
  BY <1>11 DEF LoginFails, cloud, shared, args, history, Finish
<1>12. ASSUME NEW c \in Calls, SendList(c) PROVE TypeOK'
  <2>1. Request(token[tok[c]].sid, 0, 0, FALSE) \in Requests
    <3>1. 0 \in 0..MaxSid
      BY SessionAssumption
    <3> QED
      BY <1>0, <3>1, MessageTypes
  <2> QED
    BY <1>12, <2>1 DEF SendList, cloud, shared, args, history
<1>13. ASSUME NEW c \in Calls, ListOkRepair(c) PROVE TypeOK'
  <2>1. rpc[c].new \in Sids
    BY <1>13 DEF ListOkRepair, CallInv, RpcInv
  <2>2. attempt[c] = 1
    BY <1>0, <1>13 DEF ListOkRepair, CallInv, AttemptInv
  <2> QED
    BY <1>13, <2>1, <2>2, SessionAssumption DEF ListOkRepair, cloud, args, history
<1>14. ASSUME NEW c \in Calls, ListOkManager(c) PROVE TypeOK'
  BY <1>14 DEF ListOkManager, cloud, shared, args, history, Finish, CallInv, RpcInv
<1>15. ASSUME NEW c \in Calls, ListRejected(c) PROVE TypeOK'
  BY <1>15 DEF ListRejected, cloud, shared, args, history, Finish
<1>16. ASSUME NEW c \in Calls, ListFails(c) PROVE TypeOK'
  BY <1>16 DEF ListFails, cloud, shared, args, history, Finish
<1>17. ASSUME NEW c \in Calls, CloudCommand(c) PROVE TypeOK'
  <2>1. \E a \in Answers : rpc' = [rpc EXCEPT ![c] = Reply(a, 0)]
    BY <1>17 DEF CloudCommand, Answer, Answers
  <2>2. rpc' \in [Calls -> {NoRpc} \cup Requests \cup Replies]
    BY <2>1, MessageTypes, SessionAssumption
  <2>3. effects' \in [Calls -> Nat]
    BY <1>17 DEF CloudCommand
  <2>4. calm' \in [Calls -> BOOLEAN]
    BY <1>17 DEF CloudCommand
  <2> QED
    BY <1>17, <2>2, <2>3, <2>4 DEF CloudCommand, cloud, shared, args
<1>18. ASSUME NEW c \in Calls, CloudLogin(c) PROVE TypeOK'
  <2>1. \E a \in Answers, n \in 0..MaxSid : rpc' = [rpc EXCEPT ![c] = Reply(a, n)]
    BY <1>18, SessionAssumption DEF CloudLogin, Answer, Answers
  <2>2. rpc' \in [Calls -> {NoRpc} \cup Requests \cup Replies]
    BY <2>1, MessageTypes
  <2>3. live' \in SUBSET Sids /\ nextSid' \in 1..(MaxSid + 1)
    <3>1. CASE UNCHANGED <<live, nextSid>>
      BY <3>1
    <3>2. CASE /\ nextSid <= MaxSid
               /\ live' \in {live \cup {nextSid}, {nextSid}}
               /\ nextSid' = nextSid + 1
      BY <3>2, SessionAssumption
    <3> QED
      BY <1>18, <3>1, <3>2 DEF CloudLogin
  <2>4. calm' \in [Calls -> BOOLEAN]
    BY <1>18 DEF CloudLogin
  <2> QED
    BY <1>18, <2>2, <2>3, <2>4 DEF CloudLogin, shared, args
<1>19. ASSUME NEW c \in Calls, CloudList(c) PROVE TypeOK'
  <2>1. rpc[c].sid \in live => rpc[c].sid \in 0..MaxSid
    BY <1>0
  <2>2. \E a \in Answers, n \in 0..MaxSid : rpc' = [rpc EXCEPT ![c] = Reply(a, n)]
    BY <1>19, <2>1, SessionAssumption DEF CloudList, Answer, Answers
  <2>3. rpc' \in [Calls -> {NoRpc} \cup Requests \cup Replies]
    BY <2>2, MessageTypes
  <2>4. calm' \in [Calls -> BOOLEAN]
    BY <1>19 DEF CloudList
  <2> QED
    BY <1>19, <2>3, <2>4 DEF CloudList, cloud, shared, args
<1>20. CASE CloudExpiresSession
  BY <1>20 DEF CloudExpiresSession, Disturb, shared, args, locals
<1>21. CASE CloudExpiresRememberMe
  BY <1>21 DEF CloudExpiresRememberMe, Disturb, shared, args, locals
<1>22. CASE UNCHANGED vars
  BY <1>22 DEF vars, cloud, shared, args, locals, history
<1> QED
  BY <1>1, <1>2, <1>3, <1>4, <1>5, <1>6, <1>7, <1>8, <1>9, <1>10, <1>11, <1>12, <1>13, <1>14, <1>15, <1>16, <1>17, <1>18, <1>19, <1>20, <1>21, <1>22 DEF Next, Client, Cloud

-----------------------------------------------------------------------------
(* The invariant of a call is preserved.                                    *)

\* What CallInv(d) speaks of.
CallState(d) == <<pc[d], kind[d], attempt[d], listing[d], rpc[d], result[d],
                  effects[d], logins[d]>>

LEMMA CallFrame ==
  ASSUME NEW d \in Calls, CallInv(d), CallState(d)' = CallState(d)
  PROVE  CallInv(d)'
BY DEF CallInv, RpcInv, AttemptInv, KindInv, LoginInv, EffectInv, CallState, Waiting, Answered

LEMMA CallStep ==
  ASSUME IInv, [Next]_vars, NEW d \in Calls
  PROVE  CallInv(d)'
<1>0. TypeOK /\ CallInv(d)
  BY DEF IInv
<1> USE <1>0
<1>1. ASSUME NEW c \in Calls, BeginCall(c) PROVE CallInv(d)'
  <2>1. CASE d = c
    BY <1>1, <2>1, SessionAssumption DEF BeginCall, TypeOK, args, history, Waiting,
       CallInv, RpcInv, AttemptInv, KindInv, LoginInv, EffectInv, LoginPCs, NoRpc, Request, Reply,
       Answered
  <2>2. CASE d # c
    BY <1>1, <2>2, CallFrame DEF BeginCall, CallState, TypeOK, args, history
  <2> QED
    BY <2>1, <2>2
<1>2. ASSUME NEW c \in Calls, BeginRefresh(c) PROVE CallInv(d)'
  <2>1. CASE d = c
    BY <1>2, <2>1, SessionAssumption DEF BeginRefresh, TypeOK, args, history, Waiting,
       CallInv, RpcInv, AttemptInv, KindInv, LoginInv, EffectInv, LoginPCs, NoRpc, Request, Reply,
       Answered
  <2>2. CASE d # c
    BY <1>2, <2>2, CallFrame DEF BeginRefresh, CallState, TypeOK, args, history
  <2> QED
    BY <2>1, <2>2
<1>3. ASSUME NEW c \in Calls, SendCommand(c) PROVE CallInv(d)'
  <2>1. CASE d = c
    BY <1>3, <2>1, SessionAssumption DEF SendCommand, TypeOK, args, history, Waiting,
       CallInv, RpcInv, AttemptInv, KindInv, LoginInv, EffectInv, LoginPCs, NoRpc, Request, Reply,
       Answered
  <2>2. CASE d # c
    BY <1>3, <2>2, CallFrame DEF SendCommand, CallState, TypeOK, args, history
  <2> QED
    BY <2>1, <2>2
<1>4. ASSUME NEW c \in Calls, CommandOk(c) PROVE CallInv(d)'
  <2>1. CASE d = c
    BY <1>4, <2>1, SessionAssumption DEF CommandOk, Finish, TypeOK, args, history, Waiting,
       CallInv, RpcInv, AttemptInv, KindInv, LoginInv, EffectInv, LoginPCs, NoRpc, Request, Reply,
       Answered
  <2>2. CASE d # c
    BY <1>4, <2>2, CallFrame DEF CommandOk, Finish, CallState, TypeOK, args, history
  <2> QED
    BY <2>1, <2>2
<1>5. ASSUME NEW c \in Calls, CommandFails(c) PROVE CallInv(d)'
  <2>1. CASE d = c
    BY <1>5, <2>1, SessionAssumption DEF CommandFails, Finish, TypeOK, args, history, Waiting,
       CallInv, RpcInv, AttemptInv, KindInv, LoginInv, EffectInv, LoginPCs, NoRpc, Request, Reply,
       Answered
  <2>2. CASE d # c
    BY <1>5, <2>2, CallFrame DEF CommandFails, Finish, CallState, TypeOK, args, history
  <2> QED
    BY <2>1, <2>2
<1>6. ASSUME NEW c \in Calls, CommandRejected(c) PROVE CallInv(d)'
  <2>1. CASE d = c
    BY <1>6, <2>1, SessionAssumption DEF CommandRejected, Finish, TypeOK, args, history, Waiting,
       CallInv, RpcInv, AttemptInv, KindInv, LoginInv, EffectInv, LoginPCs, NoRpc, Request, Reply,
       Answered
  <2>2. CASE d # c
    BY <1>6, <2>2, CallFrame DEF CommandRejected, Finish, CallState, TypeOK, args, history
  <2> QED
    BY <2>1, <2>2
<1>7. ASSUME NEW c \in Calls, SendLogin(c) PROVE CallInv(d)'
  <2>1. CASE d = c
    BY <1>7, <2>1, SessionAssumption DEF SendLogin, TypeOK, args, history, Waiting,
       CallInv, RpcInv, AttemptInv, KindInv, LoginInv, EffectInv, LoginPCs, NoRpc, Request, Reply,
       Answered
  <2>2. CASE d # c
    BY <1>7, <2>2, CallFrame DEF SendLogin, CallState, TypeOK, args, history
  <2> QED
    BY <2>1, <2>2
<1>8. ASSUME NEW c \in Calls, RepairLoginOk(c) PROVE CallInv(d)'
  <2>1. CASE d = c
    BY <1>8, <2>1, SessionAssumption DEF RepairLoginOk, TypeOK, args, history, Waiting,
       CallInv, RpcInv, AttemptInv, KindInv, LoginInv, EffectInv, LoginPCs, NoRpc, Request, Reply,
       Answered
  <2>2. CASE d # c
    BY <1>8, <2>2, CallFrame DEF RepairLoginOk, CallState, TypeOK, args, history
  <2> QED
    BY <2>1, <2>2
<1>9. ASSUME NEW c \in Calls, ManagerLoginOk(c) PROVE CallInv(d)'
  <2>1. CASE d = c
    BY <1>9, <2>1, SessionAssumption DEF ManagerLoginOk, TypeOK, args, history, Waiting,
       CallInv, RpcInv, AttemptInv, KindInv, LoginInv, EffectInv, LoginPCs, NoRpc, Request, Reply,
       Answered
  <2>2. CASE d # c
    BY <1>9, <2>2, CallFrame DEF ManagerLoginOk, CallState, TypeOK, args, history
  <2> QED
    BY <2>1, <2>2
<1>10. ASSUME NEW c \in Calls, LoginNeedsOtp(c) PROVE CallInv(d)'
  <2>1. CASE d = c
    BY <1>10, <2>1, SessionAssumption DEF LoginNeedsOtp, Finish, TypeOK, args, history, Waiting,
       CallInv, RpcInv, AttemptInv, KindInv, LoginInv, EffectInv, LoginPCs, NoRpc, Request, Reply,
       Answered
  <2>2. CASE d # c
    BY <1>10, <2>2, CallFrame DEF LoginNeedsOtp, Finish, CallState, TypeOK, args, history
  <2> QED
    BY <2>1, <2>2
<1>11. ASSUME NEW c \in Calls, LoginFails(c) PROVE CallInv(d)'
  <2>1. CASE d = c
    BY <1>11, <2>1, SessionAssumption DEF LoginFails, Finish, TypeOK, args, history, Waiting,
       CallInv, RpcInv, AttemptInv, KindInv, LoginInv, EffectInv, LoginPCs, NoRpc, Request, Reply,
       Answered
  <2>2. CASE d # c
    BY <1>11, <2>2, CallFrame DEF LoginFails, Finish, CallState, TypeOK, args, history
  <2> QED
    BY <2>1, <2>2
<1>12. ASSUME NEW c \in Calls, SendList(c) PROVE CallInv(d)'
  <2>1. CASE d = c
    BY <1>12, <2>1, SessionAssumption DEF SendList, TypeOK, args, history, Waiting,
       CallInv, RpcInv, AttemptInv, KindInv, LoginInv, EffectInv, LoginPCs, NoRpc, Request, Reply,
       Answered
  <2>2. CASE d # c
    BY <1>12, <2>2, CallFrame DEF SendList, CallState, TypeOK, args, history
  <2> QED
    BY <2>1, <2>2
<1>13. ASSUME NEW c \in Calls, ListOkRepair(c) PROVE CallInv(d)'
  <2>1. CASE d = c
    BY <1>13, <2>1, SessionAssumption DEF ListOkRepair, TypeOK, Kinds, args, history, Waiting,
       CallInv, RpcInv, AttemptInv, KindInv, LoginInv, EffectInv, LoginPCs, NoRpc, Request, Reply,
       Answered
  <2>2. CASE d # c
    BY <1>13, <2>2, CallFrame DEF ListOkRepair, CallState, TypeOK, args, history
  <2> QED
    BY <2>1, <2>2
<1>14. ASSUME NEW c \in Calls, ListOkManager(c) PROVE CallInv(d)'
  <2>1. CASE d = c
    BY <1>14, <2>1, SessionAssumption DEF ListOkManager, Finish, TypeOK, args, history, Waiting,
       CallInv, RpcInv, AttemptInv, KindInv, LoginInv, EffectInv, LoginPCs, NoRpc, Request, Reply,
       Answered
  <2>2. CASE d # c
    BY <1>14, <2>2, CallFrame DEF ListOkManager, Finish, CallState, TypeOK, args, history
  <2> QED
    BY <2>1, <2>2
<1>15. ASSUME NEW c \in Calls, ListRejected(c) PROVE CallInv(d)'
  <2>1. CASE d = c
    BY <1>15, <2>1, SessionAssumption DEF ListRejected, Finish, TypeOK, args, history, Waiting,
       CallInv, RpcInv, AttemptInv, KindInv, LoginInv, EffectInv, LoginPCs, NoRpc, Request, Reply,
       Answered
  <2>2. CASE d # c
    BY <1>15, <2>2, CallFrame DEF ListRejected, Finish, CallState, TypeOK, args, history
  <2> QED
    BY <2>1, <2>2
<1>16. ASSUME NEW c \in Calls, ListFails(c) PROVE CallInv(d)'
  <2>1. CASE d = c
    BY <1>16, <2>1, SessionAssumption DEF ListFails, Finish, TypeOK, args, history, Waiting,
       CallInv, RpcInv, AttemptInv, KindInv, LoginInv, EffectInv, LoginPCs, NoRpc, Request, Reply,
       Answered
  <2>2. CASE d # c
    BY <1>16, <2>2, CallFrame DEF ListFails, Finish, CallState, TypeOK, args, history
  <2> QED
    BY <2>1, <2>2
<1>17. ASSUME NEW c \in Calls, CloudCommand(c) PROVE CallInv(d)'
  <2>1. CASE d = c
    BY <1>17, <2>1, SessionAssumption DEF CloudCommand, Answer, Arrived, TypeOK, args, history, Waiting,
       CallInv, RpcInv, AttemptInv, KindInv, LoginInv, EffectInv, LoginPCs, NoRpc, Request, Reply,
       Answered
  <2>2. CASE d # c
    BY <1>17, <2>2, CallFrame DEF CloudCommand, Answer, Arrived, CallState, TypeOK, args, history
  <2> QED
    BY <2>1, <2>2
<1>18. ASSUME NEW c \in Calls, CloudLogin(c) PROVE CallInv(d)'
  <2>1. CASE d = c
    BY <1>18, <2>1, SessionAssumption DEF CloudLogin, Answer, Arrived, Sids, TypeOK, args, history, Waiting,
       CallInv, RpcInv, AttemptInv, KindInv, LoginInv, EffectInv, LoginPCs, NoRpc, Request, Reply,
       Answered
  <2>2. CASE d # c
    BY <1>18, <2>2, CallFrame DEF CloudLogin, Answer, Arrived, CallState, TypeOK, args, history
  <2> QED
    BY <2>1, <2>2
<1>19. ASSUME NEW c \in Calls, CloudList(c) PROVE CallInv(d)'
  <2>1. CASE d = c
    <3>1. \E a \in Answers, n \in 0..MaxSid :
            /\ rpc' = [rpc EXCEPT ![c] = Reply(a, n)]
            /\ a = "ok" => n \in Sids
      <4>1. 0 \in 0..MaxSid /\ Sids \subseteq 0..MaxSid
        BY SessionAssumption DEF Sids
      <4>2. live \subseteq Sids
        BY DEF TypeOK
      <4> QED
        BY <1>19, <4>1, <4>2 DEF CloudList, Answer, Answers
    <3>2. /\ pc[c] = "list" /\ rpc[c].st = "sent"
          /\ UNCHANGED <<pc, kind, attempt, listing, result, effects, logins>>
      BY <1>19 DEF CloudList, Arrived, args
    <3>3. RpcInv(d)'
      BY <2>1, <3>1, <3>2 DEF RpcInv, CallInv, Reply, Answered, TypeOK
    <3> QED
      BY <2>1, <3>1, <3>2, <3>3 DEF CallInv, AttemptInv, KindInv, LoginInv, EffectInv, Reply,
         Answered, Waiting, TypeOK
  <2>2. CASE d # c
    BY <1>19, <2>2, CallFrame DEF CloudList, Answer, Arrived, Sids, CallState, TypeOK, args, history
  <2> QED
    BY <2>1, <2>2
<1>20. CASE CloudExpiresSession
  BY <1>20, CallFrame DEF CloudExpiresSession, CallState, args, locals
<1>21. CASE CloudExpiresRememberMe
  BY <1>21, CallFrame DEF CloudExpiresRememberMe, CallState, args, locals
<1>22. CASE UNCHANGED vars
  BY <1>22, CallFrame DEF vars, CallState, args, locals, history
<1> QED
  BY <1>1, <1>2, <1>3, <1>4, <1>5, <1>6, <1>7, <1>8, <1>9, <1>10, <1>11, <1>12, <1>13, <1>14, <1>15, <1>16, <1>17, <1>18, <1>19, <1>20, <1>21, <1>22 DEF Next, Client, Cloud

-----------------------------------------------------------------------------
(* The theorems.                                                            *)

LEMMA InitInv == Init => IInv
<1> SUFFICES ASSUME Init PROVE IInv
  OBVIOUS
<1>1. TypeOK
  BY SessionAssumption DEF Init, TypeOK, Sids, PCs, Kinds, Results, NoRpc
<1>2. \A c \in Calls : CallInv(c)
  BY DEF Init, CallInv, RpcInv, AttemptInv, KindInv, LoginInv, EffectInv, LoginPCs, NoRpc
<1> QED
  BY <1>1, <1>2 DEF IInv

LEMMA Inductive == Spec => []IInv
<1>1. IInv /\ [Next]_vars => IInv'
  BY TypeStep, CallStep DEF IInv
<1> QED
  BY InitInv, <1>1, PTL DEF Spec

\* Every variable keeps its type; in particular neither wrapper reaches a
\* third attempt, and no token or key is ever unset by a repair.
THEOREM TypeCorrect == Spec => []TypeOK
<1>1. IInv => TypeOK
  BY DEF IInv
<1> QED
  BY Inductive, <1>1, PTL

\* For any number of threads, vehicles and sessions, the nested repairs of
\* request_with_active_session and _retry_on_auth_error make at most two
\* logins on behalf of one call.
THEOREM LoginsAreBounded == Spec => []LoginBudget
<1>1. IInv => LoginBudget
  BY DEF IInv, CallInv, LoginInv, LoginBudget
<1> QED
  BY Inductive, <1>1, PTL

-----------------------------------------------------------------------------
(* A call that runs alone.                                                  *)

\* Every Token object of the client holds the remember-me token.
Remembered == \A o \in Tokens : token[o].rm

\* The session the call's Token object names.
Own(c) == token[tok[c]].sid

\* No answer but the rejection of a first attempt is a bad one.
CalmAnswer(c) ==
  rpc[c].st = "answered" =>
    \/ rpc[c].ans = "ok"
    \/ rpc[c].ans = "auth" /\ pc[c] = "command" /\ attempt[c] = 1

CalmLogin(c) ==
  pc[c] \in LoginPCs =>
    /\ rpc[c].st = "sent" => rpc[c].rm
    /\ rpc[c].st = "answered" => rpc[c].new \in live

\* A new session is listed with, which is why the listing is not rejected.
CalmList(c) ==
  pc[c] = "list" =>
    /\ Own(c) \in live
    /\ rpc[c].st = "sent" => rpc[c].sid = Own(c)
    /\ rpc[c].st = "answered" => rpc[c].new = Own(c)
    /\ kind[c] = "refresh" => tok[c] = cur

CalmRepeat(c) ==
  pc[c] = "command" /\ attempt[c] = 2 =>
    /\ Own(c) \in live
    /\ key[veh[c]] = Own(c) /\ body[c] \in {0, Own(c)}
    /\ rpc[c].st = "sent" => Accepts(rpc[c])

CalmEnd(c) ==
  pc[c] = "done" =>
    /\ result[c] = "ok"
    /\ kind[c] = "refresh" => token[cur].sid \in live /\ \A v \in Vehicles : key[v] = token[cur].sid

\* What holds of a call that nothing has happened to since it began.
CalmInv(c) ==
  /\ rmValid /\ \A d \in Calls \ {c} : ~ Active(d)
  /\ pc[c] \notin {"idle", "listLogin"}
  /\ CalmAnswer(c) /\ CalmLogin(c) /\ CalmList(c) /\ CalmRepeat(c) /\ CalmEnd(c)

SoloInv == Remembered /\ \A c \in Calls : calm[c] => CalmInv(c)

\* A step of a call is one of an active call.
LEMMA ActiveStep ==
  ASSUME NEW d \in Calls, Client(d) \/ Cloud(d)
  PROVE  Active(d)
BY DEF Client, Cloud, Active, SendCommand, CommandOk, CommandFails, CommandRejected,
       SendLogin, RepairLoginOk, ManagerLoginOk, LoginNeedsOtp, LoginFails, SendList,
       ListOkRepair, ListOkManager, ListRejected, ListFails, CloudCommand, CloudLogin,
       CloudList, Arrived, LoginPCs

\* The steps of a call keep the calm of every call, or end it.
LEMMA CalmNotGained ==
  ASSUME TypeOK, NEW d \in Calls, Client(d) \/ Cloud(d), NEW c \in Calls, calm'[c]
  PROVE  calm[c]
<1>1. CASE Client(d)
  BY <1>1 DEF Client, SendCommand, CommandOk, CommandFails, CommandRejected, SendLogin,
     RepairLoginOk, ManagerLoginOk, LoginNeedsOtp, LoginFails, SendList, ListOkRepair,
     ListOkManager, ListRejected, ListFails, history
<1>2. CASE Cloud(d)
  BY <1>2 DEF Cloud, CloudCommand, CloudLogin, CloudList, TypeOK
<1> QED
  BY <1>1, <1>2

\* A call that is calm has just begun, or was calm and made the step itself.
LEMMA CalmSource ==
  ASSUME TypeOK, SoloInv, [Next]_vars, NEW c \in Calls, calm'[c]
  PROVE  \/ BeginCall(c) \/ BeginRefresh(c)
         \/ /\ calm[c] /\ CalmInv(c)
            /\ UNCHANGED vars \/ Client(c) \/ Cloud(c)
<1>1. ASSUME NEW d \in Calls, BeginCall(d) \/ BeginRefresh(d)
      PROVE  d = c
  BY <1>1 DEF BeginCall, BeginRefresh
<1>2. ~ CloudExpiresSession /\ ~ CloudExpiresRememberMe
  BY DEF CloudExpiresSession, CloudExpiresRememberMe, Disturb
<1>3. ASSUME NEW d \in Calls, Client(d) \/ Cloud(d)
      PROVE  calm[c] /\ CalmInv(c) /\ d = c
  <2>1. calm[c] /\ CalmInv(c)
    BY <1>3, CalmNotGained DEF SoloInv
  <2> QED
    BY <1>3, <2>1, ActiveStep DEF CalmInv
<1>4. UNCHANGED vars => calm[c] /\ CalmInv(c)
  BY DEF vars, history, SoloInv
<1> QED
  BY <1>1, <1>2, <1>3, <1>4 DEF Next

LEMMA RememberedStep ==
  ASSUME TypeOK, Remembered, [Next]_vars
  PROVE  Remembered'
<1>1. ASSUME NEW c \in Calls, RepairLoginOk(c) \/ ManagerLoginOk(c)
      PROVE  Remembered'
  <2>1. NewToken(c).rm
    BY DEF NewToken, Remembered, TypeOK
  <2> QED
    BY <1>1, <2>1 DEF RepairLoginOk, ManagerLoginOk, Remembered, TypeOK
<1>2. CASE token' = token
  BY <1>2 DEF Remembered
<1>3. ASSUME NEW c \in Calls, BeginCall(c) \/ BeginRefresh(c) \/ Client(c) \/ Cloud(c),
             ~ (RepairLoginOk(c) \/ ManagerLoginOk(c))
      PROVE  token' = token
  BY <1>3 DEF BeginCall, BeginRefresh, Client, Cloud, SendCommand, CommandOk, CommandFails,
     CommandRejected, SendLogin, LoginNeedsOtp, LoginFails, SendList, ListOkRepair,
     ListOkManager, ListRejected, ListFails, CloudCommand, CloudLogin, CloudList, shared
<1>4. CASE UNCHANGED vars \/ CloudExpiresSession \/ CloudExpiresRememberMe
  BY <1>2, <1>4 DEF vars, CloudExpiresSession, CloudExpiresRememberMe, shared
<1> QED
  BY <1>1, <1>2, <1>3, <1>4 DEF Next

LEMMA CalmBegins ==
  ASSUME IInv, NEW c \in Calls, BeginCall(c) \/ BeginRefresh(c), calm'[c]
  PROVE  CalmInv(c)'
<1>1. /\ rmValid' = rmValid /\ rmValid /\ \A e \in Calls : ~ Active(e)
      /\ pc[c] = "idle" /\ pc' = [pc EXCEPT ![c] = pc'[c]] /\ pc'[c] \in {"command", "managerLogin"}
      /\ rpc' = rpc /\ attempt' = attempt /\ result' = result /\ listing' = listing
  BY DEF BeginCall, BeginRefresh, IInv, TypeOK, cloud
<1>2. \A d \in Calls \ {c} : ~ Active(d)'
  BY <1>1 DEF Active, IInv, TypeOK
<1>3. rpc[c].st = "none" /\ attempt[c] # 2
  BY <1>1 DEF IInv, CallInv, RpcInv, AttemptInv
<1> QED
  BY <1>1, <1>2, <1>3 DEF CalmInv, CalmAnswer, CalmLogin, CalmList, CalmRepeat, CalmEnd

\* The others rest, and so does the remember-me token.
LEMMA CalmFrame ==
  ASSUME IInv, NEW c \in Calls, CalmInv(c), Client(c) \/ Cloud(c)
  PROVE  rmValid' /\ \A d \in Calls \ {c} : ~ Active(d)'
<1>1. rmValid' = rmValid /\ \A d \in Calls \ {c} : pc'[d] = pc[d]
  BY DEF Client, Cloud, SendCommand, CommandOk, CommandFails, CommandRejected,
     SendLogin, RepairLoginOk, ManagerLoginOk, LoginNeedsOtp, LoginFails, SendList,
     ListOkRepair, ListOkManager, ListRejected, ListFails, CloudCommand, CloudLogin,
     CloudList, Finish, cloud, IInv, TypeOK
<1> QED
  BY <1>1 DEF CalmInv, Active

LEMMA CalmKept ==
  ASSUME IInv, Remembered, NEW c \in Calls, CalmInv(c), Client(c) \/ Cloud(c), calm'[c]
  PROVE  CalmInv(c)'
<1>0. /\ TypeOK /\ CallInv(c) /\ rmValid' /\ \A d \in Calls \ {c} : ~ Active(d)'
  BY CalmFrame DEF IInv
<1> USE <1>0
<1>1. CASE SendCommand(c)
  BY <1>1 DEF SendCommand, TypeOK, CallInv, RpcInv, AttemptInv, KindInv, CalmInv, CalmAnswer, CalmLogin,
     CalmList, CalmRepeat, CalmEnd, Own, Answered, Finish, Answer, Arrived, Accepts, NewToken,
     Request, Reply, NoRpc, LoginPCs, Remembered, cloud, shared, args, history
<1>2. CASE CommandOk(c)
  BY <1>2 DEF CommandOk, TypeOK, CallInv, RpcInv, AttemptInv, KindInv, CalmInv, CalmAnswer, CalmLogin,
     CalmList, CalmRepeat, CalmEnd, Own, Answered, Finish, Answer, Arrived, Accepts, NewToken,
     Request, Reply, NoRpc, LoginPCs, Remembered, cloud, shared, args, history
<1>3. CASE CommandFails(c)
  BY <1>3 DEF CommandFails, TypeOK, CallInv, RpcInv, AttemptInv, KindInv, CalmInv, CalmAnswer, CalmLogin,
     CalmList, CalmRepeat, CalmEnd, Own, Answered, Finish, Answer, Arrived, Accepts, NewToken,
     Request, Reply, NoRpc, LoginPCs, Remembered, cloud, shared, args, history
<1>4. CASE CommandRejected(c)
  BY <1>4 DEF CommandRejected, TypeOK, CallInv, RpcInv, AttemptInv, KindInv, CalmInv, CalmAnswer, CalmLogin,
     CalmList, CalmRepeat, CalmEnd, Own, Answered, Finish, Answer, Arrived, Accepts, NewToken,
     Request, Reply, NoRpc, LoginPCs, Remembered, cloud, shared, args, history
<1>5. CASE SendLogin(c)
  BY <1>5 DEF SendLogin, TypeOK, CallInv, RpcInv, AttemptInv, KindInv, CalmInv, CalmAnswer, CalmLogin,
     CalmList, CalmRepeat, CalmEnd, Own, Answered, Finish, Answer, Arrived, Accepts, NewToken,
     Request, Reply, NoRpc, LoginPCs, Remembered, cloud, shared, args, history
<1>6. CASE RepairLoginOk(c)
  BY <1>6 DEF RepairLoginOk, TypeOK, CallInv, RpcInv, AttemptInv, KindInv, CalmInv, CalmAnswer, CalmLogin,
     CalmList, CalmRepeat, CalmEnd, Own, Answered, Finish, Answer, Arrived, Accepts, NewToken,
     Request, Reply, NoRpc, LoginPCs, Remembered, cloud, shared, args, history
<1>7. CASE ManagerLoginOk(c)
  BY <1>7 DEF ManagerLoginOk, TypeOK, CallInv, RpcInv, AttemptInv, KindInv, CalmInv, CalmAnswer, CalmLogin,
     CalmList, CalmRepeat, CalmEnd, Own, Answered, Finish, Answer, Arrived, Accepts, NewToken,
     Request, Reply, NoRpc, LoginPCs, Remembered, cloud, shared, args, history
<1>8. CASE LoginNeedsOtp(c)
  BY <1>8 DEF LoginNeedsOtp, TypeOK, CallInv, RpcInv, AttemptInv, KindInv, CalmInv, CalmAnswer, CalmLogin,
     CalmList, CalmRepeat, CalmEnd, Own, Answered, Finish, Answer, Arrived, Accepts, NewToken,
     Request, Reply, NoRpc, LoginPCs, Remembered, cloud, shared, args, history
<1>9. CASE LoginFails(c)
  BY <1>9 DEF LoginFails, TypeOK, CallInv, RpcInv, AttemptInv, KindInv, CalmInv, CalmAnswer, CalmLogin,
     CalmList, CalmRepeat, CalmEnd, Own, Answered, Finish, Answer, Arrived, Accepts, NewToken,
     Request, Reply, NoRpc, LoginPCs, Remembered, cloud, shared, args, history
<1>10. CASE SendList(c)
  BY <1>10 DEF SendList, TypeOK, CallInv, RpcInv, AttemptInv, KindInv, CalmInv, CalmAnswer, CalmLogin,
     CalmList, CalmRepeat, CalmEnd, Own, Answered, Finish, Answer, Arrived, Accepts, NewToken,
     Request, Reply, NoRpc, LoginPCs, Remembered, cloud, shared, args, history
<1>11. CASE ListOkRepair(c)
  BY <1>11 DEF ListOkRepair, TypeOK, CallInv, RpcInv, AttemptInv, KindInv, CalmInv, CalmAnswer, CalmLogin,
     CalmList, CalmRepeat, CalmEnd, Own, Answered, Finish, Answer, Arrived, Accepts, NewToken,
     Request, Reply, NoRpc, LoginPCs, Remembered, cloud, shared, args, history
<1>12. CASE ListOkManager(c)
  BY <1>12 DEF ListOkManager, TypeOK, CallInv, RpcInv, AttemptInv, KindInv, CalmInv, CalmAnswer, CalmLogin,
     CalmList, CalmRepeat, CalmEnd, Own, Answered, Finish, Answer, Arrived, Accepts, NewToken,
     Request, Reply, NoRpc, LoginPCs, Remembered, cloud, shared, args, history
<1>13. CASE ListRejected(c)
  BY <1>13 DEF ListRejected, TypeOK, CallInv, RpcInv, AttemptInv, KindInv, CalmInv, CalmAnswer, CalmLogin,
     CalmList, CalmRepeat, CalmEnd, Own, Answered, Finish, Answer, Arrived, Accepts, NewToken,
     Request, Reply, NoRpc, LoginPCs, Remembered, cloud, shared, args, history
<1>14. CASE ListFails(c)
  BY <1>14 DEF ListFails, TypeOK, CallInv, RpcInv, AttemptInv, KindInv, CalmInv, CalmAnswer, CalmLogin,
     CalmList, CalmRepeat, CalmEnd, Own, Answered, Finish, Answer, Arrived, Accepts, NewToken,
     Request, Reply, NoRpc, LoginPCs, Remembered, cloud, shared, args, history
<1>15. CASE CloudCommand(c)
  BY <1>15 DEF CloudCommand, TypeOK, CallInv, RpcInv, AttemptInv, KindInv, CalmInv, CalmAnswer, CalmLogin,
     CalmList, CalmRepeat, CalmEnd, Own, Answered, Finish, Answer, Arrived, Accepts, NewToken,
     Request, Reply, NoRpc, LoginPCs, Remembered, cloud, shared, args, history
<1>16. CASE CloudLogin(c)
  BY <1>16 DEF CloudLogin, TypeOK, CallInv, RpcInv, AttemptInv, KindInv, CalmInv, CalmAnswer, CalmLogin,
     CalmList, CalmRepeat, CalmEnd, Own, Answered, Finish, Answer, Arrived, Accepts, NewToken,
     Request, Reply, NoRpc, LoginPCs, Remembered, cloud, shared, args, history
<1>17. CASE CloudList(c)
  BY <1>17 DEF CloudList, TypeOK, CallInv, RpcInv, AttemptInv, KindInv, CalmInv, CalmAnswer, CalmLogin,
     CalmList, CalmRepeat, CalmEnd, Own, Answered, Finish, Answer, Arrived, Accepts, NewToken,
     Request, Reply, NoRpc, LoginPCs, Remembered, cloud, shared, args, history
<1> QED
  BY <1>1, <1>2, <1>3, <1>4, <1>5, <1>6, <1>7, <1>8, <1>9, <1>10, <1>11, <1>12, <1>13, <1>14, <1>15, <1>16, <1>17 DEF Client, Cloud

LEMMA SoloStep ==
  ASSUME IInv, SoloInv, [Next]_vars
  PROVE  SoloInv'
<1>1. Remembered'
  BY RememberedStep DEF IInv, SoloInv
<1>2. ASSUME NEW c \in Calls, calm'[c]
      PROVE  CalmInv(c)'
  <2>1. CASE BeginCall(c) \/ BeginRefresh(c)
    BY <1>2, <2>1, CalmBegins
  <2>2. CASE CalmInv(c) /\ (Client(c) \/ Cloud(c))
    BY <1>2, <2>2, CalmKept DEF SoloInv
  <2>3. CASE CalmInv(c) /\ UNCHANGED vars
    BY <2>3 DEF vars, cloud, shared, args, locals, CalmInv, CalmAnswer, CalmLogin, CalmList,
       CalmRepeat, CalmEnd, Own, Accepts, Active
  <2> QED
    BY <1>2, <2>1, <2>2, <2>3, CalmSource DEF IInv
<1> QED
  BY <1>1, <1>2 DEF SoloInv

LEMMA Solo == Spec => []SoloInv
<1>1. Init => SoloInv
  BY DEF Init, SoloInv, Remembered
<1>2. IInv /\ SoloInv /\ [Next]_vars => SoloInv'
  BY SoloStep
<1> QED
  BY Inductive, <1>1, <1>2, PTL DEF Spec

\* For any number of vehicles and earlier calls, whatever mixture of sessions
\* and keys they left behind: request_with_active_session heals it for a call
\* that runs alone, if the cloud takes the remember-me token and answers.
THEOREM SoloCallsSucceed == Spec => []SoloCallSucceeds
<1>1. SoloInv => SoloCallSucceeds
  BY DEF SoloInv, CalmInv, CalmEnd, SoloCallSucceeds
<1> QED
  BY Solo, <1>1, PTL

\* check_and_refresh_token, alone, ends with one session for the manager's
\* Token and the keys of all its vehicles, and the cloud accepts it.
THEOREM RefreshesRealign == Spec => []RefreshRealigns
<1>1. SoloInv => RefreshRealigns
  BY DEF SoloInv, CalmInv, CalmEnd, RefreshRealigns
<1> QED
  BY Solo, <1>1, PTL

\* The second attempt of an undisturbed repair is one the cloud accepts: the
\* wrapper renews the session, the header's key and the body's key together.
THEOREM RepairsSendOneSession == Spec => []RepairSendsOneSession
<1>1. SoloInv => RepairSendsOneSession
  BY DEF SoloInv, CalmInv, CalmRepeat, RepairSendsOneSession
<1> QED
  BY Solo, <1>1, PTL

-----------------------------------------------------------------------------
(* A call has a bounded number of steps.                                    *)

\* The requests that can still lie before a call: the command, the repair's
\* login and listing, the listing's own login and second try, the repeat.
RequestsLeft(c) ==
  CASE pc[c] = "idle" -> 7
    [] pc[c] = "command" -> IF attempt[c] = 1 THEN 6 ELSE 1
    [] pc[c] \in {"repairLogin", "managerLogin"} -> 5
    [] pc[c] = "list" -> IF listing[c] = 1 THEN 4 ELSE 2
    [] pc[c] = "listLogin" -> 3
    [] pc[c] = "done" -> 0

\* A request is built and sent, handled, and its answer processed.
StepsMade(c) == IF rpc[c].st = "none" THEN 0 ELSE IF rpc[c].st = "sent" THEN 1 ELSE 2

StepsLeft(c) == 3 * RequestsLeft(c) - StepsMade(c)

\* Every step is one of the cloud on its own, or takes one call nearer to its
\* end and leaves the others where they are.
OneCallAdvances ==
  \/ \E c \in Calls : /\ StepsLeft(c)' < StepsLeft(c)
                      /\ \A d \in Calls \ {c} : StepsLeft(d)' = StepsLeft(d)
  \/ UNCHANGED <<shared, args, locals>>

\* The places of a call and of its request are what counts.
LEMMA StepsLeftFrame ==
  ASSUME NEW d \in Calls, pc'[d] = pc[d], attempt'[d] = attempt[d],
         listing'[d] = listing[d], rpc'[d] = rpc[d]
  PROVE  StepsLeft(d)' = StepsLeft(d)
BY DEF StepsLeft, RequestsLeft, StepsMade

\* A step that keeps the place sends the request or brings its answer.
LEMMA RequestAdvances ==
  ASSUME TypeOK, NEW c \in Calls, UNCHANGED <<pc, attempt, listing>>,
         StepsMade(c)' = StepsMade(c) + 1
  PROVE  StepsLeft(c)' < StepsLeft(c)
<1>1. StepsMade(c) \in 0..2
  BY DEF StepsMade
<1>2. RequestsLeft(c)' = RequestsLeft(c) /\ RequestsLeft(c) \in 0..7
  BY DEF RequestsLeft, TypeOK, PCs
<1> QED
  BY <1>1, <1>2 DEF StepsLeft

\* A step that leaves the place leaves it for a later one.
LEMMA PlaceAdvances ==
  ASSUME NEW c \in Calls, RequestsLeft(c) \in 0..7, RequestsLeft(c)' \in 0..7,
         RequestsLeft(c)' < RequestsLeft(c), StepsMade(c)' = 0
  PROVE  StepsLeft(c)' < StepsLeft(c)
<1>1. StepsMade(c) \in 0..2
  BY DEF StepsMade
<1> QED
  BY <1>1 DEF StepsLeft

LEMMA RequestsLeftType ==
  ASSUME TypeOK, NEW c \in Calls
  PROVE  RequestsLeft(c) \in 0..7
BY DEF RequestsLeft, TypeOK, PCs

LEMMA StepAdvances ==
  ASSUME IInv, TypeOK', NEW c \in Calls,
         BeginCall(c) \/ BeginRefresh(c) \/ Client(c) \/ Cloud(c)
  PROVE  /\ StepsLeft(c)' < StepsLeft(c)
         /\ \A d \in Calls \ {c} : StepsLeft(d)' = StepsLeft(d)
<1> USE DEF IInv
<1>0. /\ TypeOK /\ AttemptInv(c) /\ RpcInv(c)
      /\ RequestsLeft(c) \in 0..7 /\ RequestsLeft(c)' \in 0..7
  <2>1. TypeOK /\ AttemptInv(c) /\ RpcInv(c)
    BY DEF CallInv
  <2>2. RequestsLeft(c)' \in 0..7
    BY DEF RequestsLeft, TypeOK, PCs
  <2> QED
    BY <2>1, <2>2, RequestsLeftType
<1>1. CASE SendCommand(c) \/ SendLogin(c) \/ SendList(c)
  <2>1. rpc[c].st = "none" /\ UNCHANGED <<pc, attempt, listing>>
    BY <1>1 DEF SendCommand, SendLogin, SendList
  <2>2. rpc'[c].st = "sent" /\ \A d \in Calls \ {c} : rpc'[d] = rpc[d]
    BY <1>0, <1>1 DEF SendCommand, SendLogin, SendList, Request, TypeOK
  <2>3. StepsLeft(c)' < StepsLeft(c)
    BY <1>0, <2>1, <2>2, RequestAdvances DEF StepsMade
  <2> QED
    BY <2>1, <2>2, <2>3, StepsLeftFrame
<1>2. CASE Cloud(c)
  <2>1. \E a, n : Answer(c, a, n)
    BY <1>2 DEF Cloud, CloudCommand, CloudLogin, CloudList
  <2>2. rpc[c].st = "sent" /\ UNCHANGED <<pc, attempt, listing>>
    BY <1>2 DEF Cloud, CloudCommand, CloudLogin, CloudList, Arrived
  <2>3. rpc'[c].st = "answered" /\ \A d \in Calls \ {c} : rpc'[d] = rpc[d]
    BY <1>0, <2>1 DEF TypeOK, Answer, Reply
  <2>4. StepsLeft(c)' < StepsLeft(c)
    BY <1>0, <2>2, <2>3, RequestAdvances DEF StepsMade
  <2> QED
    BY <2>2, <2>3, <2>4, StepsLeftFrame
<1>3. CASE BeginCall(c)
  <2>1. rpc'[c].st = "none" /\ \A d \in Calls \ {c} : StepsLeft(d)' = StepsLeft(d)
    BY <1>0, <1>3, StepsLeftFrame DEF BeginCall, TypeOK, RpcInv, NoRpc
  <2>2. RequestsLeft(c)' < RequestsLeft(c)
    BY <1>0, <1>3 DEF BeginCall, TypeOK, AttemptInv, RequestsLeft
  <2> QED
    BY <1>0, <2>1, <2>2, PlaceAdvances DEF StepsMade
<1>4. CASE BeginRefresh(c)
  <2>1. rpc'[c].st = "none" /\ \A d \in Calls \ {c} : StepsLeft(d)' = StepsLeft(d)
    BY <1>0, <1>4, StepsLeftFrame DEF BeginRefresh, TypeOK, RpcInv, NoRpc
  <2>2. RequestsLeft(c)' < RequestsLeft(c)
    BY <1>0, <1>4 DEF BeginRefresh, TypeOK, AttemptInv, RequestsLeft
  <2> QED
    BY <1>0, <2>1, <2>2, PlaceAdvances DEF StepsMade
<1>5. CASE CommandOk(c)
  <2>1. rpc'[c].st = "none" /\ \A d \in Calls \ {c} : StepsLeft(d)' = StepsLeft(d)
    BY <1>0, <1>5, StepsLeftFrame DEF CommandOk, Finish, TypeOK, RpcInv, NoRpc
  <2>2. RequestsLeft(c)' < RequestsLeft(c)
    BY <1>0, <1>5 DEF CommandOk, Finish, TypeOK, AttemptInv, RequestsLeft
  <2> QED
    BY <1>0, <2>1, <2>2, PlaceAdvances DEF StepsMade
<1>6. CASE CommandFails(c)
  <2>1. rpc'[c].st = "none" /\ \A d \in Calls \ {c} : StepsLeft(d)' = StepsLeft(d)
    BY <1>0, <1>6, StepsLeftFrame DEF CommandFails, Finish, TypeOK, RpcInv, NoRpc
  <2>2. RequestsLeft(c)' < RequestsLeft(c)
    BY <1>0, <1>6 DEF CommandFails, Finish, TypeOK, AttemptInv, RequestsLeft
  <2> QED
    BY <1>0, <2>1, <2>2, PlaceAdvances DEF StepsMade
<1>7. CASE CommandRejected(c)
  <2>1. rpc'[c].st = "none" /\ \A d \in Calls \ {c} : StepsLeft(d)' = StepsLeft(d)
    BY <1>0, <1>7, StepsLeftFrame DEF CommandRejected, Finish, TypeOK, RpcInv, NoRpc
  <2>2. RequestsLeft(c)' < RequestsLeft(c)
    BY <1>0, <1>7 DEF CommandRejected, Finish, TypeOK, AttemptInv, RequestsLeft
  <2> QED
    BY <1>0, <2>1, <2>2, PlaceAdvances DEF StepsMade
<1>8. CASE RepairLoginOk(c)
  <2>1. rpc'[c].st = "none" /\ \A d \in Calls \ {c} : StepsLeft(d)' = StepsLeft(d)
    BY <1>0, <1>8, StepsLeftFrame DEF RepairLoginOk, TypeOK, RpcInv, NoRpc
  <2>2. RequestsLeft(c)' < RequestsLeft(c)
    BY <1>0, <1>8 DEF RepairLoginOk, TypeOK, AttemptInv, RequestsLeft
  <2> QED
    BY <1>0, <2>1, <2>2, PlaceAdvances DEF StepsMade
<1>9. CASE ManagerLoginOk(c)
  <2>1. rpc'[c].st = "none" /\ \A d \in Calls \ {c} : StepsLeft(d)' = StepsLeft(d)
    BY <1>0, <1>9, StepsLeftFrame DEF ManagerLoginOk, TypeOK, RpcInv, NoRpc
  <2>2. RequestsLeft(c)' < RequestsLeft(c)
    BY <1>0, <1>9 DEF ManagerLoginOk, TypeOK, AttemptInv, RequestsLeft
  <2> QED
    BY <1>0, <2>1, <2>2, PlaceAdvances DEF StepsMade
<1>10. CASE LoginNeedsOtp(c)
  <2>1. rpc'[c].st = "none" /\ \A d \in Calls \ {c} : StepsLeft(d)' = StepsLeft(d)
    BY <1>0, <1>10, StepsLeftFrame DEF LoginNeedsOtp, Finish, LoginPCs, TypeOK, RpcInv, NoRpc
  <2>2. RequestsLeft(c)' < RequestsLeft(c)
    BY <1>0, <1>10 DEF LoginNeedsOtp, Finish, LoginPCs, TypeOK, AttemptInv, RequestsLeft
  <2> QED
    BY <1>0, <2>1, <2>2, PlaceAdvances DEF StepsMade
<1>11. CASE LoginFails(c)
  <2>1. rpc'[c].st = "none" /\ \A d \in Calls \ {c} : StepsLeft(d)' = StepsLeft(d)
    BY <1>0, <1>11, StepsLeftFrame DEF LoginFails, Finish, LoginPCs, TypeOK, RpcInv, NoRpc
  <2>2. RequestsLeft(c)' < RequestsLeft(c)
    BY <1>0, <1>11 DEF LoginFails, Finish, LoginPCs, TypeOK, AttemptInv, RequestsLeft
  <2> QED
    BY <1>0, <2>1, <2>2, PlaceAdvances DEF StepsMade
<1>12. CASE ListOkRepair(c)
  <2>1. rpc'[c].st = "none" /\ \A d \in Calls \ {c} : StepsLeft(d)' = StepsLeft(d)
    BY <1>0, <1>12, StepsLeftFrame DEF ListOkRepair, TypeOK, RpcInv, NoRpc
  <2>2. RequestsLeft(c)' < RequestsLeft(c)
    BY <1>0, <1>12 DEF ListOkRepair, TypeOK, AttemptInv, RequestsLeft
  <2> QED
    BY <1>0, <2>1, <2>2, PlaceAdvances DEF StepsMade
<1>13. CASE ListOkManager(c)
  <2>1. rpc'[c].st = "none" /\ \A d \in Calls \ {c} : StepsLeft(d)' = StepsLeft(d)
    BY <1>0, <1>13, StepsLeftFrame DEF ListOkManager, Finish, TypeOK, RpcInv, NoRpc
  <2>2. RequestsLeft(c)' < RequestsLeft(c)
    BY <1>0, <1>13 DEF ListOkManager, Finish, TypeOK, AttemptInv, RequestsLeft
  <2> QED
    BY <1>0, <2>1, <2>2, PlaceAdvances DEF StepsMade
<1>14. CASE ListRejected(c)
  <2>1. rpc'[c].st = "none" /\ \A d \in Calls \ {c} : StepsLeft(d)' = StepsLeft(d)
    BY <1>0, <1>14, StepsLeftFrame DEF ListRejected, Finish, TypeOK, RpcInv, NoRpc
  <2>2. RequestsLeft(c)' < RequestsLeft(c)
    BY <1>0, <1>14 DEF ListRejected, Finish, TypeOK, AttemptInv, RequestsLeft
  <2> QED
    BY <1>0, <2>1, <2>2, PlaceAdvances DEF StepsMade
<1>15. CASE ListFails(c)
  <2>1. rpc'[c].st = "none" /\ \A d \in Calls \ {c} : StepsLeft(d)' = StepsLeft(d)
    BY <1>0, <1>15, StepsLeftFrame DEF ListFails, Finish, TypeOK, RpcInv, NoRpc
  <2>2. RequestsLeft(c)' < RequestsLeft(c)
    BY <1>0, <1>15 DEF ListFails, Finish, TypeOK, AttemptInv, RequestsLeft
  <2> QED
    BY <1>0, <2>1, <2>2, PlaceAdvances DEF StepsMade
<1> QED
  BY <1>1, <1>2, <1>3, <1>4, <1>5, <1>6, <1>7, <1>8, <1>9, <1>10, <1>11, <1>12, <1>13, <1>14, <1>15 DEF Client

\* No call of request_with_active_session or of the token refresh makes more
\* than 21 steps, seven requests with three each, whatever the cloud answers
\* and the other threads do: every step of the system but the loss of a
\* session or of the remember-me token counts one call down.
THEOREM CallsAreShort ==
  Spec => [](\A c \in Calls : StepsLeft(c) \in 0..21) /\ [][OneCallAdvances]_vars
<1>1. IInv => \A c \in Calls : StepsLeft(c) \in 0..21
  <2> SUFFICES ASSUME IInv, NEW c \in Calls PROVE StepsLeft(c) \in 0..21
    OBVIOUS
  <2>1. TypeOK /\ RpcInv(c)
    BY DEF IInv, CallInv
  <2>2. RequestsLeft(c) \in 0..7 /\ (RequestsLeft(c) = 0 => StepsMade(c) = 0)
    BY <2>1 DEF RequestsLeft, StepsMade, RpcInv, TypeOK, PCs
  <2>3. StepsMade(c) \in 0..2
    BY DEF StepsMade
  <2> QED
    BY <2>2, <2>3 DEF StepsLeft
<1>2. IInv /\ [Next]_vars => [OneCallAdvances]_vars
  <2> SUFFICES ASSUME IInv, Next PROVE OneCallAdvances
    OBVIOUS
  <2>1. TypeOK'
    BY TypeStep
  <2>2. ASSUME NEW c \in Calls, BeginCall(c) \/ BeginRefresh(c) \/ Client(c) \/ Cloud(c)
        PROVE  OneCallAdvances
    BY <2>1, <2>2, StepAdvances DEF OneCallAdvances
  <2>3. CASE CloudExpiresSession \/ CloudExpiresRememberMe
    BY <2>3 DEF CloudExpiresSession, CloudExpiresRememberMe, OneCallAdvances
  <2> QED
    BY <2>2, <2>3 DEF Next
<1> QED
  BY Inductive, <1>1, <1>2, PTL DEF Spec

-----------------------------------------------------------------------------
(* The repair implements RemoteCommand.                                     *)

LEMMA InitRefines == Init => Command!Init
BY DEF Init, Command!Init, CallPhase

LEMMA OthersKeepPhase ==
  ASSUME NEW d \in Calls, pc'[d] = pc[d], kind'[d] = kind[d], result'[d] = result[d]
  PROVE  CallPhase(d)' = CallPhase(d)
BY DEF CallPhase

\* A call that moves between two places of its run stutters.
LEMMA MoveStutters ==
  ASSUME NEW c \in Calls, Active(c), Active(c)',
         \A d \in Calls \ {c} : pc'[d] = pc[d],
         UNCHANGED <<kind, result, effects>>
  PROVE  UNCHANGED Command!vars
<1>1. CallPhase(c)' = CallPhase(c)
  BY DEF CallPhase, Active
<1>2. \A d \in Calls : CallPhase(d)' = CallPhase(d)
  BY <1>1, OthersKeepPhase
<1> QED
  BY <1>2 DEF Command!vars

\* A call that ends returns or raises, and a token refresh stutters.
LEMMA FinishRefines ==
  ASSUME TypeOK, NEW c \in Calls, NEW r \in Results, CallInv(c), Active(c), Finish(c, r),
         UNCHANGED <<kind, effects>>,
         r = "ok" /\ kind[c] # "refresh" => effects[c] = 1
  PROVE  [Command!Next]_(Command!vars)
<1>1. \A d \in Calls \ {c} : CallPhase(d)' = CallPhase(d)
  BY OthersKeepPhase DEF Finish, TypeOK
<1>2. pc'[c] = "done" /\ result'[c] = r /\ kind'[c] = kind[c]
  BY DEF Finish, TypeOK
<1>3. kind[c] \in {"plain", "keyed", "refresh"}
  BY DEF CallInv, KindInv, Active, TypeOK, Kinds
<1>4. CASE kind[c] = "refresh"
  <2>1. CallPhase(c)' = CallPhase(c)
    BY <1>2, <1>4 DEF CallPhase
  <2> QED
    BY <1>1, <2>1 DEF Command!vars
<1>5. CASE kind[c] \in {"plain", "keyed"}
  <2>1. CallPhase(c) = "pending"
    BY <1>5 DEF CallPhase, Active
  <2>2. CallPhase(c)' = IF r = "ok" THEN "ok" ELSE "failed"
    BY <1>2, <1>5 DEF CallPhase
  <2>3. CASE r = "ok"
    <3>1. Command!ReturnOk(c)
      BY <1>1, <1>5, <2>1, <2>2, <2>3 DEF Command!ReturnOk
    <3> QED
      BY <3>1 DEF Command!Next
  <2>4. CASE r # "ok"
    <3>1. Command!RaiseError(c)
      BY <1>1, <2>1, <2>2, <2>4 DEF Command!RaiseError
    <3> QED
      BY <3>1 DEF Command!Next
  <2> QED
    BY <2>3, <2>4
<1> QED
  BY <1>3, <1>4, <1>5

LEMMA StepRefines ==
  ASSUME IInv, [Next]_vars
  PROVE  [Command!Next]_(Command!vars)
<1>0. TypeOK /\ \A c \in Calls : CallInv(c)
  BY DEF IInv
<1> USE <1>0
<1>1. ASSUME NEW c \in Calls, BeginCall(c) PROVE Command!Begin(c)
  <2>1. \A d \in Calls \ {c} : CallPhase(d)' = CallPhase(d)
    BY <1>1, OthersKeepPhase DEF BeginCall, TypeOK
  <2>2. CallPhase(c) = "idle"
    BY <1>1 DEF BeginCall, CallInv, KindInv, CallPhase
  <2>3. CallPhase(c)' = "pending"
    <3>1. kind'[c] \in {"plain", "keyed"} /\ pc'[c] = "command"
      BY <1>1 DEF BeginCall, TypeOK
    <3> QED
      BY <3>1 DEF CallPhase
  <2> QED
    BY <1>1, <2>1, <2>2, <2>3 DEF Command!Begin, BeginCall
<1>2. ASSUME NEW c \in Calls, BeginRefresh(c) PROVE UNCHANGED Command!vars
  <2>1. \A d \in Calls \ {c} : CallPhase(d)' = CallPhase(d)
    BY <1>2, OthersKeepPhase DEF BeginRefresh, TypeOK
  <2>2. kind[c] = "none" /\ kind'[c] = "refresh"
    BY <1>2 DEF BeginRefresh, CallInv, KindInv, TypeOK
  <2>3. CallPhase(c)' = CallPhase(c)
    BY <2>2 DEF CallPhase
  <2> QED
    BY <1>2, <2>1, <2>3 DEF Command!vars, BeginRefresh
<1>3. ASSUME NEW c \in Calls, SendCommand(c) PROVE UNCHANGED Command!vars
  BY <1>3, MoveStutters DEF SendCommand, Active, LoginPCs, TypeOK, args, history
<1>4. ASSUME NEW c \in Calls, SendLogin(c) PROVE UNCHANGED Command!vars
  BY <1>4, MoveStutters DEF SendLogin, Active, LoginPCs, TypeOK, args, history
<1>5. ASSUME NEW c \in Calls, RepairLoginOk(c) PROVE UNCHANGED Command!vars
  BY <1>5, MoveStutters DEF RepairLoginOk, Active, LoginPCs, TypeOK, args, history
<1>6. ASSUME NEW c \in Calls, ManagerLoginOk(c) PROVE UNCHANGED Command!vars
  BY <1>6, MoveStutters DEF ManagerLoginOk, Active, LoginPCs, TypeOK, args, history
<1>7. ASSUME NEW c \in Calls, SendList(c) PROVE UNCHANGED Command!vars
  BY <1>7, MoveStutters DEF SendList, Active, LoginPCs, TypeOK, args, history
<1>8. ASSUME NEW c \in Calls, ListOkRepair(c) PROVE UNCHANGED Command!vars
  BY <1>8, MoveStutters DEF ListOkRepair, Active, LoginPCs, TypeOK, args, history
<1>9. ASSUME NEW c \in Calls, CloudLogin(c) PROVE UNCHANGED Command!vars
  BY <1>9, MoveStutters DEF CloudLogin, Arrived, Active, LoginPCs, TypeOK, args, history
<1>10. ASSUME NEW c \in Calls, CloudList(c) PROVE UNCHANGED Command!vars
  BY <1>10, MoveStutters DEF CloudList, Arrived, Active, LoginPCs, TypeOK, args, history
<1>11. ASSUME NEW c \in Calls, CommandOk(c) PROVE [Command!Next]_(Command!vars)
  BY <1>11, FinishRefines DEF CommandOk, Active, Results, CallInv, EffectInv, args, history
<1>12. ASSUME NEW c \in Calls, CommandFails(c) PROVE [Command!Next]_(Command!vars)
  BY <1>12, FinishRefines DEF CommandFails, Active, Results, CallInv, EffectInv, args, history
<1>13. ASSUME NEW c \in Calls, LoginNeedsOtp(c) PROVE [Command!Next]_(Command!vars)
  <2>1. \E r \in Results \ {"ok"} : Finish(c, r)
    BY <1>13 DEF LoginNeedsOtp, Results
  <2> QED
    BY <1>13, <2>1, FinishRefines DEF LoginNeedsOtp, Active, LoginPCs, args, history
<1>14. ASSUME NEW c \in Calls, LoginFails(c) PROVE [Command!Next]_(Command!vars)
  <2>1. \E r \in Results \ {"ok"} : Finish(c, r)
    BY <1>14 DEF LoginFails, Results
  <2> QED
    BY <1>14, <2>1, FinishRefines DEF LoginFails, Active, LoginPCs, args, history
<1>15. ASSUME NEW c \in Calls, ListOkManager(c) PROVE [Command!Next]_(Command!vars)
  BY <1>15, FinishRefines DEF ListOkManager, Active, Results, CallInv, EffectInv, args, history
<1>16. ASSUME NEW c \in Calls, ListFails(c) PROVE [Command!Next]_(Command!vars)
  BY <1>16, FinishRefines DEF ListFails, Active, Results, CallInv, EffectInv, args, history
<1>17. ASSUME NEW c \in Calls, CommandRejected(c) PROVE [Command!Next]_(Command!vars)
  <2>1. CASE Finish(c, "auth")
    BY <1>17, <2>1, FinishRefines DEF CommandRejected, Active, Results, args, history
  <2>2. CASE ~ Finish(c, "auth")
    BY <1>17, <2>2, MoveStutters DEF CommandRejected, Active, TypeOK, args, history
  <2> QED
    BY <2>1, <2>2
<1>18. ASSUME NEW c \in Calls, ListRejected(c) PROVE [Command!Next]_(Command!vars)
  <2>1. CASE Finish(c, "auth")
    BY <1>18, <2>1, FinishRefines DEF ListRejected, Active, Results, args, history
  <2>2. CASE ~ Finish(c, "auth")
    BY <1>18, <2>2, MoveStutters DEF ListRejected, Active, TypeOK, args, history
  <2> QED
    BY <2>1, <2>2
<1>19. ASSUME NEW c \in Calls, CloudCommand(c) PROVE [Command!Next]_(Command!vars)
  <2>1. \A d \in Calls : CallPhase(d)' = CallPhase(d)
    BY <1>19, OthersKeepPhase DEF CloudCommand, args
  <2>2. CASE effects' = effects
    BY <2>1, <2>2 DEF Command!vars
  <2>3. CASE effects' = [effects EXCEPT ![c] = @ + 1]
    <3>1. pc[c] = "command" /\ rpc[c].st = "sent"
      BY <1>19 DEF CloudCommand, Arrived
    <3>2. effects[c] = 0 /\ CallPhase(c) = "pending"
      BY <3>1 DEF CallInv, EffectInv, KindInv, CallPhase, Answered
    <3>3. Command!Execute(c)
      BY <2>1, <2>3, <3>2 DEF Command!Execute, TypeOK
    <3> QED
      BY <3>3 DEF Command!Next
  <2> QED
    BY <1>19, <2>2, <2>3 DEF CloudCommand
<1>20. CASE CloudExpiresSession \/ CloudExpiresRememberMe \/ UNCHANGED vars
  <2>1. UNCHANGED <<pc, kind, result, effects>>
    BY <1>20 DEF CloudExpiresSession, CloudExpiresRememberMe, vars, args, locals, history
  <2> QED
    BY <2>1, OthersKeepPhase DEF Command!vars
<1> QED
  BY <1>1, <1>2, <1>3, <1>4, <1>5, <1>6, <1>7, <1>8, <1>9, <1>10, <1>11, <1>12, <1>13, <1>14, <1>15, <1>16, <1>17, <1>18, <1>19, <1>20 DEF Next, Client, Cloud, Command!Next

\* For every value of the constants, a call of this client acts at most once
\* however often its request is repeated, and a call that returns has acted.
THEOREM RepairActsAtMostOnce == Spec => ActsAtMostOnce
BY InitRefines, StepRefines, Inductive, PTL DEF Spec, ActsAtMostOnce, Command!Spec
=============================================================================
