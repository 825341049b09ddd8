--------------------------- MODULE CaCommandProofs ---------------------------
(***************************************************************************)
(* Proofs about CaCommand, for any number of calls, vehicles, attempts and *)
(* polls.  The inductive invariant says of every call how often the cloud  *)
(* can have acted on it at each place, and, while it runs alone, that the  *)
(* shared headers are the ones it wrote.  A rank bounds its steps.         *)
(***************************************************************************)
EXTENDS CaCommand, TLAPS

\* The attempts and the effects of a call at each place it can be.
Counted(c) ==
  /\ pc[c] \in {"idle", "pin"} => attempt[c] = 0
  /\ pc[c] = "ready" => attempt[c] < MaxAttempts
  /\ pc[c] = "sent" => attempt[c] >= 1
  /\ kind[c] = "status" => effects[c] = 0
  /\ pc[c] = "idle" => effects[c] = 0
  /\ effects[c] <= MaxAttempts
  /\ IF pc[c] = "done" THEN effects[c] <= lost[c] + 1
     ELSE IF pc[c] = "sent" /\ msg[c].at # "travelling"
     THEN effects[c] <= lost[c] + 1 /\ (kind[c] # "status" => effects[c] <= attempt[c])
     ELSE effects[c] <= lost[c] /\ (kind[c] # "status" => effects[c] <= attempt[c])
  /\ pc[c] = "sent" /\ msg[c].at = "travelling" /\ kind[c] # "status" =>
       effects[c] < attempt[c]

\* A call that runs alone finds in the shared headers what it put there.
Solo(c) ==
  /\ Active(c) /\ ~ overlapped[c] =>
       /\ \A d \in Calls \ {c} : ~ Active(d)
       /\ headers.vid = veh[c]
       /\ kind[c] = "status" => headers.txn = c
       /\ pc[c] = "sent" => msg[c].h.vid = veh[c]
       /\ pc[c] = "sent" /\ kind[c] = "status" => msg[c].h.txn = c
  /\ ~ overlapped[c] => hit[c] \subseteq {veh[c]} /\ answeredFor[c] \in {None, c}
  /\ pc[c] = "idle" => hit[c] = {} /\ answeredFor[c] = None

CallInv(c) == Counted(c) /\ Solo(c)

IInv == TypeOK /\ \A c \in Calls : CallInv(c)

-----------------------------------------------------------------------------
(* Type correctness.                                                        *)

LEMMA MessageTypes ==
  /\ NoHeaders \in Headers /\ NoMessage \in Message
  /\ \A h \in Headers, a \in {"travelling", "accepted", "rejected"} :
       [h |-> h, at |-> a] \in Message
  /\ \A m \in Message : m.h \in Headers /\ m.at \in {"travelling", "accepted", "rejected"}
BY DEF NoHeaders, NoMessage, Headers, Message

\* Writing one header leaves a dictionary of headers.
LEMMA HeaderTypes ==
  ASSUME NEW h \in Headers, NEW v \in Vehicles \cup {None}, NEW c \in Calls
  PROVE  /\ [h EXCEPT !.vid = v] \in Headers
         /\ [h EXCEPT !.pauth = v] \in Headers
         /\ [h EXCEPT !.vid = v, !.txn = c] \in Headers
         /\ h.vid \in Vehicles \cup {None} /\ h.txn \in Calls \cup {None}
BY DEF Headers

LEMMA FinishTypes ==
  ASSUME TypeOK, NEW c \in Calls, NEW r \in Results, Finish(c, r)
  PROVE  /\ pc' \in [Calls -> PCs] /\ msg' \in [Calls -> Message]
         /\ attempt' \in [Calls -> 0..MaxAttempts] /\ post' \in [Calls -> 1..2]
         /\ polls' \in [Calls -> 0..MaxPolls] /\ result' \in [Calls -> Results \cup {None}]
BY MessageTypes, CaAssumption DEF Finish, TypeOK, PCs

LEMMA BeginTypes ==
  ASSUME TypeOK, NEW c \in Calls, NEW k \in Kinds, NEW v \in Vehicles, NEW s \in BOOLEAN,
         Begin(c, k, v, s), headers' \in Headers
  PROVE  TypeOK'
<1>1. pc' \in [Calls -> PCs] /\ kind' \in [Calls -> Kinds \cup {None}]
      /\ veh' \in [Calls -> Vehicles \cup {None}]
  BY DEF Begin, TypeOK, PCs
<1>2. sync' \in [Calls -> BOOLEAN]
  BY DEF Begin, TypeOK
<1>3. polls' \in [Calls -> 0..MaxPolls]
  <2>1. (IF s THEN MaxPolls ELSE 0) \in 0..MaxPolls
    BY CaAssumption
  <2> QED
    BY <2>1 DEF Begin, TypeOK
<1>4. overlapped' \in [Calls -> BOOLEAN]
  BY Zenon DEF Begin, TypeOK
<1> QED
  BY <1>1, <1>2, <1>3, <1>4 DEF Begin, TypeOK

\* Every way to start a call is a Begin with well-typed headers.
LEMMA StartIsBegin ==
  ASSUME TypeOK, NEW c \in Calls, Start(c)
  PROVE  \E k \in Kinds, v \in Vehicles, s \in BOOLEAN :
           /\ Begin(c, k, v, s)
           /\ headers' \in Headers
           /\ headers'.vid = v
           /\ k = "status" => headers'.txn = c
<1>1. headers \in Headers
  BY DEF TypeOK
<1>2. \A v \in Vehicles : WriteVehicle(v) => headers' \in Headers /\ headers'.vid = v
  BY <1>1, HeaderTypes DEF WriteVehicle, Headers
<1>3. \A v \in Vehicles : WriteAction(c, v) =>
        headers' \in Headers /\ headers'.vid = v /\ headers'.txn = c
  <2> SUFFICES ASSUME NEW v \in Vehicles, WriteAction(c, v)
               PROVE  headers' \in Headers /\ headers'.vid = v /\ headers'.txn = c
    OBVIOUS
  <2>1. headers' \in Headers
    BY <1>1, HeaderTypes DEF WriteAction
  <2>2. headers'.vid = v /\ headers'.txn = c
    BY <1>1 DEF WriteAction, Headers
  <2> QED
    BY <2>1, <2>2
<1>4. PICK v \in Vehicles :
        \/ \E k \in {"control", "climate"} : Begin(c, k, v, FALSE) /\ WriteVehicle(v)
        \/ \E s \in BOOLEAN : Begin(c, "status", v, s) /\ WriteAction(c, v)
  BY DEF Start, lock_action, start_climate, stop_climate, start_charge, stop_charge,
         set_charge_limits, check_action_status
<1>5. CASE \E k \in {"control", "climate"} : Begin(c, k, v, FALSE) /\ WriteVehicle(v)
  BY <1>2, <1>5 DEF Kinds
<1>6. CASE \E s \in BOOLEAN : Begin(c, "status", v, s) /\ WriteAction(c, v)
  BY <1>3, <1>6 DEF Kinds
<1> QED
  BY <1>4, <1>5, <1>6

LEMMA TypeStep ==
  ASSUME IInv, [Next]_vars
  PROVE  TypeOK'
<1>0. TypeOK /\ \A c \in Calls : veh[c] \in Vehicles \cup {None} /\ msg[c] \in Message
  BY DEF IInv, TypeOK
<1>h. headers \in Headers
  BY <1>0 DEF TypeOK
<1>1. ASSUME NEW c \in Calls, Start(c) PROVE TypeOK'
  BY <1>0, <1>1, StartIsBegin, BeginTypes
<1>2. ASSUME NEW c \in Calls, PinVerified(c) PROVE TypeOK'
  BY <1>0, <1>h, <1>2, HeaderTypes DEF PinVerified, TypeOK, PCs, args, history
<1>3. ASSUME NEW c \in Calls, PinFails(c) PROVE TypeOK'
  <2>1. headers' \in Headers
    BY <1>0, <1>h, <1>3, HeaderTypes DEF PinFails
  <2> QED
    BY <1>0, <1>3, <2>1, FinishTypes DEF PinFails, TypeOK, Results, args, history
<1>4. ASSUME NEW c \in Calls, Send(c) PROVE TypeOK'
  <2>1. attempt[c] + 1 \in 0..MaxAttempts
    BY <1>0, <1>4, CaAssumption DEF Send, IInv, CallInv, Counted, TypeOK
  <2>2. msg' \in [Calls -> Message]
    BY <1>0, <1>h, <1>4, MessageTypes DEF Send, TypeOK
  <2> QED
    BY <1>0, <1>4, <2>1, <2>2 DEF Send, TypeOK, PCs, args, history
<1>5. ASSUME NEW c \in Calls, ConnectionError(c) PROVE TypeOK'
  <2>1. lost' \in [Calls -> Nat]
    BY <1>0, <1>5 DEF ConnectionError, CountLost, TypeOK
  <2>2. /\ pc' \in [Calls -> PCs] /\ msg' \in [Calls -> Message]
        /\ attempt' \in [Calls -> 0..MaxAttempts] /\ post' \in [Calls -> 1..2]
        /\ polls' \in [Calls -> 0..MaxPolls] /\ result' \in [Calls -> Results \cup {None}]
    <3>1. CASE Finish(c, "raised")
      BY <1>0, <3>1, FinishTypes DEF Results
    <3>2. CASE ~ Finish(c, "raised")
      <4>1. /\ pc' = [pc EXCEPT ![c] = "ready"] /\ msg' = [msg EXCEPT ![c] = NoMessage]
            /\ UNCHANGED <<attempt, post, polls, result>>
        BY <1>5, <3>2 DEF ConnectionError
      <4>2. NoMessage \in Message /\ "ready" \in PCs
        BY MessageTypes DEF PCs
      <4> QED
        BY <1>0, <4>1, <4>2 DEF TypeOK
    <3> QED
      BY <3>1, <3>2
  <2> QED
    BY <1>0, <1>5, <2>1, <2>2 DEF ConnectionError, TypeOK, args
<1>6. ASSUME NEW c \in Calls, OtherRequestError(c) PROVE TypeOK'
  BY <1>0, <1>6, FinishTypes DEF OtherRequestError, TypeOK, Results, args, history
<1>7. ASSUME NEW c \in Calls, CloudReceives(c) PROVE TypeOK'
  <2>1. msg' \in [Calls -> Message]
    <3>1. \A a \in {"accepted", "rejected"} : [h |-> msg[c].h, at |-> a] \in Message
      BY <1>0, MessageTypes
    <3>2. \E a \in {"accepted", "rejected"} : msg' = [msg EXCEPT ![c] = [h |-> msg[c].h, at |-> a]]
      BY <1>7 DEF CloudReceives
    <3> QED
      BY <1>0, <3>1, <3>2 DEF TypeOK
  <2>2. msg[c].h.vid \in Vehicles \cup {None}
    BY <1>0, MessageTypes, HeaderTypes
  <2>3. effects' \in [Calls -> Nat] /\ hit' \in [Calls -> SUBSET (Vehicles \cup {None})]
    BY <1>0, <1>7, <2>2 DEF CloudReceives, TypeOK
  <2> QED
    BY <1>0, <1>7, <2>1, <2>3 DEF CloudReceives, TypeOK, args
<1>8. ASSUME NEW c \in Calls, ControlReturns(c) PROVE TypeOK'
  BY <1>0, <1>8, FinishTypes DEF ControlReturns, TypeOK, Results, args, history
<1>9. ASSUME NEW c \in Calls, FirstStatusPost(c) PROVE TypeOK'
  BY <1>0, <1>9, MessageTypes, CaAssumption DEF FirstStatusPost, TypeOK, PCs, args, history
<1>10. ASSUME NEW c \in Calls, StatusUnusable(c) PROVE TypeOK'
  BY <1>0, <1>10, FinishTypes DEF StatusUnusable, TypeOK, Results, args, history
<1>11. ASSUME NEW c \in Calls, StatusFinal(c) PROVE TypeOK'
  <2>1. msg[c].h.txn \in Calls \cup {None}
    BY <1>0, MessageTypes, HeaderTypes
  <2> QED
    BY <1>0, <1>11, <2>1, FinishTypes DEF StatusFinal, TypeOK, Results, args
<1>12. ASSUME NEW c \in Calls, StatusGivesUp(c) PROVE TypeOK'
  BY <1>0, <1>12, FinishTypes DEF StatusGivesUp, TypeOK, Results, args, history
<1>13. ASSUME NEW c \in Calls, StatusPending(c) PROVE TypeOK'
  <2>1. headers' \in Headers
    BY <1>0, <1>h, <1>13, HeaderTypes DEF StatusPending, WriteAction
  <2>2. polls' \in [Calls -> 0..MaxPolls]
    BY <1>0, <1>13, CaAssumption DEF StatusPending, TypeOK
  <2> QED
    BY <1>0, <1>13, <2>1, <2>2, MessageTypes, CaAssumption
       DEF StatusPending, TypeOK, PCs, args, history
<1>14. CASE UNCHANGED vars
  BY <1>0, <1>14 DEF vars, args, local, history, TypeOK
<1> QED
  BY <1>1, <1>2, <1>3, <1>4, <1>5, <1>6, <1>7, <1>8, <1>9, <1>10, <1>11, <1>12, <1>13, <1>14
     DEF Next, Thread, Network

-----------------------------------------------------------------------------
(* One step keeps CallInv of every call.                                    *)

\* A step of c, once it runs, leaves the invariant of the other calls alone:
\* a call that runs alone would exclude c.
LEMMA Others ==
  ASSUME IInv, NEW c \in Calls, NEW d \in Calls \ {c}, Active(c),
         pc'[d] = pc[d], kind'[d] = kind[d], veh'[d] = veh[d], msg'[d] = msg[d],
         attempt'[d] = attempt[d], effects'[d] = effects[d], hit'[d] = hit[d],
         lost'[d] = lost[d], answeredFor'[d] = answeredFor[d],
         overlapped'[d] = overlapped[d]
  PROVE  CallInv(d)'
<1>1. Counted(d)'
  BY DEF IInv, CallInv, Counted
<1>2. Solo(d)'
  BY DEF IInv, CallInv, Solo, Active
<1> QED
  BY <1>1, <1>2 DEF CallInv

\* The start of a call: it is alone, or it and all it meets are marked.
LEMMA StartKeeps ==
  ASSUME IInv, NEW c \in Calls, Start(c), NEW d \in Calls
  PROVE  CallInv(d)'
<1>0. TypeOK
  BY DEF IInv
<1>1. PICK k \in Kinds, v \in Vehicles, s \in BOOLEAN :
        /\ Begin(c, k, v, s)
        /\ headers'.vid = v
        /\ k = "status" => headers'.txn = c
  BY <1>0, StartIsBegin
<1>2. CallInv(d)
  BY DEF IInv
<1>3. CASE d = c
  <2>1. pc'[c] = "pin" /\ kind'[c] = k /\ veh'[c] = v
    BY <1>0, <1>1 DEF Begin, TypeOK
  <2>2. Counted(c)'
    BY <1>0, <1>1, <1>2, <1>3, <2>1 DEF Begin, TypeOK, CallInv, Counted
  <2>3. ~ overlapped'[c] => \A e \in Calls \ {c} : ~ Active(e)'
    BY <1>0, <1>1 DEF Begin, Overlaps, TypeOK, Active
  <2>4. Solo(c)'
    BY <1>0, <1>1, <1>2, <1>3, <2>1, <2>3 DEF Begin, TypeOK, CallInv, Solo
  <2> QED
    BY <1>3, <2>2, <2>4 DEF CallInv
<1>4. CASE d # c
  <2>1. pc'[d] = pc[d] /\ kind'[d] = kind[d] /\ veh'[d] = veh[d]
    BY <1>0, <1>1, <1>4 DEF Begin, TypeOK
  <2>2. Counted(d)'
    BY <1>0, <1>1, <1>2, <2>1 DEF Begin, TypeOK, CallInv, Counted
  <2>3. Active(d) => overlapped'[d]
    BY <1>1, <1>4 DEF Begin, Overlaps
  <2>4. overlapped[d] => overlapped'[d]
    BY <1>1 DEF Begin
  <2>5. Solo(d)'
    BY <1>1, <1>2, <2>1, <2>3, <2>4 DEF Begin, CallInv, Solo, Active
  <2> QED
    BY <2>2, <2>5 DEF CallInv
<1> QED
  BY <1>3, <1>4

\* A call that has ended carries its effects and nothing else.
LEMMA FinishKeeps ==
  ASSUME TypeOK, NEW c \in Calls, NEW r \in Results, CallInv(c), Active(c), Finish(c, r),
         UNCHANGED <<args, effects, hit, overlapped>>,
         overlapped[c] \/ answeredFor'[c] \in {answeredFor[c], c},
         \/ lost'[c] = lost[c]
         \/ lost'[c] = lost[c] + 1
  PROVE  CallInv(c)'
<1>1. pc'[c] = "done" /\ effects'[c] = effects[c] /\ kind'[c] = kind[c] /\ veh'[c] = veh[c]
      /\ hit'[c] = hit[c] /\ overlapped'[c] = overlapped[c]
  BY DEF Finish, TypeOK, args
<1>2. effects[c] <= lost[c] + 1 /\ effects[c] \in Nat /\ lost[c] \in Nat
  BY DEF CallInv, Counted, Active, TypeOK
<1>3. Counted(c)'
  BY <1>1, <1>2 DEF CallInv, Counted
<1>4. Solo(c)'
  BY <1>1 DEF CallInv, Solo, Active
<1> QED
  BY <1>3, <1>4 DEF CallInv

LEMMA InvStep ==
  ASSUME IInv, [Next]_vars
  PROVE  IInv'
<1>0. TypeOK /\ TypeOK'
  BY TypeStep DEF IInv
<1>1. SUFFICES ASSUME NEW d \in Calls PROVE CallInv(d)'
  BY <1>0 DEF IInv
<1>2. CallInv(d)
  BY DEF IInv
<1>3. ASSUME NEW c \in Calls, Start(c) PROVE CallInv(d)'
  BY <1>3, StartKeeps
<1>4. ASSUME NEW c \in Calls, PinVerified(c) PROVE CallInv(d)'
  <2>1. CASE d # c
    BY <1>0, <1>4, <2>1, Others DEF PinVerified, TypeOK, Active, args, history
  <2>2. CASE d = c
    <3>1. Counted(d)'
      BY <1>0, <1>2, <1>4, <2>2, CaAssumption
         DEF PinVerified, TypeOK, CallInv, Counted, args, history
    <3>2. headers'.vid = headers.vid /\ headers'.txn = headers.txn
      BY <1>0, <1>4 DEF PinVerified, TypeOK, Headers
    <3>3. Solo(d)'
      BY <1>0, <1>2, <1>4, <2>2, <3>2
         DEF PinVerified, TypeOK, CallInv, Solo, Active, args, history
    <3> QED
      BY <3>1, <3>3 DEF CallInv
  <2> QED
    BY <2>1, <2>2
<1>5. ASSUME NEW c \in Calls, PinFails(c) PROVE CallInv(d)'
  <2>1. CASE d # c
    BY <1>0, <1>5, <2>1, Others DEF PinFails, Finish, TypeOK, Active, args, history
  <2>2. CASE d = c
    BY <1>0, <1>2, <1>5, <2>2, FinishKeeps DEF PinFails, Active, Results, history
  <2> QED
    BY <2>1, <2>2
<1>6. ASSUME NEW c \in Calls, Send(c) PROVE CallInv(d)'
  <2>1. CASE d # c
    BY <1>0, <1>6, <2>1, Others DEF Send, TypeOK, Active, args, history
  <2>2. CASE d = c
    <3>1. msg'[c] = [h |-> headers, at |-> "travelling"] /\ pc'[c] = "sent"
      BY <1>0, <1>6 DEF Send, TypeOK
    <3>2. Counted(d)'
      BY <1>0, <1>2, <1>6, <2>2, <3>1, CaAssumption
         DEF Send, TypeOK, CallInv, Counted, args, history
    <3>3. Solo(d)'
      BY <1>0, <1>2, <1>6, <2>2, <3>1
         DEF Send, TypeOK, CallInv, Solo, Active, args, history
    <3> QED
      BY <3>2, <3>3 DEF CallInv
  <2> QED
    BY <2>1, <2>2
<1>7. ASSUME NEW c \in Calls, ConnectionError(c) PROVE CallInv(d)'
  <2>1. CASE d # c
    BY <1>0, <1>7, <2>1, Others
       DEF ConnectionError, CountLost, Finish, TypeOK, Active, args
  <2>2. CASE d = c /\ Finish(c, "raised")
    BY <1>0, <1>2, <1>7, <2>2, FinishKeeps
       DEF ConnectionError, CountLost, TypeOK, Active, Results
  <2>3. CASE d = c /\ ~ Finish(c, "raised")
    <3>1. pc'[c] = "ready" /\ attempt' = attempt /\ attempt[c] < MaxAttempts
      BY <1>0, <1>7, <2>3 DEF ConnectionError, TypeOK
    <3>2. lost'[c] = IF kind[c] # "status" /\ msg[c].at # "travelling"
                     THEN lost[c] + 1 ELSE lost[c]
      BY <1>0, <1>7 DEF ConnectionError, CountLost, TypeOK
    <3>3. Counted(d)'
      BY <1>0, <1>2, <1>7, <2>3, <3>1, <3>2
         DEF ConnectionError, TypeOK, CallInv, Counted, args
    <3>4. Solo(d)'
      BY <1>0, <1>2, <1>7, <2>3, <3>1 DEF ConnectionError, TypeOK, CallInv, Solo, Active, args
    <3> QED
      BY <3>3, <3>4 DEF CallInv
  <2> QED
    BY <2>1, <2>2, <2>3
<1>8. ASSUME NEW c \in Calls, OtherRequestError(c) PROVE CallInv(d)'
  <2>1. CASE d # c
    BY <1>0, <1>8, <2>1, Others DEF OtherRequestError, Finish, TypeOK, Active, args, history
  <2>2. CASE d = c
    BY <1>0, <1>2, <1>8, <2>2, FinishKeeps DEF OtherRequestError, Active, Results, history
  <2> QED
    BY <2>1, <2>2
<1>9. ASSUME NEW c \in Calls, CloudReceives(c) PROVE CallInv(d)'
  <2>1. CASE d # c
    BY <1>0, <1>9, <2>1, Others DEF CloudReceives, TypeOK, Active, args
  <2>2. CASE d = c
    <3>1. PICK a \in {"accepted", "rejected"} : msg' = [msg EXCEPT ![c] = [h |-> msg[c].h, at |-> a]]
      BY <1>9 DEF CloudReceives
    <3>2. msg'[c].h = msg[c].h /\ msg'[c].at # "travelling"
      BY <1>0, <3>1 DEF TypeOK
    <3>3. Counted(d)'
      BY <1>0, <1>2, <1>9, <2>2, <3>2, CaAssumption
         DEF CloudReceives, TypeOK, CallInv, Counted, args
    <3>4. hit'[c] = hit[c] \/ hit'[c] = hit[c] \cup {msg[c].h.vid}
      BY <1>0, <1>9 DEF CloudReceives, TypeOK
    <3>5. Solo(d)'
      BY <1>0, <1>2, <1>9, <2>2, <3>2, <3>4
         DEF CloudReceives, TypeOK, CallInv, Solo, Active, args
    <3> QED
      BY <3>3, <3>5 DEF CallInv
  <2> QED
    BY <2>1, <2>2
<1>10. ASSUME NEW c \in Calls, ControlReturns(c) \/ StatusUnusable(c) \/ StatusGivesUp(c)
       PROVE CallInv(d)'
  <2>1. PICK r \in Results : Finish(c, r)
    BY <1>10 DEF ControlReturns, StatusUnusable, StatusGivesUp, Results
  <2>2. pc[c] = "sent" /\ UNCHANGED <<headers, args, history>>
    BY <1>10 DEF ControlReturns, StatusUnusable, StatusGivesUp, SecondStatusPost
  <2>3. CASE d # c
    BY <1>0, <2>1, <2>2, <2>3, Others DEF Finish, TypeOK, Active, args, history
  <2>4. CASE d = c
    BY <1>0, <1>2, <2>1, <2>2, <2>4, FinishKeeps DEF Active, history
  <2> QED
    BY <2>3, <2>4
<1>11. ASSUME NEW c \in Calls, FirstStatusPost(c) PROVE CallInv(d)'
  <2>1. CASE d # c
    BY <1>0, <1>11, <2>1, Others DEF FirstStatusPost, TypeOK, Active, args, history
  <2>2. CASE d = c
    <3>1. Counted(d)'
      BY <1>0, <1>2, <1>11, <2>2, CaAssumption
         DEF FirstStatusPost, TypeOK, CallInv, Counted, args, history
    <3>2. Solo(d)'
      BY <1>0, <1>2, <1>11, <2>2
         DEF FirstStatusPost, TypeOK, CallInv, Solo, Active, args, history
    <3> QED
      BY <3>1, <3>2 DEF CallInv
  <2> QED
    BY <2>1, <2>2
<1>12. ASSUME NEW c \in Calls, StatusFinal(c) PROVE CallInv(d)'
  <2>1. PICK r \in Results : Finish(c, r)
    BY <1>12 DEF StatusFinal, Results
  <2>2. CASE d # c
    BY <1>0, <1>12, <2>1, <2>2, Others
       DEF StatusFinal, SecondStatusPost, Finish, TypeOK, Active, args
  <2>3. CASE d = c
    <3>1. ~ overlapped[c] => answeredFor'[c] = c
      BY <1>0, <1>2, <1>12, <2>3
         DEF StatusFinal, SecondStatusPost, TypeOK, CallInv, Solo, Active
    <3> QED
      BY <1>0, <1>2, <1>12, <2>1, <2>3, <3>1, FinishKeeps
         DEF StatusFinal, SecondStatusPost, Active
  <2> QED
    BY <2>2, <2>3
<1>13. ASSUME NEW c \in Calls, StatusPending(c) PROVE CallInv(d)'
  <2>1. CASE d # c
    BY <1>0, <1>13, <2>1, Others
       DEF StatusPending, SecondStatusPost, TypeOK, Active, args, history
  <2>2. CASE d = c
    <3>1. Counted(d)'
      BY <1>0, <1>2, <1>13, <2>2
         DEF StatusPending, SecondStatusPost, TypeOK, CallInv, Counted, args, history
    <3>2. headers'.vid = veh[c] /\ headers'.txn = c
      BY <1>0, <1>13 DEF StatusPending, WriteAction, TypeOK, Headers
    <3>3. Solo(d)'
      BY <1>0, <1>2, <1>13, <2>2, <3>2
         DEF StatusPending, SecondStatusPost, TypeOK, CallInv, Solo, Active, args, history
    <3> QED
      BY <3>1, <3>3 DEF CallInv
  <2> QED
    BY <2>1, <2>2
<1>14. CASE UNCHANGED vars
  BY <1>2, <1>14 DEF vars, args, local, history, CallInv, Counted, Solo, Active
<1> QED
  BY <1>3, <1>4, <1>5, <1>6, <1>7, <1>8, <1>9, <1>10, <1>11, <1>12, <1>13, <1>14
     DEF Next, Thread, Network

LEMMA InvInit == Init => IInv
<1>1. Init => TypeOK
  BY MessageTypes, CaAssumption DEF Init, TypeOK, PCs
<1>2. ASSUME Init, NEW c \in Calls PROVE CallInv(c)
  <2>1. /\ pc[c] = "idle" /\ attempt[c] = 0 /\ effects[c] = 0 /\ lost[c] = 0
        /\ hit[c] = {} /\ answeredFor[c] = None
    BY <1>2 DEF Init
  <2> QED
    BY <2>1, CaAssumption DEF CallInv, Counted, Solo, Active
<1> QED
  BY <1>1, <1>2 DEF IInv

LEMMA Invariance == Spec => []IInv
<1>1. IInv /\ [Next]_vars => IInv'
  BY InvStep
<1> QED
  BY <1>1, InvInit, PTL DEF Spec

-----------------------------------------------------------------------------
(* The results.                                                             *)

\* The variables keep their types: in particular no attempt of RetrySession
\* exceeds max_retries.
THEOREM TypeCorrect == Spec => []TypeOK
<1>1. IInv => TypeOK
  BY DEF IInv
<1> QED
  BY <1>1, Invariance, PTL

\* In KiaUvoApiCA a command that runs alone reaches its own vehicle and a
\* status poll that runs alone reports its own action, whatever the calls
\* before it left in API_HEADERS.
THEOREM AloneIsNotMisdirected == Spec => []MisdirectionNeedsOverlap
<1>1. IInv => MisdirectionNeedsOverlap
  BY DEF IInv, CallInv, Solo, MisdirectionNeedsOverlap
<1> QED
  BY <1>1, Invariance, PTL

\* RetrySession repeats a command only after an answer to it was lost, and
\* at most max_retries - 1 times.
THEOREM RepeatsAreBounded == Spec => []RepeatNeedsLostAnswer
<1>1. IInv => RepeatNeedsLostAnswer
  <2>1. ASSUME IInv, NEW c \in Calls
        PROVE  effects[c] <= 1 + lost[c] /\ effects[c] <= MaxAttempts
    <3>1. effects[c] \in Nat /\ lost[c] \in Nat /\ Counted(c)
      BY <2>1 DEF IInv, TypeOK, CallInv
    <3> QED
      BY <3>1 DEF Counted
  <2> QED
    BY <2>1 DEF RepeatNeedsLostAnswer
<1> QED
  BY <1>1, Invariance, PTL

-----------------------------------------------------------------------------
(* A call has a bounded number of steps.                                    *)

\* What is left of one poll or command: the PIN, and for each attempt that
\* RetrySession may still make, its sending, the cloud and the answer.
AttemptSteps(c) ==
  3 * (MaxAttempts - attempt[c]) +
  (CASE pc[c] = "pin" -> 2
     [] pc[c] = "ready" -> 1
     [] pc[c] = "sent" -> IF msg[c].at = "travelling" THEN 3 ELSE 2
     [] OTHER -> 0)

\* A poll is two posts of MaxAttempts attempts.
PostSteps == 3 * MaxAttempts + 4
PollSteps == 2 * PostSteps

StepsLeft(c) ==
  IF pc[c] = "idle" THEN (MaxPolls + 1) * PollSteps
  ELSE IF pc[c] = "done" THEN 0
  ELSE polls[c] * PollSteps + (IF post[c] = 1 THEN PostSteps ELSE 0) + AttemptSteps(c)

\* Every step takes one call nearer to its end and leaves the others where
\* they are.
OneCallAdvances ==
  \E c \in Calls : /\ StepsLeft(c)' < StepsLeft(c)
                   /\ \A d \in Calls \ {c} : StepsLeft(d)' = StepsLeft(d)

LEMMA StepsLeftFrame ==
  ASSUME NEW d \in Calls, pc'[d] = pc[d], attempt'[d] = attempt[d], msg'[d] = msg[d],
         polls'[d] = polls[d], post'[d] = post[d]
  PROVE  StepsLeft(d)' = StepsLeft(d)
BY DEF StepsLeft, AttemptSteps, PostSteps, PollSteps

\* Products of polls, which the steps below only add and compare.
LEMMA PollProducts ==
  ASSUME NEW p \in 0..MaxPolls
  PROVE  /\ PollSteps \in Nat /\ PostSteps \in Nat /\ PollSteps = PostSteps + PostSteps
         /\ PostSteps = 3 * MaxAttempts + 4
         /\ p * PollSteps \in Nat /\ (MaxPolls + 1) * PollSteps \in Nat
         /\ p * PollSteps + PollSteps <= (MaxPolls + 1) * PollSteps
         /\ p > 0 => (p - 1) * PollSteps + PollSteps = p * PollSteps
<1>1. PostSteps \in Nat /\ PostSteps = 3 * MaxAttempts + 4
      /\ PollSteps \in Nat /\ PollSteps = PostSteps + PostSteps
  BY CaAssumption DEF PollSteps, PostSteps
<1>2. \A n \in Nat : (n + 1) * PollSteps = n * PollSteps + PollSteps /\ n * PollSteps \in Nat
  BY <1>1
<1>3. p \in Nat /\ MaxPolls \in Nat /\ MaxPolls - p \in Nat
  BY CaAssumption
<1>4. (MaxPolls - p) * PollSteps \in Nat /\ p * PollSteps \in Nat
  BY <1>1, <1>3
<1>5. MaxPolls * PollSteps = p * PollSteps + (MaxPolls - p) * PollSteps
  BY <1>1, <1>3
<1>6. p > 0 => (p - 1) * PollSteps + PollSteps = p * PollSteps
  BY <1>1, <1>3
<1> QED
  BY <1>1, <1>2, <1>3, <1>4, <1>5, <1>6

AttemptStepsRange ==
  \A c \in Calls : /\ AttemptSteps(c) \in 0..(PostSteps - 1)
                   /\ (Active(c) => AttemptSteps(c) >= 1)

LEMMA AttemptStepsBound == TypeOK => AttemptStepsRange
<1> SUFFICES ASSUME TypeOK, NEW c \in Calls
             PROVE  /\ AttemptSteps(c) \in 0..(PostSteps - 1)
                    /\ Active(c) => AttemptSteps(c) >= 1
  BY DEF AttemptStepsRange
<1> DEFINE left == MaxAttempts - attempt[c]
<1>1. left \in 0..MaxAttempts /\ pc[c] \in PCs /\ MaxAttempts \in Nat
  BY CaAssumption DEF TypeOK
<1>2. \E n \in 0..3 : AttemptSteps(c) = 3 * left + n /\ (Active(c) => n >= 1)
  BY <1>1 DEF AttemptSteps, PCs, Active
<1> HIDE DEF left
<1> QED
  BY <1>1, <1>2 DEF PostSteps

LEMMA AttemptStepsBoundNext == TypeOK' => AttemptStepsRange'
BY AttemptStepsBound, PTL

\* A call of which a smaller part of the same poll is left is nearer its end.
LEMMA PollAdvances ==
  ASSUME TypeOK, TypeOK', NEW c \in Calls, Active(c), Active(c)', polls'[c] = polls[c],
         \/ post'[c] = post[c] /\ AttemptSteps(c)' < AttemptSteps(c)
         \/ post[c] = 1 /\ post'[c] = 2
  PROVE  StepsLeft(c)' < StepsLeft(c)
<1>1. AttemptSteps(c) \in 0..(PostSteps - 1) /\ AttemptSteps(c) >= 1
  BY AttemptStepsBound DEF AttemptStepsRange
<1>2. AttemptSteps(c)' \in 0..(PostSteps - 1)
  BY AttemptStepsBoundNext DEF AttemptStepsRange, PostSteps
<1>3. polls[c] \in 0..MaxPolls
  BY DEF TypeOK
<1>4. polls[c] * PollSteps \in Nat /\ PostSteps \in Nat
  BY <1>3, PollProducts
<1>5. StepsLeft(c) = polls[c] * PollSteps + (IF post[c] = 1 THEN PostSteps ELSE 0) + AttemptSteps(c)
  BY DEF StepsLeft, Active
<1>6. StepsLeft(c)' = polls[c] * PollSteps + (IF post'[c] = 1 THEN PostSteps ELSE 0) + AttemptSteps(c)'
  BY DEF StepsLeft, Active, PollSteps, PostSteps
<1> HIDE DEF PostSteps
<1> QED
  BY <1>1, <1>2, <1>4, <1>5, <1>6

\* A call that ends, or goes on with a later poll.
LEMMA LaterPollAdvances ==
  ASSUME TypeOK, TypeOK', NEW c \in Calls, Active(c),
         pc'[c] = "done" \/ (Active(c)' /\ polls[c] > 0 /\ polls'[c] = polls[c] - 1)
  PROVE  StepsLeft(c)' < StepsLeft(c)
<1>1. AttemptSteps(c) \in 0..(PostSteps - 1) /\ AttemptSteps(c) >= 1
  BY AttemptStepsBound DEF AttemptStepsRange
<1>2. AttemptSteps(c)' \in 0..(PostSteps - 1)
  BY AttemptStepsBoundNext DEF AttemptStepsRange, PostSteps
<1>3. polls[c] \in 0..MaxPolls
  BY DEF TypeOK
<1>4. /\ polls[c] * PollSteps \in Nat /\ PostSteps \in Nat /\ PollSteps = PostSteps + PostSteps
      /\ polls[c] > 0 => (polls[c] - 1) * PollSteps + PollSteps = polls[c] * PollSteps
  BY <1>3, PollProducts
<1>5. StepsLeft(c) = polls[c] * PollSteps + (IF post[c] = 1 THEN PostSteps ELSE 0) + AttemptSteps(c)
  BY DEF StepsLeft, Active
<1>6. CASE pc'[c] = "done"
  BY <1>1, <1>4, <1>5, <1>6 DEF StepsLeft
<1>7. CASE Active(c)' /\ polls[c] > 0 /\ polls'[c] = polls[c] - 1
  <2>1. StepsLeft(c)' = (polls[c] - 1) * PollSteps + (IF post'[c] = 1 THEN PostSteps ELSE 0)
                        + AttemptSteps(c)'
    BY <1>7 DEF StepsLeft, Active, PollSteps, PostSteps
  <2>2. (polls[c] - 1) * PollSteps \in Nat
    <3>1. polls[c] - 1 \in 0..MaxPolls
      BY <1>3, <1>7, CaAssumption
    <3> QED
      BY <3>1, PollProducts
  <2> QED
    BY <1>1, <1>2, <1>4, <1>5, <1>7, <2>1, <2>2
<1> QED
  BY <1>6, <1>7

LEMMA StartAdvances ==
  ASSUME TypeOK, TypeOK', NEW c \in Calls, pc[c] = "idle", Active(c)'
  PROVE  StepsLeft(c)' < StepsLeft(c)
<1>1. AttemptSteps(c)' \in 0..(PostSteps - 1)
  BY AttemptStepsBoundNext DEF AttemptStepsRange, PostSteps
<1>2. polls'[c] \in 0..MaxPolls
  BY DEF TypeOK
<1>3. /\ polls'[c] * PollSteps \in Nat /\ PostSteps \in Nat /\ PollSteps = PostSteps + PostSteps
      /\ polls'[c] * PollSteps + PollSteps <= (MaxPolls + 1) * PollSteps
      /\ (MaxPolls + 1) * PollSteps \in Nat
  BY <1>2, PollProducts
<1>4. StepsLeft(c) = (MaxPolls + 1) * PollSteps
  BY DEF StepsLeft
<1>5. StepsLeft(c)' = polls'[c] * PollSteps + (IF post'[c] = 1 THEN PostSteps ELSE 0) + AttemptSteps(c)'
  BY DEF StepsLeft, Active, PollSteps, PostSteps
<1> QED
  BY <1>1, <1>3, <1>4, <1>5

LEMMA StepAdvances ==
  ASSUME IInv, TypeOK', NEW c \in Calls, Start(c) \/ Thread(c) \/ Network(c)
  PROVE  /\ StepsLeft(c)' < StepsLeft(c)
         /\ \A d \in Calls \ {c} : StepsLeft(d)' = StepsLeft(d)
<1>0. TypeOK /\ attempt[c] \in 0..MaxAttempts /\ MaxAttempts \in Nat
  BY CaAssumption DEF IInv, TypeOK
<1>1. CASE Start(c)
  <2>1. PICK k \in Kinds, v \in Vehicles, s \in BOOLEAN : Begin(c, k, v, s)
    BY <1>0, <1>1, StartIsBegin
  <2>2. pc[c] = "idle" /\ Active(c)'
    BY <1>0, <2>1 DEF Begin, TypeOK, Active
  <2>3. \A d \in Calls \ {c} : StepsLeft(d)' = StepsLeft(d)
    BY <1>0, <2>1, StepsLeftFrame DEF Begin, TypeOK
  <2> QED
    BY <1>0, <2>2, <2>3, StartAdvances
<1>2. CASE \E r : Active(c) /\ Finish(c, r)
  <2>1. pc'[c] = "done"
    BY <1>0, <1>2 DEF Finish, TypeOK
  <2>2. \A d \in Calls \ {c} : StepsLeft(d)' = StepsLeft(d)
    BY <1>0, <1>2, StepsLeftFrame DEF Finish, TypeOK
  <2> QED
    BY <1>0, <1>2, <2>1, <2>2, LaterPollAdvances
<1>3. CASE PinVerified(c)
  <2>1. /\ Active(c) /\ Active(c)' /\ polls'[c] = polls[c] /\ post'[c] = post[c]
        /\ \A d \in Calls \ {c} : StepsLeft(d)' = StepsLeft(d)
    BY <1>0, <1>3, StepsLeftFrame DEF PinVerified, TypeOK, Active
  <2>2. AttemptSteps(c)' < AttemptSteps(c)
    BY <1>0, <1>3 DEF PinVerified, TypeOK, AttemptSteps
  <2> QED
    BY <1>0, <2>1, <2>2, PollAdvances
<1>4. CASE Send(c)
  <2>1. /\ Active(c) /\ Active(c)' /\ polls'[c] = polls[c] /\ post'[c] = post[c]
        /\ \A d \in Calls \ {c} : StepsLeft(d)' = StepsLeft(d)
    BY <1>0, <1>4, StepsLeftFrame DEF Send, TypeOK, Active
  <2>2. AttemptSteps(c)' < AttemptSteps(c)
    <3>1. AttemptSteps(c) = 3 * (MaxAttempts - attempt[c]) + 1
      BY <1>4 DEF Send, AttemptSteps
    <3>2. AttemptSteps(c)' = 3 * (MaxAttempts - (attempt[c] + 1)) + 3
      BY <1>0, <1>4 DEF Send, TypeOK, AttemptSteps
    <3> QED
      BY <1>0, <3>1, <3>2
  <2> QED
    BY <1>0, <2>1, <2>2, PollAdvances
<1>5. CASE ConnectionError(c) /\ ~ Finish(c, "raised")
  <2>1. /\ Active(c) /\ Active(c)' /\ polls'[c] = polls[c] /\ post'[c] = post[c]
        /\ \A d \in Calls \ {c} : StepsLeft(d)' = StepsLeft(d)
    BY <1>0, <1>5, StepsLeftFrame DEF ConnectionError, TypeOK, Active
  <2>2. AttemptSteps(c)' < AttemptSteps(c)
    BY <1>0, <1>5 DEF ConnectionError, TypeOK, AttemptSteps
  <2> QED
    BY <1>0, <2>1, <2>2, PollAdvances
<1>6. CASE CloudReceives(c)
  <2>1. PICK a \in {"accepted", "rejected"} : msg' = [msg EXCEPT ![c] = [h |-> msg[c].h, at |-> a]]
    BY <1>6 DEF CloudReceives
  <2>2. /\ pc[c] = "sent" /\ msg[c].at = "travelling" /\ msg'[c].at # "travelling"
        /\ UNCHANGED <<pc, attempt, polls, post>>
        /\ \A d \in Calls \ {c} : msg'[d] = msg[d]
    BY <1>0, <1>6, <2>1 DEF CloudReceives, TypeOK
  <2>3. AttemptSteps(c)' < AttemptSteps(c)
    BY <1>0, <2>2 DEF AttemptSteps
  <2>4. \A d \in Calls \ {c} : StepsLeft(d)' = StepsLeft(d)
    BY <2>2, StepsLeftFrame
  <2> QED
    BY <1>0, <2>2, <2>3, <2>4, PollAdvances DEF Active
<1>7. CASE FirstStatusPost(c)
  <2>1. /\ Active(c) /\ Active(c)' /\ polls'[c] = polls[c] /\ post[c] = 1 /\ post'[c] = 2
        /\ \A d \in Calls \ {c} : StepsLeft(d)' = StepsLeft(d)
    BY <1>0, <1>7, StepsLeftFrame DEF FirstStatusPost, TypeOK, Active
  <2> QED
    BY <1>0, <2>1, PollAdvances
<1>8. CASE StatusPending(c)
  <2>1. /\ Active(c) /\ Active(c)' /\ polls[c] > 0 /\ polls'[c] = polls[c] - 1
        /\ \A d \in Calls \ {c} : StepsLeft(d)' = StepsLeft(d)
    BY <1>0, <1>8, StepsLeftFrame DEF StatusPending, SecondStatusPost, TypeOK, Active
  <2> QED
    BY <1>0, <2>1, LaterPollAdvances
<1>9. PinFails(c) \/ OtherRequestError(c) \/ ControlReturns(c) \/ StatusUnusable(c)
      \/ StatusFinal(c) \/ StatusGivesUp(c) \/ (ConnectionError(c) /\ Finish(c, "raised"))
      => \E r : Active(c) /\ Finish(c, r)
  BY DEF PinFails, OtherRequestError, ControlReturns, StatusUnusable, StatusFinal, StatusGivesUp,
         ConnectionError, SecondStatusPost, Active
<1> QED
  BY <1>1, <1>2, <1>3, <1>4, <1>5, <1>6, <1>7, <1>8, <1>9 DEF Thread, Network

\* A command or a check_action_status of the Canadian client takes a bounded
\* number of steps, 6 * max_retries + 8 for each poll its time allows, one
\* poll included: every step of a thread or of the network takes one call
\* nearer to its end.
THEOREM CallsAreShort ==
  Spec => /\ [](\A c \in Calls : StepsLeft(c) \in 0..((MaxPolls + 1) * PollSteps))
          /\ [][OneCallAdvances]_vars
<1>1. IInv => \A c \in Calls : StepsLeft(c) \in 0..((MaxPolls + 1) * PollSteps)
  <2> SUFFICES ASSUME IInv, NEW c \in Calls
               PROVE  StepsLeft(c) \in 0..((MaxPolls + 1) * PollSteps)
    OBVIOUS
  <2>1. TypeOK /\ polls[c] \in 0..MaxPolls
    BY DEF IInv, TypeOK
  <2>2. AttemptSteps(c) \in 0..(PostSteps - 1)
    BY <2>1, AttemptStepsBound DEF AttemptStepsRange
  <2>3. /\ polls[c] * PollSteps \in Nat /\ PostSteps \in Nat /\ PollSteps = PostSteps + PostSteps
        /\ polls[c] * PollSteps + PollSteps <= (MaxPolls + 1) * PollSteps
        /\ (MaxPolls + 1) * PollSteps \in Nat
    BY <2>1, PollProducts
  <2> QED
    BY <2>2, <2>3 DEF StepsLeft
<1>2. IInv /\ [Next]_vars => [OneCallAdvances]_vars
  <2> SUFFICES ASSUME IInv, Next PROVE OneCallAdvances
    OBVIOUS
  <2> QED
    BY TypeStep, StepAdvances DEF Next, OneCallAdvances
<1> QED
  BY Invariance, <1>1, <1>2, PTL DEF Spec
=============================================================================
