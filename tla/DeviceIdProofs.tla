---------------------------- MODULE DeviceIdProofs ----------------------------
(***************************************************************************)
(* Proofs about DeviceIdRetry, for any number of calls, device ids and     *)
(* polls.  The inductive invariant says of every call how many charge      *)
(* schedules it can have posted at each request, which wrapper can handle  *)
(* an error, and what one fault has left in the requests under way.        *)
(* LockInv says who holds the locks; a rank bounds the steps of a call.    *)
(***************************************************************************)
EXTENDS DeviceIdRetry, TLAPS

\* One post, and one more if the wrapper of the schedule has run it again.
Posts(c) ==
  posted[c] <= (IF pc[c] = "idle" \/ leg[c] = "charge" THEN 0 ELSE 1)
               + (IF "outer" \in retried[c] THEN 1 ELSE 0)

Handling(c) ==
  /\ pc[c] = "idle" => retried[c] = {}
  /\ pc[c] \in {"lock", "register"} => at[c] \in Frames /\ at[c] \notin retried[c]

ClimateWaits(c) == op[c] = "both" /\ leg[c] = "hvac" => record[c] = "success"

BusyIsOver(c) == result[c] = "appliedButBusy" => pc[c] = "done" /\ record[c] # "fail"

\* Until the first fault every id is known; until the second, the ids of a
\* call that has run again are.
IdsAreKnown(c) ==
  /\ faults = 0 => /\ sent[c] # 0 /\ body[c] # 0
                   /\ retried[c] = {} /\ pc[c] \notin {"lock", "register"}
  /\ faults <= 1 /\ retried[c] # {} => device # 0 /\ sent[c] # 0 /\ body[c] # 0
  /\ result[c] = "DeviceIDError" => faults = 2

CallInv(c) ==
  Posts(c) /\ Handling(c) /\ ClimateWaits(c) /\ BusyIsOver(c) /\ IdsAreKnown(c)

IInv == TypeOK /\ (faults = 0 => device # 0) /\ \A c \in Calls : CallInv(c)

-----------------------------------------------------------------------------
(* The helpers.                                                             *)

LEMMA FirstLegs ==
  ASSUME NEW o \in Ops
  PROVE  FirstLeg(o) \in Legs /\ (o = "both" => FirstLeg(o) = "charge")
BY DEF FirstLeg, Ops, Legs, Singles, Schedules

\* The innermost of some wrappers.
LEMMA Innermost ==
  ASSUME NEW S \in SUBSET Frames, S # {}
  PROVE  (CHOOSE f \in S : S \ {f} \subseteq Outside(f)) \in S
<1>1. \E f \in S : S \ {f} \subseteq Outside(f)
  <2>1. CASE "inner" \in S
    BY <2>1 DEF Outside, Frames
  <2>2. CASE "inner" \notin S /\ "sync" \in S
    BY <2>2 DEF Outside, Frames
  <2>3. CASE "inner" \notin S /\ "sync" \notin S
    BY <2>3 DEF Outside, Frames
  <2> QED
    BY <2>1, <2>2, <2>3
<1> QED
  BY <1>1

LEMMA Wrappers ==
  ASSUME NEW c \in Calls
  PROVE  /\ Around(c) \in SUBSET Frames /\ Around(c) # {}
         /\ Outside(at[c]) \cap Frames \in SUBSET Frames
BY DEF Around, Frames

LEMMA FinishTypes ==
  ASSUME TypeOK, NEW c \in Calls, NEW r \in Results, Finish(c, r)
  PROVE  /\ pc' \in [Calls -> PCs] /\ result' \in [Calls -> Results \cup {None}]
         /\ leg' \in [Calls -> Legs \cup {None}] /\ body' \in [Calls -> Ids \cup {None}]
         /\ sent' \in [Calls -> Ids \cup {None}] /\ at' \in [Calls -> Frames \cup {None}]
         /\ polls' \in [Calls -> 0..MaxPolls]
BY DeviceIdAssumption DEF Finish, TypeOK, PCs

LEMMA GoOnTypes ==
  ASSUME TypeOK, NEW c \in Calls, NEW l \in Legs \cup {None}, GoOn(c, l)
  PROVE  /\ pc' \in [Calls -> PCs]
         /\ leg' \in [Calls -> Legs \cup {None}] /\ body' \in [Calls -> Ids \cup {None}]
         /\ sent' \in [Calls -> Ids \cup {None}] /\ at' \in [Calls -> Frames \cup {None}]
BY DEF GoOn, TypeOK, PCs

\* A DeviceIDError is the caller's, every wrapper around having retried, or
\* one of those that have not handles it.
LEMMA RaiseCases ==
  ASSUME TypeOK, NEW c \in Calls, NEW fs \in SUBSET Frames, Raise(c, fs)
  PROVE  \/ /\ fs \subseteq retried[c]
            /\ Finish(c, "DeviceIDError")
         \/ \E f \in Frames \ retried[c] :
              /\ at' = [at EXCEPT ![c] = f]
              /\ pc' = [pc EXCEPT ![c] = "lock"]
              /\ sent' = [sent EXCEPT ![c] = None]
              /\ body' = [body EXCEPT ![c] = None]
              /\ UNCHANGED <<leg, polls, result>>
<1> DEFINE catching == fs \ retried[c]
<1>1. CASE catching = {} /\ Finish(c, "DeviceIDError")
  BY <1>1
<1>2. CASE /\ catching # {}
           /\ at' = [at EXCEPT ![c] = CHOOSE f \in catching : catching \ {f} \subseteq Outside(f)]
           /\ pc' = [pc EXCEPT ![c] = "lock"]
           /\ sent' = [sent EXCEPT ![c] = None]
           /\ body' = [body EXCEPT ![c] = None]
           /\ UNCHANGED <<leg, polls, result>>
  <2>1. catching \in SUBSET Frames /\ catching # {}
    BY <1>2
  <2>2. catching \subseteq Frames \ retried[c]
    OBVIOUS
  <2> HIDE DEF catching
  <2>3. (CHOOSE f \in catching : catching \ {f} \subseteq Outside(f)) \in catching
    BY <2>1, Innermost
  <2> QED
    BY <1>2, <2>2, <2>3, Zenon
<1> QED
  BY <1>1, <1>2, Zenon DEF Raise

LEMMA RaiseTypes ==
  ASSUME TypeOK, NEW c \in Calls, NEW fs \in SUBSET Frames, Raise(c, fs)
  PROVE  /\ pc' \in [Calls -> PCs] /\ result' \in [Calls -> Results \cup {None}]
         /\ leg' \in [Calls -> Legs \cup {None}] /\ body' \in [Calls -> Ids \cup {None}]
         /\ sent' \in [Calls -> Ids \cup {None}] /\ at' \in [Calls -> Frames \cup {None}]
         /\ polls' \in [Calls -> 0..MaxPolls]
<1>1. CASE Finish(c, "DeviceIDError")
  BY <1>1, FinishTypes DEF Results
<1>2. ASSUME NEW f \in Frames,
             /\ at' = [at EXCEPT ![c] = f]
             /\ pc' = [pc EXCEPT ![c] = "lock"]
             /\ sent' = [sent EXCEPT ![c] = None]
             /\ body' = [body EXCEPT ![c] = None]
             /\ UNCHANGED <<leg, polls, result>>
      PROVE  /\ pc' \in [Calls -> PCs] /\ result' \in [Calls -> Results \cup {None}]
             /\ leg' \in [Calls -> Legs \cup {None}] /\ body' \in [Calls -> Ids \cup {None}]
             /\ sent' \in [Calls -> Ids \cup {None}] /\ at' \in [Calls -> Frames \cup {None}]
             /\ polls' \in [Calls -> 0..MaxPolls]
  BY <1>2 DEF TypeOK, PCs
<1> QED
  BY <1>1, <1>2, RaiseCases, Zenon

-----------------------------------------------------------------------------
(* Type correctness.                                                        *)

LEMMA TypeStep ==
  ASSUME TypeOK, [Next]_vars, \A c \in Calls : Handling(c)
  PROVE  TypeOK'
<1>0. None \notin Ids /\ 0 \in Ids /\ 1..MaxId \subseteq Ids
  BY DeviceIdAssumption DEF Ids
<1>1. ASSUME NEW c \in Calls, NEW o \in Ops, Begin(c, o) PROVE TypeOK'
  <2>1. (IF o = "check_sync" THEN MaxPolls ELSE 0) \in 0..MaxPolls
    BY DeviceIdAssumption
  <2>2. FirstLeg(o) \in Legs /\ "running" \in Records
    BY FirstLegs DEF Records
  <2> QED
    BY <1>1, <2>1, <2>2 DEF Begin, TypeOK, wrapper, history, PCs
<1>2. ASSUME NEW c \in Calls, Start(c) PROVE TypeOK'
  BY <1>1, <1>2 DEF Start, lock_action, start_climate, schedule_charging_and_climate,
                    check_action_status, Ops, Singles, Schedules
<1>3. ASSUME NEW c \in Calls, Prepare(c) PROVE TypeOK'
  <2>1. pc' = [pc EXCEPT ![c] = "post"] /\ \E b \in Ids \cup {None} : body' = [body EXCEPT ![c] = b]
    BY <1>3 DEF Prepare, TypeOK
  <2> QED
    BY <1>3, <2>1 DEF Prepare, TypeOK, wrapper, history, PCs
<1>4. ASSUME NEW c \in Calls, Send(c) PROVE TypeOK'
  BY <1>4 DEF Send, TypeOK, wrapper, history, PCs
<1>5. ASSUME NEW c \in Calls, OtherError(c) PROVE TypeOK'
  BY <1>5, FinishTypes DEF OtherError, TypeOK, history, Results
<1>6. ASSUME NEW c \in Calls, DeviceIdRejected(c) PROVE TypeOK'
  BY <1>6, RaiseTypes, Wrappers DEF DeviceIdRejected, TypeOK, history
<1>7. ASSUME NEW c \in Calls, SingleOk(c) \/ HvacOk(c) PROVE TypeOK'
  BY <1>7, FinishTypes DEF SingleOk, HvacOk, TypeOK, history, Results
<1>8. ASSUME NEW c \in Calls, ChargeOk(c) PROVE TypeOK'
  <2>1. posted' \in [Calls -> 0..3]
    BY <1>8 DEF ChargeOk, CountPost, TypeOK
  <2>2. CASE op[c] = "charge" /\ Finish(c, "ok") /\ UNCHANGED record
    BY <1>8, <2>1, <2>2, FinishTypes DEF ChargeOk, TypeOK, Results
  <2>3. CASE /\ record' = [record EXCEPT ![c] = "running"] /\ GoOn(c, "status")
             /\ polls' = [polls EXCEPT ![c] = MaxPolls] /\ UNCHANGED result
    <3>1. MaxPolls \in 0..MaxPolls
      BY DeviceIdAssumption
    <3> QED
      BY <1>8, <2>1, <2>3, <3>1, GoOnTypes DEF ChargeOk, TypeOK, Records, Legs
  <2> QED
    BY <1>8, <2>2, <2>3 DEF ChargeOk
<1>9. ASSUME NEW c \in Calls, StatusPending(c) PROVE TypeOK'
  <2>1. polls[c] - 1 \in 0..MaxPolls
    BY <1>9, DeviceIdAssumption DEF StatusPending, TypeOK
  <2> QED
    BY <1>9, <2>1, GoOnTypes DEF StatusPending, TypeOK, Legs, history
<1>10. ASSUME NEW c \in Calls, StatusTimeout(c) \/ StatusNotDone(c) \/ HvacBusy(c) PROVE TypeOK'
  <2>1. PICK r \in Results : Finish(c, r)
    BY <1>10 DEF StatusTimeout, StatusNotDone, HvacBusy, Results
  <2> QED
    BY <1>10, <2>1, FinishTypes DEF StatusTimeout, StatusNotDone, HvacBusy, TypeOK, history
<1>11. ASSUME NEW c \in Calls, StatusSuccess(c) PROVE TypeOK'
  <2>1. CASE GoOn(c, "hvac") /\ retried' = [retried EXCEPT ![c] = @ \cap {"outer"}]
             /\ UNCHANGED <<polls, result>>
    BY <1>11, <2>1, GoOnTypes DEF StatusSuccess, TypeOK, Legs, history
  <2>2. CASE Finish(c, "ok") /\ UNCHANGED retried
    BY <1>11, <2>2, FinishTypes DEF StatusSuccess, TypeOK, Results, history
  <2> QED
    BY <1>11, <2>1, <2>2 DEF StatusSuccess
<1>12. ASSUME NEW c \in Calls, AcquireLock(c) PROVE TypeOK'
  BY <1>12 DEF AcquireLock, TypeOK, request, wrapper, history, PCs
<1>r. ASSUME NEW c \in Calls, Release(c) PROVE lock' \in [Locks -> Calls \cup {None}]
  BY <1>r DEF Release, TypeOK
<1>f. ASSUME Fault PROVE faults' \in 0..2
  BY <1>f DEF Fault, TypeOK
<1>13. ASSUME NEW c \in Calls, RegisterOk(c) PROVE TypeOK'
  <2>1. device' \in Ids
    BY <1>13, <1>0 DEF RegisterOk
  <2>2. at[c] \in Frames
    BY <1>13 DEF RegisterOk, Handling
  <2>3. retried' \in [Calls -> SUBSET Frames]
    BY <1>13, <2>2 DEF RegisterOk, RunAgain, TypeOK
  <2>4. polls' \in [Calls -> 0..MaxPolls]
    BY <1>13, DeviceIdAssumption DEF RegisterOk, RunAgain, TypeOK
  <2>5. (IF at[c] = "outer" THEN FirstLeg(op[c]) ELSE leg[c]) \in Legs \cup {None}
    BY DEF FirstLeg, Legs, TypeOK
  <2> QED
    BY <1>13, <1>r, <2>1, <2>3, <2>4, <2>5, GoOnTypes DEF RegisterOk, RunAgain, TypeOK, history
<1>14. ASSUME NEW c \in Calls, RegisterRejected(c) PROVE TypeOK'
  <2>1. Around(c) \cap Outside(at[c]) \in SUBSET Frames
    BY Wrappers
  <2> QED
    BY <1>14, <1>r, <1>f, <2>1, RaiseTypes DEF RegisterRejected, TypeOK
<1>15. ASSUME NEW c \in Calls, RegisterFails(c) PROVE TypeOK'
  BY <1>15, <1>r, FinishTypes DEF RegisterFails, TypeOK, history, Results
<1>16. ASSUME NEW i \in 1..MaxId, CloudInvalidates(i) PROVE TypeOK'
  <2>1. device' \in Ids /\ sent' \in [Calls -> Ids \cup {None}] /\ body' \in [Calls -> Ids \cup {None}]
    BY <1>16, <1>0 DEF CloudInvalidates, TypeOK
  <2> QED
    BY <1>16, <1>f, <2>1 DEF CloudInvalidates, TypeOK, wrapper
<1>17. ASSUME NEW c \in Calls, CarReports(c) PROVE TypeOK'
  <2>1. PICK r \in Records : /\ record' = [record EXCEPT ![c] = r]
                             /\ applied' = [applied EXCEPT ![c] = @ \/ r = "success"]
    BY <1>17 DEF CarReports
  <2>2. applied' \in [Calls -> BOOLEAN]
    BY <2>1, Zenon DEF TypeOK
  <2> QED
    BY <1>17, <2>1, <2>2 DEF CarReports, TypeOK, request, wrapper
<1>18. CASE UNCHANGED vars
  BY <1>18 DEF vars, request, wrapper, history, TypeOK
<1> QED
  BY <1>2, <1>3, <1>4, <1>5, <1>6, <1>7, <1>8, <1>9, <1>10, <1>11, <1>12, <1>13, <1>14, <1>15,
     <1>16, <1>17, <1>18 DEF Next, Thread

-----------------------------------------------------------------------------
(* Every step keeps what is said of a call.                                 *)

\* What a call's invariant is about, besides the token and the faults.
Same(d) ==
  /\ pc'[d] = pc[d] /\ op'[d] = op[d] /\ leg'[d] = leg[d] /\ at'[d] = at[d]
  /\ body'[d] = body[d] /\ sent'[d] = sent[d] /\ retried'[d] = retried[d]
  /\ record'[d] = record[d] /\ result'[d] = result[d] /\ posted'[d] = posted[d]

\* A step of another call: the token's id only gets better, the faults only more.
LEMMA CallFrame ==
  ASSUME TypeOK, NEW d \in Calls, CallInv(d), Same(d),
         device' = device \/ device' # 0 \/ faults' = 2, faults' \in {faults, 2}
  PROVE  CallInv(d)'
<1>1. faults \in 0..2 /\ faults' \in 0..2
  BY DEF TypeOK
<1>2. Posts(d)' /\ Handling(d)' /\ ClimateWaits(d)' /\ BusyIsOver(d)'
  BY Zenon DEF CallInv, Same, Posts, Handling, ClimateWaits, BusyIsOver
<1>3. IdsAreKnown(d)'
  BY <1>1 DEF CallInv, Same, IdsAreKnown
<1> QED
  BY <1>2, <1>3 DEF CallInv

\* A call ends otherwise than busy or with a DeviceIDError.
LEMMA FinishInv ==
  ASSUME TypeOK, NEW c \in Calls, CallInv(c), NEW r \in Results, Finish(c, r),
         r = "appliedButBusy" => record[c] # "fail",
         r = "DeviceIDError" => faults' = 2,
         faults' \in {faults, 2}, pc[c] # "idle", device' = device,
         UNCHANGED <<op, record>>,
         retried'[c] = retried[c],
         posted'[c] = posted[c] \/ (leg[c] = "charge" /\ posted'[c] = posted[c] + 1)
  PROVE  CallInv(c)'
<1>1. pc'[c] = "done" /\ result'[c] = r /\ leg'[c] = None /\ body'[c] = None /\ sent'[c] = None
  BY DEF Finish, TypeOK
<1>2. None \notin {0, "charge", "hvac"} /\ posted[c] \in 0..3 /\ faults \in 0..2
  BY DeviceIdAssumption DEF TypeOK
<1>3. Posts(c)'
  BY <1>1, <1>2 DEF CallInv, Posts
<1>4. Handling(c)' /\ BusyIsOver(c)'
  BY <1>1 DEF Handling, BusyIsOver
<1>5. ClimateWaits(c)'
  BY <1>1, <1>2 DEF CallInv, ClimateWaits
<1>6. IdsAreKnown(c)'
  BY <1>1, <1>2 DEF CallInv, IdsAreKnown
<1> QED
  BY <1>3, <1>4, <1>5, <1>6 DEF CallInv

LEMMA FinishSame ==
  ASSUME NEW c \in Calls, NEW r, Finish(c, r), NEW d \in Calls \ {c}, TypeOK
  PROVE  /\ pc'[d] = pc[d] /\ leg'[d] = leg[d] /\ at'[d] = at[d] /\ body'[d] = body[d]
         /\ sent'[d] = sent[d] /\ result'[d] = result[d]
BY DEF Finish, TypeOK

LEMMA GoOnSame ==
  ASSUME NEW c \in Calls, NEW l, GoOn(c, l), NEW d \in Calls \ {c}, TypeOK
  PROVE  /\ pc'[d] = pc[d] /\ leg'[d] = leg[d] /\ at'[d] = at[d] /\ body'[d] = body[d]
         /\ sent'[d] = sent[d]
BY DEF GoOn, TypeOK

LEMMA RaiseSame ==
  ASSUME NEW c \in Calls, NEW fs \in SUBSET Frames, Raise(c, fs), NEW d \in Calls \ {c}, TypeOK
  PROVE  /\ pc'[d] = pc[d] /\ leg'[d] = leg[d] /\ at'[d] = at[d] /\ body'[d] = body[d]
         /\ sent'[d] = sent[d] /\ result'[d] = result[d]
<1>1. CASE Finish(c, "DeviceIDError")
  BY <1>1, FinishSame
<1>2. ASSUME NEW f \in Frames,
             /\ at' = [at EXCEPT ![c] = f]
             /\ pc' = [pc EXCEPT ![c] = "lock"]
             /\ sent' = [sent EXCEPT ![c] = None]
             /\ body' = [body EXCEPT ![c] = None]
             /\ UNCHANGED <<leg, polls, result>>
      PROVE  /\ pc'[d] = pc[d] /\ leg'[d] = leg[d] /\ at'[d] = at[d] /\ body'[d] = body[d]
             /\ sent'[d] = sent[d] /\ result'[d] = result[d]
  BY <1>2 DEF TypeOK
<1> QED
  BY <1>1, <1>2, RaiseCases, Zenon

\* A request of the call whose answer is a DeviceIDError, or a registration
\* that is: either it is handled, or it was not the first fault.
LEMMA RaiseInv ==
  ASSUME TypeOK, NEW c \in Calls, CallInv(c), NEW fs \in SUBSET Frames, Raise(c, fs),
         pc[c] \notin {"idle", "done"}, faults # 0 \/ faults' = 2,
         fs \subseteq retried[c] => faults' = 2,
         faults' \in {faults, 2}, device' = device, UNCHANGED <<op, record, retried, posted>>
  PROVE  CallInv(c)'
<1>0. None \notin {0, "appliedButBusy", "DeviceIDError"} /\ faults \in 0..2
  BY DeviceIdAssumption DEF TypeOK
<1>1. CASE fs \subseteq retried[c] /\ Finish(c, "DeviceIDError")
  BY <1>1, FinishInv DEF Results
<1>2. ASSUME NEW f \in Frames \ retried[c],
             /\ at' = [at EXCEPT ![c] = f]
             /\ pc' = [pc EXCEPT ![c] = "lock"]
             /\ sent' = [sent EXCEPT ![c] = None]
             /\ body' = [body EXCEPT ![c] = None]
             /\ UNCHANGED <<leg, polls, result>>
      PROVE  CallInv(c)'
  <2>1. pc'[c] = "lock" /\ at'[c] = f /\ sent'[c] = None /\ body'[c] = None
    BY <1>2 DEF TypeOK
  <2>2. Posts(c)' /\ Handling(c)' /\ ClimateWaits(c)'
    BY <1>2, <2>1 DEF CallInv, Posts, Handling, ClimateWaits, TypeOK
  <2>3. BusyIsOver(c)'
    BY <1>2, <2>1 DEF CallInv, BusyIsOver, TypeOK
  <2>4. IdsAreKnown(c)'
    BY <1>0, <1>2, <2>1 DEF CallInv, IdsAreKnown
  <2> QED
    BY <2>2, <2>3, <2>4 DEF CallInv
<1> QED
  BY <1>1, <1>2, RaiseCases, Zenon

-----------------------------------------------------------------------------
(* One step per action, for the call that takes it.                         *)

LEMMA OwnStep ==
  ASSUME IInv, TypeOK', NEW c \in Calls, Start(c) \/ Thread(c) \/ CarReports(c)
  PROVE  CallInv(c)'
<1>0. TypeOK /\ CallInv(c) /\ (faults = 0 => device # 0) /\ faults \in 0..2
  BY DEF IInv, TypeOK
<1>n. None \notin {0, "charge", "hvac", "appliedButBusy", "DeviceIDError"}
  BY DeviceIdAssumption
<1>1. ASSUME NEW o \in Ops, Begin(c, o) PROVE CallInv(c)'
  <2>1. /\ pc'[c] = "prepare" /\ op'[c] = o /\ leg'[c] = FirstLeg(o) /\ pc[c] = "idle"
        /\ UNCHANGED <<device, body, sent, retried, at, result, posted, faults>>
    BY <1>0, <1>1 DEF Begin, TypeOK, wrapper, history
  <2>2. Posts(c)' /\ Handling(c)'
    BY <1>0, <2>1 DEF CallInv, Posts, Handling, TypeOK
  <2>3. ClimateWaits(c)'
    BY <2>1, FirstLegs DEF ClimateWaits
  <2>4. BusyIsOver(c)' /\ IdsAreKnown(c)'
    BY <1>0, <2>1 DEF CallInv, BusyIsOver, IdsAreKnown
  <2> QED
    BY <2>2, <2>3, <2>4 DEF CallInv
<1>2. CASE Start(c)
  BY <1>1, <1>2 DEF Start, lock_action, start_climate, schedule_charging_and_climate,
                    check_action_status, Ops, Singles, Schedules
<1>3. CASE Prepare(c)
  <2>1. /\ pc'[c] = "post" /\ pc[c] = "prepare" /\ body'[c] \in {device, None}
        /\ UNCHANGED <<device, op, leg, sent, retried, at, record, result, posted, faults>>
    BY <1>0, <1>3 DEF Prepare, TypeOK, wrapper, history
  <2> QED
    BY <1>0, <1>n, <2>1 DEF CallInv, Posts, Handling, ClimateWaits, BusyIsOver, IdsAreKnown
<1>4. CASE Send(c)
  <2>1. /\ pc'[c] = "sent" /\ pc[c] = "post" /\ sent'[c] = device
        /\ UNCHANGED <<device, op, leg, body, retried, at, record, result, posted, faults>>
    BY <1>0, <1>4 DEF Send, TypeOK, wrapper, history
  <2> QED
    BY <1>0, <2>1 DEF CallInv, Posts, Handling, ClimateWaits, BusyIsOver, IdsAreKnown
<1>5. CASE OtherError(c) \/ SingleOk(c) \/ StatusNotDone(c) \/ HvacOk(c) \/ RegisterFails(c)
  <2>1. PICK r \in {"ok", "raised"} : Finish(c, r)
    BY <1>5 DEF OtherError, SingleOk, StatusNotDone, HvacOk, RegisterFails
  <2>2. pc[c] # "idle" /\ UNCHANGED <<device, op, retried, record, posted, faults>>
    BY <1>5 DEF OtherError, SingleOk, StatusNotDone, HvacOk, RegisterFails, Answered, history
  <2> QED
    BY <1>0, <2>1, <2>2, FinishInv DEF Results
<1>6. CASE DeviceIdRejected(c)
  <2>1. faults # 0 /\ (Around(c) \subseteq retried[c] => faults = 2)
    BY <1>0, <1>6, Wrappers DEF DeviceIdRejected, Known, CallInv, IdsAreKnown
  <2> QED
    BY <1>0, <1>6, <2>1, Wrappers, RaiseInv DEF DeviceIdRejected, history
<1>7. CASE ChargeOk(c)
  <2>1. /\ pc[c] = "sent" /\ leg[c] = "charge"
        /\ UNCHANGED <<device, op, retried, faults>>
    BY <1>7 DEF ChargeOk, Answered
  <2>2. posted'[c] = posted[c] + 1 /\ posted[c] \in 0..3
    BY <1>0, <1>7, <2>1 DEF ChargeOk, CountPost, CallInv, Posts, TypeOK
  <2>3. CASE Finish(c, "ok") /\ UNCHANGED record
    BY <1>0, <2>1, <2>2, <2>3, FinishInv DEF Results
  <2>4. CASE GoOn(c, "status") /\ UNCHANGED result
    <3>1. /\ pc'[c] = "prepare" /\ leg'[c] = "status" /\ body'[c] = None /\ sent'[c] = None
      BY <1>0, <2>4 DEF GoOn, TypeOK
    <3> QED
      BY <1>0, <1>n, <2>1, <2>2, <2>4, <3>1
         DEF CallInv, Posts, Handling, ClimateWaits, BusyIsOver, IdsAreKnown
  <2> QED
    BY <1>7, <2>3, <2>4 DEF ChargeOk
<1>8. CASE StatusPending(c)
  <2>1. /\ pc[c] = "sent" /\ leg[c] = "status"
        /\ pc'[c] = "prepare" /\ leg'[c] = "status" /\ body'[c] = None /\ sent'[c] = None
        /\ retried'[c] = retried[c] \ {"inner"}
        /\ UNCHANGED <<device, op, record, result, posted, faults>>
    BY <1>0, <1>8 DEF StatusPending, Answered, GoOn, TypeOK, history
  <2> QED
    BY <1>0, <1>n, <2>1 DEF CallInv, Posts, Handling, ClimateWaits, BusyIsOver, IdsAreKnown
<1>9. CASE StatusTimeout(c)
  <2>1. record[c] # "fail" /\ \E r \in {"ok", "appliedButBusy"} : Finish(c, r)
    BY <1>9 DEF StatusTimeout
  <2>2. pc[c] # "idle" /\ UNCHANGED <<device, op, retried, record, posted, faults>>
    BY <1>9 DEF StatusTimeout, Answered, history
  <2> QED
    BY <1>0, <2>1, <2>2, FinishInv DEF Results
<1>10. CASE StatusSuccess(c)
  <2>1. /\ pc[c] = "sent" /\ leg[c] = "status" /\ record[c] = "success"
        /\ UNCHANGED <<device, op, record, posted, faults>>
    BY <1>10 DEF StatusSuccess, Answered, history
  <2>2. CASE /\ GoOn(c, "hvac")
             /\ retried' = [retried EXCEPT ![c] = @ \cap {"outer"}]
             /\ UNCHANGED <<polls, result>>
    <3>1. /\ pc'[c] = "prepare" /\ leg'[c] = "hvac" /\ body'[c] = None /\ sent'[c] = None
          /\ retried'[c] = retried[c] \cap {"outer"}
      BY <1>0, <2>2 DEF GoOn, TypeOK
    <3> QED
      BY <1>0, <1>n, <2>1, <2>2, <3>1
         DEF CallInv, Posts, Handling, ClimateWaits, BusyIsOver, IdsAreKnown
  <2>3. CASE Finish(c, "ok") /\ UNCHANGED retried
    BY <1>0, <2>1, <2>3, FinishInv DEF Results
  <2> QED
    BY <1>10, <2>2, <2>3 DEF StatusSuccess
<1>11. CASE HvacBusy(c)
  <2>1. /\ pc[c] = "sent" /\ leg[c] = "hvac"
        /\ UNCHANGED <<device, op, retried, record, posted, faults>>
    BY <1>11 DEF HvacBusy, Answered, history
  <2>2. CASE op[c] = "both" /\ Finish(c, "appliedButBusy")
    <3>1. record[c] # "fail"
      BY <1>0, <2>1, <2>2 DEF CallInv, ClimateWaits
    <3> QED
      BY <1>0, <2>1, <2>2, <3>1, FinishInv DEF Results
  <2>3. CASE Finish(c, "busy")
    BY <1>0, <2>1, <2>3, FinishInv DEF Results
  <2> QED
    BY <1>11, <2>2, <2>3 DEF HvacBusy
<1>12. CASE AcquireLock(c)
  <2>1. /\ pc[c] = "lock" /\ pc'[c] = "register"
        /\ UNCHANGED <<device, op, leg, body, sent, retried, at, record, result, posted, faults>>
    BY <1>0, <1>12 DEF AcquireLock, TypeOK, request, wrapper, history
  <2> QED
    BY <1>0, <2>1 DEF CallInv, Posts, Handling, ClimateWaits, BusyIsOver, IdsAreKnown
<1>13. CASE RegisterOk(c)
  <2>1. /\ pc[c] = "register" /\ pc'[c] = "prepare" /\ body'[c] = None /\ sent'[c] = None
        /\ leg'[c] = (IF at[c] = "outer" THEN FirstLeg(op[c]) ELSE leg[c])
        /\ device' # 0 /\ UNCHANGED <<op, record, result, posted, faults>>
    BY <1>0, <1>13 DEF RegisterOk, RunAgain, GoOn, TypeOK, history
  <2>2. at[c] \in Frames /\ at[c] \notin retried[c]
    BY <1>0, <2>1 DEF CallInv, Handling
  <2>3. retried'[c] = {f \in retried[c] : f \in Outside(at[c])} \cup {at[c]}
    BY <1>0, <1>13 DEF RegisterOk, RunAgain, TypeOK
  <2>4. "outer" \in retried'[c] <=> at[c] = "outer" \/ "outer" \in retried[c]
    BY <2>2, <2>3 DEF Frames, Outside
  <2>5. Posts(c)'
    BY <1>0, <2>1, <2>2, <2>4 DEF CallInv, Posts, TypeOK
  <2>6. ClimateWaits(c)'
    <3>1. op[c] = "both" => FirstLeg(op[c]) # "hvac"
      BY DEF FirstLeg, Singles
    <3> QED
      BY <1>0, <2>1, <3>1 DEF CallInv, ClimateWaits
  <2>7. Handling(c)' /\ BusyIsOver(c)' /\ IdsAreKnown(c)'
    BY <1>0, <1>n, <2>1 DEF CallInv, Handling, BusyIsOver, IdsAreKnown
  <2> QED
    BY <2>5, <2>6, <2>7 DEF CallInv
<1>14. CASE RegisterRejected(c)
  <2>1. pc[c] = "register" /\ faults # 0
    BY <1>0, <1>14 DEF RegisterRejected, CallInv, IdsAreKnown
  <2>2. faults' = 2
    BY <1>0, <1>14, <2>1 DEF RegisterRejected, Fault
  <2>3. Around(c) \cap Outside(at[c]) \in SUBSET Frames
    BY Wrappers
  <2> QED
    BY <1>0, <1>14, <2>1, <2>2, <2>3, RaiseInv DEF RegisterRejected
<1>15. CASE CarReports(c)
  <2>1. /\ pc[c] # "done" /\ record[c] = "running"
        /\ UNCHANGED <<device, op, pc, leg, body, sent, retried, at, result, posted, faults>>
    BY <1>15 DEF CarReports, request, wrapper
  <2> QED
    BY <1>0, <2>1 DEF CallInv, Posts, Handling, ClimateWaits, BusyIsOver, IdsAreKnown
<1> QED
  BY <1>2, <1>3, <1>4, <1>5, <1>6, <1>7, <1>8, <1>9, <1>10, <1>11, <1>12, <1>13, <1>14, <1>15
     DEF Thread

\* For every other call the step changes the token and the faults at most.
LEMMA OtherStep ==
  ASSUME IInv, NEW c \in Calls, Start(c) \/ Thread(c) \/ CarReports(c), NEW d \in Calls \ {c}
  PROVE  /\ Same(d) /\ faults' \in {faults, 2}
         /\ device' = device \/ device' # 0
<1>0. TypeOK /\ CallInv(c) /\ faults \in 0..2
  BY DEF IInv, TypeOK
<1>1. CASE Start(c)
  <2>1. PICK o : Begin(c, o)
    BY <1>1 DEF Start, lock_action, start_climate, schedule_charging_and_climate,
                check_action_status
  <2> QED
    BY <1>0, <2>1 DEF Begin, Same, TypeOK, wrapper, history
<1>2. CASE Prepare(c) \/ Send(c) \/ AcquireLock(c)
  BY <1>0, <1>2 DEF Prepare, Send, AcquireLock, Same, TypeOK, request, wrapper, history
<1>3. CASE \/ OtherError(c) \/ SingleOk(c) \/ StatusNotDone(c) \/ StatusTimeout(c)
           \/ HvacOk(c) \/ HvacBusy(c) \/ RegisterFails(c)
  <2>1. PICK r : Finish(c, r)
    BY <1>3 DEF OtherError, SingleOk, StatusNotDone, StatusTimeout, HvacOk, HvacBusy, RegisterFails
  <2>2. UNCHANGED <<device, op, retried, record, posted, faults>>
    BY <1>3 DEF OtherError, SingleOk, StatusNotDone, StatusTimeout, HvacOk, HvacBusy, RegisterFails,
                history
  <2> QED
    BY <1>0, <2>1, <2>2, FinishSame DEF Same
<1>4. CASE DeviceIdRejected(c)
  BY <1>0, <1>4, Wrappers, RaiseSame DEF DeviceIdRejected, Same, history
<1>5. CASE ChargeOk(c)
  <2>1. UNCHANGED <<device, op, retried, faults>> /\ posted'[d] = posted[d]
    BY <1>0, <1>5 DEF ChargeOk, CountPost, TypeOK
  <2>2. CASE Finish(c, "ok") /\ UNCHANGED record
    BY <1>0, <2>1, <2>2, FinishSame DEF Same
  <2>3. CASE GoOn(c, "status") /\ UNCHANGED result /\ record' = [record EXCEPT ![c] = "running"]
    BY <1>0, <2>1, <2>3, GoOnSame DEF Same, TypeOK
  <2> QED
    BY <1>5, <2>2, <2>3 DEF ChargeOk
<1>6. CASE StatusPending(c)
  BY <1>0, <1>6, GoOnSame DEF StatusPending, Same, TypeOK, history
<1>7. CASE StatusSuccess(c)
  <2>1. UNCHANGED <<device, op, record, posted, faults>>
    BY <1>7 DEF StatusSuccess, history
  <2>2. CASE GoOn(c, "hvac") /\ retried' = [retried EXCEPT ![c] = @ \cap {"outer"}]
             /\ UNCHANGED result
    BY <1>0, <2>1, <2>2, GoOnSame DEF Same, TypeOK
  <2>3. CASE Finish(c, "ok") /\ UNCHANGED retried
    BY <1>0, <2>1, <2>3, FinishSame DEF Same
  <2> QED
    BY <1>7, <2>2, <2>3 DEF StatusSuccess
<1>8. CASE RegisterOk(c)
  <2>1. device' # 0 /\ retried'[d] = retried[d] /\ \E l : GoOn(c, l)
    BY <1>0, <1>8 DEF RegisterOk, RunAgain, TypeOK
  <2>2. UNCHANGED <<op, record, result, posted, faults>>
    BY <1>8 DEF RegisterOk, history
  <2> QED
    BY <1>0, <2>1, <2>2, GoOnSame DEF Same
<1>9. CASE RegisterRejected(c)
  <2>1. faults' = 2
    BY <1>0, <1>9 DEF RegisterRejected, Fault, CallInv, IdsAreKnown
  <2>2. Around(c) \cap Outside(at[c]) \in SUBSET Frames
    BY Wrappers
  <2> QED
    BY <1>0, <1>9, <2>1, <2>2, RaiseSame DEF RegisterRejected, Same
<1>10. CASE CarReports(c)
  BY <1>0, <1>10 DEF CarReports, Same, TypeOK, request, wrapper
<1> QED
  BY <1>1, <1>2, <1>3, <1>4, <1>5, <1>6, <1>7, <1>8, <1>9, <1>10 DEF Thread

LEMMA CloudStep ==
  ASSUME IInv, NEW i \in 1..MaxId, CloudInvalidates(i), NEW d \in Calls
  PROVE  CallInv(d)' /\ faults' # 0
<1>0. TypeOK /\ CallInv(d) /\ faults \in 0..2
  BY DEF IInv, TypeOK
<1>1. faults' # 0 /\ (faults' = 1 => faults = 0)
  BY <1>0 DEF CloudInvalidates, Fault
<1>2. UNCHANGED <<op, pc, leg, retried, at, record, result, posted>>
  BY DEF CloudInvalidates, wrapper
<1>3. Posts(d)' /\ Handling(d)' /\ ClimateWaits(d)' /\ BusyIsOver(d)'
  BY <1>0, <1>2, Zenon DEF CallInv, Posts, Handling, ClimateWaits, BusyIsOver
<1>4. IdsAreKnown(d)'
  <2>1. faults' \in {1, 2}
    BY <1>0 DEF CloudInvalidates, Fault
  <2>2. CASE faults' = 1
    BY <1>0, <1>1, <1>2, <2>2 DEF CallInv, IdsAreKnown
  <2>3. CASE faults' = 2
    BY <2>3 DEF IdsAreKnown
  <2> QED
    BY <2>1, <2>2, <2>3
<1> QED
  BY <1>1, <1>3, <1>4 DEF CallInv

-----------------------------------------------------------------------------
(* The inductive invariant.                                                 *)

LEMMA InitInv == Init => IInv
<1> SUFFICES ASSUME Init PROVE IInv
  OBVIOUS
<1>0. None \notin Ids /\ 0 \in Ids /\ 1 \in Ids /\ 0 \in 0..MaxPolls
  BY DeviceIdAssumption DEF Ids
<1>1. TypeOK
  BY <1>0 DEF Init, TypeOK, PCs
<1>2. faults = 0 => device # 0
  BY DEF Init
<1>3. ASSUME NEW c \in Calls PROVE CallInv(c)
  BY <1>3, DeviceIdAssumption
     DEF Init, CallInv, Posts, Handling, ClimateWaits, BusyIsOver, IdsAreKnown
<1> QED
  BY <1>1, <1>2, <1>3 DEF IInv

LEMMA StepInv == IInv /\ [Next]_vars => IInv'
<1> SUFFICES ASSUME IInv, [Next]_vars PROVE IInv'
  OBVIOUS
<1>1. TypeOK'
  BY TypeStep DEF IInv, CallInv
<1>2. ASSUME NEW c \in Calls, Start(c) \/ Thread(c) \/ CarReports(c) PROVE IInv'
  <2>1. CallInv(c)'
    BY <1>1, <1>2, OwnStep
  <2>2. ASSUME NEW d \in Calls, d # c PROVE CallInv(d)'
    BY <1>2, <2>2, OtherStep, CallFrame DEF IInv
  <2>3. faults' = 0 => device' # 0
    <3>1. faults' \in {faults, 2} /\ (device' = device \/ device' # 0)
      <4>1. CASE Start(c)
        BY <4>1 DEF Start, lock_action, start_climate, schedule_charging_and_climate,
                    check_action_status, Begin, history
      <4>2. CASE RegisterOk(c) \/ RegisterRejected(c)
        <5>1. faults \in 1..2 /\ CallInv(c)
          BY <4>2 DEF IInv, TypeOK, CallInv, IdsAreKnown, RegisterOk, RegisterRejected
        <5> QED
          BY <4>2, <5>1 DEF RegisterOk, RegisterRejected, Fault, history
      <4>3. CASE ~ (Start(c) \/ RegisterOk(c) \/ RegisterRejected(c))
        BY <1>2, <4>3 DEF Thread, CarReports, Prepare, Send, OtherError, DeviceIdRejected, SingleOk,
                     ChargeOk, StatusPending, StatusTimeout, StatusNotDone, StatusSuccess, HvacOk,
                     HvacBusy, AcquireLock, RegisterFails, history
      <4> QED
        BY <4>1, <4>2, <4>3
    <3> QED
      BY <3>1 DEF IInv
  <2> QED
    BY <1>1, <2>1, <2>2, <2>3 DEF IInv
<1>3. ASSUME NEW i \in 1..MaxId, CloudInvalidates(i) PROVE IInv'
  <2>1. faults' # 0
    BY <1>3 DEF IInv, TypeOK, CloudInvalidates, Fault
  <2> QED
    BY <1>1, <1>3, <2>1, CloudStep DEF IInv
<1>4. CASE UNCHANGED vars
  BY <1>1, <1>4 DEF vars, request, wrapper, history, IInv, CallInv, Posts, Handling, ClimateWaits,
                    BusyIsOver, IdsAreKnown
<1> QED
  BY <1>2, <1>3, <1>4 DEF Next

LEMMA Inductive == Spec => []IInv
BY InitInv, StepInv, PTL DEF Spec

-----------------------------------------------------------------------------
(* The theorems.                                                            *)

\* Every variable stays in its type.
THEOREM TypeCorrect == Spec => []TypeOK
<1>1. IInv => TypeOK
  BY DEF IInv
<1> QED
  BY <1>1, Inductive, PTL

\* The climate scope of a two-scope schedule follows an applied charge scope,
\* for any number of concurrent calls and of device ids dropped by the cloud.
THEOREM ClimateFollowsCharge == Spec => []ClimateAfterCharge
<1>1. IInv => ClimateAfterCharge
  BY DEF IInv, CallInv, ClimateWaits, ClimateAfterCharge
<1> QED
  BY <1>1, Inductive, PTL

\* The three nested wrappers post a charge schedule at most twice, and twice
\* only if the outermost of them ran its body again.
THEOREM ChargeIsRepeatedOnce == Spec => []ChargeRepeatsOnce
<1>1. IInv => ChargeRepeatsOnce
  <2> SUFFICES ASSUME IInv, NEW c \in Calls
               PROVE  posted[c] <= IF "outer" \in retried[c] THEN 2 ELSE 1
    BY DEF ChargeRepeatsOnce
  <2>1. Posts(c) /\ posted[c] \in 0..3
    BY DEF IInv, TypeOK, CallInv
  <2> QED
    BY <2>1 DEF Posts
<1> QED
  BY <1>1, Inductive, PTL

\* No caller sees a DeviceIDError unless there were two faults: one
\* invalidated id is always repaired, whichever call meets it, at whichever
\* request and under whichever wrapper.
THEOREM OneFaultIsRepaired == Spec => []OneFaultIsInvisible
<1>1. IInv => OneFaultIsInvisible
  <2> SUFFICES ASSUME IInv, faults <= 1, NEW c \in Calls PROVE result[c] # "DeviceIDError"
    BY DEF OneFaultIsInvisible
  <2> QED
    BY DEF IInv, CallInv, IdsAreKnown
<1> QED
  BY <1>1, Inductive, PTL

\* An error worded as "the charge schedule was applied" never follows a record
\* that says that it failed.
THEOREM FailureIsNotWordedAsApplied == Spec => []FailedIsNotApplied
<1>1. IInv => FailedIsNotApplied
  BY DEF IInv, CallInv, BusyIsOver, FailedIsNotApplied
<1> QED
  BY <1>1, Inductive, PTL

-----------------------------------------------------------------------------
(* The locks.                                                               *)

\* What a call can be doing at a request, and under which wrapper.
Placed(c) ==
  /\ pc[c] # "idle" => op[c] \in Ops
  /\ pc[c] \notin {"idle", "done"} /\ op[c] \in {"check", "check_sync"} => leg[c] = "status"
  /\ pc[c] \in {"lock", "register"} /\ op[c] \in {"check", "check_sync"} => at[c] # "outer"

\* A lock is held by a call that is registering, and a call that is
\* registering holds the lock of the method whose wrapper caught the error.
Held(l)  == lock[l] # None => pc[lock[l]] = "register" /\ LockOf(lock[l]) = l
Holds(c) == pc[c] = "register" => lock[LockOf(c)] = c

LockInv ==
  /\ \A c \in Calls : Placed(c) /\ Holds(c)
  /\ \A l \in Locks : Held(l)

\* One registration at a time for each decorated method, and nobody waits for
\* a lock with another one in his hands: whoever holds a lock is past waiting.
LocksAreSafe ==
  /\ \A c, d \in Calls :
       pc[c] = "register" /\ pc[d] = "register" /\ LockOf(c) = LockOf(d) => c = d
  /\ \A l \in Locks : lock[l] # None => pc[lock[l]] = "register" /\ LockOf(lock[l]) = l

\* A registering call needs the lock of a decorated method.
LEMMA LockTypes ==
  ASSUME TypeOK, NEW c \in Calls, Placed(c), Handling(c), pc[c] \in {"lock", "register"}
  PROVE  LockOf(c) \in Locks
<1>1. op[c] \in Ops /\ at[c] \in Frames
  BY DEF Placed, Handling
<1>2. at[c] = "outer" => op[c] \in Singles \cup Schedules
  BY <1>1 DEF Placed, Ops
<1> QED
  BY <1>1, <1>2 DEF LockOf, Locks, Singles, Schedules, Frames

\* A step that leaves the locks alone and brings no call to or from its
\* registration.
LEMMA LockFrame ==
  ASSUME LockInv, UNCHANGED lock,
         \A d \in Calls : \/ pc'[d] = pc[d] /\ op'[d] = op[d] /\ at'[d] = at[d]
                          \/ pc[d] # "register" /\ pc'[d] # "register",
         TypeOK
  PROVE  (\A d \in Calls : Holds(d)') /\ (\A l \in Locks : Held(l)')
<1>0. None \notin Calls /\ lock \in [Locks -> Calls \cup {None}]
  BY DeviceIdAssumption DEF TypeOK
<1>1. ASSUME NEW d \in Calls, pc[d] = "register" \/ pc'[d] = "register"
      PROVE  LockOf(d)' = LockOf(d) /\ pc'[d] = pc[d]
  BY <1>1 DEF LockOf
<1>2. ASSUME NEW d \in Calls PROVE Holds(d)'
  BY <1>1, <1>2 DEF LockInv, Holds
<1>3. ASSUME NEW l \in Locks PROVE Held(l)'
  <2> SUFFICES ASSUME lock[l] # None PROVE pc'[lock[l]] = "register" /\ LockOf(lock[l])' = l
    BY DEF Held
  <2>1. lock[l] \in Calls /\ pc[lock[l]] = "register" /\ LockOf(lock[l]) = l
    BY <1>0, <1>3 DEF LockInv, Held
  <2> QED
    BY <1>1, <2>1
<1> QED
  BY <1>2, <1>3

\* A call that leaves its registration gives its lock back.
LEMMA ReleaseKeeps ==
  ASSUME TypeOK, LockInv, \A d \in Calls : Handling(d), NEW c \in Calls, pc[c] = "register", Release(c),
         pc'[c] # "register",
         \A d \in Calls \ {c} : pc'[d] = pc[d] /\ op'[d] = op[d] /\ at'[d] = at[d]
  PROVE  (\A d \in Calls : Holds(d)') /\ (\A l \in Locks : Held(l)')
<1>0. None \notin Calls /\ lock \in [Locks -> Calls \cup {None}] /\ LockOf(c) \in Locks
      /\ lock[LockOf(c)] = c
  BY DeviceIdAssumption, LockTypes DEF TypeOK, LockInv, Holds
<1>1. ASSUME NEW d \in Calls \ {c}
      PROVE  LockOf(d)' = LockOf(d) /\ (pc[d] = "register" => lock[LockOf(d)] = d)
  BY <1>1 DEF LockOf, LockInv, Holds
<1>2. ASSUME NEW d \in Calls PROVE Holds(d)'
  <2>1. CASE d = c
    BY <2>1 DEF Holds
  <2>2. CASE d # c
    <3> SUFFICES ASSUME pc[d] = "register" PROVE lock'[LockOf(d)] = d
      BY <1>1, <2>2 DEF Holds
    <3>1. lock[LockOf(d)] = d /\ LockOf(d) # LockOf(c)
      BY <1>0, <1>1, <2>2
    <3>2. LockOf(d) \in Locks
      BY LockTypes DEF LockInv
    <3> QED
      BY <1>0, <3>1, <3>2 DEF Release
  <2> QED
    BY <2>1, <2>2
<1>3. ASSUME NEW l \in Locks PROVE Held(l)'
  <2>1. CASE l = LockOf(c)
    BY <1>0, <2>1 DEF Release, Held
  <2>2. CASE l # LockOf(c)
    <3>1. lock'[l] = lock[l]
      BY <1>0, <2>2 DEF Release
    <3>2. lock[l] # None => lock[l] \in Calls \ {c} /\ pc[lock[l]] = "register" /\ LockOf(lock[l]) = l
      BY <1>0, <1>3, <2>2 DEF LockInv, Held
    <3> QED
      BY <1>1, <3>1, <3>2 DEF Held
  <2> QED
    BY <2>1, <2>2
<1> QED
  BY <1>2, <1>3

\* Where a DeviceIDError takes a call.
LEMMA RaiseOutcome ==
  ASSUME TypeOK, NEW c \in Calls, NEW fs \in SUBSET Frames, Raise(c, fs)
  PROVE  \/ pc'[c] = "done"
         \/ pc'[c] = "lock" /\ at'[c] \in fs \ retried[c] /\ UNCHANGED <<leg, polls, result>>
<1> DEFINE catching == fs \ retried[c]
           first == CHOOSE f \in catching : catching \ {f} \subseteq Outside(f)
<1>1. CASE Finish(c, "DeviceIDError")
  BY <1>1 DEF Finish, TypeOK
<1>2. CASE /\ catching # {}
           /\ at' = [at EXCEPT ![c] = first]
           /\ pc' = [pc EXCEPT ![c] = "lock"]
           /\ UNCHANGED <<leg, polls, result>>
  <2>1. first \in catching
    <3>1. catching \in SUBSET Frames /\ catching # {}
      BY <1>2
    <3> HIDE DEF catching
    <3> QED
      BY <3>1, Innermost
  <2> HIDE DEF first
  <2> QED
    BY <1>2, <2>1 DEF TypeOK
<1> QED
  BY <1>1, <1>2, Zenon DEF Raise

LEMMA LockStep ==
  ASSUME IInv, LockInv, NEW c \in Calls, Start(c) \/ Thread(c) \/ CarReports(c)
  PROVE  LockInv'
<1>0. TypeOK /\ (\A d \in Calls : Handling(d)) /\ Placed(c) /\ Holds(c)
  BY DEF IInv, CallInv, LockInv
<1>1. ASSUME NEW d \in Calls \ {c} PROVE Same(d)
  BY <1>1, OtherStep
<1>2. ASSUME Placed(c)', (\A d \in Calls : Holds(d)') /\ (\A l \in Locks : Held(l)')
      PROVE  LockInv'
  <2>1. \A d \in Calls \ {c} : Placed(d)'
    BY <1>1 DEF LockInv, Placed, Same
  <2> QED
    BY <1>2, <2>1 DEF LockInv
<1>3. ASSUME UNCHANGED lock, Placed(c)', pc[c] # "register", pc'[c] # "register" PROVE LockInv'
  BY <1>0, <1>1, <1>2, <1>3, LockFrame DEF Same
<1>4. ASSUME Release(c), Placed(c)', pc[c] = "register", pc'[c] # "register" PROVE LockInv'
  BY <1>0, <1>1, <1>2, <1>4, ReleaseKeeps DEF Same
<1>5. CASE Start(c)
  <2>1. PICK o \in Ops : Begin(c, o)
    BY <1>5 DEF Start, lock_action, start_climate, schedule_charging_and_climate,
                check_action_status, Ops, Singles, Schedules
  <2>2. pc[c] = "idle" /\ pc'[c] = "prepare" /\ op'[c] = o /\ leg'[c] = FirstLeg(o) /\ UNCHANGED lock
    BY <1>0, <2>1 DEF Begin, TypeOK
  <2>3. o \in {"check", "check_sync"} => FirstLeg(o) = "status"
    BY DEF FirstLeg, Singles
  <2> QED
    BY <1>3, <2>2, <2>3 DEF Placed
<1>6. CASE Prepare(c) \/ Send(c)
  <2>1. /\ pc[c] \in {"prepare", "post"} /\ pc'[c] \in {"post", "sent"}
        /\ UNCHANGED <<lock, op, leg, at>>
    BY <1>0, <1>6 DEF Prepare, Send, TypeOK, wrapper
  <2> QED
    BY <1>0, <1>3, <2>1 DEF Placed
<1>7. CASE \E r : UNCHANGED <<lock, op>> /\ pc[c] \in {"post", "sent"} /\ Finish(c, r)
  <2>1. pc'[c] = "done"
    BY <1>0, <1>7 DEF Finish, TypeOK
  <2> QED
    BY <1>0, <1>3, <1>7, <2>1 DEF Placed
<1>8. CASE DeviceIdRejected(c)
  <2>1. \/ pc'[c] = "done"
        \/ pc'[c] = "lock" /\ at'[c] \in Around(c) \ retried[c] /\ UNCHANGED <<leg, polls, result>>
    BY <1>0, <1>8, Wrappers, RaiseOutcome DEF DeviceIdRejected
  <2>2. pc[c] = "sent" /\ UNCHANGED <<lock, op>>
    BY <1>8 DEF DeviceIdRejected
  <2>3. op[c] \in {"check", "check_sync"} => "outer" \notin Around(c)
    BY <1>0, <2>2 DEF Placed, Around
  <2> QED
    BY <1>0, <1>3, <2>1, <2>2, <2>3 DEF Placed
<1>9. CASE \E l \in {"status", "hvac"} :
             /\ UNCHANGED <<lock, op>> /\ pc[c] = "sent"
             /\ GoOn(c, l) /\ (l = "hvac" => op[c] = "both")
  <2>1. PICK l \in {"status", "hvac"} : /\ UNCHANGED <<lock, op>> /\ pc[c] = "sent"
                                        /\ GoOn(c, l) /\ (l = "hvac" => op[c] = "both")
    BY <1>9
  <2>2. pc'[c] = "prepare" /\ leg'[c] = l
    BY <1>0, <2>1 DEF GoOn, TypeOK
  <2> QED
    BY <1>0, <1>3, <2>1, <2>2 DEF Placed
<1>10. CASE AcquireLock(c)
  <2>1. /\ pc[c] = "lock" /\ pc'[c] = "register" /\ LockOf(c)' = LockOf(c) /\ LockOf(c) \in Locks
        /\ lock[LockOf(c)] = None /\ lock' = [lock EXCEPT ![LockOf(c)] = c]
        /\ UNCHANGED <<op, leg, at>>
    BY <1>0, <1>10, LockTypes DEF AcquireLock, TypeOK, request, wrapper, LockOf
  <2>2. None \notin Calls /\ lock \in [Locks -> Calls \cup {None}]
    BY <1>0, DeviceIdAssumption DEF TypeOK
  <2>3. Placed(c)'
    BY <1>0, <2>1 DEF Placed
  <2>4. ASSUME NEW d \in Calls PROVE Holds(d)'
    <3>1. CASE d = c
      BY <2>1, <2>2, <3>1 DEF Holds
    <3>2. CASE d # c /\ pc[d] = "register"
      <4>1. LockOf(d)' = LockOf(d) /\ lock[LockOf(d)] = d
        BY <1>1, <3>2 DEF Same, LockOf, LockInv, Holds
      <4>2. LockOf(d) \in Locks
        BY <1>0, <3>2, LockTypes DEF LockInv
      <4> QED
        BY <2>1, <2>2, <4>1, <4>2 DEF Holds
    <3>3. CASE d # c /\ pc[d] # "register"
      BY <1>1, <3>3 DEF Same, Holds
    <3> QED
      BY <3>1, <3>2, <3>3
  <2>5. ASSUME NEW l \in Locks PROVE Held(l)'
    <3>1. CASE l = LockOf(c)
      BY <2>1, <2>2, <3>1 DEF Held
    <3>2. CASE l # LockOf(c)
      <4>1. lock'[l] = lock[l]
        BY <2>1, <2>2, <3>2
      <4>2. lock[l] # None => lock[l] \in Calls \ {c} /\ pc[lock[l]] = "register" /\ LockOf(lock[l]) = l
        BY <2>1, <2>2, <2>5 DEF LockInv, Held
      <4>3. \A d \in Calls \ {c} : pc'[d] = pc[d] /\ LockOf(d)' = LockOf(d)
        BY <1>1 DEF Same, LockOf
      <4> QED
        BY <4>1, <4>2, <4>3 DEF Held
    <3> QED
      BY <3>1, <3>2
  <2> QED
    BY <1>2, <2>3, <2>4, <2>5
<1>11. CASE RegisterOk(c)
  <2>1. /\ pc[c] = "register" /\ pc'[c] = "prepare" /\ Release(c) /\ UNCHANGED op
        /\ leg'[c] = (IF at[c] = "outer" THEN FirstLeg(op[c]) ELSE leg[c])
    BY <1>0, <1>11 DEF RegisterOk, RunAgain, GoOn, TypeOK
  <2> QED
    BY <1>0, <1>4, <2>1 DEF Placed
<1>12. CASE RegisterRejected(c)
  <2>1. Around(c) \cap Outside(at[c]) \in SUBSET Frames
    BY Wrappers
  <2>2. \/ pc'[c] = "done"
        \/ /\ pc'[c] = "lock" /\ at'[c] \in (Around(c) \cap Outside(at[c])) \ retried[c]
           /\ UNCHANGED <<leg, polls, result>>
    BY <1>0, <1>12, <2>1, RaiseOutcome DEF RegisterRejected
  <2>3. pc[c] = "register" /\ Release(c) /\ UNCHANGED op
    BY <1>12 DEF RegisterRejected
  <2>4. op[c] \in {"check", "check_sync"} => "outer" \notin Around(c)
    BY <1>0, <2>3 DEF Placed, Around
  <2> QED
    BY <1>0, <1>4, <2>2, <2>3, <2>4 DEF Placed
<1>13. CASE RegisterFails(c)
  <2>1. pc[c] = "register" /\ pc'[c] = "done" /\ Release(c) /\ UNCHANGED op
    BY <1>0, <1>13 DEF RegisterFails, Finish, TypeOK
  <2> QED
    BY <1>0, <1>4, <2>1 DEF Placed
<1>14. CASE CarReports(c)
  <2>1. UNCHANGED <<lock, op, pc, leg, at>>
    BY <1>14 DEF CarReports, request, wrapper
  <2> QED
    BY <1>0, <1>2, <2>1, LockFrame DEF Placed
<1>15. \/ OtherError(c) \/ SingleOk(c) \/ HvacOk(c) \/ HvacBusy(c) \/ StatusTimeout(c)
       \/ StatusNotDone(c) \/ ChargeOk(c) \/ StatusPending(c) \/ StatusSuccess(c)
       => LockInv'
  <2>1. OtherError(c) \/ SingleOk(c) \/ HvacOk(c) \/ HvacBusy(c) \/ StatusTimeout(c)
        \/ StatusNotDone(c) => LockInv'
    BY <1>7 DEF OtherError, SingleOk, HvacOk, HvacBusy, StatusTimeout, StatusNotDone, Answered
  <2>2. ChargeOk(c) => LockInv'
    BY <1>7, <1>9 DEF ChargeOk, Answered
  <2>3. StatusPending(c) => LockInv'
    BY <1>9 DEF StatusPending, Answered
  <2>4. StatusSuccess(c) => LockInv'
    BY <1>7, <1>9 DEF StatusSuccess, Answered
  <2> QED
    BY <2>1, <2>2, <2>3, <2>4
<1> QED
  BY <1>5, <1>6, <1>8, <1>10, <1>11, <1>12, <1>13, <1>14, <1>15 DEF Thread

LEMMA Locking == Spec => []LockInv
<1>1. Init => LockInv
  BY DEF Init, LockInv, Placed, Holds, Held
<1>2. IInv /\ LockInv /\ [Next]_vars => LockInv'
  <2> SUFFICES ASSUME IInv, LockInv, [Next]_vars PROVE LockInv'
    OBVIOUS
  <2>1. ASSUME NEW i \in 1..MaxId, CloudInvalidates(i) PROVE LockInv'
    <3>1. UNCHANGED <<lock, op, pc, leg, at>>
      BY <2>1 DEF CloudInvalidates, wrapper
    <3>2. \A c \in Calls : Placed(c)'
      BY <3>1 DEF LockInv, Placed
    <3> QED
      BY <3>1, <3>2, LockFrame DEF LockInv, IInv
  <2>2. CASE UNCHANGED vars
    <3>1. UNCHANGED <<lock, op, pc, leg, at>>
      BY <2>2 DEF vars, request, wrapper
    <3>2. \A c \in Calls : Placed(c)'
      BY <3>1 DEF LockInv, Placed
    <3> QED
      BY <3>1, <3>2, LockFrame DEF LockInv, IInv
  <2> QED
    BY <2>1, <2>2, LockStep DEF Next
<1> QED
  BY Inductive, <1>1, <1>2, PTL DEF Spec

\* No two calls re-register under one method's lock at a time, and a call
\* that waits for a lock holds none: it has left the wrapper inside with its
\* lock released.  Nobody can wait in a circle.
THEOREM LocksAreSafelyHeld == Spec => []LocksAreSafe
<1>1. LockInv => LocksAreSafe
  BY DEF LockInv, LocksAreSafe, Holds, Held
<1> QED
  BY Locking, <1>1, PTL

-----------------------------------------------------------------------------
(* A call has a bounded number of steps.                                    *)

\* The steps of one request; an error is handled from the inside out.
RequestSteps(c) ==
  CASE pc[c] = "prepare" -> 9
    [] pc[c] = "post" -> 8
    [] pc[c] = "sent" -> 7
    [] pc[c] = "lock" -> IF at[c] = "inner" THEN 6 ELSE IF at[c] = "sync" THEN 4 ELSE 2
    [] pc[c] = "register" -> IF at[c] = "inner" THEN 5 ELSE IF at[c] = "sync" THEN 3 ELSE 1
    [] OTHER -> 0

\* A poll is a request and its repeat; a loop of polls may be repeated by its
\* own wrapper and is one of the three requests of a schedule; the schedule
\* may be repeated by the outermost wrapper.
PollSteps == 20
LoopSteps == PollSteps * (MaxPolls + 1)

StepsLeft(c) ==
  IF pc[c] = "idle" THEN 12 * LoopSteps
  ELSE IF pc[c] = "done" THEN 0
  ELSE (IF "outer" \in retried[c] THEN 0 ELSE 6 * LoopSteps)
       + (IF leg[c] = "charge" THEN 4 * LoopSteps
          ELSE IF leg[c] = "status" THEN 2 * LoopSteps ELSE 0)
       + (IF "sync" \in retried[c] THEN 0 ELSE LoopSteps)
       + PollSteps * polls[c]
       + (IF "inner" \in retried[c] THEN 0 ELSE 10)
       + RequestSteps(c)

\* Every step is one of the cloud or of the car, or takes one call nearer to
\* its end and leaves the others where they are.
OneCallAdvances ==
  \/ \E c \in Calls : /\ StepsLeft(c)' < StepsLeft(c)
                      /\ \A d \in Calls \ {c} : StepsLeft(d)' = StepsLeft(d)
  \/ UNCHANGED <<lock, op, pc, leg, wrapper, polls, result, posted>>

LEMMA StepsLeftFrame ==
  ASSUME NEW d \in Calls, pc'[d] = pc[d], leg'[d] = leg[d], at'[d] = at[d],
         retried'[d] = retried[d], polls'[d] = polls[d]
  PROVE  StepsLeft(d)' = StepsLeft(d)
BY DEF StepsLeft, RequestSteps, LoopSteps, PollSteps

\* What OneCallAdvances needs to know of the other calls.
LEMMA OthersKeepPolls ==
  ASSUME IInv, NEW c \in Calls, Start(c) \/ Thread(c), NEW d \in Calls \ {c}
  PROVE  StepsLeft(d)' = StepsLeft(d)
<1>0. TypeOK
  BY DEF IInv
<1>1. polls'[d] = polls[d]
  <2>1. Start(c) => polls'[d] = polls[d]
    BY <1>0 DEF Start, lock_action, start_climate, schedule_charging_and_climate,
                check_action_status, Begin, TypeOK
  <2>2. \A r : Finish(c, r) => polls'[d] = polls[d]
    BY <1>0 DEF Finish, TypeOK
  <2>3. \A fs : Raise(c, fs) => polls'[d] = polls[d]
    BY <2>2 DEF Raise
  <2>4. Prepare(c) \/ Send(c) \/ AcquireLock(c) => polls'[d] = polls[d]
    BY DEF Prepare, Send, AcquireLock
  <2>5. OtherError(c) \/ SingleOk(c) \/ StatusTimeout(c) \/ StatusNotDone(c) \/ HvacOk(c)
        \/ HvacBusy(c) \/ RegisterFails(c) => polls'[d] = polls[d]
    BY <2>2 DEF OtherError, SingleOk, StatusTimeout, StatusNotDone, HvacOk, HvacBusy, RegisterFails
  <2>6. DeviceIdRejected(c) \/ RegisterRejected(c) => polls'[d] = polls[d]
    BY <2>3 DEF DeviceIdRejected, RegisterRejected
  <2>7. ChargeOk(c) \/ StatusPending(c) => polls'[d] = polls[d]
    BY <1>0, <2>2 DEF ChargeOk, StatusPending, TypeOK
  <2>8. StatusSuccess(c) => polls'[d] = polls[d]
    BY <2>2 DEF StatusSuccess
  <2>9. RegisterOk(c) => polls'[d] = polls[d]
    BY <1>0 DEF RegisterOk, RunAgain, TypeOK
  <2> QED
    BY <2>1, <2>4, <2>5, <2>6, <2>7, <2>8, <2>9 DEF Thread
<1> QED
  BY <1>1, OtherStep, StepsLeftFrame DEF Same

LEMMA StepsLeftRange ==
  ASSUME TypeOK, NEW c \in Calls
  PROVE  /\ LoopSteps \in Nat /\ LoopSteps = 20 * MaxPolls + 20
         /\ StepsLeft(c) \in 0..(12 * LoopSteps)
         /\ pc[c] \notin {"idle", "done"} =>
              /\ RequestSteps(c) \in 1..9
              /\ StepsLeft(c) \in 1..(12 * LoopSteps - 1)
<1>1. LoopSteps \in Nat /\ LoopSteps = 20 * MaxPolls + 20 /\ polls[c] \in 0..MaxPolls /\ pc[c] \in PCs
      /\ MaxPolls \in Nat /\ PollSteps = 20
  BY DeviceIdAssumption DEF LoopSteps, PollSteps, TypeOK
<1>2. pc[c] \notin {"idle", "done"} => RequestSteps(c) \in 1..9
  BY <1>1 DEF RequestSteps, PCs
<1> QED
  BY <1>1, <1>2 DEF StepsLeft

LEMMA StepAdvances ==
  ASSUME IInv, TypeOK', NEW c \in Calls, Start(c) \/ Thread(c)
  PROVE  StepsLeft(c)' < StepsLeft(c)
<1>0. /\ TypeOK /\ Handling(c)
      /\ LoopSteps \in Nat /\ LoopSteps = 20 * MaxPolls + 20 /\ PollSteps = 20
      /\ polls[c] \in 0..MaxPolls /\ polls'[c] \in 0..MaxPolls /\ MaxPolls \in Nat
  BY DeviceIdAssumption DEF IInv, CallInv, TypeOK, LoopSteps, PollSteps
<1>a. pc[c] \notin {"idle", "done"} => RequestSteps(c) \in 1..9 /\ StepsLeft(c) > 0
  BY <1>0, StepsLeftRange
<1>b. /\ pc'[c] = "done" => StepsLeft(c)' = 0
      /\ pc'[c] \notin {"idle", "done"} =>
           StepsLeft(c)' = (IF "outer" \in retried'[c] THEN 0 ELSE 6 * LoopSteps)
                           + (IF leg'[c] = "charge" THEN 4 * LoopSteps
                              ELSE IF leg'[c] = "status" THEN 2 * LoopSteps ELSE 0)
                           + (IF "sync" \in retried'[c] THEN 0 ELSE LoopSteps)
                           + 20 * polls'[c]
                           + (IF "inner" \in retried'[c] THEN 0 ELSE 10)
                           + RequestSteps(c)'
  BY DEF StepsLeft, LoopSteps, PollSteps
<1>c. pc[c] \notin {"idle", "done"} =>
        StepsLeft(c) = (IF "outer" \in retried[c] THEN 0 ELSE 6 * LoopSteps)
                       + (IF leg[c] = "charge" THEN 4 * LoopSteps
                          ELSE IF leg[c] = "status" THEN 2 * LoopSteps ELSE 0)
                       + (IF "sync" \in retried[c] THEN 0 ELSE LoopSteps)
                       + 20 * polls[c]
                       + (IF "inner" \in retried[c] THEN 0 ELSE 10)
                       + RequestSteps(c)
  BY DEF StepsLeft, PollSteps
<1>d. pc'[c] = "prepare" => RequestSteps(c)' = 9
  BY DEF RequestSteps
<1>s. pc[c] = "sent" => RequestSteps(c) = 7
  BY DEF RequestSteps
\* The call ends.
<1>1. ASSUME NEW r, Finish(c, r), pc[c] \notin {"idle", "done"}
      PROVE  StepsLeft(c)' < StepsLeft(c)
  <2>1. pc'[c] = "done"
    BY <1>0, <1>1 DEF Finish, TypeOK
  <2> QED
    BY <1>a, <1>b, <1>1, <2>1
\* The call stays in its request.
<1>2. ASSUME UNCHANGED <<leg, polls, retried>>, pc[c] \notin {"idle", "done"},
             pc'[c] \notin {"idle", "done"}, RequestSteps(c)' < RequestSteps(c),
             RequestSteps(c)' \in Nat
      PROVE  StepsLeft(c)' < StepsLeft(c)
  BY <1>0, <1>a, <1>b, <1>c, <1>2
<1>3. CASE Start(c)
  <2>1. PICK o \in Ops : Begin(c, o)
    BY <1>3 DEF Start, lock_action, start_climate, schedule_charging_and_climate,
                check_action_status, Ops, Singles, Schedules
  <2>2. pc[c] = "idle" /\ pc'[c] = "prepare" /\ retried'[c] = {} /\ retried[c] = {}
    BY <1>0, <2>1 DEF Begin, TypeOK, wrapper, Handling
  <2>3. StepsLeft(c) = 12 * LoopSteps
    BY <2>2 DEF StepsLeft
  <2> QED
    BY <1>0, <1>b, <1>d, <2>2, <2>3
<1>4. CASE Prepare(c) \/ Send(c) \/ AcquireLock(c)
  <2>1. UNCHANGED <<leg, polls, retried, at>>
    BY <1>4 DEF Prepare, Send, AcquireLock, wrapper, request
  <2>2. \/ pc[c] = "prepare" /\ pc'[c] = "post"
        \/ pc[c] = "post" /\ pc'[c] = "sent"
        \/ pc[c] = "lock" /\ pc'[c] = "register"
    BY <1>0, <1>4 DEF Prepare, Send, AcquireLock, TypeOK
  <2>3. RequestSteps(c)' < RequestSteps(c) /\ RequestSteps(c)' \in Nat
    BY <2>1, <2>2 DEF RequestSteps
  <2> QED
    BY <1>2, <2>1, <2>2, <2>3
<1>5. CASE DeviceIdRejected(c)
  <2>1. \/ pc'[c] = "done"
        \/ pc'[c] = "lock" /\ at'[c] \in Around(c) \ retried[c] /\ UNCHANGED <<leg, polls, result>>
    BY <1>0, <1>5, Wrappers, RaiseOutcome DEF DeviceIdRejected
  <2>2. pc[c] = "sent" /\ UNCHANGED retried
    BY <1>5 DEF DeviceIdRejected
  <2>3. pc'[c] = "lock" => RequestSteps(c)' < RequestSteps(c) /\ RequestSteps(c)' \in Nat
    BY <1>s, <2>2 DEF RequestSteps
  <2> QED
    BY <1>a, <1>b, <1>2, <2>1, <2>2, <2>3
<1>6. CASE RegisterRejected(c)
  <2>1. Around(c) \cap Outside(at[c]) \in SUBSET Frames
    BY Wrappers
  <2>2. \/ pc'[c] = "done"
        \/ /\ pc'[c] = "lock" /\ at'[c] \in (Around(c) \cap Outside(at[c])) \ retried[c]
           /\ UNCHANGED <<leg, polls, result>>
    BY <1>0, <1>6, <2>1, RaiseOutcome DEF RegisterRejected
  <2>3. pc[c] = "register" /\ UNCHANGED retried /\ at[c] \in Frames
    BY <1>0, <1>6 DEF RegisterRejected, Handling
  <2>4. pc'[c] = "lock" => RequestSteps(c)' < RequestSteps(c) /\ RequestSteps(c)' \in Nat
    BY <2>2, <2>3 DEF RequestSteps, Outside, Frames
  <2> QED
    BY <1>a, <1>b, <1>2, <2>2, <2>3, <2>4
<1>7. CASE ChargeOk(c) /\ GoOn(c, "status")
  <2>1. /\ pc[c] = "sent" /\ leg[c] = "charge" /\ pc'[c] = "prepare" /\ leg'[c] = "status"
        /\ UNCHANGED retried
    BY <1>0, <1>7 DEF ChargeOk, Answered, GoOn, TypeOK
  <2> QED
    BY <1>0, <1>b, <1>c, <1>d, <1>s, <2>1
<1>8. CASE StatusPending(c)
  <2>1. /\ pc[c] = "sent" /\ leg[c] = "status" /\ pc'[c] = "prepare" /\ leg'[c] = "status"
        /\ polls'[c] = polls[c] - 1 /\ retried'[c] = retried[c] \ {"inner"}
    BY <1>0, <1>8 DEF StatusPending, Answered, GoOn, TypeOK
  <2> QED
    BY <1>0, <1>b, <1>c, <1>d, <1>s, <2>1
<1>9. CASE StatusSuccess(c) /\ GoOn(c, "hvac") /\ retried' = [retried EXCEPT ![c] = @ \cap {"outer"}]
           /\ UNCHANGED polls
  <2>1. /\ pc[c] = "sent" /\ leg[c] = "status" /\ pc'[c] = "prepare" /\ leg'[c] = "hvac"
        /\ polls'[c] = polls[c] /\ ("outer" \in retried'[c] <=> "outer" \in retried[c])
    BY <1>0, <1>9 DEF StatusSuccess, Answered, GoOn, TypeOK
  <2> QED
    BY <1>0, <1>b, <1>c, <1>d, <1>s, <2>1
<1>10. CASE RegisterOk(c)
  <2>1. /\ pc[c] = "register" /\ pc'[c] = "prepare"
        /\ leg'[c] = (IF at[c] = "outer" THEN FirstLeg(op[c]) ELSE leg[c])
        /\ polls'[c] = (IF at[c] = "sync" THEN MaxPolls ELSE polls[c])
        /\ retried'[c] = {f \in retried[c] : f \in Outside(at[c])} \cup {at[c]}
    BY <1>0, <1>10 DEF RegisterOk, RunAgain, GoOn, TypeOK
  <2>2. at[c] \in Frames /\ at[c] \notin retried[c]
    BY <1>0, <2>1 DEF Handling
  <2>3. CASE at[c] = "inner"
    <3>1. RequestSteps(c) = 5
      BY <2>1, <2>3 DEF RequestSteps
    <3>2. /\ "inner" \in retried'[c] /\ "inner" \notin retried[c]
          /\ "sync" \in retried'[c] <=> "sync" \in retried[c]
          /\ "outer" \in retried'[c] <=> "outer" \in retried[c]
      BY <2>1, <2>2, <2>3 DEF Outside
    <3>3. leg'[c] = leg[c] /\ polls'[c] = polls[c]
      BY <2>1, <2>3
    <3> QED
      BY <1>0, <1>b, <1>c, <1>d, <2>1, <3>1, <3>2, <3>3
  <2>4. CASE at[c] = "sync"
    <3>1. RequestSteps(c) = 3
      BY <2>1, <2>4 DEF RequestSteps
    <3>2. /\ "sync" \in retried'[c] /\ "sync" \notin retried[c]
          /\ "outer" \in retried'[c] <=> "outer" \in retried[c]
      BY <2>1, <2>2, <2>4 DEF Outside
    <3>3. leg'[c] = leg[c] /\ polls'[c] = MaxPolls
      BY <2>1, <2>4
    <3> QED
      BY <1>0, <1>b, <1>c, <1>d, <2>1, <3>1, <3>2, <3>3
  <2>5. CASE at[c] = "outer"
    <3>1. "outer" \in retried'[c] /\ "outer" \notin retried[c]
      BY <2>1, <2>2, <2>5
    <3> QED
      BY <1>0, <1>a, <1>b, <1>c, <1>d, <2>1, <3>1
  <2> QED
    BY <2>2, <2>3, <2>4, <2>5 DEF Frames
<1>11. \/ OtherError(c) \/ SingleOk(c) \/ HvacOk(c) \/ HvacBusy(c) \/ StatusTimeout(c)
       \/ StatusNotDone(c) \/ RegisterFails(c)
       => StepsLeft(c)' < StepsLeft(c)
  BY <1>1 DEF OtherError, SingleOk, HvacOk, HvacBusy, StatusTimeout, StatusNotDone,
              RegisterFails, Answered
<1>12. ChargeOk(c) => StepsLeft(c)' < StepsLeft(c)
  BY <1>1, <1>7 DEF ChargeOk, Answered
<1>13. StatusSuccess(c) => StepsLeft(c)' < StepsLeft(c)
  BY <1>1, <1>9 DEF StatusSuccess, Answered
<1> QED
  BY <1>3, <1>4, <1>5, <1>6, <1>8, <1>10, <1>11, <1>12, <1>13 DEF Thread

\* However the three wrappers and the loop of polls nest, and whatever other
\* calls, the cloud and the car do meanwhile, a call takes at most
\* 12 * 20 * (MaxPolls + 1) steps: no cloud that rejects every id makes a
\* thread go round for ever.
THEOREM CallsAreShort ==
  Spec => /\ [](\A c \in Calls : StepsLeft(c) \in 0..(12 * LoopSteps))
          /\ [][OneCallAdvances]_vars
<1>1. IInv => \A c \in Calls : StepsLeft(c) \in 0..(12 * LoopSteps)
  BY StepsLeftRange DEF IInv
<1>2. IInv /\ [Next]_vars => [OneCallAdvances]_vars
  <2> SUFFICES ASSUME IInv, Next PROVE OneCallAdvances
    OBVIOUS
  <2>1. TypeOK'
    BY TypeStep DEF IInv, CallInv
  <2>2. ASSUME NEW c \in Calls, Start(c) \/ Thread(c) PROVE OneCallAdvances
    BY <2>1, <2>2, StepAdvances, OthersKeepPolls DEF OneCallAdvances
  <2>3. ASSUME NEW c \in Calls, CarReports(c) PROVE OneCallAdvances
    BY <2>3 DEF CarReports, request, OneCallAdvances
  <2>4. ASSUME NEW i \in 1..MaxId, CloudInvalidates(i) PROVE OneCallAdvances
    BY <2>4 DEF CloudInvalidates, OneCallAdvances
  <2> QED
    BY <2>2, <2>3, <2>4 DEF Next
<1> QED
  BY Inductive, <1>1, <1>2, PTL DEF Spec
=============================================================================
