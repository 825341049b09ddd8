-------------------------- MODULE ControlTokenProofs --------------------------
(***************************************************************************)
(* Proofs about ControlToken, for any number of commands, control tokens   *)
(* and PIN tries: a command acts at most once, a PIN try is never lost     *)
(* silently, a command of the CCI client that runs alone survives one      *)
(* revoked control token, and no command tries a third time.               *)
(***************************************************************************)
EXTENDS ControlToken, FiniteSetTheorems, TLAPS

\* The cloud has acted on a command only if it is over or has the answer, and
\* only a command that is over has a result.
Acts(c) ==
  /\ effects[c] = 1 => pc[c] = "done" \/ (pc[c] = "sent" /\ answer[c] = "accepted")
  /\ answer[c] = "accepted" => effects[c] = 1
  /\ pc[c] # "done" => result[c] = None
  /\ pc[c] = "idle" => answer[c] = None

\* A command that no other one overlaps is the only one.
Alone(c) ==
  client = "CCI" /\ Active(c) /\ ~ overlapped[c] => \A d \in Calls \ {c} : ~ Active(d)

\* The second attempt of a command that runs alone comes after a revocation,
\* finds the cache empty and gets a token that is not revoked, unless another is.
FirstAttempt(c) ==
  /\ pc[c] \in {"store", "cached"} => control # None
  /\ pc[c] = "sent" => got[c] # None
  /\ answer[c] = "401" \/ pc[c] = "invalidate" => revoked = 1
  /\ pc[c] = "invalidate" => control = None

LastAttempt(c) ==
  /\ revoked = 1
  /\ pc[c] \in {"header", "pin"} => control = None
  /\ pc[c] \in {"store", "cached"} => control \in 1..MaxToken
  /\ pc[c] = "sent" => got[c] \in 1..MaxToken
  /\ answer[c] # "401" /\ pc[c] # "invalidate"

Attempt(c) ==
  /\ answer[c] # "device"
  /\ ~ gated[c] => pc[c] \in {"header", "sent"} /\ answer[c] # "401"
  /\ gated[c] /\ ~ last[c] => FirstAttempt(c)
  /\ gated[c] /\ last[c] => LastAttempt(c)

Solo(c) ==
  client = "CCI" /\ ccs /\ revoked <= 1 /\ Active(c) /\ ~ overlapped[c] => Attempt(c)

\* A token that is not accepted any more was revoked.
RevokedAreCounted ==
  client = "CCI" /\ (control = 0 \/ \E c \in Calls : got[c] = 0) => revoked # 0

CommandInv(c) == Acts(c) /\ Alone(c) /\ Solo(c)

IInv == TypeOK /\ RevokedAreCounted /\ TriesAreReported /\ \A c \in Calls : CommandInv(c)

-----------------------------------------------------------------------------
(* The tables of commands.                                                  *)

LEMMA BooleanUses ==
  /\ Uses(Type1Charging) \subseteq BOOLEAN /\ Uses(Type1Doors) \subseteq BOOLEAN
  /\ Uses(Type1Climate) \subseteq BOOLEAN /\ Uses(Type1Others) \subseteq BOOLEAN
  /\ Uses(AustralianCommands) \subseteq BOOLEAN /\ Uses(IndianCommands) \subseteq BOOLEAN
  /\ Uses(ChineseCommands) \subseteq BOOLEAN /\ Uses(BrazilianCommands) \subseteq BOOLEAN
<1>0. ASSUME NEW D, NEW table \in [D -> SUBSET BOOLEAN] PROVE Uses(table) \subseteq BOOLEAN
  BY DEF Uses
<1>1. Bearer \in SUBSET BOOLEAN /\ Pin \in SUBSET BOOLEAN /\ ByProtocol \in SUBSET BOOLEAN
  BY DEF Bearer, Pin, ByProtocol
<1> HIDE DEF Bearer, Pin, ByProtocol
<1>2. Type1Charging \in [DOMAIN Type1Charging -> SUBSET BOOLEAN]
  BY <1>1 DEF Type1Charging
<1>3. Type1Doors \in [DOMAIN Type1Doors -> SUBSET BOOLEAN]
  BY <1>1 DEF Type1Doors
<1>4. Type1Climate \in [DOMAIN Type1Climate -> SUBSET BOOLEAN]
  BY <1>1 DEF Type1Climate
<1>5. Type1Others \in [DOMAIN Type1Others -> SUBSET BOOLEAN]
  BY <1>1 DEF Type1Others
<1>6. AustralianCommands \in [DOMAIN AustralianCommands -> SUBSET BOOLEAN]
  BY <1>1 DEF AustralianCommands
<1>7. IndianCommands \in [DOMAIN IndianCommands -> SUBSET BOOLEAN]
  BY <1>1 DEF IndianCommands
<1>8. ChineseCommands \in [DOMAIN ChineseCommands -> SUBSET BOOLEAN]
  BY <1>1 DEF ChineseCommands
<1>9. BrazilianCommands \in [DOMAIN BrazilianCommands -> SUBSET BOOLEAN]
  BY <1>1 DEF BrazilianCommands
<1> QED
  BY <1>0, <1>2, <1>3, <1>4, <1>5, <1>6, <1>7, <1>8, <1>9

LEMMA CommandTypes ==
  ASSUME client \in Clients, NEW command \in Commands[client]
  PROVE  /\ command.gated \in BOOLEAN /\ command.repeats \in BOOLEAN
         /\ client = "CCI" => command.repeats = command.gated
<1>1. CASE client = "CCI"
  <2>1. PICK g \in BOOLEAN : command = Command(g, g)
    <3>1. Commands[client] = Commands.CCI
      BY <1>1
    <3>2. \A e : (e \notin GSPA_BEARER_ENDPOINTS) \in BOOLEAN
      OBVIOUS
    <3> QED
      BY <3>1, <3>2 DEF Commands
  <2> QED
    BY <2>1 DEF Command
<1>2. CASE client = "Type1"
  <2>1. PICK g \in BOOLEAN, r \in BOOLEAN : command = Command(g, r)
    BY <1>2, BooleanUses DEF Commands
  <2> QED
    BY <1>2, <2>1 DEF Command
<1>3. CASE client = "BR"
  <2>1. PICK g \in BOOLEAN : command = Command(g, FALSE)
    BY <1>3, BooleanUses DEF Commands
  <2> QED
    BY <1>3, <2>1 DEF Command
<1> QED
  BY <1>1, <1>2, <1>3, ControlAssumption
-----------------------------------------------------------------------------
(* Type correctness.                                                        *)

LEMMA FinishTypes ==
  ASSUME TypeOK, NEW c \in Calls, NEW r \in Results, Finish(c, r)
  PROVE  /\ pc' \in [Calls -> PCs] /\ result' \in [Calls -> Results \cup {None}]
         /\ gated' \in [Calls -> BOOLEAN] /\ overlapped' \in [Calls -> BOOLEAN]
         /\ last' \in [Calls -> BOOLEAN] /\ got' \in [Calls -> Tokens \cup {None}]
         /\ answer' \in [Calls -> Answers \cup {None}]
BY DEF Finish, Goto, Reset, TypeOK, PCs

LEMMA AttemptTypes ==
  ASSUME TypeOK, NEW c \in Calls, SecondAttempt(c)
  PROVE  /\ pc' \in [Calls -> PCs]
         /\ last' \in [Calls -> BOOLEAN] /\ got' \in [Calls -> Tokens \cup {None}]
         /\ answer' \in [Calls -> Answers \cup {None}]
BY DEF SecondAttempt, Goto, Reset, TypeOK, PCs

LEMMA TypeStep ==
  ASSUME TypeOK, \A c \in Calls : Acts(c), [Next]_vars
  PROVE  TypeOK'
<1>0. None \notin Tokens /\ 0 \in Tokens /\ 1..MaxToken \subseteq Tokens /\ PinTries \in 0..PinTries
  BY ControlAssumption DEF Tokens
<1>t. TryGone \in 0..PinTries
  BY ControlAssumption DEF TryGone, TypeOK
<1>1. ASSUME NEW c \in Calls, Begin(c) PROVE TypeOK'
  <2>1. overlapped' \in [Calls -> BOOLEAN]
    <3>1. \A d \in Calls : (overlapped[d] \/ d \in Overlaps(c)) \in BOOLEAN
      OBVIOUS
    <3> QED
      BY <1>1, <3>1, Zenon DEF Begin
  <2>2. PICK command \in Commands[client] :
          /\ gated' = [gated EXCEPT ![c] = command.gated]
          /\ last' = [last EXCEPT ![c] = ~ command.repeats]
    BY <1>1 DEF Begin
  <2>3. gated' \in [Calls -> BOOLEAN] /\ last' \in [Calls -> BOOLEAN]
    <3>1. command.gated \in BOOLEAN /\ (~ command.repeats) \in BOOLEAN
      BY CommandTypes DEF TypeOK
    <3> QED
      BY <2>2, <3>1, Zenon DEF TypeOK
  <2> QED
    BY <1>1, <2>1, <2>3 DEF Begin, Goto, TypeOK, PCs, cache, server
<1>2. ASSUME NEW c \in Calls, NEW r \in Results, Finish(c, r), UNCHANGED <<client, cache, effects, revoked>>,
             remain' \in 0..PinTries, UNCHANGED <<pinRight, ccs>>
      PROVE  TypeOK'
  BY <1>2, FinishTypes DEF TypeOK, cache
<1>3. ASSUME NEW c \in Calls, \/ CommandRefused(c) \/ HeadersFail(c) \/ CommandOk(c)
                              \/ AuthenticationFails(c) \/ NoUsableAnswer(c)
      PROVE TypeOK'
  BY <1>2, <1>3 DEF CommandRefused, HeadersFail, CommandOk, AuthenticationFails, NoUsableAnswer,
                    Results, server, TypeOK
<1>4. ASSUME NEW c \in Calls, PinRefused(c) \/ PinUnanswered(c) PROVE TypeOK'
  <2>1. remain' \in 0..PinTries
    BY <1>0, <1>t, <1>4 DEF PinRefused, PinUnanswered, TypeOK
  <2> QED
    BY <1>2, <1>4, <2>1 DEF PinRefused, PinUnanswered, Results
<1>5. ASSUME NEW c \in Calls, BearerHeaders(c) \/ CheckCache(c) \/ DropToken(c) PROVE TypeOK'
  BY <1>5 DEF BearerHeaders, CheckCache, DropToken, Goto, TypeOK, PCs, cache, server, request, history
<1>6. ASSUME NEW c \in Calls, ReadCache(c) PROVE TypeOK'
  BY <1>6 DEF ReadCache, Goto, TypeOK, PCs, cache, server, history
<1>7. ASSUME NEW c \in Calls, PinMatched(c) PROVE TypeOK'
  BY <1>0, <1>7 DEF PinMatched, Goto, TypeOK, PCs, history
<1>8. ASSUME NEW c \in Calls, StoreExpiry(c) PROVE TypeOK'
  BY <1>8 DEF StoreExpiry, Goto, TypeOK, PCs, server, request, history
<1>9. ASSUME NEW c \in Calls, DropExpiry(c) \/ RunAgain(c) PROVE TypeOK'
  BY <1>9, AttemptTypes DEF DropExpiry, RunAgain, TypeOK, cache, server, history
<1>10. ASSUME NEW c \in Calls, CloudAnswers(c) PROVE TypeOK'
  <2>1. answer[c] = None /\ pc[c] = "sent"
    BY <1>10 DEF CloudAnswers, At
  <2>2. effects[c] = 0
    BY <2>1, ControlAssumption DEF Acts, TypeOK
  <2> QED
    BY <1>10, <2>2 DEF CloudAnswers, TypeOK, cache, server
<1>11. ASSUME NEW i \in 1..MaxToken, CloudRevokes(i) PROVE TypeOK'
  BY <1>0, <1>11 DEF CloudRevokes, TypeOK, server
<1>12. CASE CloudUnlocksPin
  BY <1>0, <1>12 DEF CloudUnlocksPin, TypeOK, cache, request, history
<1>13. CASE ExpiryPasses
  BY <1>13 DEF ExpiryPasses, TypeOK, server, request, history
<1>14. CASE UNCHANGED vars
  BY <1>14 DEF vars, cache, server, request, history, TypeOK
<1> QED
  BY <1>1, <1>3, <1>4, <1>5, <1>6, <1>7, <1>8, <1>9, <1>10, <1>11, <1>12, <1>13, <1>14
     DEF Next, Thread

-----------------------------------------------------------------------------
(* One step of a command.                                                   *)

Step(c) ==
  \/ CommandRefused(c)
  \/ BearerHeaders(c) \/ CheckCache(c) \/ ReadCache(c)
  \/ PinMatched(c) \/ StoreExpiry(c) \/ PinRefused(c) \/ PinUnanswered(c)
  \/ HeadersFail(c)
  \/ CommandOk(c) \/ DropToken(c) \/ DropExpiry(c)
  \/ AuthenticationFails(c) \/ RunAgain(c) \/ NoUsableAnswer(c) \/ CloudAnswers(c)

\* A step that ends the command, and the result it ends with.
Ending(c, r) ==
  \/ CommandOk(c) /\ r = "ok"
  \/ (CommandRefused(c) \/ AuthenticationFails(c)) /\ r = "auth"
  \/ PinRefused(c) /\ r = "pin"
  \/ (CommandRefused(c) \/ PinUnanswered(c) \/ HeadersFail(c) \/ NoUsableAnswer(c)) /\ r = "raised"

\* Any other step.
Going(c) ==
  \/ BearerHeaders(c) \/ CheckCache(c) \/ ReadCache(c) \/ PinMatched(c) \/ StoreExpiry(c)
  \/ DropToken(c) \/ DropExpiry(c) \/ RunAgain(c) \/ CloudAnswers(c)

Same(d) ==
  /\ pc'[d] = pc[d] /\ gated'[d] = gated[d] /\ last'[d] = last[d] /\ got'[d] = got[d]
  /\ answer'[d] = answer[d] /\ result'[d] = result[d] /\ effects'[d] = effects[d]
  /\ overlapped'[d] = overlapped[d]

LEMMA StepKinds ==
  ASSUME NEW c \in Calls, Step(c)
  PROVE  \/ \E r \in Results : Ending(c, r) /\ Finish(c, r)
         \/ Going(c)
BY DEF Step, Ending, Going, CommandRefused, PinRefused, PinUnanswered, HeadersFail, CommandOk,
       AuthenticationFails, NoUsableAnswer, Results

LEMMA EndingStep ==
  ASSUME TypeOK, NEW c \in Calls, NEW r \in Results, Ending(c, r), Finish(c, r)
  PROVE  /\ Active(c) /\ UNCHANGED <<client, control, fresh, pinRight, ccs, effects, revoked>>
         /\ pc'[c] = "done" /\ result'[c] = r /\ answer'[c] = None /\ got'[c] = None
         /\ r = "ok" => pc[c] = "sent" /\ answer[c] = "accepted"
         /\ r \notin {"pin", "raised"} => remain' = remain
         /\ remain' # remain => remain' \in {TryGone, PinTries}
         /\ \A d \in Calls \ {c} : Same(d)
<1>1. /\ Active(c) /\ UNCHANGED <<client, control, fresh, pinRight, ccs, effects, revoked>>
      /\ r = "ok" => pc[c] = "sent" /\ answer[c] = "accepted"
      /\ r \notin {"pin", "raised"} => remain' = remain
      /\ remain' # remain => remain' \in {TryGone, PinTries}
  BY DEF Ending, CommandRefused, PinRefused, PinUnanswered, HeadersFail, CommandOk,
         AuthenticationFails, NoUsableAnswer, Unauthorized, Active, At, cache, server
<1>2. pc'[c] = "done" /\ result'[c] = r /\ answer'[c] = None /\ got'[c] = None
  BY DEF Finish, Goto, Reset, TypeOK
<1>3. ASSUME NEW d \in Calls \ {c} PROVE Same(d)
  BY <1>1, <1>3 DEF Finish, Goto, Reset, TypeOK, Same
<1> QED
  BY <1>1, <1>2, <1>3

LEMMA GoingStep ==
  ASSUME TypeOK, NEW c \in Calls, Going(c)
  PROVE  /\ Active(c) /\ UNCHANGED <<client, pinRight, ccs, result, overlapped, revoked, gated>>
         /\ Active(c)'
         /\ remain' \in {remain, PinTries}
         /\ \A d \in Calls \ {c} : Same(d)
<1>1. CASE BearerHeaders(c) \/ CheckCache(c) \/ ReadCache(c) \/ StoreExpiry(c) \/ DropToken(c)
  BY <1>1 DEF BearerHeaders, CheckCache, ReadCache, StoreExpiry, DropToken, Unauthorized, At, Goto,
              Active, Same, TypeOK, cache, server, request, history
<1>2. CASE PinMatched(c)
  BY <1>2 DEF PinMatched, At, Goto, Active, Same, TypeOK, history
<1>3. CASE DropExpiry(c) \/ RunAgain(c)
  BY <1>3 DEF DropExpiry, RunAgain, SecondAttempt, Reset, At, Goto, Active, Same, TypeOK,
              cache, server, history
<1>4. CASE CloudAnswers(c)
  BY <1>4 DEF CloudAnswers, At, Active, Same, TypeOK, cache, server
<1> QED
  BY <1>1, <1>2, <1>3, <1>4 DEF Going

LEMMA GoingActs ==
  ASSUME IInv, NEW c \in Calls, Going(c)
  PROVE  Acts(c)'
<1>0. TypeOK /\ Acts(c) /\ Active(c) /\ result[c] = None /\ effects[c] \in 0..1
  BY GoingStep DEF IInv, CommandInv, Acts, Active, TypeOK
<1>n. None \notin {"accepted", "401", "device"}
  BY ControlAssumption
<1>1. CASE BearerHeaders(c) \/ CheckCache(c) \/ ReadCache(c) \/ StoreExpiry(c) \/ DropToken(c)
  BY <1>0, <1>1 DEF BearerHeaders, CheckCache, ReadCache, StoreExpiry, DropToken, Unauthorized, At,
              Goto, Acts, TypeOK, cache, server, request, history
<1>2. CASE PinMatched(c)
  BY <1>0, <1>2 DEF PinMatched, At, Goto, Acts, TypeOK, history
<1>3. CASE DropExpiry(c) \/ RunAgain(c)
  BY <1>0, <1>3, <1>n DEF DropExpiry, RunAgain, SecondAttempt, Reset, At, Goto, Acts, TypeOK, history
<1>4. CASE CloudAnswers(c)
  BY <1>0, <1>4, <1>n DEF CloudAnswers, At, Acts, TypeOK
<1> QED
  BY <1>1, <1>2, <1>3, <1>4 DEF Going

LEMMA GoingSolo ==
  ASSUME IInv, NEW c \in Calls, Going(c)
  PROVE  Solo(c)'
<1>0. /\ TypeOK /\ RevokedAreCounted
      /\ UNCHANGED <<client, ccs, overlapped, revoked, gated>> /\ Active(c)
  BY GoingStep DEF IInv
<1>n. None \notin {"accepted", "401", "device", "failed"} \cup Tokens /\ Tokens = {0} \cup 1..MaxToken
  BY ControlAssumption DEF Tokens
<1> SUFFICES ASSUME client = "CCI", ccs, revoked <= 1, ~ overlapped[c] PROVE Attempt(c)'
  BY <1>0 DEF Solo
<1>i. Attempt(c)
  BY <1>0 DEF IInv, CommandInv, Solo
<1>r. revoked \in 0..1 /\ (control = 0 \/ got[c] = 0 => revoked = 1)
  BY <1>0 DEF RevokedAreCounted, TypeOK
<1>1. CASE BearerHeaders(c) \/ CheckCache(c)
  <2>1. /\ pc[c] = "header" /\ UNCHANGED <<control, got, answer, last>>
        /\ \/ ~ gated[c] /\ pc'[c] = "sent"
           \/ gated[c] /\ control # None /\ pc'[c] = "cached"
           \/ gated[c] /\ pc'[c] = "pin"
    BY <1>0, <1>1 DEF BearerHeaders, CheckCache, At, Goto, TypeOK, cache, request, history
  <2> QED
    BY <1>0, <1>i, <2>1 DEF Attempt, FirstAttempt, LastAttempt
<1>2. CASE ReadCache(c)
  <2>1. /\ pc[c] = "cached" /\ pc'[c] = "sent" /\ got'[c] = control
        /\ UNCHANGED <<control, answer, last>>
    BY <1>0, <1>2 DEF ReadCache, At, Goto, TypeOK, cache
  <2> QED
    BY <1>0, <1>i, <2>1 DEF Attempt, FirstAttempt, LastAttempt
<1>3. CASE PinMatched(c)
  <2>1. /\ pc[c] = "pin" /\ pc'[c] = "store" /\ control' \in 1..MaxToken
        /\ UNCHANGED <<got, answer, last>>
    BY <1>0, <1>3 DEF PinMatched, At, Goto, TypeOK
  <2> QED
    BY <1>0, <1>n, <1>i, <2>1 DEF Attempt, FirstAttempt, LastAttempt
<1>4. CASE StoreExpiry(c)
  <2>1. /\ pc[c] = "store" /\ pc'[c] = "cached"
        /\ UNCHANGED <<control, got, answer, last>>
    BY <1>0, <1>4 DEF StoreExpiry, At, Goto, TypeOK, request
  <2> QED
    BY <1>0, <1>i, <2>1 DEF Attempt, FirstAttempt, LastAttempt
<1>5. CASE DropToken(c)
  <2>1. /\ pc[c] = "sent" /\ answer[c] = "401" /\ gated[c] /\ ~ last[c]
        /\ pc'[c] = "invalidate" /\ control' = None
        /\ UNCHANGED <<got, answer, last>>
    BY <1>0, <1>5 DEF DropToken, Unauthorized, At, Goto, TypeOK, request
  <2> QED
    BY <1>0, <1>i, <2>1 DEF Attempt, FirstAttempt, LastAttempt
<1>6. CASE DropExpiry(c)
  <2>1. /\ pc[c] = "invalidate" /\ pc'[c] = "header" /\ last'[c] = TRUE /\ answer'[c] = None
        /\ UNCHANGED control
    BY <1>0, <1>6 DEF DropExpiry, SecondAttempt, Reset, At, Goto, TypeOK
  <2> QED
    BY <1>0, <1>n, <1>i, <2>1 DEF Attempt, FirstAttempt, LastAttempt
<1>7. CASE RunAgain(c)
  BY <1>i, <1>7 DEF RunAgain, Attempt
<1>8. CASE CloudAnswers(c)
  <2>1. /\ pc[c] = "sent" /\ answer'[c] # "device"
        /\ answer'[c] = "401" => gated[c] /\ got[c] \notin 1..MaxToken
        /\ UNCHANGED <<control, got, last, pc>>
    BY <1>0, <1>8 DEF CloudAnswers, At, TypeOK, cache
  <2>2. got[c] \in Tokens \cup {None}
    BY <1>0 DEF TypeOK
  <2> QED
    BY <1>0, <1>n, <1>i, <1>r, <2>1, <2>2 DEF Attempt, FirstAttempt, LastAttempt
<1> QED
  BY <1>1, <1>2, <1>3, <1>4, <1>5, <1>6, <1>7, <1>8 DEF Going

LEMMA StepCommands ==
  ASSUME IInv, NEW c \in Calls, Step(c), NEW d \in Calls
  PROVE  CommandInv(d)'
<1>0. TypeOK /\ CommandInv(c) /\ CommandInv(d)
  BY DEF IInv
<1>1. ASSUME NEW r \in Results, Ending(c, r), Finish(c, r) PROVE CommandInv(d)'
  <2>0. /\ Active(c) /\ UNCHANGED client
        /\ pc'[c] = "done" /\ answer'[c] = None
        /\ \A e \in Calls \ {c} : Same(e)
    BY <1>0, <1>1, EndingStep
  <2>1. CASE d = c
    <3>1. Acts(c)' /\ ~ Active(c)'
      BY <2>0, ControlAssumption DEF Acts, Active
    <3> QED
      BY <2>1, <3>1 DEF CommandInv, Alone, Solo
  <2>2. CASE d # c
    <3>1. Same(d)
      BY <2>0, <2>2
    <3>2. ~ (client' = "CCI" /\ Active(d)' /\ ~ overlapped'[d])
      BY <1>0, <2>0, <2>2, <3>1 DEF CommandInv, Alone, Same, Active
    <3>3. Acts(d)'
      BY <1>0, <3>1 DEF CommandInv, Acts, Same
    <3> QED
      BY <3>2, <3>3 DEF CommandInv, Alone, Solo
  <2> QED
    BY <2>1, <2>2
<1>2. ASSUME Going(c) PROVE CommandInv(d)'
  <2>0. /\ Active(c) /\ Active(c)' /\ UNCHANGED <<client, overlapped>>
        /\ \A e \in Calls \ {c} : Same(e)
    BY <1>0, <1>2, GoingStep
  <2>1. CASE d = c
    <3>1. Alone(c)'
      <4>1. \A e \in Calls \ {c} : Active(e)' = Active(e)
        BY <2>0 DEF Same, Active
      <4> QED
        BY <1>0, <2>0, <4>1 DEF CommandInv, Alone
    <3> QED
      BY <1>2, <2>1, <3>1, GoingActs, GoingSolo DEF CommandInv
  <2>2. CASE d # c
    <3>1. Same(d)
      BY <2>0, <2>2
    <3>2. ~ (client' = "CCI" /\ Active(d)' /\ ~ overlapped'[d])
      BY <1>0, <2>0, <2>2, <3>1 DEF CommandInv, Alone, Same, Active
    <3>3. Acts(d)'
      BY <1>0, <3>1 DEF CommandInv, Acts, Same
    <3> QED
      BY <3>2, <3>3 DEF CommandInv, Alone, Solo
  <2> QED
    BY <2>1, <2>2
<1> QED
  BY <1>1, <1>2, StepKinds

\* A command begins: those that were running overlap it.
LEMMA BeginCommands ==
  ASSUME IInv, NEW c \in Calls, Begin(c), NEW d \in Calls
  PROVE  CommandInv(d)'
<1>0. TypeOK /\ CommandInv(d) /\ CommandInv(c)
  BY DEF IInv
<1>1. /\ pc[c] = "idle" /\ pc' = [pc EXCEPT ![c] = "header"]
      /\ UNCHANGED <<client, control, ccs, got, answer, result, effects, revoked>>
      /\ \A e \in Calls \ {c} : gated'[e] = gated[e] /\ last'[e] = last[e]
      /\ \A e \in Calls : overlapped'[e] = (overlapped[e] \/ e \in Overlaps(c))
  BY <1>0 DEF Begin, At, Goto, TypeOK, cache, server
<1>2. /\ pc'[c] = "header" /\ \A e \in Calls \ {c} : pc'[e] = pc[e]
  BY <1>0, <1>1 DEF TypeOK
<1>3. Acts(d)'
  <2>1. CASE d = c
    <3>1. effects[c] # 1 /\ answer[c] # "accepted" /\ result[c] = None
      BY <1>0, <1>1 DEF CommandInv, Acts
    <3> QED
      BY <1>1, <1>2, <2>1, <3>1 DEF Acts
  <2>2. CASE d # c
    BY <1>0, <1>1, <1>2, <2>2 DEF CommandInv, Acts
  <2> QED
    BY <2>1, <2>2
<1>4. CASE client = "CCI" /\ \E e \in Calls \ {c} : Active(e)
  <2>1. Active(d)' => overlapped'[d]
    <3>1. Active(d)' => d \in Overlaps(c)
      BY <1>1, <1>2, <1>4 DEF Overlaps, Active
    <3> QED
      BY <1>1, <3>1
  <2> QED
    BY <1>3, <2>1 DEF CommandInv, Alone, Solo
<1>5. CASE client = "CCI" /\ \A e \in Calls \ {c} : ~ Active(e)
  <2>1. \A e \in Calls \ {c} : ~ Active(e)'
    BY <1>2, <1>5 DEF Active
  <2>2. Alone(d)'
    BY <2>1 DEF Alone
  <2>3. last'[c] = ~ gated'[c]
    <3>1. PICK command \in Commands[client] :
            /\ gated' = [gated EXCEPT ![c] = command.gated]
            /\ last' = [last EXCEPT ![c] = ~ command.repeats]
      BY DEF Begin
    <3>2. command.repeats = command.gated
      BY <1>0, <1>5, CommandTypes DEF TypeOK
    <3>3. gated'[c] = command.gated /\ last'[c] = ~ command.repeats
      BY <1>0, <3>1, Zenon DEF TypeOK
    <3> QED
      BY <3>2, <3>3
  <2>4. answer[c] = None
    BY <1>0, <1>1 DEF CommandInv, Acts
  <2> QED
    BY <1>3, <2>1, <2>2, <2>3, <2>4, <1>1, <1>2, ControlAssumption
       DEF CommandInv, Solo, Attempt, FirstAttempt, Active
<1>6. CASE client # "CCI"
  BY <1>1, <1>3, <1>6 DEF CommandInv, Alone, Solo
<1> QED
  BY <1>4, <1>5, <1>6

LEMMA RevokesCommands ==
  ASSUME IInv, NEW i \in 1..MaxToken, CloudRevokes(i), NEW d \in Calls
  PROVE  CommandInv(d)' /\ RevokedAreCounted'
<1>0. TypeOK /\ CommandInv(d)
  BY DEF IInv
<1>1. /\ UNCHANGED <<client, ccs, pc, gated, last, answer, result, effects, overlapped>>
      /\ client = "CCI" => revoked' \in 1..2 /\ (revoked' = 1 => revoked = 0)
      /\ control = None => control' = None
      /\ control # None => control' # None
      /\ got[d] # None => got'[d] # None
  BY <1>0, ControlAssumption DEF CloudRevokes, TypeOK, server, Tokens
<1>2. Acts(d)' /\ Alone(d)'
  BY <1>0, <1>1 DEF CommandInv, Acts, Alone, Active
<1>3. Solo(d)'
  BY <1>0, <1>1 DEF CommandInv, Solo, Attempt, FirstAttempt, LastAttempt, Active
<1>4. RevokedAreCounted'
  BY <1>1 DEF RevokedAreCounted
<1> QED
  BY <1>2, <1>3, <1>4 DEF CommandInv

LEMMA StepRevoked ==
  ASSUME IInv, NEW c \in Calls, Begin(c) \/ Step(c)
  PROVE  RevokedAreCounted'
<1>0. TypeOK /\ RevokedAreCounted
  BY DEF IInv
<1>n. None # 0 /\ 0 \notin 1..MaxToken
  BY ControlAssumption
<1>1. CASE Begin(c)
  BY <1>0, <1>1 DEF Begin, RevokedAreCounted, cache
<1>2. ASSUME NEW r \in Results, Ending(c, r), Finish(c, r) PROVE RevokedAreCounted'
  <2>1. /\ UNCHANGED <<client, control, revoked>> /\ got'[c] = None
        /\ \A d \in Calls \ {c} : got'[d] = got[d]
    BY <1>0, <1>2, EndingStep DEF Same
  <2> QED
    BY <1>0, <1>n, <2>1 DEF RevokedAreCounted
<1>3. CASE Going(c)
  <2>1. UNCHANGED <<client, revoked>> /\ \A d \in Calls \ {c} : got'[d] = got[d]
    BY <1>0, <1>3, GoingStep DEF Same
  <2>2. control' = 0 => control = 0
    BY <1>0, <1>n, <1>3 DEF Going, BearerHeaders, CheckCache, ReadCache, PinMatched, StoreExpiry,
       DropToken, DropExpiry, RunAgain, CloudAnswers, cache
  <2>3. got'[c] = 0 => got[c] = 0 \/ control = 0
    BY <1>0, <1>n, <1>3 DEF Going, BearerHeaders, CheckCache, ReadCache, PinMatched, StoreExpiry,
       DropToken, DropExpiry, RunAgain, CloudAnswers, SecondAttempt, Reset, TypeOK, request
  <2> QED
    BY <1>0, <2>1, <2>2, <2>3 DEF RevokedAreCounted
<1> QED
  BY <1>1, <1>2, <1>3, StepKinds

-----------------------------------------------------------------------------
(* The tries that are gone.                                                 *)

Reporters == {c \in Calls : result[c] \in {"pin", "raised"}}

LEMMA Reports ==
  ASSUME TypeOK, TypeOK', TriesAreReported, Reporters \subseteq Reporters',
         remain' \in {remain, PinTries}
           \/ (remain' = TryGone /\ Reporters' # Reporters)
  PROVE  TriesAreReported'
<1>0. /\ IsFiniteSet(Calls) /\ Reporters \subseteq Calls /\ Reporters' \subseteq Calls
      /\ PinTries \in Nat /\ remain \in 0..PinTries
  BY ControlAssumption DEF Reporters, TypeOK
<1>1. /\ IsFiniteSet(Reporters) /\ IsFiniteSet(Reporters')
      /\ Cardinality(Reporters) \in Nat /\ Cardinality(Reporters') \in Nat
      /\ Cardinality(Reporters) <= Cardinality(Reporters')
      /\ Reporters # Reporters' => Cardinality(Reporters) < Cardinality(Reporters')
  BY <1>0, FS_Subset, FS_CardinalityType
<1>2. PinTries - remain <= Cardinality(Reporters)
  BY DEF TriesAreReported, Reporters
<1> HIDE DEF Reporters
<1>3. PinTries - remain' <= Cardinality(Reporters')
  BY <1>0, <1>1, <1>2 DEF TryGone
<1> QED
  BY <1>3 DEF TriesAreReported, Reporters

LEMMA StepReports ==
  ASSUME IInv, TypeOK', [Next]_vars
  PROVE  TriesAreReported'
<1>0. TypeOK /\ TriesAreReported /\ \A c \in Calls : Acts(c)
  BY DEF IInv, CommandInv
<1>n. None \notin {"pin", "raised"}
  BY ControlAssumption
<1>1. ASSUME NEW c \in Calls, Step(c) PROVE TriesAreReported'
  <2>1. CASE Going(c)
    <3>1. Reporters' = Reporters /\ remain' \in {remain, PinTries}
      BY <1>0, <2>1, GoingStep DEF Reporters
    <3> QED
      BY <1>0, <3>1, Reports
  <2>2. ASSUME NEW r \in Results, Ending(c, r), Finish(c, r) PROVE TriesAreReported'
    <3>1. /\ Active(c) /\ result'[c] = r
          /\ r \notin {"pin", "raised"} => remain' = remain
          /\ remain' # remain => remain' \in {TryGone, PinTries}
          /\ \A d \in Calls \ {c} : result'[d] = result[d]
      BY <1>0, <2>2, EndingStep DEF Same
    <3>2. result[c] = None
      BY <1>0, <3>1 DEF Acts, Active
    <3>3. Reporters \subseteq Reporters'
      BY <1>n, <3>1, <3>2 DEF Reporters
    <3>4. r \in {"pin", "raised"} => c \in Reporters' /\ c \notin Reporters
      BY <1>n, <3>1, <3>2 DEF Reporters
    <3> QED
      BY <1>0, <3>1, <3>3, <3>4, Reports
  <2> QED
    BY <1>1, <2>1, <2>2, StepKinds
<1>2. ASSUME \/ \E c \in Calls : Begin(c)
             \/ \E i \in 1..MaxToken : CloudRevokes(i)
             \/ CloudUnlocksPin \/ ExpiryPasses \/ UNCHANGED vars
      PROVE  TriesAreReported'
  <2>1. result' = result /\ remain' \in {remain, PinTries}
    BY <1>2 DEF Begin, CloudRevokes, CloudUnlocksPin, ExpiryPasses, vars, server
  <2>2. Reporters' = Reporters
    BY <2>1 DEF Reporters
  <2> QED
    BY <1>0, <2>1, <2>2, Reports
<1> QED
  BY <1>1, <1>2 DEF Next, Thread, Step

-----------------------------------------------------------------------------
(* The inductive invariant.                                                 *)

LEMMA InitInv == Init => IInv
<1> SUFFICES ASSUME Init PROVE IInv
  OBVIOUS
<1>0. None \notin Tokens /\ 0 \in Tokens /\ 1 \in Tokens /\ PinTries \in Nat
  BY ControlAssumption DEF Tokens
<1>1. TypeOK
  BY <1>0 DEF Init, TypeOK, PCs
<1>2. RevokedAreCounted
  BY <1>0 DEF Init, RevokedAreCounted
<1>3. TriesAreReported
  <2>1. Cardinality(Reporters) \in Nat
    <3>1. Reporters \subseteq Calls
      BY DEF Reporters
    <3> QED
      BY <3>1, ControlAssumption, FS_Subset, FS_CardinalityType
  <2>2. PinTries - remain = 0
    BY <1>0 DEF Init
  <2> QED
    BY <2>1, <2>2 DEF TriesAreReported, Reporters
<1>4. ASSUME NEW c \in Calls PROVE CommandInv(c)
  BY <1>4, ControlAssumption DEF Init, CommandInv, Acts, Alone, Solo, Active
<1> QED
  BY <1>1, <1>2, <1>3, <1>4 DEF IInv

LEMMA StepInv == IInv /\ [Next]_vars => IInv'
<1> SUFFICES ASSUME IInv, [Next]_vars PROVE IInv'
  OBVIOUS
<1>1. TypeOK'
  BY TypeStep DEF IInv, CommandInv
<1>2. TriesAreReported'
  BY <1>1, StepReports
<1>3. ASSUME NEW c \in Calls, Begin(c) \/ Step(c) PROVE IInv'
  BY <1>1, <1>2, <1>3, StepRevoked, StepCommands, BeginCommands DEF IInv
<1>4. ASSUME NEW i \in 1..MaxToken, CloudRevokes(i) PROVE IInv'
  <2>1. \A d \in Calls : CommandInv(d)'
    BY <1>4, RevokesCommands
  <2>2. RevokedAreCounted'
    <3>1. client' = "CCI" => revoked' # 0
      BY <1>4 DEF IInv, TypeOK, CloudRevokes
    <3> QED
      BY <3>1 DEF RevokedAreCounted
  <2> QED
    BY <1>1, <1>2, <2>1, <2>2 DEF IInv
<1>5. CASE CloudUnlocksPin \/ ExpiryPasses \/ UNCHANGED vars
  <2>1. UNCHANGED <<client, control, ccs, pc, gated, request, result, history>>
    BY <1>5 DEF CloudUnlocksPin, ExpiryPasses, vars, server, cache
  <2>2. RevokedAreCounted' /\ \A c \in Calls : CommandInv(c)'
    BY <2>1 DEF IInv, RevokedAreCounted, CommandInv, Acts, Alone, Solo, Attempt, FirstAttempt,
                LastAttempt, Active, request, history
  <2> QED
    BY <1>1, <1>2, <2>2 DEF IInv
<1> QED
  BY <1>3, <1>4, <1>5 DEF Next, Thread, Step

LEMMA Inductive == Spec => []IInv
BY InitInv, StepInv, PTL DEF Spec

-----------------------------------------------------------------------------
(* The commands implement RemoteCommand.                                    *)

LEMMA InitRefines == Init => Remote!Init
BY DEF Init, Remote!Init, CallPhase

LEMMA SamePhase ==
  ASSUME NEW d \in Calls, pc'[d] = pc[d], result'[d] = result[d]
  PROVE  CallPhase(d)' = CallPhase(d)
BY DEF CallPhase

LEMMA StepRefines ==
  ASSUME IInv, [Next]_vars
  PROVE  [Remote!Next]_(Remote!vars)
<1>0. TypeOK /\ \A c \in Calls : Acts(c)
  BY DEF IInv, CommandInv
<1>1. ASSUME NEW c \in Calls, Begin(c) PROVE Remote!Begin(c)
  <2>1. pc[c] = "idle" /\ pc'[c] = "header" /\ effects' = effects
    BY <1>0, <1>1 DEF Begin, At, Goto, TypeOK
  <2>2. \A d \in Calls \ {c} : CallPhase(d)' = CallPhase(d)
    BY <1>0, <1>1, SamePhase DEF Begin, Goto, TypeOK
  <2>3. CallPhase(c) = "idle" /\ CallPhase(c)' = "pending"
    BY <2>1 DEF CallPhase
  <2> QED
    BY <2>1, <2>2, <2>3 DEF Remote!Begin
<1>2. ASSUME NEW c \in Calls, NEW r \in Results, Ending(c, r), Finish(c, r)
      PROVE  Remote!ReturnOk(c) \/ Remote!RaiseError(c)
  <2>1. /\ Active(c) /\ effects' = effects /\ pc'[c] = "done" /\ result'[c] = r
        /\ r = "ok" => pc[c] = "sent" /\ answer[c] = "accepted"
        /\ \A d \in Calls \ {c} : Same(d)
    BY <1>0, <1>2, EndingStep
  <2>2. \A d \in Calls \ {c} : CallPhase(d)' = CallPhase(d)
    BY <2>1, SamePhase DEF Same
  <2>3. CallPhase(c) = "pending" /\ CallPhase(c)' = IF r = "ok" THEN "ok" ELSE "failed"
    BY <2>1 DEF CallPhase, Active
  <2>4. r = "ok" => effects[c] = 1
    BY <1>0, <2>1 DEF Acts
  <2> QED
    BY <2>1, <2>2, <2>3, <2>4 DEF Remote!ReturnOk, Remote!RaiseError
<1>3. ASSUME NEW c \in Calls, Going(c) PROVE Remote!Execute(c) \/ UNCHANGED Remote!vars
  <2>1. Active(c) /\ Active(c)' /\ \A d \in Calls \ {c} : Same(d)
    BY <1>0, <1>3, GoingStep
  <2>2. \A d \in Calls \ {c} : CallPhase(d)' = CallPhase(d)
    BY <2>1, SamePhase DEF Same
  <2>3. CallPhase(c) = "pending" /\ CallPhase(c)' = "pending"
    BY <2>1 DEF CallPhase, Active
  <2>4. CASE effects' = effects
    BY <2>2, <2>3, <2>4 DEF Remote!vars
  <2>5. CASE effects' # effects
    <3>1. CloudAnswers(c)
      BY <1>3, <2>5 DEF Going, BearerHeaders, CheckCache, ReadCache, PinMatched, StoreExpiry,
         DropToken, DropExpiry, RunAgain, history
    <3>2. effects[c] = 0
      BY <1>0, <3>1, ControlAssumption DEF CloudAnswers, At, Acts, TypeOK
    <3>3. effects' = [effects EXCEPT ![c] = 1]
      <4>1. PICK a \in Answers :
              effects' = [effects EXCEPT ![c] = IF a = "accepted" THEN @ + 1 ELSE @]
        BY <3>1 DEF CloudAnswers
      <4>2. CASE a = "accepted"
        BY <3>2, <4>1, <4>2
      <4>3. CASE a # "accepted"
        <5>1. effects' = effects
          BY <1>0, <4>1, <4>3 DEF TypeOK
        <5> QED
          BY <2>5, <5>1
      <4> QED
        BY <4>2, <4>3
    <3> QED
      BY <2>2, <2>3, <3>2, <3>3 DEF Remote!Execute
  <2> QED
    BY <2>4, <2>5
<1>4. ASSUME \/ \E i \in 1..MaxToken : CloudRevokes(i)
             \/ CloudUnlocksPin \/ ExpiryPasses \/ UNCHANGED vars
      PROVE  UNCHANGED Remote!vars
  <2>1. UNCHANGED <<pc, result, effects>>
    BY <1>4 DEF CloudRevokes, CloudUnlocksPin, ExpiryPasses, vars, history
  <2> QED
    BY <2>1, SamePhase DEF Remote!vars
<1>5. ASSUME NEW c \in Calls, Step(c) PROVE [Remote!Next]_(Remote!vars)
  BY <1>2, <1>3, <1>5, StepKinds DEF Remote!Next
<1> QED
  BY <1>1, <1>4, <1>5 DEF Next, Thread, Step, Remote!Next

-----------------------------------------------------------------------------
(* The theorems.                                                            *)

\* Every variable stays in its type; in particular no command of any client
\* acts more than once.
THEOREM TypeCorrect == Spec => []TypeOK
<1>1. IInv => TypeOK
  BY DEF IInv
<1> QED
  BY <1>1, Inductive, PTL

\* Whatever the number of commands and of tries, a PIN verification that failed
\* is known to the caller of the command it was made for.
THEOREM NoTryIsLost == Spec => []TriesAreReported
<1>1. IInv => TriesAreReported
  BY DEF IInv
<1> QED
  BY <1>1, Inductive, PTL

\* A command of the CCI client that no other one overlaps is not refused twice
\* unless a second control token was revoked.
THEOREM OneRevocationIsRepaired == Spec => []SoloCommandRecovers
<1>1. IInv => SoloCommandRecovers
  <2> SUFFICES ASSUME IInv, client = "CCI", ccs, revoked <= 1, NEW c \in Calls,
                      ~ overlapped[c], Unauthorized(c)
               PROVE  ~ last[c]
    BY DEF SoloCommandRecovers
  <2>1. Attempt(c) /\ answer[c] = "401"
    BY DEF IInv, CommandInv, Solo, Unauthorized, At, Active
  <2> QED
    BY <2>1 DEF Attempt, LastAttempt
<1> QED
  BY <1>1, Inductive, PTL

\* The commands of every client implement RemoteCommand: neither the 401 path
\* nor the device-id wrapper makes the vehicle act twice.
THEOREM CommandsActAtMostOnce == Spec => ActsAtMostOnce
BY InitRefines, StepRefines, Inductive, PTL DEF Spec, ActsAtMostOnce, Remote!Spec
-----------------------------------------------------------------------------
(* A command has a bounded number of steps.                                 *)

\* What is left of a command, the second attempt it may still make included.
StepsLeft(c) ==
  IF pc[c] = "idle" THEN 16
  ELSE IF pc[c] = "done" THEN 0
  ELSE (IF last[c] THEN 0 ELSE 8)
       + (IF pc[c] = "header" THEN 7
          ELSE IF pc[c] = "pin" THEN 6
          ELSE IF pc[c] = "store" THEN 5
          ELSE IF pc[c] = "cached" THEN 4
          ELSE IF pc[c] = "sent" THEN IF answer[c] = None THEN 3 ELSE 2
          ELSE 1)

\* A command that moves, or whose request the cloud answers, comes nearer to
\* its end, and no step takes any command farther from it: not another
\* command's, and not the cloud's or the clock's.
CommandsAdvance ==
  /\ \A c \in Calls : Thread(c) \/ CloudAnswers(c) => StepsLeft(c)' < StepsLeft(c)
  /\ \A c \in Calls : StepsLeft(c)' # StepsLeft(c) => Thread(c) \/ CloudAnswers(c)

\* The token is only dropped for a second attempt.
DroppedOnce == \A c \in Calls : pc[c] = "invalidate" => ~ last[c]

LEMMA StepsLeftFrame ==
  ASSUME NEW d \in Calls, Same(d)
  PROVE  StepsLeft(d)' = StepsLeft(d)
BY DEF Same, StepsLeft

LEMMA BeginFrame ==
  ASSUME TypeOK, NEW c \in Calls, Begin(c)
  PROVE  /\ pc[c] = "idle" /\ pc'[c] = "header" /\ last'[c] \in BOOLEAN
         /\ \A d \in Calls \ {c} : pc'[d] = pc[d] /\ last'[d] = last[d] /\ answer'[d] = answer[d]
<1>1. PICK command \in Commands[client] : last' = [last EXCEPT ![c] = ~ command.repeats]
  BY DEF Begin
<1>2. pc[c] = "idle" /\ pc'[c] = "header" /\ last'[c] \in BOOLEAN
  BY <1>1 DEF Begin, At, Goto, TypeOK
<1>3. \A d \in Calls \ {c} : pc'[d] = pc[d] /\ last'[d] = last[d] /\ answer'[d] = answer[d]
  BY <1>1 DEF Begin, Goto, TypeOK
<1> QED
  BY <1>2, <1>3

\* The branch of a step that does not end the command, as far as StepsLeft sees.
LEMMA GoingBranches ==
  ASSUME IInv, NEW c \in Calls, Going(c)
  PROVE  \/ /\ pc[c] = "header" /\ pc'[c] \in {"pin", "cached", "sent"} /\ last'[c] = last[c]
         \/ pc[c] = "pin" /\ pc'[c] = "store" /\ last'[c] = last[c]
         \/ pc[c] = "store" /\ pc'[c] \in {"cached", "sent"} /\ last'[c] = last[c]
         \/ pc[c] = "cached" /\ pc'[c] = "sent" /\ last'[c] = last[c]
         \/ /\ pc[c] = "sent" /\ pc'[c] = "sent" /\ last'[c] = last[c]
            /\ answer[c] = None /\ answer'[c] # None
         \/ pc[c] = "sent" /\ ~ last[c] /\ pc'[c] = "invalidate" /\ ~ last'[c]
         \/ pc[c] = "sent" /\ ~ last[c] /\ pc'[c] = "header" /\ last'[c]
         \/ pc[c] = "invalidate" /\ pc'[c] = "header" /\ last'[c]
<1>0. TypeOK
  BY DEF IInv
<1>1. CASE BearerHeaders(c) \/ CheckCache(c) \/ ReadCache(c) \/ StoreExpiry(c)
  BY <1>0, <1>1 DEF BearerHeaders, CheckCache, ReadCache, StoreExpiry, At, Goto, TypeOK, request
<1>2. CASE PinMatched(c)
  BY <1>0, <1>2 DEF PinMatched, At, Goto, TypeOK
<1>3. CASE DropToken(c)
  BY <1>0, <1>3 DEF DropToken, Unauthorized, At, Goto, TypeOK, request
<1>4. CASE DropExpiry(c)
  BY <1>0, <1>4 DEF DropExpiry, SecondAttempt, Reset, At, Goto, TypeOK
<1>5. CASE RunAgain(c)
  BY <1>0, <1>5 DEF RunAgain, SecondAttempt, Reset, At, Goto, TypeOK
<1>6. CASE CloudAnswers(c)
  <2>1. PICK a \in Answers : answer' = [answer EXCEPT ![c] = a]
    BY <1>6 DEF CloudAnswers
  <2> QED
    BY <1>0, <1>6, <2>1, ControlAssumption DEF CloudAnswers, At, TypeOK, Answers
<1> QED
  BY <1>1, <1>2, <1>3, <1>4, <1>5, <1>6 DEF Going

LEMMA StepKindsBegin ==
  ASSUME NEW c \in Calls, Thread(c) \/ CloudAnswers(c)
  PROVE  \/ Begin(c)
         \/ \E r \in Results : Ending(c, r) /\ Finish(c, r)
         \/ Going(c)
BY StepKinds DEF Thread, Step

LEMMA StepAdvances ==
  ASSUME IInv, DroppedOnce, NEW c \in Calls, Thread(c) \/ CloudAnswers(c)
  PROVE  /\ StepsLeft(c)' < StepsLeft(c)
         /\ \A d \in Calls \ {c} : StepsLeft(d)' = StepsLeft(d)
         /\ DroppedOnce'
<1>0. TypeOK
  BY DEF IInv
<1>1. CASE Begin(c)
  BY <1>0, <1>1, BeginFrame DEF StepsLeft, DroppedOnce
<1>2. CASE \E r \in Results : Ending(c, r) /\ Finish(c, r)
  <2>1. Active(c) /\ pc'[c] = "done" /\ \A d \in Calls \ {c} : Same(d)
    BY <1>0, <1>2, EndingStep
  <2>2. StepsLeft(c)' < StepsLeft(c)
    BY <2>1 DEF StepsLeft, Active
  <2>3. DroppedOnce'
    BY <2>1 DEF DroppedOnce, Same
  <2> QED
    BY <2>1, <2>2, <2>3, StepsLeftFrame
<1>3. CASE Going(c)
  <2>1. \A d \in Calls \ {c} : Same(d)
    BY <1>0, <1>3, GoingStep
  <2>2. StepsLeft(c)' < StepsLeft(c)
    BY <1>3, GoingBranches DEF StepsLeft, DroppedOnce
  <2>3. DroppedOnce'
    BY <1>3, <2>1, GoingBranches DEF DroppedOnce, Same
  <2> QED
    BY <2>1, <2>2, <2>3, StepsLeftFrame
<1> QED
  BY <1>1, <1>2, <1>3, StepKindsBegin

LEMMA OthersKeepSteps ==
  ASSUME IInv, DroppedOnce,
         \/ \E i \in 1..MaxToken : CloudRevokes(i)
         \/ CloudUnlocksPin \/ ExpiryPasses \/ UNCHANGED vars
  PROVE  (\A c \in Calls : StepsLeft(c)' = StepsLeft(c)) /\ DroppedOnce'
<1>1. UNCHANGED <<pc, last, answer>>
  BY DEF CloudRevokes, CloudUnlocksPin, ExpiryPasses, vars, request
<1> QED
  BY <1>1 DEF StepsLeft, DroppedOnce

\* Every command ends, after at most 16 steps of its thread and of the cloud,
\* the PIN verification and a second attempt included: no answer of the cloud,
\* no revocation and no other command makes it try a third time.
THEOREM CommandsAreShort ==
  Spec => /\ [](\A c \in Calls : StepsLeft(c) \in 0..16)
          /\ [][CommandsAdvance]_vars
<1>1. IInv => \A c \in Calls : StepsLeft(c) \in 0..16
  BY DEF IInv, StepsLeft
<1>2. Init => DroppedOnce
  BY DEF Init, DroppedOnce
<1>3. IInv /\ DroppedOnce /\ [Next]_vars => DroppedOnce'
  BY StepAdvances, OthersKeepSteps DEF Next
<1>4. Spec => []DroppedOnce
  BY <1>2, <1>3, Inductive, PTL DEF Spec
<1>5. IInv /\ DroppedOnce /\ [Next]_vars => [CommandsAdvance]_vars
  <2> SUFFICES ASSUME IInv, DroppedOnce, Next PROVE CommandsAdvance
    OBVIOUS
  <2>1. \A c \in Calls : Thread(c) \/ CloudAnswers(c) => StepsLeft(c)' < StepsLeft(c)
    BY StepAdvances
  <2>2. ASSUME NEW c \in Calls, StepsLeft(c)' # StepsLeft(c)
        PROVE  Thread(c) \/ CloudAnswers(c)
    <3>1. PICK d \in Calls : Thread(d) \/ CloudAnswers(d)
      BY <2>2, OthersKeepSteps DEF Next
    <3>2. d = c
      BY <2>2, <3>1, StepAdvances
    <3> QED
      BY <3>1, <3>2
  <2> QED
    BY <2>1, <2>2 DEF CommandsAdvance
<1> QED
  BY <1>1, <1>4, <1>5, Inductive, PTL DEF Spec
=============================================================================
