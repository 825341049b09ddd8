---------------------------- MODULE TokenLifecycle ----------------------------
(***************************************************************************)
(* The token of a VehicleManager: check_and_refresh_token and login, over   *)
(* the clients whose refresh falls back to a login.                         *)
(*                                                                         *)
(* The clients differ in five ways (Kia USA, with its session keys, has a   *)
(* module of its own):                                                      *)
(*   gspa   GspaApiEU: tests the token; refreshes a CCI token in two        *)
(*          requests, a grant that rotates the refresh token and an         *)
(*          exchange for the access token;                                  *)
(*   eu     KiaUvoApiEU but Genesis: no test; that refresh, or one grant for *)
(*          a legacy token; a password of 48 capitals and digits is such a  *)
(*          refresh token and login presents it;                            *)
(*   type1  ApiImplType1 (Australia, India), Brazil: no test, one grant;    *)
(*   bluelink  BlueLink USA: the same, but the grant carries the password;  *)
(*   ca     KiaUvoApiCA: tests the token; a refresh is a login, and a login *)
(*          may be answered with a request for an OTP.                      *)
(*                                                                         *)
(* A Token is kept as its refresh-token family, whether its refresh token   *)
(* is the current one of that family, whether the cloud accepts its access  *)
(* token, and the password it carries: the configured one ("now"), an older *)
(* one ("old") or a legacy refresh token.                                   *)
(***************************************************************************)
EXTENDS Naturals

CONSTANTS
  Threads,    \* the worker threads that call the manager
  Clients,    \* bound: the clients considered
  None,       \* no value
  MaxFamily   \* token families are 1..MaxFamily; one no token is of is used again

ASSUME TokenAssumption ==
  /\ MaxFamily \in Nat \ {0}
  /\ Clients \subseteq {"gspa", "eu", "type1", "bluelink", "ca"}
  /\ None \notin (0..MaxFamily) \cup Threads

VARIABLES
  api,        \* the client of the manager's region
  password,   \* manager.password
  right,      \* cloud: does it accept the configured password?
  legacy,     \* cloud: does it accept the legacy refresh token (if a client presents it)?
  token,      \* manager.token
  fresh,      \* is token.valid_until more than the grace period away?
  vehicles,   \* has manager.vehicles been filled?
  op,         \* what each thread calls
  pc,         \* where it is
  via,        \* which of the manager's calls of api.login it is in
  held,       \* the Token the call works with: the one it was given, or its new one
  pw,         \* the password it logs in with
  result,     \* how the thread's last call ended, if nothing interfered with it
  posts,      \* history: requests of the call that carry each password, if no other call
              \* overlaps it
  quiet,      \* history: did anything interfere with the call?
  due,        \* history: what the call owes if nothing interferes with it
  intact      \* history: nothing has interfered since the manager's token was stored

cloud   == <<right, legacy>>
manager == <<token, fresh, vehicles>>
config  == <<api, password>>
locals  == <<op, via, held, pw>>
history == <<posts, quiet, due, intact>>
vars    == <<cloud, manager, config, locals, pc, result, history>>

Passwords == {"now", "old", "legacy"}
Families  == 0..MaxFamily      \* 0 is the family of the legacy refresh token
Token     == [fam : Families, cur : BOOLEAN, acc : BOOLEAN, pw : Passwords]
Tok(f, c, a, p) == [fam |-> f, cur |-> c, acc |-> a, pw |-> p]

ASSUME NoneAssumption == None \notin Token /\ None # "legacy"

Ops       == {"check", "login"}
PCs       == {"idle", "testing", "grant", "exchange", "login",
              "signedIn", "handler", "store", "vehicles", "initialize"}
Results   == {"ok", "auth", "error", "otp"}

TypeOK ==
  /\ api \in Clients
  /\ password \in {"now", "legacy"}
  /\ right \in BOOLEAN /\ legacy \in BOOLEAN
  /\ token \in Token \cup {None}
  /\ fresh \in BOOLEAN /\ vehicles \in BOOLEAN
  /\ op \in [Threads -> Ops \cup {None}]
  /\ pc \in [Threads -> PCs]
  /\ via \in [Threads -> {"first", "refresh", "retry", None}]
  /\ held \in [Threads -> Token \cup {None}]
  /\ pw \in [Threads -> Passwords \cup {None}]
  /\ result \in [Threads -> Results \cup {None}]
  /\ posts \in [Threads -> [Passwords -> 0..2]]
  /\ quiet \in [Threads -> {"calm", "alone", "crowded"}]
  /\ due \in [Threads -> SUBSET {"success", "silence"}]
  /\ intact \in BOOLEAN

\* A new manager, or one that was given a Token saved in an earlier run.  Legacy
\* refresh tokens were given out in Europe, to users of the older client.
Init ==
  /\ api \in Clients
  /\ password \in IF api = "eu" THEN {"now", "legacy"} ELSE {"now"}
  /\ right \in BOOLEAN
  /\ legacy \in BOOLEAN /\ (legacy => api = "eu")
  /\ \/ token = None
     \/ \E c, a \in BOOLEAN, p \in Passwords :
          /\ p = "legacy" => api \in {"eu", "gspa"}
          /\ token = IF p = "legacy" THEN Tok(0, c /\ legacy, a, p) ELSE Tok(1, c, a, p)
  /\ fresh \in BOOLEAN /\ (token = None => ~ fresh)
  /\ vehicles = FALSE
  /\ op = [t \in Threads |-> None]
  /\ pc = [t \in Threads |-> "idle"]
  /\ via = [t \in Threads |-> None]
  /\ held = [t \in Threads |-> None]
  /\ pw = [t \in Threads |-> None]
  /\ result = [t \in Threads |-> None]
  /\ posts = [t \in Threads |-> [p \in Passwords |-> 0]]
  /\ quiet = [t \in Threads |-> "alone"]
  /\ due = [t \in Threads |-> {}]
  /\ intact = FALSE

At(t, p)   == pc[t] = p
Goto(t, p) == pc' = [pc EXCEPT ![t] = p]
Active(t)  == pc[t] # "idle"

\* The library's calls of a thread end, normally or with an exception.
Finish(t, r) ==
  /\ Goto(t, "idle")
  /\ result' = [result EXCEPT ![t] = IF quiet[t] = "calm" THEN r ELSE None]
  /\ op' = [op EXCEPT ![t] = None]
  /\ via' = [via EXCEPT ![t] = None]
  /\ held' = [held EXCEPT ![t] = None]
  /\ pw' = [pw EXCEPT ![t] = None]

\* A request failed or the cloud changed its mind: no call is calm any more.
Disturb ==
  /\ quiet' = [t \in Threads |-> IF quiet[t] = "calm" THEN "alone" ELSE quiet[t]]
  /\ due' = [t \in Threads |-> {}]
  /\ intact' = FALSE
Undisturbed == UNCHANGED <<quiet, due, intact>>

-----------------------------------------------------------------------------
(* What the clients do differently.                                         *)

Tests == api \in {"gspa", "ca"}

\* How refresh_access_token begins for a token with password p.
Grant(p) ==
  CASE api \in {"type1", "bluelink"} \/ (api = "eu" /\ p = "legacy") -> "oauth"
    [] api \in {"eu", "gspa"} /\ p # "legacy" -> "cci"
    [] OTHER -> "login"

\* login presents the password p as a refresh token.
Presents(p) == api = "eu" /\ p = "legacy"

\* The refresh grant of this client carries the password of the token.
GrantCarriesPassword == api = "bluelink"

\* The grant has no wrong password in it.
PasswordFits(x) == GrantCarriesPassword => x.pw = "now" /\ right

-----------------------------------------------------------------------------
(* Calls begin.                                                             *)

\* With the right password configured, a call that nothing interferes with
\* succeeds - unless the token carries an older password, which nothing
\* replaces, or nothing tells the manager that the token is no longer accepted.
Feasible(o) ==
  \/ /\ o = "check" /\ right /\ password = "now"
     /\ token # None => token.pw # "old" /\ (Tests \/ ~ fresh \/ token.acc)
  \/ o = "login" /\ right /\ password = "now"

\* Nothing has spoilt the refresh token.
Silent(o) == /\ o = "check" /\ intact
             /\ token # None /\ PasswordFits(token)
             /\ token.pw # "legacy" /\ Grant(token.pw) # "login"

Owed(o) == {d \in {"success", "silence"} : IF d = "success" THEN Feasible(o) ELSE Silent(o)}

Begin(t, o) ==
  LET alone == \A u \in Threads \ {t} : ~ Active(u) IN
  /\ At(t, "idle")
  /\ op' = [op EXCEPT ![t] = o]
  /\ result' = [u \in Threads |-> None]
  /\ posts' = [u \in Threads |-> [q \in Passwords |-> 0]]
  /\ due' = [u \in Threads |-> IF alone /\ u = t THEN Owed(o) ELSE {}]
  /\ quiet' = [u \in Threads |-> IF ~ alone /\ (u = t \/ Active(u)) THEN "crowded"
                                ELSE IF u = t THEN "calm" ELSE "alone"]
  /\ intact' = (intact /\ alone)
  /\ UNCHANGED <<cloud, manager, config>>

\* api.login with the configured password.
LogIn(t, v) ==
  /\ via' = [via EXCEPT ![t] = v]
  /\ pw' = [pw EXCEPT ![t] = password]
  /\ Goto(t, "login")

login(t) == Begin(t, "login") /\ LogIn(t, "first") /\ UNCHANGED held

\* api.refresh_access_token with the manager's token.
Refresh(t) ==
  /\ via' = [via EXCEPT ![t] = "refresh"]
  /\ held' = [held EXCEPT ![t] = token]
  /\ \/ Grant(token.pw) = "login" /\ Goto(t, "login") /\ pw' = [pw EXCEPT ![t] = token.pw]
     \/ Grant(token.pw) # "login" /\ Goto(t, "grant") /\ UNCHANGED pw

KeepToken(t) ==
  /\ Goto(t, "vehicles")
  /\ held' = [held EXCEPT ![t] = None]
  /\ UNCHANGED <<via, pw>>

\* No token: login().  Expired: refresh.  Else the client may test it.
check_and_refresh_token(t) ==
  /\ Begin(t, "check")
  /\ \/ token = None /\ LogIn(t, "first") /\ UNCHANGED held
     \/ token # None /\ ~ fresh /\ Refresh(t)
     \/ /\ token # None /\ fresh /\ Tests
        /\ held' = [held EXCEPT ![t] = token]
        /\ Goto(t, "testing")
        /\ UNCHANGED <<via, pw>>
     \/ token # None /\ fresh /\ ~ Tests /\ KeepToken(t)

-----------------------------------------------------------------------------
(* test_token and refresh_access_token.                                     *)

\* The refresh takes what is the manager's token by then.
TestAnswered(t) ==
  /\ At(t, "testing")
  /\ \/ held[t].acc /\ KeepToken(t)
     \/ ~ held[t].acc /\ Refresh(t)
  /\ UNCHANGED <<cloud, manager, config, op, result, history>>

\* GSPA takes every failure for an invalid token; Canada raises, or takes an
\* error it does not know for a valid one.
TestFails(t) ==
  /\ At(t, "testing")
  /\ \/ api = "gspa" /\ Refresh(t)
     \/ api = "ca" /\ KeepToken(t)
  /\ Disturb
  /\ UNCHANGED <<cloud, manager, config, op, result, posts>>

TestRaises(t) ==
  /\ At(t, "testing") /\ api = "ca"
  /\ Finish(t, "error")
  /\ Disturb
  /\ UNCHANGED <<cloud, manager, config, posts>>

\* The cloud takes a refresh token of family f and may rotate it: then every
\* copy of it is spent.  Thread t goes on with the token x.
Rotate(t, f, rotated, x) ==
  LET Left(y) == IF rotated /\ y # None /\ y.fam = f THEN Tok(f, FALSE, y.acc, y.pw) ELSE y IN
  /\ token' = Left(token)
  /\ held' = [u \in Threads |-> IF u = t THEN x ELSE Left(held[u])]
  /\ legacy' = (legacy /\ ~ (rotated /\ f = 0))

\* A request with the password p.
Post(t, p) == posts' = IF quiet[t] = "crowded" THEN posts ELSE [posts EXCEPT ![t][p] = @ + 1]

PostGrant(t) == IF GrantCarriesPassword THEN Post(t, held[t].pw) ELSE UNCHANGED posts

\* Mutant: the refresh token of the answer is not taken over.
GrantOkKeepsOld(t) ==
  /\ At(t, "grant") /\ held[t].cur
  /\ \E rotated \in BOOLEAN :
       Rotate(t, held[t].fam, rotated,
              Tok(held[t].fam, ~ rotated, Grant(held[t].pw) = "oauth", held[t].pw))
  /\ Goto(t, IF Grant(held[t].pw) = "oauth" THEN "store" ELSE "exchange")
  /\ PostGrant(t)
  /\ UNCHANGED <<right, fresh, vehicles, config, op, via, pw, result>>
  /\ Undisturbed

\* The new token keeps what the answer leaves out; a CCI token still needs
\* its access token.
GrantOk(t) ==
  /\ At(t, "grant") /\ held[t].cur
  /\ \E rotated \in BOOLEAN :
       Rotate(t, held[t].fam, rotated,
              Tok(held[t].fam, TRUE, Grant(held[t].pw) = "oauth", held[t].pw))
  /\ Goto(t, IF Grant(held[t].pw) = "oauth" THEN "store" ELSE "exchange")
  /\ PostGrant(t)
  /\ UNCHANGED <<right, fresh, vehicles, config, op, via, pw, result>>
  /\ Undisturbed

\* Whatever goes wrong with a refresh, the client logs in with the password
\* of the token.
FallBack(t) ==
  /\ pw' = [pw EXCEPT ![t] = held[t].pw]
  /\ Goto(t, "login")
  /\ UNCHANGED <<right, fresh, vehicles, config, op, via, result>>

\* A wrong password in the grant may be refused, or not be looked at (GrantOk).
GrantRefused(t) ==
  /\ At(t, "grant") /\ ~ (held[t].cur /\ PasswordFits(held[t]))
  /\ PostGrant(t)
  /\ held' = [held EXCEPT ![t] = None]
  /\ FallBack(t)
  /\ UNCHANGED <<legacy, token>>
  /\ Undisturbed

\* The request or its answer is lost; the refresh token may be spent.
GrantFails(t) ==
  /\ At(t, "grant")
  /\ \E rotated \in BOOLEAN : Rotate(t, held[t].fam, rotated /\ held[t].cur, None)
  /\ PostGrant(t)
  /\ FallBack(t)
  /\ Disturb

\* _exchange_ccs_token, after a grant or after a sign-in.
ExchangeOk(t) ==
  /\ pc[t] \in {"exchange", "signedIn"}
  /\ held' = [held EXCEPT ![t] = Tok(@.fam, @.cur, TRUE, @.pw)]
  /\ Goto(t, "store")
  /\ UNCHANGED <<cloud, manager, config, op, via, pw, result, history>>

\* The refresh token was rotated; what came of it is thrown away.
ExchangeFails(t) ==
  /\ At(t, "exchange")
  /\ held' = [held EXCEPT ![t] = None]
  /\ FallBack(t)
  /\ Disturb
  /\ UNCHANGED <<legacy, token, posts>>

-----------------------------------------------------------------------------
(* api.login.                                                               *)

\* The smallest number no token is of.
NewFamily(f) ==
  LET used == {x.fam : x \in ({token} \cup {held[u] : u \in Threads}) \ {None}}
  IN f \notin used /\ \A j \in 1..(f-1) : j \in used

Right(t) == IF Presents(pw[t]) THEN legacy ELSE pw[t] = "now" /\ right

SignInOk(t) ==
  /\ At(t, "login") /\ Right(t) /\ ~ Presents(pw[t])
  /\ \E f \in 1..MaxFamily :
       /\ NewFamily(f)
       /\ held' = [held EXCEPT ![t] = Tok(f, TRUE, api \in {"type1", "bluelink", "ca"}, pw[t])]
  /\ Goto(t, IF api \in {"type1", "bluelink", "ca"} THEN "store" ELSE "signedIn")
  /\ Post(t, pw[t])
  /\ UNCHANGED <<cloud, manager, config, op, via, pw, result>>
  /\ Undisturbed

\* The token keeps the password as its refresh token, also if it was rotated.
PresentOk(t) ==
  /\ At(t, "login") /\ Right(t) /\ Presents(pw[t])
  /\ \E rotated \in BOOLEAN : Rotate(t, 0, rotated, Tok(0, ~ rotated, TRUE, "legacy"))
  /\ Goto(t, "store")
  /\ Post(t, pw[t])
  /\ UNCHANGED <<right, fresh, vehicles, config, op, via, pw, result>>
  /\ Undisturbed

\* A login raises.  check_and_refresh_token looks at an AuthenticationError
\* of the refresh, but not at one of its own retry.
Raises(t, r) ==
  \/ /\ via[t] = "refresh" /\ r = "auth"
     /\ Goto(t, "handler")
     /\ held' = [held EXCEPT ![t] = None]
     /\ pw' = [pw EXCEPT ![t] = None]
     /\ UNCHANGED <<op, via, result>>
  \/ ~ (via[t] = "refresh" /\ r = "auth") /\ Finish(t, r)

LoginRefused(t) ==
  /\ At(t, "login") /\ ~ Right(t)
  /\ \E r \in IF api \in {"eu", "gspa"} THEN {"auth"} ELSE {"auth", "error"} : Raises(t, r)
  /\ Post(t, pw[t])
  /\ UNCHANGED <<cloud, manager, config>>
  /\ Undisturbed

\* No connection, a blocked client, consent asked for, a form that changed, or
\* a refusal in words the client does not know.
LoginFails(t) ==
  /\ pc[t] \in {"login", "signedIn"}
  /\ \E r \in {"auth", "error"} : Raises(t, r)
  /\ IF At(t, "login") THEN Post(t, pw[t]) ELSE UNCHANGED posts
  /\ Disturb
  /\ UNCHANGED <<cloud, manager, config>>

\* The OTP dialogue that follows is not part of this module.
LoginNeedsOtp(t) ==
  /\ At(t, "login") /\ api = "ca" /\ Right(t)
  /\ Finish(t, "otp")
  /\ Post(t, pw[t])
  /\ due' = [due EXCEPT ![t] = {}]
  /\ UNCHANGED <<cloud, manager, config, quiet, intact>>

-----------------------------------------------------------------------------
(* check_and_refresh_token and login from the result of api.login on.       *)

\* Mutant: every failed refresh is followed by a login with the configured
\* credentials.
HandleAuthAlways(t) ==
  /\ At(t, "handler")
  /\ LogIn(t, "retry")
  /\ UNCHANGED <<cloud, manager, config, op, held, result, history>>

\* Mutant: no second look at a failed refresh.
HandleAuthNever(t) ==
  /\ At(t, "handler")
  /\ Finish(t, "auth")
  /\ UNCHANGED <<cloud, manager, config, history>>

\* Mutant: the retry is looked at like the refresh.
HandleAuthAgain(t) ==
  /\ At(t, "handler")
  /\ \/ /\ token.pw = "legacy" /\ password = "now"
        /\ LogIn(t, "refresh")
        /\ UNCHANGED <<op, held, result>>
     \/ ~ (token.pw = "legacy" /\ password = "now") /\ Finish(t, "auth")
  /\ UNCHANGED <<cloud, manager, config, history>>

\* An AuthenticationError of the refresh: a legacy password in what is now
\* the manager's token is worth a login with the configured one.
HandleAuth(t) ==
  /\ At(t, "handler")
  /\ \/ /\ token.pw = "legacy" /\ password = "now"
        /\ LogIn(t, "retry")
        /\ UNCHANGED <<op, held, result>>
     \/ ~ (token.pw = "legacy" /\ password = "now") /\ Finish(t, "auth")
  /\ UNCHANGED <<cloud, manager, config, history>>

\* Mutant: a new token always brings new Vehicle objects.
StoreAndList(t) ==
  /\ At(t, "store")
  /\ token' = held[t]
  /\ fresh' = TRUE
  /\ held' = [held EXCEPT ![t] = None]
  /\ via' = [via EXCEPT ![t] = None]
  /\ pw' = [pw EXCEPT ![t] = None]
  /\ intact' = (quiet[t] = "calm")
  /\ Goto(t, "initialize")
  /\ UNCHANGED <<cloud, vehicles, config, op, result, posts, quiet, due>>

\* self.token = result; its PIN is set to the manager's.
Store(t) ==
  /\ At(t, "store")
  /\ token' = held[t]
  /\ fresh' = TRUE
  /\ held' = [held EXCEPT ![t] = None]
  /\ via' = [via EXCEPT ![t] = None]
  /\ pw' = [pw EXCEPT ![t] = None]
  /\ intact' = (quiet[t] = "calm")
  /\ Goto(t, IF via[t] = "first" THEN "initialize" ELSE "vehicles")
  /\ UNCHANGED <<cloud, vehicles, config, op, result, posts, quiet, due>>

\* api.refresh_vehicles, which follows a refresh, does nothing in these clients
\* (ApiImpl.refresh_vehicles); that of Kia USA is in the module of that client.
CountVehicles(t) ==
  /\ At(t, "vehicles")
  /\ IF vehicles
     THEN Finish(t, "ok")
     ELSE Goto(t, "initialize") /\ UNCHANGED <<locals, result>>
  /\ UNCHANGED <<cloud, manager, config, history>>

\* initialize_vehicles: new Vehicle objects for all vehicles of the account.
Initialize(t) ==
  /\ At(t, "initialize")
  /\ token.acc
  /\ vehicles' = TRUE
  /\ Finish(t, "ok")
  /\ UNCHANGED <<cloud, token, fresh, config, history>>

InitializeFails(t) ==
  /\ At(t, "initialize")
  /\ Finish(t, "error")
  /\ IF token.acc THEN Disturb ELSE Undisturbed
  /\ UNCHANGED <<cloud, manager, config, posts>>

-----------------------------------------------------------------------------
(* The cloud and the clock.                                                 *)

Nothing == UNCHANGED <<config, locals, pc, result, posts>>

\* A session or a refresh token ends before its time.
CloudDrops(f) ==
  LET Left(x, c, a) == IF x # None /\ x.fam = f
                       THEN Tok(f, x.cur /\ c, x.acc /\ a, x.pw) ELSE x IN
  /\ \E x \in ({token} \cup {held[t] : t \in Threads}) \ {None} : x.fam = f /\ (x.cur \/ x.acc)
  /\ \E c, a \in BOOLEAN :
       /\ ~ (c /\ a)
       /\ token' = Left(token, c, a)
       /\ held' = [t \in Threads |-> Left(held[t], c, a)]
       /\ legacy' = (legacy /\ (f # 0 \/ c))
  /\ Disturb
  /\ UNCHANGED <<right, fresh, vehicles, config, op, via, pw, pc, result,
                 posts>>

\* The user changes the password elsewhere.
PasswordChanges ==
  /\ right /\ right' = FALSE
  /\ Disturb
  /\ UNCHANGED <<legacy, manager>> /\ Nothing

ExpiryPasses ==
  /\ fresh
  /\ fresh' = FALSE
  /\ UNCHANGED <<cloud, token, vehicles>> /\ Undisturbed /\ Nothing

-----------------------------------------------------------------------------

Call(t) == check_and_refresh_token(t) \/ login(t)

Step(t) ==
  \/ TestAnswered(t) \/ TestFails(t) \/ TestRaises(t)
  \/ GrantOk(t) \/ GrantRefused(t) \/ GrantFails(t)
  \/ ExchangeOk(t) \/ ExchangeFails(t)
  \/ SignInOk(t) \/ PresentOk(t) \/ LoginRefused(t) \/ LoginFails(t) \/ LoginNeedsOtp(t)
  \/ HandleAuth(t) \/ Store(t) \/ CountVehicles(t) \/ Initialize(t) \/ InitializeFails(t)

Next == \/ \E t \in Threads : Call(t) \/ Step(t)
        \/ \E f \in Families : CloudDrops(f)
        \/ PasswordChanges \/ ExpiryPasses

Spec == Init /\ [][Next]_vars

-----------------------------------------------------------------------------
(* Properties.                                                              *)

Over(t) == pc[t] = "idle" /\ quiet[t] = "calm"

\* Nothing that threads, lost answers or the cloud did earlier wedges the
\* account, as a legacy password in the token once did (VehicleManager.py:244):
\* a call that nothing interferes with, made with the right password, ends with
\* a token the cloud accepts and with the vehicles.
CallsRecover ==
  \A t \in Threads : Over(t) /\ "success" \in due[t] =>
    result[t] = "ok" /\ token.acc /\ vehicles

\* Falling back to a login is for tokens that were spoilt: while nothing
\* interferes, the token of every refresh lasts for the next one.
RefreshIsSilent ==
  \A t \in Threads : "silence" \in due[t] => pc[t] # "login"

\* A call that no other one overlaps sends no password twice, though a refresh
\* and the handler of its failure each end in a login: a second try of a wrong
\* password brings the account one step closer to its lock.  BlueLink USA sends
\* it with the grant and again with the login the refresh falls back to, but
\* not a third time.
Most == IF GrantCarriesPassword THEN 2 ELSE 1
SignInBudget == \A t \in Threads, p \in Passwords : posts[t][p] <= Most

\* A check lists the vehicles again, which loses their data as
\* initialize_vehicles warns, only if another call overlaps it.
VehiclesAreKept ==
  \A t \in Threads : pc[t] = "initialize" /\ op[t] = "check" /\ quiet[t] # "crowded" => ~ vehicles
=============================================================================
