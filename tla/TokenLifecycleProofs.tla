------------------------- MODULE TokenLifecycleProofs -------------------------
(***************************************************************************)
(* Proofs about TokenLifecycle, for any number of threads and token        *)
(* families: how often a call sends a password, refreshes do not fall      *)
(* back to logins without a reason, calls recover and end, vehicles are    *)
(* kept.  The inductive invariant follows one call from request to         *)
(* request.                                                                *)
(***************************************************************************)
EXTENDS TokenLifecycle, TLAPS

Solo(t)   == quiet[t] # "crowded"
Unposted(t) == \A p \in Passwords : posts[t][p] = 0

\* What a call has in hand at each of its steps.
Shape(t) ==
  /\ pc[t] \in {"testing", "grant", "exchange", "signedIn", "store"} => held[t] \in Token
  /\ pc[t] \in {"login", "signedIn"} => pw[t] \in Passwords
  /\ pc[t] \in {"testing", "grant", "exchange", "handler", "vehicles", "initialize"} =>
       token # None
  /\ pc[t] \in {"login", "signedIn"} /\ via[t] # "first" => token # None

\* Calls that do not overlap, and calls that are owed something.
Alone(t) ==
  /\ Active(t) /\ Solo(t) => \A u \in Threads \ {t} : ~ Active(u)
  /\ due[t] # {} => quiet[t] = "calm" /\ \A u \in Threads \ {t} : ~ Active(u)

\* The passwords a call has sent: none before its refresh, then that of the
\* token, then perhaps the configured one.
Logins(t) ==
  /\ ~ Solo(t) => Unposted(t)
  /\ pc[t] \in {"testing", "grant", "exchange"} => Unposted(t)
  /\ pc[t] = "login" /\ via[t] # "retry" => \A p \in Passwords : posts[t][p] <= Most - 1
  /\ pc[t] = "login" /\ via[t] = "retry" => pw[t] = "now" /\ posts[t]["now"] = 0
  /\ pc[t] \in {"handler", "login", "signedIn"} /\ via[t] = "refresh" /\ Solo(t) =>
       \A p \in Passwords : p # token.pw => posts[t][p] = 0
  /\ pc[t] \in {"login", "signedIn"} /\ via[t] = "refresh" /\ Solo(t) => pw[t] = token.pw
  /\ pc[t] \in {"grant", "exchange"} => via[t] = "refresh"
  /\ pc[t] = "handler" => via[t] = "refresh"
  /\ pc[t] \in {"grant", "exchange"} /\ Solo(t) => held[t].pw = token.pw
  /\ \A p \in Passwords : posts[t][p] <= Most

\* A check that lists the vehicles has found none.
Listing(t) ==
  op[t] = "check" /\ Solo(t) =>
    /\ pc[t] = "initialize" => ~ vehicles
    /\ pc[t] \in {"login", "signedIn", "store"} /\ via[t] = "first" => ~ vehicles

\* The refresh token in hand, while nothing interferes, is current.
Current(t) ==
  quiet[t] = "calm" /\ pc[t] \in {"exchange", "signedIn", "store"} =>
    held[t].cur \/ held[t].pw = "legacy"

IntactIsCurrent ==
  \/ ~ intact
  \/ \E t \in Threads : pc[t] \in {"exchange", "store"}
  \/ token # None /\ (token.cur \/ token.pw = "legacy")

\* A silent check never gets to a login.
Silence(t) ==
  "silence" \in due[t] =>
    /\ pc[t] \notin {"login", "signedIn", "handler"}
    /\ pc[t] = "testing" => token.cur /\ PasswordFits(token) /\ Grant(token.pw) # "login"
    /\ pc[t] = "grant" => held[t].cur /\ PasswordFits(held[t])

\* A call that must succeed has what each request needs.
Success(t) ==
  "success" \in due[t] =>
    /\ right /\ password = "now"
    /\ pc[t] = "idle" => result[t] = "ok" /\ token # None /\ token.acc /\ vehicles
    /\ pc[t] = "testing" => held[t] = token
    /\ pc[t] \in {"testing", "grant", "exchange"} => token.pw # "old"
    /\ pc[t] = "login" => pw[t] # "old" /\ (pw[t] = "legacy" => via[t] = "refresh")
    /\ pc[t] \in {"login", "signedIn"} /\ via[t] = "refresh" => pw[t] = token.pw
    /\ pc[t] = "handler" => token.pw = "legacy"
    /\ pc[t] = "store" => held[t].acc
    /\ pc[t] \in {"vehicles", "initialize"} => token.acc

ThreadInv(t) ==
  Shape(t) /\ Alone(t) /\ Logins(t) /\ Listing(t) /\ Current(t) /\ Silence(t) /\ Success(t)

Global ==
  /\ token = None => ~ vehicles
  /\ token # None /\ token.pw = "legacy" => api \in {"eu", "gspa"}
  /\ \A t \in Threads : held[t] # None /\ held[t].pw = "legacy" => api \in {"eu", "gspa"}
  /\ \A t \in Threads : pw[t] = "legacy" => api \in {"eu", "gspa"}
  /\ password = "legacy" => api = "eu"

IInv == TypeOK /\ Global /\ IntactIsCurrent /\ \A t \in Threads : ThreadInv(t)

-----------------------------------------------------------------------------
(* The helpers.                                                             *)

LEMMA TokFacts ==
  ASSUME NEW f \in Families, NEW c \in BOOLEAN, NEW a \in BOOLEAN, NEW p \in Passwords
  PROVE  /\ Tok(f, c, a, p) \in Token
         /\ Tok(f, c, a, p).cur = c /\ Tok(f, c, a, p).acc = a /\ Tok(f, c, a, p).pw = p
BY DEF Tok, Token

LEMMA TokenFields ==
  ASSUME NEW x \in Token
  PROVE  /\ x.fam \in Families /\ x.cur \in BOOLEAN /\ x.acc \in BOOLEAN /\ x.pw \in Passwords
         /\ x # None
BY NoneAssumption DEF Token

\* What the manager and the other threads hold keeps everything but its
\* refresh token.
Alike(x, y) ==
  /\ x = None <=> y = None
  /\ x # None => y.pw = x.pw /\ y.acc = x.acc
  /\ y \in Token \cup {None}

LEMMA Left ==
  ASSUME NEW y \in Token \cup {None}, NEW f, NEW c \in BOOLEAN
  PROVE  Alike(y, IF c /\ y # None /\ y.fam = f THEN Tok(f, FALSE, y.acc, y.pw) ELSE y)
<1>1. CASE y = None
  BY <1>1 DEF Alike
<1>2. CASE y \in Token /\ y.fam = f
  <2>1. Tok(f, FALSE, y.acc, y.pw) \in Token
    BY <1>2, TokenFields, TokFacts
  <2>2. Tok(f, FALSE, y.acc, y.pw).pw = y.pw /\ Tok(f, FALSE, y.acc, y.pw).acc = y.acc
    BY DEF Tok
  <2> QED
    BY <1>2, <2>1, <2>2, TokenFields DEF Alike
<1>3. CASE y \in Token /\ y.fam # f
  BY <1>3 DEF Alike
<1> QED
  BY <1>1, <1>2, <1>3

LEMMA RotateFacts ==
  ASSUME TypeOK, NEW t \in Threads, NEW f, NEW r \in BOOLEAN,
         NEW x \in Token \cup {None}, Rotate(t, f, r, x)
  PROVE  /\ Alike(token, token')
         /\ held' \in [Threads -> Token \cup {None}] /\ held'[t] = x
         /\ \A u \in Threads \ {t} : Alike(held[u], held'[u])
         /\ legacy' \in BOOLEAN
<1> DEFINE L(y) == IF r /\ y # None /\ y.fam = f THEN Tok(f, FALSE, y.acc, y.pw) ELSE y
<1>1. /\ token' = L(token) /\ held' = [u \in Threads |-> IF u = t THEN x ELSE L(held[u])]
      /\ legacy' = (legacy /\ ~ (r /\ f = 0))
  BY DEF Rotate
<1>2. \A y \in Token \cup {None} : Alike(y, L(y))
  BY Left
<1>3. \A y \in Token \cup {None} : L(y) \in Token \cup {None}
  BY <1>2 DEF Alike
<1> HIDE DEF L
<1>4. legacy' \in BOOLEAN
  BY <1>1
<1> QED
  BY <1>1, <1>2, <1>3, <1>4 DEF TypeOK

LEMMA DropFacts ==
  ASSUME TypeOK, NEW f \in Families, CloudDrops(f)
  PROVE  /\ token = None <=> token' = None
         /\ token # None => token'.pw = token.pw
         /\ token' \in Token \cup {None}
         /\ held' \in [Threads -> Token \cup {None}]
         /\ \A t \in Threads : /\ held[t] = None <=> held'[t] = None
                               /\ held[t] # None => held'[t].pw = held[t].pw
         /\ legacy' \in BOOLEAN
<1> DEFINE L(y, c, a) == IF y # None /\ y.fam = f
                         THEN Tok(f, y.cur /\ c, y.acc /\ a, y.pw) ELSE y
<1>1. PICK c \in BOOLEAN, a \in BOOLEAN :
        /\ token' = L(token, c, a)
        /\ held' = [t \in Threads |-> L(held[t], c, a)]
        /\ legacy' = (legacy /\ (f # 0 \/ c))
  BY DEF CloudDrops
<1>2. ASSUME NEW y \in Token \cup {None}
      PROVE  /\ y = None <=> L(y, c, a) = None
             /\ y # None => L(y, c, a).pw = y.pw
             /\ L(y, c, a) \in Token \cup {None}
  <2>1. CASE y \in Token /\ y.fam = f
    <3>1. Tok(f, y.cur /\ c, y.acc /\ a, y.pw) \in Token
      BY <2>1, TokenFields, TokFacts
    <3>2. Tok(f, y.cur /\ c, y.acc /\ a, y.pw).pw = y.pw
      BY DEF Tok
    <3> QED
      BY <2>1, <3>1, <3>2, TokenFields
  <2>2. CASE ~ (y \in Token /\ y.fam = f)
    BY <2>2, TokenFields
  <2> QED
    BY <2>1, <2>2
<1>3. legacy' \in BOOLEAN
  BY <1>1
<1> HIDE DEF L
<1> QED
  BY <1>1, <1>2, <1>3 DEF TypeOK

LEMMA FinishTypes ==
  ASSUME TypeOK, NEW t \in Threads, NEW r \in Results, Finish(t, r)
  PROVE  /\ pc' \in [Threads -> PCs] /\ result' \in [Threads -> Results \cup {None}]
         /\ op' \in [Threads -> Ops \cup {None}]
         /\ via' \in [Threads -> {"first", "refresh", "retry", None}]
         /\ held' \in [Threads -> Token \cup {None}]
         /\ pw' \in [Threads -> Passwords \cup {None}]
BY DEF Finish, Goto, TypeOK, PCs

LEMMA RaisesTypes ==
  ASSUME TypeOK, NEW t \in Threads, NEW r \in {"auth", "error"}, Raises(t, r)
  PROVE  /\ pc' \in [Threads -> PCs] /\ result' \in [Threads -> Results \cup {None}]
         /\ op' \in [Threads -> Ops \cup {None}]
         /\ via' \in [Threads -> {"first", "refresh", "retry", None}]
         /\ held' \in [Threads -> Token \cup {None}]
         /\ pw' \in [Threads -> Passwords \cup {None}]
<1>1. CASE via[t] = "refresh" /\ r = "auth"
  BY <1>1 DEF Raises, Goto, TypeOK, PCs
<1>2. CASE ~ (via[t] = "refresh" /\ r = "auth")
  BY <1>2, FinishTypes DEF Raises, Results
<1> QED
  BY <1>1, <1>2

LEMMA DisturbTypes ==
  ASSUME TypeOK, Disturb \/ Undisturbed
  PROVE  /\ quiet' \in [Threads -> {"calm", "alone", "crowded"}]
         /\ due' \in [Threads -> SUBSET {"success", "silence"}]
         /\ intact' \in BOOLEAN
BY DEF Disturb, Undisturbed, TypeOK

LEMMA LogInTypes ==
  ASSUME TypeOK, NEW t \in Threads, NEW v \in {"first", "retry"}, LogIn(t, v)
  PROVE  /\ pc' \in [Threads -> PCs]
         /\ via' \in [Threads -> {"first", "refresh", "retry", None}]
         /\ pw' \in [Threads -> Passwords \cup {None}]
BY DEF LogIn, Goto, TypeOK, PCs, Passwords

LEMMA RefreshTypes ==
  ASSUME TypeOK, NEW t \in Threads, token # None, Refresh(t)
  PROVE  /\ pc' \in [Threads -> PCs]
         /\ via' \in [Threads -> {"first", "refresh", "retry", None}]
         /\ held' \in [Threads -> Token \cup {None}]
         /\ pw' \in [Threads -> Passwords \cup {None}]
<1>1. token \in Token /\ token.pw \in Passwords
  BY TokenFields DEF TypeOK
<1> QED
  BY <1>1 DEF Refresh, Goto, TypeOK, PCs

LEMMA KeepTypes ==
  ASSUME TypeOK, NEW t \in Threads, KeepToken(t)
  PROVE  /\ pc' \in [Threads -> PCs]
         /\ via' \in [Threads -> {"first", "refresh", "retry", None}]
         /\ held' \in [Threads -> Token \cup {None}]
         /\ pw' \in [Threads -> Passwords \cup {None}]
BY DEF KeepToken, Goto, TypeOK, PCs

LEMMA MostFacts == Most \in {1, 2} /\ (UNCHANGED config => Most' = Most)
BY DEF Most, GrantCarriesPassword, config

\* A request with a password that may still be sent.
LEMMA PostFacts ==
  ASSUME TypeOK, NEW t \in Threads, NEW q \in Passwords, posts[t][q] <= 1, Post(t, q)
  PROVE  /\ posts' \in [Threads -> [Passwords -> 0..2]]
         /\ \A u \in Threads \ {t} : posts'[u] = posts[u]
         /\ ~ Solo(t) => posts'[t] = posts[t]
         /\ Solo(t) => \A p \in Passwords :
              posts'[t][p] = IF p = q THEN posts[t][p] + 1 ELSE posts[t][p]
<1>1. CASE ~ Solo(t)
  BY <1>1 DEF Post, Solo, TypeOK
<1>2. CASE Solo(t)
  <2>1. posts[t][q] \in 0..1
    BY DEF TypeOK
  <2>2. posts' = [posts EXCEPT ![t][q] = @ + 1]
    BY <1>2 DEF Post, Solo
  <2> DEFINE counts == [posts[t] EXCEPT ![q] = @ + 1]
  <2>3. posts' = [posts EXCEPT ![t] = counts] /\ posts \in [Threads -> [Passwords -> 0..2]]
    BY <2>2 DEF TypeOK
  <2>4. /\ counts \in [Passwords -> 0..2]
        /\ \A p \in Passwords : counts[p] = IF p = q THEN posts[t][p] + 1 ELSE posts[t][p]
    BY <2>1, <2>3
  <2> HIDE DEF counts
  <2> QED
    BY <1>2, <2>3, <2>4
<1> QED
  BY <1>1, <1>2

\* A login has sent its password before only as the grant does.
LEMMA LoginPosts ==
  ASSUME TypeOK, NEW t \in Threads, Shape(t), Logins(t), pc[t] = "login"
  PROVE  /\ pw[t] \in Passwords /\ posts[t][pw[t]] <= 1 /\ posts[t][pw[t]] <= Most - 1
         /\ \A p \in Passwords : posts[t][p] \in Nat
<1>1. pw[t] \in Passwords /\ \A p \in Passwords : posts[t][p] \in 0..2
  BY DEF Shape, TypeOK
<1>2. CASE via[t] # "retry"
  BY <1>1, <1>2, MostFacts DEF Logins
<1>3. CASE via[t] = "retry"
  BY <1>1, <1>3, MostFacts DEF Logins
<1> QED
  BY <1>1, <1>2, <1>3

\* A grant sends the password of its token, or none.
LEMMA GrantPosts ==
  ASSUME TypeOK, NEW t \in Threads, pc[t] = "grant", Logins(t), held[t] \in Token, PostGrant(t)
  PROVE  /\ posts' \in [Threads -> [Passwords -> 0..2]]
         /\ \A u \in Threads \ {t} : posts'[u] = posts[u]
         /\ ~ Solo(t) => posts'[t] = posts[t]
         /\ \A p \in Passwords : posts'[t][p] \in 0..(Most - 1)
         /\ \A p \in Passwords : p # held[t].pw => posts'[t][p] = 0
<1>1. held[t].pw \in Passwords /\ \A p \in Passwords : posts[t][p] = 0
  BY TokenFields DEF Logins, Unposted
<1>2. CASE GrantCarriesPassword
  <2>1. Post(t, held[t].pw) /\ Most = 2
    BY <1>2 DEF PostGrant, Most
  <2>2. posts[t][held[t].pw] <= 1
    BY <1>1
  <2> QED
    BY <1>1, <2>1, <2>2, PostFacts
<1>3. CASE ~ GrantCarriesPassword
  <2>1. posts' = posts /\ Most = 1
    BY <1>3 DEF PostGrant, Most
  <2> QED
    BY <1>1, <2>1 DEF TypeOK
<1> QED
  BY <1>2, <1>3

LEMMA BeginTypes ==
  ASSUME TypeOK, NEW t \in Threads, NEW o \in Ops, Begin(t, o)
  PROVE  /\ op' \in [Threads -> Ops \cup {None}]
         /\ result' \in [Threads -> Results \cup {None}]
         /\ posts' \in [Threads -> [Passwords -> 0..2]]
         /\ due' \in [Threads -> SUBSET {"success", "silence"}]
         /\ quiet' \in [Threads -> {"calm", "alone", "crowded"}]
         /\ intact' \in BOOLEAN
         /\ UNCHANGED <<cloud, manager, config>>
<1>1. Owed(o) \in SUBSET {"success", "silence"}
  BY DEF Owed
<1>2. intact' \in BOOLEAN
  BY DEF Begin
<1> QED
  BY <1>1, <1>2 DEF Begin, TypeOK

LEMMA TypeStep ==
  ASSUME IInv, [Next]_vars
  PROVE  TypeOK'
<1>0. TypeOK /\ \A t \in Threads : Shape(t) /\ Logins(t)
  BY DEF IInv, ThreadInv
<1>1. ASSUME NEW t \in Threads, check_and_refresh_token(t) PROVE TypeOK'
  <2>1. Begin(t, "check") /\ UNCHANGED <<cloud, manager, config>>
    BY <1>1 DEF check_and_refresh_token, Begin
  <2>2. /\ pc' \in [Threads -> PCs]
        /\ via' \in [Threads -> {"first", "refresh", "retry", None}]
        /\ held' \in [Threads -> Token \cup {None}]
        /\ pw' \in [Threads -> Passwords \cup {None}]
    <3>1. CASE LogIn(t, "first") /\ UNCHANGED held
      BY <1>0, <3>1, LogInTypes DEF TypeOK
    <3>2. CASE token # None /\ Refresh(t)
      BY <1>0, <3>2, RefreshTypes
    <3>3. CASE /\ token # None
               /\ held' = [held EXCEPT ![t] = token] /\ Goto(t, "testing") /\ UNCHANGED <<via, pw>>
      BY <1>0, <3>3 DEF Goto, TypeOK, PCs
    <3>4. CASE KeepToken(t)
      BY <1>0, <3>4, KeepTypes
    <3> QED
      BY <1>1, <3>1, <3>2, <3>3, <3>4 DEF check_and_refresh_token
  <2> QED
    BY <1>0, <2>1, <2>2, BeginTypes DEF TypeOK, Ops, cloud, manager, config
<1>2. ASSUME NEW t \in Threads, login(t) PROVE TypeOK'
  <2>1. Begin(t, "login") /\ LogIn(t, "first") /\ UNCHANGED held
    BY <1>2 DEF login
  <2> QED
    BY <1>0, <2>1, BeginTypes, LogInTypes DEF TypeOK, Ops, cloud, manager, config
<1>3. ASSUME NEW t \in Threads, TestAnswered(t) PROVE TypeOK'
  <2>1. token # None /\ (KeepToken(t) \/ Refresh(t))
    BY <1>0, <1>3 DEF TestAnswered, Shape, At
  <2> QED
    BY <1>0, <1>3, <2>1, KeepTypes, RefreshTypes
       DEF TestAnswered, TypeOK, cloud, manager, config, history
<1>4. ASSUME NEW t \in Threads, TestFails(t) PROVE TypeOK'
  <2>1. token # None /\ (KeepToken(t) \/ Refresh(t))
    BY <1>0, <1>4 DEF TestFails, Shape, At
  <2> QED
    BY <1>0, <1>4, <2>1, KeepTypes, RefreshTypes, DisturbTypes
       DEF TestFails, TypeOK, cloud, manager, config
<1>5. ASSUME NEW t \in Threads, TestRaises(t) PROVE TypeOK'
  BY <1>0, <1>5, FinishTypes, DisturbTypes
     DEF TestRaises, TypeOK, cloud, manager, config, Results
<1>6. ASSUME NEW t \in Threads, GrantOk(t) PROVE TypeOK'
  <2>1. PICK r \in BOOLEAN :
          Rotate(t, held[t].fam, r, Tok(held[t].fam, TRUE, Grant(held[t].pw) = "oauth", held[t].pw))
    BY <1>6 DEF GrantOk
  <2>2. held[t] \in Token
    BY <1>0, <1>6 DEF GrantOk, Shape, At
  <2>3. Tok(held[t].fam, TRUE, Grant(held[t].pw) = "oauth", held[t].pw) \in Token
    BY <2>2, TokenFields, TokFacts
  <2>4. token' \in Token \cup {None} /\ held' \in [Threads -> Token \cup {None}]
        /\ legacy' \in BOOLEAN
    BY <1>0, <2>1, <2>3, RotateFacts DEF Alike
  <2> QED
    BY <1>0, <1>6, <2>2, <2>4, GrantPosts
       DEF GrantOk, Undisturbed, Goto, TypeOK, PCs, config, At
<1>7. ASSUME NEW t \in Threads, GrantRefused(t) PROVE TypeOK'
  <2>1. pc[t] = "grant" /\ held[t] \in Token /\ held[t].pw \in Passwords /\ PostGrant(t)
    BY <1>0, <1>7, TokenFields DEF GrantRefused, Shape, At
  <2>2. posts' \in [Threads -> [Passwords -> 0..2]]
    BY <1>0, <2>1, GrantPosts
  <2> QED
    BY <1>0, <1>7, <2>1, <2>2, DisturbTypes DEF GrantRefused, FallBack, Goto, TypeOK, PCs, config
<1>8. ASSUME NEW t \in Threads, GrantFails(t) PROVE TypeOK'
  <2>1. held[t] \in Token /\ held[t].pw \in Passwords /\ held[t].cur \in BOOLEAN
    BY <1>0, <1>8, TokenFields DEF GrantFails, Shape, At
  <2>2. PICK r \in BOOLEAN : Rotate(t, held[t].fam, r /\ held[t].cur, None)
    BY <1>8 DEF GrantFails
  <2>3. (r /\ held[t].cur) \in BOOLEAN
    OBVIOUS
  <2>4. token' \in Token \cup {None} /\ held' \in [Threads -> Token \cup {None}]
        /\ legacy' \in BOOLEAN
    BY <1>0, <2>2, <2>3, RotateFacts DEF Alike
  <2>5. posts' \in [Threads -> [Passwords -> 0..2]]
    BY <1>0, <1>8, <2>1, GrantPosts DEF GrantFails, At
  <2> QED
    BY <1>0, <1>8, <2>1, <2>4, <2>5, DisturbTypes DEF GrantFails, FallBack, Goto, TypeOK, PCs, config
<1>9. ASSUME NEW t \in Threads, ExchangeOk(t) PROVE TypeOK'
  <2>1. held[t] \in Token
    BY <1>0, <1>9 DEF ExchangeOk, Shape
  <2>2. Tok(held[t].fam, held[t].cur, TRUE, held[t].pw) \in Token
    BY <2>1, TokenFields, TokFacts
  <2> QED
    BY <1>0, <1>9, <2>2 DEF ExchangeOk, Goto, TypeOK, PCs, cloud, manager, config, history
<1>10. ASSUME NEW t \in Threads, ExchangeFails(t) PROVE TypeOK'
  <2>1. held[t].pw \in Passwords
    BY <1>0, <1>10, TokenFields DEF ExchangeFails, Shape, At
  <2> QED
    BY <1>0, <1>10, <2>1, DisturbTypes DEF ExchangeFails, FallBack, Goto, TypeOK, PCs, config
<1>11. ASSUME NEW t \in Threads, SignInOk(t) PROVE TypeOK'
  <2>1. pw[t] \in Passwords /\ posts[t][pw[t]] <= 1
    BY <1>0, <1>11, LoginPosts DEF SignInOk, At
  <2>2. PICK f \in 1..MaxFamily :
          held' = [held EXCEPT ![t] = Tok(f, TRUE, api \in {"type1", "bluelink", "ca"}, pw[t])]
    BY <1>11 DEF SignInOk
  <2>3. Tok(f, TRUE, api \in {"type1", "bluelink", "ca"}, pw[t]) \in Token
    <3>1. f \in Families /\ TRUE \in BOOLEAN /\ (api \in {"type1", "bluelink", "ca"}) \in BOOLEAN
      BY TokenAssumption DEF Families
    <3> QED
      BY <2>1, <3>1, TokFacts
  <2>4. posts' \in [Threads -> [Passwords -> 0..2]]
    BY <1>0, <1>11, <2>1, PostFacts DEF SignInOk
  <2> QED
    BY <1>0, <1>11, <2>2, <2>3, <2>4
       DEF SignInOk, Undisturbed, Goto, TypeOK, PCs, cloud, manager, config
<1>12. ASSUME NEW t \in Threads, PresentOk(t) PROVE TypeOK'
  <2>1. pw[t] \in Passwords /\ posts[t][pw[t]] <= 1
    BY <1>0, <1>12, LoginPosts DEF PresentOk, At
  <2>2. PICK r \in BOOLEAN : Rotate(t, 0, r, Tok(0, ~ r, TRUE, "legacy"))
    BY <1>12 DEF PresentOk
  <2>3. Tok(0, ~ r, TRUE, "legacy") \in Token
    <3>1. 0 \in Families /\ TRUE \in BOOLEAN /\ (~ r) \in BOOLEAN /\ "legacy" \in Passwords
      BY TokenAssumption DEF Families, Passwords
    <3> QED
      BY <3>1, TokFacts
  <2>4. token' \in Token \cup {None} /\ held' \in [Threads -> Token \cup {None}]
        /\ legacy' \in BOOLEAN
    BY <1>0, <2>2, <2>3, RotateFacts DEF Alike
  <2>5. posts' \in [Threads -> [Passwords -> 0..2]]
    BY <1>0, <1>12, <2>1, PostFacts DEF PresentOk
  <2> QED
    BY <1>0, <1>12, <2>4, <2>5 DEF PresentOk, Undisturbed, Goto, TypeOK, PCs, config
<1>13. ASSUME NEW t \in Threads, LoginRefused(t) PROVE TypeOK'
  <2>1. pw[t] \in Passwords /\ posts[t][pw[t]] <= 1
    BY <1>0, <1>13, LoginPosts DEF LoginRefused, At
  <2>2. posts' \in [Threads -> [Passwords -> 0..2]]
    BY <1>0, <1>13, <2>1, PostFacts DEF LoginRefused
  <2>3. PICK r \in {"auth", "error"} : Raises(t, r)
    BY <1>13 DEF LoginRefused
  <2> QED
    BY <1>0, <1>13, <2>2, <2>3, RaisesTypes
       DEF LoginRefused, Undisturbed, TypeOK, cloud, manager, config
<1>14. ASSUME NEW t \in Threads, LoginFails(t) PROVE TypeOK'
  <2>2. posts' \in [Threads -> [Passwords -> 0..2]]
    <3>1. CASE At(t, "login") /\ Post(t, pw[t])
      <4>1. pw[t] \in Passwords /\ posts[t][pw[t]] <= 1
        BY <1>0, <3>1, LoginPosts DEF At
      <4> QED
        BY <1>0, <3>1, <4>1, PostFacts
    <3>2. CASE UNCHANGED posts
      BY <1>0, <3>2 DEF TypeOK
    <3> QED
      BY <1>14, <3>1, <3>2 DEF LoginFails
  <2>3. PICK r \in {"auth", "error"} : Raises(t, r)
    BY <1>14 DEF LoginFails
  <2> QED
    BY <1>0, <1>14, <2>2, <2>3, RaisesTypes, DisturbTypes
       DEF LoginFails, TypeOK, cloud, manager, config
<1>15. ASSUME NEW t \in Threads, LoginNeedsOtp(t) PROVE TypeOK'
  <2>1. pw[t] \in Passwords /\ posts[t][pw[t]] <= 1
    BY <1>0, <1>15, LoginPosts DEF LoginNeedsOtp, At
  <2>2. posts' \in [Threads -> [Passwords -> 0..2]]
    BY <1>0, <1>15, <2>1, PostFacts DEF LoginNeedsOtp
  <2> QED
    BY <1>0, <1>15, <2>2, FinishTypes
       DEF LoginNeedsOtp, TypeOK, cloud, manager, config, Results
<1>16. ASSUME NEW t \in Threads, HandleAuth(t) PROVE TypeOK'
  BY <1>0, <1>16, LogInTypes, FinishTypes
     DEF HandleAuth, TypeOK, cloud, manager, config, history, Results
<1>17. ASSUME NEW t \in Threads, Store(t) PROVE TypeOK'
  BY <1>0, <1>17 DEF Store, Goto, TypeOK, PCs, cloud, config
<1>18. ASSUME NEW t \in Threads, CountVehicles(t) PROVE TypeOK'
  <2>1. CASE vehicles
    BY <1>0, <1>18, <2>1, FinishTypes
       DEF CountVehicles, TypeOK, cloud, manager, config, history, Results
  <2>2. CASE ~ vehicles
    BY <1>0, <1>18, <2>2
       DEF CountVehicles, Goto, TypeOK, PCs, cloud, manager, config, history, locals
  <2> QED
    BY <2>1, <2>2
<1>19. ASSUME NEW t \in Threads, Initialize(t) PROVE TypeOK'
  BY <1>0, <1>19, FinishTypes DEF Initialize, TypeOK, cloud, config, history, Results
<1>20. ASSUME NEW t \in Threads, InitializeFails(t) PROVE TypeOK'
  BY <1>0, <1>20, FinishTypes, DisturbTypes
     DEF InitializeFails, TypeOK, cloud, manager, config, Results
<1>21. ASSUME NEW f \in Families, CloudDrops(f) PROVE TypeOK'
  BY <1>0, <1>21, DropFacts, DisturbTypes DEF CloudDrops, TypeOK, config
<1>22. CASE PasswordChanges
  BY <1>0, <1>22, DisturbTypes DEF PasswordChanges, Nothing, TypeOK, manager, config, locals
<1>23. CASE ExpiryPasses
  BY <1>0, <1>23 DEF ExpiryPasses, Undisturbed, Nothing, TypeOK, cloud, config, locals
<1>24. CASE UNCHANGED vars
  BY <1>0, <1>24 DEF vars, cloud, manager, config, locals, history, TypeOK
<1> QED
  BY <1>1, <1>2, <1>3, <1>4, <1>5, <1>6, <1>7, <1>8, <1>9, <1>10, <1>11, <1>12, <1>13, <1>14,
     <1>15, <1>16, <1>17, <1>18, <1>19, <1>20, <1>21, <1>22, <1>23, <1>24 DEF Next, Call, Step

-----------------------------------------------------------------------------
(* What the step of a thread leaves alone.                                  *)

SameLocals(u) ==
  /\ pc'[u] = pc[u] /\ op'[u] = op[u] /\ via'[u] = via[u] /\ pw'[u] = pw[u]
  /\ result'[u] = result[u]

SameHeld(u) ==
  /\ held[u] = None <=> held'[u] = None
  /\ held[u] \in Token => held'[u] \in Token /\ held'[u].pw = held[u].pw

Marks(u) ==
  /\ quiet'[u] = "crowded" <=> quiet[u] = "crowded"
  /\ quiet'[u] = "calm" => quiet[u] = "calm"
  /\ due'[u] \subseteq due[u]
  /\ due'[u] # {} => quiet'[u] = quiet[u]

Frame(t) ==
  /\ \A u \in Threads \ {t} : SameLocals(u) /\ SameHeld(u) /\ posts'[u] = posts[u]
  /\ \A u \in Threads : Marks(u)
  /\ token # None => token' # None
  /\ UNCHANGED config

LEMMA FinishSame ==
  ASSUME TypeOK, NEW t \in Threads, NEW r, Finish(t, r)
  PROVE  /\ \A u \in Threads \ {t} : SameLocals(u) /\ held'[u] = held[u]
         /\ pc'[t] = "idle" /\ held'[t] = None /\ pw'[t] = None /\ op'[t] = None
         /\ quiet[t] = "calm" => result'[t] = r
BY DEF Finish, Goto, SameLocals, TypeOK

LEMMA RaisesSame ==
  ASSUME TypeOK, NEW t \in Threads, NEW r, Raises(t, r)
  PROVE  /\ \A u \in Threads \ {t} : SameLocals(u) /\ held'[u] = held[u]
         /\ held'[t] = None /\ pw'[t] = None
         /\ \/ /\ via[t] = "refresh" /\ r = "auth" /\ pc'[t] = "handler"
               /\ via'[t] = via[t] /\ op'[t] = op[t]
            \/ /\ ~ (via[t] = "refresh" /\ r = "auth") /\ pc'[t] = "idle" /\ op'[t] = None
               /\ quiet[t] = "calm" => result'[t] = r
<1>1. CASE via[t] = "refresh" /\ r = "auth"
  BY <1>1 DEF Raises, Goto, SameLocals, TypeOK
<1>2. CASE ~ (via[t] = "refresh" /\ r = "auth")
  BY <1>2, FinishSame DEF Raises
<1> QED
  BY <1>1, <1>2

LEMMA DisturbMarks ==
  ASSUME TypeOK, Disturb \/ Undisturbed, NEW u \in Threads
  PROVE  Marks(u)
<1>1. CASE Disturb
  BY <1>1 DEF Disturb, Marks, TypeOK
<1>2. CASE Undisturbed
  BY <1>2 DEF Undisturbed, Marks, TypeOK
<1> QED
  BY <1>1, <1>2

LEMMA RefreshSame ==
  ASSUME TypeOK, NEW t \in Threads, token # None, Refresh(t)
  PROVE  /\ \A u \in Threads \ {t} : /\ pc'[u] = pc[u] /\ via'[u] = via[u]
                                    /\ pw'[u] = pw[u] /\ held'[u] = held[u]
         /\ via'[t] = "refresh" /\ held'[t] = token
         /\ \/ Grant(token.pw) = "login" /\ pc'[t] = "login" /\ pw'[t] = token.pw
            \/ Grant(token.pw) # "login" /\ pc'[t] = "grant" /\ pw'[t] = pw[t]
BY DEF Refresh, Goto, TypeOK

LEMMA KeepSame ==
  ASSUME TypeOK, NEW t \in Threads, KeepToken(t)
  PROVE  /\ \A u \in Threads \ {t} : /\ pc'[u] = pc[u] /\ via'[u] = via[u]
                                    /\ pw'[u] = pw[u] /\ held'[u] = held[u]
         /\ pc'[t] = "vehicles" /\ held'[t] = None /\ pw'[t] = pw[t]
BY DEF KeepToken, Goto, TypeOK

LEMMA LogInSame ==
  ASSUME TypeOK, NEW t \in Threads, NEW v, LogIn(t, v)
  PROVE  /\ \A u \in Threads \ {t} : /\ pc'[u] = pc[u] /\ via'[u] = via[u] /\ pw'[u] = pw[u]
         /\ pc'[t] = "login" /\ via'[t] = v /\ pw'[t] = password
BY DEF LogIn, Goto, TypeOK

LEMMA FallBackSame ==
  ASSUME TypeOK, NEW t \in Threads, FallBack(t)
  PROVE  /\ \A u \in Threads \ {t} : SameLocals(u)
         /\ pc'[t] = "login" /\ pw'[t] = held[t].pw
         /\ via'[t] = via[t] /\ op'[t] = op[t]
         /\ UNCHANGED <<right, vehicles, config>>
BY DEF FallBack, Goto, SameLocals, TypeOK

LEMMA AlikeIsSame ==
  ASSUME NEW u \in Threads, held[u] \in Token \cup {None}, Alike(held[u], held'[u])
  PROVE  SameHeld(u)
BY NoneAssumption DEF Alike, SameHeld

LEMMA GrantOkFacts ==
  ASSUME IInv, NEW t \in Threads, GrantOk(t)
  PROVE  /\ pc[t] = "grant" /\ held[t] \in Token /\ held[t].cur
         /\ held'[t] \in Token /\ held'[t].cur /\ held'[t].pw = held[t].pw
         /\ held'[t].acc = (Grant(held[t].pw) = "oauth")
         /\ Alike(token, token')
         /\ pc'[t] = IF Grant(held[t].pw) = "oauth" THEN "store" ELSE "exchange"
         /\ \A u \in Threads \ {t} : SameLocals(u) /\ SameHeld(u)
         /\ via'[t] = via[t] /\ op'[t] = op[t] /\ pw'[t] = pw[t]
         /\ UNCHANGED <<right, vehicles, config, quiet, due, intact>> /\ PostGrant(t)
<1>0. TypeOK /\ Shape(t)
  BY DEF IInv, ThreadInv
<1>1. pc[t] = "grant" /\ held[t] \in Token /\ held[t].cur
  BY <1>0 DEF GrantOk, Shape, At
<1> DEFINE a == Grant(held[t].pw) = "oauth"
           x == Tok(held[t].fam, TRUE, a, held[t].pw)
<1>2. /\ held[t].fam \in Families /\ held[t].pw \in Passwords
      /\ TRUE \in BOOLEAN /\ a \in BOOLEAN
  BY <1>1, TokenFields
<1>3. PICK r \in BOOLEAN : Rotate(t, held[t].fam, r, x)
  BY DEF GrantOk
<1> HIDE DEF a
<1>4. x \in Token /\ x.cur = TRUE /\ x.acc = a /\ x.pw = held[t].pw
  <2>2. x \in Token
    BY <1>2, TokFacts
  <2>3. x.cur = TRUE /\ x.acc = a /\ x.pw = held[t].pw
    BY DEF Tok
  <2> QED
    BY <2>2, <2>3
<1> HIDE DEF x
<1>5. Alike(token, token') /\ held'[t] = x /\ \A u \in Threads \ {t} : Alike(held[u], held'[u])
  BY <1>0, <1>3, <1>4, RotateFacts
<1>6. \A u \in Threads \ {t} : SameHeld(u)
  BY <1>0, <1>5, AlikeIsSame DEF TypeOK
<1>7. /\ pc'[t] = IF a THEN "store" ELSE "exchange"
      /\ \A u \in Threads \ {t} : SameLocals(u)
      /\ via'[t] = via[t] /\ op'[t] = op[t] /\ pw'[t] = pw[t]
      /\ UNCHANGED <<right, vehicles, config, quiet, due, intact>> /\ PostGrant(t)
  BY <1>0 DEF GrantOk, Undisturbed, Goto, SameLocals, TypeOK, a
<1> QED
  BY <1>1, <1>4, <1>5, <1>6, <1>7 DEF a

LEMMA PresentOkFacts ==
  ASSUME IInv, NEW t \in Threads, PresentOk(t)
  PROVE  /\ pc[t] = "login" /\ api = "eu" /\ pw[t] = "legacy"
         /\ held'[t] \in Token /\ held'[t].pw = "legacy" /\ held'[t].acc
         /\ Alike(token, token')
         /\ pc'[t] = "store"
         /\ \A u \in Threads \ {t} : SameLocals(u) /\ SameHeld(u)
         /\ via'[t] = via[t] /\ op'[t] = op[t] /\ pw'[t] = pw[t]
         /\ UNCHANGED <<right, vehicles, config>> /\ Undisturbed /\ Post(t, pw[t])
<1>0. TypeOK
  BY DEF IInv
<1>1. PICK r \in BOOLEAN : Rotate(t, 0, r, Tok(0, ~ r, TRUE, "legacy"))
  BY DEF PresentOk
<1> DEFINE x == Tok(0, ~ r, TRUE, "legacy")
<1>2. 0 \in Families /\ TRUE \in BOOLEAN /\ (~ r) \in BOOLEAN /\ "legacy" \in Passwords
  BY TokenAssumption DEF Families, Passwords
<1>3. x \in Token /\ x.acc = TRUE /\ x.pw = "legacy"
  <2>1. \A b \in BOOLEAN : /\ Tok(0, b, TRUE, "legacy") \in Token
                            /\ Tok(0, b, TRUE, "legacy").acc = TRUE
                            /\ Tok(0, b, TRUE, "legacy").pw = "legacy"
    BY <1>2 DEF Tok, Token
  <2> QED
    BY <1>2, <2>1, Zenon
<1> HIDE DEF x
<1>4. Alike(token, token') /\ held'[t] = x /\ \A u \in Threads \ {t} : Alike(held[u], held'[u])
  BY <1>0, <1>1, <1>3, RotateFacts DEF x
<1>5. \A u \in Threads \ {t} : SameHeld(u)
  BY <1>0, <1>4, AlikeIsSame DEF TypeOK
<1>6. /\ pc[t] = "login" /\ api = "eu" /\ pw[t] = "legacy" /\ pc'[t] = "store"
      /\ \A u \in Threads \ {t} : SameLocals(u)
      /\ via'[t] = via[t] /\ op'[t] = op[t] /\ pw'[t] = pw[t]
      /\ UNCHANGED <<right, vehicles, config>> /\ Undisturbed /\ Post(t, pw[t])
  BY <1>0 DEF PresentOk, At, Presents, Goto, SameLocals, TypeOK
<1> QED
  BY <1>3, <1>4, <1>5, <1>6

LEMMA SignInOkFacts ==
  ASSUME IInv, NEW t \in Threads, SignInOk(t)
  PROVE  /\ pc[t] = "login" /\ pw[t] \in Passwords
         /\ held'[t] \in Token /\ held'[t].cur /\ held'[t].pw = pw[t]
         /\ held'[t].acc = (api \in {"type1", "bluelink", "ca"})
         /\ pc'[t] = IF api \in {"type1", "bluelink", "ca"} THEN "store" ELSE "signedIn"
         /\ \A u \in Threads \ {t} : SameLocals(u) /\ held'[u] = held[u]
         /\ via'[t] = via[t] /\ op'[t] = op[t] /\ pw'[t] = pw[t]
         /\ UNCHANGED <<cloud, manager, config>> /\ Undisturbed /\ Post(t, pw[t])
<1>0. TypeOK /\ Shape(t)
  BY DEF IInv, ThreadInv
<1>1. pc[t] = "login" /\ pw[t] \in Passwords
  BY <1>0 DEF SignInOk, At, Shape
<1> DEFINE a == api \in {"type1", "bluelink", "ca"}
<1>2. PICK f \in 1..MaxFamily : held' = [held EXCEPT ![t] = Tok(f, TRUE, a, pw[t])]
  BY DEF SignInOk
<1>3. f \in Families /\ TRUE \in BOOLEAN /\ a \in BOOLEAN
  BY TokenAssumption DEF Families
<1>7. pc'[t] = IF a THEN "store" ELSE "signedIn"
  BY <1>0 DEF SignInOk, Goto, TypeOK
<1> HIDE DEF a
<1> DEFINE x == Tok(f, TRUE, a, pw[t])
<1>4. x \in Token /\ x.cur = TRUE /\ x.acc = a /\ x.pw = pw[t]
  <2>2. x \in Token
    BY <1>1, <1>3, TokFacts
  <2>3. x.cur = TRUE /\ x.acc = a /\ x.pw = pw[t]
    BY DEF Tok
  <2> QED
    BY <2>2, <2>3
<1> HIDE DEF x
<1>5. held'[t] = x /\ \A u \in Threads \ {t} : held'[u] = held[u]
  BY <1>0, <1>2 DEF TypeOK, x
<1>6. /\ \A u \in Threads \ {t} : SameLocals(u)
      /\ via'[t] = via[t] /\ op'[t] = op[t] /\ pw'[t] = pw[t]
      /\ UNCHANGED <<cloud, manager, config>> /\ Undisturbed /\ Post(t, pw[t])
  BY <1>0 DEF SignInOk, Goto, SameLocals, TypeOK
<1> QED
  BY <1>1, <1>4, <1>5, <1>6, <1>7 DEF a

LEMMA ExchangeOkFacts ==
  ASSUME IInv, NEW t \in Threads, ExchangeOk(t)
  PROVE  /\ pc[t] \in {"exchange", "signedIn"} /\ held[t] \in Token
         /\ held'[t] \in Token /\ held'[t].cur = held[t].cur /\ held'[t].pw = held[t].pw
         /\ held'[t].acc /\ pc'[t] = "store"
         /\ \A u \in Threads \ {t} : SameLocals(u) /\ held'[u] = held[u]
         /\ via'[t] = via[t] /\ op'[t] = op[t] /\ pw'[t] = pw[t]
         /\ UNCHANGED <<cloud, manager, config, history>>
<1>0. TypeOK /\ Shape(t)
  BY DEF IInv, ThreadInv
<1>1. pc[t] \in {"exchange", "signedIn"} /\ held[t] \in Token
  BY <1>0 DEF ExchangeOk, Shape
<1> DEFINE x == Tok(held[t].fam, held[t].cur, TRUE, held[t].pw)
<1>2. held' = [held EXCEPT ![t] = x]
  BY DEF ExchangeOk
<1>3. x \in Token /\ x.cur = held[t].cur /\ x.acc = TRUE /\ x.pw = held[t].pw
  <2>1. held[t].fam \in Families /\ held[t].cur \in BOOLEAN /\ TRUE \in BOOLEAN
        /\ held[t].pw \in Passwords
    BY <1>1, TokenFields
  <2>2. x \in Token
    BY <2>1, TokFacts
  <2>3. x.cur = held[t].cur /\ x.acc = TRUE /\ x.pw = held[t].pw
    BY DEF Tok
  <2> QED
    BY <2>2, <2>3
<1> HIDE DEF x
<1>4. /\ pc'[t] = "store" /\ \A u \in Threads \ {t} : SameLocals(u)
      /\ via'[t] = via[t] /\ op'[t] = op[t] /\ pw'[t] = pw[t]
      /\ UNCHANGED <<cloud, manager, config, history>>
  BY <1>0 DEF ExchangeOk, Goto, SameLocals, TypeOK
<1> QED
  BY <1>0, <1>1, <1>2, <1>3, <1>4 DEF TypeOK

LEMMA StepFrame ==
  ASSUME IInv, NEW t \in Threads, Step(t)
  PROVE  Active(t) /\ Frame(t)
<1>0. /\ TypeOK /\ Shape(t) /\ Logins(t)
      /\ \A u \in Threads : quiet'[u] = quiet[u] /\ due'[u] = due[u] => Marks(u)
      /\ \A u \in Threads : held'[u] = held[u] => SameHeld(u)
  BY DEF IInv, ThreadInv, Marks, SameHeld
<1>a. Active(t)
  BY DEF Step, TestAnswered, TestFails, TestRaises, GrantOk, GrantRefused, GrantFails,
     ExchangeOk, ExchangeFails, SignInOk, PresentOk, LoginRefused, LoginFails, LoginNeedsOtp,
     HandleAuth, Store, CountVehicles, Initialize, InitializeFails, At, Active
<1> SUFFICES Frame(t)
  BY <1>a
<1>p. ASSUME pc[t] = "login", Post(t, pw[t]) PROVE \A u \in Threads \ {t} : posts'[u] = posts[u]
  BY <1>0, <1>p, LoginPosts, PostFacts
<1>g. ASSUME pc[t] = "grant", PostGrant(t) PROVE \A u \in Threads \ {t} : posts'[u] = posts[u]
  <2>1. held[t] \in Token
    BY <1>0, <1>g DEF Shape
  <2> QED
    BY <1>0, <1>g, <2>1, GrantPosts
<1>1. CASE TestAnswered(t)
  <2>1. token # None /\ (KeepToken(t) \/ Refresh(t))
    BY <1>0, <1>1 DEF TestAnswered, Shape, At
  <2>2. \A u \in Threads \ {t} : SameLocals(u) /\ held'[u] = held[u]
    BY <1>0, <1>1, <2>1, KeepSame, RefreshSame DEF TestAnswered, SameLocals
  <2> QED
    BY <1>0, <1>1, <2>2 DEF TestAnswered, Frame, history, manager
<1>2. CASE TestFails(t)
  <2>1. token # None /\ (KeepToken(t) \/ Refresh(t))
    BY <1>0, <1>2 DEF TestFails, Shape, At
  <2>2. \A u \in Threads \ {t} : SameLocals(u) /\ held'[u] = held[u]
    BY <1>0, <1>2, <2>1, KeepSame, RefreshSame DEF TestFails, SameLocals
  <2> QED
    BY <1>0, <1>2, <2>2, DisturbMarks DEF TestFails, Frame, manager
<1>3. CASE TestRaises(t)
  BY <1>0, <1>3, FinishSame, DisturbMarks DEF TestRaises, Frame, manager
<1>4. CASE GrantOk(t)
  BY <1>0, <1>g, <1>4, GrantOkFacts DEF Frame, Alike
<1>5. CASE GrantRefused(t)
  <2>1. \A u \in Threads \ {t} : held'[u] = held[u]
    BY <1>0, <1>5 DEF GrantRefused, TypeOK
  <2> QED
    BY <1>0, <1>g, <1>5, <2>1, FallBackSame, DisturbMarks DEF GrantRefused, Frame, At
<1>6. CASE GrantFails(t)
  <2>1. PICK r \in BOOLEAN : Rotate(t, held[t].fam, r /\ held[t].cur, None)
    BY <1>6 DEF GrantFails
  <2>2. (r /\ held[t].cur) \in BOOLEAN
    OBVIOUS
  <2>3. Alike(token, token') /\ \A u \in Threads \ {t} : Alike(held[u], held'[u])
    BY <1>0, <2>1, <2>2, RotateFacts
  <2>4. \A u \in Threads \ {t} : SameHeld(u)
    BY <1>0, <2>3, AlikeIsSame DEF TypeOK
  <2> QED
    BY <1>0, <1>g, <1>6, <2>3, <2>4, FallBackSame, DisturbMarks DEF GrantFails, Frame, Alike, At
<1>7. CASE ExchangeOk(t)
  BY <1>0, <1>7, ExchangeOkFacts DEF Frame, history, manager
<1>8. CASE ExchangeFails(t)
  <2>1. \A u \in Threads \ {t} : held'[u] = held[u]
    BY <1>0, <1>8 DEF ExchangeFails, TypeOK
  <2> QED
    BY <1>0, <1>8, <2>1, FallBackSame, DisturbMarks DEF ExchangeFails, Frame
<1>9. CASE SignInOk(t)
  BY <1>0, <1>p, <1>9, SignInOkFacts, DisturbMarks DEF Frame, manager
<1>10. CASE PresentOk(t)
  BY <1>0, <1>p, <1>10, PresentOkFacts, DisturbMarks DEF Frame, Alike, Passwords
<1>11. CASE LoginRefused(t)
  <2>1. pw[t] \in Passwords /\ \A u \in Threads \ {t} : posts'[u] = posts[u]
    BY <1>0, <1>p, <1>11 DEF LoginRefused, Shape, At
  <2> QED
    BY <1>0, <1>11, <2>1, RaisesSame, DisturbMarks DEF LoginRefused, Frame, manager
<1>12. CASE LoginFails(t)
  <2>1. pw[t] \in Passwords /\ \A u \in Threads \ {t} : posts'[u] = posts[u]
    BY <1>0, <1>p, <1>12 DEF LoginFails, Shape, At
  <2> QED
    BY <1>0, <1>12, <2>1, RaisesSame, DisturbMarks DEF LoginFails, Frame, manager
<1>13. CASE LoginNeedsOtp(t)
  <2>1. pw[t] \in Passwords /\ \A u \in Threads \ {t} : posts'[u] = posts[u]
    BY <1>0, <1>p, <1>13 DEF LoginNeedsOtp, Shape, At
  <2>2. \A u \in Threads : Marks(u)
    BY <1>0, <1>13 DEF LoginNeedsOtp, Marks, TypeOK
  <2> QED
    BY <1>0, <1>13, <2>1, <2>2, FinishSame DEF LoginNeedsOtp, Frame, manager
<1>14. CASE HandleAuth(t)
  <2>1. \A u \in Threads \ {t} : SameLocals(u) /\ held'[u] = held[u]
    BY <1>0, <1>14, LogInSame, FinishSame DEF HandleAuth, SameLocals
  <2> QED
    BY <1>0, <1>14, <2>1 DEF HandleAuth, Frame, manager, history
<1>15. CASE Store(t)
  <2>1. \A u \in Threads \ {t} : SameLocals(u) /\ held'[u] = held[u]
    BY <1>0, <1>15 DEF Store, Goto, SameLocals, TypeOK
  <2>2. token' # None
    BY <1>0, <1>15, NoneAssumption DEF Store, At, Shape
  <2> QED
    BY <1>0, <1>15, <2>1, <2>2 DEF Store, Frame
<1>16. CASE CountVehicles(t)
  <2>1. \A u \in Threads \ {t} : SameLocals(u) /\ held'[u] = held[u]
    BY <1>0, <1>16, FinishSame DEF CountVehicles, Goto, SameLocals, TypeOK, locals
  <2> QED
    BY <1>0, <1>16, <2>1 DEF CountVehicles, Frame, manager, history
<1>17. CASE Initialize(t)
  BY <1>0, <1>17, FinishSame DEF Initialize, Frame, history
<1>18. CASE InitializeFails(t)
  BY <1>0, <1>18, FinishSame, DisturbMarks DEF InitializeFails, Frame, manager
<1> QED
  BY <1>a, <1>1, <1>2, <1>3, <1>4, <1>5, <1>6, <1>7, <1>8, <1>9, <1>10, <1>11, <1>12, <1>13,
     <1>14, <1>15, <1>16, <1>17, <1>18 DEF Step

\* The other threads are idle, or overlap the thread that takes the step.
LEMMA OtherThreads ==
  ASSUME IInv, NEW t \in Threads, Active(t), Frame(t), NEW u \in Threads, u # t
  PROVE  ThreadInv(u)'
<1>0. /\ TypeOK /\ ThreadInv(u) /\ ThreadInv(t)
      /\ SameLocals(u) /\ SameHeld(u) /\ posts'[u] = posts[u] /\ Marks(u)
      /\ token # None => token' # None
      /\ Most' = Most /\ Most \in {1, 2}
  BY MostFacts DEF IInv, Frame
<1>1. due'[u] = {}
  BY <1>0 DEF ThreadInv, Alone, Marks
<1>2. CASE pc[u] = "idle"
  <2>1. pc'[u] = "idle"
    BY <1>0, <1>2 DEF SameLocals
  <2>2. Shape(u)' /\ Alone(u)' /\ Listing(u)' /\ Current(u)' /\ Silence(u)' /\ Success(u)'
    BY <1>1, <2>1 DEF Shape, Alone, Active, Listing, Current, Silence, Success
  <2>3. Logins(u)'
    BY <1>0, <2>1 DEF Logins, ThreadInv, Unposted, Solo, Marks
  <2> QED
    BY <2>2, <2>3 DEF ThreadInv
<1>3. CASE pc[u] # "idle"
  <2>1. quiet[u] = "crowded" /\ quiet'[u] = "crowded" /\ quiet'[u] # "calm"
    BY <1>0, <1>3 DEF ThreadInv, Alone, Active, Solo, Marks
  <2>2. Shape(u)'
    BY <1>0 DEF ThreadInv, Shape, SameLocals, SameHeld
  <2>3. Alone(u)' /\ Listing(u)' /\ Current(u)' /\ Silence(u)' /\ Success(u)'
    BY <1>1, <2>1 DEF Alone, Solo, Listing, Current, Silence, Success
  <2>4. Logins(u)'
    BY <1>0, <2>1 DEF Logins, ThreadInv, Unposted, Solo, SameLocals
  <2> QED
    BY <2>2, <2>3, <2>4 DEF ThreadInv
<1> QED
  BY <1>2, <1>3

-----------------------------------------------------------------------------
(* What the step of a thread does to its own call.                          *)

OwnInv(t) ==
  Shape(t) /\ Logins(t) /\ Listing(t) /\ Current(t) /\ Silence(t) /\ Success(t)

LEMMA AloneStep ==
  ASSUME IInv, NEW t \in Threads, Active(t), Frame(t)
  PROVE  Alone(t)'
BY DEF IInv, ThreadInv, Alone, Solo, Active, Frame, Marks, SameLocals

\* A legacy password is one of a European client, in whatever a step writes.
Legacy(t) ==
  /\ token = None => ~ vehicles
  /\ token # None /\ token.pw = "legacy" => api \in {"eu", "gspa"}
  /\ held[t] # None /\ held[t].pw = "legacy" => api \in {"eu", "gspa"}
  /\ pw[t] = "legacy" => api \in {"eu", "gspa"}

LEMMA GlobalStep ==
  ASSUME IInv, NEW t \in Threads, Frame(t), Legacy(t)'
  PROVE  Global'
<1>0. /\ Global /\ TypeOK
      /\ \A u \in Threads \ {t} : SameLocals(u) /\ SameHeld(u)
      /\ UNCHANGED config
  BY DEF IInv, Frame
<1>1. \A u \in Threads : held'[u] # None /\ held'[u].pw = "legacy" => api' \in {"eu", "gspa"}
  BY <1>0 DEF Legacy, Global, SameHeld, config, TypeOK
<1>2. \A u \in Threads : pw'[u] = "legacy" => api' \in {"eu", "gspa"}
  BY <1>0 DEF Legacy, Global, SameLocals, config
<1> QED
  BY <1>0, <1>1, <1>2 DEF Legacy, Global, config

\* How a step may leave the manager's refresh token.
Leaves(t) ==
  \/ ~ intact'
  \/ pc'[t] \in {"exchange", "store"}
  \/ token' # None /\ (token'.cur \/ token'.pw = "legacy")
  \/ pc[t] \notin {"exchange", "store"} /\ UNCHANGED token /\ (intact' => intact)

LEMMA IntactStep ==
  ASSUME IInv, NEW t \in Threads, Frame(t), Leaves(t)
  PROVE  IntactIsCurrent'
BY DEF IInv, IntactIsCurrent, Leaves, Frame, SameLocals

LEMMA TestStep ==
  ASSUME IInv, NEW t \in Threads, TestAnswered(t) \/ TestFails(t) \/ TestRaises(t)
  PROVE  OwnInv(t)' /\ Legacy(t)' /\ Leaves(t)
<1>0. /\ TypeOK /\ Shape(t) /\ Logins(t) /\ Silence(t) /\ Success(t) /\ Global
      /\ pc[t] = "testing" /\ held[t] \in Token /\ token \in Token /\ token # None
      /\ None \notin Token /\ None # "legacy"
  BY NoneAssumption
     DEF IInv, ThreadInv, TestAnswered, TestFails, TestRaises, At, Shape, TypeOK
<1>1. Unposted(t) /\ posts' = posts /\ UNCHANGED <<cloud, manager, config>>
  BY <1>0 DEF Logins, TestAnswered, TestFails, TestRaises, history
<1>2. Marks(t)
  BY <1>0, DisturbMarks DEF Marks, TestAnswered, TestFails, TestRaises, history
<1>3. CASE TestRaises(t)
  <2>1. pc'[t] = "idle" /\ held'[t] = None /\ pw'[t] = None /\ due'[t] = {} /\ ~ intact'
    BY <1>0, <1>3, FinishSame DEF TestRaises, Disturb
  <2> QED
    BY MostFacts, <1>0, <1>1, <1>2, <2>1
       DEF OwnInv, Shape, Logins, Listing, Current, Silence, Success, Unposted, Legacy, Leaves,
           manager, config, Global
<1>4. CASE KeepToken(t) /\ (TestAnswered(t) \/ TestFails(t))
  <2>1. /\ pc'[t] = "vehicles" /\ held'[t] = None /\ pw'[t] = pw[t]
        /\ (held[t].acc /\ UNCHANGED history) \/ (due'[t] = {} /\ ~ intact')
    <3>1. pc'[t] = "vehicles" /\ held'[t] = None /\ pw'[t] = pw[t]
      BY <1>0, <1>4, KeepSame
    <3>2. CASE TestAnswered(t)
      <4>1. held[t].acc
        BY <1>0, <1>4, <3>1, <3>2, RefreshSame DEF TestAnswered
      <4> QED
        BY <3>1, <3>2, <4>1 DEF TestAnswered
    <3>3. CASE TestFails(t)
      BY <3>1, <3>3 DEF TestFails, Disturb
    <3> QED
      BY <1>4, <3>1, <3>2, <3>3
  <2>2. Shape(t)' /\ Logins(t)' /\ Listing(t)' /\ Current(t)'
    BY MostFacts, <1>0, <1>1, <1>2, <2>1 DEF Shape, Logins, Listing, Current, Unposted, manager
  <2>3. Silence(t)' /\ Success(t)'
    BY <1>0, <1>1, <2>1 DEF Silence, Success, Unposted, manager, config, cloud, history
  <2>4. Legacy(t)' /\ Leaves(t)
    BY <1>0, <1>1, <2>1 DEF Legacy, Leaves, Global, manager, config, history
  <2> QED
    BY <2>2, <2>3, <2>4 DEF OwnInv
<1>5. CASE Refresh(t) /\ (TestAnswered(t) \/ TestFails(t))
  <2>1. /\ via'[t] = "refresh" /\ held'[t] = token
        /\ \/ Grant(token.pw) = "login" /\ pc'[t] = "login" /\ pw'[t] = token.pw
           \/ Grant(token.pw) # "login" /\ pc'[t] = "grant" /\ pw'[t] = pw[t]
    BY <1>0, <1>5, RefreshSame
  <2>2. UNCHANGED history \/ (due'[t] = {} /\ ~ intact')
    BY <1>5 DEF TestAnswered, TestFails, Disturb
  <2>3. token.pw \in Passwords
    BY <1>0, TokenFields
  <2>4. Shape(t)' /\ Listing(t)' /\ Current(t)'
    BY <1>0, <1>1, <1>2, <2>1, <2>3 DEF Shape, Listing, Current, manager
  <2>5. Logins(t)'
    BY MostFacts, <1>0, <1>1, <1>2, <2>1, <2>3 DEF Logins, Unposted, manager
  <2>6. Silence(t)'
    BY <1>0, <1>1, <2>1, <2>2 DEF Silence, PasswordFits, GrantCarriesPassword, cloud, Unposted, manager, config, history
  <2>7. Success(t)'
    BY <1>0, <1>1, <2>1, <2>2 DEF Success, manager, config, cloud, history
  <2>8. Legacy(t)' /\ Leaves(t)
    BY <1>0, <1>1, <2>1, <2>2 DEF Legacy, Leaves, Global, manager, config, history
  <2> QED
    BY <2>4, <2>5, <2>6, <2>7, <2>8 DEF OwnInv
<1> QED
  BY <1>3, <1>4, <1>5 DEF TestAnswered, TestFails

LEMMA GrantOkStep ==
  ASSUME IInv, NEW t \in Threads, GrantOk(t)
  PROVE  OwnInv(t)' /\ Legacy(t)' /\ Leaves(t)
<1>0. /\ TypeOK /\ Shape(t) /\ Logins(t) /\ Silence(t) /\ Success(t) /\ Global
      /\ pc[t] = "grant" /\ via[t] = "refresh" /\ token # None /\ token \in Token
      /\ Unposted(t) /\ held[t] # None
  BY GrantOkFacts, TokenFields DEF IInv, ThreadInv, Shape, Logins, TypeOK
<1>1. /\ held'[t] \in Token /\ held'[t].cur /\ held'[t].pw = held[t].pw
      /\ held'[t].acc = (Grant(held[t].pw) = "oauth")
      /\ token' # None /\ token'.pw = token.pw
      /\ pc'[t] = IF Grant(held[t].pw) = "oauth" THEN "store" ELSE "exchange"
      /\ via'[t] = "refresh" /\ op'[t] = op[t] /\ pw'[t] = pw[t]
      /\ UNCHANGED <<right, vehicles, config, quiet, due, intact>>
  BY <1>0, GrantOkFacts DEF Alike
<1>2. Shape(t)' /\ Listing(t)' /\ Current(t)'
  BY <1>0, <1>1 DEF Shape, Listing, Current
<1>3. Logins(t)'
  <2>1. PostGrant(t) /\ held[t] \in Token /\ (Solo(t) => held[t].pw = token.pw)
    BY <1>0, GrantOkFacts DEF Logins
  <2>2. /\ ~ Solo(t) => Unposted(t)'
        /\ \A p \in Passwords : posts'[t][p] \in 0..(Most - 1)
        /\ \A p \in Passwords : p # held[t].pw => posts'[t][p] = 0
    BY <1>0, <2>1, GrantPosts DEF Unposted
  <2>3. pc'[t] = "exchange" => Unposted(t)'
    <3> SUFFICES ASSUME Grant(held[t].pw) # "oauth" PROVE Unposted(t)'
      BY <1>1
    <3>1. ~ GrantCarriesPassword
      BY DEF Grant, GrantCarriesPassword
    <3> QED
      BY <1>0, <2>1, <3>1 DEF PostGrant, Unposted
  <2>4. Most' = Most /\ Most \in {1, 2}
    BY <1>1, MostFacts
  <2> QED
    BY <1>0, <1>1, <2>1, <2>2, <2>3, <2>4 DEF Logins, Solo
<1>4. Silence(t)' /\ Success(t)'
  BY <1>0, <1>1 DEF Silence, Success, config
<1>5. Legacy(t)' /\ Leaves(t)
  BY <1>0, <1>1 DEF Legacy, Leaves, Global, config
<1> QED
  BY <1>2, <1>3, <1>4, <1>5 DEF OwnInv

\* A refresh that fails has sent at most the token's password.
LEMMA FallBackStep ==
  ASSUME IInv, NEW t \in Threads, GrantRefused(t) \/ GrantFails(t) \/ ExchangeFails(t)
  PROVE  OwnInv(t)' /\ Legacy(t)' /\ Leaves(t)
<1>0. /\ TypeOK /\ Shape(t) /\ Logins(t) /\ Silence(t) /\ Success(t) /\ Global
      /\ pc[t] \in {"grant", "exchange"} /\ held[t] \in Token
      /\ via[t] = "refresh" /\ token # None /\ token \in Token
      /\ Unposted(t) /\ held[t] # None /\ held[t].pw \in Passwords
      /\ Solo(t) => held[t].pw = token.pw
  BY TokenFields
     DEF IInv, ThreadInv, Shape, Logins, TypeOK, GrantRefused, GrantFails, ExchangeFails, At
<1>1. /\ pc'[t] = "login" /\ pw'[t] = held[t].pw
      /\ via'[t] = "refresh" /\ op'[t] = op[t]
      /\ UNCHANGED <<right, vehicles, config>>
  BY <1>0, FallBackSame DEF GrantRefused, GrantFails, ExchangeFails
<1>2. Marks(t)
  BY <1>0, DisturbMarks DEF GrantRefused, GrantFails, ExchangeFails
<1>3. /\ held'[t] = None /\ token' # None /\ token'.pw = token.pw
      /\ \/ /\ GrantRefused(t) /\ ~ (held[t].cur /\ PasswordFits(held[t])) /\ pc[t] = "grant"
            /\ UNCHANGED <<token, quiet, due, intact>>
         \/ due'[t] = {} /\ ~ intact'
  <2>1. CASE GrantRefused(t)
    BY <1>0, <2>1 DEF GrantRefused, At, TypeOK, Undisturbed
  <2>2. CASE ExchangeFails(t)
    BY <1>0, <2>2 DEF ExchangeFails, TypeOK, Disturb
  <2>3. CASE GrantFails(t)
    <3>1. PICK r \in BOOLEAN : Rotate(t, held[t].fam, r /\ held[t].cur, None)
      BY <2>3 DEF GrantFails
    <3>2. (r /\ held[t].cur) \in BOOLEAN
      OBVIOUS
    <3>3. Alike(token, token') /\ held'[t] = None
      BY <1>0, <3>1, <3>2, RotateFacts
    <3> QED
      BY <1>0, <2>3, <3>3 DEF GrantFails, Disturb, Alike
  <2> QED
    BY <2>1, <2>2, <2>3
<1>4. Shape(t)' /\ Listing(t)' /\ Current(t)'
  BY <1>0, <1>1, <1>3 DEF Shape, Listing, Current
<1>5. Logins(t)'
  <2>1. /\ ~ Solo(t) => Unposted(t)'
        /\ \A p \in Passwords : posts'[t][p] \in 0..(Most - 1)
        /\ \A p \in Passwords : p # held[t].pw => posts'[t][p] = 0
    <3>1. CASE ExchangeFails(t)
      BY <1>0, <3>1, MostFacts DEF ExchangeFails, Unposted
    <3>2. CASE GrantRefused(t) \/ GrantFails(t)
      BY <1>0, <3>2, GrantPosts DEF GrantRefused, GrantFails, At, Unposted
    <3> QED
      BY <3>1, <3>2
  <2>2. Most' = Most /\ Most \in {1, 2}
    BY <1>1, MostFacts
  <2> QED
    BY <1>0, <1>1, <1>2, <1>3, <2>1, <2>2 DEF Logins, Solo, Marks
<1>6. Silence(t)'
  BY <1>0, <1>1, <1>3 DEF Silence
<1>7. Success(t)'
  <2>1. due'[t] # {} => Solo(t)
    BY <1>0, <1>2 DEF IInv, ThreadInv, Alone, Solo, Marks
  <2> QED
    BY <1>0, <1>1, <1>3, <2>1 DEF Success, config
<1>8. Legacy(t)' /\ Leaves(t)
  BY <1>0, <1>1, <1>3 DEF Legacy, Leaves, Global, config
<1> QED
  BY <1>4, <1>5, <1>6, <1>7, <1>8 DEF OwnInv

LEMMA ExchangeOkStep ==
  ASSUME IInv, NEW t \in Threads, ExchangeOk(t)
  PROVE  OwnInv(t)' /\ Legacy(t)' /\ Leaves(t)
<1>0. /\ TypeOK /\ OwnInv(t) /\ Global /\ held[t] # None
  BY ExchangeOkFacts, TokenFields DEF IInv, ThreadInv, OwnInv
<1>1. /\ pc[t] \in {"exchange", "signedIn"} /\ held[t] \in Token
      /\ held'[t] \in Token /\ held'[t].cur = held[t].cur /\ held'[t].pw = held[t].pw
      /\ held'[t].acc /\ pc'[t] = "store"
      /\ via'[t] = via[t] /\ op'[t] = op[t] /\ pw'[t] = pw[t]
      /\ UNCHANGED <<cloud, manager, config, history>>
  BY ExchangeOkFacts
<1>2. Shape(t)' /\ Listing(t)' /\ Current(t)'
  BY <1>0, <1>1 DEF OwnInv, Shape, Listing, Current, Logins, Solo, manager, history
<1>3. Logins(t)'
  BY MostFacts, <1>0, <1>1 DEF OwnInv, Logins, Unposted, Solo, history
<1>4. Silence(t)' /\ Success(t)'
  BY <1>0, <1>1 DEF OwnInv, Silence, Success, Unposted, history, config, cloud
<1>5. Legacy(t)' /\ Leaves(t)
  BY <1>0, <1>1 DEF Legacy, Leaves, Global, config, manager
<1> QED
  BY <1>2, <1>3, <1>4, <1>5 DEF OwnInv

\* A login sends a password that only the grant may have sent before.
LEMMA PostStep ==
  ASSUME IInv, NEW t \in Threads, pc[t] = "login", Post(t, pw[t]), Marks(t), UNCHANGED config
  PROVE  /\ ~ Solo(t)' => Unposted(t)'
         /\ \A p \in Passwords : posts'[t][p] <= Most'
         /\ via[t] = "refresh" /\ Solo(t) =>
              /\ pw[t] = token.pw
              /\ \A p \in Passwords : p # token.pw => posts'[t][p] = 0
<1>0. TypeOK /\ Shape(t) /\ Logins(t) /\ Most' = Most /\ Most \in {1, 2}
  BY MostFacts DEF IInv, ThreadInv
<1>1. /\ pw[t] \in Passwords /\ posts[t][pw[t]] <= 1 /\ posts[t][pw[t]] <= Most - 1
      /\ \A p \in Passwords : posts[t][p] \in Nat
  BY <1>0, LoginPosts
<1>2. /\ ~ Solo(t) => posts'[t] = posts[t]
      /\ Solo(t) => \A p \in Passwords :
           posts'[t][p] = IF p = pw[t] THEN posts[t][p] + 1 ELSE posts[t][p]
  BY <1>0, <1>1, PostFacts
<1>3. CASE ~ Solo(t)
  BY <1>0, <1>1, <1>2, <1>3 DEF Logins, Unposted, Solo, Marks
<1>4. CASE Solo(t)
  BY <1>0, <1>1, <1>2, <1>4 DEF Logins, Solo, Marks
<1> QED
  BY <1>3, <1>4

LEMMA SignInStep ==
  ASSUME IInv, NEW t \in Threads, SignInOk(t)
  PROVE  OwnInv(t)' /\ Legacy(t)' /\ Leaves(t)
<1>0. TypeOK /\ OwnInv(t) /\ Global
  BY DEF IInv, ThreadInv, OwnInv
<1>1. /\ pc[t] = "login" /\ pw[t] \in Passwords
      /\ held'[t] \in Token /\ held'[t].cur /\ held'[t].pw = pw[t]
      /\ held'[t].acc = (api \in {"type1", "bluelink", "ca"})
      /\ pc'[t] = IF api \in {"type1", "bluelink", "ca"} THEN "store" ELSE "signedIn"
      /\ via'[t] = via[t] /\ op'[t] = op[t] /\ pw'[t] = pw[t]
      /\ UNCHANGED <<cloud, manager, config>> /\ Undisturbed /\ Post(t, pw[t])
  BY SignInOkFacts
<1>2. Marks(t)
  BY <1>0, <1>1, DisturbMarks
<1>3. /\ ~ Solo(t)' => Unposted(t)'
      /\ \A p \in Passwords : posts'[t][p] <= Most'
      /\ via[t] = "refresh" /\ Solo(t) =>
           /\ pw[t] = token.pw
           /\ \A p \in Passwords : p # token.pw => posts'[t][p] = 0
  BY <1>1, <1>2, PostStep
<1>4. Shape(t)' /\ Listing(t)' /\ Current(t)'
  BY <1>0, <1>1, <1>2 DEF OwnInv, Shape, Listing, Current, Solo, Marks, manager
<1>5. Logins(t)'
  BY <1>0, <1>1, <1>2, <1>3 DEF Logins, Solo, Marks, manager
<1>6. Silence(t)' /\ Success(t)'
  BY <1>0, <1>1 DEF OwnInv, Silence, Success, Undisturbed, config, cloud, manager
<1>7. Legacy(t)' /\ Leaves(t)
  BY <1>0, <1>1 DEF Legacy, Leaves, Global, Undisturbed, config, manager
<1> QED
  BY <1>4, <1>5, <1>6, <1>7 DEF OwnInv

LEMMA PresentStep ==
  ASSUME IInv, NEW t \in Threads, PresentOk(t)
  PROVE  OwnInv(t)' /\ Legacy(t)' /\ Leaves(t)
<1>0. TypeOK /\ OwnInv(t) /\ Global
  BY DEF IInv, ThreadInv, OwnInv
<1>1. /\ pc[t] = "login" /\ api = "eu" /\ pw[t] = "legacy"
      /\ held'[t] \in Token /\ held'[t].pw = "legacy" /\ held'[t].acc
      /\ token = None <=> token' = None
      /\ token # None => token'.pw = token.pw
      /\ pc'[t] = "store"
      /\ via'[t] = via[t] /\ op'[t] = op[t] /\ pw'[t] = pw[t]
      /\ UNCHANGED <<right, vehicles, config>> /\ Undisturbed /\ Post(t, pw[t])
  BY PresentOkFacts DEF Alike
<1>2. Marks(t)
  BY <1>0, <1>1, DisturbMarks
<1>3. /\ ~ Solo(t)' => Unposted(t)'
      /\ \A p \in Passwords : posts'[t][p] <= Most'
  BY <1>1, <1>2, PostStep
<1>4. Shape(t)' /\ Listing(t)' /\ Current(t)'
  BY <1>0, <1>1, <1>2 DEF OwnInv, Shape, Listing, Current, Solo, Marks
<1>5. Logins(t)'
  BY <1>0, <1>1, <1>3 DEF Logins
<1>6. Silence(t)' /\ Success(t)'
  BY <1>0, <1>1 DEF OwnInv, Silence, Success, Undisturbed, config
<1>7. Legacy(t)' /\ Leaves(t)
  BY <1>0, <1>1 DEF Legacy, Leaves, Global, config
<1> QED
  BY <1>4, <1>5, <1>6, <1>7 DEF OwnInv

LEMMA LoginRefusedStep ==
  ASSUME IInv, NEW t \in Threads, LoginRefused(t)
  PROVE  OwnInv(t)' /\ Legacy(t)' /\ Leaves(t)
<1>0. /\ TypeOK /\ OwnInv(t) /\ Global /\ pc[t] = "login" /\ ~ Right(t) /\ pw[t] \in Passwords
      /\ Post(t, pw[t]) /\ Undisturbed /\ UNCHANGED <<cloud, manager, config>>
      /\ None # "legacy"
  BY NoneAssumption DEF IInv, ThreadInv, OwnInv, LoginRefused, At, Shape
<1>1. PICK r \in IF api \in {"eu", "gspa"} THEN {"auth"} ELSE {"auth", "error"} : Raises(t, r)
  BY DEF LoginRefused
<1>2. Marks(t)
  BY <1>0, DisturbMarks
<1>3. /\ ~ Solo(t)' => Unposted(t)'
      /\ \A p \in Passwords : posts'[t][p] <= Most'
      /\ via[t] = "refresh" /\ Solo(t) =>
           /\ pw[t] = token.pw
           /\ \A p \in Passwords : p # token.pw => posts'[t][p] = 0
  BY <1>0, <1>2, PostStep
<1>4. /\ held'[t] = None /\ pw'[t] = None
      /\ \/ /\ via[t] = "refresh" /\ r = "auth" /\ pc'[t] = "handler"
            /\ via'[t] = via[t] /\ op'[t] = op[t]
         \/ /\ ~ (via[t] = "refresh" /\ r = "auth") /\ pc'[t] = "idle" /\ op'[t] = None
            /\ quiet[t] = "calm" => result'[t] = r
  BY <1>0, <1>1, RaisesSame
<1>5. Shape(t)' /\ Listing(t)' /\ Current(t)'
  BY <1>0, <1>4 DEF OwnInv, Shape, Listing, Current, manager
<1>6. Logins(t)'
  BY <1>0, <1>2, <1>3, <1>4 DEF Logins, Solo, Marks, manager
<1>7. Silence(t)'
  BY <1>0, <1>4 DEF OwnInv, Silence, Undisturbed
<1>8. Success(t)'
  <2> SUFFICES ASSUME "success" \in due[t] PROVE Success(t)'
    BY <1>0 DEF Undisturbed, Success
  <2>1. /\ right /\ password = "now" /\ pw[t] # "old"
        /\ pw[t] = "legacy" => via[t] = "refresh"
        /\ via[t] = "refresh" => pw[t] = token.pw
    BY <1>0 DEF OwnInv, Success
  <2>2. pw[t] = "legacy"
    BY <1>0, <2>1 DEF Right, Presents, Passwords
  <2>3. r = "auth"
    BY <1>0, <1>1, <2>2 DEF Global
  <2> QED
    BY <1>0, <1>4, <2>1, <2>2, <2>3 DEF Success, cloud, manager, config
<1>9. Legacy(t)' /\ Leaves(t)
  BY <1>0, <1>4 DEF Legacy, Leaves, Global, Undisturbed, config, manager
<1> QED
  BY <1>5, <1>6, <1>7, <1>8, <1>9 DEF OwnInv

LEMMA LoginFailsStep ==
  ASSUME IInv, NEW t \in Threads, LoginFails(t)
  PROVE  OwnInv(t)' /\ Legacy(t)' /\ Leaves(t)
<1>0. /\ TypeOK /\ OwnInv(t) /\ Global /\ pc[t] \in {"login", "signedIn"}
      /\ Disturb /\ due'[t] = {} /\ ~ intact' /\ UNCHANGED <<cloud, manager, config>>
      /\ None # "legacy"
  BY NoneAssumption DEF IInv, ThreadInv, OwnInv, LoginFails, Disturb
<1>1. PICK r \in {"auth", "error"} : Raises(t, r)
  BY DEF LoginFails
<1>2. Marks(t)
  BY <1>0, DisturbMarks
<1>3. /\ ~ Solo(t)' => Unposted(t)'
      /\ \A p \in Passwords : posts'[t][p] <= Most'
      /\ via[t] = "refresh" /\ Solo(t) =>
           \A p \in Passwords : p # token.pw => posts'[t][p] = 0
  <2>1. CASE pc[t] = "login"
    BY <1>2, <2>1, PostStep DEF LoginFails, At
  <2>2. CASE pc[t] = "signedIn"
    BY MostFacts, <1>0, <1>2, <2>2 DEF LoginFails, At, OwnInv, Logins, Unposted, Solo, Marks
  <2> QED
    BY <1>0, <2>1, <2>2
<1>4. /\ held'[t] = None /\ pw'[t] = None
      /\ \/ /\ via[t] = "refresh" /\ pc'[t] = "handler"
            /\ via'[t] = via[t] /\ op'[t] = op[t]
         \/ pc'[t] = "idle" /\ op'[t] = None
  BY <1>0, <1>1, RaisesSame
<1>5. Shape(t)' /\ Listing(t)' /\ Current(t)' /\ Silence(t)' /\ Success(t)'
  BY <1>0, <1>4 DEF OwnInv, Shape, Listing, Current, Silence, Success, manager
<1>6. Logins(t)'
  BY <1>0, <1>2, <1>3, <1>4 DEF Logins, Solo, Marks, manager
<1>9. Legacy(t)' /\ Leaves(t)
  BY <1>0, <1>4 DEF Legacy, Leaves, Global, config, manager
<1> QED
  BY <1>5, <1>6, <1>9 DEF OwnInv

LEMMA OtpStep ==
  ASSUME IInv, NEW t \in Threads, LoginNeedsOtp(t)
  PROVE  OwnInv(t)' /\ Legacy(t)' /\ Leaves(t)
<1>0. /\ TypeOK /\ OwnInv(t) /\ Global /\ pc[t] = "login" /\ Post(t, pw[t])
      /\ due'[t] = {} /\ UNCHANGED <<cloud, manager, config, quiet, intact>>
      /\ None # "legacy"
  BY NoneAssumption DEF IInv, ThreadInv, OwnInv, LoginNeedsOtp, At, TypeOK
<1>1. pc'[t] = "idle" /\ held'[t] = None /\ pw'[t] = None
  BY <1>0, FinishSame DEF LoginNeedsOtp
<1>2. Marks(t)
  BY <1>0 DEF Marks
<1>3. /\ ~ Solo(t)' => Unposted(t)'
      /\ \A p \in Passwords : posts'[t][p] <= Most'
  BY <1>0, <1>2, PostStep
<1> QED
  BY <1>0, <1>1, <1>3
     DEF OwnInv, Shape, Logins, Listing, Current, Silence, Success, Legacy, Leaves, Global,
         config, manager

LEMMA HandleAuthStep ==
  ASSUME IInv, NEW t \in Threads, HandleAuth(t)
  PROVE  OwnInv(t)' /\ Legacy(t)' /\ Leaves(t)
<1>0. /\ TypeOK /\ OwnInv(t) /\ Global /\ pc[t] = "handler" /\ token # None
      /\ UNCHANGED <<cloud, manager, config, history>>
      /\ None # "legacy"
  BY NoneAssumption DEF IInv, ThreadInv, OwnInv, HandleAuth, At, Shape
<1>1. CASE token.pw = "legacy" /\ password = "now" /\ LogIn(t, "retry") /\ UNCHANGED <<op, held, result>>
  <2>1. pc'[t] = "login" /\ via'[t] = "retry" /\ pw'[t] = "now" /\ held'[t] = held[t]
    BY <1>0, <1>1, LogInSame
  <2>2. Shape(t)' /\ Listing(t)' /\ Current(t)' /\ Legacy(t)' /\ Leaves(t)
    BY <1>0, <2>1
       DEF OwnInv, Shape, Listing, Current, Legacy, Leaves, Global, config, manager, history,
           Passwords
  <2>3. posts[t]["now"] = 0
    <3>1. CASE Solo(t)
      BY <1>0, <1>1, <3>1 DEF OwnInv, Logins, Passwords
    <3>2. CASE ~ Solo(t)
      BY <1>0, <3>2 DEF OwnInv, Logins, Unposted, Passwords
    <3> QED
      BY <3>1, <3>2
  <2>4. Logins(t)'
    BY MostFacts, <1>0, <2>1, <2>3 DEF OwnInv, Logins, Unposted, Solo, history
  <2>5. Silence(t)' /\ Success(t)'
    BY <1>0, <2>1 DEF OwnInv, Silence, Success, Unposted, cloud, manager, config, history
  <2> QED
    BY <2>2, <2>4, <2>5 DEF OwnInv
<1>2. CASE ~ (token.pw = "legacy" /\ password = "now") /\ Finish(t, "auth")
  <2>1. pc'[t] = "idle" /\ held'[t] = None /\ pw'[t] = None
    BY <1>0, <1>2, FinishSame
  <2>2. Shape(t)' /\ Listing(t)' /\ Current(t)' /\ Legacy(t)' /\ Leaves(t)
    BY <1>0, <2>1
       DEF OwnInv, Shape, Listing, Current, Legacy, Leaves, Global, config, manager, history
  <2>4. Logins(t)'
    BY MostFacts, <1>0, <2>1 DEF OwnInv, Logins, Unposted, Solo, history
  <2>5. Silence(t)' /\ Success(t)'
    BY <1>0, <1>2, <2>1 DEF OwnInv, Silence, Success, Unposted, history
  <2> QED
    BY <2>2, <2>4, <2>5 DEF OwnInv
<1> QED
  BY <1>1, <1>2 DEF HandleAuth

LEMMA StoreStep ==
  ASSUME IInv, NEW t \in Threads, Store(t)
  PROVE  OwnInv(t)' /\ Legacy(t)' /\ Leaves(t)
<1>0. /\ TypeOK /\ OwnInv(t) /\ Global /\ pc[t] = "store" /\ held[t] \in Token /\ held[t] # None
      /\ None # "legacy"
  BY NoneAssumption DEF IInv, ThreadInv, OwnInv, Store, At, Shape
<1>1. /\ token' = held[t] /\ held'[t] = None /\ pw'[t] = None /\ via'[t] = None
      /\ intact' = (quiet[t] = "calm")
      /\ pc'[t] = IF via[t] = "first" THEN "initialize" ELSE "vehicles"
      /\ UNCHANGED <<cloud, vehicles, config, op, result, posts, quiet, due>>
  BY <1>0 DEF Store, Goto, TypeOK
<1>2. Shape(t)' /\ Listing(t)' /\ Current(t)'
  BY <1>0, <1>1 DEF OwnInv, Shape, Listing, Current, Solo
<1>3. Logins(t)'
  BY MostFacts, <1>0, <1>1 DEF OwnInv, Logins, Unposted, Solo
<1>4. Silence(t)' /\ Success(t)'
  BY <1>0, <1>1 DEF OwnInv, Silence, Success, Unposted, cloud, config
<1>5. Legacy(t)' /\ Leaves(t)
  BY <1>0, <1>1 DEF OwnInv, Current, Legacy, Leaves, Global, config
<1> QED
  BY <1>2, <1>3, <1>4, <1>5 DEF OwnInv

LEMMA VehiclesStep ==
  ASSUME IInv, NEW t \in Threads, CountVehicles(t) \/ Initialize(t) \/ InitializeFails(t)
  PROVE  OwnInv(t)' /\ Legacy(t)' /\ Leaves(t)
<1>0. /\ TypeOK /\ OwnInv(t) /\ Alone(t) /\ Global /\ pc[t] \in {"vehicles", "initialize"}
      /\ token # None /\ UNCHANGED <<token, cloud, config, posts>>
      /\ None # "legacy"
  BY NoneAssumption
     DEF IInv, ThreadInv, OwnInv, CountVehicles, Initialize, InitializeFails, At, Shape,
         manager, history
<1>1. Marks(t) /\ (intact' => intact)
  <2>1. CASE UNCHANGED history
    BY <2>1 DEF history, Marks
  <2>2. CASE Disturb \/ Undisturbed
    <3>1. Marks(t)
      BY <1>0, <2>2, DisturbMarks
    <3>2. intact' => intact
      BY <2>2 DEF Disturb, Undisturbed
    <3> QED
      BY <3>1, <3>2
  <2> QED
    BY <2>1, <2>2 DEF CountVehicles, Initialize, InitializeFails
<1>2. CASE ~ vehicles /\ CountVehicles(t)
  <2>1. pc'[t] = "initialize" /\ UNCHANGED <<locals, result, manager, history>>
    BY <1>0, <1>2 DEF CountVehicles, Goto, TypeOK
  <2>2. pc[t] = "vehicles"
    BY <1>2 DEF CountVehicles, At
  <2>3. Shape(t)' /\ Listing(t)' /\ Current(t)' /\ Legacy(t)' /\ Leaves(t)
    BY <1>0, <1>2, <2>1, <2>2
       DEF OwnInv, Shape, Listing, Current, Legacy, Leaves, Global, config, manager, history, locals
  <2>4. Logins(t)' /\ Silence(t)' /\ Success(t)'
    BY MostFacts, <1>0, <2>1, <2>2
       DEF OwnInv, Logins, Silence, Success, Unposted, Solo, history, cloud, config, locals
  <2> QED
    BY <2>3, <2>4 DEF OwnInv
<1>3. ASSUME NEW r, Finish(t, r), UNCHANGED vehicles \/ vehicles',
             "success" \in due'[t] => r = "ok" /\ vehicles'
      PROVE  OwnInv(t)' /\ Legacy(t)' /\ Leaves(t)
  <2>1. pc'[t] = "idle" /\ held'[t] = None /\ pw'[t] = None /\ (quiet[t] = "calm" => result'[t] = r)
    BY <1>0, <1>3, FinishSame
  <2>2. Shape(t)' /\ Listing(t)' /\ Current(t)' /\ Legacy(t)' /\ Leaves(t)
    BY <1>0, <1>1, <1>3, <2>1
       DEF OwnInv, Shape, Listing, Current, Legacy, Leaves, Global, config
  <2>3. Logins(t)' /\ Silence(t)'
    BY MostFacts, <1>0, <1>1, <2>1 DEF OwnInv, Logins, Silence, Unposted, Solo, Marks
  <2>4. Success(t)'
    <3> SUFFICES ASSUME "success" \in due'[t] PROVE Success(t)'
      BY DEF Success
    <3>1. "success" \in due[t] /\ quiet[t] = "calm" /\ r = "ok" /\ vehicles'
      BY <1>0, <1>1, <1>3 DEF Marks, Alone
    <3>2. right /\ password = "now" /\ token.acc
      BY <1>0, <3>1 DEF OwnInv, Success
    <3> QED
      BY <1>0, <2>1, <3>1, <3>2 DEF Success, cloud, config
  <2> QED
    BY <2>2, <2>3, <2>4 DEF OwnInv
<1>4. CASE vehicles /\ CountVehicles(t)
  BY <1>3, <1>4 DEF CountVehicles, manager
<1>5. CASE Initialize(t)
  BY <1>3, <1>5 DEF Initialize
<1>6. CASE InitializeFails(t)
  <2>1. "success" \notin due'[t]
    <3>1. CASE token.acc
      BY <1>0, <1>6, <3>1 DEF InitializeFails, Disturb, TypeOK
    <3>2. CASE ~ token.acc
      BY <1>0, <1>6, <3>2 DEF InitializeFails, Undisturbed, OwnInv, Success, At
    <3> QED
      BY <3>1, <3>2
  <2> QED
    BY <1>3, <1>6, <2>1 DEF InitializeFails, manager
<1> QED
  BY <1>2, <1>4, <1>5, <1>6

LEMMA StepInv ==
  ASSUME IInv, NEW t \in Threads, Step(t), TypeOK'
  PROVE  IInv'
<1>1. Active(t) /\ Frame(t)
  BY StepFrame
<1>2. OwnInv(t)' /\ Legacy(t)' /\ Leaves(t)
  BY TestStep, GrantOkStep, FallBackStep, ExchangeOkStep, SignInStep, PresentStep,
     LoginRefusedStep, LoginFailsStep, OtpStep, HandleAuthStep, StoreStep, VehiclesStep DEF Step
<1>3. ThreadInv(t)'
  BY <1>1, <1>2, AloneStep DEF OwnInv, ThreadInv
<1>4. ASSUME NEW u \in Threads PROVE ThreadInv(u)'
  BY <1>1, <1>3, <1>4, OtherThreads
<1>5. Global' /\ IntactIsCurrent'
  BY <1>1, <1>2, GlobalStep, IntactStep
<1> QED
  BY <1>4, <1>5 DEF IInv

-----------------------------------------------------------------------------
(* A call begins.                                                           *)

LEMMA BeginStep ==
  ASSUME IInv, NEW t \in Threads, Call(t), TypeOK'
  PROVE  IInv'
<1>0. /\ TypeOK /\ Global /\ IntactIsCurrent /\ \A u \in Threads : ThreadInv(u)
      /\ None # "legacy" /\ None \notin Token
  BY NoneAssumption DEF IInv
<1> DEFINE alone == \A u \in Threads \ {t} : ~ Active(u)
<1>1. PICK o \in Ops : /\ Begin(t, o)
                       /\ o = "check" => check_and_refresh_token(t)
                       /\ o = "login" => login(t)
  BY DEF Call, check_and_refresh_token, login, Ops
<1>2. /\ pc[t] = "idle" /\ op'[t] = o
      /\ \A u \in Threads \ {t} : op'[u] = op[u] /\ due'[u] = {}
      /\ UNCHANGED <<cloud, manager, config>>
      /\ intact' => intact /\ alone
  BY <1>0, <1>1 DEF Begin, At, TypeOK
<1>3. \A u \in Threads : Unposted(u)'
  BY <1>0, <1>1 DEF Begin, Unposted, TypeOK
<1>4. /\ due'[t] = IF alone THEN Owed(o) ELSE {}
      /\ quiet'[t] = IF alone THEN "calm" ELSE "crowded"
      /\ \A u \in Threads \ {t} : Active(u) => quiet'[u] = "crowded"
  BY <1>0, <1>1 DEF Begin, TypeOK
<1>5. \/ /\ token = None \/ o = "login"
         /\ pc'[t] = "login" /\ via'[t] = "first" /\ pw'[t] = password /\ held'[t] = held[t]
      \/ /\ token # None /\ o = "check"
         /\ pc'[t] = "testing" /\ held'[t] = token /\ pw'[t] = pw[t]
      \/ /\ token # None /\ o = "check" /\ (Feasible(o) => token.acc)
         /\ pc'[t] = "vehicles" /\ held'[t] = None /\ pw'[t] = pw[t]
      \/ /\ token # None /\ o = "check" /\ via'[t] = "refresh" /\ held'[t] = token
         /\ \/ Grant(token.pw) = "login" /\ pc'[t] = "login" /\ pw'[t] = token.pw
            \/ Grant(token.pw) # "login" /\ pc'[t] = "grant" /\ pw'[t] = pw[t]
  <2>1. CASE o = "login"
    BY <1>0, <1>1, <2>1, LogInSame DEF login
  <2>2. CASE o = "check" /\ token = None
    BY <1>0, <1>1, <2>2, LogInSame DEF check_and_refresh_token
  <2>3. CASE o = "check" /\ token # None /\ ~ fresh
    BY <1>0, <1>1, <2>3, RefreshSame DEF check_and_refresh_token
  <2>4. CASE o = "check" /\ token # None /\ fresh /\ Tests
    BY <1>0, <1>1, <2>4 DEF check_and_refresh_token, Goto, TypeOK
  <2>5. CASE o = "check" /\ token # None /\ fresh /\ ~ Tests
    BY <1>0, <1>1, <2>5, KeepSame DEF check_and_refresh_token, Feasible
  <2> QED
    BY <2>1, <2>2, <2>3, <2>4, <2>5 DEF Ops
<1>6. \A u \in Threads \ {t} :
        pc'[u] = pc[u] /\ via'[u] = via[u] /\ pw'[u] = pw[u] /\ held'[u] = held[u]
  <2>1. CASE LogIn(t, "first") /\ UNCHANGED held
    BY <1>0, <2>1, LogInSame
  <2>2. CASE token # None /\ Refresh(t)
    BY <1>0, <2>2, RefreshSame
  <2>3. CASE KeepToken(t)
    BY <1>0, <2>3, KeepSame
  <2>4. CASE held' = [held EXCEPT ![t] = token] /\ Goto(t, "testing") /\ UNCHANGED <<via, pw>>
    BY <1>0, <2>4 DEF Goto, TypeOK
  <2> QED
    BY <1>1, <2>1, <2>2, <2>3, <2>4 DEF login, check_and_refresh_token, Ops
<1> HIDE DEF alone
<1>7. ASSUME NEW u \in Threads, u # t PROVE ThreadInv(u)'
  <2>1. /\ pc'[u] = pc[u] /\ via'[u] = via[u] /\ pw'[u] = pw[u] /\ held'[u] = held[u]
        /\ op'[u] = op[u] /\ due'[u] = {} /\ Unposted(u)' /\ UNCHANGED manager
        /\ Active(u) => quiet'[u] = "crowded" /\ quiet'[u] # "calm"
        /\ ThreadInv(u)
    BY <1>0, <1>2, <1>3, <1>4, <1>6, <1>7
  <2>2. Shape(u)' /\ Alone(u)' /\ Listing(u)' /\ Current(u)' /\ Silence(u)' /\ Success(u)'
    BY <2>1 DEF ThreadInv, Shape, Alone, Active, Listing, Current, Silence, Success, Solo, manager
  <2>3. Logins(u)'
    <3>1. Most' = Most /\ Most \in {1, 2}
      BY <1>2, MostFacts
    <3> QED
      BY <2>1, <3>1 DEF ThreadInv, Logins, Unposted, Solo, Active, Passwords
  <2> QED
    BY <2>2, <2>3 DEF ThreadInv
<1>8. ThreadInv(t)'
  <2>1. token = None \/ (token \in Token /\ token.pw \in Passwords)
    BY <1>0, TokenFields DEF TypeOK
  <2>2. password \in Passwords
    BY <1>0 DEF TypeOK, Passwords
  <2>3. Alone(t)'
    BY <1>2, <1>4, <1>6 DEF Alone, Solo, Active, alone
  <2>4. Shape(t)' /\ Current(t)'
    BY <1>2, <1>5, <2>1, <2>2 DEF Shape, Current, manager
  <2>5. Listing(t)'
    BY <1>0, <1>2, <1>5 DEF Listing, Global, manager
  <2>6. Logins(t)'
    BY MostFacts, <1>2, <1>3, <1>5, <2>1 DEF Logins, Unposted, Passwords, manager
  <2>7. Silence(t)'
    <3> SUFFICES ASSUME "silence" \in due'[t] PROVE Silence(t)'
      BY DEF Silence
    <3>1. Silent(o) /\ alone
      BY <1>4 DEF Owed
    <3>2. o = "check" /\ token # None /\ Grant(token.pw) # "login" /\ token.cur
          /\ PasswordFits(token)
      BY <1>0, <1>2, <3>1 DEF Silent, IntactIsCurrent, alone, Active
    <3> QED
      BY <1>2, <1>3, <1>5, <3>2 DEF Silence, PasswordFits, GrantCarriesPassword, cloud, manager, config, Grant
  <2>8. Success(t)'
    <3> SUFFICES ASSUME "success" \in due'[t] PROVE Success(t)'
      BY DEF Success
    <3>1. Feasible(o)
      BY <1>4 DEF Owed
    <3>2. right /\ password = "now" /\ (o = "check" /\ token # None => token.pw # "old")
      BY <3>1 DEF Feasible
    <3> QED
      BY <1>2, <1>5, <3>1, <3>2 DEF Success, manager, config, cloud
  <2> QED
    BY <2>3, <2>4, <2>5, <2>6, <2>7, <2>8 DEF ThreadInv
<1>9. Global'
  BY <1>0, <1>2, <1>5, <1>6 DEF Global, manager, config
<1>10. IntactIsCurrent'
  BY <1>0, <1>2 DEF IntactIsCurrent, manager, alone, Active
<1> QED
  BY <1>7, <1>8, <1>9, <1>10 DEF IInv

-----------------------------------------------------------------------------
(* The cloud and the clock.                                                 *)

\* An interference keeps the passwords of the tokens, and ends what calls owe.
LEMMA DisturbStep ==
  ASSUME IInv, Disturb, UNCHANGED <<config, op, via, pw, pc, result, posts, vehicles>>,
         token = None <=> token' = None,
         token # None => token'.pw = token.pw,
         \A t \in Threads : SameHeld(t)
  PROVE  Global' /\ IntactIsCurrent' /\ \A t \in Threads : ThreadInv(t)'
<1>0. TypeOK /\ Global /\ ~ intact'
  BY DEF IInv, Disturb
<1>1. ASSUME NEW t \in Threads PROVE ThreadInv(t)'
  <2>1. /\ ThreadInv(t) /\ due'[t] = {} /\ Marks(t) /\ quiet'[t] # "calm" /\ SameHeld(t)
        /\ UNCHANGED <<op, via, pw, pc, posts, vehicles>>
    BY <1>0, DisturbMarks DEF IInv, Disturb, TypeOK
  <2>2. Shape(t)' /\ Alone(t)' /\ Listing(t)' /\ Current(t)' /\ Silence(t)' /\ Success(t)'
    BY <2>1 DEF ThreadInv, Shape, Alone, Active, Listing, Current, Silence, Success, Solo, Marks,
       SameHeld
  <2>3. Logins(t)'
    BY MostFacts, <2>1 DEF ThreadInv, Logins, Unposted, Solo, Marks, Shape, SameHeld
  <2> QED
    BY <2>2, <2>3 DEF ThreadInv
<1>2. Global'
  BY <1>0 DEF Global, SameHeld, config, TypeOK
<1>3. IntactIsCurrent'
  BY <1>0 DEF IntactIsCurrent
<1> QED
  BY <1>1, <1>2, <1>3

LEMMA CloudStep ==
  ASSUME IInv, TypeOK', (\E f \in Families : CloudDrops(f)) \/ PasswordChanges
  PROVE  IInv'
<1>0. TypeOK
  BY DEF IInv
<1>1. ASSUME NEW f \in Families, CloudDrops(f) PROVE IInv'
  <2>1. /\ token = None <=> token' = None
        /\ token # None => token'.pw = token.pw
        /\ held' \in [Threads -> Token \cup {None}]
        /\ \A t \in Threads : /\ held[t] = None <=> held'[t] = None
                              /\ held[t] # None => held'[t].pw = held[t].pw
    BY <1>0, <1>1, DropFacts
  <2>2. \A t \in Threads : SameHeld(t)
    BY <2>1, NoneAssumption DEF SameHeld
  <2>3. Disturb /\ UNCHANGED <<config, op, via, pw, pc, result, posts, vehicles>>
    BY <1>1 DEF CloudDrops
  <2> QED
    BY <2>1, <2>2, <2>3, DisturbStep DEF IInv
<1>2. CASE PasswordChanges
  <2>1. /\ Disturb /\ UNCHANGED <<config, op, via, pw, pc, result, posts, vehicles>>
        /\ UNCHANGED <<token, held>>
    BY <1>2 DEF PasswordChanges, Nothing, manager, locals
  <2>2. \A t \in Threads : SameHeld(t)
    BY <2>1 DEF SameHeld
  <2> QED
    BY <2>1, <2>2, DisturbStep DEF IInv
<1> QED
  BY <1>1, <1>2

LEMMA ExpiryStep ==
  ASSUME IInv, TypeOK', ExpiryPasses \/ UNCHANGED vars
  PROVE  IInv'
<1>1. UNCHANGED <<right, legacy, token, vehicles, api, password, op, via, held, pw, pc, result,
                  posts, quiet, due, intact>>
  BY DEF ExpiryPasses, Undisturbed, Nothing, vars, cloud, manager, config, locals, history
<1>2. ASSUME NEW t \in Threads PROVE ThreadInv(t)'
  BY <1>1 DEF Most, GrantCarriesPassword, PasswordFits, config, IInv, ThreadInv, Shape, Alone, Active, Logins, Unposted, Solo, Listing, Current,
     Silence, Success, Grant
<1>3. Global' /\ IntactIsCurrent'
  BY <1>1 DEF IInv, Global, IntactIsCurrent
<1> QED
  BY <1>2, <1>3 DEF IInv

-----------------------------------------------------------------------------
(* The inductive invariant.                                                 *)

LEMMA InitInv == Init => IInv
<1> SUFFICES ASSUME Init PROVE IInv
  OBVIOUS
<1>0. None # "legacy" /\ None \notin Token
  BY NoneAssumption
<1>1. token = None \/ (token \in Token /\ (token.pw = "legacy" => api \in {"eu", "gspa"}))
  <2>1. CASE token = None
    BY <2>1
  <2>2. ASSUME NEW c \in BOOLEAN, NEW a \in BOOLEAN, NEW p \in Passwords,
               p = "legacy" => api \in {"eu", "gspa"},
               token = IF p = "legacy" THEN Tok(0, c /\ legacy, a, p) ELSE Tok(1, c, a, p)
        PROVE  token \in Token /\ (token.pw = "legacy" => api \in {"eu", "gspa"})
    <3>1. 0 \in Families /\ 1 \in Families /\ (c /\ legacy) \in BOOLEAN
      BY TokenAssumption DEF Families
    <3>2. token \in Token
      BY <2>2, <3>1, TokFacts
    <3>3. token.pw = p
      BY <2>2 DEF Tok
    <3> QED
      BY <2>2, <3>2, <3>3
  <2> QED
    BY <2>1, <2>2 DEF Init
<1>2. TypeOK
  <2>1. /\ api \in Clients /\ password \in {"now", "legacy"} /\ token \in Token \cup {None}
        /\ right \in BOOLEAN /\ legacy \in BOOLEAN /\ fresh \in BOOLEAN /\ vehicles \in BOOLEAN
        /\ intact \in BOOLEAN
    BY <1>1 DEF Init
  <2>2. posts \in [Threads -> [Passwords -> 0..2]]
    BY DEF Init
  <2>3. /\ pc \in [Threads -> PCs] /\ op \in [Threads -> Ops \cup {None}]
        /\ via \in [Threads -> {"first", "refresh", "retry", None}]
        /\ held \in [Threads -> Token \cup {None}] /\ pw \in [Threads -> Passwords \cup {None}]
        /\ result \in [Threads -> Results \cup {None}]
        /\ quiet \in [Threads -> {"calm", "alone", "crowded"}]
        /\ due \in [Threads -> SUBSET {"success", "silence"}]
    BY DEF Init, PCs
  <2> QED
    BY <2>1, <2>2, <2>3 DEF TypeOK
<1>3. Global /\ IntactIsCurrent
  BY <1>0, <1>1 DEF Init, Global, IntactIsCurrent
<1>4. ASSUME NEW t \in Threads PROVE ThreadInv(t)
  BY DEF Most, GrantCarriesPassword, PasswordFits, config, Init, ThreadInv, Shape, Alone, Active, Logins, Unposted, Solo, Listing, Current,
     Silence, Success
<1> QED
  BY <1>2, <1>3, <1>4 DEF IInv

LEMMA NextInv == IInv /\ [Next]_vars => IInv'
<1> SUFFICES ASSUME IInv, [Next]_vars PROVE IInv'
  OBVIOUS
<1>1. TypeOK'
  BY TypeStep
<1> QED
  BY <1>1, StepInv, BeginStep, CloudStep, ExpiryStep DEF Next

LEMMA Inductive == Spec => []IInv
BY InitInv, NextInv, PTL DEF Spec

-----------------------------------------------------------------------------
(* The theorems.                                                            *)

\* Every variable stays in its type: in particular no call ever counts more
\* than two requests with one password.
THEOREM TypeCorrect == Spec => []TypeOK
<1>1. IInv => TypeOK
  BY DEF IInv
<1> QED
  BY <1>1, Inductive, PTL

\* A call that no other call overlaps sends no password twice, or over BlueLink
\* USA, whose refresh grant carries it too, not three times: that is how much
\* closer one call with a wrong password brings the account to its lock.
THEOREM NoPasswordIsTriedTwice == Spec => []SignInBudget
<1>1. IInv => SignInBudget
  BY DEF IInv, ThreadInv, Logins, SignInBudget
<1> QED
  BY <1>1, Inductive, PTL

\* While nothing interferes, checks refresh the token without logging in.
THEOREM RefreshesAreSilent == Spec => []RefreshIsSilent
<1>1. IInv => RefreshIsSilent
  BY DEF IInv, ThreadInv, Silence, RefreshIsSilent
<1> QED
  BY <1>1, Inductive, PTL

\* Whatever happened before, a call with the right password that nothing
\* interferes with ends with a token the cloud accepts and with the vehicles.
THEOREM EveryCallRecovers == Spec => []CallsRecover
<1>1. IInv => CallsRecover
  BY DEF IInv, ThreadInv, Success, Over, CallsRecover
<1> QED
  BY <1>1, Inductive, PTL

\* A check lists the vehicles, and loses their data, only if it found none or
\* another call overlaps it.
THEOREM ChecksKeepVehicles == Spec => []VehiclesAreKept
<1>1. IInv => VehiclesAreKept
  BY DEF IInv, ThreadInv, Listing, Solo, VehiclesAreKept
<1> QED
  BY <1>1, Inductive, PTL
-----------------------------------------------------------------------------
(* A call has a bounded number of steps.                                    *)

\* What is left of a call: a refresh may fall back to a login, and one login
\* may follow its failure.
StepsLeft(t) ==
  IF pc[t] = "idle" THEN 0
  ELSE IF pc[t] = "testing" THEN 11
  ELSE IF pc[t] = "grant" THEN 10
  ELSE IF pc[t] = "exchange" THEN 9
  ELSE IF pc[t] = "login" THEN IF via[t] = "refresh" THEN 8 ELSE 5
  ELSE IF pc[t] = "signedIn" THEN IF via[t] = "refresh" THEN 7 ELSE 4
  ELSE IF pc[t] = "handler" THEN 6
  ELSE IF pc[t] = "store" THEN 3
  ELSE IF pc[t] = "vehicles" THEN 2
  ELSE 1

\* A step of a call comes nearer to its end; no step takes a call farther from
\* it but the one that makes it.
CallsAdvance ==
  /\ \A t \in Threads : Step(t) => StepsLeft(t)' < StepsLeft(t)
  /\ \A t \in Threads : StepsLeft(t)' # StepsLeft(t) => Call(t) \/ Step(t)

LEMMA StepsLeftFrame ==
  ASSUME NEW u \in Threads, pc'[u] = pc[u], via'[u] = via[u]
  PROVE  StepsLeft(u)' = StepsLeft(u)
BY DEF StepsLeft

LEMMA StepAdvances ==
  ASSUME IInv, NEW t \in Threads, Step(t)
  PROVE  StepsLeft(t)' < StepsLeft(t)
<1>0. TypeOK /\ Shape(t)
  BY DEF IInv, ThreadInv
<1>f. ASSUME NEW r, pc[t] # "idle", Finish(t, r) PROVE StepsLeft(t)' < StepsLeft(t)
  <2>1. pc'[t] = "idle" /\ pc[t] \in PCs
    BY <1>0, <1>f, FinishSame DEF TypeOK
  <2> QED
    BY <1>f, <2>1 DEF StepsLeft
<1>r. ASSUME NEW r, pc[t] \in {"login", "signedIn"}, Raises(t, r)
      PROVE  StepsLeft(t)' < StepsLeft(t)
  BY <1>0, <1>f, <1>r, RaisesSame DEF StepsLeft
<1>b. ASSUME pc[t] \in {"grant", "exchange"}, FallBack(t) PROVE StepsLeft(t)' < StepsLeft(t)
  BY <1>0, <1>b, FallBackSame DEF StepsLeft
<1>t. ASSUME pc[t] = "testing", KeepToken(t) \/ Refresh(t) PROVE StepsLeft(t)' < StepsLeft(t)
  <2>1. token # None
    BY <1>0, <1>t DEF Shape
  <2>2. pc'[t] \in {"vehicles", "login", "grant"}
    BY <1>0, <1>t, <2>1, KeepSame, RefreshSame
  <2> QED
    BY <1>t, <2>2 DEF StepsLeft
<1>1. CASE TestAnswered(t) \/ TestFails(t)
  BY <1>t, <1>1 DEF TestAnswered, TestFails, At
<1>2. CASE TestRaises(t) \/ LoginNeedsOtp(t) \/ Initialize(t) \/ InitializeFails(t)
  BY <1>f, <1>2 DEF TestRaises, LoginNeedsOtp, Initialize, InitializeFails, At
<1>3. CASE GrantOk(t)
  BY <1>3, GrantOkFacts DEF StepsLeft
<1>4. CASE GrantRefused(t) \/ GrantFails(t) \/ ExchangeFails(t)
  BY <1>b, <1>4 DEF GrantRefused, GrantFails, ExchangeFails, At
<1>5. CASE ExchangeOk(t)
  BY <1>0, <1>5 DEF ExchangeOk, Goto, TypeOK, StepsLeft
<1>6. CASE SignInOk(t) \/ PresentOk(t)
  <2>1. pc[t] = "login" /\ pc'[t] \in {"store", "signedIn"} /\ via'[t] = via[t]
    BY <1>0, <1>6 DEF SignInOk, PresentOk, At, Goto, TypeOK
  <2> QED
    BY <2>1 DEF StepsLeft
<1>7. CASE LoginRefused(t) \/ LoginFails(t)
  BY <1>r, <1>7 DEF LoginRefused, LoginFails, At
<1>8. CASE HandleAuth(t)
  <2>1. CASE LogIn(t, "retry")
    BY <1>0, <1>8, <2>1, LogInSame DEF HandleAuth, At, StepsLeft
  <2>2. CASE Finish(t, "auth")
    BY <1>f, <1>8, <2>2 DEF HandleAuth, At
  <2> QED
    BY <1>8, <2>1, <2>2 DEF HandleAuth
<1>9. CASE Store(t)
  <2>1. pc[t] = "store" /\ pc'[t] \in {"initialize", "vehicles"}
    BY <1>0, <1>9 DEF Store, At, Goto, TypeOK
  <2> QED
    BY <2>1 DEF StepsLeft
<1>10. CASE CountVehicles(t)
  <2>1. CASE vehicles
    BY <1>f, <1>10, <2>1 DEF CountVehicles, At
  <2>2. CASE ~ vehicles
    BY <1>0, <1>10, <2>2 DEF CountVehicles, At, Goto, TypeOK, StepsLeft
  <2> QED
    BY <2>1, <2>2
<1> QED
  BY <1>1, <1>2, <1>3, <1>4, <1>5, <1>6, <1>7, <1>8, <1>9, <1>10 DEF Step

LEMMA CallFrame ==
  ASSUME TypeOK, NEW t \in Threads, Call(t)
  PROVE  \A u \in Threads \ {t} : pc'[u] = pc[u] /\ via'[u] = via[u]
<1>1. CASE login(t)
  BY <1>1, LogInSame DEF login
<1>2. CASE check_and_refresh_token(t)
  <2>1. CASE token # None /\ (Refresh(t) \/ KeepToken(t))
    BY <2>1, RefreshSame, KeepSame
  <2>2. CASE LogIn(t, "first")
    BY <2>2, LogInSame
  <2>3. CASE Goto(t, "testing") /\ UNCHANGED via
    BY <2>3 DEF Goto, TypeOK
  <2> QED
    BY <1>2, <2>1, <2>2, <2>3 DEF check_and_refresh_token
<1> QED
  BY <1>1, <1>2 DEF Call

\* A check_and_refresh_token or login of any client ends after at most 11 steps
\* from its first request on: a test, a refresh, the login it falls back to, the
\* login that follows that one's failure, the vehicles.  No failure of a
\* request, no other call and nothing the cloud does starts a call over.
THEOREM CallsAreShort ==
  Spec => /\ [](\A t \in Threads : StepsLeft(t) \in 0..11)
          /\ [][CallsAdvance]_vars
<1>1. IInv => \A t \in Threads : StepsLeft(t) \in 0..11
  BY DEF StepsLeft
<1>2. IInv /\ [Next]_vars => [CallsAdvance]_vars
  <2> SUFFICES ASSUME IInv, Next PROVE CallsAdvance
    OBVIOUS
  <2>0. TypeOK
    BY DEF IInv
  <2>1. ASSUME NEW t \in Threads, StepsLeft(t)' # StepsLeft(t) PROVE Call(t) \/ Step(t)
    <3>1. ~ UNCHANGED <<pc, via>>
      BY <2>1 DEF StepsLeft
    <3>2. PICK u \in Threads : Call(u) \/ Step(u)
      BY <3>1 DEF Next, CloudDrops, PasswordChanges, ExpiryPasses, Nothing, locals
    <3>3. \A v \in Threads \ {u} : pc'[v] = pc[v] /\ via'[v] = via[v]
      BY <2>0, <3>2, CallFrame, StepFrame DEF Frame, SameLocals
    <3>4. u = t
      BY <2>1, <3>3, StepsLeftFrame
    <3> QED
      BY <3>2, <3>4
  <2> QED
    BY <2>1, StepAdvances DEF CallsAdvance
<1> QED
  BY <1>1, <1>2, Inductive, PTL DEF Spec
=============================================================================
