--------------------------- MODULE Console_proofs ---------------------------
(***************************************************************************)
(* Theorems of the dashboard: of Session for any number of windows,        *)
(* requests, users and logins; of Listings for any number of writers and   *)
(* readers, any page size and any number of rows; of Overview for tables   *)
(* of any size; and of the console that has these three beside the pages   *)
(* of ClaimPage_proofs.                                                    *)
(***************************************************************************)
EXTENDS MCConsole, ClaimPage_proofs, FiniteSetTheorems, WellFoundedInduction, TLAPS

----------------------------------------------------------------------------
(* The session of a browser.                                               *)

(* A request in flight is a record with the fields of Fetch.                *)
LEMMA InFlight ==
    ASSUME SessionTypeOK, NEW f \in Fetches, fetch[f].kind # "none"
    PROVE  /\ fetch[f] \in Fetch
           /\ fetch[f].window \in Windows
           /\ fetch[f].token \in 0..Len(logins) /\ fetch[f].sent \in 0..Len(logins)
<1>1. fetch[f] # NoFetch
  BY DEF NoFetch
<1>2. fetch[f] \in Fetch
  BY <1>1 DEF SessionTypeOK
<1>3. QED
  BY <1>2 DEF Fetch

(* A request that is sent has the type of one.                              *)
LEMMA SentType ==
    ASSUME SessionTypeOK, NEW v \in Windows,
           NEW k \in {"api", "page", "ending", "redirect", "logout", "login"},
           NEW n \in 0..Len(logins), NEW u \in Users \cup {Nobody}
    PROVE  FetchOf(v, k, n, u) \in Fetch
<1>1. Len(logins) \in Nat
  BY DEF SessionTypeOK
<1>2. QED
  BY <1>1 DEF FetchOf, Fetch

(* One more request, or none where there was one: the requests keep their   *)
(* types while no login is added.                                           *)
LEMMA FetchesType ==
    ASSUME SessionTypeOK, UNCHANGED logins,
           NEW f \in Fetches, NEW r \in Fetch \cup {NoFetch},
           r.kind = "login" => r.user \in Users,
           fetch' = [fetch EXCEPT ![f] = r]
    PROVE  /\ fetch' \in [Fetches -> Fetch' \cup {NoFetch}]
           /\ \A g \in Fetches : fetch'[g].kind = "login" => fetch'[g].user \in Users
<1>1. Fetch' = Fetch
  BY DEF Fetch
<1>2. QED
  BY <1>1 DEF SessionTypeOK

(* The browser has its types at the start.                                  *)
LEMMA SessionTypeInit ==
    ASSUME SessionInit
    PROVE  SessionTypeOK
<1>1. Len(logins) = 0 /\ logins \in Seq([user : Users, window : Windows])
  BY DEF SessionInit
<1>2. Len(logins) <= MaxLogins
  BY <1>1, MaxLoginsAssumption
<1>3. QED
  BY <1>1, <1>2 DEF SessionInit, SessionTypeOK, NoCookies, NoFetch, Names

(* A step keeps the types.                                                 *)
LEMMA SessionTypeStep ==
    ASSUME SessionTypeOK, [SessionNext]_sessionVars
    PROVE  SessionTypeOK'
<1>0. /\ Len(logins) \in Nat /\ DOMAIN logins = 1..Len(logins)
      /\ jar.access \in 0..Len(logins) /\ jar.user \in Users \cup {Nobody}
      /\ NoCookies \in [access : 0..Len(logins), user : Users \cup {Nobody}]
      /\ \A u \in Users \cup {Nobody} : NameNow(u) \in Names
  <2>1. Len(logins) \in Nat /\ DOMAIN logins = 1..Len(logins)
    BY DEF SessionTypeOK
  <2>2. QED
    BY <2>1 DEF SessionTypeOK, NoCookies, NameNow, Names
<1>1. ASSUME NEW n \in 1..MaxLogins, TokenExpires(n)
      PROVE  SessionTypeOK'
  <2>1. n \in 1..Len(logins) /\ expired' = expired \cup {n}
        /\ UNCHANGED <<jar, logins, at, name, fetch>>
    BY <1>0, <1>1 DEF TokenExpires
  <2>2. Names' = Names /\ Fetch' = Fetch
    BY <2>1 DEF Names, Fetch
  <2>3. QED
    BY <2>1, <2>2 DEF SessionTypeOK
<1>2. CASE AccessCookieExpires
  <2>1. jar' \in [access : 0..Len(logins), user : Users \cup {Nobody}]
        /\ UNCHANGED <<logins, expired, at, name, fetch>>
    BY <1>0, <1>2 DEF AccessCookieExpires, SessionTypeOK
  <2>2. Names' = Names /\ Fetch' = Fetch
    BY <2>1 DEF Names, Fetch
  <2>3. QED
    BY <2>1, <2>2 DEF SessionTypeOK
<1>3. CASE UsernameCookieExpires
  BY <1>0, <1>3 DEF UsernameCookieExpires, SessionTypeOK, Names, Fetch
<1>4. ASSUME NEW v \in Windows, NEW where \in {"login", "app"}, LoadPage(v, where)
      PROVE  SessionTypeOK'
  <2>1. /\ name' = [name EXCEPT ![v] = NameNow(jar.user)] /\ NameNow(jar.user) \in Names
        /\ at' = [at EXCEPT ![v] = where] /\ fetch' = DroppedOf(v)
        /\ UNCHANGED <<jar, logins, expired>>
    BY <1>0, <1>4 DEF LoadPage, Call, Go
  <2>2. Names' = Names /\ Fetch' = Fetch
    BY <2>1 DEF Names, Fetch
  <2>3. /\ fetch' \in [Fetches -> Fetch \cup {NoFetch}]
        /\ \A f \in Fetches : fetch'[f].kind = "login" => fetch'[f].user \in Users
    BY <2>1 DEF DroppedOf, SessionTypeOK, NoFetch
  <2>4. QED
    BY <2>1, <2>2, <2>3 DEF SessionTypeOK
<1>5. ASSUME NEW v \in Windows, FollowLinkSignedOut(v)
      PROVE  SessionTypeOK'
  BY <1>5 DEF FollowLinkSignedOut, Go, SessionTypeOK, Names, Fetch
<1>6. ASSUME NEW v \in Windows, NEW f \in Fetches, NEW k \in {"api", "page", "logout", "login"},
             NEW n \in 0..Len(logins), NEW u \in Users \cup {Nobody}, k = "login" => u \in Users,
             fetch' = [fetch EXCEPT ![f] = FetchOf(v, k, n, u)],
             UNCHANGED <<jar, logins, expired, at, name>>
      PROVE  SessionTypeOK'
  <2>1. FetchOf(v, k, n, u) \in Fetch
    BY <1>6, SentType
  <2>2. FetchOf(v, k, n, u).kind = k /\ FetchOf(v, k, n, u).user = u
    BY DEF FetchOf
  <2>3. /\ fetch' \in [Fetches -> Fetch' \cup {NoFetch}]
        /\ \A g \in Fetches : fetch'[g].kind = "login" => fetch'[g].user \in Users
    BY <1>6, <2>1, <2>2, FetchesType
  <2>4. QED
    BY <1>6, <2>3 DEF SessionTypeOK, Names
<1>7. ASSUME NEW v \in Windows, NEW f \in Fetches, FollowLink(v, f) \/ SendApi(v, f) \/ PressLogout(v, f)
      PROVE  SessionTypeOK'
  BY <1>0, <1>6, <1>7 DEF FollowLink, SendApi, PressLogout, ProxiedToken
<1>8. ASSUME NEW v \in Windows, NEW f \in Fetches, NEW u \in Users, SubmitLogin(v, f, u)
      PROVE  SessionTypeOK'
  <2>1. 0 \in 0..Len(logins)
    BY <1>0
  <2>2. QED
    BY <1>6, <1>8, <2>1 DEF SubmitLogin
<1>9. ASSUME NEW f \in Fetches, Unauthorized(f)
      PROVE  SessionTypeOK'
  <2>0. PICK k \in {"ending", "redirect"} : k = LogoutAfter(f)
    BY DEF LogoutAfter
  <2>1. fetch[f] \in Fetch
    BY <1>9, InFlight DEF Unauthorized
  <2>2. [fetch[f] EXCEPT !.kind = k] \in Fetch /\ [fetch[f] EXCEPT !.kind = k].kind # "login"
    BY <2>1 DEF Fetch
  <2>3. fetch' = [fetch EXCEPT ![f] = [fetch[f] EXCEPT !.kind = k]]
    BY <1>9, <2>0 DEF Unauthorized, SessionTypeOK
  <2>4. /\ fetch' \in [Fetches -> Fetch' \cup {NoFetch}]
        /\ \A g \in Fetches : fetch'[g].kind = "login" => fetch'[g].user \in Users
    BY <1>9, <2>2, <2>3, FetchesType DEF Unauthorized
  <2>5. QED
    BY <1>9, <2>4 DEF Unauthorized, SessionTypeOK, Names
<1>10. ASSUME NEW f \in Fetches, UNCHANGED logins, Done(f)
       PROVE  /\ fetch' \in [Fetches -> Fetch' \cup {NoFetch}]
              /\ \A g \in Fetches : fetch'[g].kind = "login" => fetch'[g].user \in Users
  BY <1>10, FetchesType DEF Done, NoFetch
<1>11. ASSUME NEW f \in Fetches, Settle(f)
       PROVE  SessionTypeOK'
  BY <1>10, <1>11 DEF Settle, SessionTypeOK, Names
<1>12. ASSUME NEW f \in Fetches, SessionEnds(f) \/ LoggedOut(f)
       PROVE  SessionTypeOK'
  <2> DEFINE v == fetch[f].window
  <2>1. v \in Windows /\ NameNow(Nobody) \in Names
    BY <1>0, <1>12, InFlight DEF SessionEnds, LoggedOut
  <2>2. /\ jar' = NoCookies /\ at' = [at EXCEPT ![v] = "login"] /\ UNCHANGED <<logins, expired>>
        /\ name' = name \/ name' = [name EXCEPT ![v] = NameNow(Nobody)]
        /\ fetch' = DroppedOf(v) \/ Done(f)
    BY <1>12 DEF SessionEnds, LoggedOut, Go, Call
  <2>3. Names' = Names /\ Fetch' = Fetch
    BY <2>2 DEF Names, Fetch
  <2>4. /\ fetch' \in [Fetches -> Fetch \cup {NoFetch}]
        /\ \A g \in Fetches : fetch'[g].kind = "login" => fetch'[g].user \in Users
    <3>1. CASE Done(f)
      BY <1>10, <2>2, <2>3, <3>1
    <3>2. CASE fetch' = DroppedOf(v)
      BY <3>2 DEF DroppedOf, SessionTypeOK, NoFetch
    <3>3. QED
      BY <2>2, <3>1, <3>2
  <2>5. QED
    BY <1>0, <2>1, <2>2, <2>3, <2>4 DEF SessionTypeOK
<1>13. ASSUME NEW f \in Fetches, LoggedIn(f)
       PROVE  SessionTypeOK'
  <2>1. PICK v \in Windows, u \in Users, n \in Nat :
            v = fetch[f].window /\ u = fetch[f].user /\ n = Len(logins) + 1
    BY <1>0, <1>13, InFlight DEF LoggedIn, SessionTypeOK
  <2>2. /\ logins' = Append(logins, [user |-> u, window |-> v]) /\ n <= MaxLogins
        /\ jar' = [access |-> n, user |-> u]
        /\ name' = [name EXCEPT ![v] = [user |-> u, logins |-> n]]
        /\ at' = [at EXCEPT ![v] = "app"] /\ fetch' = [fetch EXCEPT ![f] = NoFetch]
        /\ expired' = expired
    BY <1>13, <2>1 DEF LoggedIn, NameOfLogin, Call, Go, Done
  <2>3. /\ logins' \in Seq([user : Users, window : Windows]) /\ Len(logins') = n
    BY <2>1, <2>2 DEF SessionTypeOK
  <2>4. 0..Len(logins) \subseteq 0..n /\ 1..Len(logins) \subseteq 1..n /\ n \in 0..n
    BY <1>0, <2>1
  <2>5. [user |-> u, logins |-> n] \in Names' /\ Names \subseteq Names'
    BY <2>3, <2>4 DEF Names
  <2>6. Fetch \subseteq Fetch'
    BY <2>3, <2>4 DEF Fetch
  <2>7. QED
    BY <2>2, <2>3, <2>4, <2>5, <2>6 DEF SessionTypeOK, NoFetch
<1>14. CASE UNCHANGED sessionVars
  BY <1>14 DEF sessionVars, SessionTypeOK, Names, Fetch
<1>15. QED
  BY <1>1, <1>2, <1>3, <1>4, <1>5, <1>7, <1>8, <1>9, <1>11, <1>12, <1>13, <1>14
     DEF SessionNext, Use, Resolve

(* The cookies and the windows keep their types, and a login request has a  *)
(* user.                                                                    *)
THEOREM SessionTypeCorrect == SessionSpec => []SessionTypeOK
<1>1. SessionTypeOK /\ [SessionNext]_sessionVars => SessionTypeOK'
  BY SessionTypeStep
<1>2. QED
  BY <1>1, SessionTypeInit, PTL DEF SessionSpec

----------------------------------------------------------------------------
(* The 401 that ends a session.                                            *)

(* The cookie holds the token of the latest login or none.                  *)
LatestOrNone == jar.access \in {0, Len(logins)}

(* A request carries the token of the login that was the latest when it was *)
(* sent; it carries none only if the cookie was gone by then, and it stays  *)
(* so until the next login.                                                 *)
CarriesItsTime ==
    \A f \in Fetches : fetch[f].kind \in {"api", "page"} =>
        /\ fetch[f].token \in {0, fetch[f].sent}
        /\ fetch[f].token = 0 => jar.access = 0 \/ fetch[f].sent < Len(logins)

SessionInv == LatestOrNone /\ CarriesItsTime /\ LogoutsAfter401AreLate

(* Steps that make no cookie valid, and whose requests were there already,  *)
(* but for those that ended.                                                *)
LEMMA NothingNewIsSent ==
    ASSUME SessionTypeOK, SessionInv, UNCHANGED logins, expired \subseteq expired',
           jar'.access \in {0, jar.access},
           \A f \in Fetches : fetch'[f] = fetch[f] \/ fetch'[f].kind \notin {"api", "page", "ending", "redirect"}
    PROVE  SessionInv'
BY DEF SessionInv, LatestOrNone, CarriesItsTime, LogoutsAfter401AreLate, Valid

(* A step keeps the inductive invariant.                                   *)
LEMMA SessionInvStep ==
    ASSUME SessionTypeOK, SessionInv, [SessionNext]_sessionVars
    PROVE  SessionInv'
<1>0. /\ Len(logins) \in Nat /\ jar.access \in 0..Len(logins) /\ NoFetch.kind = "none"
  BY DEF SessionTypeOK, NoFetch
<1>1. ASSUME NEW n \in 1..MaxLogins, TokenExpires(n)
      PROVE  SessionInv'
  BY <1>1, NothingNewIsSent DEF TokenExpires
<1>2. CASE AccessCookieExpires
  <2>1. jar'.access = 0
    BY <1>2 DEF AccessCookieExpires, SessionTypeOK
  <2>2. QED
    BY <1>2, <2>1, NothingNewIsSent DEF AccessCookieExpires
<1>3. CASE UsernameCookieExpires
  BY <1>3, NothingNewIsSent DEF UsernameCookieExpires, NoCookies
<1>4. ASSUME NEW v \in Windows, NEW where \in {"login", "app"}, LoadPage(v, where)
      PROVE  SessionInv'
  <2>1. \A f \in Fetches : fetch'[f] = fetch[f] \/ fetch'[f].kind = "none"
    BY <1>0, <1>4 DEF LoadPage, DroppedOf
  <2>2. QED
    BY <1>4, <2>1, NothingNewIsSent DEF LoadPage
<1>5. ASSUME NEW v \in Windows, FollowLinkSignedOut(v)
      PROVE  SessionInv'
  BY <1>5, NothingNewIsSent DEF FollowLinkSignedOut
<1>6. ASSUME NEW v \in Windows, NEW f \in Fetches, NEW k \in {"api", "page"},
             fetch' = [fetch EXCEPT ![f] = FetchOf(v, k, jar.access, Nobody)],
             UNCHANGED <<jar, logins, expired>>
      PROVE  SessionInv'
  <2>1. /\ fetch'[f].kind = k /\ fetch'[f].token = jar.access /\ fetch'[f].sent = Len(logins)
        /\ \A g \in Fetches \ {f} : fetch'[g] = fetch[g]
    BY <1>6 DEF FetchOf, SessionTypeOK
  <2>2. QED
    BY <1>0, <1>6, <2>1 DEF SessionInv, LatestOrNone, CarriesItsTime, LogoutsAfter401AreLate, Valid
<1>7. ASSUME NEW v \in Windows, NEW f \in Fetches, FollowLink(v, f) \/ SendApi(v, f)
      PROVE  SessionInv'
  BY <1>6, <1>7 DEF FollowLink, SendApi, ProxiedToken
<1>8. ASSUME NEW v \in Windows, NEW f \in Fetches, NEW k \in {"login", "logout"}, NEW n, NEW u,
             fetch' = [fetch EXCEPT ![f] = FetchOf(v, k, n, u)],
             UNCHANGED <<jar, logins, expired>>
      PROVE  SessionInv'
  <2>1. fetch'[f].kind = k /\ \A g \in Fetches \ {f} : fetch'[g] = fetch[g]
    BY <1>8 DEF FetchOf, SessionTypeOK
  <2>2. QED
    BY <1>8, <2>1, NothingNewIsSent
<1>9. ASSUME NEW f \in Fetches, Unauthorized(f)
      PROVE  SessionInv'
  <2>1. /\ fetch[f].kind \in {"api", "page"} /\ Refused(f)
        /\ fetch[f] \in Fetch /\ fetch[f].sent \in 0..Len(logins)
    BY <1>9, InFlight DEF Unauthorized
  <2>2. /\ fetch'[f].kind \in {"ending", "redirect"} /\ fetch'[f].sent = fetch[f].sent
        /\ \A g \in Fetches \ {f} : fetch'[g] = fetch[g]
        /\ UNCHANGED <<jar, logins, expired>>
    BY <1>9, <2>1 DEF Unauthorized, LogoutAfter, SessionTypeOK, Fetch
  <2>3. Valid => fetch[f].sent < jar.access
    BY <1>0, <2>1 DEF SessionInv, LatestOrNone, CarriesItsTime, Refused, Valid
  <2>4. LatestOrNone' /\ CarriesItsTime'
    BY <2>2 DEF SessionInv, LatestOrNone, CarriesItsTime
  <2>5. LogoutsAfter401AreLate'
    BY <2>2, <2>3 DEF SessionInv, LogoutsAfter401AreLate, Valid
  <2>6. QED
    BY <2>4, <2>5 DEF SessionInv
<1>10. ASSUME NEW f \in Fetches, Settle(f) \/ SessionEnds(f) \/ LoggedOut(f)
       PROVE  SessionInv'
  <2>1. \A g \in Fetches : fetch'[g] = fetch[g] \/ fetch'[g].kind = "none"
    BY <1>0, <1>10 DEF Settle, SessionEnds, LoggedOut, Done, DroppedOf, SessionTypeOK
  <2>2. jar'.access \in {0, jar.access} /\ UNCHANGED <<logins, expired>>
    BY <1>10 DEF Settle, SessionEnds, LoggedOut, NoCookies
  <2>3. QED
    BY <2>1, <2>2, NothingNewIsSent
<1>11. ASSUME NEW f \in Fetches, LoggedIn(f)
       PROVE  SessionInv'
  <2>1. /\ jar'.access = Len(logins) + 1 /\ Len(logins') = Len(logins) + 1
        /\ \A g \in Fetches : fetch'[g] = fetch[g] \/ fetch'[g].kind = "none"
    <3>1. [user |-> fetch[f].user, window |-> fetch[f].window] \in [user : Users, window : Windows]
      BY <1>11, InFlight DEF LoggedIn, SessionTypeOK
    <3>2. Len(logins') = Len(logins) + 1
      BY <1>11, <3>1 DEF LoggedIn, SessionTypeOK
    <3>3. QED
      BY <1>0, <1>11, <3>2 DEF LoggedIn, Done, SessionTypeOK
  <2>2. ASSUME NEW g \in Fetches, fetch'[g].kind \in {"api", "page", "ending", "redirect"}
        PROVE  fetch'[g] = fetch[g] /\ fetch[g].sent \in 0..Len(logins)
    BY <2>1, <2>2, InFlight
  <2>3. QED
    BY <1>0, <2>1, <2>2 DEF SessionInv, LatestOrNone, CarriesItsTime, LogoutsAfter401AreLate
<1>12. CASE UNCHANGED sessionVars
  BY <1>12, NothingNewIsSent DEF sessionVars
<1>13. QED
  BY <1>1, <1>2, <1>3, <1>4, <1>5, <1>7, <1>8, <1>9, <1>10, <1>11, <1>12
     DEF SessionNext, Use, Resolve, PressLogout, SubmitLogin

(* A logout that follows a 401 reaches an open session only when the        *)
(* request was sent before that session began (apiFetch and serverFetch     *)
(* send the token of the cookie, the gateway refuses expired ones only).    *)
THEOREM OnlyLateLogoutsHit == SessionSpec => []LogoutsAfter401AreLate
<1>1. SessionInit => SessionInv
  BY DEF SessionInit, SessionInv, LatestOrNone, CarriesItsTime, LogoutsAfter401AreLate, Valid,
         NoCookies, NoFetch
<1>2. SessionTypeOK /\ SessionInv /\ [SessionNext]_sessionVars => SessionInv'
  BY SessionInvStep
<1>3. SessionInv => LogoutsAfter401AreLate
  BY DEF SessionInv
<1>4. QED
  BY <1>1, <1>2, <1>3, SessionTypeCorrect, PTL DEF SessionSpec

----------------------------------------------------------------------------
(* The name a window shows.                                                *)

(* A step keeps the property of the names, which is inductive with the types. *)
LEMMA WrongNameStep ==
    ASSUME SessionTypeOK, WrongNameIsFromBefore, [SessionNext]_sessionVars
    PROVE  WrongNameIsFromBefore'
<1>1. ASSUME jar'.access \in {0, jar.access}, jar'.access # 0 => jar' = jar, UNCHANGED logins,
             \A v \in Windows : name'[v] = name[v] \/ name'[v].user \in {Nobody, jar'.user}
      PROVE  WrongNameIsFromBefore'
  BY <1>1 DEF WrongNameIsFromBefore
<1>2. ASSUME UNCHANGED <<jar, logins, name>>
      PROVE  WrongNameIsFromBefore'
  BY <1>2 DEF WrongNameIsFromBefore
<1>3. CASE AccessCookieExpires \/ UsernameCookieExpires
  <2>1. jar'.access = 0
    BY <1>3 DEF AccessCookieExpires, UsernameCookieExpires, NoCookies, SessionTypeOK
  <2>2. QED
    BY <2>1 DEF WrongNameIsFromBefore
<1>4. ASSUME NEW v \in Windows, NEW where \in {"login", "app"}, LoadPage(v, where)
      PROVE  WrongNameIsFromBefore'
  <2>1. /\ name'[v].user = jar.user /\ \A u \in Windows \ {v} : name'[u] = name[u]
        /\ UNCHANGED <<jar, logins>>
    BY <1>4 DEF LoadPage, Call, NameNow, SessionTypeOK
  <2>2. QED
    BY <1>1, <2>1
<1>5. ASSUME NEW f \in Fetches, SessionEnds(f) \/ LoggedOut(f)
      PROVE  WrongNameIsFromBefore'
  BY <1>5 DEF SessionEnds, LoggedOut, NoCookies, WrongNameIsFromBefore
<1>6. ASSUME NEW f \in Fetches, LoggedIn(f)
      PROVE  WrongNameIsFromBefore'
  <2>1. PICK v \in Windows, u \in Users, n \in Nat :
            v = fetch[f].window /\ u = fetch[f].user /\ n = Len(logins) + 1
    <3>1. Len(logins) \in Nat
      BY DEF SessionTypeOK
    <3>2. QED
      BY <1>6, <3>1, InFlight DEF LoggedIn, SessionTypeOK
  <2>2. /\ logins' = Append(logins, [user |-> u, window |-> v])
        /\ jar' = [access |-> n, user |-> u]
        /\ name' = [name EXCEPT ![v] = [user |-> u, logins |-> n]]
    BY <1>6, <2>1 DEF LoggedIn, NameOfLogin, Call
  <2>3. logins'[n].window = v
    BY <2>1, <2>2 DEF SessionTypeOK
  <2>4. ASSUME NEW x \in Windows \ {v}
        PROVE  name'[x] = name[x] /\ name[x].logins < n
    BY <2>1, <2>2 DEF SessionTypeOK, Names
  <2>5. name'[v].user = u
    BY <2>2 DEF SessionTypeOK
  <2>6. QED
    BY <2>2, <2>3, <2>4, <2>5 DEF WrongNameIsFromBefore
<1>7. QED
  BY <1>2, <1>3, <1>4, <1>5, <1>6
     DEF SessionNext, Use, Resolve, TokenExpires, FollowLinkSignedOut, FollowLink, SendApi,
         PressLogout, SubmitLogin, Unauthorized, Settle, sessionVars

(* A window shows another name than that of the session only if the session *)
(* was opened after that name was stored and in another window (useAuth     *)
(* sets the name of its own window, and reads the cookie once).             *)
THEOREM WrongNamesAreOld == SessionSpec => []WrongNameIsFromBefore
<1>1. SessionInit => WrongNameIsFromBefore
  BY DEF SessionInit, WrongNameIsFromBefore, NoCookies
<1>2. SessionTypeOK /\ WrongNameIsFromBefore /\ [SessionNext]_sessionVars => WrongNameIsFromBefore'
  BY WrongNameStep
<1>3. QED
  BY <1>1, <1>2, SessionTypeCorrect, PTL DEF SessionSpec

----------------------------------------------------------------------------
(* The lists: lemmas on finite sets of timestamps.                          *)

(* Such a set has a first and a last element: of what comes before each of  *)
(* its elements, which are finitely many finite sets, one is minimal.       *)
LEMMA Least ==
    ASSUME NEW S \in SUBSET Nat, IsFiniteSet(S), S # {}
    PROVE  \E n \in S : \A m \in S : n <= m
<1> DEFINE Below(n) == {x \in S : x < n}
           Belows == {Below(n) : n \in S}
<1>1. IsWellFoundedOn(StrictSubsetOrdering(S), FiniteSubsetsOf(S))
  BY FS_StrictSubsetOrderingWellFounded
<1>2. Belows \subseteq FiniteSubsetsOf(S) /\ Belows # {}
  <2>1. \A n \in S : IsFiniteSet(Below(n)) /\ Below(n) \in SUBSET S
    BY FS_Subset
  <2>2. QED
    BY <2>1 DEF FiniteSubsetsOf
<1> HIDE DEF Belows
<1>3. PICK B \in Belows : \A C \in Belows : ~(<<C, B>> \in StrictSubsetOrdering(S))
  BY <1>1, <1>2, WFMin
<1>4. PICK n \in S : B = Below(n)
  BY <1>3 DEF Belows
<1>5. ASSUME NEW m \in S, m < n
      PROVE  FALSE
  <2>1. Below(m) \subseteq Below(n) /\ m \in Below(n) /\ m \notin Below(m)
    <3>1. n \in Nat /\ m \in Nat /\ \A x \in S : x \in Nat
      OBVIOUS
    <3>2. \A x \in S : x < m => x < n
      BY <1>5, <3>1
    <3>3. ~(m < m)
      BY <3>1
    <3>4. QED
      BY <1>5, <3>2, <3>3
  <2>2. Below(m) \in Belows /\ Below(m) \in SUBSET S /\ Below(n) \in SUBSET S
    BY DEF Belows
  <2> HIDE DEF Below
  <2>3. <<Below(m), B>> \in StrictSubsetOrdering(S)
    BY <1>4, <2>1, <2>2 DEF StrictSubsetOrdering
  <2>4. QED
    BY <1>3, <2>2, <2>3
<1>6. QED
  BY <1>5

LEMMA Greatest ==
    ASSUME NEW S \in SUBSET Nat, IsFiniteSet(S), S # {}
    PROVE  \E n \in S : \A m \in S : m <= n
<1> DEFINE Above(n) == {x \in S : x > n}
           Aboves == {Above(n) : n \in S}
<1>1. IsWellFoundedOn(StrictSubsetOrdering(S), FiniteSubsetsOf(S))
  BY FS_StrictSubsetOrderingWellFounded
<1>2. Aboves \subseteq FiniteSubsetsOf(S) /\ Aboves # {}
  <2>1. \A n \in S : IsFiniteSet(Above(n)) /\ Above(n) \in SUBSET S
    BY FS_Subset
  <2>2. QED
    BY <2>1 DEF FiniteSubsetsOf
<1> HIDE DEF Aboves
<1>3. PICK B \in Aboves : \A C \in Aboves : ~(<<C, B>> \in StrictSubsetOrdering(S))
  BY <1>1, <1>2, WFMin
<1>4. PICK n \in S : B = Above(n)
  BY <1>3 DEF Aboves
<1>5. ASSUME NEW m \in S, m > n
      PROVE  FALSE
  <2>1. Above(m) \subseteq Above(n) /\ m \in Above(n) /\ m \notin Above(m)
    <3>1. n \in Nat /\ m \in Nat /\ \A x \in S : x \in Nat
      OBVIOUS
    <3>2. \A x \in S : x > m => x > n
      BY <1>5, <3>1
    <3>3. ~(m > m)
      BY <3>1
    <3>4. QED
      BY <1>5, <3>2, <3>3
  <2>2. Above(m) \in Aboves /\ Above(m) \in SUBSET S /\ Above(n) \in SUBSET S
    BY DEF Aboves
  <2> HIDE DEF Above
  <2>3. <<Above(m), B>> \in StrictSubsetOrdering(S)
    BY <1>4, <2>1, <2>2 DEF StrictSubsetOrdering
  <2>4. QED
    BY <1>3, <2>2, <2>3
<1>6. QED
  BY <1>5

(* How many rows come before one: fewer than there are, more as rows are    *)
(* added, and not more for a newer one.                                     *)
LEMMA BeforeBounds ==
    ASSUME NEW T \in SUBSET Nat, IsFiniteSet(T), NEW S \in SUBSET T, NEW n \in Nat
    PROVE  /\ IsFiniteSet(S) /\ Cardinality(S) \in Nat /\ Cardinality(T) \in Nat
           /\ Before(n, S) \in Nat /\ Before(n, T) \in Nat
           /\ Before(n, S) <= Before(n, T)
           /\ Cardinality(S) <= Cardinality(T) /\ Before(n, S) <= Cardinality(S)
           /\ n \in S => Before(n, S) < Cardinality(S)
           /\ \A m \in Nat : n <= m => Before(m, S) <= Before(n, S)
<1> DEFINE Newer(k, R) == {m \in R : m > k}
<1>1. IsFiniteSet(S) /\ Cardinality(S) \in Nat /\ Cardinality(T) \in Nat
      /\ Cardinality(S) <= Cardinality(T)
  BY FS_Subset, FS_CardinalityType
<1>2. \A k \in Nat : /\ Newer(k, S) \in SUBSET S /\ Newer(k, T) \in SUBSET T
                     /\ Newer(k, S) \in SUBSET Newer(k, T)
                     /\ IsFiniteSet(Newer(k, S)) /\ IsFiniteSet(Newer(k, T))
  BY <1>1, FS_Subset
<1>3. ASSUME NEW m \in Nat, n <= m
      PROVE  Newer(m, S) \in SUBSET Newer(n, S)
  <2>1. \A x \in S : x \in Nat
    OBVIOUS
  <2>2. \A x \in S : x > m => x > n
    BY <1>3, <2>1
  <2>3. QED
    BY <2>2
<1>4. \A k \in Nat : Before(k, S) = Cardinality(Newer(k, S)) /\ Before(k, T) = Cardinality(Newer(k, T))
  BY DEF Before
<1>5. n \in S => Newer(n, S) # S
  OBVIOUS
<1> HIDE DEF Newer
<1>6. \A k \in Nat : Cardinality(Newer(k, S)) \in Nat /\ Cardinality(Newer(k, T)) \in Nat
  BY <1>2, FS_CardinalityType
<1>7. /\ Cardinality(Newer(n, S)) <= Cardinality(Newer(n, T))
      /\ Cardinality(Newer(n, S)) <= Cardinality(S)
  BY <1>1, <1>2, FS_Subset
<1>8. n \in S => Cardinality(Newer(n, S)) # Cardinality(S)
  BY <1>1, <1>2, <1>5, FS_Subset
<1>9. \A m \in Nat : n <= m => Cardinality(Newer(m, S)) <= Cardinality(Newer(n, S))
  BY <1>2, <1>3, FS_Subset
<1>10. QED
  BY <1>1, <1>4, <1>6, <1>7, <1>8, <1>9

(* Of the rows S, those after the first k: there are some exactly when S    *)
(* has more than k, and then all but k at most.                             *)
LEMMA RowsAfter ==
    ASSUME NEW S \in SUBSET Nat, IsFiniteSet(S), NEW k \in Nat,
           NEW A, A = {n \in S : Before(n, S) >= k}
    PROVE  /\ IsFiniteSet(A) /\ Cardinality(A) \in Nat
           /\ A # {} => Cardinality(A) + k <= Cardinality(S)
           /\ Cardinality(S) > k => A # {}
<1>1. IsFiniteSet(A) /\ Cardinality(A) \in Nat /\ Cardinality(S) \in Nat
  BY FS_Subset, FS_CardinalityType
<1>2. ASSUME A # {}
      PROVE  Cardinality(A) + k <= Cardinality(S)
  <2>1. PICK m \in A : \A n \in A : n <= m
    BY <1>1, <1>2, Greatest
  <2> DEFINE B == {n \in S : n > m}
  <2>2. Cardinality(B) >= k
    BY <2>1 DEF Before
  <2>3. A \cap B = {} /\ A \cup B \in SUBSET S /\ B \in SUBSET S
    <3>1. m \in Nat /\ \A n \in A : n \in Nat
      BY <2>1
    <3>2. \A n \in A : ~(n > m)
      BY <2>1, <3>1
    <3>3. QED
      BY <3>2
  <2> HIDE DEF B
  <2>4. IsFiniteSet(B) /\ Cardinality(B) \in Nat /\ Cardinality({}) = 0
    BY <2>3, FS_Subset, FS_CardinalityType, FS_EmptySet
  <2>5. Cardinality(A \cup B) = Cardinality(A) + Cardinality(B)
    BY <1>1, <2>3, <2>4, FS_Union
  <2>6. Cardinality(A \cup B) <= Cardinality(S)
    BY <2>3, FS_Subset
  <2>7. QED
    BY <1>1, <2>2, <2>4, <2>5, <2>6
<1>3. ASSUME Cardinality(S) > k
      PROVE  A # {}
  <2>1. S # {}
    BY <1>3, FS_EmptySet
  <2>2. PICK n \in S : \A m \in S : n <= m
    BY <2>1, Least
  <2>3. {m \in S : m > n} = S \ {n}
    <3>1. n \in Nat /\ \A m \in S : m \in Nat
      BY <2>2
    <3>2. \A m \in S : m > n <=> m # n
      BY <2>2, <3>1
    <3>3. QED
      BY <3>2
  <2>4. Cardinality(S \ {n}) = Cardinality(S) - 1
    BY <2>2, FS_RemoveElement
  <2>5. Before(n, S) >= k
    BY <1>1, <1>3, <2>3, <2>4 DEF Before
  <2>6. QED
    BY <2>2, <2>5
<1>4. QED
  BY <1>1, <1>2, <1>3

(* The rows of k pages.                                                     *)
LEMMA PageBounds ==
    /\ PageSize \in Nat /\ PageSize >= 1 /\ 1 * PageSize = PageSize /\ (1 - 1) * PageSize = 0
    /\ \A k \in Nat : /\ k * PageSize \in Nat /\ k <= k * PageSize
                      /\ (k + 1) * PageSize = k * PageSize + PageSize
BY PageSizeAssumption

(* A page of S and what is after it: a first page takes the newest, and is  *)
(* empty only if S is; a later one goes on where the one before it ends.    *)
LEMMA PageEnds ==
    ASSUME NEW S \in SUBSET Nat, IsFiniteSet(S)
    PROVE  /\ PageOf(S, 1) = {n \in S : Before(n, S) < PageSize}
           /\ S # {} => PageOf(S, 1) # {}
           /\ ~HasNext(S, 1) => PageOf(S, 1) = S
           /\ \A k \in Nat : \A n \in S :
                 k * PageSize <= Before(n, S) =>
                    n \in PageOf(S, k + 1) \/ (k + 1) * PageSize <= Before(n, S)
<1>1. \A n \in S : Before(n, S) \in Nat /\ Before(n, S) < Cardinality(S)
  BY BeforeBounds
<1>2. PageOf(S, 1) = {n \in S : Before(n, S) < PageSize}
  <2>1. \A n \in S : (1 - 1) * PageSize <= Before(n, S) /\ 1 * PageSize = PageSize
    BY <1>1, PageBounds
  <2>2. QED
    BY <2>1 DEF PageOf
<1>3. ASSUME S # {}
      PROVE  PageOf(S, 1) # {}
  <2>1. PICK n \in S : \A m \in S : m <= n
    BY <1>3, Greatest
  <2>2. {m \in S : m > n} = {}
    <3>1. n \in Nat /\ \A m \in S : m \in Nat
      BY <2>1
    <3>2. \A m \in S : ~(m > n)
      BY <2>1, <3>1
    <3>3. QED
      BY <3>2
  <2>3. Before(n, S) = 0
    BY <2>2, FS_EmptySet DEF Before
  <2>4. QED
    BY <1>2, <2>1, <2>3, PageBounds
<1>4. ASSUME ~HasNext(S, 1)
      PROVE  PageOf(S, 1) = S
  <2>1. Cardinality(S) <= PageSize
    BY <1>4, PageBounds, FS_CardinalityType DEF HasNext
  <2>2. Cardinality(S) \in Nat
    BY FS_CardinalityType
  <2>3. \A n \in S : Before(n, S) < PageSize
    BY <1>1, <2>1, <2>2, PageBounds
  <2>4. QED
    BY <1>2, <2>3
<1>5. ASSUME NEW k \in Nat, NEW n \in S, k * PageSize <= Before(n, S)
      PROVE  n \in PageOf(S, k + 1) \/ (k + 1) * PageSize <= Before(n, S)
  <2>1. (k + 1) - 1 = k
    OBVIOUS
  <2>2. (k + 1) * PageSize \in Nat
    BY PageBounds
  <2>3. QED
    BY <1>1, <1>5, <2>1, <2>2 DEF PageOf
<1>6. QED
  BY <1>2, <1>3, <1>4, <1>5

(* The first page of S, by cursor: the rest of S is older than its oldest   *)
(* row, and there is a rest if there is a next page.                        *)
LEMMA CursorPage ==
    ASSUME NEW S \in SUBSET Nat, IsFiniteSet(S), S # {}
    PROVE  /\ Oldest(PageOf(S, 1)) \in PageOf(S, 1)
           /\ S \ PageOf(S, 1) \subseteq Older(S, Oldest(PageOf(S, 1)))
           /\ HasNext(S, 1) => S \ PageOf(S, 1) # {}
<1> DEFINE P == PageOf(S, 1)
<1>1. P = {n \in S : Before(n, S) < PageSize} /\ P # {} /\ P \in SUBSET S
  BY PageEnds DEF PageOf
<1>2. IsFiniteSet(P) /\ P \in SUBSET Nat
  BY <1>1, FS_Subset
<1> HIDE DEF P
<1>3. PICK o \in P : \A m \in P : o <= m
  BY <1>1, <1>2, Least
<1>4. Oldest(P) \in P /\ \A m \in P : Oldest(P) <= m
  BY <1>3 DEF Oldest
<1>5. ASSUME NEW n \in S \ P
      PROVE  n < Oldest(P)
  <2>1. Oldest(P) \in S /\ Oldest(P) \in Nat /\ n \in Nat
    BY <1>1, <1>4
  <2>2. Oldest(P) <= n => Before(n, S) <= Before(Oldest(P), S)
    BY <2>1, BeforeBounds
  <2>3. Before(n, S) \in Nat /\ Before(Oldest(P), S) \in Nat /\ PageSize \in Nat
    BY <2>1, BeforeBounds, PageBounds
  <2>4. Before(Oldest(P), S) < PageSize /\ ~(Before(n, S) < PageSize)
    BY <1>1, <1>4, <1>5
  <2>5. QED
    BY <2>1, <2>2, <2>3, <2>4
<1>6. ASSUME HasNext(S, 1)
      PROVE  S \ P # {}
  <2>1. Cardinality(S) > PageSize
    BY <1>6, PageBounds DEF HasNext
  <2>2. PICK n \in S : Before(n, S) >= PageSize
    BY <2>1, PageBounds, RowsAfter
  <2>3. Before(n, S) \in Nat
    BY <2>2, BeforeBounds
  <2>4. QED
    BY <1>1, <2>2, <2>3, PageBounds
<1>7. QED
  BY <1>4, <1>5, <1>6 DEF Older, P

----------------------------------------------------------------------------
(* The lists: the invariant, of which the promise to the reader is a part.  *)
(* A page that was counted is one the links lead to, its count is of rows   *)
(* that are still there, and so what a count promised stays ahead.          *)

Query == [page : 0..MaxStamps, opens : BOOLEAN, filtered : BOOLEAN, next : BOOLEAN,
          counted : SUBSET rows]
List == [page : 0..MaxStamps, cursor : 0..stamps, filtered : BOOLEAN, next : BOOLEAN,
         seen : SUBSET rows, wanted : SUBSET rows, late : 0..MaxStamps]

FollowsLinks(r) ==
    LET q == query[r] IN q # NoQuery =>
        /\ r \notin CursorReaders
        /\ q.page >= 1
        /\ q.next <=> HasNext(q.counted, q.page)
        /\ q.opens => q.page = 1
        /\ ~q.opens => ~q.filtered /\ q.page <= list[r].page + 1

GoesOn(r) == r \notin CursorReaders /\ list[r].next => HasNext(rows, list[r].page)

Complete(r) ==
    /\ list[r].wanted \subseteq list[r].seen \cup Ahead(r)
    /\ ~list[r].next => Cardinality(list[r].wanted \ list[r].seen) <= list[r].late
    /\ list[r].next => Ahead(r) # {}

ListInv == ListTypeOK /\ \A r \in Readers : FollowsLinks(r) /\ GoesOn(r) /\ Complete(r)

LEMMA ListTypes ==
    ListTypeOK <=> /\ stamps \in 0..MaxStamps
                   /\ pending \in [Writers -> 0..stamps]
                   /\ rows \in SUBSET (1..stamps) /\ matching \in SUBSET rows
                   /\ query \in [Readers -> Query]
                   /\ list \in [Readers -> List]
BY DEF ListTypeOK, Query, List

(* Rows are finitely many numbers.                                          *)
LEMMA FiniteRows ==
    ASSUME NEW n \in 0..MaxStamps, NEW R \in SUBSET (1..n)
    PROVE  /\ R \in SUBSET Nat /\ IsFiniteSet(R) /\ Cardinality(R) \in Nat
           /\ n \in Nat /\ MaxStamps \in Nat
           /\ \A S \in SUBSET R :
                 /\ S \in SUBSET Nat /\ IsFiniteSet(S) /\ Cardinality(S) \in 0..MaxStamps
                 /\ Cardinality(S) <= Cardinality(R)
<1>1. n \in Nat /\ MaxStamps \in Nat /\ n <= MaxStamps
  BY MaxStampsAssumption
<1>2. R \in SUBSET Nat
  BY <1>1
<1>3. IsFiniteSet(1..n) /\ Cardinality(1..n) = n
  <2>1. Cardinality(1..n) = IF 1 > n THEN 0 ELSE n - 1 + 1
    BY <1>1, FS_Interval
  <2>2. QED
    BY <1>1, <2>1, FS_Interval
<1>4. /\ IsFiniteSet(R) /\ Cardinality(R) \in Nat /\ Cardinality(R) <= n
  BY <1>3, FS_Subset, FS_CardinalityType
<1>5. ASSUME NEW S \in SUBSET R
      PROVE  /\ S \in SUBSET Nat /\ IsFiniteSet(S) /\ Cardinality(S) \in 0..MaxStamps
             /\ Cardinality(S) <= Cardinality(R)
  <2>1. IsFiniteSet(S) /\ Cardinality(S) \in Nat /\ Cardinality(S) <= Cardinality(R)
    BY <1>4, FS_Subset, FS_CardinalityType
  <2>2. QED
    BY <1>1, <1>2, <1>4, <2>1
<1>6. QED
  BY <1>1, <1>2, <1>4, <1>5

LEMMA RowsAreFinite ==
    ASSUME ListTypeOK
    PROVE  /\ rows \in SUBSET Nat /\ IsFiniteSet(rows) /\ Cardinality(rows) \in Nat
           /\ stamps \in Nat /\ MaxStamps \in Nat
           /\ \A S \in SUBSET rows :
                 /\ S \in SUBSET Nat /\ IsFiniteSet(S) /\ Cardinality(S) \in 0..MaxStamps
                 /\ Cardinality(S) <= Cardinality(rows)
BY FiniteRows DEF ListTypeOK

(* A row that is inserted, or gets in or out of a filter, takes nothing     *)
(* away from a reader.                                                      *)
LEMMA MoreRowsStep ==
    ASSUME ListInv, UNCHANGED <<query, list>>, stamps' \in 0..MaxStamps, stamps <= stamps',
           rows \subseteq rows', rows' \in SUBSET (1..stamps'), matching' \in SUBSET rows',
           pending' \in [Writers -> 0..stamps']
    PROVE  ListInv'
<1>1. ListTypeOK /\ stamps \in Nat /\ rows \in SUBSET Nat
  BY RowsAreFinite DEF ListInv
<1>2. stamps' \in Nat
  BY MaxStampsAssumption
<1>3. Query \subseteq Query'
  BY DEF Query
<1>4. 0..stamps \subseteq 0..stamps'
  BY <1>1, <1>2
<1>5. List \subseteq List'
  BY <1>4 DEF List
<1>6. ListTypeOK'
  <2>1. query \in [Readers -> Query] /\ list \in [Readers -> List]
    BY <1>1, ListTypes
  <2>2. query' \in [Readers -> Query'] /\ list' \in [Readers -> List']
    BY <1>3, <1>5, <2>1
  <2>3. QED
    BY <2>2 DEF ListTypeOK, Query, List
<1>7. /\ rows' \in SUBSET Nat /\ IsFiniteSet(rows') /\ Cardinality(rows') \in Nat
      /\ IsFiniteSet(rows) /\ Cardinality(rows) \in Nat
  BY <1>1, RowsAreFinite, FiniteRows
<1>8. Cardinality(rows) <= Cardinality(rows')
  BY <1>7, FS_Subset
<1>9. \A n \in rows : Before(n, rows) \in Nat /\ Before(n, rows') \in Nat /\ Before(n, rows) <= Before(n, rows')
  BY <1>1, <1>7, BeforeBounds
<1>10. ASSUME NEW r \in Readers
       PROVE  FollowsLinks(r)' /\ GoesOn(r)' /\ Complete(r)'
  <2>1. FollowsLinks(r) /\ GoesOn(r) /\ Complete(r)
    BY DEF ListInv
  <2>2. list[r] \in List
    BY <1>1, ListTypes
  <2>3. list[r].page \in Nat
    BY <2>2, MaxStampsAssumption DEF List
  <2>4. list[r].page * PageSize \in Nat
    BY <2>3, PageBounds
  <2>5. FollowsLinks(r)'
    BY <2>1 DEF FollowsLinks
  <2>6. GoesOn(r)'
    BY <1>7, <1>8, <2>1, <2>4 DEF GoesOn, HasNext
  <2>7. Ahead(r) \subseteq Ahead(r)'
    <3>1. CASE r \in CursorReaders
      BY <3>1 DEF Ahead, Older
    <3>2. CASE r \notin CursorReaders
      <4>1. \A n \in rows : Before(n, rows) >= list[r].page * PageSize
                              => Before(n, rows') >= list[r].page * PageSize
        BY <1>9, <2>4
      <4>2. QED
        BY <3>2, <4>1 DEF Ahead
    <3>3. QED
      BY <3>1, <3>2
  <2>8. Complete(r)'
    BY <2>1, <2>7 DEF Complete
  <2>9. QED
    BY <2>5, <2>6, <2>8
<1>11. QED
  BY <1>6, <1>10 DEF ListInv

(* What is read of a list before its rows are: the count, or nothing.       *)
LEMMA QueryStep ==
    ASSUME ListInv, UNCHANGED <<stamps, pending, rows, matching, list>>,
           NEW r \in Readers, NEW q \in Query, query' = [query EXCEPT ![r] = q], FollowsLinks(r)'
    PROVE  ListInv'
<1>1. ListTypeOK /\ query \in [Readers -> Query] /\ list \in [Readers -> List]
  BY ListTypes DEF ListInv
<1>2. Query' = Query /\ List' = List
  BY DEF Query, List
<1>3. ListTypeOK'
  <2>1. query' \in [Readers -> Query'] /\ list' \in [Readers -> List']
    BY <1>1, <1>2
  <2>2. QED
    BY <1>1, <2>1 DEF ListTypeOK, Query, List
<1>4. \A u \in Readers \ {r} : query'[u] = query[u]
  BY <1>1
<1>5. \A u \in Readers : FollowsLinks(u)'
  BY <1>4 DEF FollowsLinks, ListInv
<1>6. \A u \in Readers : GoesOn(u)' /\ Complete(u)'
  BY DEF ListInv, GoesOn, Complete, Ahead, Older
<1>7. QED
  BY <1>3, <1>5, <1>6 DEF ListInv

(* A page that shows more of a list, and is not followed by nothing.        *)
LEMMA ListStep ==
    ASSUME ListInv, UNCHANGED <<stamps, pending, rows, matching>>,
           NEW r \in Readers, NEW l \in List, list' = [list EXCEPT ![r] = l],
           query' = query \/ query' = [query EXCEPT ![r] = NoQuery],
           query'[r] # NoQuery => l.page = list[r].page,
           GoesOn(r)', Complete(r)'
    PROVE  ListInv'
<1>1. ListTypeOK /\ query \in [Readers -> Query] /\ list \in [Readers -> List]
  BY ListTypes DEF ListInv
<1>2. Query' = Query /\ List' = List
  BY DEF Query, List
<1>3. NoQuery \in Query
  BY MaxStampsAssumption DEF NoQuery, Query
<1>4. ListTypeOK'
  <2>1. query' \in [Readers -> Query] /\ list' \in [Readers -> List]
    BY <1>1, <1>3
  <2>2. query' \in [Readers -> Query'] /\ list' \in [Readers -> List']
    BY <1>2, <2>1
  <2>3. QED
    BY <1>1, <2>2 DEF ListTypeOK, Query, List
<1>5. /\ list'[r] = l
      /\ \A u \in Readers \ {r} : query'[u] = query[u] /\ list'[u] = list[u]
      /\ query'[r] = query[r] \/ query'[r] = NoQuery
  BY <1>1
<1>6. ASSUME NEW u \in Readers \ {r}
      PROVE  FollowsLinks(u)' /\ GoesOn(u)' /\ Complete(u)'
  <2>1. FollowsLinks(u) /\ GoesOn(u) /\ Complete(u)
    BY DEF ListInv
  <2>2. FollowsLinks(u)' /\ GoesOn(u)'
    BY <1>5, <2>1 DEF FollowsLinks, GoesOn
  <2>3. Ahead(u)' = Ahead(u)
    BY <1>5 DEF Ahead, Older
  <2>4. Complete(u)'
    BY <1>5, <2>1, <2>3 DEF Complete
  <2>5. QED
    BY <2>2, <2>4
<1>7. FollowsLinks(r)'
  <2>1. FollowsLinks(r)
    BY DEF ListInv
  <2>2. QED
    BY <1>5, <2>1 DEF FollowsLinks
<1>8. QED
  BY <1>4, <1>6, <1>7 DEF ListInv

(* The page whose rows are counted is one a link of the list leads to.      *)
LEMMA CountStep ==
    ASSUME ListInv, NEW r \in Readers \ CursorReaders, NEW k \in 1..MaxStamps,
           NEW opens \in BOOLEAN, NEW filtered \in BOOLEAN, Count(r, k, opens, filtered),
           opens => k = 1, ~opens => ~filtered /\ k <= list[r].page + 1
    PROVE  ListInv'
<1> DEFINE S == Queried(filtered)
           q == [page |-> k, opens |-> opens, filtered |-> filtered, next |-> HasNext(S, k),
                 counted |-> S]
<1>1. ListTypeOK /\ query \in [Readers -> Query]
  BY ListTypes DEF ListInv
<1>2. S \in SUBSET rows /\ HasNext(S, k) \in BOOLEAN
  BY <1>1 DEF Queried, ListTypeOK, HasNext
<1>3. q \in Query
  BY <1>2, MaxStampsAssumption DEF Query
<1>4. query' = [query EXCEPT ![r] = q] /\ UNCHANGED <<stamps, pending, rows, matching, list>>
  BY DEF Count
<1>5. query'[r] = q /\ list' = list
  BY <1>1, <1>4
<1>6. /\ q.page = k /\ q.opens = opens /\ q.filtered = filtered
      /\ q.next = HasNext(S, k) /\ q.counted = S
  OBVIOUS
<1> HIDE DEF q, S
<1>7. FollowsLinks(r)'
  <2>1. /\ q.page >= 1 /\ (q.next <=> HasNext(q.counted, q.page)) /\ (q.opens => q.page = 1)
        /\ ~q.opens => ~q.filtered /\ q.page <= list'[r].page + 1
    BY <1>5, <1>6
  <2>2. QED
    BY <1>5, <2>1 DEF FollowsLinks
<1>8. QED
  BY <1>3, <1>4, <1>7, QueryStep

LEMMA OpenListStep ==
    ASSUME ListInv, NEW r \in Readers \ CursorReaders, NEW filtered \in BOOLEAN,
           OpenList(r, filtered)
    PROVE  ListInv'
<1>1. 1 \in 1..MaxStamps /\ TRUE \in BOOLEAN
  BY MaxStampsAssumption
<1>2. Count(r, 1, TRUE, filtered)
  BY DEF OpenList
<1>3. QED
  BY <1>1, <1>2, CountStep

LEMMA TurnPageStep ==
    ASSUME ListInv, NEW r \in Readers \ CursorReaders, TurnPage(r)
    PROVE  ListInv'
<1>1. ListTypeOK /\ list[r] \in List
  BY ListTypes DEF ListInv
<1>2. list[r].page \in 0..MaxStamps
  BY <1>1 DEF List
<1>3. MaxStamps \in Nat /\ Cardinality(rows) \in 0..MaxStamps
  BY <1>1, RowsAreFinite
<1>4. CASE list[r].next /\ Count(r, list[r].page + 1, FALSE, FilterOfLink(r))
  <2>1. HasNext(rows, list[r].page)
    BY <1>4 DEF ListInv, GoesOn
  <2>2. list[r].page * PageSize \in Nat /\ list[r].page <= list[r].page * PageSize
    <3>1. list[r].page \in Nat
      BY <1>2, <1>3
    <3>2. QED
      BY <3>1, PageBounds
  <2>3. list[r].page + 1 \in 1..MaxStamps
    BY <1>2, <1>3, <2>1, <2>2 DEF HasNext
  <2>4. list[r].page + 1 <= list[r].page + 1
    BY <2>3
  <2>5. QED
    BY <1>4, <2>3, <2>4, CountStep DEF FilterOfLink
<1>5. CASE list[r].page > 1 /\ Count(r, list[r].page - 1, FALSE, FilterOfLink(r))
  <2>1. list[r].page - 1 \in 1..MaxStamps /\ list[r].page - 1 <= list[r].page + 1
    BY <1>2, <1>3, <1>5
  <2>2. QED
    BY <1>5, <2>1, CountStep DEF FilterOfLink
<1>6. QED
  BY <1>4, <1>5 DEF TurnPage

LEMMA DropQueryStep ==
    ASSUME ListInv, NEW r \in Readers, DropQuery(r)
    PROVE  ListInv'
<1>1. NoQuery \in Query
  BY MaxStampsAssumption DEF NoQuery, Query
<1>2. query'[r] = NoQuery
  BY ListTypes DEF DropQuery, ListInv
<1>3. FollowsLinks(r)'
  BY <1>2 DEF FollowsLinks
<1>4. QED
  BY <1>1, <1>3, QueryStep DEF DropQuery

(* A list opened on rows S knows them as those it had.                      *)
LEMMA OpenedType ==
    ASSUME ListTypeOK, NEW filtered \in BOOLEAN, NEW S \in SUBSET rows
    PROVE  /\ Opened(filtered, S) \in List
           /\ Opened(filtered, S).wanted = S /\ Opened(filtered, S).seen = {}
           /\ Opened(filtered, S).cursor = 0 /\ Opened(filtered, S).late = 0
<1>1. 0 \in 0..stamps /\ 0 \in 0..MaxStamps
  BY RowsAreFinite
<1>2. QED
  BY <1>1 DEF Opened, NoList, List

(* The rows of a page: what the list still has ahead of it is what it had,  *)
(* but for the rows of the page, and the count tells whether any is left,   *)
(* except for the rows that came since.                                     *)
LEMMA ShowPageStep ==
    ASSUME ListInv, NEW r \in Readers \ CursorReaders, ShowPage(r)
    PROVE  ListInv'
<1> DEFINE q == query[r]
           S == Queried(q.filtered)
           l == IF q.opens THEN Opened(q.filtered, S) ELSE list[r]
           K == q.page * PageSize
           new == [l EXCEPT !.page = q.page, !.next = q.next, !.seen = @ \cup PageOf(S, q.page),
                            !.late = Cardinality(S \ q.counted)]
           A == {n \in rows : Before(n, rows) >= K}
<1>1. /\ ListTypeOK /\ query \in [Readers -> Query] /\ list \in [Readers -> List]
      /\ FollowsLinks(r) /\ GoesOn(r) /\ Complete(r)
  BY ListTypes DEF ListInv
<1>2. /\ q \in Query /\ list[r] \in List /\ q # NoQuery
      /\ list' = [list EXCEPT ![r] = new] /\ query' = [query EXCEPT ![r] = NoQuery]
      /\ UNCHANGED <<stamps, pending, rows, matching>>
  BY <1>1 DEF ShowPage
<1>3. /\ S \in SUBSET rows /\ q.counted \in SUBSET rows /\ q.filtered \in BOOLEAN
      /\ q.page \in 0..MaxStamps /\ q.next \in BOOLEAN
  BY <1>1, <1>2 DEF Queried, ListTypeOK, Query
<1>4. /\ rows \in SUBSET Nat /\ IsFiniteSet(rows) /\ Cardinality(rows) \in Nat /\ MaxStamps \in Nat
      /\ S \in SUBSET Nat /\ IsFiniteSet(S) /\ Cardinality(S) \in Nat
      /\ IsFiniteSet(q.counted) /\ Cardinality(q.counted) \in Nat
      /\ Cardinality(q.counted) <= Cardinality(rows)
  <2>1. \A R \in SUBSET rows : /\ R \in SUBSET Nat /\ IsFiniteSet(R)
                               /\ Cardinality(R) <= Cardinality(rows)
    BY <1>1, RowsAreFinite
  <2>2. QED
    BY <1>1, <1>3, <2>1, RowsAreFinite, FS_CardinalityType
<1>5. /\ q.page >= 1 /\ (q.next <=> HasNext(q.counted, q.page)) /\ (q.opens => q.page = 1)
      /\ ~q.opens => ~q.filtered /\ q.page <= list[r].page + 1
  BY <1>1, <1>2 DEF FollowsLinks
<1>6. l \in List /\ (q.opens => l.wanted = S /\ l.seen = {}) /\ (~q.opens => l = list[r] /\ S = rows)
  BY <1>1, <1>2, <1>3, <1>5, OpenedType DEF Queried
<1>7. S \ q.counted \in SUBSET rows /\ PageOf(S, q.page) \in SUBSET rows
  BY <1>3 DEF PageOf
<1>8. Cardinality(S \ q.counted) \in 0..MaxStamps
  BY <1>1, <1>7, RowsAreFinite
<1>9. /\ new \in List /\ new.page = q.page /\ new.next = q.next /\ new.wanted = l.wanted
      /\ new.seen = l.seen \cup PageOf(S, q.page) /\ new.late = Cardinality(S \ q.counted)
  <2> HIDE DEF l, q, S
  <2>1. l.seen \in SUBSET rows
    BY <1>6 DEF List
  <2>2. l.seen \cup PageOf(S, q.page) \in SUBSET rows
    BY <1>7, <2>1
  <2>3. QED
    BY <1>3, <1>6, <1>8, <2>2 DEF List
<1>10. K \in Nat /\ q.page \in Nat
  BY <1>3, <1>4, PageBounds
<1> HIDE DEF new, l, K
<1>11. list'[r] = new /\ query'[r] = NoQuery
  BY <1>1, <1>2
<1>12. Ahead(r)' = A
  BY <1>2, <1>9, <1>11 DEF Ahead, K
<1>13. \A n \in S : /\ Before(n, S) \in Nat /\ Before(n, rows) \in Nat
                    /\ Before(n, S) <= Before(n, rows)
  BY <1>3, <1>4, BeforeBounds
<1>14. ASSUME NEW n \in new.wanted, n \notin new.seen
       PROVE  n \in S /\ Before(n, S) >= K
  <2>1. CASE q.opens
    <3>1. n \in S /\ n \notin PageOf(S, 1) /\ K = PageSize /\ q.page = 1
      BY <1>5, <1>6, <1>9, <1>14, <2>1, PageBounds DEF K
    <3>2. ~(Before(n, S) < PageSize)
      BY <1>4, <3>1, PageEnds
    <3>3. QED
      BY <1>13, <3>1, <3>2, PageBounds
  <2>2. CASE ~q.opens
    <3>1. n \in rows /\ S = rows /\ n \in Ahead(r) /\ n \notin PageOf(S, q.page)
      BY <1>1, <1>6, <1>9, <1>14, <2>2 DEF Complete, Ahead
    <3>2. Before(n, rows) >= list[r].page * PageSize
      BY <3>1 DEF Ahead
    <3>3. list[r].page \in Nat
      BY <1>2, <1>4 DEF List
    <3>4. PICK j \in Nat : j + 1 = q.page /\ j <= list[r].page
      BY <1>5, <1>10, <2>2, <3>3
    <3>5. j * PageSize <= list[r].page * PageSize
      BY <3>3, <3>4, PageSizeAssumption
    <3>6. j * PageSize \in Nat /\ list[r].page * PageSize \in Nat
      BY <3>3, <3>4, PageBounds
    <3>7. j * PageSize <= Before(n, S)
      BY <1>13, <3>1, <3>2, <3>5, <3>6
    <3>8. n \in PageOf(S, j + 1) \/ (j + 1) * PageSize <= Before(n, S)
      BY <1>4, <3>1, <3>4, <3>7, PageEnds
    <3>9. (j + 1) * PageSize = K
      BY <3>4 DEF K
    <3>10. K <= Before(n, S)
      BY <3>1, <3>4, <3>8, <3>9
    <3>11. QED
      BY <1>10, <1>13, <3>1, <3>10
  <2>3. QED
    BY <2>1, <2>2
<1>15. new.wanted \subseteq new.seen \cup A
  <2>1. ASSUME NEW n \in new.wanted, n \notin new.seen
        PROVE  n \in A
    <3>1. n \in S /\ Before(n, S) >= K
      BY <1>14, <2>1
    <3>2. Before(n, rows) >= K
      BY <1>10, <1>13, <3>1
    <3>3. QED
      BY <1>3, <3>1, <3>2
  <2>2. QED
    BY <2>1
<1>16. ASSUME ~new.next
       PROVE  Cardinality(new.wanted \ new.seen) <= new.late
  <2> DEFINE B == {n \in S : Before(n, S) >= K}
             D == new.wanted \ new.seen
  <2>1. D \subseteq B /\ B \in SUBSET S
    BY <1>14
  <2> HIDE DEF B, D
  <2>2. /\ IsFiniteSet(B) /\ Cardinality(B) \in Nat
        /\ B # {} => Cardinality(B) + K <= Cardinality(S)
    BY <1>4, <1>10, RowsAfter DEF B
  <2>3. IsFiniteSet(D) /\ Cardinality(D) \in Nat /\ Cardinality(D) <= Cardinality(B)
    BY <2>1, <2>2, FS_Subset, FS_CardinalityType
  <2>4. ~(Cardinality(q.counted) > K)
    BY <1>5, <1>9, <1>16 DEF HasNext, K
  <2>5. /\ Cardinality(S \ q.counted) = Cardinality(S) - Cardinality(S \cap q.counted)
        /\ Cardinality(S \cap q.counted) <= Cardinality(q.counted)
        /\ Cardinality(S \cap q.counted) \in Nat
    BY <1>4, FS_Difference, FS_Intersection, FS_CardinalityType
  <2>6. B = {} => Cardinality(D) = 0
    BY <2>1, FS_EmptySet
  <2>7. Cardinality(S \ q.counted) \in Nat
    BY <1>4, <1>8
  <2>8. Cardinality(D) <= Cardinality(S \ q.counted)
    BY <1>4, <1>10, <2>2, <2>3, <2>4, <2>5, <2>6, <2>7
  <2>9. QED
    BY <1>9, <2>8 DEF D
<1>17. new.next => HasNext(rows, q.page) /\ A # {}
  <2>1. new.next => Cardinality(q.counted) > K
    BY <1>5, <1>9 DEF HasNext, K
  <2>2. new.next => Cardinality(rows) > K
    BY <1>4, <1>10, <2>1
  <2>3. Cardinality(rows) > K => A # {}
    BY <1>4, <1>10, RowsAfter
  <2>4. QED
    BY <2>2, <2>3 DEF HasNext, K
<1>18. Complete(r)'
  <2> HIDE DEF A, q, S
  <2>1. QED
    BY <1>11, <1>12, <1>15, <1>16, <1>17 DEF Complete
<1>19. GoesOn(r)'
  <2> HIDE DEF A, q, S
  <2>1. rows' = rows
    BY <1>2
  <2>2. QED
    BY <1>9, <1>11, <1>17, <2>1 DEF GoesOn, HasNext
<1>20. QED
  <2> HIDE DEF A, q, S
  <2>1. QED
    BY <1>2, <1>9, <1>11, <1>18, <1>19, ListStep

(* A page of the audit log: a list that has shown, or has ahead, all it     *)
(* wants, has so after a page of what is ahead.                             *)
LEMMA ShowEventsStep ==
    ASSUME ListInv, NEW r \in CursorReaders, NEW l \in List, NEW S \in SUBSET rows,
           ShowEvents(r, l, S), l.wanted \subseteq l.seen \cup S,
           S = {} => l.wanted \subseteq l.seen
    PROVE  ListInv'
<1> DEFINE P == PageOf(S, 1)
           new == [l EXCEPT !.next = HasNext(S, 1), !.seen = @ \cup P,
                            !.cursor = IF P = {} THEN @ ELSE Oldest(P)]
<1>1. ListTypeOK /\ list \in [Readers -> List] /\ r \in Readers
  BY ListTypes, CursorReadersAssumption DEF ListInv
<1>2. /\ list' = [list EXCEPT ![r] = new] /\ query' = query
      /\ UNCHANGED <<stamps, pending, rows, matching>>
  BY DEF ShowEvents
<1>3. /\ S \in SUBSET Nat /\ IsFiniteSet(S) /\ Cardinality(S) \in Nat
      /\ rows \in SUBSET (1..stamps) /\ stamps \in Nat /\ MaxStamps \in Nat
  <2>1. \A R \in SUBSET rows : R \in SUBSET Nat /\ IsFiniteSet(R)
    BY <1>1, RowsAreFinite
  <2>2. QED
    BY <1>1, <2>1, RowsAreFinite, FS_CardinalityType DEF ListTypeOK
<1>4. P \in SUBSET S /\ HasNext(S, 1) \in BOOLEAN
  BY DEF PageOf, HasNext
<1>5. S # {} => /\ P # {} /\ Oldest(P) \in P
                /\ S \ P \subseteq Older(S, Oldest(P))
                /\ HasNext(S, 1) => S \ P # {}
  BY <1>3, CursorPage, PageEnds
<1>6. ~HasNext(S, 1) => P = S
  BY <1>3, PageEnds
<1>7. HasNext(S, 1) => S # {}
  <2>1. S = {} => Cardinality(S) = 0
    BY FS_EmptySet
  <2>2. QED
    BY <2>1, PageBounds DEF HasNext
<1> HIDE DEF P
<1>8. l.seen \in SUBSET rows /\ l.cursor \in 0..stamps /\ l.late \in Nat
  BY <1>3 DEF List
<1>9. l.seen \cup P \in SUBSET rows
  BY <1>4, <1>8
<1>10. (IF P = {} THEN l.cursor ELSE Oldest(P)) \in 0..stamps
  <2>1. P # {} => Oldest(P) \in rows
    BY <1>4, <1>5
  <2>2. rows \subseteq 0..stamps
    BY <1>3
  <2>3. P # {} => Oldest(P) \in 0..stamps
    BY <2>1, <2>2
  <2>4. QED
    BY <1>8, <2>3
<1>11. /\ new \in List /\ new.next = HasNext(S, 1) /\ new.seen = l.seen \cup P
       /\ new.wanted = l.wanted /\ new.late = l.late /\ new.page = l.page
       /\ new.cursor = IF P = {} THEN l.cursor ELSE Oldest(P)
  BY <1>4, <1>9, <1>10 DEF List
<1> HIDE DEF new
<1>12. list'[r] = new
  BY <1>1, <1>2
<1>13. Ahead(r)' = Older(rows, new.cursor)
  BY <1>2, <1>12 DEF Ahead, Older
<1>14. S # {} => S \ P \subseteq Older(rows, new.cursor)
  BY <1>5, <1>11 DEF Older
<1>15. new.wanted \subseteq new.seen \cup Older(rows, new.cursor)
  BY <1>11, <1>14
<1>16. ~new.next => Cardinality(new.wanted \ new.seen) <= new.late
  <2>1. ~new.next => new.wanted \ new.seen = {}
    BY <1>6, <1>11
  <2>2. QED
    BY <1>8, <1>11, <2>1, FS_EmptySet
<1>17. new.next => Older(rows, new.cursor) # {}
  BY <1>5, <1>7, <1>11, <1>14
<1>18. Complete(r)'
  BY <1>12, <1>13, <1>15, <1>16, <1>17 DEF Complete
<1>19. GoesOn(r)'
  BY DEF GoesOn
<1>20. query'[r] = NoQuery
  BY <1>1, <1>2 DEF ListInv, FollowsLinks
<1>21. QED
  BY <1>1, <1>2, <1>11, <1>18, <1>19, <1>20, ListStep

LEMMA OpenLogStep ==
    ASSUME ListInv, NEW r \in CursorReaders, NEW filtered \in BOOLEAN, OpenLog(r, filtered)
    PROVE  ListInv'
<1> DEFINE S == Queried(filtered)
           l == Opened(filtered, S)
<1>1. S \in SUBSET rows
  BY DEF Queried, ListInv, ListTypeOK
<1>2. ShowEvents(r, l, S)
  BY DEF OpenLog
<1> HIDE DEF S
<1>3. l \in List /\ l.wanted = S
  BY <1>1, OpenedType DEF ListInv
<1> HIDE DEF l
<1>4. QED
  BY <1>1, <1>2, <1>3, ShowEventsStep

LEMMA OlderEventsStep ==
    ASSUME ListInv, NEW r \in CursorReaders, OlderEvents(r)
    PROVE  ListInv'
<1> DEFINE S == Older(rows, list[r].cursor)
<1>1. ListTypeOK /\ list[r] \in List
  BY ListTypes, CursorReadersAssumption DEF ListInv
<1>2. S \in SUBSET rows /\ S = Ahead(r)
  BY DEF Older, Ahead
<1>3. ShowEvents(r, list[r], S)
  BY DEF OlderEvents, FilterOfLink, Queried
<1>4. list[r].wanted \subseteq list[r].seen \cup Ahead(r)
  BY CursorReadersAssumption DEF ListInv, Complete
<1> HIDE DEF S
<1>5. QED
  BY <1>1, <1>2, <1>3, <1>4, ShowEventsStep

(* The lists keep their promise in every step.                              *)
LEMMA ListInvStep ==
    ASSUME ListInv, [ListNext]_listVars
    PROVE  ListInv'
<1>0. /\ ListTypeOK /\ stamps \in Nat /\ MaxStamps \in Nat
      /\ stamps \in 0..MaxStamps /\ rows \in SUBSET (1..stamps) /\ matching \in SUBSET rows
      /\ pending \in [Writers -> 0..stamps]
  BY RowsAreFinite DEF ListInv, ListTypeOK
<1>1. ASSUME NEW w \in Writers, Save(w)
      PROVE  ListInv'
  <2>1. /\ stamps' = stamps + 1 /\ stamps < MaxStamps
        /\ UNCHANGED <<rows, matching, query, list>>
    BY <1>1 DEF Save
  <2>2. /\ stamps' \in 0..MaxStamps /\ stamps <= stamps' /\ 1..stamps \subseteq 1..stamps'
        /\ 0..stamps \subseteq 0..stamps' /\ stamps + 1 \in 0..stamps'
    BY <1>0, <2>1
  <2>3. pending' \in [Writers -> 0..stamps']
    BY <1>0, <1>1, <2>2 DEF Save
  <2>4. rows' \in SUBSET (1..stamps') /\ matching' \in SUBSET rows'
    BY <1>0, <2>1, <2>2
  <2>5. QED
    BY <2>1, <2>2, <2>3, <2>4, MoreRowsStep
<1>2. ASSUME NEW w \in Writers, CommitRow(w)
      PROVE  ListInv'
  <2>1. /\ pending[w] # 0 /\ rows' = rows \cup {pending[w]}
        /\ matching' \in {matching, matching \cup {pending[w]}}
        /\ pending' = [pending EXCEPT ![w] = 0] /\ UNCHANGED <<stamps, query, list>>
    BY <1>2 DEF CommitRow
  <2>2. pending[w] \in 1..stamps /\ 0 \in 0..stamps
    BY <1>0, <2>1
  <2>3. pending' \in [Writers -> 0..stamps'] /\ rows' \in SUBSET (1..stamps')
    BY <1>0, <2>1, <2>2
  <2>4. matching' \in SUBSET rows' /\ rows \subseteq rows'
    BY <1>0, <2>1
  <2>5. stamps' \in 0..MaxStamps /\ stamps <= stamps'
    BY <1>0, <2>1
  <2>6. QED
    BY <2>1, <2>3, <2>4, <2>5, MoreRowsStep
<1>3. ASSUME NEW n \in 1..MaxStamps, ChangeStatus(n)
      PROVE  ListInv'
  <2>1. /\ n \in rows /\ UNCHANGED <<stamps, pending, rows, query, list>>
        /\ matching' \in {matching \ {n}, matching \cup {n}}
    BY <1>3 DEF ChangeStatus
  <2>2. matching' \in SUBSET rows'
    BY <1>0, <2>1
  <2>3. stamps <= stamps'
    BY <1>0, <2>1
  <2>4. QED
    BY <1>0, <2>1, <2>2, <2>3, MoreRowsStep
<1>4. ASSUME NEW r \in Readers \ CursorReaders, ReadList(r)
      PROVE  ListInv'
  BY <1>4, OpenListStep, TurnPageStep, ShowPageStep, DropQueryStep DEF ReadList
<1>5. ASSUME NEW r \in CursorReaders, ReadLog(r)
      PROVE  ListInv'
  BY <1>5, OpenLogStep, OlderEventsStep DEF ReadLog
<1>6. CASE UNCHANGED listVars
  BY <1>6 DEF listVars, ListInv, ListTypeOK, FollowsLinks, GoesOn, Complete, Ahead, Older
<1>7. QED
  BY <1>1, <1>2, <1>3, <1>4, <1>5, <1>6 DEF ListNext

LEMMA ListInvInit ==
    ASSUME ListInit
    PROVE  ListInv
<1>1. NoList \in List /\ NoQuery \in Query
  BY MaxStampsAssumption DEF ListInit, NoList, List, NoQuery, Query
<1>2. ListTypeOK
  BY <1>1, MaxStampsAssumption, ListTypes DEF ListInit
<1>3. ASSUME NEW r \in Readers
      PROVE  FollowsLinks(r) /\ GoesOn(r) /\ Complete(r)
  <2>1. query[r] = NoQuery /\ list[r] = NoList
    BY DEF ListInit
  <2>2. ~list[r].next /\ list[r].wanted = {} /\ list[r].late = 0
    BY <2>1 DEF NoList
  <2>3. list[r].wanted \ list[r].seen = {}
    BY <2>2
  <2>4. Cardinality(list[r].wanted \ list[r].seen) <= list[r].late
    BY <2>2, <2>3, FS_EmptySet
  <2>5. QED
    BY <2>1, <2>2, <2>4 DEF FollowsLinks, GoesOn, Complete
<1>4. QED
  BY <1>2, <1>3 DEF ListInv

LEMMA ListsInductive == ListSpec => []ListInv
<1>1. ListInit => ListInv
  BY ListInvInit
<1>2. ListInv /\ [ListNext]_listVars => ListInv'
  BY ListInvStep
<1>3. QED
  BY <1>1, <1>2, PTL DEF ListSpec

(* The lists and what windows know of them keep their types.                *)
THEOREM ListTypeCorrect == ListSpec => []ListTypeOK
<1>1. ListInv => ListTypeOK
  BY DEF ListInv
<1>2. QED
  BY <1>1, ListsInductive, PTL

(* A reader that follows the links of a list, by page number or by cursor,  *)
(* loses no row the list had when it was opened, whatever is inserted or    *)
(* changed meanwhile, but for the rows that came between the two statements *)
(* of its last page.                                                        *)
THEOREM ListsAreComplete == ListSpec => []NothingIsSkipped
<1>1. ListInv => NothingIsSkipped
  BY DEF ListInv, Complete, NothingIsSkipped
<1>2. QED
  BY <1>1, ListsInductive, PTL

----------------------------------------------------------------------------
(* The overview.  What was counted is held against the table as it is now: *)
(* rows that are counted stay where their number says, or farther on, and   *)
(* so the next statement finds them there.                                 *)

NumbersArePast ==
    /\ \A n \in DOMAIN counted : \A i \in counted[n] : standing[i] # Absent
    /\ service = "policy" =>
          \A i \in Items \ fresh : standing[i] = "active" =>
              \A n \in 1..3 : n <= Len(counted) => i \in counted[n]
    /\ service = "claims" =>
          \A i \in Number(1) \ astray : standing[i] = "resolved"
    /\ service = "notification" =>
          /\ \A i \in Number(1) \ astray : standing[i] = "sent"
          /\ \A i \in Number(1) \cup Number(2) : standing[i] \in {"sent", "failed"}

OverviewInv == OverviewTypeOK /\ NumbersArePast /\ NothingCountsTwice /\ PartsAreInTheirWhole

(* The tables by service, written out.                                      *)
LEMMA Tables ==
    /\ Standing["policy"] = {"active", "inactive"}
    /\ Standing["claims"] = {"open", "resolved"}
    /\ Standing["notification"] = {"pending", "sent", "failed"}
    /\ First["policy"] = "active" /\ First["claims"] = "open" /\ First["notification"] = "pending"
    /\ Forward["policy"] \cup Backward["policy"] = {<<"active", "inactive">>}
    /\ Backward["policy"] = {}
    /\ Backward["claims"] = {<<"resolved", "open">>}
    /\ Backward["notification"] = {<<"sent", "failed">>}
    /\ Forward["claims"] \cup Backward["claims"] = {<<"open", "resolved">>, <<"resolved", "open">>}
    /\ Forward["notification"] \cup Backward["notification"] =
          {<<"pending", "sent">>, <<"pending", "failed">>, <<"failed", "sent">>, <<"sent", "failed">>}
BY DEF Standing, First, Forward, Backward

(* No service has Absent for a status.                                      *)
LEMMA AbsentIsNoStatus ==
    Absent \notin {"active", "inactive", "open", "resolved", "pending", "sent", "failed"}
BY AbsentAssumption, Tables DEF Services

(* A row that is inserted was in no number, and is not an old row.          *)
LEMMA InsertKeepsNumbers ==
    ASSUME OverviewInv, NEW i \in Items, InsertRow(i)
    PROVE  OverviewInv'
<1>1. /\ service \in Services /\ standing \in [Items -> Standing[service] \cup {Absent}]
      /\ fresh \in SUBSET Items
  BY DEF OverviewInv, OverviewTypeOK
<1>2. /\ standing[i] = Absent /\ standing' = [standing EXCEPT ![i] = First[service]]
      /\ fresh' = fresh \cup {i} /\ service' = service /\ counted' = counted /\ astray' = astray
  BY DEF InsertRow
<1>3. First[service] \in Standing[service]
  BY <1>1, Tables DEF Services
<1>4. /\ standing'[i] = First[service] /\ First[service] # Absent
      /\ \A j \in Items \ {i} : standing'[j] = standing[j]
  BY <1>1, <1>2, <1>3, AbsentAssumption
<1>5. OverviewTypeOK'
  BY <1>1, <1>2, <1>3 DEF OverviewInv, OverviewTypeOK
<1>6. \A n \in DOMAIN counted : i \notin counted[n] /\ counted[n] \subseteq Items
  BY <1>2 DEF OverviewInv, OverviewTypeOK, NumbersArePast
<1>7. \A n : Number(n)' = Number(n)
  BY <1>2 DEF Number
<1>8. \A n \in {1, 2} : i \notin Number(n) /\ Number(n) \subseteq Items
  <2>1. \A n \in {1, 2} : n <= Len(counted) => n \in DOMAIN counted
    BY DEF OverviewInv, OverviewTypeOK
  <2>2. QED
    BY <1>6, <2>1 DEF Number
<1>9. NumbersArePast'
  <2>1. \A n \in DOMAIN counted : \A j \in counted[n] : standing'[j] # Absent
    BY <1>4, <1>6 DEF OverviewInv, NumbersArePast
  <2>2. \A j \in Items \ fresh' : standing'[j] = standing[j] /\ j \in Items \ fresh
    BY <1>2, <1>4
  <2>3. \A n \in {1, 2} : \A j \in Number(n) : standing'[j] = standing[j]
    BY <1>4, <1>8
  <2>4. service = "policy" =>
          \A j \in Items \ fresh' : standing'[j] = "active" =>
              \A n \in 1..3 : n <= Len(counted) => j \in counted[n]
    BY <2>2 DEF OverviewInv, NumbersArePast
  <2>5. service = "claims" => \A j \in Number(1) \ astray : standing'[j] = "resolved"
    BY <2>3 DEF OverviewInv, NumbersArePast
  <2>6. service = "notification" =>
          /\ \A j \in Number(1) \ astray : standing'[j] = "sent"
          /\ \A j \in Number(1) \cup Number(2) : standing'[j] \in {"sent", "failed"}
    BY <2>3 DEF OverviewInv, NumbersArePast
  <2>7. QED
    BY <1>2, <1>7, <2>1, <2>4, <2>5, <2>6 DEF NumbersArePast
<1>10. NothingCountsTwice'
  BY <1>2, <1>7 DEF OverviewInv, NothingCountsTwice
<1>11. PartsAreInTheirWhole'
  BY <1>2, <1>7 DEF OverviewInv, PartsAreInTheirWhole, AllCounted
<1>12. QED
  BY <1>5, <1>9, <1>10, <1>11 DEF OverviewInv

(* A row that moves goes on, or is known to have gone back.                 *)
LEMMA MoveKeepsNumbers ==
    ASSUME OverviewInv, NEW i \in Items, NEW to \in Standing[service], MoveRow(i, to)
    PROVE  OverviewInv'
<1>1. /\ service \in Services /\ standing \in [Items -> Standing[service] \cup {Absent}]
      /\ astray \in SUBSET Items
  BY DEF OverviewInv, OverviewTypeOK
<1>2. /\ <<standing[i], to>> \in Forward[service] \cup Backward[service]
      /\ standing' = [standing EXCEPT ![i] = to]
      /\ service' = service /\ counted' = counted /\ fresh' = fresh
      /\ astray \subseteq astray' /\ astray' \in SUBSET Items
      /\ <<standing[i], to>> \in Backward[service] => i \in astray'
  BY <1>1 DEF MoveRow
<1>3. /\ standing'[i] = to /\ to # Absent
      /\ \A j \in Items \ {i} : standing'[j] = standing[j]
  BY <1>1, <1>2, AbsentAssumption
<1>4. OverviewTypeOK'
  BY <1>1, <1>2 DEF OverviewInv, OverviewTypeOK
<1>5. \A n \in DOMAIN counted : counted[n] \subseteq Items
  BY DEF OverviewInv, OverviewTypeOK
<1>6. \A n : Number(n)' = Number(n)
  BY <1>2 DEF Number
<1>7. \A n \in {1, 2} : Number(n) \subseteq Items
  <2>1. \A n \in {1, 2} : n <= Len(counted) => n \in DOMAIN counted
    BY DEF OverviewInv, OverviewTypeOK
  <2>2. QED
    BY <1>5, <2>1 DEF Number
<1>8. NumbersArePast'
  <2>1. \A n \in DOMAIN counted : \A j \in counted[n] : standing'[j] # Absent
    BY <1>3, <1>5 DEF OverviewInv, NumbersArePast
  <2>2. service = "policy" =>
          \A j \in Items \ fresh : standing'[j] = "active" => standing[j] = "active"
    BY <1>2, <1>3, Tables
  <2>3. service = "claims" => \A j \in Number(1) \ astray' : standing'[j] = "resolved"
    <3>1. service = "claims" /\ standing[i] = "resolved" => i \in astray'
      BY <1>2, Tables
    <3>2. QED
      BY <1>2, <1>3, <1>7, <3>1 DEF OverviewInv, NumbersArePast
  <2>4. service = "notification" =>
          /\ \A j \in Number(1) \ astray' : standing'[j] = "sent"
          /\ \A j \in Number(1) \cup Number(2) : standing'[j] \in {"sent", "failed"}
    <3>1. service = "notification" =>
            /\ standing[i] = "sent" => i \in astray'
            /\ to \in {"sent", "failed"}
      BY <1>2, Tables
    <3>2. QED
      BY <1>2, <1>3, <1>7, <3>1 DEF OverviewInv, NumbersArePast
  <2>5. service = "policy" =>
          \A j \in Items \ fresh : standing'[j] = "active" =>
              \A n \in 1..3 : n <= Len(counted) => j \in counted[n]
    BY <2>2 DEF OverviewInv, NumbersArePast
  <2>6. QED
    BY <1>2, <1>6, <2>1, <2>3, <2>4, <2>5 DEF NumbersArePast
<1>9. NothingCountsTwice'
  BY <1>2, <1>6 DEF OverviewInv, NothingCountsTwice
<1>10. PartsAreInTheirWhole'
  BY <1>2, <1>6 DEF OverviewInv, PartsAreInTheirWhole, AllCounted
<1>11. QED
  BY <1>4, <1>8, <1>9, <1>10 DEF OverviewInv

(* The numbers of each service and how many they are.                       *)
LEMMA NumbersOfServices ==
    /\ Numbers["policy"] = PolicyNumbers /\ Len(PolicyNumbers) = 4
    /\ Numbers["claims"] = ClaimNumbers /\ Len(ClaimNumbers) = 3
    /\ Numbers["notification"] = NotificationNumbers /\ Len(NotificationNumbers) = 4
BY DEF Numbers, PolicyNumbers, ClaimNumbers, NotificationNumbers

(* What a statement finds is held against what was found before.            *)
LEMMA StatementKeepsNumbers ==
    ASSUME OverviewInv, Statement
    PROVE  OverviewInv'
<1> DEFINE k == Len(counted) + 1
           found == {i \in Items : standing[i] \in Numbers[service][k]}
<1>1. /\ service \in Services /\ standing \in [Items -> Standing[service] \cup {Absent}]
      /\ counted \in Seq(SUBSET Items) /\ Len(counted) \in Nat
  BY DEF OverviewInv, OverviewTypeOK
<1>2. /\ Len(counted) < Len(Numbers[service]) /\ counted' = Append(counted, found)
      /\ service' = service /\ standing' = standing /\ fresh' = fresh /\ astray' = astray
  BY DEF Statement
<1>3. found \in SUBSET Items /\ k \in Nat /\ Len(counted) = k - 1
  BY <1>1
<1> HIDE DEF found, k
<1>4. /\ counted' \in Seq(SUBSET Items) /\ Len(counted') = k
      /\ DOMAIN counted = 1..(k - 1) /\ DOMAIN counted' = 1..k
      /\ counted'[k] = found
      /\ \A n \in 1..(k - 1) : counted'[n] = counted[n]
  BY <1>1, <1>2, <1>3 DEF k
<1>5. OverviewTypeOK'
  <2>1. Len(Numbers[service]) \in Nat
    BY <1>1, NumbersOfServices DEF Services
  <2>2. k <= Len(Numbers[service])
    BY <1>2, <1>3, <2>1
  <2>3. QED
    BY <1>1, <1>2, <1>4, <2>2 DEF OverviewInv, OverviewTypeOK
<1>6. ASSUME NEW n \in 1..4
      PROVE  /\ n < k => n \in DOMAIN counted /\ Number(n)' = counted[n] /\ Number(n) = counted[n]
             /\ n = k => Number(n)' = found
             /\ n > k => Number(n)' = {}
  <2>1. CASE n < k
    <3>1. n \in 1..(k - 1) /\ n <= Len(counted) /\ n <= Len(counted')
      BY <1>3, <1>4, <2>1
    <3>2. QED
      BY <1>3, <1>4, <2>1, <3>1 DEF Number
  <2>2. CASE n >= k
    <3>1. n = k => n <= Len(counted')
      BY <1>4
    <3>2. n > k => ~(n <= Len(counted'))
      BY <1>3, <1>4
    <3>3. QED
      BY <1>3, <1>4, <2>2, <3>1, <3>2 DEF Number
  <2>3. QED
    BY <1>3, <2>1, <2>2
<1>7. CASE service = "policy"
  <2>1. k \in 1..4
    BY <1>1, <1>2, <1>3, <1>7, NumbersOfServices
  <2>2. found = IF k = 4 THEN {i \in Items : standing[i] \in {"active", "inactive"}}
                ELSE {i \in Items : standing[i] = "active"}
    BY <1>7, <2>1, NumbersOfServices DEF found, PolicyNumbers
  <2>3. \A i \in found : standing[i] # Absent
    BY <2>1, <2>2, AbsentIsNoStatus
  <2>4. \A n \in 1..k : \A i \in counted'[n] : standing[i] # Absent
    BY <1>3, <1>4, <2>3 DEF OverviewInv, NumbersArePast
  <2>5. \A i \in Items \ fresh : standing[i] = "active" =>
            \A n \in 1..3 : n <= k => i \in counted'[n]
    <3>1. \A i \in Items \ fresh : standing[i] = "active" =>
            \A n \in 1..3 : n <= Len(counted) => i \in counted[n]
      BY <1>7 DEF OverviewInv, NumbersArePast
    <3>2. k \in 1..3 => \A i \in Items : standing[i] = "active" => i \in found
      BY <2>2
    <3>3. QED
      BY <1>3, <1>4, <3>1, <3>2
  <2>6. NumbersArePast'
    BY <1>2, <1>4, <1>7, <2>4, <2>5 DEF NumbersArePast
  <2>7. PartsAreInTheirWhole'
    <3>1. \A i \in Items : standing[i] \in {"active", "inactive", Absent}
      BY <1>1, <1>7, Tables
    <3>2. Number(3)' \ fresh \subseteq Number(2)'
      <4>1. CASE k = 3
        <5>1. Number(3)' = found /\ Number(2)' = counted'[2]
          BY <1>4, <1>6, <4>1
        <5>2. QED
          BY <2>2, <2>5, <4>1, <5>1
      <4>2. CASE k < 3
        BY <1>6, <2>1, <4>2
      <4>3. CASE k = 4
        BY <1>6, <1>7, <4>3 DEF OverviewInv, PartsAreInTheirWhole
      <4>4. QED
        BY <2>1, <4>1, <4>2, <4>3
    <3>3. Number(2)' \ fresh \subseteq Number(1)'
      <4>1. CASE k = 2
        <5>1. Number(2)' = found /\ Number(1)' = counted'[1]
          BY <1>4, <1>6, <4>1
        <5>2. QED
          BY <2>2, <2>5, <4>1, <5>1
      <4>2. CASE k < 2
        BY <1>6, <2>1, <4>2
      <4>3. CASE k > 2
        BY <1>6, <1>7, <2>1, <4>3 DEF OverviewInv, PartsAreInTheirWhole
      <4>4. QED
        BY <2>1, <4>1, <4>2, <4>3
    <3>4. k = 4 => Number(3)' \subseteq Number(4)'
      <4>1. k = 4 => Number(3)' = counted[3] /\ 3 \in DOMAIN counted /\ Number(4)' = found
        BY <1>6
      <4>2. k = 4 => \A i \in counted[3] : i \in Items /\ standing[i] # Absent
        BY <1>1, <4>1 DEF OverviewInv, NumbersArePast
      <4>3. QED
        BY <2>2, <3>1, <4>1, <4>2
    <3>5. AllCounted' => k = 4
      BY <1>2, <1>4, <1>7, NumbersOfServices DEF AllCounted
    <3>6. QED
      BY <1>2, <1>7, <3>2, <3>3, <3>4, <3>5 DEF PartsAreInTheirWhole
  <2>8. NothingCountsTwice'
    BY <1>2, <1>7 DEF NothingCountsTwice
  <2>9. QED
    BY <1>5, <2>6, <2>7, <2>8 DEF OverviewInv
<1>8. CASE service = "claims"
  <2>1. k \in 1..3
    BY <1>1, <1>2, <1>3, <1>8, NumbersOfServices
  <2>2. /\ k = 1 => found = {i \in Items : standing[i] = "resolved"}
        /\ k = 2 => found = {i \in Items : standing[i] = "open"}
        /\ k = 3 => found = {i \in Items : standing[i] \in {"open", "resolved"}}
    BY <1>8, NumbersOfServices DEF found, ClaimNumbers
  <2>3. \A i \in found : standing[i] # Absent
    BY <2>1, <2>2, AbsentIsNoStatus
  <2>4. \A n \in 1..k : \A i \in counted'[n] : standing[i] # Absent
    BY <1>3, <1>4, <2>3 DEF OverviewInv, NumbersArePast
  <2>5. \A i \in Number(1)' \ astray : standing[i] = "resolved"
    <3>1. CASE k = 1
      BY <1>6, <2>2, <3>1
    <3>2. CASE k > 1
      <4>1. Number(1)' = Number(1)
        BY <1>6, <2>1, <3>2
      <4>2. QED
        BY <1>8, <4>1 DEF OverviewInv, NumbersArePast
    <3>3. QED
      BY <2>1, <3>1, <3>2
  <2>6. NumbersArePast'
    BY <1>2, <1>4, <1>8, <2>4, <2>5 DEF NumbersArePast
  <2>7. NothingCountsTwice'
    <3>1. Number(1)' \cap Number(2)' \subseteq astray
      <4>1. CASE k = 1
        BY <1>6, <4>1
      <4>2. CASE k = 2
        BY <1>6, <2>2, <2>5, <4>2
      <4>3. CASE k = 3
        BY <1>6, <1>8, <4>3 DEF OverviewInv, NothingCountsTwice
      <4>4. QED
        BY <2>1, <4>1, <4>2, <4>3
    <3>2. QED
      BY <1>2, <1>8, <3>1 DEF NothingCountsTwice
  <2>8. PartsAreInTheirWhole'
    <3>1. \A i \in Items : standing[i] \in {"open", "resolved", Absent}
      BY <1>1, <1>8, Tables
    <3>2. AllCounted' => k = 3
      BY <1>2, <1>4, <1>8, NumbersOfServices DEF AllCounted
    <3>3. k = 3 => Number(2)' = counted[2] /\ 2 \in DOMAIN counted /\ Number(3)' = found
      BY <1>6
    <3>4. k = 3 => \A i \in counted[2] : i \in Items /\ standing[i] # Absent
      BY <1>1, <3>3 DEF OverviewInv, NumbersArePast
    <3>5. QED
      BY <1>2, <1>8, <2>2, <3>1, <3>2, <3>3, <3>4 DEF PartsAreInTheirWhole
  <2>9. QED
    BY <1>5, <2>6, <2>7, <2>8 DEF OverviewInv
<1>9. CASE service = "notification"
  <2>1. k \in 1..4
    BY <1>1, <1>2, <1>3, <1>9, NumbersOfServices
  <2>2. /\ k = 1 => found = {i \in Items : standing[i] = "sent"}
        /\ k = 2 => found = {i \in Items : standing[i] = "failed"}
        /\ k = 3 => found = {i \in Items : standing[i] = "pending"}
        /\ k = 4 => found = {i \in Items : standing[i] \in {"sent", "failed"}}
    BY <1>9, NumbersOfServices DEF found, NotificationNumbers
  <2>3. \A i \in found : standing[i] # Absent
    BY <2>1, <2>2, AbsentIsNoStatus
  <2>4. \A n \in 1..k : \A i \in counted'[n] : standing[i] # Absent
    BY <1>3, <1>4, <2>3 DEF OverviewInv, NumbersArePast
  <2>5. \A i \in Number(1)' \ astray : standing[i] = "sent"
    <3>1. CASE k = 1
      BY <1>6, <2>2, <3>1
    <3>2. CASE k > 1
      <4>1. Number(1)' = Number(1)
        BY <1>6, <2>1, <3>2
      <4>2. QED
        BY <1>9, <4>1 DEF OverviewInv, NumbersArePast
    <3>3. QED
      BY <2>1, <3>1, <3>2
  <2>6. \A i \in Number(1)' \cup Number(2)' : standing[i] \in {"sent", "failed"}
    <3>1. CASE k = 1
      BY <1>6, <2>2, <3>1
    <3>2. CASE k = 2
      <4>1. Number(1)' = Number(1) /\ Number(2)' = found
        BY <1>6, <3>2
      <4>2. QED
        BY <1>9, <2>2, <3>2, <4>1 DEF OverviewInv, NumbersArePast
    <3>3. CASE k > 2
      <4>1. Number(1)' = Number(1) /\ Number(2)' = Number(2)
        BY <1>6, <2>1, <3>3
      <4>2. QED
        BY <1>9, <4>1 DEF OverviewInv, NumbersArePast
    <3>4. QED
      BY <2>1, <3>1, <3>2, <3>3
  <2>7. NumbersArePast'
    BY <1>2, <1>4, <1>9, <2>4, <2>5, <2>6 DEF NumbersArePast
  <2>8. NothingCountsTwice'
    <3>1. Number(1)' \cap Number(2)' \subseteq astray
      <4>1. CASE k = 1
        BY <1>6, <4>1
      <4>2. CASE k = 2
        BY <1>6, <2>2, <2>5, <4>2
      <4>3. CASE k > 2
        BY <1>6, <1>9, <2>1, <4>3 DEF OverviewInv, NothingCountsTwice
      <4>4. QED
        BY <2>1, <4>1, <4>2, <4>3
    <3>2. (Number(1)' \cup Number(2)') \cap Number(3)' = {}
      <4>1. CASE k < 3
        BY <1>6, <2>1, <4>1
      <4>2. CASE k = 3
        BY <1>6, <2>2, <2>6, <4>2
      <4>3. CASE k = 4
        BY <1>6, <1>9, <4>3 DEF OverviewInv, NothingCountsTwice
      <4>4. QED
        BY <2>1, <4>1, <4>2, <4>3
    <3>3. QED
      BY <1>2, <1>9, <3>1, <3>2 DEF NothingCountsTwice
  <2>9. PartsAreInTheirWhole'
    <3>1. AllCounted' => k = 4
      BY <1>2, <1>4, <1>9, NumbersOfServices DEF AllCounted
    <3>2. k = 4 => /\ Number(1)' = counted[1] /\ Number(2)' = counted[2] /\ Number(4)' = found
                   /\ 1 \in DOMAIN counted /\ 2 \in DOMAIN counted
      BY <1>6
    <3>3. k = 4 => counted[1] \subseteq Items /\ counted[2] \subseteq Items
      BY <1>1, <3>2
    <3>4. QED
      BY <1>2, <1>9, <2>2, <2>6, <3>1, <3>2, <3>3 DEF PartsAreInTheirWhole
  <2>10. QED
    BY <1>5, <2>7, <2>8, <2>9 DEF OverviewInv
<1>10. QED
  BY <1>1, <1>7, <1>8, <1>9 DEF Services

(* An answer without numbers says nothing.                                  *)
LEMMA EmptyAnswer ==
    ASSUME counted = <<>>, OverviewTypeOK
    PROVE  OverviewInv
<1>1. Len(counted) = 0 /\ DOMAIN counted = {} /\ Number(1) = {} /\ Number(2) = {} /\ Number(3) = {}
  BY DEF Number
<1>2. ~AllCounted
  BY <1>1, NumbersOfServices DEF OverviewTypeOK, Services, AllCounted
<1>3. NumbersArePast
  BY <1>1 DEF NumbersArePast
<1>4. NothingCountsTwice /\ PartsAreInTheirWhole
  BY <1>1, <1>2 DEF NothingCountsTwice, PartsAreInTheirWhole
<1>5. QED
  BY <1>3, <1>4 DEF OverviewInv

(* The invariant of the overview.                                           *)
LEMMA OverviewInductive == OverviewSpec => []OverviewInv
<1>1. ASSUME OverviewInit
      PROVE  OverviewInv
  <2>1. counted = <<>> /\ OverviewTypeOK
    <3>1. /\ service \in Services /\ standing \in [Items -> Standing[service] \cup {Absent}]
          /\ counted = <<>> /\ fresh = {} /\ astray = {}
      BY <1>1 DEF OverviewInit
    <3>2. Len(Numbers[service]) \in Nat
      BY <3>1, NumbersOfServices DEF Services
    <3>3. counted \in Seq(SUBSET Items) /\ Len(counted) <= Len(Numbers[service])
      BY <3>1, <3>2
    <3>4. QED
      BY <3>1, <3>3 DEF OverviewTypeOK
  <2>2. QED
    BY <2>1, EmptyAnswer
<1>2. ASSUME OverviewInv, [OverviewNext]_overviewVars
      PROVE  OverviewInv'
  <2>1. CASE Statement
    BY <1>2, <2>1, StatementKeepsNumbers
  <2>2. CASE Ask
    <3>1. counted' = <<>> /\ OverviewTypeOK'
      <4>1. /\ service' = service /\ standing' = standing
            /\ counted' = <<>> /\ fresh' = {} /\ astray' = {}
        BY <2>2 DEF Ask
      <4>2. service \in Services /\ standing \in [Items -> Standing[service] \cup {Absent}]
        BY <1>2 DEF OverviewInv, OverviewTypeOK
      <4>3. Len(Numbers[service]) \in Nat
        BY <4>2, NumbersOfServices DEF Services
      <4>4. counted' \in Seq(SUBSET Items) /\ Len(counted') <= Len(Numbers[service'])
        BY <4>1, <4>3
      <4>5. QED
        BY <4>1, <4>2, <4>4 DEF OverviewTypeOK
    <3>2. Len(counted') = 0 /\ DOMAIN counted' = {}
          /\ Number(1)' = {} /\ Number(2)' = {} /\ Number(3)' = {}
      BY <3>1 DEF Number
    <3>3. ~AllCounted'
      BY <3>1, <3>2, NumbersOfServices DEF OverviewTypeOK, Services, AllCounted
    <3>4. NumbersArePast'
      BY <3>2 DEF NumbersArePast
    <3>5. NothingCountsTwice' /\ PartsAreInTheirWhole'
      BY <3>2, <3>3 DEF NothingCountsTwice, PartsAreInTheirWhole
    <3>6. QED
      BY <3>1, <3>4, <3>5 DEF OverviewInv
  <2>3. CASE \E i \in Items : InsertRow(i)
    BY <1>2, <2>3, InsertKeepsNumbers
  <2>4. CASE \E i \in Items : \E to \in Standing[service] : MoveRow(i, to)
    BY <1>2, <2>4, MoveKeepsNumbers
  <2>5. CASE UNCHANGED overviewVars
    BY <1>2, <2>5 DEF overviewVars, OverviewInv, OverviewTypeOK, NumbersArePast,
       NothingCountsTwice, PartsAreInTheirWhole, AllCounted, Number
  <2>6. QED
    BY <1>2, <2>1, <2>2, <2>3, <2>4, <2>5 DEF OverviewNext
<1>3. QED
  BY <1>1, <1>2, PTL DEF OverviewSpec

(* The table and the answer of a service keep their types.                  *)
THEOREM OverviewTypeCorrect == OverviewSpec => []OverviewTypeOK
<1>1. OverviewInv => OverviewTypeOK
  BY DEF OverviewInv
<1>2. QED
  BY <1>1, OverviewInductive, PTL

(* Numbers shown side by side are of different rows, or of a part and of    *)
(* its whole, but for rows that went back or came in between.               *)
THEOREM NumbersAreAsNamed == OverviewSpec => []NumbersAgree
<1>1. OverviewInv => NumbersAgree
  BY DEF OverviewInv, NumbersAgree
<1>2. QED
  BY <1>1, OverviewInductive, PTL

----------------------------------------------------------------------------
(* The console.  A behaviour of the console is one of the pages, one of the *)
(* session, one of the lists and one of the overview: each step moves one   *)
(* of them and leaves the others where they are.                            *)
THEOREM ConsoleIsItsParts ==
    ConsoleSpec => PageSpec /\ SessionSpec /\ ListSpec /\ OverviewSpec
<1>1. ConsoleInit => Init /\ PageInit /\ SessionInit /\ ListInit /\ OverviewInit
  BY DEF ConsoleInit
<1>2. [ConsoleNext]_consoleVars
      => /\ [PageNext]_claimPageVars /\ [SessionNext]_sessionVars
         /\ [ListNext]_listVars /\ [OverviewNext]_overviewVars
  BY DEF ConsoleNext, PageMoves, SessionMoves, ListMoves, OverviewMoves, consoleVars
<1>3. QED
  BY <1>1, <1>2, PTL DEF ConsoleSpec, PageSpec, SessionSpec, ListSpec, OverviewSpec

(* The variables of the threads, the pages, the session, the lists and the  *)
(* overview keep their types side by side.                                  *)
THEOREM ConsoleTypeCorrect == ConsoleSpec => []ConsoleTypeOK
<1>1. TypeOK /\ PageTypeOK /\ SessionTypeOK /\ ListTypeOK /\ OverviewTypeOK => ConsoleTypeOK
  BY DEF ConsoleTypeOK
<1>2. QED
  BY <1>1, ConsoleIsItsParts, PageTypes, SessionTypeCorrect, ListTypeCorrect,
     OverviewTypeCorrect, PTL
=============================================================================
