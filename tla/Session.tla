------------------------------ MODULE Session ------------------------------
(***************************************************************************)
(* The session of the dashboard in one browser: the cookies that all its   *)
(* windows share, the name each window keeps in its store (useAuth), and   *)
(* the fetches that read or change the cookies.                            *)
(*                                                                         *)
(* A fetch carries the token that the cookie holds when it is sent (the    *)
(* proxy or the page's server reads it); the gateway judges the token      *)
(* later, and what its answer leads to is done later still, when other     *)
(* windows may have signed out or in:                                      *)
(*   api       apiFetch: a 401 makes the window post /api/auth/logout;     *)
(*   page      serverFetch: a 401 redirects the window to the same route;  *)
(*   ending    the logout of apiFetch, on its way;                         *)
(*   redirect  that of a page;                                             *)
(*   logout    the Logout button;                                          *)
(*   login     the login form.                                             *)
(* Set-Cookie takes effect when the answer arrives.                        *)
(*                                                                         *)
(* A token is refused from its expiry on.  The cookie is set later than    *)
(* the token is issued and lives as long, so it is dropped after that; the *)
(* cookie with the name lives on (24 h).  The refresh token is set and     *)
(* cleared with the access token and never used: it is left out.           *)
(***************************************************************************)
EXTENDS Naturals, Sequences

CONSTANTS
    Windows,    \* windows and tabs of the browser
    Fetches,    \* requests a browser may have on the way
    Users,
    Nobody,     \* no name
    MaxLogins   \* bound of the model: logins after which none succeeds

ASSUME NobodyAssumption == Nobody \notin Users
ASSUME MaxLoginsAssumption == MaxLogins \in Nat

VARIABLES
    jar,        \* the cookies: the login whose access_token is held (0: none), and username
    logins,     \* logins[n]: the user of the n-th login and the window it was made in
    expired,    \* the logins whose token the gateway refuses
    at,         \* at[v]: whether window v is on the login page or behind it
    name,       \* name[v]: username in the store of v, and how many logins there were
    fetch       \* fetch[f]: the request of a window

sessionVars == <<jar, logins, expired, at, name, fetch>>

----------------------------------------------------------------------------
NoFetch == [kind |-> "none"]
FetchOf(v, kind, token, user) ==
    [kind |-> kind, window |-> v, token |-> token, user |-> user, sent |-> Len(logins)]

NoCookies == [access |-> 0, user |-> Nobody]
NameNow(u) == [user |-> u, logins |-> Len(logins)]

SessionInit ==
    /\ jar = NoCookies
    /\ logins = <<>>
    /\ expired = {}
    /\ at = [v \in Windows |-> "login"]
    /\ name = [v \in Windows |-> [user |-> Nobody, logins |-> 0]]
    /\ fetch = [f \in Fetches |-> NoFetch]

Done(f) == fetch' = [fetch EXCEPT ![f] = NoFetch]
Go(v, where) == at' = [at EXCEPT ![v] = where]
Call(v, n) == name' = [name EXCEPT ![v] = n]

(* A full load of a page forgets the store and whatever the window awaited. *)
DroppedOf(v) == [f \in Fetches |-> IF fetch[f] # NoFetch /\ fetch[f].window = v THEN NoFetch ELSE fetch[f]]

----------------------------------------------------------------------------
(* Time.                                                                   *)

TokenExpires(n) ==
    /\ n \in DOMAIN logins
    /\ n \notin expired
    /\ expired' = expired \cup {n}
    /\ UNCHANGED <<jar, logins, at, name, fetch>>

AccessCookieExpires ==
    /\ jar.access \in expired
    /\ jar' = [jar EXCEPT !.access = 0]
    /\ UNCHANGED <<logins, expired, at, name, fetch>>

UsernameCookieExpires ==
    /\ jar.access = 0 /\ jar.user # Nobody
    /\ jar' = NoCookies
    /\ UNCHANGED <<logins, expired, at, name, fetch>>

----------------------------------------------------------------------------
(* Pages.                                                                  *)

(* A reload, a bookmark, a new window.  The middleware looks at the cookie  *)
(* of every page but the login page; useAuth reads the name once mounted.   *)
LoadPage(v, where) ==
    /\ where = "app" => jar.access # 0
    /\ Go(v, where)
    /\ Call(v, NameNow(jar.user))
    /\ fetch' = DroppedOf(v)
    /\ UNCHANGED <<jar, logins, expired>>

(* A link inside the dashboard keeps the store.  Without the cookie the     *)
(* middleware sends the window to the login page.                           *)
FollowLinkSignedOut(v) ==
    /\ at[v] = "app" /\ jar.access = 0
    /\ Go(v, "login")
    /\ UNCHANGED <<jar, logins, expired, name, fetch>>

(* Otherwise the page is rendered with the token of the cookie.             *)
FollowLink(v, f) ==
    /\ at[v] = "app" /\ jar.access # 0
    /\ fetch[f] = NoFetch
    /\ fetch' = [fetch EXCEPT ![f] = FetchOf(v, "page", jar.access, Nobody)]
    /\ UNCHANGED <<jar, logins, expired, at, name>>

(* The proxy adds the Bearer header if there is a cookie.                   *)
ProxiedToken == jar.access

SendApi(v, f) ==
    /\ at[v] = "app"
    /\ fetch[f] = NoFetch
    /\ fetch' = [fetch EXCEPT ![f] = FetchOf(v, "api", ProxiedToken, Nobody)]
    /\ UNCHANGED <<jar, logins, expired, at, name>>

----------------------------------------------------------------------------
(* Answers.                                                                *)

Refused(f) == fetch[f].token = 0 \/ fetch[f].token \in expired

(* window.location to the logout route, or redirect() to it.                *)
LogoutAfter(f) == IF fetch[f].kind = "api" THEN "ending" ELSE "redirect"

(* Mutated form: a window ends the session for any answer but 2xx.          *)
UnauthorizedByAnyError(f) ==
    /\ fetch[f].kind \in {"api", "page"}
    /\ fetch' = [fetch EXCEPT ![f].kind = LogoutAfter(f)]
    /\ UNCHANGED <<jar, logins, expired, at, name>>

(* 401: the window asks for /api/auth/logout, whoever is signed in by now.  *)
Unauthorized(f) ==
    /\ fetch[f].kind \in {"api", "page"}
    /\ Refused(f)
    /\ fetch' = [fetch EXCEPT ![f].kind = LogoutAfter(f)]
    /\ UNCHANGED <<jar, logins, expired, at, name>>

(* Any other answer; no answer, whatever was asked; and the pages of one    *)
(* claim or policy, which take a 401 for "not found".                       *)
Settle(f) ==
    /\ fetch[f] # NoFetch
    /\ Done(f)
    /\ UNCHANGED <<jar, logins, expired, at, name>>

(* The answer of /api/auth/logout arrives and clears the cookies.  The      *)
(* window then loads the login page (window.location), or, after a          *)
(* redirect, the router goes there by a load or within the window.          *)
SessionEnds(f) ==
    LET v == fetch[f].window IN
    /\ fetch[f].kind \in {"ending", "redirect"}
    /\ jar' = NoCookies
    /\ Go(v, "login")
    /\ \/ Call(v, NameNow(Nobody)) /\ fetch' = DroppedOf(v)
       \/ fetch[f].kind = "redirect" /\ name' = name /\ Done(f)
    /\ UNCHANGED <<logins, expired>>

----------------------------------------------------------------------------
(* Logout and login.                                                       *)

PressLogout(v, f) ==
    /\ at[v] = "app"
    /\ fetch[f] = NoFetch
    /\ fetch' = [fetch EXCEPT ![f] = FetchOf(v, "logout", jar.access, Nobody)]
    /\ UNCHANGED <<jar, logins, expired, at, name>>

LoggedOut(f) ==
    LET v == fetch[f].window IN
    /\ fetch[f].kind = "logout"
    /\ jar' = NoCookies
    /\ Call(v, NameNow(Nobody))
    /\ Go(v, "login")
    /\ Done(f)
    /\ UNCHANGED <<logins, expired>>

(* The button is disabled while a login of the window is on its way.        *)
SubmitLogin(v, f, u) ==
    /\ at[v] = "login"
    /\ fetch[f] = NoFetch
    /\ \A g \in Fetches : fetch[g] # NoFetch => fetch[g].kind # "login" \/ fetch[g].window # v
    /\ fetch' = [fetch EXCEPT ![f] = FetchOf(v, "login", 0, u)]
    /\ UNCHANGED <<jar, logins, expired, at, name>>

(* Mutated form: setUsername is only called for a window without a name.    *)
NameIfNone(v, n) == name' = [name EXCEPT ![v] = IF @.user = Nobody THEN n ELSE @]

(* setUsername of useAuth.                                                  *)
NameOfLogin(v, n) == Call(v, n)

(* The gateway issued the tokens, and the answer with the cookies arrives.  *)
LoggedIn(f) ==
    LET v == fetch[f].window
        u == fetch[f].user
        n == Len(logins) + 1
    IN  /\ fetch[f].kind = "login"
        /\ n <= MaxLogins
        /\ logins' = Append(logins, [user |-> u, window |-> v])
        /\ jar' = [access |-> n, user |-> u]
        /\ NameOfLogin(v, [user |-> u, logins |-> n])
        /\ Go(v, "app")
        /\ Done(f)
        /\ UNCHANGED expired

----------------------------------------------------------------------------
Use(v) ==
    \/ \E where \in {"login", "app"} : LoadPage(v, where)
    \/ FollowLinkSignedOut(v)
    \/ \E f \in Fetches : FollowLink(v, f) \/ SendApi(v, f) \/ PressLogout(v, f)
    \/ \E f \in Fetches, u \in Users : SubmitLogin(v, f, u)

Resolve(f) == Unauthorized(f) \/ Settle(f) \/ SessionEnds(f) \/ LoggedOut(f) \/ LoggedIn(f)

SessionNext ==
    \/ \E n \in 1..MaxLogins : TokenExpires(n)
    \/ AccessCookieExpires \/ UsernameCookieExpires
    \/ \E v \in Windows : Use(v)
    \/ \E f \in Fetches : Resolve(f)

SessionSpec == SessionInit /\ [][SessionNext]_sessionVars

----------------------------------------------------------------------------
(* Properties.                                                             *)

Names == [user : Users \cup {Nobody}, logins : 0..Len(logins)]
Fetch == [kind : {"api", "page", "ending", "redirect", "logout", "login"}, window : Windows,
          token : 0..Len(logins), user : Users \cup {Nobody}, sent : 0..Len(logins)]

SessionTypeOK ==
    /\ jar \in [access : 0..Len(logins), user : Users \cup {Nobody}]
    /\ logins \in Seq([user : Users, window : Windows]) /\ Len(logins) <= MaxLogins
    /\ expired \in SUBSET (1..Len(logins))
    /\ at \in [Windows -> {"login", "app"}]
    /\ name \in [Windows -> Names]
    /\ fetch \in [Fetches -> Fetch \cup {NoFetch}]
    /\ \A f \in Fetches : fetch[f].kind = "login" => fetch[f].user \in Users

Valid == jar.access # 0 /\ jar.access \notin expired

(* A request made during a session never ends it while its token is good:   *)
(* a logout that follows a 401 and is on its way while another session is   *)
(* open belongs to a request that was sent before that session began.  (It  *)
(* does end that session: the route clears whatever cookies there are.)     *)
LogoutsAfter401AreLate ==
    Valid => \A f \in Fetches : fetch[f].kind \in {"ending", "redirect"} => fetch[f].sent < jar.access

(* A window shows the name of somebody who is not signed in only when a     *)
(* later login was made in another window: the store is not read again, so  *)
(* what the window sends from then on is done by the other user.            *)
WrongNameIsFromBefore ==
    \A v \in Windows :
        jar.access # 0 /\ name[v].user # Nobody /\ name[v].user # jar.user =>
            name[v].logins < jar.access /\ logins[jar.access].window # v
=============================================================================
