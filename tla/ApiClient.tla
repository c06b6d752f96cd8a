------------------------------- MODULE ApiClient -------------------------------
(***************************************************************************)
(* The mobile app's session: the 401 interceptor of                        *)
(* core/network/api_client.dart, AuthRepository with what AuthNotifier     *)
(* makes of it, and the endpoints they talk to (atomic here; Sessions has   *)
(* their statements).  Dart runs one callback at a time,                    *)
(* and the storage serves its calls in their order, so that a read and     *)
(* what follows it up to the next await are one step.  A refresh token and *)
(* the access token issued with it have one number; 0 is null.             *)
(***************************************************************************)
EXTENDS Naturals, FiniteSets

CONSTANTS
    Request,        \* requests of the app in progress at one time
    Leaving,        \* the one that logout sends
    MaxToken        \* bound on the tokens ever issued

ASSUME ClientAssumption == IsFiniteSet(Request) /\ Leaving \in Request /\ MaxToken \in Nat

VARIABLES
    issued, family, consumed, revoked,  \* refresh_tokens of the server
    stale,                  \* access tokens that it refuses
    access, refresh,        \* the secure storage
    req,                    \* each request and the error handler around it
    flight,                 \* _performRefresh, by the request that started it
    user,                   \* AuthNotifier, and the token a login brings
    trouble                 \* history since the last login: what went wrong

serverVars == <<issued, family, consumed, revoked, stale>>
storeVars == <<access, refresh>>
clientVars == <<serverVars, storeVars, req, flight, user, trouble>>

Token == 1..MaxToken
Idle == [at |-> "idle", op |-> "none", bearer |-> 0, body |-> 0, depth |-> 0, clears |-> 0, awaits |-> Leaving]
NoFlight == [at |-> "none", token |-> 0, new |-> 0]

(* What a request, a refresh and the user may be while n tokens are issued. *)
RequestType(n) ==
    [at : {"idle", "request", "sent", "refused", "waiting", "retry", "answered", "failing"},
     op : {"none", "get", "me", "password", "logout"}, bearer : 0..n, body : 0..n, depth : 0..MaxToken, clears : 0..(MaxToken + 1), awaits : Request]
FlightType(n) == [at : {"none", "posted", "replied", "half", "broken"}, token : 0..n, new : 0..n]
UserType(n) ==
    [at : {"out", "arriving", "settling", "in", "leaving", "clearing", "abandoning",
           "starting", "refused"}, token : 0..n]
Trouble == {"cut", "killed", "retry", "logout", "late refresh", "late request", "reuse", "password"}

(* Every variable stays in its range, no token is of the future, and there   *)
(* is one refresh in flight at most (_refreshFuture).                       *)
ClientTypeOK ==
    /\ issued \in 0..MaxToken /\ family \in [Token -> Token]
    /\ consumed \subseteq 1..issued /\ revoked \subseteq 1..issued /\ stale \subseteq 1..issued
    /\ access \in 0..issued /\ refresh \in 0..issued
    /\ req \in [Request -> RequestType(issued)] /\ flight \in [Request -> FlightType(issued)]
    /\ user \in UserType(issued) /\ trouble \subseteq Trouble
    /\ \A q, r \in Request : flight[q].at # "none" /\ flight[r].at # "none" => q = r

ClientInit ==
    /\ issued = 0 /\ family = [t \in Token |-> t]
    /\ consumed = {} /\ revoked = {} /\ stale = {}
    /\ access = 0 /\ refresh = 0
    /\ req = [r \in Request |-> Idle]
    /\ flight = [r \in Request |-> NoFlight]
    /\ user = [at |-> "out", token |-> 0]
    /\ trouble = {}

InFlight == {r \in Request : flight[r].at # "none"}
Quiet == \A r \in Request : req[r] = Idle
Accepted(t) == t \in 1..issued /\ t \notin stale
Live(t) == t \in 1..issued /\ t \notin consumed \cup revoked

-----------------------------------------------------------------------------
(* Requests.  The header of one that has its answer is not kept. *)

Begins(r, op, token) ==
    /\ req[r] = Idle
    /\ req' = [req EXCEPT ![r] = [@ EXCEPT !.at = "request", !.op = op, !.body = token]]

(* onRequest: without a token in the store the header stays as it is. *)
onRequest(r) ==
    /\ req[r].at = "request"
    /\ req' = [req EXCEPT ![r] = [@ EXCEPT !.at = "sent",
                                          !.bearer = IF access # 0 THEN access ELSE req[r].bearer]]
    /\ UNCHANGED <<serverVars, storeVars, flight, user, trouble>>

Refused(r) ==
    /\ req[r].at = "sent" /\ ~Accepted(req[r].bearer)
    /\ req' = [req EXCEPT ![r] = [@ EXCEPT !.at = "refused", !.bearer = 0]]
    /\ UNCHANGED <<serverVars, storeVars, flight, user, trouble>>

Serves(r) ==
    /\ req[r].at = "sent" /\ Accepted(req[r].bearer)
    /\ req' = [req EXCEPT ![r] = [@ EXCEPT !.at = "answered", !.bearer = 0]]

Answered(r) ==
    /\ req[r].op \in {"get", "me"} /\ Serves(r)
    /\ UNCHANGED <<serverVars, storeVars, flight, user, trouble>>

(* POST /auth/change-password: every session of the user ends, this one too. *)
PasswordChanged(r) ==
    /\ req[r].op = "password" /\ Serves(r)
    /\ revoked' = 1..issued /\ stale' = 1..issued
    /\ trouble' = trouble \cup {"password"}
    /\ UNCHANGED <<issued, family, consumed, storeVars, flight, user>>

(* POST /auth/logout: the family of the token in the body, and the bearer. *)
LoggedOut ==
    /\ Serves(Leaving)
    /\ revoked' = revoked \cup {t \in 1..issued : family[t] = family[req[Leaving].body]}
    /\ stale' = stale \cup {req[Leaving].bearer}
    /\ UNCHANGED <<issued, family, consumed, storeVars, flight, user, trouble>>

(* Any error but a 401 (a wrong current password, say), or no answer: every  *)
(* handler around a retry takes it for the end of the session.              *)
Lost(r) ==
    /\ req[r].at \in {"sent", "answered"}
    /\ req' = [req EXCEPT ![r] = [@ EXCEPT !.at = "failing", !.bearer = 0, !.clears = req[r].depth]]
    /\ trouble' = IF req[r].depth > 0 THEN trouble \cup {"retry"} ELSE trouble
    /\ UNCHANGED <<serverVars, storeVars, flight, user>>

(* Mutant: each request refreshes for itself. *)
Joins_alone(r) == r

(* _refreshFuture ??= ... : whose refresh a request waits for. *)
Joins(r) == IF InFlight = {} THEN r ELSE CHOOSE q \in InFlight : TRUE

(* onError of a 401 up to the await of the refresh. *)
onError(r) ==
    /\ req[r].at = "refused"
    /\ \/ /\ refresh = 0
          /\ req' = [req EXCEPT ![r] = [@ EXCEPT !.at = "failing", !.clears = req[r].depth]]
          /\ UNCHANGED flight
       \/ /\ refresh # 0
          /\ req' = [req EXCEPT ![r] = [@ EXCEPT !.at = "waiting", !.awaits = Joins(r)]]
          /\ flight' = IF Joins(r) # r THEN flight
                       ELSE [flight EXCEPT ![r] = [at |-> "posted", token |-> refresh, new |-> 0]]
    /\ UNCHANGED <<serverVars, storeVars, user, trouble>>

(* The token is there: the request is fetched again, interceptors included. *)
Retries(r) ==
    /\ req[r].at = "retry"
    /\ \/ /\ access = 0
          /\ req' = [req EXCEPT ![r] = [@ EXCEPT !.at = "failing", !.clears = req[r].depth]]
       \/ /\ access # 0 /\ req[r].depth < MaxToken
          /\ req' = [req EXCEPT ![r] = [@ EXCEPT !.at = "request", !.bearer = access,
                                                !.depth = req[r].depth + 1]]
    /\ UNCHANGED <<serverVars, storeVars, flight, user, trouble>>

(* on DioException: clearTokens, once for every handler around the request. *)
ClearsTokens(r) ==
    /\ req[r].at = "failing" /\ req[r].clears > 0
    /\ req' = [req EXCEPT ![r].clears = @ - 1]
    /\ access' = 0 /\ refresh' = 0
    /\ UNCHANGED <<serverVars, flight, user, trouble>>

(* The caller has its answer, or its exception. *)
Delivered(r) ==
    /\ req[r].at = "answered"
    /\ req' = [req EXCEPT ![r] = Idle]

Failed(r) ==
    /\ req[r].at = "failing" /\ req[r].clears = 0
    /\ req' = [req EXCEPT ![r] = Idle]

-----------------------------------------------------------------------------
(* _performRefresh *)

(* POST /auth/refresh: rotation, or the reuse of a consumed token. *)
RefreshServed(r) ==
    LET t == flight[r].token IN
    /\ flight[r].at = "posted"
    /\ \/ /\ Live(t) /\ issued < MaxToken
          /\ issued' = issued + 1
          /\ family' = [family EXCEPT ![issued + 1] = family[t]]
          /\ consumed' = consumed \cup {t}
          /\ flight' = [flight EXCEPT ![r] = [@ EXCEPT !.at = "replied", !.new = issued + 1]]
          /\ UNCHANGED <<revoked, trouble>>
       \/ /\ ~Live(t)
          /\ revoked' = revoked \cup {s \in 1..issued : family[s] = family[t]}
          /\ trouble' = IF t \in consumed \ revoked THEN trouble \cup {"reuse"} ELSE trouble
          /\ flight' = [flight EXCEPT ![r].at = "broken"]
          /\ UNCHANGED <<issued, family, consumed>>
    /\ UNCHANGED <<stale, storeVars, req, user>>

RefreshLost(r) ==
    /\ flight[r].at \in {"posted", "replied"}
    /\ flight' = [flight EXCEPT ![r].at = "broken"]
    /\ trouble' = trouble \cup {"cut"}
    /\ UNCHANGED <<serverVars, storeVars, req, user>>

(* Everyone who waits for the refresh leaves it at once. *)
Lands(r, place) ==
    /\ flight' = [flight EXCEPT ![r] = NoFlight]
    /\ req' = [q \in Request |->
          IF req[q].at = "waiting" /\ req[q].awaits = r
          THEN [req[q] EXCEPT !.at = place, !.awaits = Leaving,
                              !.clears = IF place = "failing" THEN req[q].depth + 1 ELSE 0]
          ELSE req[q]]

RefreshBreaks(r) ==
    /\ flight[r].at = "broken"
    /\ Lands(r, "failing")
    /\ UNCHANGED <<serverVars, storeVars, user, trouble>>

(* saveTokens writes the one and then the other. *)
SavesAccess(r) ==
    /\ flight[r].at = "replied"
    /\ flight' = [flight EXCEPT ![r].at = "half"]
    /\ access' = flight[r].new
    /\ UNCHANGED <<serverVars, refresh, req, user, trouble>>

(* Mutant: the rotated refresh token is not kept. *)
SavesRefresh_access_only(r) ==
    /\ flight[r].at = "half"
    /\ Lands(r, "retry")
    /\ UNCHANGED <<serverVars, storeVars, user, trouble>>

SavesRefresh(r) ==
    /\ flight[r].at = "half"
    /\ refresh' = flight[r].new
    /\ Lands(r, "retry")
    /\ UNCHANGED <<serverVars, access, user, trouble>>

-----------------------------------------------------------------------------
(* AuthRepository and AuthNotifier *)

Login ==
    /\ user.at \in {"out", "refused"} /\ issued < MaxToken
    /\ issued' = issued + 1
    /\ user' = [at |-> "arriving", token |-> issued + 1]
    /\ trouble' = IF Quiet /\ access = 0 /\ refresh = 0 THEN {} ELSE trouble \ {"logout"}
    /\ UNCHANGED <<family, consumed, revoked, stale, storeVars, req, flight>>

LoginSavesAccess ==
    /\ user.at = "arriving"
    /\ user' = [user EXCEPT !.at = "settling"]
    /\ access' = user.token
    /\ UNCHANGED <<serverVars, refresh, req, flight, trouble>>

LoginSavesRefresh ==
    /\ user.at = "settling"
    /\ user' = [at |-> "in", token |-> 0]
    /\ refresh' = user.token
    /\ UNCHANGED <<serverVars, access, req, flight, trouble>>

(* The profile sheet sends it and does no more with its answer than show it: *)
(* the app keeps its tokens and its user.                                   *)
changePassword(r) ==
    /\ user.at = "in" /\ r # Leaving
    /\ Begins(r, "password", 0)
    /\ UNCHANGED <<serverVars, storeVars, flight, user, trouble>>

Logout ==
    /\ user.at = "in"
    /\ \/ /\ refresh # 0
          /\ Begins(Leaving, "logout", refresh)
          /\ user' = [user EXCEPT !.at = "leaving"]
       \/ /\ refresh = 0
          /\ user' = [user EXCEPT !.at = "clearing"]
          /\ UNCHANGED req
    /\ UNCHANGED <<serverVars, storeVars, flight, trouble>>

(* Mutant: the store is cleared only after an answer. *)
LogoutReturns_answered ==
    \/ /\ Delivered(Leaving)
       /\ user' = [user EXCEPT !.at = "clearing"]
       /\ UNCHANGED <<serverVars, storeVars, flight, trouble>>
    \/ /\ Failed(Leaving)
       /\ user' = [user EXCEPT !.at = "in"]
       /\ trouble' = trouble \cup {"logout"}
       /\ UNCHANGED <<serverVars, storeVars, flight>>

(* An exception is not caught: the store is cleared, and the app goes on     *)
(* as if its user were signed in.                                           *)
LogoutReturns ==
    \/ /\ Delivered(Leaving)
       /\ user' = [user EXCEPT !.at = "clearing"]
       /\ UNCHANGED <<serverVars, storeVars, flight, trouble>>
    \/ /\ Failed(Leaving)
       /\ user' = [user EXCEPT !.at = "abandoning"]
       /\ UNCHANGED <<serverVars, storeVars, flight, trouble>>

(* Mutant: the refresh token is left behind. *)
LogoutClears_access_only ==
    /\ user.at \in {"clearing", "abandoning"}
    /\ user' = [user EXCEPT !.at = IF @ = "clearing" THEN "out" ELSE "in"]
    /\ access' = 0
    /\ trouble' = trouble \cup (IF user.at = "abandoning" THEN {"logout"} ELSE {})
                          \cup (IF InFlight # {} THEN {"late refresh"} ELSE {})
                          \cup (IF Quiet THEN {} ELSE {"late request"})
    /\ UNCHANGED <<serverVars, refresh, req, flight>>

LogoutClears ==
    /\ user.at \in {"clearing", "abandoning"}
    /\ user' = [user EXCEPT !.at = IF @ = "clearing" THEN "out" ELSE "in"]
    /\ access' = 0 /\ refresh' = 0
    /\ trouble' = trouble \cup (IF user.at = "abandoning" THEN {"logout"} ELSE {})
                          \cup (IF InFlight # {} THEN {"late refresh"} ELSE {})
                          \cup (IF Quiet THEN {} ELSE {"late request"})
    /\ UNCHANGED <<serverVars, req, flight>>

(* The process dies and starts again.  What it had sent has been served or   *)
(* never will be.  _checkSession asks who the user is, if the store has an   *)
(* access token.  Of the history it is enough to keep that the app died and  *)
(* whether a refresh was ever cut short.                                    *)
Killed ==
    /\ \/ /\ access = 0
          /\ user' = [at |-> "out", token |-> 0]
          /\ req' = [r \in Request |-> Idle]
       \/ /\ access # 0
          /\ user' = [at |-> "starting", token |-> 0]
          /\ \E me \in Request \ {Leaving} :
               req' = [r \in Request |-> IF r = me THEN [Idle EXCEPT !.at = "request", !.op = "me"]
                                        ELSE Idle]
    /\ flight' = [r \in Request |-> NoFlight]
    /\ trouble' = {"killed"} \cup (trouble \cap {"cut"}) \cup (IF InFlight # {} THEN {"cut"} ELSE {})
    /\ UNCHANGED <<serverVars, storeVars>>

(* getMe makes null of any exception: the login screen, with the tokens of   *)
(* the store kept.                                                          *)
SessionChecked(r) ==
    /\ user.at = "starting" /\ req[r].op = "me"
    /\ \/ Delivered(r) /\ user' = [user EXCEPT !.at = "in"]
       \/ Failed(r) /\ user' = [user EXCEPT !.at = "refused"]
    /\ UNCHANGED <<serverVars, storeVars, flight, trouble>>

Expires ==
    /\ \E t \in 1..issued : stale' = stale \cup {t}
    /\ UNCHANGED <<issued, family, consumed, revoked, storeVars, req, flight, user, trouble>>

RequestStep(r) ==
    \/ onRequest(r) \/ Refused(r) \/ Lost(r) \/ onError(r) \/ Retries(r) \/ ClearsTokens(r)
    \/ RefreshServed(r) \/ RefreshLost(r) \/ RefreshBreaks(r) \/ SavesAccess(r) \/ SavesRefresh(r)

SessionStep ==
    \/ Login \/ LoginSavesAccess \/ LoginSavesRefresh
    \/ LoggedOut \/ LogoutReturns \/ LogoutClears \/ Expires
    \/ \E r \in Request : PasswordChanged(r) \/ SessionChecked(r)

-----------------------------------------------------------------------------
(* The app presents a consumed refresh token only if a refresh was cut       *)
(* short, by the network or by the death of the app: requests that are       *)
(* refused together never make the server take their user for a thief.      *)
NoSelfInflictedReuse == "reuse" \in trouble => "cut" \in trouble

(* While nothing goes wrong, a user who is signed in holds the live tokens   *)
(* of his session whenever no refresh is under way.  A changed password is   *)
(* a trouble from the moment the server has made the change: the app stays   *)
(* signed in (AuthAuthenticated) with tokens that are dead.                  *)
SignedInStays ==
    user.at = "in" /\ trouble = {} /\ InFlight = {} => access = refresh /\ Live(refresh)

SignedOut == user.at = "out" \/ (user.at = "in" /\ "logout" \in trouble)

(* Who has logged out is not signed in again by the next start of the app    *)
(* (isLoggedIn asks for an access token), unless a refresh was in flight     *)
(* when the store was cleared and puts its tokens back.                     *)
LoggedOutStaysOut ==
    SignedOut /\ "late refresh" \notin trouble => access = 0

-----------------------------------------------------------------------------
(* The parts of the inductive invariant of PaymentPoller that are about the  *)
(* client: why the properties above hold.                                   *)

(* The request that started a refresh waits for it, and the one that logout  *)
(* sends is under way only while the app is leaving.                        *)
FlightIsAwaited ==
    /\ \A r \in Request : flight[r].at # "none" => req[r].at = "waiting" /\ req[r].awaits = r
    /\ req[Leaving] # Idle => user.at = "leaving"

(* What is about to be stored has never been presented; what is stored, or   *)
(* on its way to the server, has not either unless a refresh was cut short.  *)
TokensAreFresh ==
    /\ \A r \in Request : flight[r].at \in {"replied", "half"} =>
         flight[r].new \in (1..issued) \ consumed
    /\ user.at \in {"arriving", "settling"} =>
         /\ user.token \in (1..issued) \ consumed /\ refresh # user.token
         /\ \A r \in Request :
              /\ flight[r].at = "posted" => flight[r].token # user.token
              /\ flight[r].at \in {"replied", "half"} => flight[r].new # user.token
    /\ "cut" \notin trouble =>
         /\ \A r \in Request : flight[r].at = "posted" =>
              flight[r].token \notin consumed \ revoked
         /\ \/ \E r \in Request : flight[r].at \in {"replied", "half"}
            \/ refresh \notin consumed \ revoked

(* A session that nothing went wrong in is whole: from the login on, through *)
(* every refresh, until the user leaves or changes the password.  Only a     *)
(* death of the app leads to a session that is being checked.               *)
SessionIsWhole ==
    /\ user.at \in {"starting", "refused"} => "killed" \in trouble
    /\ user.at = "out" => \/ trouble \cap {"killed", "late refresh", "late request"} # {}
                          \/ Quiet /\ access = 0 /\ refresh = 0
    /\ user.at \in {"arriving", "settling"} /\ trouble = {} =>
         Quiet /\ Live(user.token) /\ (user.at = "settling" => access = user.token)
    /\ user.at = "in" /\ trouble = {} =>
         /\ access # 0 /\ refresh # 0
         /\ InFlight = {} => access = refresh /\ Live(refresh)
         /\ \A r \in Request :
              /\ req[r].at = "failing" => req[r].clears = 0
              /\ flight[r].at = "posted" =>
                   flight[r].token = refresh /\ access = refresh /\ Live(refresh)
              /\ flight[r].at \in {"replied", "half"} => Live(flight[r].new)
              /\ flight[r].at = "half" => access = flight[r].new
              /\ flight[r].at # "broken"

(* Once logged out, the store is empty and nothing that is under way can     *)
(* fill it.                                                                 *)
StoreIsEmptied ==
    /\ "logout" \in trouble => user.at \notin {"arriving", "settling"}
    /\ (user.at = "out" \/ "logout" \in trouble) /\ "late refresh" \notin trouble =>
         /\ access = 0 /\ InFlight = {}
         /\ refresh = 0 \/ (user.at = "out" /\ Quiet)

ClientInvariant ==
    /\ ClientTypeOK /\ FlightIsAwaited /\ TokensAreFresh /\ SessionIsWhole /\ StoreIsEmptied
    /\ NoSelfInflictedReuse
=============================================================================
