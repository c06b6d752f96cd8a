----------------------------- MODULE MobileProofs -----------------------------
(***************************************************************************)
(* Proofs about ApiClient and PaymentPoller, for any number of requests,   *)
(* tokens and polls.                                                       *)
(***************************************************************************)
EXTENDS PaymentPoller, FiniteSetTheorems, TLAPS

USE ClientAssumption, PollAssumption
USE DEF serverVars, storeVars, clientVars, pollVars, Token

(* They grow with the tokens.                                                *)
LEMMA TypesGrow ==
    ASSUME NEW n \in Nat, NEW m \in Nat, n <= m
    PROVE  /\ RequestType(n) \subseteq RequestType(m) /\ FlightType(n) \subseteq FlightType(m)
           /\ UserType(n) \subseteq UserType(m)
           /\ \A S \in SUBSET (1..n) : S \in SUBSET (1..m)
           /\ \A i \in 0..n : i \in 0..m
  <1>1. 0..n \subseteq 0..m /\ 1..n \subseteq 1..m
    OBVIOUS
  <1>2. RequestType(n) \subseteq RequestType(m)
    BY <1>1 DEF RequestType
  <1>3. FlightType(n) \subseteq FlightType(m)
    BY <1>1 DEF FlightType
  <1>4. UserType(n) \subseteq UserType(m)
    BY <1>1 DEF UserType
  <1> QED
    BY <1>1, <1>2, <1>3, <1>4

(* The fields of a request.                                                 *)
LEMMA RequestFields ==
    ASSUME NEW n \in Nat, NEW g \in RequestType(n)
    PROVE  /\ g.bearer \in 0..n /\ g.depth \in 0..MaxToken /\ g.depth \in 0..(MaxToken + 1)
           /\ g.clears \in 0..(MaxToken + 1) /\ g.awaits \in Request
  BY DEF RequestType

(* A request between two others, and no refresh.                             *)
LEMMA Nothing ==
    /\ \A n \in Nat : Idle \in RequestType(n) /\ NoFlight \in FlightType(n)
    /\ Idle.at = "idle" /\ NoFlight.at = "none" /\ Idle.clears = 0
  BY DEF Idle, NoFlight, RequestType, FlightType

-----------------------------------------------------------------------------
(* A callback that moves its own request on, and nothing else. *)

MayBecome(r, h) ==
    /\ h \in RequestType(issued) /\ req[r].at # "waiting"
    /\ r = Leaving /\ h # Idle => user.at = "leaving"
    /\ req[r] = Idle => user.at = "in"

(* What it does to the tokens of the server: nothing, or the end of them all. *)
Revoking ==
    /\ revoked \subseteq revoked' /\ revoked' \subseteq 1..issued /\ stale' \subseteq 1..issued
    /\ UNCHANGED revoked \/ "password" \in trouble'

(* That keeps the session as it is, if the tokens are not to be cleared while *)
(* nothing went wrong.                                                      *)
LEMMA RequestMoves ==
    ASSUME ClientInvariant, NEW r \in Request, NEW h, MayBecome(r, h),
           req' = [req EXCEPT ![r] = h], Revoking,
           UNCHANGED <<issued, family, consumed, storeVars, flight, user>>,
           \/ trouble' = trouble \/ trouble' = trouble \cup {"retry"}
           \/ trouble' = trouble \cup {"password"},
           h.at = "failing" /\ user.at = "in" /\ trouble' = {} => h.clears = 0
    PROVE  ClientInvariant'
  <1>1. /\ ClientTypeOK /\ FlightIsAwaited /\ TokensAreFresh /\ SessionIsWhole
        /\ StoreIsEmptied /\ NoSelfInflictedReuse
    BY DEF ClientInvariant
  <1>2. req \in [Request -> RequestType(issued)]
    BY <1>1 DEF ClientTypeOK
  <1>3. /\ req'[r] = h /\ \A q \in Request \ {r} : req'[q] = req[q]
        /\ req' \in [Request -> RequestType(issued)]
    BY <1>2 DEF MayBecome
  <1>4. ClientTypeOK'
    BY <1>1, <1>3 DEF ClientTypeOK, Trouble, Revoking
  <1>5. FlightIsAwaited'
    BY <1>1, <1>3 DEF FlightIsAwaited, MayBecome
  <1>6. TokensAreFresh'
    BY <1>1 DEF TokensAreFresh, Revoking
  <1>7. SessionIsWhole'
    <2>1. Quiet /\ user.at # "in" => FALSE
      BY <1>3 DEF MayBecome, Quiet
    <2>2. user'.at = user.at /\ (trouble' = {} => trouble = {}) /\ trouble \subseteq trouble'
      OBVIOUS
    <2>3. InFlight' = InFlight /\ (trouble' = {} => \A t : Live(t)' = Live(t))
      BY DEF InFlight, Live, Revoking
    <2>4. \A q \in Request \ {r} : req'[q].at = "failing" /\ trouble = {} /\ user.at = "in" => req'[q].clears = 0
      BY <1>1, <1>3 DEF SessionIsWhole
    <2> QED
      BY <1>1, <1>3, <2>1, <2>2, <2>3, <2>4 DEF SessionIsWhole
  <1>8. StoreIsEmptied'
    <2>1. Quiet /\ user.at # "in" => FALSE
      BY <1>3 DEF MayBecome, Quiet
    <2> QED
      BY <1>1, <2>1 DEF StoreIsEmptied, InFlight
  <1>9. NoSelfInflictedReuse'
    BY <1>1 DEF NoSelfInflictedReuse
  <1> QED
    BY <1>4, <1>5, <1>6, <1>7, <1>8, <1>9 DEF ClientInvariant

(* What a request does by itself: it is sent, refused, answered, lost, or     *)
(* fetched again.                                                           *)
LEMMA RequestKeeps ==
    ASSUME ClientInvariant, NEW r \in Request,
           \/ onRequest(r) \/ Refused(r) \/ Lost(r) \/ Retries(r)
           \/ Serves(r) /\ UNCHANGED <<serverVars, storeVars, flight, user, trouble>>
           \/ onError(r) /\ refresh = 0
    PROVE  ClientInvariant'
  <1>1. /\ ClientTypeOK /\ FlightIsAwaited /\ TokensAreFresh /\ SessionIsWhole
        /\ StoreIsEmptied /\ NoSelfInflictedReuse
    BY DEF ClientInvariant
  <1>t. /\ issued \in 0..MaxToken /\ access \in 0..issued /\ refresh \in 0..issued
        /\ req \in [Request -> RequestType(issued)] /\ flight \in [Request -> FlightType(issued)]
        /\ user \in UserType(issued)
    BY <1>1 DEF ClientTypeOK
  <1>2. /\ req[r] \in RequestType(issued) /\ issued \in Nat /\ access \in 0..issued
        /\ req[r].bearer \in 0..issued /\ 0 \in 0..issued
        /\ req[r].depth \in 0..MaxToken /\ req[r].depth \in 0..(MaxToken + 1)
    <2>1. req[r] \in RequestType(issued) /\ issued \in Nat
      BY <1>t
    <2> QED
      BY <1>t, <2>1, RequestFields
  <1>3. ASSUME NEW h \in RequestType(issued), req' = [req EXCEPT ![r] = h],
               req[r].at \notin {"idle", "waiting"},
               UNCHANGED <<serverVars, storeVars, flight, user>>,
               trouble' = trouble \/ trouble' = trouble \cup {"retry"},
               h.at = "failing" /\ user.at = "in" /\ trouble' = {} => h.clears = 0
        PROVE  ClientInvariant'
    <2>1. MayBecome(r, h)
      BY <1>1, <1>3, Nothing DEF MayBecome, FlightIsAwaited
    <2>2. Revoking
      BY <1>1, <1>3 DEF Revoking, ClientTypeOK
    <2> QED
      BY <1>3, <2>1, <2>2, RequestMoves
  <1>4. CASE onRequest(r)
    <2>1. PICK b \in 0..issued : b = IF access # 0 THEN access ELSE req[r].bearer
      BY <1>2
    <2> DEFINE h == [req[r] EXCEPT !.at = "sent", !.bearer = b]
    <2>2. h \in RequestType(issued) /\ h.at = "sent"
      BY <1>2 DEF RequestType
    <2> QED
      BY <1>3, <1>4, <2>1, <2>2 DEF onRequest
  <1>5. CASE Refused(r)
    <2> DEFINE h == [req[r] EXCEPT !.at = "refused", !.bearer = 0]
    <2>1. h \in RequestType(issued) /\ h.at = "refused"
      BY <1>2 DEF RequestType
    <2> QED
      BY <1>3, <1>5, <2>1 DEF Refused
  <1>6. CASE Serves(r) /\ UNCHANGED <<serverVars, storeVars, flight, user, trouble>>
    <2> DEFINE h == [req[r] EXCEPT !.at = "answered", !.bearer = 0]
    <2>1. h \in RequestType(issued) /\ h.at = "answered"
      BY <1>2 DEF RequestType
    <2> QED
      BY <1>3, <1>6, <2>1 DEF Serves
  <1>7. CASE (Retries(r) /\ access = 0) \/ (onError(r) /\ refresh = 0)
    <2> DEFINE h == [req[r] EXCEPT !.at = "failing", !.clears = req[r].depth]
    <2>1. h \in RequestType(issued) /\ h.at = "failing"
      BY <1>2 DEF RequestType
    <2>2. req' = [req EXCEPT ![r] = h]
      BY <1>7 DEF Retries, onError
    <2>3. /\ UNCHANGED <<serverVars, storeVars, flight, user, trouble>>
          /\ req[r].at \notin {"idle", "waiting"}
      BY <1>7 DEF Retries, onError
    <2>4. ~(user.at = "in" /\ trouble = {})
      BY <1>1, <1>7 DEF Retries, onError, SessionIsWhole
    <2> HIDE DEF h
    <2> QED
      BY <1>3, <2>1, <2>2, <2>3, <2>4
  <1>9. CASE Lost(r)
    <2> DEFINE h == [req[r] EXCEPT !.at = "failing", !.bearer = 0, !.clears = req[r].depth]
    <2>1. h \in RequestType(issued) /\ h.at = "failing" /\ h.clears = req[r].depth
      BY <1>2 DEF RequestType
    <2>2. req' = [req EXCEPT ![r] = h]
      BY <1>9 DEF Lost
    <2>3. /\ UNCHANGED <<serverVars, storeVars, flight, user>>
          /\ trouble' = trouble \/ trouble' = trouble \cup {"retry"}
          /\ req[r].at \notin {"idle", "waiting"}
      BY <1>9 DEF Lost
    <2>4. trouble' = {} => req[r].depth = 0
      BY <1>2, <1>9 DEF Lost
    <2> HIDE DEF h
    <2> QED
      BY <1>3, <2>1, <2>2, <2>3, <2>4
  <1>8. CASE Retries(r) /\ access # 0
    <2>1. PICK d \in 0..MaxToken : d = req[r].depth + 1
      BY <1>2, <1>8 DEF Retries
    <2> DEFINE h == [req[r] EXCEPT !.at = "request", !.bearer = access, !.depth = d]
    <2>2. h \in RequestType(issued) /\ h.at = "request"
      BY <1>2 DEF RequestType
    <2> QED
      BY <1>3, <1>8, <2>1, <2>2 DEF Retries
  <1> QED
    BY <1>4, <1>5, <1>6, <1>7, <1>8, <1>9

(* A poll or a change of the password begins, for a user who is signed in,    *)
(* or ends.                                                                 *)
LEMMA PollRequestKeeps ==
    ASSUME ClientInvariant, NEW r \in Poll, NEW op \in {"get", "password"},
           \/ Begins(r, op, 0) /\ user.at = "in"
           \/ Delivered(r) \/ Failed(r),
           UNCHANGED <<serverVars, storeVars, flight, user, trouble>>
    PROVE  ClientInvariant'
  <1>1. /\ ClientTypeOK /\ FlightIsAwaited /\ TokensAreFresh /\ SessionIsWhole
        /\ StoreIsEmptied /\ NoSelfInflictedReuse
    BY DEF ClientInvariant
  <1>t. /\ issued \in 0..MaxToken /\ access \in 0..issued /\ refresh \in 0..issued
        /\ req \in [Request -> RequestType(issued)] /\ flight \in [Request -> FlightType(issued)]
        /\ user \in UserType(issued)
    BY <1>1 DEF ClientTypeOK
  <1>2. r \in Request /\ r # Leaving
    BY DEF Poll
  <1>v. Revoking
    BY <1>1 DEF Revoking, ClientTypeOK
  <1>3. CASE Begins(r, op, 0) /\ user.at = "in"
    <2> DEFINE h == [req[r] EXCEPT !.at = "request", !.op = op, !.body = 0]
    <2>1. req' = [req EXCEPT ![r] = h] /\ req[r] = Idle
      BY <1>3 DEF Begins
    <2>2. h \in RequestType(issued) /\ h.at = "request"
      <3>1. req[r] \in RequestType(issued) /\ issued \in Nat /\ 0 \in 0..issued
        BY <1>2, <1>t
      <3> QED
        BY <3>1 DEF RequestType
    <2> HIDE DEF h
    <2>3. MayBecome(r, h)
      BY <1>2, <1>3, <2>1, <2>2, Nothing DEF MayBecome
    <2> QED
      BY <1>2, <1>v, <2>1, <2>2, <2>3, RequestMoves
  <1>4. CASE Delivered(r) \/ Failed(r)
    <2>1. req' = [req EXCEPT ![r] = Idle] /\ req[r].at \notin {"idle", "waiting"}
      BY <1>4 DEF Delivered, Failed
    <2>2. MayBecome(r, Idle)
      BY <1>2, <1>t, <2>1, Nothing DEF MayBecome
    <2> QED
      BY <1>2, <1>v, <2>1, <2>2, Nothing, RequestMoves
  <1> QED
    BY <1>3, <1>4

(* The server makes the change, and every session of the user is over.       *)
LEMMA PasswordKeeps ==
    ASSUME ClientInvariant, NEW r \in Request, PasswordChanged(r)
    PROVE  ClientInvariant'
  <1>1. ClientTypeOK /\ FlightIsAwaited
    BY DEF ClientInvariant
  <1>2. /\ req[r] \in RequestType(issued) /\ issued \in Nat /\ 0 \in 0..issued
    BY <1>1 DEF ClientTypeOK
  <1> DEFINE h == [req[r] EXCEPT !.at = "answered", !.bearer = 0]
  <1>3. h \in RequestType(issued) /\ h.at = "answered"
    BY <1>2 DEF RequestType
  <1>4. /\ req' = [req EXCEPT ![r] = h] /\ req[r].at = "sent"
        /\ UNCHANGED <<issued, family, consumed, storeVars, flight, user>>
        /\ trouble' = trouble \cup {"password"} /\ revoked' = 1..issued /\ stale' = 1..issued
    BY DEF PasswordChanged, Serves
  <1> HIDE DEF h
  <1>5. MayBecome(r, h)
    BY <1>1, <1>3, <1>4, Nothing DEF MayBecome, FlightIsAwaited
  <1>6. Revoking
    BY <1>1, <1>4 DEF Revoking, ClientTypeOK
  <1> QED
    BY <1>3, <1>4, <1>5, <1>6, RequestMoves

(* A refused request waits for the refresh that is under way, or starts it    *)
(* with the token of the store.                                             *)
LEMMA RefreshStarts ==
    ASSUME ClientInvariant, NEW r \in Request, onError(r), refresh # 0
    PROVE  ClientInvariant'
  <1>1. /\ ClientTypeOK /\ FlightIsAwaited /\ TokensAreFresh /\ SessionIsWhole
        /\ StoreIsEmptied /\ NoSelfInflictedReuse
    BY DEF ClientInvariant
  <1>t. /\ issued \in 0..MaxToken /\ access \in 0..issued /\ refresh \in 0..issued
        /\ req \in [Request -> RequestType(issued)] /\ flight \in [Request -> FlightType(issued)]
        /\ user \in UserType(issued)
    BY <1>1 DEF ClientTypeOK
  <1>2. r \notin InFlight /\ Joins(r) \in Request /\ (Joins(r) = r => InFlight = {})
    BY <1>1 DEF onError, FlightIsAwaited, InFlight, Joins
  <1>3. PICK j \in Request : j = Joins(r)
    BY <1>2
  <1> DEFINE h == [req[r] EXCEPT !.at = "waiting", !.awaits = j]
             posted == [at |-> "posted", token |-> refresh, new |-> 0]
  <1>4. /\ req[r].at = "refused"
        /\ req' = [req EXCEPT ![r] = h]
        /\ flight' = IF j # r THEN flight ELSE [flight EXCEPT ![r] = posted]
        /\ UNCHANGED <<serverVars, storeVars, user, trouble>>
    BY <1>3 DEF onError
  <1>5. /\ h \in RequestType(issued) /\ h.at = "waiting" /\ h.awaits = j
        /\ posted \in FlightType(issued) /\ posted.at = "posted" /\ posted.token = refresh
    <2>1. req[r] \in RequestType(issued) /\ issued \in Nat /\ 0 \in 0..issued
      BY <1>t
    <2>2. h \in RequestType(issued) /\ h.at = "waiting" /\ h.awaits = j
      BY <2>1 DEF RequestType
    <2> QED
      BY <1>t, <2>1, <2>2 DEF FlightType
  <1> HIDE DEF h, posted
  <1>6. /\ req'[r] = h /\ \A q \in Request \ {r} : req'[q] = req[q]
        /\ req' \in [Request -> RequestType(issued)]
    BY <1>t, <1>4, <1>5
  <1>7. req[r] # Idle /\ ~Quiet /\ ~Quiet'
    BY <1>4, <1>5, <1>6, Nothing DEF Quiet
  <1>8. CASE j # r
    <2>1. flight' = flight /\ InFlight' = InFlight
      BY <1>4, <1>8 DEF InFlight
    <2>2. ClientTypeOK'
      BY <1>1, <1>4, <1>6, <2>1 DEF ClientTypeOK
    <2>3. FlightIsAwaited'
      BY <1>1, <1>4, <1>6, <1>7, <2>1, <1>2, <1>5 DEF FlightIsAwaited, InFlight
    <2>4. TokensAreFresh' /\ NoSelfInflictedReuse'
      BY <1>1, <1>4, <2>1 DEF TokensAreFresh, NoSelfInflictedReuse
    <2>5. SessionIsWhole'
      BY <1>1, <1>4, <1>5, <1>6, <1>7, <2>1 DEF SessionIsWhole, Live
    <2>6. StoreIsEmptied'
      BY <1>1, <1>4, <1>7, <2>1 DEF StoreIsEmptied
    <2> QED
      BY <2>2, <2>3, <2>4, <2>5, <2>6 DEF ClientInvariant
  <1>9. CASE j = r
    <2>1. InFlight = {} /\ \A q \in Request : flight[q].at = "none"
      BY <1>2, <1>3, <1>9 DEF InFlight
    <2>2. /\ flight'[r] = posted /\ \A q \in Request \ {r} : flight'[q] = flight[q]
          /\ flight' \in [Request -> FlightType(issued)]
      BY <1>t, <1>4, <1>5, <1>9
    <2>3. InFlight' = {r}
      BY <1>5, <2>1, <2>2 DEF InFlight
    <2>4. ClientTypeOK'
      BY <1>1, <1>4, <1>6, <2>1, <2>2 DEF ClientTypeOK
    <2>5. FlightIsAwaited'
      BY <1>1, <1>4, <1>5, <1>6, <1>7, <1>9, <2>1, <2>2 DEF FlightIsAwaited
    <2>6. TokensAreFresh' /\ NoSelfInflictedReuse'
      BY <1>1, <1>4, <1>5, <2>1, <2>2 DEF TokensAreFresh, NoSelfInflictedReuse
    <2>7. SessionIsWhole'
      BY <1>1, <1>4, <1>5, <1>6, <1>7, <2>1, <2>2, <2>3 DEF SessionIsWhole, Live
    <2>8. StoreIsEmptied'
      BY <1>1, <1>4, <1>7 DEF StoreIsEmptied
    <2> QED
      BY <2>4, <2>5, <2>6, <2>7, <2>8 DEF ClientInvariant
  <1> QED
    BY <1>8, <1>9

(* A handler that clears the tokens does so for a session that broke.        *)
LEMMA ClearsKeeps ==
    ASSUME ClientInvariant, NEW r \in Request, ClearsTokens(r)
    PROVE  ClientInvariant'
  <1>1. /\ ClientTypeOK /\ FlightIsAwaited /\ TokensAreFresh /\ SessionIsWhole
        /\ StoreIsEmptied /\ NoSelfInflictedReuse
    BY DEF ClientInvariant
  <1>t. /\ issued \in 0..MaxToken /\ access \in 0..issued /\ refresh \in 0..issued
        /\ req \in [Request -> RequestType(issued)] /\ flight \in [Request -> FlightType(issued)]
        /\ user \in UserType(issued)
    BY <1>1 DEF ClientTypeOK
  <1> DEFINE h == [req[r] EXCEPT !.clears = @ - 1]
  <1>2. /\ req[r].at = "failing" /\ req[r].clears > 0
        /\ req' = [req EXCEPT ![r] = h] /\ access' = 0 /\ refresh' = 0
        /\ UNCHANGED <<serverVars, flight, user, trouble>>
    BY DEF ClearsTokens
  <1>3. h \in RequestType(issued) /\ h.at = "failing"
    <2>1. req[r] \in RequestType(issued) /\ issued \in Nat
      BY <1>t
    <2>2. PICK k \in 0..(MaxToken + 1) : k = req[r].clears - 1
      BY <1>2, <2>1, RequestFields
    <2> QED
      BY <1>2, <2>1, <2>2 DEF RequestType
  <1> HIDE DEF h
  <1>4. /\ req'[r] = h /\ \A q \in Request \ {r} : req'[q] = req[q]
        /\ req' \in [Request -> RequestType(issued)]
    BY <1>t, <1>2, <1>3
  <1>5. ~Quiet /\ ~(user.at = "in" /\ trouble = {})
    <2>1. req[r] # Idle
      BY <1>2, Nothing
    <2>2. req[r].clears # 0
      BY <1>2
    <2> QED
      BY <1>1, <1>2, <2>1, <2>2 DEF Quiet, SessionIsWhole
  <1>6. ClientTypeOK'
    <2>1. 0 \in 0..issued
      BY <1>t
    <2> QED
      BY <1>1, <1>2, <1>4, <2>1 DEF ClientTypeOK
  <1>7. FlightIsAwaited'
    BY <1>1, <1>2, <1>3, <1>4, Nothing DEF FlightIsAwaited
  <1>8. TokensAreFresh' /\ NoSelfInflictedReuse'
    <2>1. 0 \notin consumed /\ 0 \notin 1..issued
      BY <1>1, <1>t DEF ClientTypeOK
    <2> QED
      BY <1>1, <1>2, <2>1 DEF TokensAreFresh, NoSelfInflictedReuse
  <1>9. SessionIsWhole'
    BY <1>1, <1>2, <1>5 DEF SessionIsWhole
  <1>10. StoreIsEmptied'
    BY <1>1, <1>2, <1>5 DEF StoreIsEmptied, InFlight
  <1> QED
    BY <1>6, <1>7, <1>8, <1>9, <1>10 DEF ClientInvariant

-----------------------------------------------------------------------------
(* The refresh that is under way *)

(* There is no other, and the request that started it waits for it.          *)
LEMMA OneFlight ==
    ASSUME ClientInvariant, NEW r \in Request, flight[r].at # "none"
    PROVE  /\ \A q \in Request \ {r} : flight[q].at = "none"
           /\ req[r].at = "waiting" /\ req[r].awaits = r /\ ~Quiet /\ InFlight = {r}
           /\ user.at \in {"arriving", "settling"} => trouble # {}
           /\ (user.at = "out" \/ "logout" \in trouble) => "late refresh" \in trouble
  <1>1. ClientTypeOK /\ FlightIsAwaited /\ SessionIsWhole /\ StoreIsEmptied
    BY DEF ClientInvariant
  <1>2. \A q \in Request \ {r} : flight[q].at = "none"
    BY <1>1 DEF ClientTypeOK
  <1>3. req[r].at = "waiting" /\ req[r].awaits = r
    BY <1>1 DEF FlightIsAwaited
  <1>4. ~Quiet
    BY <1>3, Nothing DEF Quiet
  <1>5. InFlight = {r}
    BY <1>2 DEF InFlight
  <1>6. user.at \in {"arriving", "settling"} => trouble # {}
    BY <1>1, <1>4 DEF SessionIsWhole
  <1>7. (user.at = "out" \/ "logout" \in trouble) => "late refresh" \in trouble
    BY <1>1, <1>5 DEF StoreIsEmptied
  <1> QED
    BY <1>2, <1>3, <1>4, <1>5, <1>6, <1>7

(* The changes that the steps of a refresh make to it.                       *)
LEMMA FlightMoves ==
    ASSUME ClientTypeOK, NEW r \in Request, NEW n \in Nat, issued <= n, NEW g \in FlightType(n),
           flight' = [flight EXCEPT ![r] = g]
    PROVE  /\ flight' \in [Request -> FlightType(n)] /\ flight'[r] = g
           /\ \A q \in Request \ {r} : flight'[q] = flight[q]
  <1>1. FlightType(issued) \subseteq FlightType(n)
    BY TypesGrow DEF ClientTypeOK
  <1>2. flight \in [Request -> FlightType(n)]
    BY <1>1 DEF ClientTypeOK
  <1> QED
    BY <1>2

(* The server rotates the token: the new one was never presented.            *)
LEMMA RotationKeeps ==
    ASSUME ClientInvariant, NEW r \in Request, RefreshServed(r), Live(flight[r].token)
    PROVE  ClientInvariant'
  <1>1. /\ ClientTypeOK /\ FlightIsAwaited /\ TokensAreFresh /\ SessionIsWhole
        /\ StoreIsEmptied /\ NoSelfInflictedReuse
    BY DEF ClientInvariant
  <1>t. /\ issued \in 0..MaxToken /\ access \in 0..issued /\ refresh \in 0..issued
        /\ req \in [Request -> RequestType(issued)] /\ flight \in [Request -> FlightType(issued)]
        /\ user \in UserType(issued)
    BY <1>1 DEF ClientTypeOK
  <1>n. PICK t \in 1..issued, n \in 1..MaxToken : t = flight[r].token /\ n = issued + 1
    BY <1>t DEF RefreshServed, Live
  <1> DEFINE g == [flight[r] EXCEPT !.at = "replied", !.new = n]
  <1>2. /\ flight[r].at = "posted" /\ t \notin consumed \cup revoked
        /\ issued' = n /\ consumed' = consumed \cup {t}
        /\ family' = [family EXCEPT ![n] = family[t]]
        /\ flight' = [flight EXCEPT ![r] = g]
        /\ UNCHANGED <<revoked, trouble, stale, storeVars, req, user>>
    BY <1>n DEF RefreshServed, Live
  <1>m. issued \in Nat /\ n \in Nat /\ issued <= n /\ n \in 0..n
    BY <1>t, <1>n
  <1>3. g \in FlightType(n) /\ g.at = "replied" /\ g.new = n
    <2>1. flight[r] \in FlightType(issued)
      BY <1>t
    <2>2. flight[r] \in FlightType(n)
      BY <1>m, <2>1, TypesGrow
    <2> QED
      BY <1>m, <2>2 DEF FlightType
  <1> HIDE DEF g
  <1>4. /\ n \in 0..MaxToken /\ n \in Token /\ n \notin 0..issued /\ n \in 1..n
        /\ 1..issued \subseteq 1..n /\ 0..issued \subseteq 0..n
        /\ RequestType(issued) \subseteq RequestType(n) /\ UserType(issued) \subseteq UserType(n)
    BY <1>n, <1>m, TypesGrow
  <1>5. /\ flight' \in [Request -> FlightType(n)] /\ flight'[r] = g
        /\ \A q \in Request \ {r} : flight'[q] = flight[q]
    BY <1>1, <1>m, <1>2, <1>3, FlightMoves
  <1>6. /\ \A q \in Request \ {r} : flight[q].at = "none"
        /\ ~Quiet /\ req[r].at = "waiting" /\ req[r].awaits = r /\ InFlight = {r}
        /\ user.at \in {"arriving", "settling"} => trouble # {}
    BY <1>2, OneFlight
  <1>7. ClientTypeOK'
    <2>1. family \in [Token -> Token] /\ t \in Token
      BY <1>1, <1>t, <1>n DEF ClientTypeOK
    <2>2. family' \in [Token -> Token]
      BY <1>2, <2>1
    <2>3. req \in [Request -> RequestType(n)]
      BY <1>t, <1>4
    <2> QED
      BY <1>1, <1>2, <1>4, <1>5, <1>6, <2>2, <2>3 DEF ClientTypeOK
  <1>8. FlightIsAwaited'
    BY <1>1, <1>2, <1>5, <1>6 DEF FlightIsAwaited
  <1>9. TokensAreFresh'
    <2>1. consumed \subseteq 1..issued /\ n \notin consumed
      BY <1>1, <1>4 DEF ClientTypeOK
    <2>2. n # t /\ n \notin 1..issued
      BY <1>n, <1>m
    <2>3. n \in (1..n) \ consumed'
      BY <1>2, <1>4, <2>1, <2>2
    <2>4. user.at \in {"arriving", "settling"} =>
             user.token \in (1..n) \ consumed' /\ refresh # user.token /\ n # user.token
      BY <1>1, <1>n, <1>2, <1>4, <2>2 DEF TokensAreFresh
    <2> QED
      BY <1>2, <1>3, <1>5, <1>6, <2>3, <2>4 DEF TokensAreFresh
  <1>10. SessionIsWhole'
    <2>1. Live(n)' /\ InFlight' = {r}
      <3>1. n \notin consumed /\ n \notin revoked /\ n # t
        BY <1>1, <1>n, <1>4 DEF ClientTypeOK
      <3>2. InFlight' = {r}
        BY <1>3, <1>5, <1>6 DEF InFlight
      <3> QED
        BY <1>2, <1>4, <3>1, <3>2 DEF Live
    <2>2. Quiet' = Quiet
      BY <1>2 DEF Quiet
    <2> QED
      BY <1>1, <1>2, <1>3, <1>5, <1>6, <2>1, <2>2 DEF SessionIsWhole
  <1>11. StoreIsEmptied' /\ NoSelfInflictedReuse'
    <2>1. (user.at = "out" \/ "logout" \in trouble) => "late refresh" \in trouble
      BY <1>2, OneFlight
    <2> QED
      BY <1>1, <1>2, <2>1 DEF StoreIsEmptied, NoSelfInflictedReuse
  <1> QED
    BY <1>7, <1>8, <1>9, <1>10, <1>11 DEF ClientInvariant

(* The server takes a consumed token for a stolen one, or has none: what the  *)
(* app presents it for has been cut short.                                  *)
LEMMA ReuseKeeps ==
    ASSUME ClientInvariant, NEW r \in Request, RefreshServed(r), ~Live(flight[r].token)
    PROVE  ClientInvariant'
  <1>1. /\ ClientTypeOK /\ FlightIsAwaited /\ TokensAreFresh /\ SessionIsWhole
        /\ StoreIsEmptied /\ NoSelfInflictedReuse
    BY DEF ClientInvariant
  <1>t. /\ issued \in 0..MaxToken /\ access \in 0..issued /\ refresh \in 0..issued
        /\ req \in [Request -> RequestType(issued)] /\ flight \in [Request -> FlightType(issued)]
        /\ user \in UserType(issued)
    BY <1>1 DEF ClientTypeOK
  <1> DEFINE t == flight[r].token
             g == [flight[r] EXCEPT !.at = "broken"]
  <1>2. /\ flight[r].at = "posted"
        /\ revoked' = revoked \cup {s \in 1..issued : family[s] = family[t]}
        /\ trouble' = IF t \in consumed \ revoked THEN trouble \cup {"reuse"} ELSE trouble
        /\ flight' = [flight EXCEPT ![r] = g]
        /\ UNCHANGED <<issued, family, consumed, stale, storeVars, req, user>>
    BY DEF RefreshServed
  <1>3. g \in FlightType(issued) /\ g.at = "broken"
    <2>1. flight[r] \in FlightType(issued)
      BY <1>t
    <2> QED
      BY <2>1 DEF FlightType
  <1>p. t \in consumed \ revoked => "cut" \in trouble
    BY <1>1, <1>2 DEF TokensAreFresh
  <1>s. ~(user.at = "in" /\ trouble = {})
    BY <1>1, <1>2 DEF SessionIsWhole
  <1> HIDE DEF g, t
  <1>5. /\ flight' \in [Request -> FlightType(issued)] /\ flight'[r] = g
        /\ \A q \in Request \ {r} : flight'[q] = flight[q]
    BY <1>1, <1>t, <1>2, <1>3, FlightMoves
  <1>6. /\ \A q \in Request \ {r} : flight[q].at = "none"
        /\ ~Quiet /\ req[r].at = "waiting" /\ req[r].awaits = r /\ InFlight = {r}
        /\ user.at \in {"arriving", "settling"} => trouble # {}
    BY <1>2, OneFlight
  <1>g. /\ trouble \subseteq trouble' /\ trouble' \subseteq trouble \cup {"reuse"}
        /\ revoked \subseteq revoked'
    BY <1>2
  <1>7. ClientTypeOK'
    <2>1. revoked' \subseteq 1..issued /\ trouble' \subseteq Trouble
      BY <1>1, <1>2, <1>g DEF ClientTypeOK, Trouble
    <2> QED
      BY <1>1, <1>2, <1>5, <1>6, <2>1 DEF ClientTypeOK
  <1>8. FlightIsAwaited'
    BY <1>1, <1>2, <1>5, <1>6 DEF FlightIsAwaited
  <1>9. TokensAreFresh'
    BY <1>1, <1>2, <1>3, <1>5, <1>6, <1>g DEF TokensAreFresh
  <1>10. SessionIsWhole'
    <2>1. Quiet' = Quiet
      BY <1>2 DEF Quiet
    <2> QED
      BY <1>1, <1>2, <1>6, <1>g, <1>s, <2>1 DEF SessionIsWhole
  <1>11. StoreIsEmptied'
    <2>1. (user.at = "out" \/ "logout" \in trouble) => "late refresh" \in trouble
      BY <1>2, OneFlight
    <2> QED
      BY <1>1, <1>2, <1>g, <2>1 DEF StoreIsEmptied
  <1>12. NoSelfInflictedReuse'
    BY <1>1, <1>2, <1>g, <1>p DEF NoSelfInflictedReuse
  <1> QED
    BY <1>7, <1>8, <1>9, <1>10, <1>11, <1>12 DEF ClientInvariant

(* The refresh is lost on its way, or the first of its tokens is stored.     *)
LEMMA FlightKeeps ==
    ASSUME ClientInvariant, NEW r \in Request, RefreshLost(r) \/ SavesAccess(r)
    PROVE  ClientInvariant'
  <1>1. /\ ClientTypeOK /\ FlightIsAwaited /\ TokensAreFresh /\ SessionIsWhole
        /\ StoreIsEmptied /\ NoSelfInflictedReuse
    BY DEF ClientInvariant
  <1>t. /\ issued \in 0..MaxToken /\ access \in 0..issued /\ refresh \in 0..issued
        /\ req \in [Request -> RequestType(issued)] /\ flight \in [Request -> FlightType(issued)]
        /\ user \in UserType(issued)
    BY <1>1 DEF ClientTypeOK
  <1>2. /\ flight[r].at \in {"posted", "replied"}
        /\ UNCHANGED <<serverVars, refresh, req, user>>
    BY DEF RefreshLost, SavesAccess
  <1>6. /\ \A q \in Request \ {r} : flight[q].at = "none"
        /\ ~Quiet /\ req[r].at = "waiting" /\ req[r].awaits = r /\ InFlight = {r}
        /\ user.at \in {"arriving", "settling"} => trouble # {}
        /\ (user.at = "out" \/ "logout" \in trouble) => "late refresh" \in trouble
    BY <1>2, OneFlight
  <1>f. flight[r] \in FlightType(issued) /\ issued \in Nat
    BY <1>t
  <1>q. Quiet' = Quiet
    BY <1>2 DEF Quiet
  <1>3. CASE RefreshLost(r)
    <2> DEFINE g == [flight[r] EXCEPT !.at = "broken"]
    <2>1. g \in FlightType(issued) /\ g.at = "broken"
      BY <1>f DEF FlightType
    <2>2. /\ flight' = [flight EXCEPT ![r] = g]
          /\ trouble' = trouble \cup {"cut"} /\ UNCHANGED access
      BY <1>3 DEF RefreshLost
    <2> HIDE DEF g
    <2>3. /\ flight' \in [Request -> FlightType(issued)] /\ flight'[r] = g
          /\ \A q \in Request \ {r} : flight'[q] = flight[q]
      BY <1>1, <1>t, <2>1, <2>2, FlightMoves
    <2>4. ClientTypeOK'
      BY <1>1, <1>2, <1>6, <2>2, <2>3 DEF ClientTypeOK, Trouble
    <2>5. FlightIsAwaited' /\ NoSelfInflictedReuse'
      BY <1>1, <1>2, <1>6, <2>2, <2>3 DEF FlightIsAwaited, NoSelfInflictedReuse
    <2>6. TokensAreFresh'
      BY <1>1, <1>2, <1>6, <2>1, <2>2, <2>3 DEF TokensAreFresh
    <2>7. SessionIsWhole'
      BY <1>1, <1>2, <1>6, <1>q, <2>2 DEF SessionIsWhole
    <2>8. StoreIsEmptied'
      BY <1>1, <1>2, <1>6, <2>2 DEF StoreIsEmptied
    <2> QED
      BY <2>4, <2>5, <2>6, <2>7, <2>8 DEF ClientInvariant
  <1>4. CASE SavesAccess(r)
    <2> DEFINE g == [flight[r] EXCEPT !.at = "half"]
    <2>1. g \in FlightType(issued) /\ g.at = "half" /\ g.new = flight[r].new
      BY <1>f DEF FlightType
    <2>2. /\ flight' = [flight EXCEPT ![r] = g] /\ flight[r].at = "replied"
          /\ access' = flight[r].new /\ UNCHANGED trouble
      BY <1>4 DEF SavesAccess
    <2> HIDE DEF g
    <2>3. /\ flight' \in [Request -> FlightType(issued)] /\ flight'[r] = g
          /\ \A q \in Request \ {r} : flight'[q] = flight[q]
      BY <1>1, <1>t, <2>1, <2>2, FlightMoves
    <2>n. flight[r].new \in (1..issued) \ consumed
      BY <1>1, <2>2 DEF TokensAreFresh
    <2>z. flight[r].new \in 0..issued /\ flight[r].new # 0
      BY <1>f, <2>n
    <2>4. ClientTypeOK'
      BY <1>1, <1>2, <1>6, <2>2, <2>3, <2>z DEF ClientTypeOK
    <2>5. FlightIsAwaited' /\ NoSelfInflictedReuse'
      BY <1>1, <1>2, <1>6, <2>2, <2>3 DEF FlightIsAwaited, NoSelfInflictedReuse
    <2>6. TokensAreFresh'
      BY <1>1, <1>2, <1>6, <2>1, <2>2, <2>3, <2>n DEF TokensAreFresh
    <2>7. SessionIsWhole'
      <3>1. InFlight' = {r} /\ \A t : Live(t)' = Live(t)
        BY <1>2, <1>6, <2>1, <2>3 DEF InFlight, Live
      <3> QED
        BY <1>1, <1>2, <1>6, <1>q, <2>1, <2>2, <2>3, <2>z, <3>1 DEF SessionIsWhole
    <2>8. StoreIsEmptied'
      BY <1>1, <1>2, <1>6, <2>2 DEF StoreIsEmptied
    <2> QED
      BY <2>4, <2>5, <2>6, <2>7, <2>8 DEF ClientInvariant
  <1> QED
    BY <1>3, <1>4

(* Everyone who waits for a refresh leaves it, and none is under way.        *)
LEMMA Landing ==
    ASSUME ClientInvariant, NEW r \in Request, flight[r].at # "none",
           NEW place \in {"retry", "failing"}, Lands(r, place)
    PROVE  /\ req' \in [Request -> RequestType(issued)] /\ flight' \in [Request -> FlightType(issued)]
           /\ \A q \in Request : flight'[q].at = "none"
           /\ \A q \in Request : \/ req'[q] = req[q]
                                 \/ req[q].at = "waiting" /\ req'[q].at = place
  <1>1. /\ ClientTypeOK /\ FlightIsAwaited /\ TokensAreFresh /\ SessionIsWhole
        /\ StoreIsEmptied /\ NoSelfInflictedReuse
    BY DEF ClientInvariant
  <1>t. /\ issued \in 0..MaxToken /\ access \in 0..issued /\ refresh \in 0..issued
        /\ req \in [Request -> RequestType(issued)] /\ flight \in [Request -> FlightType(issued)]
        /\ user \in UserType(issued)
    BY <1>1 DEF ClientTypeOK
  <1>2. /\ \A q \in Request \ {r} : flight[q].at = "none"
        /\ flight' = [flight EXCEPT ![r] = NoFlight]
    BY OneFlight DEF Lands
  <1>3. flight' \in [Request -> FlightType(issued)] /\ \A q \in Request : flight'[q].at = "none"
    <2>1. issued \in Nat
      BY <1>t
    <2> QED
      BY <1>t, <1>2, <2>1, Nothing
  <1>4. ASSUME NEW q \in Request
        PROVE  /\ req'[q] \in RequestType(issued)
               /\ \/ req'[q] = req[q]
                  \/ req[q].at = "waiting" /\ req'[q].at = place
    <2>1. req[q] \in RequestType(issued) /\ req[q].depth \in 0..MaxToken /\ Leaving \in Request
      BY <1>t, RequestFields
    <2>2. CASE req[q].at = "waiting" /\ req[q].awaits = r
      <3>1. PICK k \in 0..(MaxToken + 1) : k = IF place = "failing" THEN req[q].depth + 1 ELSE 0
        BY <2>1
      <3> DEFINE h == [req[q] EXCEPT !.at = place, !.awaits = Leaving, !.clears = k]
      <3>2. h \in RequestType(issued) /\ h.at = place
        BY <2>1 DEF RequestType
      <3>3. req'[q] = h
        BY <2>2, <3>1 DEF Lands
      <3> QED
        BY <2>2, <3>2, <3>3
    <2>3. CASE ~(req[q].at = "waiting" /\ req[q].awaits = r)
      <3>1. req'[q] = req[q]
        BY <2>3 DEF Lands
      <3> QED
        BY <2>1, <3>1
    <2> QED
      BY <2>2, <2>3
  <1>5. req' \in [Request -> RequestType(issued)]
    <2>1. req' = [q \in Request |-> req'[q]]
      BY DEF Lands
    <2> QED
      BY <1>4, <2>1
  <1> QED
    BY <1>3, <1>4, <1>5

(* A refresh ends: broken, or with the second of its tokens stored.          *)
LEMMA LandingKeeps ==
    ASSUME ClientInvariant, NEW r \in Request, RefreshBreaks(r) \/ SavesRefresh(r)
    PROVE  ClientInvariant'
  <1>1. /\ ClientTypeOK /\ FlightIsAwaited /\ TokensAreFresh /\ SessionIsWhole
        /\ StoreIsEmptied /\ NoSelfInflictedReuse
    BY DEF ClientInvariant
  <1>t. /\ issued \in 0..MaxToken /\ access \in 0..issued /\ refresh \in 0..issued
        /\ req \in [Request -> RequestType(issued)] /\ flight \in [Request -> FlightType(issued)]
        /\ user \in UserType(issued)
    BY <1>1 DEF ClientTypeOK
  <1>2. flight[r].at \in {"broken", "half"} /\ UNCHANGED <<serverVars, access, user, trouble>>
    BY DEF RefreshBreaks, SavesRefresh
  <1>6. /\ \A q \in Request \ {r} : flight[q].at = "none"
        /\ ~Quiet
        /\ user.at \in {"arriving", "settling"} => trouble # {}
        /\ (user.at = "out" \/ "logout" \in trouble) => "late refresh" \in trouble
    BY <1>2, OneFlight
  <1>3. PICK place \in {"retry", "failing"} :
          Lands(r, place) /\ (SavesRefresh(r) => place = "retry")
    BY <1>2 DEF RefreshBreaks, SavesRefresh
  <1>4. /\ req' \in [Request -> RequestType(issued)] /\ flight' \in [Request -> FlightType(issued)]
        /\ \A q \in Request : flight'[q].at = "none"
        /\ \A q \in Request : \/ req'[q] = req[q]
                              \/ req[q].at = "waiting" /\ req'[q].at = place
    BY <1>2, <1>3, Landing
  <1>5. refresh' \in 0..issued
    <2>1. flight[r] \in FlightType(issued)
      BY <1>t
    <2>2. flight[r].new \in 0..issued
      BY <2>1 DEF FlightType
    <2> QED
      BY <1>t, <2>2 DEF RefreshBreaks, SavesRefresh
  <1>7. ClientTypeOK'
    BY <1>1, <1>2, <1>4, <1>5 DEF ClientTypeOK
  <1>8. FlightIsAwaited'
    <2>1. req'[Leaving] # Idle => req[Leaving] # Idle
      <3>1. req[Leaving].at = "waiting" => req[Leaving] # Idle
        BY Nothing
      <3> QED
        BY <1>4, <3>1
    <2> QED
      BY <1>1, <1>2, <1>4, <2>1 DEF FlightIsAwaited
  <1>9. TokensAreFresh' /\ NoSelfInflictedReuse'
    <2>1. CASE RefreshBreaks(r)
      <3>1. flight[r].at = "broken" /\ refresh' = refresh
        BY <2>1 DEF RefreshBreaks
      <3>2. "cut" \notin trouble => refresh \notin consumed \ revoked
        BY <1>1, <1>6, <3>1 DEF TokensAreFresh
      <3> QED
        BY <1>1, <1>2, <1>4, <3>1, <3>2 DEF TokensAreFresh, NoSelfInflictedReuse
    <2>2. CASE SavesRefresh(r)
      <3>1. flight[r].at = "half" /\ refresh' = flight[r].new
        BY <2>2 DEF SavesRefresh
      <3> QED
        BY <1>1, <1>2, <1>4, <3>1 DEF TokensAreFresh, NoSelfInflictedReuse
    <2> QED
      BY <2>1, <2>2
  <1>10. SessionIsWhole'
    <2>1. CASE RefreshBreaks(r)
      <3>1. ~(user.at = "in" /\ trouble = {})
        BY <1>1, <2>1 DEF SessionIsWhole, RefreshBreaks
      <3> QED
        BY <1>1, <1>2, <1>6, <3>1 DEF SessionIsWhole
    <2>2. CASE SavesRefresh(r)
      <3>1. flight[r].at = "half" /\ refresh' = flight[r].new /\ place = "retry"
        BY <2>2, <1>3 DEF SavesRefresh
      <3> QED
        BY <1>1, <1>2, <1>4, <1>6, <3>1 DEF SessionIsWhole, Live
    <2> QED
      BY <2>1, <2>2
  <1>11. StoreIsEmptied'
    BY <1>1, <1>2, <1>6 DEF StoreIsEmptied
  <1> QED
    BY <1>7, <1>8, <1>9, <1>10, <1>11 DEF ClientInvariant

-----------------------------------------------------------------------------
(* Login and logout *)

(* Where the user may go, with the token he has.                             *)
LEMMA UserMoves ==
    ASSUME NEW n \in Nat, NEW u \in UserType(n),
           NEW a \in {"out", "settling", "in", "leaving", "clearing", "abandoning", "refused"},
           NEW v, v = [u EXCEPT !.at = a]
    PROVE  v \in UserType(n) /\ v.at = a /\ v.token = u.token
  BY DEF UserType

(* While nobody waits for a refresh there is none.                           *)
LEMMA QuietFlight ==
    ASSUME FlightIsAwaited, Quiet
    PROVE  InFlight = {} /\ \A r \in Request : flight[r].at = "none" /\ req[r].at = "idle"
  BY Nothing DEF FlightIsAwaited, Quiet, InFlight

(* The server issues a session to who logs in.                               *)
LEMMA LoginKeeps ==
    ASSUME ClientInvariant, Login
    PROVE  ClientInvariant'
  <1>1. /\ ClientTypeOK /\ FlightIsAwaited /\ TokensAreFresh /\ SessionIsWhole
        /\ StoreIsEmptied /\ NoSelfInflictedReuse
    BY DEF ClientInvariant
  <1>t. /\ issued \in 0..MaxToken /\ access \in 0..issued /\ refresh \in 0..issued
        /\ req \in [Request -> RequestType(issued)] /\ flight \in [Request -> FlightType(issued)]
        /\ user \in UserType(issued)
    BY <1>1 DEF ClientTypeOK
  <1>n. PICK n \in 1..MaxToken : n = issued + 1
    BY <1>t DEF Login
  <1>2. /\ user.at \in {"out", "refused"} /\ issued' = n /\ user' = [at |-> "arriving", token |-> n]
        /\ trouble' = IF Quiet /\ access = 0 /\ refresh = 0 THEN {} ELSE trouble \ {"logout"}
        /\ UNCHANGED <<family, consumed, revoked, stale, storeVars, req, flight>>
    BY <1>n DEF Login
  <1>m. /\ issued \in Nat /\ n \in Nat /\ issued <= n /\ n \in 1..n /\ n \in 0..MaxToken
        /\ n \notin 0..issued /\ n \notin 1..issued /\ 0 \notin 1..issued
    BY <1>t, <1>n
  <1>4. /\ 1..issued \subseteq 1..n /\ 0..issued \subseteq 0..n
        /\ RequestType(issued) \subseteq RequestType(n) /\ FlightType(issued) \subseteq FlightType(n)
    BY <1>m, TypesGrow
  <1>5. user' \in UserType(n) /\ user'.at = "arriving" /\ user'.token = n
    BY <1>2, <1>m DEF UserType
  <1>6. ClientTypeOK'
    <2>1. trouble' \subseteq Trouble
      BY <1>1, <1>2 DEF ClientTypeOK
    <2> QED
      BY <1>1, <1>2, <1>m, <1>4, <1>5, <2>1 DEF ClientTypeOK
  <1>7. FlightIsAwaited'
    BY <1>1, <1>2 DEF FlightIsAwaited
  <1>c. n \notin consumed /\ n \notin revoked /\ 0 \notin consumed
    BY <1>1, <1>m DEF ClientTypeOK
  <1>8. TokensAreFresh'
    <2>1. ASSUME NEW r \in Request
          PROVE  flight[r].token # n /\ flight[r].new # n
      <3>1. flight[r] \in FlightType(issued)
        BY <1>t
      <3> QED
        BY <1>m, <3>1 DEF FlightType
    <2>2. /\ \A r \in Request : flight'[r].at \in {"replied", "half"} =>
                flight'[r].new \in (1..n) \ consumed'
      BY <1>1, <1>2, <1>4 DEF TokensAreFresh
    <2>3. n \in (1..n) \ consumed' /\ refresh' # n
      BY <1>t, <1>2, <1>m, <1>c
    <2>4. "cut" \notin trouble' =>
             /\ \A r \in Request : flight[r].at = "posted" =>
                  flight[r].token \notin consumed \ revoked
             /\ \/ \E r \in Request : flight[r].at \in {"replied", "half"}
                \/ refresh \notin consumed \ revoked
      <3>1. CASE Quiet /\ access = 0 /\ refresh = 0
        BY <1>1, <1>c, <3>1, QuietFlight
      <3>2. CASE ~(Quiet /\ access = 0 /\ refresh = 0)
        BY <1>1, <1>2, <3>2 DEF TokensAreFresh
      <3> QED
        BY <3>1, <3>2
    <2> QED
      BY <1>2, <1>5, <2>1, <2>2, <2>3, <2>4 DEF TokensAreFresh
  <1>9. SessionIsWhole'
    <2>1. ASSUME trouble' = {}
          PROVE  Quiet
      <3>1. CASE Quiet /\ access = 0 /\ refresh = 0
        BY <3>1
      <3>2. CASE ~(Quiet /\ access = 0 /\ refresh = 0)
        <4>1. trouble \subseteq {"logout"}
          BY <1>2, <2>1, <3>2
        <4>2. trouble \cap {"killed", "late refresh", "late request"} = {} /\ "killed" \notin trouble
          BY <4>1
        <4>3. user.at = "out"
          BY <1>1, <1>2, <4>2 DEF SessionIsWhole
        <4> QED
          BY <1>1, <4>2, <4>3 DEF SessionIsWhole
      <3> QED
        BY <3>1, <3>2
    <2>2. Live(n)' /\ Quiet' = Quiet
      BY <1>2, <1>m, <1>c DEF Live, Quiet
    <2> QED
      BY <1>5, <2>1, <2>2 DEF SessionIsWhole
  <1>10. StoreIsEmptied' /\ NoSelfInflictedReuse'
    BY <1>1, <1>2, <1>5 DEF StoreIsEmptied, NoSelfInflictedReuse
  <1> QED
    BY <1>6, <1>7, <1>8, <1>9, <1>10 DEF ClientInvariant

(* The app stores the one token of the session, and then the other.          *)
LEMMA LoginSavesKeep ==
    ASSUME ClientInvariant, LoginSavesAccess \/ LoginSavesRefresh
    PROVE  ClientInvariant'
  <1>1. /\ ClientTypeOK /\ FlightIsAwaited /\ TokensAreFresh /\ SessionIsWhole
        /\ StoreIsEmptied /\ NoSelfInflictedReuse
    BY DEF ClientInvariant
  <1>t. /\ issued \in 0..MaxToken /\ access \in 0..issued /\ refresh \in 0..issued
        /\ req \in [Request -> RequestType(issued)] /\ flight \in [Request -> FlightType(issued)]
        /\ user \in UserType(issued)
    BY <1>1 DEF ClientTypeOK
  <1>2. /\ user.at \in {"arriving", "settling"} /\ issued \in Nat
        /\ user.token \in (1..issued) \ consumed /\ user.token \in 0..issued
        /\ UNCHANGED <<serverVars, req, flight, trouble>>
    BY <1>1, <1>t DEF LoginSavesAccess, LoginSavesRefresh, TokensAreFresh
  <1>q. /\ Quiet' = Quiet /\ InFlight' = InFlight /\ \A t : Live(t)' = Live(t)
    BY <1>2 DEF Quiet, InFlight, Live
  <1>s. trouble = {} => Quiet /\ Live(user.token) /\ (user.at = "settling" => access = user.token)
    BY <1>1, <1>2 DEF SessionIsWhole
  <1>3. CASE LoginSavesAccess
    <2> DEFINE v == [user EXCEPT !.at = "settling"]
    <2>1. v \in UserType(issued) /\ v.at = "settling" /\ v.token = user.token
      BY <1>t, <1>2, UserMoves
    <2>2. user' = v /\ access' = user.token /\ UNCHANGED refresh
      BY <1>3 DEF LoginSavesAccess
    <2> HIDE DEF v
    <2>3. ClientTypeOK' /\ FlightIsAwaited'
      BY <1>1, <1>2, <2>1, <2>2 DEF ClientTypeOK, FlightIsAwaited
    <2>4. TokensAreFresh' /\ NoSelfInflictedReuse'
      BY <1>1, <1>2, <2>1, <2>2 DEF TokensAreFresh, NoSelfInflictedReuse
    <2>5. SessionIsWhole'
      BY <1>2, <1>q, <1>s, <2>1, <2>2 DEF SessionIsWhole
    <2>6. StoreIsEmptied'
      BY <1>1, <1>2, <2>1, <2>2 DEF StoreIsEmptied
    <2> QED
      BY <2>3, <2>4, <2>5, <2>6 DEF ClientInvariant
  <1>4. CASE LoginSavesRefresh
    <2>2. /\ user.at = "settling" /\ refresh' = user.token /\ UNCHANGED access
          /\ user' = [at |-> "in", token |-> 0]
      BY <1>4 DEF LoginSavesRefresh
    <2>1. user' \in UserType(issued) /\ user'.at = "in"
      BY <1>2, <2>2 DEF UserType
    <2>3. ClientTypeOK' /\ FlightIsAwaited'
      BY <1>1, <1>2, <2>1, <2>2 DEF ClientTypeOK, FlightIsAwaited
    <2>4. TokensAreFresh' /\ NoSelfInflictedReuse'
      BY <1>1, <1>2, <2>1, <2>2 DEF TokensAreFresh, NoSelfInflictedReuse
    <2>5. SessionIsWhole'
      <3>1. trouble = {} => InFlight = {} /\ \A r \in Request : flight[r].at = "none" /\ req[r].at = "idle"
        BY <1>1, <1>s, QuietFlight
      <3>2. user.token # 0
        BY <1>2
      <3> QED
        BY <1>2, <1>q, <1>s, <2>1, <2>2, <3>1, <3>2 DEF SessionIsWhole
    <2>6. StoreIsEmptied'
      BY <1>1, <1>2, <2>1, <2>2 DEF StoreIsEmptied
    <2> QED
      BY <2>3, <2>4, <2>5, <2>6 DEF ClientInvariant
  <1> QED
    BY <1>3, <1>4

(* Logout sends the token of the store, if there is one.                     *)
LEMMA LogoutKeeps ==
    ASSUME ClientInvariant, Logout
    PROVE  ClientInvariant'
  <1>1. /\ ClientTypeOK /\ FlightIsAwaited /\ TokensAreFresh /\ SessionIsWhole
        /\ StoreIsEmptied /\ NoSelfInflictedReuse
    BY DEF ClientInvariant
  <1>t. /\ issued \in 0..MaxToken /\ access \in 0..issued /\ refresh \in 0..issued
        /\ req \in [Request -> RequestType(issued)] /\ flight \in [Request -> FlightType(issued)]
        /\ user \in UserType(issued)
    BY <1>1 DEF ClientTypeOK
  <1>2. user.at = "in" /\ UNCHANGED <<serverVars, storeVars, flight, trouble>> /\ issued \in Nat
    BY <1>t DEF Logout
  <1>3. CASE refresh # 0
    <2> DEFINE h == [req[Leaving] EXCEPT !.at = "request", !.op = "logout", !.body = refresh]
               v == [user EXCEPT !.at = "leaving"]
    <2>1. /\ req' = [req EXCEPT ![Leaving] = h] /\ req[Leaving] = Idle /\ user' = v
      BY <1>3 DEF Logout, Begins
    <2>2. h \in RequestType(issued) /\ h.at = "request"
      <3>1. req[Leaving] \in RequestType(issued)
        BY <1>t
      <3> QED
        BY <1>t, <3>1 DEF RequestType
    <2>3. v \in UserType(issued) /\ v.at = "leaving"
      BY <1>t, <1>2, UserMoves
    <2> HIDE DEF h, v
    <2>4. /\ req'[Leaving] = h /\ \A q \in Request \ {Leaving} : req'[q] = req[q]
          /\ req' \in [Request -> RequestType(issued)]
      BY <1>t, <2>1, <2>2
    <2>5. ClientTypeOK'
      BY <1>1, <1>2, <2>1, <2>3, <2>4 DEF ClientTypeOK
    <2>6. FlightIsAwaited'
      BY <1>1, <1>2, <2>1, <2>3, <2>4, Nothing DEF FlightIsAwaited
    <2>7. TokensAreFresh' /\ NoSelfInflictedReuse'
      BY <1>1, <1>2, <2>1, <2>3 DEF TokensAreFresh, NoSelfInflictedReuse
    <2>8. SessionIsWhole'
      BY <2>1, <2>3 DEF SessionIsWhole
    <2>9. StoreIsEmptied'
      BY <1>1, <1>2, <1>3, <2>1, <2>3 DEF StoreIsEmptied
    <2> QED
      BY <2>5, <2>6, <2>7, <2>8, <2>9 DEF ClientInvariant
  <1>4. CASE refresh = 0
    <2> DEFINE v == [user EXCEPT !.at = "clearing"]
    <2>1. user' = v /\ UNCHANGED req
      BY <1>4 DEF Logout
    <2>3. v \in UserType(issued) /\ v.at = "clearing"
      BY <1>t, <1>2, UserMoves
    <2> HIDE DEF v
    <2>5. ClientTypeOK' /\ FlightIsAwaited'
      BY <1>1, <1>2, <2>1, <2>3 DEF ClientTypeOK, FlightIsAwaited
    <2>7. TokensAreFresh' /\ NoSelfInflictedReuse'
      BY <1>1, <1>2, <2>1, <2>3 DEF TokensAreFresh, NoSelfInflictedReuse
    <2>8. SessionIsWhole'
      BY <2>1, <2>3 DEF SessionIsWhole
    <2>9. StoreIsEmptied'
      BY <1>1, <1>2, <1>4, <2>1, <2>3 DEF StoreIsEmptied, InFlight
    <2> QED
      BY <2>5, <2>7, <2>8, <2>9 DEF ClientInvariant
  <1> QED
    BY <1>3, <1>4

(* The server revokes the family, or an access token is accepted no longer.  *)
LEMMA ServerKeeps ==
    ASSUME ClientInvariant, LoggedOut \/ Expires
    PROVE  ClientInvariant'
  <1>1. /\ ClientTypeOK /\ FlightIsAwaited /\ TokensAreFresh /\ SessionIsWhole
        /\ StoreIsEmptied /\ NoSelfInflictedReuse
    BY DEF ClientInvariant
  <1>t. /\ issued \in 0..MaxToken /\ access \in 0..issued /\ refresh \in 0..issued
        /\ req \in [Request -> RequestType(issued)] /\ flight \in [Request -> FlightType(issued)]
        /\ user \in UserType(issued)
    BY <1>1 DEF ClientTypeOK
  <1>3. CASE LoggedOut
    <2> DEFINE h == [req[Leaving] EXCEPT !.at = "answered", !.bearer = 0]
    <2>1. /\ req[Leaving].at = "sent" /\ req' = [req EXCEPT ![Leaving] = h]
          /\ revoked \subseteq revoked' /\ revoked' \subseteq 1..issued /\ stale' \subseteq 1..issued
          /\ UNCHANGED <<issued, family, consumed, storeVars, flight, user, trouble>>
      BY <1>1, <1>3 DEF LoggedOut, Serves, Accepted, ClientTypeOK
    <2>2. h \in RequestType(issued) /\ h.at = "answered"
      <3>1. req[Leaving] \in RequestType(issued) /\ issued \in Nat /\ 0 \in 0..issued
        BY <1>t
      <3> QED
        BY <3>1 DEF RequestType
    <2> HIDE DEF h
    <2>4. /\ req'[Leaving] = h /\ \A q \in Request \ {Leaving} : req'[q] = req[q]
          /\ req' \in [Request -> RequestType(issued)]
      BY <1>t, <2>1, <2>2
    <2>l. user.at = "leaving"
      BY <1>1, <2>1, Nothing DEF FlightIsAwaited
    <2>5. ClientTypeOK'
      BY <1>1, <2>1, <2>4 DEF ClientTypeOK
    <2>6. FlightIsAwaited'
      BY <1>1, <2>1, <2>4, <2>l, Nothing DEF FlightIsAwaited
    <2>7. TokensAreFresh' /\ NoSelfInflictedReuse'
      BY <1>1, <2>1, <2>l DEF TokensAreFresh, NoSelfInflictedReuse
    <2>8. SessionIsWhole'
      BY <2>1, <2>l DEF SessionIsWhole
    <2>9. StoreIsEmptied'
      BY <1>1, <2>1, <2>l DEF StoreIsEmptied, InFlight
    <2> QED
      BY <2>5, <2>6, <2>7, <2>8, <2>9 DEF ClientInvariant
  <1>4. CASE Expires
    <2>1. /\ stale' \subseteq 1..issued
          /\ UNCHANGED <<issued, family, consumed, revoked, storeVars, req, flight, user, trouble>>
      BY <1>1, <1>4 DEF Expires, ClientTypeOK
    <2>5. ClientTypeOK' /\ FlightIsAwaited'
      BY <1>1, <2>1 DEF ClientTypeOK, FlightIsAwaited
    <2>7. TokensAreFresh' /\ NoSelfInflictedReuse'
      BY <1>1, <2>1 DEF TokensAreFresh, NoSelfInflictedReuse
    <2>8. SessionIsWhole' /\ StoreIsEmptied'
      BY <1>1, <2>1 DEF SessionIsWhole, StoreIsEmptied, Quiet, InFlight, Live
    <2> QED
      BY <2>5, <2>7, <2>8 DEF ClientInvariant
  <1> QED
    BY <1>3, <1>4

(* Logout has its answer, or an exception that nobody catches.               *)
LEMMA LogoutReturnsKeeps ==
    ASSUME ClientInvariant, LogoutReturns
    PROVE  ClientInvariant'
  <1>1. /\ ClientTypeOK /\ FlightIsAwaited /\ TokensAreFresh /\ SessionIsWhole
        /\ StoreIsEmptied /\ NoSelfInflictedReuse
    BY DEF ClientInvariant
  <1>t. /\ issued \in 0..MaxToken /\ access \in 0..issued /\ refresh \in 0..issued
        /\ req \in [Request -> RequestType(issued)] /\ flight \in [Request -> FlightType(issued)]
        /\ user \in UserType(issued)
    BY <1>1 DEF ClientTypeOK
  <1>2. PICK a \in {"clearing", "abandoning"} :
          /\ user' = [user EXCEPT !.at = a] /\ req' = [req EXCEPT ![Leaving] = Idle]
          /\ req[Leaving].at \in {"answered", "failing"}
          /\ UNCHANGED <<serverVars, storeVars, flight, trouble>>
    BY DEF LogoutReturns, Delivered, Failed
  <1>3. issued \in Nat /\ req[Leaving] # Idle /\ Leaving \in Request
    BY <1>t, <1>2, Nothing
  <1>4. user.at = "leaving"
    BY <1>1, <1>3 DEF FlightIsAwaited
  <1>5. user' \in UserType(issued) /\ user'.at = a
    BY <1>t, <1>2, <1>3, UserMoves
  <1>6. /\ req'[Leaving] = Idle /\ \A q \in Request \ {Leaving} : req'[q] = req[q]
        /\ req' \in [Request -> RequestType(issued)]
    BY <1>t, <1>2, <1>3, Nothing
  <1>7. ClientTypeOK'
    BY <1>1, <1>2, <1>5, <1>6 DEF ClientTypeOK
  <1>8. FlightIsAwaited'
    BY <1>1, <1>2, <1>6 DEF FlightIsAwaited
  <1>9. TokensAreFresh' /\ NoSelfInflictedReuse'
    BY <1>1, <1>2, <1>5 DEF TokensAreFresh, NoSelfInflictedReuse
  <1>10. SessionIsWhole'
    BY <1>5 DEF SessionIsWhole
  <1>11. StoreIsEmptied'
    BY <1>1, <1>2, <1>4, <1>5 DEF StoreIsEmptied, InFlight
  <1> QED
    BY <1>7, <1>8, <1>9, <1>10, <1>11 DEF ClientInvariant

(* The store is cleared, whatever is under way.                              *)
LEMMA LogoutClearsKeeps ==
    ASSUME ClientInvariant, LogoutClears
    PROVE  ClientInvariant'
  <1>1. /\ ClientTypeOK /\ FlightIsAwaited /\ TokensAreFresh /\ SessionIsWhole
        /\ StoreIsEmptied /\ NoSelfInflictedReuse
    BY DEF ClientInvariant
  <1>t. /\ issued \in 0..MaxToken /\ access \in 0..issued /\ refresh \in 0..issued
        /\ req \in [Request -> RequestType(issued)] /\ flight \in [Request -> FlightType(issued)]
        /\ user \in UserType(issued)
    BY <1>1 DEF ClientTypeOK
  <1>2. PICK a \in {"out", "in"} :
          /\ user' = [user EXCEPT !.at = a] /\ (a = "in" => user.at = "abandoning")
          /\ user.at \in {"clearing", "abandoning"}
          /\ access' = 0 /\ refresh' = 0 /\ UNCHANGED <<serverVars, req, flight>>
    BY DEF LogoutClears
  <1>3. /\ trouble \subseteq trouble' /\ trouble' \subseteq trouble \cup Trouble
        /\ (user.at = "abandoning" => "logout" \in trouble')
        /\ (InFlight # {} => "late refresh" \in trouble')
        /\ (~Quiet => "late request" \in trouble')
        /\ ("cut" \in trouble' => "cut" \in trouble) /\ ("reuse" \in trouble' => "reuse" \in trouble)
    BY DEF LogoutClears, Trouble
  <1>4. issued \in Nat /\ 0 \in 0..issued /\ 0 \notin 1..issued
    BY <1>t
  <1>5. user' \in UserType(issued) /\ user'.at = a
    BY <1>t, <1>2, <1>4, UserMoves
  <1>6. ClientTypeOK'
    <2>1. trouble' \subseteq Trouble
      BY <1>1, <1>3 DEF ClientTypeOK
    <2> QED
      BY <1>1, <1>2, <1>4, <1>5, <2>1 DEF ClientTypeOK
  <1>7. FlightIsAwaited'
    BY <1>1, <1>2 DEF FlightIsAwaited
  <1>8. TokensAreFresh' /\ NoSelfInflictedReuse'
    <2>1. 0 \notin consumed
      BY <1>1, <1>4 DEF ClientTypeOK
    <2> QED
      BY <1>1, <1>2, <1>3, <1>5, <2>1 DEF TokensAreFresh, NoSelfInflictedReuse
  <1>9. SessionIsWhole'
    <2>1. Quiet' = Quiet
      BY <1>2 DEF Quiet
    <2> QED
      BY <1>2, <1>3, <1>5, <2>1 DEF SessionIsWhole
  <1>10. StoreIsEmptied'
    <2>1. InFlight' = InFlight
      BY <1>2 DEF InFlight
    <2> QED
      BY <1>2, <1>3, <1>5, <2>1 DEF StoreIsEmptied
  <1> QED
    BY <1>6, <1>7, <1>8, <1>9, <1>10 DEF ClientInvariant

(* The app dies and is started again.                                        *)
LEMMA KilledKeeps ==
    ASSUME ClientInvariant, Killed
    PROVE  ClientInvariant'
  <1>1. /\ ClientTypeOK /\ FlightIsAwaited /\ TokensAreFresh /\ SessionIsWhole
        /\ StoreIsEmptied /\ NoSelfInflictedReuse
    BY DEF ClientInvariant
  <1>t. /\ issued \in 0..MaxToken /\ access \in 0..issued /\ refresh \in 0..issued
        /\ req \in [Request -> RequestType(issued)] /\ flight \in [Request -> FlightType(issued)]
        /\ user \in UserType(issued)
    BY <1>1 DEF ClientTypeOK
  <1>2. PICK a \in {"out", "starting"} :
          /\ user' = [at |-> a, token |-> 0] /\ (a = "starting" <=> access # 0)
          /\ UNCHANGED <<serverVars, storeVars>>
    BY DEF Killed
  <1>3. /\ trouble' \subseteq {"cut", "killed"} /\ "killed" \in trouble'
        /\ (InFlight # {} \/ "cut" \in trouble => "cut" \in trouble')
    BY DEF Killed
  <1>4. issued \in Nat
    BY <1>t
  <1>5. user' \in UserType(issued) /\ user'.at = a
    BY <1>2, <1>4 DEF UserType
  <1>n. Idle \in RequestType(issued) /\ NoFlight \in FlightType(issued) /\ NoFlight.at = "none"
    BY <1>4, Nothing
  <1>6. /\ req' \in [Request -> RequestType(issued)] /\ req'[Leaving] = Idle
        /\ access = 0 => \A r \in Request : req'[r] = Idle
    <2>1. CASE access = 0
      BY <1>n, <2>1 DEF Killed
    <2>2. CASE access # 0
      <3> DEFINE h == [Idle EXCEPT !.at = "request", !.op = "me"]
      <3>1. h \in RequestType(issued)
        BY <1>n DEF RequestType
      <3>2. PICK me \in Request \ {Leaving} : req' = [r \in Request |-> IF r = me THEN h ELSE Idle]
        BY <2>2 DEF Killed
      <3> HIDE DEF h
      <3> QED
        BY <1>n, <2>2, <3>1, <3>2
    <2> QED
      BY <2>1, <2>2
  <1>f. flight' \in [Request -> FlightType(issued)] /\ \A r \in Request : flight'[r].at = "none"
    BY <1>n DEF Killed
  <1>7. ClientTypeOK'
    BY <1>1, <1>2, <1>3, <1>5, <1>6, <1>f DEF ClientTypeOK, Trouble
  <1>8. FlightIsAwaited'
    BY <1>6, <1>f DEF FlightIsAwaited
  <1>9. TokensAreFresh' /\ NoSelfInflictedReuse'
    <2>1. "cut" \notin trouble' => refresh \notin consumed \ revoked
      BY <1>1, <1>3 DEF TokensAreFresh, InFlight
    <2> QED
      BY <1>1, <1>2, <1>3, <1>5, <1>f, <2>1 DEF TokensAreFresh, NoSelfInflictedReuse
  <1>10. SessionIsWhole'
    BY <1>3, <1>5 DEF SessionIsWhole
  <1>11. StoreIsEmptied'
    <2>1. InFlight' = {} /\ (access = 0 => Quiet')
      BY <1>6, <1>f DEF InFlight, Quiet
    <2> QED
      BY <1>1, <1>2, <1>3, <1>5, <2>1 DEF StoreIsEmptied
  <1> QED
    BY <1>7, <1>8, <1>9, <1>10, <1>11 DEF ClientInvariant

(* _checkSession has its answer.                                            *)
LEMMA SessionCheckedKeeps ==
    ASSUME ClientInvariant, NEW r \in Request, SessionChecked(r)
    PROVE  ClientInvariant'
  <1>1. /\ ClientTypeOK /\ FlightIsAwaited /\ TokensAreFresh /\ SessionIsWhole
        /\ StoreIsEmptied /\ NoSelfInflictedReuse
    BY DEF ClientInvariant
  <1>t. issued \in Nat /\ req \in [Request -> RequestType(issued)] /\ user \in UserType(issued)
    BY <1>1 DEF ClientTypeOK
  <1>2. PICK a \in {"in", "refused"} :
          /\ user' = [user EXCEPT !.at = a] /\ req' = [req EXCEPT ![r] = Idle]
          /\ user.at = "starting" /\ req[r].at \in {"answered", "failing"}
          /\ UNCHANGED <<serverVars, storeVars, flight, trouble>>
    BY DEF SessionChecked, Delivered, Failed
  <1>3. user' \in UserType(issued) /\ user'.at = a
    BY <1>t, <1>2, UserMoves
  <1>4. /\ req'[r] = Idle /\ \A q \in Request \ {r} : req'[q] = req[q]
        /\ req' \in [Request -> RequestType(issued)]
    BY <1>t, <1>2, Nothing
  <1>5. "killed" \in trouble
    BY <1>1, <1>2 DEF SessionIsWhole
  <1>6. ClientTypeOK'
    BY <1>1, <1>2, <1>3, <1>4 DEF ClientTypeOK
  <1>7. FlightIsAwaited'
    BY <1>1, <1>2, <1>4 DEF FlightIsAwaited
  <1>8. TokensAreFresh' /\ NoSelfInflictedReuse'
    BY <1>1, <1>2, <1>3 DEF TokensAreFresh, NoSelfInflictedReuse
  <1>9. SessionIsWhole'
    BY <1>2, <1>3, <1>5 DEF SessionIsWhole
  <1>10. StoreIsEmptied'
    BY <1>1, <1>2, <1>3 DEF StoreIsEmptied, InFlight
  <1> QED
    BY <1>6, <1>7, <1>8, <1>9, <1>10 DEF ClientInvariant

(* Every step of the client keeps the client's part of the invariant.        *)
LEMMA ClientKeeps ==
    ASSUME ClientInvariant,
           \/ \E r \in Request : RequestStep(r)
           \/ SessionStep \/ Logout \/ Killed
    PROVE  ClientInvariant'
  <1>1. ASSUME NEW r \in Request, RequestStep(r)
        PROVE  ClientInvariant'
    <2>1. CASE onRequest(r) \/ Refused(r) \/ Lost(r) \/ Retries(r)
      BY <2>1, RequestKeeps
    <2>2. CASE onError(r)
      BY <2>2, RequestKeeps, RefreshStarts
    <2>3. CASE ClearsTokens(r)
      BY <2>3, ClearsKeeps
    <2>4. CASE RefreshServed(r)
      BY <2>4, RotationKeeps, ReuseKeeps
    <2>5. CASE RefreshLost(r) \/ SavesAccess(r)
      BY <2>5, FlightKeeps
    <2>6. CASE RefreshBreaks(r) \/ SavesRefresh(r)
      BY <2>6, LandingKeeps
    <2> QED
      BY <1>1, <2>1, <2>2, <2>3, <2>4, <2>5, <2>6 DEF RequestStep
  <1>2. CASE SessionStep
    BY <1>2, LoginKeeps, LoginSavesKeep, ServerKeeps, LogoutReturnsKeeps, LogoutClearsKeeps,
       PasswordKeeps, SessionCheckedKeeps DEF SessionStep
  <1> QED
    BY <1>1, <1>2, LogoutKeeps, KilledKeeps

-----------------------------------------------------------------------------
(* The screen *)

(* The polls that somebody watches are some of the polls.                    *)
LEMMA WatchedCount ==
    /\ IsFiniteSet(Poll) /\ Cardinality(Poll) \in Nat /\ IsFiniteSet(WatchedPolls)
    /\ Cardinality(WatchedPolls) \in Nat /\ Cardinality(WatchedPolls) <= Cardinality(Poll)
  <1>1. Poll \subseteq Request /\ WatchedPolls \subseteq Poll
    BY DEF Poll, WatchedPolls
  <1>2. IsFiniteSet(Poll)
    BY <1>1, FS_Subset
  <1>3. /\ IsFiniteSet(WatchedPolls) /\ Cardinality(WatchedPolls) <= Cardinality(Poll)
    BY <1>1, <1>2, FS_Subset
  <1> QED
    BY <1>2, <1>3, FS_CardinalityType

(* So the count of the attempts is bounded by what PollingIsWatched says.    *)
LEMMA AttemptsBounded ==
    ASSUME PollingIsWatched, attempts \in Nat
    PROVE  attempts \in 0..(pollMaxAttempts + Cardinality(Poll) - 1)
  BY WatchedCount DEF PollingIsWatched

(* A poll is answered for nobody, or asked for somebody: at most all of them *)
(* are watched then.                                                        *)
LEMMA PollAsked ==
    ASSUME TypeOK, PollingIsWatched, NEW r \in Poll, Begins(r, "get", 0),
           startPolling(r) \/ Polls(r)
    PROVE  PollingIsWatched' /\ seen' \in [Poll -> {"none", "asked", "pending"} \cup Settled]
  <1>1. seen' = [seen EXCEPT ![r] = "asked"] /\ seen \in [Poll -> {"none", "asked", "pending"} \cup Settled]
    BY DEF startPolling, Polls, TypeOK
  <1>2. /\ IsFiniteSet(Poll) /\ WatchedPolls' \subseteq Poll
    BY WatchedCount DEF WatchedPolls
  <1>3. /\ Cardinality(WatchedPolls') \in Nat /\ Cardinality(Poll) \in Nat
        /\ Cardinality(WatchedPolls') <= Cardinality(Poll)
    BY <1>2, FS_Subset, FS_CardinalityType
  <1>4. attempts' \in Nat /\ attempts' < pollMaxAttempts
    BY DEF startPolling, Polls, TypeOK
  <1>5. timer' = TRUE /\ shown' = "polling" /\ user'.at = "in"
    BY DEF startPolling, Polls, PollingIsWatched
  <1>6. attempts' + Cardinality(WatchedPolls') < pollMaxAttempts + Cardinality(Poll)
    BY <1>3, <1>4
  <1> QED
    BY <1>1, <1>5, <1>6 DEF PollingIsWatched

(* A poll that ends is watched no more and counted instead.                  *)
LEMMA PollShown ==
    ASSUME TypeOK, PollingIsWatched, NEW r \in Poll, Watched(r),
           NEW status \in {"polling"} \cup Settled, Shows(r, status)
    PROVE  /\ PollingIsWatched' /\ attempts' \in Nat
           /\ seen' \in [Poll -> {"none", "asked", "pending"} \cup Settled]
  <1>1. /\ seen \in [Poll -> {"none", "asked", "pending"} \cup Settled] /\ attempts \in Nat
        /\ timer \in BOOLEAN /\ overlapped \in BOOLEAN
    BY DEF TypeOK
  <1>2. /\ seen' = [seen EXCEPT ![r] = "none"] /\ attempts' = attempts + 1 /\ shown' = status
        /\ timer' = (timer /\ status \notin Settled) /\ UNCHANGED user
    BY DEF Shows
  <1>3. seen' \in [Poll -> {"none", "asked", "pending"} \cup Settled] /\ attempts' \in Nat
    BY <1>1, <1>2
  <1>4. WatchedPolls' = WatchedPolls \ {r} /\ r \in WatchedPolls
    BY <1>1, <1>2 DEF WatchedPolls, Watched
  <1>5. attempts' + Cardinality(WatchedPolls') < pollMaxAttempts + Cardinality(Poll)
    <2> DEFINE W == WatchedPolls
               V == W \ {r}
    <2>1. IsFiniteSet(W) /\ Cardinality(W) \in Nat /\ Cardinality(Poll) \in Nat
      BY WatchedCount
    <2>2. r \in W
      BY <1>4
    <2> HIDE DEF W
    <2>3. Cardinality(V) = Cardinality(W) - 1
      BY <2>1, <2>2, FS_RemoveElement
    <2> HIDE DEF V
    <2>4. WatchedPolls' = V
      BY <1>4 DEF V, W
    <2>5. attempts + Cardinality(W) < pollMaxAttempts + Cardinality(Poll)
      BY DEF PollingIsWatched, W
    <2>6. attempts + 1 + Cardinality(V) < pollMaxAttempts + Cardinality(Poll)
      BY <1>1, <2>1, <2>3, <2>5
    <2>7. attempts' + Cardinality(V) < pollMaxAttempts + Cardinality(Poll)
      BY <1>2, <2>6
    <2> QED
      BY <2>4, <2>7
  <1>6. timer' => user'.at = "in" /\ shown' = "polling"
    BY <1>2 DEF PollingIsWatched
  <1>7. timer \/ overlapped
    BY <1>4 DEF PollingIsWatched
  <1>8. ASSUME ~timer', ~overlapped'
        PROVE  shown' # "polling" /\ WatchedPolls' = {}
    <2>1. ~overlapped /\ (status \in Settled => \A q \in Poll \ {r} : ~Watched(q))
      BY <1>8 DEF Shows
    <2>2. status \in Settled
      BY <1>2, <1>7, <1>8, <2>1
    <2>3. WatchedPolls \subseteq {r}
      BY <2>1, <2>2 DEF WatchedPolls
    <2> QED
      BY <1>2, <1>4, <2>2, <2>3 DEF Settled
  <1> QED
    BY <1>3, <1>5, <1>6, <1>8 DEF PollingIsWatched

(* Every step of the system keeps the invariant.                             *)
LEMMA MobileNext ==
    ASSUME MobileInvariant, [Next]_vars
    PROVE  MobileInvariant'
  <1>1. TypeOK /\ ClientInvariant /\ PollingIsWatched
    BY DEF MobileInvariant
  <1>t. /\ payment \in {"pending"} \cup Settled
        /\ shown \in {"none", "polling", "timeout"} \cup Settled
        /\ attempts \in Nat /\ timer \in BOOLEAN /\ overlapped \in BOOLEAN
        /\ seen \in [Poll -> {"none", "asked", "pending"} \cup Settled]
    BY <1>1 DEF TypeOK
  <1>p. \A r \in Poll : r \in Request
    BY DEF Poll
  <1>k. ASSUME ClientInvariant', UNCHANGED pollVars, timer => user'.at = "in"
        PROVE  MobileInvariant'
    <2>1. WatchedPolls' = WatchedPolls
      BY <1>k DEF WatchedPolls, Watched
    <2>2. PollingIsWatched'
      BY <1>1, <1>k, <2>1 DEF PollingIsWatched
    <2>3. TypeOK'
      BY <1>1, <1>k DEF TypeOK, ClientInvariant
    <2> QED
      BY <1>k, <2>2, <2>3 DEF MobileInvariant
  <1>m. ASSUME ClientInvariant', PollingIsWatched', attempts' \in Nat,
               payment' \in {"pending"} \cup Settled,
               shown' \in {"none", "polling", "timeout"} \cup Settled,
               timer' \in BOOLEAN, overlapped' \in BOOLEAN,
               seen' \in [Poll -> {"none", "asked", "pending"} \cup Settled]
        PROVE  MobileInvariant'
    <2>1. Cardinality(Poll) \in Nat /\ Cardinality(WatchedPolls') \in Nat
      <3>1. WatchedPolls' \subseteq Poll /\ IsFiniteSet(Poll)
        BY WatchedCount DEF WatchedPolls
      <3> QED
        BY <3>1, FS_Subset, FS_CardinalityType
    <2>2. attempts' \in 0..(pollMaxAttempts + Cardinality(Poll) - 1)
      BY <1>m, <2>1 DEF PollingIsWatched
    <2> QED
      BY <1>m, <2>2 DEF MobileInvariant, TypeOK, ClientInvariant
  <1>2. CASE \E r \in Request : RequestStep(r) /\ UNCHANGED pollVars
    <2>1. UNCHANGED user
      BY <1>2 DEF RequestStep, onRequest, Refused, Lost, onError, Retries, ClearsTokens,
                  RefreshServed, RefreshLost, RefreshBreaks, SavesAccess, SavesRefresh
    <2>2. timer => user.at = "in"
      BY <1>1 DEF PollingIsWatched
    <2> QED
      BY <1>1, <1>2, <1>k, <2>1, <2>2, ClientKeeps
  <1>3. CASE SessionStep /\ UNCHANGED pollVars
    <2>1. timer => user.at = "in"
      BY <1>1 DEF PollingIsWatched
    <2>2. user.at = "in" => UNCHANGED user
      <3>1. LogoutReturns => user.at = "leaving"
        BY <1>1, Nothing DEF LogoutReturns, Delivered, Failed, ClientInvariant, FlightIsAwaited
      <3> QED
        BY <1>3, <3>1 DEF SessionStep, Login, LoginSavesAccess, LoginSavesRefresh, LoggedOut,
                          LogoutClears, Expires, PasswordChanged, SessionChecked
    <2> QED
      BY <1>1, <1>3, <1>k, <2>1, <2>2, ClientKeeps
  <1>u. ASSUME UNCHANGED clientVars
        PROVE  ClientInvariant' /\ user' = user
    <2>1. ClientTypeOK' /\ FlightIsAwaited'
      BY <1>1, <1>u DEF ClientInvariant, ClientTypeOK, FlightIsAwaited
    <2>2. TokensAreFresh' /\ NoSelfInflictedReuse'
      BY <1>1, <1>u DEF ClientInvariant, TokensAreFresh, NoSelfInflictedReuse
    <2>3. SessionIsWhole' /\ StoreIsEmptied'
      BY <1>1, <1>u DEF ClientInvariant, SessionIsWhole, StoreIsEmptied, Quiet, InFlight, Live
    <2> QED
      BY <1>u, <2>1, <2>2, <2>3 DEF ClientInvariant
  <1>4. CASE (Logout \/ Killed \/ UNCHANGED clientVars) /\ Dispose
    <2>1. /\ shown' = "none" /\ attempts' = 0 /\ timer' = FALSE /\ overlapped' = FALSE
          /\ seen' = [r \in Poll |-> "none"] /\ UNCHANGED payment
      BY <1>4 DEF Dispose
    <2>2. WatchedPolls' = {}
      BY <2>1 DEF WatchedPolls, Watched
    <2>3. Cardinality(WatchedPolls') = 0 /\ Cardinality(Poll) \in Nat
      BY <2>2, FS_EmptySet, WatchedCount
    <2>4. PollingIsWatched'
      BY <2>1, <2>2, <2>3 DEF PollingIsWatched
    <2>5. ClientInvariant'
      BY <1>1, <1>4, <1>u, ClientKeeps
    <2> QED
      BY <1>t, <1>m, <2>1, <2>4, <2>5
  <1>5. ASSUME NEW r \in Poll, startPolling(r) \/ Polls(r)
        PROVE  MobileInvariant'
    <2>1. /\ Begins(r, "get", 0) /\ user.at = "in"
          /\ UNCHANGED <<serverVars, storeVars, flight, user, trouble, payment>>
      BY <1>1, <1>5 DEF startPolling, Polls, PollingIsWatched
    <2>2. ClientInvariant'
      BY <1>1, <2>1, PollRequestKeeps
    <2>3. PollingIsWatched' /\ seen' \in [Poll -> {"none", "asked", "pending"} \cup Settled]
      BY <1>1, <1>5, <2>1, PollAsked
    <2>4. /\ shown' \in {"none", "polling", "timeout"} \cup Settled
          /\ attempts' \in Nat /\ timer' \in BOOLEAN /\ overlapped' \in BOOLEAN
      <3>1. CASE startPolling(r)
        BY <3>1 DEF startPolling
      <3>2. CASE Polls(r)
        BY <1>t, <3>2 DEF Polls
      <3> QED
        BY <1>5, <3>1, <3>2
    <2> QED
      BY <1>t, <1>m, <2>1, <2>2, <2>3, <2>4
  <1>6. ASSUME NEW r \in Poll, PollAnswered(r)
        PROVE  MobileInvariant'
    <2>1. /\ Answered(r) /\ UNCHANGED <<payment, shown, attempts, timer, overlapped, user>>
          /\ seen' = [seen EXCEPT ![r] = IF seen[r] = "none" THEN "none" ELSE payment]
      BY <1>6 DEF PollAnswered, Answered
    <2>2. ClientInvariant'
      BY <1>1, <1>p, <2>1, RequestKeeps DEF Answered
    <2>3. WatchedPolls' = WatchedPolls /\ seen' \in [Poll -> {"none", "asked", "pending"} \cup Settled]
      BY <1>t, <2>1 DEF WatchedPolls, Watched, Settled
    <2>4. PollingIsWatched'
      BY <1>1, <2>1, <2>3 DEF PollingIsWatched
    <2> QED
      BY <1>t, <1>m, <2>1, <2>2, <2>3, <2>4
  <1>7. ASSUME NEW r \in Poll, PollReturns(r) \/ PollFails(r)
        PROVE  MobileInvariant'
    <2>1. PICK status \in {"polling"} \cup Settled : Shows(r, status)
      BY <1>7 DEF PollReturns, PollFails
    <2>2. /\ Watched(r) /\ (Delivered(r) \/ Failed(r))
          /\ UNCHANGED <<serverVars, storeVars, flight, user, trouble, payment>>
      BY <1>7 DEF PollReturns, PollFails, Shows
    <2>3. ClientInvariant'
      BY <1>1, <2>2, PollRequestKeeps
    <2>4. /\ PollingIsWatched' /\ attempts' \in Nat
          /\ seen' \in [Poll -> {"none", "asked", "pending"} \cup Settled]
      BY <1>1, <2>1, <2>2, PollShown
    <2>5. /\ shown' \in {"none", "polling", "timeout"} \cup Settled
          /\ timer' \in BOOLEAN /\ overlapped' \in BOOLEAN
      BY <1>t, <2>1 DEF Shows
    <2> QED
      BY <1>t, <1>m, <2>2, <2>3, <2>4, <2>5
  <1>8. ASSUME NEW r \in Poll, PollForgotten(r)
        PROVE  MobileInvariant'
    <2>1. /\ Delivered(r) \/ Failed(r)
          /\ UNCHANGED <<serverVars, storeVars, flight, user, trouble, pollVars>>
      BY <1>8 DEF PollForgotten
    <2>2. ClientInvariant'
      BY <1>1, <2>1, PollRequestKeeps
    <2> QED
      BY <1>1, <1>k, <2>1, <2>2 DEF PollingIsWatched
  <1>c. ASSUME NEW r \in Poll, changePassword(r) /\ UNCHANGED pollVars
        PROVE  MobileInvariant'
    <2>1. /\ Begins(r, "password", 0) /\ user.at = "in"
          /\ UNCHANGED <<serverVars, storeVars, flight, user, trouble, pollVars>>
      BY <1>c DEF changePassword
    <2>2. ClientInvariant'
      BY <1>1, <2>1, PollRequestKeeps
    <2> QED
      BY <1>k, <2>1, <2>2
  <1>9. CASE PollsNoMore
    <2>1. /\ timer' = FALSE /\ shown' = "timeout"
          /\ overlapped' = (overlapped \/ \E r \in Poll : Watched(r))
          /\ UNCHANGED <<clientVars, payment, attempts, seen>>
      BY <1>9 DEF PollsNoMore
    <2>2. WatchedPolls' = WatchedPolls /\ (~overlapped' => WatchedPolls = {})
      BY <2>1 DEF WatchedPolls, Watched
    <2>3. PollingIsWatched'
      BY <1>1, <2>1, <2>2 DEF PollingIsWatched
    <2>4. ClientInvariant'
      BY <1>u, <2>1
    <2> QED
      BY <1>t, <1>m, <2>1, <2>3, <2>4
  <1>10. CASE Settles
    <2>1. /\ payment' \in Settled /\ UNCHANGED <<clientVars, shown, attempts, timer, seen, overlapped>>
      BY <1>10 DEF Settles
    <2>2. ClientInvariant' /\ user' = user
      BY <1>u, <2>1
    <2>3. WatchedPolls' = WatchedPolls
      BY <2>1 DEF WatchedPolls, Watched
    <2>4. PollingIsWatched'
      BY <1>1, <2>1, <2>2, <2>3 DEF PollingIsWatched
    <2> QED
      BY <1>t, <1>m, <2>1, <2>2, <2>4
  <1>11. CASE UNCHANGED vars
    <2>1. ClientInvariant' /\ user' = user /\ UNCHANGED pollVars
      BY <1>u, <1>11 DEF vars
    <2> QED
      BY <1>1, <1>k, <2>1 DEF PollingIsWatched
  <1> QED
    BY <1>2, <1>3, <1>4, <1>5, <1>6, <1>7, <1>8, <1>9, <1>10, <1>11, <1>c DEF Next, Leaves

-----------------------------------------------------------------------------
(* Theorems *)

(* The app starts with nothing: no token, no request, no screen.             *)
LEMMA MobileInit == Init => MobileInvariant
  <1> SUFFICES ASSUME Init PROVE MobileInvariant
    OBVIOUS
  <1>1. /\ issued = 0 /\ family = [t \in Token |-> t] /\ consumed = {} /\ revoked = {} /\ stale = {}
        /\ access = 0 /\ refresh = 0 /\ trouble = {} /\ user = [at |-> "out", token |-> 0]
        /\ req = [r \in Request |-> Idle] /\ flight = [r \in Request |-> NoFlight]
        /\ payment = "pending" /\ shown = "none" /\ attempts = 0 /\ timer = FALSE
        /\ seen = [r \in Poll |-> "none"] /\ overlapped = FALSE
    BY DEF Init, ClientInit
  <1>2. Idle \in RequestType(0) /\ NoFlight \in FlightType(0) /\ NoFlight.at = "none"
    BY Nothing
  <1>3. user \in UserType(0) /\ user.at = "out"
    BY <1>1 DEF UserType
  <1>4. ClientTypeOK
    BY <1>1, <1>2, <1>3 DEF ClientTypeOK
  <1>5. InFlight = {} /\ Quiet
    BY <1>1, <1>2 DEF InFlight, Quiet
  <1>6. FlightIsAwaited /\ TokensAreFresh /\ NoSelfInflictedReuse
    BY <1>1, <1>2, <1>3 DEF FlightIsAwaited, TokensAreFresh, NoSelfInflictedReuse
  <1>7. SessionIsWhole /\ StoreIsEmptied
    BY <1>1, <1>3, <1>5 DEF SessionIsWhole, StoreIsEmptied
  <1>8. WatchedPolls = {}
    BY <1>1 DEF WatchedPolls, Watched
  <1>9. Cardinality(WatchedPolls) = 0 /\ Cardinality(Poll) \in Nat
    BY <1>8, FS_EmptySet, WatchedCount
  <1>10. PollingIsWatched
    BY <1>1, <1>8, <1>9 DEF PollingIsWatched
  <1>11. attempts \in 0..(pollMaxAttempts + Cardinality(Poll) - 1)
    BY <1>1, <1>10, AttemptsBounded
  <1> QED
    BY <1>1, <1>4, <1>6, <1>7, <1>10, <1>11 DEF MobileInvariant, ClientInvariant, TypeOK

(* The inductive invariant of the app: one refresh at a time, which its       *)
(* request waits for; tokens that are fresh unless a refresh was cut short;   *)
(* a whole session while nothing goes wrong; an empty store after logout;     *)
(* and a screen that polls as long as it says so.                           *)
THEOREM MobileInvariance == Spec => []MobileInvariant
  <1>1. Init => MobileInvariant
    BY MobileInit
  <1>2. MobileInvariant /\ [Next]_vars => MobileInvariant'
    BY MobileNext
  <1> QED
    BY <1>1, <1>2, PTL DEF Spec

(* The variables stay in their ranges: no token is of the future, there is    *)
(* one refresh in flight at most, and what is counted beyond the attempts     *)
(* are polls that were under way when the timer was cancelled.              *)
THEOREM MobileTypes == Spec => []TypeOK
  <1>1. MobileInvariant => TypeOK
    BY DEF MobileInvariant
  <1> QED
    BY <1>1, MobileInvariance, PTL

(* Requests that are refused together never make the server take their user   *)
(* for a thief: _refreshFuture gives them one refresh, and its tokens are      *)
(* stored before anyone is let on.                                          *)
THEOREM NoReuseByItself == Spec => []NoSelfInflictedReuse
  <1>1. MobileInvariant => NoSelfInflictedReuse
    BY DEF MobileInvariant, ClientInvariant
  <1> QED
    BY <1>1, MobileInvariance, PTL

(* While nothing goes wrong a user who is signed in holds the live tokens of  *)
(* his session, through every expiry and refresh.                           *)
THEOREM SessionHolds == Spec => []SignedInStays
  <1>1. MobileInvariant => SignedInStays
    BY DEF MobileInvariant, ClientInvariant, SessionIsWhole, SignedInStays
  <1> QED
    BY <1>1, MobileInvariance, PTL

(* clearTokens of logout is final unless a refresh that was in flight then     *)
(* puts its tokens back.                                                    *)
THEOREM LogoutHolds == Spec => []LoggedOutStaysOut
  <1>1. MobileInvariant => LoggedOutStaysOut
    BY DEF MobileInvariant, ClientInvariant, StoreIsEmptied, LoggedOutStaysOut, SignedOut
  <1> QED
    BY <1>1, MobileInvariance, PTL

(* Nobody waits at a screen that polls no more: every way the timer stops      *)
(* shows something else, or leaves a poll that will.                        *)
THEOREM WaitingEnds == Spec => []WaitingIsAnswered
  <1>1. MobileInvariant => WaitingIsAnswered
    BY DEF MobileInvariant, PollingIsWatched, WaitingIsAnswered
  <1> QED
    BY <1>1, MobileInvariance, PTL

(* A result once shown stays until the screen is left: with it the timer       *)
(* stops, and only a poll that was under way then can change it.            *)
THEOREM ResultHolds == Spec => ResultIsFinal
  <1> DEFINE Final == (shown \in Settled /\ ~overlapped) => shown' \in {shown, "none"}
  <1>1. ASSUME MobileInvariant, Next, shown \in Settled, ~overlapped
        PROVE  shown' \in {shown, "none"}
    <2>1. ~timer /\ WatchedPolls = {} /\ shown \notin {"none", "timeout", "polling"}
      BY <1>1 DEF MobileInvariant, PollingIsWatched, Settled
    <2>2. \A r \in Poll : ~Watched(r)
      BY <2>1 DEF WatchedPolls
    <2>3. \A r \in Poll : ~startPolling(r) /\ ~Polls(r) /\ ~PollReturns(r) /\ ~PollFails(r)
      BY <2>1, <2>2 DEF startPolling, Polls, PollReturns, PollFails
    <2> QED
      BY <1>1, <2>1, <2>3 DEF Next, Dispose, PollAnswered, PollForgotten, PollsNoMore, Settles, Leaves
  <1>2. MobileInvariant /\ [Next]_vars => [Final]_vars
    BY <1>1
  <1>3. Spec => [][Final]_vars
    BY <1>2, MobileInvariance, PTL DEF Spec
  <1> QED
    BY <1>3 DEF ResultIsFinal
=============================================================================
