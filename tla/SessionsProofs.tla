---------------------------- MODULE SessionsProofs ----------------------------
(***************************************************************************)
(* Proofs about Sessions, for any number of tokens and of requests in      *)
(* progress: what rotation promises as long as no two refreshes race, what *)
(* a revocation promises as long as no refresh overlaps with it, and the   *)
(* cut-off of access tokens as long as no two password changes cross.      *)
(***************************************************************************)
EXTENDS Sessions, TLAPS

USE SessionAssumption
USE DEF rowVars, requestVars, historyVars, Live, Members, Revoking, PastReading

(* With no session there is nothing to break. *)
LEMMA InitSessions == Init => SessionInvariant
  <1> SUFFICES ASSUME Init PROVE SessionInvariant
    OBVIOUS
  <1> USE DEF Init
  <1>1. TypeOK
    <2>1. crossed \in BOOLEAN
      OBVIOUS
    <2> QED
      BY <2>1 DEF TypeOK
  <1>2. FamiliesExist /\ ReadStillHolds /\ SnapshotIsComplete
    BY DEF FamiliesExist, ReadStillHolds, SnapshotIsComplete
  <1>3. ReadingsAreCurrent /\ CutOffIsLate /\ OneLiveToken /\ KilledStaysDead
    BY DEF ReadingsAreCurrent, CutOffIsLate, OneLiveToken, KilledStaysDead
  <1> QED
    BY <1>1, <1>2, <1>3 DEF SessionInvariant

(* A step that changes no row and no history leaves alone what is said of    *)
(* rows alone.                                                              *)
LEMMA RowsKeep ==
    ASSUME SessionInvariant, UNCHANGED <<rowVars, historyVars>>
    PROVE  CutOffIsLate' /\ OneLiveToken' /\ KilledStaysDead'
  BY DEF SessionInvariant, CutOffIsLate, OneLiveToken, KilledStaysDead

(* A request that begins reads, and changes no row. *)
LEMMA ReadsKeep ==
    ASSUME SessionInvariant, NEW r \in Request,
           \/ LoginReads(r) \/ RefreshReads(r) \/ LogoutReads(r)
           \/ ChangePasswordReads(r) \/ ChangePasswordReadsClock(r)
    PROVE  SessionInvariant'
  <1> USE DEF SessionInvariant, TypeOK, Goes, ReadsClock
  <1>1. UNCHANGED <<rowVars, now, seen, historyVars>>
    BY DEF LoginReads, RefreshReads, LogoutReads, ChangePasswordReads,
       ChangePasswordReadsClock
  <1>2. CutOffIsLate' /\ OneLiveToken' /\ KilledStaysDead'
    BY <1>1, RowsKeep
  <1>3. SnapshotIsComplete'
    BY <1>1 DEF SnapshotIsComplete
  <1>4. CASE LoginReads(r)
    BY <1>1, <1>2, <1>3, <1>4 DEF LoginReads, FamiliesExist, ReadStillHolds,
       ReadingsAreCurrent
  <1>5. CASE RefreshReads(r)
    <2>1. TypeOK' /\ FamiliesExist' /\ ReadingsAreCurrent'
      BY <1>1, <1>5 DEF RefreshReads, FamiliesExist, ReadingsAreCurrent
    <2>2. ReadStillHolds'
      BY <1>1, <1>5, <2>1 DEF RefreshReads, FamiliesExist, ReadStillHolds, OneLiveToken,
         KilledStaysDead
    <2> QED
      BY <1>2, <1>3, <2>1, <2>2
  <1>6. CASE LogoutReads(r)
    BY <1>1, <1>2, <1>3, <1>6 DEF LogoutReads, FamiliesExist, ReadStillHolds,
       ReadingsAreCurrent, Accepted
  <1>7. CASE ChangePasswordReads(r)
    BY <1>1, <1>2, <1>3, <1>7 DEF ChangePasswordReads, FamiliesExist, ReadStillHolds,
       ReadingsAreCurrent
  <1>8. CASE ChangePasswordReadsClock(r)
    BY <1>1, <1>2, <1>3, <1>8 DEF ChangePasswordReadsClock, FamiliesExist, ReadStillHolds,
       ReadingsAreCurrent
  <1> QED
    BY <1>4, <1>5, <1>6, <1>7, <1>8

(* The start of a revoking UPDATE: its snapshot has every row of the families *)
(* it revokes.                                                              *)
LEMMA StartsKeep ==
    ASSUME SessionInvariant, NEW r \in Request,
           RefreshReused(r) \/ LogoutRevokes(r) \/ ChangePasswordRevokes(r)
    PROVE  SessionInvariant'
  <1> USE DEF SessionInvariant, TypeOK, Goes
  <1>1. UNCHANGED <<rowVars, now, cred, since, historyVars>>
    BY DEF RefreshReused, LogoutRevokes, ChangePasswordRevokes
  <1>2. CutOffIsLate' /\ OneLiveToken' /\ KilledStaysDead'
    BY <1>1, RowsKeep
  <1>3. PICK rows \in SUBSET issued :
          /\ seen' = [seen EXCEPT ![r] = rows]
          /\ \A t \in rows : Members(family[t]) \subseteq rows
    BY DEF RefreshReused, LogoutRevokes, ChangePasswordRevokes, revoke_family,
       revoke_all_sessions
  <1>4. \/ rpc[r] = "idle" /\ rpc' = [rpc EXCEPT ![r] = "reuse"]
        \/ rpc[r] = "logout" /\ rpc' = [rpc EXCEPT ![r] = "logging_out"]
        \/ rpc[r] = "clock" /\ rpc' = [rpc EXCEPT ![r] = "changing"]
    BY DEF RefreshReused, LogoutRevokes, ChangePasswordRevokes
  <1>5. /\ arg' \in [Request -> Token \cup {NoToken}]
        /\ \A q \in Request \ {r} : arg'[q] = arg[q]
    BY DEF RefreshReused, LogoutRevokes, ChangePasswordRevokes
  <1>6. SnapshotIsComplete'
    BY <1>1, <1>3 DEF SnapshotIsComplete
  <1>7. TypeOK' /\ FamiliesExist'
    BY <1>1, <1>3, <1>4, <1>5 DEF FamiliesExist
  <1>8. ReadStillHolds' /\ ReadingsAreCurrent'
    BY <1>1, <1>4, <1>5 DEF ReadStillHolds, ReadingsAreCurrent
  <1> QED
    BY <1>2, <1>6, <1>7, <1>8

(* A login starts a family of its own. *)
LEMMA LoginKeeps ==
    ASSUME SessionInvariant, NEW r \in Request, LoginCommits(r)
    PROVE  SessionInvariant'
  <1> USE DEF SessionInvariant, TypeOK, Goes
  <1>1. PICK t \in Token : Issue(r, t, t)
    BY DEF LoginCommits
  <1>2. TypeOK' /\ FamiliesExist'
    BY <1>1 DEF LoginCommits, Ends, Issue, FamiliesExist
  <1>3. Live' = Live \cup {t} /\ t \notin issued /\ family'[t] = t
    BY <1>1 DEF LoginCommits, Issue
  <1>4. \A u \in issued : family'[u] = family[u] /\ family[u] \in issued
    BY <1>1 DEF Issue, FamiliesExist
  <1>5. \A f \in issued : Members(f)' = Members(f) /\ Live' \cap Members(f)' = Live \cap Members(f)
    BY <1>1, <1>3, <1>4 DEF LoginCommits, Issue
  <1>6. Live' \cap Members(t)' \subseteq {t}
    BY <1>3, <1>4
  <1>7. OneLiveToken'
    BY <1>1, <1>5, <1>6 DEF OneLiveToken, LoginCommits, Issue
  <1>8. KilledStaysDead'
    BY <1>5 DEF KilledStaysDead, LoginCommits
  <1>9. ReadStillHolds'
    BY <1>4, <1>5 DEF ReadStillHolds, FamiliesExist, LoginCommits, Ends
  <1>10. SnapshotIsComplete'
    <2>1. \A q \in Request : seen'[q] \subseteq seen[q] /\ (q # r => seen'[q] = seen[q])
                             /\ seen'[r] = {}
      BY DEF LoginCommits, Ends
    <2> QED
      BY <1>4, <1>5, <2>1 DEF SnapshotIsComplete, LoginCommits
  <1>11. CutOffIsLate' /\ ReadingsAreCurrent'
    BY <1>1 DEF CutOffIsLate, ReadingsAreCurrent, LoginCommits, Ends, Issue
  <1> QED
    BY <1>2, <1>7, <1>8, <1>9, <1>10, <1>11

(* A refresh hands its family on: its own token is used up, the successor is *)
(* the only usable one, and refreshes and revocations under way in the       *)
(* family are counted out.                                                  *)
LEMMA RotationKeeps ==
    ASSUME SessionInvariant, NEW r \in Request, RefreshCommits(r)
    PROVE  SessionInvariant'
  <1> USE DEF SessionInvariant, TypeOK, Goes
  <1>1. PICK t \in Token, f \in issued : Issue(r, t, f) /\ f = family[arg[r]]
    BY DEF RefreshCommits, Ends, FamiliesExist
  <1>2. arg[r] \in issued /\ f = family[arg[r]] /\ t \notin issued /\ rpc[r] = "refresh"
    BY <1>1 DEF RefreshCommits, Ends, FamiliesExist, Issue
  <1>3. TypeOK' /\ FamiliesExist'
    BY <1>1, <1>2 DEF RefreshCommits, Ends, Issue, FamiliesExist, Rotates
  <1>4. /\ Live' = (Live \ {arg[r]}) \cup {t} /\ issued' = issued \cup {t}
        /\ family'[t] = f
        /\ \A u \in issued : family'[u] = family[u] /\ family[u] \in issued
    BY <1>1, <1>2 DEF RefreshCommits, Issue, FamiliesExist
  <1>5. \A g \in issued \ {f} : /\ Members(g)' = Members(g)
                                /\ Live' \cap Members(g)' \subseteq Live \cap Members(g)
    BY <1>2, <1>4
  <1>6. /\ raced \subseteq raced' /\ overlapped \subseteq overlapped' /\ killed' = killed
        /\ f \notin raced' => \A q \in Request \ {r} : ~Refreshing(q, f)
        /\ f \notin overlapped' => \A q \in Request : ~RevokingFamily(q, f)
    BY <1>2 DEF RefreshCommits, Rotates
  <1>7. /\ f \notin raced' => Live' \cap Members(f)' = {t}
        /\ f \notin overlapped' => f \notin killed
    BY <1>2, <1>4, <1>6 DEF ReadStillHolds
  <1>8. OneLiveToken'
    <2> SUFFICES ASSUME NEW g \in issued', g \notin raced',
                        NEW u \in Live' \cap Members(g)', NEW v \in Live' \cap Members(g)'
                 PROVE  u = v
      BY DEF OneLiveToken
    <2>1. CASE g = f
      BY <1>7, <2>1
    <2>2. CASE g \in issued \ {f}
      BY <1>5, <1>6, <2>2 DEF OneLiveToken
    <2>3. CASE g = t
      BY <1>2, <1>4, <2>3
    <2> QED
      BY <1>1, <2>1, <2>2, <2>3 DEF Issue
  <1>9. KilledStaysDead'
    BY <1>5, <1>6, <1>7 DEF KilledStaysDead
  <1>10. ReadStillHolds'
    <2> SUFFICES ASSUME NEW q \in Request, rpc'[q] = "refresh",
                        NEW g, g = (family[arg[q]])'
                 PROVE  /\ g \notin raced' => Live' \cap Members(g)' \subseteq {arg'[q]}
                        /\ g \notin overlapped' => g \notin killed'
      BY DEF ReadStillHolds
    <2>1. q # r /\ rpc[q] = "refresh" /\ arg'[q] = arg[q] /\ arg[q] \in issued
      BY <1>2 DEF RefreshCommits, Ends, FamiliesExist
    <2>2. g = family[arg[q]] /\ g \in issued
      BY <1>4, <2>1
    <2>3. g \notin raced' => g # f
      BY <1>6, <2>1, <2>2 DEF Refreshing
    <2> QED
      BY <1>5, <1>6, <2>1, <2>2, <2>3 DEF ReadStillHolds
  <1>11. SnapshotIsComplete'
    <2> SUFFICES ASSUME NEW q \in Request, NEW u \in seen'[q],
                        NEW g, g = family'[u], g \notin overlapped'
                 PROVE  Members(g)' \subseteq seen'[q]
      BY DEF SnapshotIsComplete
    <2>1. q # r /\ seen'[q] = seen[q] /\ u \in seen[q] /\ u \in issued
      BY DEF RefreshCommits, Ends
    <2>2. g = family[u] /\ g \in issued
      BY <1>4, <2>1
    <2>3. g # f
      BY <1>6, <2>1, <2>2 DEF RevokingFamily
    <2>4. Members(g)' = Members(g)
      BY <1>5, <2>2, <2>3
    <2> QED
      BY <1>6, <2>1, <2>2, <2>4 DEF SnapshotIsComplete
  <1>12. CutOffIsLate' /\ ReadingsAreCurrent'
    BY <1>1, <1>2 DEF CutOffIsLate, ReadingsAreCurrent, RefreshCommits, Ends, Issue
  <1> QED
    BY <1>3, <1>8, <1>9, <1>10, <1>11, <1>12

(* The commit of a revocation: the usable tokens of its families are gone    *)
(* unless a refresh committed since its snapshot, no other token becomes     *)
(* usable, and refreshes that were reading are counted out.                 *)
LEMMA RevokesKeep ==
    ASSUME SessionInvariant, NEW r \in Request, Revokes(r),
           UNCHANGED <<issued, family, consumed, raced>>,
           \A q \in Request : rpc'[q] = "refresh" => rpc[q] = "refresh" /\ arg'[q] = arg[q],
           \A q \in Request : seen'[q] = seen[q] \/ seen'[q] = {}
    PROVE  OneLiveToken' /\ KilledStaysDead' /\ ReadStillHolds' /\ SnapshotIsComplete'
  <1> USE DEF SessionInvariant, TypeOK
  <1> DEFINE families == {family[t] : t \in seen[r]}
  <1>1. Live' \subseteq Live /\ \A f : Members(f)' = Members(f)
    BY DEF Revokes
  <1>2. /\ overlapped \subseteq overlapped' /\ killed' = killed \cup families
        /\ \A f \in families \ overlapped' : \A q \in Request : ~Refreshing(q, f)
        /\ revoked' = revoked \cup seen[r]
    BY DEF Revokes
  <1>3. \A f \in families \ overlapped : Live' \cap Members(f)' = {}
    BY <1>1, <1>2 DEF SnapshotIsComplete
  <1> HIDE DEF families
  <1>4. OneLiveToken'
    BY <1>1 DEF OneLiveToken
  <1>5. KilledStaysDead'
    BY <1>1, <1>2, <1>3 DEF KilledStaysDead
  <1>6. ReadStillHolds'
    <2> SUFFICES ASSUME NEW q \in Request, rpc'[q] = "refresh",
                        NEW g, g = (family[arg[q]])'
                 PROVE  /\ g \notin raced' => Live' \cap Members(g)' \subseteq {arg'[q]}
                        /\ g \notin overlapped' => g \notin killed'
      BY DEF ReadStillHolds
    <2>1. rpc[q] = "refresh" /\ arg'[q] = arg[q] /\ g = family[arg[q]]
      OBVIOUS
    <2>2. g \notin overlapped' => g \notin families
      BY <1>2, <2>1 DEF Refreshing
    <2> QED
      BY <1>1, <1>2, <2>1, <2>2 DEF ReadStillHolds
  <1>7. SnapshotIsComplete'
    <2> SUFFICES ASSUME NEW q \in Request, NEW u \in seen'[q], family[u] \notin overlapped'
                 PROVE  Members(family[u])' \subseteq seen'[q]
      BY DEF SnapshotIsComplete
    <2>1. seen'[q] = seen[q] /\ u \in seen[q]
      OBVIOUS
    <2> QED
      BY <1>1, <1>2, <2>1 DEF SnapshotIsComplete
  <1> QED
    BY <1>4, <1>5, <1>6, <1>7

(* A detected reuse and a logout revoke, and leave the cut-off alone. *)
LEMMA FamilyRevocationKeeps ==
    ASSUME SessionInvariant, NEW r \in Request, ReuseCommits(r) \/ LogoutCommits(r)
    PROVE  SessionInvariant'
  <1> USE DEF SessionInvariant, TypeOK, Goes
  <1>1. /\ Revokes(r) /\ rpc[r] \in {"reuse", "logging_out"}
        /\ rpc' = [rpc EXCEPT ![r] = "idle"] /\ arg' = [arg EXCEPT ![r] = NoToken]
        /\ cred' = [cred EXCEPT ![r] = NoToken] /\ since' = [since EXCEPT ![r] = 0]
        /\ seen' = [seen EXCEPT ![r] = {}]
        /\ UNCHANGED <<issued, family, consumed, iat, valid_after, now, raced, crossed, cut>>
        /\ denied' \subseteq issued
    BY DEF ReuseCommits, LogoutCommits, Ends, FamiliesExist
  <1>2. OneLiveToken' /\ KilledStaysDead' /\ ReadStillHolds' /\ SnapshotIsComplete'
    BY <1>1, RevokesKeep
  <1>3. killed' \subseteq issued /\ overlapped' \subseteq issued /\ revoked' \subseteq issued
    BY <1>1 DEF Revokes, FamiliesExist
  <1>4. TypeOK' /\ FamiliesExist'
    BY <1>1, <1>3 DEF FamiliesExist
  <1>5. CutOffIsLate' /\ ReadingsAreCurrent'
    BY <1>1 DEF CutOffIsLate, ReadingsAreCurrent
  <1> QED
    BY <1>2, <1>4, <1>5

(* A password change revokes, and writes the reading it has. *)
LEMMA ChangeKeeps ==
    ASSUME SessionInvariant, NEW r \in Request, ChangePasswordCommits(r)
    PROVE  SessionInvariant'
  <1> USE DEF SessionInvariant, TypeOK, Goes
  <1>1. /\ Revokes(r) /\ rpc[r] = "changing"
        /\ rpc' = [rpc EXCEPT ![r] = "idle"] /\ arg' = [arg EXCEPT ![r] = NoToken]
        /\ cred' = [cred EXCEPT ![r] = NoToken] /\ since' = [since EXCEPT ![r] = 0]
        /\ seen' = [seen EXCEPT ![r] = {}] /\ valid_after' = since[r]
        /\ cut' = IF since[r] > cut THEN since[r] ELSE cut
        /\ crossed' = (crossed \/ \E q \in Request \ {r} : rpc[q] \in PastReading)
        /\ UNCHANGED <<issued, family, consumed, iat, denied, now, raced>>
    BY DEF ChangePasswordCommits, Ends, tokens_valid_after
  <1>2. OneLiveToken' /\ KilledStaysDead' /\ ReadStillHolds' /\ SnapshotIsComplete'
    BY <1>1, RevokesKeep
  <1>3. killed' \subseteq issued /\ overlapped' \subseteq issued /\ revoked' \subseteq issued
    BY <1>1 DEF Revokes, FamiliesExist
  <1>4. TypeOK' /\ FamiliesExist'
    BY <1>1, <1>3 DEF FamiliesExist
  <1>5. ReadingsAreCurrent'
    BY <1>1 DEF ReadingsAreCurrent
  <1>6. CutOffIsLate'
    <2> SUFFICES ASSUME ~crossed' PROVE cut' <= since[r]
      BY <1>1 DEF CutOffIsLate
    <2>1. ~crossed /\ valid_after <= since[r]
      BY <1>1 DEF ReadingsAreCurrent
    <2>2. cut <= valid_after /\ cut \in Nat /\ valid_after \in Nat /\ since[r] \in Nat
      BY <2>1 DEF CutOffIsLate
    <2> QED
      BY <1>1, <2>1, <2>2
  <1> QED
    BY <1>2, <1>4, <1>5, <1>6

(* The other steps make no token usable and end no request but their own. *)
LEMMA OthersKeep ==
    ASSUME SessionInvariant, NEW r \in Request,
           RefreshExpired(r) \/ LogoutUnknown(r) \/ Aborts(r)
    PROVE  SessionInvariant'
  <1> USE DEF SessionInvariant, TypeOK, Goes
  <1>1. CASE RefreshExpired(r)
    <2>1. TypeOK' /\ FamiliesExist' /\ CutOffIsLate' /\ ReadingsAreCurrent'
      BY <1>1 DEF RefreshExpired, Ends, FamiliesExist, CutOffIsLate, ReadingsAreCurrent
    <2>2. OneLiveToken' /\ KilledStaysDead' /\ ReadStillHolds' /\ SnapshotIsComplete'
      BY <1>1 DEF RefreshExpired, Ends, OneLiveToken, KilledStaysDead, ReadStillHolds,
         SnapshotIsComplete
    <2> QED
      BY <2>1, <2>2
  <1>2. CASE LogoutUnknown(r)
    BY <1>2 DEF LogoutUnknown, Accepted, FamiliesExist, CutOffIsLate, OneLiveToken,
       KilledStaysDead, ReadStillHolds, SnapshotIsComplete, ReadingsAreCurrent
  <1>3. CASE Aborts(r)
    <2>1. TypeOK' /\ FamiliesExist' /\ CutOffIsLate' /\ ReadingsAreCurrent'
      BY <1>3 DEF Aborts, Ends, FamiliesExist, CutOffIsLate, ReadingsAreCurrent
    <2>2. OneLiveToken' /\ KilledStaysDead' /\ ReadStillHolds' /\ SnapshotIsComplete'
      BY <1>3 DEF Aborts, Ends, OneLiveToken, KilledStaysDead, ReadStillHolds,
         SnapshotIsComplete
    <2> QED
      BY <2>1, <2>2
  <1> QED
    BY <1>1, <1>2, <1>3

(* Every step keeps the invariant. *)
LEMMA StepKeeps == SessionInvariant /\ [Next]_vars => SessionInvariant'
  <1> SUFFICES ASSUME SessionInvariant, [Next]_vars PROVE SessionInvariant'
    OBVIOUS
  <1>1. ASSUME NEW r \in Request, Handler(r) PROVE SessionInvariant'
    BY <1>1, ReadsKeep, StartsKeep, LoginKeeps, RotationKeeps, FamilyRevocationKeeps,
       ChangeKeeps, OthersKeep DEF Handler
  <1>2. CASE Tick
    BY <1>2 DEF Tick, SessionInvariant, TypeOK, FamiliesExist, CutOffIsLate, OneLiveToken,
       KilledStaysDead, ReadStillHolds, SnapshotIsComplete, ReadingsAreCurrent
  <1>3. CASE UNCHANGED vars
    BY <1>3 DEF vars, SessionInvariant, TypeOK, FamiliesExist, CutOffIsLate, OneLiveToken,
       KilledStaysDead, ReadStillHolds, SnapshotIsComplete, ReadingsAreCurrent
  <1> QED
    BY <1>1, <1>2, <1>3 DEF Next

(* The invariant of refresh, logout and change_password holds in every       *)
(* reachable state, for any number of tokens and requests.                  *)
THEOREM SessionInvariance == Spec => []SessionInvariant
  BY InitSessions, StepKeeps, PTL DEF Spec

(* Every row, instant and request stays in its range. *)
THEOREM SessionTypes == Spec => []TypeOK
  <1>1. SessionInvariant => TypeOK
    BY DEF SessionInvariant
  <1> QED
    BY <1>1, SessionInvariance, PTL

(* refresh: unless two refreshes of a family race, one token of it is usable *)
(* at most.                                                                 *)
THEOREM RotationIsExclusive == Spec => []OneLiveToken
  <1>1. SessionInvariant => OneLiveToken
    BY DEF SessionInvariant
  <1> QED
    BY <1>1, SessionInvariance, PTL

(* revoke_family and revoke_all_sessions, whose UPDATE sees the rows of its  *)
(* start: a revoked family stays dead unless a refresh in it overlaps.      *)
THEOREM RevocationSticks == Spec => []KilledStaysDead
  <1>1. SessionInvariant => KilledStaysDead
    BY DEF SessionInvariant
  <1> QED
    BY <1>1, SessionInvariance, PTL

(* get_auth_context: unless two password changes cross, none leaves an       *)
(* access token accepted that was made before the second of its reading.    *)
THEOREM CutOffHolds == Spec => []AccessCutOff
  <1>1. SessionInvariant => AccessCutOff
    BY DEF SessionInvariant, TypeOK, CutOffIsLate, AccessCutOff, Accepted
  <1> QED
    BY <1>1, SessionInvariance, PTL
=============================================================================
