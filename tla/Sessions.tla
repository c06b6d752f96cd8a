------------------------------- MODULE Sessions -------------------------------
(***************************************************************************)
(* The sessions of one user: routers/auth.py over core/tokens.py and the   *)
(* checks of core/security.py.  Handlers are plain functions that FastAPI  *)
(* runs in threads, each with its own READ COMMITTED session: a handler    *)
(* reads, decides, and writes with its commit, and other handlers commit   *)
(* in between.  A family id is the first token of the family; an access    *)
(* token is named by the refresh token it was issued with.                 *)
(*                                                                         *)
(* A revocation is an UPDATE ... WHERE, whose rows are those of the        *)
(* snapshot taken as the statement starts (seen): it may wait for a row    *)
(* that a refresh has marked and not committed, and does not see the       *)
(* successor inserted beside it.  The start of the statement and the       *)
(* commit are therefore two steps.  A refresh writes only in its commit    *)
(* (autoflush is off); between its flush and its commit, as between the    *)
(* write and the commit of a revocation, its locks do nothing but delay    *)
(* others, so that each of the two is one step.                            *)
(***************************************************************************)
EXTENDS Naturals, FiniteSets

CONSTANTS
    Token,      \* the refresh tokens that can ever be issued (a bound)
    NoToken,
    Request,    \* requests in progress at one time
    MaxNow      \* bound on the clock, in seconds

ASSUME SessionAssumption == MaxNow \in Nat /\ NoToken \notin Token

VARIABLES
    issued,        \* committed rows of refresh_tokens
    family,        \* family_id of each row
    consumed,      \* rows with consumed_at
    revoked,       \* rows with revoked_at
    iat,           \* the second in which the access token of a row was made
    denied,        \* access tokens in revoked_access_tokens
    valid_after,   \* users.tokens_valid_after, in whole seconds
    now,
    rpc, arg, cred,  \* of each request: where it is, the refresh token (of a logout, its
                     \* family) and the access token it presented
    since,           \* of each login and refresh: when it began; of a password change: the
                     \* now of revoke_all_sessions
    seen,            \* of each request: the rows in the snapshot of its revoking UPDATE
    killed, raced, overlapped, crossed, cut   \* history, see below

rowVars == <<issued, family, consumed, revoked, iat, denied, valid_after>>
requestVars == <<rpc, arg, cred, since, seen>>
historyVars == <<killed, raced, overlapped, crossed, cut>>
vars == <<rowVars, now, requestVars, historyVars>>

Live == issued \ (consumed \cup revoked)
Members(f) == {t \in issued : family[t] = f}

(* A revoking UPDATE is under way, or revoke_all_sessions has read the clock. *)
Revoking == {"reuse", "logging_out", "changing"}
PastReading == {"clock", "changing"}

(* Every variable stays in its range, and no instant lies in the future. *)
TypeOK ==
    /\ issued \subseteq Token /\ consumed \subseteq issued
    /\ revoked \subseteq issued /\ denied \subseteq issued
    /\ family \in [Token -> Token]
    /\ now \in Nat /\ valid_after \in 0..now /\ iat \in [Token -> 0..now]
    /\ rpc \in [Request -> {"idle", "login", "refresh", "logout", "change_password", "clock"}
                            \cup Revoking]
    /\ arg \in [Request -> Token \cup {NoToken}] /\ cred \in [Request -> Token \cup {NoToken}]
    /\ since \in [Request -> 0..now] /\ seen \in [Request -> SUBSET issued]
    /\ killed \subseteq issued /\ raced \subseteq issued /\ overlapped \subseteq issued
    /\ crossed \in BOOLEAN /\ cut \in 0..now

Init ==
    /\ issued = {} /\ consumed = {} /\ revoked = {} /\ denied = {}
    /\ family = [t \in Token |-> t]
    /\ now = 0 /\ valid_after = 0 /\ iat = [t \in Token |-> 0]
    /\ rpc = [r \in Request |-> "idle"]
    /\ arg = [r \in Request |-> NoToken] /\ cred = [r \in Request |-> NoToken]
    /\ since = [r \in Request |-> 0] /\ seen = [r \in Request |-> {}]
    /\ killed = {} /\ raced = {} /\ overlapped = {} /\ crossed = FALSE /\ cut = 0

-----------------------------------------------------------------------------
(* History.  killed: the families that a logout, a detected reuse or a       *)
(* password change has revoked.  raced: those in which a refresh committed   *)
(* while another was in progress.  overlapped: those in which a refresh and  *)
(* a revocation overlapped, because the one committed while the other had    *)
(* read and not yet committed.  crossed: a password change committed while   *)
(* another had read the clock.  cut: the latest second that a password       *)
(* change read and committed.                                               *)
Refreshing(q, f) == rpc[q] = "refresh" /\ family[arg[q]] = f
RevokingFamily(q, f) == \E t \in seen[q] : family[t] = f

(* A refresh in family f commits. *)
Rotates(r, f) ==
    /\ raced' = raced \cup {g \in {f} : \E q \in Request \ {r} : Refreshing(q, f)}
    /\ overlapped' = overlapped \cup {g \in {f} : \E q \in Request : RevokingFamily(q, f)}

(* A revocation commits: the rows of its snapshot, and no others. *)
Revokes(r) ==
    /\ revoked' = revoked \cup seen[r]
    /\ LET families == {family[t] : t \in seen[r]}
       IN  /\ killed' = killed \cup families
           /\ overlapped' = overlapped \cup
                 {f \in families : \E q \in Request : Refreshing(q, f)}

Goes(r, from, to) ==
    /\ rpc[r] = from
    /\ rpc' = [rpc EXCEPT ![r] = to]

ReadsClock(r) == since' = [since EXCEPT ![r] = now]

Ends(r, handler) ==
    /\ Goes(r, handler, "idle")
    /\ arg' = [arg EXCEPT ![r] = NoToken]
    /\ cred' = [cred EXCEPT ![r] = NoToken]
    /\ since' = [since EXCEPT ![r] = 0]
    /\ seen' = [seen EXCEPT ![r] = {}]

(* Mutant: the cut-off is not looked at. *)
Accepted_no_cut_off(a) == a \in issued \ denied

(* get_auth_context *)
Accepted(a) == a \in issued \ denied /\ iat[a] >= valid_after

(* create_refresh_token_row and create_access_token, some time since the     *)
(* request began.                                                           *)
Issue(r, t, f) ==
    /\ t \in Token \ issued
    /\ issued' = issued \cup {t}
    /\ family' = [family EXCEPT ![t] = f]
    /\ \E second \in since[r]..now : iat' = [iat EXCEPT ![t] = second]

(* Mutant: only the first token of the family is revoked. *)
revoke_family_one(r, f) ==
    seen' = [seen EXCEPT ![r] = {f}]

(* The rows the UPDATE will revoke; the filter on revoked_at makes no        *)
(* difference to which rows end up revoked.                                 *)
revoke_family(r, f) ==
    seen' = [seen EXCEPT ![r] = Members(f)]

revoke_all_sessions(r) ==
    seen' = [seen EXCEPT ![r] = issued]

(* Mutant: the cut-off is rounded up to the next second. *)
tokens_valid_after_rounded_up(r) == since[r] + 1

(* What revoke_all_sessions writes is the clock it read before its UPDATEs. *)
tokens_valid_after(r) == since[r]

-----------------------------------------------------------------------------
(* login and register: the password is checked, then a family is started.   *)
LoginReads(r) ==
    /\ Goes(r, "idle", "login")
    /\ ReadsClock(r)
    /\ UNCHANGED <<rowVars, now, arg, cred, seen, historyVars>>

LoginCommits(r) ==
    /\ Ends(r, "login")
    /\ \E t \in Token : Issue(r, t, t)
    /\ UNCHANGED <<consumed, revoked, denied, valid_after, now, historyVars>>

(* Mutant: a row that was revoked without having been used still refreshes.  *)
RefreshReads_revoked(r) ==
    /\ Goes(r, "idle", "refresh")
    /\ ReadsClock(r)
    /\ \E t \in issued \ consumed : arg' = [arg EXCEPT ![r] = t]
    /\ UNCHANGED <<rowVars, now, cred, seen, historyVars>>

(* The presented row is neither consumed nor revoked. *)
RefreshReads(r) ==
    /\ Goes(r, "idle", "refresh")
    /\ ReadsClock(r)
    /\ \E t \in Live : arg' = [arg EXCEPT ![r] = t]
    /\ UNCHANGED <<rowVars, now, cred, seen, historyVars>>

(* Mutant: the rotated row is not marked. *)
RefreshCommits_unmarked(r) ==
    /\ Ends(r, "refresh")
    /\ \E t \in Token : Issue(r, t, family[arg[r]])
    /\ Rotates(r, family[arg[r]])
    /\ UNCHANGED <<consumed, revoked, denied, valid_after, now, killed, crossed, cut>>

(* consumed_at is written on the row as it was read, and a successor is      *)
(* inserted, whatever has been committed about the family since.            *)
RefreshCommits(r) ==
    /\ Ends(r, "refresh")
    /\ \E t \in Token : Issue(r, t, family[arg[r]])
    /\ consumed' = consumed \cup {arg[r]}
    /\ Rotates(r, family[arg[r]])
    /\ UNCHANGED <<revoked, denied, valid_after, now, killed, crossed, cut>>

(* A used or revoked row is presented, and the UPDATE starts.  What was read *)
(* cannot become untrue, so reading and starting are one step.              *)
RefreshReused(r) ==
    /\ Goes(r, "idle", "reuse")
    /\ \E t \in consumed \cup revoked : revoke_family(r, family[t])
    /\ UNCHANGED <<rowVars, now, arg, cred, since, historyVars>>

ReuseCommits(r) ==
    /\ Ends(r, "reuse")
    /\ Revokes(r)
    /\ UNCHANGED <<issued, family, consumed, iat, denied, valid_after, now,
                   raced, crossed, cut>>

(* expires_at turns out to have passed: the row is marked revoked. *)
RefreshExpired(r) ==
    /\ Ends(r, "refresh")
    /\ revoked' = revoked \cup {arg[r]}
    /\ UNCHANGED <<issued, family, consumed, iat, denied, valid_after, now, historyVars>>

(* Of the row that was found only its family is used. *)
LogoutReads(r) ==
    /\ Goes(r, "idle", "logout")
    /\ \E a \in Token : Accepted(a) /\ cred' = [cred EXCEPT ![r] = a]
    /\ \E t \in issued : arg' = [arg EXCEPT ![r] = family[t]]
    /\ UNCHANGED <<rowVars, now, seen, since, historyVars>>

LogoutRevokes(r) ==
    /\ Goes(r, "logout", "logging_out")
    /\ revoke_family(r, arg[r])
    /\ arg' = [arg EXCEPT ![r] = NoToken]
    /\ UNCHANGED <<rowVars, now, cred, since, historyVars>>

LogoutCommits(r) ==
    /\ Ends(r, "logging_out")
    /\ Revokes(r)
    /\ denied' = denied \cup {cred[r]}
    /\ UNCHANGED <<issued, family, consumed, iat, valid_after, now, raced, crossed, cut>>

(* The refresh token in the body is not one of the user's: only the access   *)
(* token is denied.                                                         *)
LogoutUnknown(r) ==
    /\ rpc[r] = "idle"
    /\ \E a \in Token : Accepted(a) /\ denied' = denied \cup {a}
    /\ UNCHANGED <<issued, family, consumed, revoked, iat, valid_after, now,
                   requestVars, historyVars>>

(* get_auth_context, then the current password is checked and the new one hashed. *)
ChangePasswordReads(r) ==
    /\ Goes(r, "idle", "change_password")
    /\ \E a \in Token : Accepted(a)
    /\ UNCHANGED <<rowVars, now, arg, cred, seen, since, historyVars>>

(* revoke_all_sessions: the clock is read first, then the UPDATE starts. *)
ChangePasswordReadsClock(r) ==
    /\ Goes(r, "change_password", "clock")
    /\ ReadsClock(r)
    /\ UNCHANGED <<rowVars, now, arg, cred, seen, historyVars>>

ChangePasswordRevokes(r) ==
    /\ Goes(r, "clock", "changing")
    /\ revoke_all_sessions(r)
    /\ UNCHANGED <<rowVars, now, arg, cred, since, historyVars>>

ChangePasswordCommits(r) ==
    /\ Ends(r, "changing")
    /\ Revokes(r)
    /\ valid_after' = tokens_valid_after(r)
    /\ cut' = IF since[r] > cut THEN since[r] ELSE cut
    /\ crossed' = (crossed \/ \E q \in Request \ {r} : rpc[q] \in PastReading)
    /\ UNCHANGED <<issued, family, consumed, iat, denied, now, raced>>

(* A statement or a commit raises, or the process dies: nothing is written. *)
Aborts(r) ==
    /\ rpc[r] # "idle"
    /\ Ends(r, rpc[r])
    /\ UNCHANGED <<rowVars, now, historyVars>>

Tick ==
    /\ now < MaxNow
    /\ now' = now + 1
    /\ UNCHANGED <<rowVars, requestVars, historyVars>>

Handler(r) ==
    \/ LoginReads(r) \/ LoginCommits(r)
    \/ RefreshReads(r) \/ RefreshCommits(r) \/ RefreshExpired(r)
    \/ RefreshReused(r) \/ ReuseCommits(r)
    \/ LogoutReads(r) \/ LogoutRevokes(r) \/ LogoutCommits(r) \/ LogoutUnknown(r)
    \/ ChangePasswordReads(r) \/ ChangePasswordReadsClock(r)
    \/ ChangePasswordRevokes(r) \/ ChangePasswordCommits(r)
    \/ Aborts(r)

Next ==
    \/ \E r \in Request : Handler(r)
    \/ Tick

Spec == Init /\ [][Next]_vars

-----------------------------------------------------------------------------
(* refresh: as long as no refresh has committed during another one of the    *)
(* same family, a family has one usable token at most, whatever else runs:   *)
(* the chain of a stolen token and that of its owner cannot both go on.     *)
OneLiveToken ==
    \A f \in issued \ raced : \A t, u \in Live \cap Members(f) : t = u

(* revoke_family and revoke_all_sessions: a family that was revoked never    *)
(* has a usable token again, unless a refresh in it overlapped with the      *)
(* revocation, in either order.                                             *)
KilledStaysDead == \A f \in killed \ overlapped : Live \cap Members(f) = {}

(* "kill the whole device family", "every session - every device - is        *)
(* invalidated": without the condition.                                      *)
KilledAlwaysDead == \A f \in killed : Live \cap Members(f) = {}

(* tokens_valid_after: from the commit of a password change on, no access    *)
(* token is accepted that was made before the second the change had read,    *)
(* unless two changes have crossed.  One of that second, or made after the   *)
(* reading, stays accepted.                                                 *)
AccessCutOff == ~crossed => \A a \in issued : iat[a] < cut => ~Accepted(a)

(* "tokens_valid_after also cuts off any access token already issued":       *)
(* without the condition.                                                    *)
AccessAlwaysCutOff == \A a \in issued : iat[a] < cut => ~Accepted(a)

-----------------------------------------------------------------------------
(* The inductive invariant. *)

(* Families are named by tokens that exist, what a request presented does,   *)
(* and only a revoking statement has a snapshot.                            *)
FamiliesExist ==
    /\ \A t \in issued : family[t] \in issued
    /\ \A r \in Request : rpc[r] \in {"refresh", "logout"} => arg[r] \in issued
    /\ \A r \in Request : rpc[r] \in {"logout", "logging_out"} => cred[r] \in issued
    /\ \A r \in Request : rpc[r] \notin Revoking => seen[r] = {}

(* What a refresh has read is still so: nothing but its own token is usable  *)
(* unless another refresh raced it, and the family has not been killed       *)
(* unless a revocation overlapped.                                          *)
ReadStillHolds ==
    \A r \in Request :
        rpc[r] = "refresh" =>
            LET f == family[arg[r]]
            IN  /\ f \notin raced => Live \cap Members(f) \subseteq {arg[r]}
                /\ f \notin overlapped => f \notin killed

(* A revoking statement has seen every row of its families, unless a refresh *)
(* committed meanwhile.                                                     *)
SnapshotIsComplete ==
    \A r \in Request : \A t \in seen[r] :
        family[t] \notin overlapped => Members(family[t]) \subseteq seen[r]

(* The cut-off is no later than any reading that is still to be written, and *)
(* no earlier than one that has been.                                       *)
ReadingsAreCurrent ==
    ~crossed => \A r \in Request : rpc[r] \in PastReading => valid_after <= since[r]

CutOffIsLate == ~crossed => cut <= valid_after

(* The whole of it. *)
SessionInvariant ==
    /\ TypeOK /\ FamiliesExist /\ ReadStillHolds /\ SnapshotIsComplete
    /\ ReadingsAreCurrent /\ CutOffIsLate
    /\ OneLiveToken /\ KilledStaysDead
=============================================================================
