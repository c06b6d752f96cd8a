------------------------------ MODULE LoginGuard ------------------------------
(***************************************************************************)
(* The guards of POST /auth/login (core/ratelimit.py, routers/auth.py):    *)
(* the sliding window of requests per address, then the progressive        *)
(* lockout per account.  Logins of one account from one address; each      *)
(* request is one login.  Both guards read the monotonic clock first and   *)
(* take the module's lock later, so that a time may be old when it is      *)
(* used, and times need not enter a deque in their order.                  *)
(***************************************************************************)
EXTENDS Naturals, Sequences, FiniteSets

CONSTANTS
    Request,
    LIMIT, WINDOW,             \* LIMITS["auth:login"]
    LOCKOUT_WINDOW_SECONDS,    \* older failures do not count
    Tier1, Lock1,              \* LOCKOUT_TIERS: failures, and the lockout they bring
    Tier2, Lock2,
    Threads,                   \* handlers that FastAPI runs at once
    MaxDelay,                  \* longest time between reading the clock and the lock
    MaxNow                     \* bound on the clock

ASSUME LoginAssumption ==
    /\ IsFiniteSet(Request)
    /\ LIMIT \in Nat \ {0} /\ WINDOW \in Nat
    /\ Tier1 \in Nat \ {0} /\ Tier2 \in Nat /\ Tier1 < Tier2
    /\ Lock1 \in Nat /\ Lock2 \in Nat /\ Lock1 <= Lock2
    /\ LOCKOUT_WINDOW_SECONDS \in Nat /\ Lock2 <= LOCKOUT_WINDOW_SECONDS
    /\ Threads \in Nat \ {0} /\ MaxDelay \in Nat /\ MaxNow \in Nat

VARIABLES
    now,
    at,           \* where each request is
    stamp,        \* the clock as it last read it
    bucket,       \* _buckets: admitted requests in the order they were appended
    admitted_at,  \* the time appended for each of them
    failures,     \* _login_failures, likewise
    failed_at,
    wrong         \* history: failures recorded since the last clear

vars == <<now, at, stamp, bucket, admitted_at, failures, failed_at, wrong>>

Place == {"new", "flood", "admitted", "gate", "verifying", "failing",
          "refused", "locked", "failed", "in"}
Waiting(r) == at[r] \in {"flood", "gate", "failing"}
InHandler(r) == at[r] \in {"gate", "verifying", "failing"}
Admitted(r) == at[r] \notin {"new", "flood", "refused"}

(* Every request is somewhere, no time is ahead of the clock, and the        *)
(* threads are not exceeded.                                                *)
TypeOK ==
    /\ now \in Nat
    /\ at \in [Request -> Place] /\ stamp \in [Request -> 0..now]
    /\ bucket \in Seq(Request) /\ admitted_at \in [Request -> 0..now]
    /\ failures \in Seq(Request) /\ failed_at \in [Request -> 0..now]
    /\ wrong \subseteq Request
    /\ Cardinality({r \in Request : InHandler(r)}) <= Threads

Init ==
    /\ now = 0
    /\ at = [r \in Request |-> "new"] /\ stamp = [r \in Request |-> 0]
    /\ bucket = <<>> /\ admitted_at = [r \in Request |-> 0]
    /\ failures = <<>> /\ failed_at = [r \in Request |-> 0]
    /\ wrong = {}

-----------------------------------------------------------------------------
(* Mutant: what is exactly as old as the window is dropped too. *)
purge_early(dq, time, window, t) ==
    LET kept == {i \in DOMAIN dq : time[dq[i]] + window > t} IN
    IF kept = {} THEN <<>>
    ELSE SubSeq(dq, CHOOSE i \in kept : \A j \in kept : i <= j, Len(dq))

(* _purge: the head is dropped while it is older than the window. *)
purge(dq, time, window, t) ==
    LET kept == {i \in DOMAIN dq : time[dq[i]] + window >= t} IN
    IF kept = {} THEN <<>>
    ELSE SubSeq(dq, CHOOSE i \in kept : \A j \in kept : i <= j, Len(dq))

Moves(r, from, to) ==
    /\ at[r] = from
    /\ at' = [at EXCEPT ![r] = to]

ReadsClock(r, from, to) ==
    /\ Moves(r, from, to)
    /\ stamp' = [stamp EXCEPT ![r] = now]

(* Under the lock: the reading is a local of the call, gone when it returns. *)
UsesClock(r, from, to) ==
    /\ Moves(r, from, to)
    /\ stamp' = [stamp EXCEPT ![r] = 0]

(* rate_limit_dependency begins *)
Arrive(r) ==
    /\ ReadsClock(r, "new", "flood")
    /\ UNCHANGED <<now, bucket, admitted_at, failures, failed_at, wrong>>

(* check_rate_limit under the lock *)
check_rate_limit(r) ==
    LET live == purge(bucket, admitted_at, WINDOW, stamp[r]) IN
    /\ \/ /\ Len(live) >= LIMIT
          /\ UsesClock(r, "flood", "refused")
          /\ bucket' = live
          /\ UNCHANGED admitted_at
       \/ /\ Len(live) < LIMIT
          /\ UsesClock(r, "flood", "admitted")
          /\ bucket' = Append(live, r)
          /\ admitted_at' = [admitted_at EXCEPT ![r] = stamp[r]]
    /\ UNCHANGED <<now, failures, failed_at, wrong>>

(* login begins, in a thread of its own *)
EnterHandler(r) ==
    /\ Cardinality({q \in Request : InHandler(q)}) < Threads
    /\ ReadsClock(r, "admitted", "gate")
    /\ UNCHANGED <<now, bucket, admitted_at, failures, failed_at, wrong>>

(* Mutant: the tiers from the lowest up. *)
LockedOut_lowest_first(dq, t) ==
    Len(dq) >= Tier1 /\ t < failed_at[dq[Len(dq)]] + Lock1

(* The tiers from the highest down: only the first that is reached counts.   *)
LockedOut(dq, t) ==
    LET lockout == IF Len(dq) >= Tier2 THEN Lock2 ELSE Lock1 IN
    Len(dq) >= Tier1 /\ t < failed_at[dq[Len(dq)]] + lockout

check_not_locked_out(r) ==
    LET live == purge(failures, failed_at, LOCKOUT_WINDOW_SECONDS, stamp[r]) IN
    /\ UsesClock(r, "gate", IF LockedOut(live, stamp[r]) THEN "locked" ELSE "verifying")
    /\ failures' = live
    /\ UNCHANGED <<now, bucket, admitted_at, failed_at, wrong>>

(* verify_password says no, and record_login_failure reads the clock. *)
WrongPassword(r) ==
    /\ ReadsClock(r, "verifying", "failing")
    /\ UNCHANGED <<now, bucket, admitted_at, failures, failed_at, wrong>>

record_login_failure(r) ==
    /\ UsesClock(r, "failing", "failed")
    /\ failures' = Append(purge(failures, failed_at, LOCKOUT_WINDOW_SECONDS, stamp[r]), r)
    /\ failed_at' = [failed_at EXCEPT ![r] = stamp[r]]
    /\ wrong' = wrong \cup {r}
    /\ UNCHANGED <<now, bucket, admitted_at>>

(* verify_password says yes: clear_login_failures *)
RightPassword(r) ==
    /\ Moves(r, "verifying", "in")
    /\ failures' = <<>>
    /\ wrong' = {}
    /\ UNCHANGED <<now, stamp, bucket, admitted_at, failed_at>>

Tick ==
    /\ now < MaxNow
    /\ \A r \in Request : Waiting(r) => now < stamp[r] + MaxDelay
    /\ now' = now + 1
    /\ UNCHANGED <<at, stamp, bucket, admitted_at, failures, failed_at, wrong>>

login(r) ==
    \/ Arrive(r) \/ check_rate_limit(r)
    \/ EnterHandler(r) \/ check_not_locked_out(r)
    \/ WrongPassword(r) \/ record_login_failure(r) \/ RightPassword(r)

Next == (\E r \in Request : login(r)) \/ Tick

Spec == Init /\ [][Next]_vars

-----------------------------------------------------------------------------
(* No stretch of time as long as the window (less the delay) has more        *)
(* requests admitted in it than the limit.                                  *)
AdmittedWithin(a, b) == {r \in Request : Admitted(r) /\ a <= admitted_at[r] /\ admitted_at[r] <= b}

WindowHolds ==
    \A a \in 0..MaxNow :
        Cardinality(AdmittedWithin(a, a + WINDOW - MaxDelay)) <= LIMIT

(* While nobody logs in, no stretch of time shorter than a lockout (less the *)
(* delay) has more wrong passwords in it than its tier allows and the        *)
(* threads that were already past the check when the tier was reached.      *)
WrongWithin(a, b) == {r \in wrong : a <= failed_at[r] /\ failed_at[r] < b}

GuessBound ==
    \A a \in 0..MaxNow :
        /\ Cardinality(WrongWithin(a, a + Lock1 - MaxDelay)) < Tier1 + Threads
        /\ Cardinality(WrongWithin(a, a + Lock2 - MaxDelay)) < Tier2 + Threads

-----------------------------------------------------------------------------
(* The inductive invariant.  No reading of the clock is older than the       *)
(* delay; what a deque has dropped is older than its window; the last         *)
(* failure is, but for the delay, the latest; and whoever may still guess      *)
(* within a stretch of time is counted with those who have.                 *)
In(r, dq) == \E i \in DOMAIN dq : dq[i] = r

ReadingsAreRecent == \A r \in Request : Waiting(r) => now <= stamp[r] + MaxDelay

BucketIsComplete == \A r \in Request :
    /\ In(r, bucket) => Admitted(r)
    /\ Admitted(r) /\ ~In(r, bucket) => admitted_at[r] + WINDOW < now

FailuresAreComplete == \A r \in Request :
    /\ In(r, failures) => r \in wrong
    /\ r \in wrong => at[r] = "failed"
    /\ r \in wrong /\ ~In(r, failures) => failed_at[r] + LOCKOUT_WINDOW_SECONDS < now

LastIsLatest == \A i \in DOMAIN failures :
    failed_at[failures[i]] <= failed_at[failures[Len(failures)]] + MaxDelay

MayGuess(b) ==
    {r \in Request : (at[r] = "verifying" /\ now < b) \/ (at[r] = "failing" /\ stamp[r] < b)}

TierHolds(tier, lockout) == \A a \in 0..MaxNow :
    LET b == a + lockout - MaxDelay IN
    Cardinality(WrongWithin(a, b)) + Cardinality(MayGuess(b)) < tier + Threads

LoginInvariant ==
    /\ TypeOK /\ WindowHolds
    /\ ReadingsAreRecent /\ BucketIsComplete /\ FailuresAreComplete /\ LastIsLatest
    /\ TierHolds(Tier1, Lock1) /\ TierHolds(Tier2, Lock2)
=============================================================================
