----------------------------- MODULE PaymentPoller -----------------------------
(***************************************************************************)
(* The screen that waits for a payment (PaymentPollNotifier and            *)
(* PaymentStatusScreen), over the client: every poll is a request that may *)
(* be refused, refreshed and retried, and may come back after a later one. *)
(***************************************************************************)
EXTENDS ApiClient

CONSTANTS
    pollMaxAttempts,
    Outcome         \* what the server may settle a payment to

Settled == {"success", "failed"}

ASSUME PollAssumption == pollMaxAttempts \in Nat \ {0} /\ Outcome \subseteq Settled

VARIABLES
    payment,    \* what the server would answer now
    shown,      \* PaymentPollState.status, "none" without a screen
    attempts,
    timer,      \* whether the periodic timer runs
    seen,       \* of each poll of this screen, the answer it brings
    overlapped  \* history: polls were under way when the timer was cancelled

pollVars == <<payment, shown, attempts, timer, seen, overlapped>>
vars == <<clientVars, pollVars>>

Poll == Request \ {Leaving}

(* Every variable stays in its range, and polling stops by itself: what is   *)
(* counted beyond the attempts are polls that were under way.               *)
TypeOK ==
    /\ ClientTypeOK
    /\ payment \in {"pending"} \cup Settled
    /\ shown \in {"none", "polling", "timeout"} \cup Settled
    /\ attempts \in 0..(pollMaxAttempts + Cardinality(Poll) - 1)
    /\ timer \in BOOLEAN
    /\ seen \in [Poll -> {"none", "asked", "pending"} \cup Settled]
    /\ overlapped \in BOOLEAN

Init ==
    /\ ClientInit
    /\ payment = "pending" /\ shown = "none" /\ attempts = 0 /\ timer = FALSE
    /\ seen = [r \in Poll |-> "none"]
    /\ overlapped = FALSE

-----------------------------------------------------------------------------
(* A screen that is gone has no state to set. *)
Watched(r) == seen[r] # "none"

(* The screen is opened after a contribution, or "Check again" is pressed.   *)
(* startPolling polls at once and then by its timer.                        *)
startPolling(r) ==
    /\ user.at = "in" /\ shown \in {"none", "timeout"}
    /\ shown' = "polling" /\ attempts' = 0 /\ timer' = TRUE /\ overlapped' = FALSE
    /\ Begins(r, "get", 0)
    /\ seen' = [seen EXCEPT ![r] = "asked"]
    /\ UNCHANGED <<serverVars, storeVars, flight, user, trouble, payment>>

(* Mutant: one poll more than the attempts. *)
Polls_once_more(r) ==
    /\ timer /\ attempts <= pollMaxAttempts
    /\ Begins(r, "get", 0)
    /\ seen' = [seen EXCEPT ![r] = "asked"]
    /\ UNCHANGED <<serverVars, storeVars, flight, user, trouble,
                   payment, shown, attempts, timer, overlapped>>

(* The timer fires. *)
Polls(r) ==
    /\ timer /\ attempts < pollMaxAttempts
    /\ Begins(r, "get", 0)
    /\ seen' = [seen EXCEPT ![r] = "asked"]
    /\ UNCHANGED <<serverVars, storeVars, flight, user, trouble,
                   payment, shown, attempts, timer, overlapped>>

PollsNoMore ==
    /\ timer /\ attempts >= pollMaxAttempts
    /\ timer' = FALSE /\ shown' = "timeout"
    /\ overlapped' = (overlapped \/ \E r \in Poll : Watched(r))
    /\ UNCHANGED <<clientVars, payment, attempts, seen>>

(* The server answers with the status of this moment. *)
PollAnswered(r) ==
    /\ Answered(r)
    /\ seen' = [seen EXCEPT ![r] = IF seen[r] = "none" THEN "none" ELSE payment]
    /\ UNCHANGED <<payment, shown, attempts, timer, overlapped>>

(* Mutant: the timer is left running. *)
Shows_uncancelled(r, status) ==
    /\ shown' = status /\ attempts' = attempts + 1
    /\ UNCHANGED timer
    /\ overlapped' = \/ overlapped
                     \/ status \in Settled /\ \E q \in Poll \ {r} : Watched(q)
    /\ seen' = [seen EXCEPT ![r] = "none"]
    /\ UNCHANGED <<serverVars, storeVars, flight, user, trouble, payment>>

(* The answer is shown, whatever is shown by now. *)
Shows(r, status) ==
    /\ shown' = status /\ attempts' = attempts + 1
    /\ timer' = (timer /\ status \notin Settled)
    /\ overlapped' = \/ overlapped
                     \/ status \in Settled /\ \E q \in Poll \ {r} : Watched(q)
    /\ seen' = [seen EXCEPT ![r] = "none"]
    /\ UNCHANGED <<serverVars, storeVars, flight, user, trouble, payment>>

PollReturns(r) ==
    /\ Delivered(r) /\ Watched(r)
    /\ Shows(r, IF seen[r] \in Settled THEN seen[r] ELSE "polling")

(* Mutant: an exception ends the polling and is shown as nothing. *)
PollFails_silently(r) ==
    /\ Failed(r) /\ Watched(r)
    /\ timer' = FALSE
    /\ seen' = [seen EXCEPT ![r] = "none"]
    /\ UNCHANGED <<serverVars, storeVars, flight, user, trouble,
                   payment, shown, attempts, overlapped>>

(* Any exception counts as a network blip. *)
PollFails(r) ==
    /\ Failed(r) /\ Watched(r)
    /\ Shows(r, "polling")

(* So is the answer to a changed password. *)
PollForgotten(r) ==
    /\ Delivered(r) \/ Failed(r)
    /\ ~Watched(r) /\ req[r].op # "me"
    /\ UNCHANGED <<serverVars, storeVars, flight, user, trouble, pollVars>>

(* The screen is left: its timer is cancelled, its polls go on for nobody.   *)
Dispose ==
    /\ shown' = "none" /\ attempts' = 0 /\ timer' = FALSE /\ overlapped' = FALSE
    /\ seen' = [r \in Poll |-> "none"]
    /\ UNCHANGED payment

(* "Done", "Home" or the way back. *)
Leaves ==
    /\ shown # "none"
    /\ Dispose
    /\ UNCHANGED clientVars

(* The worker or a callback settles; a provider may revise a failure.        *)
Settles ==
    /\ payment # "success"
    /\ payment' \in Outcome \ {payment}
    /\ UNCHANGED <<clientVars, shown, attempts, timer, seen, overlapped>>

Next ==
    \/ \E r \in Request : RequestStep(r) /\ UNCHANGED pollVars
    \/ SessionStep /\ UNCHANGED pollVars
    \/ (Logout \/ Killed) /\ Dispose
    \/ \E r \in Poll : changePassword(r) /\ shown = "none" /\ UNCHANGED pollVars
    \/ Leaves
    \/ \E r \in Poll : startPolling(r) \/ Polls(r) \/ PollAnswered(r)
                         \/ PollReturns(r) \/ PollFails(r) \/ PollForgotten(r)
    \/ PollsNoMore \/ Settles

Spec == Init /\ [][Next]_vars

-----------------------------------------------------------------------------
(* A result once shown stays on the screen until it is left, unless another  *)
(* poll was under way when it came: that one may bring an older answer.      *)
ResultIsFinal ==
    [][(shown \in Settled /\ ~overlapped) => shown' \in {shown, "none"}]_vars

(* Nobody waits at a screen that polls no more, under the same exception.    *)
WaitingIsAnswered ==
    shown = "polling" /\ ~timer => overlapped \/ \E r \in Poll : Watched(r)

-----------------------------------------------------------------------------
(* The inductive invariant.  The timer runs only on the screen of a user who *)
(* is signed in; without it there is a poll that somebody watches only if    *)
(* the screen counts as overlapped; and the polls under way fit into the     *)
(* bound of the attempts.                                                   *)
WatchedPolls == {r \in Poll : Watched(r)}

PollingIsWatched ==
    /\ timer => user.at = "in" /\ shown = "polling"
    /\ ~timer /\ ~overlapped => shown # "polling" /\ WatchedPolls = {}
    /\ attempts + Cardinality(WatchedPolls) < pollMaxAttempts + Cardinality(Poll)

MobileInvariant == TypeOK /\ ClientInvariant /\ PollingIsWatched
=============================================================================
