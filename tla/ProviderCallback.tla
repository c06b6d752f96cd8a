--------------------------- MODULE ProviderCallback ---------------------------
(***************************************************************************)
(* mpesa_callback and airtel_callback of app/routers/payments.py.  Each    *)
(* Delivery is one POST of the provider: it may be early, late, repeated   *)
(* or never come, and its handler awaits a status query between reading    *)
(* the contribution and settling it.                                       *)
(***************************************************************************)
EXTENDS PaymentStore

CONSTANT Delivery

VARIABLES
    hpc,              \* where the handler of a delivery is
    about,            \* the contribution it found
    seen,             \* the status it read, kept by its session across the await
    verified,         \* what the query answered
    provider_events   \* deliveries whose ProviderEvent row is committed

callbackVars == <<hpc, about, seen, verified, provider_events>>

CallbackTypeOK ==
    /\ hpc \in [Delivery -> {"new", "verify", "settle", "done", "lost"}]
    /\ about \in [Delivery -> Contribution]
    /\ seen \in [Delivery -> {"none", "pending", "success", "failed"}]
    /\ verified \in [Delivery -> {"none", "success", "failed", "unknown"}]
    /\ provider_events \subseteq Delivery

CallbackInit ==
    /\ hpc = [d \in Delivery |-> "new"]
    /\ about = [d \in Delivery |-> CHOOSE c \in Contribution : TRUE]
    /\ seen = [d \in Delivery |-> "none"]
    /\ verified = [d \in Delivery |-> "none"]
    /\ provider_events = {}

HandlerAt(d, from, to) ==
    /\ hpc[d] = from
    /\ hpc' = [hpc EXCEPT ![d] = to]

(* The provider calls back about a prompt it created. *)
CalledBackAbout(c) == charge[c] # "none"

(* Airtel echoes our reference; Daraja's CheckoutRequestID is known only once *)
(* the worker has committed it.                                             *)
Found(c) == ProviderOf[c] = "mpesa" => checkout_request_id[c]

(* No handle in the body, or one that matches no row: the event is kept, the *)
(* provider is told all is well and does not call again.                    *)
CallbackUnknown(d) ==
    /\ HandlerAt(d, "new", "done")
    /\ \E c \in Contribution : CalledBackAbout(c) /\ ~Found(c)
    /\ provider_events' = provider_events \cup {d}
    /\ UNCHANGED <<storeVars, about, seen, verified>>

(* The event is only added to the session; the contribution is read. *)
CallbackArrives(d) ==
    /\ HandlerAt(d, "new", "verify")
    /\ \E c \in Contribution :
         /\ CalledBackAbout(c) /\ Found(c)
         /\ about' = [about EXCEPT ![d] = c]
         /\ seen' = [seen EXCEPT ![d] = status[c]]
    /\ UNCHANGED <<storeVars, verified, provider_events>>

CallbackVerify(d) ==
    /\ HandlerAt(d, "verify", "settle")
    /\ \E outcome \in Answers(about[d]) :
         verified' = [verified EXCEPT ![d] = outcome]
    /\ UNCHANGED <<storeVars, about, seen, provider_events>>

Settleable(d) == seen[d] \in {"pending", "failed"}

(* The settlement and the event are one commit. *)
CallbackReturns(d) ==
    /\ HandlerAt(d, "settle", "done")
    /\ provider_events' = provider_events \cup {d}
    /\ UNCHANGED <<pushVars, stale, outboxVars, providerVars, reconcile_attempts,
                   about, seen, verified>>

(* Mutant: the body is believed, the query is not waited for. *)
CallbackCredits_unverified(d) ==
    /\ CallbackReturns(d)
    /\ Settleable(d)
    /\ credit_contribution(about[d])
    /\ UNCHANGED failure_reason

CallbackCredits(d) ==
    /\ CallbackReturns(d)
    /\ Settleable(d) /\ verified[d] = "success"
    /\ credit_contribution(about[d])
    /\ UNCHANGED failure_reason

(* Mutant: the handler trusts the status it read before the await. *)
CallbackFails_stale(d) ==
    /\ CallbackReturns(d)
    /\ Settleable(d) /\ verified[d] = "failed"
    /\ fail_contribution_unconditional(about[d])
    /\ UNCHANGED moneyVars

CallbackFails(d) ==
    /\ CallbackReturns(d)
    /\ Settleable(d) /\ verified[d] = "failed"
    /\ fail_contribution(about[d])
    /\ UNCHANGED moneyVars

(* Already settled when it was read, or no answer. *)
CallbackLeaves(d) ==
    /\ CallbackReturns(d)
    /\ ~Settleable(d) \/ verified[d] = "unknown"
    /\ UNCHANGED <<status, failure_reason, moneyVars>>

(* The process dies, or the commit raises, before the handler's transaction  *)
(* is committed.                                                            *)
CallbackDies(d) ==
    /\ hpc[d] \in {"verify", "settle"}
    /\ hpc' = [hpc EXCEPT ![d] = "lost"]
    /\ UNCHANGED <<storeVars, about, seen, verified, provider_events>>

CallbackStep(d) ==
    \/ CallbackUnknown(d) \/ CallbackArrives(d) \/ CallbackVerify(d)
    \/ CallbackCredits(d) \/ CallbackFails(d) \/ CallbackLeaves(d)
    \/ CallbackDies(d)
=============================================================================
