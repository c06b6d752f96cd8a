---------------------------- MODULE PaymentWorker ----------------------------
(***************************************************************************)
(* app/workers/payment_worker.py: each Worker is the run_forever loop of   *)
(* one process.  A pass drains the outbox (claim one message under FOR     *)
(* UPDATE SKIP LOCKED, push, commit), then sweeps contributions that have  *)
(* been PENDING too long.  One action per transaction and per network call,*)
(* so that everything another process may do between a read and the write  *)
(* that uses it can happen.                                                *)
(***************************************************************************)
EXTENDS PaymentStore

CONSTANTS
    Worker,
    OUTBOX_BATCH_SIZE,
    RECONCILE_BATCH_SIZE,
    MaxFaults                \* bound on process deaths and failed iterations

ASSUME WorkerAssumption ==
    /\ OUTBOX_BATCH_SIZE \in Nat \ {0}
    /\ RECONCILE_BATCH_SIZE \in Nat \ {0}
    /\ MaxFaults \in Nat

VARIABLES
    pc,          \* where each worker is in its loop
    job,         \* contribution it works on (meaningless in "drain", "select", "sweep")
    answer,      \* outcome of the network call it awaits
    handled,     \* messages of this drain pass
    todo,        \* stale contributions left in this sweep
    loaded,      \* reconcile_attempts as its session read it before the query
    faults       \* faults so far

workerVars == <<pc, job, answer, handled, todo, loaded, faults>>

WorkerPC == {"drain", "claiming", "claimed", "pushing", "pushed",
             "select", "sweep", "asking", "answered"}
Outcome == {"none"} \cup PushOutcome \cup QueryOutcome

WorkerTypeOK ==
    /\ pc \in [Worker -> WorkerPC]
    /\ job \in [Worker -> Contribution]
    /\ answer \in [Worker -> Outcome]
    /\ handled \in [Worker -> SUBSET Contribution]
    /\ todo \in [Worker -> SUBSET Contribution]
    /\ loaded \in [Worker -> Nat]
    /\ faults \in 0..MaxFaults

(* Any job will do at the start: it is read only after a claim or a load.   *)
NoJob == CHOOSE c \in Contribution : TRUE

WorkerInit ==
    /\ pc = [w \in Worker |-> "drain"]
    /\ job = [w \in Worker |-> NoJob]
    /\ answer = [w \in Worker |-> "none"]
    /\ handled = [w \in Worker |-> {}]
    /\ todo = [w \in Worker |-> {}]
    /\ loaded = [w \in Worker |-> 0]
    /\ faults = 0

At(w, from, to) ==
    /\ pc[w] = from
    /\ pc' = [pc EXCEPT ![w] = to]

-----------------------------------------------------------------------------
(* drain_outbox *)

Locked(c) == \E w \in Worker : pc[w] = "claiming" /\ job[w] = c

(* Mutant: FOR UPDATE SKIP LOCKED is dropped. *)
Claimable_unlocked(w) ==
    {c \in Contribution : outbox_status[c] = "pending" /\ c \notin handled[w]}

Claimable(w) ==
    {c \in Contribution : /\ outbox_status[c] = "pending"
                          /\ c \notin handled[w]
                          /\ ~Locked(c)}

BatchLeft(w) == Cardinality(handled[w]) < OUTBOX_BATCH_SIZE

(* SELECT ... ORDER BY created_at LIMIT 1 FOR UPDATE SKIP LOCKED. *)
ClaimSelect(w) ==
    /\ At(w, "drain", "claiming")
    /\ BatchLeft(w)
    /\ \E c \in Claimable(w) :
         /\ \A b \in Claimable(w) : c <= b
         /\ job' = [job EXCEPT ![w] = c]
    /\ UNCHANGED <<storeVars, answer, handled, todo, loaded, faults>>

(* status = PROCESSING, committed while the row lock is held. *)
ClaimCommit(w) ==
    /\ At(w, "claiming", "claimed")
    /\ outbox_status' = [outbox_status EXCEPT ![job[w]] = "processing"]
    /\ handled' = [handled EXCEPT ![w] = @ \cup {job[w]}]
    /\ UNCHANGED <<status, contributionVars, pushVars, stale, outbox_attempts,
                   moneyVars, providerVars, job, answer, todo, loaded, faults>>

DrainEnds(w) ==
    /\ At(w, "drain", "select")
    /\ ~BatchLeft(w) \/ Claimable(w) = {}
    /\ handled' = [handled EXCEPT ![w] = {}]
    /\ UNCHANGED <<storeVars, job, answer, todo, loaded, faults>>

(* A push is wanted only for a PENDING contribution that no earlier push can *)
(* have reached.                                                            *)
Pushable(c) ==
    /\ status[c] = "pending"
    /\ CASE ProviderOf[c] = "mpesa"  -> ~checkout_request_id[c]
         [] ProviderOf[c] = "airtel" -> push_attempts[c] = 0

SkipMessage(w) ==
    /\ At(w, "claimed", "drain")
    /\ ~Pushable(job[w])
    /\ outbox_status' = [outbox_status EXCEPT ![job[w]] = "done"]
    /\ UNCHANGED <<status, contributionVars, pushVars, stale, outbox_attempts,
                   moneyVars, providerVars, job, answer, handled, todo, loaded,
                   faults>>

StartPush(w) ==
    /\ At(w, "claimed", "pushing")
    /\ Pushable(job[w])
    /\ UNCHANGED <<storeVars, job, answer, handled, todo, loaded, faults>>

(* The request leaves, the provider acts on it or not, and the worker holds  *)
(* what it made of the reply.                                               *)
Push(w) ==
    /\ At(w, "pushing", "pushed")
    /\ \E reply \in Replies :
         /\ answer' = [answer EXCEPT ![w] =
              IF ProviderOf[job[w]] = "mpesa" THEN stk_push(reply)
                                              ELSE initiate_payment(reply)]
         /\ DeliverPush(job[w], reply)
    /\ UNCHANGED <<status, contributionVars, pushVars, stale, outboxVars, moneyVars,
                   job, handled, todo, loaded, faults>>

(* The outcome is used up when it has been acted on. *)
PushReturns(w, outcome) ==
    /\ At(w, "pushed", "drain")
    /\ answer[w] = outcome
    /\ answer' = [answer EXCEPT ![w] = "none"]
    /\ UNCHANGED <<stale, moneyVars, providerVars, reconcile_attempts, job, handled,
                   todo, loaded, faults>>

PushAccepted(w) ==
    /\ PushReturns(w, "accepted")
    /\ checkout_request_id' = [checkout_request_id EXCEPT ![job[w]] =
                                 @ \/ ProviderOf[job[w]] = "mpesa"]
    /\ push_attempts' = [push_attempts EXCEPT ![job[w]] = @ + 1]
    /\ outbox_status' = [outbox_status EXCEPT ![job[w]] = "done"]
    /\ UNCHANGED <<status, failure_reason, outbox_attempts>>

(* Mutant: one attempt too many before the message is given up. *)
PushNotSent_late(w) ==
    /\ PushReturns(w, "not_sent")
    /\ outbox_attempts' = [outbox_attempts EXCEPT ![job[w]] = @ + 1]
    /\ IF outbox_attempts'[job[w]] > OUTBOX_MAX_ATTEMPTS
       THEN /\ outbox_status' = [outbox_status EXCEPT ![job[w]] = "failed"]
            /\ fail_contribution(job[w])
       ELSE /\ outbox_status' = [outbox_status EXCEPT ![job[w]] = "pending"]
            /\ UNCHANGED <<status, failure_reason>>
    /\ UNCHANGED pushVars

(* ProviderRetryableError: back to PENDING for the next pass, or, out of     *)
(* attempts, FAILED together with the contribution.                         *)
PushNotSent(w) ==
    /\ PushReturns(w, "not_sent")
    /\ outbox_attempts' = [outbox_attempts EXCEPT ![job[w]] = @ + 1]
    /\ IF outbox_attempts'[job[w]] >= OUTBOX_MAX_ATTEMPTS
       THEN /\ outbox_status' = [outbox_status EXCEPT ![job[w]] = "failed"]
            /\ fail_contribution(job[w])
       ELSE /\ outbox_status' = [outbox_status EXCEPT ![job[w]] = "pending"]
            /\ UNCHANGED <<status, failure_reason>>
    /\ UNCHANGED pushVars

(* ProviderRejectedError, ProviderPrecisionError. *)
PushRejected(w) ==
    /\ PushReturns(w, "rejected")
    /\ fail_contribution(job[w])
    /\ outbox_status' = [outbox_status EXCEPT ![job[w]] = "done"]
    /\ UNCHANGED <<pushVars, outbox_attempts>>

(* Mutant: an ambiguous push is queued again. *)
PushAmbiguous_retried(w) ==
    /\ PushReturns(w, "ambiguous")
    /\ outbox_status' = [outbox_status EXCEPT ![job[w]] = "pending"]
    /\ UNCHANGED <<status, failure_reason, pushVars, outbox_attempts>>

(* Any other exception: never pushed again, never failed on a guess. *)
PushAmbiguous(w) ==
    /\ PushReturns(w, "ambiguous")
    /\ push_attempts' = [push_attempts EXCEPT ![job[w]] = @ + 1]
    /\ outbox_status' = [outbox_status EXCEPT ![job[w]] = "failed"]
    /\ UNCHANGED <<status, failure_reason, checkout_request_id, outbox_attempts>>

-----------------------------------------------------------------------------
(* reconcile_pending *)

Unresolved ==
    {c \in Contribution : /\ status[c] = "pending"
                          /\ stale[c]
                          /\ reconcile_attempts[c] < RECONCILE_MAX_ATTEMPTS}

(* LIMIT without ORDER BY: any batch of the unresolved rows, in any order.  *)
SelectStale(w) ==
    /\ At(w, "select", "sweep")
    /\ \E batch \in SUBSET Unresolved :
         /\ \/ batch = Unresolved /\ Cardinality(batch) <= RECONCILE_BATCH_SIZE
            \/ Cardinality(batch) = RECONCILE_BATCH_SIZE
         /\ todo' = [todo EXCEPT ![w] = batch]
    /\ UNCHANGED <<storeVars, job, answer, handled, loaded, faults>>

(* Mutant: escalates one attempt late. *)
record_unresolved_late(c, attempts) ==
    /\ reconcile_attempts' = [reconcile_attempts EXCEPT ![c] = attempts + 1]
    /\ failure_reason' = [failure_reason EXCEPT ![c] =
         IF attempts + 1 > RECONCILE_MAX_ATTEMPTS THEN NEEDS_REVIEW ELSE @]

(* Mutant: escalates one attempt early. *)
record_unresolved_early(c, attempts) ==
    /\ reconcile_attempts' = [reconcile_attempts EXCEPT ![c] = attempts + 1]
    /\ failure_reason' = [failure_reason EXCEPT ![c] =
         IF attempts + 2 >= RECONCILE_MAX_ATTEMPTS THEN NEEDS_REVIEW ELSE @]

(* _record_unresolved writes back the count its session read, whatever the  *)
(* row has become since.                                                    *)
record_unresolved(c, attempts) ==
    /\ reconcile_attempts' = [reconcile_attempts EXCEPT ![c] = attempts + 1]
    /\ failure_reason' = [failure_reason EXCEPT ![c] =
         IF attempts + 1 >= RECONCILE_MAX_ATTEMPTS THEN NEEDS_REVIEW ELSE @]

(* Settled since the batch was selected. *)
SweepSkip(w) ==
    /\ At(w, "sweep", "sweep")
    /\ \E c \in todo[w] :
         /\ status[c] # "pending"
         /\ todo' = [todo EXCEPT ![w] = @ \ {c}]
    /\ UNCHANGED <<storeVars, job, answer, handled, loaded, faults>>

NoHandle(c) == ProviderOf[c] = "mpesa" /\ ~checkout_request_id[c]

(* Mutant: a contribution with no handle is passed over without being counted. *)
SweepNoHandle_uncounted(w) ==
    /\ At(w, "sweep", "sweep")
    /\ \E c \in todo[w] :
         /\ status[c] = "pending" /\ NoHandle(c)
         /\ todo' = [todo EXCEPT ![w] = @ \ {c}]
    /\ UNCHANGED <<storeVars, job, answer, handled, loaded, faults>>

(* No CheckoutRequestID to ask Daraja with. *)
SweepNoHandle(w) ==
    /\ At(w, "sweep", "sweep")
    /\ \E c \in todo[w] :
         /\ status[c] = "pending" /\ NoHandle(c)
         /\ record_unresolved(c, reconcile_attempts[c])
         /\ todo' = [todo EXCEPT ![w] = @ \ {c}]
    /\ UNCHANGED <<status, pushVars, stale, outboxVars, moneyVars, providerVars,
                   job, answer, handled, loaded, faults>>

(* The session reads the row and the query leaves. *)
LoadStale(w) ==
    /\ At(w, "sweep", "asking")
    /\ \E c \in todo[w] :
         /\ status[c] = "pending" /\ ~NoHandle(c)
         /\ job' = [job EXCEPT ![w] = c]
         /\ loaded' = [loaded EXCEPT ![w] = reconcile_attempts[c]]
         /\ todo' = [todo EXCEPT ![w] = @ \ {c}]
    /\ UNCHANGED <<storeVars, answer, handled, faults>>

(* The provider answers; the answer travels back while others run. *)
Query(w) ==
    /\ At(w, "asking", "answered")
    /\ \E outcome \in Answers(job[w]) : answer' = [answer EXCEPT ![w] = outcome]
    /\ UNCHANGED <<storeVars, job, handled, todo, loaded, faults>>

QueryReturns(w, outcome) ==
    /\ At(w, "answered", "sweep")
    /\ answer[w] = outcome
    /\ answer' = [answer EXCEPT ![w] = "none"]
    /\ UNCHANGED <<pushVars, stale, outboxVars, providerVars, job, handled, todo,
                   loaded, faults>>

SweepSuccess(w) ==
    /\ QueryReturns(w, "success")
    /\ credit_contribution(job[w])
    /\ UNCHANGED contributionVars

SweepFailed(w) ==
    /\ QueryReturns(w, "failed")
    /\ fail_contribution(job[w])
    /\ UNCHANGED <<reconcile_attempts, moneyVars>>

(* Mutant: no answer fails the contribution. *)
SweepUnknown_failed(w) ==
    /\ QueryReturns(w, "unknown")
    /\ fail_contribution(job[w])
    /\ UNCHANGED <<reconcile_attempts, moneyVars>>

SweepUnknown(w) ==
    /\ QueryReturns(w, "unknown")
    /\ record_unresolved(job[w], loaded[w])
    /\ UNCHANGED <<status, moneyVars>>

(* The batch is done; the loop sleeps LOOP_INTERVAL_SECONDS and starts over. *)
SweepEnds(w) ==
    /\ At(w, "sweep", "drain")
    /\ todo[w] = {}
    /\ UNCHANGED <<storeVars, job, answer, handled, todo, loaded, faults>>

-----------------------------------------------------------------------------
(* The process dies, or an exception no handler of the pass catches ends it  *)
(* (run_forever logs it and goes round): locks are released, uncommitted    *)
(* work is gone, and the next pass starts from the rows alone.              *)
Crash(w) ==
    /\ faults < MaxFaults
    /\ pc[w] # "drain" \/ handled[w] # {}
    /\ faults' = faults + 1
    /\ pc' = [pc EXCEPT ![w] = "drain"]
    /\ answer' = [answer EXCEPT ![w] = "none"]
    /\ handled' = [handled EXCEPT ![w] = {}]
    /\ todo' = [todo EXCEPT ![w] = {}]
    /\ UNCHANGED <<storeVars, job, loaded>>

DrainStep(w) ==
    \/ ClaimSelect(w) \/ ClaimCommit(w) \/ DrainEnds(w) \/ SkipMessage(w)
    \/ StartPush(w) \/ Push(w) \/ PushAccepted(w) \/ PushNotSent(w)
    \/ PushRejected(w) \/ PushAmbiguous(w)

SweepStep(w) ==
    \/ SelectStale(w) \/ SweepSkip(w) \/ SweepNoHandle(w) \/ LoadStale(w)
    \/ Query(w) \/ SweepSuccess(w) \/ SweepFailed(w) \/ SweepUnknown(w)
    \/ SweepEnds(w)

run_once(w) == DrainStep(w) \/ SweepStep(w)
=============================================================================
