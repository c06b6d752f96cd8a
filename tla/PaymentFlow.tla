----------------------------- MODULE PaymentFlow -----------------------------
(***************************************************************************)
(* The payment subsystem whole: contributions opened by requests, pushed   *)
(* and swept by workers, settled by provider callbacks, over one database  *)
(* and one provider.  The worker and the callback modules share the rows   *)
(* of PaymentStore and nothing else.                                       *)
(***************************************************************************)
EXTENDS PaymentWorker, ProviderCallback

vars == <<storeVars, workerVars, callbackVars>>

TypeOK == StoreTypeOK /\ WorkerTypeOK /\ CallbackTypeOK

Init == StoreInit /\ WorkerInit /\ CallbackInit

Environment(c) ==
    contribute_mpesa(c) \/ contribute_airtel(c) \/ Age(c) \/ Pay(c) \/ Decline(c)

Next ==
    \/ \E c \in Contribution : Environment(c) /\ UNCHANGED <<workerVars, callbackVars>>
    \/ \E w \in Worker : (run_once(w) \/ Crash(w)) /\ UNCHANGED callbackVars
    \/ \E d \in Delivery : CallbackStep(d) /\ UNCHANGED workerVars

Spec == Init /\ [][Next]_vars

(* run_forever restarts a pass whatever happened to the last, so a worker    *)
(* that can go on does; a pending row grows old.  Nothing is assumed of the *)
(* payer, of callbacks or of what the provider answers.                     *)
Fairness ==
    /\ \A w \in Worker : WF_vars(run_once(w) /\ UNCHANGED callbackVars)
    /\ \A c \in Contribution :
         WF_vars(Age(c) /\ UNCHANGED <<workerVars, callbackVars>>)

FairSpec == Spec /\ Fairness

-----------------------------------------------------------------------------
Flagged(c) == failure_reason[c] = NEEDS_REVIEW
Exhausted(c) == reconcile_attempts[c] >= RECONCILE_MAX_ATTEMPTS

(* credit_contribution: a ledger credit exists exactly for the contributions *)
(* that are SUCCESS; no late FAILED, from the sweep or from a callback,      *)
(* leaves a credit behind a FAILED row.                                     *)
LedgerMatchesStatus == \A c \in Contribution : c \in ledger <=> status[c] = "success"

(* raised_amount never drifts from the ledger, however many callbacks and    *)
(* sweeps settle one contribution.                                          *)
NoLedgerDivergence == find_ledger_divergence = {}

(* No project is credited with money the payer did not send. *)
CreditOnlyIfPaid == \A c \in ledger : charge[c] = "paid"

(* The payer is prompted at most once for one contribution, through retries, *)
(* concurrent workers and crashes at any point of a push.                   *)
AtMostOnePrompt == \A c \in Contribution : prompts[c] <= 1

(* With a provider whose answers are final, a contribution recorded FAILED   *)
(* is one whose payer was never charged.                                    *)
FailedNeverPaid == ~Revises => \A c \in Contribution : status[c] = "failed" => charge[c] # "paid"

(* A contribution the sweep has given up on is never left unmarked: the ops  *)
(* query finds it.                                                          *)
ExhaustedIsFlagged ==
    \A c \in Contribution : status[c] = "pending" /\ Exhausted(c) => Flagged(c)

(* "left PENDING with failure_reason = NEEDS_REVIEW and drops out of the     *)
(* sweep": what is marked for a human is no longer swept.                   *)
FlaggedLeftSweep ==
    \A c \in Contribution : status[c] = "pending" /\ Flagged(c) => Exhausted(c)

(* Every contribution is decided or handed to a human. *)
EveryContributionDecided ==
    \A c \in Contribution :
        status[c] = "pending" ~> (status[c] # "pending" \/ Flagged(c))

(* Money that moved is credited or handed to a human, even when no callback  *)
(* for it is ever processed.                                                *)
PaidIsCreditedOrFlagged ==
    \A c \in Contribution : charge[c] = "paid" ~> (c \in ledger \/ Flagged(c))

(* "can no longer strand the contribution PENDING forever with no prompt     *)
(* ever having been sent".                                                  *)
NeverStrandedUnprompted ==
    \A c \in Contribution :
        status[c] = "pending" ~> (status[c] # "pending" \/ prompts[c] > 0)

-----------------------------------------------------------------------------
(* The inductive invariant: why the properties above hold.  Its parts relate *)
(* what a worker or a handler holds in its hands to the rows and to the     *)
(* provider.                                                                *)

InDrain(w) == pc[w] \in {"claiming", "claimed", "pushing", "pushed"}

(* A message is in the hands of one worker: under its row lock while it is   *)
(* still pending, as PROCESSING after that.                                 *)
OneOwner ==
    /\ \A v, w \in Worker : InDrain(v) /\ InDrain(w) /\ job[v] = job[w] => v = w
    /\ \A w \in Worker : InDrain(w) =>
         outbox_status[job[w]] = IF pc[w] = "claiming" THEN "pending" ELSE "processing"

(* A message that may still be pushed has attempts left. *)
AttemptsLeft ==
    \A c \in Contribution : outbox_status[c] \in {"none", "pending", "processing"}
                             => outbox_attempts[c] < OUTBOX_MAX_ATTEMPTS

(* No prompt exists for a message that may still be pushed. *)
UnpushedIsUnprompted ==
    /\ \A c \in Contribution :
         /\ outbox_status[c] \in {"none", "pending"} => prompts[c] = 0
         /\ (charge[c] = "none") <=> (prompts[c] = 0)
    /\ \A w \in Worker :
         /\ pc[w] \in {"claimed", "pushing"} => prompts[job[w]] = 0
         /\ pc[w] = "pushed" /\ answer[w] = "not_sent" => prompts[job[w]] = 0

(* The outbox row exists exactly when its contribution does, and whoever     *)
(* holds a contribution holds one that exists.                              *)
Existence ==
    /\ \A c \in Contribution :
         /\ (status[c] = "none") <=> (outbox_status[c] = "none")
         /\ status[c] = "none" => reconcile_attempts[c] = 0
    /\ \A w \in Worker : pc[w] \in {"asking", "answered"} => status[job[w]] # "none"
    /\ \A d \in Delivery : hpc[d] \in {"verify", "settle"} /\ Settleable(d)
                             => status[about[d]] # "none"

(* A success in anyone's hands is money that moved. *)
AnswersAreTrue ==
    /\ \A w \in Worker : pc[w] = "answered" /\ answer[w] = "success"
                           => charge[job[w]] = "paid"
    /\ \A d \in Delivery : hpc[d] = "settle" /\ verified[d] = "success"
                             => charge[about[d]] = "paid"

(* With final answers, a failure in anyone's hands is final as well, and a   *)
(* contribution that failed unprompted will not be pushed any more.         *)
FailuresAreFinal ==
    ~Revises =>
      /\ \A w \in Worker :
           /\ pc[w] = "answered" /\ answer[w] = "failed" => charge[job[w]] = "declined"
           /\ pc[w] = "pushed" /\ answer[w] \in {"not_sent", "rejected"}
                => charge[job[w]] = "none"
      /\ \A d \in Delivery : hpc[d] = "settle" /\ verified[d] = "failed"
                               => charge[about[d]] = "declined"
      /\ \A c \in Contribution : status[c] = "failed" =>
           \/ charge[c] = "declined"
           \/ charge[c] = "none" /\ outbox_status[c] \in {"done", "failed"}

(* The whole of it. *)
InductiveInvariant ==
    /\ TypeOK
    /\ OneOwner /\ AttemptsLeft /\ UnpushedIsUnprompted /\ AtMostOnePrompt
    /\ Existence /\ LedgerMatchesStatus /\ ExhaustedIsFlagged
    /\ AnswersAreTrue /\ CreditOnlyIfPaid /\ FailuresAreFinal

-----------------------------------------------------------------------------
(* The rows a client can see change only as the abstract lifecycle allows.   *)
Lifecycle == INSTANCE ContributionLifecycle WITH status <- status, raised <- raised
LifecycleSpec == Lifecycle!Spec
=============================================================================
