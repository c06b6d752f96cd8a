-------------------------- MODULE PaymentFlowProofs --------------------------
(***************************************************************************)
(* Proofs about PaymentFlow, for any number of contributions, workers and   *)
(* deliveries, any limits and any number of faults.  First what the shared  *)
(* operators do and that the steps which write something keep the           *)
(* invariant; then that it is inductive, that it implies the safety         *)
(* properties the runs check, and that the payment subsystem implements     *)
(* ContributionLifecycle.                                                  *)
(***************************************************************************)
EXTENDS PaymentFlow, FiniteSums

USE StoreAssumption, WorkerAssumption
USE DEF storeVars, workerVars, callbackVars, contributionVars, pushVars, outboxVars,
        moneyVars, providerVars, At, HandlerAt

-----------------------------------------------------------------------------
(* What the shared operators do, once. *)

(* What a worker makes of a reply is one of the four outcomes, and a push it *)
(* takes for not sent did not reach the provider.                           *)
LEMMA PushReading ==
    ASSUME NEW c \in Contribution, NEW reply \in Replies,
           NEW outcome,
           outcome = IF ProviderOf[c] = "mpesa" THEN stk_push(reply)
                                                ELSE initiate_payment(reply)
    PROVE  /\ outcome \in PushOutcome
           /\ outcome = "not_sent" => Reaches(c, reply) = {FALSE}
           /\ outcome \in {"not_sent", "rejected"} /\ ~Revises
                => Reaches(c, reply) = {FALSE}
  <1>1. reply \in PushReply
    OBVIOUS
  <1> QED
    BY <1>1 DEF PushOutcome, PushReply, stk_push, initiate_payment, PushFailure,
       BodyRead, classify_send_error, classify_push_response, Reaches

(* A query is read as one of the three outcomes; success only for money that *)
(* moved, and a failure is final unless the provider revises.               *)
LEMMA QueryReading ==
    ASSUME NEW c \in Contribution, NEW outcome \in Answers(c)
    PROVE  /\ outcome \in QueryOutcome
           /\ outcome = "success" => charge[c] = "paid"
           /\ outcome = "failed" /\ ~Revises => charge[c] = "declined"
  BY DEF Answers, ReplyAbout, QueryOutcome, query_stk_status, query_transaction_status

(* A delivered push prompts at most once, and then the provider knows the    *)
(* contribution.                                                            *)
LEMMA PushEffect ==
    ASSUME StoreTypeOK, NEW c \in Contribution, NEW reply \in Replies,
           DeliverPush(c, reply),
           (charge[c] = "none") <=> (prompts[c] = 0)
    PROVE  /\ charge' \in [Contribution -> {"none", "prompted", "paid", "declined"}]
           /\ prompts' \in [Contribution -> Nat]
           /\ \A b \in Contribution \ {c} : charge'[b] = charge[b] /\ prompts'[b] = prompts[b]
           /\ prompts'[c] <= prompts[c] + 1
           /\ (charge'[c] = "none") <=> (prompts'[c] = 0)
           /\ charge[c] # "none" => charge'[c] = charge[c]
           /\ Reaches(c, reply) = {FALSE} => charge' = charge /\ prompts' = prompts
  <1>1. CASE UNCHANGED providerVars
    BY <1>1 DEF StoreTypeOK
  <1>2. CASE /\ TRUE \in Reaches(c, reply)
             /\ charge' = [charge EXCEPT ![c] = IF @ = "none" THEN "prompted" ELSE @]
             /\ prompts' = [prompts EXCEPT ![c] = @ + 1]
    <2>1. Reaches(c, reply) # {FALSE}
      BY <1>2
    <2>2. prompts'[c] = prompts[c] + 1 /\ prompts'[c] # 0
      BY <1>2 DEF StoreTypeOK
    <2>3. /\ charge' \in [Contribution -> {"none", "prompted", "paid", "declined"}]
          /\ prompts' \in [Contribution -> Nat]
          /\ charge'[c] # "none"
          /\ charge[c] # "none" => charge'[c] = charge[c]
          /\ \A b \in Contribution \ {c} : charge'[b] = charge[b] /\ prompts'[b] = prompts[b]
      BY <1>2 DEF StoreTypeOK
    <2>4. prompts'[c] <= prompts[c] + 1
      BY <2>2 DEF StoreTypeOK
    <2> QED
      BY <2>1, <2>2, <2>3, <2>4
  <1> QED
    BY <1>1, <1>2 DEF DeliverPush, Reaches

(* credit_contribution credits c, and c only, if no credit stands yet. *)
LEMMA CreditEffect ==
    ASSUME StoreTypeOK, NEW c \in Contribution, credit_contribution(c)
    PROVE  /\ status' \in [Contribution -> {"none", "pending", "success", "failed"}]
           /\ ledger' \in SUBSET Contribution
           /\ raised' \in [Project -> Nat]
           /\ ledger' = ledger \cup {c}
           /\ \A b \in Contribution \ {c} : status'[b] = status[b]
           /\ status'[c] = IF c \notin ledger /\ status[c] \in {"pending", "failed"}
                           THEN "success" ELSE status[c]
  <1>1. CASE c \in ledger
    BY <1>1 DEF credit_contribution, StoreTypeOK
  <1>2. CASE c \notin ledger
    <2>1. /\ ledger' = ledger \cup {c}
          /\ raised' = [raised EXCEPT ![ProjectOf[c]] = @ + AmountOf[c]]
          /\ status' = [status EXCEPT ![c] =
                          IF @ \in {"pending", "failed"} THEN "success" ELSE @]
      BY <1>2 DEF credit_contribution
    <2>2. AmountOf[c] \in Nat /\ ProjectOf[c] \in Project
      OBVIOUS
    <2>3. raised' \in [Project -> Nat]
      BY <2>1, <2>2 DEF StoreTypeOK
    <2> QED
      BY <1>2, <2>1, <2>3 DEF StoreTypeOK
  <1> QED
    BY <1>1, <1>2

(* fail_contribution fails c, and c only, if it is pending. *)
LEMMA FailEffect ==
    ASSUME StoreTypeOK, NEW c \in Contribution, fail_contribution(c)
    PROVE  /\ status' \in [Contribution -> {"none", "pending", "success", "failed"}]
           /\ failure_reason' \in [Contribution -> {"none", "failed", NEEDS_REVIEW}]
           /\ \A b \in Contribution \ {c} : /\ status'[b] = status[b]
                                            /\ failure_reason'[b] = failure_reason[b]
           /\ status'[c] = IF status[c] = "pending" THEN "failed" ELSE status[c]
           /\ status[c] # "pending" => failure_reason'[c] = failure_reason[c]
  BY DEF fail_contribution, StoreTypeOK

(* record_unresolved touches c only, and marks it when it exhausts it. *)
LEMMA UnresolvedEffect ==
    ASSUME StoreTypeOK, NEW c \in Contribution, NEW n \in Nat, record_unresolved(c, n)
    PROVE  /\ reconcile_attempts' \in [Contribution -> Nat]
           /\ failure_reason' \in [Contribution -> {"none", "failed", NEEDS_REVIEW}]
           /\ \A b \in Contribution \ {c} :
                 /\ reconcile_attempts'[b] = reconcile_attempts[b]
                 /\ failure_reason'[b] = failure_reason[b]
           /\ Exhausted(c)' => Flagged(c)'
  BY DEF record_unresolved, StoreTypeOK, Exhausted, Flagged

(* A failure keeps the ledger in step with the status and the marks with the *)
(* attempts, and nothing comes into being or vanishes.                      *)
LEMMA FailKeepsBooks ==
    ASSUME StoreTypeOK, LedgerMatchesStatus, ExhaustedIsFlagged,
           NEW c \in Contribution, status[c] # "none", fail_contribution(c),
           ledger' = ledger, reconcile_attempts' = reconcile_attempts
    PROVE  /\ LedgerMatchesStatus' /\ ExhaustedIsFlagged'
           /\ \A b \in Contribution : (status'[b] = "none") <=> (status[b] = "none")
  <1>1. /\ \A b \in Contribution \ {c} : /\ status'[b] = status[b]
                                         /\ failure_reason'[b] = failure_reason[b]
        /\ status'[c] = IF status[c] = "pending" THEN "failed" ELSE status[c]
    BY FailEffect
  <1>2. \A b \in Contribution :
          /\ (status'[b] = "none") <=> (status[b] = "none")
          /\ (status'[b] = "success") <=> (status[b] = "success")
          /\ status'[b] = "pending" => status[b] = "pending" /\ b # c
    BY <1>1
  <1> QED
    BY <1>1, <1>2 DEF LedgerMatchesStatus, ExhaustedIsFlagged, Exhausted, Flagged

(* So does a credit for money that moved. *)
LEMMA CreditKeepsBooks ==
    ASSUME StoreTypeOK, LedgerMatchesStatus, ExhaustedIsFlagged, CreditOnlyIfPaid,
           NEW c \in Contribution, status[c] # "none", charge[c] = "paid",
           credit_contribution(c),
           failure_reason' = failure_reason, reconcile_attempts' = reconcile_attempts,
           charge' = charge
    PROVE  /\ LedgerMatchesStatus' /\ ExhaustedIsFlagged' /\ CreditOnlyIfPaid'
           /\ \A b \in Contribution : /\ (status'[b] = "none") <=> (status[b] = "none")
                                      /\ status'[b] = "failed" => status[b] = "failed"
  <1>1. /\ ledger' = ledger \cup {c}
        /\ \A b \in Contribution \ {c} : status'[b] = status[b]
        /\ status'[c] = IF c \notin ledger /\ status[c] \in {"pending", "failed"}
                        THEN "success" ELSE status[c]
    BY CreditEffect
  <1>2. status'[c] = "success" /\ status[c] # "none"
    BY <1>1 DEF StoreTypeOK, LedgerMatchesStatus
  <1>3. LedgerMatchesStatus'
    BY <1>1, <1>2 DEF LedgerMatchesStatus
  <1>4. ExhaustedIsFlagged'
    BY <1>1, <1>2 DEF ExhaustedIsFlagged, Exhausted, Flagged
  <1>5. CreditOnlyIfPaid'
    BY <1>1 DEF CreditOnlyIfPaid
  <1>6. \A b \in Contribution : /\ (status'[b] = "none") <=> (status[b] = "none")
                                /\ status'[b] = "failed" => status[b] = "failed"
    BY <1>1, <1>2
  <1> QED
    BY <1>3, <1>4, <1>5, <1>6

(* Who held an existing contribution before such a step still does. *)
LEMMA ExistenceKept ==
    ASSUME Existence, WorkerTypeOK, CallbackTypeOK,
           \A b \in Contribution :
             /\ (status'[b] = "none") <=> (status[b] = "none")
             /\ (outbox_status'[b] = "none") <=> (outbox_status[b] = "none"),
           reconcile_attempts' = reconcile_attempts,
           \A v \in Worker : /\ pc'[v] \in {"asking", "answered"} => pc[v] \in {"asking", "answered"}
                             /\ job'[v] = job[v],
           \A d \in Delivery : /\ hpc'[d] \in {"verify", "settle"} => hpc[d] = hpc'[d]
                               /\ about'[d] = about[d] /\ seen'[d] = seen[d]
    PROVE  Existence'
  <1>1. \A v \in Worker : pc'[v] \in {"asking", "answered"} => status'[job'[v]] # "none"
    BY DEF Existence, WorkerTypeOK
  <1>2. \A d \in Delivery : hpc'[d] \in {"verify", "settle"} /\ Settleable(d)'
                            => status'[about'[d]] # "none"
    BY DEF Existence, Settleable, CallbackTypeOK
  <1>3. \A b \in Contribution :
          /\ (status'[b] = "none") <=> (outbox_status'[b] = "none")
          /\ status'[b] = "none" => reconcile_attempts'[b] = 0
    BY DEF Existence
  <1> QED
    BY <1>1, <1>2, <1>3 DEF Existence

-----------------------------------------------------------------------------
(* The steps that need an argument, one lemma each.  In each, <1>1 names the *)
(* parts of the invariant and <1>2 what the step does.                      *)

(* A push prompts only a message its worker owns, which was never prompted.  *)
LEMMA PushKeeps ==
    ASSUME InductiveInvariant, NEW w \in Worker, Push(w), UNCHANGED callbackVars
    PROVE  InductiveInvariant'
  <1> DEFINE c == job[w]
  <1>1. /\ TypeOK /\ StoreTypeOK /\ WorkerTypeOK /\ CallbackTypeOK
        /\ OneOwner /\ AttemptsLeft /\ UnpushedIsUnprompted /\ AtMostOnePrompt
        /\ Existence /\ LedgerMatchesStatus /\ ExhaustedIsFlagged
        /\ AnswersAreTrue /\ CreditOnlyIfPaid /\ FailuresAreFinal
    BY DEF InductiveInvariant, TypeOK
  <1>j. c \in Contribution
    BY <1>1 DEF WorkerTypeOK
  <1>2. PICK reply \in Replies :
          /\ pc[w] = "pushing" /\ pc' = [pc EXCEPT ![w] = "pushed"]
          /\ answer' = [answer EXCEPT ![w] = IF ProviderOf[c] = "mpesa"
                         THEN stk_push(reply) ELSE initiate_payment(reply)]
          /\ DeliverPush(c, reply)
          /\ UNCHANGED <<status, contributionVars, pushVars, stale, outboxVars, moneyVars,
                         job, handled, todo, loaded, faults>>
    BY DEF Push
  <1>3. PICK outcome :
          /\ outcome = IF ProviderOf[c] = "mpesa" THEN stk_push(reply)
                                                  ELSE initiate_payment(reply)
          /\ answer' = [answer EXCEPT ![w] = outcome]
    BY <1>2
  <1>4. /\ outcome \in PushOutcome
        /\ outcome = "not_sent" => Reaches(c, reply) = {FALSE}
        /\ outcome \in {"not_sent", "rejected"} /\ ~Revises => Reaches(c, reply) = {FALSE}
    BY <1>3, <1>j, PushReading
  <1>5. /\ outbox_status[c] = "processing"
        /\ \A v \in Worker \ {w} : InDrain(v) => job[v] # c
    BY <1>1, <1>2 DEF OneOwner, InDrain
  <1>6. prompts[c] = 0 /\ charge[c] = "none"
    BY <1>1, <1>2, <1>j DEF UnpushedIsUnprompted
  <1>7. /\ charge' \in [Contribution -> {"none", "prompted", "paid", "declined"}]
        /\ prompts' \in [Contribution -> Nat]
        /\ \A b \in Contribution \ {c} : charge'[b] = charge[b] /\ prompts'[b] = prompts[b]
        /\ prompts'[c] <= prompts[c] + 1
        /\ (charge'[c] = "none") <=> (prompts'[c] = 0)
        /\ Reaches(c, reply) = {FALSE} => charge' = charge /\ prompts' = prompts
    <2>1. (charge[c] = "none") <=> (prompts[c] = 0)
      BY <1>6
    <2> QED
      BY <1>1, <1>2, <1>j, <2>1, PushEffect
  <1>8. /\ answer' \in [Worker -> Outcome] /\ pc' \in [Worker -> WorkerPC]
        /\ answer'[w] = outcome /\ pc'[w] = "pushed"
        /\ \A v \in Worker \ {w} : answer'[v] = answer[v] /\ pc'[v] = pc[v]
    BY <1>1, <1>2, <1>3, <1>4 DEF WorkerTypeOK, WorkerPC, Outcome
  <1>t. TypeOK'
    BY <1>1, <1>2, <1>7, <1>8 DEF TypeOK, StoreTypeOK, WorkerTypeOK, CallbackTypeOK
  <1>o. OneOwner' /\ AttemptsLeft'
    BY <1>1, <1>2, <1>5, <1>8 DEF OneOwner, InDrain, AttemptsLeft
  <1>u. UnpushedIsUnprompted'
    <2>1. ASSUME NEW b \in Contribution
          PROVE  /\ outbox_status'[b] \in {"none", "pending"} => prompts'[b] = 0
                 /\ (charge'[b] = "none") <=> (prompts'[b] = 0)
      BY <1>1, <1>2, <1>5, <1>7 DEF UnpushedIsUnprompted
    <2>2. outcome = "not_sent" => prompts'[c] = 0
      BY <1>4, <1>6, <1>7
    <2>3. ASSUME NEW v \in Worker, v # w
          PROVE  /\ pc'[v] \in {"claimed", "pushing"} => prompts'[job'[v]] = 0
                 /\ pc'[v] = "pushed" /\ answer'[v] = "not_sent" => prompts'[job'[v]] = 0
      <3>1. job'[v] = job[v] /\ job[v] \in Contribution
        BY <1>1, <1>2 DEF WorkerTypeOK
      <3>2. InDrain(v) => prompts'[job[v]] = prompts[job[v]]
        BY <1>5, <1>7, <2>3, <3>1
      <3>3. pc'[v] = pc[v] /\ answer'[v] = answer[v]
        BY <1>8, <2>3
      <3> QED
        BY <1>1, <3>1, <3>2, <3>3 DEF UnpushedIsUnprompted, InDrain
    <2> QED
      BY <1>2, <1>8, <2>1, <2>2, <2>3 DEF UnpushedIsUnprompted
  <1>p. AtMostOnePrompt'
    BY <1>1, <1>6, <1>7 DEF AtMostOnePrompt
  <1>e. Existence' /\ LedgerMatchesStatus' /\ ExhaustedIsFlagged'
    BY <1>1, <1>2, <1>8
    DEF Existence, Settleable, LedgerMatchesStatus, ExhaustedIsFlagged, Exhausted, Flagged
  <1>9. \A b \in Contribution : charge[b] # "none" => b # c /\ charge'[b] = charge[b]
    BY <1>6, <1>7
  <1>a. AnswersAreTrue' /\ CreditOnlyIfPaid'
    <2>1. \A v \in Worker : pc'[v] = "answered" =>
            /\ pc[v] = "answered" /\ answer'[v] = answer[v]
            /\ job'[v] = job[v] /\ job[v] \in Contribution
      BY <1>1, <1>2, <1>8 DEF WorkerTypeOK
    <2>2. \A d \in Delivery : about[d] \in Contribution
      BY <1>1 DEF CallbackTypeOK
    <2>3. AnswersAreTrue'
      BY <1>1, <1>9, <2>1, <2>2 DEF AnswersAreTrue
    <2>4. CreditOnlyIfPaid'
      BY <1>1, <1>2, <1>9 DEF CreditOnlyIfPaid, StoreTypeOK
    <2> QED
      BY <2>3, <2>4
  <1>f. FailuresAreFinal'
    <2> SUFFICES ASSUME ~Revises PROVE FailuresAreFinal'
      BY DEF FailuresAreFinal
    <2>1. outcome \in {"not_sent", "rejected"} => charge'[c] = "none"
      BY <1>4, <1>6, <1>7
    <2>2. ASSUME NEW v \in Worker, v # w
          PROVE  /\ pc'[v] = "answered" /\ answer'[v] = "failed"
                      => charge'[job'[v]] = "declined"
                 /\ pc'[v] = "pushed" /\ answer'[v] \in {"not_sent", "rejected"}
                      => charge'[job'[v]] = "none"
      <3>1. job'[v] = job[v] /\ job[v] \in Contribution
        BY <1>1, <1>2 DEF WorkerTypeOK
      <3>2. pc[v] = "pushed" => charge'[job[v]] = charge[job[v]]
        BY <1>5, <1>7, <2>2, <3>1 DEF InDrain
      <3>3. pc'[v] = pc[v] /\ answer'[v] = answer[v]
        BY <1>8, <2>2
      <3> QED
        BY <1>1, <1>9, <3>1, <3>2, <3>3 DEF FailuresAreFinal
    <2>3. ASSUME NEW d \in Delivery, hpc'[d] = "settle", verified'[d] = "failed"
          PROVE  charge'[about'[d]] = "declined"
      <3>1. charge[about[d]] = "declined" /\ about[d] \in Contribution
        BY <1>1, <2>3 DEF FailuresAreFinal, CallbackTypeOK
      <3> QED
        BY <1>9, <3>1
    <2>4. ASSUME NEW b \in Contribution, status'[b] = "failed"
          PROVE  \/ charge'[b] = "declined"
                 \/ charge'[b] = "none" /\ outbox_status'[b] \in {"done", "failed"}
      BY <1>1, <1>2, <1>5, <1>6, <1>7, <2>4 DEF FailuresAreFinal
    <2> QED
      BY <1>2, <1>8, <2>1, <2>2, <2>3, <2>4 DEF FailuresAreFinal
  <1> QED
    BY <1>t, <1>o, <1>u, <1>p, <1>e, <1>a, <1>f DEF InductiveInvariant

(* A refused push fails the contribution, and the message is done with.      *)
LEMMA PushRejectedKeeps ==
    ASSUME InductiveInvariant, NEW w \in Worker, PushRejected(w), UNCHANGED callbackVars
    PROVE  InductiveInvariant'
  <1> DEFINE c == job[w]
  <1>1. /\ TypeOK /\ StoreTypeOK /\ WorkerTypeOK /\ CallbackTypeOK
        /\ OneOwner /\ AttemptsLeft /\ UnpushedIsUnprompted /\ AtMostOnePrompt
        /\ Existence /\ LedgerMatchesStatus /\ ExhaustedIsFlagged
        /\ AnswersAreTrue /\ CreditOnlyIfPaid /\ FailuresAreFinal
    BY DEF InductiveInvariant, TypeOK
  <1>j. c \in Contribution
    BY <1>1 DEF WorkerTypeOK
  <1>2. /\ pc[w] = "pushed" /\ pc' = [pc EXCEPT ![w] = "drain"]
        /\ answer[w] = "rejected" /\ answer' = [answer EXCEPT ![w] = "none"]
        /\ outbox_status' = [outbox_status EXCEPT ![c] = "done"]
        /\ fail_contribution(c)
        /\ UNCHANGED <<stale, moneyVars, providerVars, reconcile_attempts, job, handled,
                       todo, loaded, faults, pushVars, outbox_attempts>>
    BY DEF PushRejected, PushReturns
  <1>3. /\ status' \in [Contribution -> {"none", "pending", "success", "failed"}]
        /\ failure_reason' \in [Contribution -> {"none", "failed", NEEDS_REVIEW}]
        /\ \A b \in Contribution \ {c} : /\ status'[b] = status[b]
                                         /\ failure_reason'[b] = failure_reason[b]
        /\ status'[c] = IF status[c] = "pending" THEN "failed" ELSE status[c]
    BY <1>1, <1>2, <1>j, FailEffect
  <1>4. /\ outbox_status[c] = "processing" /\ status[c] # "none"
        /\ \A v \in Worker \ {w} : InDrain(v) => job[v] # c
    BY <1>1, <1>2, <1>j DEF OneOwner, InDrain, Existence
  <1>t. TypeOK'
    BY <1>1, <1>2, <1>3 DEF TypeOK, StoreTypeOK, WorkerTypeOK, CallbackTypeOK, WorkerPC, Outcome
  <1>o. OneOwner' /\ AttemptsLeft'
    BY <1>1, <1>2, <1>4 DEF OneOwner, InDrain, AttemptsLeft, StoreTypeOK, WorkerTypeOK
  <1>u. UnpushedIsUnprompted' /\ AtMostOnePrompt'
    BY <1>1, <1>2 DEF UnpushedIsUnprompted, AtMostOnePrompt, StoreTypeOK, WorkerTypeOK
  <1>e. Existence' /\ LedgerMatchesStatus' /\ ExhaustedIsFlagged'
    <2>1. /\ LedgerMatchesStatus' /\ ExhaustedIsFlagged'
          /\ \A b \in Contribution : (status'[b] = "none") <=> (status[b] = "none")
      BY <1>1, <1>2, <1>4, <1>j, FailKeepsBooks
    <2>2. \A b \in Contribution : (outbox_status'[b] = "none") <=> (outbox_status[b] = "none")
      BY <1>1, <1>2, <1>4 DEF StoreTypeOK
    <2>3. \A v \in Worker : /\ pc'[v] \in {"asking", "answered"} => pc[v] = pc'[v]
                            /\ job'[v] = job[v]
      BY <1>1, <1>2 DEF WorkerTypeOK
    <2> QED
      BY <1>1, <1>2, <2>1, <2>2, <2>3, ExistenceKept
  <1>a. AnswersAreTrue' /\ CreditOnlyIfPaid'
    BY <1>1, <1>2 DEF AnswersAreTrue, CreditOnlyIfPaid, WorkerTypeOK
  <1>f. FailuresAreFinal'
    BY <1>1, <1>2, <1>3, <1>j DEF FailuresAreFinal, StoreTypeOK, WorkerTypeOK
  <1> QED
    BY <1>t, <1>o, <1>u, <1>e, <1>a, <1>f DEF InductiveInvariant

(* A push that never left is queued again, or fails with its contribution when *)
(* its attempts are used up; either way nobody was prompted.                 *)
LEMMA PushNotSentKeeps ==
    ASSUME InductiveInvariant, NEW w \in Worker, PushNotSent(w), UNCHANGED callbackVars
    PROVE  InductiveInvariant'
  <1> DEFINE c == job[w]
  <1>1. /\ TypeOK /\ StoreTypeOK /\ WorkerTypeOK /\ CallbackTypeOK
        /\ OneOwner /\ AttemptsLeft /\ UnpushedIsUnprompted /\ AtMostOnePrompt
        /\ Existence /\ LedgerMatchesStatus /\ ExhaustedIsFlagged
        /\ AnswersAreTrue /\ CreditOnlyIfPaid /\ FailuresAreFinal
    BY DEF InductiveInvariant, TypeOK
  <1>j. c \in Contribution
    BY <1>1 DEF WorkerTypeOK
  <1>2. /\ pc[w] = "pushed" /\ pc' = [pc EXCEPT ![w] = "drain"]
        /\ answer[w] = "not_sent" /\ answer' = [answer EXCEPT ![w] = "none"]
        /\ outbox_attempts' = [outbox_attempts EXCEPT ![c] = @ + 1]
        /\ UNCHANGED <<stale, moneyVars, providerVars, reconcile_attempts, job, handled,
                       todo, loaded, faults, pushVars>>
    BY DEF PushNotSent, PushReturns
  <1>3. \/ /\ outbox_attempts'[c] >= OUTBOX_MAX_ATTEMPTS
           /\ outbox_status' = [outbox_status EXCEPT ![c] = "failed"]
           /\ fail_contribution(c)
        \/ /\ ~(outbox_attempts'[c] >= OUTBOX_MAX_ATTEMPTS)
           /\ outbox_status' = [outbox_status EXCEPT ![c] = "pending"]
           /\ UNCHANGED <<status, failure_reason>>
    BY DEF PushNotSent
  <1>4. /\ outbox_status[c] = "processing" /\ status[c] # "none"
        /\ \A v \in Worker \ {w} : InDrain(v) => job[v] # c
    BY <1>1, <1>2, <1>j DEF OneOwner, InDrain, Existence
  <1>5. prompts[c] = 0 /\ charge[c] = "none"
    BY <1>1, <1>2, <1>j DEF UnpushedIsUnprompted
  <1>6. /\ outbox_attempts' \in [Contribution -> 0..OUTBOX_MAX_ATTEMPTS]
        /\ outbox_attempts'[c] \in Nat
        /\ \A b \in Contribution \ {c} : outbox_attempts'[b] = outbox_attempts[b]
    <2>1. outbox_attempts[c] \in 0..OUTBOX_MAX_ATTEMPTS
      BY <1>1, <1>j DEF StoreTypeOK
    <2>2. outbox_attempts[c] < OUTBOX_MAX_ATTEMPTS
      BY <1>1, <1>4, <1>j DEF AttemptsLeft
    <2>3. outbox_attempts[c] + 1 \in 0..OUTBOX_MAX_ATTEMPTS
      BY <2>1, <2>2
    <2> QED
      BY <1>1, <1>2, <2>3, <1>j DEF StoreTypeOK
  <1>7. /\ status' \in [Contribution -> {"none", "pending", "success", "failed"}]
        /\ failure_reason' \in [Contribution -> {"none", "failed", NEEDS_REVIEW}]
        /\ LedgerMatchesStatus' /\ ExhaustedIsFlagged'
        /\ \A b \in Contribution : (status'[b] = "none") <=> (status[b] = "none")
    <2>1. CASE fail_contribution(c)
      BY <1>1, <1>2, <1>4, <1>j, <2>1, FailEffect, FailKeepsBooks
    <2>2. CASE UNCHANGED <<status, failure_reason>>
      BY <1>1, <1>2, <2>2
      DEF StoreTypeOK, LedgerMatchesStatus, ExhaustedIsFlagged, Exhausted, Flagged
    <2> QED
      BY <1>3, <2>1, <2>2
  <1>8. /\ outbox_status' \in
             [Contribution -> {"none", "pending", "processing", "done", "failed"}]
        /\ outbox_status'[c] \in {"pending", "failed"}
        /\ \A b \in Contribution \ {c} : outbox_status'[b] = outbox_status[b]
    BY <1>1, <1>3, <1>j DEF StoreTypeOK
  <1>t. TypeOK'
    BY <1>1, <1>2, <1>6, <1>7, <1>8
    DEF TypeOK, StoreTypeOK, WorkerTypeOK, CallbackTypeOK, WorkerPC, Outcome
  <1>o. OneOwner'
    <2>1. \A v \in Worker : InDrain(v)' => InDrain(v) /\ v # w /\ pc'[v] = pc[v]
      BY <1>1, <1>2 DEF InDrain, WorkerTypeOK
    <2>2. \A v \in Worker : InDrain(v)' => outbox_status'[job[v]] = outbox_status[job[v]]
      BY <1>1, <1>4, <1>8, <2>1 DEF WorkerTypeOK
    <2>3. job' = job
      BY <1>2
    <2> QED
      BY <1>1, <2>1, <2>2, <2>3 DEF OneOwner
  <1>l. AttemptsLeft'
    <2>1. outbox_status'[c] = "pending" => outbox_attempts'[c] < OUTBOX_MAX_ATTEMPTS
      BY <1>1, <1>3, <1>6, <1>j DEF StoreTypeOK
    <2> QED
      BY <1>1, <1>6, <1>8, <2>1 DEF AttemptsLeft
  <1>u. UnpushedIsUnprompted' /\ AtMostOnePrompt'
    BY <1>1, <1>2, <1>5, <1>8 DEF UnpushedIsUnprompted, AtMostOnePrompt, WorkerTypeOK
  <1>e. Existence'
    <2>1. \A b \in Contribution : (outbox_status'[b] = "none") <=> (outbox_status[b] = "none")
      BY <1>4, <1>8
    <2>2. \A v \in Worker : /\ pc'[v] \in {"asking", "answered"} => pc[v] = pc'[v]
                            /\ job'[v] = job[v]
      BY <1>1, <1>2 DEF WorkerTypeOK
    <2> QED
      BY <1>1, <1>2, <1>7, <2>1, <2>2, ExistenceKept
  <1>a. AnswersAreTrue' /\ CreditOnlyIfPaid'
    BY <1>1, <1>2 DEF AnswersAreTrue, CreditOnlyIfPaid, WorkerTypeOK
  <1>f. FailuresAreFinal'
    <2> SUFFICES ASSUME ~Revises PROVE FailuresAreFinal'
      BY DEF FailuresAreFinal
    <2>1. status[c] # "failed"
      BY <1>1, <1>4, <1>5, <1>j DEF FailuresAreFinal
    <2>2. /\ status'[c] = "failed" => outbox_status'[c] = "failed"
          /\ \A b \in Contribution \ {c} : status'[b] = status[b]
      <3>1. CASE fail_contribution(c)
        BY <1>1, <1>3, <1>j, <2>1, <3>1, FailEffect DEF StoreTypeOK
      <3>2. CASE UNCHANGED <<status, failure_reason>>
        BY <2>1, <3>2
      <3> QED
        BY <1>3, <3>1, <3>2
    <2>3. \A b \in Contribution : status'[b] = "failed" =>
            \/ charge'[b] = "declined"
            \/ charge'[b] = "none" /\ outbox_status'[b] \in {"done", "failed"}
      BY <1>1, <1>2, <1>5, <1>8, <2>2 DEF FailuresAreFinal
    <2> QED
      BY <1>1, <1>2, <2>3 DEF FailuresAreFinal, WorkerTypeOK
  <1> QED
    BY <1>t, <1>o, <1>l, <1>u, <1>7, <1>e, <1>a, <1>f DEF InductiveInvariant

(* An acknowledged push ends its message; only then is the handle kept.      *)
LEMMA PushAcceptedKeeps ==
    ASSUME InductiveInvariant, NEW w \in Worker, PushAccepted(w), UNCHANGED callbackVars
    PROVE  InductiveInvariant'
  <1> DEFINE c == job[w]
  <1>1. /\ TypeOK /\ StoreTypeOK /\ WorkerTypeOK /\ CallbackTypeOK
        /\ OneOwner /\ AttemptsLeft /\ UnpushedIsUnprompted /\ AtMostOnePrompt
        /\ Existence /\ LedgerMatchesStatus /\ ExhaustedIsFlagged
        /\ AnswersAreTrue /\ CreditOnlyIfPaid /\ FailuresAreFinal
    BY DEF InductiveInvariant, TypeOK
  <1>j. c \in Contribution
    BY <1>1 DEF WorkerTypeOK
  <1>2. /\ pc[w] = "pushed" /\ pc' = [pc EXCEPT ![w] = "drain"]
        /\ answer[w] = "accepted" /\ answer' = [answer EXCEPT ![w] = "none"]
        /\ push_attempts' = [push_attempts EXCEPT ![c] = @ + 1]
        /\ outbox_status' = [outbox_status EXCEPT ![c] = "done"]
        /\ UNCHANGED <<status, failure_reason, stale, moneyVars, providerVars,
                       reconcile_attempts, outbox_attempts, job, handled, todo, loaded,
                       faults>>
    BY DEF PushAccepted, PushReturns
  <1>3. /\ push_attempts' \in [Contribution -> Nat]
        /\ checkout_request_id' \in [Contribution -> BOOLEAN]
    <2>1. push_attempts[c] \in Nat
      BY <1>1, <1>j DEF StoreTypeOK
    <2>2. push_attempts[c] + 1 \in Nat
      BY <2>1
    <2> QED
      BY <1>1, <1>2, <1>j, <2>2 DEF PushAccepted, StoreTypeOK
  <1>4. /\ outbox_status[c] = "processing" /\ status[c] # "none"
        /\ \A v \in Worker \ {w} : InDrain(v) => job[v] # c
    BY <1>1, <1>2, <1>j DEF OneOwner, InDrain, Existence
  <1>t. TypeOK'
    BY <1>1, <1>2, <1>3 DEF TypeOK, StoreTypeOK, WorkerTypeOK, CallbackTypeOK, WorkerPC, Outcome
  <1>o. OneOwner' /\ AttemptsLeft'
    BY <1>1, <1>2, <1>4 DEF OneOwner, InDrain, AttemptsLeft, StoreTypeOK, WorkerTypeOK
  <1>u. UnpushedIsUnprompted' /\ AtMostOnePrompt'
    BY <1>1, <1>2 DEF UnpushedIsUnprompted, AtMostOnePrompt, StoreTypeOK, WorkerTypeOK
  <1>b. LedgerMatchesStatus' /\ ExhaustedIsFlagged' /\ CreditOnlyIfPaid'
    BY <1>1, <1>2
    DEF LedgerMatchesStatus, ExhaustedIsFlagged, Exhausted, Flagged, CreditOnlyIfPaid
  <1>e. Existence'
    <2>1. \A b \in Contribution : (outbox_status'[b] = "none") <=> (outbox_status[b] = "none")
      BY <1>1, <1>2, <1>4 DEF StoreTypeOK
    <2>2. \A v \in Worker : /\ pc'[v] \in {"asking", "answered"} => pc[v] = pc'[v]
                            /\ job'[v] = job[v]
      BY <1>1, <1>2 DEF WorkerTypeOK
    <2> QED
      BY <1>1, <1>2, <2>1, <2>2, ExistenceKept
  <1>a. AnswersAreTrue'
    BY <1>1, <1>2 DEF AnswersAreTrue, WorkerTypeOK
  <1>f. FailuresAreFinal'
    BY <1>1, <1>2, <1>j DEF FailuresAreFinal, StoreTypeOK, WorkerTypeOK
  <1> QED
    BY <1>t, <1>o, <1>u, <1>b, <1>e, <1>a, <1>f DEF InductiveInvariant

(* A push of unknown fate ends its message and leaves the status alone.      *)
LEMMA PushAmbiguousKeeps ==
    ASSUME InductiveInvariant, NEW w \in Worker, PushAmbiguous(w), UNCHANGED callbackVars
    PROVE  InductiveInvariant'
  <1> DEFINE c == job[w]
  <1>1. /\ TypeOK /\ StoreTypeOK /\ WorkerTypeOK /\ CallbackTypeOK
        /\ OneOwner /\ AttemptsLeft /\ UnpushedIsUnprompted /\ AtMostOnePrompt
        /\ Existence /\ LedgerMatchesStatus /\ ExhaustedIsFlagged
        /\ AnswersAreTrue /\ CreditOnlyIfPaid /\ FailuresAreFinal
    BY DEF InductiveInvariant, TypeOK
  <1>j. c \in Contribution
    BY <1>1 DEF WorkerTypeOK
  <1>2. /\ pc[w] = "pushed" /\ pc' = [pc EXCEPT ![w] = "drain"]
        /\ answer[w] = "ambiguous" /\ answer' = [answer EXCEPT ![w] = "none"]
        /\ push_attempts' = [push_attempts EXCEPT ![c] = @ + 1]
        /\ outbox_status' = [outbox_status EXCEPT ![c] = "failed"]
        /\ UNCHANGED <<status, failure_reason, stale, moneyVars, providerVars,
                       reconcile_attempts, outbox_attempts, job, handled, todo, loaded,
                       faults>>
    BY DEF PushAmbiguous, PushReturns
  <1>3. /\ push_attempts' \in [Contribution -> Nat]
        /\ checkout_request_id' \in [Contribution -> BOOLEAN]
    <2>1. push_attempts[c] \in Nat
      BY <1>1, <1>j DEF StoreTypeOK
    <2>2. push_attempts[c] + 1 \in Nat
      BY <2>1
    <2> QED
      BY <1>1, <1>2, <1>j, <2>2 DEF PushAmbiguous, StoreTypeOK
  <1>4. /\ outbox_status[c] = "processing" /\ status[c] # "none"
        /\ \A v \in Worker \ {w} : InDrain(v) => job[v] # c
    BY <1>1, <1>2, <1>j DEF OneOwner, InDrain, Existence
  <1>t. TypeOK'
    BY <1>1, <1>2, <1>3 DEF TypeOK, StoreTypeOK, WorkerTypeOK, CallbackTypeOK, WorkerPC, Outcome
  <1>o. OneOwner' /\ AttemptsLeft'
    BY <1>1, <1>2, <1>4 DEF OneOwner, InDrain, AttemptsLeft, StoreTypeOK, WorkerTypeOK
  <1>u. UnpushedIsUnprompted' /\ AtMostOnePrompt'
    BY <1>1, <1>2 DEF UnpushedIsUnprompted, AtMostOnePrompt, StoreTypeOK, WorkerTypeOK
  <1>b. LedgerMatchesStatus' /\ ExhaustedIsFlagged' /\ CreditOnlyIfPaid'
    BY <1>1, <1>2
    DEF LedgerMatchesStatus, ExhaustedIsFlagged, Exhausted, Flagged, CreditOnlyIfPaid
  <1>e. Existence'
    <2>1. \A b \in Contribution : (outbox_status'[b] = "none") <=> (outbox_status[b] = "none")
      BY <1>1, <1>2, <1>4 DEF StoreTypeOK
    <2>2. \A v \in Worker : /\ pc'[v] \in {"asking", "answered"} => pc[v] = pc'[v]
                            /\ job'[v] = job[v]
      BY <1>1, <1>2 DEF WorkerTypeOK
    <2> QED
      BY <1>1, <1>2, <2>1, <2>2, ExistenceKept
  <1>a. AnswersAreTrue'
    BY <1>1, <1>2 DEF AnswersAreTrue, WorkerTypeOK
  <1>f. FailuresAreFinal'
    BY <1>1, <1>2, <1>j DEF FailuresAreFinal, StoreTypeOK, WorkerTypeOK
  <1> QED
    BY <1>t, <1>o, <1>u, <1>b, <1>e, <1>a, <1>f DEF InductiveInvariant

(* A claim hands the message from its row lock to its PROCESSING status.     *)
LEMMA ClaimCommitKeeps ==
    ASSUME InductiveInvariant, NEW w \in Worker, ClaimCommit(w), UNCHANGED callbackVars
    PROVE  InductiveInvariant'
  <1> DEFINE c == job[w]
  <1>1. /\ TypeOK /\ StoreTypeOK /\ WorkerTypeOK /\ CallbackTypeOK
        /\ OneOwner /\ AttemptsLeft /\ UnpushedIsUnprompted /\ AtMostOnePrompt
        /\ Existence /\ LedgerMatchesStatus /\ ExhaustedIsFlagged
        /\ AnswersAreTrue /\ CreditOnlyIfPaid /\ FailuresAreFinal
    BY DEF InductiveInvariant, TypeOK
  <1>j. c \in Contribution
    BY <1>1 DEF WorkerTypeOK
  <1>2. /\ pc[w] = "claiming" /\ pc' = [pc EXCEPT ![w] = "claimed"]
        /\ outbox_status' = [outbox_status EXCEPT ![c] = "processing"]
        /\ handled' = [handled EXCEPT ![w] = @ \cup {c}]
        /\ UNCHANGED <<status, contributionVars, pushVars, stale, outbox_attempts,
                       moneyVars, providerVars, job, answer, todo, loaded, faults>>
    BY DEF ClaimCommit
  <1>3. handled' \in [Worker -> SUBSET Contribution]
    BY <1>1, <1>2, <1>j DEF WorkerTypeOK
  <1>4. /\ outbox_status[c] = "pending" /\ prompts[c] = 0 /\ status[c] # "none"
        /\ \A v \in Worker \ {w} : InDrain(v) => job[v] # c
    BY <1>1, <1>2, <1>j DEF OneOwner, InDrain, Existence, UnpushedIsUnprompted
  <1>t. TypeOK'
    BY <1>1, <1>2, <1>3 DEF TypeOK, StoreTypeOK, WorkerTypeOK, CallbackTypeOK, WorkerPC
  <1>o. OneOwner' /\ AttemptsLeft'
    BY <1>1, <1>2, <1>4 DEF OneOwner, InDrain, AttemptsLeft, StoreTypeOK, WorkerTypeOK
  <1>u. UnpushedIsUnprompted' /\ AtMostOnePrompt'
    BY <1>1, <1>2, <1>4 DEF UnpushedIsUnprompted, AtMostOnePrompt, StoreTypeOK, WorkerTypeOK
  <1>b. LedgerMatchesStatus' /\ ExhaustedIsFlagged' /\ CreditOnlyIfPaid'
    BY <1>1, <1>2
    DEF LedgerMatchesStatus, ExhaustedIsFlagged, Exhausted, Flagged, CreditOnlyIfPaid
  <1>e. Existence'
    <2>1. \A b \in Contribution : (outbox_status'[b] = "none") <=> (outbox_status[b] = "none")
      BY <1>1, <1>2, <1>4 DEF StoreTypeOK
    <2>2. \A v \in Worker : /\ pc'[v] \in {"asking", "answered"} => pc[v] = pc'[v]
                            /\ job'[v] = job[v]
      BY <1>1, <1>2 DEF WorkerTypeOK
    <2> QED
      BY <1>1, <1>2, <2>1, <2>2, ExistenceKept
  <1>a. AnswersAreTrue'
    BY <1>1, <1>2 DEF AnswersAreTrue, WorkerTypeOK
  <1>f. FailuresAreFinal'
    BY <1>1, <1>2, <1>4, <1>j DEF FailuresAreFinal, StoreTypeOK, WorkerTypeOK
  <1> QED
    BY <1>t, <1>o, <1>u, <1>b, <1>e, <1>a, <1>f DEF InductiveInvariant

(* A sweep credits what the provider said was paid, and still is.            *)
LEMMA SweepSuccessKeeps ==
    ASSUME InductiveInvariant, NEW w \in Worker, SweepSuccess(w), UNCHANGED callbackVars
    PROVE  InductiveInvariant'
  <1> DEFINE c == job[w]
  <1>1. /\ TypeOK /\ StoreTypeOK /\ WorkerTypeOK /\ CallbackTypeOK
        /\ OneOwner /\ AttemptsLeft /\ UnpushedIsUnprompted /\ AtMostOnePrompt
        /\ Existence /\ LedgerMatchesStatus /\ ExhaustedIsFlagged
        /\ AnswersAreTrue /\ CreditOnlyIfPaid /\ FailuresAreFinal
    BY DEF InductiveInvariant, TypeOK
  <1>j. c \in Contribution
    BY <1>1 DEF WorkerTypeOK
  <1>2. /\ pc[w] = "answered" /\ pc' = [pc EXCEPT ![w] = "sweep"]
        /\ answer[w] = "success" /\ answer' = [answer EXCEPT ![w] = "none"]
        /\ credit_contribution(c)
        /\ UNCHANGED <<pushVars, stale, outboxVars, providerVars, job, handled, todo,
                       loaded, faults, contributionVars>>
    BY DEF SweepSuccess, QueryReturns
  <1>3. status[c] # "none"
    BY <1>1, <1>2 DEF Existence
  <1>4. /\ status' \in [Contribution -> {"none", "pending", "success", "failed"}]
        /\ ledger' \in SUBSET Contribution
        /\ raised' \in [Project -> Nat]
    BY <1>1, <1>2, <1>j, CreditEffect
  <1>t. TypeOK'
    BY <1>1, <1>2, <1>4 DEF TypeOK, StoreTypeOK, WorkerTypeOK, CallbackTypeOK, WorkerPC, Outcome
  <1>o. OneOwner' /\ AttemptsLeft'
    BY <1>1, <1>2 DEF OneOwner, InDrain, AttemptsLeft, WorkerTypeOK
  <1>u. UnpushedIsUnprompted' /\ AtMostOnePrompt'
    BY <1>1, <1>2 DEF UnpushedIsUnprompted, AtMostOnePrompt, WorkerTypeOK
  <1>b. /\ LedgerMatchesStatus' /\ ExhaustedIsFlagged' /\ CreditOnlyIfPaid'
        /\ \A b \in Contribution :
              /\ (status'[b] = "none") <=> (status[b] = "none")
              /\ status'[b] = "failed" => status[b] = "failed"
    <2>1. charge[c] = "paid"
      BY <1>1, <1>2 DEF AnswersAreTrue
    <2> QED
      BY <1>1, <1>2, <1>3, <1>j, <2>1, CreditKeepsBooks
  <1>e. Existence'
    <2>1. \A v \in Worker : /\ pc'[v] \in {"asking", "answered"} => pc[v] = pc'[v]
                            /\ job'[v] = job[v]
      BY <1>1, <1>2 DEF WorkerTypeOK
    <2> QED
      BY <1>1, <1>2, <1>b, <2>1, ExistenceKept
  <1>a. AnswersAreTrue'
    BY <1>1, <1>2 DEF AnswersAreTrue, WorkerTypeOK
  <1>f. FailuresAreFinal'
    BY <1>1, <1>2, <1>b DEF FailuresAreFinal, WorkerTypeOK
  <1> QED
    BY <1>t, <1>o, <1>u, <1>b, <1>e, <1>a, <1>f DEF InductiveInvariant

(* A sweep fails only what is still pending when it writes.                  *)
LEMMA SweepFailedKeeps ==
    ASSUME InductiveInvariant, NEW w \in Worker, SweepFailed(w), UNCHANGED callbackVars
    PROVE  InductiveInvariant'
  <1> DEFINE c == job[w]
  <1>1. /\ TypeOK /\ StoreTypeOK /\ WorkerTypeOK /\ CallbackTypeOK
        /\ OneOwner /\ AttemptsLeft /\ UnpushedIsUnprompted /\ AtMostOnePrompt
        /\ Existence /\ LedgerMatchesStatus /\ ExhaustedIsFlagged
        /\ AnswersAreTrue /\ CreditOnlyIfPaid /\ FailuresAreFinal
    BY DEF InductiveInvariant, TypeOK
  <1>j. c \in Contribution
    BY <1>1 DEF WorkerTypeOK
  <1>2. /\ pc[w] = "answered" /\ pc' = [pc EXCEPT ![w] = "sweep"]
        /\ answer[w] = "failed" /\ answer' = [answer EXCEPT ![w] = "none"]
        /\ fail_contribution(c)
        /\ UNCHANGED <<pushVars, stale, outboxVars, providerVars, job, handled, todo,
                       loaded, faults, reconcile_attempts, moneyVars>>
    BY DEF SweepFailed, QueryReturns
  <1>3. status[c] # "none"
    BY <1>1, <1>2 DEF Existence
  <1>4. /\ status' \in [Contribution -> {"none", "pending", "success", "failed"}]
        /\ failure_reason' \in [Contribution -> {"none", "failed", NEEDS_REVIEW}]
        /\ \A b \in Contribution \ {c} : status'[b] = status[b]
    BY <1>1, <1>2, <1>j, FailEffect
  <1>t. TypeOK'
    BY <1>1, <1>2, <1>4 DEF TypeOK, StoreTypeOK, WorkerTypeOK, CallbackTypeOK, WorkerPC, Outcome
  <1>o. OneOwner' /\ AttemptsLeft'
    BY <1>1, <1>2 DEF OneOwner, InDrain, AttemptsLeft, WorkerTypeOK
  <1>u. UnpushedIsUnprompted' /\ AtMostOnePrompt'
    BY <1>1, <1>2 DEF UnpushedIsUnprompted, AtMostOnePrompt, WorkerTypeOK
  <1>b. /\ LedgerMatchesStatus' /\ ExhaustedIsFlagged' /\ CreditOnlyIfPaid'
        /\ \A b \in Contribution : (status'[b] = "none") <=> (status[b] = "none")
    <2>1. CreditOnlyIfPaid'
      BY <1>1, <1>2 DEF CreditOnlyIfPaid
    <2> QED
      BY <1>1, <1>2, <1>3, <1>j, <2>1, FailKeepsBooks
  <1>e. Existence'
    <2>1. \A v \in Worker : /\ pc'[v] \in {"asking", "answered"} => pc[v] = pc'[v]
                            /\ job'[v] = job[v]
      BY <1>1, <1>2 DEF WorkerTypeOK
    <2> QED
      BY <1>1, <1>2, <1>b, <2>1, ExistenceKept
  <1>a. AnswersAreTrue'
    BY <1>1, <1>2 DEF AnswersAreTrue, WorkerTypeOK
  <1>f. FailuresAreFinal'
    <2>1. ~Revises => charge[c] = "declined"
      BY <1>1, <1>2 DEF FailuresAreFinal
    <2> QED
      BY <1>1, <1>2, <1>4, <2>1 DEF FailuresAreFinal, WorkerTypeOK
  <1> QED
    BY <1>t, <1>o, <1>u, <1>b, <1>e, <1>a, <1>f DEF InductiveInvariant

(* No answer counts one attempt, and marks the row with the last of them.    *)
LEMMA SweepUnknownKeeps ==
    ASSUME InductiveInvariant, NEW w \in Worker, SweepUnknown(w), UNCHANGED callbackVars
    PROVE  InductiveInvariant'
  <1> DEFINE c == job[w]
  <1>1. /\ TypeOK /\ StoreTypeOK /\ WorkerTypeOK /\ CallbackTypeOK
        /\ OneOwner /\ AttemptsLeft /\ UnpushedIsUnprompted /\ AtMostOnePrompt
        /\ Existence /\ LedgerMatchesStatus /\ ExhaustedIsFlagged
        /\ AnswersAreTrue /\ CreditOnlyIfPaid /\ FailuresAreFinal
    BY DEF InductiveInvariant, TypeOK
  <1>j. c \in Contribution
    BY <1>1 DEF WorkerTypeOK
  <1>2. /\ pc[w] = "answered" /\ pc' = [pc EXCEPT ![w] = "sweep"]
        /\ answer[w] = "unknown" /\ answer' = [answer EXCEPT ![w] = "none"]
        /\ record_unresolved(c, loaded[w])
        /\ UNCHANGED <<pushVars, stale, outboxVars, providerVars, job, handled, todo,
                       loaded, faults, status, moneyVars>>
    BY DEF SweepUnknown, QueryReturns
  <1>3. status[c] # "none"
    BY <1>1, <1>2 DEF Existence
  <1>4. /\ reconcile_attempts' \in [Contribution -> Nat]
        /\ failure_reason' \in [Contribution -> {"none", "failed", NEEDS_REVIEW}]
        /\ \A b \in Contribution \ {c} :
              /\ reconcile_attempts'[b] = reconcile_attempts[b]
              /\ failure_reason'[b] = failure_reason[b]
        /\ Exhausted(c)' => Flagged(c)'
    <2>1. loaded[w] \in Nat
      BY <1>1 DEF WorkerTypeOK
    <2> QED
      BY <1>1, <1>2, <1>j, <2>1, UnresolvedEffect
  <1>t. TypeOK'
    BY <1>1, <1>2, <1>4 DEF TypeOK, StoreTypeOK, WorkerTypeOK, CallbackTypeOK, WorkerPC, Outcome
  <1>o. OneOwner' /\ AttemptsLeft'
    BY <1>1, <1>2 DEF OneOwner, InDrain, AttemptsLeft, WorkerTypeOK
  <1>u. UnpushedIsUnprompted' /\ AtMostOnePrompt'
    BY <1>1, <1>2 DEF UnpushedIsUnprompted, AtMostOnePrompt, WorkerTypeOK
  <1>b. LedgerMatchesStatus' /\ ExhaustedIsFlagged' /\ CreditOnlyIfPaid'
    <2>1. LedgerMatchesStatus' /\ CreditOnlyIfPaid'
      BY <1>1, <1>2 DEF LedgerMatchesStatus, CreditOnlyIfPaid
    <2>2. ExhaustedIsFlagged'
      BY <1>1, <1>2, <1>4 DEF ExhaustedIsFlagged, Exhausted, Flagged
    <2> QED
      BY <2>1, <2>2
  <1>e. Existence'
    <2>1. \A b \in Contribution : status'[b] = "none" => reconcile_attempts'[b] = 0
      BY <1>1, <1>2, <1>3, <1>4 DEF Existence
    <2>2. \A v \in Worker : pc'[v] \in {"asking", "answered"} => pc[v] = pc'[v]
      BY <1>1, <1>2 DEF WorkerTypeOK
    <2> QED
      BY <1>1, <1>2, <2>1, <2>2 DEF Existence, Settleable
  <1>a. AnswersAreTrue'
    BY <1>1, <1>2 DEF AnswersAreTrue, WorkerTypeOK
  <1>f. FailuresAreFinal'
    BY <1>1, <1>2 DEF FailuresAreFinal, WorkerTypeOK
  <1> QED
    BY <1>t, <1>o, <1>u, <1>b, <1>e, <1>a, <1>f DEF InductiveInvariant

(* A handler credits what its query confirmed, even on a stale status.       *)
LEMMA CallbackCreditsKeeps ==
    ASSUME InductiveInvariant, NEW d \in Delivery, CallbackCredits(d), UNCHANGED workerVars
    PROVE  InductiveInvariant'
  <1> DEFINE c == about[d]
  <1>1. /\ TypeOK /\ StoreTypeOK /\ WorkerTypeOK /\ CallbackTypeOK
        /\ OneOwner /\ AttemptsLeft /\ UnpushedIsUnprompted /\ AtMostOnePrompt
        /\ Existence /\ LedgerMatchesStatus /\ ExhaustedIsFlagged
        /\ AnswersAreTrue /\ CreditOnlyIfPaid /\ FailuresAreFinal
    BY DEF InductiveInvariant, TypeOK
  <1>j. c \in Contribution
    BY <1>1 DEF CallbackTypeOK
  <1>2. /\ hpc[d] = "settle" /\ hpc' = [hpc EXCEPT ![d] = "done"]
        /\ Settleable(d) /\ verified[d] = "success"
        /\ provider_events' = provider_events \cup {d}
        /\ credit_contribution(c)
        /\ UNCHANGED <<pushVars, stale, outboxVars, providerVars, reconcile_attempts,
                       about, seen, verified, failure_reason>>
    BY DEF CallbackCredits, CallbackReturns
  <1>3. status[c] # "none"
    BY <1>1, <1>2 DEF Existence
  <1>4. /\ status' \in [Contribution -> {"none", "pending", "success", "failed"}]
        /\ ledger' \in SUBSET Contribution
        /\ raised' \in [Project -> Nat]
    BY <1>1, <1>2, <1>j, CreditEffect
  <1>t. TypeOK'
    BY <1>1, <1>2, <1>4 DEF TypeOK, StoreTypeOK, WorkerTypeOK, CallbackTypeOK
  <1>o. OneOwner' /\ AttemptsLeft'
    BY <1>1, <1>2 DEF OneOwner, InDrain, AttemptsLeft
  <1>u. UnpushedIsUnprompted' /\ AtMostOnePrompt'
    BY <1>1, <1>2 DEF UnpushedIsUnprompted, AtMostOnePrompt
  <1>b. /\ LedgerMatchesStatus' /\ ExhaustedIsFlagged' /\ CreditOnlyIfPaid'
        /\ \A b \in Contribution :
              /\ (status'[b] = "none") <=> (status[b] = "none")
              /\ status'[b] = "failed" => status[b] = "failed"
    <2>1. charge[c] = "paid"
      BY <1>1, <1>2 DEF AnswersAreTrue
    <2> QED
      BY <1>1, <1>2, <1>3, <1>j, <2>1, CreditKeepsBooks
  <1>e. Existence'
    <2>1. \A x \in Delivery : hpc'[x] \in {"verify", "settle"} => hpc[x] = hpc'[x]
      BY <1>1, <1>2 DEF CallbackTypeOK
    <2> QED
      BY <1>1, <1>2, <1>b, <2>1, ExistenceKept
  <1>a. AnswersAreTrue'
    BY <1>1, <1>2 DEF AnswersAreTrue, CallbackTypeOK
  <1>f. FailuresAreFinal'
    BY <1>1, <1>2, <1>b DEF FailuresAreFinal, CallbackTypeOK
  <1> QED
    BY <1>t, <1>o, <1>u, <1>b, <1>e, <1>a, <1>f DEF InductiveInvariant

(* A handler fails only what is still pending when it writes.                *)
LEMMA CallbackFailsKeeps ==
    ASSUME InductiveInvariant, NEW d \in Delivery, CallbackFails(d), UNCHANGED workerVars
    PROVE  InductiveInvariant'
  <1> DEFINE c == about[d]
  <1>1. /\ TypeOK /\ StoreTypeOK /\ WorkerTypeOK /\ CallbackTypeOK
        /\ OneOwner /\ AttemptsLeft /\ UnpushedIsUnprompted /\ AtMostOnePrompt
        /\ Existence /\ LedgerMatchesStatus /\ ExhaustedIsFlagged
        /\ AnswersAreTrue /\ CreditOnlyIfPaid /\ FailuresAreFinal
    BY DEF InductiveInvariant, TypeOK
  <1>j. c \in Contribution
    BY <1>1 DEF CallbackTypeOK
  <1>2. /\ hpc[d] = "settle" /\ hpc' = [hpc EXCEPT ![d] = "done"]
        /\ Settleable(d) /\ verified[d] = "failed"
        /\ provider_events' = provider_events \cup {d}
        /\ fail_contribution(c)
        /\ UNCHANGED <<pushVars, stale, outboxVars, providerVars, reconcile_attempts,
                       about, seen, verified, moneyVars>>
    BY DEF CallbackFails, CallbackReturns
  <1>3. status[c] # "none"
    BY <1>1, <1>2 DEF Existence
  <1>4. /\ status' \in [Contribution -> {"none", "pending", "success", "failed"}]
        /\ failure_reason' \in [Contribution -> {"none", "failed", NEEDS_REVIEW}]
        /\ \A b \in Contribution \ {c} : status'[b] = status[b]
    BY <1>1, <1>2, <1>j, FailEffect
  <1>t. TypeOK'
    BY <1>1, <1>2, <1>4 DEF TypeOK, StoreTypeOK, WorkerTypeOK, CallbackTypeOK
  <1>o. OneOwner' /\ AttemptsLeft'
    BY <1>1, <1>2 DEF OneOwner, InDrain, AttemptsLeft
  <1>u. UnpushedIsUnprompted' /\ AtMostOnePrompt'
    BY <1>1, <1>2 DEF UnpushedIsUnprompted, AtMostOnePrompt
  <1>b. /\ LedgerMatchesStatus' /\ ExhaustedIsFlagged' /\ CreditOnlyIfPaid'
        /\ \A b \in Contribution : (status'[b] = "none") <=> (status[b] = "none")
    <2>1. CreditOnlyIfPaid'
      BY <1>1, <1>2 DEF CreditOnlyIfPaid
    <2> QED
      BY <1>1, <1>2, <1>3, <1>j, <2>1, FailKeepsBooks
  <1>e. Existence'
    <2>1. \A x \in Delivery : hpc'[x] \in {"verify", "settle"} => hpc[x] = hpc'[x]
      BY <1>1, <1>2 DEF CallbackTypeOK
    <2> QED
      BY <1>1, <1>2, <1>b, <2>1, ExistenceKept
  <1>a. AnswersAreTrue'
    BY <1>1, <1>2 DEF AnswersAreTrue, CallbackTypeOK
  <1>f. FailuresAreFinal'
    <2>1. ~Revises => charge[c] = "declined"
      BY <1>1, <1>2 DEF FailuresAreFinal
    <2> QED
      BY <1>1, <1>2, <1>4, <2>1 DEF FailuresAreFinal, CallbackTypeOK
  <1> QED
    BY <1>t, <1>o, <1>u, <1>b, <1>e, <1>a, <1>f DEF InductiveInvariant

(* The answer a worker takes away stays true: paid and declined are final    *)
(* (declined unless the provider revises).                                   *)
LEMMA QueryKeeps ==
    ASSUME InductiveInvariant, NEW w \in Worker, Query(w), UNCHANGED callbackVars
    PROVE  InductiveInvariant'
  <1> DEFINE c == job[w]
  <1>1. /\ TypeOK /\ StoreTypeOK /\ WorkerTypeOK /\ CallbackTypeOK
        /\ OneOwner /\ AttemptsLeft /\ UnpushedIsUnprompted /\ AtMostOnePrompt
        /\ Existence /\ LedgerMatchesStatus /\ ExhaustedIsFlagged
        /\ AnswersAreTrue /\ CreditOnlyIfPaid /\ FailuresAreFinal
    BY DEF InductiveInvariant, TypeOK
  <1>2. /\ pc[w] = "asking" /\ pc' = [pc EXCEPT ![w] = "answered"]
        /\ UNCHANGED <<storeVars, job, handled, todo, loaded, faults>>
    BY DEF Query
  <1>3. PICK outcome \in QueryOutcome :
          /\ answer' = [answer EXCEPT ![w] = outcome]
          /\ outcome = "success" => charge[c] = "paid"
          /\ outcome = "failed" /\ ~Revises => charge[c] = "declined"
    <2>1. c \in Contribution
      BY <1>1 DEF WorkerTypeOK
    <2>2. PICK outcome \in Answers(c) : answer' = [answer EXCEPT ![w] = outcome]
      BY DEF Query
    <2> QED
      BY <2>1, <2>2, QueryReading
  <1>t. TypeOK'
    BY <1>1, <1>2, <1>3
    DEF TypeOK, StoreTypeOK, WorkerTypeOK, CallbackTypeOK, WorkerPC, Outcome
  <1>o. OneOwner' /\ AttemptsLeft'
    BY <1>1, <1>2 DEF OneOwner, InDrain, AttemptsLeft, WorkerTypeOK
  <1>u. UnpushedIsUnprompted' /\ AtMostOnePrompt'
    BY <1>1, <1>2, <1>3 DEF UnpushedIsUnprompted, AtMostOnePrompt, WorkerTypeOK
  <1>b. LedgerMatchesStatus' /\ ExhaustedIsFlagged' /\ CreditOnlyIfPaid'
    BY <1>1, <1>2
    DEF LedgerMatchesStatus, ExhaustedIsFlagged, Exhausted, Flagged, CreditOnlyIfPaid
  <1>e. Existence'
    BY <1>1, <1>2 DEF Existence, Settleable, WorkerTypeOK
  <1>a. AnswersAreTrue'
    BY <1>1, <1>2, <1>3 DEF AnswersAreTrue, WorkerTypeOK
  <1>f. FailuresAreFinal'
    BY <1>1, <1>2, <1>3 DEF FailuresAreFinal, WorkerTypeOK
  <1> QED
    BY <1>t, <1>o, <1>u, <1>b, <1>e, <1>a, <1>f DEF InductiveInvariant

(* So does the answer a handler takes away.                                  *)
LEMMA CallbackVerifyKeeps ==
    ASSUME InductiveInvariant, NEW d \in Delivery, CallbackVerify(d), UNCHANGED workerVars
    PROVE  InductiveInvariant'
  <1> DEFINE c == about[d]
  <1>1. /\ TypeOK /\ StoreTypeOK /\ WorkerTypeOK /\ CallbackTypeOK
        /\ OneOwner /\ AttemptsLeft /\ UnpushedIsUnprompted /\ AtMostOnePrompt
        /\ Existence /\ LedgerMatchesStatus /\ ExhaustedIsFlagged
        /\ AnswersAreTrue /\ CreditOnlyIfPaid /\ FailuresAreFinal
    BY DEF InductiveInvariant, TypeOK
  <1>2. /\ hpc[d] = "verify" /\ hpc' = [hpc EXCEPT ![d] = "settle"]
        /\ UNCHANGED <<storeVars, about, seen, provider_events>>
    BY DEF CallbackVerify
  <1>3. PICK outcome \in QueryOutcome :
          /\ verified' = [verified EXCEPT ![d] = outcome]
          /\ outcome = "success" => charge[c] = "paid"
          /\ outcome = "failed" /\ ~Revises => charge[c] = "declined"
    <2>1. c \in Contribution
      BY <1>1 DEF CallbackTypeOK
    <2>2. PICK outcome \in Answers(c) : verified' = [verified EXCEPT ![d] = outcome]
      BY DEF CallbackVerify
    <2> QED
      BY <2>1, <2>2, QueryReading
  <1>t. TypeOK'
    BY <1>1, <1>2, <1>3
    DEF TypeOK, StoreTypeOK, WorkerTypeOK, CallbackTypeOK, QueryOutcome
  <1>o. OneOwner' /\ AttemptsLeft'
    BY <1>1, <1>2 DEF OneOwner, InDrain, AttemptsLeft
  <1>u. UnpushedIsUnprompted' /\ AtMostOnePrompt'
    BY <1>1, <1>2 DEF UnpushedIsUnprompted, AtMostOnePrompt
  <1>b. LedgerMatchesStatus' /\ ExhaustedIsFlagged' /\ CreditOnlyIfPaid'
    BY <1>1, <1>2
    DEF LedgerMatchesStatus, ExhaustedIsFlagged, Exhausted, Flagged, CreditOnlyIfPaid
  <1>e. Existence'
    BY <1>1, <1>2 DEF Existence, Settleable, CallbackTypeOK
  <1>a. AnswersAreTrue'
    BY <1>1, <1>2, <1>3 DEF AnswersAreTrue, CallbackTypeOK
  <1>f. FailuresAreFinal'
    BY <1>1, <1>2, <1>3 DEF FailuresAreFinal, CallbackTypeOK
  <1> QED
    BY <1>t, <1>o, <1>u, <1>b, <1>e, <1>a, <1>f DEF InductiveInvariant

-----------------------------------------------------------------------------
(* Requests, time and the payer. *)
LEMMA EnvironmentKeeps ==
    ASSUME InductiveInvariant, NEW c \in Contribution, Environment(c),
           UNCHANGED <<workerVars, callbackVars>>
    PROVE  InductiveInvariant'
  <1> USE DEF InductiveInvariant, TypeOK, StoreTypeOK, WorkerTypeOK, CallbackTypeOK,
              OneOwner, InDrain, AttemptsLeft, UnpushedIsUnprompted, AtMostOnePrompt,
              Existence, LedgerMatchesStatus, ExhaustedIsFlagged, Exhausted, Flagged,
              AnswersAreTrue, CreditOnlyIfPaid, FailuresAreFinal, Settleable
  <1>1. CASE contribute_mpesa(c)
    BY <1>1 DEF contribute_mpesa, OpenContribution
  <1>2. CASE contribute_airtel(c)
    BY <1>2 DEF contribute_airtel, OpenContribution
  <1>3. CASE Age(c)
    BY <1>3 DEF Age
  <1>4. CASE Pay(c)
    BY <1>4 DEF Pay
  <1>5. CASE Decline(c)
    BY <1>5 DEF Decline
  <1> QED
    BY <1>1, <1>2, <1>3, <1>4, <1>5 DEF Environment

(* The outbox half of a pass; the steps that write are lemmas of their own. *)
LEMMA DrainKeeps ==
    ASSUME InductiveInvariant, NEW w \in Worker, DrainStep(w), UNCHANGED callbackVars
    PROVE  InductiveInvariant'
  <1>1. CASE ClaimSelect(w) \/ DrainEnds(w) \/ SkipMessage(w) \/ StartPush(w)
    <2> USE DEF InductiveInvariant, TypeOK, StoreTypeOK, WorkerTypeOK, CallbackTypeOK,
                OneOwner, InDrain, AttemptsLeft, UnpushedIsUnprompted, AtMostOnePrompt,
                Existence, LedgerMatchesStatus, ExhaustedIsFlagged, Exhausted, Flagged,
                AnswersAreTrue, CreditOnlyIfPaid, FailuresAreFinal, Settleable, WorkerPC
    <2>1. CASE ClaimSelect(w)
      BY <2>1, SMTT(30) DEF ClaimSelect, Claimable, Locked
    <2>2. CASE DrainEnds(w)
      BY <2>2, SMTT(30) DEF DrainEnds
    <2>3. CASE SkipMessage(w)
      BY <2>3, SMTT(30) DEF SkipMessage
    <2>4. CASE StartPush(w)
      BY <2>4, SMTT(30) DEF StartPush
    <2> QED
      BY <1>1, <2>1, <2>2, <2>3, <2>4
  <1>2. CASE ClaimCommit(w)
    BY <1>2, ClaimCommitKeeps
  <1>3. CASE Push(w)
    BY <1>3, PushKeeps
  <1>4. CASE PushAccepted(w)
    BY <1>4, PushAcceptedKeeps
  <1>5. CASE PushNotSent(w)
    BY <1>5, PushNotSentKeeps
  <1>6. CASE PushRejected(w)
    BY <1>6, PushRejectedKeeps
  <1>7. CASE PushAmbiguous(w)
    BY <1>7, PushAmbiguousKeeps
  <1> QED
    BY <1>1, <1>2, <1>3, <1>4, <1>5, <1>6, <1>7 DEF DrainStep

(* The sweep, and the end of a process. *)
LEMMA SweepKeeps ==
    ASSUME InductiveInvariant, NEW w \in Worker, SweepStep(w) \/ Crash(w),
           UNCHANGED callbackVars
    PROVE  InductiveInvariant'
  <1>1. CASE \/ SelectStale(w) \/ SweepSkip(w) \/ SweepNoHandle(w) \/ LoadStale(w)
             \/ SweepEnds(w) \/ Crash(w)
    <2> USE DEF InductiveInvariant, TypeOK, StoreTypeOK, WorkerTypeOK, CallbackTypeOK,
                OneOwner, InDrain, AttemptsLeft, UnpushedIsUnprompted, AtMostOnePrompt,
                Existence, LedgerMatchesStatus, ExhaustedIsFlagged, Exhausted, Flagged,
                AnswersAreTrue, CreditOnlyIfPaid, FailuresAreFinal, Settleable, WorkerPC
    <2>1. CASE SelectStale(w)
      BY <2>1, SMTT(30) DEF SelectStale, Unresolved
    <2>2. CASE SweepSkip(w)
      BY <2>2, SMTT(30) DEF SweepSkip
    <2>3. CASE SweepNoHandle(w)
      BY <2>3, SMTT(30) DEF SweepNoHandle, record_unresolved
    <2>4. CASE LoadStale(w)
      BY <2>4, SMTT(30) DEF LoadStale
    <2>5. CASE SweepEnds(w)
      BY <2>5, SMTT(30) DEF SweepEnds
    <2>6. CASE Crash(w)
      BY <2>6, SMTT(30) DEF Crash, Outcome
    <2> QED
      BY <1>1, <2>1, <2>2, <2>3, <2>4, <2>5, <2>6
  <1>2. CASE SweepSuccess(w)
    BY <1>2, SweepSuccessKeeps
  <1>3. CASE SweepFailed(w)
    BY <1>3, SweepFailedKeeps
  <1>4. CASE SweepUnknown(w)
    BY <1>4, SweepUnknownKeeps
  <1>5. CASE Query(w)
    BY <1>5, QueryKeeps
  <1> QED
    BY <1>1, <1>2, <1>3, <1>4, <1>5 DEF SweepStep

(* The handlers. *)
LEMMA CallbackKeeps ==
    ASSUME InductiveInvariant, NEW d \in Delivery, CallbackStep(d), UNCHANGED workerVars
    PROVE  InductiveInvariant'
  <1>1. CASE \/ CallbackUnknown(d) \/ CallbackArrives(d) \/ CallbackLeaves(d)
             \/ CallbackDies(d)
    <2> USE DEF InductiveInvariant, TypeOK, StoreTypeOK, WorkerTypeOK, CallbackTypeOK,
                OneOwner, InDrain, AttemptsLeft, UnpushedIsUnprompted, AtMostOnePrompt,
                Existence, LedgerMatchesStatus, ExhaustedIsFlagged, Exhausted, Flagged,
                AnswersAreTrue, CreditOnlyIfPaid, FailuresAreFinal, Settleable
    <2>1. CASE CallbackUnknown(d)
      BY <2>1, SMTT(30) DEF CallbackUnknown
    <2>2. CASE CallbackArrives(d)
      BY <2>2, SMTT(30) DEF CallbackArrives, CalledBackAbout
    <2>3. CASE CallbackLeaves(d)
      BY <2>3, SMTT(30) DEF CallbackLeaves, CallbackReturns
    <2>4. CASE CallbackDies(d)
      BY <2>4, SMTT(30) DEF CallbackDies
    <2> QED
      BY <1>1, <2>1, <2>2, <2>3, <2>4
  <1>2. CASE CallbackCredits(d)
    BY <1>2, CallbackCreditsKeeps
  <1>3. CASE CallbackFails(d)
    BY <1>3, CallbackFailsKeeps
  <1>4. CASE CallbackVerify(d)
    BY <1>4, CallbackVerifyKeeps
  <1> QED
    BY <1>1, <1>2, <1>3, <1>4 DEF CallbackStep

(* It holds before the first request.                                        *)
LEMMA InitInvariant == Init => InductiveInvariant
  <1> SUFFICES ASSUME Init PROVE InductiveInvariant
    OBVIOUS
  <1>1. TypeOK
    <2>1. (CHOOSE c \in Contribution : TRUE) \in Contribution
      OBVIOUS
    <2> QED
      BY <2>1 DEF Init, StoreInit, WorkerInit, CallbackInit, TypeOK, StoreTypeOK,
         WorkerTypeOK, CallbackTypeOK, NoJob, WorkerPC, Outcome
  <1>2. OneOwner /\ AttemptsLeft /\ UnpushedIsUnprompted /\ AtMostOnePrompt
    BY <1>1 DEF Init, StoreInit, WorkerInit, OneOwner, InDrain, AttemptsLeft,
       UnpushedIsUnprompted, AtMostOnePrompt
  <1>3. Existence /\ LedgerMatchesStatus /\ ExhaustedIsFlagged
    BY <1>1 DEF Init, StoreInit, WorkerInit, CallbackInit, Existence, LedgerMatchesStatus,
       ExhaustedIsFlagged
  <1>4. AnswersAreTrue /\ CreditOnlyIfPaid /\ FailuresAreFinal
    BY <1>1 DEF Init, StoreInit, WorkerInit, CallbackInit, AnswersAreTrue,
       CreditOnlyIfPaid, FailuresAreFinal
  <1> QED
    BY <1>1, <1>2, <1>3, <1>4 DEF InductiveInvariant

(* It is about the variables only.                                           *)
LEMMA StutterKeeps ==
    ASSUME InductiveInvariant, UNCHANGED vars
    PROVE  InductiveInvariant'
  BY DEF vars, InductiveInvariant, TypeOK, StoreTypeOK, WorkerTypeOK, CallbackTypeOK,
     OneOwner, InDrain, AttemptsLeft, UnpushedIsUnprompted, AtMostOnePrompt, Existence,
     LedgerMatchesStatus, ExhaustedIsFlagged, Exhausted, Flagged, AnswersAreTrue,
     CreditOnlyIfPaid, FailuresAreFinal, Settleable

(* Every step keeps it.                                                      *)
LEMMA StepInvariant ==
    ASSUME InductiveInvariant, [Next]_vars
    PROVE  InductiveInvariant'
  <1>1. CASE \E c \in Contribution : Environment(c) /\ UNCHANGED <<workerVars, callbackVars>>
    BY <1>1, EnvironmentKeeps
  <1>2. CASE \E w \in Worker : (run_once(w) \/ Crash(w)) /\ UNCHANGED callbackVars
    BY <1>2, DrainKeeps, SweepKeeps DEF run_once
  <1>3. CASE \E d \in Delivery : CallbackStep(d) /\ UNCHANGED workerVars
    BY <1>3, CallbackKeeps
  <1>4. CASE UNCHANGED vars
    BY <1>4, StutterKeeps
  <1> QED
    BY <1>1, <1>2, <1>3, <1>4 DEF Next

-----------------------------------------------------------------------------
(* Whatever the provider and the network do, the invariant of PaymentFlow     *)
(* holds in every reachable state.                                          *)
THEOREM Invariance == Spec => []InductiveInvariant
  BY InitInvariant, StepInvariant, PTL DEF Spec

(* The variables stay in their ranges: no message is attempted more than     *)
(* OUTBOX_MAX_ATTEMPTS times and no project's total goes negative.          *)
THEOREM TypeCorrectness == Spec => []TypeOK
  <1>1. InductiveInvariant => TypeOK
    BY DEF InductiveInvariant
  <1> QED
    BY Invariance, <1>1, PTL

(* credit_contribution and fail_contribution, called by any number of        *)
(* handlers and workers on statuses read at any earlier time, leave a ledger *)
(* credit behind exactly the SUCCESS rows.                                  *)
THEOREM LedgerAgreement == Spec => []LedgerMatchesStatus
  <1>1. InductiveInvariant => LedgerMatchesStatus
    BY DEF InductiveInvariant
  <1> QED
    BY Invariance, <1>1, PTL

(* _deliver_one: no retry, concurrent worker or crash prompts a payer twice  *)
(* for one contribution.                                                    *)
THEOREM SinglePrompt == Spec => []AtMostOnePrompt
  <1>1. InductiveInvariant => AtMostOnePrompt
    BY DEF InductiveInvariant
  <1> QED
    BY Invariance, <1>1, PTL

(* Callbacks and sweeps credit no project with money the payer did not send. *)
THEOREM NoUnpaidCredit == Spec => []CreditOnlyIfPaid
  <1>1. InductiveInvariant => CreditOnlyIfPaid
    BY DEF InductiveInvariant
  <1> QED
    BY Invariance, <1>1, PTL

(* _record_unresolved: a contribution the sweep no longer selects carries    *)
(* NEEDS_REVIEW, even when concurrent sweeps overwrite one another's count. *)
THEOREM GivenUpIsFlagged == Spec => []ExhaustedIsFlagged
  <1>1. InductiveInvariant => ExhaustedIsFlagged
    BY DEF InductiveInvariant
  <1> QED
    BY Invariance, <1>1, PTL

(* With a provider whose answers are final, nobody whose money moved is told *)
(* that the contribution failed: "not sent" and "rejected" are never guesses. *)
THEOREM FailureIsTrue == Spec => []FailedNeverPaid
  <1>1. InductiveInvariant => FailedNeverPaid
    BY DEF InductiveInvariant, FailuresAreFinal, FailedNeverPaid
  <1> QED
    BY Invariance, <1>1, PTL

-----------------------------------------------------------------------------
(* raised_amount against the ledger. *)

(* Only credit_contribution touches the ledger or a project's total.         *)
LEMMA MoneyMovesByCredit ==
    ASSUME InductiveInvariant, [Next]_vars
    PROVE  UNCHANGED moneyVars \/ \E c \in Contribution : credit_contribution(c)
  <1>1. /\ \A w \in Worker : job[w] \in Contribution
        /\ \A d \in Delivery : about[d] \in Contribution
    BY DEF InductiveInvariant, TypeOK, WorkerTypeOK, CallbackTypeOK
  <1>2. ASSUME NEW c \in Contribution, Environment(c)
        PROVE  UNCHANGED moneyVars
    BY <1>2 DEF Environment, contribute_mpesa, contribute_airtel, OpenContribution, Age, Pay,
       Decline
  <1>3. ASSUME NEW w \in Worker, DrainStep(w)
        PROVE  UNCHANGED moneyVars
    BY <1>3 DEF DrainStep, ClaimSelect, ClaimCommit, DrainEnds, SkipMessage, StartPush, Push,
       PushNotSent, PushRejected, PushAccepted, PushAmbiguous, PushReturns
  <1>4. ASSUME NEW w \in Worker, SweepStep(w) \/ Crash(w)
        PROVE  UNCHANGED moneyVars \/ credit_contribution(job[w])
    BY <1>4 DEF SweepStep, SelectStale, SweepSkip, SweepNoHandle, LoadStale, Query,
       SweepSuccess, SweepFailed, SweepUnknown, SweepEnds, Crash
  <1>5. ASSUME NEW d \in Delivery, CallbackStep(d)
        PROVE  UNCHANGED moneyVars \/ credit_contribution(about[d])
    BY <1>5 DEF CallbackStep, CallbackUnknown, CallbackArrives, CallbackVerify,
       CallbackCredits, CallbackFails, CallbackLeaves, CallbackDies
  <1>6. CASE UNCHANGED vars
    BY <1>6 DEF vars
  <1> QED
    BY <1>1, <1>2, <1>3, <1>4, <1>5, <1>6 DEF Next, run_once

(* The ledger of one project, and the projection of it that Project keeps.   *)
Credited(p) == {c \in ledger : ProjectOf[c] = p}
RaisedIsLedgerSum == \A p \in Project : raised[p] = Sum(AmountOf, Credited(p))

(* The ops query finds no project exactly when every total is its ledger's.  *)
LEMMA DivergenceMeans == NoLedgerDivergence <=> RaisedIsLedgerSum
  BY DEF NoLedgerDivergence, find_ledger_divergence, RaisedIsLedgerSum, Credited, Sum

(* A credit adds to one project's total the amount its ledger grows by, or   *)
(* finds the credit standing and adds nothing.                              *)
LEMMA CreditKeepsSum ==
    ASSUME StoreTypeOK, RaisedIsLedgerSum, NEW c \in Contribution, credit_contribution(c)
    PROVE  RaisedIsLedgerSum'
  <1>1. CASE c \in ledger
    BY <1>1 DEF credit_contribution, RaisedIsLedgerSum, Credited
  <1>2. CASE c \notin ledger
    <2>1. /\ ledger' = ledger \cup {c}
          /\ raised' = [raised EXCEPT ![ProjectOf[c]] = @ + AmountOf[c]]
      BY <1>2 DEF credit_contribution
    <2>2. SUFFICES ASSUME NEW p \in Project
                   PROVE  raised'[p] = Sum(AmountOf, Credited(p)')
      BY DEF RaisedIsLedgerSum
    <2>3. raised[p] = Sum(AmountOf, Credited(p))
      BY DEF RaisedIsLedgerSum
    <2>4. CASE ProjectOf[c] # p
      <3>1. Credited(p)' = Credited(p)
        BY <2>1, <2>4 DEF Credited
      <3>2. raised'[p] = raised[p]
        BY <2>1, <2>4 DEF StoreTypeOK
      <3> QED
        BY <2>3, <3>1, <3>2
    <2>5. CASE ProjectOf[c] = p
      <3>1. Credited(p)' = Credited(p) \cup {c} /\ c \notin Credited(p)
        BY <1>2, <2>1, <2>5 DEF Credited
      <3>2. raised'[p] = raised[p] + AmountOf[c]
        BY <2>1, <2>5 DEF StoreTypeOK
      <3>3. IsFiniteSet(Credited(p))
        BY FS_Subset DEF Credited, StoreTypeOK
      <3>4. \A x \in Credited(p) \cup {c} : AmountOf[x] \in Nat
        BY DEF Credited, StoreTypeOK
      <3>5. Sum(AmountOf, Credited(p) \cup {c}) = Sum(AmountOf, Credited(p)) + AmountOf[c]
        BY <3>1, <3>3, <3>4, SumAdd
      <3> QED
        BY <2>3, <3>1, <3>2, <3>5
    <2> QED
      BY <2>4, <2>5
  <1> QED
    BY <1>1, <1>2

(* However many callbacks and sweeps settle a contribution, in whatever      *)
(* order, find_ledger_divergence finds nothing: raised_amount is the sum of  *)
(* the amounts in the project's ledger.                                     *)
THEOREM LedgerNeverDiverges == Spec => []NoLedgerDivergence
  <1>1. Init => RaisedIsLedgerSum
    BY SumEmpty DEF Init, StoreInit, RaisedIsLedgerSum, Credited
  <1>2. ASSUME InductiveInvariant, RaisedIsLedgerSum, [Next]_vars
        PROVE  RaisedIsLedgerSum'
    <2>1. StoreTypeOK
      BY <1>2 DEF InductiveInvariant, TypeOK
    <2>2. CASE UNCHANGED moneyVars
      BY <1>2, <2>2 DEF RaisedIsLedgerSum, Credited
    <2>3. CASE \E c \in Contribution : credit_contribution(c)
      BY <1>2, <2>1, <2>3, CreditKeepsSum
    <2> QED
      BY <1>2, <2>2, <2>3, MoneyMovesByCredit
  <1> QED
    BY Invariance, <1>1, <1>2, DivergenceMeans, PTL DEF Spec

-----------------------------------------------------------------------------
(* The mark of a human and the counter of the sweep. *)

(* One worker process: what its session loaded is still the count of the row. *)
CountIsCurrent ==
    /\ \A w \in Worker : pc[w] \in {"asking", "answered"}
                            => loaded[w] = reconcile_attempts[job[w]]
    /\ \A c \in Contribution : Flagged(c) => Exhausted(c)

(* With one worker every step keeps that: only this worker counts.           *)
LEMMA CountStaysCurrent ==
    ASSUME InductiveInvariant, \A v, w \in Worker : v = w, CountIsCurrent, [Next]_vars
    PROVE  CountIsCurrent'
  <1>0. TypeOK /\ StoreTypeOK /\ WorkerTypeOK
    BY DEF InductiveInvariant, TypeOK
  <1> USE <1>0 DEF CountIsCurrent, Flagged, Exhausted
  <1>1. ASSUME NEW c \in Contribution, Environment(c), UNCHANGED <<workerVars, callbackVars>>
        PROVE  CountIsCurrent'
    BY <1>1 DEF Environment, contribute_mpesa, contribute_airtel, OpenContribution, Age, Pay,
       Decline
  <1>2. ASSUME NEW w \in Worker, DrainStep(w)
        PROVE  CountIsCurrent'
    <2>1. /\ reconcile_attempts' = reconcile_attempts
          /\ pc'[w] \notin {"asking", "answered"} /\ \A v \in Worker : v = w
      BY <1>2 DEF WorkerTypeOK, DrainStep, ClaimSelect, ClaimCommit, DrainEnds, SkipMessage,
         StartPush, Push, PushNotSent, PushRejected, PushAccepted, PushAmbiguous, PushReturns
    <2>2. \A c \in Contribution : failure_reason'[c] \in {failure_reason[c], "failed"}
      <3>1. CASE PushNotSent(w) \/ PushRejected(w)
        BY <3>1 DEF PushNotSent, PushRejected, fail_contribution, StoreTypeOK, WorkerTypeOK
      <3>2. CASE ~(PushNotSent(w) \/ PushRejected(w))
        BY <1>2, <3>2 DEF DrainStep, ClaimSelect, ClaimCommit, DrainEnds, SkipMessage,
           StartPush, Push, PushAccepted, PushAmbiguous
      <3> QED
        BY <3>1, <3>2
    <2> QED
      BY <2>1, <2>2 DEF NEEDS_REVIEW
  <1>3. ASSUME NEW w \in Worker, SweepStep(w) \/ Crash(w)
        PROVE  CountIsCurrent'
    <2>0. \A v \in Worker : v = w
      OBVIOUS
    <2> USE DEF WorkerTypeOK
    <2>1. CASE SelectStale(w) \/ SweepSkip(w) \/ SweepEnds(w) \/ Crash(w)
      BY <2>0, <2>1 DEF SelectStale, SweepSkip, SweepEnds, Crash
    <2>2. CASE LoadStale(w) \/ Query(w)
      BY <2>0, <2>2 DEF LoadStale, Query
    <2>3. CASE SweepNoHandle(w)
      BY <2>0, <2>3 DEF SweepNoHandle, record_unresolved, StoreTypeOK
    <2>4. CASE SweepSuccess(w)
      BY <2>0, <2>4 DEF SweepSuccess, QueryReturns
    <2>5. CASE SweepFailed(w)
      BY <2>0, <2>5 DEF SweepFailed, QueryReturns, fail_contribution, StoreTypeOK, NEEDS_REVIEW
    <2>6. CASE SweepUnknown(w)
      BY <2>0, <2>6 DEF SweepUnknown, QueryReturns, record_unresolved, StoreTypeOK
    <2> QED
      BY <1>3, <2>1, <2>2, <2>3, <2>4, <2>5, <2>6 DEF SweepStep
  <1>4. ASSUME NEW d \in Delivery, CallbackStep(d), UNCHANGED workerVars
        PROVE  CountIsCurrent'
    <2>1. reconcile_attempts' = reconcile_attempts
      BY <1>4 DEF CallbackStep, CallbackUnknown, CallbackArrives, CallbackVerify,
         CallbackCredits, CallbackFails, CallbackLeaves, CallbackDies, CallbackReturns
    <2>2. \A c \in Contribution : failure_reason'[c] \in {failure_reason[c], "failed"}
      <3>1. CASE CallbackFails(d)
        BY <3>1 DEF CallbackFails, fail_contribution, StoreTypeOK
      <3>2. CASE ~CallbackFails(d)
        BY <1>4, <3>2 DEF CallbackStep, CallbackUnknown, CallbackArrives, CallbackVerify,
           CallbackCredits, CallbackLeaves, CallbackDies, CallbackReturns
      <3> QED
        BY <3>1, <3>2
    <2> QED
      BY <1>4, <2>1, <2>2 DEF NEEDS_REVIEW
  <1>5. CASE UNCHANGED vars
    BY <1>5 DEF vars
  <1> QED
    BY <1>1, <1>2, <1>3, <1>4, <1>5 DEF Next, run_once

(* _record_unresolved with one worker process: a row marked NEEDS_REVIEW has  *)
(* dropped out of the sweep.  With two it has not: the second writes a count *)
(* it read before the first did.                                            *)
THEOREM MarkedLeftSweep ==
    ASSUME \A v, w \in Worker : v = w
    PROVE  Spec => []FlaggedLeftSweep
  <1>1. Init => CountIsCurrent
    BY DEF Init, StoreInit, WorkerInit, CountIsCurrent, Flagged, NEEDS_REVIEW
  <1>2. ASSUME InductiveInvariant, CountIsCurrent, [Next]_vars
        PROVE  CountIsCurrent'
    BY <1>2, CountStaysCurrent
  <1>3. CountIsCurrent => FlaggedLeftSweep
    BY DEF CountIsCurrent, FlaggedLeftSweep
  <1> QED
    BY Invariance, <1>1, <1>2, <1>3, PTL DEF Spec

-----------------------------------------------------------------------------
(* The refinement: status and raised change only as ContributionLifecycle    *)
(* lets them.                                                               *)

(* A credit is one step of the lifecycle, or none. *)
LEMMA CreditRefines ==
    ASSUME InductiveInvariant, NEW c \in Contribution, status[c] # "none",
           credit_contribution(c)
    PROVE  [Lifecycle!Next]_(Lifecycle!lifecycleVars)
  <1>1. CASE c \in ledger
    BY <1>1 DEF credit_contribution, Lifecycle!lifecycleVars
  <1>2. CASE c \notin ledger
    <2>1. status[c] \in {"pending", "failed"}
      BY <1>2 DEF InductiveInvariant, TypeOK, StoreTypeOK, LedgerMatchesStatus
    <2>2. Lifecycle!Settle(c)
      BY <1>2, <2>1 DEF credit_contribution, Lifecycle!Settle
    <2> QED
      BY <2>2 DEF Lifecycle!Next
  <1> QED
    BY <1>1, <1>2

(* So is a failure. *)
LEMMA FailRefines ==
    ASSUME NEW c \in Contribution, fail_contribution(c), UNCHANGED raised
    PROVE  [Lifecycle!Next]_(Lifecycle!lifecycleVars)
  BY DEF fail_contribution, Lifecycle!Next, Lifecycle!Fail, Lifecycle!lifecycleVars

(* Every step is one of the lifecycle or leaves its variables alone.         *)
LEMMA StepRefines ==
    ASSUME InductiveInvariant, [Next]_vars
    PROVE  [Lifecycle!Next]_(Lifecycle!lifecycleVars)
  <1>0. /\ \A w \in Worker : job[w] \in Contribution
        /\ \A d \in Delivery : about[d] \in Contribution
    BY DEF InductiveInvariant, TypeOK, WorkerTypeOK, CallbackTypeOK
  <1>1. ASSUME NEW c \in Contribution, Environment(c)
        PROVE  [Lifecycle!Next]_(Lifecycle!lifecycleVars)
    <2>1. CASE OpenContribution(c)
      BY <2>1 DEF OpenContribution, Lifecycle!Next, Lifecycle!Open
    <2>2. CASE Age(c) \/ Pay(c) \/ Decline(c)
      BY <2>2 DEF Age, Pay, Decline, Lifecycle!lifecycleVars
    <2> QED
      BY <1>1, <2>1, <2>2 DEF Environment, contribute_mpesa, contribute_airtel
  <1>2. ASSUME NEW w \in Worker, DrainStep(w)
        PROVE  [Lifecycle!Next]_(Lifecycle!lifecycleVars)
    <2>1. CASE PushNotSent(w) \/ PushRejected(w)
      BY <1>0, <2>1, FailRefines
      DEF PushNotSent, PushRejected, PushReturns, Lifecycle!lifecycleVars
    <2>2. CASE \/ ClaimSelect(w) \/ ClaimCommit(w) \/ DrainEnds(w) \/ SkipMessage(w)
               \/ StartPush(w) \/ Push(w) \/ PushAccepted(w) \/ PushAmbiguous(w)
      BY <2>2 DEF ClaimSelect, ClaimCommit, DrainEnds, SkipMessage, StartPush, Push,
         PushAccepted, PushAmbiguous, PushReturns, Lifecycle!lifecycleVars
    <2> QED
      BY <1>2, <2>1, <2>2 DEF DrainStep
  <1>3. ASSUME NEW w \in Worker, SweepStep(w) \/ Crash(w)
        PROVE  [Lifecycle!Next]_(Lifecycle!lifecycleVars)
    <2>1. CASE SweepSuccess(w)
      <3>1. status[job[w]] # "none"
        BY <2>1 DEF SweepSuccess, QueryReturns, InductiveInvariant, Existence
      <3> QED
        BY <1>0, <2>1, <3>1, CreditRefines DEF SweepSuccess
    <2>2. CASE SweepFailed(w)
      BY <1>0, <2>2, FailRefines DEF SweepFailed
    <2>3. CASE \/ SelectStale(w) \/ SweepSkip(w) \/ SweepNoHandle(w) \/ LoadStale(w)
               \/ Query(w) \/ SweepUnknown(w) \/ SweepEnds(w) \/ Crash(w)
      BY <2>3 DEF SelectStale, SweepSkip, SweepNoHandle, LoadStale, Query, SweepUnknown,
         QueryReturns, SweepEnds, Crash, Lifecycle!lifecycleVars
    <2> QED
      BY <1>3, <2>1, <2>2, <2>3 DEF SweepStep
  <1>4. ASSUME NEW d \in Delivery, CallbackStep(d)
        PROVE  [Lifecycle!Next]_(Lifecycle!lifecycleVars)
    <2>1. CASE CallbackCredits(d)
      <3>1. status[about[d]] # "none"
        BY <2>1 DEF CallbackCredits, CallbackReturns, InductiveInvariant, Existence
      <3> QED
        BY <1>0, <2>1, <3>1, CreditRefines DEF CallbackCredits
    <2>2. CASE CallbackFails(d)
      BY <1>0, <2>2, FailRefines DEF CallbackFails
    <2>3. CASE \/ CallbackUnknown(d) \/ CallbackArrives(d) \/ CallbackVerify(d)
               \/ CallbackLeaves(d) \/ CallbackDies(d)
      BY <2>3 DEF CallbackUnknown, CallbackArrives, CallbackVerify, CallbackLeaves,
         CallbackDies, CallbackReturns, Lifecycle!lifecycleVars
    <2> QED
      BY <1>4, <2>1, <2>2, <2>3 DEF CallbackStep
  <1>5. CASE UNCHANGED vars
    BY <1>5 DEF vars, Lifecycle!lifecycleVars
  <1> QED
    BY <1>1, <1>2, <1>3, <1>4, <1>5 DEF Next, run_once

(* The payment subsystem implements ContributionLifecycle: a contribution is *)
(* credited at most once, failed only while pending, and raised_amount grows *)
(* by exactly the amount credited.                                          *)
THEOREM Refinement == Spec => LifecycleSpec
  <1>1. Init => Lifecycle!Init
    BY DEF Init, StoreInit, Lifecycle!Init
  <1> QED
    BY Invariance, <1>1, StepRefines, PTL DEF Spec, LifecycleSpec, Lifecycle!Spec
=============================================================================
