---------------------------- MODULE PaymentStore ----------------------------
(***************************************************************************)
(* The rows the payment code shares (contributions, outbox_messages,       *)
(* ledger_entries, projects.raised_amount), the two operations that every  *)
(* writer goes through (ledger_service), the handler that opens a          *)
(* contribution, and the provider on the other side of the network.        *)
(*                                                                         *)
(* Each operator here is one database transaction, or a part of one that   *)
(* the caller commits in the same step; LedgerTxn opens credit and fail up *)
(* statement by statement and shows that nothing is lost by that.          *)
(***************************************************************************)
EXTENDS Integers, FiniteSetsExt, ProviderClient

CONSTANTS
    Contribution,            \* contributions, numbered in order of created_at
    Project,
    ProjectOf,
    AmountOf,
    ProviderOf,              \* PaymentProvider of a contribution
    OUTBOX_MAX_ATTEMPTS,
    RECONCILE_MAX_ATTEMPTS,
    Replies,                 \* the replies a push may get
    Revises                  \* TRUE: the provider may report a failure for
                             \* money that moves after all

ASSUME StoreAssumption ==
    /\ Contribution \subseteq Nat /\ IsFiniteSet(Contribution) /\ Contribution # {}
    /\ ProjectOf \in [Contribution -> Project]
    /\ AmountOf \in [Contribution -> Nat \ {0}]
    /\ ProviderOf \in [Contribution -> {"mpesa", "airtel"}]
    /\ OUTBOX_MAX_ATTEMPTS \in Nat \ {0}
    /\ RECONCILE_MAX_ATTEMPTS \in Nat \ {0}
    /\ Replies \subseteq PushReply
    /\ Revises \in BOOLEAN

VARIABLES
    status,               \* contributions.status, "none" before the row exists
    failure_reason,       \* "none", "failed" (any failure text) or NEEDS_REVIEW
    checkout_request_id,  \* TRUE once Daraja's handle is committed
    push_attempts,
    reconcile_attempts,
    stale,                \* initiated_at is older than RECONCILE_STALE_AFTER
    outbox_status,        \* outbox_messages.status of the contribution's message
    outbox_attempts,
    ledger,               \* contributions with a CREDIT ledger entry
    raised,               \* projects.raised_amount
    charge,               \* provider side: "none", "prompted", "paid", "declined"
    prompts               \* provider side: prompts the payer's phone has shown

contributionVars == <<failure_reason, reconcile_attempts>>
pushVars == <<checkout_request_id, push_attempts>>
outboxVars == <<outbox_status, outbox_attempts>>
moneyVars == <<ledger, raised>>
providerVars == <<charge, prompts>>
storeVars == <<status, contributionVars, pushVars, stale, outboxVars, moneyVars,
               providerVars>>

NEEDS_REVIEW == "needs_manual_review"

StoreTypeOK ==
    /\ status \in [Contribution -> {"none", "pending", "success", "failed"}]
    /\ failure_reason \in [Contribution -> {"none", "failed", NEEDS_REVIEW}]
    /\ checkout_request_id \in [Contribution -> BOOLEAN]
    /\ push_attempts \in [Contribution -> Nat]
    /\ reconcile_attempts \in [Contribution -> Nat]
    /\ stale \in [Contribution -> BOOLEAN]
    /\ outbox_status \in
         [Contribution -> {"none", "pending", "processing", "done", "failed"}]
    /\ outbox_attempts \in [Contribution -> 0..OUTBOX_MAX_ATTEMPTS]
    /\ ledger \subseteq Contribution
    /\ raised \in [Project -> Nat]
    /\ charge \in [Contribution -> {"none", "prompted", "paid", "declined"}]
    /\ prompts \in [Contribution -> Nat]

StoreInit ==
    /\ status = [c \in Contribution |-> "none"]
    /\ failure_reason = [c \in Contribution |-> "none"]
    /\ checkout_request_id = [c \in Contribution |-> FALSE]
    /\ push_attempts = [c \in Contribution |-> 0]
    /\ reconcile_attempts = [c \in Contribution |-> 0]
    /\ stale = [c \in Contribution |-> FALSE]
    /\ outbox_status = [c \in Contribution |-> "none"]
    /\ outbox_attempts = [c \in Contribution |-> 0]
    /\ ledger = {}
    /\ raised = [p \in Project |-> 0]
    /\ charge = [c \in Contribution |-> "none"]
    /\ prompts = [c \in Contribution |-> 0]

-----------------------------------------------------------------------------
(* ledger_service *)

(* Mutant: the ledger conflict is ignored and the projection grows again. *)
credit_contribution_replayed(c) ==
    /\ ledger' = ledger \cup {c}
    /\ raised' = [raised EXCEPT ![ProjectOf[c]] = @ + AmountOf[c]]
    /\ status' = [status EXCEPT ![c] = "success"]

(* Mutant: the status UPDATE forgets that a FAILED row may be credited. *)
credit_contribution_pending_only(c) ==
    IF c \in ledger
    THEN UNCHANGED <<status, moneyVars>>
    ELSE /\ ledger' = ledger \cup {c}
         /\ raised' = [raised EXCEPT ![ProjectOf[c]] = @ + AmountOf[c]]
         /\ status' = [status EXCEPT ![c] = IF @ = "pending" THEN "success" ELSE @]

(* INSERT ... ON CONFLICT DO NOTHING decides; only the first credit moves    *)
(* raised_amount and the status.                                            *)
credit_contribution(c) ==
    IF c \in ledger
    THEN UNCHANGED <<status, moneyVars>>
    ELSE /\ ledger' = ledger \cup {c}
         /\ raised' = [raised EXCEPT ![ProjectOf[c]] = @ + AmountOf[c]]
         /\ status' = [status EXCEPT ![c] =
                         IF @ \in {"pending", "failed"} THEN "success" ELSE @]

(* Mutant: a plain attribute write instead of the conditional UPDATE. *)
fail_contribution_unconditional(c) ==
    /\ status' = [status EXCEPT ![c] = "failed"]
    /\ failure_reason' = [failure_reason EXCEPT ![c] = "failed"]

(* UPDATE ... WHERE status = PENDING. *)
fail_contribution(c) ==
    IF status[c] = "pending"
    THEN /\ status' = [status EXCEPT ![c] = "failed"]
         /\ failure_reason' = [failure_reason EXCEPT ![c] = "failed"]
    ELSE UNCHANGED <<status, failure_reason>>

(* Projects whose raised_amount has drifted from the sum of their ledger.   *)
find_ledger_divergence ==
    {p \in Project :
        raised[p] # MapThenSumSet(LAMBDA c : AmountOf[c],
                                  {c \in ledger : ProjectOf[c] = p})}

-----------------------------------------------------------------------------
(* The row and its outbox message are committed together.  Which requests   *)
(* the checks before it let through (rate limit, active project, membership, *)
(* daily cap) is left open: any contribution may be refused, by never being *)
(* opened.                                                                  *)
OpenContribution(c) ==
    /\ status[c] = "none"
    /\ \A b \in Contribution : b < c => status[b] # "none"
    /\ status' = [status EXCEPT ![c] = "pending"]
    /\ outbox_status' = [outbox_status EXCEPT ![c] = "pending"]
    /\ UNCHANGED <<contributionVars, pushVars, stale, outbox_attempts, moneyVars,
                   providerVars>>

contribute_mpesa(c) == ProviderOf[c] = "mpesa" /\ OpenContribution(c)

contribute_airtel(c) == ProviderOf[c] = "airtel" /\ OpenContribution(c)

(* RECONCILE_STALE_AFTER passes since initiated_at. *)
Age(c) ==
    /\ status[c] # "none" /\ ~stale[c]
    /\ stale' = [stale EXCEPT ![c] = TRUE]
    /\ UNCHANGED <<status, contributionVars, pushVars, outboxVars, moneyVars,
                   providerVars>>

-----------------------------------------------------------------------------
(* The provider and the payer. *)

(* Whether the push that got this reply created a prompt.  Of a connection   *)
(* that failed late, a gateway error or an unreadable body nothing is known, *)
(* nor of an Airtel body without a verdict; Daraja prompts only for a push  *)
(* it acknowledges.  A provider that revises may have prompted although it  *)
(* refused.                                                                 *)
Reaches(c, reply) ==
    CASE reply \in {"no_token", "no_connection"} -> {FALSE}
      [] reply \in {"dropped", "gateway_error", "unparseable"} -> BOOLEAN
      [] reply = "acceptance" -> {TRUE}
      [] OTHER ->
           IF Revises \/ (reply = "no_verdict" /\ ProviderOf[c] = "airtel")
           THEN BOOLEAN ELSE {FALSE}

(* The push request arrives, or does not. *)
DeliverPush(c, reply) ==
    \E reached \in Reaches(c, reply) :
        IF reached
        THEN /\ charge' = [charge EXCEPT ![c] = IF @ = "none" THEN "prompted" ELSE @]
             /\ prompts' = [prompts EXCEPT ![c] = @ + 1]
        ELSE UNCHANGED providerVars

(* The payer enters the PIN, or, when the provider revises what it said, the *)
(* money of a payment it called failed moves late.                          *)
Pay(c) ==
    /\ \/ charge[c] = "prompted"
       \/ charge[c] = "declined" /\ Revises
    /\ charge' = [charge EXCEPT ![c] = "paid"]
    /\ UNCHANGED <<status, contributionVars, pushVars, stale, outboxVars, moneyVars,
                   prompts>>

Decline(c) ==
    /\ charge[c] = "prompted"
    /\ charge' = [charge EXCEPT ![c] = "declined"]
    /\ UNCHANGED <<status, contributionVars, pushVars, stale, outboxVars, moneyVars,
                   prompts>>

(* What the provider may reply to a status query about c: any query may go   *)
(* unanswered, success only ever reports money that moved, and a failure is *)
(* final unless the provider revises.  Daraja reports "in progress" as an   *)
(* HTTP error, or, when it revises, as a code of its own.                   *)
ReplyAbout(c) ==
    {"no_answer", "http_error", "no_code"}
      \cup (IF charge[c] = "paid" THEN {"success"} ELSE {})
      \cup (IF charge[c] = "declined" \/ (Revises /\ charge[c] # "paid")
            THEN {"failure"} ELSE {})
      \cup (IF ProviderOf[c] = "airtel" \/ Revises THEN {"in_progress"} ELSE {})

Answers(c) ==
    CASE ProviderOf[c] = "mpesa"  -> {query_stk_status(r) : r \in ReplyAbout(c)}
      [] ProviderOf[c] = "airtel" -> {query_transaction_status(r) : r \in ReplyAbout(c)}
=============================================================================
