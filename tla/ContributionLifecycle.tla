------------------------ MODULE ContributionLifecycle ------------------------
(***************************************************************************)
(* What the payment subsystem promises, without saying how: a contribution *)
(* is opened pending, is credited to its project at most once, and may be  *)
(* failed only while it is pending.  A failed contribution may still be    *)
(* credited (the provider reported the money late); a credited one never   *)
(* changes again.  PaymentFlow and LedgerTxn are shown to implement this.  *)
(***************************************************************************)
EXTENDS Naturals

CONSTANTS
    Contribution,   \* contributions that can ever be opened
    Project,        \* projects they are made to
    ProjectOf,      \* the project of a contribution
    AmountOf        \* its amount, in whole shillings, more than 0

VARIABLES
    status,         \* ContributionStatus of each contribution, "none" before it exists
    raised          \* Project.raised_amount

lifecycleVars == <<status, raised>>

Init ==
    /\ status = [c \in Contribution |-> "none"]
    /\ raised = [p \in Project |-> 0]

(* A member starts a contribution. *)
Open(c) ==
    /\ status[c] = "none"
    /\ status' = [status EXCEPT ![c] = "pending"]
    /\ UNCHANGED raised

(* The provider confirmed the money: the project's total grows exactly once. *)
Settle(c) ==
    /\ status[c] \in {"pending", "failed"}
    /\ status' = [status EXCEPT ![c] = "success"]
    /\ raised' = [raised EXCEPT ![ProjectOf[c]] = @ + AmountOf[c]]

(* The provider, or the push itself, failed for good. *)
Fail(c) ==
    /\ status[c] = "pending"
    /\ status' = [status EXCEPT ![c] = "failed"]
    /\ UNCHANGED raised

Next == \E c \in Contribution : Open(c) \/ Settle(c) \/ Fail(c)

Spec == Init /\ [][Next]_lifecycleVars
=============================================================================
