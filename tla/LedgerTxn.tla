------------------------------ MODULE LedgerTxn ------------------------------
(***************************************************************************)
(* credit_contribution and fail_contribution statement by statement, as    *)
(* concurrent READ COMMITTED transactions: a unique key waits for the      *)
(* transaction that is inserting it, an UPDATE waits for the row and then  *)
(* evaluates its WHERE and its right-hand side on the row it got, and      *)
(* nothing is visible, or kept, before COMMIT.  It justifies the steps of  *)
(* PaymentStore, where credit and fail are atomic.                         *)
(***************************************************************************)
EXTENDS Integers, FiniteSets

CONSTANTS Contribution, Project, ProjectOf, AmountOf,
          Session      \* database sessions: requests and worker passes

ASSUME TxnAssumption ==
    /\ IsFiniteSet(Contribution) /\ Contribution # {}
    /\ ProjectOf \in [Contribution -> Project]
    /\ AmountOf \in [Contribution -> Nat \ {0}]

VARIABLES
    status, ledger, raised,    \* committed rows
    tpc,                       \* next statement of each session
    target,                    \* the contribution its transaction is about
    holds,                     \* what it has locked: <<"entry", c>>, <<"project", p>>, <<"row", c>>
    newRaised,                 \* uncommitted raised_amount of its project
    newStatus                  \* uncommitted status of its contribution

rows == <<status, ledger, raised>>
txnVars == <<tpc, target, holds, newRaised, newStatus>>
vars == <<rows, txnVars>>

Statement == {"idle", "insert", "project", "mark", "fail", "commit"}
Lock == ({"entry", "row"} \X Contribution) \cup ({"project"} \X Project)

(* Every variable stays in its range. *)
TypeOK ==
    /\ status \in [Contribution -> {"none", "pending", "success", "failed"}]
    /\ ledger \subseteq Contribution
    /\ raised \in [Project -> Nat]
    /\ tpc \in [Session -> Statement]
    /\ target \in [Session -> Contribution]
    /\ holds \in [Session -> SUBSET Lock]
    /\ newRaised \in [Session -> Nat]
    /\ newStatus \in [Session -> {"none", "success", "failed"}]

Init ==
    /\ status = [c \in Contribution |-> "none"]
    /\ ledger = {}
    /\ raised = [p \in Project |-> 0]
    /\ tpc = [s \in Session |-> "idle"]
    /\ target = [s \in Session |-> CHOOSE c \in Contribution : TRUE]
    /\ holds = [s \in Session |-> {}]
    /\ newRaised = [s \in Session |-> 0]
    /\ newStatus = [s \in Session |-> "none"]

(* The handler that opens a contribution commits it with its outbox row.    *)
Contribute(c) ==
    /\ status[c] = "none"
    /\ status' = [status EXCEPT ![c] = "pending"]
    /\ UNCHANGED <<ledger, raised, txnVars>>

-----------------------------------------------------------------------------
Hold(s, lock) == holds' = [holds EXCEPT ![s] = @ \cup {lock}]

(* Waits until no other session holds the lock. *)
Take(s, lock) ==
    /\ \A t \in Session \ {s} : lock \notin holds[t]
    /\ Hold(s, lock)

Runs(s, from, to) ==
    /\ tpc[s] = from
    /\ tpc' = [tpc EXCEPT ![s] = to]

(* A caller of credit_contribution or fail_contribution has a contribution   *)
(* it once read; what it read may be long out of date.                      *)
Begin(s) ==
    /\ \E first \in {"insert", "fail"} : Runs(s, "idle", first)
    /\ \E c \in Contribution :
         /\ status[c] # "none"
         /\ target' = [target EXCEPT ![s] = c]
    /\ UNCHANGED <<rows, holds, newRaised, newStatus>>

(* Mutant: SELECT then INSERT, blind to an insert that is not committed yet. *)
InsertEntry_unlocked(s) ==
    /\ target[s] \notin ledger
    /\ Runs(s, "insert", "project")
    /\ Hold(s, <<"entry", target[s]>>)
    /\ UNCHANGED <<rows, target, newRaised, newStatus>>

(* INSERT ... ON CONFLICT DO NOTHING, which waits for a rival insert. *)
InsertEntry(s) ==
    /\ target[s] \notin ledger
    /\ Runs(s, "insert", "project")
    /\ Take(s, <<"entry", target[s]>>)
    /\ UNCHANGED <<rows, target, newRaised, newStatus>>

(* The conflict: nothing is inserted, the caller commits what it has. *)
EntryExists(s) ==
    /\ target[s] \in ledger
    /\ Runs(s, "insert", "commit")
    /\ UNCHANGED <<rows, target, holds, newRaised, newStatus>>

(* Mutant: project.raised_amount += x in Python, on the value once read.    *)
BumpProject_unlocked(s) ==
    LET p == ProjectOf[target[s]] IN
    /\ Runs(s, "project", "mark")
    /\ Hold(s, <<"project", p>>)
    /\ newRaised' = [newRaised EXCEPT ![s] = raised[p] + AmountOf[target[s]]]
    /\ UNCHANGED <<rows, target, newStatus>>

(* Mutant: the amount is taken off the project. *)
BumpProject_debits(s) ==
    LET p == ProjectOf[target[s]] IN
    /\ Runs(s, "project", "mark")
    /\ Take(s, <<"project", p>>)
    /\ newRaised' = [newRaised EXCEPT ![s] = raised[p] - AmountOf[target[s]]]
    /\ UNCHANGED <<rows, target, newStatus>>

(* UPDATE projects SET raised_amount = raised_amount + x. *)
BumpProject(s) ==
    LET p == ProjectOf[target[s]] IN
    /\ Runs(s, "project", "mark")
    /\ Take(s, <<"project", p>>)
    /\ newRaised' = [newRaised EXCEPT ![s] = raised[p] + AmountOf[target[s]]]
    /\ UNCHANGED <<rows, target, newStatus>>

(* UPDATE contributions SET status = SUCCESS WHERE status IN (PENDING, FAILED) *)
MarkSuccess(s) ==
    /\ Runs(s, "mark", "commit")
    /\ Take(s, <<"row", target[s]>>)
    /\ newStatus' = [newStatus EXCEPT ![s] =
         IF status[target[s]] \in {"pending", "failed"} THEN "success" ELSE "none"]
    /\ UNCHANGED <<rows, target, newRaised>>

(* Mutant: the status was checked when the handler read it, not by the UPDATE. *)
FailRow_unlocked(s) ==
    /\ Runs(s, "fail", "commit")
    /\ newStatus' = [newStatus EXCEPT ![s] =
         IF status[target[s]] = "pending" THEN "failed" ELSE "none"]
    /\ Hold(s, <<"row", target[s]>>)
    /\ UNCHANGED <<rows, target, newRaised>>

(* UPDATE contributions SET status = FAILED WHERE status = PENDING. *)
FailRow(s) ==
    /\ Runs(s, "fail", "commit")
    /\ Take(s, <<"row", target[s]>>)
    /\ newStatus' = [newStatus EXCEPT ![s] =
         IF status[target[s]] = "pending" THEN "failed" ELSE "none"]
    /\ UNCHANGED <<rows, target, newRaised>>

Ends(s) ==
    /\ holds' = [holds EXCEPT ![s] = {}]
    /\ newRaised' = [newRaised EXCEPT ![s] = 0]
    /\ newStatus' = [newStatus EXCEPT ![s] = "none"]
    /\ UNCHANGED target

Inserted(s) == <<"entry", target[s]>> \in holds[s]
Bumped(s) == <<"project", ProjectOf[target[s]]>> \in holds[s]

Commit(s) ==
    /\ Runs(s, "commit", "idle")
    /\ ledger' = IF Inserted(s) THEN ledger \cup {target[s]} ELSE ledger
    /\ raised' = IF Bumped(s)
                 THEN [raised EXCEPT ![ProjectOf[target[s]]] = newRaised[s]]
                 ELSE raised
    /\ status' = IF newStatus[s] # "none"
                 THEN [status EXCEPT ![target[s]] = newStatus[s]]
                 ELSE status
    /\ Ends(s)

(* A statement raises (a receipt that is already recorded breaks             *)
(* uq_contribution_provider_receipt) or the process dies: all is undone.    *)
Abort(s) ==
    /\ tpc[s] # "idle"
    /\ tpc' = [tpc EXCEPT ![s] = "idle"]
    /\ Ends(s)
    /\ UNCHANGED rows

Next ==
    \/ \E c \in Contribution : Contribute(c)
    \/ \E s \in Session :
         \/ Begin(s) \/ InsertEntry(s) \/ EntryExists(s) \/ BumpProject(s)
         \/ MarkSuccess(s) \/ FailRow(s) \/ Commit(s) \/ Abort(s)

Spec == Init /\ [][Next]_vars

-----------------------------------------------------------------------------
(* A committed credit stands behind exactly the committed SUCCESS rows: a    *)
(* FAILED that was decided before the credit committed does not overwrite it. *)
LedgerMatchesStatus == \A c \in Contribution : c \in ledger <=> status[c] = "success"

-----------------------------------------------------------------------------
(* The inductive invariant: what a session knows because of what it holds.   *)

(* No lock is held twice. *)
LocksExclusive ==
    \A s, t \in Session : \A lock \in Lock :
        lock \in holds[s] /\ lock \in holds[t] => s = t

RowHeld(s) == <<"row", target[s]>> \in holds[s]

(* What a session has done is what its next statement says it has. *)
Progress ==
    \A s \in Session :
        /\ tpc[s] # "idle" => status[target[s]] # "none"
        /\ tpc[s] \in {"idle", "insert", "fail"} => holds[s] = {}
        /\ tpc[s] # "commit" => newStatus[s] = "none"
        /\ tpc[s] = "project" => Inserted(s) /\ ~Bumped(s)
        /\ tpc[s] = "mark" => Inserted(s) /\ Bumped(s)
        /\ tpc[s] = "commit" => /\ Inserted(s) <=> Bumped(s)
                                /\ Inserted(s) <=> newStatus[s] = "success"

(* What a session is about to commit still fits the committed rows. *)
PendingWrites ==
    \A s \in Session :
        /\ Inserted(s) => target[s] \notin ledger
        /\ Bumped(s) => newRaised[s] = raised[ProjectOf[target[s]]] + AmountOf[target[s]]
        /\ newStatus[s] = "success" => RowHeld(s) /\ status[target[s]] \in {"pending", "failed"}
        /\ newStatus[s] = "failed" => RowHeld(s) /\ status[target[s]] = "pending"

(* The whole of it. *)
TxnInvariant == TypeOK /\ LocksExclusive /\ Progress /\ PendingWrites /\ LedgerMatchesStatus

-----------------------------------------------------------------------------
(* The committed rows change only as the abstract lifecycle allows; in       *)
(* particular each contribution is added to raised_amount exactly once,     *)
(* whatever other credits of the project are in flight.                     *)
Lifecycle == INSTANCE ContributionLifecycle WITH status <- status, raised <- raised
LifecycleSpec == Lifecycle!Spec
=============================================================================
