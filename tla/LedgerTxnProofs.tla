---------------------------- MODULE LedgerTxnProofs ----------------------------
(***************************************************************************)
(* Proofs about LedgerTxn, for any number of sessions, contributions and   *)
(* projects: the statements of credit_contribution and fail_contribution,  *)
(* interleaved under READ COMMITTED, lose no update and implement the      *)
(* lifecycle, as the atomic steps of PaymentStore do.                      *)
(***************************************************************************)
EXTENDS LedgerTxn, TLAPS

USE TxnAssumption
USE DEF rows, txnVars, Hold, Runs, RowHeld, Inserted, Bumped

(* What a session may lock. *)
LEMMA LocksAreLocks ==
    ASSUME NEW c \in Contribution
    PROVE  /\ <<"entry", c>> \in Lock /\ <<"row", c>> \in Lock
           /\ <<"project", ProjectOf[c]>> \in Lock
  BY DEF Lock

(* With no transaction open there is nothing to hold.                        *)
LEMMA InitTxn == Init => TxnInvariant
  <1> SUFFICES ASSUME Init PROVE TxnInvariant
    OBVIOUS
  <1>1. (CHOOSE c \in Contribution : TRUE) \in Contribution
    OBVIOUS
  <1>2. TypeOK
    BY <1>1 DEF Init, TypeOK, Statement
  <1> QED
    BY <1>1, <1>2 DEF Init, TxnInvariant, LocksExclusive, Progress, PendingWrites,
       LedgerMatchesStatus

(* A statement that only takes a lock nobody else holds keeps locks exclusive. *)
LEMMA TakeKeeps ==
    ASSUME TypeOK, LocksExclusive, NEW s \in Session, NEW lock \in Lock, Take(s, lock)
    PROVE  /\ holds' \in [Session -> SUBSET Lock]
           /\ LocksExclusive'
           /\ holds'[s] = holds[s] \cup {lock}
           /\ \A t \in Session \ {s} : holds'[t] = holds[t]
  <1>1. holds \in [Session -> SUBSET Lock]
    BY DEF TypeOK
  <1>2. holds' = [holds EXCEPT ![s] = holds[s] \cup {lock}]
    BY DEF Take
  <1>3. /\ holds' \in [Session -> SUBSET Lock]
        /\ holds'[s] = holds[s] \cup {lock}
        /\ \A t \in Session \ {s} : holds'[t] = holds[t]
    BY <1>1, <1>2
  <1>4. LocksExclusive'
    BY <1>3 DEF Take, LocksExclusive
  <1> QED
    BY <1>3, <1>4

(* Statements: nothing is committed and only session s moves. *)
LEMMA StatementKeeps ==
    ASSUME TxnInvariant, NEW s \in Session,
           \/ Begin(s) \/ InsertEntry(s) \/ EntryExists(s) \/ BumpProject(s)
           \/ MarkSuccess(s) \/ FailRow(s)
    PROVE  TxnInvariant'
  <1> DEFINE c == target[s]
  <1>1. TypeOK /\ LocksExclusive /\ Progress /\ PendingWrites /\ LedgerMatchesStatus
    BY DEF TxnInvariant
  <1>c. c \in Contribution /\ ProjectOf[c] \in Project /\ AmountOf[c] \in Nat
    BY <1>1 DEF TypeOK
  <1>l. UNCHANGED rows
    BY DEF Begin, InsertEntry, EntryExists, BumpProject, MarkSuccess, FailRow
  <1>m. LedgerMatchesStatus'
    BY <1>1, <1>l DEF LedgerMatchesStatus
  <1>2. CASE Begin(s)
    <2>1. TypeOK' /\ LocksExclusive'
      BY <1>1, <1>2 DEF Begin, TypeOK, LocksExclusive, Statement
    <2>2. holds[s] = {} /\ newStatus[s] = "none"
      BY <1>1, <1>2 DEF Begin, Progress
    <2>3. Progress'
      BY <1>1, <1>2, <2>2 DEF Begin, Progress, TypeOK
    <2>4. PendingWrites'
      BY <1>1, <1>2, <2>2 DEF Begin, PendingWrites, TypeOK
    <2> QED
      BY <1>m, <2>1, <2>3, <2>4 DEF TxnInvariant
  <1>3. CASE InsertEntry(s)
    <2>1. /\ holds' \in [Session -> SUBSET Lock] /\ LocksExclusive'
          /\ holds'[s] = holds[s] \cup {<<"entry", c>>}
          /\ \A t \in Session \ {s} : holds'[t] = holds[t]
      BY <1>1, <1>3, <1>c, TakeKeeps, LocksAreLocks DEF InsertEntry
    <2>2. TypeOK'
      BY <1>1, <1>3, <2>1 DEF InsertEntry, TypeOK, Statement
    <2>3. Progress'
      BY <1>1, <1>3, <2>1 DEF InsertEntry, Progress, TypeOK
    <2>4. PendingWrites'
      BY <1>1, <1>3, <2>1 DEF InsertEntry, PendingWrites, Progress, TypeOK
    <2> QED
      BY <1>m, <2>1, <2>2, <2>3, <2>4 DEF TxnInvariant
  <1>4. CASE EntryExists(s)
    <2>1. TypeOK' /\ LocksExclusive'
      BY <1>1, <1>4 DEF EntryExists, TypeOK, LocksExclusive, Statement
    <2>2. Progress'
      BY <1>1, <1>4 DEF EntryExists, Progress, TypeOK
    <2>3. PendingWrites'
      BY <1>1, <1>4 DEF EntryExists, PendingWrites, TypeOK
    <2> QED
      BY <1>m, <2>1, <2>2, <2>3 DEF TxnInvariant
  <1>5. CASE BumpProject(s)
    <2>1. /\ holds' \in [Session -> SUBSET Lock] /\ LocksExclusive'
          /\ holds'[s] = holds[s] \cup {<<"project", ProjectOf[c]>>}
          /\ \A t \in Session \ {s} : holds'[t] = holds[t]
      BY <1>1, <1>5, <1>c, TakeKeeps, LocksAreLocks DEF BumpProject
    <2>2. /\ newRaised' \in [Session -> Nat]
          /\ newRaised'[s] = raised[ProjectOf[c]] + AmountOf[c]
          /\ \A t \in Session \ {s} : newRaised'[t] = newRaised[t]
      <3>1. raised[ProjectOf[c]] \in Nat
        BY <1>1, <1>c DEF TypeOK
      <3>2. raised[ProjectOf[c]] + AmountOf[c] \in Nat
        BY <1>c, <3>1
      <3> QED
        BY <1>1, <1>5, <3>2 DEF BumpProject, TypeOK
    <2>3. TypeOK'
      BY <1>1, <1>5, <2>1, <2>2 DEF BumpProject, TypeOK, Statement
    <2>4. Progress'
      BY <1>1, <1>5, <2>1 DEF BumpProject, Progress, TypeOK
    <2>5. PendingWrites'
      BY <1>1, <1>5, <2>1, <2>2 DEF BumpProject, PendingWrites, Progress, TypeOK
    <2> QED
      BY <1>m, <2>1, <2>3, <2>4, <2>5 DEF TxnInvariant
  <1>6. CASE MarkSuccess(s)
    <2>1. /\ holds' \in [Session -> SUBSET Lock] /\ LocksExclusive'
          /\ holds'[s] = holds[s] \cup {<<"row", c>>}
          /\ \A t \in Session \ {s} : holds'[t] = holds[t]
      BY <1>1, <1>6, <1>c, TakeKeeps, LocksAreLocks DEF MarkSuccess
    <2>2. /\ Inserted(s) /\ Bumped(s) /\ c \notin ledger
          /\ status[c] \in {"pending", "failed"}
      <3>1. tpc[s] = "mark"
        BY <1>6 DEF MarkSuccess
      <3>2. Inserted(s) /\ Bumped(s) /\ status[c] # "none"
        BY <1>1, <3>1 DEF Progress
      <3>3. c \notin ledger
        BY <1>1, <3>2 DEF PendingWrites
      <3>4. status[c] # "success"
        BY <1>1, <1>c, <3>3 DEF LedgerMatchesStatus
      <3> QED
        BY <1>1, <1>c, <3>2, <3>3, <3>4 DEF TypeOK
    <2>3. newStatus' = [newStatus EXCEPT ![s] = "success"]
      BY <1>6, <2>2 DEF MarkSuccess
    <2>4. TypeOK'
      BY <1>1, <1>6, <2>1, <2>3 DEF MarkSuccess, TypeOK, Statement
    <2>5. Progress'
      BY <1>1, <1>6, <2>1, <2>2, <2>3 DEF MarkSuccess, Progress, TypeOK
    <2>6. PendingWrites'
      BY <1>1, <1>6, <2>1, <2>2, <2>3 DEF MarkSuccess, PendingWrites, TypeOK
    <2> QED
      BY <1>m, <2>1, <2>4, <2>5, <2>6 DEF TxnInvariant
  <1>7. CASE FailRow(s)
    <2>1. /\ holds' \in [Session -> SUBSET Lock] /\ LocksExclusive'
          /\ holds'[s] = holds[s] \cup {<<"row", c>>}
          /\ \A t \in Session \ {s} : holds'[t] = holds[t]
      BY <1>1, <1>7, <1>c, TakeKeeps, LocksAreLocks DEF FailRow
    <2>2. holds[s] = {}
      BY <1>1, <1>7 DEF FailRow, Progress
    <2>3. ~Inserted(s)' /\ ~Bumped(s)'
      BY <1>7, <2>1, <2>2 DEF FailRow
    <2>4. TypeOK'
      BY <1>1, <1>7, <2>1 DEF FailRow, TypeOK, Statement
    <2>5. Progress'
      BY <1>1, <1>7, <2>1, <2>3 DEF FailRow, Progress, TypeOK
    <2>6. PendingWrites'
      BY <1>1, <1>7, <2>1, <2>3 DEF FailRow, PendingWrites, TypeOK
    <2> QED
      BY <1>m, <2>1, <2>4, <2>5, <2>6 DEF TxnInvariant
  <1> QED
    BY <1>2, <1>3, <1>4, <1>5, <1>6, <1>7

(* A commit writes only rows its session has locked, so it disturbs what no  *)
(* other session is about to commit.                                        *)
LEMMA CommitKeeps ==
    ASSUME TxnInvariant, NEW s \in Session, Commit(s)
    PROVE  TxnInvariant'
  <1> DEFINE c == target[s]
  <1>1. TypeOK /\ LocksExclusive /\ Progress /\ PendingWrites /\ LedgerMatchesStatus
    BY DEF TxnInvariant
  <1>c. c \in Contribution /\ ProjectOf[c] \in Project
    BY <1>1 DEF TypeOK
  <1>2. /\ tpc[s] = "commit" /\ tpc' = [tpc EXCEPT ![s] = "idle"]
        /\ holds' = [holds EXCEPT ![s] = {}]
        /\ newRaised' = [newRaised EXCEPT ![s] = 0]
        /\ newStatus' = [newStatus EXCEPT ![s] = "none"]
        /\ target' = target
    BY DEF Commit, Ends
  <1>3. /\ ledger' = IF Inserted(s) THEN ledger \cup {c} ELSE ledger
        /\ raised' = IF Bumped(s)
                     THEN [raised EXCEPT ![ProjectOf[c]] = newRaised[s]] ELSE raised
        /\ status' = IF newStatus[s] # "none"
                     THEN [status EXCEPT ![c] = newStatus[s]] ELSE status
    BY DEF Commit
  <1>4. TypeOK'
    <2>1. raised' \in [Project -> Nat]
      BY <1>1, <1>3, <1>c DEF TypeOK
    <2>2. /\ status' \in [Contribution -> {"none", "pending", "success", "failed"}]
          /\ ledger' \subseteq Contribution
      BY <1>1, <1>3, <1>c DEF TypeOK
    <2> QED
      BY <1>1, <1>2, <2>1, <2>2 DEF TypeOK, Statement
  <1>5. LocksExclusive'
    BY <1>1, <1>2 DEF LocksExclusive, TypeOK
  <1>6. LedgerMatchesStatus'
    <2>1. Inserted(s) <=> newStatus[s] = "success"
      BY <1>1, <1>2 DEF Progress
    <2>2. newStatus[s] = "failed" => status[c] = "pending"
      BY <1>1 DEF PendingWrites
    <2>3. newStatus[s] \in {"none", "success", "failed"}
      BY <1>1 DEF TypeOK
    <2> QED
      BY <1>1, <1>3, <1>c, <2>1, <2>2, <2>3 DEF LedgerMatchesStatus, TypeOK
  <1>7. \A b \in Contribution : status[b] # "none" => status'[b] # "none"
    BY <1>1, <1>3, <1>c DEF TypeOK
  <1>8. ASSUME NEW t \in Session, t # s
        PROVE  /\ tpc'[t] = tpc[t] /\ holds'[t] = holds[t]
               /\ newRaised'[t] = newRaised[t] /\ newStatus'[t] = newStatus[t]
               /\ target[t] \in Contribution
               /\ Inserted(t) => target[t] \notin ledger'
               /\ Bumped(t) => raised'[ProjectOf[target[t]]] = raised[ProjectOf[target[t]]]
               /\ RowHeld(t) => status'[target[t]] = status[target[t]]
    <2>1. target[t] \in Contribution /\ ProjectOf[target[t]] \in Project
      BY <1>1 DEF TypeOK
    <2>2. /\ Inserted(s) /\ Inserted(t) => target[t] # c
          /\ Bumped(s) /\ Bumped(t) => ProjectOf[target[t]] # ProjectOf[c]
          /\ RowHeld(s) /\ RowHeld(t) => target[t] # c
      BY <1>1, <1>8, <1>c, <2>1, LocksAreLocks DEF LocksExclusive
    <2>3. newStatus[s] # "none" => RowHeld(s)
      BY <1>1 DEF PendingWrites, TypeOK
    <2>4. Inserted(t) => target[t] \notin ledger'
      BY <1>1, <1>3, <2>2 DEF PendingWrites
    <2>5. Bumped(t) => raised'[ProjectOf[target[t]]] = raised[ProjectOf[target[t]]]
      BY <1>1, <1>3, <2>1, <2>2 DEF TypeOK
    <2>6. RowHeld(t) => status'[target[t]] = status[target[t]]
      BY <1>1, <1>3, <2>1, <2>2, <2>3 DEF TypeOK
    <2> QED
      BY <1>1, <1>2, <1>8, <2>1, <2>4, <2>5, <2>6 DEF TypeOK
  <1>9. holds'[s] = {} /\ newStatus'[s] = "none" /\ tpc'[s] = "idle"
    BY <1>1, <1>2 DEF TypeOK
  <1>10. Progress'
    <2>1. ASSUME NEW t \in Session, t # s
          PROVE  /\ tpc'[t] # "idle" => status'[target'[t]] # "none"
                 /\ tpc'[t] \in {"idle", "insert", "fail"} => holds'[t] = {}
                 /\ tpc'[t] # "commit" => newStatus'[t] = "none"
                 /\ tpc'[t] = "project" => Inserted(t)' /\ ~Bumped(t)'
                 /\ tpc'[t] = "mark" => Inserted(t)' /\ Bumped(t)'
                 /\ tpc'[t] = "commit" => /\ Inserted(t)' <=> Bumped(t)'
                                          /\ Inserted(t)' <=> newStatus'[t] = "success"
      BY <1>1, <1>2, <1>7, <1>8, <2>1 DEF Progress
    <2> QED
      BY <1>2, <1>9, <2>1 DEF Progress
  <1>11. PendingWrites'
    <2>1. ASSUME NEW t \in Session, t # s
          PROVE  /\ Inserted(t)' => target'[t] \notin ledger'
                 /\ newStatus'[t] = "success"
                      => RowHeld(t)' /\ status'[target'[t]] \in {"pending", "failed"}
                 /\ newStatus'[t] = "failed"
                      => RowHeld(t)' /\ status'[target'[t]] = "pending"
      <3>1. /\ newStatus[t] = "success" => RowHeld(t) /\ status[target[t]] \in {"pending", "failed"}
            /\ newStatus[t] = "failed" => RowHeld(t) /\ status[target[t]] = "pending"
        BY <1>1 DEF PendingWrites
      <3> QED
        BY <1>2, <1>8, <2>1, <3>1
    <2>3. ASSUME NEW t \in Session, t # s, Bumped(t)'
          PROVE  newRaised'[t] = raised'[ProjectOf[target'[t]]] + AmountOf[target'[t]]
      <3>1. Bumped(t) /\ newRaised'[t] = newRaised[t]
        BY <1>2, <1>8, <2>3
      <3>2. newRaised[t] = raised[ProjectOf[target[t]]] + AmountOf[target[t]]
        BY <1>1, <3>1 DEF PendingWrites
      <3> QED
        BY <1>2, <1>8, <2>3, <3>1, <3>2
    <2>2. ~Inserted(s)' /\ ~Bumped(s)'
      BY <1>9
    <2> QED
      BY <1>2, <1>9, <2>1, <2>2, <2>3 DEF PendingWrites
  <1> QED
    BY <1>4, <1>5, <1>6, <1>10, <1>11 DEF TxnInvariant

(* A rollback drops the session's locks and its writes.                      *)
LEMMA AbortKeeps ==
    ASSUME TxnInvariant, NEW s \in Session, Abort(s)
    PROVE  TxnInvariant'
  <1>1. TypeOK /\ LocksExclusive /\ Progress /\ PendingWrites /\ LedgerMatchesStatus
    BY DEF TxnInvariant
  <1>2. /\ holds' = [holds EXCEPT ![s] = {}]
        /\ newRaised' = [newRaised EXCEPT ![s] = 0]
        /\ newStatus' = [newStatus EXCEPT ![s] = "none"]
        /\ tpc' = [tpc EXCEPT ![s] = "idle"]
        /\ UNCHANGED <<status, ledger, raised, target>>
    BY DEF Abort, Ends
  <1>3. TypeOK'
    BY <1>1, <1>2 DEF TypeOK, Statement
  <1>4. LocksExclusive' /\ LedgerMatchesStatus'
    BY <1>1, <1>2 DEF LocksExclusive, LedgerMatchesStatus, TypeOK
  <1>5. Progress'
    BY <1>1, <1>2 DEF Progress, TypeOK
  <1>6. PendingWrites'
    BY <1>1, <1>2 DEF PendingWrites, TypeOK
  <1> QED
    BY <1>3, <1>4, <1>5, <1>6 DEF TxnInvariant

(* A contribution that is just opened is in no transaction's hands.          *)
LEMMA ContributeKeeps ==
    ASSUME TxnInvariant, NEW c \in Contribution, Contribute(c)
    PROVE  TxnInvariant'
  <1>1. TypeOK /\ LocksExclusive /\ Progress /\ PendingWrites /\ LedgerMatchesStatus
    BY DEF TxnInvariant
  <1>2. /\ status[c] = "none" /\ status' = [status EXCEPT ![c] = "pending"]
        /\ UNCHANGED <<ledger, raised, txnVars>>
    BY DEF Contribute
  <1>3. \A b \in Contribution : status[b] # "none" => status'[b] = status[b]
    BY <1>1, <1>2 DEF TypeOK
  <1>4. TypeOK' /\ LocksExclusive' /\ LedgerMatchesStatus'
    BY <1>1, <1>2 DEF TypeOK, LocksExclusive, LedgerMatchesStatus
  <1>5. \A t \in Session : target[t] \in Contribution
    BY <1>1 DEF TypeOK
  <1>6. Progress'
    BY <1>1, <1>2, <1>3, <1>5 DEF Progress
  <1>7. PendingWrites'
    BY <1>1, <1>2, <1>3, <1>5 DEF PendingWrites
  <1> QED
    BY <1>4, <1>6, <1>7 DEF TxnInvariant

(* Every step keeps the invariant.                                           *)
LEMMA StepTxn ==
    ASSUME TxnInvariant, [Next]_vars
    PROVE  TxnInvariant'
  <1>1. CASE UNCHANGED vars
    BY <1>1 DEF vars, TxnInvariant, TypeOK, LocksExclusive, Progress, PendingWrites,
       LedgerMatchesStatus
  <1>2. CASE Next
    BY <1>2, ContributeKeeps, StatementKeeps, CommitKeeps, AbortKeeps DEF Next
  <1> QED
    BY <1>1, <1>2

-----------------------------------------------------------------------------
(* Whatever transactions overlap, a session commits only what still fits the *)
(* rows it writes.                                                          *)
THEOREM TxnInvariance == Spec => []TxnInvariant
  BY InitTxn, StepTxn, PTL DEF Spec

(* credit_contribution and fail_contribution: no FAILED overwrites a credit, *)
(* no credit leaves its contribution unmarked, in any interleaving of their *)
(* statements.                                                              *)
THEOREM TxnLedgerAgreement == Spec => []LedgerMatchesStatus
  <1>1. TxnInvariant => LedgerMatchesStatus
    BY DEF TxnInvariant
  <1> QED
    BY TxnInvariance, <1>1, PTL

(* The columns, the locks and what each session holds stay in their types,   *)
(* for any number of sessions (ledger_service.py).                          *)
THEOREM TxnTypes == Spec => []TypeOK
  <1>1. TxnInvariant => TypeOK
    BY DEF TxnInvariant
  <1> QED
    BY TxnInvariance, <1>1, PTL

(* A commit is one step of the lifecycle; every other statement is none. *)
LEMMA StepRefines ==
    ASSUME TxnInvariant, [Next]_vars
    PROVE  [Lifecycle!Next]_(Lifecycle!lifecycleVars)
  <1>1. TypeOK /\ Progress /\ PendingWrites
    BY DEF TxnInvariant
  <1>2. ASSUME NEW c \in Contribution, Contribute(c)
        PROVE  [Lifecycle!Next]_(Lifecycle!lifecycleVars)
    BY <1>2 DEF Contribute, Lifecycle!Next, Lifecycle!Open
  <1>3. ASSUME NEW s \in Session, Commit(s)
        PROVE  [Lifecycle!Next]_(Lifecycle!lifecycleVars)
    <2> DEFINE c == target[s]
    <2>1. c \in Contribution /\ newStatus[s] \in {"none", "success", "failed"}
      BY <1>1 DEF TypeOK
    <2>2. /\ Inserted(s) <=> Bumped(s)
          /\ Inserted(s) <=> newStatus[s] = "success"
      BY <1>1, <1>3 DEF Commit, Progress
    <2>3. CASE newStatus[s] = "success"
      <3>1. /\ status[c] \in {"pending", "failed"}
            /\ newRaised[s] = raised[ProjectOf[c]] + AmountOf[c]
        BY <1>1, <2>2, <2>3 DEF PendingWrites
      <3>2. Lifecycle!Settle(c)
        BY <1>3, <2>2, <2>3, <3>1 DEF Commit, Lifecycle!Settle
      <3> QED
        BY <2>1, <3>2 DEF Lifecycle!Next
    <2>4. CASE newStatus[s] = "failed"
      <3>1. status[c] = "pending"
        BY <1>1, <2>4 DEF PendingWrites
      <3>2. Lifecycle!Fail(c)
        BY <1>3, <2>2, <2>4, <3>1 DEF Commit, Lifecycle!Fail
      <3> QED
        BY <2>1, <3>2 DEF Lifecycle!Next
    <2>5. CASE newStatus[s] = "none"
      BY <1>3, <2>2, <2>5 DEF Commit, Lifecycle!lifecycleVars
    <2> QED
      BY <2>1, <2>3, <2>4, <2>5
  <1>4. ASSUME NEW s \in Session,
               \/ Begin(s) \/ InsertEntry(s) \/ EntryExists(s) \/ BumpProject(s)
               \/ MarkSuccess(s) \/ FailRow(s) \/ Abort(s)
        PROVE  [Lifecycle!Next]_(Lifecycle!lifecycleVars)
    BY <1>4 DEF Begin, InsertEntry, EntryExists, BumpProject, MarkSuccess, FailRow, Abort,
       Lifecycle!lifecycleVars
  <1>5. CASE UNCHANGED vars
    BY <1>5 DEF vars, Lifecycle!lifecycleVars
  <1> QED
    BY <1>2, <1>3, <1>4, <1>5 DEF Next

(* Statement by statement, the ledger service implements the lifecycle: no   *)
(* update of raised_amount is lost and no contribution is credited twice.   *)
THEOREM TxnRefinement == Spec => LifecycleSpec
  <1>1. Init => Lifecycle!Init
    BY DEF Init, Lifecycle!Init
  <1> QED
    BY TxnInvariance, <1>1, StepRefines, PTL DEF Spec, LifecycleSpec, Lifecycle!Spec
=============================================================================
