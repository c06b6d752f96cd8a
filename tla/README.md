# Changa: a TLA+ verification project

Changa is a group-contribution platform: members of a *chama* contribute to its
projects through M-Pesa or Airtel Money, a FastAPI backend over PostgreSQL keeps
the books, and a Flutter app is the client. This directory holds TLA+ models of
its core, the TLC configurations that check them, and proofs checked by TLAPS.

Every definition is translated from the source under `src/`; `PROJECT.json`
(`map`) names the lines each one stands for.

## 1. Inventory

| Component | Code | State it keeps | Operations | Talks to |
|---|---|---|---|---|
| Ledger service | `backend/app/services/ledger_service.py` | `ledger_entries`, `projects.raised_amount`, `contributions.status` | credit, fail, divergence report | called by callbacks and worker |
| Payment worker | `workers/payment_worker.py` | `outbox_messages`, `push_attempts`, `reconcile_attempts`, `failure_reason` | claim, push, settle push, sweep, escalate | provider clients, ledger service |
| Provider callbacks | `routers/payments.py` 241-336 | `provider_events` | verify by query, settle | provider clients, ledger service |
| Provider clients | `services/mpesa.py`, `airtel.py`, `provider_errors.py` | none | push, status query, classification of replies | Daraja, Airtel |
| Contribution initiation | `routers/payments.py` 126-198 | contribution + outbox row | contribute | rate limit, project, membership |
| Sessions | `routers/auth.py`, `core/tokens.py`, `core/security.py` | refresh-token families, deny list, `tokens_valid_after` | register, login, refresh, logout, change password | every authenticated route |
| Rate limit, lockout | `core/ratelimit.py` | in-memory windows | check, record, clear | auth, join, contribute |
| Chamas | `routers/chamas.py` | chamas, memberships, invite codes | create, join, leave, remove, roles | contribution gate |
| Projects | `routers/projects.py` | projects and their status | create, update, delete, list | contribution gate |
| Budgets | `routers/budgets.py` | budgets, categories, expenses, `spent_amount` | CRUD, recompute | none |
| Database | `database.py`, `models/`, `alembic/` | schema, pool of 10 + 20 connections | sessions, startup check | everything |
| Audit, observability | `core/audit*.py`, `core/observability.py` | audit rows, logs | session hooks | everything |
| Mobile API client | `mobile/.../api_client.dart` | stored tokens, shared refresh | 401 interceptor, retry | sessions |
| Mobile payments | `mobile/.../payments_provider.dart` | poll state | poll until settled or timeout | status endpoint |
| Mobile features and shell | `mobile/.../features/*`, `core/router` | lists, forms, navigation | load, edit | API |

**How the core interacts.** A contribute handler commits the contribution and an
outbox message in one transaction. Each server process runs one worker loop
(`main.py`, lifespan). A pass of the loop first drains up to `OUTBOX_BATCH_SIZE`
messages: it claims one (`FOR UPDATE SKIP LOCKED`, `PROCESSING` committed under
the lock), sends the push, commits the outcome. Then it sweeps contributions
`PENDING` for longer than `RECONCILE_STALE_AFTER`, asking the provider about each.
Independently the provider calls back; the handler believes only its own status
query and settles through the same two ledger operations as the sweep. The
rows are the only thing worker and handler share.

**What is hard.** Every settlement is a read, a network call and a write, with
other processes running in between. A push may reach the provider although its
reply is lost. Callbacks are duplicated, late, early or lost. A process may die
between any two commits. The money must be credited once, the payer prompted
at most once, and no answer must never be read as a failure. Around that core every
handler is a check followed later by a write: memberships, projects, budgets and
logins are all read by one statement and changed by another, and only row locks,
unique keys, foreign keys or the event loop keep two requests apart. The app adds
requests that overtake each other and a token store that outlives its process.
`PROJECT.json` (`hazards`) names each hazard at its line.

**What makes each component correct.** Ledger: a credit exists exactly for SUCCESS
rows and totals equal the ledger. Worker: one prompt per contribution, every
contribution decided or handed to a human. Callbacks: no credit without a
verified payment. Sessions: at most one live refresh token per family unless two
refreshes raced; none after a logout, a reuse or a password change unless a refresh
overlapped with it; no access token accepted that was made before the second a password
change read. Without these conditions the last two are false of the code (section 7).
Rate limit and lockout: never more than the limit in a window, never more guesses than
the tiers allow. Groups: a chama keeps its one owner as a member, nobody is in it
twice, what is referred to exists, the daily cap holds, the audit trail explains the
rows. Budgets: `spent_amount` is the sum of the expenses and nothing outlives its
parent. Api client: requests refused together refresh once; signing in and out lasts.
Poller: a result once shown stays, and nobody waits at a screen that polls no more.

## 2. Modules

| Module | Models | Kind |
|---|---|---|
| `ContributionLifecycle` | what the subsystem promises about `status` and `raised_amount` | abstract specification |
| `ProviderClient` | classification of push replies and status replies | pure operators |
| `PaymentStore` | rows, `credit_contribution`, `fail_contribution`, contribute handlers, provider and payer | shared state and operations |
| `PaymentWorker` | the worker loop, one action per transaction and network call | component |
| `ProviderCallback` | the two callback handlers | component |
| `PaymentFlow` | composition, properties, inductive invariant, refinement | composition |
| `LedgerTxn` | credit and fail statement by statement under READ COMMITTED | detailed specification |
| `Sessions` | the refresh-token families and access tokens of one user | component |
| `Groups` | a chama, its members, projects, contributions, budget links and audit trail | component |
| `LoginGuard` | the sliding window and the progressive lockout in front of `login` | component |
| `Budgets` | a budget, its categories and expenses, statement by statement | component |
| `ApiClient` | the app's tokens, its 401 interceptor, login, logout, password change and the check at its start, with the server's side of them | component |
| `PaymentPoller` | the payment screen over `ApiClient` | composition |
| `PaymentFlowProofs`, `LedgerTxnProofs`, `SessionsProofs`, `GroupsProofs`, `LoginGuardProofs`, `BudgetsProofs`, `MobileProofs` | theorems about the module of that name (`MobileProofs`: `PaymentPoller` and `ApiClient`) | proofs |
| `FiniteSums` | sums over finite sets: what `MapThenSumSet` returns | lemmas |
| `MCPaymentFlow`, `MCLedgerTxn`, `MCSessions`, `MCGroups`, `MCLoginGuard`, `MCBudgets`, `MCMobile` | instances | model checking |

`PaymentFlow` EXTENDS `PaymentWorker` and `ProviderCallback`, which both EXTEND
`PaymentStore`, which EXTENDS `ProviderClient`. `PaymentFlow` and `LedgerTxn`
each INSTANCE `ContributionLifecycle` (the variables `status` and `raised` have
the same names) and are shown to implement it. `PaymentPoller` EXTENDS `ApiClient`: a poll
is one of its requests, refused, refreshed and retried like any other. `Sessions`,
`Groups`, `LoginGuard` and `Budgets` stand alone, since they share no row with each other
that one of them changes: a contribution in `Groups` is only opened, what becomes of it
is `PaymentFlow`; the endpoints in `ApiClient` (refresh, logout, password change) are those
of `Sessions` with their reads and commits taken together, as one client that refreshes once
at a time sees them.

### State

* `status`, `failure_reason`, `checkout_request_id`, `push_attempts`,
  `reconcile_attempts`: columns of `contributions`. `failure_reason` keeps three
  values (none, some failure text, `NEEDS_REVIEW`), `checkout_request_id` only
  whether it is set.
* `stale`: whether `initiated_at` is older than the sweep's cutoff. Time itself is
  not modelled; a row becomes stale at any moment after it is created.
* `outbox_status`, `outbox_attempts`: the one message of each contribution.
* `ledger`: contributions with a CREDIT entry. `raised`: `projects.raised_amount`.
* `charge`, `prompts`: the provider's side, which the code never sees directly.
* `pc`, `job`, `answer`, `handled`, `todo`, `loaded`: program counter and locals of
  each worker; `loaded` is the attempt count its ORM session read before its query.
* `hpc`, `about`, `seen`, `verified`, `provider_events`: handler of each delivery;
  `seen` is the status its session keeps across the await.
* In `Sessions`: `issued`, `family`, `consumed`, `revoked` are the rows of
  `refresh_tokens` (a family is named by its first token), `denied` the deny list,
  `valid_after` and `iat` whole seconds as `get_auth_context` compares them. An access
  token is named by the refresh token it was issued with. `rpc`, `arg`, `cred` are the
  progress and the locals of each request; `since` is when a login or a refresh began and,
  of a password change, the reading of the clock in `revoke_all_sessions`; `seen` is the
  snapshot of a revoking UPDATE: the rows it will revoke. `killed`, `raced`, `overlapped`,
  `crossed` and `cut` are history, which no action reads: families that were revoked;
  families in which two refreshes overlapped, or a refresh and a revocation; whether two
  password changes overlapped from their readings on; and the latest second that a
  password change has read and committed.
* In `Groups`: `members` are rows with an id, so that a DELETE by id differs from one by
  user; `project` is each project's status; `linked` is `budgets.linked_project_id`;
  `audit` is the set of audit events by action, table and entity, and `trail` the link in
  the last event of each budget; `req` is what each request has read and will commit.
* In `LoginGuard`: `bucket` and `failures` are the two deques, as the requests whose times
  they hold (`admitted_at`, `failed_at`), in the order of their entries; `stamp` is the
  clock as a call read it before taking the lock. `wrong` is history.
* In `Budgets`: committed rows (`categories`, `expenses`, `category_id`, `spent_amount`) and
  each request's transaction: where it is, the total its sub-select found, what it
  has loaded or deleted. `missed` is history: categories whose last recompute took its
  sub-select before another request committed.
* In `ApiClient`: the server's rows (`issued`, `family`, `consumed`, `revoked`, `stale`), the
  secure storage (`access`, `refresh`), `req` (each request, what it is for in `op`, and the
  number of error handlers around its retry), `flight` (the shared refresh), `user` (the auth
  notifier; "starting" until `getMe` has answered, "refused" when it has failed, which is the
  login screen with the tokens kept). `trouble` is history: what went wrong since the last
  login, a changed password included. `PaymentPoller` adds the
  state of the screen (`shown`, `attempts`, `timer`) and the answer each poll brings.

### Actions

| Code | Actions |
|---|---|
| `contribute_mpesa`, `contribute_airtel` | same names |
| `_claim_next_message` | `ClaimSelect` (row lock), `ClaimCommit` |
| `_drain_outbox_sync` | `ClaimSelect`/`DrainEnds` |
| `_process_outbox_message` | `SkipMessage`, `StartPush`, `Push`, `PushAccepted`, `PushNotSent`, `PushRejected`, `PushAmbiguous` |
| `_reconcile_pending_sync` | `SelectStale` |
| `_reconcile_one` | `SweepSkip`, `SweepNoHandle`, `LoadStale`, `Query`, `SweepSuccess`, `SweepFailed`, `SweepUnknown` |
| `run_forever` | `SweepEnds`, `Crash` |
| `mpesa_callback`, `airtel_callback` | `CallbackUnknown`, `CallbackArrives`, `CallbackVerify`, `CallbackCredits`, `CallbackFails`, `CallbackLeaves`, `CallbackDies` |
| `credit_contribution` (in `LedgerTxn`) | `InsertEntry`, `EntryExists`, `BumpProject`, `MarkSuccess`, `Commit`, `Abort` |
| `fail_contribution` (in `LedgerTxn`) | `FailRow`, `Commit`, `Abort` |
| `login`, `register` | `LoginReads`, `LoginCommits` |
| `refresh` | `RefreshReads`, `RefreshCommits`, `RefreshExpired`; `RefreshReused`, `ReuseCommits` |
| `logout` | `LogoutReads`, `LogoutRevokes`, `LogoutCommits`; `LogoutUnknown` |
| `change_password` | `ChangePasswordReads`, `ChangePasswordReadsClock`, `ChangePasswordRevokes`, `ChangePasswordCommits` |
| a commit that raises, a process that dies (sessions) | `Aborts` |
| `join_chama`, `leave_chama`, `remove_member` | `JoinReads`, `JoinCommits`, `JoinAborts`; `leave_chama`, `remove_member`, `RemoveCommits` |
| `update_project`, `delete_project` | `UpdateReads`, `UpdateCommits`, `UpdateAborts`; `DeleteReads`, `DeleteUnlinks`, `DeleteCommits`, `DeleteAborts` |
| `contribute_mpesa`, `contribute_airtel` (in `Groups`) | `PassGate`, `InsertContribution`, `InsertAborts` |
| `create_budget`, `update_budget` (in `Groups`) | `LinkBudget` |
| `capture_changes` | `capture_changes`, `capture_link`, in the step that commits |
| a process or a connection that dies (in `Groups`) | `Dies` |
| `login` (in `LoginGuard`) | `Arrive`, `check_rate_limit`, `EnterHandler`, `check_not_locked_out`, `WrongPassword`, `record_login_failure`, `RightPassword` |
| `add_expense`, `delete_expense` | `AddReads`, `InsertExpense`, `DeleteReads`, `DeleteExpense`, then `Recompute`, `UpdateTotal`, `CommitExpense` |
| `delete_category`, `delete_budget` | `DropReads`, `DropDeletes`, `DropCommits` |
| `onRequest`, `onError` (mobile) | `onRequest`, `Refused`, `onError`, `Retries`, `ClearsTokens` |
| `_performRefresh`, `saveTokens` | `RefreshServed`, `RefreshLost`, `RefreshBreaks`, `SavesAccess`, `SavesRefresh` |
| `AuthRepository`, `AuthNotifier` | `Login`, `LoginSavesAccess`, `LoginSavesRefresh`, `Logout`, `LogoutReturns`, `LogoutClears`, `changePassword`; `Killed`, `SessionChecked` (`_checkSession`) |
| `change_password`, `logout` (as the app sees them) | `PasswordChanged`, `LoggedOut` |
| `PaymentPollNotifier` | `startPolling`, `Polls`, `PollsNoMore`, `PollReturns`, `PollFails`, `PollForgotten`, `Dispose` |
| leaving the payment screen | `Leaves` |

A push is split in three: the worker decides (`StartPush`), the request arrives and
is answered (`Push`), the outcome is committed. A crash may fall between any of
them, which is where the code's claims are hardest. The handlers of `Sessions` run in
threads: each reads, and commits later. A revocation is an UPDATE in two steps. Its rows
are those of the snapshot PostgreSQL takes as the statement starts (`revoke_family`,
`revoke_all_sessions` set `seen`); then it may wait for a row that a refresh has marked and
not committed, looks at that row again, but not for the successor inserted beside it;
the rows change with the commit. A presented token that is already used or revoked is read
in the step that starts its statement (`RefreshReused`), since what was read cannot become
untrue. A password change reads the clock in a step before (`ChangePasswordReadsClock`) and
writes that reading with its commit. A refresh writes in its commit alone: its session does
not flush before, and between flush and commit its locks can only delay others.

In `Groups` the contribute handlers are the exception to threads: they are `async` and have no
`await`, so the event loop runs one of them at a time (`~Contributing` in `PassGate`), and
that alone makes the daily cap hold; its mutant takes the `async` away. In `Budgets` an
UPDATE is two steps, the sub-select and the row lock, because PostgreSQL takes the
snapshot of the first when the statement begins and does not take it again after
waiting for the second. In `ApiClient` a step lasts up to the next `await` on the network
or on a write to the storage: Dart runs one callback at a time and the storage
serves its calls in their order.

### The provider

The provider is external. `Reaches` says which replies leave open whether a prompt
was created, `ReplyAbout` which replies a status query may get. Two providers are
modelled by the constant `Revises`. With `Revises = FALSE` an answer is final: what
it refused or declined is never paid. With `Revises = TRUE` it may say "failed" of
a payment that moves after all (the case `credit_contribution` allows for by
crediting FAILED rows). Success is never reported for money that did not move.

## 3. Runs

| Run | Instance | Shows |
|---|---|---|
| `flow_race` | 1 Airtel contribution, 2 workers, 1 callback, revising provider, 1 fault | one prompt, ledger = status, exhausted is flagged, refinement of the lifecycle |
| `flow_callbacks` | 2 contributions (one of each provider), 1 worker, 2 callbacks, final answers, no faults | totals equal the ledger under duplicates; only paid money is credited, FAILED was never paid, flagged left the sweep |
| `flow_liveness` | 2 contributions without callbacks, 1 fair worker, 1 fault | every contribution decided or flagged; paid money credited or flagged |
| `ledger_txn` | 2 contributions to one project, 3 sessions | atomic credit and fail are implemented by the SQL statements |
| `sessions` | 3 tokens, 2 requests at a time, 2 seconds | rotation, reuse, logout and password change, with clock reading, statement start and commit apart: one usable token, a revoked family stays dead, old access tokens are cut off, but for overlaps |
| `groups` | 2 users, 1 project, 1 budget, 3 contributions, 3 membership rows, 2 requests at a time, 3 moments | memberships, references, cap and audit trail under overlapping handlers |
| `login_guard` | 4 logins, 2 threads, limit 2, tiers 1 and 2, 6 moments | how far window and lockout hold |
| `budgets` | 2 categories, 2 expenses, 3 requests | total = sum; nothing outlives its parent |
| `mobile` | 2 requests and a logout at a time, 2 tokens, 2 attempts | refresh once, sign-in and sign-out last, the screen settles |
| `v_stranded` | violation | section 7, first finding |
| `v_session_survives` | violation | section 7, second finding |
| `v_total_lost` | violation | section 7, third finding |

**Bounds.** The limits are 2 where the code has 5, 10, 20 and 50: with 2 there is a
first attempt, a last one, and the step between, which is all their guards
distinguish (`OUTBOX_MAX_ATTEMPTS` is 1 in `flow_callbacks`, whose state space is the
largest; its other values are in `flow_race`). Two workers or two deliveries are the least
that can race, and contributions interact only through the project's total, through the
order of the outbox and through a worker's batch, so two show it. `MaxFaults` is 1 (0 in
`flow_callbacks`): one death at any point; more of them are covered by the proofs, which
hold for any number. `RECONCILE_BATCH_SIZE` is 1 or 2, so a batch may leave rows for a
later pass. Amounts are distinct (the contribution's number), so that crediting one for
another shows in the sum. Symmetry is over workers, deliveries, sessions and whatever
else is interchangeable, and is used only for safety. In the payment modules only the
fields the properties tell apart are kept, so every state space is finite without a
bound on depth: `prompts` and `push_attempts` stay bounded because no message is pushed
twice, which is itself a checked property. In `Sessions` three tokens make a family of
three, or two families of which one rotates; two requests are the least that overlap.
With `MaxNow` 1 a password change reads one second and commits in it or in the next, and
two that cross read different ones. `v_session_survives` needs two tokens and no clock.

In `groups` two users are an owner and a member, or two who join; three membership rows
let one user join, leave and join again while an old removal is still to commit; a cap of
2 over a day of 1 in 3 moments has a full day, a day that has just ended and one that
overlaps both. In `login_guard` the first tier is reached by one failure and the
second by two, the lockouts are 2 and 4 and the clock runs to 5, so that a lockout
begins, escalates and ends; a reading may be one moment old when it is used
(`MaxDelay`). In `budgets` three requests are two that race and one that deletes what they
race about; the amounts are powers of two, so that a total tells which expenses are in
it. In `mobile` two tokens are a login and one refresh, or two logins. The refresh
after a refresh would need three (the state space is then out of reach), and so does a
second rotation of one family; nested retries are bounded by the same constant. The two
requests are two polls of which one overlaps the other, or a poll left over from a screen
that is gone, a password change or the check at the start. The payment settles to success
only (`Outcome`): the screen treats a failure in the same way, and the proofs are about both.
`MaxRows`, `MaxCode`, `MaxNow` and `MaxToken` bound what the code counts without a limit.

Deadlock checking is off in two runs: in `login_guard` all logins are over at some point
and the clock stops at its bound, and in `budgets` a deleted budget takes no more requests.
Everywhere else something can always happen.

**Fairness.** `FairSpec` assumes weak fairness of each worker's `run_once`
(`run_forever` restarts a pass whatever became of the last one, and each network
call has a timeout) and of ageing. It assumes nothing of payers, callbacks or
answers: the provider may answer "unknown" for ever, which is why the
properties say "decided *or flagged*". A process that dies is restarted
(`restart: unless-stopped`), which `Crash` models as going round the loop. Faults are
finite in number: a worker that dies for ever does not decide anything.

## 4. Properties

* `LedgerMatchesStatus`: a late FAILED never leaves a credit behind a FAILED row.
* `NoLedgerDivergence`: `find_ledger_divergence` returns nothing.
* `CreditOnlyIfPaid`, `AtMostOnePrompt`, `FailedNeverPaid`.
* `ExhaustedIsFlagged`: what the sweep gave up on is always marked, although workers
  overwrite each other's counts. Its converse `FlaggedLeftSweep` holds with one worker
  (`flow_callbacks`) and is violated with two (section 7).
* `LifecycleSpec`: every change of `status` and `raised` is a step of the lifecycle, or
  none. This is where "each contribution counts exactly once" lives.
* `EveryContributionDecided`, `PaidIsCreditedOrFlagged` (liveness).
* `OneLiveToken`: of a family in which no refresh committed while another had read and not
  yet committed. `KilledStaysDead`: of a family in which no refresh overlapped with a
  revocation, in either order: the refresh commits while a revoking statement has its
  snapshot and not its commit, or the revocation commits while the refresh has read.
  The conditions are the code's limit, not the model's: `refresh` takes no lock and looks at
  the row once, the UPDATE looks at its snapshot. The properties say that these windows
  are the only way to a second usable token or to a survivor, through any sequence of
  logins, reuses, logouts, password changes and aborted requests. Without the
  condition the second is `KilledAlwaysDead`, violated (section 7).
* `AccessCutOff`: from the commit of a password change on, no access token that was made before
  the second it had read is accepted, whatever requests were half done, unless two changes crossed (section 7). It promises
  nothing of a token made in that very second, or after the reading and before the
  commit: those stay accepted, in the code and in the model.
* `MembershipSound`: whatever joins, leaves and removals overlap; `uq_chama_member` decides
  between two joins, and a removal that finds its row gone removes nothing else.
* `ReferencesHold`: `delete_project` looks first and deletes later; what was added meanwhile
  must stop it.
* `DailyCapHolds`: over every 24 hours, not only the last. That the project is closed or the
  member removed between gate and insert is a window the code accepts; it is in the model, and
  no property excuses or forbids it, but a deleted project is `ReferencesHold`.
* `AuditExplainsRows`: the trail and the rows say the same, through aborts, removals of
  rows that are gone and updates that overwrite each other. A budget is linked to the project
  of its last event *if that project exists*: when it is deleted the code unlinks the budget
  and the trail does not say so (section 7). That is the only difference.
* `WindowHolds`, `GuessBound`: the limits of the guards, less the time a request may wait
  between the clock and the lock, plus the threads that were past the check when a
  tier was reached. Both slacks are the code's.
* `SpentIsSum`: the total is right unless the last recompute missed a commit; `NoOrphans`.
* `NoSelfInflictedReuse`: the app is taken for a thief only after a refresh was cut short.
  `SignedInStays`: a session lasts until something goes wrong or its user changes the
  password, from when on the app is signed in with dead tokens. `LoggedOutStaysOut`: it
  does not come back unless a refresh was in flight at logout.
* `ResultIsFinal`, `WaitingIsAnswered`: of polls that do not overlap the one that settles.
  With overlap neither holds: a slower poll puts "waiting" back after the timer is gone.
* `InductiveInvariant`, `TxnInvariant`, `SessionInvariant`, `LoginInvariant`, `BudgetInvariant`,
  `MobileInvariant`: what the proofs rest on, checked by TLC too. Each has the type
  invariant of its module as a conjunct; in `login_guard` and `budgets` it is checked only there.

Each property has a mutant in `PROJECT.json`: a plausible bug (dropped SKIP LOCKED,
an ambiguous push retried, an unconditional FAILED, a two-valued query, an
off-by-one in escalation...) under which its run fails.

## 5. Proofs

`PaymentFlowProofs` proves, for every number of contributions, projects, workers,
callbacks and every value of the limits, under the named assumptions
`StoreAssumption` and `WorkerAssumption` (finite set of numbered contributions, positive
amounts and limits):

* `Invariance`: `Spec => []InductiveInvariant`, and from it `TypeCorrectness`,
  `LedgerAgreement`, `SinglePrompt`, `NoUnpaidCredit`, `GivenUpIsFlagged`, `FailureIsTrue`;
* `LedgerNeverDiverges`: `Spec => []NoLedgerDivergence`;
* `MarkedLeftSweep`: `Spec => []FlaggedLeftSweep` if there is one worker (the compose file
  starts one `api` process, which runs one); with two it is false (section 7);
* `Refinement`: `Spec => Lifecycle!Spec`.

None of the properties is inductive alone. `AtMostOnePrompt` needs that a message still
to be pushed has no prompt (`UnpushedIsUnprompted`), which needs that it is in the
hands of one worker (`OneOwner`): two workers past the claim would each push.
`FailedNeverPaid` needs that a failure in anyone's hands is final (`FailuresAreFinal`)
and `CreditOnlyIfPaid` that a success in anyone's hands is true (`AnswersAreTrue`): the answer
was given at an earlier time than the one at which it is acted on.
`LedgerMatchesStatus` needs that whoever credits holds a contribution that exists
(`Existence`). `TypeOK` bounds `outbox_attempts` by the limit, which needs `AttemptsLeft`.
There is a lemma for each part of the invariant and each group of actions.
`LedgerNeverDiverges` is an invariant on top of it: a credit adds its amount to
`raised` and its entry to `ledger`, and the sum over the ledger grows by as much because the
entry was not there before. That is `LedgerMatchesStatus` again, and a second credit
would be the divergence. `MarkedLeftSweep` rests on `CountIsCurrent`: while one worker has
a row in hand, the attempt count its session loaded is still the row's, so writing it back,
incremented, never takes a flagged row below the limit.

`FiniteSums` is what both sums of the models need, for sets of any size: the sum over the
empty set is 0, adding a new element adds its term (`SumAdd`), removing one takes it
away (`SumRemove`), and sums are natural numbers. `MapThenSumSet` is a recursive function
that takes the elements out in the order `CHOOSE` finds them. The induction
theorems cannot be used here (their parameter is an operator), so `SummedUpTo` argues
with the least counterexample: were there no such function for the subsets of up to n
elements, there would be a least such n, and the function for n - 1 could be extended.

`LedgerTxnProofs` proves `TxnInvariance`, `TxnTypes`, `TxnLedgerAgreement` and `TxnRefinement` under
`TxnAssumption`. The invariant says what a session knows from what it holds: locks are
exclusive, what a session inserted nobody else has, what it is about to write still
fits the committed row. `TxnRefinement` is the reason `PaymentStore` may treat a
credit as one step.

`SessionsProofs` proves `SessionInvariance`, `SessionTypes`, `RotationIsExclusive`,
`RevocationSticks` and `CutOffHolds` under `SessionAssumption`, for any number of tokens and
requests. None of the three properties is inductive. A commit breaks them that trusts what
its request read, so the invariant says what may be trusted until then:

* `ReadStillHolds`: while a refresh is in progress its family has not been revoked, unless it
  counts as overlapped, and nothing but the presented token is usable, unless it counts
  as raced.
* `SnapshotIsComplete`: a revoking statement has seen every row its families have, unless a
  refresh that it could not see has committed, which counts the family as overlapped.
  So what its commit leaves behind is dead (`RevokesKeep`).
* `ReadingsAreCurrent`, `CutOffIsLate`: a reading of the clock that is still to be written is
  no earlier than the cut-off, unless another change has written a later one meanwhile
  (`crossed`); the cut-off therefore never moves back.

`GroupsProofs` proves all that the run `groups` checks: `GroupsTypes`, `MembershipIsSound`,
`ReferencesStay`, `DailyCapIsKept` and `AuditExplains`, under
`GroupsAssumption` (the limits are numbers, the cap is positive), for any number of users,
projects, budgets, contributions and requests. `GroupsInvariant` adds what relates a
request to the rows it read:

* `RequestsHold`: the row a removal names was given out and is not the owner's (ids are
  never used twice, `RowsNumbered`), and a project that was found once was created.
  Without it a late `RemoveCommits` could take the owner's membership.
* `GateHolds`: one handler at most is past the gate, and until it inserts its user is under
  the cap, since time and the commits of others only make the last 24 hours emptier.
  `DailyCapHolds` follows because every window that a new contribution falls into has
  only contributions that the gate counted; that they can be counted is
  `ContributionsCounted`.
* `RecordsFollow`: what has not been created has no trail. `MembersRecorded`,
  `ProjectsRecorded`, `ContributionsRecorded` and `LinksRecorded` split the audit property by
  table, for a capture adds to the trail of one table only (`Captured`).
* `NullsHold`: the budgets a deletion has set to NULL are linked to its project until it
  commits, and to no other deletion's. So its commit unlinks what was linked to the project
  that ceases to exist, and nothing else.

`MembersWritten`, `GateWritten`, `AuditWritten` and `LinksWritten` say which actions write which variables,
so that each property is shown step by step for the few actions that can disturb it.

`BudgetsProofs` proves `BudgetInvariance`, `BudgetTypes`, `TotalsAreRecomputed` (`SpentIsSum`) and
`NothingIsOrphaned` (`NoOrphans`) under `BudgetAssumption` (finitely many expenses with
positive amounts), for any number of categories, expenses and requests. Neither is
inductive: the commit that could break them is that of a statement executed earlier.

* `TotalIsCurrent`: what a request read in its sub-select is still the sum of what it will
  leave behind, unless a commit in between marked it `outdated`. Then the commit counts
  the category as `missed`, and `SpentIsSum` says nothing of it.
* `ExpenseInHand`: two requests never add the same expense, and who deletes one knows its
  category. Otherwise a commit would change the sum of a category it does not recompute.
* `LocksKeepCategories`: the key share lock of an INSERT and the deletion of its category
  exclude one another, and who deletes the budget holds all the categories there are.
  Without it an expense or a category could be committed under a parent that is gone.

`LoginGuardProofs` proves `LoginInvariance`, `LoginTypes`, `WindowIsKept` (`WindowHolds`) and
`GuessesAreBounded` (`GuessBound`) under `LoginAssumption` (positive limits, tiers in order,
lockouts not longer than the time failures are kept), for any number of logins, threads
and seconds and any delay between a request's clock and the lock.

* `WindowHolds` speaks of every stretch of time, the code counts one deque. What a purge has
  dropped is older than the window now (`PurgeDropsOld`, `BucketIsComplete`); a request admitted
  with a stamp of at most `MaxDelay` ago (`ReadingsAreRecent`) shares no stretch of
  `WINDOW - MaxDelay` with it. So whoever is in one stretch with a newcomer is still in
  the deque that was counted, and the deque is at least as long as their number
  (`DequeCount`: a sequence has no fewer places than elements).
* `GuessBound` is not inductive since a tier stops those who come, not those who are in.
  `TierHolds` counts those who may still guess within the stretch (`MayGuess`) with those who
  did: verifying a password and failing move a request from one to the other. Only
  passing the check adds to it, and then either the tier has not been reached or the
  lockout since the last failure is over. The last entry of the deque need not be the
  latest failure, only within the delay of it (`LastIsLatest`).

`MobileProofs` proves all that the run `mobile` checks, under `ClientAssumption` and
`PollAssumption`: `MobileInvariance`, `MobileTypes`, `NoReuseByItself`, `SessionHolds`,
`LogoutHolds`, `WaitingEnds` and the action property `ResultHolds`, for any finite number of
requests at a time, tokens and attempts. That removes the tightest bounds of the run: any
number of rotations in a family, nested retries and overlapping polls.

* `FlightIsAwaited`: the request that started a refresh waits for it, and nobody else's is in
  flight (`OneFlight`); so `_refreshFuture` is one at a time.
* `TokensAreFresh`: what is stored, or about to be, was never presented unless a refresh was
  cut short between the server's commit and the store. This is the whole of
  `NoSelfInflictedReuse`, and it needs to say of each step of the refresh which
  token is where.
* `SessionIsWhole`: the same for a session in which nothing went wrong, from the login on until
  the user leaves or the server has changed the password (`PasswordKeeps`); and a session that
  is being checked at the start of the app comes from its death (`SessionCheckedKeeps`).
* `StoreIsEmptied`: after a logout nothing under way can fill the store, except a refresh
  that had left before.
* `PollingIsWatched`: the timer runs only on a screen that says so; without a timer and an
  overlap no poll is watched. A settled screen that counts as not overlapped therefore
  has neither, and nothing can change it: `ResultIsFinal`.

`RequestMoves` keeps the client's invariant through every step of a request that only moves
the request, so that what remains are the steps of the refresh, of login and of logout.

## 6. Only model-checked

Every safety invariant and action property of the passing runs is stated by a theorem. What
stays with TLC:

* `EveryContributionDecided` and `PaidIsCreditedOrFlagged`: liveness under fairness, with
  `ENABLED` in the fairness conditions, is out of the prover's reach.
* `FlaggedLeftSweep` is proved for one worker, the case in which it holds.
* The three violations of section 7 are counterexamples, which the small instance is enough for.
* The operators of `ProviderClient` are tables without recursion; the proofs expand them
  where they are used.

## 7. Where code and documentation disagree

* `v_stranded`. `routers/payments.py:140` says a death between recording and push can no longer
  strand a contribution PENDING with no prompt sent. It can: a claimed message stays
  `PROCESSING` and is never selected again. The row is flagged for review (shown by
  `flow_liveness`), not pushed.
* `v_session_survives`. `auth.py:146` says a detected reuse kills the whole device family,
  `auth.py:210` that a password change invalidates every session. A refresh that read its row
  before such a commit leaves a usable successor in the family, in two ways: it commits
  after the revocation, or it commits first, while the revoking UPDATE (`tokens.py:68`, `:78`),
  whose snapshot has no successor, waits for the row it has marked.
* `v_total_lost`. `budgets.py:18` says the total is recomputed in one UPDATE because two
  requests would otherwise lose one. Two that overlap still do: the sub-select of the
  second does not see the first. The next recompute that no other overlaps repairs it.

More that TLC finds, in instances that are not kept as runs:

* `core/audit.py:5` says the trail applies to every session and does not depend on a developer
  remembering to log a change. The bulk UPDATE that unlinks the budgets of a deleted project
  (`projects.py:143`) changes no object of its session, and the hook records nothing of it
  (`EveryLinkAudited` under `groups.cfg`).
* `auth.py:210` says `tokens_valid_after` also cuts off any access token already issued,
  `security.py:90` every one issued before that moment. It is read from the clock before the
  UPDATEs (`tokens.py:77`) and overwrites what is there: of two changes that cross, the
  earlier reading may commit last, and a token that the other had cut off works again
  (`AccessAlwaysCutOff` under `sessions.cfg`).
* `payment_worker.py:21` and `:222` say a contribution out of attempts is left to a human and
  drops out of the sweep. With two workers the slower one writes back an older count, and
  the flagged row is swept again (`FlaggedLeftSweep` under `flow_race.cfg`). With one
  worker process, as the compose file has it, it holds.

Seen while modelling: `routers/payments.py:252` and
`models/models.py:349` say the raw callback is persisted before any decision; it is only added
to the session (autoflush is off) and committed with the settlement, after the awaited
query, so a handler that dies there (`CallbackDies`) leaves no event. In the app, a logout
whose request fails clears the store but leaves `AuthNotifier` authenticated, since nothing
catches the exception (`auth_provider.dart:114`); any failure of a retry, a lost connection
included, clears the tokens and so signs the user out at the next start; and a successful
`changePassword` (`auth_repository.dart:78`) leaves the app authenticated with tokens that the
server has just revoked, so that its next requests fail until somebody signs in again. No
document says what the app should do in these cases.

## 8. Not modelled

* **The connection pool.** It is SQLAlchemy's queue; a request that gets no connection within
  30 seconds fails, which every model has as an aborted request.
* **Views.** Handlers that only read (lists, details, summaries, contributors) and the read-only
  parts of the app change no state another step depends on.
* **Plain edits.** `update_chama`, `update_category` and the profile write fields nothing reads
  back to decide anything. `update_project` keeps its status only, `update_budget` its link.
* **Groups.** The rate limit of `join_chama` and of contributions (same function as in
  `LoginGuard`, other numbers), `chamas.is_active` (no handler writes it), several chamas
  (they share no row), deletion of a chama (there is none). The audit trail keeps what
  happened to which row and the links of budgets, not who did it nor the other values
  before and after; events of budgets about anything but their link, and of users, are left out.
* **LoginGuard.** Several accounts and addresses share nothing; `reset_all` is for the tests.
  Processes do not share these windows at all: each has its own, and the limits are
  per process.
* **Sessions.** Passwords and their hashing, the uniqueness checks and consent rows of
  `register`, and other users. A login that checked the old password and commits after a
  password change is in the model; nothing promises the contrary.
* **App.** Requests sent before the app died arriving after it restarted, and refusals of a refresh other
  than by its token (rate limit, 30-day expiry), which count as a lost reply. Forms,
  lists, navigation and layout hold no state that could disagree with anything.
* **Payments.** The callback's path token and malformed bodies (they change no row but the
  event), receipts and their uniqueness (an `Abort` in `LedgerTxn`), refunds
  (`LedgerDirection.REVERSAL` and `CANCELLED` are declared but no code writes them), OAuth token
  requests beyond their failure, and wall-clock time.
* **Migrations, schemas, compliance records, observability.** DDL, validation of single
  requests, rows that nobody reads, and logging.

## 9. Running

    tlc -workers 2 -config flow_race.cfg MCPaymentFlow
    tlc -workers 2 -config ledger_txn.cfg MCLedgerTxn
    tlc -workers 2 -config sessions.cfg MCSessions
    tlc -workers 2 -config groups.cfg MCGroups
    tlc -workers 2 -config login_guard.cfg MCLoginGuard
    tlc -workers 2 -config budgets.cfg MCBudgets
    tlc -workers 2 -config mobile.cfg MCMobile
    tlapm PaymentFlowProofs.tla
    tlapm LedgerTxnProofs.tla
    tlapm SessionsProofs.tla
    tlapm GroupsProofs.tla
    tlapm FiniteSums.tla
    tlapm BudgetsProofs.tla
    tlapm LoginGuardProofs.tla
    tlapm MobileProofs.tla
