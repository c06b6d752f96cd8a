-------------------------------- MODULE Groups --------------------------------
(***************************************************************************)
(* One chama with its members, its projects, the contributions opened on   *)
(* them, the budgets linked to them and the audit trail of all that:       *)
(* routers/chamas.py, routers/projects.py, the gate of routers/payments.py *)
(* and the before_flush hook of core/audit.py.                             *)
(*                                                                         *)
(* Handlers are threads with READ COMMITTED sessions: they read, decide    *)
(* and commit, and others commit in between.  The two contribute handlers  *)
(* are coroutines without an await, so the event loop runs one at a time;  *)
(* threads commit in between all the same.                                 *)
(***************************************************************************)
EXTENDS Naturals, FiniteSets

CONSTANTS
    User, NoUser,
    Project, NoProject,
    Budget,         \* budgets of anyone, each linked to a project or to none
    Contribution,   \* contributions that can ever be opened (a bound)
    Request,        \* requests in progress at one time
    DAILY_CONTRIBUTION_CAP,
    Day,            \* the 24 hours of the cap, in ticks
    MaxRows,        \* bound on the chama_members rows ever inserted
    MaxCode,        \* bound on the invite codes ever generated
    MaxNow          \* bound on the clock

ASSUME GroupsAssumption ==
    /\ NoUser \notin User /\ NoProject \notin Project
    /\ DAILY_CONTRIBUTION_CAP \in Nat \ {0} /\ Day \in Nat
    /\ MaxRows \in Nat /\ MaxCode \in Nat /\ MaxNow \in Nat

VARIABLES
    owner,          \* Chama.owner_id, NoUser before the chama exists
    members,        \* chama_members
    rows,           \* how many rows of it were ever inserted
    invite_code,
    project,        \* Project.status, "none" before and "deleted" after
    linked,         \* Budget.linked_project_id
    contributions,
    audit,          \* audit_events, as <<action, table, entity>>
    trail,          \* linked_project_id in the last audit event of each budget
    now,
    req             \* what each request has read and is about to commit

vars == <<owner, members, rows, invite_code, project, linked, contributions,
          audit, trail, now, req>>

ProjectStatus == {"active", "paused", "completed", "cancelled"}
Member == [id : 1..MaxRows, user : User, role : {"owner", "member"}]
ContributionRow == [id : Contribution, payer : User, project : Project, at : 0..MaxNow]

Exists(p) == project[p] \in ProjectStatus
IsMember(u) == \E m \in members : m.user = u
Idle == [op |-> "idle", user |-> NoUser, row |-> 0, project |-> NoProject,
         status |-> "none", nulled |-> {}]

(* Every row and every request is what its columns allow. *)
TypeOK ==
    /\ owner \in User \cup {NoUser}
    /\ rows \in 0..MaxRows /\ members \subseteq Member
    /\ invite_code \in 0..MaxCode
    /\ project \in [Project -> ProjectStatus \cup {"none", "deleted"}]
    /\ linked \in [Budget -> Project \cup {NoProject}]
    /\ trail \in [Budget -> Project \cup {NoProject}]
    /\ contributions \subseteq ContributionRow
    /\ now \in 0..MaxNow
    /\ req \in [Request ->
          [op : {"idle", "join", "remove", "update", "delete", "unlinked", "contribute"},
           user : User \cup {NoUser}, row : 0..MaxRows, project : Project \cup {NoProject},
           status : ProjectStatus \cup {"none"}, nulled : SUBSET Budget]]

Init ==
    /\ owner = NoUser /\ members = {} /\ rows = 0 /\ invite_code = 0
    /\ project = [p \in Project |-> "none"]
    /\ linked = [b \in Budget |-> NoProject] /\ trail = [b \in Budget |-> NoProject]
    /\ contributions = {} /\ audit = {} /\ now = 0
    /\ req = [r \in Request |-> Idle]

-----------------------------------------------------------------------------
(* A handler reads: it begins with what it found. *)
Begins(r, held) ==
    /\ req[r] = Idle
    /\ req' = [req EXCEPT ![r] = held]

Ends(r) == req' = [req EXCEPT ![r] = Idle]

(* capture_changes: the events of a flush are rows of the same transaction.  *)
capture_changes(action, table, entity) ==
    audit' = audit \cup {<<action, table, entity>>}

(* The same for a budget, of whose events the last value of linked_project_id *)
(* is kept.                                                                 *)
capture_link(b, p) == trail' = [trail EXCEPT ![b] = p]

(* Some handler has passed the gate and not yet inserted. *)
Contributing == \E r \in Request : req[r].op = "contribute"

(* The transaction fails on a constraint and nothing of it is kept. *)
Aborts(r) ==
    /\ Ends(r)
    /\ UNCHANGED <<owner, members, rows, invite_code, project, linked,
                   trail, contributions, audit, now>>

-----------------------------------------------------------------------------
(* Chamas *)

(* Mutant: who joins becomes an administrator. *)
InsertMember_admin(u, role) ==
    /\ rows < MaxRows
    /\ rows' = rows + 1
    /\ members' = members \cup {[id |-> rows + 1, user |-> u,
                     role |-> IF role = "owner" THEN role ELSE "admin"]}
    /\ capture_changes("created", "chama_members", rows + 1)

InsertMember(u, role) ==
    /\ rows < MaxRows
    /\ rows' = rows + 1
    /\ members' = members \cup {[id |-> rows + 1, user |-> u, role |-> role]}
    /\ capture_changes("created", "chama_members", rows + 1)

create_chama(u) ==
    /\ owner = NoUser
    /\ owner' = u
    /\ InsertMember(u, "owner")
    /\ UNCHANGED <<invite_code, project, linked, trail, contributions, now, req>>

(* The code presented is the current one, and the user is not a member. *)
JoinReads(r, u, code) ==
    /\ owner # NoUser /\ code = invite_code
    /\ ~IsMember(u)
    /\ Begins(r, [Idle EXCEPT !.op = "join", !.user = u])
    /\ UNCHANGED <<owner, members, rows, invite_code, project, linked,
                   trail, contributions, audit, now>>

(* Mutant: no unique key, only the check made before. *)
JoinCommits_duplicate(r) ==
    /\ req[r].op = "join"
    /\ InsertMember(req[r].user, "member")
    /\ Ends(r)
    /\ UNCHANGED <<owner, invite_code, project, linked, trail, contributions, now>>

(* uq_chama_member decides between two joins of one user. *)
JoinCommits(r) ==
    /\ req[r].op = "join" /\ ~IsMember(req[r].user)
    /\ InsertMember(req[r].user, "member")
    /\ Ends(r)
    /\ UNCHANGED <<owner, invite_code, project, linked, trail, contributions, now>>

JoinAborts(r) ==
    /\ req[r].op = "join" /\ IsMember(req[r].user)
    /\ Aborts(r)

(* leave_chama by a member who is not the owner, remove_member by the owner  *)
(* and not of himself: both keep the row they found.                        *)
FindsMember(r, u, m) ==
    /\ m \in members /\ m.user # owner
    /\ Begins(r, [Idle EXCEPT !.op = "remove", !.user = u, !.row = m.id])
    /\ UNCHANGED <<owner, members, rows, invite_code, project, linked,
                   trail, contributions, audit, now>>

leave_chama(r, m) == FindsMember(r, m.user, m)
remove_member(r, m) == FindsMember(r, owner, m)

(* The DELETE names the row by its id; that it finds none is a warning.     *)
RemoveCommits(r) ==
    /\ req[r].op = "remove"
    /\ members' = {m \in members : m.id # req[r].row}
    /\ capture_changes("deleted", "chama_members", req[r].row)
    /\ Ends(r)
    /\ UNCHANGED <<owner, rows, invite_code, project, linked, trail, contributions, now>>

(* Only the owner gets this far, and nothing that was read is used. *)
regenerate_invite_code ==
    /\ owner # NoUser /\ invite_code < MaxCode
    /\ invite_code' = invite_code + 1
    /\ capture_changes("updated", "chamas", 0)
    /\ UNCHANGED <<owner, members, rows, project, linked, trail, contributions, now, req>>

ChamaStep(r) ==
    \/ \E u \in User : create_chama(u) \/ \E k \in 0..MaxCode : JoinReads(r, u, k)
    \/ \E m \in members : leave_chama(r, m) \/ remove_member(r, m)
    \/ JoinCommits(r) \/ JoinAborts(r) \/ RemoveCommits(r) \/ regenerate_invite_code

-----------------------------------------------------------------------------
(* Projects.  The owner of the chama creates them and stays their owner.    *)

create_chama_project(p) ==
    /\ owner # NoUser /\ project[p] = "none"
    /\ project' = [project EXCEPT ![p] = "active"]
    /\ capture_changes("created", "projects", p)
    /\ UNCHANGED <<owner, members, rows, invite_code, linked, trail, contributions, now, req>>

(* Any status may follow any other. *)
UpdateReads(r, p, s) ==
    /\ Exists(p) /\ IsMember(owner)
    /\ s # project[p]
    /\ Begins(r, [Idle EXCEPT !.op = "update", !.user = owner, !.project = p, !.status = s])
    /\ UNCHANGED <<owner, members, rows, invite_code, project, linked,
                   trail, contributions, audit, now>>

UpdateCommits(r) ==
    LET p == req[r].project IN
    /\ req[r].op = "update" /\ Exists(p)
    /\ project' = [project EXCEPT ![p] = req[r].status]
    /\ capture_changes("updated", "projects", p)
    /\ Ends(r)
    /\ UNCHANGED <<owner, members, rows, invite_code, linked, trail, contributions, now>>

(* An UPDATE of a row that is gone raises StaleDataError. *)
UpdateAborts(r) ==
    /\ req[r].op = "update" /\ ~Exists(req[r].project)
    /\ Aborts(r)

HasPayments(p) == \E k \in contributions : k.project = p

DeleteReads(r, p) ==
    /\ Exists(p) /\ IsMember(owner)
    /\ ~HasPayments(p)
    /\ Begins(r, [Idle EXCEPT !.op = "delete", !.user = owner, !.project = p])
    /\ UNCHANGED <<owner, members, rows, invite_code, project, linked,
                   trail, contributions, audit, now>>

(* A budget row that another transaction has set to NULL stays locked. *)
RowLocked(b) == \E r \in Request : b \in req[r].nulled

(* UPDATE budgets SET linked_project_id = NULL, not committed yet. *)
DeleteUnlinks(r) ==
    LET links == {b \in Budget : linked[b] = req[r].project} IN
    /\ req[r].op = "delete"
    /\ \A b \in links : ~RowLocked(b)
    /\ req' = [req EXCEPT ![r] = [@ EXCEPT !.op = "unlinked", !.nulled = links]]
    /\ UNCHANGED <<owner, members, rows, invite_code, project, linked,
                   trail, contributions, audit, now>>

(* Mutant: no foreign key, only the check made before. *)
Unreferenced_trusting(r) == req[r].op = "unlinked"

(* Nothing refers to the project but what this transaction has set to NULL.  *)
Unreferenced(r) ==
    LET p == req[r].project IN
    /\ ~HasPayments(p)
    /\ \A b \in Budget : linked[b] = p => b \in req[r].nulled

(* The UPDATE of the budgets is a bulk one, which the before_flush hook does  *)
(* not see: trail stays.                                                    *)
DeleteCommits(r) ==
    LET p == req[r].project IN
    /\ req[r].op = "unlinked" /\ Unreferenced(r)
    /\ project' = [project EXCEPT ![p] = "deleted"]
    /\ linked' = [b \in Budget |-> IF b \in req[r].nulled THEN NoProject ELSE linked[b]]
    /\ capture_changes("deleted", "projects", p)
    /\ Ends(r)
    /\ UNCHANGED <<owner, members, rows, invite_code, trail, contributions, now>>

(* The foreign keys of contributions and budgets refuse the DELETE. *)
DeleteAborts(r) ==
    /\ req[r].op = "unlinked" /\ ~Unreferenced(r)
    /\ Aborts(r)

(* Mutant: the hook does not audit budgets. *)
LinkBudget_unaudited(b, p) ==
    /\ ~RowLocked(b)
    /\ linked[b] # p
    /\ p # NoProject => Exists(p)
    /\ linked' = [linked EXCEPT ![b] = p]
    /\ UNCHANGED <<owner, members, rows, invite_code, project, trail, contributions,
                   audit, now, req>>

(* create_budget and update_budget: any project that exists.  Without a      *)
(* change there is no UPDATE and no event.                                  *)
LinkBudget(b, p) ==
    /\ ~RowLocked(b)
    /\ linked[b] # p
    /\ p # NoProject => Exists(p)
    /\ linked' = [linked EXCEPT ![b] = p]
    /\ capture_link(b, p)
    /\ UNCHANGED <<owner, members, rows, invite_code, project, contributions,
                   audit, now, req>>

ProjectStep(r) ==
    \/ \E p \in Project :
         create_chama_project(p) \/ DeleteReads(r, p)
           \/ \E s \in ProjectStatus : UpdateReads(r, p, s)
    \/ UpdateCommits(r) \/ UpdateAborts(r)
    \/ DeleteUnlinks(r) \/ DeleteCommits(r) \/ DeleteAborts(r)

-----------------------------------------------------------------------------
(* Contributions *)

(* _assert_under_daily_cap *)
Recent(u) == {k \in contributions : k.payer = u /\ k.at + Day >= now}
UnderDailyCap(u) == Cardinality(Recent(u)) < DAILY_CONTRIBUTION_CAP

(* Mutant: plain functions, which FastAPI runs in threads. *)
PassGate_threaded(r, u, p) ==
    /\ project[p] = "active" /\ IsMember(u) /\ UnderDailyCap(u)
    /\ Begins(r, [Idle EXCEPT !.op = "contribute", !.user = u, !.project = p])
    /\ UNCHANGED <<owner, members, rows, invite_code, project, linked,
                   trail, contributions, audit, now>>

(* contribute_mpesa and contribute_airtel up to their INSERT: no other       *)
(* contribute handler runs until this one is done.                          *)
PassGate(r, u, p) ==
    /\ ~Contributing
    /\ project[p] = "active" /\ IsMember(u) /\ UnderDailyCap(u)
    /\ Begins(r, [Idle EXCEPT !.op = "contribute", !.user = u, !.project = p])
    /\ UNCHANGED <<owner, members, rows, invite_code, project, linked,
                   trail, contributions, audit, now>>

InsertContribution(r, id) ==
    LET p == req[r].project IN
    /\ req[r].op = "contribute" /\ Exists(p)
    /\ \A k \in contributions : k.id # id
    /\ contributions' = contributions \cup
           {[id |-> id, payer |-> req[r].user, project |-> p, at |-> now]}
    /\ capture_changes("created", "contributions", id)
    /\ Ends(r)
    /\ UNCHANGED <<owner, members, rows, invite_code, project, linked, trail, now>>

(* The foreign key finds no project. *)
InsertAborts(r) ==
    /\ req[r].op = "contribute" /\ ~Exists(req[r].project)
    /\ Aborts(r)

ContributeStep(r) ==
    \/ \E u \in User, p \in Project : PassGate(r, u, p)
    \/ \E id \in Contribution : InsertContribution(r, id)
    \/ InsertAborts(r)

Tick ==
    /\ now < MaxNow
    /\ now' = now + 1
    /\ UNCHANGED <<owner, members, rows, invite_code, project, linked,
                   trail, contributions, audit, req>>

(* The connection or the process dies before the commit. *)
Dies(r) ==
    /\ req[r] # Idle
    /\ Aborts(r)

Next ==
    \/ \E r \in Request : ChamaStep(r) \/ ProjectStep(r) \/ ContributeStep(r) \/ Dies(r)
    \/ \E b \in Budget, p \in Project \cup {NoProject} : LinkBudget(b, p)
    \/ Tick

Spec == Init /\ [][Next]_vars

-----------------------------------------------------------------------------
(* The owner of a chama is in it as its one owner, and nobody is in it twice *)
(* (uq_chama_member), whatever joins, leaves and removals overlap.          *)
MembershipSound ==
    /\ \A m, n \in members : m.user = n.user => m = n
    /\ \A m \in members : m.role = "owner" <=> m.user = owner
    /\ owner # NoUser => IsMember(owner)

(* "Financial records must outlive the project", and no budget keeps a       *)
(* "dangling reference": what is referred to exists, though delete_project   *)
(* looks first and deletes later.                                           *)
ReferencesHold ==
    /\ \A k \in contributions : Exists(k.project)
    /\ \A b \in Budget : linked[b] # NoProject => Exists(linked[b])

(* No member opens more contributions within 24 hours than the cap, though   *)
(* the handler counts them first and inserts later.                         *)
DailyCapHolds ==
    \A u \in User, a \in 0..MaxNow :
        Cardinality({k \in contributions : k.payer = u /\ k.at \in a..(a + Day)})
            <= DAILY_CONTRIBUTION_CAP

(* The audit trail explains the rows: there is a row exactly when its        *)
(* creation is on record and its deletion is not, what has changed is on     *)
(* record as updated, and a budget is linked to the project last on record   *)
(* if that still exists (core/audit.py, one transaction with the change).   *)
On(action, table, entity) == <<action, table, entity>> \in audit

LinkOnRecord(b) ==
    IF trail[b] # NoProject /\ Exists(trail[b]) THEN trail[b] ELSE NoProject

AuditExplainsRows ==
    /\ \A i \in 1..MaxRows : (\E m \in members : m.id = i) <=>
         On("created", "chama_members", i) /\ ~On("deleted", "chama_members", i)
    /\ \A p \in Project : Exists(p) <=>
         On("created", "projects", p) /\ ~On("deleted", "projects", p)
    /\ \A p \in Project : Exists(p) /\ project[p] # "active" => On("updated", "projects", p)
    /\ \A c \in Contribution : (\E k \in contributions : k.id = c) <=>
         On("created", "contributions", c)
    /\ \A b \in Budget : linked[b] = LinkOnRecord(b)

(* "it applies to every Session ...: coverage doesn't depend on a developer   *)
(* remembering to log a change": the last event of a budget has the link it  *)
(* has.                                                                     *)
EveryLinkAudited == \A b \in Budget : linked[b] = trail[b]
=============================================================================
